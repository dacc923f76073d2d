CONSTANTS
  Satellites = {1, 2}
  Files <- MCFiles
  CatalogBound = 3
  WorkerThreads = 2
  DecimalComma = TRUE
  Areas = {{1}, {1, 2}}
  Placeless = {{}, {2}}
  TornBound = 1

SPECIFICATION AnswersSpec

INVARIANTS
  ElementsMatched
  
  RefusalsExplained
