CONSTANTS
  Conns = {c1, c2, c3}
  Workers = {w1, w2}
  MaxChoices = {2}
  Areas = {a}
  Malformed = bad
  NoConn = NoConn
  NoLine = NoLine
  NoWorker = NoWorker
  InBound = 1
  OutBound = 1
  Faults = {"accept_error", "insert_failure", "connection_lost"}
SYMMETRY Symmetry
SPECIFICATION Spec
INVARIANTS IndInv CapacityRespected OneAcceptAtATime IteratorsValid OnlyLostClientsStranded
PROPERTY OnlyGoneClientsRemoved
CHECK_DEADLOCK FALSE
