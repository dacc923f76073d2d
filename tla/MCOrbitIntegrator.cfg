CONSTANTS
  Threads = {h1, h2}
  Epochs <- AllEpochs
  Days <- MCDays
  Clocks <- NoonClocks
  MaxSteps = 2
  StepBound = 4

SPECIFICATION Spec

CONSTRAINT Followed

INVARIANTS
  FromEpoch
  EpochIsZero

PROPERTY PositionReturns
