CONSTANTS
  Conns = {c1, c2}
  Workers = {w1, w2}
  MaxChoices = {0, 1}
  Areas = {a}
  Malformed = bad
  NoConn = NoConn
  NoLine = NoLine
  NoWorker = NoWorker
  InBound = 1
  OutBound = 1
  Faults = {}
  StartBound = 1
  LoadBound = 2
  ControlFaults = {"start_error", "acceptor_error"}
CHECK_DEADLOCK FALSE
SYMMETRY Symmetry
SPECIFICATION LifecycleSpec
INVARIANT NothingRunsWhenDown
 
