\* Two callers with two messages each on a queue of two cells and files of
\* one message, over two sessions.
SPECIFICATION Spec
CONSTANTS
  Callers = {a, b}
  Control = Control
  Ids = {1, 2}
  Size = 2
  MaxFiles = 1
  MaxSize = 1
  NoOne = NoOne
  NoMessage = NoMessage
  Terminate = Terminate
  MaxLogs = 3
  MaxStarts = 2
INVARIANTS FilesKeepNewest NothingLost QuietCallersNeverCrash
PROPERTY LogCallsReturn
CHECK_DEADLOCK FALSE
