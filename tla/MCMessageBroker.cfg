\* A client and a peer, two types of which one begins the other, three messages or starts.
SPECIFICATION Spec
CONSTANTS
  Clients = {a}
  Peers = {p}
  Types = {"short", "long"}
  Begins <- MCBegins
  MaxCalls = 3
INVARIANTS DueHandled LoopEndsByPrefix QuietStopsNeverCrash
PROPERTY StopsTakeEffect
CHECK_DEADLOCK FALSE
