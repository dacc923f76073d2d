CONSTANTS
  Conns = {c1, c2}
  Workers = {w1}
  Clients = {k1, k2}
  MaxChoices = {1}
  Areas = {a}
  Malformed = bad
  NoConn = NoConn
  NoLine = NoLine
  NoWorker = NoWorker
  InBound = 1
  OutBound = 1
  Faults = {"accept_error", "insert_failure", "connection_lost"}
  DecimalComma = TRUE
  NetFaults = {"connect_error", "connection_reset"}
  FaultBound = 1
SPECIFICATION SystemLiveSpec
INVARIANTS ConnectedAreRegistered PlacesHeldByClients RequestsInStep
PROPERTIES PlaceGivenBack CallsReturn
