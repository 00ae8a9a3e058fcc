CONSTANTS
  None = None
  X = X  Y = Y
  h1 = h1 h2 = h2 h3 = h3
  c1 = c1 c2 = c2 c3 = c3
  d1 = d1 d2 = d2
  HostIds = {X, Y}
  HostConns = {h1, h2}
  WindowConns = {c1}
  Devices = {d1, d2}
  HostOf <- TwoHosts
  MaxHosts = 1
  MaxClientsPerHost = 1
  MaxPendingHandshakes = 1
  IndexCount = 1
  SendMayThrow = TRUE
SPECIFICATION LiveSpec
INVARIANTS
  AdmissionHolds
PROPERTIES
  NobodyWaitsForever
  EventsStayApart
CHECK_DEADLOCK FALSE
