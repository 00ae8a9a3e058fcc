CONSTANTS
  None = None
  X = X  Y = Y
  h1 = h1 h2 = h2 h3 = h3
  c1 = c1 c2 = c2 c3 = c3
  d1 = d1 d2 = d2
  HostIds = {X}
  HostConns = {h1, h2}
  WindowConns = {c1, c2}
  Devices = {d1}
  HostOf <- OneHost
  MaxHosts = 1
  MaxClientsPerHost = 2
  MaxPendingHandshakes = 1
  IndexCount = 2
  SendMayThrow = FALSE
SPECIFICATION Spec
SYMMETRY Connections
INVARIANTS
  RegistryConsistent
  StreamsConsistent
  IndexRouting
  GracePeriod
  NoOrphanSessions
PROPERTIES
  HandoffKeepsWindows
  ImplementsAttachment
CHECK_DEADLOCK FALSE
