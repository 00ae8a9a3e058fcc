SPECIFICATION Spec
CONSTANTS
  None = None
  h1 = h1 h2 = h2
  d1 = d1 d2 = d2 d3 = d3
  c1 = c1
  Hosts = {h1, h2}
  Devices = {d1, d2, d3}
  Codes = {c1}
  maxDevices = 2
  pairingTtlMs = 2
  deviceTtlMs = 4
  SaveEvery = 2
  MaxTime = 6
SYMMETRY Alike
INVARIANTS StaysPaired GoneForGood
PROPERTIES OldestGivesWay
