SPECIFICATION LiveLockSpec
CONSTANTS
  p1 = p1 p2 = p2 p3 = p3
  Procs = {p1, p2, p3}
  Nobody = Nobody
PROPERTIES
  HeldLockIsKept
  DeadOwnersGiveWay
CHECK_DEADLOCK FALSE
