SPECIFICATION LiveSpec
CONSTANTS
  None = None
  s1 = s1 s2 = s2
  Summaries = {s1, s2}
  Sockets = {1, 2}
  MaxClients = 1
  MaxInbox = 2
CHECK_DEADLOCK FALSE
INVARIANTS OneLink QuietMeansFresh
PROPERTIES LinkReturns
