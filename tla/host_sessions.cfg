SPECIFICATION LiveSpec
CONSTANTS
  None = None
  AutoStart = AutoStart
  s1 = s1
  s2 = s2
  Streams = {s1, s2}
  Indices = {0}
  FAST_FAILURE_LIMIT = 2
CHECK_DEADLOCK FALSE
INVARIANTS InputRouting NothingLeftBehind EveryWindowAnswered
PROPERTIES WindowHears
