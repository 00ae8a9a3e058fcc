SPECIFICATION LiveFilesSpec
CONSTANTS
  Nothing = Nothing
  A = A B = B
  r1 = r1 r2 = r2 r3 = r3 r4 = r4
  Dirs = {A, B}
  Ids = {r1, r2, r3}
  MaxTransfers = 1
  MaxChunks = 1
  MaxSlices = 2
CHECK_DEADLOCK FALSE
INVARIANTS ShownIsMeant PullsServed
PROPERTIES DownloadSettles
