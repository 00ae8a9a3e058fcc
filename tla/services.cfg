SPECIFICATION LiveSpec
CONSTANTS
  host = host
  c1 = c1
  None = None
  Names = {host}
  Commands = {c1}
  MaxStarts = 3
  MaxRuns = 2
  SpawnOutcomes = {"runs", "throws"}
CHECK_DEADLOCK FALSE
INVARIANTS OneOfEach
PROPERTIES LedgerKeeps RestartPolicy
