SPECIFICATION LiveFontSpec
CONSTANTS
  None = None
  mono = mono serif = serif plain = plain
  monoFile = monoFile plainFile = plainFile monoCjk = monoCjk serifCjk = serifCjk
  rare = rare
  Fonts = {mono, serif, plain}
  FileOf <- TheFile
  SourceOf <- TheSource
  Common = common
  Rare = {rare}
  Doubtful = {plainFile, monoCjk}
  Limit = 2
  Ids = {1, 2}
  MaxReports = 2
CHECK_DEADLOCK FALSE
INVARIANTS FontIsCurrent
PROPERTIES LoadSettles
