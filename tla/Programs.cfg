SPECIFICATION MCSpec
CONSTANTS
  Keys = {1, 2, 3, 4}
  Addr = {a1, a2, a3, a4}
  Null = Null
  Values <- MCValues
  MaxLength = 4
  Word = 16
  Lines <- MCLines
  BufferSize = 3
  IntDigits = 2
  MaxLines = 2
  Characters = {"1", "-", "/"}
  Longest = 9
  Words <- MCWords
  Files <- MCFiles
  Queries <- MCQueries
  MaxQueries = 2
  Objects = {s1, s2, s3}
  Fd = {3, 4}
  NoFd = NoFd
  BufSize = 2
  MaxBytes = 5
  MaxTyped = 3
INVARIANTS
  TreeIsSet
  SortsRight
  SearchRight
  
  QueryAnswers
  DescriptorsOwned
  LinesShown
PROPERTIES
  HarmBeginsInDel
  ClientEnds
CHECK_DEADLOCK FALSE
