SPECIFICATION Spec
CONSTANTS
  Xl3Con = {x1}
  OtherCon = {m1}
  SizelessCon = {u1}
  PktSize = 2
  MaxRead = 4
  MaxInput = 2
  MaxBundles = 2
  N = 3
  NumPmts = 2
  MaxCharge = 2
  SumWord = 7
  Word = 8
  MaxKeys = 4
  NULL = NULL
INVARIANT WatcherSurvives
CHECK_DEADLOCK FALSE
