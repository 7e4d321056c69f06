SPECIFICATION Spec
SYMMETRY Symmetry
CONSTANTS
  Addr = {a1, a2, a3}
  N = 2
  ObjSize = 2
  Word = 8
  MaxKeys = 5
  NULL = NULL
INVARIANT NoDoubleOwner
CHECK_DEADLOCK FALSE
