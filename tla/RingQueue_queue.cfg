SPECIFICATION QueueSpec
CONSTANTS
  Addr = {a1, a2, a3, a4}
  N = 3
  ObjSize = 2
  Word = 16
  MaxKeys = 3
  NULL = NULL
INVARIANT WindowHoldsKeys
INVARIANT OneOwner
PROPERTY FifoSpec
