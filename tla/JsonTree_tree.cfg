SPECIFICATION Spec
SYMMETRY Symmetry
CONSTANTS
  Node = {n1, n2, n3, n4, n5, n6}
  MaxBuilt = 4
  MaxCopied = 3
  Name = {"k"}
  NULL = NULL
INVARIANTS Linked DeleteIsSafe JsonCheck CopyIsEqual
PROPERTIES ImplementsForest DeletesTree
CHECK_DEADLOCK FALSE
