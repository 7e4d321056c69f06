SPECIFICATION Spec
CONSTANT
  MaxPieces <- MCMaxPieces
INVARIANTS Utf8IsRfc3629 AcceptsJson MemoryIsKept PrintsWhatItRead
CHECK_DEADLOCK FALSE
