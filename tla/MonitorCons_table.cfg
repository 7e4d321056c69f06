SPECIFICATION Spec
CONSTANTS
  MaxCons = 3
  Overrun = 1
  TypeStr = {"XL3", "tape", "disk"}
  Known = {"XL3"}
  Place = {p1, p2}
  Session = {s1, s2}
  NULL = NULL
INVARIANTS CurIsFirstFree ValidIffOpen NoHeapMisuse OneController
PROPERTY StopClosesWhatItNames
CHECK_DEADLOCK FALSE
