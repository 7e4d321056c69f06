SPECIFICATION Spec
CONSTANTS
  NULL = NULL
  Doc <- MCDoc
  Url <- MCUrl
  Rev = {"r"}
  Byte = {"quote", "x"}
  Junk = "junk"
  MaxChunk = 2
  MaxResp = 2
  MaxUrl = 5
  MaxFile = 1
INVARIANTS SendsInside BodyIsDocument ResponseIsWhatArrived UrlIsParsable
CHECK_DEADLOCK FALSE
