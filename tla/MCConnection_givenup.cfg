SPECIFICATION Spec
CONSTANTS
  NReq = 1
  Profiles <- GivenUp
  Pipelining = FALSE
  MaxChunks = 1
INVARIANT NoNullResponse
CHECK_DEADLOCK FALSE
