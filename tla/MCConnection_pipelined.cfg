SPECIFICATION Spec
CONSTANTS
  NReq = 3
  Profiles <- Prompt
  Pipelining = TRUE
  MaxChunks = 1
INVARIANT WireOrder
CHECK_DEADLOCK FALSE
