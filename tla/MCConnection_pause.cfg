SPECIFICATION Spec
CONSTANTS
  NReq = 1
  Profiles <- Pausing
  Pipelining = FALSE
  MaxChunks = 1
INVARIANT ResumedOnlyWhenPaused
CHECK_DEADLOCK FALSE
