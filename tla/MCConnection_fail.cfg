SPECIFICATION Spec
CONSTANTS
  NReq = 1
  Profiles <- Failing
  Pipelining = FALSE
  MaxChunks = 1
INVARIANT AnsweredOnce
CHECK_DEADLOCK FALSE
