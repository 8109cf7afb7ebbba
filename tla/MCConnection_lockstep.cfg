SPECIFICATION Spec
CONSTANTS
  NReq = 2
  Profiles <- Served
  Pipelining = FALSE
  MaxChunks = 1
INVARIANT TypeOK
INVARIANT HandlerRunsOnlyWhenGranted
INVARIANT NoNullResponse
INVARIANT ResumedOnlyWhenPaused
INVARIANT WireOrder
CHECK_DEADLOCK FALSE
