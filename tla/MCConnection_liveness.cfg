SPECIFICATION FairSpec
CONSTANTS
  NReq = 2
  Profiles <- Answerable
  Pipelining = FALSE
  MaxChunks = 1
INVARIANT ResetOnlyWhenAnswered
PROPERTY CloseOnlyWhenSent
PROPERTY EveryRequestAnswered
CHECK_DEADLOCK FALSE
