SPECIFICATION FairSpec
CONSTANTS
  NReq = 1
  Profiles <- Silent
  Pipelining = FALSE
  MaxChunks = 1
PROPERTY EveryRequestAnswered
CHECK_DEADLOCK FALSE
