SPECIFICATION Spec
CONSTANTS
  NReq = 2
  Profiles <- Late
  Pipelining = FALSE
  MaxChunks = 1
PROPERTY CloseOnlyWhenSent
CHECK_DEADLOCK FALSE
