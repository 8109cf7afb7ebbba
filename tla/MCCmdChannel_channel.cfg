SPECIFICATION FairSpec
CONSTANTS
  Close = Close
  Log = Log
  User = User
  Cmds <- MCCmds
  Size <- MCSize
  Lengths <- MCLengths
  Garbage = Garbage
  IdSize = 1
  LenSize = 2
  Capacity = 6
  PipeBuf = 2
  ReadSize = 5
  MaxCmds = 3
CHECK_DEADLOCK FALSE
INVARIANT TypeOK
PROPERTY ImplementsQueue
PROPERTY EveryCommandDelivered
