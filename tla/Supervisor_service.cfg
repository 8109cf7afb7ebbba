SPECIFICATION FairSpec
CONSTANTS
  N = 2
  Socks = {1, 2, 3}
  Room = 1
INVARIANT TypeOK
INVARIANT Balanced
INVARIANT DroppedByTheDead
PROPERTY EveryConnectionSettled
PROPERTY CrashEndsService
PROPERTY ShutdownCompletes
CHECK_DEADLOCK FALSE
