SPECIFICATION FairSpec
CONSTANTS
  N = 2
  Socks = {1}
  Room = 1
PROPERTY CrashedIsRespawned
CHECK_DEADLOCK FALSE
