SPECIFICATION Spec
CONSTANTS
  N = 2
  Socks = {1}
  Room = 1
INVARIANT StoppedMeansDead
CHECK_DEADLOCK FALSE
