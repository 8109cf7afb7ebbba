SPECIFICATION FairSpec
CONSTANTS
  Names = {a, b}
  MaxTimers = 3
INVARIANT TypeOK
INVARIANT RegisteredIsArmed
INVARIANT ArmedIsRegistered
PROPERTY ClearedNeverFires
PROPERTY TimeoutReleased
CHECK_DEADLOCK FALSE
