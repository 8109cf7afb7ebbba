SPECIFICATION Spec
CONSTANTS
  Names = {a}
  MaxTimers = 2
INVARIANT OneTimerPerName
CHECK_DEADLOCK FALSE
