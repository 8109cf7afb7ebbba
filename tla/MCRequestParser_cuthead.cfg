CONSTANTS
    Sessions <- MCCutSessions
    Size <- MCSize
    MaxBuf = 3
    CutHeads = TRUE
SPECIFICATION ParserSpec
INVARIANT ValidatedWhenEnded
CHECK_DEADLOCK FALSE
