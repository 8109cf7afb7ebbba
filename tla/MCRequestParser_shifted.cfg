CONSTANTS
    Sessions <- MCRefusedSessions
    Size <- MCSize
    MaxBuf = 3
    CutHeads = FALSE
SPECIFICATION ParserSpec
INVARIANT BodiesAsSent
CHECK_DEADLOCK FALSE
