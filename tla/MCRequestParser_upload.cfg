CONSTANTS
    Sessions <- MCUploadSessions
    Size <- MCSize
    MaxBuf = 3
    CutHeads = FALSE
SPECIFICATION ParserFairSpec
PROPERTY EveryUploadParsed
CHECK_DEADLOCK FALSE
