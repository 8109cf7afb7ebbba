CONSTANTS
    Sessions <- MCSessions
    Size <- MCSize
    MaxBuf = 3
    CutHeads = FALSE
SPECIFICATION ParserFairSpec
INVARIANT ParsedAsSent
PROPERTY EveryRequestParsed
CHECK_DEADLOCK FALSE
