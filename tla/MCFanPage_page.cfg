SPECIFICATION PageFairSpec
CONSTANTS
  Pages <- MCPages
  Words <- MCWords
  Body <- MCBody
  Parsers = {"md"}
  Sections = {"s"}
INVARIANT TokensAsMeant
INVARIANT NothingLost
INVARIANT BuffersBalanced
INVARIANT PageShowsText
PROPERTY PageIsSettled
CHECK_DEADLOCK FALSE
