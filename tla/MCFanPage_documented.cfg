SPECIFICATION PageSpec
CONSTANTS
  Pages <- MCEscapedPages
  \* or one of
  \* Pages <- MCDocumentedPages
  \* Pages <- MCStatementPages
  \* Pages <- MCAfterPages
  \* Pages <- MCWordPages
  Words <- MCWords
  Body <- MCBody
  Parsers = {"md"}
  Sections = {"s"}
INVARIANT PageShowsText
CHECK_DEADLOCK FALSE
