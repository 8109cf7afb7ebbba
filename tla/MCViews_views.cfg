SPECIFICATION ViewsFairSpec
CONSTANTS
    View <- MCView
    Files <- MCFiles
    Dir <- MCDir
    Name <- MCName
    Inherits <- MCInherits
    Requests <- MCRequests
    Namespace = "app"
    MaxLayouts = 3
    MaxTime = 3
    MaxEdits = 2
INVARIANT FreshUnlessDisturbed
INVARIANT PageComposed
INVARIANT AnsweredOnceUnlessFailed
PROPERTY RenderAnswered
CHECK_DEADLOCK FALSE
