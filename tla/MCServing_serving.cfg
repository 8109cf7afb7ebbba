CONSTANTS
    Routers <- MCRouters
    Root = "root"
    PathOf <- MCPathOf
    None = None
    Setups <- MCSetups
    RuleSet <- MCRuleSet
    Requests <- MCRequests
    FilesOf <- MCFilesOf
SPECIFICATION ServingFairSpec
INVARIANT LinksAgree
INVARIANT ResolvedAsMeant
INVARIANT GuardedAlongTheWay
INVARIANT AnswerEndsWork
INVARIANT AfterwardsRuns
PROPERTY RequestAnswered
CHECK_DEADLOCK FALSE
