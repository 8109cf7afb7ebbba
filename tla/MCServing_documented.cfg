CONSTANTS
    Routers <- MCRouters
    Root = "root"
    PathOf <- MCPathOf
    None = None
    Setups <- MCSetups
    RuleSet <- MCRuleSet
    Requests <- MCRequests
    FilesOf <- MCFilesOf
SPECIFICATION ServingSpec
INVARIANT ResolvedAsDocumented
\* or one of
\* INVARIANT NoRouterMissing
\* INVARIANT NothingAfterFile
CHECK_DEADLOCK FALSE
