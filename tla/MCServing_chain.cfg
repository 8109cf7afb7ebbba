CONSTANTS
    Routers <- MCRouters
    Root = "root"
    PathOf <- MCPathOf
    None = None
    Setups <- MCSetups
    RuleSet <- MCRuleSet
    Requests <- MCRequests
    FilesOf <- MCFilesOf
SPECIFICATION ServingSpec
INVARIANT GrantedFirst
PROPERTY ChainSpec
CHECK_DEADLOCK FALSE
