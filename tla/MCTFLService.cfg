SPECIFICATION FairSpec
CONSTANTS
    Blocks = {0, 1, 2, 3, 4, 5, 11, 12}
    Genesis = 0
    Ancestors <- MCAncestors
    Hash <- MCHash
    Sigma = 2
    MaxAdvance = 1
    ReorgLimit = 3
    ReorgDepth = 2
    Bonded = {2, 3, 12}
    ConfigRoster = ConfigRoster
    MaxDecided = 2
    MaxCrashes = 2
    None = None
    Torn = Torn
INVARIANTS TypeOK StoreFollowsConsensus FinalityIsSettled RosterFollowsFinality
PROPERTIES StoreOnlyGrows ProposalsExtendFinality ImplementsFinality CatchesUp
CHECK_DEADLOCK FALSE
