SPECIFICATION FairSpec
CONSTANTS
    Blocks <- MCBlocks
    Genesis = 0
    Ancestors <- MCAncestors
    Hash <- MCHash
    Checkpointed = {1, 2}
    Lookahead = 2
    Pointer <- MCPointer
    Invalid = {}
    Decisions <- MCDecisions
    ReorgLimit = 2
    MaxForks = 3
    MaxErrors = 1
    MaxFaults = 1
INVARIANTS
    TypeOK
    ChainsStartAtTheTip
    ReadersSeeOneChain
    NothingCommittedTwice
    QueueAgrees
    FinalizesTheDecision
    InductiveInvariant
PROPERTIES
    CommitsFollowTheTip
    BlocksArrive
