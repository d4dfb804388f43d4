SPECIFICATION Spec
CONSTANTS
    A = A
    B = B
    C = C
    V = V
    W = W
    NIL = NIL
    None = None
    Members = {A, B, C}
    Stake <- MCStake
    Nodes = {A, B}
    Amnesiac = {}
    MaxRestarts = 0
    Values = {V, W}
    ValidValues = {V, W}
    Candidates <- MCCandidates
    Synced <- MCSynced
    Proposer <- MCProposer
    MaxRound = 1
    Elapses = {TRUE, FALSE}
    ByzMsgs <- MCByzMsgs
INVARIANTS
    InductiveInvariant
    NoEquivocation
    SafeUnlocking
PROPERTY LocksAdvance
CHECK_DEADLOCK FALSE
