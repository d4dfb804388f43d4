SPECIFICATION Spec
CONSTANTS
    A = A
    B = B
    V = V
    W = W
    NIL = NIL
    None = None
    Members = {A, B}
    Stake <- MCStake
    Nodes = {A, B}
    Amnesiac = {}
    MaxRestarts = 0
    Values = {V, W}
    ValidValues = {V, W}
    Candidates <- MCCandidates
    Synced <- MCSynced
    Proposer <- MCProposer
    MaxRound = 1
    Elapses = {TRUE, FALSE}
    ByzMsgs = {}
INVARIANT Agreement
CHECK_DEADLOCK FALSE
