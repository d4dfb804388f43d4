SPECIFICATION Spec
CONSTANTS
    A = A
    B = B
    C = C
    V = V
    W = W
    NIL = NIL
    None = None
    Members = {A, B, C}
    Stake <- MCStake
    Nodes = {A, B, C}
    Amnesiac = {B}
    MaxRestarts = 1
    Values = {V, W}
    ValidValues = {V, W}
    Candidates <- MCCandidates
    Synced <- MCSynced
    Proposer <- MCProposer
    MaxRound = 0
    Elapses = {FALSE}
    ByzMsgs = {}
SYMMETRY MCSymmetry
INVARIANTS
    Agreement
    DecisionsValid
PROPERTY DecidesOnce
CHECK_DEADLOCK FALSE
