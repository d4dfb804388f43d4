SPECIFICATION Spec
CONSTANTS
    A = A
    B = B
    V = V
    C = C
    NIL = NIL
    None = None
    Members = {A, B, C}
    Stake <- MCStake
    Nodes = {A, B}
    Amnesiac = {}
    MaxRestarts = 0
    Values = {V}
    ValidValues = {V}
    Candidates <- MCCandidates
    Synced <- MCSynced
    Proposer <- MCProposer
    MaxRound = 1
    Elapses = {TRUE, FALSE}
    ByzMsgs <- MCByzMsgs
PROPERTY Line28AsCommented
CHECK_DEADLOCK FALSE
