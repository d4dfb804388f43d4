SPECIFICATION GoodSpec
CONSTANTS
    A = A
    B = B
    C = C
    O = O
    V = V
    W = W
    NIL = NIL
    None = None
    Members = {A, B, C}
    Stake <- MCStake
    Nodes = {A, B, O}
    Amnesiac = {}
    MaxRestarts = 0
    Values = {V, W}
    ValidValues = {V}
    Candidates <- MCCandidates
    Synced <- MCSynced
    Proposer <- MCProposer
    MaxRound = 0
    Elapses = {FALSE}
    ByzMsgs <- MCByzMsgs
PROPERTY EveryoneDecides
CHECK_DEADLOCK FALSE
