SPECIFICATION FairSpec
CONSTANTS
    A = A
    B = B
    V = V
    NIL = NIL
    None = None
    Members = {A, B}
    Stake <- MCStake
    Nodes = {A, B}
    Amnesiac = {}
    MaxRestarts = 0
    Values = {V}
    ValidValues = {V}
    Candidates <- MCCandidates
    Synced <- MCSynced
    Proposer <- MCProposer
    MaxRound = 1
    Elapses = {TRUE, FALSE}
    ByzMsgs = {}
PROPERTY RoundsAdvance
CHECK_DEADLOCK FALSE
