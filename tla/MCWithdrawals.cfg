SPECIFICATION Spec
CONSTANTS
    Blocks <- MCBlocks
    Genesis = 0
    Ancestors <- MCAncestors
    Hash <- MCHash
    Contents <- MCContents
    Keys = {1, 2, 3}
    Finalizers = {"F", "G"}
    Reward = 10
    ReorgLimit = 3
INVARIANT NothingPanics
