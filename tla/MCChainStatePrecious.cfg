SPECIFICATION Spec
CONSTANTS
    Blocks <- MCBlocks
    Parent <- MCParent
    BadBlocks = {}
    BadScripts = {}
    Rpcs = {"precious"}
    Concurrent = FALSE
    MinBlocksToKeep = 1
    MaxCommands = 3
    None = None
INVARIANT CandidatesComplete
CHECK_DEADLOCK FALSE
