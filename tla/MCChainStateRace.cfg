SPECIFICATION Spec
CONSTANTS
    Blocks <- MCBlocks
    Parent <- MCParent
    BadBlocks = {}
    BadScripts = {}
    Rpcs = {"invalidate"}
    Concurrent = TRUE
    MinBlocksToKeep = 1
    MaxCommands = 1
    None = None
INVARIANT CandidateLeft
CHECK_DEADLOCK FALSE
