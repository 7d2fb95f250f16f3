SPECIFICATION Spec
CONSTANTS
    Blocks <- MCBlocks
    Parent <- MCParent
    BadBlocks = {}
    BadScripts = {}
    Rpcs = {"invalidate"}
    Concurrent = FALSE
    MinBlocksToKeep = 1
    MaxCommands = 1
    None = None
INVARIANT ChainedExact
CHECK_DEADLOCK FALSE
