SPECIFICATION FairSpec
CONSTANTS
    Blocks <- MCBlocks
    Parent <- MCParent
    BadBlocks = {3}
    BadScripts = {5}
    Rpcs = {"precious", "invalidate", "reconsider", "restart"}
    Concurrent = FALSE
    MinBlocksToKeep = 1
    MaxCommands = 2
    None = None
INVARIANTS TypeOK CandidateLeft CandidatesComplete CandidatesSound FailedFromInvalid FailedBlocksKnown ActiveValid BestChainActive
PROPERTY Returns
CHECK_DEADLOCK FALSE
