SPECIFICATION FairSpec
CONSTANTS
    Servers = {s1, s2}
    Callers = {"validator", "rpc"}
    Callbacks <- MCCallbacks
    NoCallback = NoCallback
    Blocks = {0, 1, 2, 3}
    Parent <- MCParent
    MaxPending = 1
    Scenarios <- MCScenarios
INVARIANT TypeOK NoOverlap NothingStuck IndexComplete LocatorSound AnswerTrue
PROPERTY QueueSpec QueueDrains CatchesUp
CHECK_DEADLOCK FALSE
