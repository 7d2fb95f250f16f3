SPECIFICATION Spec
CONSTANTS
    kA = kA
    kB = kB
    kC = kC
    Keys = {kA, kB, kC}
    NoChange = NoChange
    Blocks <- ForkBlocks
    Parent <- ForkParent
    XField <- ForkXField
    MaxHeaders = 3
    MaxCrashes = 2
INVARIANTS TypeOK KeyByHeight ChangesStored HistorySorted NeverAborts NextHeaderAccepted
CHECK_DEADLOCK FALSE
