SPECIFICATION Spec
CONSTANTS
    kA = kA
    kB = kB
    kC = kC
    Keys = {kA, kB, kC}
    NoChange = NoChange
    Blocks <- RepeatBlocks
    Parent <- RepeatParent
    XField <- RepeatXField
    MaxHeaders = 3
    MaxCrashes = 1
INVARIANT KeyByHeight
CHECK_DEADLOCK FALSE
