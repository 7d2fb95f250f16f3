CONSTANTS
    Workers = {w1, w2}
    Master = m
    Checks = {c1, c2, c3, c4}
    Failing = {c1}
    nBatchSize = 2
    NoThread = none
SPECIFICATION FairSpec
INVARIANTS TypeOK TodoCount WaitSound OneTaker
PROPERTY WaitReturns
CHECK_DEADLOCK FALSE
