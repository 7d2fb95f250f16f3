CONSTANTS
    Workers = {w1}
    Master = m
    Checks = {c1}
    Failing = {c1}
    nBatchSize = 2
    NoThread = none
SPECIFICATION FairSpec
PROPERTY WorkersStop
CHECK_DEADLOCK FALSE
