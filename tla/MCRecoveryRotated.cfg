SPECIFICATION Spec
CONSTANTS
    c1 = c1
    c4 = c4
    a = a
    b = b
    d = d
    Blocks <- MCBlocks
    Parent <- MCParent
    Outpoints <- MCOutpoints
    Txs <- MCTxs
    Rotated = {3}
    Null = Null
    MaxCrashes = 1
INVARIANT Restartable
CHECK_DEADLOCK FALSE
