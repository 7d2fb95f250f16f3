SPECIFICATION FairSpec
CONSTANTS
    c1 = c1
    c4 = c4
    a = a
    b = b
    d = d
    Blocks <- MCBlocks
    Parent <- MCParent
    Outpoints <- MCOutpoints
    Txs <- MCTxs
    Rotated = {}
    Null = Null
    MaxCrashes = 2
INVARIANTS TypeOK DbIsUtxo DbIsBetween Restartable
PROPERTIES FlushIsAtomic RunsAgain
CHECK_DEADLOCK FALSE
