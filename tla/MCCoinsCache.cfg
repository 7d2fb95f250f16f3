CONSTANTS
    Outpoints = {o1, o2}
    Coins = {c1, c2, cu}
    Unspendable = {cu}
    Spent = spent
    Blocks = {b1, b2}
    Null = null
    Absent = absent
SPECIFICATION Spec
INVARIANTS TypeOK FreshSound CleanSound NoLogicError
PROPERTY UtxoRefinement
