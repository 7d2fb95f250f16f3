------------------------------ MODULE UtxoSet ------------------------------
(***************************************************************************)
(* What the stack of coin views promises its users: a map from outpoints   *)
(* to unspent coins, a best block that moves together with it, and a       *)
(* working copy in which a block is applied and that is then committed as  *)
(* a whole or dropped.  Caching, FRESH/DIRTY flags and flushes are not     *)
(* visible.                                                                *)
(***************************************************************************)
CONSTANTS
    Outpoints,  \* COutPoint
    Coins,      \* unspent coins (Coin with a non-null output)
    Spent,      \* Coin::IsSpent(): no unspent coin
    Blocks      \* block hashes

VARIABLES
    utxo,   \* the coins as of the best block
    best,   \* the block the coins correspond to
    open,   \* a block is being applied
    work    \* the coins while a block is being applied

utxoVars == <<utxo, best, open, work>>

CoinOrSpent == Coins \cup {Spent}

UtxoInit ==
    /\ utxo \in [Outpoints -> CoinOrSpent] /\ best \in Blocks
    /\ open = FALSE /\ work = utxo

Begin == ~open /\ open' = TRUE /\ UNCHANGED <<utxo, best, work>>

\* Create or overwrite a coin, or spend one.
Put(o, c) ==
    /\ open
    /\ work' = [work EXCEPT ![o] = c]
    /\ UNCHANGED <<utxo, best, open>>

Commit(b) ==
    /\ open
    /\ utxo' = work /\ best' = b /\ open' = FALSE
    /\ UNCHANGED work

Drop == open /\ work' = utxo /\ open' = FALSE /\ UNCHANGED <<utxo, best>>

UtxoNext ==
    \/ Begin \/ Drop
    \/ \E o \in Outpoints, c \in CoinOrSpent : Put(o, c)
    \/ \E b \in Blocks : Commit(b)

UtxoSpec == UtxoInit /\ [][UtxoNext]_utxoVars
=============================================================================
