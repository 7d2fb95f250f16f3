---------------------------- MODULE AtomicFlush -----------------------------
(***************************************************************************)
(* What the coin database promises the node: a flush saves the chain at    *)
(* once, and a node that goes down comes back with the coins of the chain  *)
(* that was saved last.  That coins are written in several batches, and    *)
(* that an interrupted write is replayed, is not visible.                  *)
(***************************************************************************)
CONSTANTS
    Blocks,
    Genesis,
    Parent,
    Utxo     \* the coins that the chain up to a block defines

VARIABLES
    up,      \* the node is up
    tip,     \* the tip of its chain; the genesis block while it is down
    coins,   \* the coins as the node sees them
    saved    \* the tip of the chain that was saved last

atomicVars == <<up, tip, coins, saved>>

AtomicInit == up = TRUE /\ tip = Genesis /\ coins = Utxo[Genesis] /\ saved = Genesis

\* The block b, a child or the parent of the tip, becomes the tip.
MoveTip(b) ==
    /\ up
    /\ (b # Genesis /\ Parent[b] = tip) \/ (tip # Genesis /\ b = Parent[tip])
    /\ tip' = b /\ coins' = Utxo[b]
    /\ UNCHANGED <<up, saved>>

Flush == up /\ saved' = tip /\ UNCHANGED <<up, tip, coins>>

GoDown ==
    /\ up /\ up' = FALSE
    /\ tip' = Genesis /\ coins' = Utxo[Genesis]
    /\ UNCHANGED saved

ComeUp ==
    /\ ~up /\ up' = TRUE
    /\ tip' = saved /\ coins' = Utxo[saved]
    /\ UNCHANGED saved

AtomicNext == (\E b \in Blocks : MoveTip(b)) \/ Flush \/ GoDown \/ ComeUp

AtomicSpec == AtomicInit /\ [][AtomicNext]_atomicVars
=============================================================================
