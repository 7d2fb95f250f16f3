----------------------------- MODULE BlockTree -----------------------------
(***************************************************************************)
(* The tree of blocks that CBlockIndex::pprev spans (src/chain.h): what    *)
(* the modules about chains have in common.  Blocks are numbers and a      *)
(* block comes after its parent; 0 is the genesis block.                   *)
(***************************************************************************)
EXTENDS Integers

CONSTANTS
    Blocks,   \* every block there is
    Parent    \* hashPrevBlock

Genesis == 0

ASSUME TreeAssumption ==
    /\ Blocks \subseteq Nat /\ Genesis \in Blocks
    /\ Parent \in [Blocks \ {Genesis} -> Blocks]
    /\ \A b \in Blocks \ {Genesis} : Parent[b] < b

nHeight[b \in Blocks] == IF b = Genesis THEN 0 ELSE nHeight[Parent[b]] + 1

\* The block and its ancestors: what GetAncestor can return.
Chain[b \in Blocks] == IF b = Genesis THEN {b} ELSE Chain[Parent[b]] \cup {b}
=============================================================================
