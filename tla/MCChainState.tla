---------------------------- MODULE MCChainState ----------------------------
(* Two branches from the genesis block: 0-1-2-3 and 0-4-5. *)
EXTENDS ChainState

MCBlocks == 0..5
MCParent == [b \in 1..5 |-> IF b = 4 THEN 0 ELSE b - 1]
=============================================================================
