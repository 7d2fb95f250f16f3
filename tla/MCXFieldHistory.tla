-------------------------- MODULE MCXFieldHistory --------------------------
(* Two chains: one with a fork above a change and a change back to the first *)
(* key, and one where a block announces the key that is in force already.    *)
EXTENDS XFieldHistory

CONSTANTS kA, kB, kC

\* 0-1-2 and 0-1-3-4-5; block 1 announces kB, block 4 kA.
ForkBlocks == 0..5
ForkParent == <<0, 1, 1, 3, 4>>
ForkXField == [b \in 0..5 |-> CASE b = 0 -> kA [] b = 1 -> kB [] b = 4 -> kA [] OTHER -> NoChange]

\* 0-1-2-3-4; blocks 1 and 2 announce kB, block 3 kC.
RepeatBlocks == 0..4
RepeatParent == <<0, 1, 2, 3>>
RepeatXField == [b \in 0..4 |-> CASE b = 0 -> kA [] b \in {1, 2} -> kB [] b = 3 -> kC
                                  [] OTHER -> NoChange]
=============================================================================
