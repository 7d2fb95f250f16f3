----------------------------- MODULE MCRecovery -----------------------------
(* Two branches, 0-1-2-3 and 0-1-4-5.  The transaction that spends c1 and     *)
(* creates a is in block 2 and in block 5, where a is spent at once.          *)
EXTENDS Recovery

CONSTANTS c1, c4, a, b, d

MCBlocks == 0..5
MCParent == <<0, 1, 2, 1, 4>>
MCOutpoints == {c1, c4, a, b, d}
Tx(in, out) == [spends |-> in, creates |-> out]
MCTxs ==
    [n \in 0..5 |-> CASE n = 0 -> <<>>
                      [] n = 1 -> <<Tx({}, {c1})>>
                      [] n = 2 -> <<Tx({c1}, {a})>>
                      [] n = 3 -> <<Tx({a}, {b})>>
                      [] n = 4 -> <<Tx({}, {c4})>>
                      [] n = 5 -> <<Tx({c1}, {a}), Tx({a, c4}, {d})>>]
=============================================================================
