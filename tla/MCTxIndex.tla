----------------------------- MODULE MCTxIndex -----------------------------
(***************************************************************************)
(* A tree with two branches: 0 - 1 and 0 - 2 - 3, so that the longer one   *)
(* replaces a connected block by two others.                               *)
(***************************************************************************)
EXTENDS TxIndex

MCParent == [b \in 1 .. 3 |-> IF b = 3 THEN 2 ELSE 0]

Scenario(servers, top, flush, invalidate, call, restart) ==
    [servers |-> servers, tip |-> top,
     budget |-> [e \in Events |-> CASE e = "flush" -> flush [] e = "invalidate" -> invalidate
                                    [] e = "call" -> call [] e = "restart" -> restart]]
One == {CHOOSE s \in Servers : TRUE}

MCScenarios == {
    Scenario(Servers, NoBlock, 0, 0, 0, 0),   \* an empty chain
    Scenario(Servers, 0, 0, 0, 1, 0),   \* the index is asked
    Scenario(One, 0, 1, 1, 0, 0),       \* a flush, and an invalidated block
    Scenario(Servers, 1, 0, 0, 0, 1),   \* a restart while syncing
    Scenario(One, 1, 1, 0, 0, 1),       \* a flush and a restart
    Scenario(One, 1, 0, 1, 1, 0),       \* an invalidated block, and the index is asked
    Scenario(One, 1, 0, 1, 0, 1)}       \* an invalidated block and a restart

MCCallbacks ==
    [type : {"connected", "flushed"}, block : Blocks] \cup [type : {"promise"}, by : Callers]
=============================================================================
