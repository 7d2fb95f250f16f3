------------------------------ MODULE Recovery ------------------------------
(***************************************************************************)
(* The coin database across crashes: CCoinsViewDB::BatchWrite writes the   *)
(* coins in several batches (src/txdb.cpp), FlushStateToDisk writes the    *)
(* block index before them, and ReplayBlocks (src/validation.cpp) repairs  *)
(* an interrupted write when the node starts.                              *)
(*                                                                         *)
(* A coin is known by the height of the block that created it; the node's  *)
(* view of the coins is one map here, its caches are the subject of        *)
(* CoinsCache.  A batch is atomic and survives the crash of the process.   *)
(***************************************************************************)
EXTENDS Integers, Sequences, SequencesExt, BlockTree

CONSTANTS
    Outpoints,
    Txs,         \* the transactions of a block: what they spend and create
    Rotated,     \* blocks not signed with the federation's first key
    Null,        \* a null block hash
    MaxCrashes   \* bound: crashes of the node

Spent == -1

ASSUME BlockAssumption == Null \notin Blocks /\ Rotated \subseteq Blocks \ {Genesis}
ASSUME TxAssumption ==
    /\ Txs \in [Blocks -> Seq([spends : SUBSET Outpoints, creates : SUBSET Outpoints])]
    /\ Txs[Genesis] = <<>>
ASSUME BoundAssumption == MaxCrashes \in Nat

VARIABLES
    index,      \* mapBlockIndex, blocks with data
    diskIndex,  \* the part of it that WriteBatchSync wrote
    tip, coins, \* chainActive.Tip() and pcoinsTip
    db,         \* the coins in the database
    best,       \* DB_BEST_BLOCK
    heads,      \* DB_HEAD_BLOCKS
    pending,    \* BatchWrite: coins not written yet
    mode,       \* what the node does
    crashes

vars == <<index, diskIndex, tip, coins, db, best, heads, pending, mode, crashes>>

-----------------------------------------------------------------------------
(* What a block does to the coins.                                         *)

Coins == [Outpoints -> Nat \cup {Spent}]

Set(map, outs, height) == [o \in Outpoints |-> IF o \in outs THEN height ELSE map[o]]

\* UpdateCoins for every transaction of a block; RollforwardBlock is the same.
Apply(map, b) ==
    LET ApplyTx(m, tx) == Set(Set(m, tx.spends, Spent), tx.creates, nHeight[b])
    IN  FoldLeft(ApplyTx, map, Txs[b])

\* The set of coins that the chain up to a block defines.
Utxo[b \in Blocks] ==
    IF b = Genesis THEN [o \in Outpoints |-> Spent] ELSE Apply(Utxo[Parent[b]], b)

\* The undo data of a block: the coins it spent, by the block that made them.
Creators(b, o) == {c \in Chain[b] : \E i \in 1..Len(Txs[c]) : o \in Txs[c][i].creates}
UndoHeight(b, o) == nHeight[CHOOSE c \in Creators(b, o) : TRUE]

\* The outpoints of a transaction
Touched(tx) == tx.spends \cup tx.creates

\* The blocks passed ConnectBlock: a block of a chain is the only one to create a coin, and
\* the first transaction of a block that has an outpoint spends its coin if there is one and
\* creates it if there is none.
ASSUME ValidAssumption ==
    \A b \in Blocks \ {Genesis} :
        /\ \A o \in Outpoints : \A c, d \in Creators(b, o) : c = d
        /\ \A i \in 1..Len(Txs[b]) : \A o \in Touched(Txs[b][i]) :
              (\A j \in 1..(i - 1) : o \notin Touched(Txs[b][j]))
                 => (o \in Txs[b][i].spends <=> Utxo[Parent[b]][o] # Spent)

\* Variant: the transactions are undone in the order of the block.
UndoReordered(map, b) ==
    LET UndoTx(m, tx) == [o \in Outpoints |-> IF o \in tx.spends THEN UndoHeight(b, o)
                                              ELSE Set(m, tx.creates, Spent)[o]]
    IN  FoldLeft(UndoTx, map, Txs[b])

\* DisconnectBlock: the transactions in reverse order.
Undo(map, b) ==
    LET UndoTx(m, tx) == [o \in Outpoints |-> IF o \in tx.spends THEN UndoHeight(b, o)
                                              ELSE Set(m, tx.creates, Spent)[o]]
    IN  FoldLeft(UndoTx, map, Reverse(Txs[b]))

Null0(b) == IF b = Null THEN Genesis ELSE b

\* ReplayBlocks: the blocks to go back and forward over.
Back(old, new) == Chain[Null0(old)] \ Chain[new]
Forward(old, new) == Chain[new] \ Chain[Null0(old)]

\* "Rollback along the old branch": from a block down to the chain of the new tip.
Rollback(new) ==
    LET f[b \in Blocks] == [m \in Coins |-> IF b \in Chain[new] THEN m
                                           ELSE f[Parent[b]][Undo(m, b)]]
    IN  f

\* "Roll forward from the forking point": from the chain of the old tip up to a block.
Rollforward(old, map) ==
    LET f[b \in Blocks] == IF b \in Chain[old] THEN map ELSE Apply(f[Parent[b]], b)
    IN  f

\* Variant: only the new branch is replayed.
ReplayForward(map, old, new) == Rollforward(Null0(old), map)[new]

Replay(map, old, new) ==
    LET undone == Rollback(new)[Null0(old)][map]
    IN  Rollforward(Null0(old), undone)[new]

-----------------------------------------------------------------------------
Init ==
    /\ index = {Genesis} /\ diskIndex = {Genesis}
    /\ tip = Genesis /\ coins = Utxo[Genesis]
    /\ db = Utxo[Genesis] /\ best = Null /\ heads = <<>>
    /\ pending = {} /\ mode = "running" /\ crashes = 0

\* AcceptBlock stores a block.
AcceptBlock(b) ==
    /\ mode = "running" /\ b \notin index /\ Parent[b] \in index
    /\ index' = index \cup {b}
    /\ UNCHANGED <<diskIndex, tip, coins, db, best, heads, pending, mode, crashes>>

ConnectTip(b) ==
    /\ mode = "running" /\ b \in index \ {Genesis} /\ Parent[b] = tip
    /\ tip' = b /\ coins' = Apply(coins, b)
    /\ UNCHANGED <<index, diskIndex, db, best, heads, pending, mode, crashes>>

DisconnectTip ==
    /\ mode = "running" /\ tip # Genesis
    /\ tip' = Parent[tip] /\ coins' = Undo(coins, tip)
    /\ UNCHANGED <<index, diskIndex, db, best, heads, pending, mode, crashes>>

Differing(map) == {o \in Outpoints : map[o] # db[o]}

\* Variant: the coins are written without the block index.
FlushCoinsOnly(full) ==
    /\ mode = "running"
    /\ diskIndex' = IF full THEN diskIndex ELSE index
    /\ pending' = IF full THEN Differing(coins) ELSE {}
    /\ mode' = IF full THEN "flushing" ELSE "running"
    /\ UNCHANGED <<index, tip, coins, db, best, heads, crashes>>

\* FlushStateToDisk: the block index, then in a full flush the coins.
FlushStateToDisk(full) ==
    /\ mode = "running"
    /\ diskIndex' = index
    /\ pending' = IF full THEN Differing(coins) ELSE {}
    /\ mode' = IF full THEN "flushing" ELSE "running"
    /\ UNCHANGED <<index, tip, coins, db, best, heads, crashes>>

\* BatchWrite: old_tip
OldTip == IF best = Null /\ heads # <<>> THEN heads[2] ELSE best

Written(S) == [o \in Outpoints |-> IF o \in S THEN coins[o] ELSE db[o]]

\* Variant: the old tip stays the best block while coins are written.
WritePartialUnmarked(S) ==
    /\ mode = "flushing"
    /\ db' = Written(S) /\ pending' = pending \ S
    /\ UNCHANGED <<index, diskIndex, tip, coins, best, heads, mode, crashes>>

\* A partial batch; the first one marks the transition, and may hold nothing but the mark
\* when -dbbatchsize is small and the entries gone through were clean.
WritePartial(S) ==
    /\ mode = "flushing"
    /\ db' = Written(S) /\ pending' = pending \ S
    /\ best' = Null /\ heads' = <<tip, OldTip>>
    /\ UNCHANGED <<index, diskIndex, tip, coins, mode, crashes>>

\* The last batch.
WriteFinal ==
    /\ mode = "flushing"
    /\ db' = Written(pending) /\ pending' = {}
    /\ best' = tip /\ heads' = <<>>
    /\ mode' = "running"
    /\ UNCHANGED <<index, diskIndex, tip, coins, crashes>>

Crash ==
    /\ mode \in {"running", "flushing"} /\ crashes < MaxCrashes
    /\ mode' = "down" /\ crashes' = crashes + 1
    /\ index' = diskIndex /\ tip' = Genesis /\ coins' = Utxo[Genesis] /\ pending' = {}
    /\ UNCHANGED <<diskIndex, db, best, heads>>

\* ReadBlockFromDisk checks the proof against the history of the federation's
\* keys, which holds no more than the genesis block's when ReplayBlocks runs.
Readable(b) == b \notin Rotated

\* ReplayBlocks can read all it needs.
Replayable(old, new) ==
    /\ {Null0(old), new} \subseteq index
    /\ \A b \in Back(old, new) \cup Forward(old, new) : Readable(b)

\* ReplayBlocks, or LoadChainTip when the database is consistent.
Start ==
    /\ mode = "down"
    /\ IF heads = <<>>
       THEN /\ tip' = Null0(best) /\ coins' = db /\ pending' = {}
            /\ mode' = IF Null0(best) \in index THEN "running" ELSE "failed"
       ELSE /\ tip' = heads[1]
            /\ IF Replayable(heads[2], heads[1])
               THEN /\ coins' = Replay(db, heads[2], heads[1])
                    /\ pending' = Differing(coins')
                    /\ mode' = "flushing"
               ELSE mode' = "failed" /\ UNCHANGED <<coins, pending>>
    /\ UNCHANGED <<index, diskIndex, db, best, heads, crashes>>

Next ==
    \/ \E b \in Blocks \ {Genesis} : AcceptBlock(b) \/ ConnectTip(b)
    \/ DisconnectTip
    \/ \E full \in BOOLEAN : FlushStateToDisk(full)
    \/ \E S \in SUBSET pending : WritePartial(S)
    \/ WriteFinal \/ Crash \/ Start

Spec == Init /\ [][Next]_vars

\* The operator starts the node again, and a write that was begun goes on.
FairSpec == Spec /\ WF_vars(Start) /\ WF_vars(WriteFinal)

-----------------------------------------------------------------------------
\* Type invariant; whatever the node starts with is in the block index on disk.
TypeOK ==
    /\ index \subseteq Blocks /\ diskIndex \subseteq index /\ tip \in index
    /\ coins \in Coins /\ db \in Coins /\ best \in Blocks \cup {Null}
    /\ heads \in {<<>>} \cup (Blocks \X (Blocks \cup {Null}))
    /\ pending \subseteq Outpoints
    /\ mode \in {"running", "flushing", "down", "failed"} /\ crashes \in Nat

\* Whatever was connected, disconnected, written in part and replayed before,
\* the node's view of the coins is the one its chain defines.
ViewIsUtxo == mode \in {"running", "flushing"} => coins = Utxo[tip]

\* A database that is not marked as being in a transition holds the coins of its
\* best block.
DbIsUtxo == heads = <<>> => db = Utxo[Null0(best)]

\* In the middle of a transition every coin is as it was before it or as it will
\* be after it, also when a replay was interrupted by another crash.
DbIsBetween ==
    heads # <<>> => \A o \in Outpoints : db[o] \in {Utxo[Null0(heads[2])][o], Utxo[heads[1]][o]}

\* "Replay blocks that aren't fully applied to the database": after any crash the
\* node can start from what is on disk.
Restartable == mode # "failed"

\* The tip that the database stands for: its best block, or the one a write is going to.
Saved == IF heads = <<>> THEN Null0(best) ELSE heads[1]

NodeUp == mode \in {"running", "flushing"}

Atomic == INSTANCE AtomicFlush WITH
    up <- NodeUp,
    tip <- IF NodeUp THEN tip ELSE Genesis,
    coins <- IF NodeUp THEN coins ELSE Utxo[Genesis],
    saved <- Saved

\* Writing in batches and replaying what a crash interrupted implement a flush that is
\* atomic: the first batch decides, and wherever the node stops after it, also during the
\* replay, it comes up with the coins of that tip or not at all, never in between.
FlushIsAtomic == Atomic!AtomicSpec

\* A node that went down is running again, if it does not crash again and again.
RunsAgain == mode = "down" ~> mode = "running"
=============================================================================
