----------------------------- MODULE CoinsCache -----------------------------
(***************************************************************************)
(* The stack of coin views (src/coins.h, src/coins.cpp): the database, the *)
(* cache pcoinsTip on top of it, and the temporary CCoinsViewCache in      *)
(* which ConnectTip and DisconnectTip apply one block.  All of it runs     *)
(* under cs_main, so a call is one step and pcoinsTip is not used directly *)
(* while a view is open.                                                   *)
(*                                                                         *)
(* An entry of a cache is a coin and its flags; Absent means that the map  *)
(* has no entry.  The database write is atomic here; what a crash leaves   *)
(* of it is the subject of module Recovery.                                *)
(***************************************************************************)
CONSTANTS
    Outpoints,    \* COutPoint
    Coins,        \* unspent coins
    Unspendable,  \* the coins whose script IsUnspendable()
    Spent,        \* a cleared Coin
    Blocks,       \* block hashes
    Null,         \* the null hash
    Absent        \* the cache has no entry

CoinOrSpent == (Coins \ Unspendable) \cup {Spent}  \* what a view stores
Entry == [coin : CoinOrSpent, flags : SUBSET {"DIRTY", "FRESH"}]

ASSUME CoinAssumption == Spent \notin Coins
ASSUME AbsentAssumption == Absent \notin Entry
ASSUME BlockAssumption == Null \notin Blocks

VARIABLES
    db, dbBest,      \* CCoinsViewDB: the coins and DB_BEST_BLOCK
    tip, tipBest,    \* pcoinsTip: cacheCoins and hashBlock
    view,            \* cacheCoins of the block's view
    viewOpen,        \* the view exists
    error            \* a std::logic_error was thrown

vars == <<db, dbBest, tip, tipBest, view, viewOpen, error>>

Empty == [o \in Outpoints |-> Absent]

Init ==
    /\ db \in [Outpoints -> CoinOrSpent] /\ dbBest \in Blocks
    /\ tip = Empty /\ tipBest = Null
    /\ view = Empty /\ viewOpen = FALSE
    /\ error = FALSE

-----------------------------------------------------------------------------
(* CCoinsViewCache's operations on one entry; base is what base->GetCoin   *)
(* returns.                                                                *)

Get(e, base) == IF e = Absent THEN base ELSE e.coin

\* FetchCoin: an unspent coin of the base is copied into the cache.
Fetch(e, base) ==
    IF e = Absent /\ base # Spent THEN [coin |-> base, flags |-> {}] ELSE e

Flags(e) == IF e = Absent THEN {} ELSE e.flags

\* Variant: a new coin is FRESH even when its entry is a spent, dirty one.
AddEntryFresh(e, c, overwrite) ==
    [coin  |-> c,
     flags |-> Flags(e) \cup {"DIRTY"} \cup (IF ~overwrite THEN {"FRESH"} ELSE {})]

\* AddCoin
AddEntry(e, c, overwrite) ==
    LET fresh == ~overwrite /\ "DIRTY" \notin Flags(e)
    IN  [coin  |-> c,
         flags |-> Flags(e) \cup {"DIRTY"} \cup (IF fresh THEN {"FRESH"} ELSE {})]

\* "Adding new coin that replaces non-pruned entry"
AddThrows(e, overwrite) == ~overwrite /\ e # Absent /\ e.coin # Spent

\* Variant: the spent entry is not marked.
SpendEntryClean(e) ==
    IF e = Absent \/ "FRESH" \in e.flags
    THEN Absent
    ELSE [coin |-> Spent, flags |-> e.flags]

\* SpendCoin on a fetched entry
SpendEntry(e) ==
    IF e = Absent \/ "FRESH" \in e.flags
    THEN Absent
    ELSE [coin |-> Spent, flags |-> e.flags \cup {"DIRTY"}]

\* Variant: a spent coin is dropped although the parent's entry is not FRESH.
MergeEntryDrop(child, parent) ==
    IF "DIRTY" \notin Flags(child) THEN parent
    ELSE IF child.coin = Spent THEN Absent
    ELSE [coin |-> child.coin, flags |-> Flags(parent) \cup {"DIRTY"}]

\* BatchWrite of one entry of the child into the parent's entry
MergeEntry(child, parent) ==
    IF "DIRTY" \notin Flags(child) THEN parent
    ELSE IF parent = Absent
         THEN IF child.coin = Spent /\ "FRESH" \in child.flags THEN Absent
              ELSE [coin |-> child.coin, flags |-> {"DIRTY"} \cup child.flags]
         ELSE IF child.coin = Spent /\ "FRESH" \in parent.flags THEN Absent
              ELSE [coin |-> child.coin, flags |-> parent.flags \cup {"DIRTY"}]

\* "FRESH flag misapplied to cache entry for base transaction with spendable outputs"
MergeThrows(child, parent) ==
    /\ {"DIRTY", "FRESH"} \subseteq Flags(child)
    /\ parent # Absent /\ parent.coin # Spent

-----------------------------------------------------------------------------
(* The stack.  A fetch through the view also fills pcoinsTip.              *)

TipGet(o) == Get(tip[o], db[o])
ViewGet(o) == Get(view[o], TipGet(o))

FetchTip(o) == [tip EXCEPT ![o] = Fetch(tip[o], db[o])]
FetchedView(o) == Fetch(view[o], TipGet(o))

\* What FetchCoin on the view leaves in pcoinsTip.
TipAfterFetch(o) == IF view[o] = Absent THEN FetchTip(o) ELSE tip

\* CCoinsViewCache view(pcoinsTip.get()), and view.GetBestBlock() by ConnectBlock:
\* the null hashes are filled from the base, through pcoinsTip.
OpenView ==
    /\ ~viewOpen
    /\ viewOpen' = TRUE
    /\ tipBest' = IF tipBest = Null THEN dbBest ELSE tipBest
    /\ UNCHANGED <<db, dbBest, tip, view, error>>

\* GetCoin, HaveCoin, AccessCoin on the view.
LookUp(o) ==
    /\ viewOpen
    /\ tip' = TipAfterFetch(o)
    /\ view' = [view EXCEPT ![o] = FetchedView(o)]
    /\ UNCHANGED <<db, dbBest, tipBest, viewOpen, error>>

\* Coinbase outputs may overwrite; an output of another transaction is new by
\* the uniqueness of transaction ids, which the callers rely on.
NewOutput(o) == ViewGet(o) = Spent

\* AddCoins for one output without check (UpdateCoins).
AddCoins(o, c, fCoinbase) ==
    /\ viewOpen /\ (fCoinbase \/ NewOutput(o))
    /\ IF c \in Unspendable THEN UNCHANGED <<view, error>>
       ELSE /\ view' = [view EXCEPT ![o] = AddEntry(view[o], c, fCoinbase)]
            /\ error' = AddThrows(view[o], fCoinbase)
    /\ UNCHANGED <<db, dbBest, tip, tipBest, viewOpen>>

\* ApplyTxInUndo, and AddCoins with check (RollforwardBlock): HaveCoin decides
\* whether the coin may overwrite.
Restore(o, c) ==
    /\ viewOpen /\ c \notin Unspendable
    /\ tip' = TipAfterFetch(o)
    /\ LET fetched   == FetchedView(o)
           overwrite == fetched # Absent /\ fetched.coin # Spent
       IN  /\ view' = [view EXCEPT ![o] = AddEntry(fetched, c, overwrite)]
           /\ error' = AddThrows(fetched, overwrite)
    /\ UNCHANGED <<db, dbBest, tipBest, viewOpen>>

\* SpendCoin
SpendCoin(o) ==
    /\ viewOpen
    /\ tip' = TipAfterFetch(o)
    /\ view' = [view EXCEPT ![o] = SpendEntry(FetchedView(o))]
    /\ UNCHANGED <<db, dbBest, tipBest, viewOpen, error>>

\* view.SetBestBlock(b), then view.Flush() into pcoinsTip.
FlushView(b) ==
    /\ viewOpen
    /\ tip' = [o \in Outpoints |-> MergeEntry(view[o], tip[o])]
    /\ tipBest' = b
    /\ error' = \E o \in Outpoints : MergeThrows(view[o], tip[o])
    /\ view' = Empty /\ viewOpen' = FALSE
    /\ UNCHANGED <<db, dbBest>>

\* The block failed, or was only tested: the view is destroyed.
DropView ==
    /\ viewOpen
    /\ view' = Empty /\ viewOpen' = FALSE
    /\ UNCHANGED <<db, dbBest, tip, tipBest, error>>

\* Lookups in pcoinsTip on behalf of the mempool and of RPC.
LookUpTip(o) ==
    /\ ~viewOpen
    /\ tip' = FetchTip(o)
    /\ UNCHANGED <<db, dbBest, tipBest, view, viewOpen, error>>

\* Variant: entries are dropped whatever their flags.
UncacheAny(o) ==
    /\ ~viewOpen /\ tip[o] # Absent
    /\ tip' = [tip EXCEPT ![o] = Absent]
    /\ UNCHANGED <<db, dbBest, tipBest, view, viewOpen, error>>

\* Uncache
Uncache(o) ==
    /\ ~viewOpen /\ tip[o] # Absent /\ tip[o].flags = {}
    /\ tip' = [tip EXCEPT ![o] = Absent]
    /\ UNCHANGED <<db, dbBest, tipBest, view, viewOpen, error>>

\* Variant: the hash is passed on without asking for it first.
FlushTipNull ==
    /\ ~viewOpen
    /\ db' = [o \in Outpoints |-> IF "DIRTY" \in Flags(tip[o]) THEN tip[o].coin ELSE db[o]]
    /\ dbBest' = tipBest
    /\ tip' = Empty
    /\ UNCHANGED <<tipBest, view, viewOpen, error>>

\* pcoinsTip->GetBestBlock(), then pcoinsTip->Flush() into the database, which
\* writes or erases the dirty coins.
FlushTip ==
    /\ ~viewOpen
    /\ tipBest' = IF tipBest = Null THEN dbBest ELSE tipBest
    /\ db' = [o \in Outpoints |-> IF "DIRTY" \in Flags(tip[o]) THEN tip[o].coin ELSE db[o]]
    /\ dbBest' = tipBest'
    /\ tip' = Empty
    /\ UNCHANGED <<view, viewOpen, error>>

Next ==
    /\ ~error
    /\ \/ OpenView \/ DropView \/ FlushTip
       \/ \E b \in Blocks : FlushView(b)
       \/ \E o \in Outpoints :
             \/ LookUp(o) \/ SpendCoin(o) \/ LookUpTip(o) \/ Uncache(o)
             \/ \E c \in Coins : \/ \E fCoinbase \in BOOLEAN : AddCoins(o, c, fCoinbase)
                                 \/ Restore(o, c)

Spec == Init /\ [][Next]_vars

-----------------------------------------------------------------------------
(* Properties.                                                             *)

Cache == [Outpoints -> Entry \cup {Absent}]

\* Type invariant; an unspendable output is never stored, and the best block
\* written to the database is never null.
TypeOK ==
    /\ db \in [Outpoints -> CoinOrSpent] /\ dbBest \in Blocks
    /\ tip \in Cache /\ tipBest \in Blocks \cup {Null}
    /\ view \in Cache
    /\ viewOpen \in BOOLEAN /\ error \in BOOLEAN

\* FRESH means that the parent has no unspent coin, at both levels: dropping a
\* spent FRESH entry can therefore never bring a spent coin back.
FreshSound ==
    \A o \in Outpoints : /\ "FRESH" \in Flags(tip[o]) => db[o] = Spent
                         /\ "FRESH" \in Flags(view[o]) => TipGet(o) = Spent

\* An entry that is not DIRTY equals the parent's version: a flush that ignores
\* it, or an Uncache that drops it, loses nothing.
CleanSound ==
    \A o \in Outpoints :
        /\ tip[o] # Absent /\ "DIRTY" \notin tip[o].flags => tip[o].coin = db[o]
        /\ view[o] # Absent /\ "DIRTY" \notin view[o].flags => view[o].coin = TipGet(o)

\* The two std::logic_error of AddCoin and BatchWrite are never thrown.
NoLogicError == ~error

\* The stack of caches behaves as one map with a working copy.
Utxo == INSTANCE UtxoSet WITH
    Coins <- Coins \ Unspendable,
    utxo <- [o \in Outpoints |-> TipGet(o)],
    best <- IF tipBest = Null THEN dbBest ELSE tipBest,
    open <- viewOpen,
    work <- [o \in Outpoints |-> ViewGet(o)]

\* Every behaviour of the caches is one of the abstract set: what a flush, a
\* lookup or an Uncache does is invisible, and a commit carries exactly the
\* coins of the view and its best block.
UtxoRefinement == Utxo!UtxoSpec
=============================================================================
