-------------------------- MODULE CoinsCacheProofs --------------------------
(***************************************************************************)
(* Proofs about the coin views for any sets of outpoints, coins and        *)
(* blocks: the FRESH and DIRTY flags are sound, the two logic errors are   *)
(* never thrown, and the stack of caches implements UtxoSet.               *)
(***************************************************************************)
EXTENDS CoinsCache, TLAPS

\* The leaves are first-order; those that need arithmetic cite SMT.
USE Zenon

Slot == Entry \cup {Absent}

\* What an entry's flags promise about the parent's version of the coin.
Sound(e, base) ==
    /\ "FRESH" \in Flags(e) => base = Spent
    /\ e # Absent /\ "DIRTY" \notin Flags(e) => e.coin = base

StackSound ==
    \A o \in Outpoints : Sound(tip[o], db[o]) /\ Sound(view[o], TipGet(o))

IInv == TypeOK /\ StackSound /\ NoLogicError /\ (~viewOpen => view = Empty)

-----------------------------------------------------------------------------
(* The operations on one entry.                                            *)

\* What a view returns for an outpoint is a coin or Spent.
LEMMA GetType ==
    ASSUME NEW e \in Slot, NEW base \in CoinOrSpent
    PROVE  Get(e, base) \in CoinOrSpent
BY DEF Get, Slot, Entry

\* A fetch changes neither the value seen nor the soundness.
LEMMA FetchEntry ==
    ASSUME NEW e \in Slot, NEW base \in CoinOrSpent, Sound(e, base)
    PROVE  /\ Fetch(e, base) \in Slot /\ Sound(Fetch(e, base), base)
           /\ Get(Fetch(e, base), base) = Get(e, base)
           /\ Fetch(e, base) = Absent => base = Spent
BY AbsentAssumption, SMT DEF Fetch, Slot, Entry, Sound, Get, Flags

\* AddCoin is sound when a coin that is not an overwrite is new.
LEMMA AddedEntry ==
    ASSUME NEW e \in Slot, NEW base \in CoinOrSpent, Sound(e, base),
           NEW c \in Coins \ Unspendable, NEW overwrite \in BOOLEAN,
           ~overwrite => Get(e, base) = Spent
    PROVE  /\ AddEntry(e, c, overwrite) \in Slot
           /\ Sound(AddEntry(e, c, overwrite), base)
           /\ Get(AddEntry(e, c, overwrite), base) = c
           /\ ~AddThrows(e, overwrite)
<1>1. AddEntry(e, c, overwrite) \in Entry /\ AddEntry(e, c, overwrite).coin = c
  BY DEF AddEntry, Entry, Slot, Flags, CoinOrSpent
<1>2. Sound(AddEntry(e, c, overwrite), base)
  BY <1>1, AbsentAssumption DEF AddEntry, Sound, Get, Flags, Slot, Entry
<1>3. ~AddThrows(e, overwrite)
  BY DEF AddThrows, Get
<1> QED
  BY <1>1, <1>2, <1>3, AbsentAssumption DEF Slot, Get

\* Whatever its flags, a fetched entry is seen as spent after SpendCoin.
LEMMA SpentEntry ==
    ASSUME NEW e \in Slot, NEW base \in CoinOrSpent, Sound(e, base),
           e = Absent => base = Spent
    PROVE  /\ SpendEntry(e) \in Slot /\ Sound(SpendEntry(e), base)
           /\ Get(SpendEntry(e), base) = Spent
<1>1. CASE e = Absent \/ "FRESH" \in e.flags
  BY <1>1, AbsentAssumption DEF SpendEntry, Slot, Sound, Get, Flags
<1>2. CASE ~(e = Absent \/ "FRESH" \in e.flags)
  <2>1. SpendEntry(e) = [coin |-> Spent, flags |-> e.flags \cup {"DIRTY"}]
    BY <1>2 DEF SpendEntry
  <2>2. SpendEntry(e) \in Entry /\ SpendEntry(e) # Absent
    BY <1>2, <2>1, AbsentAssumption, SMT DEF Slot, Entry, CoinOrSpent
  <2> QED
    BY <1>2, <2>1, <2>2, SMT DEF Slot, Sound, Get, Flags
<1> QED
  BY <1>1, <1>2

\* BatchWrite moves the child's value into the parent and throws nothing.
LEMMA MergedEntry ==
    ASSUME NEW child \in Slot, NEW parent \in Slot, NEW base \in CoinOrSpent,
           Sound(parent, base), Sound(child, Get(parent, base))
    PROVE  /\ MergeEntry(child, parent) \in Slot
           /\ Sound(MergeEntry(child, parent), base)
           /\ Get(MergeEntry(child, parent), base) = Get(child, Get(parent, base))
           /\ ~MergeThrows(child, parent)
<1>1. ~MergeThrows(child, parent)
  BY DEF MergeThrows, Sound, Get, Flags
<1>2. CASE "DIRTY" \notin Flags(child)
  BY <1>1, <1>2 DEF MergeEntry, Sound, Get
<1>3. CASE "DIRTY" \in Flags(child) /\ parent = Absent
  <2>0. child \in Entry /\ child # Absent
    BY <1>3 DEF Flags, Slot
  <2>1. CASE child.coin = Spent /\ "FRESH" \in child.flags
    BY <1>1, <1>3, <2>0, <2>1 DEF MergeEntry, Sound, Get, Flags, Slot
  <2>2. CASE ~(child.coin = Spent /\ "FRESH" \in child.flags)
    <3>1. MergeEntry(child, parent) = [coin |-> child.coin, flags |-> {"DIRTY"} \cup child.flags]
      BY <1>3, <2>2 DEF MergeEntry
    <3>2. MergeEntry(child, parent) \in Entry
      BY <2>0, <3>1, SMT DEF Entry
    <3> QED
      BY <1>1, <1>3, <2>0, <3>1, <3>2, AbsentAssumption, SMT DEF Sound, Get, Flags, Slot
  <2> QED
    BY <1>1, <2>1, <2>2
<1>4. CASE "DIRTY" \in Flags(child) /\ parent # Absent
  <2>0. child \in Entry /\ child # Absent /\ parent \in Entry
    BY <1>4 DEF Flags, Slot
  <2>1. CASE child.coin = Spent /\ "FRESH" \in parent.flags
    BY <1>1, <1>4, <2>0, <2>1 DEF MergeEntry, Sound, Get, Flags, Slot
  <2>2. CASE ~(child.coin = Spent /\ "FRESH" \in parent.flags)
    <3>1. MergeEntry(child, parent) = [coin |-> child.coin, flags |-> parent.flags \cup {"DIRTY"}]
      BY <1>4, <2>2 DEF MergeEntry
    <3>2. MergeEntry(child, parent) \in Entry
      BY <2>0, <3>1, SMT DEF Entry
    <3> QED
      BY <1>1, <1>4, <2>0, <3>1, <3>2, AbsentAssumption, SMT DEF Sound, Get, Flags, Slot
  <2> QED
    BY <1>1, <2>1, <2>2
<1> QED
  BY <1>1, <1>2, <1>3, <1>4

-----------------------------------------------------------------------------
(* Steps.  Each lemma says what a step does to the coins seen through      *)
(* pcoinsTip and through the view, and that the invariant is kept.         *)

\* pcoinsTip after a lookup, its own or through the view.
LEMMA FetchTipEntry ==
    ASSUME IInv, NEW o \in Outpoints
    PROVE  /\ FetchTip(o) \in Cache
           /\ \A p \in Outpoints : /\ Sound(FetchTip(o)[p], db[p])
                                   /\ Get(FetchTip(o)[p], db[p]) = TipGet(p)
<1>1. /\ tip \in [Outpoints -> Slot] /\ db \in [Outpoints -> CoinOrSpent]
      /\ \A p \in Outpoints : Sound(tip[p], db[p])
  BY DEF IInv, TypeOK, Cache, Slot, StackSound
<1>2. /\ Fetch(tip[o], db[o]) \in Slot /\ Sound(Fetch(tip[o], db[o]), db[o])
      /\ Get(Fetch(tip[o], db[o]), db[o]) = Get(tip[o], db[o])
  BY <1>1, FetchEntry
<1>3. /\ FetchTip(o)[o] = Fetch(tip[o], db[o])
      /\ \A p \in Outpoints \ {o} : FetchTip(o)[p] = tip[p]
      /\ FetchTip(o) \in Cache
  BY <1>1, <1>2 DEF FetchTip, Cache, Slot
<1> QED
  BY <1>1, <1>2, <1>3 DEF TipGet

\* A step that replaces one entry of the view and fetches at most.
LEMMA ViewStep ==
    ASSUME IInv, viewOpen, NEW o \in Outpoints, NEW x \in Slot,
           tip' = tip \/ tip' = FetchTip(o),
           view' = [view EXCEPT ![o] = x], Sound(x, TipGet(o)),
           ~error', error' \in BOOLEAN, UNCHANGED <<db, dbBest, tipBest, viewOpen>>
    PROVE  /\ IInv'
           /\ \A p \in Outpoints : TipGet(p)' = TipGet(p)
           /\ \A p \in Outpoints : ViewGet(p)' = IF p = o THEN Get(x, TipGet(o))
                                                          ELSE ViewGet(p)
<1>1. TypeOK /\ StackSound
  BY DEF IInv
<1>2. /\ tip' \in Cache
      /\ \A p \in Outpoints : Sound(tip'[p], db[p]) /\ Get(tip'[p], db[p]) = TipGet(p)
  BY <1>1, FetchTipEntry DEF TypeOK, StackSound, TipGet
<1>3. \A p \in Outpoints : TipGet(p)' = TipGet(p)
  BY <1>2 DEF TipGet
<1>4. /\ view' \in Cache /\ view'[o] = x
      /\ \A p \in Outpoints \ {o} : view'[p] = view[p]
  BY <1>1 DEF TypeOK, Cache, Slot
<1>5. TypeOK'
  BY <1>1, <1>2, <1>4 DEF TypeOK
<1>6. StackSound'
  <2> SUFFICES ASSUME NEW p \in Outpoints
               PROVE  Sound(tip[p], db[p])' /\ Sound(view[p], TipGet(p))'
    BY DEF StackSound
  <2>1. Sound(tip[p], db[p])'
    BY <1>2 DEF Sound, Flags
  <2>2. Sound(view'[p], TipGet(p))
    BY <1>1, <1>4 DEF StackSound
  <2>3. Sound(view[p], TipGet(p))'
    BY <1>3, <2>2 DEF Sound, Flags
  <2> QED
    BY <2>1, <2>3
<1>7. \A p \in Outpoints : ViewGet(p)' = IF p = o THEN Get(x, TipGet(o)) ELSE ViewGet(p)
  BY <1>3, <1>4, SMT DEF ViewGet, Get
<1> QED
  BY <1>3, <1>5, <1>6, <1>7 DEF IInv, NoLogicError

\* A step that leaves the view closed and changes pcoinsTip or the database.
LEMMA ClosedStep ==
    ASSUME IInv, ~viewOpen', view' = Empty, ~error',
           db' \in [Outpoints -> CoinOrSpent], dbBest' \in Blocks,
           tip' \in Cache, tipBest' \in Blocks \cup {Null},
           viewOpen' \in BOOLEAN, error' \in BOOLEAN,
           \A p \in Outpoints : Sound(tip'[p], db'[p])
    PROVE  IInv' /\ \A p \in Outpoints : ViewGet(p)' = TipGet(p)'
<1>1. view' \in Cache /\ \A p \in Outpoints : view'[p] = Absent
  BY DEF Empty, Cache
<1>2. TypeOK'
  BY <1>1 DEF TypeOK
<1>3. StackSound'
  BY <1>1 DEF StackSound, Sound, Flags
<1>4. Empty' = Empty
  BY DEF Empty
<1> QED
  BY <1>1, <1>2, <1>3, <1>4 DEF IInv, NoLogicError, ViewGet, Get

\* What the invariant says of the entries at one outpoint.
LEMMA AtOutpoint ==
    ASSUME IInv, NEW o \in Outpoints
    PROVE  /\ db[o] \in CoinOrSpent /\ tip[o] \in Slot /\ view[o] \in Slot
           /\ TipGet(o) \in CoinOrSpent /\ ViewGet(o) \in CoinOrSpent
           /\ Sound(tip[o], db[o]) /\ Sound(view[o], TipGet(o))
           /\ TipAfterFetch(o) = tip \/ TipAfterFetch(o) = FetchTip(o)
           /\ FetchedView(o) \in Slot /\ Sound(FetchedView(o), TipGet(o))
           /\ Get(FetchedView(o), TipGet(o)) = ViewGet(o)
           /\ FetchedView(o) = Absent => TipGet(o) = Spent
<1>1. /\ db[o] \in CoinOrSpent /\ tip[o] \in Slot /\ view[o] \in Slot
      /\ Sound(tip[o], db[o]) /\ Sound(view[o], TipGet(o))
  BY DEF IInv, TypeOK, Cache, Slot, StackSound
<1>2. TipGet(o) \in CoinOrSpent /\ ViewGet(o) \in CoinOrSpent
  BY <1>1, GetType DEF TipGet, ViewGet
<1>3. /\ FetchedView(o) \in Slot /\ Sound(FetchedView(o), TipGet(o))
      /\ Get(FetchedView(o), TipGet(o)) = ViewGet(o)
      /\ FetchedView(o) = Absent => TipGet(o) = Spent
  BY <1>1, <1>2, FetchEntry DEF FetchedView, ViewGet
<1> QED
  BY <1>1, <1>2, <1>3 DEF TipAfterFetch

\* The coins seen through pcoinsTip and through the view, as functions.
TipCoins == [o \in Outpoints |-> TipGet(o)]
ViewCoins == [o \in Outpoints |-> ViewGet(o)]
BestBlock == IF tipBest = Null THEN dbBest ELSE tipBest

\* A step of the view implements Put of the abstract set, or a stutter.
LEMMA ViewActions ==
    ASSUME IInv, NEW o \in Outpoints, NEW c, NEW fCoinbase,
           \/ LookUp(o) \/ SpendCoin(o)
           \/ c \in Coins /\ fCoinbase \in BOOLEAN /\ AddCoins(o, c, fCoinbase)
           \/ c \in Coins /\ Restore(o, c)
    PROVE  /\ IInv' /\ TipCoins' = TipCoins /\ BestBlock' = BestBlock
           /\ viewOpen /\ viewOpen'
           /\ \/ ViewCoins' = ViewCoins
              \/ \E x \in CoinOrSpent : ViewCoins' = [ViewCoins EXCEPT ![o] = x]
<1>0. error = FALSE /\ TypeOK
  BY DEF IInv, TypeOK, NoLogicError
<1>1. ASSUME NEW x \in Slot, Sound(x, TipGet(o)), viewOpen,
             tip' = tip \/ tip' = FetchTip(o),
             view' = [view EXCEPT ![o] = x],
             ~error', error' \in BOOLEAN, UNCHANGED <<db, dbBest, tipBest, viewOpen>>,
             NEW y \in CoinOrSpent, Get(x, TipGet(o)) = y
      PROVE  /\ IInv' /\ TipCoins' = TipCoins /\ BestBlock' = BestBlock
             /\ ViewCoins' = [ViewCoins EXCEPT ![o] = y]
  <2>1. /\ IInv'
        /\ \A p \in Outpoints : TipGet(p)' = TipGet(p)
        /\ \A p \in Outpoints : ViewGet(p)' = IF p = o THEN y ELSE ViewGet(p)
    BY <1>1, ViewStep
  <2> QED
    BY <1>1, <2>1 DEF TipCoins, ViewCoins, BestBlock
<1>2. CASE LookUp(o)
  <2>1. /\ IInv' /\ TipCoins' = TipCoins /\ BestBlock' = BestBlock
        /\ ViewCoins' = [ViewCoins EXCEPT ![o] = ViewGet(o)]
    BY <1>0, <1>1, <1>2, AtOutpoint DEF LookUp
  <2>2. [ViewCoins EXCEPT ![o] = ViewGet(o)] = ViewCoins
    BY DEF ViewCoins
  <2> QED
    BY <1>2, <2>1, <2>2 DEF LookUp
<1>3. CASE SpendCoin(o)
  <2>1. /\ SpendEntry(FetchedView(o)) \in Slot
        /\ Sound(SpendEntry(FetchedView(o)), TipGet(o))
        /\ Get(SpendEntry(FetchedView(o)), TipGet(o)) = Spent
    BY AtOutpoint, SpentEntry
  <2>2. Spent \in CoinOrSpent
    BY DEF CoinOrSpent
  <2>3. /\ IInv' /\ TipCoins' = TipCoins /\ BestBlock' = BestBlock
        /\ ViewCoins' = [ViewCoins EXCEPT ![o] = Spent]
    BY <1>0, <1>1, <1>3, <2>1, <2>2, AtOutpoint DEF SpendCoin
  <2> QED
    BY <1>3, <2>2, <2>3 DEF SpendCoin
<1>4. CASE c \in Coins /\ fCoinbase \in BOOLEAN /\ AddCoins(o, c, fCoinbase)
  <2>1. CASE c \in Unspendable
    <3>1. UNCHANGED vars
      BY <1>4, <2>1 DEF AddCoins, vars
    <3> QED
      BY <1>4, <3>1, SMT DEF AddCoins, vars, IInv, TypeOK, StackSound, NoLogicError, Empty,
         TipCoins, ViewCoins, BestBlock, TipGet, ViewGet, Sound, Get, Flags
  <2>2. CASE c \notin Unspendable
    <3>1. /\ AddEntry(view[o], c, fCoinbase) \in Slot
          /\ Sound(AddEntry(view[o], c, fCoinbase), TipGet(o))
          /\ Get(AddEntry(view[o], c, fCoinbase), TipGet(o)) = c
          /\ ~AddThrows(view[o], fCoinbase)
      BY <1>4, <2>2, AtOutpoint, AddedEntry, SMT DEF AddCoins, NewOutput, ViewGet
    <3>2. c \in CoinOrSpent
      BY <1>4, <2>2 DEF CoinOrSpent
    <3>3. /\ IInv' /\ TipCoins' = TipCoins /\ BestBlock' = BestBlock
          /\ ViewCoins' = [ViewCoins EXCEPT ![o] = c]
      <4>1. ~error' /\ error' \in BOOLEAN
        BY <1>4, <2>2, <3>1 DEF AddCoins, AddThrows
      <4> QED
        BY <1>1, <1>4, <2>2, <3>1, <3>2, <4>1 DEF AddCoins
    <3> QED
      BY <1>4, <3>2, <3>3 DEF AddCoins
  <2> QED
    BY <2>1, <2>2
<1>5. CASE c \in Coins /\ Restore(o, c)
  <2> DEFINE overwrite == FetchedView(o) # Absent /\ FetchedView(o).coin # Spent
  <2>1. /\ AddEntry(FetchedView(o), c, overwrite) \in Slot
        /\ Sound(AddEntry(FetchedView(o), c, overwrite), TipGet(o))
        /\ Get(AddEntry(FetchedView(o), c, overwrite), TipGet(o)) = c
        /\ ~AddThrows(FetchedView(o), overwrite)
    <3>1. ~overwrite => Get(FetchedView(o), TipGet(o)) = Spent
      BY AtOutpoint DEF Get
    <3>2. overwrite \in BOOLEAN /\ c \in Coins \ Unspendable
      BY <1>5 DEF Restore
    <3> HIDE DEF overwrite
    <3> QED
      BY <3>1, <3>2, AtOutpoint, AddedEntry, SMT
  <2>2. c \in CoinOrSpent
    BY <1>5 DEF Restore, CoinOrSpent
  <2>3. /\ IInv' /\ TipCoins' = TipCoins /\ BestBlock' = BestBlock
        /\ ViewCoins' = [ViewCoins EXCEPT ![o] = c]
    <3>1. ~error' /\ error' \in BOOLEAN
      BY <1>5, <2>1 DEF Restore, AddThrows
    <3>2. view' = [view EXCEPT ![o] = AddEntry(FetchedView(o), c, overwrite)]
      BY <1>5 DEF Restore
    <3> HIDE DEF overwrite
    <3> QED
      BY <1>1, <1>5, <2>1, <2>2, <3>1, <3>2, AtOutpoint DEF Restore
  <2> QED
    BY <1>5, <2>2, <2>3 DEF Restore
<1> QED
  BY <1>2, <1>3, <1>4, <1>5

\* A commit carries the view's coins into pcoinsTip, whatever the flags.
LEMMA FlushViewStep ==
    ASSUME IInv, NEW b \in Blocks, FlushView(b)
    PROVE  /\ IInv' /\ TipCoins' = ViewCoins /\ ViewCoins' = ViewCoins
           /\ BestBlock' = b
<1>1. \A p \in Outpoints : /\ MergeEntry(view[p], tip[p]) \in Slot
                           /\ Sound(MergeEntry(view[p], tip[p]), db[p])
                           /\ Get(MergeEntry(view[p], tip[p]), db[p]) = ViewGet(p)
                           /\ ~MergeThrows(view[p], tip[p])
  BY AtOutpoint, MergedEntry DEF TipGet, ViewGet
<1>2. /\ tip' \in Cache
      /\ \A p \in Outpoints : tip'[p] = MergeEntry(view[p], tip[p])
  BY <1>1 DEF FlushView, Cache, Slot
<1>3. ~error' /\ error' \in BOOLEAN
  BY <1>1 DEF FlushView
<1>4. IInv' /\ \A p \in Outpoints : ViewGet(p)' = TipGet(p)'
  <2>1. TypeOK
    BY DEF IInv
  <2>2. \A p \in Outpoints : Sound(tip'[p], db'[p])
    BY <1>1, <1>2 DEF FlushView
  <2> QED
    BY <1>2, <1>3, <2>1, <2>2, ClosedStep DEF FlushView, TypeOK
<1>5. \A p \in Outpoints : TipGet(p)' = ViewGet(p)
  BY <1>1, <1>2 DEF TipGet, FlushView
<1> QED
  BY <1>4, <1>5, BlockAssumption DEF TipCoins, ViewCoins, BestBlock, FlushView

\* Everything else at pcoinsTip and below leaves the coins as they are.
LEMMA TipActions ==
    ASSUME IInv, \/ DropView \/ FlushTip
                 \/ \E o \in Outpoints : LookUpTip(o) \/ Uncache(o)
    PROVE  /\ IInv' /\ TipCoins' = TipCoins /\ ViewCoins' = TipCoins
           /\ BestBlock' = BestBlock /\ ~viewOpen'
<1>0. TypeOK /\ error = FALSE /\ (~viewOpen => view = Empty)
  BY DEF IInv, TypeOK, NoLogicError
<1>1. ASSUME ~viewOpen', view' = Empty, viewOpen' \in BOOLEAN, error' = FALSE,
             db' \in [Outpoints -> CoinOrSpent], tip' \in Cache,
             dbBest' \in Blocks, tipBest' \in Blocks \cup {Null}, BestBlock' = BestBlock,
             \A p \in Outpoints : Sound(tip'[p], db'[p]) /\ Get(tip'[p], db'[p]) = TipGet(p)
      PROVE  /\ IInv' /\ TipCoins' = TipCoins /\ ViewCoins' = TipCoins
             /\ BestBlock' = BestBlock /\ ~viewOpen'
  <2>1. IInv' /\ \A p \in Outpoints : ViewGet(p)' = TipGet(p)'
    BY <1>1, ClosedStep
  <2>2. \A p \in Outpoints : TipGet(p)' = TipGet(p)
    BY <1>1 DEF TipGet
  <2> QED
    BY <1>1, <2>1, <2>2 DEF TipCoins, ViewCoins
<1>2. CASE DropView
  BY <1>0, <1>1, <1>2, AtOutpoint DEF DropView, TypeOK, BestBlock, TipGet
<1>3. CASE FlushTip
  <2>1. /\ \A p \in Outpoints : tip'[p] = Absent /\ db'[p] = TipGet(p)
        /\ tip' \in Cache /\ db' \in [Outpoints -> CoinOrSpent]
    <3>1. \A p \in Outpoints :
            (IF "DIRTY" \in Flags(tip[p]) THEN tip[p].coin ELSE db[p]) = TipGet(p)
      BY AtOutpoint DEF TipGet, Get, Sound, Flags
    <3>2. \A p \in Outpoints : TipGet(p) \in CoinOrSpent
      BY AtOutpoint
    <3> QED
      BY <1>3, <3>1, <3>2 DEF FlushTip, Empty, Cache
  <2>2. \A p \in Outpoints : Sound(tip'[p], db'[p]) /\ Get(tip'[p], db'[p]) = TipGet(p)
    BY <2>1 DEF Sound, Get, Flags
  <2>3. BestBlock' = BestBlock
    BY <1>0, <1>3, BlockAssumption DEF FlushTip, BestBlock, TypeOK
  <2> QED
    BY <1>0, <1>1, <1>3, <2>1, <2>2, <2>3 DEF FlushTip, TypeOK
<1>4. ASSUME NEW o \in Outpoints, LookUpTip(o)
      PROVE  /\ IInv' /\ TipCoins' = TipCoins /\ ViewCoins' = TipCoins
             /\ BestBlock' = BestBlock /\ ~viewOpen'
  <2>1. \A p \in Outpoints : Sound(tip'[p], db'[p]) /\ Get(tip'[p], db'[p]) = TipGet(p)
    BY <1>4, FetchTipEntry DEF LookUpTip
  <2>2. tip' \in Cache
    BY <1>4, FetchTipEntry DEF LookUpTip
  <2> QED
    BY <1>0, <1>1, <1>4, <2>1, <2>2 DEF LookUpTip, TypeOK, BestBlock
<1>5. ASSUME NEW o \in Outpoints, Uncache(o)
      PROVE  /\ IInv' /\ TipCoins' = TipCoins /\ ViewCoins' = TipCoins
             /\ BestBlock' = BestBlock /\ ~viewOpen'
  <2>1. /\ tip' \in Cache /\ tip'[o] = Absent
        /\ \A p \in Outpoints \ {o} : tip'[p] = tip[p]
    BY <1>0, <1>5 DEF Uncache, TypeOK, Cache
  <2>2. tip[o].coin = db[o] /\ TipGet(o) = db[o]
    BY <1>5, AtOutpoint DEF Uncache, Sound, Flags, TipGet, Get
  <2>3. \A p \in Outpoints : Sound(tip'[p], db'[p]) /\ Get(tip'[p], db'[p]) = TipGet(p)
    BY <1>5, <2>1, <2>2, AtOutpoint, SMT DEF Uncache, Sound, Flags, TipGet, Get
  <2> QED
    BY <1>0, <1>1, <1>5, <2>1, <2>3 DEF Uncache, TypeOK, BestBlock
<1> QED
  BY <1>2, <1>3, <1>4, <1>5

\* Opening a view only resolves a null best block.
LEMMA OpenViewStep ==
    ASSUME IInv, OpenView
    PROVE  /\ IInv' /\ TipCoins' = TipCoins /\ ViewCoins' = ViewCoins
           /\ BestBlock' = BestBlock
<1>1. TypeOK
  BY DEF IInv
<1>2. TypeOK'
  BY <1>1 DEF OpenView, TypeOK
<1>3. StackSound' /\ TipCoins' = TipCoins /\ ViewCoins' = ViewCoins
  BY DEF IInv, OpenView, StackSound, Sound, Flags, TipCoins, ViewCoins, TipGet, ViewGet, Get
<1>4. BestBlock' = BestBlock
  BY <1>1, BlockAssumption DEF OpenView, BestBlock, TypeOK
<1> QED
  BY <1>2, <1>3, <1>4 DEF IInv, OpenView, NoLogicError

-----------------------------------------------------------------------------
\* Empty caches satisfy the invariant and show the coins of the database.
LEMMA InitInv == Init => IInv /\ ViewCoins = TipCoins
<1> SUFFICES ASSUME Init PROVE IInv /\ ViewCoins = TipCoins
  OBVIOUS
<1>1. \A o \in Outpoints : tip[o] = Absent /\ view[o] = Absent
  BY DEF Init, Empty
<1>2. TypeOK
  BY DEF Init, TypeOK, Empty, Cache
<1>3. StackSound
  BY <1>1 DEF StackSound, Sound, Flags
<1> QED
  BY <1>1, <1>2, <1>3 DEF Init, IInv, NoLogicError, ViewCoins, TipCoins, ViewGet, Get

\* Every step keeps the invariant and is a step or a stutter of the abstract set.
LEMMA NextStep ==
    ASSUME IInv, [Next]_vars
    PROVE  IInv' /\ [Utxo!UtxoNext]_(Utxo!utxoVars)
<1> USE DEF Utxo!utxoVars
<1>1. ASSUME NEW o \in Outpoints, NEW c, NEW f,
             \/ LookUp(o) \/ SpendCoin(o)
             \/ c \in Coins /\ f \in BOOLEAN /\ AddCoins(o, c, f)
             \/ c \in Coins /\ Restore(o, c)
      PROVE  IInv' /\ [Utxo!UtxoNext]_(Utxo!utxoVars)
  <2>1. /\ IInv' /\ TipCoins' = TipCoins /\ BestBlock' = BestBlock
        /\ viewOpen /\ viewOpen'
        /\ \/ ViewCoins' = ViewCoins
           \/ \E x \in CoinOrSpent : ViewCoins' = [ViewCoins EXCEPT ![o] = x]
    BY <1>1, ViewActions
  <2>2. viewOpen' = viewOpen
    BY <1>1 DEF LookUp, SpendCoin, AddCoins, Restore
  <2>3. CASE ViewCoins' = ViewCoins
    BY <2>1, <2>2, <2>3 DEF TipCoins, ViewCoins, BestBlock
  <2>4. ASSUME NEW x \in CoinOrSpent, ViewCoins' = [ViewCoins EXCEPT ![o] = x]
        PROVE  Utxo!Put(o, x)
    BY <2>1, <2>2, <2>4 DEF Utxo!Put, TipCoins, ViewCoins, BestBlock
  <2> QED
    BY <2>1, <2>3, <2>4 DEF Utxo!UtxoNext, Utxo!CoinOrSpent, CoinOrSpent
<1>2. ASSUME NEW b \in Blocks, FlushView(b)
      PROVE  IInv' /\ Utxo!Commit(b)
  BY <1>2, FlushViewStep
  DEF Utxo!Commit, FlushView, TipCoins, ViewCoins, BestBlock
<1>3. CASE OpenView
  <2>1. Utxo!Begin
    BY <1>3, OpenViewStep DEF Utxo!Begin, OpenView, TipCoins, ViewCoins, BestBlock
  <2> QED
    BY <1>3, <2>1, OpenViewStep DEF Utxo!UtxoNext
<1>4. CASE DropView
  <2>1. Utxo!Drop
    BY <1>4, TipActions DEF Utxo!Drop, DropView, TipCoins, ViewCoins, BestBlock
  <2> QED
    BY <1>4, <2>1, TipActions DEF Utxo!UtxoNext
<1>5. CASE FlushTip \/ \E o \in Outpoints : LookUpTip(o) \/ Uncache(o)
  <2>1. /\ IInv' /\ TipCoins' = TipCoins /\ ViewCoins' = TipCoins
        /\ BestBlock' = BestBlock
    BY <1>5, TipActions
  <2>2. ~viewOpen /\ viewOpen' = viewOpen
    BY <1>5 DEF FlushTip, LookUpTip, Uncache
  <2>3. ViewCoins = TipCoins
    BY <2>2 DEF IInv, ViewCoins, TipCoins, ViewGet, Get, Empty
  <2> QED
    BY <2>1, <2>2, <2>3 DEF TipCoins, ViewCoins, BestBlock
<1>6. CASE UNCHANGED vars
  BY <1>6 DEF vars, IInv, TypeOK, StackSound, NoLogicError, Empty,
     TipGet, ViewGet, Sound, Get, Flags
<1> QED
  BY <1>1, <1>2, <1>3, <1>4, <1>5, <1>6 DEF Next, Utxo!UtxoNext

\* The flags mean what CCoinsCacheEntry says of them, at every level and in
\* every reachable state.
THEOREM Invariance == Spec => []IInv
<1>1. Init => IInv
  BY InitInv
<1>2. IInv /\ [Next]_vars => IInv'
  BY NextStep
<1> QED
  BY <1>1, <1>2, PTL DEF Spec

\* The members keep their types: no level stores an unspendable output, and
\* the database is never given a null best block.
THEOREM TypeCorrect == Spec => []TypeOK
BY Invariance, PTL DEF IInv

\* FRESH is only set where the parent has no unspent coin.
THEOREM FreshIsSound == Spec => []FreshSound
<1>1. IInv => FreshSound
  BY DEF IInv, StackSound, Sound, FreshSound
<1> QED
  BY <1>1, Invariance, PTL

\* An entry that is not DIRTY can be dropped without losing anything.
THEOREM CleanIsSound == Spec => []CleanSound
<1>1. IInv => CleanSound
  BY DEF IInv, StackSound, Sound, CleanSound, Flags
<1> QED
  BY <1>1, Invariance, PTL

\* Neither AddCoin nor BatchWrite ever throws its std::logic_error.
THEOREM NeverThrows == Spec => []NoLogicError
BY Invariance, PTL DEF IInv

\* The stack of caches implements the abstract set of unspent coins.
THEOREM Refinement == Spec => UtxoRefinement
<1>1. Init => Utxo!UtxoInit
  <2> SUFFICES ASSUME Init PROVE Utxo!UtxoInit
    OBVIOUS
  <2>1. IInv /\ ViewCoins = TipCoins
    BY InitInv
  <2>2. TipCoins \in [Outpoints -> CoinOrSpent]
    BY <2>1, AtOutpoint DEF TipCoins
  <2> QED
    BY <2>1, <2>2
    DEF Init, Utxo!UtxoInit, Utxo!CoinOrSpent, CoinOrSpent, TipCoins, ViewCoins
<1>2. IInv /\ [Next]_vars => [Utxo!UtxoNext]_(Utxo!utxoVars)
  BY NextStep
<1> QED
  BY <1>1, <1>2, Invariance, PTL DEF Spec, UtxoRefinement, Utxo!UtxoSpec
=============================================================================
