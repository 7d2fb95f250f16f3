--------------------------- MODULE TxIndexProofs ---------------------------
(***************************************************************************)
(* Proofs about the transaction index for any tree of blocks, any number   *)
(* of threads and any scenario: the index has every block up to the one it *)
(* says it is in sync with, and the locator on disk leaves out none, across *)
(* reorganisations, crashes and restarts; and the callbacks in the queue   *)
(* take it to every tip, so that an answer that it has one is true.        *)
(***************************************************************************)
EXTENDS TxIndex, BlockTreeProofs, SchedulerClientProofs

\* The leaves are first-order; those that need arithmetic cite SMT.
USE Zenon

\* How far the sync thread is; it is where the index stands until m_synced.
SyncSound ==
    /\ sync = "next" => Covered(pindex)
    /\ sync \in {"locator", "block"} => pindex \in Blocks /\ Covered(pprev(pindex))

IInv == TypeOK /\ ClientInv /\ SyncSound /\ IndexComplete /\ LocatorSound

-----------------------------------------------------------------------------
(* The operators on the tree.                                              *)

\* The kinds of callbacks are apart, and each carries what its name says.
LEMMA CallbackKinds ==
    /\ \A b \in Blocks : Connected(b) \in Callbacks /\ Flushed(b) \in Callbacks
    /\ Validator \in Callers /\ Rpc \in Callers
    /\ \A t \in Callers : Promise(t) \in Callbacks
    /\ \A c \in Callbacks : /\ c.type \in {"connected", "flushed"} => c.block \in Blocks
                            /\ c.type = "promise" => c.by \in Callers
<1>1. ASSUME NEW c \in Callbacks
      PROVE  /\ c.type \in {"connected", "flushed"} => c.block \in Blocks
             /\ c.type = "promise" => c.by \in Callers
  <2>1. ASSUME NEW b \in Blocks, c = Connected(b) \/ c = Flushed(b)
        PROVE  c.type \in {"connected", "flushed"} /\ c.block \in Blocks
    BY <2>1, SMT DEF Connected, Flushed
  <2>2. ASSUME NEW t \in Callers, c = Promise(t)
        PROVE  c.type = "promise" /\ c.by \in Callers
    BY <2>2 DEF Promise
  <2>3. (\E b \in Blocks : c = Connected(b) \/ c = Flushed(b)) \/ \E t \in Callers : c = Promise(t)
    BY CallerAssumption
  <2> QED
    BY <2>1, <2>2, <2>3
<1>2. Validator \in Callers /\ Rpc \in Callers
  BY CallerAssumption
<1>3. /\ \A b \in Blocks : Connected(b) \in Callbacks /\ Flushed(b) \in Callbacks
      /\ \A t \in Callers : Promise(t) \in Callbacks
  BY CallerAssumption
<1> QED
  BY <1>1, <1>2, <1>3

\* nullptr is no block.
LEMMA NoBlockIsNone == NoBlock \notin Blocks
BY TreeAssumption, SMT DEF NoBlock

\* Only chooses from the set, or is nullptr.
LEMMA OnlyMember ==
    ASSUME NEW S
    PROVE  /\ S = {} => Only(S) = NoBlock
           /\ S # {} => Only(S) \in S
BY DEF Only

\* The parent of a block and the chains that start at nullptr.
LEMMA ParentChain ==
    /\ ChainTo(NoBlock) = {}
    /\ \A b \in Blocks : /\ pprev(b) \in Blocks \cup {NoBlock}
                         /\ ChainTo(b) = Chain[b]
                         /\ ChainTo(b) = ChainTo(pprev(b)) \cup {b}
    /\ \A b \in Blocks \cup {NoBlock} : ChainTo(b) \subseteq Blocks
<1>1. ASSUME NEW b \in Blocks
      PROVE  /\ pprev(b) \in Blocks \cup {NoBlock} /\ ChainTo(b) = Chain[b]
             /\ ChainTo(b) = ChainTo(pprev(b)) \cup {b} /\ ChainTo(b) \subseteq Blocks
  <2>1. ChainTo(b) = Chain[b] /\ Chain[b] \subseteq Blocks
    BY NoBlockIsNone, ChainBounded DEF ChainTo
  <2>2. CASE b = Genesis
    BY <2>1, <2>2, ChainOf DEF pprev, ChainTo
  <2>3. CASE b # Genesis
    <3>1. pprev(b) = Parent[b] /\ Parent[b] \in Blocks
      BY <2>3, TreeAssumption DEF pprev
    <3> QED
      BY <2>1, <2>3, <3>1, ChainOf, NoBlockIsNone DEF ChainTo
  <2> QED
    BY <2>2, <2>3
<1>2. ChainTo(NoBlock) = {}
  BY DEF ChainTo
<1> QED
  BY <1>1, <1>2

\* A set of blocks has a lowest one.
LEMMA LowestMember ==
    ASSUME NEW S \in SUBSET Blocks, S # {}
    PROVE  /\ Lowest(S) \in S
           /\ \A c \in S : nHeight[Lowest(S)] <= nHeight[c]
<1> DEFINE H == {nHeight[b] : b \in S}
<1>1. H \in SUBSET Nat /\ H # {}
  BY HeightOf
<1>2. PICK h \in H : \A k \in H : h <= k
  <2> HIDE DEF H
  <2> QED
    BY <1>1, LeastOf
<1>3. PICK b \in S : nHeight[b] = h
  OBVIOUS
<1>4. \A c \in S : nHeight[b] <= nHeight[c]
  BY <1>2, <1>3
<1> DEFINE L == {a \in S : \A c \in S : Height(a) <= Height(c)}
<1>5. \A a \in S : Height(a) = nHeight[a]
  BY NoBlockIsNone DEF Height
<1>6. b \in L
  BY <1>4, <1>5
<1>7. Only(L) \in L
  BY <1>6, OnlyMember
<1> QED
  BY <1>5, <1>7 DEF Lowest

\* Without a locator the index starts at the genesis block or at nullptr.
LEMMA LowestOfChain ==
    ASSUME NEW top \in Blocks \cup {NoBlock}
    PROVE  Lowest(ChainTo(top)) = IF top = NoBlock THEN NoBlock ELSE Genesis
<1>1. CASE top = NoBlock
  BY <1>1, ParentChain, OnlyMember DEF Lowest
<1>2. CASE top # NoBlock
  <2>1. top \in Blocks /\ ChainTo(top) = Chain[top] /\ Chain[top] \subseteq Blocks
    BY <1>2, ParentChain
  <2>2. Genesis \in Chain[top]
    BY <2>1, GenesisInChain
  <2>3. Lowest(Chain[top]) \in Chain[top] /\ nHeight[Lowest(Chain[top])] <= nHeight[Genesis]
    BY <2>1, <2>2, LowestMember
  <2>4. ASSUME NEW b \in Blocks, nHeight[b] <= nHeight[Genesis] PROVE b = Genesis
    <3>1. SUFFICES ASSUME b # Genesis PROVE FALSE
      OBVIOUS
    <3>2. b \in Blocks \ {Genesis} /\ Parent[b] \in Blocks
      BY <3>1, ParentBelow
    <3>3. nHeight[b] = nHeight[Parent[b]] + 1 /\ nHeight[Parent[b]] \in Nat /\ nHeight[Genesis] = 0
      BY <3>2, HeightOf
    <3> QED
      BY <2>4, <3>3, SMT
  <2> QED
    BY <1>2, <2>1, <2>3, <2>4
<1> QED
  BY <1>1, <1>2

\* chainActive.FindFork is an ancestor of the block, or nullptr.
LEMMA FindForkMember ==
    ASSUME NEW b, NEW top
    PROVE  FindFork(b, top) = NoBlock \/ FindFork(b, top) \in ChainTo(b) \cap ChainTo(top)
BY OnlyMember DEF FindFork, Highest

\* So is GetAncestor.
LEMMA GetAncestorMember ==
    ASSUME NEW b, NEW height
    PROVE  GetAncestor(b, height) = NoBlock \/ GetAncestor(b, height) \in ChainTo(b)
BY OnlyMember DEF GetAncestor

\* The block after prev that the sync thread takes is in the active chain, and the
\* block before it is prev or an ancestor of it.
LEMMA NextSyncBlockMember ==
    ASSUME NEW prev, NextSyncBlock(prev) # NoBlock
    PROVE  /\ NextSyncBlock(prev) \in ChainTo(tip)
           /\ \/ pprev(NextSyncBlock(prev)) = prev
              \/ pprev(NextSyncBlock(prev)) = NoBlock
              \/ pprev(NextSyncBlock(prev)) \in ChainTo(prev)
<1>1. ASSUME NEW b, NextInChain(b) # NoBlock
      PROVE  NextInChain(b) \in ChainTo(tip) /\ pprev(NextInChain(b)) = b
  BY <1>1, OnlyMember DEF NextInChain
<1>2. CASE prev \in ChainTo(tip) \cup {NoBlock}
  BY <1>1, <1>2 DEF NextSyncBlock
<1>3. CASE prev \notin ChainTo(tip) \cup {NoBlock}
  BY <1>1, <1>3, FindForkMember, SMT DEF NextSyncBlock
<1> QED
  BY <1>2, <1>3

-----------------------------------------------------------------------------
(* What Covered is closed under, for any set of blocks indexed or lost.    *)

Within(b, S) == ChainTo(b) \ {Genesis} \subseteq S

\* A chain that is indexed is indexed up to each of its blocks.
LEMMA WithinAncestor ==
    ASSUME NEW S, NEW b \in Blocks \cup {NoBlock}, Within(b, S),
           NEW a, a = NoBlock \/ a \in ChainTo(b)
    PROVE  Within(a, S)
<1>1. CASE a = NoBlock
  BY <1>1, ParentChain DEF Within
<1>2. CASE a # NoBlock
  <2>1. a \in Blocks /\ b \in Blocks /\ a \in Chain[b]
    BY <1>2, ParentChain
  <2> QED
    BY <2>1, ChainTransitive, ParentChain, SMT DEF Within
<1> QED
  BY <1>1, <1>2

\* Indexing a block extends an indexed chain by it.
LEMMA WithinNext ==
    ASSUME NEW S, NEW b \in Blocks, Within(pprev(b), S), b \in S
    PROVE  Within(b, S)
BY ParentChain, SMT DEF Within

\* The index starts at a block whose chain is indexed when the locator's is.
LEMMA WithinStart ==
    ASSUME NEW S, NEW loc \in Blocks \cup {NoBlock}, NEW top \in Blocks \cup {NoBlock},
           Within(loc, S)
    PROVE  Within(FindForkInGlobalIndex(loc, top), S)
<1>1. CASE loc = NoBlock
  <2>1. FindForkInGlobalIndex(loc, top) \in {Genesis, NoBlock}
    BY <1>1, LowestOfChain DEF FindForkInGlobalIndex
  <2>2. Within(Genesis, S) /\ Within(NoBlock, S)
    BY ParentChain, ChainOf, TreeAssumption, SMT DEF Within
  <2> QED
    BY <2>1, <2>2
<1>2. CASE loc # NoBlock
  BY <1>2, FindForkMember, WithinAncestor DEF FindForkInGlobalIndex
<1> QED
  BY <1>1, <1>2

-----------------------------------------------------------------------------
(* The callbacks in a line, for any line.                                   *)

\* A block is below another one if the chain of that one has it; nullptr is below all.
Below(w, b) == w \in ChainTo(b) \cup {NoBlock}

\* The BlockConnected callbacks of a line, and that each goes on from the one before it.
Conn(L, i) == i \in 1..Len(L) /\ L[i].type = "connected"
Linked(L) ==
    \A i, j \in 1..Len(L) :
        Conn(L, i) /\ Conn(L, j) /\ i < j /\ (\A k \in (i + 1)..(j - 1) : ~Conn(L, k))
            => Below(pprev(L[j].block), L[i].block)

\* The last of them is d or a block above it.
Ends(L, d) ==
    \A i \in 1..Len(L) :
        Conn(L, i) /\ (\A k \in (i + 1)..Len(L) : ~Conn(L, k)) => Below(d, L[i].block)

\* Among the first n one goes on from best, and it or a later one is w or above it.
Brings(L, n, best, w) ==
    \E i, j \in 1..n : /\ i <= j /\ Conn(L, i) /\ Conn(L, j)
                       /\ Below(pprev(L[i].block), best) /\ Below(w, L[j].block)

\* An index that is at best knows d, or will when the line has been run.
Leads(L, best, d) == Below(d, best) \/ Brings(L, Len(L), best, d)

\* The promises of the call in a line, and that what is before them brings the index to w.
IsPromise(L, p) == p \in 1..Len(L) /\ L[p] = Promise(Rpc)
OnePromise(L) == \A p, q \in 1..Len(L) : IsPromise(L, p) /\ IsPromise(L, q) => p = q
NoPromise(L) == \A p \in 1..Len(L) : ~IsPromise(L, p)
BringsInTime(L, best, w) ==
    \A p \in 1..Len(L) : IsPromise(L, p) => Brings(L, p - 1, best, w)

\* Nothing waits in an empty line.
LEMMA EmptyLine ==
    ASSUME NEW d
    PROVE  Linked(<<>>) /\ Ends(<<>>, d) /\ OnePromise(<<>>) /\ NoPromise(<<>>)
<1>1. \A i \in 1..Len(<<>>) : FALSE
  BY SMT
<1>2. Linked(<<>>) /\ Ends(<<>>, d)
  BY <1>1 DEF Linked, Ends
<1>3. OnePromise(<<>>) /\ NoPromise(<<>>)
  BY <1>1 DEF OnePromise, NoPromise
<1> QED
  BY <1>2, <1>3

\* A block and its parent are below the block.
LEMMA BelowBlock ==
    ASSUME NEW b \in Blocks
    PROVE  Below(b, b) /\ Below(pprev(b), b)
<1>1. ChainTo(b) = ChainTo(pprev(b)) \cup {b}
  BY ParentChain
<1>2. pprev(b) # NoBlock => pprev(b) \in Blocks /\ pprev(b) \in ChainTo(pprev(b))
  BY ParentChain, ChainOf, SMT
<1> QED
  BY <1>1, <1>2 DEF Below

\* What is below a block is below those above it.
LEMMA BelowTransitive ==
    ASSUME NEW b \in Blocks \cup {NoBlock}, NEW a, Below(a, b), NEW w, Below(w, a)
    PROVE  Below(w, b) /\ a \in Blocks \cup {NoBlock} /\ ChainTo(a) \subseteq ChainTo(b)
<1>1. CASE a = NoBlock
  BY <1>1, ParentChain DEF Below
<1>2. CASE a # NoBlock
  <2>1. a \in ChainTo(b) /\ b \in Blocks /\ ChainTo(b) = Chain[b]
    BY <1>2, ParentChain DEF Below
  <2>2. a \in Blocks /\ ChainTo(a) = Chain[a] /\ Chain[a] \subseteq Chain[b]
    BY <2>1, ParentChain, ChainTransitive
  <2> QED
    BY <2>1, <2>2 DEF Below
<1> QED
  BY <1>1, <1>2

\* Two blocks that are below each other are the same.
LEMMA SameChain ==
    ASSUME NEW a \in Blocks, NEW b \in Blocks, a \in Chain[b], b \in Chain[a]
    PROVE  a = b
BY ChainBounded, TreeAssumption, SMT

\* Two blocks of a chain at one height are the same.
LEMMA OneAtHeight ==
    ASSUME NEW best \in Blocks \cup {NoBlock}, NEW a \in ChainTo(best), NEW c \in ChainTo(best),
           Height(a) = Height(c)
    PROVE  a = c
<1>1. best \in Blocks /\ a \in Chain[best] /\ c \in Chain[best] /\ a \in Blocks /\ c \in Blocks
  BY ParentChain
<1>2. Height(a) = nHeight[a] /\ Height(c) = nHeight[c] /\ nHeight[a] \in Nat /\ nHeight[c] \in Nat
  BY <1>1, NoBlockIsNone, HeightOf DEF Height
<1>3. a \in Chain[c] \/ c \in Chain[a]
  BY <1>1, ChainLinear
<1>4. ASSUME a # c PROVE nHeight[a] < nHeight[c] \/ nHeight[c] < nHeight[a]
  BY <1>1, <1>3, <1>4, HeightOfAncestor
<1>5. nHeight[a] = nHeight[c]
  BY <1>2
<1>6. ~(nHeight[a] < nHeight[c]) /\ ~(nHeight[c] < nHeight[a])
  BY <1>2, <1>5, SMT
<1> QED
  BY <1>4, <1>6

\* The test of BlockConnected: the block goes on from the best block or from an ancestor.
LEMMA AncestorTest ==
    ASSUME NEW b \in Blocks, NEW best \in Blocks \cup {NoBlock}
    PROVE  GetAncestor(best, Height(b) - 1) = pprev(b) <=> Below(pprev(b), best)
<1> DEFINE S == {a \in ChainTo(best) : Height(a) = Height(b) - 1}
<1>1. GetAncestor(best, Height(b) - 1) = Only(S)
  BY DEF GetAncestor
<1>2. Height(b) = nHeight[b] /\ nHeight[b] \in Nat
  BY NoBlockIsNone, HeightOf DEF Height
<1>3. CASE b = Genesis
  <2>1. ASSUME NEW a \in S PROVE FALSE
    <3>1. a \in Blocks /\ Height(a) = -1
      BY <1>2, <1>3, HeightOf, ParentChain, SMT
    <3> QED
      BY <3>1, NoBlockIsNone, HeightOf, SMT DEF Height
  <2>2. Only(S) = NoBlock /\ pprev(b) = NoBlock
    BY <1>3, <2>1, OnlyMember DEF pprev
  <2> QED
    BY <1>1, <2>2 DEF Below
<1>4. CASE b # Genesis
  <2>1. pprev(b) = Parent[b] /\ Parent[b] \in Blocks /\ nHeight[b] = nHeight[Parent[b]] + 1
        /\ nHeight[Parent[b]] \in Nat
    BY <1>4, HeightOf, TreeAssumption DEF pprev
  <2>2. Height(pprev(b)) = Height(b) - 1 /\ pprev(b) # NoBlock
    BY <1>2, <2>1, NoBlockIsNone, SMT DEF Height
  <2>3. ASSUME pprev(b) \in ChainTo(best) PROVE Only(S) = pprev(b)
    <3>1. pprev(b) \in S
      BY <2>2, <2>3
    <3>2. Only(S) \in S
      BY <3>1, OnlyMember
    <3> QED
      BY <2>2, <2>3, <3>2, OneAtHeight
  <2>4. ASSUME Only(S) = pprev(b) PROVE pprev(b) \in ChainTo(best)
    BY <2>2, <2>4, OnlyMember
  <2> QED
    BY <1>1, <2>2, <2>3, <2>4 DEF Below
<1> QED
  BY <1>3, <1>4

-----------------------------------------------------------------------------
(* What happens to a line.                                                  *)

\* A callback is added.
LEMMA Appended ==
    ASSUME NEW L \in Seq(Callbacks), NEW c \in Callbacks
    PROVE  /\ Append(L, c) \in Seq(Callbacks) /\ Len(L) \in Nat /\ Len(Append(L, c)) = Len(L) + 1
           /\ \A i \in 1..Len(L) : Append(L, c)[i] = L[i] /\ (Conn(Append(L, c), i) <=> Conn(L, i))
           /\ Append(L, c)[Len(L) + 1] = c
           /\ Conn(Append(L, c), Len(L) + 1) <=> c.type = "connected"
<1>1. Len(L) \in Nat /\ Len(Append(L, c)) = Len(L) + 1 /\ Append(L, c) \in Seq(Callbacks)
      /\ Append(L, c)[Len(L) + 1] = c /\ \A i \in 1..Len(L) : Append(L, c)[i] = L[i]
  BY SMT
<1> QED
  BY <1>1, SMT DEF Conn

\* The first callback has been run.
LEMMA Dropped ==
    ASSUME NEW L \in Seq(Callbacks), L # <<>>
    PROVE  /\ Tail(L) \in Seq(Callbacks) /\ Len(L) \in Nat \ {0} /\ Len(Tail(L)) = Len(L) - 1
           /\ \A i \in 1..Len(Tail(L)) :
                 Tail(L)[i] = L[i + 1] /\ (Conn(Tail(L), i) <=> Conn(L, i + 1))
<1>1. Tail(L) \in Seq(Callbacks) /\ Len(L) \in Nat \ {0} /\ Len(Tail(L)) = Len(L) - 1
      /\ \A i \in 1..Len(Tail(L)) : Tail(L)[i] = L[i + 1]
  BY SMT
<1> QED
  BY <1>1, SMT DEF Conn

\* A BlockConnected callback carries a block.
LEMMA ConnectedBlock ==
    ASSUME NEW L \in Seq(Callbacks), NEW i, Conn(L, i)
    PROVE  L[i].block \in Blocks
<1>1. L[i] \in Callbacks /\ L[i].type = "connected"
  BY SMT DEF Conn
<1> QED
  BY <1>1, CallbackKinds

\* What a line brings it brings whatever is added.
LEMMA BringsAppended ==
    ASSUME NEW L \in Seq(Callbacks), NEW c \in Callbacks, NEW best, NEW w,
           NEW n \in 0..Len(L), NEW m \in n..(Len(L) + 1), Brings(L, n, best, w)
    PROVE  Brings(Append(L, c), m, best, w)
<1>1. PICK i \in 1..n, j \in 1..n :
          /\ i <= j /\ Conn(L, i) /\ Conn(L, j)
          /\ Below(pprev(L[i].block), best) /\ Below(w, L[j].block)
  BY DEF Brings
<1>2. i \in 1..Len(L) /\ j \in 1..Len(L) /\ i \in 1..m /\ j \in 1..m
  BY Appended, SMT
<1>3. /\ Conn(Append(L, c), i) /\ Conn(Append(L, c), j)
      /\ Append(L, c)[i] = L[i] /\ Append(L, c)[j] = L[j]
  BY <1>1, <1>2, Appended, SMT
<1> QED
  BY <1>1, <1>2, <1>3 DEF Brings

\* The same for the whole line.
LEMMA AllAppended ==
    ASSUME NEW L \in Seq(Callbacks), NEW c \in Callbacks, NEW best, NEW w,
           Brings(L, Len(L), best, w)
    PROVE  Brings(Append(L, c), Len(Append(L, c)), best, w)
<1>1. Len(L) \in 0..Len(L) /\ Len(Append(L, c)) \in Len(L)..(Len(L) + 1)
  BY SMT
<1> QED
  BY <1>1, BringsAppended

\* Other callbacks do not matter.
LEMMA OtherAppended ==
    ASSUME NEW L \in Seq(Callbacks), NEW c \in Callbacks, c.type # "connected", Linked(L)
    PROVE  /\ Linked(Append(L, c))
           /\ \A d : Ends(L, d) => Ends(Append(L, c), d)
           /\ \A best, d : Leads(L, best, d) => Leads(Append(L, c), best, d)
<1> DEFINE M == Append(L, c)
<1>1. Len(L) \in Nat /\ Len(M) = Len(L) + 1 /\ ~Conn(M, Len(L) + 1)
      /\ \A i \in 1..Len(L) : M[i] = L[i] /\ (Conn(M, i) <=> Conn(L, i))
  BY Appended
<1> HIDE DEF M
<1>2. \A i \in 1..Len(M) : Conn(M, i) => i \in 1..Len(L)
  BY <1>1, SMT
<1>3. Linked(M)
  <2> SUFFICES ASSUME NEW i \in 1..Len(M), NEW j \in 1..Len(M), Conn(M, i), Conn(M, j), i < j,
                      \A k \in (i + 1)..(j - 1) : ~Conn(M, k)
               PROVE  Below(pprev(M[j].block), M[i].block)
    BY DEF Linked
  <2>1. i \in 1..Len(L) /\ j \in 1..Len(L)
    BY <1>2
  <2>2. \A k \in (i + 1)..(j - 1) : ~Conn(L, k)
    BY <1>1, <2>1, SMT
  <2> QED
    BY <1>1, <2>1, <2>2 DEF Linked
<1>4. ASSUME NEW d, Ends(L, d) PROVE Ends(M, d)
  <2> SUFFICES ASSUME NEW i \in 1..Len(M), Conn(M, i), \A k \in (i + 1)..Len(M) : ~Conn(M, k)
               PROVE  Below(d, M[i].block)
    BY DEF Ends
  <2>1. i \in 1..Len(L)
    BY <1>2
  <2>2. \A k \in (i + 1)..Len(L) : ~Conn(L, k)
    BY <1>1, <2>1, SMT
  <2> QED
    BY <1>1, <1>4, <2>1, <2>2 DEF Ends
<1>5. ASSUME NEW best, NEW d, Leads(L, best, d) PROVE Leads(M, best, d)
  BY <1>5, AllAppended DEF Leads, M
<1> QED
  BY <1>3, <1>4, <1>5 DEF M

\* The next block is connected.
LEMMA ConnectedAppended ==
    ASSUME NEW L \in Seq(Callbacks), NEW b \in Blocks, NEW d, Linked(L), Ends(L, d),
           Below(pprev(b), d)
    PROVE  /\ Linked(Append(L, Connected(b))) /\ Ends(Append(L, Connected(b)), b)
           /\ \A best \in Blocks \cup {NoBlock} :
                 Leads(L, best, d) => Leads(Append(L, Connected(b)), best, b)
<1> DEFINE c == Connected(b)
           M == Append(L, c)
           n == Len(L) + 1
<1>1. c \in Callbacks /\ c.type = "connected" /\ c.block = b
  BY CallbackKinds DEF Connected
<1> HIDE DEF c
<1>2. Len(L) \in Nat /\ Len(M) = n /\ Conn(M, n) /\ M[n] = c /\ n \in 1..n
      /\ \A i \in 1..Len(L) : M[i] = L[i] /\ (Conn(M, i) <=> Conn(L, i))
  BY <1>1, Appended, SMT
<1> HIDE DEF M
<1>3. Linked(M)
  <2> SUFFICES ASSUME NEW i \in 1..Len(M), NEW j \in 1..Len(M), Conn(M, i), Conn(M, j), i < j,
                      \A k \in (i + 1)..(j - 1) : ~Conn(M, k)
               PROVE  Below(pprev(M[j].block), M[i].block)
    BY DEF Linked
  <2>1. i \in 1..Len(L) /\ M[i] = L[i] /\ Conn(L, i)
    BY <1>2, SMT
  <2>2. \A k \in (i + 1)..(j - 1) : k \in 1..Len(L) /\ ~Conn(L, k)
    BY <1>2, <2>1, SMT
  <2>3. CASE j \in 1..Len(L)
    BY <1>2, <2>1, <2>2, <2>3 DEF Linked
  <2>4. CASE j = n
    <3>1. Below(d, L[i].block)
      BY <1>2, <2>1, <2>2, <2>4, SMT DEF Ends
    <3>2. M[j].block = b
      BY <1>1, <1>2, <2>4
    <3>3. L[i].block \in Blocks
      BY <2>1, ConnectedBlock
    <3> QED
      BY <2>1, <3>1, <3>2, <3>3, BelowTransitive
  <2> QED
    BY <1>2, <2>3, <2>4, SMT
<1>4. Ends(M, b)
  <2> SUFFICES ASSUME NEW i \in 1..Len(M), Conn(M, i), \A k \in (i + 1)..Len(M) : ~Conn(M, k)
               PROVE  Below(b, M[i].block)
    BY DEF Ends
  <2>1. i = n
    BY <1>2, SMT
  <2> QED
    BY <1>1, <1>2, <2>1, BelowBlock
<1>5. ASSUME NEW best \in Blocks \cup {NoBlock}, Leads(L, best, d) PROVE Leads(M, best, b)
  <2>1. Below(b, M[n].block) /\ pprev(M[n].block) = pprev(b)
    BY <1>1, <1>2, BelowBlock
  <2>2. CASE Below(d, best)
    <3>1. Below(pprev(b), best)
      BY <2>2, BelowTransitive
    <3> QED
      BY <1>2, <2>1, <3>1, SMT DEF Leads, Brings
  <2>3. CASE Brings(L, Len(L), best, d)
    <3>1. PICK i \in 1..Len(L) : Conn(L, i) /\ Below(pprev(L[i].block), best)
      BY <2>3 DEF Brings
    <3>2. i \in 1..n /\ i <= n /\ Conn(M, i) /\ M[i] = L[i]
      BY <1>2, <3>1, SMT
    <3> QED
      BY <1>2, <2>1, <3>1, <3>2 DEF Leads, Brings
  <2> QED
    BY <1>5, <2>2, <2>3 DEF Leads
<1> QED
  BY <1>3, <1>4, <1>5 DEF M, c

\* The first callback leaves the line, and the index goes on from it if it can.
Advanced(L, best) ==
    IF Conn(L, 1) /\ Below(pprev(L[1].block), best) THEN L[1].block ELSE best

\* The rest of a line is linked, and ends where the line did.
LEMMA LinkedDropped ==
    ASSUME NEW L \in Seq(Callbacks), L # <<>>, Linked(L)
    PROVE  Linked(Tail(L)) /\ \A d : Ends(L, d) => Ends(Tail(L), d)
<1> DEFINE M == Tail(L)
<1>1. Len(L) \in Nat \ {0} /\ Len(M) = Len(L) - 1
      /\ \A i \in 1..Len(M) : M[i] = L[i + 1] /\ (Conn(M, i) <=> Conn(L, i + 1))
  BY Dropped
<1> HIDE DEF M
<1>2. Linked(M)
  <2> SUFFICES ASSUME NEW i \in 1..Len(M), NEW j \in 1..Len(M), Conn(M, i), Conn(M, j), i < j,
                      \A k \in (i + 1)..(j - 1) : ~Conn(M, k)
               PROVE  Below(pprev(M[j].block), M[i].block)
    BY DEF Linked
  <2>1. i + 1 \in 1..Len(L) /\ j + 1 \in 1..Len(L) /\ i + 1 < j + 1
        /\ Conn(L, i + 1) /\ Conn(L, j + 1) /\ M[i] = L[i + 1] /\ M[j] = L[j + 1]
    BY <1>1, SMT
  <2>2. ASSUME NEW k \in ((i + 1) + 1)..((j + 1) - 1) PROVE ~Conn(L, k)
    <3>1. k - 1 \in (i + 1)..(j - 1) /\ k - 1 \in 1..Len(M) /\ (k - 1) + 1 = k
      BY <1>1, SMT
    <3> QED
      BY <1>1, <3>1
  <2> QED
    BY <2>1, <2>2 DEF Linked
<1>3. ASSUME NEW d, Ends(L, d) PROVE Ends(M, d)
  <2> SUFFICES ASSUME NEW i \in 1..Len(M), Conn(M, i), \A k \in (i + 1)..Len(M) : ~Conn(M, k)
               PROVE  Below(d, M[i].block)
    BY DEF Ends
  <2>1. i + 1 \in 1..Len(L) /\ Conn(L, i + 1) /\ M[i] = L[i + 1]
    BY <1>1, SMT
  <2>2. ASSUME NEW k \in ((i + 1) + 1)..Len(L) PROVE ~Conn(L, k)
    <3>1. k - 1 \in (i + 1)..Len(M) /\ k - 1 \in 1..Len(M) /\ (k - 1) + 1 = k
      BY <1>1, SMT
    <3> QED
      BY <1>1, <3>1
  <2> QED
    BY <1>3, <2>1, <2>2 DEF Ends
<1> QED
  BY <1>2, <1>3 DEF M

\* After the first callback the index is at w or above, or the rest brings it there.
LEMMA BringsDropped ==
    ASSUME NEW L \in Seq(Callbacks), L # <<>>, Linked(L), NEW best, NEW w,
           NEW n \in 1..Len(L), Brings(L, n, best, w)
    PROVE  Below(w, Advanced(L, best)) \/ Brings(Tail(L), n - 1, Advanced(L, best), w)
<1> DEFINE M == Tail(L)
           at == Advanced(L, best)
<1>1. Len(L) \in Nat \ {0} /\ Len(M) = Len(L) - 1 /\ n \in Nat
      /\ \A i \in 1..Len(M) : M[i] = L[i + 1] /\ (Conn(M, i) <=> Conn(L, i + 1))
  BY Dropped, SMT
<1> SUFFICES Below(w, at) \/ Brings(M, n - 1, at, w)
  OBVIOUS
<1> HIDE DEF M, at
<1>2. PICK i \in 1..n, j \in 1..n :
          /\ i <= j /\ Conn(L, i) /\ Conn(L, j)
          /\ Below(pprev(L[i].block), best) /\ Below(w, L[j].block)
  BY DEF Brings
\* Any callback of the rest that goes on from where the index is will do.
<1>3. ASSUME NEW k \in 2..j, Conn(L, k), Below(pprev(L[k].block), at) PROVE Brings(M, n - 1, at, w)
  <2>1. k - 1 \in 1..(n - 1) /\ j - 1 \in 1..(n - 1) /\ k - 1 <= j - 1
        /\ k - 1 \in 1..Len(M) /\ j - 1 \in 1..Len(M) /\ (k - 1) + 1 = k /\ (j - 1) + 1 = j
    BY <1>1, SMT
  <2>2. Conn(M, k - 1) /\ Conn(M, j - 1) /\ M[k - 1] = L[k] /\ M[j - 1] = L[j]
    BY <1>1, <1>2, <1>3, <2>1
  <2> QED
    BY <1>2, <1>3, <2>1, <2>2 DEF Brings
<1>4. CASE Conn(L, 1) /\ Below(pprev(L[1].block), best)
  <2>1. at = L[1].block
    BY <1>4 DEF Advanced, at
  <2>2. CASE j = 1
    BY <1>2, <2>1, <2>2
  <2>3. CASE j # 1
    <3> DEFINE S == {k \in 2..j : Conn(L, k)}
    <3>1. S \in SUBSET Nat /\ j \in S
      BY <1>1, <1>2, <2>3, SMT
    <3>2. PICK k \in S : \A y \in S : k <= y
      BY <3>1, LeastOf
    <3>3. k \in 2..j /\ Conn(L, k) /\ k \in 1..Len(L) /\ 1 \in 1..Len(L) /\ 1 < k
      BY <1>1, <3>2, SMT
    <3>4. ASSUME NEW y \in (1 + 1)..(k - 1) PROVE ~Conn(L, y)
      <4>1. y \in 2..j /\ ~(k <= y)
        BY <1>1, <3>3, SMT
      <4> QED
        BY <3>2, <4>1
    <3>5. Below(pprev(L[k].block), L[1].block)
      BY <1>4, <3>3, <3>4 DEF Linked
    <3> QED
      BY <1>3, <2>1, <3>3, <3>5
  <2> QED
    BY <2>2, <2>3
<1>5. CASE ~(Conn(L, 1) /\ Below(pprev(L[1].block), best))
  <2>1. at = best /\ i # 1
    BY <1>2, <1>5 DEF Advanced, at
  <2>2. i \in 2..j
    BY <1>1, <1>2, <2>1, SMT
  <2> QED
    BY <1>2, <1>3, <2>1, <2>2
<1> QED
  BY <1>4, <1>5

\* So it knows or will know the last block, also when the first callback takes it back.
LEMMA LeadsDropped ==
    ASSUME NEW L \in Seq(Callbacks), L # <<>>, Linked(L), NEW best, NEW d, Ends(L, d),
           Leads(L, best, d)
    PROVE  Leads(Tail(L), Advanced(L, best), d)
<1>1. Len(L) \in Nat \ {0} /\ Len(Tail(L)) = Len(L) - 1 /\ Len(L) \in 1..Len(L)
  BY Dropped, SMT
<1>2. CASE Brings(L, Len(L), best, d)
  BY <1>1, <1>2, BringsDropped DEF Leads
<1>3. CASE ~Brings(L, Len(L), best, d)
  <2>1. Below(d, best)
    BY <1>3 DEF Leads
  <2>2. CASE Conn(L, 1) /\ Below(pprev(L[1].block), best)
    <3> DEFINE S == {i \in 1..Len(L) : Conn(L, i)}
    <3>1. S \in SUBSET (1..Len(L)) /\ 1 \in S
      BY <1>1, <2>2, SMT
    <3>2. PICK j \in S : \A y \in S : y <= j
      BY <1>1, <3>1, GreatestOf
    <3>3. j \in 1..Len(L) /\ Conn(L, j)
      BY <3>2
    <3>4. ASSUME NEW k \in (j + 1)..Len(L) PROVE ~Conn(L, k)
      <4>1. k \in 1..Len(L) /\ ~(k <= j)
        BY <1>1, <3>3, SMT
      <4> QED
        BY <3>2, <4>1
    <3>5. Below(d, L[j].block)
      BY <3>3, <3>4 DEF Ends
    <3>6. 1 \in 1..Len(L) /\ 1 <= j
      BY <1>1, <3>3, SMT
    <3>7. Brings(L, Len(L), best, d)
      BY <2>2, <3>3, <3>5, <3>6 DEF Brings
    <3> QED
      BY <1>3, <3>7
  <2>3. CASE ~(Conn(L, 1) /\ Below(pprev(L[1].block), best))
    BY <2>1, <2>3 DEF Leads, Advanced
  <2> QED
    BY <2>2, <2>3
<1> QED
  BY <1>2, <1>3

\* A line that ends at d or above, or leads there, does so for the blocks below d.
LEMMA LowerEnd ==
    ASSUME NEW L \in Seq(Callbacks), NEW d, NEW a, Below(a, d)
    PROVE  /\ Ends(L, d) => Ends(L, a)
           /\ \A best \in Blocks \cup {NoBlock} : Leads(L, best, d) => Leads(L, best, a)
<1>1. ASSUME NEW i \in 1..Len(L), Conn(L, i), Below(d, L[i].block) PROVE Below(a, L[i].block)
  BY <1>1, ConnectedBlock, BelowTransitive
<1>2. ASSUME Ends(L, d) PROVE Ends(L, a)
  BY <1>1, <1>2 DEF Ends
<1>3. ASSUME NEW best \in Blocks \cup {NoBlock}, Leads(L, best, d) PROVE Leads(L, best, a)
  <2>1. CASE Below(d, best)
    BY <2>1, BelowTransitive DEF Leads
  <2>2. CASE Brings(L, Len(L), best, d)
    BY <1>1, <2>2 DEF Leads, Brings
  <2> QED
    BY <1>3, <2>1, <2>2 DEF Leads
<1> QED
  BY <1>2, <1>3

\* The promise of a call at the end of a line without one: what was in the line is before it.
LEMMA PromiseAppended ==
    ASSUME NEW L \in Seq(Callbacks), NEW c \in Callbacks, c = Promise(Rpc), NoPromise(L)
    PROVE  /\ OnePromise(Append(L, c))
           /\ \A best, w : Brings(L, Len(L), best, w) => BringsInTime(Append(L, c), best, w)
<1> DEFINE M == Append(L, c)
<1>1. Len(L) \in Nat /\ Len(M) = Len(L) + 1 /\ \A i \in 1..Len(L) : M[i] = L[i]
  BY Appended
<1>2. ASSUME NEW p \in 1..Len(M), IsPromise(M, p) PROVE p = Len(L) + 1
  <2>1. p \notin 1..Len(L)
    BY <1>1, <1>2 DEF NoPromise, IsPromise
  <2> QED
    BY <1>1, <2>1, SMT
<1>3. OnePromise(M)
  BY <1>2 DEF OnePromise
<1>4. Len(L) \in 0..Len(L) /\ Len(L) \in Len(L)..(Len(L) + 1) /\ (Len(L) + 1) - 1 = Len(L)
  BY <1>1, SMT
<1>5. ASSUME NEW best, NEW w, Brings(L, Len(L), best, w) PROVE BringsInTime(M, best, w)
  <2>1. Brings(M, Len(L), best, w)
    BY <1>4, <1>5, BringsAppended
  <2> QED
    BY <1>2, <1>4, <2>1 DEF BringsInTime
<1> QED
  BY <1>3, <1>5

\* The promises of a line that another callback is added to.
LEMMA PromisesAppended ==
    ASSUME NEW L \in Seq(Callbacks), NEW c \in Callbacks, c # Promise(Rpc)
    PROVE  /\ OnePromise(L) => OnePromise(Append(L, c))
           /\ NoPromise(L) => NoPromise(Append(L, c))
           /\ \A best, w : BringsInTime(L, best, w) => BringsInTime(Append(L, c), best, w)
<1> DEFINE M == Append(L, c)
<1>1. ASSUME NEW p \in 1..Len(M), IsPromise(M, p) PROVE p \in 1..Len(L) /\ IsPromise(L, p)
  BY <1>1, Appended, SMT DEF IsPromise
<1>2. ASSUME NEW best, NEW w, BringsInTime(L, best, w) PROVE BringsInTime(M, best, w)
  <2> SUFFICES ASSUME NEW p \in 1..Len(M), IsPromise(M, p) PROVE Brings(M, p - 1, best, w)
    BY DEF BringsInTime
  <2>1. p \in 1..Len(L) /\ Brings(L, p - 1, best, w)
    BY <1>1, <1>2 DEF BringsInTime
  <2>2. p - 1 \in 0..Len(L) /\ p - 1 \in (p - 1)..(Len(L) + 1)
    BY <2>1, Appended, SMT
  <2> QED
    BY <2>1, <2>2, BringsAppended
<1> HIDE DEF M
<1>3. OnePromise(L) => OnePromise(M)
  BY <1>1 DEF OnePromise
<1>4. NoPromise(L) => NoPromise(M)
  BY <1>1 DEF NoPromise
<1> QED
  BY <1>2, <1>3, <1>4 DEF M

\* The promises of a line whose first callback has been run.
LEMMA PromisesDropped ==
    ASSUME NEW L \in Seq(Callbacks), L # <<>>, OnePromise(L)
    PROVE  /\ OnePromise(Tail(L)) /\ (NoPromise(L) => NoPromise(Tail(L)))
           /\ L[1] = Promise(Rpc) => NoPromise(Tail(L))
           /\ Linked(L) => \A best, w :
                 BringsInTime(L, best, w) =>
                     \/ L[1] # Promise(Rpc) /\ BringsInTime(Tail(L), Advanced(L, best), w)
                     \/ Below(w, Advanced(L, best))
<1> DEFINE M == Tail(L)
<1>1. Len(L) \in Nat \ {0} /\ Len(M) = Len(L) - 1
      /\ \A i \in 1..Len(M) : M[i] = L[i + 1]
  BY Dropped
<1> HIDE DEF M
<1>2. ASSUME NEW p \in 1..Len(M), IsPromise(M, p)
      PROVE  p + 1 \in 1..Len(L) /\ IsPromise(L, p + 1)
  BY <1>1, <1>2, SMT DEF IsPromise
<1>3. OnePromise(M)
  <2> SUFFICES ASSUME NEW p \in 1..Len(M), NEW q \in 1..Len(M), IsPromise(M, p), IsPromise(M, q)
               PROVE  p = q
    BY DEF OnePromise
  <2>1. p + 1 = q + 1
    BY <1>2 DEF OnePromise
  <2> QED
    BY <2>1, SMT
<1>4. NoPromise(L) => NoPromise(M)
  BY <1>2 DEF NoPromise
<1>5. ASSUME L[1] = Promise(Rpc) PROVE NoPromise(M)
  <2> SUFFICES ASSUME NEW p \in 1..Len(M), IsPromise(M, p) PROVE FALSE
    BY DEF NoPromise
  <2>1. 1 \in 1..Len(L) /\ IsPromise(L, 1)
    BY <1>1, <1>5, SMT DEF IsPromise
  <2>2. p + 1 = 1
    BY <1>2, <2>1 DEF OnePromise
  <2> QED
    BY <2>2, SMT
<1>6. ASSUME Linked(L), NEW best, NEW w, BringsInTime(L, best, w), ~Below(w, Advanced(L, best))
      PROVE  L[1] # Promise(Rpc) /\ BringsInTime(M, Advanced(L, best), w)
  <2>1. ASSUME L[1] = Promise(Rpc) PROVE FALSE
    <3>1. 1 \in 1..Len(L) /\ IsPromise(L, 1)
      BY <1>1, <2>1, SMT DEF IsPromise
    <3>2. Brings(L, 1 - 1, best, w)
      BY <1>6, <3>1 DEF BringsInTime
    <3> QED
      BY <3>2, SMT DEF Brings
  <2>2. ASSUME NEW p \in 1..Len(M), IsPromise(M, p) PROVE Brings(M, p - 1, Advanced(L, best), w)
    <3>1. Brings(L, (p + 1) - 1, best, w) /\ (p + 1) - 1 = p /\ p \in 1..Len(L)
      BY <1>1, <1>2, <1>6, <2>2, SMT DEF BringsInTime
    <3> QED
      BY <1>6, <3>1, BringsDropped DEF M
  <2> QED
    BY <2>1, <2>2 DEF BringsInTime
<1> QED
  BY <1>3, <1>4, <1>5, <1>6 DEF M

-----------------------------------------------------------------------------
(* The index drives the queue only by the operations of its client.        *)

\* What a step of the index is for the client.
LEMMA StepIsClientStep ==
    ASSUME TypeOK, [Next]_vars
    PROVE  [ClientNext]_client
<1> USE CallbackKinds
<1>1. ASSUME NEW t \in Servers, ServerThread(t) PROVE ClientNext
  BY <1>1 DEF ServerThread, Deliver, ClientNext
<1>2. ASSUME ValidatorThread PROVE [ClientNext]_client
  <2>1. CASE CallerStep(Validator)
    BY <2>1 DEF ClientNext
  <2>2. CASE QueueDrained \/ \E b \in Blocks : ActivateBestChainStep(b)
    BY <2>2 DEF QueueDrained, ActivateBestChainStep
  <2>3. CASE Signal
    <3>1. CASE flushSignal # NoBlock
      BY <2>3, <3>1 DEF Signal, TypeOK, ClientNext
    <3>2. CASE flushSignal = NoBlock /\ connects # {}
      <4>1. Lowest(connects) \in Blocks
        BY <3>2, LowestMember DEF TypeOK
      <4> QED
        BY <2>3, <3>2, <4>1 DEF Signal, ClientNext
    <3>3. CASE flushSignal = NoBlock /\ connects = {}
      BY <2>3, <3>3 DEF Signal
    <3> QED
      BY <3>1, <3>2, <3>3
  <2> QED
    BY <1>2, <2>1, <2>2, <2>3 DEF ValidatorThread
<1>3. ASSUME SyncThread PROVE UNCHANGED client
  BY <1>3 DEF SyncThread, SyncNext, SyncWriteLocator, SyncWriteBlock
<1>4. ASSUME RpcThread PROVE [ClientNext]_client
  BY <1>4 DEF RpcThread, WaitForQueue, QueuePromise, Answer, ClientNext
<1>5. ASSUME ActivateBestChain PROVE [ClientNext]_client
  BY <1>5 DEF ActivateBestChain, QueuePromise, ClientNext
<1>6. ASSUME \/ FlushStateToDisk \/ BlockUntilSyncedToCurrentChain
             \/ \E b \in Blocks : InvalidateBlock(b)
      PROVE  UNCHANGED client
  BY <1>6 DEF FlushStateToDisk, BlockUntilSyncedToCurrentChain, InvalidateBlock
<1>7. ASSUME Crash \/ Shutdown PROVE ClientNext
  BY <1>7 DEF Crash, Shutdown, Start, ClientNext
<1>8. ASSUME UNCHANGED vars PROVE UNCHANGED client
  BY <1>8 DEF vars
<1> QED
  BY <1>1, <1>2, <1>3, <1>4, <1>5, <1>6, <1>7, <1>8 DEF Next, Progress

\* The client's invariant is kept by every step of the index.
LEMMA ClientInvStep ==
    ASSUME TypeOK, ClientInv, [Next]_vars
    PROVE  ClientInv'
BY StepIsClientStep, ClientInvInductive

-----------------------------------------------------------------------------
(* Types.                                                                  *)

\* The events that a step takes from the budget leave naturals.
LEMMA BudgetType ==
    ASSUME NEW left \in [Events -> Nat], NEW e \in Events, left[e] > 0
    PROVE  [left EXCEPT ![e] = @ - 1] \in [Events -> Nat]
<1>1. left[e] - 1 \in Nat
  BY SMT
<1> QED
  BY <1>1

\* MaybeFlush keeps the types of what it may change.
LEMMA MaybeFlushType ==
    ASSUME TypeOK, NEW left \in [Events -> Nat],
           NEW D \in SUBSET Blocks, NEW C \in SUBSET Blocks, MaybeFlush(FlushPoints(D, C), left)
    PROVE  {flushed', flushSignal'} \subseteq Blocks \cup {NoBlock} /\ budget' \in [Events -> Nat]
<1>1. ASSUME NEW p \in FlushPoints(D, C)
      PROVE  {p.coins, p.locator} \subseteq Blocks \cup {NoBlock}
  BY ParentChain, SMT DEF FlushPoints
<1>2. "flush" \in Events
  BY DEF Events
<1>3. CASE UNCHANGED <<flushed, flushSignal>> /\ budget' = left
  BY <1>3 DEF TypeOK
<1>4. ASSUME NEW p \in FlushPoints(D, C), flushed' = p.coins, flushSignal' = p.locator,
             left["flush"] > 0, budget' = [left EXCEPT !["flush"] = @ - 1]
      PROVE  {flushed', flushSignal'} \subseteq Blocks \cup {NoBlock} /\ budget' \in [Events -> Nat]
  BY <1>1, <1>2, <1>4, BudgetType
<1> QED
  BY <1>3, <1>4 DEF MaybeFlush

\* Where the index goes on after a restart, whatever the locator.
LEMMA StartType ==
    ASSUME NEW loc \in Blocks \cup {NoBlock}, NEW top \in Blocks \cup {NoBlock}
    PROVE  FindForkInGlobalIndex(loc, top) \in Blocks \cup {NoBlock}
<1>1. CASE loc = NoBlock
  BY <1>1, LowestOfChain, TreeAssumption DEF FindForkInGlobalIndex
<1>2. CASE loc # NoBlock
  BY <1>2, FindForkMember, ParentChain DEF FindForkInGlobalIndex
<1> QED
  BY <1>1, <1>2

\* The types are kept, one step per action.
LEMMA TypeStep ==
    ASSUME IInv, [Next]_vars
    PROVE  TypeOK'
<1>0. ClientTypeOK'
  BY ClientInvStep DEF IInv, ClientInv
<1> USE <1>0 DEF TypeOK, IInv, chain, index, asker
<1>1. ASSUME NEW t \in Servers, ServerStep(t), UNCHANGED others PROVE TypeOK'
  BY <1>1 DEF others
<1>2. ASSUME NEW t \in Servers, Deliver(t) PROVE TypeOK'
  <2>1. callback[t] \in Callbacks
    BY <1>2 DEF Deliver, RunCallback, ClientInv, CallbackHeld, Running, ClientTypeOK
  <2>2. CASE callback[t].type = "connected" /\ BlockConnected(callback[t].block)
    BY <1>2, <2>1, <2>2, CallbackKinds, SMT DEF Deliver, BlockConnected
  <2>3. CASE callback[t].type = "flushed" /\ ChainStateFlushed(callback[t].block)
    <3>1. callback[t].block \in Blocks
      BY <2>1, <2>3, CallbackKinds
    <3>2. locator' \in {callback[t].block, locator}
      BY <2>3 DEF ChainStateFlushed
    <3>3. UNCHANGED <<indexed, m_best_block_index, promised>>
      BY <2>3 DEF ChainStateFlushed
    <3>4. UNCHANGED <<chain, m_synced, sync, pindex, asker, lost, budget>>
      BY <1>2 DEF Deliver
    <3> QED
      BY <3>1, <3>2, <3>3, <3>4, SMT
  <2>4. CASE callback[t].type = "promise" /\ KeepPromise(callback[t].by)
    BY <1>2, <2>1, <2>4, CallbackKinds DEF Deliver, KeepPromise
  <2> QED
    BY <1>2, <2>2, <2>3, <2>4 DEF Deliver
<1>3. ASSUME NEW t \in Callers, CallerStep(t), UNCHANGED others PROVE TypeOK'
  BY <1>3 DEF others
<1>4. ASSUME QueueDrained PROVE TypeOK'
  BY <1>4 DEF QueueDrained
<1>5. ASSUME NEW b \in Blocks, ActivateBestChainStep(b) PROVE TypeOK'
  <2>1. ChainTo(b) \subseteq Blocks /\ ChainTo(tip) \subseteq Blocks
    BY ParentChain
  <2>2. connects' \in SUBSET Blocks /\ ChainTo(tip) \ ChainTo(b) \in SUBSET Blocks
    BY <1>5, <2>1 DEF ActivateBestChainStep
  <2>3. {flushed', flushSignal'} \subseteq Blocks \cup {NoBlock} /\ budget' \in [Events -> Nat]
    BY <1>5, <2>2, MaybeFlushType DEF ActivateBestChainStep
  <2> QED
    BY <1>5, <2>2, <2>3, SMT DEF ActivateBestChainStep
<1>6. ASSUME NEW b \in Blocks, InvalidateBlock(b) PROVE TypeOK'
  <2>1. ChainTo(tip) \ ChainTo(pprev(b)) \in SUBSET Blocks /\ {} \in SUBSET Blocks
    BY ParentChain
  <2>2. "invalidate" \in Events
    BY DEF Events
  <2>3. [budget EXCEPT !["invalidate"] = @ - 1] \in [Events -> Nat]
    BY <1>6, <2>2, BudgetType DEF InvalidateBlock
  <2>4. {flushed', flushSignal'} \subseteq Blocks \cup {NoBlock} /\ budget' \in [Events -> Nat]
    BY <1>6, <2>1, <2>3, MaybeFlushType DEF InvalidateBlock
  <2>5. pprev(b) \in Blocks \cup {NoBlock} /\ invalid \cup {b} \subseteq Blocks
    BY ParentChain
  <2>6. tip' \in Blocks \cup {NoBlock} /\ invalid' \subseteq Blocks /\ vpc' = "signal"
    BY <1>6, <2>5 DEF InvalidateBlock
  <2>7. UNCHANGED <<connects, promised, index, asker, lost>>
    BY <1>6 DEF InvalidateBlock
  <2> QED
    BY <2>4, <2>6, <2>7
<1>7. ASSUME Signal PROVE TypeOK'
  BY <1>7, SMT DEF Signal
<1>8. ASSUME SyncNext PROVE TypeOK'
  <2>1. NextSyncBlock(pindex) \in Blocks \cup {NoBlock}
    BY NextSyncBlockMember, ParentChain
  <2>2. CASE NextSyncBlock(pindex) = NoBlock
    BY <1>8, <2>2 DEF SyncNext
  <2>3. CASE NextSyncBlock(pindex) # NoBlock
    BY <1>8, <2>1, <2>3 DEF SyncNext
  <2> QED
    BY <2>2, <2>3
<1>9. ASSUME SyncWriteLocator PROVE TypeOK'
  BY <1>9, SMT DEF SyncWriteLocator
<1>10. ASSUME SyncWriteBlock PROVE TypeOK'
  BY <1>10 DEF SyncWriteBlock, SyncSound
<1>11. ASSUME WaitForQueue PROVE TypeOK'
  BY <1>11 DEF WaitForQueue, QueuePromise
<1>12. ASSUME Answer PROVE TypeOK'
  BY <1>12, SMT DEF Answer
<1>13. ASSUME ActivateBestChain PROVE TypeOK'
  BY <1>13 DEF ActivateBestChain, QueuePromise
<1>14. ASSUME FlushStateToDisk PROVE TypeOK'
  <2>1. budget' \in [Events -> Nat]
    BY <1>14, BudgetType DEF FlushStateToDisk, Spend, Events
  <2> QED
    BY <1>14, <2>1, SMT DEF FlushStateToDisk
<1>15. ASSUME BlockUntilSyncedToCurrentChain PROVE TypeOK'
  <2>1. budget' \in [Events -> Nat]
    BY <1>15, BudgetType DEF BlockUntilSyncedToCurrentChain, Spend, Events
  <2> QED
    BY <1>15, <2>1 DEF BlockUntilSyncedToCurrentChain
<1>16. ASSUME NEW top \in Blocks \cup {NoBlock}, NEW loc \in Blocks \cup {NoBlock}, Start(top, loc),
              lost' \subseteq Blocks, invalid' \subseteq Blocks
       PROVE  TypeOK'
  <2>1. budget' \in [Events -> Nat]
    BY <1>16, BudgetType DEF Start, Spend, Events
  <2> QED
    BY <1>16, <2>1, StartType, SMT DEF Start
<1>17. ASSUME Crash \/ Shutdown PROVE TypeOK'
  BY <1>16, <1>17 DEF Crash, Shutdown, SyncSound
<1>18. ASSUME UNCHANGED vars PROVE TypeOK'
  BY <1>18 DEF vars
<1> HIDE DEF TypeOK, IInv, chain, index, asker
<1> QED
  BY <1>1, <1>2, <1>3, <1>4, <1>5, <1>6, <1>7, <1>8, <1>9, <1>10, <1>11, <1>12, <1>13,
     <1>14, <1>15, <1>17, <1>18, CallbackKinds
     DEF Next, Progress, ServerThread, ValidatorThread, SyncThread, RpcThread

-----------------------------------------------------------------------------
(* The index.                                                              *)

Sound == SyncSound /\ IndexComplete /\ LocatorSound

\* Covered and Within say the same of the indexed and the lost blocks.
LEMMA CoveredWithin ==
    \A b : Covered(b) <=> Within(b, indexed \cup lost)
BY DEF Covered, Within

\* A step that leaves the index alone, or only adds to it, keeps what it says of itself.
LEMMA SoundStays ==
    ASSUME Sound, UNCHANGED <<m_synced, m_best_block_index, sync, pindex, locator>>,
           indexed \subseteq indexed', lost \subseteq lost'
    PROVE  Sound'
BY DEF Sound, SyncSound, IndexComplete, LocatorSound, Covered

\* A node that goes on from a locator whose chain is indexed is sound.
LEMMA StartSound ==
    ASSUME NEW top \in Blocks \cup {NoBlock}, NEW loc \in Blocks \cup {NoBlock}, Start(top, loc),
           Within(loc, indexed \cup lost')
    PROVE  Sound'
<1> DEFINE best == FindForkInGlobalIndex(loc, top)
<1>1. indexed' = indexed /\ locator' = loc /\ m_best_block_index' = best /\ pindex' = best
      /\ sync' \in {"done", "next"}
  BY DEF Start
<1>2. Within(best, indexed \cup lost')
  BY WithinStart
<1>3. Within(locator', indexed' \cup lost') /\ Within(pindex', indexed' \cup lost')
      /\ Within(m_best_block_index', indexed' \cup lost')
  BY <1>1, <1>2
<1> HIDE DEF best
<1> QED
  BY <1>1, <1>3 DEF Sound, SyncSound, IndexComplete, LocatorSound, Covered, Within

\* The three steps of the sync thread.
LEMMA SyncSteps ==
    ASSUME TypeOK, Sound, SyncThread
    PROVE  Sound'
<1>1. CASE SyncNext /\ NextSyncBlock(pindex) = NoBlock
  BY <1>1 DEF SyncNext, Sound, SyncSound, IndexComplete, LocatorSound, Covered, TypeOK
<1>2. CASE SyncNext /\ NextSyncBlock(pindex) # NoBlock
  <2>1. Within(pindex, indexed \cup lost) /\ Within(locator, indexed \cup lost)
    BY <1>2, CoveredWithin DEF SyncNext, Sound, SyncSound, LocatorSound
  <2>2. pindex' \in Blocks /\ sync' = "locator"
    BY <1>2, NextSyncBlockMember, ParentChain DEF SyncNext, TypeOK
  <2>3. Within(pprev(pindex'), indexed \cup lost)
    <3>1. pindex' = NextSyncBlock(pindex)
      BY <1>2 DEF SyncNext
    <3> QED
      BY <1>2, <2>1, <3>1, NextSyncBlockMember, WithinAncestor DEF TypeOK
  <2>4. UNCHANGED <<locator, indexed, lost, m_synced, m_best_block_index>> /\ sync = "next"
    BY <1>2 DEF SyncNext
  <2> QED
    BY <2>1, <2>2, <2>3, <2>4
       DEF Sound, SyncSound, IndexComplete, LocatorSound, Covered, Within, TypeOK
<1>3. CASE SyncWriteLocator
  BY <1>3 DEF SyncWriteLocator, Sound, SyncSound, IndexComplete, LocatorSound, Covered, TypeOK
<1>4. CASE SyncWriteBlock
  <2>1. pindex \in Blocks /\ Within(pprev(pindex), indexed \cup lost)
    BY <1>4, CoveredWithin DEF SyncWriteBlock, Sound, SyncSound
  <2>2. indexed' = indexed \cup {pindex} /\ UNCHANGED <<lost, pindex, locator, m_synced>>
        /\ sync' = "next" /\ ~m_synced
    BY <1>4 DEF SyncWriteBlock, TypeOK
  <2>3. Within(pprev(pindex), indexed' \cup lost')
    BY <2>1, <2>2 DEF Within
  <2>4. Within(pindex, indexed' \cup lost')
    BY <2>1, <2>2, <2>3, WithinNext
  <2>5. locator = pindex \/ Within(locator, indexed' \cup lost')
    BY <2>2 DEF Sound, LocatorSound, Covered, Within
  <2> QED
    BY <2>2, <2>4, <2>5 DEF Sound, SyncSound, IndexComplete, LocatorSound, Covered, Within
<1> QED
  BY <1>1, <1>2, <1>3, <1>4 DEF SyncThread

\* The callbacks.
LEMMA DeliverStep ==
    ASSUME TypeOK, ClientInv, Sound, NEW t \in Servers, Deliver(t)
    PROVE  Sound'
<1>1. callback[t] \in Callbacks
  BY DEF Deliver, RunCallback, ClientInv, CallbackHeld, Running, ClientTypeOK
<1>2. UNCHANGED <<m_synced, sync, pindex, lost>>
  BY DEF Deliver
<1>3. ASSUME NEW b \in Blocks, BlockConnected(b) PROVE Sound'
  <2>1. CASE m_synced /\ GetAncestor(m_best_block_index, Height(b) - 1) = pprev(b)
    <3>1. Within(m_best_block_index, indexed \cup lost)
      BY <2>1, CoveredWithin DEF Sound, IndexComplete
    <3>2. Within(pprev(b), indexed \cup lost)
      BY <2>1, <3>1, GetAncestorMember, WithinAncestor DEF TypeOK
    <3>3. indexed' = indexed \cup {b} /\ m_best_block_index' = b /\ locator' = locator
      BY <1>3, <2>1 DEF BlockConnected
    <3>4. Within(pprev(b), indexed' \cup lost')
      BY <1>2, <3>2, <3>3 DEF Within
    <3>5. Within(b, indexed' \cup lost')
      BY <3>3, <3>4, WithinNext
    <3>6. SyncSound' /\ LocatorSound'
      BY <1>2, <3>3 DEF Sound, SyncSound, LocatorSound, Covered
    <3>7. IndexComplete'
      BY <3>3, <3>5 DEF IndexComplete, Covered, Within
    <3> QED
      BY <3>6, <3>7 DEF Sound
  <2>2. CASE ~(m_synced /\ GetAncestor(m_best_block_index, Height(b) - 1) = pprev(b))
    BY <1>2, <1>3, <2>2, SoundStays DEF BlockConnected
  <2> QED
    BY <2>1, <2>2
<1>4. ASSUME NEW b \in Blocks, ChainStateFlushed(b) PROVE Sound'
  <2>1. CASE m_synced /\ GetAncestor(m_best_block_index, Height(b)) = b
    <3>1. Within(m_best_block_index, indexed \cup lost)
      BY <2>1, CoveredWithin DEF Sound, IndexComplete
    <3>2. Within(b, indexed \cup lost)
      BY <2>1, <3>1, GetAncestorMember, WithinAncestor DEF TypeOK
    <3>3. locator' = b /\ UNCHANGED <<indexed, m_best_block_index>>
      BY <1>4, <2>1 DEF ChainStateFlushed
    <3> QED
      BY <1>2, <3>2, <3>3 DEF Sound, SyncSound, IndexComplete, LocatorSound, Covered, Within
  <2>2. CASE ~(m_synced /\ GetAncestor(m_best_block_index, Height(b)) = b)
    BY <1>2, <1>4, <2>2, SoundStays DEF ChainStateFlushed
  <2> QED
    BY <2>1, <2>2
<1>5. ASSUME NEW u, KeepPromise(u) PROVE Sound'
  BY <1>2, <1>5, SoundStays DEF KeepPromise
<1> QED
  BY <1>1, <1>3, <1>4, <1>5, CallbackKinds DEF Deliver

\* A crash and a shutdown.  The block whose locator a crash leaves on disk without the
\* block itself is the one that is lost.
LEMMA RestartStep ==
    ASSUME TypeOK, Sound, Crash \/ Shutdown
    PROVE  Sound'
<1> USE DEF TypeOK
<1>1. CASE Crash
  <2>1. CASE Covered(locator)
    BY <1>1, <2>1, StartSound DEF Crash, Covered, Within
  <2>2. CASE sync = "block" /\ locator = pindex /\ Covered(pprev(pindex))
    <3>1. pindex \in Blocks /\ pindex \in indexed \cup lost'
      BY <1>1, <2>2 DEF Crash, Sound, SyncSound
    <3>2. Within(pprev(pindex), indexed \cup lost')
      BY <1>1, <2>2 DEF Crash, Covered, Within
    <3>3. Within(locator, indexed \cup lost')
      BY <2>2, <3>1, <3>2, WithinNext
    <3> QED
      BY <1>1, <3>3, StartSound DEF Crash
  <2> QED
    BY <2>1, <2>2 DEF Sound, LocatorSound
<1>2. CASE Shutdown
  <2> DEFINE loc == IF sync = "next" THEN pindex ELSE locator
  <2>1. Covered(loc)
    BY <1>2 DEF Shutdown, Sound, SyncSound, LocatorSound
  <2>2. Start(tip, loc) /\ lost' = lost
    BY <1>2 DEF Shutdown
  <2>3. loc \in Blocks \cup {NoBlock}
    OBVIOUS
  <2> QED
    BY <2>1, <2>2, <2>3, StartSound DEF Covered, Within
<1> QED
  BY <1>1, <1>2

\* Every step keeps what the index says of itself.
LEMMA SoundStep ==
    ASSUME IInv, [Next]_vars
    PROVE  Sound'
<1>1. TypeOK /\ ClientInv /\ Sound
  BY DEF IInv, Sound
<1>2. ASSUME NEW t \in Servers, ServerThread(t) PROVE Sound'
  BY <1>1, <1>2, DeliverStep, SoundStays DEF ServerThread, others, index
<1>3. ASSUME ValidatorThread \/ ActivateBestChain \/ FlushStateToDisk
             \/ \E b \in Blocks : InvalidateBlock(b)
      PROVE  Sound'
  BY <1>1, <1>3, SoundStays
     DEF ValidatorThread, others, QueueDrained, ActivateBestChainStep, Signal,
         ActivateBestChain, FlushStateToDisk, InvalidateBlock, index
<1>4. ASSUME RpcThread \/ BlockUntilSyncedToCurrentChain PROVE Sound'
  BY <1>1, <1>4, SoundStays
     DEF RpcThread, others, WaitForQueue, Answer, BlockUntilSyncedToCurrentChain, index
<1>5. ASSUME UNCHANGED vars PROVE Sound'
  BY <1>1, <1>5, SoundStays DEF vars, index
<1> QED
  BY <1>1, <1>2, <1>3, <1>4, <1>5, SyncSteps, RestartStep DEF Next, Progress

\* The invariant holds when the index is first enabled, on any chain.
LEMMA InitInv == Init => IInv
<1> SUFFICES ASSUME Init PROVE IInv
  OBVIOUS
<1>1. ClientInv
  BY ClientInitInv DEF Init
<1>2. PICK s \in Scenarios : servicing = s.servers /\ tip = s.tip /\ budget = s.budget
  BY DEF Init
<1>3. tip \in Blocks \cup {NoBlock} /\ budget \in [Events -> Nat]
  BY <1>2, BoundAssumption
<1>4. locator = NoBlock /\ m_best_block_index = FindForkInGlobalIndex(locator, tip)
      /\ pindex = m_best_block_index /\ sync \in {"done", "next"} /\ m_synced = (sync = "done")
  BY DEF Init
<1>5. m_best_block_index \in Blocks \cup {NoBlock}
  BY <1>3, <1>4, StartType
<1>6. TypeOK
  BY <1>1, <1>3, <1>4, <1>5 DEF Init, TypeOK, ClientInv
<1>7. Within(locator, indexed \cup lost) /\ Within(pindex, indexed \cup lost)
  BY <1>3, <1>4, WithinStart, ParentChain DEF Within
<1>8. SyncSound /\ IndexComplete /\ LocatorSound
  BY <1>4, <1>7, CoveredWithin DEF SyncSound, IndexComplete, LocatorSound
<1> QED
  BY <1>1, <1>6, <1>8 DEF IInv

\* It holds always.
LEMMA Invariant == Spec => []IInv
<1>1. IInv /\ [Next]_vars => IInv'
  BY TypeStep, ClientInvStep, SoundStep DEF IInv, Sound
<1> QED
  BY <1>1, InitInv, PTL DEF Spec

-----------------------------------------------------------------------------
(* The answers of the index.                                               *)

\* The chain up to d has been signalled, and what the validating thread has still to
\* signal is the rest; the line ends at d, and leads an index that is in sync there.
Signalled(d) ==
    /\ Below(d, tip) /\ connects = ChainTo(tip) \ ChainTo(d)
    /\ Ends(Line, d)
    /\ m_synced => Leads(Line, m_best_block_index, d)
Announced ==
    /\ connects # {} => vpc = "signal"
    /\ Linked(Line)
    /\ \E d \in Blocks \cup {NoBlock} : Signalled(d)

\* A call that waits has at most one promise in the line, and what is before it brings
\* the index to the tip that the call saw.
Awaited ==
    /\ rpc # "idle" => m_synced
    /\ OnePromise(Line)
    /\ rpc # "wait" \/ Rpc \in promised => NoPromise(Line)
    /\ rpc = "sync" =>
          Covered(wanted) \/ Brings(Line, Len(Line), m_best_block_index, wanted)
    /\ rpc = "wait" =>
          Covered(wanted) \/ (Rpc \notin promised /\ BringsInTime(Line, m_best_block_index, wanted))

Answers == Announced /\ Awaited /\ AnswerTrue

\* No callback was sent to an index that was not yet listening, or was turned down, which
\* it would have needed: with nothing left to signal or to run, it knows the tip.
NothingMissed ==
    m_synced /\ connects = {} /\ m_callbacks_pending = <<>> /\ ~m_are_callbacks_running
        => tip \in ChainTo(m_best_block_index) \cup {NoBlock}

\* What is covered stays covered.
LEMMA CoveredStays ==
    ASSUME indexed \subseteq indexed', lost \subseteq lost', NEW w, Covered(w)
    PROVE  ChainTo(w) \ (lost' \cup {Genesis}) \subseteq indexed'
BY DEF Covered

\* Nothing of it changes.
LEMMA AnswersStay ==
    ASSUME Answers, Line' = Line, indexed \subseteq indexed', lost \subseteq lost',
           UNCHANGED <<tip, connects, m_synced, m_best_block_index, promised, asker>>,
           connects # {} => vpc' = "signal"
    PROVE  Answers'
<1> USE DEF asker
<1>1. Announced'
  BY DEF Answers, Announced, Signalled
<1>2. Awaited' /\ AnswerTrue'
  BY CoveredStays DEF Answers, Awaited, AnswerTrue, Covered
<1> QED
  BY <1>1, <1>2 DEF Answers

\* A callback other than BlockConnected and the call's promise is added.
LEMMA AnswersAppended ==
    ASSUME ClientInv, Answers, NEW c \in Callbacks, c.type # "connected", c # Promise(Rpc),
           Line' = Append(Line, c), connects # {} => vpc' = "signal",
           UNCHANGED <<tip, connects, m_synced, m_best_block_index, indexed, lost, asker>>,
           Rpc \in promised' <=> Rpc \in promised
    PROVE  Answers'
<1> USE DEF asker
<1>1. Line \in Seq(Callbacks)
  BY LineType
<1>2. Linked(Append(Line, c))
      /\ (\A d : Ends(Line, d) => Ends(Append(Line, c), d))
      /\ \A best, d : Leads(Line, best, d) => Leads(Append(Line, c), best, d)
  BY <1>1, OtherAppended DEF Answers, Announced
<1>3. Announced'
  <2>1. PICK d \in Blocks \cup {NoBlock} : Signalled(d)
    BY DEF Answers, Announced
  <2>2. Ends(Line', d) /\ (m_synced => Leads(Line', m_best_block_index, d))
    BY <1>2, <2>1 DEF Signalled
  <2>3. Signalled(d)'
    BY <2>1, <2>2 DEF Signalled
  <2> QED
    BY <1>2, <2>3 DEF Announced
<1>4. OnePromise(Line') /\ (NoPromise(Line) => NoPromise(Line'))
      /\ \A best, w : BringsInTime(Line, best, w) => BringsInTime(Line', best, w)
  BY <1>1, PromisesAppended DEF Answers, Awaited
<1>5. \A best, w : Brings(Line, Len(Line), best, w) => Brings(Line', Len(Line'), best, w)
  BY <1>1, AllAppended
<1>6. Awaited' /\ AnswerTrue'
  BY <1>4, <1>5 DEF Answers, Awaited, AnswerTrue, Covered
<1> QED
  BY <1>3, <1>6 DEF Answers

\* The validating thread signals the next block of the chain.
LEMMA SignalAnswers ==
    ASSUME TypeOK, ClientInv, ClientInv', Answers, Signal
    PROVE  Answers'
<1> USE CallbackKinds DEF asker, index
<1>0. pc[Validator] = "ready" /\ vpc = "signal" /\ UNCHANGED <<tip, lost, promised, asker, index>>
  BY DEF Signal
<1>1. CASE flushSignal # NoBlock
  <2>1. flushSignal \in Blocks /\ AddToProcessQueue(Validator, Flushed(flushSignal))
        /\ UNCHANGED <<connects, vpc>>
    BY <1>1 DEF Signal, TypeOK
  <2>2. Line' = Append(Line, Flushed(flushSignal)) /\ Flushed(flushSignal) \in Callbacks
    BY <2>1, LineSteps
  <2>3. Flushed(flushSignal).type = "flushed" /\ Promise(Rpc).type = "promise"
    BY DEF Flushed, Promise
  <2>4. Flushed(flushSignal).type # "connected" /\ Flushed(flushSignal) # Promise(Rpc)
    BY <2>3
  <2> QED
    BY <1>0, <2>1, <2>2, <2>4, AnswersAppended
<1>2. CASE flushSignal = NoBlock /\ connects = {}
  <2>1. UNCHANGED <<client, connects>>
    BY <1>2 DEF Signal
  <2>2. Line' = Line
    BY <2>1, LineSteps
  <2> QED
    BY <1>0, <1>2, <2>1, <2>2, AnswersStay
<1>3. CASE flushSignal = NoBlock /\ connects # {}
  <2>1. PICK b \in Blocks : /\ b = Lowest(connects) /\ b \in connects
                            /\ \A x \in connects : nHeight[b] <= nHeight[x]
    BY <1>3, LowestMember DEF TypeOK
  <2> DEFINE c == Connected(b)
  <2>2. AddToProcessQueue(Validator, c) /\ connects' = connects \ {b} /\ vpc' = vpc
    BY <1>3, <2>1 DEF Signal
  <2>3. c \in Callbacks /\ c # Promise(Rpc)
    <3>1. c.type = "connected" /\ Promise(Rpc).type = "promise"
      BY DEF Connected, Promise
    <3> QED
      BY <2>1, <3>1
  <2>4. Line' = Append(Line, c)
    BY <2>2, <2>3, LineSteps
  <2>5. PICK d \in Blocks \cup {NoBlock} : Signalled(d)
    BY DEF Answers, Announced
  <2>6. tip \in Blocks /\ b \in Chain[tip] /\ b \notin ChainTo(d) /\ ChainTo(tip) = Chain[tip]
        /\ connects = Chain[tip] \ ChainTo(d) /\ Below(d, tip)
    BY <2>1, <2>5, ParentChain DEF Signalled, TypeOK
  \* The block before it is the last one that was signalled.
  <2>7. Below(pprev(b), d)
    <3>1. CASE b = Genesis
      BY <3>1 DEF pprev, Below
    <3>2. CASE b # Genesis
      <4>1. pprev(b) = Parent[b] /\ Parent[b] \in Chain[tip] /\ nHeight[Parent[b]] < nHeight[b]
            /\ nHeight[b] \in Nat /\ nHeight[Parent[b]] \in Nat
        <5>1. Parent[b] \in Chain[tip] /\ Parent[b] \in Blocks
          BY <2>6, <3>2, ParentInChain, ParentOf
        <5>2. nHeight[b] = nHeight[Parent[b]] + 1 /\ nHeight[Parent[b]] \in Nat
          BY <3>2, <5>1, HeightOf
        <5>3. nHeight[Parent[b]] < nHeight[b] /\ nHeight[b] \in Nat
          BY <5>2, SMT
        <5>4. pprev(b) = Parent[b]
          BY <3>2 DEF pprev
        <5> QED
          BY <5>1, <5>2, <5>3, <5>4
      <4>2. Parent[b] \notin connects
        <5>1. ~(nHeight[b] <= nHeight[Parent[b]])
          BY <4>1, SMT
        <5> QED
          BY <2>1, <5>1
      <4> QED
        BY <2>6, <4>1, <4>2 DEF Below
    <3> QED
      BY <3>1, <3>2
  <2>8. ChainTo(d) \subseteq ChainTo(b) /\ ChainTo(b) \ {b} \subseteq ChainTo(d)
    <3>1. ChainTo(b) = ChainTo(pprev(b)) \cup {b} /\ ChainTo(b) = Chain[b]
      BY <2>1, ParentChain
    <3>2. Below(NoBlock, pprev(b))
      BY DEF Below
    <3>3. ChainTo(pprev(b)) \subseteq ChainTo(d)
      BY <2>5, <2>7, <3>2, BelowTransitive
    <3>4. CASE d = NoBlock
      BY <3>1, <3>3, <3>4, ParentChain
    <3>5. CASE d # NoBlock
      <4>1. d \in Chain[tip] /\ d \in Blocks /\ ChainTo(d) = Chain[d]
        BY <2>6, <3>5, ParentChain DEF Below
      <4>2. d \in Chain[b]
        BY <2>6, <4>1, ChainLinear
      <4>3. Chain[d] \subseteq Chain[b]
        BY <2>1, <4>2, ChainTransitive
      <4> QED
        BY <3>1, <3>3, <4>1, <4>3
    <3> QED
      BY <3>4, <3>5
  <2>9. connects' = ChainTo(tip) \ ChainTo(b) /\ Below(b, tip)
    <3>1. b \in ChainTo(b)
      BY ParentChain, SMT
    <3>2. connects \ {b} = Chain[tip] \ ChainTo(b)
      BY <2>6, <2>8, <3>1
    <3> QED
      BY <2>2, <2>6, <3>2 DEF Below
  <2>10. Line \in Seq(Callbacks) /\ Linked(Line) /\ Ends(Line, d)
    BY <2>5, LineType DEF Signalled, Answers, Announced
  <2>11. Linked(Line') /\ Ends(Line', b)
         /\ \A best \in Blocks \cup {NoBlock} : Leads(Line, best, d) => Leads(Line', best, b)
    BY <2>1, <2>4, <2>7, <2>10, ConnectedAppended
  <2>12. m_best_block_index \in Blocks \cup {NoBlock}
    BY DEF TypeOK
  <2>13. Signalled(b)'
    BY <1>0, <2>5, <2>9, <2>11, <2>12 DEF Signalled
  <2>14. Announced'
    BY <1>0, <2>1, <2>2, <2>11, <2>13 DEF Announced
  <2>15. OnePromise(Line') /\ (NoPromise(Line) => NoPromise(Line'))
         /\ \A best, w : BringsInTime(Line, best, w) => BringsInTime(Line', best, w)
    BY <2>3, <2>4, <2>10, PromisesAppended DEF Answers, Awaited
  <2>16. \A best, w : Brings(Line, Len(Line), best, w) => Brings(Line', Len(Line'), best, w)
    BY <2>3, <2>4, <2>10, AllAppended
  <2>17. Awaited' /\ AnswerTrue'
    BY <1>0, <2>15, <2>16 DEF Answers, Awaited, AnswerTrue, Covered
  <2> QED
    BY <2>14, <2>17 DEF Answers
<1> QED
  BY <1>1, <1>2, <1>3

\* Two chains fork at a block, and have in common what is below it.
LEMMA ForkPoint ==
    ASSUME NEW b \in Blocks, NEW top \in Blocks \cup {NoBlock}
    PROVE  \E f \in Blocks \cup {NoBlock} :
               Below(f, b) /\ Below(f, top) /\ ChainTo(b) \ ChainTo(top) = ChainTo(b) \ ChainTo(f)
<1>1. CASE top = NoBlock
  BY <1>1, ParentChain DEF Below
<1>2. CASE top # NoBlock
  <2>1. top \in Blocks /\ ChainTo(top) = Chain[top]
    BY <1>2, ParentChain
  <2>2. PICK f \in Chain[b] \cap Chain[top] : Chain[b] \cap Chain[top] = Chain[b] \cap Chain[f]
    BY <2>1, CommonAncestor, SMT
  <2>3. f \in Blocks /\ ChainTo(f) = Chain[f] /\ ChainTo(b) = Chain[b]
    BY <2>2, ParentChain, SMT
  <2> QED
    BY <2>1, <2>2, <2>3 DEF Below
<1> QED
  BY <1>1, <1>2

\* The tip changes: the chain that was signalled is cut back to the fork.
LEMMA TipAnswers ==
    ASSUME TypeOK, ClientInv, Answers, Line' = Line, vpc # "signal",
           UNCHANGED <<m_synced, m_best_block_index, indexed, lost, promised, asker>>,
           NEW f \in Blocks \cup {NoBlock}, Below(f, tip), Below(f, tip'),
           connects' = ChainTo(tip') \ ChainTo(f), vpc' = "signal"
    PROVE  Answers'
<1> USE DEF asker
<1>1. PICK d \in Blocks \cup {NoBlock} : Signalled(d)
  BY DEF Answers, Announced
<1>2. Below(f, d)
  <2>1. ChainTo(tip) \subseteq ChainTo(d)
    BY <1>1 DEF Signalled, Answers, Announced
  <2> QED
    BY <2>1 DEF Below
<1>3. Line \in Seq(Callbacks)
  BY LineType
<1>4. Ends(Line, f) /\ (m_synced => Leads(Line, m_best_block_index, f))
  BY <1>1, <1>2, <1>3, LowerEnd DEF Signalled, TypeOK
<1>5. Signalled(f)'
  BY <1>4 DEF Signalled
<1>6. Announced'
  BY <1>5 DEF Announced, Answers
<1>7. Awaited' /\ AnswerTrue'
  BY DEF Answers, Awaited, AnswerTrue, Covered
<1> QED
  BY <1>6, <1>7 DEF Answers

\* A block is connected, or one is invalidated.
LEMMA ChainAnswers ==
    ASSUME TypeOK, ClientInv, ClientInv', Answers, NEW b \in Blocks,
           ActivateBestChainStep(b) \/ InvalidateBlock(b)
    PROVE  Answers'
<1> USE DEF asker, index
<1>1. Line' = Line /\ vpc # "signal" /\ vpc' = "signal"
      /\ UNCHANGED <<m_synced, m_best_block_index, indexed, lost, promised, asker>>
  BY LineSteps DEF ActivateBestChainStep, InvalidateBlock
<1>2. tip \in Blocks \cup {NoBlock}
  BY DEF TypeOK
<1>3. CASE ActivateBestChainStep(b)
  <2>1. tip' = b /\ connects' = ChainTo(b) \ ChainTo(tip)
    BY <1>3 DEF ActivateBestChainStep
  <2>2. PICK f \in Blocks \cup {NoBlock} :
            Below(f, b) /\ Below(f, tip) /\ ChainTo(b) \ ChainTo(tip) = ChainTo(b) \ ChainTo(f)
    BY <1>2, ForkPoint
  <2> QED
    BY <1>1, <2>1, <2>2, TipAnswers
<1>4. CASE InvalidateBlock(b)
  <2>1. tip' = pprev(b) /\ Below(b, tip) /\ connects' = connects /\ connects = {}
    BY <1>1, <1>4 DEF InvalidateBlock, Below, Answers, Announced
  <2>2. pprev(b) \in Blocks \cup {NoBlock} /\ Below(pprev(b), tip) /\ Below(pprev(b), pprev(b))
    <3>1. pprev(b) \in Blocks \cup {NoBlock} /\ Below(pprev(b), b)
      BY ParentChain, BelowBlock
    <3>2. Below(pprev(b), pprev(b))
      BY <3>1, BelowBlock DEF Below
    <3> QED
      BY <1>2, <2>1, <3>1, <3>2, BelowTransitive
  <2>3. connects' = ChainTo(tip') \ ChainTo(pprev(b))
    BY <2>1
  <2> QED
    BY <1>1, <2>1, <2>2, <2>3, TipAnswers
<1> QED
  BY <1>3, <1>4

\* The sync thread stops at the tip, or above it when the chain was cut back.
LEMMA SyncEnd ==
    ASSUME TypeOK, NextSyncBlock(pindex) = NoBlock
    PROVE  Below(tip, pindex)
<1>1. CASE tip = NoBlock
  BY <1>1 DEF Below
<1>2. CASE tip # NoBlock
  <2>1. tip \in Blocks /\ ChainTo(tip) = Chain[tip] /\ pindex \in Blocks \cup {NoBlock}
    BY <1>2, ParentChain DEF TypeOK
  \* Every block of the chain but the tip has a next one.
  <2>2. ASSUME NEW a \in Chain[tip], NextInChain(a) = NoBlock PROVE a = tip
    <3> SUFFICES ASSUME a # tip PROVE FALSE
      OBVIOUS
    <3>1. PICK c \in Chain[tip] \ {Genesis} : Parent[c] = a
      BY <2>1, ChildInChain
    <3>2. c \in {x \in ChainTo(tip) : pprev(x) = a}
      BY <2>1, <3>1 DEF pprev
    <3>3. NextInChain(a) \in ChainTo(tip)
      BY <3>2, OnlyMember DEF NextInChain
    <3> QED
      BY <2>1, <2>2, <3>3, ParentChain, NoBlockIsNone
  <2>3. NextInChain(NoBlock) # NoBlock
    <3>1. Genesis \in {x \in ChainTo(tip) : pprev(x) = NoBlock}
      BY <2>1, GenesisInChain DEF pprev
    <3>2. NextInChain(NoBlock) \in ChainTo(tip)
      BY <3>1, OnlyMember DEF NextInChain
    <3> QED
      BY <2>1, <3>2, ParentChain, NoBlockIsNone
  <2>4. CASE pindex \in ChainTo(tip) \cup {NoBlock}
    <3>1. pindex \in Chain[tip] /\ NextInChain(pindex) = NoBlock
      BY <2>1, <2>3, <2>4 DEF NextSyncBlock
    <3> QED
      BY <2>1, <2>2, <3>1, BelowBlock
  <2>5. CASE pindex \notin ChainTo(tip) \cup {NoBlock}
    <3> DEFINE f == FindFork(pindex, tip)
    <3>1. NextInChain(f) = NoBlock
      BY <2>5 DEF NextSyncBlock
    <3>2. f \in ChainTo(pindex) \cap ChainTo(tip)
      BY <2>3, <3>1, FindForkMember
    <3>3. f = tip
      BY <2>1, <2>2, <3>1, <3>2
    <3> QED
      BY <3>2, <3>3 DEF Below
  <2> QED
    BY <2>4, <2>5
<1> QED
  BY <1>1, <1>2

\* The steps of the sync thread.
LEMMA SyncAnswers ==
    ASSUME TypeOK, ClientInv, ClientInv', Answers, SyncThread
    PROVE  Answers'
<1> USE DEF asker, chain
<1>1. Line' = Line
  BY LineSteps DEF SyncThread, SyncNext, SyncWriteLocator, SyncWriteBlock
<1>2. CASE SyncNext /\ NextSyncBlock(pindex) = NoBlock
  <2>1. m_synced' = TRUE /\ m_best_block_index' = pindex /\ connects = {} /\ ~m_synced
        /\ UNCHANGED <<tip, connects, vpc, indexed, lost, promised, asker>>
    BY <1>2 DEF SyncNext, CsMainHeld, Answers, Announced, TypeOK
  <2>2. PICK d \in Blocks \cup {NoBlock} : Signalled(d)
    BY DEF Answers, Announced
  <2>3. Below(d, pindex)
    <3>1. Below(tip, pindex) /\ Below(d, tip) /\ pindex \in Blocks \cup {NoBlock}
      BY <1>2, <2>2, SyncEnd DEF Signalled, TypeOK
    <3> QED
      BY <3>1, BelowTransitive
  <2>4. Signalled(d)'
    BY <1>1, <2>1, <2>2, <2>3 DEF Signalled, Leads
  <2>5. Announced'
    BY <1>1, <2>1, <2>4 DEF Answers, Announced
  <2>6. Awaited' /\ AnswerTrue'
    BY <1>1, <2>1 DEF Answers, Awaited, AnswerTrue, Covered, asker
  <2> QED
    BY <2>5, <2>6 DEF Answers
<1>3. CASE \/ SyncNext /\ NextSyncBlock(pindex) # NoBlock
           \/ SyncWriteLocator \/ SyncWriteBlock
  <2>1. UNCHANGED <<tip, connects, vpc, m_synced, m_best_block_index, promised, asker, lost>>
        /\ indexed \subseteq indexed'
    BY <1>3 DEF SyncNext, SyncWriteLocator, SyncWriteBlock
  <2> QED
    BY <1>1, <2>1, AnswersStay DEF Answers, Announced
<1> QED
  BY <1>2, <1>3 DEF SyncThread

\* A callback is run.
LEMMA DeliverAnswers ==
    ASSUME TypeOK, TypeOK', ClientInv, ClientInv', Sound', Answers, NEW t \in Servers, Deliver(t)
    PROVE  Answers'
<1> DEFINE L == Line
           best == m_best_block_index
<1>1. L # <<>> /\ L[1] = callback[t] /\ Line' = Tail(L) /\ L \in Seq(Callbacks)
      /\ callback[t] \in Callbacks /\ Len(L) \in Nat \ {0}
      /\ (Conn(L, 1) <=> callback[t].type = "connected")
  <2>1. RunCallback(t)
    BY DEF Deliver
  <2>2. L # <<>> /\ L[1] = callback[t] /\ Line' = Tail(L) /\ L \in Seq(Callbacks)
    BY <2>1, LineSteps, LineType
  <2>3. Len(L) \in Nat \ {0} /\ 1 \in 1..Len(L)
    BY <2>2, Dropped, SMT
  <2>4. callback[t] \in Callbacks
    BY <2>2, <2>3, SMT
  <2> QED
    BY <2>2, <2>3, <2>4 DEF Conn
<1>2. UNCHANGED <<tip, connects, vpc, m_synced, wanted, rpc, answered, lost>>
  BY DEF Deliver, chain, asker
<1>3. best \in Blocks \cup {NoBlock} /\ best' \in Blocks \cup {NoBlock} /\ m_synced \in BOOLEAN
  BY DEF TypeOK
<1>4. /\ indexed \subseteq indexed'
      /\ m_synced => best' = Advanced(L, best)
      /\ Rpc \in promised' => Rpc \in promised \/ L[1] = Promise(Rpc)
  <2>1. CASE callback[t].type = "connected" /\ BlockConnected(callback[t].block)
    <3>1. callback[t].block \in Blocks
      BY <1>1, <2>1, CallbackKinds
    <3>2. m_synced => best' = Advanced(L, best)
      BY <1>1, <1>3, <2>1, <3>1, AncestorTest DEF BlockConnected, Advanced
    <3> QED
      BY <2>1, <3>2 DEF BlockConnected
  <2>2. CASE callback[t].type = "flushed" /\ ChainStateFlushed(callback[t].block)
    BY <1>1, <2>2 DEF ChainStateFlushed, Advanced
  <2>3. CASE callback[t].type = "promise" /\ KeepPromise(callback[t].by)
    <3>1. callback[t] = Promise(callback[t].by)
      <4>1. PICK u \in Callers : callback[t] = Promise(u)
        <5>1. \A b \in Blocks : Connected(b).type = "connected" /\ Flushed(b).type = "flushed"
          BY DEF Connected, Flushed
        <5> QED
          BY <1>1, <2>3, <5>1, CallerAssumption
      <4>2. Promise(u).by = u
        BY DEF Promise
      <4> QED
        BY <4>1, <4>2
    <3>2. m_synced => best' = Advanced(L, best)
      BY <1>1, <2>3 DEF KeepPromise, Advanced
    <3> QED
      BY <1>1, <2>3, <3>1, <3>2 DEF KeepPromise
  <2> QED
    BY <2>1, <2>2, <2>3 DEF Deliver
<1> HIDE DEF L
<1>5. Linked(L) /\ OnePromise(L) /\ (connects # {} => vpc = "signal")
  BY DEF Answers, Announced, Awaited, L
\* The index has what it is in sync with.
<1>6. ASSUME NEW w, m_synced, Below(w, best')
      PROVE  ChainTo(w) \ (lost' \cup {Genesis}) \subseteq indexed'
  <2>1. Within(best', indexed' \cup lost')
    BY <1>2, <1>6 DEF Sound, IndexComplete, Covered, Within
  <2>2. Within(w, indexed' \cup lost')
    BY <1>3, <1>6, <2>1, WithinAncestor DEF Below
  <2> QED
    BY <2>2 DEF Within
<1>7. Announced'
  <2>1. PICK d \in Blocks \cup {NoBlock} : Signalled(d)
    BY DEF Answers, Announced
  <2>2. Linked(Line') /\ Ends(Line', d)
    BY <1>1, <1>5, <2>1, LinkedDropped DEF Signalled, L
  <2>3. ASSUME m_synced PROVE Leads(Line', best', d)
    BY <1>1, <1>4, <1>5, <2>1, <2>3, LeadsDropped DEF Signalled, L
  <2>4. Signalled(d)'
    BY <1>2, <2>1, <2>2, <2>3 DEF Signalled
  <2> QED
    BY <1>2, <1>5, <2>2, <2>4 DEF Announced
<1>8. /\ OnePromise(Line') /\ (NoPromise(L) => NoPromise(Line'))
      /\ L[1] = Promise(Rpc) => NoPromise(Line')
  BY <1>1, <1>5, PromisesDropped
<1>9. ASSUME rpc = "sync" PROVE Covered(wanted)' \/ Brings(Line', Len(Line'), best', wanted)
  <2>1. m_synced /\ (Covered(wanted) \/ Brings(L, Len(L), best, wanted))
    BY <1>9 DEF Answers, Awaited, L
  <2>2. CASE Covered(wanted)
    BY <1>2, <1>4, <2>2, CoveredStays DEF Covered
  <2>3. CASE Brings(L, Len(L), best, wanted)
    <3>1. Len(L) \in 1..Len(L) /\ Len(Line') = Len(L) - 1
      <4>1. Len(L) \in Nat \ {0} /\ Len(Tail(L)) = Len(L) - 1
        BY <1>1, Dropped
      <4>2. Len(L) \in 1..Len(L)
        BY <4>1, SMT
      <4> QED
        BY <1>1, <4>1, <4>2
    <3>2. Below(wanted, best') \/ Brings(Line', Len(L) - 1, best', wanted)
      BY <1>1, <1>4, <1>5, <2>1, <2>3, <3>1, BringsDropped
    <3> QED
      BY <1>2, <1>6, <2>1, <3>1, <3>2 DEF Covered
  <2> QED
    BY <2>1, <2>2, <2>3
<1>10. ASSUME rpc = "wait"
       PROVE  Covered(wanted)' \/ (Rpc \notin promised' /\ BringsInTime(Line', best', wanted))
  <2>1. m_synced /\ (Covered(wanted) \/ (Rpc \notin promised /\ BringsInTime(L, best, wanted)))
    BY <1>10 DEF Answers, Awaited, L
  <2>2. CASE Covered(wanted)
    BY <1>2, <1>4, <2>2, CoveredStays DEF Covered
  <2>3. CASE Rpc \notin promised /\ BringsInTime(L, best, wanted)
    <3>1. \/ L[1] # Promise(Rpc) /\ BringsInTime(Line', best', wanted)
          \/ Below(wanted, best')
      BY <1>1, <1>4, <1>5, <2>1, <2>3, PromisesDropped
    <3> QED
      BY <1>2, <1>4, <1>6, <2>1, <2>3, <3>1 DEF Covered
  <2> QED
    BY <2>1, <2>2, <2>3
<1>11. rpc # "wait" \/ Rpc \in promised' => NoPromise(Line')
  BY <1>4, <1>8 DEF Answers, Awaited, L
<1>12. Awaited'
  BY <1>2, <1>8, <1>9, <1>10, <1>11 DEF Answers, Awaited
<1>13. AnswerTrue'
  BY <1>2, <1>4, CoveredStays DEF Answers, AnswerTrue, Covered
<1> QED
  BY <1>7, <1>12, <1>13 DEF Answers

\* BlockUntilSyncedToCurrentChain
LEMMA CallAnswers ==
    ASSUME TypeOK, ClientInv, ClientInv', Sound, Answers, BlockUntilSyncedToCurrentChain
    PROVE  Answers'
<1> USE DEF index, chain
<1>1. Line' = Line /\ m_synced /\ tip \in Blocks /\ rpc = "idle" /\ connects = {}
      /\ promised' = promised
      /\ UNCHANGED <<tip, connects, vpc, m_synced, m_best_block_index, indexed, lost>>
  BY LineSteps DEF BlockUntilSyncedToCurrentChain, CsMainHeld, Answers, Announced, TypeOK
<1>2. Announced'
  BY <1>1 DEF Answers, Announced, Signalled
<1>3. OnePromise(Line) /\ NoPromise(Line)
  BY <1>1 DEF Answers, Awaited
<1>4. ASSUME Below(tip, m_best_block_index) PROVE Covered(tip)
  <2>1. Within(m_best_block_index, indexed \cup lost)
    BY <1>1, CoveredWithin DEF Sound, IndexComplete
  <2>2. Within(tip, indexed \cup lost)
    BY <1>4, <2>1, WithinAncestor DEF Below, TypeOK
  <2> QED
    BY <2>2, CoveredWithin
<1>5. CASE CaughtUp
  <2>1. Below(tip, m_best_block_index)
    BY <1>5, GetAncestorMember DEF CaughtUp, Below
  <2>2. answered' = tip /\ UNCHANGED <<wanted, rpc>>
    BY <1>5 DEF BlockUntilSyncedToCurrentChain
  <2>3. Awaited' /\ AnswerTrue'
    BY <1>1, <1>3, <1>4, <2>1, <2>2 DEF Awaited, AnswerTrue, Covered
  <2> QED
    BY <1>2, <2>3 DEF Answers
<1>6. CASE ~CaughtUp
  <2>1. wanted' = tip /\ rpc' = "sync" /\ answered' = answered
    BY <1>6 DEF BlockUntilSyncedToCurrentChain
  <2>2. PICK d \in Blocks \cup {NoBlock} : Signalled(d)
    BY DEF Answers, Announced
  <2>3. d = tip
    <3>1. tip \in ChainTo(d) /\ Below(d, tip)
      BY <1>1, <2>2, ParentChain DEF Signalled
    <3>2. d \in Blocks /\ tip \in Chain[d] /\ d \in Chain[tip]
      BY <1>1, <3>1, ParentChain, NoBlockIsNone DEF Below
    <3> QED
      BY <1>1, <3>2, SameChain
  <2>4. Covered(tip) \/ Brings(Line, Len(Line), m_best_block_index, tip)
    BY <1>1, <1>4, <2>2, <2>3 DEF Signalled, Leads
  <2>5. Awaited' /\ AnswerTrue'
    BY <1>1, <1>3, <2>1, <2>4 DEF Answers, Awaited, AnswerTrue, Covered
  <2> QED
    BY <1>2, <2>5 DEF Answers
<1> QED
  BY <1>5, <1>6

\* The call waits for the queue.
LEMMA WaitAnswers ==
    ASSUME TypeOK, ClientInv, ClientInv', Answers, WaitForQueue
    PROVE  Answers'
<1> USE DEF index, chain
<1> DEFINE c == Promise(Rpc)
<1>1. /\ rpc = "sync" /\ rpc' = "wait" /\ promised' = promised \ {Rpc} /\ AddToProcessQueue(Rpc, c)
      /\ UNCHANGED <<tip, connects, vpc, m_synced, m_best_block_index, indexed, lost, wanted, answered>>
  BY DEF WaitForQueue, QueuePromise
<1>2. c \in Callbacks /\ c.type # "connected"
  <2>1. c.type = "promise"
    BY DEF Promise
  <2> QED
    BY <2>1, CallbackKinds
<1>3. Line' = Append(Line, c) /\ Line \in Seq(Callbacks)
  BY <1>1, <1>2, CallbackKinds, LineSteps, LineType
<1>4. Linked(Line')
      /\ (\A d : Ends(Line, d) => Ends(Line', d))
      /\ \A best, d : Leads(Line, best, d) => Leads(Line', best, d)
  BY <1>2, <1>3, OtherAppended DEF Answers, Announced
<1>5. Announced'
  <2>1. PICK d \in Blocks \cup {NoBlock} : Signalled(d)
    BY DEF Answers, Announced
  <2>2. Ends(Line', d) /\ (m_synced => Leads(Line', m_best_block_index, d))
    BY <1>4, <2>1 DEF Signalled
  <2>3. Signalled(d)'
    BY <1>1, <2>1, <2>2 DEF Signalled
  <2> QED
    BY <1>1, <1>4, <2>3 DEF Answers, Announced
<1>6. NoPromise(Line)
  BY <1>1 DEF Answers, Awaited
<1>7. OnePromise(Line')
  BY <1>2, <1>3, <1>6, PromiseAppended
<1>8. \A best, w : Brings(Line, Len(Line), best, w) => BringsInTime(Line', best, w)
  BY <1>2, <1>3, <1>6, PromiseAppended
<1>9. Covered(wanted)' \/ BringsInTime(Line', m_best_block_index', wanted')
  BY <1>1, <1>8 DEF Answers, Awaited, Covered
<1>10. Awaited'
  BY <1>1, <1>7, <1>9 DEF Answers, Awaited
<1>11. AnswerTrue'
  BY <1>1 DEF Answers, AnswerTrue, Covered
<1> QED
  BY <1>5, <1>10, <1>11 DEF Answers

\* The call returns true.
LEMMA ReturnAnswers ==
    ASSUME ClientInv, ClientInv', Answers, Answer
    PROVE  Answers'
<1> USE DEF index, chain
<1>1. Line' = Line /\ rpc = "wait" /\ Rpc \in promised /\ promised' = promised
      /\ answered' = wanted /\ rpc' = "idle"
      /\ UNCHANGED <<tip, connects, vpc, m_synced, m_best_block_index, indexed, lost>>
  BY LineSteps DEF Answer, PromiseKept
<1>2. Announced'
  BY <1>1 DEF Answers, Announced, Signalled
<1>3. Covered(wanted) /\ OnePromise(Line) /\ NoPromise(Line)
  BY <1>1 DEF Answers, Awaited
<1>4. Awaited' /\ AnswerTrue'
  BY <1>1, <1>3 DEF Awaited, AnswerTrue, Covered
<1> QED
  BY <1>2, <1>4 DEF Answers

\* The node is started again, with an empty line.
LEMMA StartAnswers ==
    ASSUME ClientInv, ClientInv', NEW top \in Blocks \cup {NoBlock}, NEW loc, Start(top, loc)
    PROVE  Answers'
<1>1. Line' = <<>> /\ tip' = top /\ connects' = {} /\ promised' = {} /\ rpc' = "idle"
      /\ answered' = NoBlock /\ (m_synced' => m_best_block_index' = top)
  BY LineSteps DEF Start
<1>2. Below(top, top)
  BY BelowBlock DEF Below
<1>3. Linked(<<>>) /\ Ends(<<>>, top) /\ OnePromise(<<>>) /\ NoPromise(<<>>)
  BY EmptyLine
<1>4. Signalled(top)'
  BY <1>1, <1>2, <1>3 DEF Signalled, Leads
<1>5. Announced'
  BY <1>1, <1>3, <1>4 DEF Announced
<1>6. Awaited'
  BY <1>1, <1>3 DEF Awaited
<1>7. AnswerTrue'
  BY <1>1, ParentChain DEF AnswerTrue, Covered
<1> QED
  BY <1>5, <1>6, <1>7 DEF Answers

\* The validating thread asks whether the queue is long, and queues a promise of its own.
LEMMA LimitAnswers ==
    ASSUME ClientInv, ClientInv', Answers, ActivateBestChain
    PROVE  Answers'
<1> USE DEF asker, index
<1>1. connects = {} /\ vpc = "idle"
      /\ UNCHANGED <<tip, connects, m_synced, m_best_block_index, indexed, lost, asker>>
  BY DEF ActivateBestChain, Answers, Announced
<1>2. CASE QueuePromise(Validator)
  <2> DEFINE c == Promise(Validator)
  <2>1. AddToProcessQueue(Validator, c) /\ promised' = promised \ {Validator}
    BY <1>2 DEF QueuePromise
  <2>2. c \in Callbacks /\ c.type = "promise" /\ c.by = Validator /\ Promise(Rpc).by = Rpc
        /\ Validator # Rpc
    BY CallbackKinds DEF Promise, Validator, Rpc
  <2>3. Line' = Append(Line, c)
    BY <2>1, <2>2, CallbackKinds, LineSteps
  <2>4. c # Promise(Rpc) /\ c.type # "connected"
    BY <2>2
  <2> QED
    BY <1>1, <2>1, <2>2, <2>3, <2>4, AnswersAppended
<1>3. CASE UNCHANGED <<client, promised>>
  <2>1. Line' = Line
    BY <1>3, LineSteps
  <2> QED
    BY <1>1, <1>3, <2>1, AnswersStay
<1> QED
  BY <1>2, <1>3 DEF ActivateBestChain

\* Every step keeps it, one step per group of actions.
LEMMA AnswersStep ==
    ASSUME IInv, IInv', Answers, [Next]_vars
    PROVE  Answers'
<1>1. TypeOK /\ TypeOK' /\ ClientInv /\ ClientInv' /\ Sound /\ Sound'
  BY DEF IInv, Sound
<1>2. ASSUME NEW t \in Threads, (ServerStep(t) /\ t \in Servers) \/ (CallerStep(t) /\ t \in Callers),
             UNCHANGED others
      PROVE  Answers'
  <2>1. Line' = Line
    BY <1>1, <1>2, LineSteps
  <2> QED
    BY <1>2, <2>1, AnswersStay DEF others, chain, index, asker, Answers, Announced
<1>3. ASSUME QueueDrained \/ FlushStateToDisk PROVE Answers'
  <2>1. UNCHANGED <<client, tip, connects, promised, index, asker, lost>> /\ vpc # "signal"
    BY <1>3 DEF QueueDrained, FlushStateToDisk
  <2>2. Line' = Line
    BY <1>1, <2>1, LineSteps
  <2> QED
    BY <2>1, <2>2, AnswersStay DEF index, Answers, Announced
<1>4. ASSUME Crash \/ Shutdown PROVE Answers'
  <2>1. flushed \in Blocks \cup {NoBlock} /\ tip \in Blocks \cup {NoBlock}
    BY <1>1 DEF TypeOK
  <2> QED
    BY <1>1, <1>4, <2>1, StartAnswers DEF Crash, Shutdown
<1>5. ASSUME UNCHANGED vars PROVE Answers'
  <2>1. Line' = Line
    BY <1>1, <1>5, LineSteps DEF vars
  <2> QED
    BY <1>5, <2>1, AnswersStay DEF vars, chain, index, asker, Answers, Announced
<1>6. ASSUME NEW t \in Servers, ServerThread(t) PROVE Answers'
  <2>1. CASE ServerStep(t) /\ UNCHANGED others
    BY <1>2, <2>1 DEF Threads
  <2>2. CASE Deliver(t)
    BY <1>1, <2>2, DeliverAnswers
  <2> QED
    BY <1>6, <2>1, <2>2 DEF ServerThread
<1>7. ASSUME ValidatorThread PROVE Answers'
  <2>1. CASE CallerStep(Validator) /\ UNCHANGED others
    BY <1>2, <2>1, CallbackKinds DEF Threads
  <2>2. CASE QueueDrained
    BY <1>3, <2>2
  <2>3. CASE \E b \in Blocks : ActivateBestChainStep(b)
    BY <1>1, <2>3, ChainAnswers
  <2>4. CASE Signal
    BY <1>1, <2>4, SignalAnswers
  <2> QED
    BY <1>7, <2>1, <2>2, <2>3, <2>4 DEF ValidatorThread
<1>8. ASSUME RpcThread PROVE Answers'
  <2>1. CASE CallerStep(Rpc) /\ UNCHANGED others
    BY <1>2, <2>1, CallbackKinds DEF Threads
  <2>2. CASE WaitForQueue
    BY <1>1, <2>2, WaitAnswers
  <2>3. CASE Answer
    BY <1>1, <2>3, ReturnAnswers
  <2> QED
    BY <1>8, <2>1, <2>2, <2>3 DEF RpcThread
<1>9. ASSUME SyncThread PROVE Answers'
  BY <1>1, <1>9, SyncAnswers
<1>10. ASSUME ActivateBestChain PROVE Answers'
  BY <1>1, <1>10, LimitAnswers
<1>11. ASSUME \E b \in Blocks : InvalidateBlock(b) PROVE Answers'
  BY <1>1, <1>11, ChainAnswers
<1>12. ASSUME BlockUntilSyncedToCurrentChain PROVE Answers'
  BY <1>1, <1>12, CallAnswers
<1> QED
  BY <1>3, <1>4, <1>5, <1>6, <1>7, <1>8, <1>9, <1>10, <1>11, <1>12 DEF Next, Progress

\* It holds when the index is first enabled.
LEMMA InitAnswers == Init => Answers
<1> SUFFICES ASSUME Init PROVE Answers
  OBVIOUS
<1>1. tip \in Blocks \cup {NoBlock}
  BY InitInv DEF IInv, TypeOK
<1>2. Line = <<>>
  BY DEF Init, ClientInit, Line, Delivering, Threads
<1>3. connects = {} /\ rpc = "idle" /\ answered = NoBlock /\ promised = {}
      /\ (m_synced => m_best_block_index = tip)
  BY DEF Init
<1>4. Below(tip, tip)
  BY <1>1, BelowBlock DEF Below
<1>5. Linked(<<>>) /\ Ends(<<>>, tip) /\ OnePromise(<<>>) /\ NoPromise(<<>>)
  BY EmptyLine
<1>6. Signalled(tip)
  BY <1>2, <1>3, <1>4, <1>5 DEF Signalled, Leads
<1>7. Announced
  BY <1>1, <1>2, <1>3, <1>5, <1>6 DEF Announced
<1>8. Awaited
  BY <1>2, <1>3, <1>5 DEF Awaited
<1>9. AnswerTrue
  BY <1>3, ParentChain DEF AnswerTrue, Covered
<1> QED
  BY <1>7, <1>8, <1>9 DEF Answers

\* It holds always.
LEMMA AnswersInvariant == Spec => []Answers
<1>1. IInv /\ IInv' /\ Answers /\ [Next]_vars => Answers'
  BY AnswersStep
<1> QED
  BY <1>1, InitAnswers, Invariant, PTL DEF Spec

-----------------------------------------------------------------------------
\* The variables have their types, and m_synced is set exactly when the sync thread ends.
THEOREM TypeCorrect == Spec => []TypeOK
<1>1. IInv => TypeOK
  BY DEF IInv
<1> QED
  BY <1>1, Invariant, PTL

\* m_best_block_index never gets ahead of the blocks that are indexed, whatever
\* reorganisations, callbacks, crashes and restarts come in between.
THEOREM IndexIsComplete == Spec => []IndexComplete
<1>1. IInv => IndexComplete
  BY DEF IInv
<1> QED
  BY <1>1, Invariant, PTL

\* Nor does the locator on disk, but for the one block that ThreadSync is writing.
THEOREM LocatorIsSound == Spec => []LocatorSound
<1>1. IInv => LocatorSound
  BY DEF IInv
<1> QED
  BY <1>1, Invariant, PTL

\* BlockUntilSyncedToCurrentChain returns true only when the index has the chain up to the
\* tip that the call saw, whatever is connected, invalidated or queued meanwhile.
THEOREM AnswersAreTrue == Spec => []AnswerTrue
<1>1. Answers => AnswerTrue
  BY DEF Answers
<1> QED
  BY <1>1, AnswersInvariant, PTL

\* Once everything was signalled and run, an index that is in sync knows the tip.
THEOREM IndexMissesNothing == Spec => []NothingMissed
<1>1. ASSUME IInv, Answers PROVE NothingMissed
  <2> SUFFICES ASSUME m_synced, connects = {}, m_callbacks_pending = <<>>, ~m_are_callbacks_running
               PROVE  Below(tip, m_best_block_index)
    BY DEF NothingMissed, Below
  <2>1. Line = <<>>
    BY <1>1 DEF IInv, ClientInv, NoOverlap, Running, Line, Delivering
  <2>2. PICK d \in Blocks \cup {NoBlock} : Signalled(d)
    BY <1>1 DEF Answers, Announced
  <2>3. Below(d, m_best_block_index) /\ Below(d, tip) /\ ChainTo(tip) \subseteq ChainTo(d)
    BY <2>1, <2>2, SMT DEF Signalled, Leads, Brings
  <2>4. CASE tip = NoBlock
    BY <2>4 DEF Below
  <2>5. CASE tip # NoBlock
    <3>1. Below(tip, d)
      <4>1. tip \in ChainTo(tip)
        BY <1>1, <2>5, ParentChain DEF IInv, TypeOK
      <4> QED
        BY <2>3, <4>1 DEF Below
    <3> QED
      BY <1>1, <2>3, <3>1, BelowTransitive DEF IInv, TypeOK
  <2> QED
    BY <2>4, <2>5
<1> QED
  BY <1>1, Invariant, AnswersInvariant, PTL

\* The validating thread, the commands and the index use the queue of callbacks only by
\* its operations; what is proved of the client holds in the node.
THEOREM IndexUsesQueue == Spec => ClientSpec
<1>1. Init => ClientInit
  BY DEF Init
<1>2. TypeOK /\ [Next]_vars => [ClientNext]_client
  BY StepIsClientStep
<1> QED
  BY <1>1, <1>2, TypeCorrect, PTL DEF Spec, ClientSpec

\* The callbacks of the node are run in order, one at a time, none forgotten.
THEOREM CallbacksInOrder == Spec => QueueSpec /\ []NoOverlap /\ []NothingStuck
BY IndexUsesQueue, ClientImplementsQueue, CallbacksDoNotOverlap, NoCallbackForgotten, PTL

-----------------------------------------------------------------------------
(* Nobody waits for ever: when no thread can go on, everything is done.     *)

\* Where a thread can take a step: with the queue of callbacks, ...
CanRun(t) ==
    \/ pc[t] \in {"maybe", "schedule", "process", "finish"}
    \/ pc[t] = "ready" /\ t \in servicing /\ taskQueue > 0
    \/ pc[t] = "callback" /\ (callback[t].type = "flushed" /\ m_synced => ~CsMainHeld)

\* ... the validating thread, the sync thread and the call with what is their own.
ValidatorCanRun ==
    \/ vpc = "wait" /\ PromiseKept(Validator)
    \/ vpc = "main" /\ Better # {}
    \/ vpc = "signal" /\ pc[Validator] = "ready"
SyncCanRun == sync \in {"locator", "block"} \/ (sync = "next" /\ ~CsMainHeld)
RpcCanRun ==
    \/ rpc = "sync" /\ pc[Rpc] = "ready"
    \/ rpc = "wait" /\ PromiseKept(Rpc)

SomeoneCanRun == (\E t \in Threads : CanRun(t)) \/ ValidatorCanRun \/ SyncCanRun \/ RpcCanRun

\* If a thread services the scheduler, the node comes to rest only with nothing waiting, in
\* the queue or for it, and with an index that is in sync and knows the tip.
RestsInSync ==
    servicing # {} /\ ~SomeoneCanRun =>
        /\ vpc = "idle" /\ rpc = "idle" /\ m_callbacks_pending = <<>>
        /\ m_synced /\ tip \in ChainTo(m_best_block_index) \cup {NoBlock}

\* A promise that someone waits for is kept or in line, and there is still a better tip.
HasPromise(L, t) == \E p \in 1..Len(L) : L[p] = Promise(t)
Waits ==
    /\ vpc = "wait" => Validator \in promised \/ HasPromise(Line, Validator)
    /\ rpc = "wait" => Rpc \in promised \/ HasPromise(Line, Rpc)
    /\ vpc \in {"wait", "main"} => Better # {}

\* A promise stays in a line that is added to.
LEMMA PromiseStays ==
    ASSUME NEW L \in Seq(Callbacks), NEW c \in Callbacks, NEW t
    PROVE  /\ HasPromise(L, t) => HasPromise(Append(L, c), t)
           /\ c = Promise(t) => HasPromise(Append(L, c), t)
<1>1. Len(L) \in Nat /\ Len(Append(L, c)) = Len(L) + 1 /\ Append(L, c)[Len(L) + 1] = c
      /\ \A i \in 1..Len(L) : Append(L, c)[i] = L[i]
  BY Appended
<1>2. Len(L) + 1 \in 1..Len(Append(L, c)) /\ \A i \in 1..Len(L) : i \in 1..Len(Append(L, c))
  BY <1>1, SMT
<1>3. HasPromise(L, t) => HasPromise(Append(L, c), t)
  BY <1>1, <1>2 DEF HasPromise
<1>4. c = Promise(t) => HasPromise(Append(L, c), t)
  BY <1>1, <1>2 DEF HasPromise
<1> QED
  BY <1>3, <1>4

\* It stays until it is the first and has been run.
LEMMA PromiseRuns ==
    ASSUME NEW L \in Seq(Callbacks), L # <<>>, NEW t, HasPromise(L, t)
    PROVE  L[1] = Promise(t) \/ HasPromise(Tail(L), t)
<1>1. PICK p \in 1..Len(L) : L[p] = Promise(t)
  BY DEF HasPromise
<1>2. CASE p = 1
  BY <1>1, <1>2
<1>3. CASE p # 1
  <2>1. p - 1 \in 1..Len(Tail(L)) /\ (p - 1) + 1 = p
    BY <1>3, Dropped, SMT
  <2>2. Tail(L)[p - 1] = L[(p - 1) + 1]
    BY <2>1, Dropped
  <2> QED
    BY <1>1, <2>1, <2>2 DEF HasPromise
<1> QED
  BY <1>2, <1>3

\* A promise that is kept or in line.
OnItsWay(t) == t \in promised \/ HasPromise(Line, t)

\* Nobody begins to wait, and what is waited for is still on its way.
LEMMA WaitsStay ==
    ASSUME Waits, OnItsWay(Validator) => OnItsWay(Validator)', OnItsWay(Rpc) => OnItsWay(Rpc)',
           vpc' \in {vpc, "idle", "signal"}, rpc' \in {rpc, "idle", "sync"},
           vpc' \in {"wait", "main"} => UNCHANGED <<tip, invalid>>
    PROVE  Waits'
BY DEF Waits, OnItsWay, Better

\* Running a callback keeps the promises in line, or fulfils the first.
LEMMA DeliverPromises ==
    ASSUME TypeOK, ClientInv, ClientInv', NEW t \in Servers, Deliver(t), NEW x \in Callers, OnItsWay(x)
    PROVE  OnItsWay(x)'
<1>1. Line # <<>> /\ Line[1] = callback[t] /\ Line' = Tail(Line) /\ Line \in Seq(Callbacks)
  BY LineSteps, LineType DEF Deliver
<1>2. promised \subseteq promised'
  BY DEF Deliver, BlockConnected, ChainStateFlushed, KeepPromise
<1>3. CASE Line[1] = Promise(x)
  <2>1. callback[t].type = "promise" /\ callback[t].by = x
    BY <1>1, <1>3, SMT DEF Promise
  <2>2. x \in promised'
    BY <2>1 DEF Deliver, KeepPromise
  <2> QED
    BY <2>2 DEF OnItsWay
<1>4. CASE Line[1] # Promise(x)
  BY <1>1, <1>2, <1>4, PromiseRuns DEF OnItsWay
<1> QED
  BY <1>3, <1>4

\* Whoever begins to wait has put the promise in line.
LEMMA QueuePromises ==
    ASSUME ClientInv, ClientInv', NEW t \in Callers, QueuePromise(t)
    PROVE  OnItsWay(t)' /\ \A x \in Callers : OnItsWay(x) => OnItsWay(x)'
<1>1. Promise(t) \in Callbacks /\ AddToProcessQueue(t, Promise(t)) /\ promised' = promised \ {t}
  BY CallbackKinds DEF QueuePromise
<1>2. Line' = Append(Line, Promise(t)) /\ Line \in Seq(Callbacks)
  BY <1>1, LineSteps, LineType
<1>3. OnItsWay(t)'
  BY <1>1, <1>2, PromiseStays DEF OnItsWay
<1>4. ASSUME NEW x \in Callers, OnItsWay(x) PROVE OnItsWay(x)'
  <2>1. CASE x = t
    BY <1>3, <2>1
  <2>2. CASE x # t
    BY <1>1, <1>2, <1>4, <2>2, PromiseStays DEF OnItsWay
  <2> QED
    BY <2>1, <2>2
<1> QED
  BY <1>3, <1>4

\* Every step keeps it, one step per group of actions.
LEMMA WaitsStep ==
    ASSUME IInv, IInv', Waits, [Next]_vars
    PROVE  Waits'
<1>1. TypeOK /\ TypeOK' /\ ClientInv /\ ClientInv' /\ Validator \in Callers /\ Rpc \in Callers
  BY CallbackKinds DEF IInv
<1>2. ASSUME Line' = Line, promised' = promised PROVE \A x \in Callers : OnItsWay(x) => OnItsWay(x)'
  BY <1>2 DEF OnItsWay
<1>3. ASSUME NEW t \in Threads, (ServerStep(t) /\ t \in Servers) \/ (CallerStep(t) /\ t \in Callers),
             UNCHANGED others
      PROVE  Waits'
  <2>1. Line' = Line
    BY <1>1, <1>3, LineSteps
  <2>2. UNCHANGED <<promised, vpc, rpc, tip, invalid>>
    BY <1>3 DEF others, chain, asker
  <2> QED
    BY <1>1, <1>2, <2>1, <2>2, WaitsStay
<1>4. ASSUME NEW t \in Servers, Deliver(t) PROVE Waits'
  <2>1. UNCHANGED <<vpc, rpc, tip, invalid>>
    BY <1>4 DEF Deliver, chain, asker
  <2> QED
    BY <1>1, <1>4, <2>1, DeliverPromises, WaitsStay
<1>5. ASSUME \/ \E b \in Blocks : ActivateBestChainStep(b) \/ InvalidateBlock(b)
             \/ FlushStateToDisk \/ SyncThread \/ Answer \/ BlockUntilSyncedToCurrentChain
      PROVE  Waits'
  <2>1. /\ UNCHANGED <<client, promised>> /\ vpc' \in {vpc, "signal"} /\ rpc' \in {rpc, "idle", "sync"}
        /\ vpc' # "signal" => UNCHANGED <<tip, invalid>>
    BY <1>5 DEF ActivateBestChainStep, InvalidateBlock, FlushStateToDisk, SyncThread, SyncNext,
                SyncWriteLocator, SyncWriteBlock, Answer, BlockUntilSyncedToCurrentChain, chain, asker
  <2>2. Line' = Line
    BY <1>1, <2>1, LineSteps
  <2> QED
    BY <1>1, <1>2, <2>1, <2>2, WaitsStay
<1>6. CASE QueueDrained
  <2>1. UNCHANGED <<client, promised, tip, invalid, rpc>> /\ vpc = "wait" /\ vpc' = "main"
    BY <1>6 DEF QueueDrained, asker
  <2>2. Line' = Line
    BY <1>1, <2>1, LineSteps
  <2> QED
    BY <2>1, <2>2 DEF Waits, Better
<1>7. CASE Signal
  <2>1. vpc' \in {"signal", "idle"} /\ UNCHANGED <<promised, rpc>>
    BY <1>7 DEF Signal, asker
  <2>2. Line' = Line \/ \E c \in Callbacks : Line' = Append(Line, c)
    <3>1. UNCHANGED client \/ \E c \in Callbacks : AddToProcessQueue(Validator, c)
      <4>1. connects # {} => Lowest(connects) \in Blocks
        BY <1>1, LowestMember DEF TypeOK
      <4>2. flushSignal # NoBlock => flushSignal \in Blocks
        BY <1>1 DEF TypeOK
      <4>3. \A b \in Blocks : Connected(b) \in Callbacks /\ Flushed(b) \in Callbacks
        BY CallbackKinds
      <4> QED
        BY <1>7, <4>1, <4>2, <4>3 DEF Signal
    <3> QED
      BY <1>1, <3>1, LineSteps
  <2>3. \A x \in Callers : OnItsWay(x) => OnItsWay(x)'
    BY <1>1, <2>1, <2>2, LineType, PromiseStays DEF OnItsWay
  <2> QED
    BY <1>1, <2>1, <2>3, WaitsStay
<1>8. CASE WaitForQueue
  <2>1. QueuePromise(Rpc) /\ UNCHANGED <<vpc, tip, invalid>>
    BY <1>8 DEF WaitForQueue, chain
  <2>2. OnItsWay(Rpc)' /\ (OnItsWay(Validator) => OnItsWay(Validator)')
    BY <1>1, <2>1, QueuePromises
  <2> QED
    BY <2>1, <2>2 DEF Waits, OnItsWay, Better
<1>9. CASE ActivateBestChain
  <2>1. Better # {} /\ UNCHANGED <<tip, invalid, rpc>>
    BY <1>9 DEF ActivateBestChain, asker
  <2>2. CASE QueuePromise(Validator)
    <3>1. OnItsWay(Validator)' /\ (OnItsWay(Rpc) => OnItsWay(Rpc)')
      BY <1>1, <2>2, QueuePromises
    <3> QED
      BY <2>1, <3>1 DEF Waits, OnItsWay, Better
  <2>3. CASE vpc' = "main" /\ UNCHANGED <<client, promised>>
    <3>1. Line' = Line
      BY <1>1, <2>3, LineSteps
    <3> QED
      BY <2>1, <2>3, <3>1 DEF Waits, Better
  <2> QED
    BY <1>9, <2>2, <2>3 DEF ActivateBestChain
<1>10. CASE Crash \/ Shutdown
  BY <1>10 DEF Crash, Shutdown, Start, Waits
<1>11. CASE UNCHANGED vars
  <2>1. Line' = Line
    BY <1>1, <1>11, LineSteps DEF vars
  <2> QED
    BY <1>11, <2>1 DEF vars, chain, asker, Waits, Better
<1> QED
  BY <1>1, <1>3, <1>4, <1>5, <1>6, <1>7, <1>8, <1>9, <1>10, <1>11
     DEF Next, Progress, ServerThread, ValidatorThread, RpcThread, Threads

LEMMA WaitsInvariant == Spec => []Waits
<1>1. Init => Waits
  BY DEF Init, Waits
<1> QED
  BY <1>1, Invariant, WaitsStep, PTL DEF Spec

\* When nobody can run, nobody is in the middle of something either: the callers and the
\* servers are ready, no task is left and the queue is empty.
LEMMA AtRest ==
    ASSUME IInv, servicing # {}, ~SomeoneCanRun
    PROVE  /\ vpc # "signal" /\ \A t \in Threads : pc[t] = "ready"
           /\ m_callbacks_pending = <<>> /\ ~m_are_callbacks_running /\ Line = <<>>
<1>1. /\ \A t \in Threads : ~CanRun(t) /\ pc[t] \in Labels
      /\ \A t \in Callers : t \in Threads /\ pc[t] \in {"ready", "maybe", "schedule"}
      /\ \A t \in Servers : t \in Threads
      /\ Validator \in Callers /\ servicing \subseteq Servers /\ taskQueue \in Nat
  BY CallbackKinds DEF SomeoneCanRun, IInv, ClientInv, ClientTypeOK, Threads
<1>2. \A t \in Callers : pc[t] = "ready"
  BY <1>1 DEF CanRun
<1>3. vpc # "signal"
  BY <1>1, <1>2 DEF SomeoneCanRun, ValidatorCanRun
<1>4. \A t \in Threads : pc[t] = "ready"
  BY <1>1, <1>3 DEF CanRun, CsMainHeld, Labels
<1>5. ~(taskQueue > 0)
  BY <1>1, <1>4 DEF CanRun
<1>6. ~m_are_callbacks_running /\ Delivering = {}
  BY <1>1, <1>4 DEF IInv, ClientInv, NoOverlap, Running, Delivering
<1>7. m_callbacks_pending = <<>>
  BY <1>4, <1>5, <1>6 DEF IInv, ClientInv, NothingStuck
<1> QED
  BY <1>3, <1>4, <1>6, <1>7 DEF Line

\* The safety half of QueueDrains and CatchesUp: no thread waits for a promise that nobody will
\* keep, no callback for a task that nobody scheduled, and the sync thread does not give up
\* before the index is in sync.  A thread that waits holds no lock that another one needs.
THEOREM IndexRestsInSync == Spec => []RestsInSync
<1>1. ASSUME IInv, Answers, NothingMissed, Waits PROVE RestsInSync
  <2> SUFFICES ASSUME servicing # {}, ~SomeoneCanRun
               PROVE  /\ vpc = "idle" /\ rpc = "idle" /\ m_callbacks_pending = <<>>
                      /\ m_synced /\ tip \in ChainTo(m_best_block_index) \cup {NoBlock}
    BY DEF RestsInSync
  <2>1. /\ vpc # "signal" /\ pc[Validator] = "ready" /\ pc[Rpc] = "ready"
        /\ m_callbacks_pending = <<>> /\ ~m_are_callbacks_running /\ Line = <<>>
    BY <1>1, AtRest, CallbackKinds DEF Threads
  <2>2. \A t : ~HasPromise(Line, t)
    BY <2>1, SMT DEF HasPromise
  <2>3. vpc = "idle"
    BY <1>1, <2>1, <2>2
       DEF SomeoneCanRun, ValidatorCanRun, PromiseKept, Waits, IInv, TypeOK
  <2>4. rpc = "idle"
    BY <1>1, <2>1, <2>2 DEF SomeoneCanRun, RpcCanRun, PromiseKept, Waits, IInv, TypeOK
  <2>5. m_synced
    BY <1>1, <2>1 DEF SomeoneCanRun, SyncCanRun, CsMainHeld, IInv, TypeOK
  <2>6. connects = {}
    BY <1>1, <2>1 DEF Answers, Announced
  <2> QED
    BY <1>1, <2>1, <2>3, <2>4, <2>5, <2>6 DEF NothingMissed
<1> QED
  BY <1>1, Invariant, AnswersInvariant, IndexMissesNothing, WaitsInvariant, PTL

-----------------------------------------------------------------------------
(* What the threads have begun is finite.                                  *)

\* The errands of the validating thread and of the call, ...
ValidatorStage ==
    CASE vpc = "wait" -> 3 [] vpc = "main" -> 2 [] vpc = "signal" -> 1 [] vpc = "idle" -> 0
RpcStage == CASE rpc = "sync" -> 2 [] rpc = "wait" -> 1 [] rpc = "idle" -> 0
Errands == ValidatorStage + RpcStage

\* ... the signals that are still to be sent, ...
FewerSignals ==
    \/ flushSignal # NoBlock /\ flushSignal' = NoBlock /\ connects' = connects
    \/ flushSignal' = flushSignal /\ connects' \subseteq connects /\ connects' # connects

\* ... and the blocks of the active chain that the sync thread has not come to.
ToSync == ChainTo(tip) \ ChainTo(pindex)
SyncStage ==
    CASE sync = "locator" -> 3 [] sync = "block" -> 2 [] sync = "next" -> 1 [] sync = "done" -> 0
LessToSync ==
    \/ ToSync' \subseteq ToSync /\ ToSync' # ToSync
    \/ ToSync' = ToSync /\ SyncStage' < SyncStage

\* There is less to do, in this order; the steps of the callbacks come last.
LessToDo ==
    \/ Errands' < Errands
    \/ Errands' = Errands /\ FewerSignals
    \/ UNCHANGED <<Errands, flushSignal, connects>> /\ LessToSync
    \/ /\ UNCHANGED <<Errands, flushSignal, connects, ToSync, SyncStage>>
       /\ \E t \in Threads : OnlyMoves(t) /\ StepsLeft(t)' < StepsLeft(t)

\* Whatever a thread does to go on with what it has begun leaves less to do.
GoesForward ==
    /\ Errands \in Nat /\ SyncStage \in Nat /\ \A t \in Threads : StepsLeft(t) \in Nat
    /\ Progress => LessToDo

\* The fork with the active chain is its highest common block, so that it is above all others.
LEMMA ForkIsAbove ==
    ASSUME NEW b \in Blocks, NEW top \in Blocks
    PROVE  /\ FindFork(b, top) \in Chain[b] \cap Chain[top]
           /\ Chain[b] \cap Chain[top] \subseteq Chain[FindFork(b, top)]
<1> DEFINE S == Chain[b] \cap Chain[top]
           H == {nHeight[a] + 1 : a \in S}
           n == nHeight[top] + 1
           L == {a \in S : \A c \in S : Height(c) <= Height(a)}
           f == FindFork(b, top)
<1>1. S \subseteq Blocks /\ Genesis \in S /\ ChainTo(b) = Chain[b] /\ ChainTo(top) = Chain[top]
  BY ParentChain, GenesisInChain, ChainBounded
<1>2. \A a \in S : nHeight[a] \in Nat /\ nHeight[a] <= nHeight[top] /\ Height(a) = nHeight[a]
  <2>1. ASSUME NEW a \in S PROVE nHeight[a] \in Nat /\ nHeight[a] <= nHeight[top]
    <3>1. nHeight[a] \in Nat /\ nHeight[top] \in Nat /\ (a # top => nHeight[a] < nHeight[top])
      BY <1>1, HeightOf, HeightOfAncestor
    <3> QED
      BY <3>1, SMT
  <2> QED
    BY <1>1, <2>1, NoBlockIsNone DEF Height
<1>3. n \in Nat /\ H \in SUBSET (1..n) /\ H # {}
  <2>1. n \in Nat
    BY HeightOf, SMT
  <2>2. \A a \in S : nHeight[a] + 1 \in 1..n
    BY <1>2, HeightOf, SMT
  <2> QED
    BY <1>1, <2>1, <2>2
<1>4. PICK h \in H : \A k \in H : k <= h
  <2> HIDE DEF H, n
  <2> QED
    BY <1>3, GreatestOf
<1>5. PICK a \in S : nHeight[a] + 1 = h
  BY <1>4
<1>6. \A c \in S : nHeight[c] <= nHeight[a]
  <2>1. \A c \in S : nHeight[c] + 1 <= nHeight[a] + 1
    BY <1>4, <1>5
  <2> HIDE DEF S, H
  <2> QED
    BY <1>2, <2>1, SMT
<1>7. a \in L
  BY <1>2, <1>6
<1>8. f \in L
  BY <1>1, <1>7, OnlyMember DEF FindFork, Highest
<1>9. ASSUME NEW c \in S PROVE c \in Chain[f]
  <2>1. c \in Chain[f] \/ f \in Chain[c]
    BY <1>8, ChainLinear
  <2>2. ASSUME f \in Chain[c], f # c PROVE FALSE
    <3>1. nHeight[f] < nHeight[c] /\ nHeight[c] <= nHeight[f] /\ nHeight[f] \in Nat /\ nHeight[c] \in Nat
      BY <1>1, <1>2, <1>8, <2>2, HeightOfAncestor
    <3> QED
      BY <3>1, SMT
  <2>3. f \in Chain[f]
    BY <1>1, <1>8, ChainOf
  <2> QED
    BY <2>1, <2>2, <2>3
<1> QED
  BY <1>8, <1>9

\* The next block of the sync thread is a new one, also after a reorganisation: it has come
\* to every block of the active chain that it had come to before, and to one more.
LEMMA SyncAdvances ==
    ASSUME TypeOK, SyncNext, NextSyncBlock(pindex) # NoBlock
    PROVE  ToSync' \subseteq ToSync /\ ToSync' # ToSync
<1> DEFINE next == NextSyncBlock(pindex)
<1>1. /\ next \in ChainTo(tip) /\ tip' = tip /\ pindex' = next /\ tip \in Blocks /\ next \in Blocks
      /\ pindex \in Blocks \cup {NoBlock} /\ ChainTo(tip) = Chain[tip]
      /\ ChainTo(next) = ChainTo(pprev(next)) \cup {next}
  BY NextSyncBlockMember, ParentChain DEF SyncNext, TypeOK, chain
<1>2. next \notin ChainTo(pprev(next))
  <2>1. CASE next = Genesis
    BY <2>1, ParentChain DEF pprev
  <2>2. CASE next # Genesis
    <3>1. pprev(next) = Parent[next] /\ Parent[next] \in Blocks /\ ChainTo(pprev(next)) = Chain[Parent[next]]
          /\ next \in Nat /\ Parent[next] \in Nat /\ Parent[next] < next
      BY <1>1, <2>2, TreeAssumption, ParentChain DEF pprev
    <3>2. \A a \in Chain[Parent[next]] : a <= Parent[next]
      BY <3>1, ChainBounded
    <3> QED
      BY <3>1, <3>2, SMT
  <2> QED
    BY <2>1, <2>2
<1>3. ChainTo(pindex) \cap ChainTo(tip) = ChainTo(pprev(next)) \cap ChainTo(tip)
  <2>0. ASSUME NEW b, NextInChain(b) # NoBlock PROVE pprev(NextInChain(b)) = b
    BY <2>0, OnlyMember DEF NextInChain
  <2>1. CASE pindex \in ChainTo(tip) \cup {NoBlock}
    BY <2>0, <2>1 DEF NextSyncBlock
  <2>2. CASE pindex \notin ChainTo(tip) \cup {NoBlock}
    <3> DEFINE f == FindFork(pindex, tip)
    <3>1. pprev(next) = f /\ pindex \in Blocks
      BY <1>1, <2>0, <2>2 DEF NextSyncBlock
    <3>2. f \in Chain[pindex] \cap Chain[tip] /\ Chain[pindex] \cap Chain[tip] \subseteq Chain[f]
      BY <1>1, <3>1, ForkIsAbove
    <3>3. Chain[f] \subseteq Chain[pindex] /\ ChainTo(pindex) = Chain[pindex] /\ f \in ChainTo(tip)
      BY <1>1, <3>1, <3>2, ChainTransitive, ParentChain
    <3>4. ChainTo(f) = Chain[f]
      BY <1>1, <3>3, ParentChain
    <3> QED
      BY <1>1, <3>1, <3>2, <3>3, <3>4
  <2> QED
    BY <2>1, <2>2
<1>4. next \in ToSync /\ ToSync' = ToSync \ {next}
  BY <1>1, <1>2, <1>3 DEF ToSync
<1> QED
  BY <1>4

\* The stages are numbers.
LEMMA Stages ==
    /\ vpc = "wait" => ValidatorStage = 3
    /\ vpc = "main" => ValidatorStage = 2
    /\ vpc = "signal" => ValidatorStage = 1
    /\ vpc = "idle" => ValidatorStage = 0
    /\ rpc = "sync" => RpcStage = 2
    /\ rpc = "wait" => RpcStage = 1
    /\ rpc = "idle" => RpcStage = 0
    /\ sync = "locator" => SyncStage = 3
    /\ sync = "block" => SyncStage = 2
    /\ sync = "next" => SyncStage = 1
    /\ sync = "done" => SyncStage = 0
BY SMT DEF ValidatorStage, RpcStage, SyncStage

LEMMA StagesNext ==
    /\ vpc' = "main" => ValidatorStage' = 2
    /\ vpc' = "signal" => ValidatorStage' = 1
    /\ vpc' = "idle" => ValidatorStage' = 0
    /\ rpc' = "wait" => RpcStage' = 1
    /\ rpc' = "idle" => RpcStage' = 0
    /\ sync' = "locator" => SyncStage' = 3
    /\ sync' = "block" => SyncStage' = 2
    /\ sync' = "next" => SyncStage' = 1
    /\ sync' = "done" => SyncStage' = 0
BY SMT DEF ValidatorStage, RpcStage, SyncStage

\* It holds of every step.
LEMMA LessAndLess ==
    ASSUME IInv, IInv'
    PROVE  GoesForward
<1>1. TypeOK /\ ClientInv /\ ClientInv' /\ Validator \in Callers /\ Rpc \in Callers
  BY CallbackKinds DEF IInv
<1>2. StepsCounted
  BY <1>1, StepsCount
<1>3. ValidatorStage \in 0..3 /\ RpcStage \in 0..2 /\ SyncStage \in 0..3
  <2>1. /\ vpc \in {"idle", "wait", "main", "signal"} /\ rpc \in {"idle", "sync", "wait"}
        /\ sync \in {"locator", "block", "next", "done"}
    BY <1>1 DEF TypeOK
  <2> QED
    BY <2>1, Stages, SMT
<1>4. Errands \in Nat /\ SyncStage \in Nat
  BY <1>3, SMT DEF Errands
<1>5. ASSUME vpc' = vpc PROVE ValidatorStage' = ValidatorStage
  BY <1>5 DEF ValidatorStage
<1>6. ASSUME rpc' = rpc PROVE RpcStage' = RpcStage
  BY <1>6 DEF RpcStage
<1>7. ASSUME NEW t \in Threads, OnlyMoves(t) /\ StepsLeft(t)' < StepsLeft(t),
             UNCHANGED <<vpc, rpc, flushSignal, connects, tip, pindex, sync>>
      PROVE  LessToDo
  <2>1. Errands' = Errands /\ ToSync' = ToSync /\ SyncStage' = SyncStage
    BY <1>5, <1>6, <1>7 DEF Errands, ToSync, SyncStage
  <2> QED
    BY <1>7, <2>1 DEF LessToDo
<1>8. ASSUME NEW t \in Threads, (ServerStep(t) /\ t \in Servers) \/ (CallerStep(t) /\ t \in Callers),
             UNCHANGED others
      PROVE  LessToDo
  BY <1>2, <1>7, <1>8 DEF StepsCounted, others, chain, index, asker
<1>9. ASSUME NEW t \in Servers, Deliver(t) PROVE LessToDo
  <2>1. t \in Threads /\ RunCallback(t) /\ UNCHANGED <<vpc, rpc, flushSignal, connects, tip, pindex, sync>>
    BY <1>9 DEF Deliver, chain, asker, Threads
  <2> QED
    BY <1>2, <1>7, <1>9, <2>1 DEF StepsCounted
<1>10. ASSUME QueueDrained \/ \E b \in Blocks : ActivateBestChainStep(b) PROVE LessToDo
  <2>1. rpc' = rpc /\ ((vpc = "wait" /\ vpc' = "main") \/ (vpc = "main" /\ vpc' = "signal"))
    BY <1>10 DEF QueueDrained, ActivateBestChainStep, asker
  <2>2. RpcStage' = RpcStage /\ ( \/ ValidatorStage = 3 /\ ValidatorStage' = 2
                                  \/ ValidatorStage = 2 /\ ValidatorStage' = 1)
    BY <1>6, <2>1, Stages, StagesNext
  <2>3. Errands' < Errands
    BY <1>3, <2>2, SMT DEF Errands
  <2> QED
    BY <2>3 DEF LessToDo
<1>11. ASSUME Signal PROVE LessToDo
  <2>1. RpcStage' = RpcStage /\ vpc = "signal"
    BY <1>6, <1>11 DEF Signal, asker
  <2>2. CASE vpc' = "idle"
    <3>1. ValidatorStage = 1 /\ ValidatorStage' = 0
      BY <2>1, <2>2, Stages, StagesNext
    <3>2. Errands' < Errands
      BY <1>3, <2>1, <3>1, SMT DEF Errands
    <3> QED
      BY <3>2 DEF LessToDo
  <2>3. CASE vpc' = vpc
    <3>1. Errands' = Errands
      BY <1>5, <2>1, <2>3 DEF Errands
    <3>2. connects # {} => Lowest(connects) \in connects
      BY <1>1, LowestMember DEF TypeOK
    <3>3. FewerSignals
      BY <1>11, <2>1, <2>3, <3>2 DEF Signal, FewerSignals
    <3> QED
      BY <3>1, <3>3 DEF LessToDo
  <2> QED
    BY <1>11, <2>2, <2>3 DEF Signal
<1>12. ASSUME SyncThread PROVE LessToDo
  <2>1. UNCHANGED <<vpc, rpc, flushSignal, connects, tip>>
    BY <1>12 DEF SyncThread, SyncNext, SyncWriteLocator, SyncWriteBlock, chain, asker
  <2>2. Errands' = Errands
    BY <1>5, <1>6, <2>1 DEF Errands
  <2>3. ASSUME SyncNext, NextSyncBlock(pindex) # NoBlock PROVE LessToSync
    BY <1>1, <2>3, SyncAdvances DEF LessToSync
  <2>4. ASSUME ~(SyncNext /\ NextSyncBlock(pindex) # NoBlock) PROVE LessToSync
    <3>1. /\ pindex' = pindex
          /\ \/ sync = "next" /\ sync' = "done"
             \/ sync = "locator" /\ sync' = "block"
             \/ sync \in {"locator", "block"} /\ sync' = "next"
      BY <1>12, <2>4 DEF SyncThread, SyncNext, SyncWriteLocator, SyncWriteBlock
    <3>2. SyncStage' < SyncStage
      BY <3>1, Stages, StagesNext, SMT
    <3> QED
      BY <2>1, <3>1, <3>2 DEF LessToSync, ToSync
  <2> QED
    BY <2>1, <2>2, <2>3, <2>4 DEF LessToDo
<1>13. ASSUME WaitForQueue \/ Answer PROVE LessToDo
  <2>1. vpc' = vpc /\ ((rpc = "sync" /\ rpc' = "wait") \/ (rpc = "wait" /\ rpc' = "idle"))
    BY <1>13 DEF WaitForQueue, Answer, chain
  <2>2. ValidatorStage' = ValidatorStage /\ ( \/ RpcStage = 2 /\ RpcStage' = 1
                                              \/ RpcStage = 1 /\ RpcStage' = 0)
    BY <1>5, <2>1, Stages, StagesNext
  <2>3. Errands' < Errands
    BY <1>3, <2>2, SMT DEF Errands
  <2> QED
    BY <2>3 DEF LessToDo
<1>14. Progress => LessToDo
  BY <1>1, <1>8, <1>9, <1>10, <1>11, <1>12, <1>13
     DEF Progress, ServerThread, ValidatorThread, RpcThread, Threads
<1> QED
  BY <1>2, <1>4, <1>14 DEF GoesForward, StepsCounted

\* The other half of QueueDrains and CatchesUp: chains are finite, so the steps by which
\* the threads go on come to an end, however they alternate and whatever the
\* reorganisations were, and IndexRestsInSync says of what end.  No thread needs a turn
\* of its own, which is why the fairness of FairSpec is enough.
THEOREM ProgressEnds == Spec => [][GoesForward]_vars
<1>1. IInv /\ IInv' /\ [Next]_vars => [GoesForward]_vars
  BY LessAndLess
<1> QED
  BY <1>1, Invariant, PTL DEF Spec
=============================================================================
