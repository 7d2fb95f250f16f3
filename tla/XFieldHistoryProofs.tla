------------------------ MODULE XFieldHistoryProofs ------------------------
(***************************************************************************)
(* Proofs about the history of the aggregate public keys.                  *)
(*                                                                         *)
(* The history is indexed by height, while forks may announce different    *)
(* keys at one height.  The condition Settled on the announcements of the  *)
(* tree is what the code needs: an announcement changes the key, and no    *)
(* other branch passes it.  Under Settled the database holds, at any time, *)
(* the announcements of one chain up to some height (History), which is    *)
(* what makes the lookup by height right after reorganisations and crashes.*)
(***************************************************************************)
EXTENDS XFieldHistory, BlockTreeProofs, SequenceTheorems

\* The leaves are first-order; those that need arithmetic cite SMT.
USE Zenon

-----------------------------------------------------------------------------
(* Folds over a sequence.  A fold is a recursive function on the sets of    *)
(* its indices; it is unfolded one index at a time.                        *)

\* Max of a set of indices
LEMMA MaxOf ==
    \A n \in Nat : \A s \in SUBSET (1..n) :
        s # {} => Max(s) \in s /\ \A y \in s : y <= Max(s)
<1> SUFFICES ASSUME NEW n \in Nat, NEW s \in SUBSET (1..n), s # {}
             PROVE  Max(s) \in s /\ \A y \in s : y <= Max(s)
  OBVIOUS
<1>1. \A y \in s : y \in Int
  BY SMT
<1>2. \E x \in s : \A y \in s : y <= x
  BY GreatestOf
<1>3. \E x \in s : \A y \in s : x >= y
  BY <1>1, <1>2
<1>4. Max(s) \in s /\ \A y \in s : Max(s) >= y
  BY <1>3 DEF Max
<1> QED
  BY <1>1, <1>4

\* The largest of the first n indices.
LEMMA MaxOfFirst ==
    ASSUME NEW n \in Nat \ {0}
    PROVE  Max(1..n) = n /\ (1..n) \ {n} = 1..(n - 1) /\ 1..n # {}
<1>1. 1..n \in SUBSET (1..n) /\ n \in 1..n
  BY SMT
<1>2. Max(1..n) \in 1..n /\ n <= Max(1..n)
  BY <1>1, MaxOf
<1> QED
  BY <1>1, <1>2, SMT

AddTo(g, base, seq, s) == IF s = {} THEN base ELSE Add(g[s \ {Max(s)}], seq[Max(s)])

\* The fold of Add has its equation.
LEMMA FoldAddExists ==
    ASSUME NEW base, NEW seq
    PROVE  \A n \in Nat : \E g : g = [s \in SUBSET (1..n) |-> AddTo(g, base, seq, s)]
<1> DEFINE S == {n \in Nat : \E g : g = [s \in SUBSET (1..n) |-> AddTo(g, base, seq, s)]}
<1>1. 0 \in S
  <2> DEFINE g == [s \in SUBSET (1..0) |-> base]
  <2>1. \A s \in SUBSET (1..0) : s = {}
    <3>1. 1..0 = {}
      BY SMT
    <3> QED
      BY <3>1
  <2>2. g = [s \in SUBSET (1..0) |-> AddTo(g, base, seq, s)]
    BY <2>1 DEF AddTo
  <2> QED
    BY <2>2
<1>2. ASSUME NEW n \in Nat, n \in S PROVE n + 1 \in S
  <2>1. PICK g : g = [s \in SUBSET (1..n) |-> AddTo(g, base, seq, s)]
    BY <1>2
  <2> DEFINE h == [s \in SUBSET (1..(n + 1)) |->
                      IF n + 1 \in s THEN Add(g[s \ {n + 1}], seq[n + 1]) ELSE g[s]]
  <2>2. ASSUME NEW s \in SUBSET (1..n) PROVE h[s] = g[s] /\ s \in SUBSET (1..(n + 1))
    BY <2>2, SMT
  <2>3. ASSUME NEW s \in SUBSET (1..(n + 1)) PROVE h[s] = AddTo(h, base, seq, s)
    <3>1. CASE n + 1 \in s
      <4>1. n + 1 \in Nat /\ s # {}
        BY <3>1, SMT
      <4>2. Max(s) = n + 1
        <5>1. Max(s) \in s /\ n + 1 <= Max(s)
          BY <3>1, <4>1, MaxOf
        <5>2. Max(s) \in 1..(n + 1)
          BY <5>1
        <5> QED
          BY <5>1, <5>2, SMT
      <4>3. s \ {n + 1} \in SUBSET (1..n)
        BY SMT
      <4>4. h[s] = Add(g[s \ {n + 1}], seq[n + 1])
        BY <3>1
      <4>5. h[s \ {n + 1}] = g[s \ {n + 1}]
        BY <2>2, <4>3
      <4> HIDE DEF h
      <4> QED
        BY <3>1, <4>2, <4>4, <4>5 DEF AddTo
    <3>2. CASE n + 1 \notin s
      <4>1. s \in SUBSET (1..n)
        BY <3>2, SMT
      <4>2. g[s] = AddTo(g, base, seq, s)
        BY <2>1, <4>1
      <4>3. h[s] = g[s] /\ h[s \ {Max(s)}] = g[s \ {Max(s)}]
        BY <2>2, <4>1
      <4> HIDE DEF h
      <4> QED
        BY <4>2, <4>3 DEF AddTo
    <3> QED
      BY <3>1, <3>2
  <2>4. h = [s \in SUBSET (1..(n + 1)) |-> AddTo(h, base, seq, s)]
    BY <2>3
  <2> HIDE DEF h
  <2>5. n + 1 \in Nat
    BY SMT
  <2> QED
    BY <2>4, <2>5
<1>3. Nat \subseteq S
  BY <1>1, <1>2, NatSteps
<1> QED
  BY <1>3

\* ReadXFields, entry by entry.
LEMMA ReadUnfolds ==
    ASSUME NEW db, NEW n \in Nat, DOMAIN db = 1..n
    PROVE  \E g : /\ ReadXFields(db) = g[1..n] /\ g[{}] = <<GenesisChange>>
                  /\ \A k \in 1..n : g[1..k] = Add(g[1..(k - 1)], db[k])
<1> DEFINE base == <<GenesisChange>>
           g == CHOOSE f : f = [s \in SUBSET (DOMAIN db) |-> AddTo(f, base, db, s)]
<1>1. ReadXFields(db) = g[DOMAIN db]
  BY DEF ReadXFields, FoldLeft, MapThenFoldSet, AddTo
<1>2. g = [s \in SUBSET (1..n) |-> AddTo(g, base, db, s)]
  BY FoldAddExists, SMT
<1> HIDE DEF g
<1>3. g[{}] = base
  BY <1>2 DEF AddTo
<1>4. ASSUME NEW k \in 1..n PROVE g[1..k] = Add(g[1..(k - 1)], db[k])
  <2>1. k \in Nat \ {0} /\ 1..k \in SUBSET (1..n)
    BY SMT
  <2>2. Max(1..k) = k /\ (1..k) \ {k} = 1..(k - 1) /\ 1..k # {}
    BY <2>1, MaxOfFirst
  <2>3. g[1..k] = AddTo(g, base, db, 1..k)
    BY <1>2, <2>1
  <2> QED
    BY <2>2, <2>3 DEF AddTo
<1> QED
  BY <1>1, <1>3, <1>4

\* CXFieldHistory at a start: the genesis block's entry followed by those of the database,
\* when these are different from it and from each other.
LEMMA ReadBack ==
    ASSUME NEW db \in Seq(Changes), GenesisChange \in Changes,
           \A i \in 1..Len(db) : db[i] # GenesisChange,
           \A i, j \in 1..Len(db) : i # j => db[i] # db[j]
    PROVE  /\ ReadXFields(db) \in Seq(Changes) /\ Len(ReadXFields(db)) = Len(db) + 1
           /\ ReadXFields(db)[1] = GenesisChange
           /\ \A i \in 1..Len(db) : ReadXFields(db)[i + 1] = db[i]
<1>1. Len(db) \in Nat /\ DOMAIN db = 1..Len(db) /\ \A i \in 1..Len(db) : db[i] \in Changes
  BY SMT
<1>2. PICK g : /\ ReadXFields(db) = g[1..Len(db)] /\ g[{}] = <<GenesisChange>>
               /\ \A k \in 1..Len(db) : g[1..k] = Add(g[1..(k - 1)], db[k])
  BY <1>1, ReadUnfolds
<1> DEFINE P(k) == /\ g[1..k] \in Seq(Changes) /\ Len(g[1..k]) = k + 1
                   /\ g[1..k][1] = GenesisChange
                   /\ \A i \in 1..k : g[1..k][i + 1] = db[i]
           S == {k \in Nat : k <= Len(db) => P(k)}
<1>3. 0 \in S
  <2>1. 1..0 = {} /\ g[1..0] = <<GenesisChange>>
    BY <1>2, SMT
  <2>2. <<GenesisChange>> \in Seq(Changes) /\ Len(<<GenesisChange>>) = 1
        /\ <<GenesisChange>>[1] = GenesisChange
    BY SMT
  <2>3. P(0)
    BY <2>1, <2>2, SMT
  <2> QED
    BY <2>3
<1>4. ASSUME NEW k \in Nat, k \in S PROVE k + 1 \in S
  <2> SUFFICES ASSUME k + 1 <= Len(db) PROVE P(k + 1)
    BY SMT
  <2> DEFINE l == g[1..k]
  <2>1. l \in Seq(Changes) /\ Len(l) = k + 1 /\ l[1] = GenesisChange
        /\ \A i \in 1..k : l[i + 1] = db[i]
    BY <1>1, <1>4, SMT
  <2>2. g[1..(k + 1)] = Add(l, db[k + 1]) /\ k + 1 \in 1..Len(db)
    <3>1. k + 1 \in 1..Len(db) /\ (k + 1) - 1 = k
      BY <1>1, SMT
    <3> QED
      BY <1>2, <3>1
  <2> HIDE DEF l
  <2>3. \A i \in 1..Len(l) : l[i] # db[k + 1]
    <3>1. ASSUME NEW i \in 1..Len(l) PROVE l[i] # db[k + 1]
      <4>1. CASE i = 1
        BY <2>1, <2>2, <4>1
      <4>2. CASE i # 1
        <5>1. i - 1 \in 1..k /\ (i - 1) + 1 = i /\ i - 1 \in 1..Len(db) /\ i - 1 # k + 1
          BY <1>1, <2>1, <4>2, SMT
        <5>2. l[i] = db[i - 1]
          BY <2>1, <5>1
        <5> QED
          BY <2>2, <5>1, <5>2
      <4> QED
        BY <4>1, <4>2
    <3> QED
      BY <3>1
  <2>4. g[1..(k + 1)] = Append(l, db[k + 1])
    BY <2>2, <2>3 DEF Add
  <2>5. db[k + 1] \in Changes
    BY <1>1, <2>2
  <2>6. /\ Append(l, db[k + 1]) \in Seq(Changes) /\ Len(Append(l, db[k + 1])) = k + 2
        /\ Append(l, db[k + 1])[k + 2] = db[k + 1]
        /\ \A i \in 1..(k + 1) : Append(l, db[k + 1])[i] = l[i]
    BY <2>1, <2>5, AppendProperties, SMT
  <2>7. \A i \in 1..(k + 1) : Append(l, db[k + 1])[i + 1] = db[i]
    BY <2>1, <2>6, SMT
  <2> QED
    BY <2>1, <2>4, <2>6, <2>7, SMT
<1>5. P(Len(db))
  <2>1. Len(db) \in S
    BY <1>1, <1>3, <1>4, NatSteps
  <2> QED
    BY <1>1, <2>1, SMT
<1> QED
  BY <1>2, <1>5

HeaderTo(g, base, seq, s) == IF s = {} THEN base ELSE AcceptHeader(g[s \ {Max(s)}], seq[Max(s)])

\* The fold of AcceptHeader has its equation.
LEMMA FoldHeadersExists ==
    ASSUME NEW base, NEW seq
    PROVE  \A n \in Nat : \E g : g = [s \in SUBSET (1..n) |-> HeaderTo(g, base, seq, s)]
<1> DEFINE S == {n \in Nat : \E g : g = [s \in SUBSET (1..n) |-> HeaderTo(g, base, seq, s)]}
<1>1. 0 \in S
  <2> DEFINE g == [s \in SUBSET (1..0) |-> base]
  <2>1. \A s \in SUBSET (1..0) : s = {}
    <3>1. 1..0 = {}
      BY SMT
    <3> QED
      BY <3>1
  <2>2. g = [s \in SUBSET (1..0) |-> HeaderTo(g, base, seq, s)]
    BY <2>1 DEF HeaderTo
  <2> QED
    BY <2>2
<1>2. ASSUME NEW n \in Nat, n \in S PROVE n + 1 \in S
  <2>1. PICK g : g = [s \in SUBSET (1..n) |-> HeaderTo(g, base, seq, s)]
    BY <1>2
  <2> DEFINE h == [s \in SUBSET (1..(n + 1)) |->
                      IF n + 1 \in s THEN AcceptHeader(g[s \ {n + 1}], seq[n + 1]) ELSE g[s]]
  <2>2. ASSUME NEW s \in SUBSET (1..n) PROVE h[s] = g[s] /\ s \in SUBSET (1..(n + 1))
    BY <2>2, SMT
  <2>3. ASSUME NEW s \in SUBSET (1..(n + 1)) PROVE h[s] = HeaderTo(h, base, seq, s)
    <3>1. CASE n + 1 \in s
      <4>1. n + 1 \in Nat /\ s # {}
        BY <3>1, SMT
      <4>2. Max(s) = n + 1
        <5>1. Max(s) \in s /\ n + 1 <= Max(s)
          BY <3>1, <4>1, MaxOf
        <5>2. Max(s) \in 1..(n + 1)
          BY <5>1
        <5> QED
          BY <5>1, <5>2, SMT
      <4>3. s \ {n + 1} \in SUBSET (1..n)
        BY SMT
      <4>4. h[s] = AcceptHeader(g[s \ {n + 1}], seq[n + 1])
        BY <3>1
      <4>5. h[s \ {n + 1}] = g[s \ {n + 1}]
        BY <2>2, <4>3
      <4> HIDE DEF h
      <4> QED
        BY <3>1, <4>2, <4>4, <4>5 DEF HeaderTo
    <3>2. CASE n + 1 \notin s
      <4>1. s \in SUBSET (1..n)
        BY <3>2, SMT
      <4>2. g[s] = HeaderTo(g, base, seq, s)
        BY <2>1, <4>1
      <4>3. h[s] = g[s] /\ h[s \ {Max(s)}] = g[s \ {Max(s)}]
        BY <2>2, <4>1
      <4> HIDE DEF h
      <4> QED
        BY <4>2, <4>3 DEF HeaderTo
    <3> QED
      BY <3>1, <3>2
  <2>4. h = [s \in SUBSET (1..(n + 1)) |-> HeaderTo(h, base, seq, s)]
    BY <2>3
  <2> HIDE DEF h
  <2>5. n + 1 \in Nat
    BY SMT
  <2> QED
    BY <2>4, <2>5
<1>3. Nat \subseteq S
  BY <1>1, <1>2, NatSteps
<1> QED
  BY <1>3

\* AcceptHeaders, header by header.
LEMMA HeadersUnfold ==
    ASSUME NEW st, NEW msg, NEW n \in Nat, DOMAIN msg = 1..n
    PROVE  \E g : /\ AcceptHeaders(st, msg) = g[1..n] /\ g[{}] = st
                  /\ \A k \in 1..n : g[1..k] = AcceptHeader(g[1..(k - 1)], msg[k])
<1> DEFINE g == CHOOSE f : f = [s \in SUBSET (DOMAIN msg) |-> HeaderTo(f, st, msg, s)]
<1>1. AcceptHeaders(st, msg) = g[DOMAIN msg]
  BY DEF AcceptHeaders, FoldLeft, MapThenFoldSet, HeaderTo
<1>2. g = [s \in SUBSET (1..n) |-> HeaderTo(g, st, msg, s)]
  BY FoldHeadersExists, SMT
<1> HIDE DEF g
<1>3. g[{}] = st
  BY <1>2 DEF HeaderTo
<1>4. ASSUME NEW k \in 1..n PROVE g[1..k] = AcceptHeader(g[1..(k - 1)], msg[k])
  <2>1. k \in Nat \ {0} /\ 1..k \in SUBSET (1..n)
    BY SMT
  <2>2. Max(1..k) = k /\ (1..k) \ {k} = 1..(k - 1) /\ 1..k # {}
    BY <2>1, MaxOfFirst
  <2>3. g[1..k] = HeaderTo(g, st, msg, 1..k)
    BY <1>2, <2>1
  <2> QED
    BY <2>2, <2>3 DEF HeaderTo
<1> QED
  BY <1>1, <1>3, <1>4

\* The state of the fold: the block index has grown.
HeaderState(st, I) ==
    DOMAIN st = {"index", "temp", "ok"} /\ I \subseteq st.index /\ st.index \subseteq Blocks

\* A header is added to the block index or not.
LEMMA HeaderAdded ==
    ASSUME NEW I, NEW st, HeaderState(st, I), NEW b \in Blocks
    PROVE  HeaderState(AcceptHeader(st, b), I)
<1> DEFINE added == [st EXCEPT !.index = @ \cup {b}, !.temp = Recorded(@, b)]
           refused == [st EXCEPT !.ok = FALSE]
<1>1. AcceptHeader(st, b) \in {st, added, refused}
  BY DEF AcceptHeader
<1>2. DOMAIN added = {"index", "temp", "ok"} /\ added.index = st.index \cup {b}
  BY DEF HeaderState
<1>3. DOMAIN refused = {"index", "temp", "ok"} /\ refused.index = st.index
  BY DEF HeaderState
<1> HIDE DEF added, refused
<1> QED
  BY <1>1, <1>2, <1>3 DEF HeaderState

\* Headers are only added to the block index.
LEMMA HeadersAdded ==
    ASSUME NEW I, NEW st, HeaderState(st, I), NEW n \in Nat, NEW msg \in [1..n -> Blocks]
    PROVE  HeaderState(AcceptHeaders(st, msg), I)
<1>1. DOMAIN msg = 1..n
  OBVIOUS
<1>2. PICK g : /\ AcceptHeaders(st, msg) = g[1..n] /\ g[{}] = st
               /\ \A k \in 1..n : g[1..k] = AcceptHeader(g[1..(k - 1)], msg[k])
  BY <1>1, HeadersUnfold, SMT
<1> DEFINE S == {k \in Nat : k <= n => HeaderState(g[1..k], I)}
<1>3. 0 \in S
  <2>1. 1..0 = {} /\ g[1..0] = st
    BY <1>2, SMT
  <2> QED
    BY <2>1
<1>4. ASSUME NEW k \in Nat, k \in S, k + 1 <= n PROVE HeaderState(g[1..(k + 1)], I)
  <2>1. k + 1 \in 1..n /\ (k + 1) - 1 = k /\ k <= n
    BY <1>4, SMT
  <2>2. g[1..(k + 1)] = AcceptHeader(g[1..k], msg[k + 1]) /\ msg[k + 1] \in Blocks
    BY <1>2, <2>1
  <2> QED
    BY <1>4, <2>1, <2>2, HeaderAdded
<1>5. \A k \in Nat : k \in S => k + 1 \in S
  BY <1>4, SMT
<1>6. Nat \subseteq S
  <2> HIDE DEF S
  <2> QED
    BY <1>3, <1>5, NatSteps
<1>7. HeaderState(g[1..n], I)
  <2>1. n \in S /\ n <= n
    BY <1>6, SMT
  <2> QED
    BY <2>1
<1> QED
  BY <1>2, <1>7

-----------------------------------------------------------------------------
(* The key in force.                                                       *)

\* The blocks that announce a key.
Announcing == {b \in Blocks : XField[b] # NoChange}

\* The last announcement of a chain.
Announcer(a, b) ==
    /\ a \in Chain[b] \cap Announcing
    /\ \A x \in Chain[b] \cap Announcing : nHeight[x] <= nHeight[a]

\* Two blocks of a chain with the same height are the same.
LEMMA OneAtHeight ==
    ASSUME NEW b \in Blocks, NEW x \in Chain[b], NEW y \in Chain[b], nHeight[x] = nHeight[y]
    PROVE  x = y
<1>1. x \in Blocks /\ y \in Blocks /\ (x \in Chain[y] \/ y \in Chain[x])
  BY ChainBounded, ChainLinear
<1>2. nHeight[x] \in Nat /\ nHeight[y] \in Nat
  BY <1>1, HeightOf
<1> QED
  BY <1>1, <1>2, HeightOfAncestor, SMT

\* A chain has one last announcement: that of its last block, or that of its parent's.
LEMMA AnnouncerFacts ==
    /\ \A b \in Announcing : Announcer(b, b)
    /\ \A b \in Blocks \ Announcing : \A a : b # Genesis /\ (Announcer(a, Parent[b]) <=> Announcer(a, b))
    /\ \A b \in Blocks : \A x, y : Announcer(x, b) /\ Announcer(y, b) => x = y
    /\ \A b \in Blocks : \E a \in Blocks : Announcer(a, b)
<1>1. ASSUME NEW b \in Announcing PROVE Announcer(b, b)
  <2>1. b \in Blocks /\ b \in Chain[b] /\ nHeight[b] \in Nat
    BY ChainOf, HeightOf DEF Announcing
  <2>2. \A x \in Chain[b] : nHeight[x] \in Nat /\ (x = b \/ nHeight[x] < nHeight[b])
    BY <2>1, HeightOfAncestor, HeightOf, ChainBounded
  <2> QED
    BY <2>1, <2>2, SMT DEF Announcer
<1>2. ASSUME NEW b \in Blocks \ Announcing, NEW a
      PROVE  b # Genesis /\ (Announcer(a, Parent[b]) <=> Announcer(a, b))
  <2>1. b # Genesis
    BY KeyAssumption DEF Announcing
  <2>2. Chain[b] \cap Announcing = Chain[Parent[b]] \cap Announcing
    BY <2>1, ChainOf, SMT
  <2> QED
    BY <2>1, <2>2 DEF Announcer
<1>3. ASSUME NEW b \in Blocks, NEW x, NEW y, Announcer(x, b), Announcer(y, b) PROVE x = y
  <2>1. x \in Chain[b] /\ y \in Chain[b] /\ nHeight[x] <= nHeight[y] /\ nHeight[y] <= nHeight[x]
    BY <1>3 DEF Announcer
  <2>2. nHeight[x] \in Nat /\ nHeight[y] \in Nat
    BY <2>1, ChainBounded, HeightOf
  <2> QED
    BY <2>1, <2>2, OneAtHeight, SMT
<1> DEFINE S == {b \in Blocks : \E a \in Blocks : Announcer(a, b)}
<1>4. Genesis \in S
  BY <1>1, KeyAssumption, TreeAssumption DEF Announcing
<1>5. ASSUME NEW b \in Blocks \ {Genesis}, Parent[b] \in S PROVE b \in S
  BY <1>1, <1>2, <1>5
<1>6. Blocks \subseteq S
  BY <1>4, <1>5, TreeInduction
<1> QED
  BY <1>1, <1>2, <1>3, <1>6

\* KeyAfter is the key that the last announcement of the chain made.
LEMMA KeyOf == \A b \in Blocks : \A a : Announcer(a, b) => KeyAfter[b] = XField[a]
<1> DEFINE A(b) == CHOOSE a : Announcer(a, b)
           f == [b \in Blocks |-> XField[A(b)]]
<1>1. \A b \in Blocks : Announcer(A(b), b)
  BY AnnouncerFacts
<1> HIDE DEF A
<1>2. ASSUME NEW b \in Blocks
      PROVE  XField[A(b)] = IF XField[b] # NoChange THEN XField[b] ELSE f[Parent[b]]
  <2>1. CASE XField[b] # NoChange
    <3>1. A(b) = b
      BY <1>1, <2>1, AnnouncerFacts DEF Announcing
    <3> QED
      BY <2>1, <3>1
  <2>2. CASE XField[b] = NoChange
    <3>1. b \in Blocks \ Announcing
      BY <2>2 DEF Announcing
    <3>2. Parent[b] \in Blocks
      BY <3>1, AnnouncerFacts, TreeAssumption
    <3>3. A(b) = A(Parent[b])
      BY <1>1, <3>1, <3>2, AnnouncerFacts, SMT
    <3> QED
      BY <2>2, <3>2, <3>3
  <2> QED
    BY <2>1, <2>2
<1>3. f = [b \in Blocks |-> IF XField[b] # NoChange THEN XField[b] ELSE f[Parent[b]]]
  BY <1>2
<1>4. KeyAfter = [b \in Blocks |-> IF XField[b] # NoChange THEN XField[b] ELSE KeyAfter[Parent[b]]]
  <2> HIDE DEF f
  <2>1. \E g : g = [b \in Blocks |-> IF XField[b] # NoChange THEN XField[b] ELSE g[Parent[b]]]
    BY <1>3
  <2> QED
    BY <2>1 DEF KeyAfter
<1> DEFINE S == {b \in Blocks : \A a : Announcer(a, b) => KeyAfter[b] = XField[a]}
<1>5. ASSUME NEW b \in Blocks \cap Announcing PROVE b \in S
  <2>1. KeyAfter[b] = XField[b]
    BY <1>4 DEF Announcing
  <2> QED
    BY <2>1, AnnouncerFacts
<1>6. ASSUME NEW b \in Blocks \ Announcing, Parent[b] \in S PROVE b \in S
  <2>1. KeyAfter[b] = KeyAfter[Parent[b]]
    BY <1>4 DEF Announcing
  <2> QED
    BY <1>6, <2>1, AnnouncerFacts
<1>7. Genesis \in S
  BY <1>5, KeyAssumption, TreeAssumption DEF Announcing
<1>8. Blocks \subseteq S
  BY <1>5, <1>6, <1>7, TreeInduction
<1> QED
  BY <1>8

-----------------------------------------------------------------------------
(* Look-up by height.                                                      *)

\* The heights of a history increase.
Increasing(list) ==
    /\ list \in Seq(Changes) /\ Len(list) \in Nat \ {0}
    /\ \A i, j \in 1..Len(list) : i < j => list[i].height < list[j].height

\* In an increasing history Get finds the last change that is in force at a height.
LEMMA GetIs ==
    ASSUME NEW list, Increasing(list), NEW h \in Nat \ {0}, NEW m \in 1..Len(list),
           list[m].height <= h, \A i \in 1..Len(list) : list[i].height <= h => i <= m
    PROVE  Get(list, h) = list[m]
<1> DEFINE n == Len(list)
           found == {i \in 1..n : \/ h = list[i].height
                                  \/ list[i].height < h /\ i < n /\ h < list[i + 1].height}
<1>1. n \in Nat \ {0} /\ Last(list) = list[n] /\ \A i \in 1..n : list[i].height \in Nat
  <2>1. n \in Nat \ {0} /\ Last(list) = list[n]
    BY DEF Increasing, Last
  <2>2. \A i \in 1..n : list[i] \in Changes
    BY SMT DEF Increasing
  <2>3. \A c \in Changes : c.height \in Nat
    BY DEF Changes
  <2> QED
    BY <2>1, <2>2, <2>3
<1>2. CASE n = 1
  BY <1>2, SMT DEF Get
<1>3. CASE n # 1 /\ h > list[n].height
  <2>1. m = n
    BY <1>1, <1>3, SMT
  <2> QED
    BY <1>1, <1>3, <2>1 DEF Get
<1>4. CASE n # 1 /\ ~(h > list[n].height)
  <2>1. m \in found
    <3>1. CASE list[m].height = h
      BY <3>1
    <3>2. CASE list[m].height # h
      <4>1. m < n
        BY <1>1, <1>4, <3>2, SMT
      <4>2. m + 1 \in 1..n /\ ~(m + 1 <= m)
        BY <1>1, <4>1, SMT
      <4>3. ~(list[m + 1].height <= h) /\ list[m + 1].height \in Nat
        BY <1>1, <4>2
      <4> QED
        BY <1>1, <3>2, <4>1, <4>3, SMT
    <3> QED
      BY <3>1, <3>2
  <2>2. ASSUME NEW i \in found PROVE i = m
    <3>1. i \in 1..n /\ list[i].height <= h /\ i <= m
      BY <1>1, SMT
    <3>2. ASSUME i < m PROVE FALSE
      <4>1. list[i].height < list[m].height
        BY <3>1, <3>2 DEF Increasing
      <4>2. i + 1 \in 1..n /\ h < list[i + 1].height
        BY <1>1, <3>1, <3>2, <4>1, SMT
      <4>3. i + 1 = m \/ list[i + 1].height < list[m].height
        BY <3>1, <3>2, <4>2, SMT DEF Increasing
      <4> QED
        BY <1>1, <4>2, <4>3, SMT
    <3> QED
      BY <1>1, <3>1, <3>2, SMT
  <2>3. found = {m}
    BY <2>1, <2>2
  <2>4. Get(list, h) = list[CHOOSE i \in found : \A j \in found : i <= j]
    BY <1>1, <1>4, <2>3 DEF Get
  <2>5. (CHOOSE i \in {m} : \A j \in {m} : i <= j) = m
    BY m <= m
  <2> HIDE DEF found
  <2> QED
    BY <2>3, <2>4, <2>5
<1> QED
  BY <1>2, <1>3, <1>4

-----------------------------------------------------------------------------
(* The state.                                                              *)

\* What the federation must see to: an announcement changes the key, and it is settled
\* before the next block, so that no branch without it grows higher and no other
\* announcement is made at its height.
Settled ==
    /\ \A c \in Announcing \ {Genesis} : XField[c] # Signer(c)
    /\ \A c \in Announcing : \A b \in Blocks :
          (nHeight[b] > nHeight[c] \/ (b \in Announcing /\ nHeight[b] = nHeight[c]))
             => c \in Chain[b]

\* The blocks whose announcements are stored.
Known == {xfieldDB[i].block : i \in 1..Len(xfieldDB)}

\* The block index, in memory and flushed.
Stored ==
    /\ index \subseteq Blocks /\ data \subseteq index /\ Genesis \in data
    /\ tip \in data /\ Chain[tip] \subseteq data /\ pblock \in data
    /\ disk.index \subseteq Blocks /\ disk.data \subseteq disk.index /\ disk.data \subseteq data
    /\ disk.tip \in disk.data /\ Chain[disk.tip] \subseteq disk.data /\ Genesis \in disk.data
    /\ crashes \in Nat

\* The history is the genesis block's entry and the database.  The database holds the
\* announcements of some chain up to a height, each once and in order: those of the active
\* chain and of the flushed one are among them, and only a crash leaves more than those.
History ==
    /\ xfieldHistory \in Seq(Changes) /\ xfieldDB \in Seq(Changes)
    /\ Len(xfieldHistory) = Len(xfieldDB) + 1 /\ xfieldHistory[1] = GenesisChange
    /\ \A i \in 1..Len(xfieldDB) :
          /\ xfieldHistory[i + 1] = xfieldDB[i]
          /\ xfieldDB[i].block \in Announcing \ {Genesis}
          /\ xfieldDB[i] = XFieldChange(xfieldDB[i].block)
    /\ \A i, j \in 1..Len(xfieldDB) :
          i < j => nHeight[xfieldDB[i].block] < nHeight[xfieldDB[j].block]
    /\ \A b \in Known \cup {tip, disk.tip} : Chain[b] \cap Announcing \subseteq Known \cup {Genesis}
    /\ crashes = 0 => Known \subseteq Chain[tip]

\* An announcement is an entry of the history.
LEMMA ChangeType ==
    /\ GenesisChange \in Changes
    /\ \A b \in Announcing : /\ XFieldChange(b) \in Changes /\ XFieldChange(b).block = b
                              /\ XFieldChange(b).value = XField[b]
                              /\ XFieldChange(b).height = nHeight[b] + 1
    /\ \A b \in Announcing \ {Genesis} : XFieldChange(b) # GenesisChange
<1>1. GenesisChange \in Changes
  BY KeyAssumption, TreeAssumption DEF GenesisChange, Changes
<1>2. ASSUME NEW b \in Announcing
      PROVE  /\ XFieldChange(b) \in Changes /\ XFieldChange(b).block = b
             /\ XFieldChange(b).value = XField[b] /\ XFieldChange(b).height = nHeight[b] + 1
  <2>1. XField[b] \in Keys /\ nHeight[b] + 1 \in Nat /\ b \in Blocks
    BY KeyAssumption, HeightOf, SMT DEF Announcing
  <2> QED
    BY <2>1 DEF XFieldChange, Changes
<1>3. GenesisChange.block = Genesis
  BY DEF GenesisChange
<1> QED
  BY <1>1, <1>2, <1>3

\* The entries of the history, by the blocks they come from.
LEMMA HistoryFacts ==
    ASSUME History
    PROVE  /\ Len(xfieldHistory) \in Nat \ {0} /\ Len(xfieldDB) \in Nat
           /\ \A i \in 1..Len(xfieldHistory) :
                 /\ xfieldHistory[i].block \in Announcing
                 /\ xfieldHistory[i].block \in Known \cup {Genesis}
                 /\ xfieldHistory[i].value = XField[xfieldHistory[i].block]
                 /\ xfieldHistory[i].height =
                       IF i = 1 THEN 0 ELSE nHeight[xfieldHistory[i].block] + 1
                 /\ xfieldHistory[i].block = Genesis <=> i = 1
           /\ \A x \in Known \cup {Genesis} :
                 \E i \in 1..Len(xfieldHistory) : xfieldHistory[i].block = x
           /\ Known \subseteq Announcing \ {Genesis}
<1>1. Len(xfieldHistory) \in Nat \ {0} /\ Len(xfieldDB) \in Nat
      /\ Len(xfieldHistory) = Len(xfieldDB) + 1
  BY SMT DEF History
<1>2. Genesis \in Announcing
  BY KeyAssumption, TreeAssumption DEF Announcing
<1>3. xfieldHistory[1].block = Genesis /\ xfieldHistory[1].value = XField[Genesis]
      /\ xfieldHistory[1].height = 0
  BY SMT DEF History, GenesisChange
<1>4. ASSUME NEW i \in 1..Len(xfieldHistory), i # 1
      PROVE  /\ xfieldHistory[i].block \in Announcing \ {Genesis}
             /\ xfieldHistory[i].block \in Known
             /\ xfieldHistory[i].value = XField[xfieldHistory[i].block]
             /\ xfieldHistory[i].height = nHeight[xfieldHistory[i].block] + 1
  <2> DEFINE j == i - 1
  <2>1. j \in 1..Len(xfieldDB) /\ j + 1 = i
    BY <1>1, <1>4, SMT
  <2> HIDE DEF j
  <2>2. /\ xfieldHistory[i] = xfieldDB[j] /\ xfieldDB[j].block \in Announcing \ {Genesis}
        /\ xfieldDB[j] = XFieldChange(xfieldDB[j].block)
    BY <2>1 DEF History
  <2>3. xfieldDB[j].block \in Known
    BY <2>1 DEF Known
  <2> QED
    BY <2>2, <2>3, ChangeType
<1>5. ASSUME NEW x \in Known PROVE \E i \in 1..Len(xfieldHistory) : xfieldHistory[i].block = x
  <2>1. PICK j \in 1..Len(xfieldDB) : xfieldDB[j].block = x
    BY DEF Known
  <2>2. j + 1 \in 1..Len(xfieldHistory) /\ xfieldHistory[j + 1] = xfieldDB[j]
    BY <1>1, SMT DEF History
  <2> QED
    BY <2>1, <2>2
<1>6. Known \subseteq Announcing \ {Genesis}
  BY DEF Known, History
<1>7. 1 \in 1..Len(xfieldHistory)
  BY <1>1, SMT
<1> QED
  BY <1>1, <1>2, <1>3, <1>4, <1>5, <1>6, <1>7

\* The history is in the order of its heights.
LEMMA HistoryIncreases == ASSUME History PROVE Increasing(xfieldHistory)
<1>1. Len(xfieldHistory) \in Nat \ {0} /\ Len(xfieldDB) \in Nat
      /\ Len(xfieldHistory) = Len(xfieldDB) + 1
  BY SMT DEF History
<1>2. ASSUME NEW i \in 1..Len(xfieldHistory), NEW j \in 1..Len(xfieldHistory), i < j
      PROVE  xfieldHistory[i].height < xfieldHistory[j].height
  <2>1. /\ xfieldHistory[j].height = nHeight[xfieldHistory[j].block] + 1
        /\ nHeight[xfieldHistory[j].block] \in Nat
    BY <1>2, HistoryFacts, HeightOf, SMT DEF Announcing
  <2>2. CASE i = 1
    BY <2>1, <2>2, HistoryFacts, SMT
  <2>3. CASE i # 1
    <3>1. /\ xfieldHistory[i].height = nHeight[xfieldHistory[i].block] + 1
          /\ nHeight[xfieldHistory[i].block] \in Nat
      BY <2>3, HistoryFacts, HeightOf DEF Announcing
    <3> DEFINE k == i - 1
               l == j - 1
    <3>2. k \in 1..Len(xfieldDB) /\ l \in 1..Len(xfieldDB) /\ k < l /\ k + 1 = i /\ l + 1 = j
      BY <1>1, <1>2, <2>3, SMT
    <3> HIDE DEF k, l
    <3>3. xfieldHistory[i] = xfieldDB[k] /\ xfieldHistory[j] = xfieldDB[l]
          /\ nHeight[xfieldDB[k].block] < nHeight[xfieldDB[l].block]
      BY <3>2 DEF History
    <3> QED
      BY <2>1, <3>1, <3>3, SMT
  <2> QED
    BY <2>2, <2>3
<1> QED
  BY <1>1, <1>2 DEF Increasing, History

\* The height of an entry's block grows with its place.
LEMMA HigherLater ==
    ASSUME History, NEW i \in 1..Len(xfieldHistory), NEW m \in 1..Len(xfieldHistory), i <= m
    PROVE  nHeight[xfieldHistory[i].block] <= nHeight[xfieldHistory[m].block]
<1>1. \A k \in 1..Len(xfieldHistory) : nHeight[xfieldHistory[k].block] \in Nat
  BY HistoryFacts, HeightOf DEF Announcing
<1>2. CASE i = m
  BY <1>1, <1>2, SMT
<1>3. CASE i = 1
  BY <1>1, <1>3, HistoryFacts, HeightOf, SMT
<1>4. CASE i # m /\ i # 1
  <2>1. i < m /\ m # 1 /\ Len(xfieldHistory) \in Nat
    BY <1>4, HistoryFacts, SMT
  <2>2. xfieldHistory[i].height < xfieldHistory[m].height
    BY <2>1, HistoryIncreases DEF Increasing
  <2> QED
    BY <1>1, <1>4, <2>1, <2>2, HistoryFacts, SMT
<1> QED
  BY <1>2, <1>3, <1>4

\* When the announcements below a block are stored, its key is found by its height, also
\* when announcements above it are stored.
LEMMA KeyFound ==
    ASSUME Settled, History, NEW b \in Blocks \ {Genesis},
           Chain[Parent[b]] \cap Announcing \subseteq Known \cup {Genesis}
    PROVE  ProofOk(b)
<1> DEFINE h == nHeight[b]
           n == Len(xfieldHistory)
           at == {i \in 1..n : xfieldHistory[i].height <= h}
           m == Max(at)
           a == xfieldHistory[m].block
<1>1. /\ Parent[b] \in Blocks /\ h \in Nat \ {0} /\ nHeight[Parent[b]] \in Nat
      /\ h = nHeight[Parent[b]] + 1 /\ Chain[b] = Chain[Parent[b]] \cup {b}
  BY HeightOf, ParentOf, SMT
<1>2. n \in Nat \ {0} /\ 1 \in at
  BY <1>1, HistoryFacts, SMT
<1>3. m \in 1..n /\ xfieldHistory[m].height <= h
      /\ \A i \in 1..n : xfieldHistory[i].height <= h => i <= m
  <2>1. at \in SUBSET (1..n) /\ at # {}
    BY <1>2
  <2>2. Max(at) \in at /\ \A y \in at : y <= Max(at)
    BY <1>2, <2>1, MaxOf
  <2> QED
    BY <2>2
<1> HIDE DEF m, at
<1>4. Get(xfieldHistory, h) = xfieldHistory[m]
  BY <1>1, <1>3, GetIs, HistoryIncreases
<1>5. /\ a \in Announcing /\ a \in Blocks /\ nHeight[a] \in Nat
      /\ xfieldHistory[m].value = XField[a]
      /\ m = 1 => a = Genesis
      /\ m # 1 => xfieldHistory[m].height = nHeight[a] + 1
  BY <1>3, HistoryFacts, HeightOf DEF Announcing
<1>6. a \in Chain[Parent[b]]
  <2>1. CASE m = 1
    BY <1>1, <1>5, <2>1, GenesisInChain
  <2>2. CASE m # 1
    <3>1. nHeight[b] > nHeight[a]
      BY <1>1, <1>3, <1>5, <2>2, SMT
    <3>2. a \in Chain[b] /\ a # b
      BY <1>1, <1>5, <3>1, SMT DEF Settled
    <3> QED
      BY <1>1, <3>2
  <2> QED
    BY <2>1, <2>2
<1>7. ASSUME NEW x \in Chain[Parent[b]] \cap Announcing PROVE nHeight[x] <= nHeight[a]
  <2>1. PICK i \in 1..n : xfieldHistory[i].block = x
    BY HistoryFacts
  <2>2. nHeight[x] \in Nat /\ nHeight[x] <= nHeight[Parent[b]]
    BY <1>1, ChainBounded, HeightOf, HeightOfAncestor, SMT
  <2>3. xfieldHistory[i].height <= h
    BY <1>1, <2>1, <2>2, HistoryFacts, SMT
  <2> QED
    BY <1>3, <2>1, <2>3, HigherLater
<1>8. KeyAfter[Parent[b]] = XField[a]
  BY <1>1, <1>5, <1>6, <1>7, KeyOf DEF Announcer
<1> QED
  BY <1>4, <1>5, <1>8 DEF ProofOk, Signer

\* When just the announcements of a chain are stored, the latest key is the one in force
\* after it.
LEMMA LatestKey ==
    ASSUME History, NEW p \in Blocks, Known \subseteq Chain[p],
           Chain[p] \cap Announcing \subseteq Known \cup {Genesis}
    PROVE  Last(xfieldHistory).value = KeyAfter[p]
<1> DEFINE n == Len(xfieldHistory)
           a == xfieldHistory[n].block
<1>1. n \in Nat \ {0} /\ n \in 1..n /\ Last(xfieldHistory) = xfieldHistory[n]
  BY HistoryFacts, SMT DEF Last
<1>2. a \in Announcing /\ a \in Chain[p] /\ xfieldHistory[n].value = XField[a]
  BY <1>1, HistoryFacts, GenesisInChain
<1>3. ASSUME NEW x \in Chain[p] \cap Announcing PROVE nHeight[x] <= nHeight[a]
  <2>1. PICK i \in 1..n : xfieldHistory[i].block = x
    BY HistoryFacts
  <2>2. i <= n
    BY <1>1, SMT
  <2> QED
    BY <1>1, <2>1, <2>2, HigherLater
<1>4. KeyAfter[p] = XField[a]
  BY <1>2, <1>3, KeyOf DEF Announcer
<1> QED
  BY <1>1, <1>2, <1>4

\* An announcement that is not stored when its parent is the tip is higher than all that
\* are, and they are on its chain.
LEMMA NewIsHighest ==
    ASSUME Settled, History, NEW b \in Announcing \ {Genesis}, b \notin Known, NEW k \in Known
    PROVE  nHeight[k] < nHeight[b] /\ k \in Chain[Parent[b]]
<1>1. /\ k \in Announcing /\ k \in Blocks /\ b \in Blocks
      /\ nHeight[k] \in Nat /\ nHeight[b] \in Nat /\ k # b /\ k # Genesis
  BY HistoryFacts, HeightOf DEF Announcing
<1>2. b \notin Chain[k]
  BY DEF History
<1>3. nHeight[k] < nHeight[b]
  <2>1. CASE nHeight[k] > nHeight[b]
    BY <1>1, <1>2, <2>1 DEF Settled
  <2>2. CASE nHeight[k] = nHeight[b]
    BY <1>1, <1>2, <2>2 DEF Settled
  <2> QED
    BY <1>1, <2>1, <2>2, SMT
<1>4. k \in Chain[b]
  BY <1>1, <1>3 DEF Settled
<1> QED
  BY <1>1, <1>3, <1>4, ParentOf, SMT

-----------------------------------------------------------------------------
(* The steps.                                                              *)

\* The block index in memory and the flushed one stay closed under ancestors.
LEMMA StoredStep == ASSUME Stored, [Next]_vars PROVE Stored'
<1>1. ASSUME NEW msg \in HeaderMessages, ProcessNewBlockHeaders(msg) PROVE Stored'
  <2> DEFINE st == [index |-> index, temp |-> xfieldHistory, ok |-> TRUE]
  <2>1. PICK n \in 1..MaxHeaders : msg \in [1..n -> Blocks \ {Genesis}]
    BY <1>1 DEF HeaderMessages
  <2>2. n \in Nat /\ msg \in [1..n -> Blocks]
    BY <2>1, BoundAssumption, SMT
  <2>3. HeaderState(st, index)
    BY DEF HeaderState, Stored
  <2> HIDE DEF st
  <2>4. HeaderState(AcceptHeaders(st, msg), index)
    BY <2>2, <2>3, HeadersAdded
  <2>5. index' = AcceptHeaders(st, msg).index
    BY <1>1 DEF ProcessNewBlockHeaders, st
  <2>6. index \subseteq index' /\ index' \subseteq Blocks
    BY <2>4, <2>5 DEF HeaderState
  <2> QED
    BY <1>1, <2>6 DEF ProcessNewBlockHeaders, Stored
<1>2. ASSUME NEW b \in Blocks \ {Genesis}, ProcessNewBlock(b) PROVE Stored'
  BY <1>2 DEF ProcessNewBlock, Stored
<1>3. ASSUME NEW b \in Blocks \ {Genesis}, ConnectTip(b) PROVE Stored'
  <2>1. PICK best \in MostWork : b \in Chain[best]
    BY <1>3 DEF ConnectTip
  <2>2. best \in Blocks /\ Chain[best] \subseteq data
    BY <2>1 DEF MostWork, Stored
  <2>3. b \in data /\ Chain[b] \subseteq data
    BY <2>1, <2>2, ChainTransitive
  <2>4. tip' \in {b, tip}
    BY <1>3 DEF ConnectTip
  <2> QED
    BY <1>3, <2>3, <2>4 DEF ConnectTip, Stored
<1>4. ASSUME DisconnectTip PROVE Stored'
  <2>1. PICK best \in MostWork : tip \notin Chain[best]
    BY <1>4 DEF DisconnectTip
  <2>2. best \in Blocks /\ tip \in Blocks
    BY <2>1 DEF MostWork, Stored
  <2>3. tip \in Blocks \ {Genesis}
    BY <2>1, <2>2, GenesisInChain
  <2>4. Parent[tip] \in Blocks /\ Chain[Parent[tip]] \subseteq Chain[tip] /\ Parent[tip] \in Chain[tip]
    BY <2>3, ParentOf, ChainOf, SMT
  <2>5. tip' \in {tip, Parent[tip]}
    BY <1>4 DEF DisconnectTip
  <2> QED
    BY <1>4, <2>4, <2>5 DEF DisconnectTip, Stored
<1>5. ASSUME Restart PROVE Stored'
  BY <1>5, SMT DEF Restart, Stored
<1>6. ASSUME NEW full \in BOOLEAN, FlushStateToDisk(full) PROVE Stored'
  <2>1. /\ disk'.index = index /\ disk'.data = data /\ disk'.tip \in {tip, disk.tip}
        /\ UNCHANGED <<index, data, tip, pblock, crashes>>
    BY <1>6 DEF FlushStateToDisk
  <2> QED
    BY <2>1 DEF Stored
<1>7. CASE UNCHANGED vars
  BY <1>7 DEF vars, Stored
<1> QED
  BY <1>1, <1>2, <1>3, <1>4, <1>5, <1>6, <1>7 DEF Next

\* A step that leaves the history alone keeps what it says, when the announcements of the
\* new tips are stored.
LEMMA HistoryKept ==
    ASSUME History, UNCHANGED <<xfieldHistory, xfieldDB>>,
           Chain[tip'] \cap Announcing \subseteq Known \cup {Genesis},
           Chain[disk'.tip] \cap Announcing \subseteq Known \cup {Genesis},
           crashes' = 0 => Known \subseteq Chain[tip']
    PROVE  History'
<1>1. Known' = Known
  BY DEF Known
<1>2. \A b \in Known' \cup {tip', disk'.tip} : Chain[b] \cap Announcing \subseteq Known' \cup {Genesis}
  BY <1>1 DEF History
<1> QED
  BY <1>1, <1>2 DEF History

\* A block that announces nothing leaves the history alone, and so does one whose
\* announcement is stored.
LEMMA RecordedBefore ==
    ASSUME History, NEW b \in Blocks \ {Genesis}, b \notin Announcing \/ b \in Known
    PROVE  Recorded(xfieldHistory, b) = xfieldHistory /\ WriteXField(b) = xfieldDB
<1>1. CASE b \notin Announcing
  BY <1>1 DEF Announcing, Recorded, WriteXField, IsXFieldNew
<1>2. CASE b \in Known
  <2>1. PICK i \in 1..Len(xfieldDB) : xfieldDB[i].block = b
    BY <1>2 DEF Known
  <2>2. /\ xfieldDB[i] = XFieldChange(b) /\ xfieldHistory[i + 1] = XFieldChange(b)
        /\ i + 1 \in 1..Len(xfieldHistory)
    BY <2>1, HistoryFacts, SMT DEF History
  <2> QED
    BY <2>2 DEF Recorded, WriteXField, Add
<1> QED
  BY <1>1, <1>2

\* A new announcement is appended to the history and to the database.
LEMMA RecordedNew ==
    ASSUME Settled, Stored, History, NEW b \in Announcing \ {Genesis}, b \notin Known,
           Parent[b] = tip
    PROVE  /\ Recorded(xfieldHistory, b) = Append(xfieldHistory, XFieldChange(b))
           /\ WriteXField(b) = Append(xfieldDB, XFieldChange(b))
<1>1. Known \subseteq Chain[tip] /\ tip \in Blocks
  BY NewIsHighest DEF Stored
<1>2. Last(xfieldHistory).value = Signer(b)
  BY <1>1, LatestKey DEF History, Signer
<1>3. IsXFieldNew(xfieldHistory, b)
  BY <1>2 DEF IsXFieldNew, Settled, Announcing
<1>4. XFieldChange(b).block = b
  BY ChangeType
<1>5. \A i \in 1..Len(xfieldHistory) : xfieldHistory[i] # XFieldChange(b)
  BY <1>4, HistoryFacts, SMT
<1>6. \A i \in 1..Len(xfieldDB) : xfieldDB[i] # XFieldChange(b)
  BY <1>4 DEF Known
<1> QED
  BY <1>3, <1>5, <1>6 DEF Recorded, WriteXField, Add

\* Connecting a block records what it announces.
LEMMA ConnectStep ==
    ASSUME Settled, Stored, History, NEW b \in Blocks \ {Genesis}, Parent[b] = tip, tip' = b,
           xfieldHistory' = Recorded(xfieldHistory, b), xfieldDB' = WriteXField(b),
           UNCHANGED <<disk, crashes>>
    PROVE  History'
<1>1. Chain[b] = Chain[tip] \cup {b} /\ tip \in Blocks
  BY ParentOf
<1>2. CASE b \notin Announcing \/ b \in Known
  <2>1. UNCHANGED <<xfieldHistory, xfieldDB>>
    BY <1>2, RecordedBefore
  <2>2. Chain[b] \cap Announcing \subseteq Known \cup {Genesis}
    BY <1>1, <1>2 DEF History
  <2>3. Chain[disk'.tip] \cap Announcing \subseteq Known \cup {Genesis}
    BY DEF History
  <2>4. crashes' = 0 => Known \subseteq Chain[b]
    BY <1>1 DEF History
  <2> QED
    BY <2>1, <2>2, <2>3, <2>4, HistoryKept
<1>3. CASE b \in Announcing \ Known
  <2> DEFINE x == XFieldChange(b)
             n == Len(xfieldDB)
  <2>1. x \in Changes /\ x.block = b /\ x = XFieldChange(x.block)
    BY <1>3, ChangeType
  <2>2. xfieldHistory' = Append(xfieldHistory, x) /\ xfieldDB' = Append(xfieldDB, x)
    BY <1>3, RecordedNew
  <2> HIDE DEF x
  <2>3. /\ n \in Nat /\ Len(xfieldHistory) = n + 1 /\ xfieldHistory[1] = GenesisChange
        /\ xfieldHistory \in Seq(Changes) /\ xfieldDB \in Seq(Changes)
        /\ \A i \in 1..n : xfieldHistory[i + 1] = xfieldDB[i]
    BY SMT DEF History
  <2>4. /\ xfieldHistory' \in Seq(Changes) /\ Len(xfieldHistory') = n + 2
        /\ \A i \in 1..(n + 1) : xfieldHistory'[i] = xfieldHistory[i]
        /\ xfieldHistory'[n + 2] = x
    BY <2>1, <2>2, <2>3, AppendProperties, SMT
  <2>5. /\ xfieldDB' \in Seq(Changes) /\ Len(xfieldDB') = n + 1
        /\ \A i \in 1..n : xfieldDB'[i] = xfieldDB[i]
        /\ xfieldDB'[n + 1] = x
    BY <2>1, <2>2, <2>3, AppendProperties, SMT
  <2>6. Known' = Known \cup {b}
    <3>1. \A i \in 1..(n + 1) : i \in 1..n \/ i = n + 1
      BY <2>3, SMT
    <3>2. n + 1 \in 1..(n + 1) /\ \A i \in 1..n : i \in 1..(n + 1)
      BY <2>3, SMT
    <3> QED
      BY <2>1, <2>5, <3>1, <3>2, SMT DEF Known
  <2>7. ASSUME NEW i \in 1..(n + 1)
        PROVE  /\ xfieldHistory'[i + 1] = xfieldDB'[i]
               /\ xfieldDB'[i].block \in Announcing \ {Genesis}
               /\ xfieldDB'[i] = XFieldChange(xfieldDB'[i].block)
    <3>1. CASE i \in 1..n
      BY <2>3, <2>4, <2>5, <3>1, SMT DEF History
    <3>2. CASE i = n + 1
      <4>1. xfieldHistory'[i + 1] = x
        BY <2>3, <2>4, <3>2, SMT
      <4> QED
        BY <1>3, <2>1, <2>5, <3>2, <4>1
    <3> QED
      BY <2>3, <3>1, <3>2, SMT
  <2>8. ASSUME NEW i \in 1..(n + 1), NEW j \in 1..(n + 1), i < j
        PROVE  nHeight[xfieldDB'[i].block] < nHeight[xfieldDB'[j].block]
    <3>1. i \in 1..n /\ xfieldDB'[i] = xfieldDB[i] /\ xfieldDB[i].block \in Known
      BY <2>3, <2>5, <2>8, SMT DEF Known
    <3>2. CASE j \in 1..n
      BY <2>5, <2>8, <3>1, <3>2 DEF History
    <3>3. CASE j = n + 1
      BY <1>3, <2>1, <2>5, <3>1, <3>3, NewIsHighest
    <3> QED
      BY <2>3, <3>2, <3>3, SMT
  <2>9. \A c \in Known' \cup {tip', disk'.tip} : Chain[c] \cap Announcing \subseteq Known' \cup {Genesis}
    BY <1>1, <2>6 DEF History
  <2>10. Known' \subseteq Chain[tip']
    BY <1>1, <1>3, <2>6, NewIsHighest
  <2>11. xfieldHistory'[1] = GenesisChange
    BY <2>3, <2>4, SMT
  <2>12. Len(xfieldHistory') = Len(xfieldDB') + 1
    BY <2>3, <2>4, <2>5, SMT
  <2> QED
    BY <2>4, <2>5, <2>7, <2>8, <2>9, <2>10, <2>11, <2>12 DEF History
<1> QED
  BY <1>2, <1>3

\* What the node reads at a start is the history it had.
LEMMA ReadIsHistory == ASSUME History PROVE ReadXFields(xfieldDB) = xfieldHistory
<1> DEFINE n == Len(xfieldDB)
           list == ReadXFields(xfieldDB)
<1>1. /\ xfieldDB \in Seq(Changes) /\ xfieldHistory \in Seq(Changes) /\ n \in Nat
      /\ Len(xfieldHistory) = n + 1 /\ xfieldHistory[1] = GenesisChange
      /\ \A i \in 1..n : xfieldHistory[i + 1] = xfieldDB[i]
  BY SMT DEF History
<1>2. \A i \in 1..n : xfieldDB[i] # GenesisChange
  BY ChangeType, SMT DEF History
<1>3. ASSUME NEW i \in 1..n, NEW j \in 1..n, i # j PROVE xfieldDB[i] # xfieldDB[j]
  <2>1. i < j \/ j < i
    BY <1>1, <1>3, SMT
  <2>2. nHeight[xfieldDB[i].block] \in Nat /\ nHeight[xfieldDB[j].block] \in Nat
    BY HeightOf DEF History, Announcing
  <2> QED
    BY <2>1, <2>2, SMT DEF History
<1>4. /\ list \in Seq(Changes) /\ Len(list) = n + 1 /\ list[1] = GenesisChange
      /\ \A i \in 1..n : list[i + 1] = xfieldDB[i]
  BY <1>1, <1>2, <1>3, ChangeType, ReadBack
<1> HIDE DEF list
<1>5. ASSUME NEW i \in 1..(n + 1) PROVE list[i] = xfieldHistory[i]
  <2>1. CASE i = 1
    BY <1>1, <1>4, <2>1
  <2>2. CASE i # 1
    <3> DEFINE j == i - 1
    <3>1. j \in 1..n /\ i = j + 1
      BY <1>1, <2>2, SMT
    <3> HIDE DEF j
    <3> QED
      BY <1>1, <1>4, <3>1
  <2> QED
    BY <2>1, <2>2
<1>6. list = xfieldHistory
  BY <1>1, <1>4, <1>5, SeqEqual
<1> QED
  BY <1>6 DEF list

\* The inductive invariant.
IInv == Stored /\ History /\ aborted = FALSE

\* Every key that is needed below the tip, or just above it, is found.
LEMMA KeysFound == ASSUME Settled, IInv PROVE KeyByHeight
<1> SUFFICES ASSUME NEW b \in Blocks \ {Genesis}, b \in Chain[tip] \/ Parent[b] = tip
             PROVE  ProofOk(b)
  BY DEF KeyByHeight
<1>1. tip \in Blocks /\ Chain[tip] \cap Announcing \subseteq Known \cup {Genesis}
  BY DEF IInv, Stored, History
<1>2. Chain[Parent[b]] \subseteq Chain[tip]
  BY <1>1, ChainClosed, ChainTransitive
<1> QED
  BY <1>1, <1>2, KeyFound DEF IInv

\* The invariant holds at the start.
LEMMA Starts == ASSUME Init PROVE IInv
<1>1. Stored
  BY TreeAssumption, ChainOf DEF Init, Stored
<1>2. xfieldDB = <<>> /\ Len(xfieldDB) = 0 /\ 1..Len(xfieldDB) = {}
  BY SMT DEF Init
<1>3. Known = {}
  BY <1>2 DEF Known
<1>4. xfieldDB \in Seq(Changes)
  BY <1>2, SMT
<1>5. xfieldHistory = <<GenesisChange>> /\ GenesisChange \in Changes
  BY ChangeType DEF Init
<1>6. xfieldHistory \in Seq(Changes) /\ Len(xfieldHistory) = 1 /\ xfieldHistory[1] = GenesisChange
  BY <1>5, SMT
<1>7. \A b \in Known \cup {tip, disk.tip} : Chain[b] \cap Announcing \subseteq Known \cup {Genesis}
  BY <1>3, ChainOf DEF Init
<1>8. History
  BY <1>2, <1>3, <1>4, <1>6, <1>7, SMT DEF History
<1> QED
  BY <1>1, <1>8 DEF IInv, Init

\* Every step keeps the invariant.
LEMMA Steps == ASSUME Settled, IInv, [Next]_vars PROVE IInv'
<1>1. Stored /\ History /\ aborted = FALSE /\ tip \in Blocks /\ KeyByHeight
  BY KeysFound DEF IInv, Stored
<1>2. Stored'
  BY <1>1, StoredStep
<1>3. /\ Chain[tip] \cap Announcing \subseteq Known \cup {Genesis}
      /\ Chain[disk.tip] \cap Announcing \subseteq Known \cup {Genesis}
      /\ crashes = 0 => Known \subseteq Chain[tip]
  BY <1>1 DEF History
<1>4. ASSUME UNCHANGED <<tip, xfieldHistory, xfieldDB, disk, crashes, aborted>> PROVE IInv'
  <2>1. History'
    BY <1>1, <1>3, <1>4, HistoryKept
  <2> QED
    BY <1>1, <1>2, <1>4, <2>1 DEF IInv
<1>5. ASSUME NEW b \in Blocks \ {Genesis}, ConnectTip(b) PROVE IInv'
  <2>1. Parent[b] = tip /\ UNCHANGED <<disk, crashes>>
    BY <1>5 DEF ConnectTip
  <2>2. ProofOk(b)
    BY <1>1, <2>1 DEF KeyByHeight
  <2>3. /\ tip' = b /\ xfieldHistory' = Recorded(xfieldHistory, b)
        /\ xfieldDB' = WriteXField(b) /\ UNCHANGED aborted
    BY <1>5, <2>2 DEF ConnectTip
  <2>4. History'
    BY <1>1, <2>1, <2>3, ConnectStep
  <2> QED
    BY <1>1, <1>2, <2>3, <2>4 DEF IInv
<1>6. ASSUME DisconnectTip PROVE IInv'
  <2>1. PICK best \in MostWork : nHeight[best] > nHeight[tip] /\ tip \notin Chain[best]
    BY <1>6 DEF DisconnectTip
  <2>2. best \in Blocks
    BY <1>1, <2>1 DEF MostWork, Stored
  <2>3. tip \in Blocks \ {Genesis} /\ tip \notin Announcing
    BY <1>1, <2>1, <2>2, GenesisInChain DEF Settled
  <2>4. ProofOk(tip)
    BY <1>1, <2>3, ChainOf DEF KeyByHeight
  <2>5. tip' = Parent[tip] /\ UNCHANGED <<xfieldHistory, xfieldDB, disk, crashes, aborted>>
    BY <1>6, <2>4 DEF DisconnectTip
  <2>6. Chain[tip] = Chain[Parent[tip]] \cup {tip}
    BY <2>3, ParentOf
  <2>7. tip \notin Known
    BY <1>1, <2>3, HistoryFacts
  <2>8. History'
    BY <1>1, <1>3, <2>5, <2>6, <2>7, HistoryKept
  <2> QED
    BY <1>1, <1>2, <2>5, <2>8 DEF IInv
<1>7. ASSUME Restart PROVE IInv'
  <2>1. UNCHANGED <<xfieldHistory, xfieldDB, disk>> /\ tip' = disk.tip
    BY <1>1, <1>7, ReadIsHistory DEF Restart
  <2>2. crashes' # 0
    BY <1>1, <1>7, SMT DEF Restart, Stored
  <2>3. History'
    BY <1>1, <1>3, <2>1, <2>2, HistoryKept
  <2>4. aborted' = FALSE
    BY <1>7 DEF Restart
  <2> QED
    BY <1>2, <2>3, <2>4 DEF IInv
<1>8. ASSUME NEW full \in BOOLEAN, FlushStateToDisk(full) PROVE IInv'
  <2>1. /\ disk'.tip \in {tip, disk.tip}
        /\ UNCHANGED <<tip, xfieldHistory, xfieldDB, crashes, aborted>>
    BY <1>8 DEF FlushStateToDisk
  <2>2. History'
    BY <1>1, <1>3, <2>1, HistoryKept
  <2> QED
    BY <1>1, <1>2, <2>1, <2>2 DEF IInv
<1>9. ASSUME NEW msg \in HeaderMessages, ProcessNewBlockHeaders(msg) PROVE IInv'
  BY <1>4, <1>9 DEF ProcessNewBlockHeaders
<1>10. ASSUME NEW b \in Blocks \ {Genesis}, ProcessNewBlock(b) PROVE IInv'
  BY <1>4, <1>10 DEF ProcessNewBlock
<1>11. CASE UNCHANGED vars
  BY <1>4, <1>11 DEF vars
<1> QED
  BY <1>5, <1>6, <1>7, <1>8, <1>9, <1>10, <1>11 DEF Next

-----------------------------------------------------------------------------
(* What the invariant gives.                                               *)

\* The invariant holds in every reachable state.
LEMMA Invariant == ASSUME Settled PROVE Spec => []IInv
<1>1. Init => IInv
  BY Starts
<1>2. IInv /\ [Next]_vars => IInv'
  BY Steps
<1> QED
  BY <1>1, <1>2, PTL DEF Spec

\* The block index, the chain and the history keep their types, and the flushed tip is a
\* block whose data and index entry are flushed too.
THEOREM TypeCorrect == ASSUME Settled PROVE Spec => []TypeOK
<1>1. IInv => TypeOK
  <2> SUFFICES ASSUME IInv PROVE TypeOK
    OBVIOUS
  <2>1. Stored /\ History /\ aborted = FALSE
    BY DEF IInv
  <2>2. xfieldHistory # <<>>
    BY <2>1, HistoryFacts
  <2>3. aborted \in BOOLEAN
    BY <2>1
  <2> QED
    BY <2>1, <2>2, <2>3 DEF TypeOK, Stored, History
<1> QED
  BY <1>1, Invariant, PTL

\* The key read by the height of a block of the active chain, or of the next one, is the key
\* the block is signed with.
THEOREM KeyIsByHeight == ASSUME Settled PROVE Spec => []KeyByHeight
<1>1. IInv => KeyByHeight
  BY KeysFound
<1> QED
  BY <1>1, Invariant, PTL

\* Every change of the active chain is in the history and in the database.
THEOREM ChangesAreStored == ASSUME Settled PROVE Spec => []ChangesStored
<1>1. ASSUME IInv PROVE ChangesStored
  <2> SUFFICES ASSUME NEW b \in Chain[tip] \ {Genesis}, XField[b] # NoChange
               PROVE  /\ XFieldChange(b) \in ToSet(xfieldHistory)
                      /\ XFieldChange(b) \in ToSet(xfieldDB)
    BY DEF ChangesStored, ActiveChanges
  <2>1. Stored /\ History
    BY <1>1 DEF IInv
  <2>2. b \in Known
    BY <2>1, ChainBounded DEF Stored, History, Announcing
  <2>3. PICK i \in 1..Len(xfieldDB) : xfieldDB[i].block = b
    BY <2>2 DEF Known
  <2>4. /\ xfieldDB[i] = XFieldChange(b) /\ xfieldHistory[i + 1] = XFieldChange(b)
        /\ i + 1 \in 1..Len(xfieldHistory)
    BY <2>1, <2>3, HistoryFacts, SMT DEF History
  <2>5. DOMAIN xfieldDB = 1..Len(xfieldDB) /\ DOMAIN xfieldHistory = 1..Len(xfieldHistory)
    BY <2>1, SMT DEF History
  <2> QED
    BY <2>4, <2>5 DEF ToSet
<1>2. IInv => ChangesStored
  BY <1>1
<1> QED
  BY <1>2, Invariant, PTL

\* The history is in the order of its heights, also when it was read back.
THEOREM HistoryIsSorted == ASSUME Settled PROVE Spec => []HistorySorted
<1>1. ASSUME IInv PROVE HistorySorted
  <2>1. History /\ Len(xfieldHistory) \in Nat
    BY <1>1, HistoryFacts DEF IInv
  <2>2. Increasing(xfieldHistory)
    BY <2>1, HistoryIncreases
  <2> SUFFICES ASSUME NEW i \in 2..Len(xfieldHistory)
               PROVE  xfieldHistory[i - 1].height < xfieldHistory[i].height
    BY DEF HistorySorted
  <2>3. i - 1 \in 1..Len(xfieldHistory) /\ i \in 1..Len(xfieldHistory) /\ i - 1 < i
    BY <2>1, SMT
  <2> QED
    BY <2>2, <2>3 DEF Increasing
<1>2. IInv => HistorySorted
  BY <1>1
<1> QED
  BY <1>2, Invariant, PTL

\* No block fails its proof check when it is read from disk to be connected or disconnected.
THEOREM NodeNeverAborts == ASSUME Settled PROVE Spec => []NeverAborts
<1>1. IInv => NeverAborts
  BY DEF IInv, NeverAborts
<1> QED
  BY <1>1, Invariant, PTL

\* Without a crash the header after the tip passes the check against the latest key.
THEOREM NextHeaderIsAccepted == ASSUME Settled PROVE Spec => []NextHeaderAccepted
<1>1. ASSUME IInv PROVE NextHeaderAccepted
  <2>1. History /\ tip \in Blocks
    BY <1>1 DEF IInv, Stored
  <2>2. crashes = 0 => Last(xfieldHistory).value = KeyAfter[tip]
    BY <2>1, LatestKey DEF History
  <2> QED
    BY <2>2 DEF NextHeaderAccepted, GetLatest, Signer
<1>2. IInv => NextHeaderAccepted
  BY <1>1
<1> QED
  BY <1>2, Invariant, PTL

-----------------------------------------------------------------------------
(* Restarts and reorganisations do not change what the history answers.    *)

\* A node that stopped now would read back just the history that it has in memory.
ReadBackSame == ReadXFields(xfieldDB) = xfieldHistory

\* What the history answers for a height that it has a change at, or that is below one, it
\* will answer always.
AnswersStay ==
    \A h \in 0..Last(xfieldHistory).height : Get(xfieldHistory', h) = Get(xfieldHistory, h)

\* A crash at any moment, with whatever part of the chain flushed, loses no key and invents
\* none: WriteXField is the only write, and Add drops nothing when the entries are read.
THEOREM HistorySurvives == ASSUME Settled PROVE Spec => []ReadBackSame
<1>1. IInv => ReadBackSame
  BY ReadIsHistory DEF IInv, ReadBackSame
<1> QED
  BY <1>1, Invariant, PTL

\* A step leaves the history as it is or adds one change to it.
LEMMA HistoryExtends ==
    ASSUME IInv, [Next]_vars
    PROVE  \/ xfieldHistory' = xfieldHistory
           \/ \E b \in Blocks : xfieldHistory' = Append(xfieldHistory, XFieldChange(b))
<1>1. ASSUME NEW b \in Blocks, xfieldHistory' = Recorded(xfieldHistory, b)
      PROVE  \/ xfieldHistory' = xfieldHistory
             \/ xfieldHistory' = Append(xfieldHistory, XFieldChange(b))
  BY <1>1 DEF Recorded, Add
<1>2. ASSUME NEW b \in Blocks, ConnectTip(b)
      PROVE  xfieldHistory' = Recorded(xfieldHistory, b) \/ xfieldHistory' = xfieldHistory
  BY <1>2 DEF ConnectTip
<1>3. CASE Restart
  BY <1>3, ReadIsHistory DEF Restart, IInv
<1>4. CASE \/ \E msg \in HeaderMessages : ProcessNewBlockHeaders(msg)
           \/ \E b \in Blocks \ {Genesis} : ProcessNewBlock(b)
           \/ DisconnectTip
           \/ \E full \in BOOLEAN : FlushStateToDisk(full)
           \/ UNCHANGED vars
  BY <1>4 DEF ProcessNewBlockHeaders, ProcessNewBlock, DisconnectTip, FlushStateToDisk, vars
<1> QED
  BY <1>1, <1>2, <1>3, <1>4 DEF Next

\* A change above all others does not change what is found below it.
LEMMA GetStays ==
    ASSUME NEW list, NEW c, Increasing(list), Increasing(Append(list, c)), list[1].height = 0,
           NEW h \in Nat, h <= Last(list).height
    PROVE  Get(Append(list, c), h) = Get(list, h)
<1> DEFINE n == Len(list)
           more == Append(list, c)
           at == {i \in 1..n : list[i].height <= h}
           m == Max(at)
<1>1. /\ n \in Nat \ {0} /\ Len(more) = n + 1 /\ \A i \in 1..n : more[i] = list[i]
      /\ Last(list) = list[n]
  BY SMT DEF Increasing, Last
<1>2. CASE h = 0
  <2>1. Get(list, h) = list[1] /\ Get(more, h) = more[1]
    BY <1>2 DEF Get
  <2>2. 1 \in 1..n
    BY <1>1, SMT
  <2> QED
    BY <1>1, <2>1, <2>2
<1>3. CASE h # 0
  <2>0. h \in Nat \ {0} /\ 1 \in at
    BY <1>1, <1>3, SMT
  <2>1. m \in 1..n /\ list[m].height <= h /\ \A i \in 1..n : list[i].height <= h => i <= m
    <3>1. at \in SUBSET (1..n) /\ at # {} /\ n \in Nat
      BY <1>1, <2>0
    <3>2. Max(at) \in at /\ \A y \in at : y <= Max(at)
      BY <3>1, MaxOf
    <3> QED
      BY <3>2
  <2> HIDE DEF m, at
  <2>2. Get(list, h) = list[m]
    BY <2>0, <2>1, GetIs
  <2>3. m \in 1..Len(more) /\ more[m] = list[m] /\ n \in 1..Len(more) /\ n + 1 \in 1..Len(more)
    BY <1>1, <2>1, SMT
  <2>4. ~(more[n + 1].height <= h)
    <3>1. more[n].height < more[n + 1].height /\ more[n] = list[n]
      BY <1>1, <2>3, SMT DEF Increasing
    <3>2. more[n + 1] \in Changes /\ list[n] \in Changes
      BY <1>1, <2>3, SMT DEF Increasing
    <3>3. more[n + 1].height \in Nat /\ list[n].height \in Nat
      BY <3>2 DEF Changes
    <3> QED
      BY <1>1, <3>1, <3>3, SMT
  <2>5. \A i \in 1..Len(more) : i = n + 1 \/ i \in 1..n
    BY <1>1, SMT
  <2>6. \A i \in 1..Len(more) : more[i].height <= h => i <= m
    BY <1>1, <2>1, <2>4, <2>5
  <2>7. Get(more, h) = more[m]
    BY <2>0, <2>1, <2>3, <2>6, GetIs
  <2> QED
    BY <2>2, <2>3, <2>7
<1> QED
  BY <1>2, <1>3

\* The key of a block does not change once it was looked up on a chain with a later change:
\* neither a reorganisation, nor a change that is announced or connected again, nor a restart.
THEOREM KeysAreFinal == ASSUME Settled PROVE Spec => [][AnswersStay]_vars
<1>0. IInv => Increasing(xfieldHistory)
  BY HistoryIncreases DEF IInv
<1>1. ASSUME IInv, Increasing(xfieldHistory), Increasing(xfieldHistory)', [Next]_vars
      PROVE  AnswersStay
  <2>1. CASE xfieldHistory' = xfieldHistory
    BY <2>1 DEF AnswersStay
  <2>2. ASSUME NEW c, xfieldHistory' = Append(xfieldHistory, c) PROVE AnswersStay
    <3>1. Increasing(xfieldHistory) /\ xfieldHistory[1].height = 0
      BY <1>1, SMT DEF IInv, History, GenesisChange
    <3>2. Increasing(Append(xfieldHistory, c))
      BY <1>1, <2>2 DEF Increasing
    <3>3. Last(xfieldHistory).height \in Nat
      <4>1. Last(xfieldHistory) \in Changes
        BY <3>1, SMT DEF Increasing, Last
      <4> QED
        BY <4>1 DEF Changes
    <3>4. \A h \in 0..Last(xfieldHistory).height : h \in Nat /\ h <= Last(xfieldHistory).height
      BY <3>3, SMT
    <3> QED
      BY <2>2, <3>1, <3>2, <3>4, GetStays DEF AnswersStay
  <2> QED
    BY <1>1, <2>1, <2>2, HistoryExtends
<1> QED
  BY <1>0, <1>1, Invariant, PTL DEF Spec
=============================================================================
