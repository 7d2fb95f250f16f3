--------------------------- MODULE RecoveryProofs ---------------------------
(***************************************************************************)
(* Proofs about the coin database across crashes, for any tree of blocks   *)
(* and any number of crashes.                                              *)
(*                                                                         *)
(* Placed says where the blocks that a start needs are kept; from it the   *)
(* node can always start again.  Exact says what the coins are, in the     *)
(* database and in the view.  It rests on what undoing and replaying       *)
(* blocks computes: a block overwrites the coins of its outpoints, and     *)
(* undoing it puts them back, whatever they were before (ApplyIs, UndoIs), *)
(* so that a replay is right from any mixture of two versions (ReplayIs).  *)
(* From the two it follows that batches and replay are an atomic flush.    *)
(***************************************************************************)
EXTENDS Recovery, BlockTreeProofs

\* The leaves are first-order; those that need arithmetic cite SMT.
USE Zenon

-----------------------------------------------------------------------------
(* What a block does to the coins, outpoint by outpoint: the last one to   *)
(* write a coin decides, whatever was there before.                        *)

\* Max of a set of indices
LEMMA MaxOf ==
    \A n \in Nat : \A s \in SUBSET (1..n) :
        s # {} => Max(s) \in s /\ \A y \in s : y <= Max(s)
<1> SUFFICES ASSUME NEW n \in Nat, NEW s \in SUBSET (1..n), s # {}
             PROVE  Max(s) \in s /\ \A y \in s : y <= Max(s)
  OBVIOUS
<1>1. \A y \in s : y \in Int
  BY SMT
<1>2. \E x \in s : \A y \in s : y <= x
  BY GreatestOf
<1>3. \E x \in s : \A y \in s : x >= y
  BY <1>1, <1>2
<1>4. Max(s) \in s /\ \A y \in s : Max(s) >= y
  BY <1>3 DEF Max
<1> QED
  BY <1>1, <1>4

\* The largest of the first n indices.
LEMMA MaxOfFirst ==
    ASSUME NEW n \in Nat \ {0}
    PROVE  Max(1..n) = n /\ (1..n) \ {n} = 1..(n - 1) /\ 1..n # {}
<1>1. 1..n \in SUBSET (1..n) /\ n \in 1..n
  BY SMT
<1>2. Max(1..n) \in 1..n /\ n <= Max(1..n)
  BY <1>1, MaxOf
<1> QED
  BY <1>1, <1>2, SMT

\* A transaction, applied or undone, writes what v says to the outpoints of T.
Over(m, T, v) == [o \in Outpoints |-> IF o \in T THEN v[o] ELSE m[o]]

OverTo(g, base, T, v, s) ==
    IF s = {} THEN base ELSE Over(g[s \ {Max(s)}], T[Max(s)], v[Max(s)])

IsOver(g, base, T, v, n) == g = [s \in SUBSET (1..n) |-> OverTo(g, base, T, v, s)]

\* A sequence of writes has its equation.
LEMMA OverExists ==
    ASSUME NEW base, NEW T, NEW v
    PROVE  \A n \in Nat : \E g : IsOver(g, base, T, v, n)
<1> DEFINE S == {n \in Nat : \E g : IsOver(g, base, T, v, n)}
<1>1. 0 \in S
  <2> DEFINE g == [s \in SUBSET (1..0) |-> base]
  <2>1. \A s \in SUBSET (1..0) : s = {}
    <3>1. 1..0 = {}
      BY SMT
    <3> QED
      BY <3>1
  <2>2. IsOver(g, base, T, v, 0)
    BY <2>1 DEF IsOver, OverTo
  <2> QED
    BY <2>2
<1>2. ASSUME NEW n \in Nat, n \in S PROVE n + 1 \in S
  <2>1. PICK g : IsOver(g, base, T, v, n)
    BY <1>2
  <2> DEFINE h == [s \in SUBSET (1..(n + 1)) |->
                      IF n + 1 \in s THEN Over(g[s \ {n + 1}], T[n + 1], v[n + 1]) ELSE g[s]]
  <2>2. ASSUME NEW s \in SUBSET (1..n) PROVE h[s] = g[s] /\ s \in SUBSET (1..(n + 1))
    BY <2>2, SMT
  <2>3. ASSUME NEW s \in SUBSET (1..(n + 1)) PROVE h[s] = OverTo(h, base, T, v, s)
    <3>1. CASE n + 1 \in s
      <4>1. n + 1 \in Nat /\ s # {}
        BY <3>1, SMT
      <4>2. Max(s) = n + 1
        <5>1. Max(s) \in s /\ n + 1 <= Max(s)
          BY <3>1, <4>1, MaxOf
        <5>2. Max(s) \in 1..(n + 1)
          BY <5>1
        <5> QED
          BY <5>1, <5>2, SMT
      <4>3. s \ {n + 1} \in SUBSET (1..n)
        BY SMT
      <4>4. h[s] = Over(g[s \ {n + 1}], T[n + 1], v[n + 1])
        BY <3>1
      <4>5. h[s \ {n + 1}] = g[s \ {n + 1}]
        BY <2>2, <4>3
      <4> HIDE DEF h
      <4> QED
        BY <3>1, <4>2, <4>4, <4>5 DEF OverTo
    <3>2. CASE n + 1 \notin s
      <4>1. s \in SUBSET (1..n)
        BY <3>2, SMT
      <4>2. g[s] = OverTo(g, base, T, v, s)
        BY <2>1, <4>1 DEF IsOver
      <4>3. h[s] = g[s] /\ h[s \ {Max(s)}] = g[s \ {Max(s)}]
        BY <2>2, <4>1
      <4> HIDE DEF h
      <4> QED
        BY <4>2, <4>3 DEF OverTo
    <3> QED
      BY <3>1, <3>2
  <2>4. IsOver(h, base, T, v, n + 1)
    BY <2>3 DEF IsOver
  <2> HIDE DEF h
  <2>5. n + 1 \in Nat
    BY SMT
  <2> QED
    BY <2>4, <2>5
<1>3. Nat \subseteq S
  BY <1>1, <1>2, NatSteps
<1> QED
  BY <1>3

\* The last write wins, and what nobody writes stays.
LastWrite(m, base, T, v, k) ==
    /\ m \in Coins
    /\ \A o \in Outpoints :
          /\ (\A j \in 1..k : o \notin T[j]) => m[o] = base[o]
          /\ \A i \in 1..k : o \in T[i] /\ (\A j \in (i + 1)..k : o \notin T[j]) => m[o] = v[i][o]

\* One more write.
LEMMA LastWriteStep ==
    ASSUME NEW T, NEW v, NEW base, NEW m, NEW k \in Nat, LastWrite(m, base, T, v, k),
           \A o \in Outpoints : v[k + 1][o] \in Nat \cup {Spent}
    PROVE  LastWrite(Over(m, T[k + 1], v[k + 1]), base, T, v, k + 1)
<1> DEFINE w == Over(m, T[k + 1], v[k + 1])
<1>1. \A o \in Outpoints : w[o] = IF o \in T[k + 1] THEN v[k + 1][o] ELSE m[o]
  BY DEF Over
<1>2. w \in Coins
  <2>1. \A o \in Outpoints : m[o] \in Nat \cup {Spent}
    BY DEF LastWrite, Coins
  <2>2. \A o \in Outpoints : w[o] \in Nat \cup {Spent}
    BY <1>1, <2>1
  <2>3. w = [o \in Outpoints |-> w[o]]
    BY DEF Over
  <2> HIDE DEF w
  <2> QED
    BY <2>2, <2>3 DEF Coins
<1> HIDE DEF w
<1>3. ASSUME NEW o \in Outpoints, \A j \in 1..(k + 1) : o \notin T[j] PROVE w[o] = base[o]
  <2>1. k + 1 \in 1..(k + 1) /\ \A j \in 1..k : j \in 1..(k + 1)
    BY SMT
  <2>2. w[o] = m[o] /\ \A j \in 1..k : o \notin T[j]
    BY <1>1, <1>3, <2>1
  <2> QED
    BY <2>2 DEF LastWrite
<1>4. ASSUME NEW o \in Outpoints, NEW i \in 1..(k + 1), o \in T[i],
             \A j \in (i + 1)..(k + 1) : o \notin T[j]
      PROVE  w[o] = v[i][o]
  <2>1. CASE i = k + 1
    BY <1>1, <1>4, <2>1
  <2>2. CASE i # k + 1
    <3>1. i \in 1..k /\ k + 1 \in (i + 1)..(k + 1) /\ \A j \in (i + 1)..k : j \in (i + 1)..(k + 1)
      BY <2>2, SMT
    <3>2. w[o] = m[o] /\ \A j \in (i + 1)..k : o \notin T[j]
      BY <1>1, <1>4, <3>1
    <3> QED
      BY <1>4, <3>1, <3>2 DEF LastWrite
  <2> QED
    BY <2>1, <2>2
<1>5. LastWrite(w, base, T, v, k + 1)
  BY <1>2, <1>3, <1>4 DEF LastWrite
<1> QED
  BY <1>5 DEF w

\* All of them.
LEMMA LastWriteWins ==
    ASSUME NEW n \in Nat, NEW T, NEW v, NEW base \in Coins, NEW g,
           \A i \in 1..n : \A o \in Outpoints : v[i][o] \in Nat \cup {Spent},
           IsOver(g, base, T, v, n)
    PROVE  LastWrite(g[1..n], base, T, v, n)
<1> DEFINE S == {k \in Nat : k <= n => LastWrite(g[1..k], base, T, v, k)}
<1>1. 0 \in S
  <2>1. 1..0 = {} /\ {} \in SUBSET (1..n)
    BY SMT
  <2>2. g[{}] = base
    BY <2>1 DEF IsOver, OverTo
  <2>3. LastWrite(base, base, T, v, 0)
    BY <2>1 DEF LastWrite
  <2> QED
    BY <2>1, <2>2, <2>3
<1>2. ASSUME NEW k \in Nat, k \in S PROVE k + 1 \in S
  <2>0. k + 1 \in Nat
    BY SMT
  <2>1. SUFFICES ASSUME k + 1 <= n PROVE LastWrite(g[1..(k + 1)], base, T, v, k + 1)
    BY <2>0
  <2>2. LastWrite(g[1..k], base, T, v, k)
    BY <1>2, <2>1, SMT
  <2>3. k + 1 \in Nat \ {0} /\ 1..(k + 1) \in SUBSET (1..n) /\ (k + 1) - 1 = k /\ k + 1 \in 1..n
    BY <2>1, SMT
  <2>4. Max(1..(k + 1)) = k + 1 /\ (1..(k + 1)) \ {k + 1} = 1..k /\ 1..(k + 1) # {}
    BY <2>3, MaxOfFirst
  <2>5. g[1..(k + 1)] = OverTo(g, base, T, v, 1..(k + 1))
    BY <2>3 DEF IsOver
  <2>6. g[1..(k + 1)] = Over(g[1..k], T[k + 1], v[k + 1])
    BY <2>4, <2>5 DEF OverTo
  <2>7. \A o \in Outpoints : v[k + 1][o] \in Nat \cup {Spent}
    BY <2>3
  <2>8. LastWrite(Over(g[1..k], T[k + 1], v[k + 1]), base, T, v, k + 1)
    BY <2>2, <2>7, LastWriteStep
  <2> QED
    BY <2>6, <2>8
<1>3. n \in S
  BY <1>1, <1>2, NatSteps
<1> QED
  BY <1>3, SMT

\* The transactions of a block
LEMMA TxsOf ==
    ASSUME NEW b \in Blocks
    PROVE  /\ Len(Txs[b]) \in Nat /\ DOMAIN Txs[b] = 1..Len(Txs[b])
           /\ \A i \in 1..Len(Txs[b]) : /\ Txs[b][i].spends \subseteq Outpoints
                                        /\ Txs[b][i].creates \subseteq Outpoints
<1> DEFINE R == [spends : SUBSET Outpoints, creates : SUBSET Outpoints]
<1>1. Txs[b] \in Seq(R)
  BY TxAssumption
<1>2. Len(Txs[b]) \in Nat /\ DOMAIN Txs[b] = 1..Len(Txs[b])
  BY <1>1, SMT
<1>3. \A i \in 1..Len(Txs[b]) : Txs[b][i] \in R
  <2> HIDE DEF R
  <2> QED
    BY <1>1, SMT
<1> QED
  BY <1>2, <1>3

ApplyTo(g, base, b, s) ==
    IF s = {} THEN base
    ELSE Set(Set(g[s \ {Max(s)}], Txs[b][Max(s)].spends, Spent), Txs[b][Max(s)].creates, nHeight[b])

\* Apply: the last transaction with an outpoint decides.
LEMMA ApplyFacts ==
    ASSUME NEW b \in Blocks, NEW map \in Coins
    PROVE  /\ Apply(map, b) \in Coins
           /\ \A o \in Outpoints :
                 /\ (\A j \in 1..Len(Txs[b]) : o \notin Touched(Txs[b][j])) => Apply(map, b)[o] = map[o]
                 /\ \A i \in 1..Len(Txs[b]) :
                       /\ o \in Touched(Txs[b][i])
                       /\ \A j \in (i + 1)..Len(Txs[b]) : o \notin Touched(Txs[b][j])
                       => Apply(map, b)[o] = IF o \in Txs[b][i].creates THEN nHeight[b] ELSE Spent
<1> DEFINE n == Len(Txs[b])
           T == [i \in 1..n |-> Touched(Txs[b][i])]
           v == [i \in 1..n |-> [o \in Outpoints |->
                                    IF o \in Txs[b][i].creates THEN nHeight[b] ELSE Spent]]
           g == CHOOSE f : f = [s \in SUBSET (DOMAIN Txs[b]) |-> ApplyTo(f, map, b, s)]
<1>1. /\ n \in Nat /\ DOMAIN Txs[b] = 1..n
      /\ \A i \in 1..n : Txs[b][i].spends \in SUBSET Outpoints /\ Txs[b][i].creates \in SUBSET Outpoints
  BY TxsOf
<1>2. Apply(map, b) = g[DOMAIN Txs[b]]
  BY DEF Apply, FoldLeft, MapThenFoldSet, ApplyTo
<1> HIDE DEF n
<1>3. ASSUME NEW f, NEW s \in SUBSET (1..n) PROVE ApplyTo(f, map, b, s) = OverTo(f, map, T, v, s)
  <2>1. CASE s = {}
    BY <2>1 DEF ApplyTo, OverTo
  <2>2. CASE s # {}
    <3>1. Max(s) \in 1..n
      BY <1>1, <2>2, MaxOf
    <3>2. T[Max(s)] = Txs[b][Max(s)].spends \cup Txs[b][Max(s)].creates
      BY <3>1 DEF Touched
    <3>3. v[Max(s)] = [o \in Outpoints |->
                          IF o \in Txs[b][Max(s)].creates THEN nHeight[b] ELSE Spent]
      BY <3>1
    <3> DEFINE m == f[s \ {Max(s)}]
               tx == Txs[b][Max(s)]
    <3>4. tx.spends \in SUBSET Outpoints /\ tx.creates \in SUBSET Outpoints
      BY <1>1, <3>1
    <3> HIDE DEF T, v, m, tx
    <3>5. Set(Set(m, tx.spends, Spent), tx.creates, nHeight[b])
             = Over(m, tx.spends \cup tx.creates,
                    [o \in Outpoints |-> IF o \in tx.creates THEN nHeight[b] ELSE Spent])
      BY <3>4 DEF Set, Over
    <3>6. ApplyTo(f, map, b, s) = Set(Set(m, tx.spends, Spent), tx.creates, nHeight[b])
      BY <2>2 DEF ApplyTo, m, tx
    <3>7. OverTo(f, map, T, v, s) = Over(m, T[Max(s)], v[Max(s)])
      BY <2>2 DEF OverTo, m
    <3> QED
      BY <3>2, <3>3, <3>5, <3>6, <3>7 DEF tx
  <2> QED
    BY <2>1, <2>2
<1> HIDE DEF T, v
<1>4. g = [s \in SUBSET (1..n) |-> ApplyTo(g, map, b, s)]
  <2>1. PICK f : IsOver(f, map, T, v, n)
    BY <1>1, OverExists
  <2>2. f = [s \in SUBSET (1..n) |-> ApplyTo(f, map, b, s)]
    BY <1>3, <2>1 DEF IsOver
  <2> QED
    BY <1>1, <2>2
<1>5. IsOver(g, map, T, v, n)
  <2>1. \A s \in SUBSET (1..n) : ApplyTo(g, map, b, s) = OverTo(g, map, T, v, s)
    BY <1>3
  <2> HIDE DEF g
  <2>2. [s \in SUBSET (1..n) |-> ApplyTo(g, map, b, s)] = [s \in SUBSET (1..n) |-> OverTo(g, map, T, v, s)]
    BY <2>1
  <2> QED
    BY <1>4, <2>2 DEF IsOver
<1> HIDE DEF g
<1>6. \A i \in 1..n : \A o \in Outpoints : v[i][o] \in Nat \cup {Spent}
  BY HeightOf DEF v
<1>7. LastWrite(g[1..n], map, T, v, n)
  BY <1>1, <1>5, <1>6, LastWriteWins
<1>8. LastWrite(Apply(map, b), map, T, v, n)
  BY <1>1, <1>2, <1>7
<1>9. \A i \in 1..n : T[i] = Touched(Txs[b][i])
  BY DEF T
<1>10. \A i \in 1..n : \A o \in Outpoints :
          v[i][o] = IF o \in Txs[b][i].creates THEN nHeight[b] ELSE Spent
  BY DEF v
<1>11. ASSUME NEW o \in Outpoints, \A j \in 1..n : o \notin Touched(Txs[b][j])
       PROVE  Apply(map, b)[o] = map[o]
  BY <1>8, <1>9, <1>11 DEF LastWrite
<1>12. ASSUME NEW o \in Outpoints, NEW i \in 1..n, o \in Touched(Txs[b][i]),
              \A j \in (i + 1)..n : o \notin Touched(Txs[b][j])
       PROVE  Apply(map, b)[o] = IF o \in Txs[b][i].creates THEN nHeight[b] ELSE Spent
  <2>1. \A j \in (i + 1)..n : j \in 1..n
    BY <1>1, SMT
  <2>2. o \in T[i] /\ \A j \in (i + 1)..n : o \notin T[j]
    BY <1>9, <1>12, <2>1
  <2> QED
    BY <1>8, <1>10, <2>2, SMT DEF LastWrite
<1>13. Apply(map, b) \in Coins
  BY <1>8 DEF LastWrite
<1> QED
  BY <1>11, <1>12, <1>13 DEF n

\* Utxo is a solution of its equation, and the coins of a chain were made by its blocks.
LEMMA UtxoOf ==
    /\ Utxo[Genesis] = [o \in Outpoints |-> Spent]
    /\ \A b \in Blocks \ {Genesis} : Utxo[b] = Apply(Utxo[Parent[b]], b)
    /\ \A b \in Blocks : Utxo[b] \in Coins
<1> DEFINE u == [o \in Outpoints |-> Spent]
           G == [b \in Blocks |-> [m \in Coins |-> Apply(m, b)]]
<1>1. u \in Coins
  BY DEF Coins
<1>2. PICK f : IsUp(f, {Genesis}, u, G)
  <2> HIDE DEF u, G
  <2> QED
    BY UpExists, SMT
<1> DEFINE S == {b \in Blocks : f[b] \in Coins}
<1>3. Genesis \in S
  BY <1>1, <1>2, TreeAssumption DEF IsUp, Up
<1>4. ASSUME NEW b \in Blocks \ {Genesis}, Parent[b] \in S
      PROVE  b \in S /\ f[b] = Apply(f[Parent[b]], b)
  <2>1. f[b] = G[b][f[Parent[b]]]
    BY <1>2 DEF IsUp, Up
  <2>2. f[Parent[b]] \in Coins
    BY <1>4
  <2>3. f[b] = Apply(f[Parent[b]], b)
    BY <2>1, <2>2
  <2> QED
    BY <2>2, <2>3, ApplyFacts
<1>5. Blocks \subseteq S
  BY <1>3, <1>4, TreeInduction
<1>6. \A b \in Blocks : f[b] = IF b = Genesis THEN u ELSE Apply(f[Parent[b]], b)
  <2>1. \A b \in Blocks \ {Genesis} : Parent[b] \in S
    BY <1>5, TreeAssumption
  <2>2. f[Genesis] = u
    BY <1>2, TreeAssumption DEF IsUp, Up
  <2> QED
    BY <1>4, <2>1, <2>2
<1> HIDE DEF u
<1>7. f = [b \in Blocks |-> IF b = Genesis THEN u ELSE Apply(f[Parent[b]], b)]
  BY <1>2, <1>6 DEF IsUp
<1>8. Utxo = [b \in Blocks |-> IF b = Genesis THEN u ELSE Apply(Utxo[Parent[b]], b)]
  BY <1>7 DEF Utxo, u
<1>9. Utxo[Genesis] = u /\ \A b \in Blocks \ {Genesis} : Utxo[b] = Apply(Utxo[Parent[b]], b)
  BY <1>8, TreeAssumption
<1> DEFINE R == {b \in Blocks : Utxo[b] \in Coins}
<1>10. Genesis \in R
  BY <1>1, <1>9, TreeAssumption DEF u
<1>11. ASSUME NEW b \in Blocks \ {Genesis}, Parent[b] \in R PROVE b \in R
  BY <1>9, <1>11, ApplyFacts, SMT
<1>12. Blocks \subseteq R
  BY <1>10, <1>11, TreeInduction
<1> QED
  BY <1>9, <1>12 DEF u

\* The first and the last transaction of a block with an outpoint
FirstWith(b, o, i) == /\ i \in 1..Len(Txs[b]) /\ o \in Touched(Txs[b][i])
                      /\ \A j \in 1..(i - 1) : o \notin Touched(Txs[b][j])
LastWith(b, o, i) == /\ i \in 1..Len(Txs[b]) /\ o \in Touched(Txs[b][i])
                     /\ \A j \in (i + 1)..Len(Txs[b]) : o \notin Touched(Txs[b][j])
InBlock(b, o) == \E i \in 1..Len(Txs[b]) : o \in Touched(Txs[b][i])

\* There is a first and a last one.
LEMMA FirstAndLast ==
    ASSUME NEW b \in Blocks, NEW o, InBlock(b, o)
    PROVE  (\E i : FirstWith(b, o, i)) /\ (\E i : LastWith(b, o, i))
<1> DEFINE n == Len(Txs[b])
           s == {i \in 1..n : o \in Touched(Txs[b][i])}
<1>1. n \in Nat
  BY TxsOf
<1> HIDE DEF n
<1>2. s \in SUBSET (1..n) /\ s # {}
  BY DEF InBlock, n
<1>3. PICK x \in s : \A y \in s : x <= y
  <2>1. s \in SUBSET Nat
    BY <1>1, SMT
  <2> HIDE DEF s
  <2> QED
    BY <1>2, <2>1, LeastOf
<1>4. FirstWith(b, o, x)
  <2>1. ASSUME NEW j \in 1..(x - 1), o \in Touched(Txs[b][j]) PROVE FALSE
    <3>1. x \in 1..n
      OBVIOUS
    <3>2. j \in 1..n /\ ~(x <= j)
      <4> HIDE DEF s
      <4> QED
        BY <1>1, <3>1, SMT
    <3>3. j \in s
      BY <2>1, <3>2
    <3> QED
      BY <1>3, <3>2, <3>3
  <2> QED
    BY <1>3, <2>1 DEF FirstWith, n
<1>5. Max(s) \in s /\ \A y \in s : y <= Max(s)
  <2> HIDE DEF s
  <2> QED
    BY <1>1, <1>2, MaxOf
<1>6. LastWith(b, o, Max(s))
  <2> DEFINE l == Max(s)
  <2>1. l \in 1..n /\ o \in Touched(Txs[b][l])
    BY <1>5
  <2>2. ASSUME NEW j \in (l + 1)..n, o \in Touched(Txs[b][j]) PROVE FALSE
    <3>1. j \in s /\ j > l /\ j \in Int /\ l \in Int
      BY <1>1, <2>1, <2>2, SMT
    <3>2. j <= l
      BY <1>5, <3>1
    <3> HIDE DEF l
    <3> QED
      BY <3>1, <3>2, SMT
  <2> HIDE DEF l
  <2>3. LastWith(b, o, l)
    BY <2>1, <2>2 DEF LastWith, n
  <2> QED
    BY <2>3 DEF l
<1> QED
  BY <1>4, <1>6

\* A block overwrites the coins of its outpoints with those of its chain, whatever they were.
LEMMA ApplyIs ==
    ASSUME NEW b \in Blocks \ {Genesis}, NEW m \in Coins
    PROVE  /\ Apply(m, b) \in Coins
           /\ \A o \in Outpoints : Apply(m, b)[o] = IF InBlock(b, o) THEN Utxo[b][o] ELSE m[o]
<1>1. Utxo[Parent[b]] \in Coins /\ Utxo[b] = Apply(Utxo[Parent[b]], b)
  BY UtxoOf, TreeAssumption
<1>2. ASSUME NEW o \in Outpoints, InBlock(b, o) PROVE Apply(m, b)[o] = Utxo[b][o]
  <2>1. PICK i : LastWith(b, o, i)
    BY <1>2, FirstAndLast
  <2>2. ASSUME NEW q \in Coins
        PROVE  Apply(q, b)[o] = IF o \in Txs[b][i].creates THEN nHeight[b] ELSE Spent
    BY <2>1, ApplyFacts, SMT DEF LastWith
  <2> QED
    BY <1>1, <2>2
<1>3. ASSUME NEW o \in Outpoints, ~InBlock(b, o) PROVE Apply(m, b)[o] = m[o]
  BY <1>3, ApplyFacts, SMT DEF InBlock
<1>4. Apply(m, b) \in Coins
  BY ApplyFacts
<1> QED
  BY <1>2, <1>3, <1>4

\* A coin that is there was made by a block of the chain, at its height.
LEMMA MadeInChain ==
    \A b \in Blocks : \A o \in Outpoints :
        Utxo[b][o] # Spent => \E c \in Creators(b, o) : Utxo[b][o] = nHeight[c]
<1> DEFINE P(b) == \A o \in Outpoints :
                      Utxo[b][o] # Spent => \E c \in Creators(b, o) : Utxo[b][o] = nHeight[c]
           S == {b \in Blocks : P(b)}
<1>1. Genesis \in S
  BY UtxoOf, TreeAssumption
<1>2. ASSUME NEW b \in Blocks \ {Genesis}, Parent[b] \in S PROVE b \in S
  <2> SUFFICES ASSUME NEW o \in Outpoints, Utxo[b][o] # Spent
               PROVE  \E c \in Creators(b, o) : Utxo[b][o] = nHeight[c]
    OBVIOUS
  <2>1. /\ Parent[b] \in Blocks /\ Chain[b] = Chain[Parent[b]] \cup {b}
        /\ Utxo[Parent[b]] \in Coins /\ Utxo[b] = Apply(Utxo[Parent[b]], b)
    BY UtxoOf, ParentOf
  <2>2. CASE InBlock(b, o)
    <3>1. PICK i : LastWith(b, o, i)
      BY <2>2, FirstAndLast
    <3>2. Utxo[b][o] = IF o \in Txs[b][i].creates THEN nHeight[b] ELSE Spent
      BY <2>1, <3>1, ApplyFacts, SMT DEF LastWith
    <3>3. o \in Txs[b][i].creates /\ i \in 1..Len(Txs[b])
      BY <3>1, <3>2 DEF LastWith
    <3>4. b \in Creators(b, o)
      BY <2>1, <3>3 DEF Creators
    <3> QED
      BY <3>2, <3>3, <3>4
  <2>3. CASE ~InBlock(b, o)
    <3>1. Utxo[b][o] = Utxo[Parent[b]][o]
      BY <2>1, <2>3, ApplyIs, SMT
    <3>2. PICK c \in Creators(Parent[b], o) : Utxo[Parent[b]][o] = nHeight[c]
      BY <1>2, <3>1
    <3>3. c \in Creators(b, o)
      BY <2>1, <3>2 DEF Creators
    <3> QED
      BY <3>1, <3>2, <3>3
  <2> QED
    BY <2>2, <2>3
<1>3. Blocks \subseteq S
  BY <1>1, <1>2, TreeInduction
<1> QED
  BY <1>3

\* The undo data: what the first transaction with an outpoint spent is the coin of the
\* parent's chain, and every coin that a block spends has a creator.
LEMMA UndoData ==
    ASSUME NEW b \in Blocks \ {Genesis}, NEW o \in Outpoints, NEW i, FirstWith(b, o, i)
    PROVE  /\ UndoHeight(b, o) \in Nat
           /\ Utxo[Parent[b]][o] = IF o \in Txs[b][i].spends THEN UndoHeight(b, o) ELSE Spent
<1>1. Parent[b] \in Blocks /\ Chain[b] = Chain[Parent[b]] \cup {b} /\ Chain[b] \subseteq Blocks
  BY ParentOf, ChainBounded
<1>2. i \in 1..Len(Txs[b]) /\ o \in Touched(Txs[b][i])
  BY DEF FirstWith
<1>3. o \in Txs[b][i].spends <=> Utxo[Parent[b]][o] # Spent
  BY ValidAssumption DEF FirstWith
<1>4. \A c, d \in Creators(b, o) : c = d
  BY ValidAssumption
<1>5. \A c \in Creators(b, o) : UndoHeight(b, o) = nHeight[c] /\ nHeight[c] \in Nat
  <2>1. ASSUME NEW c \in Creators(b, o) PROVE UndoHeight(b, o) = nHeight[c] /\ nHeight[c] \in Nat
    <3>1. (CHOOSE d \in Creators(b, o) : TRUE) \in Creators(b, o)
      BY <2>1
    <3>2. (CHOOSE d \in Creators(b, o) : TRUE) = c
      BY <1>4, <3>1
    <3>3. c \in Blocks
      BY <1>1 DEF Creators
    <3> QED
      BY <3>2, <3>3, HeightOf DEF UndoHeight
  <2> QED
    BY <2>1
<1>6. CASE o \in Txs[b][i].spends
  <2>1. PICK c \in Creators(Parent[b], o) : Utxo[Parent[b]][o] = nHeight[c]
    BY <1>1, <1>3, <1>6, MadeInChain
  <2>2. c \in Creators(b, o)
    BY <1>1 DEF Creators
  <2> QED
    BY <1>5, <1>6, <2>1, <2>2
<1>7. CASE o \notin Txs[b][i].spends
  <2>1. o \in Txs[b][i].creates /\ b \in Chain[b]
    BY <1>1, <1>2, <1>7 DEF Touched
  <2>2. b \in Creators(b, o)
    BY <1>2, <2>1 DEF Creators
  <2> QED
    BY <1>3, <1>5, <1>7, <2>2
<1> QED
  BY <1>6, <1>7

UndoTo(g, base, b, s) ==
    IF s = {} THEN base
    ELSE [o \in Outpoints |->
             IF o \in Reverse(Txs[b])[Max(s)].spends THEN UndoHeight(b, o)
             ELSE Set(g[s \ {Max(s)}], Reverse(Txs[b])[Max(s)].creates, Spent)[o]]

\* Undo: the first transaction with an outpoint decides.
LEMMA UndoFacts ==
    ASSUME NEW b \in Blocks \ {Genesis}, NEW map \in Coins
    PROVE  /\ Undo(map, b) \in Coins
           /\ \A o \in Outpoints :
                 /\ ~InBlock(b, o) => Undo(map, b)[o] = map[o]
                 /\ \A i : FirstWith(b, o, i) =>
                       Undo(map, b)[o] = IF o \in Txs[b][i].spends THEN UndoHeight(b, o) ELSE Spent
<1> DEFINE n == Len(Txs[b])
           R == Reverse(Txs[b])
           T == [i \in 1..n |-> Touched(R[i])]
           v == [i \in 1..n |-> [o \in Outpoints |->
                                    IF o \in R[i].spends THEN UndoHeight(b, o) ELSE Spent]]
           g == CHOOSE f : f = [s \in SUBSET (DOMAIN R) |-> UndoTo(f, map, b, s)]
<1>1. /\ n \in Nat /\ DOMAIN R = 1..n /\ \A i \in 1..n : R[i] = Txs[b][(n - i) + 1]
  BY TxsOf DEF Reverse
<1>2. Undo(map, b) = g[DOMAIN R]
  BY DEF Undo, FoldLeft, MapThenFoldSet, UndoTo
<1>3. \A i \in 1..n : R[i].spends \in SUBSET Outpoints /\ R[i].creates \in SUBSET Outpoints
  <2>1. \A i \in 1..n : (n - i) + 1 \in 1..n
    BY <1>1, SMT
  <2>2. \A k \in 1..n : Txs[b][k].spends \in SUBSET Outpoints /\ Txs[b][k].creates \in SUBSET Outpoints
    BY TxsOf
  <2> HIDE DEF n, R
  <2> QED
    BY <1>1, <2>1, <2>2
<1> HIDE DEF n, R
<1>4. ASSUME NEW f, NEW s \in SUBSET (1..n) PROVE UndoTo(f, map, b, s) = OverTo(f, map, T, v, s)
  <2>1. CASE s = {}
    BY <2>1 DEF UndoTo, OverTo
  <2>2. CASE s # {}
    <3>1. Max(s) \in 1..n
      BY <1>1, <2>2, MaxOf
    <3> DEFINE m == f[s \ {Max(s)}]
               tx == R[Max(s)]
    <3>2. T[Max(s)] = tx.spends \cup tx.creates
      BY <3>1 DEF Touched
    <3>3. v[Max(s)] = [o \in Outpoints |-> IF o \in tx.spends THEN UndoHeight(b, o) ELSE Spent]
      BY <3>1
    <3> HIDE DEF T, v
    <3>4. UndoTo(f, map, b, s) = [o \in Outpoints |-> IF o \in tx.spends THEN UndoHeight(b, o)
                                                      ELSE Set(m, tx.creates, Spent)[o]]
      BY <2>2 DEF UndoTo, R
    <3>5. OverTo(f, map, T, v, s) = Over(m, T[Max(s)], v[Max(s)])
      BY <2>2 DEF OverTo
    <3> HIDE DEF m, tx
    <3>6. [o \in Outpoints |-> IF o \in tx.spends THEN UndoHeight(b, o)
                               ELSE Set(m, tx.creates, Spent)[o]]
             = Over(m, tx.spends \cup tx.creates,
                    [o \in Outpoints |-> IF o \in tx.spends THEN UndoHeight(b, o) ELSE Spent])
      BY DEF Set, Over
    <3> QED
      BY <3>2, <3>3, <3>4, <3>5, <3>6
  <2> QED
    BY <2>1, <2>2
<1> HIDE DEF T, v
<1>5. g = [s \in SUBSET (1..n) |-> UndoTo(g, map, b, s)]
  <2>1. PICK f : IsOver(f, map, T, v, n)
    BY <1>1, OverExists
  <2>2. f = [s \in SUBSET (1..n) |-> UndoTo(f, map, b, s)]
    BY <1>4, <2>1 DEF IsOver
  <2> QED
    BY <1>1, <2>2
<1>6. IsOver(g, map, T, v, n)
  <2>1. \A s \in SUBSET (1..n) : UndoTo(g, map, b, s) = OverTo(g, map, T, v, s)
    BY <1>4
  <2> HIDE DEF g
  <2>2. [s \in SUBSET (1..n) |-> UndoTo(g, map, b, s)] = [s \in SUBSET (1..n) |-> OverTo(g, map, T, v, s)]
    BY <2>1
  <2> QED
    BY <1>5, <2>2 DEF IsOver
<1> HIDE DEF g
<1>7. \A i \in 1..n : \A o \in Outpoints : v[i][o] \in Nat \cup {Spent}
  <2> SUFFICES ASSUME NEW i \in 1..n, NEW o \in Outpoints PROVE v[i][o] \in Nat \cup {Spent}
    OBVIOUS
  <2>1. v[i][o] = IF o \in R[i].spends THEN UndoHeight(b, o) ELSE Spent
    BY DEF v
  <2>2. ASSUME o \in R[i].spends PROVE UndoHeight(b, o) \in Nat
    <3>1. (n - i) + 1 \in 1..n /\ R[i] = Txs[b][(n - i) + 1]
      BY <1>1, SMT
    <3>2. InBlock(b, o)
      BY <2>2, <3>1 DEF InBlock, Touched, n
    <3>3. PICK k : FirstWith(b, o, k)
      BY <3>2, FirstAndLast
    <3> QED
      BY <3>3, UndoData
  <2> QED
    BY <2>1, <2>2
<1>8. LastWrite(Undo(map, b), map, T, v, n)
  <2>1. LastWrite(g[1..n], map, T, v, n)
    BY <1>1, <1>6, <1>7, LastWriteWins
  <2> QED
    BY <1>1, <1>2, <2>1
<1>9. ASSUME NEW o \in Outpoints, ~InBlock(b, o) PROVE Undo(map, b)[o] = map[o]
  <2>1. ASSUME NEW j \in 1..n PROVE o \notin T[j]
    <3>1. (n - j) + 1 \in 1..n /\ R[j] = Txs[b][(n - j) + 1]
      BY <1>1, SMT
    <3>2. T[j] = Touched(R[j])
      BY DEF T
    <3> QED
      BY <1>9, <3>1, <3>2 DEF InBlock, n
  <2> QED
    BY <1>8, <2>1 DEF LastWrite
<1>10. ASSUME NEW o \in Outpoints, NEW i, FirstWith(b, o, i)
       PROVE  Undo(map, b)[o] = IF o \in Txs[b][i].spends THEN UndoHeight(b, o) ELSE Spent
  <2> DEFINE k == (n - i) + 1
  <2>1. /\ i \in 1..n /\ o \in Touched(Txs[b][i])
        /\ \A j \in 1..(i - 1) : o \notin Touched(Txs[b][j])
    BY <1>10 DEF FirstWith, n
  <2>2. k \in 1..n /\ (n - k) + 1 = i
    BY <1>1, <2>1, SMT
  <2>3. R[k] = Txs[b][i] /\ T[k] = Touched(R[k])
    BY <1>1, <2>2 DEF T
  <2>4. v[k][o] = IF o \in Txs[b][i].spends THEN UndoHeight(b, o) ELSE Spent
    BY <2>2, <2>3 DEF v
  <2>5. ASSUME NEW j \in (k + 1)..n PROVE o \notin T[j]
    <3>1. j \in 1..n /\ (n - j) + 1 \in 1..(i - 1)
      BY <1>1, <2>1, <2>2, SMT
    <3>2. T[j] = Touched(R[j]) /\ R[j] = Txs[b][(n - j) + 1]
      BY <1>1, <3>1 DEF T
    <3> QED
      BY <2>1, <3>1, <3>2
  <2> HIDE DEF k
  <2>6. Undo(map, b)[o] = v[k][o]
    BY <1>8, <2>1, <2>2, <2>3, <2>5, SMT DEF LastWrite
  <2> QED
    BY <2>4, <2>6
<1>11. Undo(map, b) \in Coins
  BY <1>8 DEF LastWrite
<1> QED
  BY <1>9, <1>10, <1>11

\* Undoing a block puts the coins of its outpoints back to those of its parent's chain,
\* whatever they were.
LEMMA UndoIs ==
    ASSUME NEW b \in Blocks \ {Genesis}, NEW m \in Coins
    PROVE  /\ Undo(m, b) \in Coins
           /\ \A o \in Outpoints :
                 Undo(m, b)[o] = IF InBlock(b, o) THEN Utxo[Parent[b]][o] ELSE m[o]
<1>1. ASSUME NEW o \in Outpoints, InBlock(b, o) PROVE Undo(m, b)[o] = Utxo[Parent[b]][o]
  <2>1. PICK i : FirstWith(b, o, i)
    BY <1>1, FirstAndLast
  <2> QED
    BY <2>1, UndoFacts, UndoData, SMT
<1>2. ASSUME NEW o \in Outpoints, ~InBlock(b, o) PROVE Undo(m, b)[o] = m[o]
  BY <1>2, UndoFacts
<1>3. Undo(m, b) \in Coins
  BY UndoFacts
<1> QED
  BY <1>1, <1>2, <1>3

\* The block where the chains of two blocks part
Fork(f, a, b) == f \in Blocks /\ Chain[f] = Chain[a] \cap Chain[b]

\* The fork of a block of the chain, and of a block that is not on it.
LEMMA ForkOf ==
    ASSUME NEW a \in Blocks, NEW b \in Blocks
    PROVE  /\ a \in Chain[b] => Fork(a, a, b)
           /\ a \notin Chain[b] => /\ a # Genesis
                                   /\ \A f : Fork(f, Parent[a], b) => Fork(f, a, b)
<1>1. a \in Chain[b] => Chain[a] \subseteq Chain[b]
  BY ChainTransitive
<1>2. a \notin Chain[b] => a # Genesis
  BY GenesisInChain
<1>3. a # Genesis => Chain[a] = Chain[Parent[a]] \cup {a}
  BY ParentOf
<1> QED
  BY <1>1, <1>2, <1>3 DEF Fork

\* There is only one.
LEMMA ForkUnique ==
    ASSUME NEW a, NEW b, NEW f, NEW g, Fork(f, a, b), Fork(g, b, a)
    PROVE  f = g
<1>1. f \in Blocks /\ g \in Blocks /\ Chain[f] = Chain[g]
  BY DEF Fork
<1>2. f \in Chain[g] /\ g \in Chain[f]
  BY <1>1, ChainOf
<1>3. f <= g /\ g <= f /\ f \in Nat /\ g \in Nat
  BY <1>1, <1>2, ChainBounded, TreeAssumption
<1> QED
  BY <1>3, SMT

\* Every coin is that of the fork, or it was left alone, which only happens to the coins
\* that the blocks on the way did not change.
RolledBack(q, m, new, b) ==
    /\ q \in Coins
    /\ \E f : /\ Fork(f, b, new)
              /\ \A o \in Outpoints : \/ q[o] = Utxo[f][o]
                                      \/ q[o] = m[o] /\ Utxo[b][o] = Utxo[f][o]

\* One block back.
LEMMA RollbackStep ==
    ASSUME NEW new \in Blocks, NEW b \in Blocks, b \notin Chain[new], NEW m \in Coins, NEW q,
           RolledBack(q, Undo(m, b), new, Parent[b])
    PROVE  RolledBack(q, m, new, b)
<1>1. b \in Blocks \ {Genesis} /\ Parent[b] \in Blocks
  BY ForkOf, TreeAssumption
<1>2. PICK f : /\ Fork(f, Parent[b], new)
               /\ \A o \in Outpoints : \/ q[o] = Utxo[f][o]
                                       \/ q[o] = Undo(m, b)[o] /\ Utxo[Parent[b]][o] = Utxo[f][o]
  BY DEF RolledBack
<1>3. Fork(f, b, new)
  BY <1>2, ForkOf
<1>4. \A o \in Outpoints : Undo(m, b)[o] = IF InBlock(b, o) THEN Utxo[Parent[b]][o] ELSE m[o]
  BY <1>1, UndoIs
<1>5. \A o \in Outpoints : ~InBlock(b, o) => Utxo[b][o] = Utxo[Parent[b]][o]
  <2>1. Utxo[Parent[b]] \in Coins /\ Utxo[b] = Apply(Utxo[Parent[b]], b)
    BY <1>1, UtxoOf
  <2> QED
    BY <1>1, <2>1, ApplyIs, SMT
<1>6. \A o \in Outpoints : q[o] = Utxo[f][o] \/ (q[o] = m[o] /\ Utxo[b][o] = Utxo[f][o])
  BY <1>2, <1>4, <1>5
<1> QED
  BY <1>3, <1>6 DEF RolledBack

\* Rolling back along the old branch, from coins of any kind.
LEMMA RollbackIs ==
    ASSUME NEW new \in Blocks
    PROVE  \A b \in Blocks : \A m \in Coins : RolledBack(Rollback(new)[b][m], m, new, b)
<1> DEFINE stop == Chain[new]
           id == [m \in Coins |-> m]
           V == [Coins -> Coins]
           G == [b \in Blocks |-> [h \in V |-> [m \in Coins |-> h[Undo(m, b)]]]]
           E(f, b) == [m \in Coins |-> IF b \in stop THEN m ELSE f[Parent[b]][Undo(m, b)]]
<1>1. Genesis \in stop
  BY GenesisInChain
<1>2. id \in V
  OBVIOUS
<1>3. PICK f : IsUp(f, stop, id, G)
  <2> HIDE DEF stop, id, G
  <2> QED
    BY <1>1, UpExists
<1> DEFINE S == {b \in Blocks : f[b] \in V /\ f[b] = E(f, b)}
<1>4. ASSUME NEW b \in stop, b \in Blocks PROVE b \in S
  <2>1. f[b] = id
    BY <1>3, <1>4 DEF IsUp, Up
  <2>2. E(f, b) = id
    BY <1>4
  <2> QED
    BY <1>2, <1>4, <2>1, <2>2
<1>5. ASSUME NEW b \in Blocks \ {Genesis}, Parent[b] \in S PROVE b \in S
  <2>1. CASE b \in stop
    BY <1>4, <2>1
  <2>2. CASE b \notin stop
    <3>1. f[b] = G[b][f[Parent[b]]] /\ f[Parent[b]] \in V
      BY <1>3, <1>5, <2>2 DEF IsUp, Up
    <3> DEFINE h == f[Parent[b]]
    <3> HIDE DEF h
    <3>2. f[b] = [m \in Coins |-> h[Undo(m, b)]] /\ h \in V
      BY <3>1 DEF h
    <3>3. E(f, b) = [m \in Coins |-> h[Undo(m, b)]]
      BY <2>2 DEF h
    <3>4. \A m \in Coins : Undo(m, b) \in Coins
      BY UndoIs
    <3>5. \A m \in Coins : h[Undo(m, b)] \in Coins
      BY <3>2, <3>4
    <3>6. [m \in Coins |-> h[Undo(m, b)]] \in V
      BY <3>5
    <3> HIDE DEF V, E
    <3> QED
      BY <3>2, <3>3, <3>6
  <2> QED
    BY <2>1, <2>2
<1>6. Blocks \subseteq S
  <2>1. Genesis \in S
    BY <1>1, <1>4, TreeAssumption
  <2> HIDE DEF S
  <2> QED
    BY <1>5, <2>1, TreeInduction
<1>7. f = [b \in Blocks |-> E(f, b)]
  <2>1. \A b \in Blocks : f[b] = E(f, b)
    BY <1>6
  <2>2. f = [b \in Blocks |-> f[b]]
    BY <1>3 DEF IsUp
  <2> HIDE DEF E
  <2> QED
    BY <2>1, <2>2
<1> DEFINE r == Rollback(new)
<1>8. r = [b \in Blocks |-> E(r, b)]
  <2>1. r = CHOOSE x : x = [b \in Blocks |-> E(x, b)]
    BY DEF Rollback
  <2> HIDE DEF E, r
  <2> QED
    BY <1>7, <2>1
<1>9. \A b \in Blocks : \A m \in Coins :
         r[b][m] = IF b \in stop THEN m ELSE r[Parent[b]][Undo(m, b)]
  <2>1. \A b \in Blocks : r[b] = E(r, b)
    <3> HIDE DEF E, r
    <3> QED
      BY <1>8
  <2> HIDE DEF r
  <2>2. ASSUME NEW b \in Blocks, NEW m \in Coins
        PROVE  r[b][m] = IF b \in stop THEN m ELSE r[Parent[b]][Undo(m, b)]
    <3>1. r[b] = [x \in Coins |-> IF b \in stop THEN x ELSE r[Parent[b]][Undo(x, b)]]
      BY <2>1
    <3> QED
      BY <3>1
  <2> QED
    BY <2>2
<1> HIDE DEF r
<1> DEFINE Q == {b \in Blocks : \A m \in Coins : RolledBack(r[b][m], m, new, b)}
<1>10. ASSUME NEW b \in Blocks, b \in stop PROVE b \in Q
  <2>1. Fork(b, b, new)
    BY <1>10, ForkOf
  <2>2. \A m \in Coins : r[b][m] = m
    BY <1>9, <1>10
  <2>3. \A m \in Coins : RolledBack(m, m, new, b)
    BY <2>1 DEF RolledBack
  <2> QED
    BY <2>2, <2>3
<1>11. ASSUME NEW b \in Blocks \ {Genesis}, Parent[b] \in Q PROVE b \in Q
  <2>1. CASE b \in stop
    BY <1>10, <2>1
  <2>2. CASE b \notin stop
    <3>1. ASSUME NEW m \in Coins PROVE RolledBack(r[b][m], m, new, b)
      <4>1. Undo(m, b) \in Coins /\ r[b][m] = r[Parent[b]][Undo(m, b)]
        BY <1>9, <2>2, UndoIs
      <4>2. RolledBack(r[b][m], Undo(m, b), new, Parent[b])
        BY <1>11, <4>1
      <4> QED
        BY <2>2, <4>2, RollbackStep
    <3> QED
      BY <3>1
  <2> QED
    BY <2>1, <2>2
<1>12. Blocks \subseteq Q
  <2>1. Genesis \in Q
    BY <1>1, <1>10, TreeAssumption
  <2> HIDE DEF Q
  <2> QED
    BY <1>11, <2>1, TreeInduction
<1> QED
  BY <1>12 DEF r

\* Every coin is that of the block, or it was left alone, which only happens to the coins
\* that the blocks on the way did not change.
RolledForward(q, m, old, b) ==
    /\ q \in Coins
    /\ \E f : /\ Fork(f, b, old)
              /\ \A o \in Outpoints : \/ q[o] = Utxo[b][o]
                                      \/ q[o] = m[o] /\ Utxo[b][o] = Utxo[f][o]

\* One block forward.
LEMMA RollforwardStep ==
    ASSUME NEW old \in Blocks, NEW b \in Blocks, b \notin Chain[old], NEW m, NEW q,
           RolledForward(q, m, old, Parent[b])
    PROVE  RolledForward(Apply(q, b), m, old, b)
<1>1. b \in Blocks \ {Genesis} /\ Parent[b] \in Blocks /\ q \in Coins
  BY ForkOf, TreeAssumption DEF RolledForward
<1>2. PICK f : /\ Fork(f, Parent[b], old)
               /\ \A o \in Outpoints : \/ q[o] = Utxo[Parent[b]][o]
                                       \/ q[o] = m[o] /\ Utxo[Parent[b]][o] = Utxo[f][o]
  BY DEF RolledForward
<1>3. Fork(f, b, old)
  BY <1>2, ForkOf
<1>4. /\ Apply(q, b) \in Coins
      /\ \A o \in Outpoints : Apply(q, b)[o] = IF InBlock(b, o) THEN Utxo[b][o] ELSE q[o]
  BY <1>1, ApplyIs
<1>5. \A o \in Outpoints : ~InBlock(b, o) => Utxo[b][o] = Utxo[Parent[b]][o]
  <2>1. Utxo[Parent[b]] \in Coins /\ Utxo[b] = Apply(Utxo[Parent[b]], b)
    BY <1>1, UtxoOf
  <2> QED
    BY <1>1, <2>1, ApplyIs, SMT
<1>6. \A o \in Outpoints : \/ Apply(q, b)[o] = Utxo[b][o]
                           \/ Apply(q, b)[o] = m[o] /\ Utxo[b][o] = Utxo[f][o]
  BY <1>2, <1>4, <1>5
<1> QED
  BY <1>3, <1>4, <1>6 DEF RolledForward

\* Rolling forward along the new branch, from coins of any kind.
LEMMA RollforwardIs ==
    ASSUME NEW old \in Blocks, NEW map \in Coins
    PROVE  \A b \in Blocks : RolledForward(Rollforward(old, map)[b], map, old, b)
<1> DEFINE stop == Chain[old]
           G == [b \in Blocks |-> [m \in Coins |-> Apply(m, b)]]
           E(f, b) == IF b \in stop THEN map ELSE Apply(f[Parent[b]], b)
<1>1. Genesis \in stop
  BY GenesisInChain
<1>2. PICK f : IsUp(f, stop, map, G)
  <2> HIDE DEF stop, G
  <2> QED
    BY <1>1, UpExists
<1> DEFINE S == {b \in Blocks : f[b] \in Coins /\ f[b] = E(f, b)}
<1>3. ASSUME NEW b \in stop, b \in Blocks PROVE b \in S
  BY <1>2, <1>3 DEF IsUp, Up
<1>4. ASSUME NEW b \in Blocks \ {Genesis}, Parent[b] \in S PROVE b \in S
  <2>1. CASE b \in stop
    BY <1>3, <2>1
  <2>2. CASE b \notin stop
    <3>1. f[b] = G[b][f[Parent[b]]] /\ f[Parent[b]] \in Coins
      BY <1>2, <1>4, <2>2 DEF IsUp, Up
    <3>2. f[b] = Apply(f[Parent[b]], b)
      BY <3>1
    <3>3. f[b] \in Coins
      BY <3>1, <3>2, ApplyIs
    <3> QED
      BY <2>2, <3>2, <3>3
  <2> QED
    BY <2>1, <2>2
<1>5. Blocks \subseteq S
  <2>1. Genesis \in S
    BY <1>1, <1>3, TreeAssumption
  <2> HIDE DEF S
  <2> QED
    BY <1>4, <2>1, TreeInduction
<1>6. f = [b \in Blocks |-> E(f, b)]
  <2>1. \A b \in Blocks : f[b] = E(f, b)
    BY <1>5
  <2>2. f = [b \in Blocks |-> f[b]]
    BY <1>2 DEF IsUp
  <2> HIDE DEF E
  <2> QED
    BY <2>1, <2>2
<1> DEFINE r == Rollforward(old, map)
<1>7. r = [b \in Blocks |-> E(r, b)]
  <2>1. r = CHOOSE x : x = [b \in Blocks |-> E(x, b)]
    BY DEF Rollforward
  <2> HIDE DEF E, r
  <2> QED
    BY <1>6, <2>1
<1>8. \A b \in Blocks : r[b] = E(r, b)
  <2> HIDE DEF E, r
  <2> QED
    BY <1>7
<1> HIDE DEF r
<1> DEFINE Q == {b \in Blocks : RolledForward(r[b], map, old, b)}
<1>9. ASSUME NEW b \in Blocks, b \in stop PROVE b \in Q
  <2>1. Fork(b, b, old)
    BY <1>9, ForkOf
  <2>2. r[b] = map
    BY <1>8, <1>9
  <2> QED
    BY <2>1, <2>2 DEF RolledForward
<1>10. ASSUME NEW b \in Blocks \ {Genesis}, Parent[b] \in Q PROVE b \in Q
  <2>1. CASE b \in stop
    BY <1>9, <2>1
  <2>2. CASE b \notin stop
    <3>1. r[b] = Apply(r[Parent[b]], b)
      BY <1>8, <2>2
    <3>2. RolledForward(r[Parent[b]], map, old, Parent[b])
      BY <1>10
    <3>3. RolledForward(Apply(r[Parent[b]], b), map, old, b)
      BY <2>2, <3>2, RollforwardStep
    <3> QED
      BY <3>1, <3>3
  <2> QED
    BY <2>1, <2>2
<1>11. Blocks \subseteq Q
  <2>1. Genesis \in Q
    BY <1>1, <1>9, TreeAssumption
  <2> HIDE DEF Q
  <2> QED
    BY <1>10, <2>1, TreeInduction
<1> QED
  BY <1>11 DEF r

\* DisconnectBlock takes the coins of a tip back to those of its parent.
LEMMA UndoOfTip == \A b \in Blocks \ {Genesis} : Undo(Utxo[b], b) = Utxo[Parent[b]]
<1> SUFFICES ASSUME NEW b \in Blocks \ {Genesis} PROVE Undo(Utxo[b], b) = Utxo[Parent[b]]
  OBVIOUS
<1>1. /\ Parent[b] \in Blocks /\ Utxo[b] \in Coins /\ Utxo[Parent[b]] \in Coins
      /\ Utxo[b] = Apply(Utxo[Parent[b]], b)
  BY UtxoOf, TreeAssumption
<1>2. \A o \in Outpoints : ~InBlock(b, o) => Utxo[b][o] = Utxo[Parent[b]][o]
  BY <1>1, ApplyIs, SMT
<1>3. /\ Undo(Utxo[b], b) \in Coins
      /\ \A o \in Outpoints :
            Undo(Utxo[b], b)[o] = IF InBlock(b, o) THEN Utxo[Parent[b]][o] ELSE Utxo[b][o]
  BY <1>1, UndoIs
<1>4. \A o \in Outpoints : Undo(Utxo[b], b)[o] = Utxo[Parent[b]][o]
  BY <1>2, <1>3
<1> QED
  BY <1>1, <1>3, <1>4, SMT DEF Coins

\* ReplayBlocks makes the coins of the new tip out of any mixture of those of the two tips,
\* on one branch or on two, for any tree of blocks that passed ConnectBlock: replaying twice,
\* or after any part of the batches was written, comes to the same.
THEOREM ReplayIs ==
    ASSUME NEW new \in Blocks, NEW old \in Blocks \cup {Null}, NEW map \in Coins,
           \A o \in Outpoints : map[o] \in {Utxo[Null0(old)][o], Utxo[new][o]}
    PROVE  Replay(map, old, new) = Utxo[new]
<1> DEFINE from == Null0(old)
           undone == Rollback(new)[from][map]
           q == Rollforward(from, undone)[new]
<1>1. from \in Blocks
  BY TreeAssumption DEF Null0
<1>2. RolledBack(undone, map, new, from)
  BY <1>1, RollbackIs
<1>3. PICK f : /\ Fork(f, from, new)
               /\ \A o \in Outpoints : \/ undone[o] = Utxo[f][o]
                                       \/ undone[o] = map[o] /\ Utxo[from][o] = Utxo[f][o]
  BY <1>2 DEF RolledBack
<1>4. RolledForward(q, undone, from, new)
  <2>1. undone \in Coins
    BY <1>2 DEF RolledBack
  <2> HIDE DEF undone, from
  <2> QED
    BY <1>1, <2>1, RollforwardIs
<1>5. Replay(map, old, new) = q
  BY DEF Replay
<1>6. \A o \in Outpoints : map[o] \in {Utxo[from][o], Utxo[new][o]}
  OBVIOUS
<1> HIDE DEF undone, from, q
<1>7. PICK g : /\ Fork(g, new, from)
               /\ \A o \in Outpoints : \/ q[o] = Utxo[new][o]
                                       \/ q[o] = undone[o] /\ Utxo[new][o] = Utxo[g][o]
  BY <1>4 DEF RolledForward
<1>8. f = g
  BY <1>3, <1>7, ForkUnique
<1>9. \A o \in Outpoints : q[o] = Utxo[new][o]
  BY <1>3, <1>6, <1>7, <1>8, SMT
<1>10. q \in Coins /\ Utxo[new] \in Coins
  BY <1>4, UtxoOf DEF RolledForward
<1> QED
  BY <1>5, <1>9, <1>10, SMT DEF Coins

-----------------------------------------------------------------------------
(* Starting again.                                                         *)

\* The blocks that a start needs are in the block index on disk: the database's best
\* block, or both ends of the transition it is in; a flush has written the tip's entry
\* before the coins.
Placed ==
    /\ index \subseteq Blocks /\ diskIndex \subseteq index /\ Genesis \in diskIndex
    /\ \A b \in index \ {Genesis} : Parent[b] \in index
    /\ \A b \in diskIndex \ {Genesis} : Parent[b] \in diskIndex
    /\ tip \in index
    /\ mode \in {"running", "flushing", "down", "failed"}
    /\ best \in Blocks \cup {Null}
    /\ heads \in {<<>>} \cup (Blocks \X (Blocks \cup {Null}))
    /\ heads = <<>> => Null0(best) \in diskIndex
    /\ heads # <<>> => best = Null /\ heads[1] \in diskIndex /\ Null0(heads[2]) \in diskIndex
    /\ mode = "running" => heads = <<>>
    /\ mode = "flushing" => tip \in diskIndex /\ (heads # <<>> => tip = heads[1])
    /\ mode = "down" => index = diskIndex

\* Placed holds at first.
LEMMA InitPlaced == Init => Placed
BY TreeAssumption DEF Init, Placed, Null0

\* A pair is not the empty sequence, and its parts are what they are.
LEMMA PairIsNotEmpty ==
    ASSUME NEW a, NEW b
    PROVE  <<a, b>> # <<>> /\ <<a, b>>[1] = a /\ <<a, b>>[2] = b
OBVIOUS

\* Placed, one step per action.
LEMMA PlacedStep ==
    ASSUME Placed, [Next]_vars
    PROVE  Placed'
<1>1. ASSUME NEW b \in Blocks \ {Genesis}, AcceptBlock(b) PROVE Placed'
  BY <1>1 DEF AcceptBlock, Placed
<1>2. ASSUME NEW b \in Blocks \ {Genesis}, ConnectTip(b) PROVE Placed'
  BY <1>2 DEF ConnectTip, Placed
<1>3. ASSUME DisconnectTip PROVE Placed'
  BY <1>3 DEF DisconnectTip, Placed
<1>4. ASSUME NEW full \in BOOLEAN, FlushStateToDisk(full) PROVE Placed'
  BY <1>4 DEF FlushStateToDisk, Placed
<1>5. ASSUME NEW S \in SUBSET pending, WritePartial(S) PROVE Placed'
  BY <1>5, PairIsNotEmpty DEF WritePartial, OldTip, Null0, Placed
<1>6. ASSUME WriteFinal PROVE Placed'
  BY <1>6 DEF WriteFinal, Null0, Placed
<1>7. ASSUME Crash PROVE Placed'
  BY <1>7 DEF Crash, Placed
<1>8. ASSUME Start PROVE Placed'
  BY <1>8 DEF Start, Placed
<1>9. ASSUME UNCHANGED vars PROVE Placed'
  BY <1>9 DEF vars, Placed
<1> QED
  BY <1>1, <1>2, <1>3, <1>4, <1>5, <1>6, <1>7, <1>8, <1>9 DEF Next

\* As long as the federation keeps its first key, whatever ReplayBlocks has to read can
\* be read: after any number of crashes, at any point of a flush or of a replay, the node
\* can start again.  (A block that is signed with a later key cannot be read then; see the
\* run with Rotated # {}.)
THEOREM NodeIsRestartable ==
    ASSUME Rotated = {}
    PROVE  Spec => []Restartable
<1>1. Placed /\ [Next]_vars => Placed'
  BY PlacedStep
<1>2. Init => Restartable
  BY DEF Init, Restartable
<1>3. Placed /\ Restartable /\ [Next]_vars => Restartable'
  <2> SUFFICES ASSUME Placed, Restartable, [Next]_vars PROVE Restartable'
    OBVIOUS
  <2>1. ASSUME Start PROVE Restartable'
    <3>1. heads # <<>> => Replayable(heads[2], heads[1])
      BY <2>1 DEF Start, Placed, Replayable, Readable
    <3> QED
      BY <2>1, <3>1 DEF Start, Placed, Restartable
  <2> QED
    BY <2>1 DEF Next, vars, AcceptBlock, ConnectTip, DisconnectTip, FlushStateToDisk,
                WritePartial, WriteFinal, Crash, Restartable
<1> QED
  BY <1>1, <1>2, <1>3, InitPlaced, PTL DEF Spec

-----------------------------------------------------------------------------
(* The coins.                                                              *)

\* The view is that of the tip; the database is that of its best block or between those
\* of its two heads; what a flush has still to write is where it differs from the view.
Exact ==
    /\ coins \in Coins /\ db \in Coins /\ pending \subseteq Outpoints /\ crashes \in Nat
    /\ ViewIsUtxo /\ DbIsUtxo /\ DbIsBetween
    /\ mode = "flushing" => \A o \in Outpoints \ pending : db[o] = coins[o]

\* Exact holds at first.
LEMMA InitExact == Init => Exact
<1> SUFFICES ASSUME Init PROVE Exact
  OBVIOUS
<1>1. Utxo[Genesis] \in Coins /\ best = Null /\ heads = <<>>
  BY UtxoOf, TreeAssumption DEF Init
<1> QED
  BY <1>1 DEF Init, Exact, ViewIsUtxo, DbIsUtxo, DbIsBetween, Null0

\* A batch, whole or partial, leaves every coin as it was or as it is in the view.
LEMMA WrittenFacts ==
    ASSUME coins \in Coins, db \in Coins, NEW S \in SUBSET Outpoints
    PROVE  /\ Written(S) \in Coins
           /\ \A o \in Outpoints : Written(S)[o] = IF o \in S THEN coins[o] ELSE db[o]
BY DEF Written, Coins

\* Exact, one step per action.
LEMMA ExactStep ==
    ASSUME Placed, Exact, [Next]_vars
    PROVE  Exact'
<1>0. \A b \in Blocks : Utxo[b] \in Coins
  BY UtxoOf
<1>1. ASSUME NEW b \in Blocks \ {Genesis}, AcceptBlock(b) PROVE Exact'
  BY <1>1 DEF AcceptBlock, Exact, ViewIsUtxo, DbIsUtxo, DbIsBetween
<1>2. ASSUME NEW b \in Blocks \ {Genesis}, ConnectTip(b) PROVE Exact'
  <2>1. coins' = Utxo[b] /\ tip' = b
    BY <1>2, UtxoOf DEF ConnectTip, Exact, ViewIsUtxo
  <2> QED
    BY <1>0, <1>2, <2>1 DEF ConnectTip, Exact, ViewIsUtxo, DbIsUtxo, DbIsBetween
<1>3. ASSUME DisconnectTip PROVE Exact'
  <2>1. tip \in Blocks \ {Genesis} /\ Parent[tip] \in Blocks /\ tip' = Parent[tip]
    BY <1>3 DEF DisconnectTip, Placed
  <2>2. coins' = Utxo[Parent[tip]]
    BY <1>3, <2>1, UndoOfTip DEF DisconnectTip, Exact, ViewIsUtxo
  <2> QED
    BY <1>0, <1>3, <2>1, <2>2 DEF DisconnectTip, Exact, ViewIsUtxo, DbIsUtxo, DbIsBetween
<1>4. ASSUME NEW full \in BOOLEAN, FlushStateToDisk(full) PROVE Exact'
  BY <1>4 DEF FlushStateToDisk, Differing, Exact, ViewIsUtxo, DbIsUtxo, DbIsBetween
<1>5. ASSUME NEW S \in SUBSET pending, WritePartial(S) PROVE Exact'
  <2>1. /\ mode = "flushing" /\ db' = Written(S) /\ heads' = <<tip, OldTip>>
        /\ UNCHANGED <<tip, coins, mode, crashes>> /\ pending' = pending \ S
    BY <1>5 DEF WritePartial
  <2>2. S \in SUBSET Outpoints /\ coins = Utxo[tip]
    BY <2>1 DEF Exact, ViewIsUtxo
  <2>3. \A o \in Outpoints : db[o] \in {Utxo[Null0(OldTip)][o], Utxo[tip][o]}
    BY <2>1 DEF Placed, OldTip, Exact, DbIsUtxo, DbIsBetween
  <2>4. db' \in Coins /\ \A o \in Outpoints : db'[o] = IF o \in S THEN coins[o] ELSE db[o]
    BY <2>1, <2>2, WrittenFacts DEF Exact
  <2>5. DbIsBetween' /\ DbIsUtxo'
    BY <2>1, <2>2, <2>3, <2>4, PairIsNotEmpty DEF DbIsBetween, DbIsUtxo
  <2>6. \A o \in Outpoints \ pending' : db'[o] = coins[o]
    BY <2>1, <2>4 DEF Exact
  <2> QED
    BY <2>1, <2>2, <2>4, <2>5, <2>6 DEF Exact, ViewIsUtxo
<1>6. ASSUME WriteFinal PROVE Exact'
  <2>1. /\ mode = "flushing" /\ mode' = "running" /\ db' = Written(pending) /\ pending' = {}
        /\ best' = tip /\ heads' = <<>> /\ UNCHANGED <<tip, coins, crashes>>
    BY <1>6 DEF WriteFinal
  <2>2. db' \in Coins /\ \A o \in Outpoints : db'[o] = coins[o]
    BY <2>1, WrittenFacts DEF Exact
  <2>3. db' = coins /\ coins = Utxo[tip]
    BY <2>1, <2>2, SMT DEF Exact, ViewIsUtxo, Coins
  <2>4. Null0(tip) = tip
    BY BlockAssumption DEF Placed, Null0
  <2> QED
    BY <2>1, <2>2, <2>3, <2>4 DEF Exact, ViewIsUtxo, DbIsUtxo, DbIsBetween
<1>7. ASSUME Crash PROVE Exact'
  BY <1>0, <1>7, TreeAssumption, SMT DEF Crash, Exact, ViewIsUtxo, DbIsUtxo, DbIsBetween
<1>8. ASSUME Start PROVE Exact'
  <2>1. UNCHANGED <<db, best, heads, crashes>> /\ mode = "down"
    BY <1>8 DEF Start
  <2>2. DbIsUtxo' /\ DbIsBetween'
    BY <2>1 DEF Exact, DbIsUtxo, DbIsBetween
  <2>3. CASE heads = <<>>
    BY <1>8, <2>1, <2>2, <2>3 DEF Start, Exact, ViewIsUtxo, DbIsUtxo
  <2>4. CASE heads # <<>> /\ Replayable(heads[2], heads[1])
    <3>1. heads[1] \in Blocks /\ heads[2] \in Blocks \cup {Null}
      BY <2>4 DEF Placed
    <3>2. Replay(db, heads[2], heads[1]) = Utxo[heads[1]]
      BY <2>4, <3>1, ReplayIs DEF Exact, DbIsBetween
    <3>3. tip' = heads[1] /\ coins' = Utxo[heads[1]] /\ pending' = Differing(coins')
      BY <1>8, <2>4, <3>2 DEF Start
    <3>4. pending' \subseteq Outpoints /\ \A o \in Outpoints \ pending' : db[o] = coins'[o]
      BY <3>3 DEF Differing
    <3> QED
      BY <1>0, <2>1, <2>2, <3>1, <3>3, <3>4 DEF Exact, ViewIsUtxo
  <2>5. CASE heads # <<>> /\ ~Replayable(heads[2], heads[1])
    BY <1>8, <2>1, <2>2, <2>5 DEF Start, Exact, ViewIsUtxo
  <2> QED
    BY <2>3, <2>4, <2>5
<1>9. ASSUME UNCHANGED vars PROVE Exact'
  BY <1>9 DEF vars, Exact, ViewIsUtxo, DbIsUtxo, DbIsBetween
<1> QED
  BY <1>1, <1>2, <1>3, <1>4, <1>5, <1>6, <1>7, <1>8, <1>9 DEF Next

\* Both hold always.
LEMMA ExactInvariant == Spec => [](Placed /\ Exact)
<1>1. Placed /\ [Next]_vars => Placed'
  BY PlacedStep
<1>2. Init => Exact
  BY InitExact
<1>3. Placed /\ Exact /\ [Next]_vars => Exact'
  BY ExactStep
<1> QED
  BY <1>1, <1>2, <1>3, InitPlaced, PTL DEF Spec

\* The state stays well typed, the tip in the block index and the index on disk a part
\* of the one in memory.
THEOREM TypeCorrect == Spec => []TypeOK
<1>1. Placed /\ Exact => TypeOK
  BY DEF Placed, Exact, TypeOK
<1> QED
  BY <1>1, ExactInvariant, PTL

\* For any tree of blocks that passed ConnectBlock, any batches and any number of crashes,
\* also during a replay, the node's view is the one its chain defines.
THEOREM ViewIsExact == Spec => []ViewIsUtxo
<1>1. Exact => ViewIsUtxo
  BY DEF Exact
<1> QED
  BY <1>1, ExactInvariant, PTL

\* Likewise a database that is not marked as being in a transition holds exactly the
\* coins of its best block.
THEOREM DatabaseIsExact == Spec => []DbIsUtxo
<1>1. Exact => DbIsUtxo
  BY DEF Exact
<1> QED
  BY <1>1, ExactInvariant, PTL

\* Likewise a database that is marked has every coin as at one of its two heads, also when
\* the write that another crash interrupted was itself the end of a replay.
THEOREM DatabaseIsBetween == Spec => []DbIsBetween
<1>1. Exact => DbIsBetween
  BY DEF Exact
<1> QED
  BY <1>1, ExactInvariant, PTL

\* A write that goes on from a marked database goes to the tip it is marked with.
SameWrite == mode = "flushing" /\ heads # <<>> => heads[1] = tip

\* The assertion of BatchWrite, assert(old_heads[0] == hashBlock), holds: no flush for
\* another tip comes before the one that ends the replay.
THEOREM AssertionHolds == Spec => []SameWrite
<1>1. Placed => SameWrite
  BY DEF Placed, SameWrite
<1> QED
  BY <1>1, ExactInvariant, PTL

-----------------------------------------------------------------------------
(* A flush is atomic.                                                      *)

\* A step that keeps the saved tip, and what an up node sees, does not show.
LEMMA NotSeen ==
    ASSUME NodeUp' = NodeUp, Saved' = Saved, NodeUp => UNCHANGED <<tip, coins>>
    PROVE  UNCHANGED Atomic!atomicVars
BY DEF Atomic!atomicVars

\* A step of a node that stays up and moves its tip.
LEMMA TipMoves ==
    ASSUME NodeUp, NodeUp', Saved' = Saved, tip' \in Blocks, coins' = Utxo[tip'],
           \/ tip' # Genesis /\ Parent[tip'] = tip
           \/ tip # Genesis /\ tip' = Parent[tip]
    PROVE  Atomic!AtomicNext
<1>1. Atomic!MoveTip(tip')
  BY DEF Atomic!MoveTip
<1> QED
  BY <1>1 DEF Atomic!AtomicNext

\* Every step is one of the abstract specification, or does not show.
LEMMA AtomicStep ==
    ASSUME Placed, Placed', Exact', [Next]_vars
    PROVE  [Atomic!AtomicNext]_(Atomic!atomicVars)
<1>0. tip \in Blocks /\ tip' \in Blocks /\ (NodeUp' => coins' = Utxo[tip']) /\ Null \notin Blocks
  BY BlockAssumption DEF Placed, Exact, ViewIsUtxo, NodeUp
<1>1. CASE \/ \E b \in Blocks \ {Genesis} : AcceptBlock(b)
           \/ \E full \in BOOLEAN : FlushStateToDisk(full)
  <2>1. NodeUp' = NodeUp /\ UNCHANGED <<heads, best, tip, coins>>
    BY <1>1, SMT DEF AcceptBlock, FlushStateToDisk, NodeUp
  <2> QED
    BY <2>1, NotSeen DEF Saved
<1>2. CASE (\E b \in Blocks \ {Genesis} : ConnectTip(b)) \/ DisconnectTip
  <2>1. NodeUp /\ NodeUp' /\ UNCHANGED <<heads, best>>
    BY <1>2 DEF ConnectTip, DisconnectTip, NodeUp
  <2>2. \/ tip' # Genesis /\ Parent[tip'] = tip
        \/ tip # Genesis /\ tip' = Parent[tip]
    BY <1>2 DEF ConnectTip, DisconnectTip
  <2> QED
    BY <1>0, <2>1, <2>2, TipMoves DEF Saved
\* Every batch has the tip for what the database stands for.
<1>3. CASE (\E S \in SUBSET pending : WritePartial(S)) \/ WriteFinal
  <2>1. NodeUp = TRUE /\ NodeUp' = TRUE /\ UNCHANGED <<tip, coins>>
    BY <1>3 DEF WritePartial, WriteFinal, NodeUp
  <2>2. Saved' = tip
    BY <1>0, <1>3, PairIsNotEmpty, SMT DEF WritePartial, WriteFinal, Saved, Null0
  <2>3. Atomic!Flush
    BY <2>1, <2>2 DEF Atomic!Flush
  <2> QED
    BY <2>3 DEF Atomic!AtomicNext
<1>4. CASE Crash
  <2>1. NodeUp = TRUE /\ NodeUp' = FALSE /\ UNCHANGED <<heads, best>>
    BY <1>4, SMT DEF Crash, NodeUp
  <2>2. Atomic!GoDown
    BY <2>1 DEF Atomic!GoDown, Saved
  <2> QED
    BY <2>2 DEF Atomic!AtomicNext
<1>5. CASE Start
  <2>1. NodeUp = FALSE /\ UNCHANGED <<heads, best>> /\ tip' = Saved
    BY <1>5, SMT DEF Start, NodeUp, Saved
  <2>2. Saved' = Saved
    BY <2>1 DEF Saved
  <2>3. CASE NodeUp'
    <3>1. Atomic!ComeUp
      BY <1>0, <2>1, <2>2, <2>3 DEF Atomic!ComeUp, NodeUp
    <3> QED
      BY <3>1 DEF Atomic!AtomicNext
  <2>4. CASE ~NodeUp'
    <3>1. NodeUp' = NodeUp
      BY <2>1, <2>4, SMT DEF NodeUp
    <3> QED
      BY <2>1, <2>2, <3>1, NotSeen
  <2> QED
    BY <2>3, <2>4
<1>6. CASE UNCHANGED vars
  BY <1>6, NotSeen DEF vars, NodeUp, Saved
<1> QED
  BY <1>1, <1>2, <1>3, <1>4, <1>5, <1>6 DEF Next

\* Writing the coins in batches, with ReplayBlocks, implements a flush that happens at once:
\* for any tree of blocks, any batches and any number of crashes the node comes up with
\* exactly the coins of the tip whose write was begun last, or does not come up.
THEOREM FlushImplementsAtomic == Spec => FlushIsAtomic
<1>1. Init => Atomic!AtomicInit
  BY DEF Init, Atomic!AtomicInit, NodeUp, Saved, Null0
<1>2. Placed /\ Placed' /\ Exact' /\ [Next]_vars => [Atomic!AtomicNext]_(Atomic!atomicVars)
  BY AtomicStep
<1> QED
  BY <1>1, <1>2, ExactInvariant, PTL DEF Spec, FlushIsAtomic, Atomic!AtomicSpec
=============================================================================
