-------------------------- MODULE BlockTreeProofs --------------------------
(***************************************************************************)
(* Facts about the tree of blocks, for any tree in which a block comes     *)
(* after its parent.  The recursive functions are shown to be what their   *)
(* equations say by naming them without recursion: Chain[b] is the least   *)
(* set with b that is closed under Parent, nHeight[b] its size less one.   *)
(***************************************************************************)
EXTENDS BlockTree, WellFoundedInduction, TLAPS

\* The leaves are first-order; those that need arithmetic cite SMT.
USE Zenon

\* Closed under Parent
Closed == {S \in SUBSET Blocks : \A c \in S \ {Genesis} : Parent[c] \in S}

LeastChain(b) == {a \in Blocks : \A S \in Closed : b \in S => a \in S}

\* What is true of the genesis block, and of a block when it is true of its parent, is
\* true of every block.
LEMMA TreeInduction ==
    ASSUME NEW S, Genesis \in S,
           \A b \in Blocks \ {Genesis} : Parent[b] \in S => b \in S
    PROVE  Blocks \subseteq S
<1>1. SUFFICES ASSUME Blocks \ S # {} PROVE FALSE
  OBVIOUS
<1>2. PICK x \in Blocks \ S : \A y \in Blocks \ S : ~(<<y, x>> \in OpToRel(<, Nat))
  <2>1. Blocks \ S \subseteq Nat
    BY TreeAssumption
  <2> QED
    BY <1>1, <2>1, WFMin, NatLessThanWellFounded
<1>3. x # Genesis /\ Parent[x] \in Blocks \ S
  BY <1>2, TreeAssumption
<1>4. Parent[x] \in Nat /\ x \in Nat /\ Parent[x] < x
  BY <1>3, TreeAssumption
<1>5. <<Parent[x], x>> \in OpToRel(<, Nat)
  BY <1>4 DEF OpToRel
<1> QED
  BY <1>2, <1>3, <1>5

\* The least chain has the equation of Chain.
LEMMA LeastChainUnfolds ==
    ASSUME NEW b \in Blocks
    PROVE  LeastChain(b) = IF b = Genesis THEN {b} ELSE LeastChain(Parent[b]) \cup {b}
<1>1. CASE b = Genesis
  <2>1. {Genesis} \in Closed
    BY TreeAssumption DEF Closed
  <2> QED
    BY <1>1, <2>1 DEF LeastChain
<1>2. CASE b # Genesis
  <2>1. Parent[b] \in Blocks
    BY <1>2, TreeAssumption
  <2>2. ASSUME NEW a \in LeastChain(b), a # b PROVE a \in LeastChain(Parent[b])
    <3>1. ASSUME NEW S \in Closed, Parent[b] \in S PROVE a \in S
      <4>1. S \cup {b} \in Closed
        BY <3>1, <1>2 DEF Closed
      <4> QED
        BY <4>1, <2>2 DEF LeastChain
    <3> QED
      BY <3>1, <2>2 DEF LeastChain
  <2>3. ASSUME NEW a \in LeastChain(Parent[b]) PROVE a \in LeastChain(b)
    BY <1>2, <2>3 DEF LeastChain, Closed
  <2>4. b \in LeastChain(b)
    BY DEF LeastChain
  <2> QED
    BY <1>2, <2>2, <2>3, <2>4
<1> QED
  BY <1>1, <1>2

\* Chain is a solution of its equation.
LEMMA ChainUnfolds ==
    Chain = [b \in Blocks |-> IF b = Genesis THEN {b} ELSE Chain[Parent[b]] \cup {b}]
<1> DEFINE f == [b \in Blocks |-> LeastChain(b)]
<1>1. ASSUME NEW b \in Blocks
      PROVE  LeastChain(b) = IF b = Genesis THEN {b} ELSE f[Parent[b]] \cup {b}
  BY LeastChainUnfolds, TreeAssumption
<1>2. f = [b \in Blocks |-> IF b = Genesis THEN {b} ELSE f[Parent[b]] \cup {b}]
  BY <1>1
<1>3. \E g : g = [b \in Blocks |-> IF b = Genesis THEN {b} ELSE g[Parent[b]] \cup {b}]
  BY <1>2
<1> QED
  BY <1>3 DEF Chain

\* The same, block by block.
LEMMA ChainOf ==
    /\ Chain[Genesis] = {Genesis}
    /\ \A b \in Blocks \ {Genesis} : Chain[b] = Chain[Parent[b]] \cup {b}
    /\ \A b \in Blocks : b \in Chain[b]
BY ChainUnfolds, TreeAssumption

\* A chain consists of blocks that are not newer than its last.
LEMMA ChainBounded ==
    \A b \in Blocks : Chain[b] \subseteq {a \in Blocks : a <= b}
<1> DEFINE S == {b \in Blocks : Chain[b] \subseteq {a \in Blocks : a <= b}}
<1>1. Genesis \in S
  BY ChainOf, TreeAssumption, SMT
<1>2. ASSUME NEW b \in Blocks \ {Genesis}, Parent[b] \in S PROVE b \in S
  <2>1. Parent[b] \in Nat /\ b \in Nat /\ Parent[b] < b
    BY TreeAssumption
  <2>2. ASSUME NEW a \in Chain[Parent[b]] PROVE a \in Blocks /\ a <= b
    <3>1. a \in Blocks /\ a <= Parent[b]
      BY <1>2
    <3>2. a \in Nat
      BY <3>1, TreeAssumption
    <3> QED
      BY <2>1, <3>1, <3>2, SMT
  <2>3. b <= b
    BY <2>1, SMT
  <2> QED
    BY <2>2, <2>3, ChainOf, SMT
<1>3. Blocks \subseteq S
  BY <1>1, <1>2, TreeInduction
<1> QED
  BY <1>3

\* An ancestor's chain is a part of the chain.
LEMMA ChainTransitive ==
    \A b \in Blocks : \A a \in Chain[b] : Chain[a] \subseteq Chain[b]
<1> DEFINE S == {b \in Blocks : \A a \in Chain[b] : Chain[a] \subseteq Chain[b]}
<1>1. Genesis \in S
  BY ChainOf, TreeAssumption
<1>2. ASSUME NEW b \in Blocks \ {Genesis}, Parent[b] \in S PROVE b \in S
  BY <1>2, ChainOf, TreeAssumption, SMT
<1> QED
  BY <1>1, <1>2, TreeInduction

\* The parent of a block of a chain is in the chain.
LEMMA ChainClosed ==
    \A b \in Blocks : \A a \in Chain[b] \ {Genesis} : Parent[a] \in Chain[b]
<1> SUFFICES ASSUME NEW b \in Blocks, NEW a \in Chain[b] \ {Genesis}
             PROVE  Parent[a] \in Chain[b]
  OBVIOUS
<1>1. a \in Blocks \ {Genesis} /\ Parent[a] \in Blocks
  BY ChainBounded, TreeAssumption
<1>2. Parent[a] \in Chain[a]
  BY <1>1, ChainOf
<1> QED
  BY <1>2, ChainTransitive

\* Of two blocks of a chain one is an ancestor of the other.
LEMMA ChainLinear ==
    \A b \in Blocks : \A a, c \in Chain[b] : a \in Chain[c] \/ c \in Chain[a]
<1> DEFINE S == {b \in Blocks : \A a, c \in Chain[b] : a \in Chain[c] \/ c \in Chain[a]}
<1>1. Genesis \in S
  BY ChainOf, TreeAssumption
<1>2. ASSUME NEW b \in Blocks \ {Genesis}, Parent[b] \in S PROVE b \in S
  BY <1>2, ChainOf, TreeAssumption, SMT
<1> QED
  BY <1>1, <1>2, TreeInduction

\* The parent of a block is a block, and its chain ends below the block.
LEMMA ParentBelow ==
    ASSUME NEW b \in Blocks \ {Genesis}
    PROVE  /\ Parent[b] \in Blocks /\ b \notin Chain[Parent[b]]
           /\ Chain[b] = Chain[Parent[b]] \cup {b}
<1>1. Parent[b] \in Blocks /\ Parent[b] \in Nat /\ b \in Nat /\ Parent[b] < b
  BY TreeAssumption
<1>2. b \in Chain[Parent[b]] => b <= Parent[b]
  BY <1>1, ChainBounded
<1> QED
  BY <1>1, <1>2, ChainOf, SMT

\* The genesis block is in every chain.
LEMMA GenesisInChain == \A b \in Blocks : Genesis \in Chain[b]
<1> DEFINE S == {b \in Blocks : Genesis \in Chain[b]}
<1>1. Genesis \in S
  BY ChainOf, TreeAssumption
<1>2. ASSUME NEW b \in Blocks \ {Genesis}, Parent[b] \in S PROVE b \in S
  BY <1>2, ChainOf, SMT
<1>3. Blocks \subseteq S
  BY <1>1, <1>2, TreeInduction
<1> QED
  BY <1>3

\* The parent of a block of a chain is in the chain.
LEMMA ParentInChain ==
    ASSUME NEW b \in Blocks, NEW c \in Chain[b] \ {Genesis}
    PROVE  Parent[c] \in Chain[b] /\ c \in Blocks /\ Parent[c] \in Blocks
<1>1. c \in Blocks /\ Parent[c] \in Blocks
  BY ChainBounded, TreeAssumption
<1>2. Parent[c] \in Chain[c] /\ Chain[c] \subseteq Chain[b]
  BY <1>1, ChainOf, ChainTransitive, SMT
<1> QED
  BY <1>1, <1>2

-----------------------------------------------------------------------------
(* Recursion along the chain of a block, from the blocks of a set up.      *)

\* One step up: G is the function of the block.
Up(h, stop, base, G, b) == IF b \in stop THEN base ELSE G[b][h[Parent[b]]]

\* The equation, on one chain alone.
IsUpTo(h, stop, base, G, b) == h = [c \in Chain[b] |-> Up(h, stop, base, G, c)]

\* Every chain has such a function.
LEMMA UpToExists ==
    ASSUME NEW stop, NEW base, NEW G, Genesis \in stop
    PROVE  \A b \in Blocks : \E h : IsUpTo(h, stop, base, G, b)
<1> DEFINE S == {b \in Blocks : \E h : IsUpTo(h, stop, base, G, b)}
<1>1. Genesis \in S
  <2> DEFINE h == [c \in Chain[Genesis] |-> base]
  <2>1. IsUpTo(h, stop, base, G, Genesis)
    BY ChainOf DEF IsUpTo, Up
  <2> QED
    BY <2>1, TreeAssumption
<1>2. ASSUME NEW b \in Blocks \ {Genesis}, Parent[b] \in S PROVE b \in S
  <2>1. PICK g : IsUpTo(g, stop, base, G, Parent[b])
    BY <1>2
  <2> DEFINE h == [c \in Chain[b] |-> IF c = b THEN Up(g, stop, base, G, b) ELSE g[c]]
  <2>2. Chain[b] = Chain[Parent[b]] \cup {b} /\ b \notin Chain[Parent[b]] /\ Parent[b] \in Blocks
    BY ParentBelow
  <2>3. Parent[b] \in Chain[Parent[b]]
    BY <2>2, ChainOf
  <2>4. \A c \in Chain[Parent[b]] : h[c] = g[c]
    BY <2>2
  <2>5. ASSUME NEW c \in Chain[b] PROVE h[c] = Up(h, stop, base, G, c)
    <3>1. CASE c = b
      BY <2>2, <2>3, <2>4, <3>1 DEF Up
    <3>2. CASE c \in Chain[Parent[b]]
      <4>1. h[c] = g[c]
        BY <2>4, <3>2
      <4>2. g[c] = Up(g, stop, base, G, c)
        BY <2>1, <3>2 DEF IsUpTo
      <4>3. c \notin stop => h[Parent[c]] = g[Parent[c]]
        BY <2>2, <2>4, <3>2, ParentInChain
      <4> HIDE DEF h
      <4> QED
        BY <4>1, <4>2, <4>3 DEF Up
    <3> QED
      BY <2>2, <3>1, <3>2
  <2>6. IsUpTo(h, stop, base, G, b)
    BY <2>5 DEF IsUpTo
  <2> QED
    BY <2>6
<1>3. Blocks \subseteq S
  BY <1>1, <1>2, TreeInduction
<1> QED
  BY <1>3

\* Two of them agree where both are defined.
LEMMA UpToUnique ==
    ASSUME NEW stop, NEW base, NEW G, Genesis \in stop, NEW a \in Blocks, NEW b \in Blocks,
           NEW g, NEW h, IsUpTo(g, stop, base, G, a), IsUpTo(h, stop, base, G, b),
           NEW x \in Chain[a] \cap Chain[b]
    PROVE  g[x] = h[x]
<1> DEFINE S == {c \in Blocks : c \in Chain[a] \cap Chain[b] => g[c] = h[c]}
<1>1. Genesis \in S
  BY TreeAssumption DEF IsUpTo, Up
<1>2. ASSUME NEW c \in Blocks \ {Genesis}, Parent[c] \in S PROVE c \in S
  <2>1. SUFFICES ASSUME c \in Chain[a] \cap Chain[b] PROVE g[c] = h[c]
    OBVIOUS
  <2>2. Parent[c] \in Chain[a] \cap Chain[b]
    BY <2>1, ParentInChain
  <2>3. g[c] = Up(g, stop, base, G, c) /\ h[c] = Up(h, stop, base, G, c)
    BY <2>1 DEF IsUpTo
  <2> QED
    BY <1>2, <2>2, <2>3 DEF Up
<1>3. x \in S
  BY <1>1, <1>2, TreeInduction, ChainBounded
<1> QED
  BY <1>3

IsUp(f, stop, base, G) == f = [b \in Blocks |-> Up(f, stop, base, G, b)]

\* So the equation has a solution on all blocks.
LEMMA UpExists ==
    ASSUME NEW stop, NEW base, NEW G, Genesis \in stop
    PROVE  \E f : IsUp(f, stop, base, G)
<1> DEFINE H(b) == CHOOSE h : IsUpTo(h, stop, base, G, b)
           f == [b \in Blocks |-> H(b)[b]]
<1>1. \A b \in Blocks : IsUpTo(H(b), stop, base, G, b)
  BY UpToExists
<1> HIDE DEF H
<1>2. ASSUME NEW b \in Blocks PROVE f[b] = Up(f, stop, base, G, b)
  <2>1. b \in Chain[b] /\ IsUpTo(H(b), stop, base, G, b)
    BY <1>1, ChainOf
  <2>2. H(b)[b] = Up(H(b), stop, base, G, b)
    BY <2>1 DEF IsUpTo
  <2>3. ASSUME b \notin stop
        PROVE  H(b)[Parent[b]] = H(Parent[b])[Parent[b]] /\ Parent[b] \in Blocks
    <3>1. Parent[b] \in Blocks /\ Parent[b] \in Chain[b] /\ Parent[b] \in Chain[Parent[b]]
      BY <2>1, <2>3, ChainOf, ParentInChain
    <3>2. IsUpTo(H(Parent[b]), stop, base, G, Parent[b])
      BY <1>1, <3>1
    <3> QED
      BY <2>1, <3>1, <3>2, UpToUnique, SMT
  <2> QED
    BY <2>2, <2>3 DEF Up
<1>3. IsUp(f, stop, base, G)
  BY <1>2 DEF IsUp
<1> HIDE DEF f
<1> QED
  BY <1>3

-----------------------------------------------------------------------------
(* Heights.                                                                *)

\* nHeight is a solution of its equation.
LEMMA HeightUnfolds ==
    nHeight = [b \in Blocks |-> IF b = Genesis THEN 0 ELSE nHeight[Parent[b]] + 1]
<1> DEFINE G == [b \in Blocks |-> [n \in Nat |-> n + 1]]
           stop == {Genesis}
<1>1. Genesis \in stop /\ \A b \in Blocks : \A n \in Nat : G[b][n] = n + 1
  OBVIOUS
<1> HIDE DEF G, stop
<1>2. PICK f : IsUp(f, stop, 0, G)
  BY <1>1, UpExists
<1>3. f[Genesis] = 0 /\ \A b \in Blocks \ {Genesis} : f[b] = G[b][f[Parent[b]]]
  BY <1>2, TreeAssumption DEF IsUp, Up, stop
<1> DEFINE S == {b \in Blocks : f[b] \in Nat}
<1>4. Genesis \in S
  BY <1>3, TreeAssumption, SMT
<1>5. ASSUME NEW b \in Blocks \ {Genesis}, Parent[b] \in S PROVE b \in S
  BY <1>1, <1>3, <1>5, SMT
<1>6. \A b \in Blocks : f[b] \in Nat
  BY <1>4, <1>5, TreeInduction
<1>7. \A b \in Blocks \ {Genesis} : f[b] = f[Parent[b]] + 1
  BY <1>1, <1>3, <1>6, TreeAssumption
<1>8. f = [b \in Blocks |-> IF b = Genesis THEN 0 ELSE f[Parent[b]] + 1]
  BY <1>2, <1>3, <1>7 DEF IsUp
<1> QED
  BY <1>8 DEF nHeight

\* The same, block by block.
LEMMA HeightOf ==
    /\ nHeight[Genesis] = 0
    /\ \A b \in Blocks \ {Genesis} : nHeight[b] = nHeight[Parent[b]] + 1
    /\ \A b \in Blocks : nHeight[b] \in Nat
<1>1. nHeight[Genesis] = 0 /\ \A b \in Blocks \ {Genesis} : nHeight[b] = nHeight[Parent[b]] + 1
  BY HeightUnfolds, TreeAssumption
<1> DEFINE S == {b \in Blocks : nHeight[b] \in Nat}
<1>2. Genesis \in S
  BY <1>1, TreeAssumption, SMT
<1>3. ASSUME NEW b \in Blocks \ {Genesis}, Parent[b] \in S PROVE b \in S
  BY <1>1, <1>3, TreeAssumption, SMT
<1>4. Blocks \subseteq S
  BY <1>2, <1>3, TreeInduction
<1> QED
  BY <1>1, <1>4

\* An ancestor is lower than the block: two blocks of one chain have two heights.
LEMMA HeightOfAncestor ==
    \A b \in Blocks : \A a \in Chain[b] : a # b => nHeight[a] < nHeight[b]
<1> DEFINE S == {b \in Blocks : \A a \in Chain[b] : a # b => nHeight[a] < nHeight[b]}
<1>1. Genesis \in S
  BY ChainOf, TreeAssumption
<1>2. ASSUME NEW b \in Blocks \ {Genesis}, Parent[b] \in S PROVE b \in S
  <2>1. nHeight[b] = nHeight[Parent[b]] + 1 /\ nHeight[Parent[b]] \in Nat
    BY HeightOf, TreeAssumption
  <2>2. ASSUME NEW a \in Chain[Parent[b]] PROVE nHeight[a] < nHeight[b]
    <3>1. nHeight[a] \in Nat
      BY ChainBounded, HeightOf, TreeAssumption
    <3>2. a = Parent[b] \/ nHeight[a] < nHeight[Parent[b]]
      BY <1>2
    <3> QED
      BY <2>1, <3>1, <3>2, SMT
  <2> QED
    BY <2>2, ChainOf, SMT
<1>3. Blocks \subseteq S
  BY <1>1, <1>2, TreeInduction
<1> QED
  BY <1>3

\* The parent of a block is lower, too.
LEMMA ParentOf ==
    ASSUME NEW b \in Blocks \ {Genesis}
    PROVE  /\ Parent[b] \in Blocks /\ b \notin Chain[Parent[b]]
           /\ Chain[b] = Chain[Parent[b]] \cup {b}
           /\ nHeight[Parent[b]] < nHeight[b]
<1>1. nHeight[b] = nHeight[Parent[b]] + 1 /\ nHeight[Parent[b]] \in Nat
  BY ParentBelow, HeightOf
<1> QED
  BY <1>1, ParentBelow, SMT

-----------------------------------------------------------------------------
(* Two chains.                                                             *)

\* Two chains fork at a block, and have in common what is below it.
LEMMA CommonAncestor ==
    ASSUME NEW b \in Blocks, NEW top \in Blocks
    PROVE  \E f \in Chain[b] \cap Chain[top] : Chain[b] \cap Chain[top] = Chain[b] \cap Chain[f]
<1> DEFINE Forks(x) == \E f \in Chain[x] \cap Chain[top] :
                           Chain[x] \cap Chain[top] = Chain[x] \cap Chain[f]
           S == {x \in Blocks : Forks(x)}
<1>1. ASSUME NEW x \in Blocks, x \in Chain[top] PROVE Forks(x)
  <2>1. x \in Chain[x] /\ Chain[x] \subseteq Chain[top]
    BY <1>1, ChainOf, ChainTransitive
  <2> QED
    BY <1>1, <2>1
<1>2. Genesis \in S
  BY <1>1, GenesisInChain, TreeAssumption
<1>3. ASSUME NEW x \in Blocks \ {Genesis}, Parent[x] \in S PROVE x \in S
  <2>1. CASE x \in Chain[top]
    BY <1>1, <2>1
  <2>2. CASE x \notin Chain[top]
    <3>1. Chain[x] = Chain[Parent[x]] \cup {x}
      BY ParentOf
    <3>2. PICK f \in Chain[Parent[x]] \cap Chain[top] :
              Chain[Parent[x]] \cap Chain[top] = Chain[Parent[x]] \cap Chain[f]
      BY <1>3
    <3>3. x \notin Chain[f]
      BY <2>2, <3>2, ChainTransitive
    <3> QED
      BY <2>2, <3>1, <3>2, <3>3, SMT
  <2> QED
    BY <2>1, <2>2
<1>4. b \in S
  BY <1>2, <1>3, TreeInduction
<1> QED
  BY <1>4

\* Every block of a chain but the last one has a child in it.
LEMMA ChildInChain ==
    ASSUME NEW top \in Blocks, NEW a \in Chain[top], a # top
    PROVE  \E c \in Chain[top] \ {Genesis} : Parent[c] = a
<1> DEFINE S == {x \in Blocks : a \in Chain[x] /\ a # x => \E c \in Chain[x] \ {Genesis} : Parent[c] = a}
<1>1. Genesis \in S
  BY ChainOf, TreeAssumption
<1>2. ASSUME NEW x \in Blocks \ {Genesis}, Parent[x] \in S PROVE x \in S
  <2>1. Chain[x] = Chain[Parent[x]] \cup {x} /\ x \in Chain[x]
    BY ParentOf, SMT
  <2>2. CASE a = Parent[x]
    BY <2>1, <2>2
  <2>3. CASE a # Parent[x]
    BY <1>2, <2>1, <2>3
  <2> QED
    BY <2>2, <2>3
<1>3. top \in S
  BY <1>1, <1>2, TreeInduction
<1> QED
  BY <1>3

-----------------------------------------------------------------------------
(* Indices of a sequence.                                                  *)

\* What is true of 0, and of n + 1 when it is true of n, is true of every number.
LEMMA NatSteps ==
    ASSUME NEW S, 0 \in S, \A n \in Nat : n \in S => n + 1 \in S
    PROVE  Nat \subseteq S
<1>1. SUFFICES ASSUME Nat \ S # {} PROVE FALSE
  OBVIOUS
<1>2. PICK x \in Nat \ S : \A y \in Nat \ S : ~(<<y, x>> \in OpToRel(<, Nat))
  BY <1>1, WFMin, NatLessThanWellFounded
<1>3. x - 1 \in Nat \ S /\ x - 1 < x /\ x \in Nat
  <2>1. x # 0 /\ x \in Nat /\ x \notin S
    BY <1>2
  <2>2. x - 1 \in Nat /\ (x - 1) + 1 = x
    BY <2>1, SMT
  <2> QED
    BY <2>1, <2>2, SMT
<1>4. <<x - 1, x>> \in OpToRel(<, Nat)
  BY <1>3 DEF OpToRel
<1> QED
  BY <1>2, <1>3, <1>4

\* A set of naturals has a least element.
LEMMA LeastOf ==
    ASSUME NEW S \in SUBSET Nat, S # {}
    PROVE  \E x \in S : \A y \in S : x <= y
<1>1. PICK x \in S : \A y \in S : ~(<<y, x>> \in OpToRel(<, Nat))
  BY WFMin, NatLessThanWellFounded
<1>2. ASSUME NEW y \in S PROVE x <= y
  <2>1. x \in Nat /\ y \in Nat
    OBVIOUS
  <2>2. y < x => <<y, x>> \in OpToRel(<, Nat)
    BY <2>1 DEF OpToRel
  <2>3. ~(y < x)
    BY <1>1, <2>2
  <2> QED
    BY <2>1, <2>3, SMT
<1> QED
  BY <1>2

\* A set of indices has a largest one.
LEMMA GreatestOf ==
    \A n \in Nat : \A s \in SUBSET (1..n) : s # {} => \E x \in s : \A y \in s : y <= x
<1> DEFINE S == {n \in Nat : \A s \in SUBSET (1..n) : s # {} => \E x \in s : \A y \in s : y <= x}
<1>1. 0 \in S
  <2>1. 1..0 = {} /\ 0 \in Nat
    BY SMT
  <2> QED
    BY <2>1
<1>2. ASSUME NEW n \in Nat, n \in S PROVE n + 1 \in S
  <2> SUFFICES ASSUME NEW s \in SUBSET (1..(n + 1)), s # {} PROVE \E x \in s : \A y \in s : y <= x
    BY SMT
  <2>1. CASE n + 1 \in s
    BY <2>1, SMT
  <2>2. CASE n + 1 \notin s
    <3>1. s \in SUBSET (1..n)
      BY <2>2, SMT
    <3> QED
      BY <1>2, <3>1
  <2> QED
    BY <2>1, <2>2
<1>3. Nat \subseteq S
  BY <1>1, <1>2, NatSteps
<1> QED
  BY <1>3
=============================================================================
