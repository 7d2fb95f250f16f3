-------------------------- MODULE ChainStateProofs --------------------------
(***************************************************************************)
(* Proofs about CChainState for any tree of blocks.                        *)
(*                                                                         *)
(* Base is what holds whatever the commands do.  With commands only        *)
(* between activations the active chain is valid (Valid), and without      *)
(* preciousblock the candidates are complete and the best chain becomes    *)
(* active (Best).                                                          *)
(***************************************************************************)
EXTENDS ChainState, BlockTreeProofs, FiniteSetTheorems

\* The leaves are first-order; those that need arithmetic cite SMT.
USE Zenon

\* Ancestors of a known block are known, and those of a linked block are linked.
Ancestry ==
    /\ \A b \in index : Chain[b] \subseteq index
    /\ \A b \in chained : Chain[b] \subseteq chained
    /\ \A b \in data : valid[b] >= TRANSACTIONS

\* The tip and what ActivateBestChain works towards are linked; its locals are set.
Locals ==
    /\ tip \in chained /\ pindexMostWork \in chained \cup {None}
    /\ pc = "idle" => pindexMostWork = None
    /\ pc = "step" => pindexMostWork # None /\ pindexOldTip # None
    /\ Locked => starting_tip # None

Shape == TypeOK /\ Ancestry /\ Locals
Base == Shape /\ FailedBlocksKnown /\ FailedFromInvalid

\* Nothing on the active chain, or on the way to what is worked towards, was found
\* invalid; the active chain passed ConnectBlock.
Valid ==
    /\ chainActive \cap (Failed \cup BadScripts) = {}
    /\ pindexMostWork # None => Chain[pindexMostWork] \cap Failed = {}

\* No candidate is worse than the tip, at any moment.
Pruned == \A b \in setBlockIndexCandidates : ~Worse(nSequenceId, b, tip)

\* The tip from which the hold of cs_main started is valid, and it is not worse than
\* the tip before pindexMostWork is being connected.
StartTip ==
    Locked => /\ starting_tip \in chained
              /\ Chain[starting_tip] \cap (Failed \cup BadScripts) = {}
              /\ \/ ~Worse(nSequenceId, starting_tip, tip)
                 \/ pc = "step" /\ tip \in Chain[pindexMostWork]

\* Not worse than the tip, now or when cs_main was taken.
AsGood(b) ==
    ~Worse(nSequenceId, b, tip) /\ (Locked => ~Worse(nSequenceId, b, starting_tip))

\* Linked blocks as good as the tip that are not marked are candidates.
Complete == \A b \in chained \ Failed : AsGood(b) => b \in setBlockIndexCandidates

\* What is worked towards is as good as the tip, and the best unless something has
\* happened since for which another ActivateBestChain waits.
MostWork ==
    pindexMostWork # None =>
        /\ AsGood(pindexMostWork)
        /\ waiting \/ \A b \in chained :
              Chain[b] \cap Failed = {} => ~Worse(nSequenceId, pindexMostWork, b)

Best == StartTip /\ Complete /\ MostWork /\ BestChainActive

-----------------------------------------------------------------------------
(* The tree and the order of the candidates.                               *)

\* A block of a chain that is not below another block of it is above it.
LEMMA ChainAbove ==
    ASSUME NEW c \in Blocks, NEW a \in Chain[c], NEW x \in Chain[c] \ Chain[a]
    PROVE  a \in Chain[x] /\ Chain[a] \subseteq Chain[x] /\ x \in Blocks
<1>1. a \in Chain[x] /\ x \in Blocks
  BY ChainLinear, ChainBounded
<1> QED
  BY <1>1, ChainTransitive

\* Two blocks that are ancestors of each other are the same.
LEMMA ChainAntisymmetric ==
    ASSUME NEW a \in Blocks, NEW b \in Blocks, a \in Chain[b], b \in Chain[a]
    PROVE  a = b
<1>1. a <= b /\ b <= a /\ a \in Nat /\ b \in Nat
  BY ChainBounded, TreeAssumption
<1> QED
  BY <1>1, SMT

\* CBlockIndexWorkComparator is a strict total order.
LEMMA WorseOrder ==
    ASSUME NEW seq \in [Blocks -> Int], NEW a \in Blocks, NEW b \in Blocks
    PROVE  /\ ~(Worse(seq, a, b) /\ Worse(seq, b, a))
           /\ Worse(seq, a, b) \/ Worse(seq, b, a) \/ a = b
           /\ nHeight[a] < nHeight[b] => Worse(seq, a, b)
           /\ ~Worse(seq, a, a)
<1>1. nHeight[a] \in Int /\ nHeight[b] \in Int /\ a \in Int /\ b \in Int /\ seq[a] \in Int
      /\ seq[b] \in Int
  BY HeightOf, TreeAssumption, SMT
<1> QED
  BY <1>1, SMT DEF Worse

\* What is worse than b is worse than what is as good as b.
LEMMA WorseTransitive ==
    ASSUME NEW seq \in [Blocks -> Int], NEW a \in Blocks, NEW b \in Blocks, NEW c \in Blocks,
           Worse(seq, a, b), ~Worse(seq, c, b)
    PROVE  Worse(seq, a, c)
<1>1. nHeight[a] \in Int /\ nHeight[b] \in Int /\ nHeight[c] \in Int /\ a \in Int /\ b \in Int
      /\ c \in Int /\ seq[a] \in Int /\ seq[b] \in Int /\ seq[c] \in Int
  BY HeightOf, TreeAssumption, SMT
<1> QED
  BY <1>1, SMT DEF Worse

\* A set of blocks has a best one.
LEMMA BestExists ==
    ASSUME NEW seq \in [Blocks -> Int], NEW S \in SUBSET Blocks, S # {}
    PROVE  \E c \in S : \A d \in S \ {c} : Worse(seq, d, c)
<1> DEFINE Better(x) == {y \in S : Worse(seq, x, y)}
           T == {Better(x) : x \in S}
<1>1. T \subseteq FiniteSubsetsOf(Blocks) /\ T # {}
  <2>1. \A x \in S : Better(x) \in SUBSET Blocks /\ IsFiniteSet(Better(x))
    BY BlockAssumption, FS_Subset
  <2> QED
    BY <2>1 DEF FiniteSubsetsOf
<1>2. PICK U \in T : \A V \in T : ~(<<V, U>> \in StrictSubsetOrdering(Blocks))
  <2> HIDE DEF T
  <2> QED
    BY <1>1, WFMin, FS_StrictSubsetOrderingWellFounded
<1>3. PICK x \in S : U = Better(x)
  OBVIOUS
<1>4. ASSUME NEW y \in S, Worse(seq, x, y) PROVE FALSE
  <2>1. \A z \in S : Worse(seq, y, z) => Worse(seq, x, z)
    <3>1. ASSUME NEW z \in S, Worse(seq, y, z) PROVE Worse(seq, x, z)
      <4>1. ~Worse(seq, z, y)
        BY <3>1, WorseOrder
      <4> QED
        BY <1>4, <4>1, WorseTransitive
    <3> QED
      BY <3>1
  <2>2. Better(y) \subseteq Better(x)
    BY <2>1
  <2>3. y \in Better(x) /\ y \notin Better(y)
    BY <1>4, WorseOrder
  <2>4. <<Better(y), Better(x)>> \in StrictSubsetOrdering(Blocks)
    BY <2>2, <2>3 DEF StrictSubsetOrdering
  <2> QED
    BY <1>2, <1>3, <2>4
<1>5. \A d \in S \ {x} : Worse(seq, d, x)
  BY <1>4, WorseOrder
<1> QED
  BY <1>5

\* FindMostWorkChain takes the best candidate.
LEMMA BestCandidateFacts ==
    ASSUME TypeOK, setBlockIndexCandidates # {}
    PROVE  /\ BestCandidate \in setBlockIndexCandidates
           /\ \A d \in setBlockIndexCandidates : ~Worse(nSequenceId, BestCandidate, d)
<1>1. setBlockIndexCandidates \in SUBSET Blocks /\ nSequenceId \in [Blocks -> Int]
  BY DEF TypeOK
<1>2. \E c \in setBlockIndexCandidates :
         \A d \in setBlockIndexCandidates \ {c} : Worse(nSequenceId, d, c)
  BY <1>1, BestExists
<1>3. /\ BestCandidate \in setBlockIndexCandidates
      /\ \A d \in setBlockIndexCandidates \ {BestCandidate} : Worse(nSequenceId, d, BestCandidate)
  BY <1>2 DEF BestCandidate
<1> QED
  BY <1>1, <1>3, WorseOrder

-----------------------------------------------------------------------------
(* ReceivedBlockTransactions.                                              *)

\* What is linked with a block had only waited for it, and is linked up to the block.
LEMMA NowLinkedFacts ==
    ASSUME NEW b \in Blocks \ {Genesis}
    PROVE  /\ NowLinked(b) \subseteq Blocks /\ IsFiniteSet(NowLinked(b))
           /\ NowLinked(b) \subseteq mapBlocksUnlinked \cup {b}
           /\ \A x \in NowLinked(b) : Chain[x] \subseteq Chain[Parent[b]] \cup NowLinked(b)
<1>1. NowLinked(b) \subseteq Blocks
  BY DEF NowLinked
<1>2. IsFiniteSet(NowLinked(b))
  BY <1>1, BlockAssumption, FS_Subset
<1>3. ASSUME NEW x \in NowLinked(b) PROVE x \in mapBlocksUnlinked \cup {b}
  <2>1. x \in Blocks /\ b \in Chain[x] /\ x \in Chain[x]
    BY ChainOf DEF NowLinked
  <2>2. x \in Chain[b] => x = b
    BY <2>1, ChainAntisymmetric
  <2> QED
    BY <2>1, <2>2 DEF NowLinked
<1>4. ASSUME NEW x \in NowLinked(b), NEW y \in Chain[x]
      PROVE  y \in Chain[Parent[b]] \cup NowLinked(b)
  <2>1. x \in Blocks /\ b \in Chain[x] /\ Chain[x] \ Chain[b] \subseteq mapBlocksUnlinked
    BY DEF NowLinked
  <2>2. CASE y \in Chain[b]
    <3>1. b \in NowLinked(b)
      BY ChainOf DEF NowLinked
    <3> QED
      BY <2>2, <3>1, ParentOf, SMT
  <2>3. CASE y \notin Chain[b]
    <3>1. b \in Chain[y] /\ y \in Blocks
      BY <2>1, <2>3, ChainAbove
    <3>2. Chain[y] \subseteq Chain[x]
      BY <2>1, ChainTransitive
    <3> QED
      BY <2>1, <3>1, <3>2 DEF NowLinked
  <2> QED
    BY <2>2, <2>3
<1> QED
  BY <1>1, <1>2, <1>3, <1>4

\* The sequence ids that ReceivedBlockTransactions gives are integers.
LEMMA SequenceType ==
    ASSUME NEW S \in SUBSET Blocks, IsFiniteSet(S), NEW rank \in LinkOrders(S),
           NEW n \in Nat \ {0}, NEW seq \in [Blocks -> Int]
    PROVE  /\ [x \in Blocks |-> IF x \in S THEN n + rank[x] ELSE seq[x]] \in [Blocks -> Int]
           /\ n + Cardinality(S) \in Nat \ {0}
<1>1. Cardinality(S) \in Nat
  BY FS_CardinalityType
<1>2. \A x \in S : rank[x] \in Int
  BY <1>1, SMT DEF LinkOrders
<1> QED
  BY <1>1, <1>2, SMT

-----------------------------------------------------------------------------
(* Base: types, ancestry and locals.                                       *)

\* AcceptBlock, for each of its three outcomes.
LEMMA AcceptBlockShape ==
    ASSUME Shape, NEW b \in Blocks \ {Genesis}, NEW fRequested \in BOOLEAN,
           AcceptBlock(b, fRequested)
    PROVE  Shape'
<1> USE DEF TREE, TRANSACTIONS, SCRIPTS, Shape
<1>0. b \in index \/ Parent[b] \in index
  BY DEF AcceptBlock, HeaderOk
<1>1. index' = index \cup {b} /\ \A x \in index' : Chain[x] \subseteq index'
  <2>1. index' = index \cup {b}
    BY DEF AcceptBlock
  <2>2. Chain[b] \subseteq index'
    BY <1>0, <2>1, ParentOf, SMT DEF Ancestry
  <2> QED
    BY <2>1, <2>2 DEF Ancestry
<1>2. TreeValid(b) \in [Blocks -> {0, TREE, TRANSACTIONS, SCRIPTS}]
      /\ \A x \in data : TreeValid(b)[x] >= TRANSACTIONS
  BY DEF TreeValid, TypeOK, Ancestry
<1>3. CASE ~Wanted(b, fRequested) \/ b \in BadBlocks
  <2>1. /\ valid' = TreeValid(b) /\ failedValid' \in {failedValid, failedValid \cup {b}}
        /\ waiting' \in {waiting, TRUE}
        /\ UNCHANGED <<data, chained, nSequenceId, nBlockSequenceId, setBlockIndexCandidates,
                       mapBlocksUnlinked, failedChild, nLastPreciousHeight,
                       nBlockReverseSequenceId, m_failed_blocks, tip, abc, commands>>
    BY <1>3 DEF AcceptBlock
  <2>2. TypeOK'
    BY <1>1, <1>2, <2>1 DEF TypeOK, abc
  <2>3. Ancestry'
    BY <1>1, <1>2, <2>1 DEF Ancestry
  <2>4. Locals'
    BY <2>1 DEF Locals, abc, Locked
  <2> QED
    BY <2>2, <2>3, <2>4
<1>4. CASE Wanted(b, fRequested) /\ b \notin BadBlocks
  <2>1. /\ ReceivedBlockTransactions(b) /\ waiting' = TRUE /\ b \notin data
        /\ UNCHANGED <<failedValid, failedChild, nLastPreciousHeight,
                       nBlockReverseSequenceId, m_failed_blocks, tip, abc, commands>>
    BY <1>4 DEF AcceptBlock, Wanted
  <2>2. data' = data \cup {b} /\ valid' = [valid EXCEPT ![b] = TRANSACTIONS]
    BY <2>1 DEF ReceivedBlockTransactions
  <2>3. valid' \in [Blocks -> {0, TREE, TRANSACTIONS, SCRIPTS}]
        /\ \A x \in data' : valid'[x] >= TRANSACTIONS
    BY <2>2, SMT DEF TypeOK, Ancestry
  <2>4. CASE Parent[b] \in chained
    <3> DEFINE linked == NowLinked(b)
    <3>1. linked \subseteq Blocks /\ IsFiniteSet(linked) /\ linked \subseteq mapBlocksUnlinked \cup {b}
          /\ \A x \in linked : Chain[x] \subseteq Chain[Parent[b]] \cup linked
      BY NowLinkedFacts
    <3>2. chained' = chained \cup linked /\ mapBlocksUnlinked' = mapBlocksUnlinked \ linked
          /\ setBlockIndexCandidates' \subseteq setBlockIndexCandidates \cup linked
      BY <2>1, <2>4 DEF ReceivedBlockTransactions, StillUnlinked
    <3>3. nSequenceId' \in [Blocks -> Int] /\ nBlockSequenceId' \in Nat \ {0}
      <4> HIDE DEF linked
      <4>1. PICK rank \in LinkOrders(linked) :
               nSequenceId' = [x \in Blocks |-> IF x \in linked THEN nBlockSequenceId + rank[x]
                                                ELSE nSequenceId[x]]
        BY <2>1, <2>4 DEF ReceivedBlockTransactions, linked
      <4>2. nBlockSequenceId' = nBlockSequenceId + Cardinality(linked)
        BY <2>1, <2>4 DEF ReceivedBlockTransactions, linked
      <4> QED
        BY <3>1, <4>1, <4>2, SequenceType, SMT DEF TypeOK
    <3> HIDE DEF linked
    <3>4. TypeOK'
      BY <1>1, <2>1, <2>2, <2>3, <3>1, <3>2, <3>3, SMT DEF TypeOK, abc
    <3>5. Ancestry'
      BY <1>1, <2>2, <2>3, <2>4, <3>1, <3>2 DEF Ancestry
    <3>6. Locals'
      BY <2>1, <3>2 DEF Locals, abc, Locked
    <3> QED
      BY <3>4, <3>5, <3>6
  <2>5. CASE Parent[b] \notin chained
    <3>1. mapBlocksUnlinked' \subseteq mapBlocksUnlinked \cup {b}
          /\ UNCHANGED <<chained, nSequenceId, nBlockSequenceId, setBlockIndexCandidates>>
      BY <2>1, <2>5 DEF ReceivedBlockTransactions
    <3>2. TypeOK'
      BY <1>1, <2>1, <2>2, <2>3, <3>1 DEF TypeOK, abc
    <3>3. Ancestry'
      BY <1>1, <2>2, <2>3, <3>1 DEF Ancestry
    <3>4. Locals'
      BY <2>1, <3>1 DEF Locals, abc, Locked
    <3> QED
      BY <3>2, <3>3, <3>4
  <2> QED
    BY <2>4, <2>5
<1> QED
  BY <1>3, <1>4

\* The headers and the commands.
LEMMA CommandShape ==
    ASSUME Shape, NEW b \in Blocks \ {Genesis},
           \/ AcceptBlockHeader(b) \/ RejectBlockHeader(b) \/ PreciousBlock(b)
           \/ InvalidateBlock(b) \/ ReconsiderBlock(b)
    PROVE  Shape'
<1> USE DEF TREE, TRANSACTIONS, SCRIPTS, Shape
<1>0. chainActive \subseteq chained
  BY DEF chainActive, Ancestry, Locals
<1>1. CASE AcceptBlockHeader(b)
  <2>1. Parent[b] \in index /\ b \notin index /\ index' = index \cup {b} /\ valid' = TreeValid(b)
    BY <1>1 DEF AcceptBlockHeader, HeaderOk
  <2>2. UNCHANGED <<data, failedValid, failedChild, chained, sequence, setBlockIndexCandidates,
                    mapBlocksUnlinked, m_failed_blocks, tip, waiting, abc, commands>>
    BY <1>1 DEF AcceptBlockHeader
  <2>3. TreeValid(b) \in [Blocks -> {0, TREE, TRANSACTIONS, SCRIPTS}]
        /\ \A x \in data : TreeValid(b)[x] >= TRANSACTIONS
    BY DEF TreeValid, TypeOK, Ancestry
  <2>4. TypeOK'
    BY <2>1, <2>2, <2>3 DEF TypeOK, abc, sequence
  <2>5. Chain[b] \subseteq index'
    BY <2>1, ParentOf, SMT DEF Ancestry
  <2>6. Ancestry' /\ Locals'
    BY <2>1, <2>2, <2>3, <2>5 DEF Ancestry, Locals, Locked, abc
  <2> QED
    BY <2>4, <2>6
<1>2. CASE RejectBlockHeader(b)
  <2>1. failedChild' \subseteq failedChild \cup Chain[Parent[b]] /\ Parent[b] \in index
    BY <1>2 DEF RejectBlockHeader
  <2>2. UNCHANGED <<index, valid, data, failedValid, chained, sequence, setBlockIndexCandidates,
                    mapBlocksUnlinked, m_failed_blocks, tip, waiting, abc, commands>>
    BY <1>2 DEF RejectBlockHeader
  <2>3. failedChild' \subseteq index
    BY <2>1 DEF TypeOK, Ancestry
  <2> QED
    BY <2>2, <2>3 DEF TypeOK, abc, sequence, Ancestry, Locals, Locked
<1>3. CASE PreciousBlock(b)
  <2>1. /\ setBlockIndexCandidates' \subseteq setBlockIndexCandidates \cup (chained \cap {b})
        /\ waiting' = TRUE /\ commands' = commands + 1 /\ nLastPreciousHeight' = nHeight[tip]
        /\ UNCHANGED <<index, status, nBlockSequenceId, mapBlocksUnlinked, m_failed_blocks, tip, abc>>
    BY <1>3 DEF PreciousBlock, Prune
  <2>2. nSequenceId' \in [Blocks -> Int] /\ nBlockReverseSequenceId' \in Int
    BY <1>3, SMT DEF PreciousBlock, TypeOK
  <2>3. nHeight[tip] \in Nat
    BY HeightOf DEF TypeOK
  <2>4. TypeOK'
    BY <2>1, <2>2, <2>3, SMT DEF TypeOK, abc, status
  <2> QED
    BY <2>1, <2>4 DEF status, abc, Ancestry, Locals, Locked
<1>4. CASE InvalidateBlock(b)
  <2>1. /\ tip' \in {tip, Parent[b]}
        /\ tip' # tip => b \in chainActive
        /\ failedChild' \subseteq failedChild \cup chainActive /\ failedValid' = failedValid \cup {b}
        /\ b \in index /\ m_failed_blocks' = m_failed_blocks \cup {b}
        /\ setBlockIndexCandidates' \subseteq setBlockIndexCandidates \cup chained
        /\ waiting' = TRUE /\ commands' = commands + 1
        /\ UNCHANGED <<index, valid, data, chained, sequence, mapBlocksUnlinked, abc>>
    BY <1>4 DEF InvalidateBlock
  <2>2. tip' \in chained
    <3>1. tip \in chained /\ tip \in Blocks /\ chainActive = Chain[tip] /\ Chain[tip] \subseteq chained
      BY <1>0 DEF Locals, chainActive, TypeOK, Ancestry
    <3>2. b \in Chain[tip] => Parent[b] \in Chain[tip]
      BY <1>0, <3>1, ChainClosed
    <3> QED
      BY <2>1, <3>1, <3>2
  <2>3. TypeOK'
    <3>1. chainActive \subseteq index /\ tip' \in index
      BY <1>0, <2>2 DEF TypeOK
    <3>2. /\ failedChild' \subseteq index /\ failedValid' \subseteq index
          /\ m_failed_blocks' \subseteq index /\ setBlockIndexCandidates' \subseteq chained
      BY <2>1, <3>1 DEF TypeOK
    <3>3. commands' \in Nat
      BY <2>1, SMT DEF TypeOK
    <3> QED
      BY <2>1, <3>1, <3>2, <3>3 DEF TypeOK, abc, sequence
  <2> QED
    BY <2>1, <2>2, <2>3 DEF abc, Ancestry, Locals, Locked
<1>5. CASE ReconsiderBlock(b)
  <2>1. /\ failedValid' \subseteq failedValid /\ failedChild' \subseteq failedChild
        /\ m_failed_blocks' \subseteq m_failed_blocks
        /\ setBlockIndexCandidates' \subseteq setBlockIndexCandidates \cup chained
        /\ waiting' = TRUE /\ commands' = commands + 1
        /\ UNCHANGED <<index, valid, data, chained, sequence, mapBlocksUnlinked, tip, abc>>
    BY <1>5 DEF ReconsiderBlock, StillFailed
  <2>2. TypeOK'
    BY <2>1, SMT DEF TypeOK, abc, sequence
  <2> QED
    BY <2>1, <2>2 DEF abc, Ancestry, Locals, Locked
<1> QED
  BY <1>1, <1>2, <1>3, <1>4, <1>5

\* Continue sets the locals as its place requires.
LEMMA ContinueLocals ==
    ASSUME NEW where \in {"idle", "select", "released"}, NEW w, Continue(where, w)
    PROVE  /\ pc' = where /\ pindexMostWork' \in {w, None} /\ pindexOldTip' = None
           /\ where = "idle" => pindexMostWork' = None
           /\ where # "idle" => pindexMostWork' = w
           /\ starting_tip' = IF where = "select" THEN starting_tip ELSE None
           /\ blocks_connected' \in BOOLEAN
BY DEF Continue

\* The end of a step of ActivateBestChain.
LEMMA EndStepLocals ==
    ASSUME NEW w, NEW top, EndStep(w, top)
    PROVE  \E where \in {"idle", "select", "released"} :
              /\ Continue(where, w)
              /\ where = "idle" => top = w
              /\ where = "select" <=> Worse(nSequenceId, top, starting_tip)
BY DEF EndStep, AfterRelease

\* When a step of ActivateBestChain has ended with its tip, the locals are right.
LEMMA EndStepShape ==
    ASSUME Shape, Locked, NEW w \in chained \cup {None}, NEW top, EndStep(w, top),
           UNCHANGED <<index, chained>>, tip' \in chained
    PROVE  /\ Locals'
           /\ pc' \in {"idle", "select", "step", "released"} /\ blocks_connected' \in BOOLEAN
           /\ {pindexMostWork', starting_tip', pindexOldTip'} \subseteq index' \cup {None}
<1> USE DEF Shape
<1>1. PICK where \in {"idle", "select", "released"} :
         Continue(where, w) /\ (where = "idle" => top = w)
  BY EndStepLocals
<1>2. /\ pc' = where /\ pindexMostWork' \in {w, None} /\ pindexOldTip' = None
      /\ where = "idle" => pindexMostWork' = None
      /\ starting_tip' = IF where = "select" THEN starting_tip ELSE None
      /\ blocks_connected' \in BOOLEAN
  BY <1>1, ContinueLocals
<1>3. Locals'
  BY <1>1, <1>2 DEF Locals, Locked
<1> QED
  BY <1>1, <1>2, <1>3 DEF TypeOK

\* ActivateBestChain.
LEMMA ActivationShape ==
    ASSUME Shape, Activation
    PROVE  Shape'
<1> USE DEF TREE, TRANSACTIONS, SCRIPTS, Shape
<1>1. CASE Enter \/ Relock \/ StartStep
  <2>1. /\ pc' \in {"select", "step"} /\ waiting' \in BOOLEAN
        /\ UNCHANGED <<index, status, sequence, setBlockIndexCandidates, mapBlocksUnlinked,
                       m_failed_blocks, tip, pindexMostWork, blocks_connected, commands>>
    BY <1>1 DEF Enter, Relock, StartStep, activation, status, TypeOK
  <2>2. /\ starting_tip' \in {tip, starting_tip} /\ starting_tip' # None
        /\ pindexOldTip' \in {tip, pindexOldTip}
        /\ pc' = "step" => pindexOldTip' = tip /\ pindexMostWork # None
    BY <1>1, BlockAssumption DEF Enter, Relock, StartStep, Locals, Locked, TypeOK
  <2>3. TypeOK'
    BY <2>1, <2>2 DEF TypeOK, status, sequence
  <2>4. Ancestry' /\ Locals'
    BY <2>1, <2>2, BlockAssumption DEF Ancestry, Locals, Locked, status, TypeOK
  <2> QED
    BY <2>3, <2>4
<1>2. CASE FindMostWorkChain
  <2>1. BestCandidate \in setBlockIndexCandidates /\ BestCandidate \in chained
    BY <1>2, BestCandidateFacts DEF FindMostWorkChain, TypeOK
  <2>2. Chain[BestCandidate] \subseteq chained
    BY <2>1 DEF Ancestry
  <2>3. Unusable(BestCandidate) \subseteq Failed
    BY <2>2 DEF Unusable, TypeOK
  <2>4. /\ pindexMostWork' \in {pindexMostWork, BestCandidate}
        /\ failedChild' \subseteq failedChild \cup Chain[BestCandidate]
        /\ setBlockIndexCandidates' \subseteq setBlockIndexCandidates
        /\ mapBlocksUnlinked' = mapBlocksUnlinked
        /\ UNCHANGED <<activation, valid, failedValid, m_failed_blocks, tip, pc, starting_tip,
                       pindexOldTip, blocks_connected>>
        /\ pc = "select"
    BY <1>2, <2>3 DEF FindMostWorkChain
  <2>5. TypeOK'
    BY <2>1, <2>2, <2>4 DEF TypeOK, activation, sequence
  <2>6. Ancestry' /\ Locals'
    BY <2>1, <2>4 DEF Ancestry, Locals, Locked, activation
  <2> QED
    BY <2>5, <2>6
<1>3. CASE NothingToDo
  <2>1. PICK where \in {"idle", "select", "released"} : where # "select" /\ Continue(where, pindexMostWork)
    BY <1>3 DEF NothingToDo, AfterRelease
  <2>2. /\ pc' = where /\ pindexMostWork' \in {pindexMostWork, None} /\ pindexOldTip' = None
        /\ where = "idle" => pindexMostWork' = None
        /\ starting_tip' = None /\ blocks_connected' \in BOOLEAN
    BY <2>1, ContinueLocals
  <2>3. UNCHANGED <<activation, valid, failedValid, failedChild, setBlockIndexCandidates,
                    mapBlocksUnlinked, m_failed_blocks, tip>>
    BY <1>3 DEF NothingToDo
  <2>4. TypeOK'
    BY <2>1, <2>2, <2>3 DEF TypeOK, activation, sequence
  <2>5. Ancestry' /\ Locals'
    BY <2>1, <2>2, <2>3 DEF Ancestry, Locals, Locked, activation
  <2> QED
    BY <2>4, <2>5
<1>4. CASE DisconnectTip
  <2>1. pc = "step" /\ Locked /\ pindexMostWork \in chained /\ tip # Genesis
    BY <1>4, GenesisInChain DEF DisconnectTip, Locals, Locked, TypeOK
  <2>2. tip' = Parent[tip] /\ tip' \in chained
    BY <1>4, <2>1, ChainClosed, ChainOf DEF DisconnectTip, Locals, Ancestry, TypeOK
  <2>3. UNCHANGED <<activation, valid, failedValid, failedChild, setBlockIndexCandidates,
                    mapBlocksUnlinked, m_failed_blocks>>
    BY <1>4 DEF DisconnectTip
  <2>4. EndStep(pindexMostWork, tip') \/ UNCHANGED abc
    BY <1>4 DEF DisconnectTip
  <2>5. /\ Locals'
        /\ pc' \in {"idle", "select", "step", "released"} /\ blocks_connected' \in BOOLEAN
        /\ {pindexMostWork', starting_tip', pindexOldTip'} \subseteq index' \cup {None}
    <3>1. CASE EndStep(pindexMostWork, tip')
      BY <2>1, <2>2, <2>3, <3>1, EndStepShape DEF activation
    <3>2. CASE UNCHANGED abc
      BY <2>2, <2>3, <3>2 DEF abc, activation, Locals, Locked, TypeOK
    <3> QED
      BY <2>4, <3>1, <3>2
  <2>6. TypeOK' /\ Ancestry'
    BY <2>2, <2>3, <2>5 DEF TypeOK, Ancestry, activation, sequence
  <2> QED
    BY <2>5, <2>6
<1>5. ASSUME NEW b \in Blocks, ConnectTip(b) PROVE Shape'
  <2>1. pc = "step" /\ Locked /\ pindexMostWork \in chained /\ b \in chained /\ tip' = b
    BY <1>5 DEF ConnectTip, NextToConnect, Locals, Locked, Ancestry
  <2>2. /\ valid' \in {valid, [valid EXCEPT ![b] = SCRIPTS]}
        /\ setBlockIndexCandidates' \subseteq setBlockIndexCandidates
        /\ UNCHANGED <<activation, failedValid, failedChild, mapBlocksUnlinked, m_failed_blocks>>
    BY <1>5 DEF ConnectTip, Prune
  <2>3. EndStep(pindexMostWork, b) \/ UNCHANGED abc
    BY <1>5 DEF ConnectTip
  <2>4. /\ Locals'
        /\ pc' \in {"idle", "select", "step", "released"} /\ blocks_connected' \in BOOLEAN
        /\ {pindexMostWork', starting_tip', pindexOldTip'} \subseteq index' \cup {None}
    <3>1. CASE EndStep(pindexMostWork, b)
      BY <2>1, <2>2, <3>1, EndStepShape DEF activation
    <3>2. CASE UNCHANGED abc
      BY <2>1, <2>2, <3>2 DEF abc, activation, Locals, Locked, TypeOK
    <3> QED
      BY <2>3, <3>1, <3>2
  <2>5. valid' \in [Blocks -> {0, TREE, TRANSACTIONS, SCRIPTS}]
        /\ \A x \in data : valid'[x] >= TRANSACTIONS
    BY <2>2, SMT DEF TypeOK, Ancestry
  <2>6. TypeOK'
    BY <2>1, <2>2, <2>4, <2>5 DEF TypeOK, activation, sequence
  <2>7. Ancestry'
    BY <2>2, <2>5 DEF Ancestry, activation
  <2> QED
    BY <2>4, <2>6, <2>7
<1>6. ASSUME NEW b \in Blocks, ConnectTipFails(b) PROVE Shape'
  <2>1. pc = "step" /\ Locked /\ pindexMostWork \in chained /\ b \in index
    BY <1>6 DEF ConnectTipFails, NextToConnect, Locals, Locked, Ancestry, TypeOK
  <2>2. /\ failedValid' = failedValid \cup {b} /\ m_failed_blocks' = m_failed_blocks \cup {b}
        /\ setBlockIndexCandidates' \subseteq setBlockIndexCandidates
        /\ UNCHANGED <<activation, valid, failedChild, mapBlocksUnlinked, tip>>
    BY <1>6 DEF ConnectTipFails, InvalidBlockFound
  <2>3. /\ Locals'
        /\ pc' \in {"idle", "select", "step", "released"} /\ blocks_connected' \in BOOLEAN
        /\ {pindexMostWork', starting_tip', pindexOldTip'} \subseteq index' \cup {None}
    BY <1>6, <2>1, <2>2, EndStepShape DEF ConnectTipFails, activation, Locals
  <2>4. TypeOK' /\ Ancestry'
    BY <2>1, <2>2, <2>3 DEF TypeOK, Ancestry, activation, sequence
  <2> QED
    BY <2>3, <2>4
<1> QED
  BY <1>1, <1>2, <1>3, <1>4, <1>5, <1>6 DEF Activation

\* A restart.
LEMMA RestartShape ==
    ASSUME Shape, Restart
    PROVE  Shape'
<1> USE DEF Shape
<1>1. /\ nSequenceId' = [b \in Blocks |-> 0] /\ nBlockSequenceId' = 1
      /\ nLastPreciousHeight' = 0 /\ nBlockReverseSequenceId' = -1
      /\ m_failed_blocks' = {} /\ failedChild' = failedChild \cup FailedBelow(Failed)
      /\ chained' = {b \in data : Chain[b] \subseteq data}
      /\ mapBlocksUnlinked' = {b \in data \ {Genesis} : Parent[b] \notin chained'}
      /\ setBlockIndexCandidates' \subseteq chained' /\ waiting' = TRUE
      /\ commands' = commands + 1 /\ pc = "idle"
      /\ UNCHANGED <<index, valid, data, failedValid, tip, abc>>
  BY DEF Restart, Prune
<1>2. ASSUME NEW b \in chained' PROVE Chain[b] \subseteq chained' /\ (b # Genesis => Parent[b] \in chained')
  <2>1. b \in data /\ b \in Blocks /\ Chain[b] \subseteq data
    BY <1>1 DEF TypeOK
  <2>2. \A x \in Chain[b] : Chain[x] \subseteq Chain[b]
    BY <2>1, ChainTransitive
  <2>3. Chain[b] \subseteq chained'
    BY <1>1, <2>1, <2>2
  <2>4. b # Genesis => Parent[b] \in Chain[b]
    BY <2>1, ChainClosed, ChainOf
  <2> QED
    BY <2>3, <2>4
<1>3. chained \subseteq chained'
  BY <1>1 DEF TypeOK, Ancestry
<1>4. mapBlocksUnlinked' \subseteq data \ chained'
  BY <1>1, <1>2
<1>5. TypeOK'
  <2>1. nSequenceId' \in [Blocks -> Int] /\ nBlockSequenceId' \in Nat \ {0}
        /\ nLastPreciousHeight' \in Nat /\ nBlockReverseSequenceId' \in Int /\ commands' \in Nat
    BY <1>1, SMT DEF TypeOK
  <2>2. failedChild' \subseteq index /\ chained' \subseteq data
    BY <1>1 DEF FailedBelow, TypeOK
  <2> QED
    BY <1>1, <1>4, <2>1, <2>2 DEF TypeOK, abc
<1>6. Ancestry' /\ Locals'
  BY <1>1, <1>2, <1>3 DEF Ancestry, Locals, Locked, abc
<1> QED
  BY <1>5, <1>6

-----------------------------------------------------------------------------
(* Base: the failure flags.                                                *)

Marks == FailedBlocksKnown /\ FailedFromInvalid

\* A marked block has an ancestor that was found invalid.
LEMMA FailedAncestor ==
    ASSUME TypeOK, FailedFromInvalid, NEW x \in Failed
    PROVE  Chain[x] \cap failedValid # {} /\ x \in Blocks
BY ChainOf DEF Failed, TypeOK, FailedFromInvalid

\* New marks above a marked block are justified.
LEMMA MarkAbove ==
    ASSUME Shape, Marks, NEW c \in Blocks, NEW a \in Chain[c] \cap Failed,
           failedChild' \subseteq failedChild \cup (Chain[c] \ Chain[a]),
           UNCHANGED <<failedValid, m_failed_blocks>>
    PROVE  Marks'
<1>1. Chain[a] \cap failedValid # {}
  BY FailedAncestor DEF Shape, Marks
<1>2. \A x \in Chain[c] \ Chain[a] : Chain[a] \subseteq Chain[x]
  BY ChainAbove
<1> QED
  BY <1>1, <1>2 DEF Marks, FailedBlocksKnown, FailedFromInvalid

\* The flags, one step per action that changes them.
LEMMA MarksStep ==
    ASSUME Shape, Marks, [Next]_vars
    PROVE  Marks'
<1> USE DEF Shape, Marks
<1>1. ASSUME UNCHANGED <<failedValid, failedChild, m_failed_blocks>> PROVE Marks'
  BY <1>1 DEF FailedBlocksKnown, FailedFromInvalid
<1>2. ASSUME NEW b \in Blocks \ {Genesis}, AcceptBlockHeader(b) \/ PreciousBlock(b) PROVE Marks'
  BY <1>1, <1>2 DEF AcceptBlockHeader, PreciousBlock, status
<1>3. ASSUME NEW b \in Blocks \ {Genesis}, RejectBlockHeader(b) PROVE Marks'
  <2>1. PICK failedit \in FailedAbove(Parent[b]) :
           failedChild' = failedChild \cup (Chain[Parent[b]] \ Chain[failedit])
    BY <1>3 DEF RejectBlockHeader
  <2>2. failedit \in m_failed_blocks \cap Chain[Parent[b]]
    BY DEF FailedAbove
  <2>3. failedit \in Failed
    BY <2>2 DEF Failed, FailedBlocksKnown
  <2>4. UNCHANGED <<failedValid, m_failed_blocks>>
    BY <1>3 DEF RejectBlockHeader
  <2> QED
    BY <2>1, <2>2, <2>3, <2>4, ParentOf, MarkAbove
<1>4. ASSUME NEW b \in Blocks \ {Genesis}, NEW fRequested \in BOOLEAN, AcceptBlock(b, fRequested)
      PROVE  Marks'
  <2>1. failedValid \subseteq failedValid' /\ UNCHANGED <<failedChild, m_failed_blocks>>
    BY <1>4 DEF AcceptBlock
  <2> QED
    BY <2>1 DEF FailedBlocksKnown, FailedFromInvalid
<1>5. ASSUME NEW b \in Blocks \ {Genesis}, InvalidateBlock(b) PROVE Marks'
  <2>1. /\ failedValid' = failedValid \cup {b} /\ m_failed_blocks' = m_failed_blocks \cup {b}
        /\ failedChild' = failedChild \cup (IF b \in chainActive THEN chainActive \ Chain[b] ELSE {})
    BY <1>5 DEF InvalidateBlock
  <2>2. b \in chainActive => \A x \in chainActive \ Chain[b] : b \in Chain[x]
    BY ChainAbove DEF chainActive, TypeOK
  <2> QED
    BY <2>1, <2>2 DEF FailedBlocksKnown, FailedFromInvalid
<1>6. ASSUME NEW b \in Blocks \ {Genesis}, Undoes(b), ReconsiderBlock(b) PROVE Marks'
  <2>1. /\ failedValid' = failedValid \ (ResetFlags(b) \cup Chain[b])
        /\ failedChild' = failedChild \ (ResetFlags(b) \cup Chain[b])
        /\ m_failed_blocks' = m_failed_blocks \ (ResetFlags(b) \cup (Chain[b] \cap Failed))
    BY <1>6 DEF ReconsiderBlock, StillFailed
  <2>2. FailedBlocksKnown'
    BY <2>1 DEF FailedBlocksKnown, Failed
  <2>3. ASSUME NEW x \in failedChild' PROVE Chain[x] \cap failedValid' # {}
    <3>1. PICK y \in Chain[x] : y \in failedValid
      BY <2>1 DEF FailedFromInvalid
    <3>2. x \in index /\ x \in Blocks /\ x \in Failed /\ x \notin ResetFlags(b)
      BY <2>1 DEF TypeOK, Failed
    <3>3. b \notin Chain[x]
      BY <3>2 DEF ResetFlags, IsValid
    <3>4. y \notin ResetFlags(b)
      <4>1. b \in Chain[y] => b \in Chain[x]
        BY <3>1, <3>2, ChainTransitive
      <4> QED
        BY <3>3, <4>1 DEF ResetFlags
    <3>5. y \in Chain[b] => y = b
      BY <1>6, <3>1 DEF Undoes, Failed
    <3> QED
      BY <2>1, <3>1, <3>3, <3>4, <3>5
  <2> QED
    BY <2>2, <2>3 DEF FailedFromInvalid
<1>7. ASSUME FindMostWorkChain PROVE Marks'
  <2>1. BestCandidate \in Blocks
    BY <1>7, BestCandidateFacts DEF FindMostWorkChain, TypeOK
  <2>2. UNCHANGED <<failedValid, m_failed_blocks>>
    BY <1>7 DEF FindMostWorkChain
  <2>3. \/ failedChild' = failedChild
        \/ \E a \in Chain[BestCandidate] \cap Failed :
              failedChild' = failedChild \cup (Chain[BestCandidate] \ Chain[a])
    BY <1>7 DEF FindMostWorkChain, Unusable
  <2> QED
    BY <1>1, <2>1, <2>2, <2>3, MarkAbove
<1>8. ASSUME Enter \/ Relock \/ NothingToDo \/ StartStep \/ DisconnectTip
             \/ \E b \in Blocks : ConnectTip(b)
      PROVE  Marks'
  BY <1>1, <1>8 DEF Enter, Relock, NothingToDo, StartStep, DisconnectTip, ConnectTip, status
<1>9. ASSUME NEW b \in Blocks, ConnectTipFails(b) PROVE Marks'
  BY <1>9 DEF ConnectTipFails, InvalidBlockFound, FailedBlocksKnown, FailedFromInvalid
<1>10. ASSUME Restart PROVE Marks'
  <2>1. /\ m_failed_blocks' = {} /\ failedChild' = failedChild \cup FailedBelow(Failed)
        /\ failedValid' = failedValid
    BY <1>10 DEF Restart
  <2>2. ASSUME NEW x \in FailedBelow(Failed) PROVE Chain[x] \cap failedValid # {}
    <3>1. PICK y \in Chain[x] : y \in Failed
      BY DEF FailedBelow
    <3>2. x \in Blocks /\ Chain[y] \subseteq Chain[x]
      BY <3>1, ChainTransitive DEF FailedBelow, TypeOK
    <3> QED
      BY <3>1, <3>2, FailedAncestor
  <2> QED
    BY <2>1, <2>2 DEF FailedBlocksKnown, FailedFromInvalid
<1>11. ASSUME UNCHANGED vars PROVE Marks'
  BY <1>1, <1>11 DEF vars, status
<1> QED
  BY <1>2, <1>3, <1>4, <1>5, <1>6, <1>7, <1>8, <1>9, <1>10, <1>11 DEF Next, Activation

\* Shape is kept by every step.
LEMMA ShapeStep ==
    ASSUME Shape, [Next]_vars
    PROVE  Shape'
<1>1. CASE Next
  BY <1>1, AcceptBlockShape, CommandShape, ActivationShape, RestartShape DEF Next
<1>2. CASE UNCHANGED vars
  BY <1>2 DEF vars, status, sequence, abc, Shape, TypeOK, Ancestry, Locals, Locked
<1> QED
  BY <1>1, <1>2

\* It holds when the node has connected the genesis block.
LEMMA InitBase == Init => Base
<1> SUFFICES ASSUME Init PROVE Base
  OBVIOUS
<1> USE DEF Init, TREE, TRANSACTIONS, SCRIPTS
<1>1. /\ valid \in [Blocks -> {0, TREE, TRANSACTIONS, SCRIPTS}] /\ nSequenceId \in [Blocks -> Int]
      /\ valid[Genesis] = TRANSACTIONS /\ Genesis \in Blocks
  BY TreeAssumption, SMT
<1>2. TypeOK
  <2>1. waiting \in BOOLEAN /\ blocks_connected \in BOOLEAN
    OBVIOUS
  <2>2. /\ index \subseteq Blocks /\ data \subseteq index /\ chained \subseteq data
        /\ setBlockIndexCandidates \subseteq chained /\ mapBlocksUnlinked \subseteq data \ chained
        /\ failedValid \subseteq index /\ failedChild \subseteq index /\ m_failed_blocks \subseteq index
        /\ tip \in index /\ pindexMostWork \in index \cup {None}
        /\ starting_tip \in index \cup {None} /\ pindexOldTip \in index \cup {None}
    BY <1>1
  <2>3. /\ nBlockSequenceId \in Nat \ {0} /\ nLastPreciousHeight \in Nat
        /\ nBlockReverseSequenceId \in Int /\ commands \in Nat
        /\ pc \in {"idle", "select", "step", "released"}
    BY SMT
  <2> QED
    BY <1>1, <2>1, <2>2, <2>3 DEF TypeOK
<1>3. Ancestry
  BY <1>1, ChainOf, SMT DEF Ancestry
<1>4. Locals
  BY DEF Locals, Locked
<1>5. FailedBlocksKnown /\ FailedFromInvalid
  BY DEF FailedBlocksKnown, FailedFromInvalid
<1> QED
  BY <1>2, <1>3, <1>4, <1>5 DEF Base, Shape

\* Base holds always, whatever the commands do.
LEMMA BaseInvariant == Spec => []Base
<1>1. Base /\ [Next]_vars => Base'
  BY ShapeStep, MarksStep DEF Base, Marks
<1> QED
  BY <1>1, InitBase, PTL DEF Spec

\* The block index stays well formed: only linked blocks are candidates, and only blocks
\* that are not linked, although their data is there, are in mapBlocksUnlinked.
THEOREM TypeCorrect == Spec => []TypeOK
<1>1. Base => TypeOK
  BY DEF Base, Shape
<1> QED
  BY <1>1, BaseInvariant, PTL

\* The assertion of AcceptBlockHeader never fails, whatever is invalidated, reconsidered
\* and connected in between, also while ActivateBestChain has released cs_main.
THEOREM AssertionHolds == Spec => []FailedBlocksKnown
<1>1. Base => FailedBlocksKnown
  BY DEF Base
<1> QED
  BY <1>1, BaseInvariant, PTL

\* No block is marked as the descendant of an invalid block without being one: the four
\* places that set BLOCK_FAILED_CHILD and the one that clears flags agree.
THEOREM MarksJustified == Spec => []FailedFromInvalid
<1>1. Base => FailedFromInvalid
  BY DEF Base
<1> QED
  BY <1>1, BaseInvariant, PTL

-----------------------------------------------------------------------------
(* The active chain, with commands only between activations.               *)

\* Marks above a marked block reach no chain without marked blocks.
LEMMA MarksElsewhere ==
    ASSUME NEW c \in Blocks, NEW d \in Blocks, NEW F, Chain[c] \cap F = {},
           NEW a \in Chain[d] \cap F
    PROVE  Chain[c] \cap (Chain[d] \ Chain[a]) = {}
<1>1. ASSUME NEW x \in Chain[c], x \in Chain[d] \ Chain[a] PROVE FALSE
  <2>1. a \in Chain[x] /\ Chain[x] \subseteq Chain[c]
    BY <1>1, ChainAbove, ChainTransitive
  <2> QED
    BY <2>1
<1> QED
  BY <1>1

\* A step that moves neither the tip nor the target and marks none of their blocks.
LEMMA ValidStays ==
    ASSUME Valid, tip' = tip, pindexMostWork' \in {pindexMostWork, None},
           Failed' \cap chainActive = {},
           pindexMostWork # None => Failed' \cap Chain[pindexMostWork] = {}
    PROVE  Valid'
BY DEF Valid, chainActive

\* The locals at the end of an activation step, as far as the target is concerned.
LEMMA EndStepTarget ==
    ASSUME NEW w, NEW top, EndStep(w, top)
    PROVE  pindexMostWork' \in {w, None}
<1>1. PICK where \in {"idle", "select", "released"} : Continue(where, w)
  BY EndStepLocals
<1> QED
  BY <1>1, ContinueLocals

\* Valid, one step per action.
LEMMA ValidStep ==
    ASSUME ~Concurrent, Base, Valid, [Next]_vars
    PROVE  Valid'
<1> USE DEF Base, Shape
<1>0. /\ tip \in Blocks /\ chainActive \subseteq chained /\ chained \subseteq data
      /\ chainActive \cap Failed = {}
      /\ pindexMostWork # None => pindexMostWork \in Blocks /\ Chain[pindexMostWork] \subseteq chained
                                  /\ Chain[pindexMostWork] \cap Failed = {}
  BY DEF TypeOK, Ancestry, Locals, chainActive, Valid
<1>1. ASSUME Failed' \subseteq Failed, tip' = tip, pindexMostWork' \in {pindexMostWork, None}
      PROVE  Valid'
  BY <1>0, <1>1, ValidStays
<1>2. ASSUME NEW d \in Blocks, NEW a \in Chain[d] \cap Failed,
             failedChild' = failedChild \cup (Chain[d] \ Chain[a]),
             UNCHANGED <<failedValid, tip, pindexMostWork>>
      PROVE  Valid'
  <2>1. Failed' = Failed \cup (Chain[d] \ Chain[a])
    BY <1>2 DEF Failed
  <2>2. chainActive \cap (Chain[d] \ Chain[a]) = {}
    BY <1>0, MarksElsewhere, SMT DEF chainActive
  <2>3. pindexMostWork # None => Chain[pindexMostWork] \cap (Chain[d] \ Chain[a]) = {}
    BY <1>0, MarksElsewhere
  <2> QED
    BY <1>0, <1>2, <2>1, <2>2, <2>3, ValidStays
<1>3. ASSUME NEW b \in Blocks \ {Genesis}, AcceptBlockHeader(b) \/ PreciousBlock(b) PROVE Valid'
  BY <1>1, <1>3 DEF AcceptBlockHeader, PreciousBlock, status, abc, Failed
<1>4. ASSUME NEW b \in Blocks \ {Genesis}, RejectBlockHeader(b) PROVE Valid'
  <2>1. PICK failedit \in FailedAbove(Parent[b]) :
           failedChild' = failedChild \cup (Chain[Parent[b]] \ Chain[failedit])
    BY <1>4 DEF RejectBlockHeader
  <2>2. failedit \in Chain[Parent[b]] \cap Failed
    BY DEF FailedAbove, Failed, FailedBlocksKnown
  <2>3. UNCHANGED <<failedValid, tip, pindexMostWork>>
    BY <1>4 DEF RejectBlockHeader, abc
  <2> QED
    BY <1>2, <2>1, <2>2, <2>3, ParentOf
<1>5. ASSUME NEW b \in Blocks \ {Genesis}, NEW fRequested \in BOOLEAN, AcceptBlock(b, fRequested)
      PROVE  Valid'
  <2>1. Failed' \subseteq Failed \cup {b} /\ (Failed' # Failed => b \notin data)
    BY <1>5 DEF AcceptBlock, Wanted, Failed
  <2>2. UNCHANGED <<tip, pindexMostWork>>
    BY <1>5 DEF AcceptBlock, abc
  <2> QED
    BY <1>0, <2>1, <2>2, ValidStays
<1>6. ASSUME NEW b \in Blocks \ {Genesis}, InvalidateBlock(b) PROVE Valid'
  <2>1. pindexMostWork' = None
    BY <1>6 DEF InvalidateBlock, Rpc, Locals, abc
  <2>2. CASE b \in chainActive
    <3>1. tip' = Parent[b] /\ Failed' = Failed \cup (chainActive \ Chain[b]) \cup {b}
      BY <1>6, <2>2 DEF InvalidateBlock, Failed
    <3>2. Chain[Parent[b]] \subseteq Chain[b] /\ b \notin Chain[Parent[b]]
          /\ Chain[b] \subseteq chainActive
      BY <1>0, <2>2, ParentOf, ChainTransitive, SMT DEF chainActive
    <3> QED
      BY <2>1, <3>1, <3>2 DEF Valid, chainActive
  <2>3. CASE b \notin chainActive
    <3>1. tip' = tip /\ Failed' = Failed \cup {b}
      BY <1>6, <2>3 DEF InvalidateBlock, Failed
    <3> QED
      BY <2>1, <2>3, <3>1 DEF Valid, chainActive
  <2> QED
    BY <2>2, <2>3
<1>7. ASSUME NEW b \in Blocks \ {Genesis}, ReconsiderBlock(b) PROVE Valid'
  BY <1>1, <1>7 DEF ReconsiderBlock, abc, Failed
<1>8. ASSUME Enter \/ Relock \/ StartStep PROVE Valid'
  BY <1>1, <1>8 DEF Enter, Relock, StartStep, status, Failed
<1>9. ASSUME FindMostWorkChain PROVE Valid'
  <2>1. BestCandidate \in Blocks /\ pindexMostWork = None
    BY <1>9, BestCandidateFacts DEF FindMostWorkChain, TypeOK
  <2>2. tip' = tip /\ failedValid' = failedValid
    BY <1>9 DEF FindMostWorkChain
  <2>3. CASE pindexMostWork' = BestCandidate /\ Unusable(BestCandidate) = {}
             /\ failedChild' = failedChild
    BY <1>0, <2>2, <2>3 DEF Valid, Unusable, Failed, chainActive
  <2>4. CASE pindexMostWork' = pindexMostWork /\ failedChild' = failedChild
    BY <1>1, <2>2, <2>4 DEF Failed
  <2>5. ASSUME NEW a \in Chain[BestCandidate] \cap Failed, pindexMostWork' = pindexMostWork,
               failedChild' = failedChild \cup (Chain[BestCandidate] \ Chain[a])
        PROVE  Valid'
    BY <1>2, <2>1, <2>2, <2>5
  <2> QED
    BY <1>9, <2>3, <2>4, <2>5 DEF FindMostWorkChain, Unusable
<1>10. ASSUME NothingToDo PROVE Valid'
  <2>1. pindexMostWork' \in {pindexMostWork, None}
    BY <1>10 DEF NothingToDo, Continue
  <2> QED
    BY <1>1, <1>10, <2>1 DEF NothingToDo, Failed
<1>11. ASSUME DisconnectTip PROVE Valid'
  <2>1. tip # Genesis /\ tip' = Parent[tip]
    BY <1>0, <1>11, GenesisInChain DEF DisconnectTip, Locals
  <2>2. pindexMostWork' \in {pindexMostWork, None} /\ Failed' = Failed
    BY <1>11, EndStepTarget DEF DisconnectTip, abc, Failed
  <2>3. Chain[tip'] \subseteq chainActive
    BY <1>0, <2>1, ParentOf, SMT DEF chainActive
  <2> QED
    BY <2>2, <2>3 DEF Valid, chainActive
<1>12. ASSUME NEW b \in Blocks, ConnectTip(b) PROVE Valid'
  <2>1. tip' = b /\ b \in Chain[pindexMostWork] /\ b \notin BadScripts /\ pindexMostWork # None
        /\ Chain[b] = chainActive \cup {b}
    BY <1>12, ParentOf DEF ConnectTip, NextToConnect, Locals, chainActive
  <2>2. pindexMostWork' \in {pindexMostWork, None} /\ Failed' = Failed
    BY <1>12, EndStepTarget DEF ConnectTip, abc, Failed
  <2> QED
    BY <2>1, <2>2 DEF Valid, chainActive
<1>13. ASSUME NEW b \in Blocks, ConnectTipFails(b) PROVE Valid'
  <2>1. pindexMostWork' = None /\ tip' = tip /\ Failed' = Failed \cup {b}
    BY <1>13, EndStepTarget DEF ConnectTipFails, InvalidBlockFound, Failed
  <2>2. b \notin chainActive
    BY <1>13, ParentOf DEF ConnectTipFails, NextToConnect, chainActive
  <2> QED
    BY <2>1, <2>2 DEF Valid, chainActive
<1>14. ASSUME Restart PROVE Valid'
  <2>1. tip' = tip /\ pindexMostWork' = None /\ Failed' = Failed \cup FailedBelow(Failed)
    BY <1>14 DEF Restart, abc, Locals, Failed
  <2>2. chainActive \cap FailedBelow(Failed) = {}
    BY <1>0, ChainTransitive DEF FailedBelow, chainActive
  <2> QED
    BY <2>1, <2>2 DEF Valid, chainActive
<1>15. ASSUME UNCHANGED vars PROVE Valid'
  BY <1>1, <1>15 DEF vars, status, abc, Failed
<1> QED
  BY <1>3, <1>4, <1>5, <1>6, <1>7, <1>8, <1>9, <1>10, <1>11, <1>12, <1>13, <1>14, <1>15
     DEF Next, Activation

\* The genesis block is valid.
LEMMA InitValid == Init => Valid
BY ChainOf, BadAssumption DEF Init, Valid, chainActive, Failed

\* With commands only between activations, no block that was found invalid is in the
\* active chain, however headers and blocks arrive while ActivateBestChain releases
\* cs_main.
THEOREM ActiveChainValid ==
    ASSUME ~Concurrent
    PROVE  Spec => []ActiveValid
<1>1. Base /\ Valid /\ [Next]_vars => Valid'
  BY ValidStep
<1>2. Base /\ Valid => ActiveValid
  BY DEF Base, Shape, Ancestry, Locals, Valid, ActiveValid, chainActive
<1> QED
  BY <1>1, <1>2, InitValid, BaseInvariant, PTL DEF Spec

-----------------------------------------------------------------------------
(* The candidates.                                                         *)

\* The order of two blocks depends on their own sequence ids only.
LEMMA WorseSame ==
    ASSUME NEW seq, NEW seq2, NEW a, NEW b, seq[a] = seq2[a], seq[b] = seq2[b]
    PROVE  Worse(seq, a, b) <=> Worse(seq2, a, b)
BY DEF Worse

\* ReceivedBlockTransactions links blocks that were not linked, and gives sequence ids to
\* no others.
LEMMA AcceptBlockLinks ==
    ASSUME Base, NEW b \in Blocks \ {Genesis}, NEW fRequested \in BOOLEAN, AcceptBlock(b, fRequested)
    PROVE  \E linked \in SUBSET (Blocks \ chained) :
              /\ chained' = chained \cup linked
              /\ \A x \in chained : nSequenceId'[x] = nSequenceId[x]
              /\ setBlockIndexCandidates' = setBlockIndexCandidates \cup
                    {x \in linked : ~Worse(nSequenceId', x, tip)}
              /\ linked # {} => waiting'
<1> USE DEF Base, Shape
<1>1. CASE ~Wanted(b, fRequested) \/ b \in BadBlocks \/ Parent[b] \notin chained
  <2>1. UNCHANGED <<chained, nSequenceId, setBlockIndexCandidates>>
    BY <1>1 DEF AcceptBlock, ReceivedBlockTransactions
  <2> WITNESS {} \in SUBSET (Blocks \ chained)
  <2> QED
    BY <2>1
<1>2. CASE Wanted(b, fRequested) /\ b \notin BadBlocks /\ Parent[b] \in chained
  <2>1. NowLinked(b) \in SUBSET (Blocks \ chained)
    <3>1. chained \subseteq data /\ mapBlocksUnlinked \subseteq data \ chained
      BY DEF TypeOK
    <3>2. b \notin data
      BY <1>2 DEF Wanted
    <3>3. NowLinked(b) \subseteq Blocks /\ NowLinked(b) \subseteq mapBlocksUnlinked \cup {b}
      BY NowLinkedFacts
    <3> QED
      BY <3>1, <3>2, <3>3
  <2>2. ReceivedBlockTransactions(b) /\ waiting'
    BY <1>2 DEF AcceptBlock
  <2>3. \A x \in chained : nSequenceId'[x] = nSequenceId[x]
    BY <1>2, <2>1, <2>2 DEF ReceivedBlockTransactions, TypeOK
  <2> WITNESS NowLinked(b) \in SUBSET (Blocks \ chained)
  <2> QED
    BY <1>2, <2>2, <2>3 DEF ReceivedBlockTransactions
<1> QED
  BY <1>1, <1>2

\* Candidates that were as good as a tip are as good as a lower one.
LEMMA PrunedStays ==
    ASSUME Base, Pruned, nSequenceId' = nSequenceId, tip' \in Blocks,
           tip' = tip \/ nHeight[tip'] < nHeight[tip],
           \A x \in setBlockIndexCandidates' :
              x \in setBlockIndexCandidates \/ (~Worse(nSequenceId, x, tip') /\ x \in Blocks)
    PROVE  Pruned'
<1> USE DEF Base, Shape
<1>1. ASSUME NEW x \in setBlockIndexCandidates, Worse(nSequenceId, x, tip') PROVE FALSE
  <2>1. x \in Blocks /\ tip \in Blocks /\ nSequenceId \in [Blocks -> Int]
        /\ ~Worse(nSequenceId, x, tip)
    BY DEF TypeOK, Pruned
  <2>2. tip' # tip
    BY <1>1, <2>1
  <2>3. ~Worse(nSequenceId, tip, tip')
    BY <2>1, <2>2, WorseOrder
  <2> QED
    BY <1>1, <2>1, <2>3, WorseTransitive
<1> QED
  BY <1>1 DEF Pruned

\* Pruned, one step per action.
LEMMA PrunedStep ==
    ASSUME ~Concurrent, Base, Valid, Pruned, [Next]_vars
    PROVE  Pruned'
<1> USE DEF Base, Shape
<1>0. tip \in Blocks /\ tip \in chained /\ nSequenceId \in [Blocks -> Int]
      /\ setBlockIndexCandidates \subseteq chained /\ chained \subseteq Blocks
  BY DEF TypeOK, Locals
<1>1. ASSUME UNCHANGED <<nSequenceId, tip>>, setBlockIndexCandidates' \subseteq setBlockIndexCandidates
      PROVE  Pruned'
  BY <1>1 DEF Pruned
<1>2. ASSUME NEW b \in Blocks \ {Genesis}, AcceptBlockHeader(b) \/ RejectBlockHeader(b) PROVE Pruned'
  BY <1>1, <1>2 DEF AcceptBlockHeader, RejectBlockHeader, sequence
<1>3. ASSUME NEW b \in Blocks \ {Genesis}, NEW fRequested \in BOOLEAN, AcceptBlock(b, fRequested)
      PROVE  Pruned'
  <2>1. PICK linked \in SUBSET (Blocks \ chained) :
           /\ \A x \in chained : nSequenceId'[x] = nSequenceId[x]
           /\ setBlockIndexCandidates' = setBlockIndexCandidates \cup
                 {x \in linked : ~Worse(nSequenceId', x, tip)}
    BY <1>3, AcceptBlockLinks
  <2>2. tip' = tip
    BY <1>3 DEF AcceptBlock
  <2> QED
    BY <1>0, <2>1, <2>2, WorseSame, SMT DEF Pruned
<1>4. ASSUME NEW b \in Blocks \ {Genesis}, PreciousBlock(b) PROVE Pruned'
  <2>1. tip' = tip
    BY <1>4 DEF PreciousBlock
  <2>2. CASE IsValid(b, TRANSACTIONS) /\ b \in chained
    BY <1>4, <2>1, <2>2 DEF PreciousBlock, Prune, Pruned
  <2>3. CASE ~(IsValid(b, TRANSACTIONS) /\ b \in chained)
    <3>1. setBlockIndexCandidates' = setBlockIndexCandidates \ {b}
          /\ \A x \in Blocks \ {b} : nSequenceId'[x] = nSequenceId[x]
      BY <1>4, <2>3 DEF PreciousBlock, TypeOK
    <3>2. b # tip
      BY <2>3, ChainOf DEF IsValid, Valid, chainActive, Ancestry, Locals, TypeOK
    <3> QED
      BY <1>0, <2>1, <3>1, <3>2, WorseSame, SMT DEF Pruned
  <2> QED
    BY <2>2, <2>3
<1>5. ASSUME NEW b \in Blocks \ {Genesis}, InvalidateBlock(b) PROVE Pruned'
  <2>1. nSequenceId' = nSequenceId
        /\ \A x \in setBlockIndexCandidates' :
              x \in setBlockIndexCandidates \/ (~Worse(nSequenceId, x, tip') /\ x \in index)
    BY <1>5 DEF InvalidateBlock, sequence
  <2>2. tip' = tip \/ (tip' = Parent[b] /\ b \in Chain[tip])
    BY <1>5 DEF InvalidateBlock, chainActive
  <2>3. nHeight[Parent[b]] < nHeight[b] /\ Parent[b] \in Blocks
    BY ParentOf
  <2>4. b \in Chain[tip] => b = tip \/ nHeight[b] < nHeight[tip]
    BY <1>0, HeightOfAncestor
  <2>5. nHeight[Parent[b]] \in Nat /\ nHeight[b] \in Nat /\ nHeight[tip] \in Nat
    BY <1>0, <2>3, HeightOf
  <2>6. tip' = tip \/ nHeight[tip'] < nHeight[tip]
    BY <2>2, <2>3, <2>4, <2>5, SMT
  <2>7. tip' \in Blocks /\ index \subseteq Blocks
    BY <1>0, <2>2, <2>3 DEF TypeOK
  <2> QED
    BY <2>1, <2>6, <2>7, PrunedStays
<1>6. ASSUME NEW b \in Blocks \ {Genesis}, ReconsiderBlock(b) PROVE Pruned'
  <2>1. UNCHANGED <<nSequenceId, tip>>
        /\ \A x \in setBlockIndexCandidates' :
              x \in setBlockIndexCandidates \/ (Worse(nSequenceId, tip, x) /\ x \in index)
    BY <1>6 DEF ReconsiderBlock, ResetFlags, sequence
  <2>2. \A x \in index : Worse(nSequenceId, tip, x) => ~Worse(nSequenceId, x, tip)
    BY <1>0, WorseOrder DEF TypeOK
  <2> QED
    BY <2>1, <2>2 DEF Pruned
<1>7. ASSUME Enter \/ Relock \/ StartStep \/ NothingToDo \/ FindMostWorkChain
             \/ \E b \in Blocks : ConnectTipFails(b)
      PROVE  Pruned'
  <2>1. UNCHANGED <<nSequenceId, tip>> /\ setBlockIndexCandidates' \subseteq setBlockIndexCandidates
    BY <1>7 DEF Enter, Relock, StartStep, NothingToDo, FindMostWorkChain, ConnectTipFails,
                InvalidBlockFound, activation, sequence
  <2> QED
    BY <1>1, <2>1
<1>8. ASSUME DisconnectTip PROVE Pruned'
  <2>1. tip # Genesis /\ tip' = Parent[tip]
    BY <1>0, <1>8, GenesisInChain DEF DisconnectTip, Locals
  <2>2. tip' \in Blocks /\ nHeight[tip'] < nHeight[tip]
    BY <1>0, <2>1, ParentOf
  <2>3. nSequenceId' = nSequenceId /\ setBlockIndexCandidates' = setBlockIndexCandidates
    BY <1>8 DEF DisconnectTip, activation, sequence
  <2> QED
    BY <2>2, <2>3, PrunedStays
<1>9. ASSUME NEW b \in Blocks, ConnectTip(b) PROVE Pruned'
  BY <1>9 DEF ConnectTip, activation, sequence, Prune, Pruned
<1>10. ASSUME Restart PROVE Pruned'
  BY <1>10 DEF Restart, Prune, Pruned
<1>11. ASSUME UNCHANGED vars PROVE Pruned'
  BY <1>1, <1>11 DEF vars, sequence
<1> QED
  BY <1>2, <1>3, <1>4, <1>5, <1>6, <1>7, <1>8, <1>9, <1>10, <1>11 DEF Next, Activation

\* The genesis block is the only candidate at first.
LEMMA InitPruned == Init => Pruned
<1> SUFFICES ASSUME Init PROVE Pruned
  OBVIOUS
<1>1. TypeOK /\ tip \in Blocks
  BY InitBase, TreeAssumption DEF Base, Shape, Init
<1> QED
  BY <1>1, WorseOrder, SMT DEF Init, Pruned, TypeOK

\* With commands only between activations, no block that sorts worse than the tip is a
\* candidate, also after preciousblock has changed the order.
THEOREM CandidatesAreSound ==
    ASSUME ~Concurrent
    PROVE  Spec => []CandidatesSound
<1>1. Base /\ Valid /\ [Next]_vars => Valid'
  BY ValidStep
<1>2. Base /\ Valid /\ Pruned /\ [Next]_vars => Pruned'
  BY PrunedStep
<1>3. Pruned => CandidatesSound
  BY DEF Pruned, CandidatesSound
<1> QED
  BY <1>1, <1>2, <1>3, InitValid, InitPruned, BaseInvariant, PTL DEF Spec

-----------------------------------------------------------------------------
(* The best chain, with commands only between activations and without       *)
(* preciousblock.                                                          *)

\* CBlockIndexWorkComparator on the present sequence ids.
LEMMA Order ==
    ASSUME TypeOK
    PROVE  /\ \A a \in Blocks : ~Worse(nSequenceId, a, a)
           /\ \A a, b \in Blocks : Worse(nSequenceId, a, b) => ~Worse(nSequenceId, b, a)
           /\ \A a, b \in Blocks : a # b => Worse(nSequenceId, a, b) \/ Worse(nSequenceId, b, a)
           /\ \A a, b \in Blocks : nHeight[a] < nHeight[b] => Worse(nSequenceId, a, b)
           /\ \A a, b, c \in Blocks :
                 Worse(nSequenceId, a, b) /\ ~Worse(nSequenceId, c, b) => Worse(nSequenceId, a, c)
<1>1. nSequenceId \in [Blocks -> Int]
  BY DEF TypeOK
<1> QED
  BY <1>1, WorseOrder, WorseTransitive

\* What beats a block that is as good as the tip is as good as the tip.
LEMMA AsGoodUp ==
    ASSUME Base, StartTip, NEW a \in Blocks, NEW b \in Blocks, AsGood(a), Worse(nSequenceId, a, b)
    PROVE  AsGood(b)
<1>1. tip \in Blocks /\ (Locked => starting_tip \in Blocks)
  BY DEF Base, Shape, TypeOK, StartTip
<1> QED
  BY <1>1, Order DEF Base, Shape, AsGood

\* While FindMostWorkChain looks, the tip from which the hold started is a candidate.
LEMMA StartIsCandidate ==
    ASSUME Base, Best, pc = "select"
    PROVE  starting_tip \in setBlockIndexCandidates
<1>1. starting_tip \in chained \ Failed /\ ~Worse(nSequenceId, starting_tip, tip)
      /\ starting_tip \in Blocks
  BY ChainOf DEF Base, Shape, TypeOK, Best, StartTip, Locked
<1>2. ~Worse(nSequenceId, starting_tip, starting_tip)
  BY <1>1, Order DEF Base, Shape
<1> QED
  BY <1>1, <1>2 DEF Best, Complete, AsGood

\* The best candidate beats every usable block.
LEMMA BestIsBest ==
    ASSUME Base, Pruned, Best, pc = "select", setBlockIndexCandidates # {}
    PROVE  /\ AsGood(BestCandidate)
           /\ \A b \in chained : Chain[b] \cap Failed = {} => ~Worse(nSequenceId, BestCandidate, b)
<1> USE DEF Base, Shape
<1>1. BestCandidate \in setBlockIndexCandidates /\ BestCandidate \in Blocks
      /\ \A d \in setBlockIndexCandidates : ~Worse(nSequenceId, BestCandidate, d)
  BY BestCandidateFacts DEF TypeOK
<1>2. AsGood(BestCandidate)
  BY <1>1, StartIsCandidate DEF AsGood, Pruned
<1>3. ASSUME NEW b \in chained, Chain[b] \cap Failed = {}, Worse(nSequenceId, BestCandidate, b)
      PROVE  FALSE
  <2>1. b \in Blocks /\ b \notin Failed
    BY <1>3, ChainOf DEF TypeOK
  <2>2. AsGood(b)
    BY <1>1, <1>2, <1>3, <2>1, AsGoodUp DEF Best
  <2> QED
    BY <1>1, <1>3, <2>1, <2>2 DEF Best, Complete
<1> QED
  BY <1>2, <1>3

\* Outside a hold of cs_main, marks may be added.
LEMMA BestStays ==
    ASSUME Best, UNCHANGED <<chained, nSequenceId, setBlockIndexCandidates, tip, waiting, abc>>,
           Failed \subseteq Failed', Locked => Failed' = Failed
    PROVE  Best'
BY DEF Best, StartTip, Complete, MostWork, BestChainActive, AsGood, Locked, abc

\* Best is kept by headers and blocks, which arrive outside the holds of ActivateBestChain.
LEMMA BestArrival ==
    ASSUME Base, Best, NEW b \in Blocks \ {Genesis},
           \/ AcceptBlockHeader(b) \/ RejectBlockHeader(b)
           \/ \E fRequested \in BOOLEAN : AcceptBlock(b, fRequested)
    PROVE  Best'
<1> USE DEF Base, Shape
<1>1. CASE AcceptBlockHeader(b)
  BY <1>1, BestStays DEF AcceptBlockHeader, sequence, Failed
<1>2. CASE RejectBlockHeader(b)
  BY <1>2, BestStays DEF RejectBlockHeader, sequence, Failed
<1>3. ASSUME NEW fRequested \in BOOLEAN, AcceptBlock(b, fRequested) PROVE Best'
  <2>1. PICK linked \in SUBSET (Blocks \ chained) :
           /\ chained' = chained \cup linked
           /\ \A x \in chained : nSequenceId'[x] = nSequenceId[x]
           /\ setBlockIndexCandidates' = setBlockIndexCandidates \cup
                 {x \in linked : ~Worse(nSequenceId', x, tip)}
           /\ linked # {} => waiting'
    BY <1>3, AcceptBlockLinks
  <2>2. /\ ~Locked /\ ~Locked' /\ UNCHANGED <<tip, pc, pindexMostWork>>
        /\ Failed \subseteq Failed' /\ (waiting => waiting')
    <3>1. ~Locked /\ UNCHANGED <<tip, pc, pindexMostWork>>
      BY <1>3 DEF AcceptBlock, abc
    <3>2. ~Locked'
      BY <3>1 DEF Locked
    <3>3. failedValid \subseteq failedValid' /\ failedChild' = failedChild
      BY <1>3 DEF AcceptBlock
    <3>4. Failed \subseteq Failed'
      BY <3>3 DEF Failed
    <3>5. waiting => waiting'
      BY <1>3 DEF AcceptBlock
    <3> QED
      BY <3>1, <3>2, <3>4, <3>5
  <2>3. /\ tip \in chained /\ pindexMostWork \in chained \cup {None}
        /\ \A x, y \in chained : Worse(nSequenceId', x, y) <=> Worse(nSequenceId, x, y)
    BY <2>1, WorseSame DEF Locals
  <2>4. StartTip'
    BY <2>2 DEF StartTip
  <2>5. Complete'
    BY <2>1, <2>2, <2>3 DEF Best, Complete, AsGood
  <2>6. MostWork'
    BY <2>1, <2>2, <2>3 DEF Best, MostWork, AsGood
  <2>7. BestChainActive'
    BY <2>1, <2>2, <2>3 DEF Best, BestChainActive
  <2> QED
    BY <2>4, <2>5, <2>6, <2>7 DEF Best
<1> QED
  BY <1>1, <1>2, <1>3

\* Best is kept by the commands, which ActivateBestChain follows.
LEMMA BestCommand ==
    ASSUME ~Concurrent, Base, Valid, Best,
           \/ \E b \in Blocks \ {Genesis} : InvalidateBlock(b) \/ (Undoes(b) /\ ReconsiderBlock(b))
           \/ Restart
    PROVE  Best'
<1> USE DEF Base, Shape
<1>1. /\ pc = "idle" /\ pc' = "idle" /\ pindexMostWork' = None /\ waiting' /\ ~Locked /\ ~Locked'
  BY DEF InvalidateBlock, ReconsiderBlock, Restart, Rpc, Locals, Locked, abc
<1>2. StartTip' /\ MostWork' /\ BestChainActive'
  BY <1>1 DEF StartTip, MostWork, BestChainActive
<1>3. ASSUME NEW b \in Blocks \ {Genesis}, InvalidateBlock(b) PROVE Complete'
  <2>1. /\ {x \in index : /\ x \notin Failed' /\ valid[x] >= TRANSACTIONS /\ x \in chained
                          /\ ~Worse(nSequenceId, x, tip')} \subseteq setBlockIndexCandidates'
        /\ UNCHANGED <<chained, nSequenceId>>
    BY <1>3 DEF InvalidateBlock, Failed, sequence
  <2>2. \A x \in chained : x \in index /\ valid[x] >= TRANSACTIONS
    BY DEF TypeOK, Ancestry
  <2> QED
    BY <2>1, <2>2 DEF Complete, AsGood
<1>4. ASSUME NEW b \in Blocks \ {Genesis}, Undoes(b), ReconsiderBlock(b) PROVE Complete'
  <2>1. /\ Failed' = Failed \ (ResetFlags(b) \cup Chain[b])
        /\ setBlockIndexCandidates' = setBlockIndexCandidates \cup
             {x \in ResetFlags(b) : /\ valid[x] >= TRANSACTIONS /\ x \in chained
                                    /\ Worse(nSequenceId, tip, x)}
        /\ UNCHANGED <<chained, nSequenceId, tip>>
    BY <1>4 DEF ReconsiderBlock, Failed, sequence
  <2>2. b \in ResetFlags(b)
    BY <1>4, ChainOf DEF ResetFlags, Undoes, IsValid, TypeOK
  <2>3. tip \in Blocks /\ tip \notin Failed
    BY ChainOf DEF TypeOK, Valid, chainActive
  <2>4. ASSUME NEW x \in chained \ Failed', AsGood(x)' PROVE x \in setBlockIndexCandidates'
    <3>1. ~Worse(nSequenceId, x, tip) /\ x \in Blocks /\ valid[x] >= TRANSACTIONS
      BY <2>1, <2>4 DEF AsGood, TypeOK, Ancestry
    <3>2. CASE x \notin Failed
      BY <1>1, <2>1, <3>1, <3>2 DEF Best, Complete, AsGood
    <3>3. CASE x \in Failed
      <4>1. x \in ResetFlags(b)
        BY <1>4, <2>1, <2>2, <2>4, <3>3 DEF Undoes
      <4>2. Worse(nSequenceId, tip, x)
        BY <2>3, <3>1, <3>3, Order
      <4> QED
        BY <2>1, <3>1, <4>1, <4>2
    <3> QED
      BY <3>2, <3>3
  <2> QED
    BY <2>1, <2>4 DEF Complete
<1>5. ASSUME Restart PROVE Complete'
  <2>1. setBlockIndexCandidates' = {c \in chained' \ Failed' : ~Worse(nSequenceId', c, tip')}
    BY <1>5 DEF Restart, Prune, Failed
  <2> QED
    BY <2>1 DEF Complete, AsGood
<1> QED
  BY <1>2, <1>3, <1>4, <1>5 DEF Best

\* At the end of an activation step: the tip is as good as it was when cs_main was
\* taken, unless the hold goes on.
LEMMA BestEndStep ==
    ASSUME Base, Best, Locked, NEW w, EndStep(w, tip'), UNCHANGED <<chained, nSequenceId>>,
           tip' \in Blocks
    PROVE  /\ Locked' => pc' = "select" /\ starting_tip' = starting_tip
                         /\ ~Worse(nSequenceId, starting_tip, tip')
           /\ ~Locked' => ~Worse(nSequenceId, tip', starting_tip)
           /\ pc' = "idle" => tip' = w /\ pindexMostWork' = None
           /\ pindexMostWork' \in {w, None}
           /\ \A x \in Blocks : AsGood(x)' =>
                 ~Worse(nSequenceId, x, tip') /\ ~Worse(nSequenceId, x, starting_tip)
<1> USE DEF Base, Shape
<1>1. PICK where \in {"idle", "select", "released"} :
         /\ Continue(where, w)
         /\ where = "idle" => tip' = w
         /\ where = "select" <=> Worse(nSequenceId, tip', starting_tip)
  BY EndStepLocals
<1>2. starting_tip \in Blocks
  BY DEF Best, StartTip, TypeOK
<1>3. pc' = where /\ (where = "select" => starting_tip' = starting_tip)
      /\ pindexMostWork' \in {w, None} /\ (where = "idle" => pindexMostWork' = None)
  BY <1>1, ContinueLocals
<1>4. Locked' <=> where = "select"
  BY <1>3 DEF Locked
<1>5. Worse(nSequenceId, tip', starting_tip) => ~Worse(nSequenceId, starting_tip, tip')
  BY <1>2, Order
<1>6. ASSUME NEW x \in Blocks, AsGood(x)'
      PROVE  ~Worse(nSequenceId, x, tip') /\ ~Worse(nSequenceId, x, starting_tip)
  BY <1>1, <1>2, <1>3, <1>4, <1>6, Order DEF AsGood
<1> QED
  BY <1>1, <1>3, <1>4, <1>5, <1>6

\* Best is kept by the steps of ActivateBestChain.
LEMMA BestActivation ==
    ASSUME Base, Valid, Pruned, Best, Activation
    PROVE  Best'
<1> USE DEF Base, Shape
<1>0. /\ tip \in Blocks /\ tip \in chained /\ tip \notin Failed /\ chained \subseteq Blocks
      /\ pindexMostWork # None => pindexMostWork \in chained
      /\ Locked => starting_tip \in Blocks
      /\ Chain[tip] \cap (Failed \cup BadScripts) = {}
  BY ChainOf DEF TypeOK, Locals, Valid, chainActive, Best, StartTip
<1>1. CASE Enter \/ Relock
  <2>1. /\ ~Locked /\ Locked' /\ pc' = "select" /\ starting_tip' = tip
        /\ UNCHANGED <<chained, nSequenceId, setBlockIndexCandidates, tip, pindexMostWork>>
        /\ Failed' = Failed /\ (pindexMostWork # None => waiting' = waiting)
    BY <1>1 DEF Enter, Relock, Locked, Locals, activation, status, sequence, Failed
  <2>2. StartTip'
    BY <1>0, <2>1, Order DEF StartTip
  <2>3. \A x : AsGood(x)' <=> AsGood(x)
    BY <2>1 DEF AsGood
  <2>4. Complete'
    BY <2>1, <2>3 DEF Best, Complete
  <2>5. MostWork'
    <3>1. CASE pindexMostWork = None
      BY <2>1, <3>1 DEF MostWork
    <3>2. CASE pindexMostWork # None
      <4>1. AsGood(pindexMostWork)' /\ waiting' = waiting
        BY <2>1, <2>3, <3>2 DEF Best, MostWork, AsGood
      <4> QED
        BY <2>1, <3>2, <4>1 DEF Best, MostWork
    <3> QED
      BY <3>1, <3>2
  <2>6. BestChainActive'
    BY <2>1 DEF BestChainActive
  <2> QED
    BY <2>2, <2>4, <2>5, <2>6 DEF Best
<1>2. CASE StartStep
  <2>1. /\ pc = "select" /\ pc' = "step" /\ Locked /\ Locked'
        /\ UNCHANGED <<chained, nSequenceId, setBlockIndexCandidates, tip, pindexMostWork,
                       starting_tip, waiting>>
        /\ Failed' = Failed
    BY <1>2 DEF StartStep, Locked, activation, sequence, Failed
  <2> QED
    BY <2>1 DEF Best, StartTip, Complete, MostWork, BestChainActive, AsGood
<1>3. CASE FindMostWorkChain
  <2>1. /\ pc = "select" /\ Locked /\ Locked' /\ pindexMostWork = None
        /\ UNCHANGED <<chained, nSequenceId, tip, starting_tip, waiting, pc, failedValid>>
        /\ setBlockIndexCandidates # {}
    BY <1>3 DEF FindMostWorkChain, Locked, activation, sequence
  <2>2. \A x : AsGood(x)' <=> AsGood(x)
    BY <2>1 DEF AsGood
  <2>3. CASE pindexMostWork' = BestCandidate /\ UNCHANGED <<failedChild, setBlockIndexCandidates>>
    <3>1. Failed' = Failed
      BY <2>1, <2>3 DEF Failed
    <3>2. MostWork'
      BY <2>1, <2>2, <2>3, <3>1, BestIsBest DEF MostWork
    <3> QED
      BY <2>1, <2>2, <2>3, <3>1, <3>2 DEF Best, StartTip, Complete, BestChainActive
  <2>4. ASSUME NEW pindexTest \in Unusable(BestCandidate), pindexMostWork' = pindexMostWork,
               setBlockIndexCandidates' = setBlockIndexCandidates \
                  ((Chain[BestCandidate] \ Chain[pindexTest]) \cup {pindexTest}),
               failedChild' = IF pindexTest \in Failed
                              THEN failedChild \cup (Chain[BestCandidate] \ Chain[pindexTest])
                              ELSE failedChild
        PROVE  Best'
    <3>1. BestCandidate \in chained /\ Chain[BestCandidate] \subseteq data
      BY <2>1, BestCandidateFacts DEF TypeOK, Ancestry
    <3>2. pindexTest \in Chain[BestCandidate] \cap Failed
      BY <3>1 DEF Unusable
    <3>3. Failed' = Failed \cup (Chain[BestCandidate] \ Chain[pindexTest])
      BY <2>1, <2>4, <3>2 DEF Failed
    <3>4. Chain[starting_tip] \cap (Chain[BestCandidate] \ Chain[pindexTest]) = {}
      <4>1. starting_tip \in Blocks /\ BestCandidate \in Blocks
        BY <1>0, <2>1, <3>1
      <4>2. Chain[starting_tip] \cap Failed = {}
        BY <2>1 DEF Best, StartTip
      <4> QED
        BY <3>2, <4>1, <4>2, MarksElsewhere
    <3>5. StartTip'
      BY <2>1, <3>3, <3>4 DEF Best, StartTip
    <3>6. Complete'
      BY <2>1, <2>2, <2>4, <3>2, <3>3 DEF Best, Complete
    <3> QED
      BY <2>1, <2>4, <3>5, <3>6 DEF Best, MostWork, BestChainActive
  <2> QED
    BY <1>3, <2>3, <2>4 DEF FindMostWorkChain
<1>4. CASE NothingToDo
  <2>1. /\ pc = "select" /\ Locked /\ pindexMostWork = tip
        /\ UNCHANGED <<chained, nSequenceId, setBlockIndexCandidates, tip, waiting>>
        /\ Failed' = Failed
    BY <1>4, StartIsCandidate DEF NothingToDo, Locked, activation, sequence, Failed
  <2>2. pc' = "idle" /\ pindexMostWork' = None /\ ~Locked'
    BY <1>4, <2>1 DEF NothingToDo, Continue, AfterRelease, Locked
  <2>3. tip # None /\ ~Worse(nSequenceId, tip, starting_tip)
    BY <1>0, <2>1, BlockAssumption DEF Best, MostWork, AsGood
  <2>4. \A x \in Blocks : AsGood(x)' => AsGood(x)
    BY <1>0, <2>1, <2>2, <2>3, Order DEF AsGood
  <2>5. Complete'
    BY <1>0, <2>1, <2>4 DEF Best, Complete
  <2>6. BestChainActive'
    BY <2>1, <2>2, <2>3 DEF Best, MostWork, BestChainActive
  <2> QED
    BY <2>2, <2>5, <2>6 DEF Best, StartTip, MostWork
<1>5. CASE DisconnectTip
  <2>1. /\ pc = "step" /\ Locked /\ tip \notin Chain[pindexMostWork] /\ tip' = Parent[tip]
        /\ UNCHANGED <<chained, nSequenceId, setBlockIndexCandidates, waiting>>
        /\ Failed' = Failed /\ pindexMostWork \in chained
    BY <1>0, <1>5 DEF DisconnectTip, Locked, Locals, activation, sequence, Failed
  <2>2. tip # Genesis
    BY <1>0, <2>1, GenesisInChain
  <2>3. tip' \in Blocks /\ Worse(nSequenceId, tip', tip)
    BY <1>0, <2>1, <2>2, ParentOf, Order
  <2>4. ~Worse(nSequenceId, starting_tip, tip) /\ ~Worse(nSequenceId, starting_tip, tip')
    BY <1>0, <2>1, <2>3, Order DEF Best, StartTip
  <2>5. AsGood(pindexMostWork) /\ pindexMostWork # None
    BY <1>0, <2>1, BlockAssumption DEF Best, MostWork
  <2>6. tip' # pindexMostWork
    BY <2>3, <2>5 DEF AsGood
  <2>7. UNCHANGED abc /\ Locked'
    BY <1>5, <2>1, <2>6 DEF DisconnectTip, abc, Locked
  <2>8. \A x \in Blocks : AsGood(x)' <=> AsGood(x)
    BY <1>0, <2>1, <2>3, <2>4, <2>7, Order DEF AsGood, abc
  <2> QED
    BY <1>0, <2>1, <2>4, <2>7, <2>8 DEF Best, StartTip, Complete, MostWork, BestChainActive, abc
<1>6. ASSUME NEW b \in Blocks, ConnectTip(b) PROVE Best'
  <2>1. /\ pc = "step" /\ Locked /\ tip' = b /\ b \in Chain[pindexMostWork] /\ b # Genesis
        /\ Parent[b] = tip
        /\ setBlockIndexCandidates' = Prune(setBlockIndexCandidates, nSequenceId, b)
        /\ UNCHANGED <<chained, nSequenceId, waiting>>
        /\ Failed' = Failed /\ pindexMostWork \in chained
    BY <1>0, <1>6 DEF ConnectTip, NextToConnect, Locked, Locals, activation, sequence, Failed
  <2>2. Worse(nSequenceId, tip, b)
    BY <1>0, <2>1, ParentOf, Order
  <2>3. AsGood(pindexMostWork) /\ pindexMostWork # None
    BY <1>0, <2>1, BlockAssumption DEF Best, MostWork
  <2>4. ~Worse(nSequenceId, pindexMostWork, b)
    BY <1>0, <2>1, HeightOfAncestor, Order
  <2>5. CASE UNCHANGED abc
    <3>1. Locked' /\ UNCHANGED <<pc, pindexMostWork, starting_tip>>
      BY <2>1, <2>5 DEF Locked, abc
    <3>2. StartTip'
      BY <2>1, <3>1 DEF Best, StartTip
    <3>3. Complete'
      BY <1>0, <2>1, <2>2, <3>1, Order DEF Best, Complete, AsGood, Prune
    <3>4. MostWork'
      BY <2>1, <2>3, <2>4, <3>1 DEF Best, MostWork, AsGood
    <3> QED
      BY <2>1, <3>1, <3>2, <3>3, <3>4 DEF Best, BestChainActive
  <2>6. CASE EndStep(pindexMostWork, b)
    <3>1. /\ Locked' => pc' = "select" /\ starting_tip' = starting_tip
                         /\ ~Worse(nSequenceId, starting_tip, tip')
          /\ pc' = "idle" => tip' = pindexMostWork /\ pindexMostWork' = None
          /\ pindexMostWork' \in {pindexMostWork, None}
          /\ \A x \in Blocks : AsGood(x)' =>
                ~Worse(nSequenceId, x, tip') /\ ~Worse(nSequenceId, x, starting_tip)
      BY <2>1, <2>6, BestEndStep
    <3>2. StartTip'
      BY <2>1, <3>1 DEF Best, StartTip
    <3>3. Complete'
      BY <1>0, <2>1, <2>2, <3>1, Order DEF Best, Complete, AsGood, Prune
    <3>4. MostWork'
      BY <2>1, <2>3, <2>4, <3>1 DEF Best, MostWork, AsGood
    <3>5. BestChainActive'
      BY <2>1, <2>3, <3>1 DEF Best, MostWork, BestChainActive
    <3> QED
      BY <3>2, <3>3, <3>4, <3>5 DEF Best
  <2> QED
    BY <1>6, <2>5, <2>6 DEF ConnectTip
<1>7. ASSUME NEW b \in Blocks, ConnectTipFails(b) PROVE Best'
  <2>1. /\ pc = "step" /\ Locked /\ tip' = tip /\ b \in BadScripts
        /\ setBlockIndexCandidates' = setBlockIndexCandidates \ {b}
        /\ UNCHANGED <<chained, nSequenceId, waiting>>
        /\ Failed' = Failed \cup {b} /\ EndStep(None, tip')
    BY <1>7 DEF ConnectTipFails, InvalidBlockFound, Locked, activation, sequence, Failed
  <2>2. /\ Locked' => pc' = "select" /\ starting_tip' = starting_tip
                       /\ ~Worse(nSequenceId, starting_tip, tip')
        /\ pc' = "idle" => tip' = None
        /\ pindexMostWork' \in {None}
        /\ \A x \in Blocks : AsGood(x)' =>
              ~Worse(nSequenceId, x, tip') /\ ~Worse(nSequenceId, x, starting_tip)
    BY <1>0, <2>1, BestEndStep
  <2>3. StartTip'
    BY <2>1, <2>2 DEF Best, StartTip
  <2>4. Complete'
    BY <1>0, <2>1, <2>2 DEF Best, Complete, AsGood
  <2>5. MostWork' /\ BestChainActive'
    BY <1>0, <2>1, <2>2, BlockAssumption DEF MostWork, BestChainActive
  <2> QED
    BY <2>3, <2>4, <2>5 DEF Best
<1> QED
  BY <1>1, <1>2, <1>3, <1>4, <1>5, <1>6, <1>7 DEF Activation

\* Best holds at first, when the genesis block is the tip and the only linked block.
LEMMA InitBest == Init => Best
<1> SUFFICES ASSUME Init PROVE Best
  OBVIOUS
<1>1. TypeOK /\ Genesis \in Blocks
  BY InitBase, TreeAssumption DEF Base, Shape
<1>2. ~Worse(nSequenceId, Genesis, Genesis)
  BY <1>1, Order
<1> QED
  BY <1>1, <1>2 DEF Init, Best, StartTip, Complete, MostWork, BestChainActive, Locked

\* Best and what it rests on, over the whole of a behaviour.
LEMMA BestInvariant ==
    ASSUME ~Concurrent, "precious" \notin Rpcs
    PROVE  Spec => [](Base /\ Valid /\ Pruned /\ Best)
<1>1. ASSUME Base, Valid, Pruned, Best, Next PROVE Best'
  <2>1. ASSUME NEW b \in Blocks \ {Genesis} PROVE ~PreciousBlock(b)
    BY DEF PreciousBlock, Rpc
  <2> QED
    BY <1>1, <2>1, BestArrival, BestCommand, BestActivation DEF Next
<1>2. ASSUME Best, UNCHANGED vars PROVE Best'
  BY <1>2, BestStays DEF vars, status, sequence, abc, Failed
<1>3. Base /\ Valid /\ Pruned /\ Best /\ [Next]_vars => Valid' /\ Pruned' /\ Best'
  BY <1>1, <1>2, ValidStep, PrunedStep
<1> QED
  BY <1>3, InitValid, InitPruned, InitBest, BaseInvariant, PTL DEF Spec

\* With commands only between activations and without preciousblock, every linked block
\* that sorts at least as good as the tip and has no invalid block below it is a
\* candidate whenever cs_main is free: none that could become the tip is forgotten.
THEOREM CandidatesAreComplete ==
    ASSUME ~Concurrent, "precious" \notin Rpcs
    PROVE  Spec => []CandidatesComplete
<1>1. Base /\ Best => CandidatesComplete
  <2> SUFFICES ASSUME Base, Best, ~Locked, NEW b \in chained, ~Worse(nSequenceId, b, tip),
                      Chain[b] \cap failedValid = {}
               PROVE  b \in setBlockIndexCandidates
    BY DEF CandidatesComplete
  <2>1. b \notin Failed
    BY FailedAncestor DEF Base, Shape
  <2> QED
    BY <2>1 DEF Best, Complete, AsGood
<1> QED
  BY <1>1, BestInvariant, PTL

\* Under the same conditions the comment of PruneBlockIndexCandidates is right at every
\* moment, also while blocks are being disconnected: a candidate is left.
THEOREM CandidateIsLeft ==
    ASSUME ~Concurrent, "precious" \notin Rpcs
    PROVE  Spec => []CandidateLeft
<1>1. Base /\ Valid /\ Best => CandidateLeft
  <2> SUFFICES ASSUME Base, Valid, Best PROVE setBlockIndexCandidates # {}
    BY DEF CandidateLeft
  <2> USE DEF Base, Shape
  <2>1. CASE pc = "select"
    BY <2>1, StartIsCandidate
  <2>2. CASE pc = "step"
    <3>1. pindexMostWork # None /\ pindexMostWork \in chained \ Failed
      BY <2>2, ChainOf DEF Locals, Valid, TypeOK
    <3> QED
      BY <3>1 DEF Best, Complete, MostWork
  <2>3. CASE ~Locked
    <3>1. tip \in chained \ Failed /\ tip \in Blocks
      BY ChainOf DEF Locals, Valid, chainActive, TypeOK
    <3> QED
      BY <2>3, <3>1, Order DEF Best, Complete, AsGood
  <2> QED
    BY <2>1, <2>2, <2>3 DEF Locked
<1> QED
  BY <1>1, BestInvariant, PTL

\* Under the same conditions no usable block beats the tip once every ActivateBestChain
\* has returned.
THEOREM BestChainIsActive ==
    ASSUME ~Concurrent, "precious" \notin Rpcs
    PROVE  Spec => []BestChainActive
<1>1. Best => BestChainActive
  BY DEF Best
<1> QED
  BY <1>1, BestInvariant, PTL

-----------------------------------------------------------------------------
(* What the steps of ActivateBestChain may do.                             *)

\* "We absolutely may not unlock cs_main until we've made forward progress": a hold of
\* cs_main never ends with a tip worse than the one it began with.
ForwardProgress == Locked /\ ~Locked' => ~Worse(nSequenceId, tip', starting_tip)

\* With commands only between activations and without preciousblock, no thread ever sees
\* the chain in the middle of a reorganisation, also when blocks of the new branch turn out
\* to be invalid and the old one must be connected again.
THEOREM NoRegressSeen ==
    ASSUME ~Concurrent, "precious" \notin Rpcs
    PROVE  Spec => [][ForwardProgress]_vars
<1>1. ASSUME Base, Valid, Pruned, Best, Next, Locked, ~Locked'
      PROVE  ~Worse(nSequenceId, tip', starting_tip)
  <2> USE DEF Base, Shape
  <2>0. tip \in Blocks /\ (pindexMostWork # None => pindexMostWork \in Blocks)
    BY <1>1 DEF TypeOK
  <2>1. ASSUME NEW w, EndStep(w, tip'), UNCHANGED <<chained, nSequenceId>>, tip' \in Blocks
        PROVE  ~Worse(nSequenceId, tip', starting_tip)
    BY <1>1, <2>1, BestEndStep
  <2>2. CASE NothingToDo
    <3>1. pc = "select" /\ tip' = tip /\ pindexMostWork = tip
      BY <1>1, <2>2, StartIsCandidate DEF NothingToDo
    <3>2. tip # None
      BY <2>0, BlockAssumption
    <3> QED
      BY <1>1, <3>1, <3>2 DEF Best, MostWork, AsGood
  <2>3. CASE DisconnectTip
    <3>1. tip \in Blocks \ {Genesis}
      BY <1>1, <2>0, <2>3, GenesisInChain DEF DisconnectTip, Locals
    <3>2. EndStep(pindexMostWork, tip') /\ UNCHANGED <<chained, nSequenceId>> /\ tip' \in Blocks
      BY <1>1, <2>3, <3>1, ParentOf DEF DisconnectTip, Locked, abc, activation, sequence
    <3> QED
      BY <2>1, <3>2
  <2>4. ASSUME NEW b \in Blocks, ConnectTip(b) PROVE ~Worse(nSequenceId, tip', starting_tip)
    <3>1. EndStep(pindexMostWork, tip') /\ UNCHANGED <<chained, nSequenceId>> /\ tip' \in Blocks
      BY <1>1, <2>4 DEF ConnectTip, Locked, abc, activation, sequence
    <3> QED
      BY <2>1, <3>1
  <2>5. ASSUME NEW b \in Blocks, ConnectTipFails(b) PROVE ~Worse(nSequenceId, tip', starting_tip)
    <3>1. EndStep(None, tip') /\ UNCHANGED <<chained, nSequenceId>> /\ tip' \in Blocks
      BY <2>0, <2>5 DEF ConnectTipFails, activation, sequence
    <3> QED
      BY <2>1, <3>1
  <2>6. CASE Enter \/ Relock \/ FindMostWorkChain \/ StartStep
    BY <1>1, <2>6 DEF Enter, Relock, FindMostWorkChain, StartStep, Locked
  <2>7. CASE Activation
    BY <2>2, <2>3, <2>4, <2>5, <2>6, <2>7 DEF Activation
  <2>8. CASE Restart \/ \E b \in Blocks \ {Genesis} :
               \/ AcceptBlockHeader(b) \/ RejectBlockHeader(b)
               \/ \E fRequested \in BOOLEAN : AcceptBlock(b, fRequested)
               \/ PreciousBlock(b) \/ InvalidateBlock(b) \/ ReconsiderBlock(b)
    BY <1>1, <2>8 DEF Restart, AcceptBlockHeader, RejectBlockHeader, AcceptBlock, PreciousBlock,
                      InvalidateBlock, ReconsiderBlock, Rpc
  <2> QED
    BY <1>1, <2>7, <2>8 DEF Next
<1>2. Base /\ Valid /\ Pruned /\ Best /\ [Next]_vars => [ForwardProgress]_vars
  BY <1>1 DEF ForwardProgress
<1> QED
  BY <1>2, BestInvariant, PTL DEF Spec

\* What ActivateBestChain has left to do: blocks that may still turn out to be invalid,
\* candidates to look at, blocks to disconnect and to connect, and the way through its
\* loops.
Untried == Cardinality(Blocks \ failedValid)
ToLookAt == IF pindexMostWork = None THEN Cardinality(setBlockIndexCandidates) + 1 ELSE 0
Way ==
    IF pindexMostWork = None THEN {}
    ELSE (chainActive \ Chain[pindexMostWork]) \cup (Chain[pindexMostWork] \ chainActive)
ToMove == Cardinality(Way)
Stage ==
    (IF blocks_connected THEN 3 ELSE 0)
    + (IF pc = "released" THEN 2 ELSE IF pc = "select" THEN 1 ELSE 0)

Counts == Untried \in Nat /\ ToLookAt \in Nat /\ ToMove \in Nat /\ Stage \in Nat

\* There is less to do, in the order of the four.
LessToDo ==
    \/ Untried' < Untried
    \/ Untried' = Untried /\ ToLookAt' < ToLookAt
    \/ Untried' = Untried /\ ToLookAt' = ToLookAt /\ ToMove' < ToMove
    \/ Untried' = Untried /\ ToLookAt' = ToLookAt /\ ToMove' = ToMove /\ Stage' < Stage

\* A step inside ActivateBestChain leaves less to do.
StepsForward == Activation /\ pc # "idle" /\ pc' # "idle" => Counts /\ LessToDo

\* A finite set has fewer members when some are taken from it.
LEMMA Fewer ==
    ASSUME NEW S, IsFiniteSet(S), NEW T \in SUBSET S
    PROVE  /\ Cardinality(S) \in Nat /\ Cardinality(T) \in Nat
           /\ T # S => Cardinality(T) < Cardinality(S)
<1>1. IsFiniteSet(T) /\ Cardinality(T) <= Cardinality(S) /\ (Cardinality(S) = Cardinality(T) => S = T)
  BY FS_Subset
<1>2. Cardinality(S) \in Nat /\ Cardinality(T) \in Nat
  BY <1>1, FS_CardinalityType
<1> QED
  BY <1>1, <1>2, SMT

\* The four are numbers.
LEMMA CountsType ==
    ASSUME TypeOK
    PROVE  Counts
<1>1. setBlockIndexCandidates \in SUBSET Blocks /\ Way \in SUBSET Blocks
      /\ Blocks \ failedValid \in SUBSET Blocks
  <2>1. tip \in Blocks /\ (pindexMostWork # None => pindexMostWork \in Blocks)
    BY DEF TypeOK
  <2> QED
    BY <2>1, ChainBounded DEF TypeOK, Way, chainActive
<1>2. Untried \in Nat /\ ToMove \in Nat /\ Cardinality(setBlockIndexCandidates) \in Nat
  BY <1>1, BlockAssumption, Fewer DEF Untried, ToMove
<1> QED
  BY <1>2, SMT DEF Counts, ToLookAt, Stage

\* One block less on the way to what is worked towards.
LEMMA OneLessOnWay ==
    ASSUME TypeOK, NEW b \in Way, Way' = Way \ {b}
    PROVE  ToMove' < ToMove
<1>1. Way \in SUBSET Blocks
  <2>1. tip \in Blocks /\ (pindexMostWork # None => pindexMostWork \in Blocks)
    BY DEF TypeOK
  <2> QED
    BY <2>1, ChainBounded DEF Way, chainActive
<1>2. IsFiniteSet(Way)
  BY <1>1, BlockAssumption, FS_Subset
<1> QED
  BY <1>2, Fewer DEF ToMove

\* The target is kept when ActivateBestChain goes on after an activation step.
LEMMA EndStepKeeps ==
    ASSUME NEW w, NEW top, EndStep(w, top), pc' # "idle"
    PROVE  pindexMostWork' = w
BY DEF EndStep, Continue

\* With commands only between activations, every step of ActivateBestChain that is not its
\* last one leaves less to do, in an order without infinite descent: a block that fails is
\* not tried again, a candidate that is ruled out is not looked at again, and no block is
\* disconnected or connected to and fro.
THEOREM ActivationEnds ==
    ASSUME ~Concurrent
    PROVE  Spec => [][StepsForward]_vars
<1>1. ASSUME Base, Valid, Activation, pc # "idle", pc' # "idle" PROVE LessToDo
  <2> USE DEF Base, Shape
  <2>0. /\ tip \in Blocks /\ (pindexMostWork # None => pindexMostWork \in Blocks)
        /\ (pc = "step" => pindexMostWork # None)
    BY <1>1 DEF TypeOK, Locals
  <2>1. CASE Relock \/ StartStep \/ NothingToDo
    <3>1. UNCHANGED <<failedValid, setBlockIndexCandidates, tip, pindexMostWork>>
      BY <1>1, <2>1 DEF Relock, StartStep, NothingToDo, Continue
    <3>2. UNCHANGED <<Untried, ToLookAt, ToMove>>
      BY <3>1 DEF Untried, ToLookAt, ToMove, Way, chainActive
    <3>3. CASE Relock \/ StartStep
      <4>1. /\ blocks_connected' = blocks_connected
            /\ \/ pc = "released" /\ pc' = "select"
               \/ pc = "select" /\ pc' = "step"
        BY <3>3 DEF Relock, StartStep
      <4>2. Stage' < Stage
        BY <4>1, SMT DEF Stage
      <4> QED
        BY <3>2, <4>2 DEF LessToDo
    <3>4. CASE NothingToDo
      <4>1. blocks_connected /\ blocks_connected' = FALSE /\ pc = "select" /\ pc' = "released"
        BY <1>1, <3>4 DEF NothingToDo, Continue, AfterRelease
      <4>2. Stage' < Stage
        BY <4>1, SMT DEF Stage
      <4> QED
        BY <3>2, <4>2 DEF LessToDo
    <3> QED
      BY <2>1, <3>3, <3>4
  <2>2. CASE FindMostWorkChain
    <3>1. /\ pindexMostWork = None /\ setBlockIndexCandidates # {} /\ failedValid' = failedValid
          /\ BestCandidate \in setBlockIndexCandidates /\ BestCandidate \in Blocks
      BY <1>1, <2>2, BestCandidateFacts DEF FindMostWorkChain, TypeOK
    <3>2. Untried' = Untried
      BY <3>1 DEF Untried
    <3>3. CASE pindexMostWork' = BestCandidate
      <4>1. ToLookAt' = 0 /\ ToLookAt = Cardinality(setBlockIndexCandidates) + 1
        BY <3>1, <3>3, BlockAssumption DEF ToLookAt
      <4>2. ToLookAt' < ToLookAt
        <5>1. IsFiniteSet(setBlockIndexCandidates)
          BY <1>1, BlockAssumption, FS_Subset DEF TypeOK
        <5>2. Cardinality(setBlockIndexCandidates) \in Nat
          BY <5>1, FS_CardinalityType
        <5> QED
          BY <4>1, <5>2, SMT
      <4> QED
        BY <3>2, <4>2 DEF LessToDo
    <3>4. ASSUME NEW pindexTest \in Unusable(BestCandidate), pindexMostWork' = pindexMostWork,
                 setBlockIndexCandidates' = setBlockIndexCandidates \
                    ((Chain[BestCandidate] \ Chain[pindexTest]) \cup {pindexTest})
          PROVE  LessToDo
      <4>1. BestCandidate \in (Chain[BestCandidate] \ Chain[pindexTest]) \cup {pindexTest}
        BY <3>1, ChainOf, ChainBounded, ChainAntisymmetric DEF Unusable
      <4>2. /\ setBlockIndexCandidates' \in SUBSET setBlockIndexCandidates
            /\ setBlockIndexCandidates' # setBlockIndexCandidates
        BY <3>1, <3>4, <4>1
      <4>3. IsFiniteSet(setBlockIndexCandidates)
        BY <1>1, BlockAssumption, FS_Subset DEF TypeOK
      <4>4. /\ Cardinality(setBlockIndexCandidates') < Cardinality(setBlockIndexCandidates)
            /\ Cardinality(setBlockIndexCandidates') \in Nat
            /\ Cardinality(setBlockIndexCandidates) \in Nat
        BY <4>2, <4>3, Fewer
      <4>5. ToLookAt' < ToLookAt
        BY <3>1, <3>4, <4>4, SMT DEF ToLookAt
      <4> QED
        BY <3>2, <4>5 DEF LessToDo
    <3> QED
      BY <2>2, <3>3, <3>4 DEF FindMostWorkChain
  <2>3. CASE DisconnectTip
    <3>1. tip \in Blocks \ {Genesis} /\ tip' = Parent[tip] /\ tip \notin Chain[pindexMostWork]
          /\ pindexMostWork # None
      BY <2>0, <2>3, GenesisInChain DEF DisconnectTip
    <3>2. UNCHANGED <<failedValid, setBlockIndexCandidates, pindexMostWork>>
      BY <1>1, <2>3, EndStepKeeps DEF DisconnectTip, abc
    <3>3. chainActive' = chainActive \ {tip} /\ tip \in chainActive
      BY <3>1, ParentOf, SMT DEF chainActive
    <3>4. tip \in Way /\ Way' = Way \ {tip}
      BY <3>1, <3>2, <3>3 DEF Way
    <3>5. ToMove' < ToMove
      BY <1>1, <3>4, OneLessOnWay
    <3> QED
      BY <3>2, <3>5 DEF LessToDo, Untried, ToLookAt
  <2>4. ASSUME NEW b \in Blocks, ConnectTip(b) PROVE LessToDo
    <3>1. b \in Blocks \ {Genesis} /\ b \in Chain[pindexMostWork] /\ Parent[b] = tip /\ tip' = b
          /\ pindexMostWork # None
      BY <2>0, <2>4 DEF ConnectTip, NextToConnect
    <3>2. UNCHANGED <<failedValid, pindexMostWork>>
      BY <1>1, <2>4, EndStepKeeps DEF ConnectTip, abc
    <3>3. chainActive' = chainActive \cup {b} /\ b \notin chainActive
      BY <3>1, ParentOf DEF chainActive
    <3>4. b \in Way /\ Way' = Way \ {b}
      BY <3>1, <3>2, <3>3 DEF Way
    <3>5. ToMove' < ToMove
      BY <1>1, <3>4, OneLessOnWay
    <3> QED
      BY <3>1, <3>2, <3>5 DEF LessToDo, Untried, ToLookAt
  <2>5. ASSUME NEW b \in Blocks, ConnectTipFails(b) PROVE LessToDo
    <3>1. b \in Chain[pindexMostWork] /\ pindexMostWork # None /\ failedValid' = failedValid \cup {b}
      BY <2>0, <2>5 DEF ConnectTipFails, NextToConnect, InvalidBlockFound
    <3>2. b \notin failedValid
      BY <1>1, <3>1 DEF Valid, Failed
    <3>3. /\ Blocks \ failedValid' \in SUBSET (Blocks \ failedValid)
          /\ Blocks \ failedValid' # Blocks \ failedValid
      BY <3>1, <3>2
    <3>4. IsFiniteSet(Blocks \ failedValid)
      BY BlockAssumption, FS_Subset
    <3>5. Untried' < Untried
      BY <3>3, <3>4, Fewer DEF Untried
    <3> QED
      BY <3>5 DEF LessToDo
  <2> QED
    BY <1>1, <2>1, <2>2, <2>3, <2>4, <2>5 DEF Activation, Enter
<1>2. Base /\ Valid /\ [Next]_vars => [StepsForward]_vars
  BY <1>1, CountsType DEF StepsForward, Base, Shape
<1>3. Base /\ Valid /\ [Next]_vars => Valid'
  BY ValidStep
<1> QED
  BY <1>2, <1>3, InitValid, BaseInvariant, PTL DEF Spec
=============================================================================
