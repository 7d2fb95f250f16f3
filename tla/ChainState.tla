----------------------------- MODULE ChainState -----------------------------
(***************************************************************************)
(* CChainState (src/validation.cpp): the block index, the candidates for   *)
(* the next tip and the active chain, under header and block arrival in    *)
(* any order, preciousblock, invalidateblock, reconsiderblock, a restart,  *)
(* and ActivateBestChain, which gives up cs_main between its steps.        *)
(*                                                                         *)
(* A step is one hold of cs_main; inside ActivateBestChain's hold the      *)
(* blocks are disconnected and connected one step at a time and every      *)
(* other operation waits (Locked).  Blocks are numbers: the order of the   *)
(* numbers stands for the order of the CBlockIndex addresses, the last     *)
(* tie-breaker of CBlockIndexWorkComparator.  Blocks are never pruned      *)
(* here, so nTx # 0 and BLOCK_HAVE_DATA are the same.                      *)
(***************************************************************************)
EXTENDS Integers, FiniteSets, BlockTree

CONSTANTS
    BadBlocks,         \* blocks that ContextualCheckBlock rejects
    BadScripts,        \* blocks that ConnectBlock rejects
    Rpcs,              \* which of the RPC commands are used: "precious", "invalidate",
                       \* "reconsider"; and "restart"
    Concurrent,        \* whether they are used while ActivateBestChain is under way
    MinBlocksToKeep,   \* MIN_BLOCKS_TO_KEEP
    MaxCommands,       \* bound: RPC commands and restarts
    None               \* nullptr

TREE == 2
TRANSACTIONS == 3
SCRIPTS == 5

ASSUME BlockAssumption == IsFiniteSet(Blocks) /\ None \notin Blocks
ASSUME BadAssumption ==
    (BadBlocks \cup BadScripts) \subseteq Blocks \ {Genesis}
ASSUME BoundAssumption ==
    MinBlocksToKeep \in Nat /\ MaxCommands \in Nat

VARIABLES
    index,        \* mapBlockIndex
    valid,        \* nStatus & BLOCK_VALID_MASK
    data,         \* blocks with BLOCK_HAVE_DATA
    failedValid,  \* blocks with BLOCK_FAILED_VALID
    failedChild,  \* blocks with BLOCK_FAILED_CHILD
    chained,      \* blocks with nChainTx # 0
    nSequenceId, nBlockSequenceId,
    setBlockIndexCandidates,
    mapBlocksUnlinked,    \* the blocks in it; each is filed under its parent
    m_failed_blocks,
    tip,                  \* chainActive.Tip()
    nLastPreciousHeight, nBlockReverseSequenceId,
    waiting,              \* some thread is about to enter ActivateBestChain
    pc,                   \* where the thread inside ActivateBestChain is
    pindexMostWork, starting_tip, pindexOldTip, blocks_connected,  \* its locals
    commands              \* RPC commands and restarts so far

status == <<valid, data, failedValid, failedChild, chained>>
sequence == <<nSequenceId, nBlockSequenceId, nLastPreciousHeight, nBlockReverseSequenceId>>
abc == <<pc, pindexMostWork, starting_tip, pindexOldTip, blocks_connected>>
vars == <<index, status, sequence, setBlockIndexCandidates, mapBlocksUnlinked,
          m_failed_blocks, tip, waiting, abc,
          commands>>

-----------------------------------------------------------------------------
chainActive == Chain[tip]
Failed == failedValid \cup failedChild

\* IsValid(nUpTo)
IsValid(b, nUpTo) == b \notin Failed /\ valid[b] >= nUpTo

\* CBlockIndexWorkComparator: a sorts before b.
Worse(seq, a, b) ==
    \/ nHeight[a] < nHeight[b]
    \/ nHeight[a] = nHeight[b] /\ seq[a] > seq[b]
    \/ nHeight[a] = nHeight[b] /\ seq[a] = seq[b] /\ a > b

\* Variant: the tip goes too.
PruneTip(candidates, seq, top) == {c \in candidates : Worse(seq, top, c)}

\* Variant: only shorter chains go.
PruneShorter(candidates, seq, top) == {c \in candidates : nHeight[c] >= nHeight[top]}

\* PruneBlockIndexCandidates
Prune(candidates, seq, top) == {c \in candidates : ~Worse(seq, c, top)}

-----------------------------------------------------------------------------
Init ==
    /\ index = {Genesis} /\ data = {Genesis} /\ chained = {Genesis}
    /\ valid = [b \in Blocks |-> IF b = Genesis THEN TRANSACTIONS ELSE 0]
    /\ failedValid = {} /\ failedChild = {}
    /\ nSequenceId = [b \in Blocks |-> IF b = Genesis THEN 1 ELSE 0]
    /\ nBlockSequenceId = 2
    /\ setBlockIndexCandidates = {Genesis} /\ mapBlocksUnlinked = {}
    /\ m_failed_blocks = {}
    /\ tip = Genesis
    /\ nLastPreciousHeight = 0 /\ nBlockReverseSequenceId = -1
    /\ waiting = FALSE /\ pc = "idle" /\ pindexMostWork = None
    /\ starting_tip = None /\ pindexOldTip = None /\ blocks_connected = FALSE
    /\ commands = 0

\* ActivateBestChain holds cs_main.
Locked == pc \in {"select", "step"}

-----------------------------------------------------------------------------
(* Headers and blocks.                                                     *)

\* Blocks found invalid that pindexPrev descends from, unless it is known valid.
FailedAbove(prev) == IF IsValid(prev, SCRIPTS) THEN {} ELSE m_failed_blocks \cap Chain[prev]

\* AcceptBlockHeader lets a new header in.
HeaderOk(b) ==
    /\ Parent[b] \in index /\ Parent[b] \notin Failed
    /\ FailedAbove(Parent[b]) = {}

\* AddToBlockIndex: what is known of a block once its header is.
TreeValid(b) == IF b \in index THEN valid ELSE [valid EXCEPT ![b] = TREE]

\* A new header, alone or with its block, that is accepted.
AcceptBlockHeader(b) ==
    /\ ~Locked
    /\ b \notin index /\ HeaderOk(b)
    /\ index' = index \cup {b} /\ valid' = TreeValid(b)
    /\ UNCHANGED <<data, failedValid, failedChild, chained, sequence,
                   setBlockIndexCandidates, mapBlocksUnlinked, m_failed_blocks,
                   tip, waiting, abc, commands>>

\* A new header refused because of a block found invalid further down: the
\* blocks in between are marked.
RejectBlockHeader(b) ==
    /\ ~Locked
    /\ b \notin index /\ Parent[b] \in index /\ Parent[b] \notin Failed
    /\ \E failedit \in FailedAbove(Parent[b]) :
          failedChild' = failedChild \cup (Chain[Parent[b]] \ Chain[failedit])
    /\ UNCHANGED <<index, valid, data, failedValid, chained, sequence,
                   setBlockIndexCandidates, mapBlocksUnlinked, m_failed_blocks,
                   tip, waiting, abc, commands>>

\* The block and those of its descendants that only waited for it.
NowLinked(b) ==
    {x \in Blocks : b \in Chain[x] /\ Chain[x] \ Chain[b] \subseteq mapBlocksUnlinked}

\* Variant: the entries of the linked blocks stay.
StillUnlinkedAll(linked) == mapBlocksUnlinked

StillUnlinked(linked) == mapBlocksUnlinked \ linked

\* The order in which the queue of ReceivedBlockTransactions is processed:
\* breadth first, siblings as they were filed.
LinkOrders(S) ==
    {rank \in [S -> 0..(Cardinality(S) - 1)] :
        \A x, y \in S : /\ x # y => rank[x] # rank[y]
                        /\ nHeight[x] < nHeight[y] => rank[x] < rank[y]}

\* ReceivedBlockTransactions
ReceivedBlockTransactions(b) ==
    /\ data' = data \cup {b}
    /\ valid' = [valid EXCEPT ![b] = TRANSACTIONS]
    /\ IF Parent[b] \in chained
       THEN LET linked == NowLinked(b) IN
            /\ chained' = chained \cup linked
            /\ \E rank \in LinkOrders(linked) :
                  nSequenceId' = [x \in Blocks |-> IF x \in linked
                                                   THEN nBlockSequenceId + rank[x]
                                                   ELSE nSequenceId[x]]
            /\ nBlockSequenceId' = nBlockSequenceId + Cardinality(linked)
            /\ setBlockIndexCandidates' = setBlockIndexCandidates \cup
                  {x \in linked : ~Worse(nSequenceId', x, tip)}
            /\ mapBlocksUnlinked' = StillUnlinked(linked)
       ELSE /\ mapBlocksUnlinked' = IF IsValid(Parent[b], TREE)
                                    THEN mapBlocksUnlinked \cup {b} ELSE mapBlocksUnlinked
            /\ UNCHANGED <<chained, nSequenceId, nBlockSequenceId, setBlockIndexCandidates>>

\* A block that we did not ask for must be able to become the tip, soon.
Wanted(b, fRequested) ==
    /\ b \notin data
    /\ \/ fRequested
       \/ nHeight[b] >= nHeight[tip] /\ nHeight[b] <= nHeight[tip] + MinBlocksToKeep

\* ProcessNewBlock up to ActivateBestChain: AcceptBlock
AcceptBlock(b, fRequested) ==
    /\ ~Locked
    /\ IF b \in index THEN b \notin Failed ELSE HeaderOk(b)
    /\ index' = index \cup {b}
    /\ \/ /\ ~Wanted(b, fRequested)
          /\ valid' = TreeValid(b) /\ waiting' = TRUE
          /\ UNCHANGED <<data, failedValid, chained, nSequenceId, nBlockSequenceId,
                         setBlockIndexCandidates, mapBlocksUnlinked>>
       \/ /\ Wanted(b, fRequested) /\ b \in BadBlocks
          /\ valid' = TreeValid(b) /\ failedValid' = failedValid \cup {b}
          /\ UNCHANGED <<data, chained, nSequenceId, nBlockSequenceId,
                         setBlockIndexCandidates, mapBlocksUnlinked, waiting>>
       \/ /\ Wanted(b, fRequested) /\ b \notin BadBlocks
          /\ ReceivedBlockTransactions(b) /\ waiting' = TRUE
          /\ UNCHANGED failedValid
    /\ UNCHANGED <<failedChild, nLastPreciousHeight, nBlockReverseSequenceId,
                   m_failed_blocks, tip, abc, commands>>

-----------------------------------------------------------------------------
(* The RPC commands preciousblock, invalidateblock and reconsiderblock; all *)
(* of them call ActivateBestChain afterwards.                              *)

Rpc(name) ==
    /\ name \in Rpcs /\ ~Locked /\ (Concurrent \/ pc = "idle")
    /\ commands < MaxCommands

PreciousBlock(b) ==
    /\ Rpc("precious") /\ commands' = commands + 1 /\ b \in index
    /\ nHeight[b] >= nHeight[tip]
    /\ LET id == IF nHeight[tip] > nLastPreciousHeight THEN -1 ELSE nBlockReverseSequenceId
       IN  /\ nSequenceId' = [nSequenceId EXCEPT ![b] = id]
           /\ nBlockReverseSequenceId' = id - 1
    /\ nLastPreciousHeight' = nHeight[tip]
    /\ setBlockIndexCandidates' =
          IF IsValid(b, TRANSACTIONS) /\ b \in chained
          THEN Prune(setBlockIndexCandidates \cup {b}, nSequenceId', tip)
          ELSE setBlockIndexCandidates \ {b}
    /\ waiting' = TRUE
    /\ UNCHANGED <<index, status, nBlockSequenceId, mapBlocksUnlinked, m_failed_blocks,
                   tip, abc>>

\* Variant: the blocks that became the best ones are not put back.
InvalidateBlockForget(b) ==
    /\ Rpc("invalidate") /\ commands' = commands + 1 /\ b \in index \ {Genesis}
    /\ tip' = IF b \in chainActive THEN Parent[b] ELSE tip
    /\ failedChild' = failedChild \cup
          (IF b \in chainActive THEN chainActive \ Chain[b] ELSE {})
    /\ failedValid' = failedValid \cup {b}
    /\ setBlockIndexCandidates' = setBlockIndexCandidates \ (failedValid' \cup failedChild')
    /\ m_failed_blocks' = m_failed_blocks \cup {b}
    /\ waiting' = TRUE
    /\ UNCHANGED <<index, valid, data, chained, sequence, mapBlocksUnlinked,
                   abc>>

\* The active blocks from b on are disconnected first; those above b are marked
\* as children, b as failed, and everything as good as the new tip becomes a
\* candidate again.
InvalidateBlock(b) ==
    /\ Rpc("invalidate") /\ commands' = commands + 1 /\ b \in index \ {Genesis}
    /\ tip' = IF b \in chainActive THEN Parent[b] ELSE tip
    /\ LET children == IF b \in chainActive THEN chainActive \ Chain[b] ELSE {} IN
       /\ failedChild' = failedChild \cup children
       /\ failedValid' = failedValid \cup {b}
       /\ setBlockIndexCandidates' =
             (setBlockIndexCandidates \ (children \cup {b})) \cup
             {x \in index : /\ x \notin failedValid' \cup failedChild'
                            /\ valid[x] >= TRANSACTIONS /\ x \in chained
                            /\ ~Worse(nSequenceId, x, tip')}
    /\ m_failed_blocks' = m_failed_blocks \cup {b}
    /\ waiting' = TRUE
    /\ UNCHANGED <<index, valid, data, chained, sequence, mapBlocksUnlinked,
                   abc>>

\* Variant: the failure of the descendants stays.
ResetFlagsAlone(b) == {b}

\* The descendants of b, b included, that ResetBlockFailureFlags clears.
ResetFlags(b) == {x \in index : ~IsValid(x, TRANSACTIONS) /\ b \in Chain[x]}

\* Variant: b is still remembered as failed.
StillFailedAll(cleared) == m_failed_blocks

StillFailed(cleared) == m_failed_blocks \ cleared

\* ResetBlockFailureFlags: the descendants that are better than the tip become
\* candidates; then the ancestors are cleared too.
ReconsiderBlock(b) ==
    /\ Rpc("reconsider") /\ commands' = commands + 1 /\ b \in index \ {Genesis}
    /\ LET reset == ResetFlags(b) IN
       /\ failedValid' = failedValid \ (reset \cup Chain[b])
       /\ failedChild' = failedChild \ (reset \cup Chain[b])
       /\ m_failed_blocks' = StillFailed(reset \cup (Chain[b] \cap Failed))
       /\ setBlockIndexCandidates' = setBlockIndexCandidates \cup
             {x \in reset : /\ valid[x] >= TRANSACTIONS /\ x \in chained
                            /\ Worse(nSequenceId, tip, x)}
    /\ waiting' = TRUE
    /\ UNCHANGED <<index, valid, data, chained, sequence, mapBlocksUnlinked,
                   tip, abc>>

-----------------------------------------------------------------------------
(* ActivateBestChain.                                                      *)

activation == <<index, data, chained, sequence, waiting, commands>>

\* LOCK(m_cs_chainstate) and the first LOCK(cs_main).
Enter ==
    /\ waiting /\ pc = "idle"
    /\ waiting' = FALSE
    /\ pc' = "select" /\ starting_tip' = tip
    /\ UNCHANGED <<index, status, sequence, setBlockIndexCandidates, mapBlocksUnlinked,
                   m_failed_blocks, tip, pindexMostWork, pindexOldTip, blocks_connected,
                   commands>>

\* cs_main is taken again; pindexMostWork is kept.
Relock ==
    /\ pc = "released"
    /\ pc' = "select" /\ starting_tip' = tip
    /\ UNCHANGED <<activation, valid, failedValid, failedChild, setBlockIndexCandidates,
                   mapBlocksUnlinked, m_failed_blocks, tip, pindexMostWork, pindexOldTip,
                   blocks_connected>>

BestCandidate ==
    CHOOSE c \in setBlockIndexCandidates :
        \A d \in setBlockIndexCandidates \ {c} : Worse(nSequenceId, d, c)

\* Variant: failed ancestors of the candidate are not looked for.
UnusableTop(c) == {x \in {c} : x \in Failed \/ x \notin data}

\* Blocks between the active chain and the candidate that rule it out.
Unusable(c) == {x \in Chain[c] \ chainActive : x \in Failed \/ x \notin data}

\* One pass of FindMostWorkChain.
FindMostWorkChain ==
    /\ pc = "select" /\ pindexMostWork = None /\ setBlockIndexCandidates # {}
    /\ LET pindexNew == BestCandidate
           bad       == Unusable(pindexNew)
       IN  \/ /\ bad = {}
              /\ pindexMostWork' = pindexNew
              /\ UNCHANGED <<failedChild, setBlockIndexCandidates, mapBlocksUnlinked>>
           \/ \E pindexTest \in bad :
                 LET above == Chain[pindexNew] \ Chain[pindexTest] IN
                 /\ \A x \in bad : nHeight[x] <= nHeight[pindexTest]
                 /\ setBlockIndexCandidates' = setBlockIndexCandidates \ (above \cup {pindexTest})
                 /\ failedChild' = IF pindexTest \in Failed THEN failedChild \cup above
                                   ELSE failedChild
                 /\ mapBlocksUnlinked' = IF pindexTest \in Failed THEN mapBlocksUnlinked
                                         ELSE mapBlocksUnlinked \cup above
                 /\ UNCHANGED pindexMostWork
    /\ UNCHANGED <<activation, valid, failedValid, m_failed_blocks, tip, pc,
                   starting_tip, pindexOldTip, blocks_connected>>

\* On to the next round with cs_main held ("select"), on to the next one after
\* giving it up ("released"), or out of the function, whose locals are gone.
Continue(where, mostWork) ==
    /\ pc' = where
    /\ pindexMostWork' = IF where = "idle" THEN None ELSE mostWork
    /\ starting_tip' = IF where = "select" THEN starting_tip ELSE None
    /\ blocks_connected' = (where = "select")
    /\ pindexOldTip' = None

\* pindexNewTip != pindexMostWork
AfterRelease(mostWork, top) == IF top # mostWork THEN "released" ELSE "idle"

\* Nothing (more) to do: there is no candidate, or it is the tip.
NothingToDo ==
    /\ pc = "select"
    /\ \/ pindexMostWork = None /\ setBlockIndexCandidates = {}
       \/ pindexMostWork = tip
    /\ Continue(IF blocks_connected THEN AfterRelease(pindexMostWork, tip) ELSE "idle",
                pindexMostWork)
    /\ UNCHANGED <<activation, valid, failedValid, failedChild, setBlockIndexCandidates,
                   mapBlocksUnlinked, m_failed_blocks, tip>>

\* ActivateBestChainStep begins.
StartStep ==
    /\ pc = "select" /\ pindexMostWork \notin {None, tip}
    /\ pc' = "step" /\ pindexOldTip' = tip
    /\ UNCHANGED <<activation, valid, failedValid, failedChild, setBlockIndexCandidates,
                   mapBlocksUnlinked, m_failed_blocks, tip, pindexMostWork, starting_tip,
                   blocks_connected>>

\* ActivateBestChainStep has returned: cs_main is kept while the tip is worse
\* than it was when the lock was taken.
EndStep(mostWork, top) ==
    Continue(IF Worse(nSequenceId, top, starting_tip) THEN "select"
             ELSE AfterRelease(mostWork, top), mostWork)

\* DisconnectTip while the tip is not on the way to pindexMostWork.
DisconnectTip ==
    /\ pc = "step" /\ tip \notin Chain[pindexMostWork]
    /\ tip' = Parent[tip]
    /\ IF tip' = pindexMostWork THEN EndStep(pindexMostWork, tip') ELSE UNCHANGED abc
    /\ UNCHANGED <<activation, valid, failedValid, failedChild, setBlockIndexCandidates,
                   mapBlocksUnlinked, m_failed_blocks>>

\* The next block on the way to pindexMostWork.
NextToConnect(b) == b \in Chain[pindexMostWork] \ {Genesis} /\ Parent[b] = tip

\* ConnectTip succeeds; the step goes on until the chain is longer than it was.
ConnectTip(b) ==
    /\ pc = "step" /\ NextToConnect(b) /\ b \notin BadScripts
    /\ tip' = b
    /\ valid' = IF b \in Failed THEN valid ELSE [valid EXCEPT ![b] = SCRIPTS]
    /\ setBlockIndexCandidates' = Prune(setBlockIndexCandidates, nSequenceId, b)
    /\ IF b = pindexMostWork \/ nHeight[b] > nHeight[pindexOldTip]
       THEN EndStep(pindexMostWork, b)
       ELSE UNCHANGED abc
    /\ UNCHANGED <<activation, failedValid, failedChild, mapBlocksUnlinked,
                   m_failed_blocks>>

\* Variant: the result of ConnectBlock is not recorded.
InvalidBlockFoundLost(b) == UNCHANGED <<failedValid, m_failed_blocks, setBlockIndexCandidates>>

\* InvalidBlockFound
InvalidBlockFound(b) ==
    /\ failedValid' = failedValid \cup {b}
    /\ m_failed_blocks' = m_failed_blocks \cup {b}
    /\ setBlockIndexCandidates' = setBlockIndexCandidates \ {b}

\* ConnectTip fails: the block is invalid and another branch is needed.
ConnectTipFails(b) ==
    /\ pc = "step" /\ NextToConnect(b) /\ b \in BadScripts
    /\ InvalidBlockFound(b)
    /\ EndStep(None, tip)
    /\ UNCHANGED <<activation, valid, failedChild, mapBlocksUnlinked, tip>>

-----------------------------------------------------------------------------
\* LoadBlockIndex marks the descendants of failed blocks.
FailedBelow(failed) == {b \in index \ failed : Chain[b] \cap failed # {}}

\* A shutdown that flushes everything, and a start: LoadBlockIndex, LoadChainTip
\* and the ActivateBestChain of ThreadImport.
Restart ==
    /\ Rpc("restart") /\ pc = "idle" /\ commands' = commands + 1
    /\ nSequenceId' = [b \in Blocks |-> 0] /\ nBlockSequenceId' = 1
    /\ nLastPreciousHeight' = 0 /\ nBlockReverseSequenceId' = -1
    /\ m_failed_blocks' = {}
    /\ failedChild' = failedChild \cup FailedBelow(Failed)
    /\ chained' = {b \in data : Chain[b] \subseteq data}
    /\ mapBlocksUnlinked' = {b \in data \ {Genesis} : Parent[b] \notin chained'}
    /\ setBlockIndexCandidates' =
          Prune(chained' \ (failedValid \cup failedChild'), nSequenceId', tip)
    /\ waiting' = TRUE
    /\ UNCHANGED <<index, valid, data, failedValid, tip, abc>>

-----------------------------------------------------------------------------
Activation ==
    \/ Enter \/ Relock \/ FindMostWorkChain \/ NothingToDo \/ StartStep \/ DisconnectTip
    \/ \E b \in Blocks : ConnectTip(b) \/ ConnectTipFails(b)

\* reconsiderblock is used as its help says, "to undo the effects of
\* invalidateblock": b is linked and the only block of its chain found invalid.
Undoes(b) == Chain[b] \cap Failed = {b} /\ b \in chained

Next ==
    \/ \E b \in Blocks \ {Genesis} :
          \/ AcceptBlockHeader(b) \/ RejectBlockHeader(b)
          \/ \E fRequested \in BOOLEAN : AcceptBlock(b, fRequested)
          \/ PreciousBlock(b) \/ InvalidateBlock(b)
          \/ Undoes(b) /\ ReconsiderBlock(b)
    \/ Activation \/ Restart

Spec == Init /\ [][Next]_vars

\* A thread that is inside ActivateBestChain, or about to enter it, runs.
FairSpec == Spec /\ WF_vars(Activation)

-----------------------------------------------------------------------------
\* Type invariant; only linked blocks are candidates and only blocks that are not
\* linked yet, although their data is there, are in mapBlocksUnlinked.
TypeOK ==
    /\ index \subseteq Blocks /\ data \subseteq index /\ chained \subseteq data
    /\ failedValid \subseteq index /\ failedChild \subseteq index
    /\ valid \in [Blocks -> {0, TREE, TRANSACTIONS, SCRIPTS}]
    /\ nSequenceId \in [Blocks -> Int] /\ nBlockSequenceId \in Nat \ {0}
    /\ setBlockIndexCandidates \subseteq chained
    /\ mapBlocksUnlinked \subseteq data \ chained
    /\ m_failed_blocks \subseteq index
    /\ tip \in index
    /\ nLastPreciousHeight \in Nat /\ nBlockReverseSequenceId \in Int
    /\ waiting \in BOOLEAN /\ pc \in {"idle", "select", "step", "released"}
    /\ pindexMostWork \in index \cup {None} /\ starting_tip \in index \cup {None}
    /\ pindexOldTip \in index \cup {None} /\ blocks_connected \in BOOLEAN
    /\ commands \in Nat

\* PruneBlockIndexCandidates: "Either the current tip or a successor of it we're
\* working towards is left in setBlockIndexCandidates."
CandidateLeft == setBlockIndexCandidates # {}

\* CheckBlockIndex: a block that sorts at least as good as the tip, whose chain
\* has all its data and holds no block found invalid, is a candidate.
CandidatesComplete ==
    ~Locked => \A b \in chained :
        ~Worse(nSequenceId, b, tip) /\ Chain[b] \cap failedValid = {}
            => b \in setBlockIndexCandidates

\* CheckBlockIndex: a block that sorts worse than the tip is no candidate.
CandidatesSound ==
    ~Locked => \A b \in setBlockIndexCandidates : ~Worse(nSequenceId, b, tip)

\* CheckBlockIndex: nChainTx is set exactly where all ancestors have data.
ChainedExact == chained = {b \in data : Chain[b] \subseteq data}

\* CheckBlockIndex: the failed mask is only set below a block found invalid.
FailedFromInvalid == \A b \in failedChild : Chain[b] \cap failedValid # {}

\* The assertion of AcceptBlockHeader.
FailedBlocksKnown == m_failed_blocks \subseteq failedValid

\* No block that was found invalid is in the active chain.
ActiveValid == chainActive \cap Failed = {} /\ chainActive \subseteq chained

\* When every ActivateBestChain has returned, no usable block beats the tip.
BestChainActive ==
    pc = "idle" /\ ~waiting =>
        \A b \in chained : Chain[b] \cap Failed = {} => ~Worse(nSequenceId, tip, b)

\* ActivateBestChain returns.
Returns == pc # "idle" ~> pc = "idle"
=============================================================================
