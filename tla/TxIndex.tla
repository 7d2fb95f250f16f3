------------------------------ MODULE TxIndex ------------------------------
(***************************************************************************)
(* The transaction index (src/index/base.cpp) beside the chain it follows  *)
(* and the queue it hears of the chain through (SchedulerClient).  The     *)
(* sync thread walks the active chain until it has caught up; from then on *)
(* the BlockConnected callbacks keep the index up to date, while callbacks *)
(* from before are still in the queue.  A locator on disk says where to go *)
(* on after a restart.                                                     *)
(*                                                                         *)
(* A locator is the block it was made for: its other entries are           *)
(* ancestors of that block.  Only the callbacks that the index overrides   *)
(* and the promises of SyncWithValidationInterfaceQueue are in the queue.  *)
(* Failures to read or write a block, which shut the node down, are left   *)
(* out.                                                                    *)
(***************************************************************************)
EXTENDS SchedulerClient, BlockTree

CONSTANTS
    MaxPending,    \* the length of the queue that ActivateBestChain tolerates
    Scenarios      \* the threads that service the scheduler, the tip of the chain when
                   \* the index is first enabled, and a bound on what happens

NoBlock == -1   \* nullptr
Validator == "validator"
Rpc == "rpc"

Connected(b) == [type |-> "connected", block |-> b]
Flushed(b) == [type |-> "flushed", block |-> b]
Promise(t) == [type |-> "promise", by |-> t]

ASSUME CallerAssumption ==
    /\ Callers = {Validator, Rpc}
    /\ Callbacks = {Connected(b) : b \in Blocks} \cup {Flushed(b) : b \in Blocks}
                   \cup {Promise(t) : t \in Callers}
Events == {"flush", "invalidate", "call", "restart"}
ASSUME BoundAssumption ==
    /\ MaxPending \in Nat
    /\ Scenarios \subseteq [servers : SUBSET Servers, tip : Blocks \cup {NoBlock},
                            budget : [Events -> Nat]]

VARIABLES
    tip,          \* chainActive.Tip()
    flushed,      \* the best block of the coin database
    invalid,      \* blocks that invalidateblock was called for
    vpc,          \* where the validating thread is
    connects,     \* blocks it connected and has not signalled yet
    flushSignal,  \* the tip in the locator it has not signalled yet
    promised,     \* threads whose promise was fulfilled
    m_synced, m_best_block_index,
    sync, pindex,            \* where the sync thread is, and its local
    indexed, locator,        \* the index on disk and its DB_BEST_BLOCK
    wanted, rpc, answered,   \* a call of BlockUntilSyncedToCurrentChain: the tip it
                             \* saw, where it is, and the tip of the last true answer
    lost,         \* blocks whose locator was on disk before a crash, and they were not
    budget        \* how often each event may still happen

chain == <<tip, flushed, invalid, vpc, connects, flushSignal>>
index == <<m_synced, m_best_block_index, sync, pindex, indexed, locator>>
asker == <<wanted, rpc, answered>>
vars == <<client, chain, promised, index, asker, lost, budget>>

-----------------------------------------------------------------------------
(* The block tree.                                                         *)

pprev(b) == IF b = Genesis THEN NoBlock ELSE Parent[b]
Height(b) == IF b = NoBlock THEN -1 ELSE nHeight[b]
ChainTo(b) == IF b = NoBlock THEN {} ELSE Chain[b]

\* The one block of a set of at most one
Only(S) == IF S = {} THEN NoBlock ELSE CHOOSE b \in S : TRUE

Lowest(S) == Only({b \in S : \A c \in S : Height(b) <= Height(c)})
Highest(S) == Only({b \in S : \A c \in S : Height(c) <= Height(b)})

GetAncestor(b, height) == Only({a \in ChainTo(b) : Height(a) = height})

\* chainActive.FindFork
FindFork(b, top) == Highest(ChainTo(b) \cap ChainTo(top))

\* FindForkInGlobalIndex, for the locator made for a block
FindForkInGlobalIndex(loc, top) ==
    IF loc = NoBlock THEN Lowest(ChainTo(top)) ELSE FindFork(loc, top)

\* chainActive.Next
NextInChain(b) == Only({c \in ChainTo(tip) : pprev(c) = b})

\* Variant: a block that left the active chain has no successor.
NextSyncBlockStraight(prev) ==
    IF prev \in ChainTo(tip) \cup {NoBlock} THEN NextInChain(prev) ELSE NoBlock

NextSyncBlock(prev) ==
    IF prev \in ChainTo(tip) \cup {NoBlock} THEN NextInChain(prev)
    ELSE NextInChain(FindFork(prev, tip))

-----------------------------------------------------------------------------
Init ==
    /\ ClientInit
    /\ \E s \in Scenarios : servicing = s.servers /\ tip = s.tip /\ budget = s.budget
    /\ flushed = tip /\ invalid = {}
    /\ vpc = "idle" /\ connects = {} /\ flushSignal = NoBlock /\ promised = {}
    /\ indexed = {} /\ locator = NoBlock
    /\ m_best_block_index = FindForkInGlobalIndex(locator, tip)
    /\ m_synced = (m_best_block_index = tip)
    /\ pindex = m_best_block_index /\ sync = IF m_synced THEN "done" ELSE "next"
    /\ wanted = NoBlock /\ rpc = "idle" /\ answered = NoBlock
    /\ lost = {}

Spend(event) == budget[event] > 0 /\ budget' = [budget EXCEPT ![event] = @ - 1]

\* Variant: the validating thread keeps cs_main while it waits for the queue.
CsMainHeldWaiting == vpc \in {"signal", "wait"}

\* The validating thread holds cs_main between two steps.
CsMainHeld == vpc = "signal"

\* SyncWithValidationInterfaceQueue: the promise is queued, and waited for.
QueuePromise(t) == AddToProcessQueue(t, Promise(t)) /\ promised' = promised \ {t}
PromiseKept(t) == pc[t] = "ready" /\ t \in promised

-----------------------------------------------------------------------------
(* The validating thread.                                                  *)

\* Tips that one hold of cs_main in ActivateBestChain can end with.
Better == {b \in Blocks : Height(b) = Height(tip) + 1 /\ ChainTo(b) \cap invalid = {}}

\* ActivateBestChain: the length of the queue is looked at before cs_main is taken.
ActivateBestChain ==
    /\ vpc = "idle" /\ Better # {}
    /\ IF Len(m_callbacks_pending) > MaxPending
       THEN QueuePromise(Validator) /\ vpc' = "wait"
       ELSE vpc' = "main" /\ UNCHANGED <<client, promised>>
    /\ UNCHANGED <<tip, flushed, invalid, connects, flushSignal, index, asker, lost, budget>>

QueueDrained ==
    /\ vpc = "wait" /\ PromiseKept(Validator)
    /\ vpc' = "main"
    /\ UNCHANGED <<client, tip, flushed, invalid, connects, flushSignal, promised, index,
                   asker, lost, budget>>

\* FlushStateToDisk(IF_NEEDED) in DisconnectTip and ConnectTip: the coins are those
\* after the block, the locator is that of the tip before it.
FlushPoints(disconnected, connected) ==
    {[coins |-> pprev(b), locator |-> b] : b \in disconnected}
    \cup {[coins |-> b, locator |-> pprev(b)] : b \in connected \ {Genesis}}

MaybeFlush(points, left) ==
    \/ UNCHANGED <<flushed, flushSignal>> /\ budget' = left
    \/ \E p \in points :
          /\ flushed' = p.coins /\ flushSignal' = p.locator
          /\ left["flush"] > 0 /\ budget' = [left EXCEPT !["flush"] = @ - 1]

\* ActivateBestChain, the hold of cs_main up to the signals
ActivateBestChainStep(b) ==
    /\ vpc = "main" /\ b \in Better
    /\ tip' = b /\ connects' = ChainTo(b) \ ChainTo(tip)
    /\ MaybeFlush(FlushPoints(ChainTo(tip) \ ChainTo(b), connects'), budget)
    /\ vpc' = "signal"
    /\ UNCHANGED <<client, invalid, promised, index, asker, lost>>

\* InvalidateBlock, called by the invalidateblock command with cs_main held
InvalidateBlock(b) ==
    /\ vpc = "idle" /\ b \in ChainTo(tip) \ {Genesis} /\ budget["invalidate"] > 0
    /\ tip' = pprev(b) /\ invalid' = invalid \cup {b}
    /\ MaybeFlush(FlushPoints(ChainTo(tip) \ ChainTo(pprev(b)), {}),
                  [budget EXCEPT !["invalidate"] = @ - 1])
    /\ vpc' = "signal"
    /\ UNCHANGED <<client, connects, promised, index, asker, lost>>

\* FlushStateToDisk called by itself
FlushStateToDisk ==
    /\ vpc = "idle" /\ tip # NoBlock /\ Spend("flush")
    /\ flushed' = tip /\ flushSignal' = tip
    /\ vpc' = "signal"
    /\ UNCHANGED <<client, tip, invalid, connects, promised, index, asker, lost>>

\* The signals, in the order in which the code sends them, and the end of the hold.
Signal ==
    /\ vpc = "signal" /\ pc[Validator] = "ready"
    /\ IF flushSignal # NoBlock
       THEN /\ AddToProcessQueue(Validator, Flushed(flushSignal))
            /\ flushSignal' = NoBlock /\ UNCHANGED <<connects, vpc>>
       ELSE IF connects # {}
       THEN /\ AddToProcessQueue(Validator, Connected(Lowest(connects)))
            /\ connects' = connects \ {Lowest(connects)} /\ UNCHANGED <<flushSignal, vpc>>
       ELSE vpc' = "idle" /\ UNCHANGED <<client, connects, flushSignal>>
    /\ UNCHANGED <<tip, flushed, invalid, promised, index, asker, lost, budget>>

-----------------------------------------------------------------------------
(* The sync thread.                                                        *)

\* Variant: m_synced is not raised.
SyncNextSilent ==
    /\ sync = "next" /\ ~CsMainHeld
    /\ LET next == NextSyncBlock(pindex) IN
       IF next = NoBlock
       THEN /\ locator' = pindex /\ m_best_block_index' = pindex
            /\ sync' = "done" /\ UNCHANGED <<pindex, m_synced>>
       ELSE /\ pindex' = next /\ sync' = "locator"
            /\ UNCHANGED <<locator, m_best_block_index, m_synced>>
    /\ UNCHANGED <<client, chain, promised, indexed, asker, lost, budget>>

\* ThreadSync, the hold of cs_main
SyncNext ==
    /\ sync = "next" /\ ~CsMainHeld
    /\ LET next == NextSyncBlock(pindex) IN
       IF next = NoBlock
       THEN /\ locator' = pindex /\ m_best_block_index' = pindex
            /\ m_synced' = TRUE /\ sync' = "done" /\ UNCHANGED pindex
       ELSE /\ pindex' = next /\ sync' = "locator"
            /\ UNCHANGED <<locator, m_best_block_index, m_synced>>
    /\ UNCHANGED <<client, chain, promised, indexed, asker, lost, budget>>

\* The locator is written now and then, before the block.
SyncWriteLocator ==
    /\ sync = "locator" /\ ~CsMainHeld
    /\ locator' = pindex /\ sync' = "block"
    /\ UNCHANGED <<client, chain, promised, m_synced, m_best_block_index, pindex, indexed,
                   asker, lost, budget>>

SyncWriteBlock ==
    /\ sync \in {"locator", "block"}
    /\ indexed' = indexed \cup {pindex} /\ sync' = "next"
    /\ UNCHANGED <<client, chain, promised, m_synced, m_best_block_index, pindex, locator,
                   asker, lost, budget>>

-----------------------------------------------------------------------------
(* The callbacks.                                                          *)

\* Variant: whatever was connected is indexed.
BlockConnectedAny(b) ==
    /\ IF m_synced
       THEN indexed' = indexed \cup {b} /\ m_best_block_index' = b
       ELSE UNCHANGED <<indexed, m_best_block_index>>
    /\ UNCHANGED <<locator, promised>>

BlockConnected(b) ==
    /\ IF m_synced /\ GetAncestor(m_best_block_index, Height(b) - 1) = pprev(b)
       THEN indexed' = indexed \cup {b} /\ m_best_block_index' = b
       ELSE UNCHANGED <<indexed, m_best_block_index>>
    /\ UNCHANGED <<locator, promised>>

\* Variant: the locator is written wherever the index is.
ChainStateFlushedAny(b) ==
    /\ m_synced => ~CsMainHeld
    /\ locator' = IF m_synced THEN b ELSE locator
    /\ UNCHANGED <<indexed, m_best_block_index, promised>>

ChainStateFlushed(b) ==
    /\ m_synced => ~CsMainHeld
    /\ locator' = IF m_synced /\ GetAncestor(m_best_block_index, Height(b)) = b
                  THEN b ELSE locator
    /\ UNCHANGED <<indexed, m_best_block_index, promised>>

KeepPromise(t) == promised' = promised \cup {t} /\ UNCHANGED <<indexed, m_best_block_index, locator>>

Deliver(t) ==
    /\ RunCallback(t)
    /\ \/ callback[t].type = "connected" /\ BlockConnected(callback[t].block)
       \/ callback[t].type = "flushed" /\ ChainStateFlushed(callback[t].block)
       \/ callback[t].type = "promise" /\ KeepPromise(callback[t].by)
    /\ UNCHANGED <<chain, m_synced, sync, pindex, asker, lost, budget>>

-----------------------------------------------------------------------------
(* BlockUntilSyncedToCurrentChain                                          *)

\* Variant: the heights are compared, not the blocks.
CaughtUpHeight == Height(m_best_block_index) >= Height(tip)

\* The index knows the tip.
CaughtUp == GetAncestor(m_best_block_index, Height(tip)) = tip

\* Up to the end of the hold of cs_main; when m_synced is false the answer is false.
\* An index that has not seen the genesis block yet must not be asked: the code
\* dereferences m_best_block_index.
BlockUntilSyncedToCurrentChain ==
    /\ rpc = "idle" /\ Spend("call")
    /\ m_synced /\ m_best_block_index # NoBlock /\ tip # NoBlock /\ ~CsMainHeld
    /\ IF CaughtUp THEN answered' = tip /\ UNCHANGED <<wanted, rpc>>
       ELSE wanted' = tip /\ rpc' = "sync" /\ UNCHANGED answered
    /\ UNCHANGED <<client, chain, promised, index, lost>>

WaitForQueue ==
    /\ rpc = "sync" /\ QueuePromise(Rpc) /\ rpc' = "wait"
    /\ UNCHANGED <<chain, index, wanted, answered, lost, budget>>

Answer ==
    /\ rpc = "wait" /\ PromiseKept(Rpc)
    /\ answered' = wanted /\ wanted' = NoBlock /\ rpc' = "idle"
    /\ UNCHANGED <<client, chain, promised, index, lost, budget>>

-----------------------------------------------------------------------------
(* Crashes and shutdowns.                                                  *)

\* The node starts with a chain and a locator; BaseIndex::Init
Start(top, loc) ==
    LET best == FindForkInGlobalIndex(loc, top) IN
    /\ Spend("restart")
    /\ ClientRestart
    /\ tip' = top /\ flushed' = top /\ vpc' = "idle" /\ connects' = {}
    /\ flushSignal' = NoBlock /\ promised' = {}
    /\ m_best_block_index' = best /\ pindex' = best
    /\ m_synced' = (best = top) /\ sync' = IF best = top THEN "done" ELSE "next"
    /\ locator' = loc
    /\ wanted' = NoBlock /\ rpc' = "idle" /\ answered' = NoBlock
    /\ UNCHANGED indexed

\* Marks that were not written to the block index are forgotten; any of them may be.
Crash ==
    /\ Start(flushed, locator)
    /\ invalid' \in SUBSET invalid
    /\ lost' = IF sync = "block" THEN lost \cup ({pindex} \ indexed) ELSE lost

\* Shutdown: the sync thread is interrupted, the index unregistered, the rest of the
\* queue run without it and the chain flushed.
Shutdown ==
    /\ vpc = "idle" /\ rpc = "idle" /\ sync \in {"next", "done"}
    /\ Start(tip, IF sync = "next" THEN pindex ELSE locator)
    /\ UNCHANGED <<invalid, lost>>

-----------------------------------------------------------------------------
others == <<chain, promised, index, asker, lost, budget>>

ServerThread(t) == (ServerStep(t) /\ UNCHANGED others) \/ Deliver(t)
ValidatorThread ==
    \/ CallerStep(Validator) /\ UNCHANGED others
    \/ QueueDrained \/ (\E b \in Blocks : ActivateBestChainStep(b)) \/ Signal
SyncThread == SyncNext \/ SyncWriteLocator \/ SyncWriteBlock
RpcThread == (CallerStep(Rpc) /\ UNCHANGED others) \/ WaitForQueue \/ Answer

\* A thread goes on with what it has begun.
Progress == (\E t \in Servers : ServerThread(t)) \/ ValidatorThread \/ SyncThread \/ RpcThread

Next ==
    \/ Progress
    \/ ActivateBestChain \/ FlushStateToDisk \/ \E b \in Blocks : InvalidateBlock(b)
    \/ BlockUntilSyncedToCurrentChain
    \/ Crash \/ Shutdown

Spec == Init /\ [][Next]_vars

\* Some thread goes on as long as one can.  No fairness between the threads is needed:
\* what they have begun is finite.  Nothing makes new blocks come, commands be given
\* or the node stop.
FairSpec == Spec /\ WF_vars(Progress)

-----------------------------------------------------------------------------
\* Type invariant; the sync thread exists until the index is in sync.
TypeOK ==
    /\ ClientTypeOK
    /\ {tip, flushed, flushSignal, m_best_block_index, pindex, locator, wanted, answered}
          \subseteq Blocks \cup {NoBlock}
    /\ connects \subseteq Blocks /\ indexed \subseteq Blocks /\ lost \subseteq Blocks
    /\ invalid \subseteq Blocks /\ promised \subseteq Callers
    /\ vpc \in {"idle", "wait", "main", "signal"} /\ rpc \in {"idle", "sync", "wait"}
    /\ sync \in {"next", "locator", "block", "done"} /\ m_synced = (sync = "done")
    /\ budget \in [Events -> Nat]

\* The transactions of a chain can be found, save those of the genesis block, which
\* an index that starts on an existing chain skips, and of the lost blocks.
Covered(b) == ChainTo(b) \ (lost \cup {Genesis}) \subseteq indexed

\* "The last block in the chain that the index is in sync with": every block up to
\* m_best_block_index is indexed, whatever was reorganised while the sync thread ran
\* and whatever callbacks were in the queue when it stopped.
IndexComplete == m_synced => Covered(m_best_block_index)

\* "Write block locator of the chain that the txindex is in sync with": a node that
\* goes on from the locator leaves out no block, except the one whose locator
\* ThreadSync has written before the block itself.
LocatorSound ==
    \/ Covered(locator)
    \/ sync = "block" /\ locator = pindex /\ Covered(pprev(pindex))

\* "Blocks the current thread until the index is caught up to the current state of the
\* block chain": when it returns true, the chain it saw is indexed.
AnswerTrue == Covered(answered)

\* "Note that if a validationinterface callback ends up calling ActivateBestChain this
\* may lead to a deadlock!"  No callback of the index does: ActivateBestChain and
\* BlockUntilSyncedToCurrentChain get to the end of their wait for the queue.
QueueDrains == (vpc = "wait" \/ rpc = "wait") ~> (vpc # "wait" /\ rpc # "wait")

\* "In this unlikely event, log a warning and let the queue clear": once the chain
\* stays as it is, the index is in sync and knows the tip, also when the sync thread
\* stopped on a branch that was left or with old callbacks in the queue.
CatchesUp == <>[](m_synced /\ tip \in ChainTo(m_best_block_index) \cup {NoBlock})
=============================================================================
