# Tapyrus Core: TLA+ models and proofs

Tapyrus Core is a full node derived from Bitcoin Core in which blocks are
signed by a federation instead of mined. This directory holds TLA+ models of the
parts of it that keep the chain and the coins consistent: the script-check
threads, the coin caches, the block index and the choice of the active chain,
the history of the federation's keys, the recovery of the coin database after a
crash, the queue of notifications, and the transaction index that lives on them.
TLC checks small instances of all of them, and TLAPS proves their safety properties
for every value of the constants, under the conditions section 6 states.

Source paths below are relative to the repository's `src/` directory.

## 1. The system

| Part | State | Operations | What makes it hard |
|---|---|---|---|
| Script check queue (`checkqueue.h`) | queue, `nTodo`, `nIdle`, `nTotal`, `fAllOk`, `m_request_stop` | `Add`, `Wait`, `Loop`, destructor | worker threads, condition variables, a result accumulated outside the lock |
| Coin caches (`coins.h`, `coins.cpp`) | entries with DIRTY and FRESH flags at two levels, best block | `AddCoin`, `SpendCoin`, `FetchCoin`, `Flush`, `BatchWrite`, `Uncache` | flags that are only right together with the level below |
| Block index and best chain (`validation.cpp`, `chain.h`) | `mapBlockIndex`, `setBlockIndexCandidates`, `mapBlocksUnlinked`, `m_failed_blocks`, `chainActive` | headers, blocks, `ActivateBestChain`, preciousblock, invalidateblock, reconsiderblock, load at start | arrival in any order, invalid blocks, `cs_main` released in the middle |
| XField history (`xfieldhistory.cpp`) | list of keys with the heights they apply from, in memory and in the database | `Add`, `Get`, header and block proof checks, `WriteXField` | the history is written at another time than the chain |
| Coin database and replay (`txdb.cpp`, `ReplayBlocks`) | coins, `DB_BEST_BLOCK`, `DB_HEAD_BLOCKS`, the block index on disk | `BatchWrite`, `FlushStateToDisk`, `ReplayBlocks`, `LoadChainTip` | a crash between any two batches, also of the repair |
| Notification queue (`scheduler.h`, `scheduler.cpp`, `validationinterface.cpp`) | `m_callbacks_pending`, `m_are_callbacks_running`, the scheduler's tasks | `AddToProcessQueue`, `MaybeScheduleProcessQueue`, `ProcessQueue`, `SyncWithValidationInterfaceQueue` | several threads may run the tasks, the callbacks must keep their order |
| Transaction index (`index/base.cpp`, `index/txindex.cpp`) | `m_synced`, `m_best_block_index`, the index and its locator on disk | `Start`, `ThreadSync`, `BlockConnected`, `ChainStateFlushed`, `BlockUntilSyncedToCurrentChain`, `Stop` | the hand-over from the sync thread to callbacks that are already queued; a locator written apart from what it describes |
| Memory pool, block download, pruning, wallet and others | | | not modelled; see section 7 |

How they interact: `ProcessNewBlock` stores a block and calls
`ActivateBestChain`, which connects blocks through a temporary coin view.
`ConnectBlock` hands the scripts to the check queue. The view is flushed into
`pcoinsTip`, which `FlushStateToDisk` writes to the database after the block
index. A connected block that announces a key extends the XField history, with
which the proofs of later headers and blocks are checked, also when a block is
read back from disk by a reorganisation or by the replay. What was connected and
flushed is announced through the notification queue; `ActivateBestChain` waits for
the queue when it has grown long, and the transaction index follows the chain by
what it hears there.

The correctness properties that matter: `Wait` tells the truth; the coins are
those of the active chain; the active chain is the best valid one; a block is
checked with the key in force at its height; after a crash the node starts
from what it left on disk; notifications arrive in order, one at a time and all of
them; and the index has what it says it has. `PROJECT.json` lists the hazards at their lines.

## 2. Modules

| Module | Role |
|---|---|
| `CheckQueue` | `CCheckQueue` and `CCheckQueueControl` |
| `CheckQueueProofs` | its inductive invariant and theorems |
| `BlockTree` | the tree of blocks, heights and chains, shared by the modules about chains |
| `BlockTreeProofs` | induction and recursion along the tree, chains, forks and heights, indices of sequences |
| `UtxoSet` | abstract: one map of unspent coins with a working copy |
| `CoinsCache` | database, `pcoinsTip` and the view of one block; implements `UtxoSet` |
| `CoinsCacheProofs` | its inductive invariant, theorems and the refinement |
| `ChainState` | `CChainState` |
| `ChainStateProofs` | its invariants and theorems |
| `XFieldHistory` | the key history, its readers and writers |
| `XFieldHistoryProofs` | its inductive invariant and theorems |
| `AtomicFlush` | abstract: a flush saves the chain at once, a restart brings back what was saved |
| `Recovery` | the coin database, partial writes, crash and replay; implements `AtomicFlush` |
| `RecoveryProofs` | what undoing and replaying compute, the invariants, theorems and the refinement |
| `CallbackQueue` | abstract: a queue of callbacks that run one after the other |
| `SchedulerClient` | `SingleThreadedSchedulerClient` and the threads of the scheduler; implements `CallbackQueue` |
| `SchedulerClientProofs` | its inductive invariant, theorems and the refinement; the line of callbacks and how each operation changes it |
| `TxIndex` | `BaseIndex` and `TxIndex`, composed with `SchedulerClient` and a chain |
| `TxIndexProofs` | its inductive invariants and theorems, and what a line of callbacks does to the index |
| `MC*` | instances for TLC |

Definitions whose comment begins with "Variant" are alternatives of the
definition that follows, each with one plausible slip. They are used by no
specification; substituting one must make TLC report the property
`PROJECT.json` names, which shows that the property depends on that code.

**CheckQueue.** A step is one hold of the mutex. `pc` says where a thread is:
about to take the mutex (`start`, `work` after a batch, `woken`), still holding
it before it sleeps (`block`), asleep (`wait`). The clean-up at the top of the
loop is in `TodoAfter`, `AllOkAfter`, `TotalAfter` and `PcAfter`; `Return`,
`Block`, `Take` and `Exit` are the ways the rest of the critical section can go.
The LIFO vector is a set of checks, each with a fixed outcome: the order in
which checks run is not fixed by the interface. `added` and `ret` record the
session for the properties.

**CoinsCache.** `AddEntry`, `SpendEntry`, `Fetch` and `MergeEntry` are the
functions of `CCoinsViewCache` on one entry. The actions apply them to the view
and to `pcoinsTip`, including what a fetch leaves in the lower cache.
`FetchCoin`'s branch for a spent coin of the base is left out because `GetCoin`
returns true only for unspent coins. That an output of a transaction other than
a coinbase is new (`NewOutput`) is what `AddCoins` assumes of its callers.

**ChainState.** A step is one hold of `cs_main`, except that inside
`ActivateBestChain` every connected or disconnected block is a step, and the
others wait (`Locked`). `waiting` stands for the threads that will call
`ActivateBestChain` next. Work is the height, as in this code base
(`CBlockIndexWorkComparator` compares `nHeight`). The order of block numbers stands
for the order of addresses, the last tie-breaker. `pindexBestHeader` and
`pindexBestInvalid` steer downloads and warnings only and are left out.
invalidateblock and reconsiderblock refuse blocks at or below the last XField
change; with no change that excludes the genesis block only, as here.

**XFieldHistory.** Blocks are honest: signed with the key in force on their own
chain. Headers arrive in messages of consecutive headers and are checked with a
temporary copy of the history; blocks are checked by height. A block given to
`ProcessNewBlock` is one that was asked for. The node switches only to a strictly higher
chain; ties and preciousblock are left to `ChainState`. `ConnectTip` writes the change to
the database at once, the chain is flushed later.

**Recovery.** The node's coins are one map, as `UtxoSet` promises. A block is
a sequence of transactions. `WritePartial` is a batch of `BatchWrite` before
the last, which may hold nothing but the mark of the transition, `WriteFinal` the last, `Crash` may come between any two steps, `Start`
is the replay or the plain load. The replay ends in a `BatchWrite` of its own,
which can be interrupted too. `Replay` is `Rollback` to the fork along the old
branch, then `Rollforward` along the new one, as the code does it. A batch that was written survives the crash of
the process; loss of power, where an unsynced batch may be lost, is not modelled.
Blocks passed `ConnectBlock` (`ValidAssumption`): a coin is created once in a chain,
and the first transaction of a block that has an outpoint spends the coin if there is
one and creates it otherwise. TLC evaluates this on the instance.
`AtomicFlush` is what the node may rely on: its `saved` is the database's best block or,
while a write is going on, the tip it goes to (`Saved`), and a node that is down or
failed to start shows no chain.

**SchedulerClient.** A step is one hold of the client's mutex or of the scheduler's.
Tasks are all alike, so the scheduler's queue is their number. `Servers` are the
threads that service the scheduler and `Callers` those that add callbacks. The
condition variable of the scheduler is left out: a thread that finds a due task never
sleeps. So are tasks at a later time, `stop` and `EmptyQueue`. Waiting for the queue (`SyncWithValidationInterfaceQueue`) is
a callback that fulfils a promise.

**TxIndex.** The module composes the queue with the validating thread (connecting,
disconnecting and flushing under `cs_main`, then signalling), the sync thread, a caller
of `BlockUntilSyncedToCurrentChain`, crashes and clean restarts. A locator is the block
it was made for. Only what the index overrides and the promises are in the queue.
`ThreadSync` writes the locator of a block before the block itself, so a crash in
between leaves a gap, which the history variable `lost` records; `IndexComplete` says
that there is no other. A block stays in `lost` when it is indexed later or leaves the
chain. A crash also forgets the marks of invalidateblock that were not yet written to the
block index; the model lets it forget any of them, also written ones. Left out: failures of reading and writing, which shut the node
down, more than one flush in one hold of `cs_main`, and switches between branches of
equal height by preciousblock.

## 3. Runs

| Run | Instance | Shows |
|---|---|---|
| `check_queue` | 2 workers, 4 checks, 1 failing, batches of up to 2 | `nTodo` is exact; what `Wait` returns is exact; no check is taken twice; every `Wait` returns |
| `check_queue_stop` | 1 worker, 1 check | violated: the destructor's notification can be lost |
| `coins_cache` | 2 outpoints, 2 spendable coins and an unspendable one, 2 blocks | FRESH and clean entries are what they claim; no `logic_error`; refinement of `UtxoSet` |
| `chain_state` | branches 0-1-2-3 and 0-4-5, block 3 fails `ContextualCheckBlock`, block 5 fails `ConnectBlock`, 2 commands or restarts | the assertions of `CheckBlockIndex`, no invalid block is active, the best valid chain is, `ActivateBestChain` returns |
| `chain_state_race` | same tree, all valid, 1 concurrent invalidateblock | violated: the candidates become empty |
| `chain_state_precious` | same tree, 3 preciousblock | violated: a block as good as the tip is no candidate |
| `chain_state_linked` | same tree, 1 invalidateblock | violated: a block with all data is not linked |
| `xfield_history` | 0-1-2 and 0-1-3-4-5, keys changed by 1 and back by 4, messages of 3 headers, 2 crashes | every block is checked with its signer's key; changes are stored before they are needed, in order; the node never aborts |
| `xfield_history_repeat` | 0-1-2-3-4, block 2 repeats the key of block 1, block 3 changes it, 1 crash | violated: wrong key by height |
| `recovery` | 0-1-2-3 and 0-1-4-5, a transaction in both branches, a coin created and spent in one block, 2 crashes | batches and replay implement an atomic flush (`AtomicFlush`), so the coins are always those of the chain; the database is between two known sets; the node comes up again |
| `recovery_rotated` | same, block 3 signed by a later key, 1 crash | violated: the replay fails |
| `tx_index` | branches 0-1 and 0-2-3, seven scenarios of an empty chain, flushes, an invalidated block, a question to the index and a restart, 1 or 2 threads on the scheduler | callbacks run in order, one at a time, and none is forgotten; the index has no gaps, its locator is covered by it, a true answer is true; the queue drains and the index catches up |

Why the bounds suffice for the cases in question. Four checks and three threads
give batches of one and of more checks, a thread that finds the queue empty while
others work, and a failure known to some threads only. Two outpoints are
independent in the code; two coins distinguish an overwrite from a no-op, and
two cache levels over the database are all there are. The two branches give
forks of different lengths, a reorganisation that fails half way, and ties. Two
crashes allow a crash during the repair of the first. `MaxHeaders` = 3 lets a
message span a change. `MinBlocksToKeep` = 1 makes the limit on unrequested
blocks bite. `MaxPending` = 1 stands for the ten callbacks `ActivateBestChain`
tolerates, so that it does wait. Two threads on the scheduler are what it takes for
two tasks to meet; `tx_index` splits what may happen into scenarios because all of it
at once has too many states, and each scenario has the events that can meet in it.

Deadlock is checked for `coins_cache`. The other instances stop by design: the
queue after the join, the others when all blocks are there and the bounded commands,
events or crashes are spent.

## 4. Fairness

* `CheckQueue`: strong fairness of each thread's turn at the mutex (`Loop`), as
  threads contend for it and the operating system's mutex starves nobody; weak
  fairness of the steps a thread takes alone. Spurious wake-ups and the
  destructor are not promised. A control object is always waited for, by its
  destructor if not before, hence weak fairness of `StartWait`.
* `ChainState`: weak fairness of `Activation`, the thread that is inside
  `ActivateBestChain` or about to enter it.
* `Recovery`: weak fairness of `Start`, the operator restarting the node, and of
  `WriteFinal`, a write that was begun. Crashes are bounded.
* `TxIndex`: weak fairness of `Progress`, all steps of the threads of the node together:
  as long as some thread can go on, one does. No fairness between threads is needed,
  since the events are bounded and what they start is finite work.

## 5. Where code and documentation disagree

1. **The destructor of the check queue can hang** (`checkqueue.h:183`).
   `m_request_stop` is set and the notification sent without the mutex; a worker
   between its test and its wait misses both.
2. **A target kept across the release of `cs_main`** (`validation.cpp:2654`).
   `ActivateBestChain` keeps `pindexMostWork`; if invalidateblock marks it meanwhile,
   it is connected and the candidates become empty, against the comment and
   the assertion in `PruneBlockIndexCandidates`.
3. **Reset of the precious sequence ids** (`validation.cpp:2728`). Two precious
   blocks above the tip get ids -1 and -2; when the second is the tip, another
   preciousblock resets its id to -1, and the first, pruned before, now ties
   with it or beats it without being a candidate.
4. **Data under a failed parent** (`validation.cpp:2928`). Block 2 has
   data but block 1 has none; block 2 is invalidated and the data of block 3 arrives.
   Block 3 is not filed as unlinked, and when block 1 arrives block 2 is linked and
   block 3 is not, until a restart.
5. **A repeated key** (`validation.cpp:2396`). After a crash the history in the
   database is ahead of the chain. Connecting again a block that announced the key
   already in force appends it behind the later change.
6. **The replay comes before the keys** (`init.cpp:1483`, `init.cpp:1511`).
   Blocks signed by a later key cannot be read, and the replay fails.

Seen while modelling, not stated as runs: reconsiderblock on a block with failed
ancestors does not make the other branches above those ancestors candidates
(`validation.cpp:2840`), so the runs use it as its help says, to undo an
invalidateblock (`Undoes`). After a restart all sequence ids are 0 and a tie may be
decided otherwise than before. After a crash the header that announces a change
already in the history is refused by the check against the latest key, which is why
`NextHeaderAccepted` speaks of behaviours without a crash. The XField history is not
rolled back by a reorganisation (a TODO at `validation.cpp:2277`); `Settled` in
section 6 is what the federation must see to for this not to matter. `ThreadSync`
writes the locator of a block before the block (`index/base.cpp:116`); a crash in
between leaves that block out of the index for good, unless it is connected again.
`BlockUntilSyncedToCurrentChain` dereferences `m_best_block_index`
(`index/base.cpp:241`), which is null in an index that was started with an empty chain
and has not heard of a block yet; the model asks the index only after that.

## 6. Proofs

**CheckQueueProofs**, for any finite set of workers and checks and any positive
batch size (`ThreadAssumption`, `CheckAssumption`, `BatchAssumption`). The
invariants are not inductive as they stand: that `nTodo` is exact after a batch
needs the batches and the queue to be disjoint; that `Wait` is sound needs to know,
for each point of the loop, what `fAllOk` and each `fOk` say about the checks that
are already gone, and that the master is outside the loop only when nothing is
pending. The inductive invariant adds these facts, and the proof has one lemma per
group of actions. `TypeCorrect`, `TodoIsExact`, `TakenOnce` and `WaitIsSound`
follow from `Invariance`.

Three theorems are the safety half of `WaitReturns`. `MasterNotForgotten`: while the
master is asleep, or about to be, some worker has a batch, so it will be at the mutex
again. On top of `Invariance` it needs that a thread between its test and its sleep has
the mutex (`MutexInv`) and that the master sleeps only while the queue is empty and
checks are pending (`WakeInv`). `WaitIsNotStuck`: as long as the master is in the loop
some thread can go on. `SessionsEnd`: what is left to do is a number (`Work`) of at most
three for each check and four for each thread, and every pass through the loop lowers
it; only a wake-up without a cause adds to it. The destructor is different, as
`check_queue_stop` shows: it does not take the mutex.

**CoinsCacheProofs**, for any outpoints, coins and blocks. `FreshSound` and
`CleanSound` support each other: merging a spent entry into a FRESH one may drop it
only because FRESH means that the level below has no coin, and this stays true
because a clean entry equals what is below. Together with the type invariant and
the emptiness of a closed view they are inductive. `Refinement` shows that every
action is a step of `UtxoSet` or leaves the mapped state alone.

**BlockTreeProofs** is the groundwork for the modules about chains: heights and chains
are what their recursive definitions say, chains are closed, transitive and linear,
and a function defined by recursion along a chain exists and is unique. Induction is
over sets of blocks with a least element, as parents have smaller numbers
(`TreeAssumption`, `ParentBelow`); a recursive function or a fold is unfolded by first proving that
a function satisfying its equation exists.

**ChainStateProofs**, for any finite tree and any sets of bad blocks. The invariants
come in layers, since each condition is refuted by one of the runs of section 5.

* `Base` holds whatever the commands do: known and linked blocks have known and
  linked ancestors, and the locals of `ActivateBestChain` are set when they are used.
  It yields `TypeCorrect`, `AssertionHolds` and `MarksJustified`.
* `Valid` and `Pruned` need that no command comes in the middle of an activation
  (`~Concurrent`; `chain_state_race` shows why): the way to what is worked towards
  holds no failed block, and no candidate is worse than the tip. They yield
  `ActiveChainValid` and `CandidatesAreSound`.
* `Best` needs in addition that preciousblock is not used (`chain_state_precious`):
  linked unmarked blocks as good as the tip, and as the tip when `cs_main` was taken,
  are candidates, and what is worked towards is the best unless another activation is
  waiting. It yields `CandidatesAreComplete`, `CandidateIsLeft` and
  `BestChainIsActive`.

Two theorems are about the steps. `NoRegressSeen`, under the conditions of `Best`, is the
comment "We absolutely may not unlock cs_main until we've made forward progress": a hold
of `cs_main` does not end with a tip worse than it began with, also when the new branch
turns out to be invalid halfway. `ActivationEnds`, under `~Concurrent` alone, is the
safety half of `Returns`: each step of `ActivateBestChain` lowers, in this order, the
blocks that may still be found invalid, the candidates to look at, the blocks to
disconnect and connect, and the way through the loops. So no block is tried, and no
candidate looked at, again and again.

**XFieldHistoryProofs**, for any tree of blocks that is `Settled`: an announcement
changes the key, and no branch without it grows higher or has another announcement at
its height. The federation signs the blocks, so this is its obligation;
`xfield_history_repeat` shows what a repeated key does. The inductive invariant says
that the database holds the announcements of a chain up to some height, each once and
in order, that the history in memory is the genesis entry followed by it, and that only
a crash leaves more than the active chain's. What `Get` finds in such a list is then
the announcement last below the block, which gives `KeyIsByHeight`, and from it
`NodeNeverAborts`. `ChangesAreStored`, `HistoryIsSorted` and `NextHeaderIsAccepted`
follow directly. `HistorySurvives` says that a node that stops at any moment reads back
exactly the history it had in memory, and `KeysAreFinal` that what the history answers up
to the height of its last change is never answered differently later, whatever is
reorganised, connected again or restarted.

**RecoveryProofs**, for any tree of blocks that satisfies `ValidAssumption`. `Placed`
says that what a start needs is in the block index on disk, `Exact` that each coin in
the database is that of one of its two heads. That a replay from such a mixture gives
the right coins is the heart of it: applying or undoing a block sets every outpoint it
touches, whatever was there (the last write wins, and it is determined by
`ValidAssumption`), and leaves the others. So rolling back gives each outpoint the coin
of the fork, or leaves it alone if the old branch did not change it (`RollbackIs`);
rolling forward gives it the coin of the new tip, or leaves it alone if the new branch
did not change it (`RollforwardIs`); and starting from a mixture of the two tips both
cases end at the coin of the new one (`ReplayIs`). `ViewIsExact`, `DatabaseIsExact` and
`DatabaseIsBetween` have no further condition, and `AssertionHolds` is the assertion in
`BatchWrite` about the heads of an interrupted write. `FlushImplementsAtomic` puts them
together: every batch saves the tip in one step of `AtomicFlush`, a start brings it back
with its coins, and everything else does not show. It has no further condition either,
as a start that fails does not come up; `NodeIsRestartable`, that none fails, needs that
no block is signed by a later key (`Rotated = {}`; `recovery_rotated` shows why).

**SchedulerClientProofs**, for any threads and callbacks. The client's invariant is its
type, `NoOverlap`, `NothingStuck`, and that a server holds a callback exactly while it
runs one. `ClientImplementsQueue` is the refinement of `CallbackQueue`. For the index
the module also defines `Line`, the callback that is about to be run followed by those
pending: adding a callback appends to it, running one drops its first, and nothing else
changes it (`LineSteps`). `StepsAreBounded` counts the work: a callback that is added
brings at most ten steps of the client, whichever threads take them and however often
`ProcessQueue` is scheduled in vain, and every step lowers the count.

**TxIndexProofs**, for any tree, scenarios and `MaxPending`. To the client's invariant
it adds where the sync thread is (`SyncSound`), without which `IndexComplete` is not
inductive at the moment `m_synced` is raised. `IndexUsesQueue` shows that the composed
system is a behaviour of `SchedulerClient`, from which `CallbacksInOrder` follows.

That a true answer is true depends on what the whole line holds, and needs an invariant
of its own, `Answers`. Each BlockConnected in the line goes on from the one before it or
from an ancestor of that (`Linked`), and the last one is the block that was signalled
last or one above it (`Ends`). An index in sync knows that block, or one of the callbacks
goes on from its best block and the rest of the line takes it there (`Leads`).
`Announced` adds that what is still to be signalled is the rest of the way to the tip. `Awaited` says of a call to
`BlockUntilSyncedToCurrentChain` that what is before its promise in the line takes the
index to the tip that it saw, or that the index is there already. The lemmas about
appending to such a line and dropping its first are proved for any line, before the
actions. `AnswersAreTrue` and `IndexMissesNothing` follow; the latter (`NothingMissed`)
is the safety half of `CatchesUp`: with nothing left to signal or to run an index in
sync knows the tip, so no block fell between the sync thread and the callbacks.

`IndexRestsInSync` goes further. `SomeoneCanRun` spells out, thread by thread, the
conditions under which a step of `Progress` is possible. If a thread services the
scheduler and none of them holds, then the queue is empty, neither the validating thread
nor a call is waiting, the index is in sync and it knows the tip. In other words nobody
waits for a promise that nobody will keep, for a lock of somebody who waits, or for a task
that was not scheduled. It needs that a promise that is waited for is kept or in the line,
and that `ActivateBestChain` still has a better tip after its wait (`Waits`).

`ProgressEnds` is the other half: every step of `Progress` leaves less to do, in the
lexicographic order of the errands of the validating thread and the call, the signals
still to be sent, the blocks of the active chain that the sync thread has not come to, and
the steps of the client. The third needs an argument about the tree (`SyncAdvances`): after
a reorganisation the sync thread goes on from the fork, the highest common block, so it
has still come to every block of the active chain that it had come to before, and to one
more. Chains are finite, so the threads come to rest, whichever of them runs, and the
weak fairness of `Progress` as a whole is enough for `QueueDrains` and `CatchesUp`; that
last, temporal step is left to TLC.

Only model-checked: the liveness properties `WaitReturns`, `Returns`, `RunsAgain`,
`QueueDrains` and `CatchesUp`, since TLAPS does not reach liveness under fairness, and
the counterexamples of section 5. What is proved of the first two and the last two are the
safety facts above: that somebody can go on, and that what there is to do gets less. That
the conditions in `CanGoOn` and `SomeoneCanRun` are those under which the actions are
enabled is by reading them; TLAPS does not reason about ENABLED.

The leaves of the proofs are left to Zenon (`USE Zenon` at the head of each module) and
those that need arithmetic, sequences or records cite SMT.

## 7. Not modelled

* Memory pool: ancestor and descendant sets under acceptance, removal, eviction and
  reorganisation. It is a large component of its own; its fees and sizes steer what is evicted and
  cannot be abstracted away.
* Block download (`net_processing.cpp`): blocks in flight, stalling, timeouts, compact
  blocks, orphans. `ChainState` and `XFieldHistory` stand in for it by taking headers
  and blocks in any order.
* Block connection rules and colored coins: pure functions of a block and the coins,
  with one outcome per block in `ChainState`. They have no state or interleaving of
  their own.
* Pruning, reindexing, `VerifyDB` and `RewindBlockIndex`: their substance is the
  handling of files.
* The composition of `ChainState` with the key history: in `ChainState` whether a block
  passes is fixed, in `XFieldHistory` the choice of the chain is simplified. The two
  share `BlockTree` but no state.
* Script evaluation and cryptography (an outcome per check), socket and file I/O,
  address tables, serialization formats, fee estimation, block assembly, the wallet,
  the graphical interface, the RPC server, the command-line tools and the bundled
  libraries. The translations under `qt/locale` are data, although they are most of the
  repository's lines; nothing there can be modelled.
