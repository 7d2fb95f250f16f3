----------------------------- MODULE CheckQueue -----------------------------
(***************************************************************************)
(* CCheckQueue (src/checkqueue.h): the pool of script-check threads.  The  *)
(* validating thread (Master) opens a CCheckQueueControl, pushes batches   *)
(* of checks with Add and then joins the workers in Loop(true) until every *)
(* check is done; Wait returns whether all of them succeeded.  At process  *)
(* exit the destructor raises m_request_stop and joins the workers.        *)
(*                                                                         *)
(* One step is one hold of the mutex, except that a thread that decided to *)
(* wait still owns the mutex for one more step ("block"): that is the gap  *)
(* between reading m_request_stop and entering the condition variable,     *)
(* and the destructor writes m_request_stop without the mutex.             *)
(*                                                                         *)
(* The LIFO vector is a set: a check is a value with a fixed outcome, and  *)
(* only how many of them a thread takes depends on the code.               *)
(***************************************************************************)
EXTENDS Integers, FiniteSets, FiniteSetsExt

CONSTANTS
    Workers,     \* the worker threads started by the constructor
    Master,      \* the thread that owns the CCheckQueueControl
    Checks,      \* the script checks of a block
    Failing,     \* the checks whose operator() returns false
    nBatchSize,  \* the largest number of checks taken at once
    NoThread     \* "the mutex is free"

ASSUME ThreadAssumption ==
    /\ IsFiniteSet(Workers)
    /\ Master \notin Workers
    /\ NoThread \notin Workers \cup {Master}
ASSUME CheckAssumption == IsFiniteSet(Checks)
ASSUME BatchAssumption == nBatchSize \in Nat \ {0}

Threads == Workers \cup {Master}

VARIABLES
    queue,          \* checks nobody has taken yet
    nIdle,          \* threads inside cond.wait
    nTotal,         \* threads inside Loop
    fAllOk,         \* conjunction of the results of this session so far
    nTodo,          \* checks not completed yet, taken ones included
    m_request_stop, \* set once, by the destructor
    mutex,          \* the thread holding the mutex between two steps
    pc,             \* where each thread is
    batch,          \* vChecks of each thread
    fOk,            \* local fOk of each thread with a batch (TRUE when it has none)
    added,          \* the checks pushed in the current session
    ret             \* what the last Wait returned

vars == <<queue, nIdle, nTotal, fAllOk, nTodo, m_request_stop, mutex, pc,
          batch, fOk, added, ret>>

(***************************************************************************)
(* The constructor: the workers have been created and are about to enter   *)
(* Loop; no control object exists yet.                                     *)
(***************************************************************************)
Init ==
    /\ queue = {} /\ nTodo = 0 /\ fAllOk = TRUE
    /\ nIdle = 0 /\ nTotal = 0 /\ m_request_stop = FALSE
    /\ mutex = NoThread
    /\ pc = [t \in Threads |-> IF t = Master THEN "idle" ELSE "start"]
    /\ batch = [t \in Threads |-> {}]
    /\ fOk = [t \in Threads |-> TRUE]
    /\ added = {} /\ ret = TRUE

-----------------------------------------------------------------------------
(* The CCheckQueueControl side, run by Master.                             *)

\* CCheckQueueControl(pqueue): takes ControlMutex, so sessions do not overlap.
Control ==
    /\ pc[Master] = "idle"
    /\ pc' = [pc EXCEPT ![Master] = "add"]
    /\ added' = {}
    /\ UNCHANGED <<queue, nIdle, nTotal, fAllOk, nTodo, m_request_stop, mutex,
                   batch, fOk, ret>>

\* Add: insert under the mutex; the notification follows after the unlock.
Add(S) ==
    /\ pc[Master] = "add" /\ mutex = NoThread
    /\ queue' = queue \cup S
    /\ nTodo' = nTodo + Cardinality(S)
    /\ added' = added \cup S
    /\ pc' = [pc EXCEPT ![Master] = IF Cardinality(S) = 1 THEN "notifyOne"
                                                          ELSE "notifyAll"]
    /\ UNCHANGED <<nIdle, nTotal, fAllOk, m_request_stop, mutex, batch, fOk,
                   ret>>

WaitingWorkers == {w \in Workers : pc[w] = "wait"}

\* condWorker.notify_one / notify_all
Notify ==
    /\ \E woken \in SUBSET WaitingWorkers :
          /\ \/ /\ pc[Master] = "notifyAll" /\ woken = WaitingWorkers
             \/ /\ pc[Master] = "notifyOne"
                /\ IF WaitingWorkers = {} THEN woken = {}
                                          ELSE Cardinality(woken) = 1
          /\ pc' = [t \in Threads |->
                      IF t = Master THEN "add"
                      ELSE IF t \in woken THEN "woken" ELSE pc[t]]
    /\ UNCHANGED <<queue, nIdle, nTotal, fAllOk, nTodo, m_request_stop, mutex,
                   batch, fOk, added, ret>>

\* Wait(), or the destructor of a control that was not waited for.
StartWait ==
    /\ pc[Master] = "add"
    /\ pc' = [pc EXCEPT ![Master] = "start"]
    /\ UNCHANGED <<queue, nIdle, nTotal, fAllOk, nTodo, m_request_stop, mutex,
                   batch, fOk, added, ret>>

-----------------------------------------------------------------------------
(* Loop.  A thread takes the mutex coming from the start of Loop, from a   *)
(* finished batch ("work"), or from the condition variable ("woken").      *)

AtMutex(t) == mutex = NoThread /\ pc[t] \in {"start", "work", "woken"}

\* Variants with a plausible slip: one check counted per batch, the result
\* stored instead of accumulated, the idle count lowered on every pass.
TodoAfterOne(t) == IF batch[t] = {} THEN nTodo ELSE nTodo - 1
AllOkAfterStored(t) ==
    IF pc[t] = "work" THEN fOk[t] /\ batch[t] \cap Failing = {} ELSE fAllOk
IdleAfterAlways(t) == nIdle - 1

\* The clean-up of the previous run of the loop.
TodoAfter(t) == nTodo - Cardinality(batch[t])
AllOkAfter(t) ==
    IF pc[t] = "work" THEN fAllOk /\ fOk[t] /\ batch[t] \cap Failing = {} ELSE fAllOk
TotalAfter(t) == IF pc[t] = "start" THEN nTotal + 1 ELSE nTotal
IdleAfter(t) == IF pc[t] = "woken" THEN nIdle - 1 ELSE nIdle

\* Variant: the last worker does not wake the master.
PcAfterSilent(t) == pc

\* "We processed the last element; inform the master": condMaster.notify_one().
PcAfter(t) ==
    IF pc[t] = "work" /\ TodoAfter(t) = 0 /\ t # Master /\ pc[Master] = "wait"
    THEN [pc EXCEPT ![Master] = "woken"] ELSE pc

\* How many checks to take: fewer as the queue drains, at least one.
BatchCount(t) ==
    LET share == Cardinality(queue) \div (TotalAfter(t) + IdleAfter(t) + 1)
        most  == IF nBatchSize <= share THEN nBatchSize ELSE share
    IN  IF most >= 1 THEN most ELSE 1

\* The master leaves when nothing is queued and nothing is in flight.
Return(t) ==
    /\ AtMutex(t)
    /\ t = Master /\ queue = {} /\ ~m_request_stop /\ TodoAfter(t) = 0
    /\ ret' = AllOkAfter(t)
    /\ fAllOk' = TRUE
    /\ nTodo' = TodoAfter(t)
    /\ nTotal' = TotalAfter(t) - 1
    /\ nIdle' = IdleAfter(t)
    /\ batch' = [batch EXCEPT ![t] = {}]
    /\ fOk' = [fOk EXCEPT ![t] = TRUE]
    /\ pc' = [pc EXCEPT ![t] = "idle"]
    /\ UNCHANGED <<queue, m_request_stop, mutex, added>>

\* Nothing to take: the thread will wait, and keeps the mutex until it does.
Block(t) ==
    /\ AtMutex(t)
    /\ queue = {} /\ ~m_request_stop /\ ~(t = Master /\ TodoAfter(t) = 0)
    /\ fAllOk' = AllOkAfter(t)
    /\ nTodo' = TodoAfter(t)
    /\ nTotal' = TotalAfter(t)
    /\ nIdle' = IdleAfter(t) + 1
    /\ batch' = [batch EXCEPT ![t] = {}]
    /\ fOk' = [fOk EXCEPT ![t] = TRUE]
    /\ pc' = [PcAfter(t) EXCEPT ![t] = "block"]
    /\ mutex' = t
    /\ UNCHANGED <<queue, m_request_stop, added, ret>>

\* cond.wait(lock): releases the mutex and sleeps.
EnterWait(t) ==
    /\ pc[t] = "block" /\ mutex = t
    /\ pc' = [pc EXCEPT ![t] = "wait"]
    /\ mutex' = NoThread
    /\ UNCHANGED <<queue, nIdle, nTotal, fAllOk, nTodo, m_request_stop, batch,
                   fOk, added, ret>>

\* A condition variable may wake up without a notification.
SpuriousWakeup(t) ==
    /\ pc[t] = "wait"
    /\ pc' = [pc EXCEPT ![t] = "woken"]
    /\ UNCHANGED <<queue, nIdle, nTotal, fAllOk, nTodo, m_request_stop, mutex,
                   batch, fOk, added, ret>>

\* Variant: the batch is copied out of the queue instead of moved.
TakeCopy(t) ==
    /\ AtMutex(t)
    /\ queue # {} /\ ~m_request_stop
    /\ \E S \in kSubset(BatchCount(t), queue) :
          batch' = [batch EXCEPT ![t] = S]
    /\ fAllOk' = AllOkAfter(t)
    /\ fOk' = [fOk EXCEPT ![t] = AllOkAfter(t)]
    /\ nTodo' = TodoAfter(t)
    /\ nTotal' = TotalAfter(t)
    /\ nIdle' = IdleAfter(t)
    /\ pc' = [PcAfter(t) EXCEPT ![t] = "work"]
    /\ UNCHANGED <<queue, m_request_stop, mutex, added, ret>>

\* Take the next batch; it is executed outside the mutex.
Take(t) ==
    /\ AtMutex(t)
    /\ queue # {} /\ ~m_request_stop
    /\ \E S \in kSubset(BatchCount(t), queue) :
          /\ queue' = queue \ S
          /\ batch' = [batch EXCEPT ![t] = S]
    /\ fAllOk' = AllOkAfter(t)
    /\ fOk' = [fOk EXCEPT ![t] = AllOkAfter(t)]
    /\ nTodo' = TodoAfter(t)
    /\ nTotal' = TotalAfter(t)
    /\ nIdle' = IdleAfter(t)
    /\ pc' = [PcAfter(t) EXCEPT ![t] = "work"]
    /\ UNCHANGED <<m_request_stop, mutex, added, ret>>

\* "if (m_request_stop) return false"
Exit(t) ==
    /\ AtMutex(t)
    /\ m_request_stop
    /\ fAllOk' = AllOkAfter(t)
    /\ nTodo' = TodoAfter(t)
    /\ nTotal' = TotalAfter(t)
    /\ nIdle' = IdleAfter(t)
    /\ batch' = [batch EXCEPT ![t] = {}]
    /\ fOk' = [fOk EXCEPT ![t] = TRUE]
    /\ pc' = [PcAfter(t) EXCEPT ![t] = "done"]
    /\ UNCHANGED <<queue, m_request_stop, mutex, added, ret>>

Loop(t) == Return(t) \/ Block(t) \/ Take(t) \/ Exit(t)

-----------------------------------------------------------------------------
(* ~CCheckQueue, run by the same thread after its last session.            *)

\* m_request_stop = true, without the mutex.
RequestStop ==
    /\ pc[Master] = "idle"
    /\ m_request_stop' = TRUE
    /\ pc' = [pc EXCEPT ![Master] = "stopping"]
    /\ UNCHANGED <<queue, nIdle, nTotal, fAllOk, nTodo, mutex, batch, fOk, added, ret>>

\* condWorker.notify_all()
NotifyStop ==
    /\ pc[Master] = "stopping"
    /\ pc' = [t \in Threads |-> IF t = Master THEN "joining"
                                ELSE IF pc[t] = "wait" THEN "woken" ELSE pc[t]]
    /\ UNCHANGED <<queue, nIdle, nTotal, fAllOk, nTodo, m_request_stop, mutex,
                   batch, fOk, added, ret>>

\* t.join() for every worker
Join ==
    /\ pc[Master] = "joining"
    /\ \A w \in Workers : pc[w] = "done"
    /\ pc' = [pc EXCEPT ![Master] = "joined"]
    /\ UNCHANGED <<queue, nIdle, nTotal, fAllOk, nTodo, m_request_stop, mutex,
                   batch, fOk, added, ret>>

-----------------------------------------------------------------------------
Next ==
    \/ Control \/ StartWait \/ Notify
    \/ \E S \in SUBSET (Checks \ added) \ {{}} : Add(S)
    \/ \E t \in Threads : Loop(t) \/ EnterWait(t) \/ SpuriousWakeup(t)
    \/ RequestStop \/ NotifyStop \/ Join

Spec == Init /\ [][Next]_vars

\* The operating system runs every thread, and a thread queueing for the mutex
\* gets it eventually.  Wake-ups without cause and the end of the process are
\* not promised; a control object is always waited for (by its destructor).
Fairness ==
    /\ \A t \in Threads : SF_vars(Loop(t)) /\ WF_vars(EnterWait(t))
    /\ WF_vars(Notify) /\ WF_vars(StartWait)
    /\ WF_vars(NotifyStop) /\ WF_vars(Join)

FairSpec == Spec /\ Fairness

-----------------------------------------------------------------------------
(* Properties.                                                             *)

PcValues == {"idle", "add", "notifyOne", "notifyAll", "start", "work", "block",
             "wait", "woken", "done", "stopping", "joining", "joined"}

\* Type invariant of the queue's members and of the threads' locals.
TypeOK ==
    /\ queue \in SUBSET Checks /\ nIdle \in Nat /\ nTotal \in Nat
    /\ fAllOk \in BOOLEAN /\ nTodo \in Nat /\ m_request_stop \in BOOLEAN
    /\ mutex \in Threads \cup {NoThread}
    /\ pc \in [Threads -> PcValues]
    /\ batch \in [Threads -> SUBSET Checks]
    /\ fOk \in [Threads -> BOOLEAN]
    /\ added \in SUBSET Checks /\ ret \in BOOLEAN

Pending == {c \in Checks : c \in queue \/ \E t \in Threads : c \in batch[t]}

\* nTodo counts exactly the checks that are queued or in some thread's batch,
\* so it never wraps and reaches 0 only when nothing is outstanding.
TodoCount == nTodo = Cardinality(Pending)

\* What Wait returns is whether every check of the session succeeded, although
\* threads skip checks once a failure is known; and no check outlives Wait.
WaitSound ==
    pc[Master] = "idle" => /\ Pending = {}
                           /\ ret <=> (added \cap Failing = {})

\* A check is never taken by two threads, nor queued again once taken.
OneTaker ==
    \A t \in Threads : /\ batch[t] \cap queue = {}
                       /\ \A u \in Threads \ {t} : batch[t] \cap batch[u] = {}

\* Every Wait returns: the wake-up of the master is never lost.
WaitReturns == pc[Master] = "start" ~> pc[Master] = "idle"

\* "Stop all of the worker threads": once the destructor has started, every
\* worker leaves Loop and the join completes.
WorkersStop == pc[Master] = "stopping" ~> pc[Master] = "joined"
=============================================================================
