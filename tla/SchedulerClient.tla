-------------------------- MODULE SchedulerClient --------------------------
(***************************************************************************)
(* CScheduler and SingleThreadedSchedulerClient (src/scheduler.cpp): the   *)
(* callbacks of the validation interface are kept in m_callbacks_pending   *)
(* and run by ProcessQueue, one callback per task of the scheduler, on any *)
(* of the threads that service it.                                         *)
(*                                                                         *)
(* A step is one hold of m_cs_callbacks_pending or of newTaskMutex.  Only  *)
(* the ProcessQueue tasks are kept of the task queue; they are all alike   *)
(* and due at once, so it is a number.  The condition variable is left     *)
(* out: a thread that finds a due task never sleeps.                       *)
(***************************************************************************)
EXTENDS Integers, Sequences

CONSTANTS
    Servers,     \* threads that may service the scheduler
    Callers,     \* threads that add callbacks
    Callbacks,
    NoCallback

ASSUME ThreadsAssumption == Servers \cap Callers = {}
ASSUME CallbackAssumption == NoCallback \notin Callbacks

Threads == Servers \cup Callers

VARIABLES
    m_callbacks_pending,
    m_are_callbacks_running,
    taskQueue,   \* how many ProcessQueue tasks are scheduled
    pc,          \* where each thread is
    callback,    \* the callback ProcessQueue took, for each server
    servicing    \* the threads inside serviceQueue

client == <<m_callbacks_pending, m_are_callbacks_running, taskQueue, pc, callback, servicing>>

ClientInit ==
    /\ m_callbacks_pending = <<>> /\ m_are_callbacks_running = FALSE
    /\ taskQueue = 0
    /\ pc = [t \in Threads |-> "ready"]
    /\ callback = [t \in Servers |-> NoCallback]
    /\ servicing \in SUBSET Servers

Goto(t, label) == pc' = [pc EXCEPT ![t] = label]

\* AddToProcessQueue up to its call of MaybeScheduleProcessQueue
AddToProcessQueue(t, c) ==
    /\ pc[t] = "ready"
    /\ m_callbacks_pending' = Append(m_callbacks_pending, c)
    /\ Goto(t, "maybe")
    /\ UNCHANGED <<m_are_callbacks_running, taskQueue, callback, servicing>>

Idle == m_are_callbacks_running \/ m_callbacks_pending = <<>>

\* MaybeScheduleProcessQueue: the two conditions
MaybeScheduleProcessQueue(t) ==
    /\ pc[t] = "maybe"
    /\ Goto(t, IF Idle THEN "ready" ELSE "schedule")
    /\ UNCHANGED <<m_callbacks_pending, m_are_callbacks_running, taskQueue, callback, servicing>>

\* MaybeScheduleProcessQueue: the task is scheduled after the lock was released.
Schedule(t) ==
    /\ pc[t] = "schedule"
    /\ taskQueue' = taskQueue + 1
    /\ Goto(t, "ready")
    /\ UNCHANGED <<m_callbacks_pending, m_are_callbacks_running, callback, servicing>>

\* serviceQueue takes the first task.
ServiceQueue(t) ==
    /\ t \in servicing /\ pc[t] = "ready" /\ taskQueue > 0
    /\ taskQueue' = taskQueue - 1
    /\ Goto(t, "process")
    /\ UNCHANGED <<m_callbacks_pending, m_are_callbacks_running, callback, servicing>>

\* Take the oldest callback.
TakeCallback(t) ==
    /\ m_are_callbacks_running' = TRUE
    /\ callback' = [callback EXCEPT ![t] = Head(m_callbacks_pending)]
    /\ m_callbacks_pending' = Tail(m_callbacks_pending)
    /\ Goto(t, "callback")

\* Variant: only an empty queue stops ProcessQueue.
ProcessQueueAlways(t) ==
    /\ pc[t] = "process"
    /\ IF m_callbacks_pending = <<>>
       THEN Goto(t, "ready")
            /\ UNCHANGED <<m_callbacks_pending, m_are_callbacks_running, callback>>
       ELSE TakeCallback(t)
    /\ UNCHANGED <<taskQueue, servicing>>

\* Variant: the newest callback is taken.
ProcessQueueLast(t) ==
    /\ pc[t] = "process"
    /\ IF Idle
       THEN Goto(t, "ready")
            /\ UNCHANGED <<m_callbacks_pending, m_are_callbacks_running, callback>>
       ELSE LET n == Len(m_callbacks_pending) IN
            /\ m_are_callbacks_running' = TRUE
            /\ callback' = [callback EXCEPT ![t] = m_callbacks_pending[n]]
            /\ m_callbacks_pending' = SubSeq(m_callbacks_pending, 1, n - 1)
            /\ Goto(t, "callback")
    /\ UNCHANGED <<taskQueue, servicing>>

\* ProcessQueue up to the call of the callback
ProcessQueue(t) ==
    /\ pc[t] = "process"
    /\ IF Idle
       THEN Goto(t, "ready")
            /\ UNCHANGED <<m_callbacks_pending, m_are_callbacks_running, callback>>
       ELSE TakeCallback(t)
    /\ UNCHANGED <<taskQueue, servicing>>

\* ProcessQueue: the callback itself.
RunCallback(t) ==
    /\ pc[t] = "callback"
    /\ Goto(t, "finish")
    /\ UNCHANGED <<m_callbacks_pending, m_are_callbacks_running, taskQueue, callback, servicing>>

\* Variant: nothing looks for the callbacks added meanwhile.
FinishCallbackOnly(t) ==
    /\ pc[t] = "finish"
    /\ m_are_callbacks_running' = FALSE
    /\ callback' = [callback EXCEPT ![t] = NoCallback]
    /\ Goto(t, "ready")
    /\ UNCHANGED <<m_callbacks_pending, taskQueue, servicing>>

\* ProcessQueue: the destructor of RAIICallbacksRunning, up to its call of
\* MaybeScheduleProcessQueue
FinishCallback(t) ==
    /\ pc[t] = "finish"
    /\ m_are_callbacks_running' = FALSE
    /\ callback' = [callback EXCEPT ![t] = NoCallback]
    /\ Goto(t, "maybe")
    /\ UNCHANGED <<m_callbacks_pending, taskQueue, servicing>>

\* The process ends and is started again.
ClientRestart ==
    /\ m_callbacks_pending' = <<>> /\ m_are_callbacks_running' = FALSE
    /\ taskQueue' = 0
    /\ pc' = [t \in Threads |-> "ready"]
    /\ callback' = [t \in Servers |-> NoCallback]
    /\ UNCHANGED servicing

\* What a thread does whatever the callbacks are
CallerStep(t) == MaybeScheduleProcessQueue(t) \/ Schedule(t)
ServerStep(t) == CallerStep(t) \/ ServiceQueue(t) \/ ProcessQueue(t) \/ FinishCallback(t)

ClientNext ==
    \/ \E t \in Callers, c \in Callbacks : AddToProcessQueue(t, c)
    \/ \E t \in Callers : CallerStep(t)
    \/ \E t \in Servers : ServerStep(t) \/ RunCallback(t)
    \/ ClientRestart

ClientSpec == ClientInit /\ [][ClientNext]_client

-----------------------------------------------------------------------------
Labels == {"ready", "maybe", "schedule", "process", "callback", "finish"}

\* Type invariant; only servers process and run callbacks.
ClientTypeOK ==
    /\ m_callbacks_pending \in Seq(Callbacks) /\ m_are_callbacks_running \in BOOLEAN
    /\ taskQueue \in Nat
    /\ pc \in [Threads -> Labels]
    /\ \A t \in Callers : pc[t] \in {"ready", "maybe", "schedule"}
    /\ callback \in [Servers -> Callbacks \cup {NoCallback}]
    /\ servicing \subseteq Servers

Running(t) == pc[t] \in {"callback", "finish"}

\* "no two jobs will be executed at the same time": however many ProcessQueue
\* tasks are scheduled and however many threads service them, one thread at most is
\* inside a callback, and m_are_callbacks_running says whether one is.
NoOverlap ==
    /\ \A s, t \in Servers : Running(s) /\ Running(t) => s = t
    /\ m_are_callbacks_running <=> \E t \in Servers : Running(t)

\* No wake-up is lost: a callback that waits is about to be noticed by a thread that
\* is running one, by a scheduled task, or by a thread about to look or to schedule.
NothingStuck ==
    m_callbacks_pending # <<>> =>
        \/ m_are_callbacks_running \/ taskQueue > 0
        \/ \E t \in Threads : pc[t] \in {"maybe", "schedule", "process"}

\* "callbacks can behave as if they are executed in order by a single thread": the
\* client implements the queue of CallbackQueue.
Queue == INSTANCE CallbackQueue WITH
    queue <- m_callbacks_pending,
    running <- {callback[t] : t \in Servers} \ {NoCallback}
QueueSpec == Queue!Spec
=============================================================================
