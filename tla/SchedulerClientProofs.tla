----------------------- MODULE SchedulerClientProofs -----------------------
(***************************************************************************)
(* Proofs about the scheduler's client for any sets of threads and         *)
(* callbacks: callbacks do not overlap, none is forgotten, and the client  *)
(* implements CallbackQueue.                                               *)
(***************************************************************************)
EXTENDS SchedulerClient, TLAPS

\* The leaves are first-order; those that need arithmetic cite SMT.
USE Zenon

\* A server has a callback exactly while it runs it.
CallbackHeld == \A t \in Servers : callback[t] # NoCallback <=> Running(t)

ClientInv == ClientTypeOK /\ NoOverlap /\ NothingStuck /\ CallbackHeld

\* An empty queue is a queue.
LEMMA EmptyIsSeq == <<>> \in Seq(Callbacks)
BY SMT

\* The steps that every thread has in common.
LEMMA CallerStepPreserves ==
    ASSUME ClientInv, NEW t \in Threads, CallerStep(t)
    PROVE  ClientInv'
<1> USE DEF ClientInv, ClientTypeOK, NoOverlap, NothingStuck, CallbackHeld, Running, Labels, Goto
<1>1. CASE MaybeScheduleProcessQueue(t)
  BY <1>1, ThreadsAssumption DEF MaybeScheduleProcessQueue, Idle, Threads
<1>2. CASE Schedule(t)
  BY <1>2, ThreadsAssumption, SMT DEF Schedule, Threads
<1> QED
  BY <1>1, <1>2 DEF CallerStep

\* The inductive invariant, one step per operation.
LEMMA ClientInvInductive ==
    ASSUME ClientInv, [ClientNext]_client
    PROVE  ClientInv'
<1> USE DEF ClientInv, ClientTypeOK, NoOverlap, NothingStuck, CallbackHeld, Running, Labels, Goto
<1>1. ASSUME NEW t \in Callers, NEW c \in Callbacks, AddToProcessQueue(t, c) PROVE ClientInv'
  BY <1>1, ThreadsAssumption, SMT DEF AddToProcessQueue, Threads
<1>2. ASSUME NEW t \in Threads, CallerStep(t) PROVE ClientInv'
  BY <1>2, CallerStepPreserves
<1>3. ASSUME NEW t \in Servers, ServiceQueue(t) PROVE ClientInv'
  BY <1>3, ThreadsAssumption, SMT DEF ServiceQueue, Threads
<1>4. ASSUME NEW t \in Servers, ProcessQueue(t) PROVE ClientInv'
  <2>1. CASE Idle
    BY <1>4, <2>1, ThreadsAssumption, SMT DEF ProcessQueue, Idle, Threads
  <2>2. CASE ~Idle
    <3>1. Head(m_callbacks_pending) \in Callbacks /\ Tail(m_callbacks_pending) \in Seq(Callbacks)
      BY <2>2, SMT DEF Idle
    <3> QED
      BY <1>4, <2>2, <3>1, ThreadsAssumption, CallbackAssumption, SMT
         DEF ProcessQueue, TakeCallback, Idle, Threads
  <2> QED
    BY <2>1, <2>2
<1>5. ASSUME NEW t \in Servers, FinishCallback(t) PROVE ClientInv'
  BY <1>5, ThreadsAssumption DEF FinishCallback, Threads
<1>6. ASSUME NEW t \in Servers, RunCallback(t) PROVE ClientInv'
  BY <1>6, ThreadsAssumption DEF RunCallback, Threads
<1>7. CASE ClientRestart
  <2>1. \A t \in Threads : pc'[t] = "ready"
    BY <1>7 DEF ClientRestart
  <2>2. ClientTypeOK'
    <3>1. callback' \in [Servers -> Callbacks \cup {NoCallback}] /\ pc' \in [Threads -> Labels]
      BY <1>7 DEF ClientRestart
    <3>2. m_callbacks_pending' \in Seq(Callbacks) /\ m_are_callbacks_running' \in BOOLEAN
      BY <1>7, EmptyIsSeq DEF ClientRestart
    <3> QED
      BY <1>7, <2>1, <3>1, <3>2 DEF ClientRestart, Threads
  <2>3. NoOverlap'
    BY <1>7, <2>1 DEF ClientRestart, Threads
  <2>4. NothingStuck' /\ CallbackHeld'
    BY <1>7, <2>1 DEF ClientRestart, Threads
  <2> QED
    BY <2>2, <2>3, <2>4
<1>8. CASE UNCHANGED client
  BY <1>8 DEF client, Threads
<1> QED
  BY <1>1, <1>2, <1>3, <1>4, <1>5, <1>6, <1>7, <1>8 DEF ClientNext, ServerStep, Threads

\* It holds initially.
LEMMA ClientInitInv == ClientInit => ClientInv
<1> SUFFICES ASSUME ClientInit PROVE ClientInv
  OBVIOUS
<1> USE DEF ClientInit
<1>1. \A t \in Threads : pc[t] = "ready"
  OBVIOUS
<1>2. ClientTypeOK
  <2>1. callback \in [Servers -> Callbacks \cup {NoCallback}] /\ pc \in [Threads -> Labels]
    BY DEF Labels
  <2>2. m_callbacks_pending \in Seq(Callbacks) /\ m_are_callbacks_running \in BOOLEAN
    BY EmptyIsSeq
  <2> QED
    BY <1>1, <2>1, <2>2 DEF ClientTypeOK, Threads
<1>3. NoOverlap
  BY <1>1 DEF NoOverlap, Running, Threads
<1>4. NothingStuck /\ CallbackHeld
  BY <1>1 DEF NothingStuck, CallbackHeld, Running, Threads
<1> QED
  BY <1>2, <1>3, <1>4 DEF ClientInv

\* It holds always.
LEMMA ClientInvariant == ClientSpec => []ClientInv
<1>1. ClientInv /\ [ClientNext]_client => ClientInv'
  BY ClientInvInductive
<1> QED
  BY <1>1, ClientInitInv, PTL DEF ClientSpec

\* The variables have their types and only servers process and run callbacks.
THEOREM ClientTypeCorrect == ClientSpec => []ClientTypeOK
<1>1. ClientInv => ClientTypeOK
  BY DEF ClientInv
<1> QED
  BY <1>1, ClientInvariant, PTL

\* However many threads service the scheduler, no two of them run callbacks of one
\* client at the same time.
THEOREM CallbacksDoNotOverlap == ClientSpec => []NoOverlap
<1>1. ClientInv => NoOverlap
  BY DEF ClientInv
<1> QED
  BY <1>1, ClientInvariant, PTL

\* The two checks that MaybeScheduleProcessQueue and ProcessQueue make without a common
\* lock never leave a callback behind: something that will notice it is under way.
THEOREM NoCallbackForgotten == ClientSpec => []NothingStuck
<1>1. ClientInv => NothingStuck
  BY DEF ClientInv
<1> QED
  BY <1>1, ClientInvariant, PTL

-----------------------------------------------------------------------------
(* The client implements the queue.                                        *)

\* What a step of the client is for the queue.
LEMMA ClientStepSimulates ==
    ASSUME ClientInv, ClientInv', [ClientNext]_client
    PROVE  [Queue!Next]_(Queue!vars)
<1> USE DEF Queue!Next, Queue!vars
<1>1. ASSUME NEW t \in Callers, NEW c \in Callbacks, AddToProcessQueue(t, c) PROVE Queue!Push(c)
  BY <1>1 DEF AddToProcessQueue, Queue!Push
<1>2. ASSUME NEW t \in Threads, CallerStep(t) PROVE UNCHANGED Queue!vars
  BY <1>2 DEF CallerStep, MaybeScheduleProcessQueue, Schedule
<1>3. ASSUME NEW t \in Servers, ServiceQueue(t) \/ RunCallback(t) PROVE UNCHANGED Queue!vars
  BY <1>3 DEF ServiceQueue, RunCallback
<1>4. ASSUME NEW t \in Servers, ProcessQueue(t), Idle PROVE UNCHANGED Queue!vars
  BY <1>4 DEF ProcessQueue
<1>5. ASSUME NEW t \in Servers, ProcessQueue(t), ~Idle PROVE Queue!Begin
  <2>1. m_callbacks_pending # <<>> /\ m_callbacks_pending' = Tail(m_callbacks_pending)
    BY <1>5 DEF ProcessQueue, TakeCallback, Idle
  <2>2. callback' = [callback EXCEPT ![t] = Head(m_callbacks_pending)]
        /\ callback \in [Servers -> Callbacks \cup {NoCallback}]
    BY <1>5 DEF ProcessQueue, TakeCallback, ClientInv, ClientTypeOK
  <2>3. \A s \in Servers : callback[s] = NoCallback
    BY <1>5 DEF ClientInv, CallbackHeld, NoOverlap, Idle
  <2>4. Head(m_callbacks_pending) # NoCallback
    BY <2>1, CallbackAssumption, SMT DEF ClientInv, ClientTypeOK
  <2>5. {callback[s] : s \in Servers} \ {NoCallback} = {}
    BY <2>3
  <2>6. {callback'[s] : s \in Servers} \ {NoCallback} = {Head(m_callbacks_pending)}
    BY <2>2, <2>3, <2>4
  <2> QED
    BY <2>1, <2>5, <2>6 DEF Queue!Begin
<1>6. ASSUME NEW t \in Servers, FinishCallback(t) PROVE Queue!End
  <2>1. callback[t] # NoCallback
    BY <1>6 DEF FinishCallback, ClientInv, CallbackHeld, Running
  <2>2. \A s \in Servers \ {t} : callback[s] = NoCallback
    BY <1>6 DEF FinishCallback, ClientInv, CallbackHeld, NoOverlap, Running
  <2>3. callback' = [callback EXCEPT ![t] = NoCallback]
        /\ callback \in [Servers -> Callbacks \cup {NoCallback}]
    BY <1>6 DEF FinishCallback, ClientInv, ClientTypeOK
  <2>4. {callback[s] : s \in Servers} \ {NoCallback} # {}
    BY <2>1
  <2>5. {callback'[s] : s \in Servers} \ {NoCallback} = {}
    BY <2>2, <2>3
  <2>6. m_callbacks_pending' = m_callbacks_pending
    BY <1>6 DEF FinishCallback
  <2> QED
    BY <2>4, <2>5, <2>6 DEF Queue!End
<1>7. ASSUME ClientRestart PROVE Queue!Restart
  BY <1>7 DEF ClientRestart, Queue!Restart
<1>8. ASSUME UNCHANGED client PROVE UNCHANGED Queue!vars
  BY <1>8 DEF client
<1> QED
  BY <1>1, <1>2, <1>3, <1>4, <1>5, <1>6, <1>7, <1>8 DEF ClientNext, ServerStep, Threads

\* "callbacks can behave as if they are executed in order by a single thread": the
\* client, with any number of threads, implements CallbackQueue.
THEOREM ClientImplementsQueue == ClientSpec => QueueSpec
<1>1. ClientInit => Queue!Init
  BY DEF ClientInit, Queue!Init
<1>2. ClientInv /\ ClientInv' /\ [ClientNext]_client => [Queue!Next]_(Queue!vars)
  BY ClientStepSimulates
<1> QED
  BY <1>1, <1>2, ClientInvariant, PTL DEF ClientSpec, QueueSpec, Queue!Spec

-----------------------------------------------------------------------------
(* The callbacks in line: the one that a thread is about to run and those   *)
(* that are pending.                                                        *)

Delivering == {t \in Servers : pc[t] = "callback"}
Line ==
    IF Delivering = {} THEN m_callbacks_pending
    ELSE <<callback[CHOOSE t \in Delivering : TRUE]>> \o m_callbacks_pending


\* The line is a sequence of callbacks.
LEMMA LineType == ClientInv => Line \in Seq(Callbacks)
<1> SUFFICES ASSUME ClientInv PROVE Line \in Seq(Callbacks)
  OBVIOUS
<1>1. m_callbacks_pending \in Seq(Callbacks)
  BY DEF ClientInv, ClientTypeOK
<1>2. ASSUME NEW t \in Delivering PROVE callback[t] \in Callbacks
  BY <1>2 DEF Delivering, ClientInv, CallbackHeld, Running, ClientTypeOK
<1>3. CASE Delivering = {}
  BY <1>1, <1>3 DEF Line
<1>4. CASE Delivering # {}
  <2> DEFINE t == CHOOSE t \in Delivering : TRUE
  <2>1. t \in Delivering
    BY <1>4
  <2> HIDE DEF t
  <2>2. <<callback[t]>> \o m_callbacks_pending \in Seq(Callbacks)
    BY <1>1, <1>2, <2>1, SMT
  <2> QED
    BY <1>4, <2>2 DEF Line, t
<1> QED
  BY <1>3, <1>4

\* A callback put before a sequence.
LEMMA Prefixed ==
    ASSUME NEW s \in Seq(Callbacks), NEW x \in Callbacks
    PROVE  /\ \A c \in Callbacks : <<x>> \o Append(s, c) = Append(<<x>> \o s, c)
           /\ <<x>> \o s # <<>> /\ (<<x>> \o s)[1] = x /\ Tail(<<x>> \o s) = s
           /\ s # <<>> => <<Head(s)>> \o Tail(s) = s
<1>1. ASSUME NEW c \in Callbacks PROVE <<x>> \o Append(s, c) = Append(<<x>> \o s, c)
  BY SMT
<1>2. <<x>> \o s # <<>> /\ (<<x>> \o s)[1] = x
  BY SMT
<1>3. Tail(<<x>> \o s) = s
  BY SMT
<1>4. s # <<>> => <<Head(s)>> \o Tail(s) = s
  BY SMT
<1> QED
  BY <1>1, <1>2, <1>3, <1>4

\* Who runs a callback is about to run the first one of the line.
LEMMA LineOf ==
    ASSUME ClientInv
    PROVE  /\ Delivering = {} => Line = m_callbacks_pending
           /\ \A t \in Delivering : /\ t \in Servers /\ Delivering = {t} /\ callback[t] \in Callbacks
                                    /\ Line = <<callback[t]>> \o m_callbacks_pending
           /\ m_callbacks_pending \in Seq(Callbacks)
<1>1. ASSUME NEW t \in Delivering
      PROVE  /\ t \in Servers /\ Delivering = {t} /\ callback[t] \in Callbacks
             /\ Line = <<callback[t]>> \o m_callbacks_pending
  <2>1. t \in Servers /\ Delivering = {t}
    BY <1>1 DEF Delivering, ClientInv, NoOverlap, Running
  <2>2. callback[t] \in Callbacks
    BY <1>1 DEF Delivering, ClientInv, CallbackHeld, Running, ClientTypeOK
  <2>3. (CHOOSE s \in Delivering : TRUE) = t /\ Delivering # {}
    BY <2>1
  <2> QED
    BY <2>1, <2>2, <2>3 DEF Line
<1>2. Delivering = {} => Line = m_callbacks_pending
  BY DEF Line
<1> QED
  BY <1>1, <1>2 DEF ClientInv, ClientTypeOK

\* What the operations of the client do to the line.
LEMMA LineSteps ==
    ASSUME ClientInv, ClientInv'
    PROVE  /\ \A t \in Callers, c \in Callbacks : AddToProcessQueue(t, c) => Line' = Append(Line, c)
           /\ \A t \in Callers : CallerStep(t) => Line' = Line
           /\ \A t \in Servers : ServerStep(t) => Line' = Line
           /\ \A t \in Servers : RunCallback(t) => /\ Line # <<>> /\ Line[1] = callback[t]
                                                   /\ Line' = Tail(Line)
           /\ ClientRestart => Line' = <<>>
           /\ UNCHANGED client => Line' = Line
<1>0. pc \in [Threads -> Labels] /\ Servers \subseteq Threads /\ Callers \subseteq Threads
  BY DEF ClientInv, ClientTypeOK, Threads
<1>1. ASSUME UNCHANGED <<m_callbacks_pending, callback>>, Delivering' = Delivering PROVE Line' = Line
  BY <1>1, SMT DEF Line
<1>2. ASSUME NEW t \in Callers, NEW c \in Callbacks, AddToProcessQueue(t, c)
      PROVE  Line' = Append(Line, c)
  <2>1. Delivering' = Delivering
    BY <1>0, <1>2, ThreadsAssumption DEF AddToProcessQueue, Goto, Delivering
  <2>2. m_callbacks_pending' = Append(m_callbacks_pending, c) /\ callback' = callback
    BY <1>2 DEF AddToProcessQueue
  <2>3. CASE Delivering = {}
    BY <2>1, <2>2, <2>3 DEF Line
  <2>4. ASSUME NEW s \in Delivering PROVE Line' = Append(Line, c)
    <3>1. callback[s] \in Callbacks /\ Line = <<callback[s]>> \o m_callbacks_pending
          /\ m_callbacks_pending \in Seq(Callbacks) /\ Delivering = {s}
      BY LineOf
    <3>2. Line' = <<callback[s]>> \o Append(m_callbacks_pending, c)
      BY <2>1, <2>2, <3>1 DEF Line
    <3> QED
      BY <3>1, <3>2, Prefixed
  <2> QED
    BY <2>3, <2>4
<1>3. ASSUME NEW t \in Threads, CallerStep(t) PROVE Line' = Line
  <2>1. Delivering' = Delivering
    BY <1>0, <1>3 DEF CallerStep, MaybeScheduleProcessQueue, Schedule, Goto, Delivering
  <2> QED
    BY <1>1, <1>3, <2>1 DEF CallerStep, MaybeScheduleProcessQueue, Schedule
<1>4. ASSUME NEW t \in Servers, ServiceQueue(t) PROVE Line' = Line
  <2>1. Delivering' = Delivering
    BY <1>0, <1>4 DEF ServiceQueue, Goto, Delivering
  <2> QED
    BY <1>1, <1>4, <2>1 DEF ServiceQueue
<1>5. ASSUME NEW t \in Servers, ProcessQueue(t) PROVE Line' = Line
  <2>1. CASE Idle
    <3>1. Delivering' = Delivering
      BY <1>0, <1>5, <2>1 DEF ProcessQueue, Goto, Delivering
    <3> QED
      BY <1>1, <1>5, <2>1, <3>1 DEF ProcessQueue
  <2>2. CASE ~Idle
    <3>1. Delivering = {}
      BY <2>2 DEF Idle, ClientInv, NoOverlap, Running, Delivering
    <3>2. t \in Delivering' /\ callback'[t] = Head(m_callbacks_pending)
          /\ m_callbacks_pending' = Tail(m_callbacks_pending) /\ m_callbacks_pending # <<>>
      BY <1>0, <1>5, <2>2 DEF ProcessQueue, TakeCallback, Goto, Delivering, Idle,
                             ClientInv, ClientTypeOK
    <3>3. Line' = <<callback'[t]>> \o m_callbacks_pending'
      <4>1. Delivering' = {t}
        BY <1>0, <1>5, <2>2, <3>1 DEF ProcessQueue, TakeCallback, Goto, Delivering
      <4> QED
        BY <4>1 DEF Line
    <3>4. Head(m_callbacks_pending) \in Callbacks /\ m_callbacks_pending \in Seq(Callbacks)
      BY <3>2, SMT DEF ClientInv, ClientTypeOK
    <3> QED
      BY <3>1, <3>2, <3>3, <3>4, LineOf, Prefixed
  <2> QED
    BY <2>1, <2>2
<1>6. ASSUME NEW t \in Servers, FinishCallback(t) PROVE Line' = Line
  <2>1. Delivering = {}
    BY <1>6 DEF FinishCallback, ClientInv, NoOverlap, Running, Delivering
  <2>2. Delivering' = {}
    BY <1>0, <1>6, <2>1 DEF FinishCallback, Goto, Delivering
  <2> QED
    BY <1>6, <2>1, <2>2 DEF FinishCallback, Line
<1>7. ASSUME NEW t \in Servers, RunCallback(t)
      PROVE  Line # <<>> /\ Line[1] = callback[t] /\ Line' = Tail(Line)
  <2>1. t \in Delivering
    BY <1>7 DEF RunCallback, Delivering
  <2>2. Delivering' = {}
    BY <1>0, <1>7, <2>1, LineOf DEF RunCallback, Goto, Delivering
  <2>3. Line' = m_callbacks_pending
    BY <1>7, <2>2 DEF RunCallback, Line
  <2>4. callback[t] \in Callbacks /\ m_callbacks_pending \in Seq(Callbacks)
        /\ Line = <<callback[t]>> \o m_callbacks_pending
    BY <2>1, LineOf
  <2>5. Line # <<>> /\ Line[1] = callback[t] /\ Tail(Line) = m_callbacks_pending
    BY <2>4, Prefixed
  <2> QED
    BY <2>3, <2>5
<1>8. ASSUME ClientRestart PROVE Line' = <<>>
  <2>1. Delivering' = {}
    BY <1>0, <1>8 DEF ClientRestart, Delivering
  <2> QED
    BY <1>8, <2>1 DEF ClientRestart, Line
<1>9. ASSUME UNCHANGED client PROVE Line' = Line
  BY <1>9, SMT DEF client, Line, Delivering
<1> QED
  BY <1>0, <1>2, <1>3, <1>4, <1>5, <1>6, <1>7, <1>8, <1>9 DEF ServerStep

-----------------------------------------------------------------------------
(* The client does a bounded amount of work for every callback.             *)

\* The steps that are left for a thread at a label, a scheduled task and a callback that
\* waits counted as the most that can come of them.
Cost ==
    [l \in Labels |-> CASE l = "ready" -> 0 [] l = "process" -> 1 [] l = "schedule" -> 3
                        [] l = "maybe" -> 4 [] l = "finish" -> 5 [] l = "callback" -> 6]
StepsLeft(t) == 6 * Len(m_callbacks_pending) + 2 * taskQueue + Cost[pc[t]]

OnlyMoves(t) == \A u \in Threads \ {t} : pc'[u] = pc[u]

\* A callback that is added brings ten steps at most; every step of a thread is one less,
\* and moves no other thread.
StepsCounted ==
    /\ \A t \in Threads : StepsLeft(t) \in Nat
    /\ \A t \in Callers, c \in Callbacks :
          AddToProcessQueue(t, c) => OnlyMoves(t) /\ StepsLeft(t)' = StepsLeft(t) + 10
    /\ \A t \in Threads :
          CallerStep(t) \/ (t \in Servers /\ (ServerStep(t) \/ RunCallback(t)))
             => OnlyMoves(t) /\ StepsLeft(t)' < StepsLeft(t)

\* The cost of each label.
LEMMA CostOf ==
    /\ Cost["ready"] = 0 /\ Cost["process"] = 1 /\ Cost["schedule"] = 3
    /\ Cost["maybe"] = 4 /\ Cost["finish"] = 5 /\ Cost["callback"] = 6
    /\ \A l \in Labels : Cost[l] \in Nat
BY SMT DEF Cost, Labels

\* It holds of every step.
LEMMA StepsCount ==
    ASSUME ClientInv, ClientInv'
    PROVE  StepsCounted
<1> DEFINE len == Len(m_callbacks_pending)
<1>0. /\ len \in Nat /\ taskQueue \in Nat /\ len' \in Nat /\ taskQueue' \in Nat
      /\ pc \in [Threads -> Labels] /\ Callers \subseteq Threads /\ Servers \subseteq Threads
  BY SMT DEF ClientInv, ClientTypeOK, Threads
<1> HIDE DEF len
<1>1. ASSUME NEW t \in Threads PROVE StepsLeft(t) \in Nat
  <2>1. Cost[pc[t]] \in Nat
    BY <1>0, CostOf
  <2> QED
    BY <1>0, <2>1, SMT DEF StepsLeft, len
<1>2. ASSUME NEW t \in Threads, NEW l \in Labels, Goto(t, l)
      PROVE  OnlyMoves(t) /\ pc'[t] = l
  BY <1>0, <1>2 DEF Goto, OnlyMoves
<1>3. ASSUME NEW t \in Callers, NEW c \in Callbacks, AddToProcessQueue(t, c)
      PROVE  OnlyMoves(t) /\ StepsLeft(t)' = StepsLeft(t) + 10
  <2>1. t \in Threads /\ pc[t] = "ready" /\ Goto(t, "maybe") /\ "maybe" \in Labels
        /\ taskQueue' = taskQueue
    BY <1>0, <1>3 DEF AddToProcessQueue, Labels
  <2>2. OnlyMoves(t) /\ pc'[t] = "maybe"
    BY <1>2, <2>1
  <2>3. len' = len + 1
    BY <1>3, SMT DEF AddToProcessQueue, ClientInv, ClientTypeOK, len
  <2> QED
    BY <1>0, <2>1, <2>2, <2>3, CostOf, SMT DEF StepsLeft, len
<1>4. ASSUME NEW t \in Threads, NEW l \in Labels, NEW k \in Labels, pc[t] = k, Goto(t, l),
             6 * len' + 2 * taskQueue' + Cost[l] < 6 * len + 2 * taskQueue + Cost[k]
      PROVE  OnlyMoves(t) /\ StepsLeft(t)' < StepsLeft(t)
  BY <1>2, <1>4 DEF StepsLeft, len
<1>5. {"ready", "process", "schedule", "maybe", "finish", "callback"} \subseteq Labels
  BY DEF Labels
<1>6. ASSUME NEW t \in Threads, CallerStep(t)
      PROVE  OnlyMoves(t) /\ StepsLeft(t)' < StepsLeft(t)
  <2>1. CASE MaybeScheduleProcessQueue(t)
    <3>1. pc[t] = "maybe" /\ len' = len /\ taskQueue' = taskQueue
          /\ (Goto(t, "ready") \/ Goto(t, "schedule"))
      BY <2>1 DEF MaybeScheduleProcessQueue, len
    <3>2. \A l \in {"ready", "schedule"} :
             6 * len' + 2 * taskQueue' + Cost[l] < 6 * len + 2 * taskQueue + Cost["maybe"]
      BY <1>0, <3>1, CostOf, SMT
    <3> QED
      BY <1>4, <1>5, <3>1, <3>2
  <2>2. CASE Schedule(t)
    <3>1. pc[t] = "schedule" /\ len' = len /\ taskQueue' = taskQueue + 1 /\ Goto(t, "ready")
      BY <2>2 DEF Schedule, len
    <3>2. 6 * len' + 2 * taskQueue' + Cost["ready"] < 6 * len + 2 * taskQueue + Cost["schedule"]
      BY <1>0, <3>1, CostOf, SMT
    <3> QED
      BY <1>4, <1>5, <3>1, <3>2
  <2> QED
    BY <1>6, <2>1, <2>2 DEF CallerStep
<1>7. ASSUME NEW t \in Servers, ServiceQueue(t) \/ ProcessQueue(t)
      PROVE  OnlyMoves(t) /\ StepsLeft(t)' < StepsLeft(t)
  <2>1. CASE ServiceQueue(t)
    <3>1. /\ pc[t] = "ready" /\ len' = len /\ taskQueue > 0 /\ taskQueue' = taskQueue - 1
          /\ Goto(t, "process")
      BY <2>1 DEF ServiceQueue, len
    <3>2. 6 * len' + 2 * taskQueue' + Cost["process"] < 6 * len + 2 * taskQueue + Cost["ready"]
      BY <1>0, <3>1, CostOf, SMT
    <3> QED
      BY <1>0, <1>4, <1>5, <3>1, <3>2
  <2>2. CASE ProcessQueue(t) /\ Idle
    <3>1. pc[t] = "process" /\ len' = len /\ taskQueue' = taskQueue /\ Goto(t, "ready")
      BY <2>2 DEF ProcessQueue, len
    <3>2. 6 * len' + 2 * taskQueue' + Cost["ready"] < 6 * len + 2 * taskQueue + Cost["process"]
      BY <1>0, <3>1, CostOf, SMT
    <3> QED
      BY <1>0, <1>4, <1>5, <3>1, <3>2
  <2>3. CASE ProcessQueue(t) /\ ~Idle
    <3>1. /\ pc[t] = "process" /\ taskQueue' = taskQueue /\ Goto(t, "callback")
          /\ m_callbacks_pending # <<>> /\ m_callbacks_pending' = Tail(m_callbacks_pending)
      BY <2>3 DEF ProcessQueue, TakeCallback, Idle
    <3>2. len' = len - 1
      BY <3>1, SMT DEF ClientInv, ClientTypeOK, len
    <3>3. 6 * len' + 2 * taskQueue' + Cost["callback"] < 6 * len + 2 * taskQueue + Cost["process"]
      BY <1>0, <3>1, <3>2, CostOf, SMT
    <3> QED
      BY <1>0, <1>4, <1>5, <3>1, <3>3
  <2> QED
    BY <1>7, <2>1, <2>2, <2>3
<1>8. ASSUME NEW t \in Servers, FinishCallback(t) \/ RunCallback(t)
      PROVE  OnlyMoves(t) /\ StepsLeft(t)' < StepsLeft(t)
  <2>1. /\ len' = len /\ taskQueue' = taskQueue
        /\ \/ pc[t] = "finish" /\ Goto(t, "maybe")
           \/ pc[t] = "callback" /\ Goto(t, "finish")
    BY <1>8 DEF FinishCallback, RunCallback, len
  <2>2. /\ 6 * len' + 2 * taskQueue' + Cost["maybe"] < 6 * len + 2 * taskQueue + Cost["finish"]
        /\ 6 * len' + 2 * taskQueue' + Cost["finish"] < 6 * len + 2 * taskQueue + Cost["callback"]
    BY <1>0, <2>1, CostOf, SMT
  <2> QED
    BY <1>0, <1>4, <1>5, <2>1, <2>2
<1>9. ASSUME NEW t \in Servers, ServerStep(t)
      PROVE  OnlyMoves(t) /\ StepsLeft(t)' < StepsLeft(t)
  BY <1>0, <1>6, <1>7, <1>8, <1>9 DEF ServerStep
<1> QED
  BY <1>1, <1>3, <1>6, <1>8, <1>9 DEF StepsCounted

\* However many threads there are and however often ProcessQueue is scheduled in vain, the
\* steps of the client come to an end unless callbacks are added: with nothing forgotten
\* and nothing overlapping, each callback is run.
THEOREM StepsAreBounded == ClientSpec => [][StepsCounted]_client
<1>1. ASSUME ClientInv, ClientInv' PROVE StepsCounted
  BY <1>1, StepsCount
<1>2. ClientInv /\ ClientInv' /\ [ClientNext]_client => [StepsCounted]_client
  BY <1>1
<1> QED
  BY <1>2, ClientInvariant, PTL DEF ClientSpec
=============================================================================
