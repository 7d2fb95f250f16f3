-------------------------- MODULE CheckQueueProofs --------------------------
(***************************************************************************)
(* Proofs about CCheckQueue for any number of workers, checks and batch    *)
(* size: nTodo is exact, no check is taken twice, Wait returns whether     *)
(* every check of the session succeeded, it is not left asleep, and what   *)
(* the threads have to do before it returns is bounded.                    *)
(***************************************************************************)
EXTENDS CheckQueue, FiniteSetTheorems, TLAPS

\* The leaves are first-order; those that need arithmetic cite SMT.
USE Zenon

Outside == {"idle", "stopping", "joining", "joined"}
WorkerPcs == {"start", "work", "block", "wait", "woken", "done"}
MasterPcs == PcValues \ {"done"}
Sleeping == {t \in Threads : pc[t] \in {"block", "wait", "woken"}}
InLoop == {t \in Threads : pc[t] \in {"work", "block", "wait", "woken", "done"}}

\* Where the threads can be, and what holding the mutex between steps means.
PlaceInv ==
    /\ \A w \in Workers : pc[w] \in WorkerPcs
    /\ pc[Master] \in MasterPcs
    /\ m_request_stop => pc[Master] \in Outside \ {"idle"}

\* Exactly the threads at work have a batch; nothing is outstanding between sessions.
BatchInv ==
    /\ \A t \in Threads : pc[t] = "work" <=> batch[t] # {}
    /\ Pending \subseteq added
    /\ pc[Master] \in Outside => Pending = {}

\* fAllOk is the result of the checks completed so far, and a thread that was
\* told to skip its checks was told so because of a failure in this session.
ResultInv ==
    /\ pc[Master] \notin Outside =>
          (fAllOk <=> (added \ Pending) \cap Failing = {})
    /\ pc[Master] \in Outside =>
          fAllOk /\ (ret <=> added \cap Failing = {})
    /\ \A t \in Threads : batch[t] # {} /\ ~fOk[t] => ~fAllOk

\* The two counters that size a batch.
CountInv ==
    /\ nIdle = Cardinality(Sleeping)
    /\ nTotal = Cardinality(InLoop)

IInv == /\ TypeOK /\ PlaceInv /\ OneTaker /\ TodoCount
        /\ BatchInv /\ ResultInv /\ CountInv

-----------------------------------------------------------------------------
(* Cardinalities.                                                          *)

\* Removing a subset of a finite set subtracts its size.
LEMMA CardMinus ==
    ASSUME NEW S, IsFiniteSet(S), NEW T \in SUBSET S
    PROVE  /\ IsFiniteSet(T) /\ IsFiniteSet(S \ T)
           /\ Cardinality(T) \in Nat /\ Cardinality(S \ T) \in Nat
           /\ Cardinality(S \ T) = Cardinality(S) - Cardinality(T)
<1>1. IsFiniteSet(T)
  BY FS_Subset
<1>2. S \cap T = T
  OBVIOUS
<1>3. IsFiniteSet(S \ T) /\ Cardinality(S \ T) = Cardinality(S) - Cardinality(S \cap T)
  BY FS_Difference
<1>4. Cardinality(T) \in Nat /\ Cardinality(S \ T) \in Nat
  BY <1>1, <1>3, FS_CardinalityType
<1> QED
  BY <1>1, <1>2, <1>3, <1>4

\* The threads, and every set of checks the queue handles, are finite.
LEMMA Finite ==
    ASSUME TypeOK
    PROVE  /\ IsFiniteSet(Threads) /\ IsFiniteSet(Sleeping) /\ IsFiniteSet(InLoop)
           /\ IsFiniteSet(Pending) /\ IsFiniteSet(queue)
           /\ \A t \in Threads : IsFiniteSet(batch[t])
<1>1. IsFiniteSet(Threads)
  BY ThreadAssumption, FS_AddElement DEF Threads
<1>2. Sleeping \subseteq Threads /\ InLoop \subseteq Threads
  BY DEF Sleeping, InLoop
<1>3. Pending \subseteq Checks /\ queue \subseteq Checks
  BY DEF Pending, TypeOK
<1>4. \A t \in Threads : batch[t] \subseteq Checks
  BY DEF TypeOK
<1> QED
  BY <1>1, <1>2, <1>3, <1>4, CheckAssumption, FS_Subset

\* What a thread that reaches the mutex computes before it decides what to do:
\* the checks left, and the two counters without and with that thread.
LEMMA Settle ==
    ASSUME IInv, NEW t \in Threads, AtMutex(t)
    PROVE  /\ batch[t] \subseteq Pending
           /\ TodoAfter(t) = Cardinality(Pending \ batch[t])
           /\ TodoAfter(t) \in Nat
           /\ IdleAfter(t) = Cardinality(Sleeping \ {t})
           /\ IdleAfter(t) \in Nat
           /\ TotalAfter(t) = Cardinality(InLoop \cup {t})
           /\ TotalAfter(t) \in Nat \ {0}
<1>0. TypeOK /\ TodoCount /\ CountInv
  BY DEF IInv
<1>1. batch[t] \subseteq Pending
  BY <1>0 DEF Pending, TypeOK
<1>2. TodoAfter(t) = Cardinality(Pending \ batch[t]) /\ TodoAfter(t) \in Nat
  <2>1. Cardinality(Pending \ batch[t]) = Cardinality(Pending) - Cardinality(batch[t])
        /\ Cardinality(Pending \ batch[t]) \in Nat
    BY <1>0, <1>1, Finite, CardMinus
  <2> QED
    BY <1>0, <2>1 DEF TodoAfter, TodoCount
<1>3. IdleAfter(t) = Cardinality(Sleeping \ {t}) /\ IdleAfter(t) \in Nat
  <2>1. IsFiniteSet(Sleeping) /\ IsFiniteSet(Sleeping \ {t})
    BY <1>0, Finite, FS_RemoveElement
  <2>2. CASE pc[t] = "woken"
    <3>1. t \in Sleeping
      BY <2>2 DEF Sleeping
    <3>2. Cardinality(Sleeping \ {t}) = Cardinality(Sleeping) - 1
      BY <2>1, <3>1, FS_RemoveElement
    <3> QED
      BY <1>0, <2>1, <2>2, <3>2, FS_CardinalityType DEF IdleAfter, CountInv
  <2>3. CASE pc[t] # "woken"
    <3>1. Sleeping \ {t} = Sleeping
      BY <2>3 DEF Sleeping, AtMutex
    <3> QED
      BY <1>0, <2>1, <2>3, <3>1, FS_CardinalityType DEF IdleAfter, CountInv
  <2> QED
    BY <2>2, <2>3
<1>4. TotalAfter(t) = Cardinality(InLoop \cup {t}) /\ TotalAfter(t) \in Nat \ {0}
  <2>1. IsFiniteSet(InLoop)
    BY <1>0, Finite
  <2>2. CASE pc[t] = "start"
    <3>1. t \notin InLoop
      BY <2>2 DEF InLoop
    <3>2. Cardinality(InLoop \cup {t}) = Cardinality(InLoop) + 1
      BY <2>1, <3>1, FS_AddElement
    <3> QED
      BY <1>0, <2>1, <2>2, <3>2, FS_CardinalityType, SMT DEF TotalAfter, CountInv
  <2>3. CASE pc[t] # "start"
    <3>1. t \in InLoop
      BY <2>3 DEF InLoop, AtMutex
    <3>2. InLoop \cup {t} = InLoop
      BY <3>1
    <3>3. Cardinality(InLoop) # 0
      BY <2>1, <3>1, FS_EmptySet
    <3> QED
      BY <1>0, <2>1, <2>3, <3>2, <3>3, FS_CardinalityType DEF TotalAfter, CountInv
  <2> QED
    BY <2>2, <2>3
<1> QED
  BY <1>1, <1>2, <1>3, <1>4

\* The accumulated result of a thread that reaches the mutex is the result of
\* all checks that are then completed, whether or not the thread skipped its own.
LEMMA SettleResult ==
    ASSUME IInv, NEW t \in Threads, AtMutex(t)
    PROVE  /\ AllOkAfter(t) \in BOOLEAN
           /\ pc[Master] \notin Outside =>
                (AllOkAfter(t) <=> (added \ (Pending \ batch[t])) \cap Failing = {})
           /\ pc[Master] \in Outside => AllOkAfter(t)
           /\ ~fAllOk => ~AllOkAfter(t)
<1>0. TypeOK /\ BatchInv /\ ResultInv
  BY DEF IInv
<1>1. batch[t] \subseteq Pending
  BY Settle
<1>2. AllOkAfter(t) \in BOOLEAN /\ (~fAllOk => ~AllOkAfter(t))
  BY <1>0 DEF AllOkAfter, TypeOK
<1>3. ASSUME pc[Master] \in Outside PROVE AllOkAfter(t)
  <2>1. batch[t] = {} /\ fAllOk
    BY <1>0, <1>1, <1>3 DEF BatchInv, ResultInv
  <2> QED
    BY <1>0, <2>1 DEF AllOkAfter, BatchInv
<1>4. ASSUME pc[Master] \notin Outside
      PROVE  AllOkAfter(t) <=> (added \ (Pending \ batch[t])) \cap Failing = {}
  <2>1. fAllOk <=> (added \ Pending) \cap Failing = {}
    BY <1>0, <1>4 DEF ResultInv
  <2>2. batch[t] \subseteq added
    BY <1>0, <1>1 DEF BatchInv
  <2>3. (added \ (Pending \ batch[t])) \cap Failing = {}
          <=> (added \ Pending) \cap Failing = {} /\ batch[t] \cap Failing = {}
    BY <1>1, <2>2
  <2>4. CASE pc[t] = "work"
    <3>1. AllOkAfter(t) <=> fAllOk /\ fOk[t] /\ batch[t] \cap Failing = {}
      BY <2>4 DEF AllOkAfter
    <3>2. ~fOk[t] => ~fAllOk
      BY <1>0, <2>4 DEF ResultInv, BatchInv
    <3> QED
      BY <2>1, <2>3, <3>1, <3>2
  <2>5. CASE pc[t] # "work"
    <3>1. batch[t] = {}
      BY <1>0, <2>5 DEF BatchInv
    <3>2. AllOkAfter(t) = fAllOk
      BY <2>5 DEF AllOkAfter
    <3> QED
      BY <2>1, <3>1, <3>2
  <2> QED
    BY <2>4, <2>5
<1> QED
  BY <1>2, <1>3, <1>4

-----------------------------------------------------------------------------
(* The invariant is preserved: one lemma for the steps that only move       *)
(* control, one for Add, and one for the four exits of the loop's head.     *)

\* The invariant holds when the constructor returns.
LEMMA InitInv == Init => IInv
<1> SUFFICES ASSUME Init PROVE IInv
  OBVIOUS
<1>1. Pending = {} /\ Sleeping = {} /\ InLoop = {}
  BY DEF Init, Pending, Sleeping, InLoop
<1>2. Cardinality({}) = 0
  BY FS_EmptySet
<1>3. Master \in Threads
  BY DEF Threads
<1>4. TypeOK
  BY <1>3 DEF Init, TypeOK, PcValues
<1>5. PlaceInv
  BY <1>3, ThreadAssumption
  DEF Init, PlaceInv, WorkerPcs, MasterPcs, PcValues, Outside, Threads
<1>6. OneTaker
  BY DEF Init, OneTaker
<1>7. TodoCount /\ CountInv
  BY <1>1, <1>2 DEF Init, TodoCount, CountInv
<1>8. BatchInv
  BY <1>1 DEF Init, BatchInv
<1>9. ResultInv
  BY <1>1, <1>3 DEF Init, ResultInv, Outside
<1> QED
  BY <1>4, <1>5, <1>6, <1>7, <1>8, <1>9 DEF IInv

\* A step that only moves control, keeps every thread on its side of the
\* loop's counters and keeps the session as it is.
LEMMA ControlOnly ==
    ASSUME IInv,
           UNCHANGED <<queue, nIdle, nTotal, fAllOk, nTodo, batch, fOk, added, ret>>,
           pc' \in [Threads -> PcValues],
           mutex' \in Threads \cup {NoThread}, m_request_stop' \in BOOLEAN,
           PlaceInv',
           \A t \in Threads : \/ pc'[t] = pc[t]
                              \/ {pc[t], pc'[t]} \subseteq {"block", "wait", "woken"}
                              \/ {pc[t], pc'[t]} \subseteq PcValues \
                                   {"work", "block", "wait", "woken", "done"},
           pc[Master] \in Outside <=> pc'[Master] \in Outside
    PROVE  IInv'
<1>0. TypeOK /\ OneTaker /\ TodoCount /\ BatchInv /\ ResultInv /\ CountInv
  BY DEF IInv
<1>1. Pending' = Pending
  BY DEF Pending
<1>2. Sleeping' = Sleeping /\ InLoop' = InLoop
  BY <1>0 DEF Sleeping, InLoop
<1>3. TypeOK'
  BY <1>0 DEF TypeOK
<1>4. OneTaker' /\ TodoCount'
  BY <1>0, <1>1 DEF OneTaker, TodoCount
<1>5. CountInv'
  BY <1>0, <1>2 DEF CountInv
<1>6. BatchInv'
  <2>1. \A t \in Threads : pc'[t] = "work" <=> pc[t] = "work"
    OBVIOUS
  <2> QED
    BY <1>0, <1>1, <2>1 DEF BatchInv
<1>7. ResultInv'
  BY <1>0, <1>1 DEF ResultInv
<1> QED
  BY <1>3, <1>4, <1>5, <1>6, <1>7 DEF IInv

\* What the master does outside Loop keeps the invariant.
LEMMA MasterSteps ==
    ASSUME IInv, \/ StartWait \/ Notify \/ RequestStop \/ NotifyStop \/ Join
    PROVE  IInv'
<1>0. TypeOK /\ PlaceInv /\ Master \in Threads /\ Master \notin Workers
  BY ThreadAssumption DEF IInv, Threads
<1>1. CASE StartWait
  <2>1. PlaceInv' /\ pc' \in [Threads -> PcValues]
    BY <1>0, <1>1
    DEF StartWait, PlaceInv, MasterPcs, PcValues, Outside, Threads, TypeOK
  <2> QED
    BY <1>0, <1>1, <2>1, ControlOnly DEF StartWait, PcValues, Outside, TypeOK
<1>2. CASE Notify
  <2>1. PICK woken \in SUBSET WaitingWorkers :
          pc' = [t \in Threads |-> IF t = Master THEN "add"
                                   ELSE IF t \in woken THEN "woken" ELSE pc[t]]
    BY <1>2 DEF Notify
  <2>2. pc[Master] \in {"notifyOne", "notifyAll"}
    BY <1>2 DEF Notify
  <2>3. \A w \in woken : pc[w] = "wait"
    BY DEF WaitingWorkers
  <2>4. PlaceInv' /\ pc' \in [Threads -> PcValues]
    BY <1>0, <1>2, <2>1, <2>2
    DEF Notify, PlaceInv, MasterPcs, WorkerPcs, PcValues, Outside, Threads, TypeOK
  <2> QED
    BY <1>0, <1>2, <2>1, <2>2, <2>3, <2>4, ControlOnly
    DEF Notify, PcValues, Outside, TypeOK
<1>3. CASE RequestStop
  <2>1. PlaceInv' /\ pc' \in [Threads -> PcValues]
    BY <1>0, <1>3
    DEF RequestStop, PlaceInv, MasterPcs, PcValues, Outside, Threads, TypeOK
  <2> QED
    BY <1>0, <1>3, <2>1, ControlOnly DEF RequestStop, PcValues, Outside, TypeOK
<1>4. CASE NotifyStop
  <2>1. PlaceInv' /\ pc' \in [Threads -> PcValues]
    BY <1>0, <1>4
    DEF NotifyStop, PlaceInv, MasterPcs, WorkerPcs, PcValues, Outside, Threads, TypeOK
  <2> QED
    BY <1>0, <1>4, <2>1, ControlOnly DEF NotifyStop, PcValues, Outside, TypeOK
<1>5. CASE Join
  <2>1. PlaceInv' /\ pc' \in [Threads -> PcValues]
    BY <1>0, <1>5
    DEF Join, PlaceInv, MasterPcs, PcValues, Outside, Threads, TypeOK
  <2> QED
    BY <1>0, <1>5, <2>1, ControlOnly DEF Join, PcValues, Outside, TypeOK
<1> QED
  BY <1>1, <1>2, <1>3, <1>4, <1>5

\* Going to sleep and waking up without cause keep the invariant.
LEMMA SleepSteps ==
    ASSUME IInv, NEW t \in Threads, EnterWait(t) \/ SpuriousWakeup(t)
    PROVE  IInv'
<1>0. TypeOK /\ PlaceInv /\ Master \notin Workers
  BY ThreadAssumption DEF IInv
<1>1. /\ pc' \in [Threads -> PcValues]
      /\ mutex' \in Threads \cup {NoThread}
      /\ \A u \in Threads \ {t} : pc'[u] = pc[u]
      /\ pc[t] \in {"block", "wait"} /\ pc'[t] \in {"wait", "woken"}
  BY <1>0 DEF EnterWait, SpuriousWakeup, TypeOK, PcValues
<1>2. PlaceInv'
  BY <1>0, <1>1, SMT DEF EnterWait, SpuriousWakeup, PlaceInv, MasterPcs, WorkerPcs,
     PcValues, Outside, Threads
<1>3. pc[Master] \in Outside <=> pc'[Master] \in Outside
  BY <1>1 DEF Outside, Threads
<1> QED
  BY <1>0, <1>1, <1>2, <1>3, ControlOnly
  DEF EnterWait, SpuriousWakeup, TypeOK

\* A new session starts with nothing outstanding and a clean result.
LEMMA ControlStep == ASSUME IInv, Control PROVE IInv'
<1>0. /\ TypeOK /\ PlaceInv /\ OneTaker /\ TodoCount /\ BatchInv /\ ResultInv
      /\ CountInv /\ Master \in Threads /\ Master \notin Workers
  BY ThreadAssumption DEF IInv, Threads
<1>1. Pending' = Pending /\ Pending = {}
  BY <1>0 DEF Control, Pending, BatchInv, Outside
<1>2. Sleeping' = Sleeping /\ InLoop' = InLoop
  BY <1>0 DEF Control, Sleeping, InLoop, TypeOK
<1>3. TypeOK'
  BY <1>0 DEF Control, TypeOK, PcValues
<1>4. PlaceInv'
  BY <1>0 DEF Control, PlaceInv, MasterPcs, PcValues, Outside, Threads, TypeOK
<1>5. OneTaker' /\ TodoCount' /\ CountInv'
  BY <1>0, <1>1, <1>2 DEF Control, OneTaker, TodoCount, CountInv
<1>6. BatchInv' /\ ResultInv'
  BY <1>0, <1>1 DEF Control, BatchInv, ResultInv, Outside, TypeOK
<1> QED
  BY <1>3, <1>4, <1>5, <1>6 DEF IInv

\* Add pushes checks that are neither queued nor in flight.
LEMMA AddStep ==
    ASSUME IInv, NEW S \in SUBSET (Checks \ added), Add(S)
    PROVE  IInv'
<1>0. /\ TypeOK /\ PlaceInv /\ OneTaker /\ TodoCount /\ BatchInv /\ ResultInv
      /\ CountInv /\ Master \in Threads /\ Master \notin Workers
  BY ThreadAssumption DEF IInv, Threads
<1>1. Pending' = Pending \cup S /\ Pending \cap S = {}
  BY <1>0 DEF Add, Pending, BatchInv
<1>2. Sleeping' = Sleeping /\ InLoop' = InLoop
  BY <1>0 DEF Add, Sleeping, InLoop, TypeOK
<1>3. IsFiniteSet(S) /\ IsFiniteSet(Pending)
  BY <1>0, Finite, CheckAssumption, FS_Subset
<1>4. /\ Cardinality(S) \in Nat
      /\ Cardinality(Pending \cup S) = Cardinality(Pending) + Cardinality(S)
  <2>1. Cardinality(S) \in Nat /\ Cardinality(Pending) \in Nat
    BY <1>3, FS_CardinalityType
  <2>2. Cardinality(Pending \cap S) = 0
    BY <1>1, FS_EmptySet
  <2>3. Cardinality(Pending \cup S)
          = Cardinality(Pending) + Cardinality(S) - Cardinality(Pending \cap S)
    BY <1>3, FS_Union
  <2> QED
    BY <2>1, <2>2, <2>3, SMT
<1>5. pc' \in [Threads -> PcValues] /\ pc'[Master] \in {"notifyOne", "notifyAll"}
      /\ \A t \in Threads \ {Master} : pc'[t] = pc[t]
  BY <1>0 DEF Add, TypeOK, PcValues
<1>6. TypeOK'
  BY <1>0, <1>4, <1>5, SMT DEF Add, TypeOK
<1>7. PlaceInv'
  BY <1>0, <1>5 DEF Add, PlaceInv, MasterPcs, PcValues, Outside, Threads
<1>8. OneTaker'
  <2>1. \A t \in Threads : batch[t] \cap S = {}
    BY <1>0, <1>1 DEF Pending, TypeOK
  <2> QED
    BY <1>0, <2>1 DEF Add, OneTaker
<1>9. TodoCount' /\ CountInv'
  BY <1>0, <1>1, <1>2, <1>4 DEF Add, TodoCount, CountInv
<1>10. BatchInv'
  BY <1>0, <1>1, <1>5 DEF Add, BatchInv, Outside
<1>11. ResultInv'
  <2>1. (added \cup S) \ (Pending \cup S) = added \ Pending
    BY <1>1
  <2> QED
    BY <1>0, <1>1, <1>5, <2>1 DEF Add, ResultInv, Outside
<1> QED
  BY <1>6, <1>7, <1>8, <1>9, <1>10, <1>11 DEF IInv

\* The checks left after a thread passed the loop's head: those of its batch
\* are done, and those it takes stay outstanding.
LEMMA SettledPending ==
    ASSUME IInv, NEW t \in Threads, Loop(t)
    PROVE  Pending' = Pending \ batch[t] /\ OneTaker'
<1>0. TypeOK /\ OneTaker
  BY DEF IInv
<1>1. ASSUME Return(t) \/ Block(t) \/ Exit(t)
      PROVE  Pending' = Pending \ batch[t] /\ OneTaker'
  <2>1. queue' = queue /\ batch' = [batch EXCEPT ![t] = {}]
    BY <1>1 DEF Return, Block, Exit
  <2> QED
    BY <1>0, <2>1 DEF Pending, OneTaker, TypeOK
<1>2. ASSUME Take(t) PROVE Pending' = Pending \ batch[t] /\ OneTaker'
  <2>1. PICK S \in kSubset(BatchCount(t), queue) :
          queue' = queue \ S /\ batch' = [batch EXCEPT ![t] = S]
    BY <1>2 DEF Take
  <2>2. S \subseteq queue
    BY DEF kSubset
  <2> QED
    BY <1>0, <2>1, <2>2 DEF Pending, OneTaker, TypeOK
<1> QED
  BY <1>1, <1>2 DEF Loop

\* Where the threads are after one of them passed the loop's head: the other
\* threads stay, except that a waiting master may have been woken.
LEMMA SettledPc ==
    ASSUME IInv, NEW t \in Threads, NEW x \in PcValues,
           pc' = [PcAfter(t) EXCEPT ![t] = x]
    PROVE  /\ pc' \in [Threads -> PcValues] /\ pc'[t] = x
           /\ \A u \in Threads \ {t} :
                 \/ pc'[u] = pc[u]
                 \/ u = Master /\ pc[u] = "wait" /\ pc'[u] = "woken"
<1>1. TypeOK /\ Master \in Threads
  BY DEF IInv, Threads
<1> QED
  BY <1>1 DEF PcAfter, TypeOK, PcValues

\* The master's return from Loop keeps the invariant: nothing is outstanding.
LEMMA ReturnStep == ASSUME IInv, NEW t \in Threads, Return(t) PROVE IInv'
<1>0. /\ TypeOK /\ PlaceInv /\ BatchInv /\ ResultInv /\ AtMutex(t)
      /\ Master \in Threads /\ Master \notin Workers
  BY ThreadAssumption DEF IInv, Threads, Return
<1>1. Pending' = Pending \ batch[t] /\ OneTaker'
  BY SettledPending DEF Loop
<1>2. /\ TodoAfter(t) = Cardinality(Pending') /\ TodoAfter(t) = 0
      /\ IdleAfter(t) = Cardinality(Sleeping \ {t}) /\ IdleAfter(t) \in Nat
      /\ TotalAfter(t) = Cardinality(InLoop \cup {t}) /\ TotalAfter(t) \in Nat \ {0}
  BY <1>0, <1>1, Settle DEF Return
<1>3. Pending' = {}
  <2>1. IsFiniteSet(Pending')
    BY <1>0, <1>1, Finite, FS_Subset
  <2> QED
    BY <1>2, <2>1, FS_EmptySet
<1>4. Sleeping' = Sleeping \ {t} /\ InLoop' = (InLoop \cup {t}) \ {t}
  BY <1>0 DEF Return, Sleeping, InLoop, TypeOK
<1>5. CountInv'
  <2>1. Cardinality((InLoop \cup {t}) \ {t}) = Cardinality(InLoop \cup {t}) - 1
    <3>1. IsFiniteSet(InLoop \cup {t}) /\ t \in InLoop \cup {t}
      BY <1>0, Finite, FS_AddElement
    <3> QED
      BY <3>1, FS_RemoveElement
  <2> QED
    BY <1>2, <1>4, <2>1 DEF Return, CountInv
<1>6. TodoCount'
  BY <1>2 DEF Return, TodoCount
<1>7. TypeOK'
  BY <1>0, <1>2, SettleResult, SMT DEF Return, TypeOK, PcValues
<1>8. PlaceInv'
  BY <1>0 DEF Return, PlaceInv, MasterPcs, PcValues, Outside, Threads, TypeOK
<1>9. BatchInv'
  BY <1>0, <1>3 DEF Return, BatchInv, TypeOK
<1>10. ResultInv'
  <2>1. pc[Master] \notin Outside /\ pc'[Master] = "idle"
    BY <1>0 DEF Return, AtMutex, Outside, TypeOK
  <2>2. AllOkAfter(t) <=> (added \ (Pending \ batch[t])) \cap Failing = {}
    BY <1>0, <2>1, SettleResult
  <2>3. ret' <=> added \cap Failing = {}
    BY <1>1, <1>3, <2>2 DEF Return
  <2>4. \A u \in Threads : batch'[u] = {}
    BY <1>0, <1>3 DEF Return, Pending, TypeOK
  <2> QED
    BY <2>1, <2>3, <2>4 DEF Return, ResultInv, Outside
<1> QED
  BY <1>1, <1>5, <1>6, <1>7, <1>8, <1>9, <1>10 DEF IInv

\* The other three exits differ in where the thread goes (x) and which batch it
\* leaves with (S).
LEMMA PassHead ==
    ASSUME IInv, NEW t \in Threads, AtMutex(t), Loop(t),
           NEW x \in {"block", "work", "done"}, pc' = [PcAfter(t) EXCEPT ![t] = x],
           NEW S \in SUBSET Checks, batch' = [batch EXCEPT ![t] = S],
           x = "work" <=> S # {}, x = "done" <=> m_request_stop,
           NEW ok \in {TRUE, AllOkAfter(t)}, fOk' = [fOk EXCEPT ![t] = ok],
           queue' \in SUBSET Checks, mutex' \in Threads \cup {NoThread},
           fAllOk' = AllOkAfter(t), nTodo' = TodoAfter(t), nTotal' = TotalAfter(t),
           nIdle' = IF x = "block" THEN IdleAfter(t) + 1 ELSE IdleAfter(t),
           UNCHANGED <<m_request_stop, added, ret>>
    PROVE  IInv'
<1>0. /\ TypeOK /\ PlaceInv /\ BatchInv /\ ResultInv
      /\ Master \in Threads /\ Master \notin Workers
  BY ThreadAssumption DEF IInv, Threads
<1>1. Pending' = Pending \ batch[t] /\ OneTaker'
  BY SettledPending
<1>2. /\ TodoAfter(t) = Cardinality(Pending') /\ TodoAfter(t) \in Nat
      /\ IdleAfter(t) = Cardinality(Sleeping \ {t}) /\ IdleAfter(t) \in Nat
      /\ TotalAfter(t) = Cardinality(InLoop \cup {t}) /\ TotalAfter(t) \in Nat \ {0}
  BY <1>1, Settle
<1>3. /\ pc' \in [Threads -> PcValues] /\ pc'[t] = x
      /\ \A u \in Threads \ {t} :
            \/ pc'[u] = pc[u]
            \/ u = Master /\ pc[u] = "wait" /\ pc'[u] = "woken"
  <2>1. x \in PcValues
    BY DEF PcValues
  <2> QED
    BY <2>1, SettledPc
<1>4. CountInv'
  <2>1. InLoop' = InLoop \cup {t}
    BY <1>3 DEF InLoop
  <2>2. Sleeping' = IF x = "block" THEN (Sleeping \ {t}) \cup {t} ELSE Sleeping \ {t}
    BY <1>3 DEF Sleeping
  <2>3. Cardinality((Sleeping \ {t}) \cup {t}) = Cardinality(Sleeping \ {t}) + 1
    <3>1. IsFiniteSet(Sleeping \ {t}) /\ t \notin Sleeping \ {t}
      BY <1>0, Finite, FS_RemoveElement
    <3> QED
      BY <3>1, FS_AddElement
  <2> QED
    BY <1>2, <2>1, <2>2, <2>3 DEF CountInv
<1>5. TodoCount'
  BY <1>2 DEF TodoCount
<1>6. TypeOK'
  <2>1. AllOkAfter(t) \in BOOLEAN
    BY SettleResult
  <2>2. fOk' \in [Threads -> BOOLEAN]
    <3>1. ok \in BOOLEAN /\ fOk \in [Threads -> BOOLEAN]
      BY <1>0, <2>1 DEF TypeOK
    <3> QED
      BY <3>1
  <2>3. nIdle' \in Nat /\ nTotal' \in Nat /\ nTodo' \in Nat
    BY <1>2, SMT
  <2>4. batch' \in [Threads -> SUBSET Checks]
    BY <1>0 DEF TypeOK
  <2> QED
    BY <1>0, <1>3, <2>1, <2>2, <2>3, <2>4 DEF TypeOK
<1>7. PlaceInv'
  <2>1. t = Master => x # "done"
    BY <1>0 DEF PlaceInv, AtMutex, Outside
  <2>2. t = Master => pc[Master] \notin Outside
    BY DEF AtMutex, Outside
  <2> QED
    BY <1>0, <1>3, <2>1, <2>2
    DEF PlaceInv, MasterPcs, WorkerPcs, PcValues, Outside, Threads
<1>8. pc'[Master] \in Outside <=> pc[Master] \in Outside
  BY <1>0, <1>3 DEF Outside, AtMutex
<1>9. BatchInv'
  <2>1. \A u \in Threads : pc'[u] = "work" <=> batch'[u] # {}
    BY <1>0, <1>3 DEF BatchInv, TypeOK
  <2> QED
    BY <1>0, <1>1, <1>8, <2>1 DEF BatchInv
<1>10. ResultInv'
  <2>1. \A u \in Threads : batch'[u] # {} /\ ~fOk'[u] => ~fAllOk'
    <3> SUFFICES ASSUME NEW u \in Threads, batch'[u] # {}, ~fOk'[u]
                 PROVE  ~AllOkAfter(t)
      OBVIOUS
    <3>1. CASE u = t
      BY <1>0, <3>1, SettleResult DEF TypeOK
    <3>2. CASE u # t
      <4>1. batch[u] # {} /\ ~fOk[u]
        BY <1>0, <3>2 DEF TypeOK
      <4> QED
        BY <1>0, <4>1, SettleResult DEF ResultInv
    <3> QED
      BY <3>1, <3>2
  <2>2. pc[Master] \notin Outside =>
          (fAllOk' <=> (added' \ Pending') \cap Failing = {})
    BY <1>1, SettleResult
  <2>3. pc[Master] \in Outside => fAllOk' /\ (ret' <=> added' \cap Failing = {})
    BY <1>0, SettleResult DEF ResultInv
  <2> QED
    BY <1>8, <2>1, <2>2, <2>3 DEF ResultInv
<1> QED
  BY <1>1, <1>4, <1>5, <1>6, <1>7, <1>9, <1>10 DEF IInv

\* Every pass of the head of Loop keeps the invariant.
LEMMA LoopStep == ASSUME IInv, NEW t \in Threads, Loop(t) PROVE IInv'
<1>0. TypeOK /\ AtMutex(t)
  BY DEF IInv, Loop, Return, Block, Take, Exit
<1>1. CASE Return(t)
  BY <1>1, ReturnStep
<1>2. CASE Block(t)
  <2>1. {} \in SUBSET Checks /\ TRUE \in {TRUE, AllOkAfter(t)}
    OBVIOUS
  <2> QED
    BY <1>0, <1>2, <2>1, PassHead DEF Block, TypeOK
<1>3. CASE Exit(t)
  <2>1. {} \in SUBSET Checks /\ TRUE \in {TRUE, AllOkAfter(t)}
    OBVIOUS
  <2> QED
    BY <1>0, <1>3, <2>1, PassHead DEF Exit, TypeOK
<1>4. CASE Take(t)
  <2>1. PICK S \in kSubset(BatchCount(t), queue) :
          queue' = queue \ S /\ batch' = [batch EXCEPT ![t] = S]
    BY <1>4 DEF Take
  <2>2. S \subseteq queue /\ S \in SUBSET Checks
    BY <1>0 DEF kSubset, TypeOK
  <2>3. S # {}
    <3>1. Cardinality(S) = BatchCount(t)
      BY DEF kSubset
    <3>2. BatchCount(t) # 0
      BY SMT DEF BatchCount
    <3> QED
      BY <3>1, <3>2, FS_EmptySet
  <2> QED
    BY <1>0, <1>4, <2>1, <2>2, <2>3, PassHead DEF Take, TypeOK
<1> QED
  BY <1>1, <1>2, <1>3, <1>4 DEF Loop

\* A stuttering step keeps the invariant.
LEMMA StutterStep == ASSUME IInv, UNCHANGED vars PROVE IInv'
<1>1. Pending' = Pending /\ Sleeping' = Sleeping /\ InLoop' = InLoop
  BY DEF vars, Pending, Sleeping, InLoop
<1> QED
  BY <1>1 DEF vars, IInv, TypeOK, PlaceInv, OneTaker, TodoCount, BatchInv,
     ResultInv, CountInv

-----------------------------------------------------------------------------
\* The inductive invariant: where the threads are, what is outstanding, and
\* what fAllOk, nIdle and nTotal stand for, in every reachable state.
THEOREM Invariance == Spec => []IInv
<1>1. IInv /\ [Next]_vars => IInv'
  <2> SUFFICES ASSUME IInv, [Next]_vars PROVE IInv'
    OBVIOUS
  <2>1. CASE Control
    BY <2>1, ControlStep
  <2>2. CASE StartWait \/ Notify \/ RequestStop \/ NotifyStop \/ Join
    BY <2>2, MasterSteps
  <2>3. ASSUME NEW S \in SUBSET (Checks \ added) \ {{}}, Add(S) PROVE IInv'
    BY <2>3, AddStep
  <2>4. ASSUME NEW t \in Threads, Loop(t) PROVE IInv'
    BY <2>4, LoopStep
  <2>5. ASSUME NEW t \in Threads, EnterWait(t) \/ SpuriousWakeup(t) PROVE IInv'
    BY <2>5, SleepSteps
  <2>6. CASE UNCHANGED vars
    BY <2>6, StutterStep
  <2> QED
    BY <2>1, <2>2, <2>3, <2>4, <2>5, <2>6 DEF Next
<1> QED
  BY <1>1, InitInv, PTL DEF Spec

\* The members and the locals always have their types; in particular the
\* unsigned counters nIdle, nTotal and nTodo never go below zero.
THEOREM TypeCorrect == Spec => []TypeOK
BY Invariance, PTL DEF IInv

\* nTodo is the number of checks queued or in flight, for any batch size.
THEOREM TodoIsExact == Spec => []TodoCount
BY Invariance, PTL DEF IInv

\* No check is executed by two threads or left in the queue once taken.
THEOREM TakenOnce == Spec => []OneTaker
BY Invariance, PTL DEF IInv

\* Wait returns true exactly when every check of the session succeeds, however
\* many workers there are and however they interleave.
THEOREM WaitIsSound == Spec => []WaitSound
<1>1. IInv => WaitSound
  BY DEF IInv, WaitSound, BatchInv, ResultInv, Outside
<1> QED
  BY <1>1, Invariance, PTL

-----------------------------------------------------------------------------
(* The wake-up of the master: the part of WaitReturns that is a safety     *)
(* property.                                                               *)

\* Between two steps exactly a thread that is about to sleep holds the mutex.
MutexInv == \A t \in Threads : pc[t] = "block" <=> mutex = t

\* While the master sleeps nothing is queued, and some check is not completed.
WakeInv == pc[Master] \in {"block", "wait"} => queue = {} /\ Pending # {}

\* A master that sleeps is not forgotten: a worker has a batch, and will have the mutex
\* after it; the one that completes the last check wakes the master.
NoLostWakeup == pc[Master] \in {"block", "wait"} => \E w \in Workers : pc[w] = "work"

\* The steps of the control object and of the destructor, with which the master is awake.
LEMMA MasterWake ==
    ASSUME IInv, MutexInv,
           \/ Control \/ StartWait \/ Notify \/ RequestStop \/ NotifyStop \/ Join
           \/ \E S \in SUBSET (Checks \ added) : Add(S)
    PROVE  MutexInv' /\ WakeInv'
<1>0. pc \in [Threads -> PcValues] /\ Master \in Threads /\ Master \notin Workers
  BY ThreadAssumption DEF IInv, TypeOK, Threads
<1>1. mutex' = mutex
  BY DEF Control, StartWait, Notify, RequestStop, NotifyStop, Join, Add
<1>2. pc[Master] # "block" /\ pc'[Master] \notin {"block", "wait"}
  BY <1>0 DEF Control, StartWait, Notify, RequestStop, NotifyStop, Join, Add
<1>3. ASSUME NEW t \in Threads \ {Master} PROVE pc'[t] = "block" <=> pc[t] = "block"
  <2>1. CASE Control \/ StartWait \/ RequestStop \/ Join \/ \E S \in SUBSET (Checks \ added) : Add(S)
    BY <1>0, <2>1 DEF Control, StartWait, RequestStop, Join, Add
  <2>2. CASE Notify
    BY <2>2 DEF Notify, WaitingWorkers
  <2>3. CASE NotifyStop
    BY <2>3 DEF NotifyStop
  <2> QED
    BY <2>1, <2>2, <2>3
<1>4. MutexInv'
  BY <1>1, <1>2, <1>3 DEF MutexInv
<1> QED
  BY <1>2, <1>4 DEF WakeInv

\* Going to sleep, and waking up.
LEMMA SleepWake ==
    ASSUME IInv, MutexInv, WakeInv, NEW t \in Threads, EnterWait(t) \/ SpuriousWakeup(t)
    PROVE  MutexInv' /\ WakeInv'
<1>0. pc \in [Threads -> PcValues] /\ Master \in Threads /\ NoThread \notin Threads
  BY ThreadAssumption DEF IInv, TypeOK, Threads
<1>1. Pending' = Pending /\ queue' = queue
  BY DEF EnterWait, SpuriousWakeup, Pending
<1>2. MutexInv'
  BY <1>0 DEF EnterWait, SpuriousWakeup, MutexInv
<1>3. pc'[Master] \in {"block", "wait"} => pc[Master] \in {"block", "wait"}
  BY <1>0 DEF EnterWait, SpuriousWakeup
<1> QED
  BY <1>1, <1>2, <1>3 DEF WakeInv

\* A thread that has the mutex: the last check of a session wakes the master, and the master
\* sleeps only if there is another one.
LEMMA LoopWake ==
    ASSUME IInv, MutexInv, WakeInv, NEW t \in Threads, Loop(t)
    PROVE  MutexInv' /\ WakeInv'
<1>0. /\ TypeOK /\ PlaceInv /\ BatchInv /\ AtMutex(t) /\ mutex = NoThread
      /\ NoThread \notin Threads /\ Master \in Threads /\ \A u \in Threads : pc[u] # "block"
  BY ThreadAssumption DEF IInv, Threads, Loop, Return, Block, Take, Exit, AtMutex, MutexInv
<1>1. Pending' = Pending \ batch[t]
  BY SettledPending
<1>2. TodoAfter(t) # 0 => Pending' # {}
  <2>1. TodoAfter(t) = Cardinality(Pending')
    BY <1>0, <1>1, Settle
  <2>2. Cardinality({}) = 0
    BY FS_EmptySet
  <2> QED
    BY <2>1, <2>2
<1>3. ASSUME NEW x \in PcValues, pc' = [PcAfter(t) EXCEPT ![t] = x]
      PROVE  /\ pc'[t] = x
             /\ \A u \in Threads \ {t} : pc'[u] # "block" /\ (pc'[u] = "wait" => pc[u] = "wait")
             /\ t # Master /\ pc'[Master] = "wait" => TodoAfter(t) # 0 \/ pc[t] # "work"
  <2>1. /\ pc'[t] = x
        /\ \A u \in Threads \ {t} : \/ pc'[u] = pc[u]
                                    \/ u = Master /\ pc[u] = "wait" /\ pc'[u] = "woken"
    BY <1>3, SettledPc
  <2>2. ASSUME t # Master, pc[t] = "work", TodoAfter(t) = 0 PROVE pc'[Master] # "wait"
    BY <1>0, <1>3, <2>2 DEF PcAfter, TypeOK
  <2> QED
    BY <1>0, <2>1, <2>2
<1>4. CASE Return(t)
  <2>1. t = Master /\ pc' = [pc EXCEPT ![t] = "idle"] /\ mutex' = mutex
    BY <1>4 DEF Return
  <2> QED
    BY <1>0, <2>1 DEF MutexInv, WakeInv, TypeOK
<1>5. CASE Block(t)
  <2>1. pc' = [PcAfter(t) EXCEPT ![t] = "block"] /\ mutex' = t /\ queue' = {} /\ queue = {}
        /\ (t = Master => TodoAfter(t) # 0)
    BY <1>5 DEF Block
  <2>2. MutexInv'
    BY <1>3, <2>1 DEF MutexInv, PcValues
  <2>3. ASSUME pc'[Master] \in {"block", "wait"} PROVE Pending' # {}
    <3>1. CASE t = Master \/ TodoAfter(t) # 0
      BY <1>2, <2>1, <3>1
    <3>2. CASE t # Master /\ TodoAfter(t) = 0
      <4>1. pc[Master] = "wait" /\ pc[t] # "work"
        BY <1>0, <1>3, <2>1, <2>3, <3>2 DEF PcValues
      <4>2. batch[t] = {} /\ Pending # {}
        BY <1>0, <4>1 DEF BatchInv, WakeInv
      <4> QED
        BY <1>1, <4>2
    <3> QED
      BY <3>1, <3>2
  <2> QED
    BY <2>1, <2>2, <2>3 DEF WakeInv
<1>6. CASE Take(t)
  <2>1. pc' = [PcAfter(t) EXCEPT ![t] = "work"] /\ mutex' = mutex /\ queue # {}
    BY <1>6 DEF Take
  <2>2. pc'[t] = "work" /\ \A u \in Threads \ {t} : pc'[u] # "block" /\ (pc'[u] = "wait" => pc[u] = "wait")
    BY <1>3, <2>1 DEF PcValues
  <2> QED
    BY <1>0, <2>1, <2>2 DEF MutexInv, WakeInv
<1>7. CASE Exit(t)
  <2>1. pc' = [PcAfter(t) EXCEPT ![t] = "done"] /\ mutex' = mutex /\ m_request_stop
    BY <1>7 DEF Exit
  <2>2. pc'[t] = "done" /\ \A u \in Threads \ {t} : pc'[u] # "block" /\ (pc'[u] = "wait" => pc[u] = "wait")
    BY <1>3, <2>1 DEF PcValues
  <2>3. pc[Master] # "wait"
    BY <1>0, <2>1 DEF PlaceInv, Outside
  <2> QED
    BY <1>0, <2>1, <2>2, <2>3 DEF MutexInv, WakeInv
<1> QED
  BY <1>4, <1>5, <1>6, <1>7 DEF Loop

\* Both hold always.
LEMMA WakeInvariant == Spec => [](MutexInv /\ WakeInv)
<1>1. Init => MutexInv /\ WakeInv
  BY ThreadAssumption, SMT DEF Init, MutexInv, WakeInv, Threads
<1>2. IInv /\ MutexInv /\ WakeInv /\ [Next]_vars => MutexInv' /\ WakeInv'
  <2> SUFFICES ASSUME IInv, MutexInv, WakeInv, [Next]_vars PROVE MutexInv' /\ WakeInv'
    OBVIOUS
  <2>1. CASE \/ Control \/ StartWait \/ Notify \/ RequestStop \/ NotifyStop \/ Join
             \/ \E S \in SUBSET (Checks \ added) \ {{}} : Add(S)
    BY <2>1, MasterWake
  <2>2. ASSUME NEW t \in Threads, Loop(t) \/ EnterWait(t) \/ SpuriousWakeup(t)
        PROVE  MutexInv' /\ WakeInv'
    BY <2>2, LoopWake, SleepWake
  <2>3. CASE UNCHANGED vars
    BY <2>3 DEF vars, MutexInv, WakeInv, Pending
  <2> QED
    BY <2>1, <2>2, <2>3 DEF Next
<1> QED
  BY <1>1, <1>2, Invariance, PTL DEF Spec

\* Whenever Wait sleeps there is a worker that will get to the point where it wakes it, for any
\* number of workers: the notification of the last worker is not lost between the master's
\* test of nTodo and its sleep, nor overtaken by one that takes more checks.
THEOREM MasterNotForgotten == Spec => []NoLostWakeup
<1>1. IInv /\ WakeInv => NoLostWakeup
  <2> SUFFICES ASSUME IInv, WakeInv, pc[Master] \in {"block", "wait"}
               PROVE  \E w \in Workers : pc[w] = "work"
    BY DEF NoLostWakeup
  <2>1. PICK t \in Threads : batch[t] # {}
    BY DEF WakeInv, Pending
  <2> QED
    BY <2>1 DEF IInv, BatchInv, Threads
<1> QED
  BY <1>1, Invariance, WakeInvariant, PTL

\* A thread that can take the mutex, and there goes on in one way or another, or that has it
\* and goes to sleep.
CanGoOn(t) == AtMutex(t) \/ (pc[t] = "block" /\ mutex = t)

\* As long as the master is in Loop, some thread can go on.
SomeoneGoesOn ==
    pc[Master] \in {"start", "work", "woken", "block", "wait"} => \E t \in Threads : CanGoOn(t)

\* Nobody waits for a mutex that is not released, and not everybody sleeps.
THEOREM WaitIsNotStuck == Spec => []SomeoneGoesOn
<1>1. ASSUME IInv, MutexInv, NoLostWakeup PROVE SomeoneGoesOn
  <2> SUFFICES ASSUME pc[Master] \in {"start", "work", "woken", "block", "wait"}
               PROVE  \E t \in Threads : CanGoOn(t)
    BY DEF SomeoneGoesOn
  <2>0. Master \in Threads /\ Workers \subseteq Threads /\ mutex \in Threads \cup {NoThread}
    BY <1>1 DEF Threads, IInv, TypeOK
  <2>1. CASE mutex \in Threads
    BY <1>1, <2>1 DEF MutexInv, CanGoOn
  <2>2. CASE mutex = NoThread
    <3>1. CASE pc[Master] \in {"start", "work", "woken"}
      BY <2>0, <2>2, <3>1 DEF CanGoOn, AtMutex
    <3>2. CASE pc[Master] \in {"block", "wait"}
      <4>1. PICK w \in Workers : pc[w] = "work"
        BY <1>1, <3>2 DEF NoLostWakeup
      <4> QED
        BY <2>0, <2>2, <4>1 DEF CanGoOn, AtMutex
    <3> QED
      BY <3>1, <3>2
  <2> QED
    BY <2>0, <2>1, <2>2
<1> QED
  BY <1>1, Invariance, WakeInvariant, MasterNotForgotten, PTL

-----------------------------------------------------------------------------
(* The other half of WaitReturns: what there is to do in a session is      *)
(* finite.                                                                 *)

Up == {t \in Threads : pc[t] \in {"block", "start", "woken", "work"}}
Ready == {t \in Threads : pc[t] \in {"start", "woken", "work"}}
AtWork == {t \in Threads : pc[t] = "work"}

\* What is left to do: three for every check in the queue, one for a thread about to sleep, two
\* for one that comes for the mutex, four for one with a batch, which may wake the master.
Work == 3 * Cardinality(queue) + Cardinality(Up) + Cardinality(Ready) + 2 * Cardinality(AtWork)

WorkBounded == Work \in Nat /\ Work <= 3 * Cardinality(Checks) + 4 * Cardinality(Threads)

\* Every pass of a thread through Loop, and every step into the condition variable, lowers it.
WorkDone == (\E t \in Threads : Loop(t) \/ EnterWait(t)) => Work' < Work

\* The sizes of a finite set without one element and with it.
LEMMA OneLessOneMore ==
    ASSUME NEW S, IsFiniteSet(S), NEW x
    PROVE  /\ Cardinality(S) \in Nat
           /\ Cardinality(S \ {x}) \in Nat /\ Cardinality(S \ {x}) <= Cardinality(S)
           /\ Cardinality(S \cup {x}) \in Nat /\ Cardinality(S \cup {x}) <= Cardinality(S) + 1
           /\ x \in S => Cardinality(S \ {x}) = Cardinality(S) - 1
           /\ x \notin S => Cardinality(S \cup {x}) = Cardinality(S) + 1
<1>1. IsFiniteSet(S \ {x}) /\ IsFiniteSet(S \cup {x})
  BY FS_RemoveElement, FS_AddElement
<1>2. Cardinality(S) \in Nat /\ Cardinality(S \ {x}) \in Nat /\ Cardinality(S \cup {x}) \in Nat
  BY <1>1, FS_CardinalityType
<1>3. x \in S => Cardinality(S \ {x}) = Cardinality(S) - 1
  BY FS_RemoveElement
<1>4. x \notin S => Cardinality(S \cup {x}) = Cardinality(S) + 1
  BY FS_AddElement
<1>5. (x \notin S => S \ {x} = S) /\ (x \in S => S \cup {x} = S)
  OBVIOUS
<1>6. CASE x \in S
  <2>1. Cardinality(S \ {x}) = Cardinality(S) - 1 /\ Cardinality(S \cup {x}) = Cardinality(S)
    BY <1>3, <1>5, <1>6
  <2>2. Cardinality(S \ {x}) <= Cardinality(S) /\ Cardinality(S \cup {x}) <= Cardinality(S) + 1
    BY <1>2, <2>1, SMT
  <2> QED
    BY <1>2, <1>6, <2>1, <2>2
<1>7. CASE x \notin S
  <2>1. Cardinality(S \ {x}) = Cardinality(S) /\ Cardinality(S \cup {x}) = Cardinality(S) + 1
    BY <1>4, <1>5, <1>7
  <2>2. Cardinality(S \ {x}) <= Cardinality(S) /\ Cardinality(S \cup {x}) <= Cardinality(S) + 1
    BY <1>2, <2>1, SMT
  <2> QED
    BY <1>2, <1>7, <2>1, <2>2
<1> QED
  BY <1>6, <1>7

\* Everything that is counted is finite.
LEMMA WorkType ==
    ASSUME TypeOK
    PROVE  /\ IsFiniteSet(Up) /\ IsFiniteSet(Ready) /\ IsFiniteSet(AtWork) /\ IsFiniteSet(queue)
           /\ Cardinality(queue) \in Nat /\ Cardinality(Up) \in Nat
           /\ Cardinality(Ready) \in Nat /\ Cardinality(AtWork) \in Nat
           /\ WorkBounded
<1>1. IsFiniteSet(Threads) /\ IsFiniteSet(queue) /\ IsFiniteSet(Checks) /\ queue \subseteq Checks
  BY Finite, CheckAssumption DEF TypeOK
<1>2. Up \subseteq Threads /\ Ready \subseteq Threads /\ AtWork \subseteq Threads
  BY DEF Up, Ready, AtWork
<1>3. IsFiniteSet(Up) /\ IsFiniteSet(Ready) /\ IsFiniteSet(AtWork)
  BY <1>1, <1>2, FS_Subset
<1>4. /\ Cardinality(queue) \in Nat /\ Cardinality(Up) \in Nat /\ Cardinality(Ready) \in Nat
      /\ Cardinality(AtWork) \in Nat /\ Cardinality(Checks) \in Nat /\ Cardinality(Threads) \in Nat
  BY <1>1, <1>3, FS_CardinalityType
<1>5. /\ Cardinality(queue) <= Cardinality(Checks) /\ Cardinality(Up) <= Cardinality(Threads)
      /\ Cardinality(Ready) <= Cardinality(Threads) /\ Cardinality(AtWork) <= Cardinality(Threads)
  BY <1>1, <1>2, FS_Subset
<1>6. WorkBounded
  BY <1>4, <1>5, SMT DEF WorkBounded, Work
<1> QED
  BY <1>1, <1>3, <1>4, <1>6

\* A thread that goes to sleep, returns or leaves without waking anyone.
LEMMA WorkLeft ==
    ASSUME TypeOK, NEW t \in Threads, NEW x \in {"block", "wait", "idle", "done"}, queue' = queue,
           pc' = [pc EXCEPT ![t] = x], pc[t] \in {"start", "woken", "work"} \/ (pc[t] = "block" /\ x = "wait")
    PROVE  Work' < Work
<1>0. pc \in [Threads -> PcValues] /\ IsFiniteSet(Up) /\ IsFiniteSet(Ready) /\ IsFiniteSet(AtWork)
      /\ Cardinality(queue) \in Nat
  BY WorkType DEF TypeOK
<1>1. AtWork' = AtWork \ {t} /\ Ready' = Ready \ {t}
  BY <1>0 DEF AtWork, Ready
<1>2. Cardinality(AtWork \ {t}) <= Cardinality(AtWork) /\ Cardinality(AtWork \ {t}) \in Nat
  BY <1>0, OneLessOneMore
<1>3. CASE x = "block"
  <2>1. Up' = Up /\ t \in Ready
    BY <1>0, <1>3 DEF Up, Ready
  <2>2. Cardinality(Ready') = Cardinality(Ready) - 1 /\ Cardinality(Ready) \in Nat
        /\ Cardinality(Up) \in Nat /\ Cardinality(AtWork) \in Nat
    BY <1>0, <1>1, <2>1, OneLessOneMore
  <2> QED
    BY <1>0, <1>1, <1>2, <2>1, <2>2, SMT DEF Work
<1>4. CASE x # "block"
  <2>1. Up' = Up \ {t} /\ t \in Up
    BY <1>0, <1>4 DEF Up
  <2>2. Cardinality(Up') = Cardinality(Up) - 1 /\ Cardinality(Ready) \in Nat
        /\ Cardinality(Up) \in Nat /\ Cardinality(AtWork) \in Nat
    BY <1>0, <2>1, OneLessOneMore
  <2>3. Cardinality(Ready \ {t}) <= Cardinality(Ready) /\ Cardinality(Ready \ {t}) \in Nat
    BY <1>0, OneLessOneMore
  <2> QED
    BY <1>0, <1>1, <1>2, <2>2, <2>3, SMT DEF Work
<1> QED
  BY <1>3, <1>4

\* A worker that completes the last check goes to sleep and wakes the master.
LEMMA WorkHandedOn ==
    ASSUME TypeOK, NEW t \in Workers, queue' = queue, pc[t] = "work", pc[Master] = "wait",
           pc' = [[pc EXCEPT ![Master] = "woken"] EXCEPT ![t] = "block"]
    PROVE  Work' < Work
<1>0. pc \in [Threads -> PcValues] /\ IsFiniteSet(Up) /\ IsFiniteSet(Ready) /\ IsFiniteSet(AtWork)
      /\ Cardinality(queue) \in Nat /\ t # Master /\ t \in Threads /\ Master \in Threads
  BY WorkType, ThreadAssumption DEF TypeOK, Threads
<1>1. AtWork' = AtWork \ {t} /\ t \in AtWork /\ Up' = Up \cup {Master} /\ Master \notin Up
      /\ Ready' = (Ready \ {t}) \cup {Master} /\ t \in Ready /\ Master \notin Ready \ {t}
  BY <1>0 DEF AtWork, Ready, Up
<1>2. IsFiniteSet(Ready \ {t}) /\ Cardinality(Ready \ {t}) = Cardinality(Ready) - 1
  BY <1>0, <1>1, FS_RemoveElement
<1>3. Cardinality(Ready') = Cardinality(Ready \ {t}) + 1
  BY <1>1, <1>2, OneLessOneMore
<1>4. /\ Cardinality(Up') = Cardinality(Up) + 1 /\ Cardinality(AtWork') = Cardinality(AtWork) - 1
      /\ Cardinality(Up) \in Nat /\ Cardinality(Ready) \in Nat /\ Cardinality(AtWork) \in Nat
  BY <1>0, <1>1, OneLessOneMore
<1> QED
  BY <1>0, <1>2, <1>3, <1>4, SMT DEF Work

\* A thread that takes a batch; the master is not woken, for something is left.
LEMMA WorkTaken ==
    ASSUME IInv, NEW t \in Threads, Take(t)
    PROVE  Work' < Work
<1>0. /\ pc \in [Threads -> PcValues] /\ AtMutex(t) /\ TypeOK /\ queue # {} /\ queue \subseteq Checks
      /\ IsFiniteSet(Up) /\ IsFiniteSet(Ready) /\ IsFiniteSet(AtWork) /\ IsFiniteSet(queue)
  BY WorkType DEF IInv, TypeOK, Take
<1>1. TodoAfter(t) # 0
  <2>1. queue \subseteq Pending \ batch[t]
    BY <1>0 DEF Pending, IInv, OneTaker
  <2>2. IsFiniteSet(Pending \ batch[t]) /\ Pending \ batch[t] # {}
    BY <1>0, <2>1, Finite, FS_Difference
  <2> QED
    BY <1>0, <2>2, Settle, FS_EmptySet
<1>2. pc' = [pc EXCEPT ![t] = "work"]
  BY <1>1 DEF Take, PcAfter
<1>3. Up' = Up /\ Ready' = Ready /\ AtWork' = AtWork \cup {t}
  BY <1>0, <1>2 DEF Up, Ready, AtWork, AtMutex
<1>4. Cardinality(AtWork') <= Cardinality(AtWork) + 1 /\ Cardinality(AtWork') \in Nat
      /\ Cardinality(AtWork) \in Nat /\ Cardinality(Up) \in Nat /\ Cardinality(Ready) \in Nat
  BY <1>0, <1>3, OneLessOneMore
<1>5. PICK S \in kSubset(BatchCount(t), queue) : queue' = queue \ S
  BY DEF Take
<1>6. S \subseteq queue /\ Cardinality(S) = BatchCount(t)
  BY DEF kSubset
<1>7. BatchCount(t) >= 1
  BY SMT DEF BatchCount
<1>8. Cardinality(queue \ S) = Cardinality(queue) - Cardinality(S) /\ Cardinality(S) \in Nat
      /\ Cardinality(queue) \in Nat
  BY <1>0, <1>6, CardMinus, FS_CardinalityType
<1> QED
  BY <1>3, <1>4, <1>5, <1>6, <1>7, <1>8, SMT DEF Work

\* The safety half of WaitReturns: a session ends, for any number of workers, checks and any
\* batch size.  While the master is in Loop nothing is added and nobody notified, so that only
\* the passes counted here, and wake-ups without a cause, are left: there are at most three
\* for each check and four for each thread, and two more for each such wake-up.
THEOREM SessionsEnd == Spec => []WorkBounded /\ [][WorkDone]_vars
<1>1. ASSUME IInv, [Next]_vars PROVE WorkDone
  <2> SUFFICES ASSUME NEW t \in Threads, Loop(t) \/ EnterWait(t) PROVE Work' < Work
    BY DEF WorkDone
  <2>0. TypeOK /\ PlaceInv
    BY <1>1 DEF IInv
  <2>1. CASE EnterWait(t)
    BY <2>0, <2>1, WorkLeft DEF EnterWait
  <2>2. CASE Return(t)
    BY <2>0, <2>2, WorkLeft DEF Return, AtMutex
  <2>3. CASE Take(t)
    BY <1>1, <2>3, WorkTaken
  <2>4. CASE Exit(t)
    <3>1. pc' = [pc EXCEPT ![t] = "done"] /\ queue' = queue /\ AtMutex(t)
      BY <2>0, <2>4 DEF Exit, PcAfter, PlaceInv, Outside
    <3> QED
      BY <2>0, <3>1, WorkLeft DEF AtMutex
  <2>5. CASE Block(t)
    <3>1. queue' = queue /\ AtMutex(t) /\ pc' = [PcAfter(t) EXCEPT ![t] = "block"]
      BY <2>5 DEF Block
    <3>2. CASE PcAfter(t) = pc
      BY <2>0, <3>1, <3>2, WorkLeft DEF AtMutex
    <3>3. CASE PcAfter(t) # pc
      <4>1. /\ PcAfter(t) = [pc EXCEPT ![Master] = "woken"] /\ t \in Workers
            /\ pc[t] = "work" /\ pc[Master] = "wait"
        BY <3>3 DEF PcAfter, Threads
      <4> QED
        BY <2>0, <3>1, <4>1, WorkHandedOn
    <3> QED
      BY <3>2, <3>3
  <2> QED
    BY <2>1, <2>2, <2>3, <2>4, <2>5 DEF Loop
<1>2. IInv => WorkBounded
  BY WorkType DEF IInv
<1> QED
  BY <1>1, <1>2, Invariance, PTL DEF Spec
=============================================================================
