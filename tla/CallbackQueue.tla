--------------------------- MODULE CallbackQueue ---------------------------
(***************************************************************************)
(* What SingleThreadedSchedulerClient (src/scheduler.h) promises to those  *)
(* who add callbacks to it: they run one at a time, in the order in which  *)
(* they were added, as if by a single thread.  The threads that run them   *)
(* and the tasks that they are run from do not appear.                     *)
(***************************************************************************)
EXTENDS Sequences

CONSTANT Callbacks

VARIABLES
    queue,    \* callbacks that wait, the oldest first
    running   \* the callback that is being run, if any

vars == <<queue, running>>

Init == queue = <<>> /\ running = {}

Push(c) == queue' = Append(queue, c) /\ UNCHANGED running

Begin ==
    /\ queue # <<>> /\ running = {}
    /\ running' = {Head(queue)} /\ queue' = Tail(queue)

End == running # {} /\ running' = {} /\ UNCHANGED queue

\* The process ends and is started again.
Restart == queue' = <<>> /\ running' = {}

Next == (\E c \in Callbacks : Push(c)) \/ Begin \/ End \/ Restart

Spec == Init /\ [][Next]_vars
=============================================================================
