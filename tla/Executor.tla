------------------------------ MODULE Executor ------------------------------
(***************************************************************************)
(* What a handy::EventBase promises to the threads that hand it tasks with *)
(* safeCall, and a ThreadPool to those that use addTask: every accepted    *)
(* task is started once, in the order of acceptance, and none waits for    *)
(* ever while nobody has called exit().  EventLoop.tla (a locked list, a   *)
(* wake-up pipe and an epoll loop) and ThreadPool.tla (a locked list, a    *)
(* condition variable and workers) are implementations.                    *)
(***************************************************************************)
EXTENDS Naturals, Sequences

CONSTANT Tasks           \* the closures handed over; each one at most once

VARIABLES accepted,      \* the tasks in the order in which they were accepted
          started,       \* how many of them have been started
          stopped        \* whether exit() has been called

vars == <<accepted, started, stopped>>

Init == accepted = <<>> /\ started = 0 /\ stopped = FALSE

Accept(t) == /\ \A i \in 1 .. Len(accepted) : accepted[i] # t
             /\ accepted' = Append(accepted, t)
             /\ UNCHANGED <<started, stopped>>

Start == /\ started < Len(accepted)
         /\ started' = started + 1
         /\ UNCHANGED <<accepted, stopped>>

Stop == /\ stopped' = TRUE
        /\ UNCHANGED <<accepted, started>>

Next == (\E t \in Tasks : Accept(t)) \/ Start \/ Stop

SafeSpec == Init /\ [][Next]_vars

\* A task is owed a start only as long as nobody has asked the loop to stop.
Spec == SafeSpec /\ WF_vars(~stopped /\ Start)
=============================================================================
