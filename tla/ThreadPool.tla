----------------------------- MODULE ThreadPool -----------------------------
(***************************************************************************)
(* handy's ThreadPool and the SafeQueue between its callers and workers:   *)
(* a locked list, a condition variable and an exit flag.  exit_ is atomic  *)
(* and is written without the lock; all else is done under it.             *)
(*                                                                         *)
(* A section under the lock is one step, except the one in which a worker  *)
(* finds exit_ unset and goes to sleep: exit_ may be set in between, and   *)
(* the lock is what keeps the notification from coming too early.          *)
(***************************************************************************)
EXTENDS Naturals, Sequences, FiniteSets

CONSTANTS N,             \* number of threads
          Clients,       \* threads that are not of the pool
          Tasks,         \* the closures handed over; each one at most once
          Capacity       \* capacity_, 0 if there is none

Workers == 1 .. N

ASSUME PoolAssumption ==
    N \in Nat \ {0} /\ Capacity \in Nat /\ Clients \cap Workers = {}

VARIABLES items,         \* items_
          exit,          \* exit_
          at,            \* the place of each worker in the loop of start()
          lock,          \* the worker that sleeps next and still holds the lock
          exiting,       \* threads inside exit() that have set the flag
          joined,        \* threads joined by join()
          posted,        \* history: tasks handed over
          ran,           \* history: tasks started, in order
          late           \* history: tasks each worker took after exit_ was set

vars == <<items, exit, at, lock, exiting, joined, posted, ran, late>>

Threads == Clients \cup Workers
NoOne == 0

TypeOK ==
    /\ items \in Seq(Tasks) /\ (Capacity > 0 => Len(items) <= Capacity)
    /\ exit \in BOOLEAN
    /\ at \in [Workers -> {"test", "pop", "empty", "asleep", "woken", "task", "done"}]
    /\ lock \in Workers \cup {NoOne}
    /\ exiting \subseteq Threads
    /\ joined \in 0 .. N
    /\ posted \subseteq Tasks /\ ran \in Seq(Tasks)
    /\ late \in [Workers -> Nat]

\* The threads exist; one that has not been scheduled, or started by start(), is at
\* its first test.
Init ==
    /\ items = <<>> /\ exit = FALSE
    /\ at = [w \in Workers |-> "test"]
    /\ lock = NoOne /\ exiting = {} /\ joined = 0
    /\ posted = {} /\ ran = <<>> /\ late = [w \in Workers |-> 0]

Asleep == {w \in Workers : at[w] = "asleep"}

----------------------------------------------------------------------------
(* The callers: clients, and workers from inside a task.                   *)

MayCall(c) == c \notin exiting /\ (c \in Workers => at[c] = "task")

\* notify_one wakes any one sleeper, if there is one.
notify_one ==
    \/ Asleep = {} /\ UNCHANGED at
    \/ \E w \in Asleep : at' = [at EXCEPT ![w] = "woken"]

notify_all == at' = [w \in Workers |-> IF w \in Asleep THEN "woken" ELSE at[w]]

Full == Capacity > 0 /\ Len(items) >= Capacity

\* A mistake push could have made: only a task that finds the list empty is
\* announced.
addTaskFirst(c, t) ==
    /\ MayCall(c) /\ lock = NoOne /\ t \in Tasks \ posted
    /\ posted' = posted \cup {t}
    /\ \/ (exit \/ Full) /\ UNCHANGED <<items, at>>
       \/ /\ ~ (exit \/ Full) /\ items' = Append(items, t)
          /\ IF items = <<>> THEN notify_one ELSE UNCHANGED at
    /\ UNCHANGED <<exit, lock, exiting, joined, ran, late>>

\* addTask: SafeQueue::push, which refuses a task after exit() or at the limit.
addTask(c, t) ==
    /\ MayCall(c) /\ lock = NoOne /\ t \in Tasks \ posted
    /\ posted' = posted \cup {t}
    /\ \/ (exit \/ Full) /\ UNCHANGED <<items, at>>
       \/ ~ (exit \/ Full) /\ items' = Append(items, t) /\ notify_one
    /\ UNCHANGED <<exit, lock, exiting, joined, ran, late>>

\* exit(): the flag, without the lock,
SetExit(c) ==
    /\ MayCall(c)
    /\ exit' = TRUE /\ exiting' = exiting \cup {c}
    /\ UNCHANGED <<items, at, lock, joined, posted, ran, late>>

\* and the notification of all that sleep, with it.
ExitNotify(c) ==
    /\ c \in exiting /\ lock = NoOne
    /\ notify_all
    /\ exiting' = exiting \ {c}
    /\ UNCHANGED <<items, exit, lock, joined, posted, ran, late>>

----------------------------------------------------------------------------
(* The workers.                                                            *)

\* A mistake: the loop goes on while there are tasks.
TestItems(w) ==
    /\ at[w] = "test"
    /\ at' = [at EXCEPT ![w] = IF exit /\ items = <<>> THEN "done" ELSE "pop"]
    /\ UNCHANGED <<items, exit, lock, exiting, joined, posted, ran, late>>

\* while (!tasks_.exited())
Test(w) ==
    /\ at[w] = "test"
    /\ at' = [at EXCEPT ![w] = IF exit THEN "done" ELSE "pop"]
    /\ UNCHANGED <<items, exit, lock, exiting, joined, posted, ran, late>>

\* A mistake: the last task is taken.
PopLast(w) ==
    /\ at[w] \in {"pop", "woken"} /\ lock = NoOne /\ items # <<>>
    /\ items' = SubSeq(items, 1, Len(items) - 1) /\ ran' = Append(ran, items[Len(items)])
    /\ late' = IF exit THEN [late EXCEPT ![w] = @ + 1] ELSE late
    /\ at' = [at EXCEPT ![w] = "task"]
    /\ UNCHANGED <<exit, lock, exiting, joined, posted>>

\* pop_wait finds a task, before or after a wait, and takes it.
Pop(w) ==
    /\ at[w] \in {"pop", "woken"} /\ lock = NoOne /\ items # <<>>
    /\ items' = Tail(items) /\ ran' = Append(ran, Head(items))
    /\ late' = IF exit THEN [late EXCEPT ![w] = @ + 1] ELSE late
    /\ at' = [at EXCEPT ![w] = "task"]
    /\ UNCHANGED <<exit, lock, exiting, joined, posted>>

\* A mistake: pop_wait tries again when exit_ is set.
NothingSpins(w) ==
    /\ at[w] \in {"pop", "woken"} /\ lock = NoOne /\ items = <<>>
    /\ at' = [at EXCEPT ![w] = IF exit THEN "pop" ELSE "empty"]
    /\ lock' = IF exit THEN NoOne ELSE w
    /\ UNCHANGED <<items, exit, exiting, joined, posted, ran, late>>

\* pop_wait finds nothing, and returns false if exit_ is set or waits if it is not.
Nothing(w) ==
    /\ at[w] \in {"pop", "woken"} /\ lock = NoOne /\ items = <<>>
    /\ at' = [at EXCEPT ![w] = IF exit THEN "test" ELSE "empty"]
    /\ lock' = IF exit THEN NoOne ELSE w
    /\ UNCHANGED <<items, exit, exiting, joined, posted, ran, late>>

\* ready_.wait gives up the lock and sleeps at once.
Sleep(w) ==
    /\ at[w] = "empty"
    /\ at' = [at EXCEPT ![w] = "asleep"] /\ lock' = NoOne
    /\ UNCHANGED <<items, exit, exiting, joined, posted, ran, late>>

\* A wait may end without a notification.
WakesUp(w) ==
    /\ at[w] = "asleep"
    /\ at' = [at EXCEPT ![w] = "woken"]
    /\ UNCHANGED <<items, exit, lock, exiting, joined, posted, ran, late>>

TaskReturns(w) ==
    /\ at[w] = "task" /\ w \notin exiting
    /\ at' = [at EXCEPT ![w] = "test"]
    /\ UNCHANGED <<items, exit, lock, exiting, joined, posted, ran, late>>

Work(w) == Test(w) \/ Pop(w) \/ Nothing(w) \/ Sleep(w) \/ TaskReturns(w)

\* join() waits for one thread after the other.
Join ==
    /\ joined < N /\ at[joined + 1] = "done"
    /\ joined' = joined + 1
    /\ UNCHANGED <<items, exit, at, lock, exiting, posted, ran, late>>

Next ==
    \/ \E c \in Threads : (\E t \in Tasks : addTask(c, t)) \/ SetExit(c) \/ ExitNotify(c)
    \/ \E w \in Workers : Work(w) \/ WakesUp(w)
    \/ Join

\* Threads are scheduled, and a task returns however often it calls exit(); a wait is
\* not relied on to end by itself.
Fairness ==
    /\ \A w \in Workers : WF_vars(Work(w)) /\ SF_vars(TaskReturns(w))
    /\ \A c \in Threads : WF_vars(ExitNotify(c))
    /\ WF_vars(Join)

SafeSpec == Init /\ [][Next]_vars
Spec == SafeSpec /\ Fairness
----------------------------------------------------------------------------
(* Properties.                                                             *)

\* Workers that will look at the list before they sleep.
Coming == {w \in Workers : at[w] \in {"test", "pop", "woken"}}

\* No notification is lost.  While a worker sleeps, each queued task has a worker of
\* its own on the way to it, so that none waits behind a long task; and a worker that
\* sleeps or is about to, with exit_ set, has a notification by exit() ahead.
NoLostNotification ==
    /\ ~ exit /\ Asleep # {} => Len(items) <= Cardinality(Coming)
    /\ exit /\ Asleep # {} => exiting # {}

\* Once exit_ is set no worker starts more than the one task it may have been about
\* to take: the loop of start() tests the flag between any two.
AtMostOneLate == \A w \in Workers : late[w] <= 1

\* The pool, too, implements the ordered executor: each accepted task is started once,
\* in the order of acceptance, and, until exit(), every one is.
ExecutorImpl == INSTANCE Executor
    WITH accepted <- ran \o items, started <- Len(ran), stopped <- exit
ImplementsExecutor == ExecutorImpl!Spec

\* exit(), called by anybody, at any moment, also from inside a task, lets join()
\* return.
ExitJoins == exit ~> (joined = N)
=============================================================================
