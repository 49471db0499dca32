------------------------------ MODULE EventLoop ------------------------------
(***************************************************************************)
(* handy::EventBase as its callers see it: any thread may call safeCall,   *)
(* exit and wakeup while one thread is inside loop().                      *)
(*                                                                         *)
(* safeCall pushes the task on a locked list and then writes a byte to a   *)
(* pipe; exit sets an atomic flag and then writes a byte.  The two halves  *)
(* of each call interleave with the loop: test exit_, epoll_wait, dispatch *)
(* the ready channels, among them the pipe's, whose handler reads up to    *)
(* ReadChunk bytes and then empties the list.  After the flag is seen,     *)
(* loop() makes one last pass without waiting.                             *)
(***************************************************************************)
EXTENDS Naturals, Sequences, Functions

CONSTANTS Callers,       \* threads other than the loop's
          LoopThread,    \* the thread inside loop(); tasks and handlers run on it
          Tasks,         \* closures; each is handed over at most once
          TaskCapacity,  \* EventBase's taskCapacity, 0 for no limit
          PipeCapacity,  \* bytes the kernel buffers in the wake-up pipe
          ReadChunk,     \* sizeof buf in the pipe's handler
          MaxCalls       \* bound on the calls of safeCall, exit and wakeup

Threads == Callers \cup {LoopThread}

ASSUME LoopAssumption ==
    /\ LoopThread \notin Callers
    /\ TaskCapacity \in Nat
    /\ PipeCapacity \in Nat \ {0}
    /\ ReadChunk \in Nat \ {0}
    /\ MaxCalls \in Nat

VARIABLES tasks,      \* tasks_, the SafeQueue<Task>
          exit,       \* exit_
          pipe,       \* bytes written to wakeupFds_[1] and not yet read
          at,         \* where the loop thread is
          final,      \* whether it is in the pass after the while loop
          woken,      \* epoll_wait reported the pipe, its handler is still to run
          writing,    \* threads inside wakeup(), before the write
          carrying,   \* the task such a thread has just pushed, if it was accepted
          calls,      \* calls made so far
          posted,     \* history: tasks handed to safeCall
          ran,        \* history: tasks started, in order
          returned,   \* history: accepted tasks whose safeCall has returned
          owed        \* history: returned, when exit_ was first set

callVars == <<writing, carrying, calls, posted, returned, owed>>
vars == <<tasks, exit, pipe, at, final, woken, callVars, ran>>

Queued == Range(tasks)
Ran == Range(ran)

TypeOK ==
    /\ tasks \in Seq(Tasks) /\ ran \in Seq(Tasks)
    /\ exit \in BOOLEAN /\ final \in BOOLEAN /\ woken \in BOOLEAN
    /\ pipe \in 0 .. PipeCapacity
    /\ at \in {"test", "poll", "dispatch", "drain", "task", "done"}
    /\ writing \subseteq Threads
    /\ carrying \in [Threads -> SUBSET Tasks]
    /\ calls \in 0 .. MaxCalls
    /\ posted \subseteq Tasks /\ returned \subseteq Tasks /\ owed \subseteq Tasks

Init ==
    /\ tasks = <<>> /\ ran = <<>>
    /\ exit = FALSE /\ pipe = 0
    /\ at = "test" /\ final = FALSE /\ woken = FALSE
    /\ writing = {} /\ carrying = [c \in Threads |-> {}] /\ calls = 0
    /\ posted = {} /\ returned = {} /\ owed = {}

----------------------------------------------------------------------------
(* Mistakes this code could have made; none is part of the specification.  *)

\* exit() that forgets to wake the loop.
SetExitSilently(c) ==
    /\ c \notin writing /\ calls < MaxCalls /\ exit' = TRUE
    /\ owed' = IF exit THEN owed ELSE returned
    /\ calls' = calls + 1
    /\ UNCHANGED <<tasks, pipe, at, final, woken, writing, carrying, posted, ran,
                   returned>>

\* loop() without the pass after the while loop.
TestExitNoLastPass ==
    /\ at = "test"
    /\ at' = IF exit THEN "done" ELSE "poll"
    /\ UNCHANGED <<tasks, exit, pipe, final, woken, callVars, ran>>

\* pop_wait from the wrong end.
RunTaskLast ==
    /\ at = "drain" /\ tasks # <<>>
    /\ tasks' = SubSeq(tasks, 1, Len(tasks) - 1)
    /\ ran' = Append(ran, tasks[Len(tasks)])
    /\ at' = "task"
    /\ UNCHANGED <<exit, pipe, final, woken, callVars>>

\* if (pop_wait) instead of while (pop_wait).
TaskReturnsOnce ==
    /\ at = "task"
    /\ at' = "dispatch"
    /\ UNCHANGED <<tasks, exit, pipe, final, woken, callVars, ran>>

----------------------------------------------------------------------------
(* The callers.  The loop thread calls from a task or from the handler of  *)
(* another channel or timer; it is then inside a pass of the loop.         *)

MayCall(c) == /\ c \notin writing
              /\ calls < MaxCalls
              /\ c = LoopThread => at \in {"dispatch", "task"}

\* SafeQueue::push.  The queue itself is never told to exit by EventBase.
Full == TaskCapacity > 0 /\ Len(tasks) >= TaskCapacity

\* The first half of safeCall: push, whose result is ignored.
Push(c, t) ==
    /\ MayCall(c) /\ t \in Tasks \ posted
    /\ tasks' = IF Full THEN tasks ELSE Append(tasks, t)
    /\ carrying' = [carrying EXCEPT ![c] = IF Full THEN {} ELSE {t}]
    /\ posted' = posted \cup {t}
    /\ writing' = writing \cup {c} /\ calls' = calls + 1
    /\ UNCHANGED <<exit, pipe, at, final, woken, ran, returned, owed>>

\* The first half of exit.
SetExit(c) ==
    /\ MayCall(c)
    /\ exit' = TRUE
    /\ owed' = IF exit THEN owed ELSE returned
    /\ writing' = writing \cup {c} /\ calls' = calls + 1
    /\ UNCHANGED <<tasks, pipe, at, final, woken, carrying, posted, ran, returned>>

\* EventBase::wakeup called for itself.
CallWakeup(c) ==
    /\ MayCall(c)
    /\ writing' = writing \cup {c} /\ calls' = calls + 1
    /\ UNCHANGED <<tasks, exit, pipe, at, final, woken, carrying, posted, ran,
                   returned, owed>>

\* EventsImp::wakeup: the write end blocks while the pipe is full.
Wakeup(c) ==
    /\ c \in writing /\ pipe < PipeCapacity
    /\ pipe' = pipe + 1
    /\ writing' = writing \ {c}
    /\ returned' = returned \cup carrying[c]
    /\ carrying' = [carrying EXCEPT ![c] = {}]
    /\ UNCHANGED <<tasks, exit, at, final, woken, calls, posted, ran, owed>>

----------------------------------------------------------------------------
(* The loop thread, which does nothing else while it is inside a wakeup(). *)

\* while (!exit_): another pass, or the last one.
TestExit ==
    /\ at = "test"
    /\ at' = "poll" /\ final' = exit
    /\ UNCHANGED <<tasks, exit, pipe, woken, callVars, ran>>

\* epoll_wait returns: the pipe is reported iff it is readable.  With nothing
\* to read, the wait ends on another channel or on the timeout.
Poll ==
    /\ at = "poll"
    /\ at' = "dispatch" /\ woken' = (pipe > 0)
    /\ UNCHANGED <<tasks, exit, pipe, final, callVars, ran>>

\* The pipe's handler: one read, before the list is looked at.
ReadPipe ==
    /\ at = "dispatch" /\ woken
    /\ pipe' = IF pipe > ReadChunk THEN pipe - ReadChunk ELSE 0
    /\ at' = "drain" /\ woken' = FALSE
    /\ UNCHANGED <<tasks, exit, final, callVars, ran>>

\* pop_wait(&task, 0) finds a task, which is called.
RunTask ==
    /\ at = "drain" /\ tasks # <<>>
    /\ tasks' = Tail(tasks) /\ ran' = Append(ran, Head(tasks))
    /\ at' = "task"
    /\ UNCHANGED <<exit, pipe, final, woken, callVars>>

TaskReturns ==
    /\ at = "task"
    /\ at' = "drain"
    /\ UNCHANGED <<tasks, exit, pipe, final, woken, callVars, ran>>

\* pop_wait finds nothing.
Drained ==
    /\ at = "drain" /\ tasks = <<>>
    /\ at' = "dispatch"
    /\ UNCHANGED <<tasks, exit, pipe, final, woken, callVars, ran>>

\* Every reported channel has been handled and the timers have run.
EndPass ==
    /\ at = "dispatch" /\ ~woken
    /\ at' = IF final THEN "done" ELSE "test"
    /\ UNCHANGED <<tasks, exit, pipe, final, woken, callVars, ran>>

LoopStep ==
    /\ LoopThread \notin writing
    /\ \/ TestExit \/ Poll \/ ReadPipe \/ RunTask \/ TaskReturns \/ Drained \/ EndPass

Next ==
    \/ \E c \in Threads : \/ \E t \in Tasks : Push(c, t)
                          \/ SetExit(c)
                          \/ CallWakeup(c)
                          \/ Wakeup(c)
    \/ LoopStep

\* The loop thread is scheduled and its handlers return; a wait in epoll_wait
\* is only relied on to end when the pipe is readable or the timeout is 0, so
\* that nothing below is owed to the ten second timeout.
Fairness ==
    /\ WF_vars(LoopStep /\ (at = "poll" => pipe > 0 \/ final))
    /\ \A c \in Threads : WF_vars(Wakeup(c))

SafeSpec == Init /\ [][Next]_vars
Spec == SafeSpec /\ Fairness

----------------------------------------------------------------------------
(* Properties.                                                             *)

\* No lost wake-up: a task in tasks_ is never left behind by a loop that could
\* sleep on it.  Either a byte is in the pipe, or the pipe's handler is still
\* emptying the list, or the thread that pushed is about to write its byte.
\* It fails if the handler empties the list before it reads the pipe, or if
\* safeCall writes before it pushes.
NoLostWakeup ==
    \A t \in Queued : \/ pipe > 0
                      \/ at \in {"drain", "task"}
                      \/ \E c \in writing : t \in carrying[c]

\* A task whose safeCall returned before anybody called exit() has been run by
\* the time loop() returns: the pass after the while loop is there for it.
OwedTasksRun == at = "done" => owed \subseteq Ran

\* The list, the pipe and the loop implement the ordered executor: each
\* accepted task starts once and in order of acceptance, and, until exit(),
\* every one of them does start.
ExecutorImpl == INSTANCE Executor
    WITH accepted <- ran \o tasks, started <- Len(ran), stopped <- exit
ImplementsExecutor == ExecutorImpl!Spec

\* exit() from any thread, at any point of a pass, makes loop() return without
\* the help of the timeout, provided that no handler blocks.
ExitReturns == exit ~> (at = "done")
=============================================================================
