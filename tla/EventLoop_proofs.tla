-------------------------- MODULE EventLoop_proofs --------------------------
(***************************************************************************)
(* The safety properties of EventLoop, for any number of threads and tasks *)
(* and any capacities: no lost wake-up, the tasks owed at exit are run     *)
(* before loop() returns, and the safety part of the implementation of     *)
(* Executor.                                                               *)
(***************************************************************************)
EXTENDS EventLoop, SequenceTheorems, TLAPS

\* Every task that is queued, started, returned or in a caller's hands has
\* been handed over by safeCall, and returned tasks are queued or started.
Accounted ==
    /\ Ran \cup Queued \subseteq posted
    /\ \A c \in Threads : carrying[c] \subseteq Ran \cup Queued
    /\ returned \subseteq Ran \cup Queued
    /\ owed \subseteq returned

\* NoLostWakeup for a task whose safeCall has returned: its byte is in the
\* pipe or has been read by the handler that is emptying the list.
ReturnedWakes ==
    \A t \in returned \cap Queued : pipe > 0 \/ at \in {"drain", "task"}

\* In the last pass, once the pipe's handler is not going to run any more, no
\* owed task is in the list.
LastPassDrains ==
    /\ final => exit
    /\ at = "done" => final
    /\ (final /\ at = "dispatch" /\ ~woken) \/ at = "done" => owed \cap Queued = {}

IInv == TypeOK /\ Accounted /\ ReturnedWakes /\ LastPassDrains

----------------------------------------------------------------------------
(* The list as a set.                                                      *)

\* SafeQueue::push adds exactly the pushed task to those in the list.
LEMMA AppendElements ==
    ASSUME NEW S, NEW s \in Seq(S), NEW e \in S
    PROVE  Range(Append(s, e)) = Range(s) \cup {e}
  <1>1. /\ Len(s) \in Nat /\ DOMAIN s = 1 .. Len(s)
        /\ DOMAIN Append(s, e) = 1 .. Len(s) + 1
        /\ Append(s, e)[Len(s) + 1] = e
        /\ \A i \in 1 .. Len(s) : Append(s, e)[i] = s[i]
    OBVIOUS
  <1>2. 1 .. Len(s) + 1 = (1 .. Len(s)) \cup {Len(s) + 1}
    BY <1>1
  <1> QED
    BY <1>1, <1>2 DEF Range

LEMMA EmptyElements == Range(<<>>) = {}
  BY DEF Range

\* pop_wait moves exactly one task out of the list.
LEMMA TailElements ==
    ASSUME NEW S, NEW s \in Seq(S), s # <<>>
    PROVE  /\ Tail(s) \in Seq(S) /\ Head(s) \in S
           /\ Range(s) = Range(Tail(s)) \cup {Head(s)}
  <1>1. /\ Tail(s) \in Seq(S) /\ Head(s) \in S /\ Head(s) = s[1]
        /\ Len(s) \in Nat /\ Len(s) > 0
        /\ DOMAIN s = 1 .. Len(s) /\ DOMAIN Tail(s) = 1 .. Len(s) - 1
        /\ \A i \in 1 .. Len(s) - 1 : Tail(s)[i] = s[i + 1]
    OBVIOUS
  <1>2. \A i \in 1 .. Len(s) : i = 1 \/ i - 1 \in 1 .. Len(s) - 1
    BY <1>1
  <1>3. \A i \in 1 .. Len(s) - 1 : i + 1 \in 1 .. Len(s)
    BY <1>1
  <1>4. Range(s) \subseteq Range(Tail(s)) \cup {Head(s)}
    <2> SUFFICES ASSUME NEW i \in 1 .. Len(s), i # 1
                 PROVE  s[i] \in Range(Tail(s))
      BY <1>1 DEF Range
    <2>1. i - 1 \in DOMAIN Tail(s) /\ s[i] = Tail(s)[i - 1]
      BY <1>1, <1>2
    <2> QED
      BY <2>1 DEF Range
  <1>5. Range(Tail(s)) \cup {Head(s)} \subseteq Range(s)
    <2>1. 1 \in DOMAIN s /\ \A i \in DOMAIN Tail(s) : Tail(s)[i] = s[i + 1] /\ i + 1 \in DOMAIN s
      BY <1>1, <1>3
    <2> QED
      BY <1>1, <2>1 DEF Range
  <1> QED
    BY <1>1, <1>4, <1>5

----------------------------------------------------------------------------
(* Type correctness.                                                       *)

\* Queued and Ran are sets of tasks, and each step changes them as expected.
LEMMA PushQueued ==
    ASSUME TypeOK, NEW c, NEW t, Push(c, t)
    PROVE  /\ ~ Full => Queued' = Queued \cup {t}
           /\ Full => Queued' = Queued
           /\ Ran' = Ran
  <1>1. t \in Tasks /\ tasks \in Seq(Tasks)
    BY DEF Push, TypeOK
  <1>2. Range(Append(tasks, t)) = Queued \cup {t}
    BY <1>1, AppendElements DEF Queued
  <1>3. tasks' = (IF Full THEN tasks ELSE Append(tasks, t)) /\ ran' = ran
    BY DEF Push
  <1>4. Ran' = Ran
    BY <1>3 DEF Ran
  <1>5. Full => Queued' = Queued
    BY <1>3 DEF Queued
  <1>6. ASSUME ~ Full PROVE Queued' = Queued \cup {t}
    <2>1. tasks' = Append(tasks, t)
      BY <1>3, <1>6
    <2> QED
      BY <1>2, <2>1 DEF Queued
  <1> QED
    BY <1>4, <1>5, <1>6

LEMMA RunTaskMoves ==
    ASSUME TypeOK, RunTask
    PROVE  /\ Queued' \subseteq Queued
           /\ Ran' \cup Queued' = Ran \cup Queued
           /\ tasks' \in Seq(Tasks) /\ ran' \in Seq(Tasks)
  <1>1. tasks \in Seq(Tasks) /\ ran \in Seq(Tasks) /\ tasks # <<>>
    BY DEF TypeOK, RunTask
  <1>2. /\ tasks' \in Seq(Tasks) /\ Head(tasks) \in Tasks
        /\ Queued = Queued' \cup {Head(tasks)}
    BY <1>1, TailElements, Zenon DEF RunTask, Queued
  <1>3. Ran' = Ran \cup {Head(tasks)}
    <2>1. Range(Append(ran, Head(tasks))) = Ran \cup {Head(tasks)}
      BY <1>1, <1>2, AppendElements DEF Ran
    <2> QED
      BY <2>1 DEF RunTask, Ran
  <1>4. ran' \in Seq(Tasks)
    BY <1>1, <1>2 DEF RunTask
  <1> QED
    BY <1>2, <1>3, <1>4

LEMMA TypeInductive == TypeOK /\ [Next]_vars => TypeOK'
  <1> SUFFICES ASSUME TypeOK, [Next]_vars PROVE TypeOK'
    OBVIOUS
  <1> USE LoopAssumption
  <1>1. ASSUME NEW c \in Threads, NEW t \in Tasks, Push(c, t) PROVE TypeOK'
    BY <1>1 DEF TypeOK, Push, MayCall
  <1>2. ASSUME NEW c \in Threads, SetExit(c) PROVE TypeOK'
    BY <1>2 DEF TypeOK, SetExit, MayCall
  <1>3. ASSUME NEW c \in Threads, CallWakeup(c) PROVE TypeOK'
    BY <1>3 DEF TypeOK, CallWakeup, MayCall
  <1>4. ASSUME NEW c \in Threads, Wakeup(c) PROVE TypeOK'
    BY <1>4 DEF TypeOK, Wakeup
  <1>5. CASE TestExit
    BY <1>5 DEF TypeOK, TestExit, callVars
  <1>6. CASE Poll
    BY <1>6 DEF TypeOK, Poll, callVars
  <1>7. CASE ReadPipe
    <2>1. pipe' \in 0 .. PipeCapacity
      BY <1>7 DEF TypeOK, ReadPipe
    <2> QED
      BY <1>7, <2>1 DEF TypeOK, ReadPipe, callVars
  <1>8. CASE RunTask
    BY <1>8, RunTaskMoves DEF TypeOK, RunTask, callVars
  <1>9. CASE TaskReturns
    BY <1>9 DEF TypeOK, TaskReturns, callVars
  <1>10. CASE Drained
    BY <1>10 DEF TypeOK, Drained, callVars
  <1>11. CASE EndPass
    BY <1>11 DEF TypeOK, EndPass, callVars
  <1>12. CASE UNCHANGED vars
    BY <1>12 DEF TypeOK, vars, callVars
  <1> QED
    BY <1>1, <1>2, <1>3, <1>4, <1>5, <1>6, <1>7, <1>8, <1>9, <1>10, <1>11, <1>12
       DEF Next, LoopStep

LEMMA InitType == Init => TypeOK
  <1> SUFFICES ASSUME Init PROVE TypeOK
    OBVIOUS
  <1>1. <<>> \in Seq(Tasks)
    OBVIOUS
  <1>2. 0 \in 0 .. PipeCapacity /\ 0 \in 0 .. MaxCalls
    BY LoopAssumption
  <1>3. [c \in Threads |-> {}] \in [Threads -> SUBSET Tasks]
    OBVIOUS
  <1> QED
    BY <1>1, <1>2, <1>3 DEF Init, TypeOK

\* Every variable of the loop keeps its type; in particular the pipe never
\* holds more than the kernel's capacity.
THEOREM TypeCorrect == SafeSpec => []TypeOK
  <1>1. Init => TypeOK
    BY InitType
  <1> QED
    BY <1>1, TypeInductive, PTL DEF SafeSpec

----------------------------------------------------------------------------
(* No lost wake-up.                                                        *)

LEMMA WakeInductive == TypeOK /\ NoLostWakeup /\ [Next]_vars => NoLostWakeup'
  <1> SUFFICES ASSUME TypeOK, NoLostWakeup, [Next]_vars PROVE NoLostWakeup'
    OBVIOUS
  <1>1. ASSUME NEW c \in Threads, NEW t \in Tasks, Push(c, t) PROVE NoLostWakeup'
    <2>1. ~ Full => /\ c \in writing' /\ t \in carrying'[c]
      BY <1>1 DEF Push, TypeOK
    <2>2. \A d \in writing : d \in writing' /\ carrying'[d] = carrying[d]
      BY <1>1 DEF Push, MayCall, TypeOK
    <2>3. Queued' \subseteq IF Full THEN Queued ELSE Queued \cup {t}
      BY <1>1, PushQueued
    <2>4. pipe' = pipe /\ at' = at
      BY <1>1 DEF Push
    <2> QED
      BY <2>1, <2>2, <2>3, <2>4 DEF NoLostWakeup
  <1>2. ASSUME NEW c \in Threads, SetExit(c) \/ CallWakeup(c) PROVE NoLostWakeup'
    BY <1>2 DEF NoLostWakeup, SetExit, CallWakeup, Queued
  <1>3. ASSUME NEW c \in Threads, Wakeup(c) PROVE NoLostWakeup'
    BY <1>3 DEF NoLostWakeup, Wakeup, TypeOK
  <1>4. CASE TestExit \/ Poll \/ EndPass
    BY <1>4 DEF NoLostWakeup, TestExit, Poll, EndPass, callVars, Queued
  <1>5. CASE ReadPipe \/ RunTask \/ TaskReturns
    BY <1>5 DEF NoLostWakeup, ReadPipe, RunTask, TaskReturns
  <1>6. CASE Drained
    <2>1. Queued' = {}
      BY <1>6, EmptyElements DEF Drained, Queued
    <2> QED BY <2>1 DEF NoLostWakeup
  <1>7. CASE UNCHANGED vars
    BY <1>7 DEF NoLostWakeup, vars, callVars, Queued
  <1> QED
    BY <1>1, <1>2, <1>3, <1>4, <1>5, <1>6, <1>7 DEF Next, LoopStep

\* However safeCall, exit and wakeup interleave with the loop, no task sits in
\* the list while the loop may go to sleep and nobody is about to wake it.
THEOREM WakeupsAreNotLost == SafeSpec => []NoLostWakeup
  <1>1. Init => NoLostWakeup
    BY EmptyElements DEF Init, NoLostWakeup, Queued
  <1> QED
    BY <1>1, TypeCorrect, WakeInductive, PTL DEF SafeSpec

----------------------------------------------------------------------------
(* Tasks owed when exit() is called.                                       *)

LEMMA IInvInductive == IInv /\ [Next]_vars => IInv'
  <1> SUFFICES ASSUME IInv, [Next]_vars PROVE IInv'
    OBVIOUS
  <1>0. TypeOK /\ TypeOK'
    BY TypeInductive DEF IInv
  <1> USE DEF IInv
  <1>1. ASSUME NEW c \in Threads, NEW t \in Tasks, Push(c, t) PROVE IInv'
    <2>1. /\ Ran' = Ran /\ Queued \subseteq Queued' /\ Queued' \subseteq Queued \cup {t}
          /\ ~ Full => t \in Queued'
      BY <1>0, <1>1, PushQueued
    <2>2. /\ t \notin posted /\ posted' = posted \cup {t}
          /\ returned' = returned /\ owed' = owed
          /\ pipe' = pipe /\ at' = at /\ final' = final /\ exit' = exit /\ woken' = woken
      BY <1>1 DEF Push
    <2>3. \A d \in Threads : carrying'[d] \subseteq carrying[d]
                             \/ (~ Full /\ carrying'[d] = {t})
      BY <1>0, <1>1 DEF Push, TypeOK
    <2>4. Accounted'
      BY <2>1, <2>2, <2>3 DEF Accounted
    <2>5. t \notin returned /\ t \notin owed
      BY <2>2 DEF Accounted
    <2>6. ReturnedWakes' /\ LastPassDrains'
      BY <2>1, <2>2, <2>5 DEF ReturnedWakes, LastPassDrains
    <2> QED
      BY <1>0, <2>4, <2>6
  <1>2. ASSUME NEW c \in Threads, SetExit(c) \/ CallWakeup(c) PROVE IInv'
    <2>1. /\ Ran' = Ran /\ Queued' = Queued /\ posted' = posted
          /\ returned' = returned /\ carrying' = carrying
          /\ pipe' = pipe /\ at' = at /\ final' = final /\ woken' = woken
          /\ exit => exit' /\ owed' = owed
          /\ owed' \subseteq returned
      BY <1>2 DEF SetExit, CallWakeup, Ran, Queued, Accounted
    <2>2. Accounted' /\ ReturnedWakes'
      BY <2>1 DEF Accounted, ReturnedWakes
    <2>3. LastPassDrains'
      BY <2>1 DEF LastPassDrains
    <2> QED
      BY <1>0, <2>2, <2>3
  <1>3. ASSUME NEW c \in Threads, Wakeup(c) PROVE IInv'
    <2>1. /\ Ran' = Ran /\ Queued' = Queued /\ posted' = posted
          /\ returned' = returned \cup carrying[c] /\ owed' = owed
          /\ \A d \in Threads : carrying'[d] \subseteq carrying[d]
          /\ at' = at /\ final' = final /\ woken' = woken /\ exit' = exit
      BY <1>0, <1>3 DEF Wakeup, Ran, Queued, TypeOK
    <2>2. pipe' > 0
      BY <1>0, <1>3 DEF Wakeup, TypeOK
    <2>3. Accounted'
      BY <1>3, <2>1 DEF Accounted
    <2>4. ReturnedWakes' /\ LastPassDrains'
      BY <2>1, <2>2 DEF ReturnedWakes, LastPassDrains
    <2> QED
      BY <1>0, <2>3, <2>4
  <1>4. CASE TestExit \/ Poll \/ ReadPipe \/ TaskReturns \/ Drained \/ EndPass \/ UNCHANGED vars
    <2>1. Ran' = Ran /\ Queued' = Queued /\ UNCHANGED <<callVars, exit>>
      BY <1>4 DEF TestExit, Poll, ReadPipe, TaskReturns, Drained, EndPass, vars, Ran, Queued
    <2>2. Accounted'
      BY <2>1 DEF Accounted, callVars
    <2>3. at = "drain" /\ at' = "dispatch" => Queued = {}
      BY <1>4, EmptyElements
         DEF TestExit, Poll, ReadPipe, TaskReturns, Drained, EndPass, vars, Queued
    <2>4. ReturnedWakes'
      BY <1>4, <2>1, <2>3
         DEF ReturnedWakes, TestExit, Poll, ReadPipe, TaskReturns, Drained, EndPass,
             vars, callVars
    <2>5. LastPassDrains'
      BY <1>0, <1>4, <2>1, <2>3
         DEF LastPassDrains, ReturnedWakes, Accounted, TestExit, Poll, ReadPipe,
             TaskReturns, Drained, EndPass, vars, callVars, TypeOK
    <2> QED
      BY <1>0, <2>2, <2>4, <2>5
  <1>5. CASE RunTask
    <2>1. Queued' \subseteq Queued /\ Ran' \cup Queued' = Ran \cup Queued
      BY <1>0, <1>5, RunTaskMoves
    <2>2. UNCHANGED <<callVars, exit, final>> /\ at' = "task"
      BY <1>5 DEF RunTask
    <2>3. Accounted'
      BY <2>1, <2>2 DEF Accounted, callVars
    <2>4. ReturnedWakes' /\ LastPassDrains'
      BY <2>2 DEF ReturnedWakes, LastPassDrains
    <2> QED
      BY <1>0, <2>3, <2>4
  <1> QED
    BY <1>1, <1>2, <1>3, <1>4, <1>5 DEF Next, LoopStep

LEMMA IInvInvariant == SafeSpec => []IInv
  <1>1. Init => IInv
    <2> SUFFICES ASSUME Init PROVE IInv
      OBVIOUS
    <2>1. TypeOK
      BY InitType
    <2>2. Queued = {} /\ Ran = {}
      BY EmptyElements DEF Init, Queued, Ran
    <2> QED
      BY <2>1, <2>2 DEF Init, IInv, Accounted, ReturnedWakes, LastPassDrains
  <1> QED
    BY <1>1, IInvInductive, PTL DEF SafeSpec

\* loop() does not return before every task whose safeCall had returned when
\* exit() was called has been run.
THEOREM OwedTasksAreRun == SafeSpec => []OwedTasksRun
  <1>1. IInv => OwedTasksRun
    BY DEF IInv, Accounted, LastPassDrains, OwedTasksRun
  <1> QED
    BY <1>1, IInvInvariant, PTL

----------------------------------------------------------------------------
(* The ordered executor.                                                   *)

LEMMA StepImplements == IInv /\ [Next]_vars => [ExecutorImpl!Next]_(ExecutorImpl!vars)
  <1> SUFFICES ASSUME IInv, [Next]_vars PROVE [ExecutorImpl!Next]_(ExecutorImpl!vars)
    OBVIOUS
  <1>0. /\ TypeOK /\ tasks \in Seq(Tasks) /\ ran \in Seq(Tasks)
    BY DEF IInv, TypeOK
  <1>1. ASSUME NEW c \in Threads, NEW t \in Tasks, Push(c, t), ~ Full
        PROVE  ExecutorImpl!Accept(t)
    <2>1. /\ ran' = ran /\ exit' = exit /\ tasks' = Append(tasks, t) /\ t \notin posted
      BY <1>1 DEF Push
    <2>2. ran \o Append(tasks, t) = Append(ran \o tasks, t)
      BY <1>0
    <2>3. \A i \in 1 .. Len(ran \o tasks) : (ran \o tasks)[i] \in Ran \cup Queued
      <3>1. Range(ran \o tasks) = Ran \cup Queued
        BY <1>0, RangeConcatenation DEF Ran, Queued
      <3>2. DOMAIN (ran \o tasks) = 1 .. Len(ran \o tasks)
        BY <1>0
      <3> QED BY <3>1, <3>2 DEF Range
    <2>4. \A i \in 1 .. Len(ran \o tasks) : (ran \o tasks)[i] # t
      BY <2>1, <2>3 DEF IInv, Accounted
    <2> QED
      BY <2>1, <2>2, <2>4 DEF ExecutorImpl!Accept
  <1>2. CASE RunTask
    <2>1. /\ tasks # <<>> /\ tasks' = Tail(tasks) /\ ran' = Append(ran, Head(tasks))
          /\ exit' = exit
      BY <1>2 DEF RunTask
    <2>2. Append(ran, Head(tasks)) \o Tail(tasks) = ran \o tasks
      BY <1>0, <2>1
    <2>3. Len(Append(ran, Head(tasks))) = Len(ran) + 1 /\ Len(ran) < Len(ran \o tasks)
      BY <1>0, <2>1
    <2>4. ExecutorImpl!Start
      BY <2>1, <2>2, <2>3 DEF ExecutorImpl!Start
    <2> QED
      BY <2>4 DEF ExecutorImpl!Next
  <1>3. ASSUME NEW c \in Threads, SetExit(c) PROVE ExecutorImpl!Next
    BY <1>3 DEF SetExit, ExecutorImpl!Next, ExecutorImpl!Stop
  <1>4. ASSUME UNCHANGED <<tasks, ran, exit>> PROVE UNCHANGED (ExecutorImpl!vars)
    BY <1>4 DEF ExecutorImpl!vars
  <1>5. ASSUME NEW c \in Threads, NEW t \in Tasks, Push(c, t), Full
        PROVE  UNCHANGED <<tasks, ran, exit>>
    BY <1>5 DEF Push
  <1>6. ASSUME NEW c \in Threads, CallWakeup(c) \/ Wakeup(c)
        PROVE  UNCHANGED <<tasks, ran, exit>>
    BY <1>6 DEF CallWakeup, Wakeup
  <1>7. CASE TestExit \/ Poll \/ ReadPipe \/ TaskReturns \/ Drained \/ EndPass
    BY <1>4, <1>7 DEF TestExit, Poll, ReadPipe, TaskReturns, Drained, EndPass
  <1>8. CASE UNCHANGED vars
    BY <1>4, <1>8 DEF vars
  <1> QED
    BY <1>1, <1>2, <1>3, <1>4, <1>5, <1>6, <1>7, <1>8
       DEF Next, LoopStep, ExecutorImpl!Next

\* The list and the loop run each accepted task at most once and in the order
\* of acceptance: the safety part of ImplementsExecutor.
THEOREM ImplementsExecutorSafely == SafeSpec => ExecutorImpl!SafeSpec
  <1>1. Init => ExecutorImpl!Init
    BY DEF Init, ExecutorImpl!Init
  <1> QED
    BY <1>1, IInvInvariant, StepImplements, PTL DEF SafeSpec, ExecutorImpl!SafeSpec
=============================================================================
