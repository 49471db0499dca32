-------------------------- MODULE ThreadPool_proofs --------------------------
(***************************************************************************)
(* The safety properties of ThreadPool, for any number of threads, callers *)
(* and tasks and any capacity.                                             *)
(***************************************************************************)
EXTENDS ThreadPool, FiniteSetTheorems, TLAPS

\* The lock is held between steps only by the worker that is about to sleep, and the
\* list stays empty as long as it is.
Locked ==
    /\ \A w \in Workers : at[w] = "empty" <=> lock = w
    /\ lock # NoOne => items = <<>>

\* A worker that sleeps or is about to, with exit_ set, has a notification ahead.
ExitTold == exit /\ (Asleep # {} \/ lock # NoOne) => exiting # {}

\* While a worker sleeps every queued task has a worker on the way to it.
Served == ~ exit /\ Asleep # {} => Len(items) <= Cardinality(Coming)

\* A worker that took a task after exit_ was set will not come back to the list.
Lates == \A w \in Workers :
            late[w] <= 1 /\ (late[w] > 0 => exit /\ at[w] \in {"task", "test", "done"})

\* Queued and started tasks have been handed over.
Handed == /\ \A i \in 1 .. Len(items) : items[i] \in posted
          /\ \A i \in 1 .. Len(ran) : ran[i] \in posted

PInv == TypeOK /\ Locked /\ ExitTold /\ Served /\ Lates /\ Handed

----------------------------------------------------------------------------
(* Types.                                                                  *)

LEMMA NotifyType ==
    ASSUME TypeOK, notify_one \/ notify_all
    PROVE  at' \in [Workers -> {"test", "pop", "empty", "asleep", "woken", "task", "done"}]
  BY DEF TypeOK, notify_one, notify_all, Asleep

LEMMA InitType == Init => TypeOK
  <1> SUFFICES ASSUME Init PROVE TypeOK
    OBVIOUS
  <1>1. items \in Seq(Tasks) /\ ran \in Seq(Tasks) /\ Len(items) = 0
    BY DEF Init
  <1>2. joined \in 0 .. N /\ (Capacity > 0 => Len(items) <= Capacity)
    BY <1>1, PoolAssumption DEF Init
  <1> QED
    BY <1>1, <1>2 DEF Init, TypeOK

LEMMA NextType == TypeOK /\ [Next]_vars => TypeOK'
  <1> SUFFICES ASSUME TypeOK, [Next]_vars PROVE TypeOK'
    OBVIOUS
  <1>0. items \in Seq(Tasks) /\ ran \in Seq(Tasks) /\ N \in Nat /\ Capacity \in Nat
    BY PoolAssumption DEF TypeOK
  <1>1. ASSUME NEW c \in Threads, NEW t \in Tasks, addTask(c, t) PROVE TypeOK'
    <2>1. CASE exit \/ Full
      BY <1>1, <2>1, NotifyType DEF addTask, TypeOK
    <2>2. CASE ~ (exit \/ Full)
      <3>1. items' = Append(items, t) /\ notify_one
        BY <1>1, <2>2 DEF addTask
      <3>2. items' \in Seq(Tasks) /\ Len(items') = Len(items) + 1
        BY <1>0, <3>1
      <3>3. Capacity > 0 => Len(items) < Capacity
        BY <1>0, <2>2 DEF Full
      <3>4. Capacity > 0 => Len(items') <= Capacity
        BY <1>0, <3>2, <3>3
      <3>5. at' \in [Workers -> {"test", "pop", "empty", "asleep", "woken", "task", "done"}]
        BY <3>1, NotifyType
      <3> QED
        BY <1>1, <3>2, <3>4, <3>5 DEF addTask, TypeOK
    <2> QED BY <2>1, <2>2
  <1>2. ASSUME NEW c \in Threads, SetExit(c) PROVE TypeOK'
    BY <1>2 DEF SetExit, TypeOK
  <1>3. ASSUME NEW c \in Threads, ExitNotify(c) PROVE TypeOK'
    BY <1>3, NotifyType DEF ExitNotify, TypeOK
  <1>4. ASSUME NEW w \in Workers, Test(w) \/ Sleep(w) \/ WakesUp(w) \/ TaskReturns(w)
        PROVE  TypeOK'
    BY <1>4 DEF Test, Sleep, WakesUp, TaskReturns, TypeOK, NoOne
  <1>5. ASSUME NEW w \in Workers, Nothing(w) PROVE TypeOK'
    BY <1>5 DEF Nothing, TypeOK, NoOne
  <1>6. ASSUME NEW w \in Workers, Pop(w) PROVE TypeOK'
    <2>1. /\ items' \in Seq(Tasks) /\ Len(items') = Len(items) - 1
          /\ ran' \in Seq(Tasks) /\ Len(items) \in Nat
      BY <1>0, <1>6 DEF Pop
    <2>2. Capacity > 0 => Len(items') <= Capacity
      BY <1>0, <2>1 DEF TypeOK
    <2>3. late' \in [Workers -> Nat]
      BY <1>6 DEF Pop, TypeOK
    <2> QED
      BY <1>6, <2>1, <2>2, <2>3 DEF Pop, TypeOK
  <1>7. CASE Join
    BY <1>0, <1>7 DEF Join, TypeOK
  <1>8. CASE UNCHANGED vars
    BY <1>8 DEF vars, TypeOK
  <1> QED
    BY <1>1, <1>2, <1>3, <1>4, <1>5, <1>6, <1>7, <1>8 DEF Next, Work

\* The variables of the pool and of its queue keep their types, and items_ never
\* exceeds capacity_.
THEOREM TypeCorrect == SafeSpec => []TypeOK
  BY InitType, NextType, PTL DEF SafeSpec

----------------------------------------------------------------------------
(* The lock and the notifications.                                         *)

LEMMA LockedKept == TypeOK /\ Locked /\ [Next]_vars => Locked'
  <1> SUFFICES ASSUME TypeOK, Locked, [Next]_vars PROVE Locked'
    OBVIOUS
  <1>0. NoOne \notin Workers
    BY PoolAssumption DEF NoOne, Workers
  <1>1. ASSUME notify_one \/ notify_all
        PROVE  \A w \in Workers : at'[w] = "empty" <=> at[w] = "empty"
    BY <1>1 DEF notify_one, notify_all, Asleep, TypeOK
  <1>2. ASSUME NEW c \in Threads, NEW t \in Tasks, addTask(c, t) PROVE Locked'
    BY <1>0, <1>1, <1>2 DEF addTask, Locked
  <1>3. ASSUME NEW c \in Threads, SetExit(c) \/ ExitNotify(c) PROVE Locked'
    BY <1>1, <1>3 DEF SetExit, ExitNotify, Locked
  <1>4. ASSUME NEW w \in Workers, Test(w) \/ WakesUp(w) \/ TaskReturns(w) PROVE Locked'
    BY <1>4 DEF Test, WakesUp, TaskReturns, Locked, TypeOK
  <1>5. ASSUME NEW w \in Workers, Nothing(w) PROVE Locked'
    BY <1>0, <1>5 DEF Nothing, Locked, TypeOK
  <1>6. ASSUME NEW w \in Workers, Sleep(w) PROVE Locked'
    BY <1>0, <1>6 DEF Sleep, Locked, TypeOK
  <1>7. ASSUME NEW w \in Workers, Pop(w) PROVE Locked'
    BY <1>0, <1>7 DEF Pop, Locked, TypeOK
  <1>8. CASE Join \/ UNCHANGED vars
    BY <1>8 DEF Join, vars, Locked
  <1> QED
    BY <1>2, <1>3, <1>4, <1>5, <1>6, <1>7, <1>8 DEF Next, Work

LEMMA ExitToldKept == TypeOK /\ Locked /\ ExitTold /\ [Next]_vars => ExitTold'
  <1> SUFFICES ASSUME TypeOK, Locked, ExitTold, [Next]_vars PROVE ExitTold'
    OBVIOUS
  <1>1. ASSUME NEW c \in Threads, NEW t \in Tasks, addTask(c, t) PROVE ExitTold'
    <2>1. Asleep' \subseteq Asleep
      BY <1>1 DEF addTask, notify_one, Asleep, TypeOK
    <2> QED
      BY <1>1, <2>1 DEF addTask, ExitTold
  <1>2. ASSUME NEW c \in Threads, SetExit(c) PROVE ExitTold'
    BY <1>2 DEF SetExit, ExitTold
  <1>3. ASSUME NEW c \in Threads, ExitNotify(c) PROVE ExitTold'
    BY <1>3 DEF ExitNotify, notify_all, Asleep, ExitTold
  <1>4. ASSUME NEW w \in Workers, Test(w) \/ WakesUp(w) \/ TaskReturns(w) \/ Pop(w)
        PROVE  ExitTold'
    <2>1. Asleep' \subseteq Asleep /\ UNCHANGED <<exit, lock, exiting>>
      BY <1>4 DEF Test, WakesUp, TaskReturns, Pop, Asleep, TypeOK
    <2> QED
      BY <2>1 DEF ExitTold
  <1>5. ASSUME NEW w \in Workers, Nothing(w) PROVE ExitTold'
    <2>1. Asleep' \subseteq Asleep /\ UNCHANGED <<exit, exiting>>
      BY <1>5 DEF Nothing, Asleep, TypeOK
    <2> QED
      BY <1>5, <2>1 DEF Nothing, ExitTold
  <1>6. ASSUME NEW w \in Workers, Sleep(w) PROVE ExitTold'
    <2>1. lock # NoOne
      BY <1>6, PoolAssumption DEF Sleep, Locked, NoOne, Workers
    <2> QED
      BY <1>6, <2>1 DEF Sleep, ExitTold
  <1>7. CASE Join \/ UNCHANGED vars
    BY <1>7 DEF Join, vars, ExitTold, Asleep
  <1> QED
    BY <1>1, <1>2, <1>3, <1>4, <1>5, <1>6, <1>7 DEF Next, Work

\* Coming is a finite set, before and after a step.
LEMMA ComingFinite ==
    /\ IsFiniteSet(Coming) /\ Cardinality(Coming) \in Nat
    /\ IsFiniteSet(Coming') /\ Cardinality(Coming') \in Nat
  <1>1. IsFiniteSet(Workers)
    BY PoolAssumption, FS_Interval DEF Workers
  <1>2. Coming \subseteq Workers /\ Coming' \subseteq Workers
    BY DEF Coming
  <1>3. IsFiniteSet(Coming) /\ IsFiniteSet(Coming')
    BY <1>1, <1>2, FS_Subset
  <1> QED
    BY <1>3, FS_CardinalityType

LEMMA ServedKept == TypeOK /\ Locked /\ Served /\ [Next]_vars => Served'
  <1> SUFFICES ASSUME TypeOK, Locked, Served, [Next]_vars PROVE Served'
    OBVIOUS
  <1>0. items \in Seq(Tasks) /\ Len(items) \in Nat /\ Cardinality(Coming) \in Nat
        /\ Cardinality(Coming') \in Nat
    BY ComingFinite DEF TypeOK
  <1>a. ASSUME Asleep' \subseteq Asleep, Coming \subseteq Coming', UNCHANGED <<items, exit>>
        PROVE  Served'
    <2>1. Cardinality(Coming) <= Cardinality(Coming')
      BY <1>a, ComingFinite, FS_Subset
    <2> QED
      BY <1>0, <1>a, <2>1 DEF Served
  <1>b. ASSUME items' = <<>> PROVE Served'
    BY <1>0, <1>b DEF Served
  <1>1. ASSUME NEW c \in Threads, NEW t \in Tasks, addTask(c, t) PROVE Served'
    <2>1. CASE UNCHANGED <<items, at>>
      BY <1>1, <1>a, <2>1 DEF addTask, Asleep, Coming
    <2>2. CASE items' = Append(items, t) /\ Asleep = {} /\ UNCHANGED at
      BY <2>2 DEF Served, Asleep
    <2>3. ASSUME NEW w \in Asleep, items' = Append(items, t), at' = [at EXCEPT ![w] = "woken"]
          PROVE  Served'
      <3>1. Coming' = Coming \cup {w} /\ w \notin Coming
        BY <2>3 DEF Coming, Asleep, TypeOK
      <3>2. Cardinality(Coming') = Cardinality(Coming) + 1
        BY <3>1, ComingFinite, FS_AddElement
      <3>3. Len(items') = Len(items) + 1
        BY <1>0, <2>3
      <3>4. exit' = exit /\ Asleep # {}
        BY <1>1, <2>3 DEF addTask
      <3> QED
        BY <1>0, <3>2, <3>3, <3>4 DEF Served
    <2> QED
      BY <1>1, <2>1, <2>2, <2>3 DEF addTask, notify_one
  <1>2. ASSUME NEW c \in Threads, SetExit(c) PROVE Served'
    BY <1>2 DEF SetExit, Served
  <1>3. ASSUME NEW c \in Threads, ExitNotify(c) PROVE Served'
    BY <1>3 DEF ExitNotify, notify_all, Asleep, Served
  <1>4. ASSUME NEW w \in Workers, Test(w) PROVE Served'
    <2>1. CASE exit
      BY <1>4, <2>1 DEF Test, Served
    <2>2. CASE ~ exit
      <3>1. Asleep' \subseteq Asleep /\ Coming \subseteq Coming' /\ UNCHANGED <<items, exit>>
        BY <1>4, <2>2 DEF Test, Asleep, Coming, TypeOK
      <3> QED BY <1>a, <3>1
    <2> QED BY <2>1, <2>2
  <1>5. ASSUME NEW w \in Workers, WakesUp(w) \/ TaskReturns(w) PROVE Served'
    <2>1. Asleep' \subseteq Asleep /\ Coming \subseteq Coming' /\ UNCHANGED <<items, exit>>
      BY <1>5 DEF WakesUp, TaskReturns, Asleep, Coming, TypeOK
    <2> QED BY <1>a, <2>1
  <1>6. ASSUME NEW w \in Workers, Nothing(w) PROVE Served'
    BY <1>6, <1>b DEF Nothing
  <1>7. ASSUME NEW w \in Workers, Sleep(w) PROVE Served'
    BY <1>7, <1>b, PoolAssumption DEF Sleep, Locked, NoOne, Workers
  <1>8. ASSUME NEW w \in Workers, Pop(w) PROVE Served'
    <2>1. Coming' = Coming \ {w} /\ w \in Coming /\ Asleep' = Asleep /\ exit' = exit
      BY <1>8 DEF Pop, Coming, Asleep, TypeOK
    <2>2. Cardinality(Coming') = Cardinality(Coming) - 1
      BY <2>1, ComingFinite, FS_RemoveElement
    <2>3. Len(items') = Len(items) - 1
      BY <1>0, <1>8 DEF Pop
    <2> QED
      BY <1>0, <2>1, <2>2, <2>3 DEF Served
  <1>9. CASE Join \/ UNCHANGED vars
    BY <1>a, <1>9 DEF Join, vars, Asleep, Coming
  <1> QED
    BY <1>1, <1>2, <1>3, <1>4, <1>5, <1>6, <1>7, <1>8, <1>9 DEF Next, Work

LEMMA LatesKept == TypeOK /\ Lates /\ [Next]_vars => Lates'
  <1> SUFFICES ASSUME TypeOK, Lates, [Next]_vars PROVE Lates'
    OBVIOUS
  <1>1. ASSUME notify_one \/ notify_all, UNCHANGED <<exit, late>> PROVE Lates'
    BY <1>1 DEF notify_one, notify_all, Asleep, Lates, TypeOK
  <1>2. ASSUME NEW c \in Threads, NEW t \in Tasks, addTask(c, t) PROVE Lates'
    BY <1>1, <1>2 DEF addTask, Lates
  <1>3. ASSUME NEW c \in Threads, SetExit(c) \/ ExitNotify(c) PROVE Lates'
    BY <1>1, <1>3 DEF SetExit, ExitNotify, Lates
  <1>4. ASSUME NEW w \in Workers,
               Test(w) \/ Nothing(w) \/ Sleep(w) \/ WakesUp(w) \/ TaskReturns(w)
        PROVE  Lates'
    BY <1>4 DEF Test, Nothing, Sleep, WakesUp, TaskReturns, Lates, TypeOK
  <1>5. ASSUME NEW w \in Workers, Pop(w) PROVE Lates'
    <2>0. late[w] \in Nat /\ at[w] \notin {"task", "test", "done"}
      BY <1>5 DEF Pop, TypeOK
    <2>1. late[w] = 0
      BY <2>0 DEF Lates
    <2> QED
      BY <1>5, <2>1 DEF Pop, Lates, TypeOK
  <1>6. CASE Join \/ UNCHANGED vars
    BY <1>6 DEF Join, vars, Lates
  <1> QED
    BY <1>2, <1>3, <1>4, <1>5, <1>6 DEF Next, Work

LEMMA HandedKept == TypeOK /\ Handed /\ [Next]_vars => Handed'
  <1> SUFFICES ASSUME TypeOK, Handed, [Next]_vars PROVE Handed'
    OBVIOUS
  <1>0. items \in Seq(Tasks) /\ ran \in Seq(Tasks)
    BY DEF TypeOK
  <1>1. ASSUME NEW c \in Threads, NEW t \in Tasks, addTask(c, t) PROVE Handed'
    <2>1. CASE UNCHANGED items
      BY <1>1, <2>1 DEF addTask, Handed
    <2>2. CASE items' = Append(items, t)
      <3>1. \A i \in 1 .. Len(items') : items'[i] = t \/ (i \in 1 .. Len(items) /\ items'[i] = items[i])
        BY <1>0, <2>2
      <3> QED
        BY <1>1, <3>1 DEF addTask, Handed
    <2> QED BY <1>1, <2>1, <2>2 DEF addTask
  <1>2. ASSUME NEW w \in Workers, Pop(w) PROVE Handed'
    <2>1. items # <<>> /\ items' = Tail(items) /\ ran' = Append(ran, Head(items))
          /\ posted' = posted
      BY <1>2 DEF Pop
    <2>2. \A i \in 1 .. Len(items') : i + 1 \in 1 .. Len(items) /\ items'[i] = items[i + 1]
      BY <1>0, <2>1
    <2>3. \A i \in 1 .. Len(ran') : \/ ran'[i] = items[1]
                                    \/ i \in 1 .. Len(ran) /\ ran'[i] = ran[i]
      BY <1>0, <2>1
    <2>4. 1 \in 1 .. Len(items)
      BY <1>0, <2>1
    <2> QED
      BY <2>1, <2>2, <2>3, <2>4 DEF Handed
  <1>3. ASSUME UNCHANGED <<items, ran, posted>> PROVE Handed'
    BY <1>3 DEF Handed
  <1>4. ASSUME NEW c \in Threads, SetExit(c) \/ ExitNotify(c) PROVE Handed'
    BY <1>3, <1>4 DEF SetExit, ExitNotify
  <1>5. ASSUME NEW w \in Workers,
               Test(w) \/ Nothing(w) \/ Sleep(w) \/ WakesUp(w) \/ TaskReturns(w)
        PROVE  Handed'
    BY <1>3, <1>5 DEF Test, Nothing, Sleep, WakesUp, TaskReturns
  <1>6. CASE Join \/ UNCHANGED vars
    BY <1>3, <1>6 DEF Join, vars
  <1> QED
    BY <1>1, <1>2, <1>4, <1>5, <1>6 DEF Next, Work

LEMMA PInvInvariant == SafeSpec => []PInv
  <1>1. Init => PInv
    <2> SUFFICES ASSUME Init PROVE PInv
      OBVIOUS
    <2>1. TypeOK
      BY InitType
    <2>2. Asleep = {} /\ \A w \in Workers : at[w] = "test" /\ w # NoOne
      BY PoolAssumption DEF Init, Asleep, Workers, NoOne
    <2>3. Locked /\ ExitTold /\ Served
      BY <2>2 DEF Init, Locked, ExitTold, Served
    <2>4. Lates /\ Handed
      BY DEF Init, Lates, Handed
    <2> QED
      BY <2>1, <2>3, <2>4 DEF PInv
  <1>2. PInv /\ [Next]_vars => PInv'
    BY NextType, LockedKept, ExitToldKept, ServedKept, LatesKept, HandedKept DEF PInv
  <1> QED
    BY <1>1, <1>2, PTL DEF SafeSpec

\* No notification of a task or of exit() is lost, although exit_ is set without
\* the lock.
THEOREM NotificationsAreNotLost == SafeSpec => []NoLostNotification
  <1>1. PInv => NoLostNotification
    BY DEF PInv, ExitTold, Served, NoLostNotification
  <1> QED
    BY <1>1, PInvInvariant, PTL

\* No worker starts a second task once exit_ is set.
THEOREM LateStartsAreBounded == SafeSpec => []AtMostOneLate
  <1>1. PInv => AtMostOneLate
    BY DEF PInv, Lates, AtMostOneLate
  <1> QED
    BY <1>1, PInvInvariant, PTL

----------------------------------------------------------------------------
(* The ordered executor.                                                   *)

LEMMA StepImplements == PInv /\ [Next]_vars => [ExecutorImpl!Next]_(ExecutorImpl!vars)
  <1> SUFFICES ASSUME PInv, [Next]_vars PROVE [ExecutorImpl!Next]_(ExecutorImpl!vars)
    OBVIOUS
  <1>0. items \in Seq(Tasks) /\ ran \in Seq(Tasks)
    BY DEF PInv, TypeOK
  <1>1. ASSUME UNCHANGED <<items, ran, exit>> PROVE UNCHANGED (ExecutorImpl!vars)
    BY <1>1 DEF ExecutorImpl!vars
  <1>2. ASSUME NEW c \in Threads, NEW t \in Tasks, addTask(c, t), items' # items
        PROVE  ExecutorImpl!Accept(t)
    <2>1. /\ ran' = ran /\ exit' = exit /\ items' = Append(items, t) /\ t \notin posted
      BY <1>2 DEF addTask
    <2>2. ran \o Append(items, t) = Append(ran \o items, t)
      BY <1>0
    <2>3. \A i \in 1 .. Len(ran \o items) :
             \/ i \in 1 .. Len(ran) /\ (ran \o items)[i] = ran[i]
             \/ i - Len(ran) \in 1 .. Len(items) /\ (ran \o items)[i] = items[i - Len(ran)]
      BY <1>0
    <2>4. \A i \in 1 .. Len(ran \o items) : (ran \o items)[i] # t
      BY <2>1, <2>3 DEF PInv, Handed
    <2> QED
      BY <2>1, <2>2, <2>4 DEF ExecutorImpl!Accept
  <1>3. ASSUME NEW w \in Workers, Pop(w) PROVE ExecutorImpl!Start
    <2>1. /\ items # <<>> /\ items' = Tail(items) /\ ran' = Append(ran, Head(items))
          /\ exit' = exit
      BY <1>3 DEF Pop
    <2>2. Append(ran, Head(items)) \o Tail(items) = ran \o items
      BY <1>0, <2>1
    <2>3. Len(Append(ran, Head(items))) = Len(ran) + 1 /\ Len(ran) < Len(ran \o items)
      BY <1>0, <2>1
    <2> QED
      BY <2>1, <2>2, <2>3 DEF ExecutorImpl!Start
  <1>4. ASSUME NEW c \in Threads, SetExit(c) PROVE ExecutorImpl!Stop
    BY <1>4 DEF SetExit, ExecutorImpl!Stop
  <1>5. ASSUME NEW c \in Threads, NEW t \in Tasks, addTask(c, t), items' = items
        PROVE  UNCHANGED (ExecutorImpl!vars)
    BY <1>1, <1>5 DEF addTask
  <1>6. ASSUME NEW c \in Threads, ExitNotify(c) PROVE UNCHANGED (ExecutorImpl!vars)
    BY <1>1, <1>6 DEF ExitNotify
  <1>7. ASSUME NEW w \in Workers,
               Test(w) \/ Nothing(w) \/ Sleep(w) \/ WakesUp(w) \/ TaskReturns(w)
        PROVE  UNCHANGED (ExecutorImpl!vars)
    BY <1>1, <1>7 DEF Test, Nothing, Sleep, WakesUp, TaskReturns
  <1>8. CASE Join \/ UNCHANGED vars
    BY <1>1, <1>8 DEF Join, vars
  <1> QED
    BY <1>2, <1>3, <1>4, <1>5, <1>6, <1>7, <1>8 DEF Next, Work, ExecutorImpl!Next

\* The pool starts each accepted task at most once and in the order of acceptance:
\* the safety part of ImplementsExecutor.
THEOREM ImplementsExecutorSafely == SafeSpec => ExecutorImpl!SafeSpec
  <1>1. Init => ExecutorImpl!Init
    BY DEF Init, ExecutorImpl!Init
  <1> QED
    BY <1>1, PInvInvariant, StepImplements, PTL DEF SafeSpec, ExecutorImpl!SafeSpec
=============================================================================
