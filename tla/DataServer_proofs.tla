-------------------------- MODULE DataServer_proofs --------------------------
(***************************************************************************)
(* Safety of DataServer for any streams, plans, session and descriptor     *)
(* bounds: the stream map leads to live sessions, the store thread's       *)
(* operations on a session come in order, and sockets, channels and the    *)
(* epoll set agree.  And the recording buffer of a session for every size: *)
(* the records can be read back, and short datagrams stay inside.          *)
(***************************************************************************)
EXTENDS DataServer, StreamBuf, TLAPS

\* The registry: registered sessions are alive and numbered up to id_, a session
\* being dropped is not registered, and every stream has a session of its own.
Registry ==
    /\ \A i \in sessions : obj[i] = "live" /\ i <= id_
    /\ dropping # 0 => dropping <= id_ /\ dropping \notin sessions
    /\ \A s \in Streams : storeSess[s] # 0 => storeSess[s] \in sessions
    /\ \A s, t \in Streams : storeSess[s] # 0 /\ storeSess[s] = storeSess[t] => s = t

\* The test of diffStorePlan never finds anything to delete.
NothingDeleted == delPlans = {}

\* What is queued for a session and has been done to it: a bind comes before
\* anything else, only registered sessions are attached or closed, and a session
\* that a stream still has is not about to be closed.
TaskFits ==
    \A k \in 1 .. Len(storeTasks) :
        /\ storeTasks[k].id <= id_
        /\ did[storeTasks[k].id] # "close"
        /\ storeTasks[k].op = "bind" => did[storeTasks[k].id] = "new"
        /\ storeTasks[k].op # "bind" => storeTasks[k].id \in sessions
        /\ storeTasks[k].op = "close" => \A s \in Streams : storeSess[s] # storeTasks[k].id

\* Of two tasks for a session, the later is not its bind, the earlier not its close.
PairsOrdered ==
    \A k, l \in 1 .. Len(storeTasks) :
        k < l /\ storeTasks[k].id = storeTasks[l].id =>
            storeTasks[l].op # "bind" /\ storeTasks[k].op # "close"

\* A registered session that has not been bound has its bind queued, and whatever
\* else is queued for it comes later (by PairsOrdered).
BindQueued ==
    \A i \in sessions : did[i] = "new" =>
        \E k \in 1 .. Len(storeTasks) : storeTasks[k] = [op |-> "bind", id |-> i]

HeldNotClosed ==
    /\ \A i \in Ids : i > id_ => did[i] = "new"
    /\ \A s \in Streams : storeSess[s] # 0 => did[storeSess[s]] # "close"

TasksOrdered == TaskFits /\ PairsOrdered /\ BindQueued /\ HeldNotClosed

\* A channel belongs to a registered session that was attached last, and epoll
\* has it under the descriptor in its fd_.
ChannelsOwned ==
    /\ \A i \in Ids : chan[i] = "open" => i \in sessions /\ did[i] = "attach"
    /\ \A f \in Fds : watch[f] # Closed => chan[watch[f]] = "open" /\ fd[watch[f]] = f

----------------------------------------------------------------------------
(* Type correctness.                                                       *)

\* The assignment port_ += portInterval_ stays within PortSpace.
LEMMA PortInRange ==
    ASSUME port \in 0 .. PortSpace - 1
    PROVE  (port + PortInterval) % PortSpace \in 0 .. PortSpace - 1
  BY MgrAssumption

LEMMA InitType == Init => TypeOK
  <1> SUFFICES ASSUME Init PROVE TypeOK
    OBVIOUS
  <1>1. StoreTypeOK
    BY DEF Init, StoreInit, StoreTypeOK, Ops
  <1>2. ServiceTypeOK
    BY StoreAssumption DEF Init, ServiceInit, ServiceTypeOK
  <1>3. MgrTypeOK
    BY MgrAssumption DEF Init, MgrInit, MgrTypeOK
  <1> QED
    BY <1>1, <1>2, <1>3 DEF TypeOK

LEMMA PostType ==
    ASSUME storeTasks \in Seq(Task), NEW op \in Ops, NEW i \in Ids, Post(op, i)
    PROVE  storeTasks' \in Seq(Task)
  BY DEF Post, Task

LEMMA StoreThreadType == TypeOK /\ StoreThread => TypeOK'
  <1> SUFFICES ASSUME TypeOK, StoreThread PROVE TypeOK'
    OBVIOUS
  <1>1. ServiceTypeOK' /\ MgrTypeOK'
    BY DEF TypeOK, ServiceTypeOK, MgrTypeOK, StoreThread, serviceVars, mgrVars
  <1> DEFINE t == Head(storeTasks)
  <1>2. t \in Task /\ storeTasks' \in Seq(Task)
    BY DEF TypeOK, StoreTypeOK, StoreThread, RunStoreTask
  <1>3. t.id \in Ids /\ t.op \in Ops
    BY <1>2 DEF Task
  <1>4. TouchFreed => StoreTypeOK'
    BY <1>2 DEF TouchFreed, TypeOK, StoreTypeOK
  <1>5. ASSUME Perform(t.op, t.id) PROVE StoreTypeOK'
    <2> HIDE DEF t
    <2>0. did' \in [Ids -> {"new"} \cup Ops]
      BY <1>3, <1>5 DEF Perform, TypeOK, StoreTypeOK
    <2> USE <1>2, <1>3, <2>0 DEF TypeOK, StoreTypeOK
    <2>1. CASE bindAddr(t.id)
      BY <2>1 DEF bindAddr
    <2>2. CASE attatchToLoop(t.id)
      BY <2>2 DEF attatchToLoop
    <2>3. CASE closeUDP(t.id)
      <3>1. sock' \in [Fds -> Ids \cup {Closed}] /\ watch' \in [Fds -> Ids \cup {Closed}]
        BY <2>3 DEF closeUDP
      <3> QED BY <2>3, <3>1 DEF closeUDP
    <2> QED
      BY <1>5, <2>1, <2>2, <2>3 DEF Perform
  <1> QED
    BY <1>1, <1>4, <1>5 DEF TypeOK, StoreThread, RunStoreTask

LEMMA CreateType ==
    ASSUME TypeOK, NEW s \in Streams, createStream(s)
    PROVE  /\ StoreTypeOK' /\ ServiceTypeOK'
           /\ storeSess' \in [Streams -> Ids \cup {0}]
           /\ invites' \subseteq Streams \X Ids
           /\ port' \in 0 .. PortSpace - 1
  <1> PICK ret \in {0, 1} :
        LET sesId == newStoreSesResult(ret)
        IN  /\ newStoreSes(ret)
            /\ storeSess' = IF sesId # 0 THEN [storeSess EXCEPT ![s] = sesId] ELSE storeSess
            /\ invites' = IF sesId # 0 THEN invites \cup {<<s, sesId>>} ELSE invites
            /\ port' = (port + PortInterval) % PortSpace
    BY DEF createStream
  <1> DEFINE sesId == newStoreSesResult(ret)
  <1> USE StoreAssumption
  <1>1. StoreTypeOK' /\ ServiceTypeOK' /\ sesId \in Ids \cup {0}
    <2>1. CASE storeSesCount < MaxStoreConn
      <3>1. id_ + 1 \in Ids /\ Prepare(id_ + 1) /\ newStoreSes(ret)
        BY <2>1 DEF newStoreSes, TypeOK, ServiceTypeOK, Ids
      <3>2. storeTasks' \in Seq(Task)
        BY <3>1, PostType DEF Prepare, Ops, TypeOK, StoreTypeOK
      <3>3. StoreTypeOK'
        BY <3>1, <3>2 DEF Prepare, newStoreSes, kernelVars, TypeOK, StoreTypeOK
      <3>4. sesId \in Ids \cup {0}
        BY <3>1 DEF newStoreSesResult
      <3>5. id_' \in 0 .. MaxSes
        BY <2>1, <3>1 DEF newStoreSes, TypeOK, ServiceTypeOK, Ids
      <3>6. ServiceTypeOK'
        BY <2>1, <3>1, <3>5 DEF newStoreSes, TypeOK, ServiceTypeOK
      <3> QED BY <3>3, <3>4, <3>6
    <2>2. CASE ~ (storeSesCount < MaxStoreConn)
      BY <2>2 DEF newStoreSes, newStoreSesResult, kernelVars, TypeOK, StoreTypeOK, ServiceTypeOK
    <2> QED BY <2>1, <2>2
  <1> HIDE DEF sesId
  <1>2. port \in 0 .. PortSpace - 1
    BY DEF TypeOK, MgrTypeOK
  <1>3. port' \in 0 .. PortSpace - 1
    BY <1>2, PortInRange
  <1>4. storeSess' = (IF sesId # 0 THEN [storeSess EXCEPT ![s] = sesId] ELSE storeSess)
        /\ invites' = (IF sesId # 0 THEN invites \cup {<<s, sesId>>} ELSE invites)
    BY DEF sesId
  <1> QED
    BY <1>1, <1>2, <1>3, <1>4 DEF TypeOK, MgrTypeOK

LEMMA ReleaseType ==
    ASSUME TypeOK, NEW s \in Streams, releaseSession(s)
    PROVE  /\ StoreTypeOK' /\ ServiceTypeOK'
           /\ storeSess' \in [Streams -> Ids \cup {0}]
  <1>1. storeSess' \in [Streams -> Ids \cup {0}] /\ ServiceTypeOK'
    BY DEF releaseSession, TypeOK, MgrTypeOK, ServiceTypeOK, serviceVars
  <1>2. storeTasks' \in Seq(Task)
    <2>1. CASE existStoreSes(storeSess[s])
      BY <2>1, PostType
         DEF releaseSession, stopStore, existStoreSes, TypeOK, ServiceTypeOK, StoreTypeOK, Ops
    <2>2. CASE ~ existStoreSes(storeSess[s])
      BY <2>2 DEF releaseSession, TypeOK, StoreTypeOK
    <2> QED BY <2>1, <2>2
  <1>3. StoreTypeOK'
    BY <1>2 DEF releaseSession, kernelVars, TypeOK, StoreTypeOK
  <1> QED
    BY <1>1, <1>3

LEMMA TypeInductive == TypeOK /\ [Next]_vars => TypeOK'
  <1> SUFFICES ASSUME TypeOK, [Next]_vars PROVE TypeOK'
    OBVIOUS
  <1>0. DOMAIN curPlans \subseteq Streams
    BY MgrAssumption DEF TypeOK, MgrTypeOK, NoPlan
  <1>1. CASE UpdateStorePlanEmpty \/ \E p \in Plans : UpdateStorePlan(p)
    BY <1>0, <1>1
       DEF UpdateStorePlanEmpty, UpdateStorePlan, diffStorePlan, storeVars, serviceVars,
           TypeOK, StoreTypeOK, ServiceTypeOK, MgrTypeOK
  <1>2. CASE CheckStorePlan
    <2>1. slot' \in Clock /\ now' \in Slots
      BY <1>2, MgrAssumption DEF CheckStorePlan, ReadClock, Slots, TypeOK, MgrTypeOK
    <2>2. todo' \subseteq Streams
      BY <1>0, <1>2, MgrAssumption DEF CheckStorePlan, TypeOK, MgrTypeOK, NoPlan
    <2> QED
      BY <1>2, <2>1, <2>2
         DEF CheckStorePlan, storeVars, serviceVars, TypeOK, StoreTypeOK, ServiceTypeOK, MgrTypeOK
  <1>3. ASSUME NEW s \in Streams, CheckStream(s) PROVE TypeOK'
    <2>1. CASE createStream(s) /\ delPlans' = delPlans \ {s}
      BY <1>3, <2>1, CreateType DEF CheckStream, TypeOK, MgrTypeOK
    <2>2. CASE stopStream(s) /\ UNCHANGED delPlans
      <3>1. releaseSession(s) /\ UNCHANGED <<port, invites>>
        BY <2>2 DEF stopStream, releaseSession
      <3> QED
        BY <1>3, <2>2, <3>1, ReleaseType DEF CheckStream, TypeOK, MgrTypeOK
    <2>3. CASE UNCHANGED <<storeVars, serviceVars, delPlans, storeSess, port, invites>>
      BY <1>3, <2>3
         DEF CheckStream, storeVars, serviceVars, TypeOK, StoreTypeOK, ServiceTypeOK, MgrTypeOK
    <2> QED
      BY <1>3, <2>1, <2>2, <2>3 DEF CheckStream
  <1>4. CASE CheckDeleted
    BY <1>4
       DEF CheckDeleted, storeVars, kernelVars, serviceVars, TypeOK, StoreTypeOK,
           ServiceTypeOK, MgrTypeOK
  <1>5. ASSUME NEW s \in Streams, NEW i \in Ids, InviteFailed(s, i) PROVE TypeOK'
    <2>1. releaseSession(s) /\ UNCHANGED <<port>>
      BY <1>5 DEF InviteFailed, releaseSession
    <2> QED
      BY <1>5, <2>1, ReleaseType DEF InviteFailed, TypeOK, MgrTypeOK
  <1>6. ASSUME NEW s \in Streams, NEW i \in Ids, InviteAccepted(s, i) PROVE TypeOK'
    <2>1. storeTasks' \in Seq(Task)
      <3>1. CASE existStoreSes(storeSess[s])
        BY <1>6, <3>1, PostType
           DEF InviteAccepted, startStore, existStoreSes, TypeOK, ServiceTypeOK, StoreTypeOK, Ops
      <3>2. CASE ~ existStoreSes(storeSess[s])
        BY <1>6, <3>2 DEF InviteAccepted, TypeOK, StoreTypeOK
      <3> QED BY <3>1, <3>2
    <2> QED
      BY <1>6, <2>1
         DEF InviteAccepted, kernelVars, serviceVars, TypeOK, StoreTypeOK, ServiceTypeOK, MgrTypeOK
  <1>7. CASE ClockMoves
    BY <1>7
       DEF ClockMoves, storeVars, serviceVars, TypeOK, StoreTypeOK, ServiceTypeOK, MgrTypeOK
  <1>8. CASE Discard
    BY <1>8
       DEF Discard, DropSession, Destroy, kernelVars, mgrVars, TypeOK, StoreTypeOK,
           ServiceTypeOK, MgrTypeOK
  <1>9. CASE StoreThread
    BY <1>9, StoreThreadType
  <1>10. CASE UNCHANGED vars
    BY <1>10
       DEF vars, storeVars, serviceVars, mgrVars, TypeOK, StoreTypeOK, ServiceTypeOK, MgrTypeOK
  <1> QED
    BY <1>1, <1>2, <1>3, <1>4, <1>5, <1>6, <1>7, <1>8, <1>9, <1>10 DEF Next

\* Every variable of the data server keeps its type: sessions are numbered
\* within the bound, port_ wraps, and tasks name sessions.
THEOREM TypeCorrect == SafeSpec => []TypeOK
  BY InitType, TypeInductive, PTL DEF SafeSpec

----------------------------------------------------------------------------
(* The list of the store loop under the steps that change it.              *)

LEMMA Posted ==
    ASSUME storeTasks \in Seq(Task), NEW op \in Ops, NEW i \in Ids, Post(op, i)
    PROVE  /\ Len(storeTasks) \in Nat /\ Len(storeTasks') = Len(storeTasks) + 1
           /\ \A k \in 1 .. Len(storeTasks) : storeTasks'[k] = storeTasks[k]
           /\ storeTasks'[Len(storeTasks) + 1] = [op |-> op, id |-> i]
           /\ \A k \in 1 .. Len(storeTasks') : k \in 1 .. Len(storeTasks) \/ k = Len(storeTasks) + 1
  BY DEF Post, Task

LEMMA Popped ==
    ASSUME storeTasks \in Seq(Task), storeTasks # <<>>, storeTasks' = Tail(storeTasks)
    PROVE  /\ Len(storeTasks) \in Nat /\ Len(storeTasks') = Len(storeTasks) - 1
           /\ Head(storeTasks) = storeTasks[1] /\ 1 \in 1 .. Len(storeTasks)
           /\ \A k \in 1 .. Len(storeTasks') :
                storeTasks'[k] = storeTasks[k + 1] /\ k + 1 \in 1 .. Len(storeTasks)
  OBVIOUS

\* What createStream does to the registry: nothing, or a session numbered id_ + 1
\* whose bind is queued, registered and given to the stream or about to be dropped.
LEMMA Created ==
    ASSUME TypeOK, NEW s \in Streams, createStream(s)
    PROVE  /\ UNCHANGED <<kernelVars, fault>>
           /\ \/ UNCHANGED <<id_, obj, chan, storeTasks, sessions, dropping, storeSess>>
              \/ /\ id_ + 1 \in Ids /\ id_' = id_ + 1
                 /\ obj' = [obj EXCEPT ![id_ + 1] = "live"]
                 /\ \E c \in {"null", "wild"} : chan' = [chan EXCEPT ![id_ + 1] = c]
                 /\ Post("bind", id_ + 1)
                 /\ \/ /\ sessions' = sessions \cup {id_ + 1} /\ dropping' = 0
                       /\ storeSess' = [storeSess EXCEPT ![s] = id_ + 1]
                    \/ /\ UNCHANGED <<sessions, storeSess>> /\ dropping' = id_ + 1
  <1> PICK ret \in {0, 1} :
        LET sesId == newStoreSesResult(ret)
        IN  /\ newStoreSes(ret)
            /\ storeSess' = IF sesId # 0 THEN [storeSess EXCEPT ![s] = sesId] ELSE storeSess
    BY DEF createStream
  <1>1. CASE storeSesCount < MaxStoreConn
    <2>1. id_ + 1 \in Ids /\ id_ + 1 # 0 /\ id_' = id_ + 1
      BY <1>1, StoreAssumption DEF newStoreSes, TypeOK, ServiceTypeOK, Ids
    <2> QED
      BY <1>1, <2>1 DEF newStoreSes, newStoreSesResult, Prepare
  <1>2. CASE ~ (storeSesCount < MaxStoreConn)
    BY <1>2 DEF newStoreSes, newStoreSesResult
  <1> QED
    BY <1>1, <1>2

----------------------------------------------------------------------------
(* The registry.                                                           *)

LEMMA CreateRegistry ==
    ASSUME TypeOK, Registry, NEW s \in Streams, createStream(s)
    PROVE  Registry'
  <1>1. CASE UNCHANGED <<id_, obj, chan, storeTasks, sessions, dropping, storeSess>>
    BY <1>1 DEF Registry
  <1>2. ASSUME id_ + 1 \in Ids, id_' = id_ + 1,
               obj' = [obj EXCEPT ![id_ + 1] = "live"],
               \/ /\ sessions' = sessions \cup {id_ + 1} /\ dropping' = 0
                  /\ storeSess' = [storeSess EXCEPT ![s] = id_ + 1]
               \/ /\ UNCHANGED <<sessions, storeSess>> /\ dropping' = id_ + 1
        PROVE  Registry'
    <2>1. id_ \in Nat /\ sessions \subseteq Ids /\ id_ + 1 \notin sessions
      BY DEF TypeOK, ServiceTypeOK, Registry, Ids
    <2>2. \A i \in sessions' : obj'[i] = "live" /\ i <= id_'
      <3>1. \A i \in sessions : i \in Ids /\ i # id_ + 1 /\ i <= id_ + 1
        BY <2>1 DEF Registry, Ids
      <3>2. \A i \in sessions : obj'[i] = "live"
        BY <1>2, <3>1 DEF Registry, TypeOK, StoreTypeOK
      <3>3. obj'[id_ + 1] = "live" /\ id_ + 1 <= id_'
        BY <1>2, <2>1 DEF TypeOK, StoreTypeOK
      <3> QED BY <1>2, <3>1, <3>2, <3>3
    <2>3. dropping' # 0 => dropping' <= id_' /\ dropping' \notin sessions'
      BY <1>2, <2>1
    <2>4. \A x \in Streams : storeSess[x] # id_ + 1
      BY <2>1 DEF Registry
    <2>5. storeSess \in [Streams -> Ids \cup {0}]
      BY DEF TypeOK, MgrTypeOK
    <2>6. /\ \A x \in Streams : storeSess'[x] # 0 => storeSess'[x] \in sessions'
          /\ \A x, y \in Streams : storeSess'[x] # 0 /\ storeSess'[x] = storeSess'[y] => x = y
      BY <1>2, <2>4, <2>5 DEF Registry
    <2> QED
      BY <2>2, <2>3, <2>6 DEF Registry
  <1> QED
    BY <1>1, <1>2, Created

LEMMA ReleaseRegistry ==
    ASSUME TypeOK, Registry, NEW s \in Streams, releaseSession(s)
    PROVE  Registry'
  BY DEF releaseSession, Registry, serviceVars, TypeOK, MgrTypeOK

LEMMA RegistryInductive == TypeOK /\ Registry /\ NothingDeleted /\ [Next]_vars
                             => Registry' /\ NothingDeleted'
  <1> SUFFICES ASSUME TypeOK, Registry, NothingDeleted, [Next]_vars
               PROVE  Registry' /\ NothingDeleted'
    OBVIOUS
  <1>0. ASSUME UNCHANGED <<obj, serviceVars, storeSess>> PROVE Registry'
    BY <1>0 DEF Registry, serviceVars
  <1>1. CASE UpdateStorePlanEmpty \/ \E p \in Plans : UpdateStorePlan(p)
    BY <1>0, <1>1
       DEF UpdateStorePlanEmpty, UpdateStorePlan, diffStorePlan, FoundAtOtherEnd,
           NothingDeleted, storeVars
  <1>2. CASE CheckStorePlan \/ ClockMoves
    BY <1>0, <1>2 DEF CheckStorePlan, ClockMoves, NothingDeleted, storeVars
  <1>3. ASSUME NEW s \in Streams, CheckStream(s) PROVE Registry' /\ NothingDeleted'
    <2>1. NothingDeleted'
      BY <1>3 DEF CheckStream, NothingDeleted
    <2>2. CASE createStream(s)
      BY <2>1, <2>2, CreateRegistry
    <2>3. CASE stopStream(s)
      BY <2>1, <2>3, ReleaseRegistry DEF stopStream
    <2>4. CASE UNCHANGED <<storeVars, serviceVars, delPlans, storeSess, port, invites>>
      BY <1>0, <2>1, <2>4 DEF storeVars
    <2> QED
      BY <1>3, <2>2, <2>3, <2>4 DEF CheckStream
  <1>4. CASE CheckDeleted
    BY <1>0, <1>4 DEF CheckDeleted, NothingDeleted, storeVars
  <1>5. ASSUME NEW s \in Streams, NEW i \in Ids, InviteFailed(s, i)
        PROVE  Registry' /\ NothingDeleted'
    BY <1>5, ReleaseRegistry DEF InviteFailed, NothingDeleted
  <1>6. ASSUME NEW s \in Streams, NEW i \in Ids, InviteAccepted(s, i)
        PROVE  Registry' /\ NothingDeleted'
    BY <1>0, <1>6 DEF InviteAccepted, NothingDeleted
  <1>7. CASE Discard
    <2>1. Registry'
      BY <1>7 DEF Discard, DropSession, Destroy, Registry, mgrVars, TypeOK, StoreTypeOK,
                  ServiceTypeOK
    <2> QED
      BY <1>7, <2>1 DEF Discard, NothingDeleted, mgrVars
  <1>8. CASE StoreThread
    <2>1. UNCHANGED obj
      BY <1>8 DEF StoreThread, RunStoreTask, TouchFreed, Perform, bindAddr, attatchToLoop, closeUDP
    <2> QED
      BY <1>0, <1>8, <2>1 DEF StoreThread, NothingDeleted, mgrVars
  <1>9. CASE UNCHANGED vars
    BY <1>0, <1>9 DEF vars, storeVars, mgrVars, NothingDeleted
  <1> QED
    BY <1>1, <1>2, <1>3, <1>4, <1>5, <1>6, <1>7, <1>8, <1>9 DEF Next

LEMMA RegistryInvariant == SafeSpec => [](TypeOK /\ Registry /\ NothingDeleted)
  <1>1. Init => Registry /\ NothingDeleted
    BY DEF Init, ServiceInit, MgrInit, Registry, NothingDeleted
  <1> QED
    BY <1>1, InitType, TypeInductive, RegistryInductive, PTL DEF SafeSpec

\* Whatever plans, checks, refusals and failed creations came before, the
\* manager's map leads every stream to a live session of its own.
THEOREM SessionsAlwaysResolve == SafeSpec => []SessionsResolve
  <1>1. TypeOK /\ Registry => SessionsResolve
    BY DEF Registry, SessionsResolve, existStream
  <1> QED
    BY <1>1, RegistryInvariant, PTL

\* checkStorePlan never follows a null session pointer.
THEOREM CheckIsSafe == SafeSpec => CheckNeverDereferencesNull
  <1> DEFINE A == Checking /\ fault = "none" => fault' # "null"
  <1>1. TypeOK /\ Registry /\ NothingDeleted /\ [Next]_vars => [A]_vars
    <2> SUFFICES ASSUME TypeOK, Registry, NothingDeleted, Next, Checking, fault = "none"
                 PROVE  fault' # "null"
      BY DEF vars, storeVars
    <2>1. ASSUME NEW s \in Streams, CheckStream(s) PROVE fault' # "null"
      <3>1. CASE createStream(s)
        BY <3>1, Created
      <3>2. CASE existStream(s) /\ stopStream(s)
        BY <3>2 DEF stopStream, releaseSession, existStream, existStoreSes, Registry
      <3> QED
        BY <2>1, <3>1, <3>2 DEF CheckStream, storeVars
    <2>2. CASE CheckDeleted
      BY <2>2 DEF CheckDeleted, NothingDeleted, storeVars
    <2>3. CASE ClockMoves \/ Discard
      BY <2>3 DEF ClockMoves, Discard, DropSession, storeVars
    <2>4. CASE StoreThread
      BY <2>4 DEF StoreThread, RunStoreTask, TouchFreed, Perform, bindAddr, attatchToLoop, closeUDP
    <2> QED
      BY <2>1, <2>2, <2>3, <2>4
         DEF Next, AdminIdle, UpdateStorePlan, UpdateStorePlanEmpty, CheckStorePlan,
             InviteFailed, InviteAccepted
  <1> QED
    BY <1>1, RegistryInvariant, PTL DEF SafeSpec, CheckNeverDereferencesNull

\* What the loop of checkStorePlan has been through already: a stream that is not to
\* be recorded now has no session, and gets none before the check is over.
Checked ==
    Checking => \A s \in DOMAIN curPlans \ todo : storeSess[s] # 0 => now \in curPlans[s]

LEMMA CheckedInductive == TypeOK /\ Checked /\ [Next]_vars => Checked'
  <1> SUFFICES ASSUME TypeOK, Checked, [Next]_vars PROVE Checked'
    OBVIOUS
  <1>1. ASSUME UNCHANGED <<curPlans, storeSess, now, todo>> PROVE Checked'
    BY <1>1 DEF Checked, Checking
  <1>2. ASSUME ~ Checking, UNCHANGED now PROVE Checked'
    BY <1>2 DEF Checked, Checking
  <1>3. CASE UpdateStorePlanEmpty \/ \E p \in Plans : UpdateStorePlan(p)
    BY <1>2, <1>3 DEF UpdateStorePlanEmpty, UpdateStorePlan, AdminIdle
  <1>4. CASE CheckStorePlan
    BY <1>4 DEF CheckStorePlan, Checked
  <1>5. ASSUME NEW s \in Streams, CheckStream(s) PROVE Checked'
    <2>1. /\ UNCHANGED <<curPlans, now>> /\ todo' = todo \ {s} /\ Checking
          /\ s \in todo
      BY <1>5 DEF CheckStream
    <2>2. \A t \in Streams \ {s} : storeSess'[t] = storeSess[t]
      BY <1>5 DEF CheckStream, createStream, stopStream, releaseSession, TypeOK, MgrTypeOK
    <2>3. now \notin curPlans[s] => storeSess'[s] = 0
      BY <1>5 DEF CheckStream, existStream, stopStream, releaseSession, TypeOK, MgrTypeOK
    <2>4. DOMAIN curPlans \subseteq Streams
      BY MgrAssumption DEF TypeOK, MgrTypeOK, NoPlan
    <2> QED
      BY <2>1, <2>2, <2>3, <2>4 DEF Checked, Checking
  <1>6. CASE CheckDeleted
    BY <1>6 DEF CheckDeleted, Checked, Checking
  <1>7. ASSUME NEW s \in Streams, NEW i \in Ids, InviteFailed(s, i) \/ InviteAccepted(s, i)
        PROVE  Checked'
    BY <1>2, <1>7 DEF InviteFailed, InviteAccepted, AdminIdle
  <1>8. CASE ClockMoves \/ Discard \/ StoreThread \/ UNCHANGED vars
    BY <1>1, <1>8 DEF ClockMoves, Discard, StoreThread, vars, mgrVars
  <1> QED
    BY <1>3, <1>4, <1>5, <1>6, <1>7, <1>8 DEF Next

\* When checkStorePlan returns, what is not planned for the slot it read is not
\* recorded, for any plan and any order in which its streams are visited.
THEOREM ChecksStopUnplanned == SafeSpec => CheckStopsUnplanned
  <1> DEFINE A == Checking /\ now' = Idle =>
                    \A s \in DOMAIN curPlans : storeSess'[s] # 0 => now \in curPlans[s]
  <1>1. TypeOK /\ NothingDeleted /\ Checked /\ [Next]_vars => [A]_vars
    <2> SUFFICES ASSUME TypeOK, NothingDeleted, Checked, Next, Checking, now' = Idle
                 PROVE  \A s \in DOMAIN curPlans : storeSess'[s] # 0 => now \in curPlans[s]
      OBVIOUS
    <2>1. CheckDeleted
      <3>1. now' # now
        BY DEF Checking
      <3> QED
        BY <3>1 DEF Next, Checking, UpdateStorePlanEmpty, UpdateStorePlan, CheckStorePlan,
                    AdminIdle, CheckStream, InviteFailed, InviteAccepted, ClockMoves, Discard,
                    StoreThread, mgrVars
    <2>2. todo = {} /\ storeSess' = storeSess
      BY <2>1 DEF CheckDeleted, NothingDeleted
    <2> QED
      BY <2>2 DEF Checked
  <1>2. Init => Checked
    BY DEF Init, MgrInit, Checked, Checking
  <1> QED
    BY <1>1, <1>2, CheckedInductive, RegistryInvariant, PTL DEF SafeSpec, CheckStopsUnplanned

----------------------------------------------------------------------------
(* The order of the operations on a session.                               *)

LEMMA CreateOrdered ==
    ASSUME TypeOK, Registry, TasksOrdered, NEW s \in Streams, createStream(s)
    PROVE  TasksOrdered'
  <1>0. UNCHANGED did
    BY Created DEF kernelVars
  <1>1. CASE UNCHANGED <<id_, obj, chan, storeTasks, sessions, dropping, storeSess>>
    BY <1>0, <1>1 DEF TasksOrdered, TaskFits, PairsOrdered, BindQueued, HeldNotClosed
  <1>2. ASSUME id_ + 1 \in Ids, id_' = id_ + 1, Post("bind", id_ + 1),
               \/ /\ sessions' = sessions \cup {id_ + 1}
                  /\ storeSess' = [storeSess EXCEPT ![s] = id_ + 1]
               \/ UNCHANGED <<sessions, storeSess>>
        PROVE  TasksOrdered'
    <2> DEFINE n == Len(storeTasks)
    <2>1. /\ n \in Nat /\ Len(storeTasks') = n + 1
          /\ \A k \in 1 .. n : storeTasks'[k] = storeTasks[k]
          /\ storeTasks'[n + 1] = [op |-> "bind", id |-> id_ + 1]
          /\ \A k \in 1 .. Len(storeTasks') : k \in 1 .. n \/ k = n + 1
      BY <1>2, Posted DEF TypeOK, StoreTypeOK, Ops
    <2> HIDE DEF n
    <2>2. id_ \in Nat /\ did[id_ + 1] = "new"
      BY <1>2 DEF TasksOrdered, HeldNotClosed, TypeOK, ServiceTypeOK
    <2>3. \A k \in 1 .. n : /\ storeTasks[k] \in Task /\ storeTasks[k].id \in Ids
                            /\ storeTasks[k].id # id_ + 1 /\ storeTasks[k].id <= id_ + 1
      <3>1. \A k \in 1 .. n : storeTasks[k] \in Task
        BY DEF n, TypeOK, StoreTypeOK
      <3> QED
        BY <2>2, <3>1 DEF n, TasksOrdered, TaskFits, Task, Ids
    <2>4. \A x \in Streams : storeSess'[x] = storeSess[x] \/ storeSess'[x] = id_ + 1
      BY <1>2 DEF TypeOK, MgrTypeOK
    <2>5. sessions \subseteq sessions' /\ sessions' \subseteq sessions \cup {id_ + 1}
      BY <1>2
    <2>6. \A k \in 1 .. n :
              /\ did[storeTasks[k].id] # "close"
              /\ storeTasks[k].op = "bind" => did[storeTasks[k].id] = "new"
              /\ storeTasks[k].op # "bind" => storeTasks[k].id \in sessions
              /\ storeTasks[k].op = "close" => \A x \in Streams : storeSess[x] # storeTasks[k].id
      BY DEF n, TasksOrdered, TaskFits
    <2>7. TaskFits'
      <3> SUFFICES ASSUME NEW k \in 1 .. Len(storeTasks')
                   PROVE  /\ storeTasks'[k].id <= id_'
                          /\ did'[storeTasks'[k].id] # "close"
                          /\ storeTasks'[k].op = "bind" => did'[storeTasks'[k].id] = "new"
                          /\ storeTasks'[k].op # "bind" => storeTasks'[k].id \in sessions'
                          /\ storeTasks'[k].op = "close" =>
                               \A x \in Streams : storeSess'[x] # storeTasks'[k].id
        BY DEF TaskFits
      <3>1. CASE k \in 1 .. n
        BY <1>0, <1>2, <2>1, <2>3, <2>4, <2>5, <2>6, <3>1
      <3>2. CASE k = n + 1
        BY <1>0, <1>2, <2>1, <2>2, <3>2
      <3> QED BY <2>1, <3>1, <3>2
    <2>8. PairsOrdered'
      <3> SUFFICES ASSUME NEW k \in 1 .. Len(storeTasks'), NEW l \in 1 .. Len(storeTasks'),
                          k < l, storeTasks'[k].id = storeTasks'[l].id
                   PROVE  storeTasks'[l].op # "bind" /\ storeTasks'[k].op # "close"
        BY DEF PairsOrdered
      <3>1. k \in 1 .. n
        BY <2>1
      <3>2. l \in 1 .. n
        BY <2>1, <2>3, <3>1
      <3> QED
        BY <2>1, <3>1, <3>2 DEF n, TasksOrdered, PairsOrdered
    <2>9. BindQueued'
      <3> SUFFICES ASSUME NEW j \in sessions', did'[j] = "new"
                   PROVE  \E k \in 1 .. Len(storeTasks') :
                              storeTasks'[k] = [op |-> "bind", id |-> j]
        BY DEF BindQueued
      <3>1. CASE j = id_ + 1
        BY <2>1, <3>1
      <3>2. CASE j \in sessions
        <4> PICK k \in 1 .. n : storeTasks[k] = [op |-> "bind", id |-> j]
          BY <1>0, <3>2 DEF n, TasksOrdered, BindQueued
        <4>1. k \in 1 .. Len(storeTasks') /\ storeTasks'[k] = storeTasks[k]
          BY <2>1
        <4> QED BY <4>1
      <3> QED BY <2>5, <3>1, <3>2
    <2>10. HeldNotClosed'
      <3>1. \A i \in Ids : i > id_' => did'[i] = "new"
        BY <1>0, <1>2, <2>2 DEF TasksOrdered, HeldNotClosed, Ids
      <3>2. \A x \in Streams : storeSess'[x] # 0 => did'[storeSess'[x]] # "close"
        BY <1>0, <2>2, <2>4 DEF TasksOrdered, HeldNotClosed
      <3> QED BY <3>1, <3>2 DEF HeldNotClosed
    <2> QED
      BY <2>7, <2>8, <2>9, <2>10 DEF TasksOrdered
  <1> QED
    BY <1>1, <1>2, Created

\* Appending an attach or a close for a session that a stream has.
LEMMA PostOrdered ==
    ASSUME TypeOK, Registry, TasksOrdered, NEW s \in Streams, storeSess[s] # 0,
           NEW op \in {"attach", "close"}, Post(op, storeSess[s]),
           UNCHANGED <<did, id_, sessions>>,
           op = "attach" => UNCHANGED storeSess,
           op = "close" => storeSess' = [storeSess EXCEPT ![s] = 0]
    PROVE  TasksOrdered'
  <1> DEFINE n == Len(storeTasks)
             i == storeSess[s]
  <1>0. i \in sessions /\ i \in Ids /\ i <= id_ /\ did[i] # "close" /\ op \in Ops
    BY DEF Registry, TypeOK, ServiceTypeOK, TasksOrdered, HeldNotClosed, Ops
  <1>1. /\ n \in Nat /\ Len(storeTasks') = n + 1
        /\ \A k \in 1 .. n : storeTasks'[k] = storeTasks[k]
        /\ storeTasks'[n + 1] = [op |-> op, id |-> i]
        /\ \A k \in 1 .. Len(storeTasks') : k \in 1 .. n \/ k = n + 1
    BY <1>0, Posted DEF TypeOK, StoreTypeOK
  <1>2. \A k \in 1 .. n :
            /\ storeTasks[k].id <= id_
            /\ did[storeTasks[k].id] # "close"
            /\ storeTasks[k].op = "bind" => did[storeTasks[k].id] = "new"
            /\ storeTasks[k].op # "bind" => storeTasks[k].id \in sessions
            /\ storeTasks[k].op = "close" => \A x \in Streams : storeSess[x] # storeTasks[k].id
    BY DEF TasksOrdered, TaskFits
  <1>3. \A x \in Streams : storeSess'[x] = storeSess[x] \/ storeSess'[x] = 0
    BY DEF TypeOK, MgrTypeOK
  <1>4. op = "close" => \A x \in Streams : storeSess'[x] # i
    BY <1>0 DEF Registry, TypeOK, MgrTypeOK, Ids
  <1>5. \A k \in 1 .. n : storeTasks[k] \in Task /\ storeTasks[k].id \in Ids /\ storeTasks[k].id # 0
    <2>1. \A k \in 1 .. n : storeTasks[k] \in Task
      BY DEF TypeOK, StoreTypeOK
    <2> QED BY <2>1 DEF Task, Ids
  <1>6. \A k \in 1 .. n : storeTasks[k].op # "close" \/ storeTasks[k].id # i
    BY <1>2
  <1> HIDE DEF n, i
  <1>7. TaskFits'
    <2> SUFFICES ASSUME NEW k \in 1 .. Len(storeTasks')
                 PROVE  /\ storeTasks'[k].id <= id_'
                        /\ did'[storeTasks'[k].id] # "close"
                        /\ storeTasks'[k].op = "bind" => did'[storeTasks'[k].id] = "new"
                        /\ storeTasks'[k].op # "bind" => storeTasks'[k].id \in sessions'
                        /\ storeTasks'[k].op = "close" =>
                             \A x \in Streams : storeSess'[x] # storeTasks'[k].id
      BY DEF TaskFits
    <2>1. CASE k \in 1 .. n
      BY <1>1, <1>2, <1>3, <1>5, <2>1
    <2>2. CASE k = n + 1
      BY <1>0, <1>1, <1>4, <2>2
    <2> QED BY <1>1, <2>1, <2>2
  <1>8. PairsOrdered'
    <2> SUFFICES ASSUME NEW k \in 1 .. Len(storeTasks'), NEW l \in 1 .. Len(storeTasks'),
                        k < l, storeTasks'[k].id = storeTasks'[l].id
                 PROVE  storeTasks'[l].op # "bind" /\ storeTasks'[k].op # "close"
      BY DEF PairsOrdered
    <2>1. k \in 1 .. n
      BY <1>1
    <2>2. CASE l \in 1 .. n
      BY <1>1, <2>1, <2>2 DEF n, TasksOrdered, PairsOrdered
    <2>3. CASE l = n + 1
      BY <1>1, <1>6, <2>1, <2>3
    <2> QED BY <1>1, <2>2, <2>3
  <1>9. BindQueued'
    <2> SUFFICES ASSUME NEW j \in sessions, did[j] = "new"
                 PROVE  \E k \in 1 .. Len(storeTasks') :
                            storeTasks'[k] = [op |-> "bind", id |-> j]
      BY DEF BindQueued
    <2> PICK k \in 1 .. n : storeTasks[k] = [op |-> "bind", id |-> j]
      BY DEF n, TasksOrdered, BindQueued
    <2>1. k \in 1 .. Len(storeTasks') /\ storeTasks'[k] = storeTasks[k]
      BY <1>1
    <2> QED BY <2>1
  <1>10. HeldNotClosed'
    BY <1>3 DEF TasksOrdered, HeldNotClosed
  <1> QED
    BY <1>7, <1>8, <1>9, <1>10 DEF TasksOrdered

\* The first task: its session has been bound, or the task is its bind.
LEMMA HeadInOrder ==
    ASSUME TypeOK, TasksOrdered, storeTasks # <<>>
    PROVE  LET t == storeTasks[1]
           IN  /\ t \in Task
               /\ t.op = "bind" => did[t.id] = "new"
               /\ t.op = "attach" => did[t.id] \in {"bind", "attach"} /\ t.id \in sessions
               /\ t.op = "close" => did[t.id] \in {"bind", "attach"} /\ t.id \in sessions
  <1>1. 1 \in 1 .. Len(storeTasks) /\ storeTasks[1] \in Task
    BY DEF TypeOK, StoreTypeOK
  <1> DEFINE t == storeTasks[1]
  <1>2. /\ did[t.id] # "close" /\ (t.op = "bind" => did[t.id] = "new")
        /\ (t.op # "bind" => t.id \in sessions)
    BY <1>1 DEF TasksOrdered, TaskFits
  <1>3. t.id \in Ids /\ t.op \in Ops /\ did[t.id] \in {"new"} \cup Ops
    BY <1>1 DEF Task, TypeOK, StoreTypeOK
  <1>4. ASSUME t.op # "bind", did[t.id] = "new" PROVE FALSE
    <2> PICK k \in 1 .. Len(storeTasks) : storeTasks[k] = [op |-> "bind", id |-> t.id]
      BY <1>2, <1>4 DEF TasksOrdered, BindQueued
    <2>1. k # 1
      BY <1>4
    <2>2. 1 < k /\ storeTasks[k].id = t.id /\ storeTasks[k].op = "bind"
      BY <2>1
    <2> QED
      BY <1>1, <2>2 DEF TasksOrdered, PairsOrdered
  <1> HIDE DEF t
  <1>5. did[t.id] \in {"new", "bind", "attach"}
    BY <1>2, <1>3 DEF Ops
  <1> QED
    BY <1>1, <1>2, <1>4, <1>5 DEF t

LEMMA StoreOrdered ==
    ASSUME TypeOK, TasksOrdered, StoreThread, fault' = "none"
    PROVE  TasksOrdered'
  <1> DEFINE t == storeTasks[1]
             n == Len(storeTasks)
  <1>1. /\ n \in Nat /\ Len(storeTasks') = n - 1 /\ 1 \in 1 .. n
        /\ \A k \in 1 .. Len(storeTasks') : storeTasks'[k] = storeTasks[k + 1] /\ k + 1 \in 1 .. n
        /\ t = Head(storeTasks)
    BY Popped DEF TypeOK, StoreTypeOK, StoreThread, RunStoreTask
  <1>2. /\ t \in Task /\ t.id \in Ids
        /\ did' = [did EXCEPT ![t.id] = t.op]
        /\ UNCHANGED <<id_, sessions, storeSess>>
    <2>1. t \in Task
      BY HeadInOrder DEF StoreThread, RunStoreTask
    <2> QED
      BY <1>1, <2>1
         DEF Task, StoreThread, RunStoreTask, TouchFreed, Perform, serviceVars, mgrVars
  <1>3. \A i \in Ids : did'[i] = IF i = t.id THEN t.op ELSE did[i]
    BY <1>2 DEF TypeOK, StoreTypeOK
  <1>4. \A k \in 2 .. n : storeTasks[k].id = t.id =>
            storeTasks[k].op # "bind" /\ t.op # "close"
    BY <1>1 DEF TasksOrdered, PairsOrdered
  <1>5. \A k \in 1 .. n : storeTasks[k] \in Task /\ storeTasks[k].id \in Ids
    <2>1. \A k \in 1 .. n : storeTasks[k] \in Task
      BY DEF TypeOK, StoreTypeOK
    <2> QED BY <2>1 DEF Task
  <1>6. \A k \in 1 .. n :
            /\ storeTasks[k].id <= id_
            /\ did[storeTasks[k].id] # "close"
            /\ storeTasks[k].op = "bind" => did[storeTasks[k].id] = "new"
            /\ storeTasks[k].op # "bind" => storeTasks[k].id \in sessions
            /\ storeTasks[k].op = "close" => \A x \in Streams : storeSess[x] # storeTasks[k].id
    BY DEF TasksOrdered, TaskFits
  <1>7. TaskFits'
    <2> SUFFICES ASSUME NEW k \in 1 .. Len(storeTasks')
                 PROVE  /\ storeTasks'[k].id <= id_
                        /\ did'[storeTasks'[k].id] # "close"
                        /\ storeTasks'[k].op = "bind" => did'[storeTasks'[k].id] = "new"
                        /\ storeTasks'[k].op # "bind" => storeTasks'[k].id \in sessions
                        /\ storeTasks'[k].op = "close" =>
                             \A x \in Streams : storeSess[x] # storeTasks'[k].id
      BY <1>2 DEF TaskFits
    <2>1. storeTasks'[k] = storeTasks[k + 1] /\ k + 1 \in 1 .. n /\ k + 1 \in 2 .. n
      BY <1>1
    <2> DEFINE u == storeTasks[k + 1]
    <2>2. u.id \in Ids /\ (u.id = t.id => u.op # "bind" /\ t.op # "close")
      BY <1>4, <1>5, <2>1
    <2>3. did'[u.id] = IF u.id = t.id THEN t.op ELSE did[u.id]
      BY <1>3, <2>2
    <2> QED
      BY <1>6, <2>1, <2>2, <2>3
  <1>8. PairsOrdered'
    <2> SUFFICES ASSUME NEW k \in 1 .. Len(storeTasks'), NEW l \in 1 .. Len(storeTasks'),
                        k < l, storeTasks'[k].id = storeTasks'[l].id
                 PROVE  storeTasks'[l].op # "bind" /\ storeTasks'[k].op # "close"
      BY DEF PairsOrdered
    <2>1. /\ storeTasks'[k] = storeTasks[k + 1] /\ storeTasks'[l] = storeTasks[l + 1]
          /\ k + 1 \in 1 .. n /\ l + 1 \in 1 .. n /\ k + 1 < l + 1
      BY <1>1
    <2> QED
      BY <2>1 DEF TasksOrdered, PairsOrdered
  <1>9. BindQueued'
    <2> SUFFICES ASSUME NEW j \in sessions, did'[j] = "new"
                 PROVE  \E k \in 1 .. Len(storeTasks') :
                            storeTasks'[k] = [op |-> "bind", id |-> j]
      BY <1>2 DEF BindQueued
    <2>1. j \in Ids /\ j # t.id /\ did[j] = "new"
      BY <1>2, <1>3 DEF TypeOK, ServiceTypeOK, Task, Ops
    <2> PICK k \in 1 .. n : storeTasks[k] = [op |-> "bind", id |-> j]
      BY <2>1 DEF TasksOrdered, BindQueued
    <2>2. k # 1
      BY <2>1
    <2>3. k - 1 \in 1 .. Len(storeTasks') /\ storeTasks'[k - 1] = storeTasks[(k - 1) + 1]
      BY <1>1, <2>2
    <2>4. storeTasks'[k - 1] = storeTasks[k]
      BY <1>1, <2>3
    <2> QED BY <2>3, <2>4
  <1>10. HeldNotClosed'
    <2>1. \A i \in Ids : i > id_ => did'[i] = "new"
      <3>1. t.id <= id_ /\ id_ \in Nat
        BY <1>1, <1>6 DEF TypeOK, ServiceTypeOK
      <3> QED
        BY <1>3, <3>1 DEF TasksOrdered, HeldNotClosed, Ids
    <2>2. \A x \in Streams : storeSess[x] # 0 => did'[storeSess[x]] # "close"
      <3>1. t.op = "close" => \A x \in Streams : storeSess[x] # t.id
        BY <1>1, <1>6
      <3>2. \A x \in Streams : storeSess[x] # 0 => storeSess[x] \in Ids
        BY DEF TypeOK, MgrTypeOK
      <3> QED
        BY <1>3, <3>1, <3>2 DEF TasksOrdered, HeldNotClosed
    <2> QED
      BY <1>2, <2>1, <2>2 DEF HeldNotClosed
  <1> QED
    BY <1>7, <1>8, <1>9, <1>10 DEF TasksOrdered

OInv == TypeOK /\ Registry /\ NothingDeleted /\ (fault = "none" => TasksOrdered)

LEMMA OrderInductive == OInv /\ [Next]_vars => OInv'
  <1> SUFFICES ASSUME OInv, [Next]_vars, fault' = "none" PROVE TasksOrdered'
    BY TypeInductive, RegistryInductive DEF OInv
  <1> USE DEF OInv
  <1>0. ASSUME UNCHANGED <<storeTasks, did, fault, id_, sessions, storeSess>>
        PROVE  TasksOrdered'
    BY <1>0 DEF TasksOrdered, TaskFits, PairsOrdered, BindQueued, HeldNotClosed
  <1>1. ASSUME NEW s \in Streams, fault = "none", releaseSession(s) PROVE TasksOrdered'
    <2>1. storeSess[s] \in sessions /\ storeSess[s] # 0 /\ Post("close", storeSess[s])
      BY <1>1 DEF releaseSession, existStoreSes, stopStore, TypeOK, ServiceTypeOK, Ids
    <2>2. UNCHANGED <<did, id_, sessions>> /\ storeSess' = [storeSess EXCEPT ![s] = 0]
      BY <1>1 DEF releaseSession, kernelVars, serviceVars
    <2> QED
      BY <1>1, <2>1, <2>2, PostOrdered
  <1>2. CASE \/ UpdateStorePlanEmpty \/ \E p \in Plans : UpdateStorePlan(p)
             \/ CheckStorePlan \/ ClockMoves
    BY <1>0, <1>2
       DEF UpdateStorePlanEmpty, UpdateStorePlan, CheckStorePlan, ClockMoves, storeVars, serviceVars
  <1>3. ASSUME NEW s \in Streams, CheckStream(s) PROVE TasksOrdered'
    <2>1. fault = "none"
      BY <1>3 DEF CheckStream
    <2>2. CASE createStream(s)
      BY <2>1, <2>2, CreateOrdered
    <2>3. CASE stopStream(s)
      BY <1>1, <2>1, <2>3 DEF stopStream
    <2>4. CASE UNCHANGED <<storeVars, serviceVars, delPlans, storeSess, port, invites>>
      BY <1>0, <2>4 DEF storeVars, serviceVars
    <2> QED
      BY <1>3, <2>2, <2>3, <2>4 DEF CheckStream
  <1>4. CASE CheckDeleted
    BY <1>0, <1>4 DEF CheckDeleted, NothingDeleted, storeVars, serviceVars
  <1>5. ASSUME NEW s \in Streams, NEW i \in Ids, InviteFailed(s, i) PROVE TasksOrdered'
    BY <1>1, <1>5 DEF InviteFailed, AdminIdle
  <1>6. ASSUME NEW s \in Streams, NEW i \in Ids, InviteAccepted(s, i) PROVE TasksOrdered'
    <2>1. storeSess[s] \in sessions /\ storeSess[s] # 0 /\ Post("attach", storeSess[s])
      BY <1>6 DEF InviteAccepted, existStoreSes, startStore, TypeOK, ServiceTypeOK, Ids
    <2>2. fault = "none" /\ UNCHANGED <<did, id_, sessions, storeSess>>
      BY <1>6 DEF InviteAccepted, AdminIdle, kernelVars, serviceVars
    <2> QED
      BY <2>1, <2>2, PostOrdered
  <1>7. CASE Discard
    BY <1>0, <1>7 DEF Discard, DropSession, kernelVars, mgrVars
  <1>8. CASE StoreThread
    <2>1. fault = "none"
      BY <1>8 DEF StoreThread, RunStoreTask
    <2> QED
      BY <1>8, <2>1, StoreOrdered
  <1>9. CASE UNCHANGED vars
    BY <1>0, <1>9 DEF vars, storeVars, serviceVars, mgrVars
  <1> QED
    BY <1>2, <1>3, <1>4, <1>5, <1>6, <1>7, <1>8, <1>9 DEF Next

LEMMA OrderInit == Init => OInv
  <1> SUFFICES ASSUME Init PROVE OInv
    OBVIOUS
  <1>1. TypeOK
    BY InitType
  <1>2. Registry /\ NothingDeleted
    BY DEF Init, ServiceInit, MgrInit, Registry, NothingDeleted
  <1>3. storeTasks = <<>> /\ Len(storeTasks) = 0 /\ sessions = {}
    BY DEF Init, StoreInit, ServiceInit
  <1>4. TaskFits /\ PairsOrdered /\ BindQueued
    BY <1>3 DEF TaskFits, PairsOrdered, BindQueued
  <1>5. HeldNotClosed
    BY DEF Init, StoreInit, MgrInit, HeldNotClosed
  <1> QED
    BY <1>1, <1>2, <1>4, <1>5 DEF OInv, TasksOrdered

LEMMA OrderInvariant == SafeSpec => []OInv
  BY OrderInit, OrderInductive, PTL DEF SafeSpec

\* Steps other than the store thread's leave the history of operations alone.
LEMMA OnlyStoreThreadActs ==
    ASSUME TypeOK, NothingDeleted, Next, ~ StoreThread
    PROVE  UNCHANGED <<did, fd, sock, watch, unbound>>
  <1>1. ASSUME NEW s \in Streams, CheckStream(s) PROVE UNCHANGED kernelVars
    <2>1. CASE createStream(s)
      BY <2>1, Created
    <2>2. CASE stopStream(s)
      BY <2>2 DEF stopStream, releaseSession
    <2>3. CASE UNCHANGED storeVars
      BY <2>3 DEF storeVars, kernelVars
    <2> QED
      BY <1>1, <2>1, <2>2, <2>3 DEF CheckStream
  <1>2. ASSUME \/ UpdateStorePlanEmpty \/ \E p \in Plans : UpdateStorePlan(p)
               \/ CheckStorePlan \/ ClockMoves
        PROVE  UNCHANGED kernelVars
    BY <1>2 DEF UpdateStorePlanEmpty, UpdateStorePlan, CheckStorePlan, ClockMoves,
                storeVars, kernelVars
  <1>3. ASSUME CheckDeleted PROVE UNCHANGED kernelVars
    BY <1>3 DEF CheckDeleted, NothingDeleted, storeVars, kernelVars
  <1>4. ASSUME NEW s \in Streams, NEW i \in Ids, InviteFailed(s, i) \/ InviteAccepted(s, i)
        PROVE  UNCHANGED kernelVars
    BY <1>4 DEF InviteFailed, InviteAccepted, releaseSession
  <1>5. ASSUME Discard PROVE UNCHANGED kernelVars
    BY <1>5 DEF Discard, DropSession
  <1>6. UNCHANGED kernelVars
    BY <1>1, <1>2, <1>3, <1>4, <1>5 DEF Next
  <1> QED
    BY <1>6 DEF kernelVars

\* The store thread binds, attaches and closes each session in that order, binds and
\* closes it once, and runs nothing for it after the close, whatever the admin thread
\* has posted.
THEOREM LifecycleIsKept == SafeSpec => SessionLifecycle
  <1> DEFINE A == StoreThread =>
                    <<did[Head(storeTasks).id], Head(storeTasks).op>> \in
                        {<<"new", "bind">>, <<"bind", "attach">>, <<"attach", "attach">>,
                         <<"bind", "close">>, <<"attach", "close">>}
  <1>1. OInv /\ [Next]_vars => [A]_vars
    <2> SUFFICES ASSUME OInv, StoreThread PROVE A
      BY DEF vars
    <2> DEFINE t == storeTasks[1]
    <2>1. /\ fault = "none" /\ storeTasks # <<>> /\ t = Head(storeTasks)
      BY DEF StoreThread, RunStoreTask, OInv, TypeOK, StoreTypeOK
    <2>2. /\ t \in Task
          /\ t.op = "bind" => did[t.id] = "new"
          /\ t.op = "attach" => did[t.id] \in {"bind", "attach"}
          /\ t.op = "close" => did[t.id] \in {"bind", "attach"}
      BY <2>1, HeadInOrder DEF OInv
    <2>3. t.op \in {"bind", "attach", "close"}
      BY <2>2 DEF Task, Ops
    <2> HIDE DEF t
    <2> QED
      BY <2>1, <2>2, <2>3
  <1> QED
    BY <1>1, OrderInvariant, PTL DEF SafeSpec, SessionLifecycle

----------------------------------------------------------------------------
(* Sockets, channels and the epoll set.                                    *)

IInv == OInv /\ ChannelsOwned /\ SocketsHeld

\* The admin thread touches channel_ only when it makes a new session, and never
\* takes one out of the registry.
LEMMA AdminLeavesChannels ==
    ASSUME TypeOK, NothingDeleted, Next, ~ StoreThread
    PROVE  /\ sessions \subseteq sessions'
           /\ \A i \in Ids : chan'[i] = "open" => chan[i] = "open"
           /\ \A i \in Ids : i # id_ + 1 => chan'[i] = chan[i]
  <1> DEFINE Kept == /\ sessions \subseteq sessions'
                     /\ \A i \in Ids : chan'[i] = "open" => chan[i] = "open"
                     /\ \A i \in Ids : i # id_ + 1 => chan'[i] = chan[i]
  <1>1. ASSUME UNCHANGED <<chan, sessions>> PROVE Kept
    BY <1>1
  <1>2. ASSUME NEW s \in Streams, CheckStream(s) PROVE Kept
    <2>1. CASE createStream(s)
      BY <2>1, Created DEF TypeOK, StoreTypeOK
    <2>2. CASE stopStream(s)
      BY <1>1, <2>2 DEF stopStream, releaseSession, serviceVars
    <2>3. CASE UNCHANGED <<storeVars, serviceVars>>
      BY <1>1, <2>3 DEF storeVars, serviceVars
    <2> QED
      BY <1>2, <2>1, <2>2, <2>3 DEF CheckStream
  <1>3. ASSUME \/ UpdateStorePlanEmpty \/ \E p \in Plans : UpdateStorePlan(p)
               \/ CheckStorePlan \/ ClockMoves
        PROVE  Kept
    BY <1>1, <1>3 DEF UpdateStorePlanEmpty, UpdateStorePlan, CheckStorePlan, ClockMoves,
                      storeVars, serviceVars
  <1>4. ASSUME CheckDeleted PROVE Kept
    BY <1>1, <1>4 DEF CheckDeleted, NothingDeleted, storeVars, serviceVars
  <1>5. ASSUME NEW s \in Streams, NEW i \in Ids, InviteFailed(s, i) \/ InviteAccepted(s, i)
        PROVE  Kept
    BY <1>1, <1>5 DEF InviteFailed, InviteAccepted, releaseSession, serviceVars
  <1>6. ASSUME Discard PROVE Kept
    BY <1>1, <1>6 DEF Discard, DropSession
  <1> HIDE DEF Kept
  <1>7. Kept
    BY <1>2, <1>3, <1>4, <1>5, <1>6 DEF Next
  <1> QED
    BY <1>7 DEF Kept

LEMMA AdminKeepsSockets ==
    ASSUME IInv, Next, ~ StoreThread
    PROVE  ChannelsOwned' /\ SocketsHeld'
  <1> USE DEF IInv, OInv
  <1>1. UNCHANGED <<did, fd, sock, watch, unbound>>
    BY OnlyStoreThreadActs
  <1>2. /\ sessions \subseteq sessions'
        /\ \A i \in Ids : chan'[i] = "open" => chan[i] = "open"
        /\ \A i \in Ids : i # id_ + 1 => chan'[i] = chan[i]
    BY AdminLeavesChannels
  <1>3. SocketsHeld'
    BY <1>1 DEF SocketsHeld
  <1>4. \A i \in Ids : chan[i] = "open" => i # id_ + 1
    BY DEF ChannelsOwned, Registry, TypeOK, ServiceTypeOK, Ids
  <1>5. \A f \in Fds : watch[f] # Closed => watch[f] \in Ids
    BY DEF TypeOK, StoreTypeOK
  <1>6. ChannelsOwned'
    BY <1>1, <1>2, <1>4, <1>5 DEF ChannelsOwned
  <1> QED
    BY <1>3, <1>6

\* Two sessions that both hold a socket hold different descriptors.
LEMMA OwnDescriptor ==
    ASSUME IInv, unbound = {}, NEW i \in Ids, NEW j \in Ids, i # j,
           did[i] \in {"bind", "attach"}, did[j] \in {"bind", "attach"}
    PROVE  fd[i] # fd[j]
  BY DEF IInv, SocketsHeld

LEMMA BindKeepsSockets ==
    ASSUME IInv, NEW i \in Ids, did[i] = "new", bindAddr(i),
           did' = [did EXCEPT ![i] = "bind"], UNCHANGED sessions
    PROVE  ChannelsOwned' /\ SocketsHeld'
  <1> USE DEF IInv, OInv
  <1>1. /\ did \in [Ids -> {"new"} \cup Ops] /\ fd \in [Ids -> Fds \cup {0, NoFd}]
        /\ sock \in [Fds -> Ids \cup {Closed}] /\ watch \in [Fds -> Ids \cup {Closed}]
    BY DEF TypeOK, StoreTypeOK
  <1>2. \A j \in Ids : j # i => did'[j] = did[j] /\ fd'[j] = fd[j]
    BY <1>1 DEF bindAddr
  <1>3. did'[i] = "bind" /\ UNCHANGED <<chan, watch>>
    BY <1>1 DEF bindAddr
  <1>4. ChannelsOwned'
    BY <1>1, <1>2, <1>3 DEF ChannelsOwned
  <1>5. ASSUME unbound' = {} PROVE SocketsHeld'
    <2> PICK f \in Fds : /\ LowestFree(f) /\ fd' = [fd EXCEPT ![i] = f]
                         /\ sock' = [sock EXCEPT ![f] = i] /\ unbound' = unbound
      BY <1>5 DEF bindAddr
    <2>1. sock[f] = Closed /\ fd'[i] = f /\ sock'[f] = i
      BY <1>1 DEF LowestFree, OpenFds
    <2>2. \A j \in Ids : did[j] \in {"bind", "attach"} =>
              fd[j] \in Fds /\ fd[j] # f /\ sock'[fd[j]] = j
      BY <1>1, <1>5, <2>1 DEF SocketsHeld, Ids, Closed
    <2> QED
      BY <1>2, <1>3, <1>5, <2>1, <2>2 DEF SocketsHeld
  <1>6. SocketsHeld'
    BY <1>5 DEF SocketsHeld
  <1> QED
    BY <1>4, <1>6

LEMMA AttachKeepsSockets ==
    ASSUME IInv, NEW i \in sessions, did[i] \in {"bind", "attach"}, attatchToLoop(i),
           did' = [did EXCEPT ![i] = "attach"], UNCHANGED sessions
    PROVE  ChannelsOwned' /\ SocketsHeld'
  <1> USE DEF IInv, OInv
  <1>1. /\ did \in [Ids -> {"new"} \cup Ops] /\ fd \in [Ids -> Fds \cup {0, NoFd}]
        /\ sock \in [Fds -> Ids \cup {Closed}] /\ watch \in [Fds -> Ids \cup {Closed}]
        /\ chan \in [Ids -> {"null", "wild", "open"}] /\ i \in Ids
    BY DEF TypeOK, StoreTypeOK, ServiceTypeOK
  <1>2. \A j \in Ids : j # i => did'[j] = did[j] /\ chan'[j] = chan[j]
    BY <1>1 DEF attatchToLoop
  <1>3. did'[i] = "attach" /\ chan'[i] = "open" /\ UNCHANGED <<fd, sock, unbound>>
    BY <1>1 DEF attatchToLoop
  <1>4. \A f \in Fds : watch'[f] = watch[f] \/ (f = fd[i] /\ watch'[f] = i /\ watch[f] = Closed)
    BY <1>1 DEF attatchToLoop
  <1>5. ChannelsOwned'
    BY <1>1, <1>2, <1>3, <1>4 DEF ChannelsOwned
  <1>6. ASSUME unbound = {} PROVE SocketsHeld'
    <2>1. fd[i] \in Fds /\ sock[fd[i]] = i /\ fd[i] \in OpenFds
      BY <1>1, <1>6 DEF SocketsHeld, OpenFds, Ids, Closed
    <2>2. watch'[fd[i]] = i
      <3>1. CASE watch[fd[i]] = Closed
        BY <1>1, <2>1, <3>1 DEF attatchToLoop
      <3>2. CASE watch[fd[i]] # Closed
        <4>1. watch[fd[i]] \in Ids /\ chan[watch[fd[i]]] = "open" /\ fd[watch[fd[i]]] = fd[i]
          BY <1>1, <2>1, <3>2 DEF ChannelsOwned
        <4>2. watch[fd[i]] = i
          BY <1>1, <1>6, <4>1, OwnDescriptor DEF ChannelsOwned
        <4> QED BY <1>4, <2>1, <3>2, <4>2
      <3> QED BY <3>1, <3>2
    <2>3. \A j \in Ids : j # i /\ did[j] = "attach" => watch'[fd[j]] = j
      <3> SUFFICES ASSUME NEW j \in Ids, j # i, did[j] = "attach" PROVE watch'[fd[j]] = j
        OBVIOUS
      <3>1. fd[j] \in Fds /\ watch[fd[j]] = j /\ fd[j] # fd[i]
        BY <1>1, <1>6, OwnDescriptor DEF SocketsHeld
      <3> QED BY <1>4, <3>1
    <2> QED
      BY <1>1, <1>2, <1>3, <1>6, <2>1, <2>2, <2>3 DEF SocketsHeld
  <1>7. SocketsHeld'
    BY <1>3, <1>6 DEF SocketsHeld
  <1> QED
    BY <1>5, <1>7

LEMMA CloseKeepsSockets ==
    ASSUME IInv, NEW i \in Ids, did[i] \in {"bind", "attach"}, closeUDP(i),
           did' = [did EXCEPT ![i] = "close"], UNCHANGED sessions
    PROVE  ChannelsOwned' /\ SocketsHeld'
  <1> USE DEF IInv, OInv
  <1>1. /\ did \in [Ids -> {"new"} \cup Ops] /\ fd \in [Ids -> Fds \cup {0, NoFd}]
        /\ sock \in [Fds -> Ids \cup {Closed}] /\ watch \in [Fds -> Ids \cup {Closed}]
        /\ chan \in [Ids -> {"null", "wild", "open"}]
    BY DEF TypeOK, StoreTypeOK
  <1>2. \A j \in Ids : j # i => did'[j] = did[j] /\ chan'[j] = chan[j]
    BY <1>1 DEF closeUDP
  <1>3. did'[i] = "close" /\ chan'[i] = "null" /\ UNCHANGED <<fd, unbound>>
    BY <1>1 DEF closeUDP
  <1>4. \A f \in Fds : f # fd[i] => sock'[f] = sock[f] /\ watch'[f] = watch[f]
    BY <1>1 DEF closeUDP
  <1>5. fd[i] \in Fds => \/ chan[i] = "open" /\ watch'[fd[i]] = Closed
                         \/ chan[i] # "open" /\ watch' = watch /\ sock' = sock
    BY <1>1 DEF closeUDP
  <1>6. ChannelsOwned'
    <2>1. \A f \in Fds : watch'[f] # Closed =>
              watch[f] \in Ids /\ watch'[f] = watch[f] /\ watch[f] # i
      BY <1>1, <1>4, <1>5 DEF ChannelsOwned
    <2> QED
      BY <1>1, <1>2, <1>3, <2>1 DEF ChannelsOwned
  <1>7. ASSUME unbound = {} PROVE SocketsHeld'
    <2>1. \A j \in Ids : j # i /\ did[j] \in {"bind", "attach"} => fd[j] # fd[i]
      BY <1>7, OwnDescriptor
    <2> QED
      BY <1>1, <1>2, <1>3, <1>4, <1>7, <2>1 DEF SocketsHeld
  <1>8. SocketsHeld'
    BY <1>3, <1>7 DEF SocketsHeld
  <1> QED
    BY <1>6, <1>8

LEMMA SocketsInductive == IInv /\ [Next]_vars => IInv'
  <1> SUFFICES ASSUME IInv, [Next]_vars PROVE ChannelsOwned' /\ SocketsHeld'
    BY OrderInductive DEF IInv
  <1>1. CASE Next /\ ~ StoreThread
    BY <1>1, AdminKeepsSockets
  <1>2. CASE StoreThread
    <2> DEFINE t == storeTasks[1]
    <2>1. /\ fault = "none" /\ storeTasks # <<>> /\ t = Head(storeTasks) /\ UNCHANGED sessions
      BY <1>2 DEF StoreThread, RunStoreTask, IInv, OInv, TypeOK, StoreTypeOK, serviceVars
    <2>2. /\ t \in Task
          /\ t.op = "bind" => did[t.id] = "new"
          /\ t.op = "attach" => did[t.id] \in {"bind", "attach"} /\ t.id \in sessions
          /\ t.op = "close" => did[t.id] \in {"bind", "attach"}
      BY <2>1, HeadInOrder DEF IInv, OInv
    <2>3. t.id \in Ids
      BY <2>2 DEF Task
    <2>4. Perform(t.op, t.id) \/ TouchFreed
      BY <1>2, <2>1 DEF StoreThread, RunStoreTask
    <2> HIDE DEF t
    <2>5. CASE TouchFreed
      BY <2>1, <2>5 DEF TouchFreed, IInv, ChannelsOwned, SocketsHeld
    <2>6. CASE Perform(t.op, t.id)
      <3>1. CASE t.op = "bind" /\ bindAddr(t.id)
        BY <2>1, <2>2, <2>3, <2>6, <3>1, BindKeepsSockets DEF Perform
      <3>2. CASE t.op = "attach" /\ attatchToLoop(t.id)
        BY <2>1, <2>2, <2>3, <2>6, <3>2, AttachKeepsSockets DEF Perform
      <3>3. CASE t.op = "close" /\ closeUDP(t.id)
        BY <2>1, <2>2, <2>3, <2>6, <3>3, CloseKeepsSockets DEF Perform
      <3> QED
        BY <2>6, <3>1, <3>2, <3>3 DEF Perform
    <2> QED
      BY <2>4, <2>5, <2>6
  <1>3. CASE UNCHANGED vars
    BY <1>3 DEF vars, storeVars, serviceVars, IInv, ChannelsOwned, SocketsHeld
  <1> QED
    BY <1>1, <1>2, <1>3

LEMMA SocketsInvariant == SafeSpec => []IInv
  <1>1. Init => OInv
    BY OrderInit
  <1>2. Init => ChannelsOwned /\ SocketsHeld
    BY DEF Init, StoreInit, ChannelsOwned, SocketsHeld
  <1> QED
    BY <1>1, <1>2, SocketsInductive, PTL DEF SafeSpec, IInv

\* A descriptor that the store loop's epoll set reports leads to a live session
\* with its channel, also after binds that failed and left a stale fd_.
THEOREM EpollIsSafe == SafeSpec => []EpollLeadsToChannel
  <1>1. IInv => EpollLeadsToChannel
    BY DEF IInv, OInv, TypeOK, StoreTypeOK, Registry, ChannelsOwned, EpollLeadsToChannel
  <1> QED
    BY <1>1, SocketsInvariant, PTL

\* While no bind has failed, no session's socket is closed or unwatched by the
\* close of another one.
THEOREM SocketsAreHeld == SafeSpec => []SocketsHeld
  <1>1. IInv => SocketsHeld
    BY DEF IInv
  <1> QED
    BY <1>1, SocketsInvariant, PTL

----------------------------------------------------------------------------
(* The recording buffers.                                                  *)


\* cap() is what is left behind b_, as long as b_ is inside the buffer: the
\* subtraction of size_t does not wrap.
LEMMA CapInside ==
    ASSUME NEW at \in 0 .. BufSize
    PROVE  cap(at) = BufSize - at
<1> DEFINE x == BufSize - at
<1>1. x \in Nat /\ x < Word /\ Word \in Nat \ {0}
    BY SizesAssumption
<1>2. (Word + x) % Word = x
    BY <1>1, SMTT(30)
<1>. QED  BY <1>2, SizesAssumption DEF cap

\* What Append does to the records.
LEMMA Appended ==
    ASSUME NEW s \in Seq(Record), NEW r \in Record
    PROVE  /\ Append(s, r) \in Seq(Record) /\ Len(s) \in Nat
           /\ DOMAIN s = 1 .. Len(s) /\ DOMAIN Append(s, r) = 1 .. Len(s) + 1
           /\ Len(Append(s, r)) = Len(s) + 1
           /\ Append(s, r)[Len(s) + 1] = r
           /\ \A k \in 1 .. Len(s) : Append(s, r)[k] = s[k] /\ s[k] \in Record
           /\ Len(s) = 0 <=> s = <<>>
OBVIOUS

\* The offsets and lengths of records are numbers.
LEMMA RecordFields ==
    ASSUME NEW r \in Record PROVE r.at \in Nat /\ r.len \in Nat
BY SizesAssumption DEF Record

\* The buffer and the records after a datagram of length len was received and consumed.
NewMem(len) == consume(Recvfrom(Len(recs) + 1, len), len).mem
NewRecs(len) == Append(recs, [at |-> b, len |-> len])

\* A length fits into a uint16_t.
LEMMA LengthFits == ASSUME NEW len \in 0 .. PacketSize PROVE len % LenSpace = len
<1>1. len \in Nat /\ LenSpace \in Nat \ {0} /\ len < LenSpace
    BY SizesAssumption
<1>. QED  BY <1>1, SMTT(30)

\* Byte for byte: the datagram is at b_, its length in front of it, the rest is as before.
LEMMA Consumed ==
    ASSUME BufTypeOK, NEW len \in 0 .. PacketSize
    PROVE  /\ consume(Recvfrom(Len(recs) + 1, len), len).b = b + len + 2
           /\ b + len + 2 \in Nat
           /\ NewMem(len) \in [Offsets -> Byte]
           /\ \A a \in Offsets :
                 NewMem(len)[a] = IF a \in b - 2 .. b - 1 THEN LenByte(len, a - (b - 2))
                                  ELSE IF a \in b .. b + len - 1 THEN Datum(Len(recs) + 1, a - b)
                                  ELSE buf[a]
<1> DEFINE n == Len(recs) + 1
<1>1. b \in Nat /\ len \in Nat /\ n \in Nat /\ BufSize \in Nat
    BY SizesAssumption DEF BufTypeOK
<1> HIDE DEF n
<1>2. NewMem(len) = appendValue(Recvfrom(n, len), b - 2, len)
    BY LengthFits DEF NewMem, consume, n
<1>3. \A a \in Offsets :
         NewMem(len)[a] = IF a \in b - 2 .. b - 1 THEN LenByte(len, a - (b - 2))
                          ELSE IF a \in b .. b + len - 1 THEN Datum(n, a - b) ELSE buf[a]
    BY <1>1, <1>2 DEF appendValue, Recvfrom, Offsets
<1>4. NewMem(len) = [a \in Offsets |-> NewMem(len)[a]]
    BY <1>2 DEF appendValue
<1>5. ASSUME NEW a \in Offsets PROVE NewMem(len)[a] \in Byte
  <2>1. a \in Int /\ buf[a] \in Byte
      BY <1>1 DEF BufTypeOK, Offsets
  <2>2. CASE a \in b - 2 .. b - 1
    <3>1. a - (b - 2) \in Nat
        BY <1>1, <2>1, <2>2
    <3>2. LenByte(len, a - (b - 2)) \in Byte
        BY <1>1, <3>1 DEF LenByte, Byte
    <3>. QED  BY <1>3, <2>2, <3>2
  <2>3. CASE a \notin b - 2 .. b - 1 /\ a \in b .. b + len - 1
    <3>1. a - b \in Nat
        BY <1>1, <2>1, <2>3
    <3>2. Datum(n, a - b) \in Byte
        BY <1>1, <3>1 DEF Datum, Byte
    <3>. QED  BY <1>3, <2>3, <3>2
  <2>4. CASE a \notin b - 2 .. b - 1 /\ a \notin b .. b + len - 1
      BY <1>3, <2>1, <2>4
  <2>. QED  BY <2>2, <2>3, <2>4
<1>6. NewMem(len) \in [Offsets -> Byte]
    BY <1>4, <1>5
<1>. QED  BY <1>1, <1>3, <1>6 DEF consume, n

\* What the read callback does, in the terms of these lemmas.
LEMMA Received ==
    ASSUME BufTypeOK, NEW len \in 0 .. PacketSize, Receive(len)
    PROVE  /\ ~overrun /\ overrun' = (b + len > BufSize)
           /\ small' = (small /\ len + 2 <= LoWater)
           /\ \/ /\ ~isFull(b + len + 2)
                 /\ b' = b + len + 2 /\ buf' = NewMem(len) /\ recs' = NewRecs(len)
                 /\ next' = next /\ full' = full
              \/ /\ isFull(b + len + 2)
                 /\ b' = 0 /\ buf' = [a \in Offsets |-> Stale] /\ recs' = <<>>
                 /\ next' = NewMem(len) /\ full' = NewRecs(len)
<1>1. DOMAIN next = Offsets
    BY DEF BufTypeOK
<1>2. consume(Recvfrom(Len(recs) + 1, len), len).b = b + len + 2
    BY Consumed
<1>. QED  BY <1>1, <1>2, Zenon DEF Receive, resetBuf, NewMem, NewRecs

LEMMA NewRecsType ==
    ASSUME BufTypeOK, NEW len \in 0 .. PacketSize
    PROVE  /\ [at |-> b, len |-> len] \in Record /\ recs \in Seq(Record)
           /\ NewRecs(len) \in Seq(Record)
<1>1. [at |-> b, len |-> len] \in Record /\ recs \in Seq(Record)
    BY DEF BufTypeOK, Record
<1>. QED  BY <1>1, Appended DEF NewRecs

LEMMA StaleType == [a \in Offsets |-> Stale] \in [Offsets -> Byte]
BY DEF Stale, Byte

\* The offsets, buffers, records and flags keep their types.
THEOREM BufTypeCorrect == BufSpec => []BufTypeOK
<1>1. BufInit => BufTypeOK
  <2>1. <<>> \in Seq(Record) /\ 2 \in Nat
      OBVIOUS
  <2>. QED  BY <2>1, StaleType, Zenon DEF BufInit, BufTypeOK
<1>2. BufTypeOK /\ [BufNext]_bufVars => BufTypeOK'
  <2> SUFFICES ASSUME BufTypeOK, [BufNext]_bufVars PROVE BufTypeOK'
      OBVIOUS
  <2>1. CASE UNCHANGED bufVars
      BY <2>1 DEF BufTypeOK, bufVars
  <2>2. ASSUME NEW len \in 0 .. PacketSize, Receive(len) PROVE BufTypeOK'
    <3>0. small' \in BOOLEAN
        BY <2>2, Zenon DEF Receive, resetBuf
    <3>1. overrun' \in BOOLEAN
      <4>1. overrun' = (b + len > BufSize)
          BY <2>2, Received, Zenon
      <4>2. (b + len > BufSize) \in BOOLEAN
          BY SizesAssumption DEF BufTypeOK
      <4>. QED  BY <4>1, <4>2, Zenon
    <3>2. NewRecs(len) \in Seq(Record) /\ NewMem(len) \in [Offsets -> Byte] /\ b + len + 2 \in Nat
        BY NewRecsType, Consumed
    <3>3. <<>> \in Seq(Record) /\ 0 \in Nat
        OBVIOUS
    <3>4. b' \in Nat /\ buf' \in [Offsets -> Byte] /\ next' \in [Offsets -> Byte]
          /\ recs' \in Seq(Record) /\ full' \in Seq(Record)
        BY <2>2, <3>2, <3>3, Received, StaleType, Zenon DEF BufTypeOK
    <3>. QED  BY <3>0, <3>1, <3>4, Zenon DEF BufTypeOK
  <2>. QED  BY <2>1, <2>2 DEF BufNext
<1>. QED  BY <1>1, <1>2, PTL DEF BufSpec

\* Where the records of a buffer are: inside of it, each before the offset e, the last
\* one two bytes before it.  ReadsBack is not inductive without it.
Placed(rs, e) ==
    /\ rs = <<>> => e \in {0, 2}
    /\ rs # <<>> => e = rs[Len(rs)].at + rs[Len(rs)].len + 2
    /\ \A n \in DOMAIN rs : /\ rs[n].at + rs[n].len <= BufSize
                            /\ rs[n].at + rs[n].len + 2 <= e

\* A datagram that ends inside the buffer leaves all the others and their lengths as
\* they were, and can be read back with them.
LEMMA ReceivedReadsOn ==
    ASSUME BufTypeOK, NEW len \in 0 .. PacketSize, b + len <= BufSize,
           ReadsOn(buf, recs), FirstLengthFound(buf, recs), Placed(recs, b)
    PROVE  /\ ReadsOn(NewMem(len), NewRecs(len))
           /\ FirstLengthFound(NewMem(len), NewRecs(len))
           /\ Placed(NewRecs(len), b + len + 2)
<1> DEFINE m == NewMem(len)
           rs == NewRecs(len)
           n == Len(recs)
           r == [at |-> b, len |-> len]
<1>1. b \in Nat /\ len \in Nat /\ BufSize \in Nat
    BY SizesAssumption DEF BufTypeOK
<1>2. /\ n \in Nat /\ Len(rs) = n + 1
      /\ DOMAIN recs = 1 .. n /\ DOMAIN rs = 1 .. n + 1
      /\ rs[n + 1] = r
      /\ \A k \in 1 .. n : rs[k] = recs[k] /\ recs[k] \in Record
      /\ n = 0 <=> recs = <<>>
    BY NewRecsType, Appended DEF NewRecs
<1>3. r.at = b /\ r.len = len
    OBVIOUS
<1>4. \A k \in 1 .. n : recs[k].at \in Nat /\ recs[k].len \in Nat
    BY <1>2, RecordFields
<1>5. \A a \in Offsets : m[a] = IF a \in b - 2 .. b - 1 THEN LenByte(len, a - (b - 2))
                               ELSE IF a \in b .. b + len - 1 THEN Datum(n + 1, a - b)
                               ELSE buf[a]
    BY Consumed
<1> HIDE DEF m, rs, n, r
<1>6. \A a \in Offsets : a < b - 2 => m[a] = buf[a]
    BY <1>1, <1>5 DEF Offsets
<1>7. Whole(m, n + 1, r)
    BY <1>1, <1>3, <1>5 DEF Whole, Offsets
<1>8. b >= 2 => LengthFound(m, r)
  <2> SUFFICES ASSUME b >= 2 PROVE LengthFound(m, r)
      OBVIOUS
  <2>1. b - 2 \in Offsets /\ b - 1 \in Offsets
      BY <1>1 DEF Offsets
  <2>2. m[b - 2] = LenByte(len, 0) /\ m[b - 1] = LenByte(len, 1)
      BY <1>1, <1>5, <2>1
  <2>. QED  BY <1>3, <2>2 DEF LengthFound
<1>9. ASSUME NEW k \in 1 .. n
      PROVE  /\ Whole(m, k, recs[k])
             /\ LengthFound(buf, recs[k]) => LengthFound(m, recs[k])
  <2>1. recs[k].at + recs[k].len <= BufSize /\ recs[k].at + recs[k].len + 2 <= b
      BY <1>2 DEF Placed
  <2>2. recs[k].at \in Nat /\ recs[k].len \in Nat
      BY <1>4
  <2>3. Whole(buf, k, recs[k])
      BY <1>2 DEF ReadsOn
  <2>4. ASSUME NEW j \in 0 .. recs[k].len - 1 PROVE m[recs[k].at + j] = Datum(k, j)
    <3>1. recs[k].at + j \in Offsets /\ recs[k].at + j < b - 2
        BY <1>1, <2>1, <2>2 DEF Offsets
    <3>2. buf[recs[k].at + j] = Datum(k, j)
        BY <2>3 DEF Whole
    <3>. QED  BY <1>6, <3>1, <3>2
  <2>5. ASSUME LengthFound(buf, recs[k]) PROVE LengthFound(m, recs[k])
    <3>1. recs[k].at >= 2
        BY <2>5 DEF LengthFound
    <3>2. /\ recs[k].at - 2 \in Offsets /\ recs[k].at - 2 < b - 2
          /\ recs[k].at - 1 \in Offsets /\ recs[k].at - 1 < b - 2
        BY <1>1, <2>1, <2>2, <3>1 DEF Offsets
    <3>. QED  BY <1>6, <2>5, <3>2 DEF LengthFound
  <2>. QED  BY <2>4, <2>5 DEF Whole
<1>10. n # 0 => b = recs[n].at + recs[n].len + 2 /\ b >= 2
    BY <1>2, <1>4 DEF Placed, n
<1>11. ASSUME NEW k \in 1 .. n + 1
       PROVE  /\ Whole(m, k, rs[k])
              /\ k > 1 => /\ rs[k].at = rs[k - 1].at + rs[k - 1].len + 2
                          /\ LengthFound(m, rs[k])
  <2>1. CASE k \in 1 .. n
    <3>1. rs[k] = recs[k] /\ (k > 1 => rs[k - 1] = recs[k - 1])
        BY <1>2, <2>1
    <3>2. k > 1 => recs[k].at = recs[k - 1].at + recs[k - 1].len + 2 /\ LengthFound(buf, recs[k])
        BY <1>2, <2>1 DEF ReadsOn
    <3>. QED  BY <1>9, <2>1, <3>1, <3>2
  <2>2. CASE k = n + 1
    <3>1. rs[k] = r /\ Whole(m, k, r)
        BY <1>2, <1>7, <2>2
    <3>2. k > 1 => n # 0 /\ k - 1 = n /\ n \in 1 .. n
        BY <1>2, <2>2
    <3>3. k > 1 => rs[k - 1] = recs[n]
        BY <1>2, <3>2
    <3>. QED  BY <1>3, <1>8, <1>10, <3>1, <3>2, <3>3
  <2>. QED  BY <1>2, <2>1, <2>2
<1>12. ReadsOn(m, rs)
    BY <1>2, <1>11 DEF ReadsOn
<1>13. FirstLengthFound(m, rs)
  <2>1. CASE n = 0
    <3>1. b \in {0, 2} /\ rs[1] = r
        BY <1>2, <2>1 DEF Placed
    <3>. QED  BY <1>3, <1>8, <3>1 DEF FirstLengthFound
  <2>2. CASE n # 0
    <3>1. 1 \in 1 .. n /\ rs[1] = recs[1] /\ recs # <<>>
        BY <1>2, <2>2
    <3>. QED  BY <1>9, <3>1 DEF FirstLengthFound
  <2>. QED  BY <2>1, <2>2
<1>14. Placed(rs, b + len + 2)
  <2>1. rs # <<>> /\ rs[Len(rs)] = r
      BY <1>2
  <2>2. ASSUME NEW k \in 1 .. n + 1
        PROVE  rs[k].at + rs[k].len <= BufSize /\ rs[k].at + rs[k].len + 2 <= b + len + 2
    <3>1. CASE k \in 1 .. n
      <4>1. recs[k].at + recs[k].len <= BufSize /\ recs[k].at + recs[k].len + 2 <= b
          BY <1>2, <3>1 DEF Placed
      <4>2. rs[k] = recs[k] /\ recs[k].at \in Nat /\ recs[k].len \in Nat
          BY <1>2, <1>4, <3>1
      <4>. QED  BY <1>1, <4>1, <4>2
    <3>2. CASE k = n + 1
        BY <1>1, <1>2, <1>3, <3>2
    <3>. QED  BY <1>2, <3>1, <3>2
  <2>. QED  BY <1>2, <1>3, <2>1, <2>2 DEF Placed
<1>. QED  BY <1>12, <1>13, <1>14 DEF m, rs

\* Every datagram and every length but the first after an exchange can be read back from
\* both buffers, for any number of datagrams of any length and any number of exchanges,
\* until a datagram runs over the end.
THEOREM BuffersReadBack == BufSpec => []ReadsBack
<1> DEFINE RInv == ReadsBack /\ (~overrun => Placed(recs, b))
<1>0. \A m \in [Offsets -> Byte] : ReadsOn(m, <<>>) /\ FirstLengthFound(m, <<>>)
    BY DEF ReadsOn, FirstLengthFound
<1>1. BufInit => RInv
  <2>1. BufInit => Placed(recs, b)
      BY DEF BufInit, Placed
  <2>. QED  BY <1>0, <2>1, StaleType DEF BufInit, ReadsBack
<1>2. BufTypeOK /\ RInv /\ [BufNext]_bufVars => RInv'
  <2> SUFFICES ASSUME BufTypeOK, RInv, [BufNext]_bufVars PROVE RInv'
      OBVIOUS
  <2>1. CASE UNCHANGED bufVars
      BY <2>1 DEF ReadsBack, ReadsOn, Whole, FirstLengthFound, LengthFound, Placed, bufVars
  <2>2. ASSUME NEW len \in 0 .. PacketSize, Receive(len) PROVE RInv'
    <3> SUFFICES ASSUME ~overrun'
                 PROVE  /\ ReadsOn(buf', recs') /\ FirstLengthFound(buf', recs')
                        /\ ReadsOn(next', full') /\ FirstLengthFound(next', full')
                        /\ Placed(recs', b')
        BY DEF ReadsBack, ReadsOn, Whole, FirstLengthFound, LengthFound, Placed
    <3>1. ~overrun /\ ~(b + len > BufSize)
        BY <2>2, Received, Zenon
    <3>2. b + len <= BufSize
        BY <3>1, SizesAssumption DEF BufTypeOK
    <3>3. /\ ReadsOn(buf, recs) /\ FirstLengthFound(buf, recs)
          /\ ReadsOn(next, full) /\ FirstLengthFound(next, full)
          /\ Placed(recs, b)
        BY <3>1 DEF ReadsBack
    <3>4. /\ ReadsOn(NewMem(len), NewRecs(len))
          /\ FirstLengthFound(NewMem(len), NewRecs(len))
          /\ Placed(NewRecs(len), b + len + 2)
        BY <3>2, <3>3, ReceivedReadsOn
    <3>5. Placed(<<>>, 0)
        BY DEF Placed
    <3>. QED  BY <1>0, <2>2, <3>3, <3>4, <3>5, Received, StaleType, Zenon
  <2>. QED  BY <2>1, <2>2 DEF BufNext
<1>. QED  BY <1>1, <1>2, BufTypeCorrect, PTL DEF BufSpec

\* Datagrams that leave two bytes of LOWATER never run over the end of the buffer.
THEOREM SmallAlwaysFits == BufSpec => []SmallFits
<1>1. BufInit => SmallFits
    BY SizesAssumption DEF BufInit, SmallFits
<1>2. BufTypeOK /\ SmallFits /\ [BufNext]_bufVars => SmallFits'
  <2> SUFFICES ASSUME BufTypeOK, SmallFits, [BufNext]_bufVars, small'
               PROVE  (b + LoWater <= BufSize /\ ~overrun)'
      BY DEF SmallFits
  <2>1. CASE UNCHANGED bufVars
      BY <2>1 DEF SmallFits, bufVars
  <2>2. ASSUME NEW len \in 0 .. PacketSize, Receive(len)
        PROVE  (b + LoWater <= BufSize /\ ~overrun)'
    <3>1. small /\ len + 2 <= LoWater /\ b + LoWater <= BufSize
        BY <2>2, Received, Zenon DEF SmallFits
    <3>2. b + len + 2 \in 0 .. BufSize /\ ~(b + len > BufSize)
        BY <3>1, SizesAssumption DEF BufTypeOK
    <3>3. cap(b + len + 2) = BufSize - (b + len + 2)
        BY <3>2, CapInside
    <3>4. ~isFull(b + len + 2) => b + len + 2 + LoWater <= BufSize
        BY <3>2, <3>3, SizesAssumption DEF isFull
    <3>5. 0 + LoWater <= BufSize
        BY SizesAssumption
    <3>6. ~overrun'
        BY <2>2, <3>2, Received, Zenon
    <3>7. (b + LoWater <= BufSize)'
        BY <2>2, <3>4, <3>5, Received, Zenon
    <3>. QED  BY <3>6, <3>7
  <2>. QED  BY <2>1, <2>2 DEF BufNext
<1>. QED  BY <1>1, <1>2, BufTypeCorrect, PTL DEF BufSpec
=============================================================================
