---------------------------- MODULE StoreSession ----------------------------
(***************************************************************************)
(* The recording sessions of the DS and the store thread that works on     *)
(* their sockets.  A session is created and told what to do by the admin   *)
(* thread; every operation on its socket is a closure over the raw `this`  *)
(* handed to the store loop with safeCall, and is run later, in order, by  *)
(* the store thread (Executor.tla is what safeCall promises).              *)
(*                                                                         *)
(* The kernel's side is the table of open sockets (socket() returns the    *)
(* lowest free descriptor) and the epoll set of the store loop.            *)
(***************************************************************************)
EXTENDS Integers, Sequences, Functions

CONSTANTS MaxSes,   \* bound on the sessions ever created; ids are 1 .. MaxSes
          MaxFd     \* descriptors left for sockets: RLIMIT_NOFILE

ASSUME StoreAssumption == MaxSes \in Nat /\ MaxFd \in Nat

Ids == 1 .. MaxSes
Fds == 1 .. MaxFd
NoFd == -1               \* what socket() returns when it fails
Closed == 0              \* sock[f]: no socket; watch[f]: not in the epoll set

VARIABLES obj,           \* the StoreSession object of each id
          fd,            \* its fd_
          chan,          \* its channel_
          sock,          \* per descriptor, the session whose socket() made it
          watch,         \* per descriptor, the session whose channel epoll reports
          storeTasks,    \* the store loop's tasks
          fault,         \* the first undefined behaviour met; the process is gone
          did,           \* history: the last operation run for each session
          unbound        \* history: sessions whose bind() failed

storeVars == <<obj, fd, chan, sock, watch, storeTasks, fault, did, unbound>>
kernelVars == <<fd, sock, watch, did, unbound>>

Ops == {"bind", "attach", "close"}
Task == [op : Ops, id : Ids]

StoreTypeOK ==
    /\ obj \in [Ids -> {"none", "live", "freed"}]
    /\ fd \in [Ids -> Fds \cup {0, NoFd}]
    /\ chan \in [Ids -> {"null", "wild", "open"}]
    /\ sock \in [Fds -> Ids \cup {Closed}]
    /\ watch \in [Fds -> Ids \cup {Closed}]
    /\ storeTasks \in Seq(Task)
    /\ fault \in {"none", "null", "wild", "freed"}
    /\ did \in [Ids -> {"new"} \cup Ops]
    /\ unbound \subseteq Ids

StoreInit ==
    /\ obj = [i \in Ids |-> "none"]
    /\ fd = [i \in Ids |-> 0]
    /\ chan = [i \in Ids |-> "null"]
    /\ sock = [f \in Fds |-> Closed]
    /\ watch = [f \in Fds |-> Closed]
    /\ storeTasks = <<>>
    /\ fault = "none"
    /\ did = [i \in Ids |-> "new"]
    /\ unbound = {}

----------------------------------------------------------------------------
(* What the admin thread does to a session; parts of larger actions.       *)

\* safeCall on the store loop, which has no capacity limit.
Post(op, i) == storeTasks' = Append(storeTasks, [op |-> op, id |-> i])

\* new StoreSession and prePareStore.  The constructor leaves channel_ as the
\* heap had it.
Prepare(i) ==
    /\ obj' = [obj EXCEPT ![i] = "live"]
    /\ \E c \in {"null", "wild"} : chan' = [chan EXCEPT ![i] = c]
    /\ Post("bind", i)

startStore(i) == Post("attach", i)

stopStore(i) == Post("close", i)

\* A session destroyed: the last shared_ptr to it goes away.  Nothing closes
\* its socket or its channel.
Destroy(i) == obj' = [obj EXCEPT ![i] = "freed"]

----------------------------------------------------------------------------
(* The store thread, one closure at a time.                                *)

OpenFds == {f \in Fds : sock[f] # Closed}
LowestFree(f) == f \in Fds \ OpenFds /\ \A g \in Fds \ OpenFds : f <= g

\* A mistake bindAddr could have made: the descriptor kept in a local variable.
bindAddrShadowed(i) ==
    /\ \E f \in Fds : LowestFree(f) /\ sock' = [sock EXCEPT ![f] = i]
    /\ UNCHANGED <<obj, fd, chan, watch, fault, unbound>>

\* bindAddr.  socket() may find no descriptor, as the process has others open too.  A
\* failed bind closes the descriptor and leaves its number in fd_; the result goes
\* nowhere.
bindAddr(i) ==
    /\ \/ /\ fd' = [fd EXCEPT ![i] = NoFd]
          /\ unbound' = unbound \cup {i} /\ UNCHANGED sock
       \/ \E f \in Fds :
             /\ LowestFree(f)
             /\ fd' = [fd EXCEPT ![i] = f]
             /\ \/ sock' = [sock EXCEPT ![f] = i] /\ UNCHANGED unbound
                \/ unbound' = unbound \cup {i} /\ UNCHANGED sock
    /\ UNCHANGED <<obj, chan, watch, fault>>

\* attatchToLoop.  EPOLL_CTL_ADD fails, and is only logged, on a descriptor that
\* is not open or that is in the set already; the channel is kept all the same.
attatchToLoop(i) ==
    /\ chan' = [chan EXCEPT ![i] = "open"]
    /\ watch' = IF fd[i] \in OpenFds /\ watch[fd[i]] = Closed
                THEN [watch EXCEPT ![fd[i]] = i]
                ELSE watch
    /\ UNCHANGED <<obj, fd, sock, fault, unbound>>

\* A mistake closeUDP could have made: the channel is forgotten, not deleted.
closeUDPKeepsChannel(i) ==
    /\ fault' = IF chan[i] = "wild" THEN "wild" ELSE fault
    /\ chan' = [chan EXCEPT ![i] = "null"]
    /\ UNCHANGED <<obj, fd, sock, watch, unbound>>

\* closeUDP: the channel's destructor closes the descriptor, which also leaves
\* the epoll set.  A session that was never attached has no channel to close,
\* or a wild pointer.
closeUDP(i) ==
    /\ fault' = IF chan[i] = "wild" THEN "wild" ELSE fault
    /\ chan' = [chan EXCEPT ![i] = "null"]
    /\ IF chan[i] = "open" /\ fd[i] \in Fds
       THEN /\ sock' = [sock EXCEPT ![fd[i]] = Closed]
            /\ watch' = [watch EXCEPT ![fd[i]] = Closed]
       ELSE UNCHANGED <<sock, watch>>
    /\ UNCHANGED <<obj, fd, unbound>>

Perform(op, i) ==
    /\ did' = [did EXCEPT ![i] = op]
    /\ \/ op = "bind" /\ bindAddr(i)
       \/ op = "attach" /\ attatchToLoop(i)
       \/ op = "close" /\ closeUDP(i)

\* A closure whose session has been destroyed is undefined behaviour.
TouchFreed == fault' = "freed" /\ UNCHANGED <<obj, fd, chan, sock, watch, did, unbound>>

\* The store loop starts the next closure.
RunStoreTask ==
    /\ fault = "none" /\ storeTasks # <<>>
    /\ storeTasks' = Tail(storeTasks)
    /\ LET t == Head(storeTasks)
       IN  \/ obj[t.id] = "live" /\ Perform(t.op, t.id)
           \/ obj[t.id] = "freed" /\ TouchFreed
=============================================================================
