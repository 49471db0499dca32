------------------------------ MODULE TcpServer ------------------------------
(***************************************************************************)
(* handy's TcpServer over a MultiBase, and the idle lists of its event     *)
(* loops: the acceptor deals the connections out to the loops in turn, a   *)
(* connection registers in the list of its idle time when it is connected, *)
(* every read moves its node to the end of that list, and once a second    *)
(* each loop calls back the connections at the front that have been silent *)
(* for long enough; the callback closes the connection.                    *)
(*                                                                         *)
(* A time t is kept as its distance from now, in seconds and no further    *)
(* than Old, so that time has no end.                                      *)
(***************************************************************************)
EXTENDS Naturals, FiniteSets, SequencesExt

CONSTANTS N,             \* number of loops; the first one has the listening socket
          Conns,         \* the connections of the clients
          Idles          \* the idle times in use, in seconds

Bases == 0 .. N - 1

ASSUME ServerAssumption ==
    /\ N \in Nat \ {0}
    /\ IsFiniteSet(Conns)
    /\ Idles \subseteq Nat \ {0} /\ \E m \in Idles : \A i \in Idles : i <= m

VARIABLES backlog,       \* connections the kernel has ready for accept, in order
          next,          \* id_ of the MultiBase, modulo N
          con,           \* the connections: what has become of each, its loop, its idle
                         \* time and, a history, how long ago it was read
          lists,         \* idleConns_ of each loop: a list for each idle time
          tasks,         \* tasks_ of each loop
          timed,         \* loops with idleEnabled, whose timer of one second runs
          due            \* loops whose timer has expired

vars == <<backlog, next, con, lists, tasks, timed, due>>

Old == Max(Idles) + 1
Blank(st) == [st |-> st, base |-> 0, idle |-> Max(Idles), silent |-> 0]
Node(c, t) == [con |-> c, updated |-> t]
Task(w, c) == [what |-> w, con |-> c]

Init ==
    /\ backlog = <<>> /\ next = 1 % N           \* the constructor has taken the first
    /\ con = [c \in Conns |-> Blank("none")]
    /\ lists = [b \in Bases |-> [i \in Idles |-> <<>>]]
    /\ tasks = [b \in Bases |-> <<>>]
    /\ timed = {} /\ due = {}

Registered(c) == con[c].st \in {"open", "closing"}

----------------------------------------------------------------------------
(* The lists.                                                              *)

ListOf(c) == lists[con[c].base][con[c].idle]
SetList(c, l) == lists' = [lists EXCEPT ![con[c].base][con[c].idle] = l]
iter_(c) == CHOOSE k \in DOMAIN ListOf(c) : ListOf(c)[k].con = c

\* A mistake: one idleEnabled for all the loops, so that only the first to register a
\* connection starts its timer.
registerIdleShared(c, i) ==
    /\ timed' = IF timed = {} THEN {con[c].base} ELSE timed
    /\ lists' = [lists EXCEPT ![con[c].base][i] = Append(@, Node(c, 0))]

\* The first connection of a loop starts its repeating timer; the node is the last one
\* of the list of its idle time.
registerIdle(c, i) ==
    /\ timed' = timed \cup {con[c].base}
    /\ lists' = [lists EXCEPT ![con[c].base][i] = Append(@, Node(c, 0))]

\* The node is erased.
unregisterIdle(c) == SetList(c, RemoveAt(ListOf(c), iter_(c)))

\* A mistake: the node stays where it is.
updateIdleInPlace(c) ==
    SetList(c, [k \in DOMAIN ListOf(c) |->
                  IF ListOf(c)[k].con = c THEN Node(c, 0) ELSE ListOf(c)[k]])

\* updated_ becomes now, and the node the last one.
updateIdle(c) == SetList(c, Append(RemoveAt(ListOf(c), iter_(c)), Node(c, 0)))

IsIdle(n, i) == n.updated >= i                     \* ~(updated_ + idle > now)

\* callIdles goes through a copy of the list up to the first node that is not idle;
\* what it writes to the nodes, and their new order, are lost with the copy.
CallIdles(b) ==
    UNION {LET l == lists[b][i] IN
           {l[k].con : k \in {m \in DOMAIN l : \A j \in 1 .. m : IsIdle(l[j], i)}}
           : i \in Idles}

----------------------------------------------------------------------------
(* Accepting.                                                              *)

\* The kernel completes the handshake of a client.
Arrive(c) ==
    /\ con[c].st = "none"
    /\ con' = [con EXCEPT ![c].st = "backlog"]
    /\ backlog' = Append(backlog, c)
    /\ UNCHANGED <<next, lists, tasks, timed, due>>

\* A turn of the loop of handleAccept: addcon is run here, or by the loop it is for.
Accept ==
    LET c == Head(backlog) IN
    /\ backlog # <<>>
    /\ backlog' = Tail(backlog) /\ next' = (next + 1) % N
    /\ \/ /\ next = 0
          /\ con' = [con EXCEPT ![c].base = 0, ![c].st = "attached"]
          /\ UNCHANGED tasks
       \/ /\ next # 0
          /\ con' = [con EXCEPT ![c].base = next, ![c].st = "posted"]
          /\ tasks' = [tasks EXCEPT ![next] = Append(@, Task("addcon", c))]
    /\ UNCHANGED <<lists, timed, due>>

\* getpeername fails, as the client has gone: the descriptor is forgotten.
AcceptFails ==
    /\ backlog # <<>>
    /\ backlog' = Tail(backlog)
    /\ con' = [con EXCEPT ![Head(backlog)].st = "leaked"]
    /\ UNCHANGED <<next, lists, tasks, timed, due>>

----------------------------------------------------------------------------
(* The connections.                                                        *)

\* handleHandshake: the connection is there, and the state callback asks to be told
\* when it has been idle for i seconds.
Connected(c) ==
    /\ con[c].st = "attached"
    /\ \E i \in Idles :
          /\ con' = [con EXCEPT ![c].st = "open", ![c].idle = i]
          /\ registerIdle(c, i)
    /\ UNCHANGED <<backlog, next, tasks, due>>

\* or it is not: cleanup, without a node.
Failed(c) ==
    /\ con[c].st = "attached"
    /\ con' = [con EXCEPT ![c] = Blank("gone")]
    /\ UNCHANGED <<backlog, next, lists, tasks, timed, due>>

\* handleRead up to EAGAIN.
Read(c) ==
    /\ Registered(c)
    /\ updateIdle(c)
    /\ con' = [con EXCEPT ![c].silent = 0]
    /\ UNCHANGED <<backlog, next, tasks, timed, due>>

\* A mistake: cleanup forgets the nodes.
CleanupKeeps(c) ==
    /\ con' = [con EXCEPT ![c] = Blank("gone")]
    /\ UNCHANGED lists

Cleanup(c) ==
    /\ con' = [con EXCEPT ![c] = Blank("gone")]
    /\ unregisterIdle(c)

\* handleRead finds that the client has gone.
PeerCloses(c) ==
    /\ Registered(c)
    /\ Cleanup(c)
    /\ UNCHANGED <<backlog, next, tasks, timed, due>>

\* The rest of addcon, and the task of TcpConn::close.
RunTask(b) ==
    LET t == Head(tasks[b]) IN
    /\ tasks[b] # <<>>
    /\ tasks' = [tasks EXCEPT ![b] = Tail(@)]
    /\ \/ /\ t.what = "addcon"
          /\ con' = [con EXCEPT ![t.con].st = "attached"]
          /\ UNCHANGED lists
       \/ /\ t.what = "close" /\ Registered(t.con)
          /\ Cleanup(t.con)
       \/ /\ t.what = "close" /\ ~Registered(t.con)
          /\ UNCHANGED <<con, lists>>
    /\ UNCHANGED <<backlog, next, timed, due>>

----------------------------------------------------------------------------
(* Time.                                                                   *)

Later(t) == IF t = Old THEN Old ELSE t + 1

\* A second passes; the timers that registerIdle has started come due.
Second ==
    /\ due' = timed
    /\ con' = [c \in Conns |-> IF Registered(c) THEN [con[c] EXCEPT !.silent = Later(@)]
                               ELSE con[c]]
    /\ lists' = [b \in Bases |-> [i \in Idles |->
                   [k \in DOMAIN lists[b][i] |-> [lists[b][i][k] EXCEPT !.updated = Later(@)]]]]
    /\ UNCHANGED <<backlog, next, tasks, timed>>

\* The repeating timer runs callIdles; the callback is con->close(), which posts a task.
\* A pass of the loop runs the tasks before the timers, those of the last tick too.
Tick(b) ==
    /\ b \in due /\ due' = due \ {b}
    /\ \A k \in DOMAIN tasks[b] : tasks[b][k].what # "close"
    /\ \E called \in {SetToSeq(CallIdles(b))} :
          /\ con' = [c \in Conns |-> IF c \in Range(called) THEN [con[c] EXCEPT !.st = "closing"]
                                     ELSE con[c]]
          /\ tasks' = [tasks EXCEPT ![b] = @ \o [k \in DOMAIN called |-> Task("close", called[k])]]
    /\ UNCHANGED <<backlog, next, lists, timed>>

Next ==
    \/ \E b \in Bases : RunTask(b) \/ Tick(b)
    \/ \E c \in Conns : Arrive(c) \/ Connected(c) \/ Failed(c) \/ Read(c) \/ PeerCloses(c)
    \/ Accept \/ AcceptFails
    \/ Second

SafeSpec == Init /\ [][Next]_vars

\* The loops run, an attached connection is writable and reported so, time passes.
Spec == /\ SafeSpec
        /\ \A b \in Bases : WF_vars(RunTask(b)) /\ WF_vars(Tick(b))
        /\ WF_vars(Accept \/ AcceptFails)
        /\ \A c \in Conns : WF_vars(Connected(c) \/ Failed(c))
        /\ WF_vars(Second)

----------------------------------------------------------------------------

\* Every connection that is up has one node, in its loop and in the list of its idle
\* time, and there are no others: an IdleId never leads into a list it has left.
NodesHeld ==
    \A b \in Bases, i \in Idles :
        LET l == lists[b][i] IN
        /\ \A j, k \in DOMAIN l : l[j].con = l[k].con => j = k
        /\ {l[k].con : k \in DOMAIN l}
             = {c \in Conns : Registered(c) /\ con[c].base = b /\ con[c].idle = i}

\* Looking only at the front of each list finds what a look at every connection would:
\* a tick calls back the connections of its loop that were not read for their idle
\* time, and no other.
TickFindsIdle ==
    [][\A b \in Bases : Tick(b) =>
          {c \in Conns : con'[c].st = "closing" /\ con[c].base = b}
            = {c \in Conns : Registered(c) /\ con[c].base = b /\ con[c].silent >= con[c].idle}]_vars

\* A connection that falls silent is closed, on whatever loop it is.
SilentIsClosed ==
    \A c \in Conns :
        (Registered(c) /\ con[c].silent = 1) ~> (con[c].st = "gone" \/ con[c].silent = 0)
=============================================================================
