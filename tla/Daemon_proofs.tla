---------------------------- MODULE Daemon_proofs ----------------------------
(***************************************************************************)
(* One daemon and a pid file that names it, for any number of pids and of  *)
(* operators and any number of tries, when commands are given one after    *)
(* the other.                                                              *)
(***************************************************************************)
EXTENDS Daemon, TLAPS

Places == {"idle", "start", "probe", "fork", "stop", "signal", "wait", "restart", "query"}
CommandStates == [what : Commands, at : Places, pid : Pids \cup {None},
                  tries : 0 .. Tries, code : {0, 1}]

Active(o) == cmd[o].at # "idle"

\* One command at a time, and none while a child of daemonStart is on its way.
Alone == \A o, q \in Operators : Active(o) /\ Active(q) => o = q
Still == \A o \in Operators : Active(o) => \A p \in Pids : proc[p] \notin {"forked", "opened"}

\* The lock is that of the child between open and close.
Locking == \A p \in Pids : lock = p <=> proc[p] = "opened"

Single == \A p, q \in Pids : Claims(p) /\ Claims(q) => p = q
Named == \A p \in Pids : proc[p] = "daemon" => file = p

\* A command that acts on a pid has that of the daemon, if there is one; one that is
\* about to fork has made sure that there is none.
KnowsIt(c) == \A p \in Pids : proc[p] = "daemon" =>
                  /\ c.at \in {"probe", "signal", "wait"} => c.pid = p
                  /\ c.at # "fork"
Knows == \A o \in Operators : KnowsIt(cmd[o])

Order == Alone /\ Still /\ Locking /\ Single /\ Named /\ Knows

\* "stop" stays in daemonStop.
StopsOnly == \A o \in Operators :
                cmd[o].what = "stop" => cmd[o].at \in {"idle", "stop", "signal", "wait"}

IInv == TypeOK /\ StopsOnly /\ (orderly => Order)

----------------------------------------------------------------------------
(* Commands.                                                               *)

\* A step of a command that changes nothing but its own state.
LEMMA OwnStep ==
    ASSUME IInv, NEW o \in Operators, NEW c \in CommandStates,
           cmd' = [cmd EXCEPT ![o] = c],
           UNCHANGED <<proc, file, lock, orderly>>,
           Active(o),
           orderly => KnowsIt(c),
           c.what = "stop" => c.at \in {"idle", "stop", "signal", "wait"}
    PROVE  IInv'
<1>1. cmd \in [Operators -> CommandStates]
    BY DEF IInv, TypeOK, CommandStates, Places
<1>2. cmd'[o] = c /\ \A q \in Operators \ {o} : cmd'[q] = cmd[q]
    BY <1>1
<1>3. TypeOK'
  <2>1. cmd' \in [Operators -> CommandStates]
      BY <1>1
  <2>. QED  BY <2>1 DEF IInv, TypeOK, CommandStates, Places
<1>4. StopsOnly'
    BY <1>2 DEF IInv, StopsOnly
<1>5. ASSUME orderly PROVE Order'
  <2>1. Order /\ KnowsIt(c)
      BY <1>5 DEF IInv
  <2>2. Alone' /\ Still'
      BY <2>1, <1>2, ZenonT(30) DEF Order, Alone, Still, Active
  <2>3. Locking' /\ Single' /\ Named'
      BY <2>1 DEF Order, Locking, Single, Named, Claims
  <2>4. Knows'
      BY <2>1, <1>2 DEF Order, Knows, KnowsIt
  <2>. QED  BY <2>2, <2>3, <2>4 DEF Order
<1>. QED  BY <1>3, <1>4, <1>5 DEF IInv

\* Returning is such a step.
LEMMA ReturnStep ==
    ASSUME IInv, NEW o \in Operators, NEW r \in {0, 1}, Return(o, r), Active(o),
           UNCHANGED <<proc, file, lock, orderly>>
    PROVE  IInv'
<1> DEFINE c == [Idle EXCEPT !.code = r]
<1>1. c \in CommandStates /\ c.at = "idle" /\ c.what = "start"
    BY DaemonAssumption DEF CommandStates, Places, Idle, Commands
<1>2. KnowsIt(c)
    BY <1>1 DEF KnowsIt
<1>3. cmd' = [cmd EXCEPT ![o] = c]
    BY DEF Return
<1> HIDE DEF c
<1>. QED  BY <1>1, <1>2, <1>3, OwnStep

\* Going on is, when what is known of the daemon goes with it.
LEMMA GotoStep ==
    ASSUME IInv, NEW o \in Operators, NEW at \in Places, Goto(o, at), Active(o),
           UNCHANGED <<proc, file, lock, orderly>>,
           at = "fork" \/ at = "probe" => (orderly => \A p \in Pids : proc[p] # "daemon"),
           at \in {"signal", "wait"} => cmd[o].at \in {"probe", "signal", "wait"},
           cmd[o].what = "stop" => at \in {"idle", "stop", "signal", "wait"}
    PROVE  IInv'
<1>1. cmd \in [Operators -> CommandStates]
    BY DEF IInv, TypeOK, CommandStates, Places
<1> DEFINE c == [cmd[o] EXCEPT !.at = at]
<1>2. /\ c \in CommandStates /\ c.at = at
      /\ c.what = cmd[o].what /\ c.pid = cmd[o].pid
    BY <1>1 DEF CommandStates
<1>3. cmd' = [cmd EXCEPT ![o] = c]
    BY <1>1 DEF Goto
<1> HIDE DEF c
<1>4. ASSUME orderly PROVE KnowsIt(c)
  <2>1. KnowsIt(cmd[o])
      BY <1>4 DEF IInv, Order, Knows
  <2>. QED  BY <2>1, <1>2, <1>4 DEF KnowsIt, Places
<1>. QED  BY <1>2, <1>3, <1>4, OwnStep

\* Reading the pid file finds the daemon.
LEMMA ReadStep ==
    ASSUME IInv, NEW o \in Operators, NEW at \in Places \ {"fork"}, ReadPid(o, at), Active(o),
           UNCHANGED <<proc, file, lock, orderly>>,
           cmd[o].what = "stop" => at \in {"idle", "stop", "signal", "wait"}
    PROVE  IInv'
<1>1. cmd \in [Operators -> CommandStates]
    BY DEF IInv, TypeOK, CommandStates, Places
<1> DEFINE c == [cmd[o] EXCEPT !.at = at, !.pid = GetPid]
<1>0. GetPid \in Pids \cup {None}
    BY DEF GetPid
<1>2. /\ c \in CommandStates /\ c.at = at
      /\ c.what = cmd[o].what /\ c.pid = GetPid
    BY <1>0, <1>1 DEF CommandStates
<1>3. cmd' = [cmd EXCEPT ![o] = c]
    BY <1>1 DEF ReadPid
<1> HIDE DEF c
<1>4. ASSUME orderly PROVE KnowsIt(c)
  <2>1. Named
      BY <1>4 DEF IInv, Order
  <2>. QED  BY <2>1, <1>2 DEF KnowsIt, Named, GetPid
<1>. QED  BY <1>2, <1>3, <1>4, OwnStep

\* A command that is given while another one is under way ends the order; otherwise it
\* is the only one.
LEMMA InvokeStep ==
    ASSUME IInv, NEW o \in Operators, NEW w \in Commands, Invoke(o, w)
    PROVE  IInv'
<1>1. cmd \in [Operators -> CommandStates]
    BY DEF IInv, TypeOK, CommandStates, Places
<1> DEFINE c == [Idle EXCEPT !.what = w, !.at = w]
<1>2. c \in CommandStates /\ c.what = w /\ c.at = w
  <2>1. Idle \in CommandStates
      BY DaemonAssumption DEF CommandStates, Places, Idle, Commands
  <2>2. w \in Places
      BY DEF Commands, Places
  <2>. QED  BY <2>1, <2>2 DEF CommandStates
<1>3. cmd' = [cmd EXCEPT ![o] = c] /\ UNCHANGED <<proc, file, lock>>
    BY DEF Invoke
<1> HIDE DEF c
<1>4. cmd'[o] = c /\ (\A q \in Operators \ {o} : cmd'[q] = cmd[q])
      /\ cmd' \in [Operators -> CommandStates]
    BY <1>1, <1>2, <1>3
<1>5. orderly' \in BOOLEAN /\ (orderly' => orderly /\ Settled)
    BY Zenon DEF Invoke
<1>6. TypeOK'
    BY <1>3, <1>4, <1>5 DEF IInv, TypeOK, CommandStates, Places
<1>7. StopsOnly'
    BY <1>2, <1>4 DEF IInv, StopsOnly, Commands
<1>8. ASSUME orderly' PROVE Order'
  <2>1. Order /\ Settled
      BY <1>5, <1>8 DEF IInv
  <2>2. Alone'
      BY <2>1, <1>4 DEF Alone, Active, Settled
  <2>3. Still'
      BY <2>1, <1>3 DEF Still, Settled
  <2>4. Locking' /\ Single' /\ Named'
      BY <2>1, <1>3 DEF Order, Locking, Single, Named, Claims
  <2>5. Knows'
      BY <2>1, <1>2, <1>3, <1>4 DEF Order, Knows, KnowsIt, Commands
  <2>. QED  BY <2>2, <2>3, <2>4, <2>5 DEF Order
<1>. QED  BY <1>6, <1>7, <1>8 DEF IInv

\* The steps of daemonStart up to the fork.
LEMMA StartSteps ==
    ASSUME IInv, NEW o \in Operators, StartRead(o) \/ StartProbe(o) \/ StartFails(o)
    PROVE  IInv'
<1>1. cmd[o].at \in {"start", "probe", "fork"} => cmd[o].what # "stop"
    BY DEF IInv, StopsOnly
<1>2. CASE StartRead(o)
  <2>1. ReadPid(o, "probe") /\ Active(o) /\ UNCHANGED <<proc, file, lock, orderly>>
      BY <1>2 DEF StartRead, Active
  <2>. QED  BY <2>1, <1>1, <1>2, ReadStep DEF Places, StartRead
<1>3. CASE StartProbe(o)
  <2>1. Active(o) /\ UNCHANGED <<proc, file, lock, orderly>> /\ cmd[o].at = "probe"
      BY <1>3 DEF StartProbe, Active
  <2>2. CASE Exists(cmd[o].pid)
      BY <1>3, <2>1, <2>2, ReturnStep DEF StartProbe
  <2>3. CASE ~Exists(cmd[o].pid)
    <3>1. Goto(o, "fork")
        BY <1>3, <2>3 DEF StartProbe
    <3>2. ASSUME orderly, NEW p \in Pids, proc[p] = "daemon" PROVE FALSE
      <4>1. cmd[o].pid = p
          BY <2>1, <3>2 DEF IInv, Order, Knows, KnowsIt
      <4>. QED  BY <4>1, <3>2, <2>3, DaemonAssumption DEF Exists
    <3>. QED  BY <2>1, <3>1, <3>2, <1>1, GotoStep DEF Places
  <2>. QED  BY <2>2, <2>3
<1>4. CASE StartFails(o)
  <2>1. Return(o, 1) /\ Active(o) /\ UNCHANGED <<proc, file, lock, orderly>>
      BY <1>4 DEF StartFails, Active
  <2>. QED  BY <2>1, ReturnStep
<1>. QED  BY <1>2, <1>3, <1>4

\* The fork: there is no daemon, and the command is over.
LEMMA ForkStep ==
    ASSUME IInv, NEW o \in Operators, StartFork(o)
    PROVE  IInv'
<1>1. cmd \in [Operators -> CommandStates] /\ proc \in [Pids -> Kinds]
    BY DEF IInv, TypeOK, CommandStates, Places
<1> DEFINE c == [Idle EXCEPT !.code = 0]
<1>2. c \in CommandStates /\ c.at = "idle" /\ c.what = "start"
    BY DaemonAssumption DEF CommandStates, Places, Idle, Commands
<1>3. cmd' = [cmd EXCEPT ![o] = c] /\ UNCHANGED <<file, lock, orderly>> /\ cmd[o].at = "fork"
    BY DEF StartFork, Return
<1> HIDE DEF c
<1>4. cmd'[o] = c /\ (\A q \in Operators \ {o} : cmd'[q] = cmd[q])
      /\ cmd' \in [Operators -> CommandStates]
    BY <1>1, <1>2, <1>3
<1>5. PICK p \in Pids : proc[p] = "free" /\ proc' = [proc EXCEPT ![p] = "forked"]
    BY DEF StartFork
<1>6. proc' \in [Pids -> Kinds] /\ proc'[p] = "forked" /\ \A q \in Pids \ {p} : proc'[q] = proc[q]
    BY <1>1, <1>5 DEF Kinds
<1>7. TypeOK'
    BY <1>3, <1>4, <1>6 DEF IInv, TypeOK, CommandStates, Places
<1>8. StopsOnly'
    BY <1>2, <1>4 DEF IInv, StopsOnly
<1>9. ASSUME orderly PROVE Order'
  <2>1. Order
      BY <1>9 DEF IInv
  <2>2. \A q \in Pids : ~Claims(q)
      BY <2>1, <1>3 DEF Order, Still, Active, Knows, KnowsIt, Claims
  <2>3. \A q \in Operators : cmd'[q].at = "idle"
      BY <2>1, <1>2, <1>3, <1>4 DEF Order, Alone, Active
  <2>4. Alone' /\ Still'
      BY <2>3 DEF Alone, Still, Active
  <2>5. Locking'
      BY <2>1, <1>3, <1>5, <1>6 DEF Order, Locking
  <2>6. Single' /\ Named'
      BY <2>2, <1>6 DEF Single, Named, Claims
  <2>7. Knows'
      BY <2>3 DEF Knows, KnowsIt
  <2>. QED  BY <2>4, <2>5, <2>6, <2>7 DEF Order
<1>. QED  BY <1>3, <1>7, <1>8, <1>9 DEF IInv

\* daemonStop up to the removal of the file, and giving up.
LEMMA StopSteps ==
    ASSUME IInv, NEW o \in Operators,
           StopRead(o) \/ StopSignal(o) \/ StopAgain(o) \/ StopGivesUp(o)
    PROVE  IInv'
<1>1. CASE StopRead(o)
  <2>1. Active(o) /\ UNCHANGED <<proc, file, lock, orderly>>
      BY <1>1 DEF StopRead, Active
  <2>2. CASE GetPid = None
      BY <1>1, <2>1, <2>2, ReturnStep DEF StopRead
  <2>3. CASE GetPid # None
    <3>1. ReadPid(o, "signal")
        BY <1>1, <2>3 DEF StopRead
    <3>. QED  BY <2>1, <3>1, ReadStep DEF Places
  <2>. QED  BY <2>2, <2>3
<1>2. CASE StopSignal(o)
  <2>1. Active(o) /\ UNCHANGED <<proc, file, lock, orderly>> /\ cmd[o].at = "signal"
      BY <1>2 DEF StopSignal, Active
  <2>2. CASE ~Kill(cmd[o].pid)
      BY <1>2, <2>1, <2>2, ReturnStep DEF StopSignal
  <2>3. CASE Kill(cmd[o].pid)
    <3>1. Goto(o, "wait")
        BY <1>2, <2>3 DEF StopSignal
    <3>. QED  BY <2>1, <3>1, GotoStep DEF Places
  <2>. QED  BY <2>2, <2>3
<1>3. CASE StopAgain(o)
  <2>1. cmd \in [Operators -> CommandStates]
      BY DEF IInv, TypeOK, CommandStates, Places
  <2> DEFINE c == [cmd[o] EXCEPT !.tries = cmd[o].tries + 1]
  <2>2. /\ cmd' = [cmd EXCEPT ![o] = c] /\ UNCHANGED <<proc, file, lock, orderly>>
        /\ cmd[o].at = "wait" /\ cmd[o].tries < Tries
      BY <1>3, <2>1 DEF StopAgain
  <2>3. /\ c \in CommandStates /\ c.at = cmd[o].at /\ c.what = cmd[o].what
        /\ c.pid = cmd[o].pid
      BY <2>1, <2>2, DaemonAssumption DEF CommandStates
  <2> HIDE DEF c
  <2>4. orderly => KnowsIt(c)
      BY <2>3 DEF IInv, Order, Knows, KnowsIt
  <2>. QED  BY <2>2, <2>3, <2>4, OwnStep DEF Active
<1>4. CASE StopGivesUp(o)
  <2>1. Return(o, 1) /\ Active(o) /\ UNCHANGED <<proc, file, lock, orderly>>
      BY <1>4 DEF StopGivesUp, Active
  <2>. QED  BY <2>1, ReturnStep
<1>. QED  BY <1>1, <1>2, <1>3, <1>4

\* The removal of the file: kill failed, so that there is no daemon.
LEMMA StopDoneStep ==
    ASSUME IInv, NEW o \in Operators, StopDone(o)
    PROVE  IInv' /\ (orderly => file' = None /\ \A p \in Pids : ~Claims(p)')
<1>1. cmd \in [Operators -> CommandStates]
    BY DEF IInv, TypeOK, CommandStates, Places
<1>2. /\ cmd[o].at = "wait" /\ ~Kill(cmd[o].pid) /\ UNCHANGED <<proc, orderly>>
      /\ file' = None /\ lock' = None
    BY DEF StopDone, Unlink
<1>3. PICK c \in CommandStates :
         /\ cmd' = [cmd EXCEPT ![o] = c]
         /\ c.at \in {"idle", "start"} /\ c.what # "stop"
  <2>1. CASE cmd[o].what = "restart"
    <3> DEFINE c == [cmd[o] EXCEPT !.at = "start"]
    <3>1. c \in CommandStates /\ c.at = "start" /\ c.what = "restart"
        BY <1>1, <2>1 DEF CommandStates, Places
    <3>2. cmd' = [cmd EXCEPT ![o] = c]
        BY <1>1, <2>1 DEF StopDone, Goto
    <3>. QED  BY <3>1, <3>2
  <2>2. CASE cmd[o].what # "restart"
    <3> DEFINE c == [Idle EXCEPT !.code = 0]
    <3>1. c \in CommandStates /\ c.at = "idle" /\ c.what = "start"
        BY DaemonAssumption DEF CommandStates, Places, Idle, Commands
    <3>2. cmd' = [cmd EXCEPT ![o] = c]
        BY <2>2 DEF StopDone, Return
    <3>. QED  BY <3>1, <3>2
  <2>. QED  BY <2>1, <2>2
<1>4. cmd'[o] = c /\ (\A q \in Operators \ {o} : cmd'[q] = cmd[q])
      /\ cmd' \in [Operators -> CommandStates]
    BY <1>1, <1>3
<1>5. TypeOK'
    BY <1>2, <1>4 DEF IInv, TypeOK, CommandStates, Places
<1>6. StopsOnly'
    BY <1>3, <1>4 DEF IInv, StopsOnly
<1>7. ASSUME orderly PROVE Order' /\ \A p \in Pids : ~Claims(p)'
  <2>1. Order
      BY <1>7 DEF IInv
  <2>2. ASSUME NEW p \in Pids PROVE proc[p] \notin {"forked", "opened", "daemon"}
    <3>1. proc[p] \notin {"forked", "opened"}
        BY <2>1, <1>2 DEF Order, Still, Active
    <3>2. proc[p] = "daemon" => cmd[o].pid = p
        BY <2>1, <1>2 DEF Order, Knows, KnowsIt
    <3>. QED  BY <3>1, <3>2, <1>2, DaemonAssumption DEF Kill, Exists
  <2>3. \A p \in Pids : ~Claims(p)'
      BY <2>2, <1>2 DEF Claims
  <2>4. Alone'
      BY <2>1, <1>2, <1>4, Zenon DEF Order, Alone, Active
  <2>5. Still' /\ Single' /\ Named' /\ Knows'
      BY <2>2, <2>3, <1>2 DEF Still, Single, Named, Knows, KnowsIt
  <2>6. Locking'
      BY <2>2, <1>2, DaemonAssumption DEF Locking
  <2>. QED  BY <2>3, <2>4, <2>5, <2>6 DEF Order
<1>. QED  BY <1>2, <1>5, <1>6, <1>7 DEF IInv

\* daemonRestart's own steps.
LEMMA RestartSteps ==
    ASSUME IInv, NEW o \in Operators, RestartRead(o) \/ RestartQuery(o)
    PROVE  IInv'
<1>1. cmd[o].at \in {"restart", "query"} => cmd[o].what # "stop"
    BY DEF IInv, StopsOnly
<1>2. CASE RestartRead(o)
  <2>1. ReadPid(o, "query") /\ Active(o) /\ UNCHANGED <<proc, file, lock, orderly>>
      BY <1>2 DEF RestartRead, Active
  <2>. QED  BY <2>1, <1>1, <1>2, ReadStep DEF Places, RestartRead
<1>3. CASE RestartQuery(o)
  <2>1. Active(o) /\ UNCHANGED <<proc, file, lock, orderly>> /\ cmd[o].what # "stop"
      BY <1>1, <1>3 DEF RestartQuery, Active
  <2>2. CASE Return(o, 1)
      BY <2>1, <2>2, ReturnStep
  <2>3. CASE Goto(o, "stop")
      BY <2>1, <2>3, GotoStep DEF Places
  <2>4. CASE Goto(o, "start")
      BY <2>1, <2>4, GotoStep DEF Places
  <2>5. Kill(cmd[o].pid) => Exists(cmd[o].pid)
      BY DEF Kill
  <2>. QED  BY <1>3, <2>2, <2>3, <2>4, <2>5 DEF RestartQuery
<1>. QED  BY <1>2, <1>3

----------------------------------------------------------------------------
(* Processes.                                                              *)

\* A step of process p that leaves the commands alone.
LEMMA ProcessStep ==
    ASSUME IInv, NEW p \in Pids, NEW k \in Kinds \ {"forked"},
           proc' = [proc EXCEPT ![p] = k],
           file' \in Pids \cup {None, Empty}, lock' \in Pids \cup {None},
           UNCHANGED <<cmd, orderly>>,
           orderly /\ Order => /\ k \in {"opened", "daemon"} => Claims(p)
                               /\ k = "opened" => proc[p] \in {"forked", "opened"}
                               /\ k = "daemon" => proc[p] \in {"opened", "daemon"} /\ file' = p
                               /\ k # "daemon" => file' = file \/ Claims(p)
                               /\ Locking'
    PROVE  IInv'
<1>1. proc \in [Pids -> Kinds]
    BY DEF IInv, TypeOK
<1>2. proc'[p] = k /\ (\A q \in Pids \ {p} : proc'[q] = proc[q]) /\ proc' \in [Pids -> Kinds]
    BY <1>1
<1>3. TypeOK' /\ StopsOnly'
    BY <1>2 DEF IInv, TypeOK, StopsOnly
<1>4. ASSUME orderly PROVE Order'
  <2>1. Order /\ Locking'
      BY <1>4 DEF IInv
  <2>2. \A q \in Pids : Claims(q)' => Claims(q)
      BY <2>1, <1>2, <1>4 DEF Claims
  <2>3. Single'
      BY <2>1, <2>2 DEF Order, Single
  <2>4. Alone'
      BY <2>1 DEF Order, Alone, Active
  <2>5. ASSUME NEW o \in Operators, Active(o)' PROVE \A q \in Pids : proc'[q] \notin {"forked", "opened"}
    <3>1. \A q \in Pids : proc[q] \notin {"forked", "opened"}
        BY <2>1, <2>5 DEF Order, Still, Active
    <3>2. k # "opened"
        BY <3>1, <1>4, <2>1
    <3>. QED  BY <3>1, <3>2, <1>2
  <2>6. ASSUME NEW q \in Pids, proc'[q] = "daemon" PROVE file' = q
    <3>1. CASE q = p
        BY <3>1, <2>6, <2>1, <1>2, <1>4
    <3>2. CASE q # p
      <4>1. proc[q] = "daemon" /\ file = q /\ ~Claims(p)
          BY <3>2, <2>6, <2>1, <1>2 DEF Order, Named, Single, Claims
      <4>. QED  BY <4>1, <2>1, <1>4 DEF Claims
    <3>. QED  BY <3>1, <3>2
  <2>7. ASSUME NEW o \in Operators PROVE KnowsIt(cmd[o])'
    <3>1. CASE Active(o)
      <4>1. \A q \in Pids : proc'[q] = "daemon" => proc[q] = "daemon"
          BY <3>1, <2>1, <1>2, <1>4 DEF Order, Still
      <4>. QED  BY <4>1, <2>1 DEF Order, Knows, KnowsIt
    <3>2. CASE ~Active(o)
        BY <3>2 DEF Active, KnowsIt
    <3>. QED  BY <3>1, <3>2
  <2>. QED  BY <2>1, <2>3, <2>4, <2>5, <2>6, <2>7 DEF Order, Still, Named, Knows
<1>. QED  BY <1>3, <1>4 DEF IInv

\* writePidFile opens and locks: nobody else has the lock.
LEMMA ChildOpenStep ==
    ASSUME IInv, NEW p \in Pids, ChildOpen(p)
    PROVE  IInv'
<1>1. proc \in [Pids -> Kinds] /\ lock \in Pids \cup {None}
    BY DEF IInv, TypeOK
<1>2. proc[p] = "forked" /\ file' = Empty /\ UNCHANGED <<cmd, orderly>>
    BY DEF ChildOpen
<1>3. CASE lock = None /\ lock' = p /\ proc' = [proc EXCEPT ![p] = "opened"]
  <2>1. proc'[p] = "opened" /\ \A q \in Pids \ {p} : proc'[q] = proc[q]
      BY <1>1, <1>3
  <2>2. Order => Locking'
      BY <1>3, <2>1, DaemonAssumption DEF Order, Locking
  <2>. QED  BY <1>2, <1>3, <2>2, ProcessStep DEF Kinds, Claims
<1>4. CASE lock # None /\ proc' = [proc EXCEPT ![p] = "free"] /\ lock' = lock
  <2>1. proc'[p] = "free" /\ \A q \in Pids \ {p} : proc'[q] = proc[q]
      BY <1>1, <1>4
  <2>2. Order => Locking'
      BY <1>2, <1>4, <2>1 DEF Order, Locking
  <2>. QED  BY <1>1, <1>2, <1>4, <2>2, ProcessStep DEF Kinds, Claims
<1>. QED  BY <1>3, <1>4 DEF ChildOpen, Ends

\* and writes: the child is the daemon, and the file its own.
LEMMA ChildWriteStep ==
    ASSUME IInv, NEW p \in Pids, ChildWrite(p)
    PROVE  IInv'
<1>1. proc \in [Pids -> Kinds] /\ lock \in Pids \cup {None} /\ file \in Pids \cup {None, Empty}
    BY DEF IInv, TypeOK
<1>2. /\ proc[p] = "opened" /\ proc' = [proc EXCEPT ![p] = "daemon"]
      /\ UNCHANGED <<cmd, orderly>>
      /\ IF lock = p THEN file' = p /\ lock' = None ELSE UNCHANGED <<file, lock>>
    BY DEF ChildWrite
<1>3. proc'[p] = "daemon" /\ \A q \in Pids \ {p} : proc'[q] = proc[q]
    BY <1>1, <1>2
<1>4. Order => lock = p /\ file' = p /\ lock' = None
    BY <1>2 DEF Order, Locking
<1>5. Order => Locking'
    BY <1>3, <1>4, DaemonAssumption DEF Order, Locking
<1>6. file' \in Pids \cup {None, Empty} /\ lock' \in Pids \cup {None}
    BY <1>1, <1>2
<1>. QED  BY <1>2, <1>4, <1>5, <1>6, ProcessStep DEF Kinds, Claims

\* The daemon leaves and takes the file with it.
LEMMA DaemonExitStep ==
    ASSUME IInv, NEW p \in Pids, DaemonExit(p)
    PROVE  IInv'
<1>1. proc \in [Pids -> Kinds]
    BY DEF IInv, TypeOK
<1>2. /\ proc[p] = "daemon" /\ proc' = [proc EXCEPT ![p] = "left"]
      /\ file' = None /\ lock' = None /\ UNCHANGED <<cmd, orderly>>
    BY DEF DaemonExit, Unlink
<1>3. proc'[p] = "left" /\ \A q \in Pids \ {p} : proc'[q] = proc[q]
    BY <1>1, <1>2
<1>4. Order => Locking'
  <2> SUFFICES ASSUME Order, NEW q \in Pids PROVE proc'[q] # "opened"
      BY <1>2, DaemonAssumption DEF Locking
  <2>. QED  BY <1>2, <1>3 DEF Order, Single, Claims
<1>. QED  BY <1>2, <1>4, ProcessStep DEF Kinds, Claims

\* A process dies, and its lock goes with it.
LEMMA DieStep ==
    ASSUME IInv, NEW p \in Pids, Die(p)
    PROVE  IInv'
<1>1. proc \in [Pids -> Kinds] /\ lock \in Pids \cup {None} /\ file \in Pids \cup {None, Empty}
    BY DEF IInv, TypeOK
<1>2. /\ proc' = [proc EXCEPT ![p] = "free"] /\ UNCHANGED <<file, cmd, orderly>>
      /\ lock' = IF lock = p THEN None ELSE lock
    BY DEF Die, Ends
<1>3. proc'[p] = "free" /\ \A q \in Pids \ {p} : proc'[q] = proc[q]
    BY <1>1, <1>2
<1>4. Order => Locking'
    BY <1>2, <1>3, DaemonAssumption DEF Order, Locking
<1>. QED  BY <1>1, <1>2, <1>4, ProcessStep DEF Kinds, Claims

\* A stranger appears.
LEMMA SpawnStep ==
    ASSUME IInv, NEW p \in Pids, Spawn(p)
    PROVE  IInv'
<1>1. proc \in [Pids -> Kinds] /\ lock \in Pids \cup {None} /\ file \in Pids \cup {None, Empty}
    BY DEF IInv, TypeOK
<1>2. PICK k \in Strangers : proc' = [proc EXCEPT ![p] = k]
    BY DEF Spawn
<1>3. proc[p] = "free" /\ UNCHANGED <<file, lock, cmd, orderly>>
    BY DEF Spawn
<1>4. proc'[p] = k /\ \A q \in Pids \ {p} : proc'[q] = proc[q]
    BY <1>1, <1>2
<1>5. Order => Locking'
    BY <1>3, <1>4 DEF Order, Locking, Strangers
<1>. QED  BY <1>1, <1>2, <1>3, <1>5, ProcessStep DEF Kinds, Strangers, Claims

----------------------------------------------------------------------------
(* The theorems.                                                           *)

\* The invariant that carries the properties.
LEMMA DaemonInvariant == SafeSpec => []IInv
<1>1. Init => IInv
  <2> SUFFICES ASSUME Init PROVE IInv
      OBVIOUS
  <2>1. Idle \in CommandStates /\ Idle.at = "idle" /\ Idle.what = "start"
      BY DaemonAssumption DEF CommandStates, Places, Idle, Commands
  <2>2. cmd \in [Operators -> CommandStates] /\ \A o \in Operators : cmd[o] = Idle
      BY <2>1 DEF Init
  <2>3. TypeOK
      BY <2>2 DEF Init, TypeOK, CommandStates, Places, Kinds
  <2>4. StopsOnly
      BY <2>1, <2>2 DEF StopsOnly
  <2>5. Alone /\ Still
      BY <2>1, <2>2 DEF Alone, Still, Active
  <2>6. Locking /\ Single /\ Named /\ Knows
      BY DaemonAssumption DEF Init, Locking, Single, Named, Knows, KnowsIt, Claims
  <2>. QED  BY <2>3, <2>4, <2>5, <2>6 DEF IInv, Order
<1>2. IInv /\ [Next]_vars => IInv'
  <2> SUFFICES ASSUME IInv, [Next]_vars PROVE IInv'
      OBVIOUS
  <2>1. CASE UNCHANGED vars
      BY <2>1 DEF vars, IInv, TypeOK, StopsOnly, Order, Alone, Still, Locking, Single,
                  Named, Knows, KnowsIt, Active, Claims
  <2>2. ASSUME NEW o \in Operators, Command(o) PROVE IInv'
      BY <2>2, StartSteps, ForkStep, StopSteps, StopDoneStep, RestartSteps, Zenon DEF Command
  <2>3. ASSUME NEW o \in Operators, NEW w \in Commands, Invoke(o, w) PROVE IInv'
      BY <2>3, InvokeStep
  <2>4. ASSUME NEW p \in Pids,
               ChildOpen(p) \/ ChildWrite(p) \/ DaemonExit(p) \/ Die(p) \/ Spawn(p)
        PROVE  IInv'
      BY <2>4, ChildOpenStep, ChildWriteStep, DaemonExitStep, DieStep, SpawnStep
  <2>. QED  BY <2>1, <2>2, <2>3, <2>4, Zenon DEF Next
<1>. QED  BY <1>1, <1>2, PTL DEF SafeSpec

\* The processes, the file, the lock and the commands keep their types.
THEOREM TypeCorrect == SafeSpec => []TypeOK
<1>1. IInv => TypeOK
    BY DEF IInv
<1>. QED  BY <1>1, DaemonInvariant, PTL

\* There is at most one process that is or becomes the daemon.
THEOREM OneAtATime == SafeSpec => []OneDaemon
<1>1. IInv => OneDaemon
    BY DEF IInv, Order, Single, OneDaemon
<1>. QED  BY <1>1, DaemonInvariant, PTL

\* The pid file names the daemon.
THEOREM FileStaysRight == SafeSpec => []FileNamesDaemon
<1>1. IInv => FileNamesDaemon
    BY DEF IInv, Order, Named, FileNamesDaemon
<1>. QED  BY <1>1, DaemonInvariant, PTL

\* What the next state of a command is.
LEMMA CommandEffect ==
    ASSUME IInv, NEW q \in Operators
    PROVE  /\ \A r : Return(q, r) => cmd'[q].code = r
           /\ \A at : Goto(q, at) \/ ReadPid(q, at) => cmd'[q].at = at
           /\ StopAgain(q) => cmd'[q].at = "wait"
           /\ Command(q) => \A o \in Operators \ {q} : cmd'[o] = cmd[o]
<1>1. cmd \in [Operators -> CommandStates]
    BY DEF IInv, TypeOK, CommandStates, Places
<1>2. \A r : Return(q, r) => cmd'[q].code = r /\ \A o \in Operators \ {q} : cmd'[o] = cmd[o]
    BY <1>1 DEF Return, Idle
<1>3. \A at : Goto(q, at) => cmd'[q].at = at /\ \A o \in Operators \ {q} : cmd'[o] = cmd[o]
    BY <1>1 DEF Goto, CommandStates
<1>4. \A at : ReadPid(q, at) => cmd'[q].at = at /\ \A o \in Operators \ {q} : cmd'[o] = cmd[o]
    BY <1>1 DEF ReadPid, CommandStates
<1>5. StopAgain(q) => cmd'[q].at = "wait" /\ \A o \in Operators \ {q} : cmd'[o] = cmd[o]
    BY <1>1 DEF StopAgain, CommandStates
<1>6. ASSUME Command(q) PROVE \A o \in Operators \ {q} : cmd'[o] = cmd[o]
  <2>1. StopAgain(q) \/ \E x : Return(q, x) \/ Goto(q, x) \/ ReadPid(q, x)
      BY <1>6, Zenon DEF Command, StartRead, StartProbe, StartFork, StartFails, StopRead,
         StopSignal, StopDone, StopGivesUp, RestartRead, RestartQuery
  <2>. QED  BY <2>1, <1>2, <1>3, <1>4, <1>5
<1>. QED  BY <1>2, <1>3, <1>4, <1>5, <1>6

\* A stop that reports success has left neither daemon nor file.
THEOREM StopsAreHonest == SafeSpec => StopIsHonest
<1> DEFINE Honest(o) ==
        /\ cmd[o].at # "idle" /\ cmd'[o].at = "idle" /\ cmd[o].what = "stop"
        /\ cmd'[o].code = 0 /\ orderly
        => file' = None /\ \A p \in Pids : ~Claims(p)'
<1>1. ASSUME IInv, [Next]_vars, NEW o \in Operators PROVE Honest(o)
  <2> SUFFICES ASSUME cmd[o].at # "idle", cmd'[o].at = "idle", cmd[o].what = "stop",
                      cmd'[o].code = 0, orderly
               PROVE  file' = None /\ \A p \in Pids : ~Claims(p)'
      OBVIOUS
  <2>1. cmd[o].at \in {"stop", "signal", "wait"}
      BY <1>1 DEF IInv, StopsOnly
  <2>2. cmd' # cmd
      OBVIOUS
  <2>3. ASSUME NEW q \in Operators, NEW w \in Commands, Invoke(q, w) PROVE FALSE
    <3>1. q # o
        BY <2>3 DEF Invoke
    <3>2. cmd'[o] = cmd[o]
        BY <1>1, <2>3, <3>1 DEF Invoke, IInv, TypeOK
    <3>. QED  BY <3>2
  <2>4. PICK q \in Operators : Command(q)
      BY <1>1, <2>2, <2>3, Zenon DEF Next, vars, ChildOpen, ChildWrite, DaemonExit, Die, Spawn
  <2>5. q = o
      BY <1>1, <2>4, CommandEffect
  <2>6. CASE StopDone(o)
      BY <1>1, <2>6, StopDoneStep
  <2>7. ~(StopRead(o) \/ StopSignal(o) \/ StopAgain(o) \/ StopGivesUp(o))
    <3>1. ~(Return(o, 1) \/ ReadPid(o, "signal") \/ Goto(o, "wait") \/ StopAgain(o))
        BY <1>1, CommandEffect
    <3>. QED  BY <3>1, Zenon DEF StopRead, StopSignal, StopGivesUp
  <2>8. ~(\/ StartRead(o) \/ StartProbe(o) \/ StartFork(o) \/ StartFails(o)
          \/ RestartRead(o) \/ RestartQuery(o))
      BY <2>1 DEF StartRead, StartProbe, StartFork, StartFails, RestartRead, RestartQuery
  <2>. QED  BY <2>4, <2>5, <2>6, <2>7, <2>8 DEF Command
<1>2. IInv /\ [Next]_vars =>
        [\A o \in Operators :
            cmd[o].at # "idle" /\ cmd'[o].at = "idle" /\ cmd[o].what = "stop"
              /\ cmd'[o].code = 0
              /\ orderly
            => file' = None /\ \A p \in Pids : ~Claims(p)']_vars
    BY <1>1
<1>. QED  BY <1>2, DaemonInvariant, PTL DEF SafeSpec, StopIsHonest
=============================================================================
