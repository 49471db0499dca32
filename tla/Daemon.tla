------------------------------- MODULE Daemon -------------------------------
(***************************************************************************)
(* handy::Daemon: the commands start, stop and restart of a program that   *)
(* finds its running copy through a pid file.  Each command is a process   *)
(* of its own; a step is a system call on the file or on a process (or     *)
(* several between which no other process can tell the difference).  A     *)
(* pid that is free is given to any process, a stranger's too.             *)
(***************************************************************************)
EXTENDS Naturals

CONSTANTS Pids,          \* the numbers the kernel gives to processes
          Operators,     \* those who give commands
          Tries          \* how often daemonStop looks again: 300

None == "none"           \* no file, no pid
Empty == "empty"         \* the file between open(O_TRUNC) and write

ASSUME DaemonAssumption ==
    /\ Pids \cap {None, Empty} = {}
    /\ Tries \in Nat

VARIABLES proc,          \* what runs under each pid
          file,          \* what the pid file holds
          lock,          \* the process that has lockf on the file of that name
          cmd,           \* the command of each operator
          orderly        \* history: each command was given when the one before had
                         \* taken effect, in the child of daemonStart too

vars == <<proc, file, lock, cmd, orderly>>

Commands == {"start", "stop", "restart"}
Strangers == {"other", "alien"}                    \* of this user, of another user
Kinds == {"free", "forked", "opened", "daemon", "left"} \cup Strangers
Idle == [what |-> "start", at |-> "idle", pid |-> None, tries |-> 0, code |-> 0]

TypeOK ==
    /\ proc \in [Pids -> Kinds]
    /\ file \in Pids \cup {None, Empty}
    /\ lock \in Pids \cup {None}
    /\ orderly \in BOOLEAN
    /\ cmd \in [Operators ->
                  [what  : Commands,
                   at    : {"idle", "start", "probe", "fork", "stop", "signal", "wait",
                            "restart", "query"},
                   pid   : Pids \cup {None},
                   tries : 0 .. Tries,
                   code  : {0, 1}]]

Init == /\ proc = [p \in Pids |-> "free"]
        /\ file = None /\ lock = None
        /\ cmd = [o \in Operators |-> Idle] /\ orderly = TRUE

\* kill fails with ESRCH if there is no such process, and with EPERM for one of
\* another user.
Exists(p) == p # None /\ proc[p] # "free"
Kill(p) == Exists(p) /\ proc[p] # "alien"
Claims(p) == proc[p] \in {"forked", "opened", "daemon"}

\* getPidFromFile: no file, or one without a number in it, gives -1.
GetPid == IF file \in Pids THEN file ELSE None

\* Files of a name that is unlinked live on for those who have them open.
Unlink == file' = None /\ lock' = None

Goto(o, at) == cmd' = [cmd EXCEPT ![o].at = at]
Return(o, r) == cmd' = [cmd EXCEPT ![o] = [Idle EXCEPT !.code = r]]
ReadPid(o, at) == cmd' = [cmd EXCEPT ![o].at = at, ![o].pid = GetPid]

----------------------------------------------------------------------------
(* The commands.                                                           *)

Settled == /\ \A o \in Operators : cmd[o].at = "idle"
           /\ \A p \in Pids : proc[p] \notin {"forked", "opened"}

\* daemonProcess in a fresh process.
Invoke(o, what) ==
    /\ cmd[o].at = "idle"
    /\ orderly' = (orderly /\ Settled)
    /\ cmd' = [cmd EXCEPT ![o] = [Idle EXCEPT !.what = what, !.at = what]]
    /\ UNCHANGED <<proc, file, lock>>

\* daemonStart reads the file,
StartRead(o) ==
    /\ cmd[o].at = "start"
    /\ ReadPid(o, "probe")
    /\ UNCHANGED <<proc, file, lock, orderly>>

\* A mistake: the process is not looked for.
StartProbeBlind(o) ==
    /\ cmd[o].at = "probe"
    /\ Goto(o, "fork")
    /\ UNCHANGED <<proc, file, lock, orderly>>

\* refuses if a process has that pid, whatever it is and whoever owns it,
StartProbe(o) ==
    /\ cmd[o].at = "probe"
    /\ IF Exists(cmd[o].pid) THEN Return(o, 1) ELSE Goto(o, "fork")
    /\ UNCHANGED <<proc, file, lock, orderly>>

\* and forks; the parent exits at once.
StartFork(o) ==
    /\ cmd[o].at = "fork"
    /\ \E p \in Pids : proc[p] = "free" /\ proc' = [proc EXCEPT ![p] = "forked"]
    /\ Return(o, 0)
    /\ UNCHANGED <<file, lock, orderly>>

\* getppid() == 1, or fork fails.
StartFails(o) ==
    /\ cmd[o].at = "fork"
    /\ Return(o, 1)
    /\ UNCHANGED <<proc, file, lock, orderly>>

\* daemonStop reads the file (again, in a restart),
StopRead(o) ==
    /\ cmd[o].at = "stop"
    /\ IF GetPid = None THEN Return(o, 1) ELSE ReadPid(o, "signal")
    /\ UNCHANGED <<proc, file, lock, orderly>>

\* A mistake: a process that does not exist counts as stopped.
StopSignalLenient(o) ==
    /\ cmd[o].at = "signal"
    /\ IF Kill(cmd[o].pid) THEN Goto(o, "wait") ELSE Return(o, 0)
    /\ UNCHANGED <<proc, file, lock, orderly>>

\* sends SIGQUIT: the process it reaches may die of it, exit in a handler or ignore
\* it, all of which Die and DaemonExit allow at any time,
StopSignal(o) ==
    /\ cmd[o].at = "signal"
    /\ IF Kill(cmd[o].pid) THEN Goto(o, "wait") ELSE Return(o, 1)
    /\ UNCHANGED <<proc, file, lock, orderly>>

\* A mistake: the tries are not counted.
StopAgainForEver(o) ==
    /\ cmd[o].at = "wait" /\ cmd[o].tries < Tries /\ Kill(cmd[o].pid)
    /\ UNCHANGED vars

\* sends it again every 10 ms while there is a process to send it to,
StopAgain(o) ==
    LET c == cmd[o] IN
    /\ c.at = "wait" /\ c.tries < Tries /\ Kill(c.pid)
    /\ cmd' = [cmd EXCEPT ![o].tries = c.tries + 1]
    /\ UNCHANGED <<proc, file, lock, orderly>>

\* removes the file when kill fails (a restart goes on with daemonStart),
StopDone(o) ==
    LET c == cmd[o] IN
    /\ c.at = "wait" /\ c.tries < Tries /\ ~Kill(c.pid)
    /\ Unlink
    /\ IF c.what = "restart" THEN Goto(o, "start") ELSE Return(o, 0)
    /\ UNCHANGED <<proc, orderly>>

\* and gives up after three seconds.
StopGivesUp(o) ==
    /\ cmd[o].at = "wait" /\ cmd[o].tries = Tries
    /\ Return(o, 1)
    /\ UNCHANGED <<proc, file, lock, orderly>>

\* daemonRestart reads the file
RestartRead(o) ==
    /\ cmd[o].at = "restart"
    /\ ReadPid(o, "query")
    /\ UNCHANGED <<proc, file, lock, orderly>>

\* and stops the process of that pid, if there is one, before it starts.
RestartQuery(o) ==
    /\ cmd[o].at = "query"
    /\ CASE Kill(cmd[o].pid)    -> Goto(o, "stop")
         [] ~Exists(cmd[o].pid) -> Goto(o, "start")
         [] OTHER               -> Return(o, 1)
    /\ UNCHANGED <<proc, file, lock, orderly>>

----------------------------------------------------------------------------
(* The child of daemonStart, and other processes.                          *)

Ends(p) == proc' = [proc EXCEPT ![p] = "free"]

\* writePidFile empties the file before it asks for the lock; without it the child
\* exits.
ChildOpen(p) ==
    /\ proc[p] = "forked"
    /\ file' = Empty
    /\ \/ /\ lock = None
          /\ lock' = p
          /\ proc' = [proc EXCEPT ![p] = "opened"]
       \/ /\ lock # None
          /\ Ends(p)
          /\ UNCHANGED lock
    /\ UNCHANGED <<cmd, orderly>>

\* Its write reaches the file of that name only if nobody has unlinked that; close
\* drops the lock.  The rest of daemonStart leads to the running program.
ChildWrite(p) ==
    /\ proc[p] = "opened"
    /\ proc' = [proc EXCEPT ![p] = "daemon"]
    /\ IF lock = p THEN file' = p /\ lock' = None ELSE UNCHANGED <<file, lock>>
    /\ UNCHANGED <<cmd, orderly>>

\* The program ends by itself or in a handler of SIGQUIT: the static ExitCaller
\* removes the file, and a moment later the process is gone (Die).
DaemonExit(p) ==
    /\ proc[p] = "daemon"
    /\ proc' = [proc EXCEPT ![p] = "left"]
    /\ Unlink
    /\ UNCHANGED <<cmd, orderly>>

\* A mistake: the file goes when the process is gone and not before.
DieUnlinks(p) ==
    /\ proc[p] # "free"
    /\ Ends(p)
    /\ IF proc[p] = "left" THEN Unlink
       ELSE lock' = (IF lock = p THEN None ELSE lock) /\ UNCHANGED file
    /\ UNCHANGED <<cmd, orderly>>

\* Any process dies: SIGQUIT, a crash, a failure of open, write or /dev/null.
Die(p) ==
    /\ proc[p] # "free"
    /\ Ends(p)
    /\ lock' = IF lock = p THEN None ELSE lock
    /\ UNCHANGED <<file, cmd, orderly>>

\* A stranger gets a free pid.
Spawn(p) ==
    /\ proc[p] = "free"
    /\ \E k \in Strangers : proc' = [proc EXCEPT ![p] = k]
    /\ UNCHANGED <<file, lock, cmd, orderly>>

Command(o) ==
    \/ StartRead(o) \/ StartProbe(o) \/ StartFork(o) \/ StartFails(o)
    \/ StopRead(o) \/ StopSignal(o) \/ StopAgain(o) \/ StopDone(o) \/ StopGivesUp(o)
    \/ RestartRead(o) \/ RestartQuery(o)

Next ==
    \/ \E o \in Operators : Command(o) \/ \E w \in Commands : Invoke(o, w)
    \/ \E p \in Pids : \/ ChildOpen(p) \/ ChildWrite(p) \/ DaemonExit(p)
                       \/ Die(p) \/ Spawn(p)

SafeSpec == Init /\ [][Next]_vars

\* The kernel schedules the processes and delivers the signals.
Spec == /\ SafeSpec
        /\ \A o \in Operators : WF_vars(Command(o))
        /\ \A p \in Pids : WF_vars(ChildOpen(p) \/ ChildWrite(p))

----------------------------------------------------------------------------

\* "daemon exists, use restart": whatever crashes, stale files and reused pids do to
\* the tests of daemonStart, there are never two processes that are or become the
\* daemon.  This is for commands given one after the other, each when the child of the
\* one before had written the file (orderly): a start given while that child is still on
\* its way finds no file and makes a second daemon, which is left out here.
OneDaemon == orderly => \A p, q \in Pids : Claims(p) /\ Claims(q) => p = q

\* The file names the running daemon, so that the next command finds it: no unlink of
\* daemonStop or of a dying predecessor, and no failed command, takes it away.
FileNamesDaemon == orderly => \A p \in Pids : proc[p] = "daemon" => file = p

\* When "stop" exits with 0 no daemon is left, and no file.
StopIsHonest ==
    [][\A o \in Operators :
          cmd[o].at # "idle" /\ cmd'[o].at = "idle" /\ cmd[o].what = "stop"
            /\ cmd'[o].code = 0
            /\ orderly
          => file' = None /\ \A p \in Pids : ~Claims(p)']_vars

\* Every command comes to an end, also when the process it waits for ignores SIGQUIT
\* or has left its pid to another one.
CommandsEnd == \A o \in Operators : cmd[o].at # "idle" ~> cmd[o].at = "idle"

=============================================================================
