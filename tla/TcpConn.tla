------------------------------- MODULE TcpConn -------------------------------
(***************************************************************************)
(* One client connection of handy, the one the data server keeps to MS: a  *)
(* TcpConn, the Channel it owns, the epoll batch that may point to that    *)
(* channel, the timers that close or reopen it, its node in the idle list, *)
(* and the loop that all of it runs on and that may end at any time.       *)
(*                                                                         *)
(* A connection makes one channel per attempt to connect, so the number of *)
(* the attempt names the channel.  Bytes are counted, not kept.            *)
(***************************************************************************)
EXTENDS Naturals

CONSTANTS MaxAttempts,   \* bound on the attempts to connect
          MaxCloses,     \* bound on the calls of close()
          MaxSends       \* bound on the messages given to send

ASSUME ConnAssumption ==
    MaxAttempts \in Nat \ {0} /\ MaxCloses \in Nat /\ MaxSends \in Nat

VARIABLES state,         \* state_
          attempt,       \* attempts made so far
          channel,       \* channel_, 0 for NULL
          live,          \* liveChannels_
          wr,            \* kWriteEvent in the channel's events_
          slot,          \* the event in activeEvs_ for this connection, still to be handled
          output,        \* output_.size(), in messages or parts of them
          timers,        \* timers_: the connect timeout and the reconnection
          timeoutId,     \* timeoutId_
          recon,         \* whether reconnectConns_ has the connection
          idle,          \* its node in idleConns_
          reconnect,     \* reconnectInterval_ >= 0
          timeout,       \* connectTimeout_ > 0
          cbs,           \* whether readcb_, writablecb_ and statecb_ are set
          exit,          \* exit_
          at,            \* where the loop's thread is
          back,          \* where it was when cleanup called reconnect
          final,         \* whether it is in the pass after the while loop
          peer,          \* the kernel's side of the current channel
          closes,        \* closures of close() in tasks_
          fault,         \* undefined behaviour met, or a fatalif that fired
          closed, sent,  \* calls of close() and send made so far
          told, reports  \* history: what statecb_ saw last, and how often it was called

connVars == <<state, attempt>>
chanVars == <<channel, live, slot>>
dataVars == <<wr, output>>
timerVars == <<timers, timeoutId, recon>>
idleVars == <<idle, cbs>>
setVars == <<reconnect, timeout>>
loopVars == <<exit, at, back, final>>
callVars == <<closed, sent>>
toldVars == <<told, reports>>
vars == <<connVars, chanVars, dataVars, timerVars, idleVars, setVars, loopVars, peer, closes,
          callVars, fault, toldVars>>

States == {"Invalid", "Handshaking", "Connected", "Closed", "Failed"}
Attempts == 1 .. MaxAttempts
NoTimer == <<"none", 0>>
NoEvent == <<0, "none">>
TimeoutOf(n) == <<"timeout", n>>
ReconnectAfter(n) == <<"reconnect", n>>

ScalarsOK ==
    /\ state \in States /\ attempt \in 0 .. MaxAttempts
    /\ channel \in 0 .. MaxAttempts /\ live \subseteq Attempts
    /\ output \in Nat /\ closes \in Nat /\ reports \in Nat
    /\ idle \in {"none", "listed", "freed"}
    /\ at \in {"poll", "events", "read", "timeouts", "reconnect", "done", "gone"}
    /\ back \in {"events", "timeouts"}
    /\ peer \in {"connecting", "up", "fin", "down"}
    /\ fault \in {"none", "state", "channel", "idle"}
    /\ closed \in 0 .. MaxCloses /\ sent \in 0 .. MaxSends

FlagsOK ==
    /\ wr \in BOOLEAN /\ recon \in BOOLEAN /\ cbs \in BOOLEAN
    /\ reconnect \in BOOLEAN /\ timeout \in BOOLEAN
    /\ exit \in BOOLEAN /\ final \in BOOLEAN

PairsOK ==
    /\ slot \in (Attempts \X {"read", "write"}) \cup {NoEvent}
    /\ timers \subseteq {"timeout", "reconnect"} \X Attempts
    /\ timeoutId \in ({"timeout"} \X Attempts) \cup {NoTimer}
    /\ told \in (0 .. MaxAttempts) \X States

TypeOK == ScalarsOK /\ FlagsOK /\ PairsOK

\* Before createConnection.
Init ==
    /\ state = "Invalid" /\ attempt = 0
    /\ channel = 0 /\ live = {} /\ slot = NoEvent
    /\ wr = FALSE /\ output = 0 /\ closes = 0
    /\ timers = {} /\ timeoutId = NoTimer /\ recon = FALSE /\ idle = "none"
    /\ reconnect \in BOOLEAN /\ timeout \in BOOLEAN
    /\ cbs = FALSE /\ exit = FALSE /\ at = "poll" /\ back = "events" /\ final = FALSE
    /\ peer = "down" /\ fault = "none"
    /\ closed = 0 /\ sent = 0 /\ told = <<0, "Invalid">> /\ reports = 0

Running == fault = "none"
OnLoop == Running /\ at \in {"poll", "events", "timeouts"}

----------------------------------------------------------------------------
(* Parts of the handlers.                                                  *)

\* A mistake removeChannel could have made: the batch keeps its pointer.
clearedSlotKept == slot

\* removeChannel's search of activeEvs_.
clearedSlot == IF slot[1] = channel THEN NoEvent ELSE slot

\* statecb_ is called.
Report(s) == told' = <<attempt, s>> /\ reports' = reports + 1

\* connect and attach.  connect() may succeed or fail at once; the channel is
\* made in any case, for reading and writing.  runAt makes no timer after exit.
connect ==
    LET n == attempt + 1
    IN  /\ fault' = IF state \in {"Invalid", "Closed", "Failed"} /\ channel = 0
                    THEN fault ELSE "state"
        /\ attempt' = n /\ channel' = n /\ live' = live \cup {n}
        /\ state' = "Handshaking" /\ wr' = TRUE
        /\ peer' \in {"connecting", "up", "down"}

\* A mistake: only the first attempt has a timeout.
connectTimersOnce(T) ==
    IF timeout /\ ~ exit /\ attempt = 0
    THEN timers' = T \cup {TimeoutOf(attempt + 1)} /\ timeoutId' = TimeoutOf(attempt + 1)
    ELSE timers' = T /\ UNCHANGED timeoutId

\* The timers connect leaves, when it found T.
connectTimers(T) ==
    IF timeout /\ ~ exit
    THEN timers' = T \cup {TimeoutOf(attempt + 1)} /\ timeoutId' = TimeoutOf(attempt + 1)
    ELSE /\ timers' = T
         /\ timeoutId' = IF timeout THEN NoTimer ELSE timeoutId

\* A mistake: the connect timeout is not cancelled.
cleanupTimersKept(T) == T

\* cancel(timeoutId_)
cleanupTimers(T) == T \ {timeoutId}

lostState == IF state = "Handshaking" THEN "Failed" ELSE "Closed"

\* The end of cleanup for a connection that is not to come back: idle nodes are
\* erased, also from a list that loop() has destroyed, and the channel is deleted.
finish(i) ==
    /\ fault' = IF i = "freed" THEN "idle" ELSE fault
    /\ idle' = "none" /\ cbs' = FALSE
    /\ channel' = 0 /\ live' = live \ {channel}

\* cleanup, with T in timers_ and, when Channel::close is the caller, the channel
\* out of the poller already.  reconnect() is a step of its own, because exit_
\* may be set between the test here and the one in runAt.
cleanup(T, isClosed, b) ==
    /\ state' = (IF state = "Handshaking" THEN "Failed" ELSE "Closed")
    /\ timers' = cleanupTimers(T)
    /\ Report(lostState)
    /\ IF reconnect /\ ~ exit
       THEN /\ at' = "reconnect" /\ back' = b
            /\ live' = IF isClosed THEN live \ {channel} ELSE live
            /\ UNCHANGED <<channel, idleVars, fault>>
       ELSE finish(idle) /\ at' = b /\ UNCHANGED back
    /\ slot' = IF isClosed THEN clearedSlot ELSE NoEvent
    /\ UNCHANGED <<attempt, dataVars, timeoutId, recon, setVars, exit, final, peer,
                   callVars>>

\* Channel::close of the current channel, whose handleRead finds fd_ = -1.
closeChannel(T, b) ==
    IF state \in {"Handshaking", "Connected"}
    THEN cleanup(T, TRUE, b)
    ELSE /\ fault' = "channel"
         /\ UNCHANGED <<connVars, chanVars, dataVars, timerVars, idleVars, setVars,
                        loopVars, peer, callVars, toldVars>>

\* write() until everything is taken or the socket refuses: what may be left of
\* k.  A connecting socket takes nothing, one that was reset neither.
isend(k) == IF peer \in {"up", "fin"} THEN 0 .. k ELSE {k}

\* The write interest after isend has left some bytes (send(Buffer&)).
sendWatch(left) == wr \/ left > 0

----------------------------------------------------------------------------
(* Callers.                                                                *)

\* createConnection and the setting of the callbacks (registerToMS).
createConnection ==
    /\ OnLoop /\ state = "Invalid" /\ attempt < MaxAttempts
    /\ connect /\ connectTimers(timers) /\ cbs' = TRUE
    /\ UNCHANGED <<slot, output, recon, idle, setVars, loopVars, closes, callVars,
                   toldVars>>

\* close(), from any thread.
close ==
    /\ Running /\ at # "gone" /\ closed < MaxCloses /\ channel # 0
    /\ closes' = closes + 1 /\ closed' = closed + 1
    /\ UNCHANGED <<connVars, chanVars, dataVars, timerVars, idleVars, setVars,
                   loopVars, peer, sent, fault, toldVars>>

\* A message encoded into output_ and sendOutput(), from another handler: with no
\* channel it stays in output_.
sendOutput ==
    /\ OnLoop /\ sent < MaxSends /\ state # "Invalid"
    /\ sent' = sent + 1
    /\ IF channel = 0
       THEN output' = output + 1 /\ UNCHANGED wr
       ELSE \E left \in isend(output + 1) : output' = left /\ wr' = sendWatch(left)
    /\ UNCHANGED <<connVars, chanVars, timerVars, idleVars, setVars, loopVars, peer,
                   closes, closed, fault, toldVars>>

\* send(const char*, size_t): written only if nothing is waiting, and nothing is
\* kept without a channel.  isend turns the write interest on for EAGAIN only.
sendBytes ==
    /\ OnLoop /\ sent < MaxSends /\ state # "Invalid"
    /\ sent' = sent + 1
    /\ \/ channel = 0 /\ UNCHANGED <<dataVars>>
       \/ channel # 0 /\ output > 0 /\ output' = output + 1 /\ UNCHANGED wr
       \/ /\ channel # 0 /\ output = 0
          /\ \E left \in isend(1) :
                output' = left /\ wr' = (wr \/ (left > 0 /\ peer # "down"))
    /\ UNCHANGED <<connVars, chanVars, timerVars, idleVars, setVars, loopVars, peer,
                   closes, closed, fault, toldVars>>

addIdleCB ==
    /\ OnLoop /\ channel # 0 /\ idle = "none"
    /\ idle' = "listed"
    /\ UNCHANGED <<connVars, chanVars, dataVars, timerVars, cbs, setVars, loopVars,
                   peer, closes, callVars, fault, toldVars>>

Exit ==
    /\ Running /\ ~ exit
    /\ exit' = TRUE
    /\ UNCHANGED <<connVars, chanVars, dataVars, timerVars, idleVars, setVars, at,
                   back, final, peer, closes, callVars, fault, toldVars>>

\* The kernel and MS: the connection is established, closed in order, or reset.
PeerMoves ==
    /\ Running /\ live # {}
    /\ \/ peer = "connecting" /\ peer' \in {"up", "down"}
       \/ peer = "up" /\ peer' \in {"fin", "down"}
       \/ peer = "fin" /\ peer' = "down"
    /\ UNCHANGED <<connVars, chanVars, dataVars, timerVars, idleVars, setVars,
                   loopVars, closes, callVars, fault, toldVars>>

----------------------------------------------------------------------------
(* The loop's thread.                                                      *)

\* epoll_wait.  Reading goes before writing when both are reported; a socket on
\* which connect() failed at once is only reported for writing.
Poll ==
    /\ Running /\ at = "poll" /\ (~ exit \/ final)
    /\ at' = "events"
    /\ \/ slot' = NoEvent
       \/ \E n \in live : peer # "connecting" /\ slot' = <<n, "read">>
       \/ \E n \in live : peer # "connecting" /\ wr /\ slot' = <<n, "write">>
    /\ UNCHANGED <<connVars, channel, live, dataVars, timerVars, idleVars, setVars,
                   exit, back, final, peer, closes, callVars, fault, toldVars>>

\* A mistake: the state callback only encodes the registration.
handshakeNoFlush(place) ==
    /\ state' = "Connected" /\ at' = place
    /\ Report("Connected")
    /\ output' = output + 1 /\ wr' = FALSE
    /\ UNCHANGED <<attempt, channel, live, timerVars, idleVars, setVars, exit, back,
                   final, peer, callVars, fault>>

\* handleHandshake finds the socket writable: write interest is dropped and the
\* state callback of registerToMS registers with sendOutput().
handshakeDone(place) ==
    /\ state' = "Connected" /\ at' = place
    /\ Report("Connected")
    /\ \E left \in isend(output + 1) : output' = left /\ wr' = (left > 0)
    /\ UNCHANGED <<attempt, channel, live, timerVars, idleVars, setVars, exit, back,
                   final, peer, callVars, fault>>

\* poll() in handleHandshake: POLLOUT and nothing else.
Established == peer \in {"up", "fin"}

\* The dispatch of the event to a channel.  One that was deleted is undefined.
Dispatch(kind) == /\ Running /\ at = "events" /\ slot # NoEvent /\ slot[2] = kind
                  /\ UNCHANGED closes
DanglingEvent ==
    /\ fault' = "channel" /\ slot' = NoEvent
    /\ UNCHANGED <<connVars, channel, live, dataVars, timerVars, idleVars, setVars,
                   loopVars, peer, callVars, toldVars>>

HandleRead ==
    /\ Dispatch("read")
    /\ \/ slot[1] # channel /\ DanglingEvent
       \/ /\ slot[1] = channel /\ state = "Handshaking"
          /\ \/ Established /\ handshakeDone("read") /\ slot' = NoEvent
             \/ ~ Established /\ cleanup(timers, FALSE, "events")
       \/ /\ slot[1] = channel /\ state = "Connected"
          /\ at' = "read" /\ slot' = NoEvent
          /\ UNCHANGED <<connVars, channel, live, dataVars, timerVars, idleVars,
                         setVars, exit, back, final, peer, callVars, fault, toldVars>>

\* The while loop of handleRead, down to EAGAIN (updateIdle, readcb_) or to the end
\* of the stream.
ReadLoop ==
    /\ Running /\ at = "read"
    /\ \/ /\ peer = "up"
          /\ at' = "events"
          /\ fault' = IF idle = "freed" THEN "idle" ELSE fault
          /\ UNCHANGED <<connVars, chanVars, dataVars, timerVars, idleVars, setVars,
                         exit, back, final, peer, callVars, toldVars>>
       \/ peer # "up" /\ cleanup(timers, FALSE, "events")
    /\ UNCHANGED closes

HandleWrite ==
    /\ Dispatch("write")
    /\ \/ slot[1] # channel /\ DanglingEvent
       \/ /\ slot[1] = channel /\ state = "Handshaking"
          /\ \/ Established /\ handshakeDone("events") /\ slot' = NoEvent
             \/ ~ Established /\ cleanup(timers, FALSE, "events")
       \/ /\ slot[1] = channel /\ state = "Connected"
          /\ \E left \in isend(output) :
                output' = left /\ wr' = (left > 0 /\ (wr \/ peer # "down"))
          /\ slot' = NoEvent
          /\ UNCHANGED <<connVars, channel, live, timerVars, idleVars, setVars,
                         loopVars, peer, callVars, fault, toldVars>>

\* The pipe's handler, before or after the connection's own, runs a closure of close().
RunClose ==
    /\ Running /\ at = "events" /\ closes > 0
    /\ closes' = closes - 1
    /\ IF channel # 0
       THEN closeChannel(timers, "events")
       ELSE UNCHANGED <<connVars, chanVars, dataVars, timerVars, idleVars, setVars,
                        loopVars, peer, callVars, fault, toldVars>>

\* A mistake reconnect could have made: no timer is set.
ReconnectNever ==
    /\ Running /\ at = "reconnect"
    /\ at' = back
    /\ recon' = TRUE
    /\ channel' = 0 /\ live' = live \ {channel} /\ slot' = clearedSlot
    /\ UNCHANGED <<connVars, dataVars, timers, timeoutId, idleVars, setVars, exit,
                   back, final, peer, closes, callVars, fault, toldVars>>

\* reconnect(), called by cleanup.
Reconnect ==
    /\ Running /\ at = "reconnect"
    /\ at' = back
    /\ recon' = TRUE
    /\ timers' = IF exit THEN timers ELSE timers \cup {ReconnectAfter(attempt)}
    /\ channel' = 0 /\ live' = live \ {channel} /\ slot' = clearedSlot
    /\ UNCHANGED <<connVars, dataVars, timeoutId, idleVars, setVars, exit, back,
                   final, peer, closes, callVars, fault, toldVars>>

EndEvents ==
    /\ Running /\ at = "events" /\ slot = NoEvent
    /\ at' = "timeouts"
    /\ UNCHANGED <<connVars, chanVars, dataVars, timerVars, idleVars, setVars, exit,
                   back, final, peer, closes, callVars, fault, toldVars>>

\* The closure of the connect timeout.
FireTimeout(n) ==
    /\ Running /\ at = "timeouts" /\ TimeoutOf(n) \in timers
    /\ LET T == timers \ {TimeoutOf(n)}
       IN  IF state = "Handshaking"
           THEN closeChannel(T, "timeouts")
           ELSE /\ timers' = T
                /\ UNCHANGED <<connVars, chanVars, dataVars, timeoutId, recon,
                               idleVars, setVars, loopVars, peer, callVars, fault,
                               toldVars>>
    /\ UNCHANGED closes

\* A mistake: the connection stays in reconnectConns_.
FireReconnectKeepsEntry(n) ==
    /\ Running /\ at = "timeouts" /\ ReconnectAfter(n) \in timers /\ attempt < MaxAttempts
    /\ connect /\ connectTimers(timers \ {ReconnectAfter(n)})
    /\ UNCHANGED <<slot, output, recon, idleVars, setVars, loopVars, closes, callVars,
                   toldVars>>

\* The closure of reconnect().
FireReconnect(n) ==
    /\ Running /\ at = "timeouts" /\ ReconnectAfter(n) \in timers /\ attempt < MaxAttempts
    /\ recon' = FALSE
    /\ connect /\ connectTimers(timers \ {ReconnectAfter(n)})
    /\ UNCHANGED <<slot, output, idleVars, setVars, loopVars, closes, callVars,
                   toldVars>>

EndTimeouts ==
    /\ Running /\ at = "timeouts"
    /\ at' = IF final THEN "done" ELSE "poll"
    /\ UNCHANGED <<connVars, chanVars, dataVars, timerVars, idleVars, setVars, exit,
                   back, final, peer, closes, callVars, fault, toldVars>>

\* loop() after the while loop: the maps are cleared, then the connections in
\* reconnectConns_ are cleaned up, for the second time.
LoopEnds ==
    /\ Running /\ at = "poll" /\ exit /\ ~ final
    /\ final' = TRUE
    /\ timers' = {}
    /\ LET i == IF idle = "listed" THEN "freed" ELSE idle
       IN  IF recon
           THEN state' = "Closed" /\ Report("Closed") /\ finish(i)
           ELSE idle' = i /\ UNCHANGED <<state, channel, live, cbs, fault, toldVars>>
    /\ UNCHANGED <<attempt, slot, dataVars, timeoutId, recon, setVars, exit, at, back,
                   peer, closes, callVars>>

\* The poller's destructor closes the channels that are left.
Destroy ==
    /\ Running /\ at = "done"
    /\ IF channel # 0
       THEN closeChannel(timers, "gone")
       ELSE /\ at' = "gone"
            /\ UNCHANGED <<connVars, chanVars, dataVars, timerVars, idleVars, setVars,
                           exit, back, final, peer, callVars, fault, toldVars>>
    /\ UNCHANGED closes

Loop == \/ Poll \/ HandleRead \/ ReadLoop \/ HandleWrite \/ RunClose \/ Reconnect
        \/ EndEvents \/ EndTimeouts \/ LoopEnds \/ Destroy

Next ==
    \/ createConnection \/ close \/ sendOutput \/ sendBytes \/ addIdleCB \/ Exit
    \/ PeerMoves
    \/ Loop
    \/ \E n \in Attempts : FireTimeout(n) \/ FireReconnect(n)

SafeSpec == Init /\ [][Next]_vars

\* The loop's thread is scheduled, and a timer that stays set comes due in some
\* pass and is then run (DueIsServed of Timers).
Spec ==
    /\ SafeSpec
    /\ WF_vars(Loop)
    /\ \A n \in Attempts : SF_vars(FireTimeout(n)) /\ SF_vars(FireReconnect(n))
----------------------------------------------------------------------------
(* Properties.                                                             *)

\* connect() is only ever entered by a connection that has no channel and is not
\* connecting or connected (the fatalif of conn.cc:34), whatever close(), the
\* connect timeout, the peer and the reconnection do to it in whatever order.
ConnectsWhenDown == fault # "state"

\* An event that epoll_wait has reported and that is still to be handled leads to
\* the connection's channel of now, which is open: a handler earlier in the batch
\* that closed the channel has taken the pointer out of activeEvs_.  close() and
\* the connect timeout never find a channel whose connection is gone.
EventsLeadToChannel ==
    /\ fault # "channel"
    /\ slot # NoEvent => slot[1] = channel /\ channel \in live

\* The connect timeout that is set belongs to the current attempt: it never closes
\* a later one, however fast the connection is lost and made again.
TimeoutIsOwn ==
    \A n \in Attempts : TimeoutOf(n) \in timers => n = attempt /\ channel = n

\* A connection that is to be kept up is never stranded: it has an open channel,
\* or cleanup is about to call reconnect(), or it waits in reconnectConns_ and
\* has one reconnection ahead; only exit_, set at any moment of cleanup by
\* another thread, ends that.
NeverStranded ==
    Running /\ reconnect /\ state # "Invalid" /\ ~ exit =>
        \/ channel \in live /\ at # "reconnect" /\ ~ recon
        \/ at = "reconnect" /\ ~ recon
        \/ channel = 0 /\ recon /\ ReconnectAfter(attempt) \in timers

\* When the event base is gone nothing of the connection is left: no channel, and
\* no callback that would keep it alive, also if exit() came while it waited to
\* reconnect and had no channel for the poller's destructor to close.
CleanedUp == at = "gone" /\ Running /\ state # "Invalid" => ~ cbs /\ channel = 0 /\ live = {}

\* Between two handlers, output waiting on a connection that is up is watched for
\* writing, so that it goes out: also what was queued while the connection was
\* being made, when write interest is dropped with bytes in output_.
OutputIsWatched == state = "Connected" /\ peer # "down" /\ output > 0 => wr

\* statecb_ is called only when the state has changed since its last call, except
\* by loop() itself for a connection that waits to reconnect.
ReportsChange == [][reports' # reports => told' # told \/ final' # final]_vars

\* A lost connection that is to be kept up is tried again, unless loop() is told
\* to exit.
LostIsRetried ==
    \A n \in Attempts :
        (attempt = n /\ reconnect /\ state \in {"Closed", "Failed"})
            ~> (attempt > n \/ exit \/ n = MaxAttempts)

\* With a connect timeout an attempt ends, although the network may never answer.
HandshakeEnds ==
    \A n \in Attempts :
        (attempt = n /\ timeout /\ state = "Handshaking")
            ~> (attempt # n \/ state # "Handshaking" \/ exit)
=============================================================================
