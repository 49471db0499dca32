---------------------------- MODULE TcpConn_proofs ----------------------------
(***************************************************************************)
(* Proofs about TcpConn.  The invariant says for every place of the loop's *)
(* thread how state_, channel_, the poller, the timers and reconnectConns_ *)
(* fit together; each property checked by TLC follows from it.             *)
(***************************************************************************)
EXTENDS TcpConn, TLAPS

Up == {"Handshaking", "Connected"}

\* The phases of loop().
Phases ==
    /\ final => exit /\ timers = {}
    /\ at \in {"done", "gone"} => final
    /\ at = "gone" => channel = 0
    /\ at = "read" => state = "Connected"
    /\ at = "reconnect" => reconnect /\ ~ final /\ channel # 0 /\ state \in {"Closed", "Failed"}

\* state_, channel_ and liveChannels_.
Channels ==
    /\ (attempt = 0) <=> (state = "Invalid")
    /\ channel \in {0, attempt}
    /\ at # "reconnect" => /\ (channel # 0) <=> (state \in Up)
                           /\ channel # 0 => live = {channel}
                           /\ channel = 0 => live = {}
    /\ live \subseteq {channel}
    /\ slot # NoEvent => at = "events" /\ slot[1] = channel /\ channel \in live

\* The timers and reconnectConns_.
Waiting ==
    /\ \A n \in Attempts :
          /\ TimeoutOf(n) \in timers => /\ n = attempt /\ channel = n /\ at # "reconnect"
                                        /\ timeoutId = TimeoutOf(n)
          /\ ReconnectAfter(n) \in timers => n = attempt /\ channel = 0 /\ recon
    /\ recon => channel = 0 /\ attempt # 0
    /\ reconnect /\ attempt # 0 /\ ~ exit =>
          channel # 0 \/ (recon /\ ReconnectAfter(attempt) \in timers)
    /\ channel = 0 /\ attempt # 0 /\ cbs => recon /\ ~ final

\* Faults and the idle list.
Idles ==
    /\ fault \in {"none", "idle"}
    /\ fault = "idle" => final
    /\ idle = "freed" => final

\* What the state callback has been told.
Told ==
    /\ state = "Handshaking" => told[1] < attempt
    /\ state = "Connected" => told = <<attempt, "Connected">>
    /\ told[1] <= attempt

IInv == TypeOK /\ Phases /\ Channels /\ Waiting /\ Idles /\ Told /\ OutputIsWatched

\* There are no other timers than these two kinds.
LEMMA TimerKinds ==
    ASSUME PairsOK, NEW t \in timers
    PROVE  \E n \in Attempts : t = TimeoutOf(n) \/ t = ReconnectAfter(n)
  <1>1. t \in {"timeout", "reconnect"} \X Attempts
    BY DEF PairsOK
  <1>2. t = <<t[1], t[2]>> /\ t[1] \in {"timeout", "reconnect"} /\ t[2] \in Attempts
    BY <1>1
  <1> QED
    BY <1>2 DEF TimeoutOf, ReconnectAfter

----------------------------------------------------------------------------
(* Initial states.                                                         *)

LEMMA InitOK == Init => IInv
  <1> SUFFICES ASSUME Init PROVE IInv
    OBVIOUS
  <1> USE ConnAssumption DEF Init
  <1>0. ScalarsOK
    BY DEF ScalarsOK, Attempts, States
  <1>4. FlagsOK
    BY Zenon DEF FlagsOK
  <1>1. PairsOK
    BY DEF PairsOK, States
  <1>2. Phases /\ Channels /\ Idles /\ Told /\ OutputIsWatched
    BY DEF Phases, Channels, Idles, Told, OutputIsWatched, Up, NoEvent
  <1>3. Waiting
    BY DEF Waiting
  <1> QED
    BY <1>0, <1>1, <1>2, <1>3, <1>4 DEF IInv, TypeOK

----------------------------------------------------------------------------
(* The end of a connection, in cleanup.                                    *)

\* cleanup keeps the invariant, whoever calls it, with T in timers_ and S in the
\* batch, and tells the state callback something new.
LEMMA CleanupOK ==
    ASSUME IInv, Running, closes' \in Nat,
           NEW T \in SUBSET timers, NEW c \in BOOLEAN, NEW b \in {"events", "timeouts", "gone"},
           cleanup(T, c, b), state \in Up, at # "reconnect",
           b = "gone" => final,
           at = "gone" => b = "gone"
    PROVE  IInv' /\ told' # told
  <1> USE ConnAssumption DEF Up
  <1>0. PairsOK'
    <2>1. told' \in (0 .. MaxAttempts) \X States
      BY DEF cleanup, Report, lostState, IInv, TypeOK, ScalarsOK, States
    <2>2. slot' \in (Attempts \X {"read", "write"}) \cup {NoEvent}
      BY DEF cleanup, clearedSlot, IInv, TypeOK, PairsOK
    <2>3. timers' \subseteq {"timeout", "reconnect"} \X Attempts
      BY DEF cleanup, cleanupTimers, IInv, TypeOK, PairsOK
    <2> QED
      BY <2>1, <2>2, <2>3 DEF PairsOK, cleanup, IInv, TypeOK, ScalarsOK, PairsOK
  <1>1. ScalarsOK'
    <2>1. at' \in {"events", "timeouts", "gone", "reconnect"} /\ back' \in {"events", "timeouts"}
      BY DEF cleanup, IInv, TypeOK, ScalarsOK, Phases
    <2>2. /\ state' \in States /\ channel' \in 0 .. MaxAttempts /\ live' \subseteq Attempts
          /\ idle' \in {"none", "listed", "freed"} /\ fault' \in {"none", "idle"}
      BY DEF cleanup, finish, IInv, TypeOK, ScalarsOK, States, Running, idleVars
    <2>3. /\ UNCHANGED <<attempt, output, peer, closed, sent>> /\ reports' = reports + 1
      BY DEF cleanup, dataVars, callVars, Report
    <2> QED
      BY <2>1, <2>2, <2>3 DEF IInv, TypeOK, ScalarsOK
  <1>7. FlagsOK'
    BY Zenon DEF cleanup, finish, IInv, TypeOK, FlagsOK, setVars, dataVars, idleVars
  <1>2. Phases'
    BY DEF cleanup, finish, cleanupTimers, IInv, TypeOK, ScalarsOK, PairsOK, Phases, setVars, dataVars, Channels
  <1>3. Channels'
    BY DEF cleanup, finish, clearedSlot, IInv, TypeOK, ScalarsOK, PairsOK, Phases, Channels, setVars, dataVars, NoEvent
  <1>4. Waiting'
    BY DEF cleanup, finish, cleanupTimers, IInv, TypeOK, ScalarsOK, PairsOK, Phases, Channels, Waiting, setVars,
           dataVars, idleVars, TimeoutOf, ReconnectAfter
  <1>5. Idles'
    BY DEF cleanup, finish, IInv, Idles, Running, idleVars, TypeOK
  <1>6. Told' /\ OutputIsWatched' /\ told' # told
    BY DEF cleanup, Report, lostState, IInv, TypeOK, ScalarsOK, PairsOK, Told, OutputIsWatched, dataVars, Attempts
  <1> QED
    BY <1>0, <1>1, <1>2, <1>3, <1>4, <1>5, <1>6, <1>7 DEF IInv, TypeOK
\* Channel::close of a channel that a connection has keeps the invariant.
LEMMA CloseOK ==
    ASSUME IInv, Running, closes' \in Nat, channel # 0,
           NEW T \in SUBSET timers, NEW b \in {"events", "timeouts", "gone"},
           closeChannel(T, b), at \notin {"reconnect", "gone"}, b = "gone" => final
    PROVE  IInv' /\ told' # told
  <1>1. state \in Up
    BY DEF IInv, Channels
  <1>2. cleanup(T, TRUE, b)
    BY <1>1 DEF closeChannel, Up
  <1> QED
    BY <1>1, <1>2, CleanupOK

----------------------------------------------------------------------------
(* connect, by the caller and by the reconnection.                         *)

\* connect keeps the invariant when it is called by a connection that has no
\* channel and, but for the reconnection that is calling, no timer.
LEMMA ConnectOK ==
    ASSUME IInv, Running, channel = 0, attempt < MaxAttempts,
           NEW T, T \subseteq {}, recon' = FALSE, cbs' \in BOOLEAN,
           at \in {"poll", "events", "timeouts"},
           connect, connectTimers(T),
           UNCHANGED <<slot, output, idle, setVars, loopVars, closes, callVars, toldVars>>
    PROVE  IInv'
  <1> USE ConnAssumption
  <1>1. attempt \in Nat /\ attempt + 1 \in Attempts /\ attempt + 1 # 0
    BY DEF IInv, TypeOK, ScalarsOK, Attempts
  <1>2. state \notin Up /\ live = {} /\ slot = NoEvent
    BY DEF IInv, Channels
  <1>3. fault' = fault
    BY <1>2 DEF connect, Up, IInv, TypeOK, ScalarsOK, States
  <1>4. ScalarsOK'
    BY <1>1, <1>2, <1>3 DEF connect, IInv, TypeOK, ScalarsOK, States, setVars, loopVars, callVars,
                            toldVars, Attempts
  <1>5. FlagsOK'
    BY Zenon DEF connect, IInv, TypeOK, FlagsOK, setVars, loopVars
  <1>6. PairsOK'
    <2>1. timers' \subseteq {"timeout", "reconnect"} \X Attempts
      BY <1>1 DEF connectTimers, TimeoutOf
    <2>2. timeoutId' \in ({"timeout"} \X Attempts) \cup {NoTimer}
      BY <1>1 DEF connectTimers, TimeoutOf, IInv, TypeOK, PairsOK
    <2> QED
      BY <2>1, <2>2 DEF IInv, TypeOK, PairsOK, toldVars
  <1>7. Phases'
    BY <1>1, <1>2 DEF connect, connectTimers, IInv, Phases, setVars, loopVars, Up
  <1>8. Channels'
    BY <1>1, <1>2 DEF connect, IInv, Channels, loopVars, Up, NoEvent
  <1>9. Waiting'
    BY <1>1 DEF connect, connectTimers, IInv, Waiting, loopVars, setVars, TimeoutOf,
                ReconnectAfter
  <1>10. Idles' /\ Told' /\ OutputIsWatched'
    <2>1. told \in (0 .. MaxAttempts) \X States /\ told[1] <= attempt /\ told[1] \in Nat
      BY DEF IInv, TypeOK, PairsOK, Told
    <2> QED
      BY <1>1, <1>3, <2>1 DEF connect, IInv, Idles, Told, OutputIsWatched, loopVars, toldVars
  <1> QED
    BY <1>4, <1>5, <1>6, <1>7, <1>8, <1>9, <1>10 DEF IInv, TypeOK

LEMMA CreateOK == IInv /\ createConnection => IInv' /\ UNCHANGED reports
  <1> SUFFICES ASSUME IInv, createConnection PROVE IInv' /\ UNCHANGED reports
    OBVIOUS
  <1>1. channel = 0 /\ attempt = 0 /\ recon = FALSE
    BY DEF createConnection, OnLoop, IInv, Channels, Waiting, Up, TypeOK, FlagsOK
  <1>2. timers = {}
    <2>1. \A n \in Attempts : TimeoutOf(n) \notin timers /\ ReconnectAfter(n) \notin timers
      BY <1>1, ConnAssumption DEF IInv, Waiting, Attempts
    <2> QED
      BY <2>1, TimerKinds DEF IInv, TypeOK
  <1> QED
    BY <1>1, <1>2, ConnectOK DEF createConnection, OnLoop, toldVars

LEMMA FireReconnectOK ==
    ASSUME NEW n \in Attempts, IInv, FireReconnect(n) PROVE IInv' /\ UNCHANGED reports
  <1> DEFINE T == timers \ {ReconnectAfter(n)}
  <1>1. channel = 0 /\ attempt = n /\ recon
    BY DEF FireReconnect, IInv, Waiting
  <1>2. T = {}
    <2>1. \A m \in Attempts : TimeoutOf(m) \notin timers /\ (ReconnectAfter(m) \in timers => m = n)
      BY <1>1, ConnAssumption DEF IInv, Waiting, Attempts
    <2> QED
      BY <2>1, TimerKinds DEF IInv, TypeOK
  <1>3. cbs' \in BOOLEAN
    BY Zenon DEF FireReconnect, IInv, TypeOK, FlagsOK, idleVars
  <1> QED
    BY <1>1, <1>2, <1>3, ConnectOK DEF FireReconnect, toldVars, idleVars

----------------------------------------------------------------------------
(* The callers and the peer.                                               *)

LEMMA CloseCallOK == IInv /\ close => IInv' /\ UNCHANGED reports
  <1> SUFFICES ASSUME IInv, close PROVE IInv' /\ UNCHANGED reports
    OBVIOUS
  <1> USE ConnAssumption DEF close, connVars, chanVars, dataVars, timerVars, idleVars, setVars, loopVars,
           callVars, toldVars, Running
  <1>1. ScalarsOK' /\ PairsOK'
    BY DEF IInv, TypeOK, ScalarsOK, PairsOK
  <1>2. FlagsOK'
    BY Zenon DEF IInv, TypeOK, FlagsOK
  <1>3. Phases' /\ Channels' /\ Idles' /\ Told'
    BY DEF IInv, Phases, Channels, Idles, Told
  <1>4. Waiting'
    BY DEF IInv, Waiting
  <1>5. OutputIsWatched'
    BY DEF IInv, OutputIsWatched
  <1> QED
    BY <1>1, <1>2, <1>3, <1>4, <1>5 DEF IInv, TypeOK

LEMMA SendOutputOK == IInv /\ sendOutput => IInv' /\ UNCHANGED reports
  <1> SUFFICES ASSUME IInv, sendOutput PROVE IInv' /\ UNCHANGED reports
    OBVIOUS
  <1> USE ConnAssumption DEF sendOutput, connVars, chanVars, dataVars, timerVars, idleVars, setVars, loopVars,
           callVars, toldVars, OnLoop, Running, isend, sendWatch
  <1>1. ScalarsOK' /\ PairsOK'
    BY DEF IInv, TypeOK, ScalarsOK, PairsOK
  <1>2. FlagsOK'
    BY DEF IInv, TypeOK, FlagsOK
  <1>3. Phases' /\ Channels' /\ Idles' /\ Told'
    BY DEF IInv, Phases, Channels, Idles, Told
  <1>4. Waiting'
    BY DEF IInv, Waiting
  <1>5. OutputIsWatched'
    <2>1. channel # 0 => wr' = (wr \/ output' > 0)
      OBVIOUS
    <2>2. state = "Connected" => channel # 0
      BY DEF IInv, Channels, Up
    <2> QED
      BY <2>1, <2>2 DEF OutputIsWatched
  <1> QED
    BY <1>1, <1>2, <1>3, <1>4, <1>5 DEF IInv, TypeOK

LEMMA SendBytesOK == IInv /\ sendBytes => IInv' /\ UNCHANGED reports
  <1> SUFFICES ASSUME IInv, sendBytes PROVE IInv' /\ UNCHANGED reports
    OBVIOUS
  <1> USE ConnAssumption DEF sendBytes, connVars, chanVars, dataVars, timerVars, idleVars, setVars, loopVars,
           callVars, toldVars, OnLoop, Running, isend
  <1>1. ScalarsOK' /\ PairsOK'
    BY DEF IInv, TypeOK, ScalarsOK, PairsOK
  <1>2. FlagsOK'
    BY DEF IInv, TypeOK, FlagsOK
  <1>3. Phases' /\ Channels' /\ Idles' /\ Told'
    BY DEF IInv, Phases, Channels, Idles, Told
  <1>4. Waiting'
    BY DEF IInv, Waiting
  <1>5. OutputIsWatched'
    <2>1. SUFFICES ASSUME state = "Connected", peer # "down", output' > 0 PROVE wr'
      BY DEF OutputIsWatched
    <2>2. channel # 0 /\ output \in Nat
      BY <2>1 DEF IInv, Channels, Up, TypeOK, ScalarsOK
    <2>3. CASE output > 0
      <3>1. UNCHANGED wr
        BY <2>2, <2>3
      <3>2. wr
        BY <2>1, <2>3 DEF IInv, OutputIsWatched
      <3> QED
        BY Zenon, <3>1, <3>2
    <2>4. CASE output = 0
      <3>1. wr' = (wr \/ (output' > 0 /\ peer # "down"))
        BY <2>2, <2>4
      <3> QED
        BY <2>1, <3>1
    <2> QED
      BY <2>2, <2>3, <2>4
  <1> QED
    BY <1>1, <1>2, <1>3, <1>4, <1>5 DEF IInv, TypeOK

LEMMA AddIdleOK == IInv /\ addIdleCB => IInv' /\ UNCHANGED reports
  <1> SUFFICES ASSUME IInv, addIdleCB PROVE IInv' /\ UNCHANGED reports
    OBVIOUS
  <1> USE ConnAssumption DEF addIdleCB, connVars, chanVars, dataVars, timerVars, idleVars, setVars, loopVars,
           callVars, toldVars, OnLoop, Running
  <1>1. ScalarsOK' /\ PairsOK'
    BY DEF IInv, TypeOK, ScalarsOK, PairsOK
  <1>2. FlagsOK'
    BY Zenon DEF IInv, TypeOK, FlagsOK
  <1>3. Phases' /\ Channels' /\ Idles' /\ Told'
    BY DEF IInv, Phases, Channels, Idles, Told
  <1>4. Waiting'
    BY DEF IInv, Waiting
  <1>5. OutputIsWatched'
    BY DEF IInv, OutputIsWatched
  <1> QED
    BY <1>1, <1>2, <1>3, <1>4, <1>5 DEF IInv, TypeOK

LEMMA ExitOK == IInv /\ Exit => IInv' /\ UNCHANGED reports
  <1> SUFFICES ASSUME IInv, Exit PROVE IInv' /\ UNCHANGED reports
    OBVIOUS
  <1> USE ConnAssumption DEF Exit, connVars, chanVars, dataVars, timerVars, idleVars, setVars, loopVars,
           callVars, toldVars, Running
  <1>1. ScalarsOK' /\ PairsOK'
    BY DEF IInv, TypeOK, ScalarsOK, PairsOK
  <1>2. FlagsOK'
    BY Zenon DEF IInv, TypeOK, FlagsOK
  <1>3. Phases' /\ Channels' /\ Idles' /\ Told'
    BY DEF IInv, Phases, Channels, Idles, Told
  <1>4. Waiting'
    BY DEF IInv, Waiting
  <1>5. OutputIsWatched'
    BY DEF IInv, OutputIsWatched
  <1> QED
    BY <1>1, <1>2, <1>3, <1>4, <1>5 DEF IInv, TypeOK

LEMMA PeerOK == IInv /\ PeerMoves => IInv' /\ UNCHANGED reports
  <1> SUFFICES ASSUME IInv, PeerMoves PROVE IInv' /\ UNCHANGED reports
    OBVIOUS
  <1> USE ConnAssumption DEF PeerMoves, connVars, chanVars, dataVars, timerVars, idleVars, setVars, loopVars,
           callVars, toldVars, Running
  <1>1. ScalarsOK' /\ PairsOK'
    BY DEF IInv, TypeOK, ScalarsOK, PairsOK
  <1>2. FlagsOK'
    BY Zenon DEF IInv, TypeOK, FlagsOK
  <1>3. Phases' /\ Channels' /\ Idles' /\ Told'
    BY DEF IInv, Phases, Channels, Idles, Told
  <1>4. Waiting'
    BY DEF IInv, Waiting
  <1>5. OutputIsWatched'
    BY DEF IInv, OutputIsWatched
  <1> QED
    BY <1>1, <1>2, <1>3, <1>4, <1>5 DEF IInv, TypeOK

----------------------------------------------------------------------------
(* The loop.                                                               *)

LEMMA PollOK == IInv /\ Poll => IInv' /\ UNCHANGED reports
  <1> SUFFICES ASSUME IInv, Poll PROVE IInv' /\ UNCHANGED reports
    OBVIOUS
  <1> USE ConnAssumption DEF Poll, connVars, chanVars, dataVars, timerVars, idleVars, setVars, loopVars,
           callVars, toldVars, Running
  <1>1. ScalarsOK' /\ PairsOK'
    BY DEF IInv, TypeOK, ScalarsOK, PairsOK
  <1>2. FlagsOK'
    BY Zenon DEF IInv, TypeOK, FlagsOK
  <1>3. Phases' /\ Channels' /\ Idles' /\ Told'
    BY DEF IInv, Phases, Channels, Idles, Told
  <1>4. Waiting'
    BY DEF IInv, Waiting
  <1>5. OutputIsWatched'
    BY DEF IInv, OutputIsWatched
  <1> QED
    BY <1>1, <1>2, <1>3, <1>4, <1>5 DEF IInv, TypeOK

LEMMA EndEventsOK == IInv /\ EndEvents => IInv' /\ UNCHANGED reports
  <1> SUFFICES ASSUME IInv, EndEvents PROVE IInv' /\ UNCHANGED reports
    OBVIOUS
  <1> USE ConnAssumption DEF EndEvents, connVars, chanVars, dataVars, timerVars, idleVars, setVars, loopVars,
           callVars, toldVars, Running
  <1>1. ScalarsOK' /\ PairsOK'
    BY DEF IInv, TypeOK, ScalarsOK, PairsOK
  <1>2. FlagsOK'
    BY Zenon DEF IInv, TypeOK, FlagsOK
  <1>3. Phases' /\ Channels' /\ Idles' /\ Told'
    BY DEF IInv, Phases, Channels, Idles, Told
  <1>4. Waiting'
    BY DEF IInv, Waiting
  <1>5. OutputIsWatched'
    BY DEF IInv, OutputIsWatched
  <1> QED
    BY <1>1, <1>2, <1>3, <1>4, <1>5 DEF IInv, TypeOK

LEMMA EndTimeoutsOK == IInv /\ EndTimeouts => IInv' /\ UNCHANGED reports
  <1> SUFFICES ASSUME IInv, EndTimeouts PROVE IInv' /\ UNCHANGED reports
    OBVIOUS
  <1> USE ConnAssumption DEF EndTimeouts, connVars, chanVars, dataVars, timerVars, idleVars, setVars, loopVars,
           callVars, toldVars, Running
  <1>1. ScalarsOK' /\ PairsOK'
    BY DEF IInv, TypeOK, ScalarsOK, PairsOK
  <1>2. FlagsOK'
    BY Zenon DEF IInv, TypeOK, FlagsOK
  <1>3. Phases' /\ Channels' /\ Idles' /\ Told'
    BY DEF IInv, Phases, Channels, Idles, Told
  <1>4. Waiting'
    BY DEF IInv, Waiting
  <1>5. OutputIsWatched'
    BY DEF IInv, OutputIsWatched
  <1> QED
    BY <1>1, <1>2, <1>3, <1>4, <1>5 DEF IInv, TypeOK

LEMMA ReconnectOK == IInv /\ Reconnect => IInv' /\ UNCHANGED reports
  <1> SUFFICES ASSUME IInv, Reconnect PROVE IInv' /\ UNCHANGED reports
    OBVIOUS
  <1> USE ConnAssumption DEF Reconnect, Running, connVars, dataVars, idleVars, setVars, callVars,
                             toldVars
  <1>1. channel = attempt /\ attempt \in Attempts
    BY DEF IInv, Phases, Channels, TypeOK, ScalarsOK, Attempts
  <1>2. ScalarsOK'
    BY DEF IInv, TypeOK, ScalarsOK, Attempts
  <1>3. FlagsOK'
    BY Zenon DEF IInv, TypeOK, FlagsOK
  <1>4. PairsOK'
    <2>1. ReconnectAfter(attempt) \in {"timeout", "reconnect"} \X Attempts
      BY <1>1 DEF ReconnectAfter
    <2>2. timers' \subseteq {"timeout", "reconnect"} \X Attempts
      BY <2>1 DEF IInv, TypeOK, PairsOK
    <2>3. slot' \in (Attempts \X {"read", "write"}) \cup {NoEvent}
      BY DEF IInv, TypeOK, PairsOK, clearedSlot
    <2> QED
      BY <2>2, <2>3 DEF IInv, TypeOK, PairsOK
  <1>5. Phases'
    BY DEF IInv, Phases, TypeOK, ScalarsOK
  <1>6. Channels'
    BY <1>1 DEF IInv, Phases, Channels, Up, clearedSlot, TypeOK, ScalarsOK
  <1>7. Waiting'
    <2>1. \A n \in Attempts : TimeoutOf(n) \notin timers'
      BY <1>1 DEF IInv, Waiting, TimeoutOf, ReconnectAfter
    <2>2. \A n \in Attempts : ReconnectAfter(n) \in timers' => n = attempt
      BY <1>1 DEF IInv, Waiting, ReconnectAfter
    <2>3. attempt # 0 /\ ~ final
      BY <1>1 DEF IInv, Phases, Attempts
    <2> QED
      BY <1>1, <2>1, <2>2, <2>3 DEF Waiting, ReconnectAfter
  <1>8. Idles' /\ Told' /\ OutputIsWatched'
    BY DEF IInv, Idles, Told, OutputIsWatched, Phases
  <1> QED
    BY <1>2, <1>3, <1>4, <1>5, <1>6, <1>7, <1>8 DEF IInv, TypeOK

\* The handshake succeeds, in handleRead and in handleWrite.
LEMMA HandshakeOK ==
    ASSUME IInv, Running, state = "Handshaking", at = "events", Established,
           NEW place \in {"read", "events"}, handshakeDone(place), slot' = NoEvent,
           UNCHANGED closes
    PROVE  IInv' /\ told' # told
  <1> USE ConnAssumption DEF handshakeDone, Report, timerVars, idleVars, setVars, callVars
  <1>1. PICK left \in isend(output + 1) : output' = left /\ wr' = (left > 0)
    OBVIOUS
  <1>2. left \in Nat
    BY <1>1 DEF isend, Established, IInv, TypeOK, ScalarsOK
  <1>3. channel # 0 /\ channel = attempt /\ ~ recon
    BY DEF IInv, Channels, Waiting, Up
  <1>4. ScalarsOK'
    BY <1>1, <1>2 DEF IInv, TypeOK, ScalarsOK, States
  <1>5. FlagsOK'
    <2>1. wr' \in BOOLEAN
      BY <1>1
    <2> QED
      BY Zenon, <2>1 DEF IInv, TypeOK, FlagsOK
  <1>6. PairsOK' /\ told' # told /\ Told'
    <2>1. told' = <<attempt, "Connected">> /\ attempt \in 0 .. MaxAttempts /\ told[1] < attempt
      BY DEF IInv, TypeOK, ScalarsOK, Told
    <2>2. told' \in (0 .. MaxAttempts) \X States
      BY <2>1 DEF States
    <2>3. told' # told
      BY <2>1
    <2>4. Told'
      BY <2>1 DEF Told
    <2> QED
      BY <2>2, <2>3, <2>4 DEF IInv, TypeOK, PairsOK
  <1>7. Phases'
    BY <1>3 DEF IInv, Phases
  <1>8. Channels'
    BY <1>3 DEF IInv, Channels, Up, NoEvent
  <1>9. Waiting'
    BY <1>3 DEF IInv, Waiting
  <1>10. Idles'
    BY DEF IInv, Idles
  <1>11. OutputIsWatched'
    BY <1>1 DEF OutputIsWatched
  <1> QED
    BY <1>4, <1>5, <1>6, <1>7, <1>8, <1>9, <1>10, <1>11 DEF IInv, TypeOK

\* An event leads to the channel of an attempt that is going on.
LEMMA EventOK ==
    ASSUME IInv, slot # NoEvent
    PROVE  at = "events" /\ slot[1] = channel /\ channel # 0 /\ state \in Up /\ ~ recon
  BY ConnAssumption DEF IInv, Channels, Waiting, TypeOK, ScalarsOK, Attempts

LEMMA HandleReadOK == IInv /\ HandleRead => IInv' /\ (reports' # reports => told' # told)
  <1> SUFFICES ASSUME IInv, HandleRead PROVE IInv' /\ (reports' # reports => told' # told)
    OBVIOUS
  <1>1. Running /\ slot # NoEvent /\ at = "events" /\ UNCHANGED closes /\ closes' \in Nat
    BY DEF HandleRead, Dispatch, IInv, TypeOK, ScalarsOK
  <1>2. slot[1] = channel /\ channel # 0 /\ state \in Up /\ ~ recon
    BY <1>1, EventOK
  <1>3. CASE state = "Handshaking"
    <2>1. CASE Established /\ handshakeDone("read") /\ slot' = NoEvent
      BY <1>1, <1>3, <2>1, HandshakeOK
    <2>2. CASE cleanup(timers, FALSE, "events")
      BY <1>1, <1>2, <2>2, CleanupOK
    <2> QED
      BY <1>2, <1>3, <2>1, <2>2 DEF HandleRead
  <1>4. CASE state = "Connected"
    <2>1. /\ at' = "read" /\ slot' = NoEvent
          /\ UNCHANGED <<connVars, channel, live, dataVars, timerVars, idleVars, setVars, exit,
                         back, final, peer, callVars, fault, toldVars>>
      BY <1>2, <1>4 DEF HandleRead
    <2> USE <2>1 DEF connVars, dataVars, timerVars, idleVars, setVars, callVars, toldVars
    <2>2. ScalarsOK' /\ PairsOK'
      BY <1>1 DEF IInv, TypeOK, ScalarsOK, PairsOK
    <2>3. FlagsOK'
      BY Zenon DEF IInv, TypeOK, FlagsOK
    <2>4. Phases' /\ Channels' /\ Idles' /\ Told' /\ OutputIsWatched'
      BY <1>1, <1>4 DEF IInv, Phases, Channels, Idles, Told, OutputIsWatched
    <2>5. Waiting'
      BY <1>1 DEF IInv, Waiting
    <2> QED
      BY <2>2, <2>3, <2>4, <2>5 DEF IInv, TypeOK
  <1> QED
    BY <1>2, <1>3, <1>4 DEF Up

LEMMA HandleWriteOK == IInv /\ HandleWrite => IInv' /\ (reports' # reports => told' # told)
  <1> SUFFICES ASSUME IInv, HandleWrite PROVE IInv' /\ (reports' # reports => told' # told)
    OBVIOUS
  <1>1. Running /\ slot # NoEvent /\ at = "events" /\ UNCHANGED closes /\ closes' \in Nat
    BY DEF HandleWrite, Dispatch, IInv, TypeOK, ScalarsOK
  <1>2. slot[1] = channel /\ channel # 0 /\ state \in Up /\ ~ recon
    BY <1>1, EventOK
  <1>3. CASE state = "Handshaking"
    <2>1. CASE Established /\ handshakeDone("events") /\ slot' = NoEvent
      BY <1>1, <1>3, <2>1, HandshakeOK
    <2>2. CASE cleanup(timers, FALSE, "events")
      BY <1>1, <1>2, <2>2, CleanupOK
    <2> QED
      BY <1>2, <1>3, <2>1, <2>2 DEF HandleWrite
  <1>4. CASE state = "Connected"
    <2>1. /\ slot' = NoEvent
          /\ UNCHANGED <<connVars, channel, live, timerVars, idleVars, setVars, loopVars, peer,
                         callVars, fault, toldVars>>
      BY <1>2, <1>4 DEF HandleWrite
    <2>2. PICK left \in isend(output) :
             output' = left /\ wr' = (left > 0 /\ (wr \/ peer # "down"))
      BY <1>2, <1>4 DEF HandleWrite
    <2>3. left \in Nat
      BY <2>2 DEF isend, IInv, TypeOK, ScalarsOK
    <2>4. wr' \in BOOLEAN
      BY <2>2
    <2> USE <2>1 DEF connVars, loopVars, timerVars, idleVars, setVars, callVars, toldVars
    <2>5. ScalarsOK' /\ PairsOK'
      BY <1>1, <2>2, <2>3 DEF IInv, TypeOK, ScalarsOK, PairsOK
    <2>6. FlagsOK'
      BY Zenon, <2>4 DEF IInv, TypeOK, FlagsOK
    <2>7. Phases' /\ Channels' /\ Idles' /\ Told'
      BY <1>1, <1>4 DEF IInv, Phases, Channels, Idles, Told
    <2>8. Waiting'
      BY <1>1 DEF IInv, Waiting
    <2>9. OutputIsWatched'
      BY <2>2 DEF OutputIsWatched
    <2> QED
      BY <2>5, <2>6, <2>7, <2>8, <2>9 DEF IInv, TypeOK
  <1> QED
    BY <1>2, <1>3, <1>4 DEF Up

LEMMA ReadLoopOK == IInv /\ ReadLoop => IInv' /\ (reports' # reports => told' # told)
  <1> SUFFICES ASSUME IInv, ReadLoop PROVE IInv' /\ (reports' # reports => told' # told)
    OBVIOUS
  <1>1. Running /\ at = "read" /\ UNCHANGED closes /\ closes' \in Nat /\ state = "Connected"
    BY DEF ReadLoop, IInv, TypeOK, ScalarsOK, Phases
  <1>2. CASE cleanup(timers, FALSE, "events")
    BY <1>1, <1>2, CleanupOK DEF Up
  <1>3. CASE /\ at' = "events"
             /\ fault' = IF idle = "freed" THEN "idle" ELSE fault
             /\ UNCHANGED <<connVars, chanVars, dataVars, timerVars, idleVars, setVars, exit, back,
                            final, peer, callVars, toldVars>>
    <2> USE <1>3 DEF connVars, chanVars, dataVars, timerVars, idleVars, setVars, callVars, toldVars
    <2>1. ScalarsOK' /\ PairsOK'
      BY <1>1 DEF IInv, TypeOK, ScalarsOK, PairsOK
    <2>2. FlagsOK'
      BY Zenon DEF IInv, TypeOK, FlagsOK
    <2>3. Phases' /\ Channels' /\ Idles' /\ Told' /\ OutputIsWatched'
      BY <1>1 DEF IInv, Phases, Channels, Idles, Told, OutputIsWatched
    <2>4. Waiting'
      BY <1>1 DEF IInv, Waiting
    <2> QED
      BY <2>1, <2>2, <2>3, <2>4 DEF IInv, TypeOK
  <1> QED
    BY <1>2, <1>3 DEF ReadLoop

LEMMA RunCloseOK == IInv /\ RunClose => IInv' /\ (reports' # reports => told' # told)
  <1> SUFFICES ASSUME IInv, RunClose PROVE IInv' /\ (reports' # reports => told' # told)
    OBVIOUS
  <1>1. Running /\ at = "events" /\ closes' \in Nat
    BY DEF RunClose, IInv, TypeOK, ScalarsOK
  <1>2. CASE channel # 0
    BY <1>1, <1>2, CloseOK DEF RunClose
  <1>3. CASE channel = 0
    <2>0. UNCHANGED <<connVars, chanVars, dataVars, timerVars, idleVars, setVars, loopVars, peer,
                      callVars, fault, toldVars>>
      BY <1>3 DEF RunClose
    <2> USE <2>0 DEF connVars, chanVars, dataVars, timerVars, idleVars, setVars, loopVars,
                     callVars, toldVars
    <2>1. ScalarsOK' /\ PairsOK'
      BY <1>1 DEF IInv, TypeOK, ScalarsOK, PairsOK
    <2>2. FlagsOK'
      BY Zenon DEF IInv, TypeOK, FlagsOK
    <2>3. Phases' /\ Channels' /\ Idles' /\ Told' /\ OutputIsWatched'
      BY DEF IInv, Phases, Channels, Idles, Told, OutputIsWatched
    <2>4. Waiting'
      BY DEF IInv, Waiting
    <2> QED
      BY <2>1, <2>2, <2>3, <2>4 DEF IInv, TypeOK
  <1> QED
    BY <1>2, <1>3

LEMMA FireTimeoutOK ==
    ASSUME NEW n \in Attempts, IInv, FireTimeout(n)
    PROVE  IInv' /\ (reports' # reports => told' # told)
  <1> DEFINE T == timers \ {TimeoutOf(n)}
  <1>1. Running /\ at = "timeouts" /\ closes' \in Nat /\ UNCHANGED closes
    BY DEF FireTimeout, IInv, TypeOK, ScalarsOK
  <1>2. CASE state = "Handshaking"
    <2>1. channel # 0
      BY <1>1, <1>2 DEF IInv, Channels, Up
    <2>2. closeChannel(T, "timeouts")
      BY <1>2 DEF FireTimeout
    <2> QED
      BY <1>1, <2>1, <2>2, CloseOK
  <1>3. CASE state # "Handshaking"
    <2>1. /\ timers' = T
          /\ UNCHANGED <<connVars, chanVars, dataVars, timeoutId, recon, idleVars, setVars,
                         loopVars, peer, callVars, fault, toldVars>>
      BY <1>3 DEF FireTimeout
    <2> USE <2>1 DEF connVars, chanVars, dataVars, idleVars, setVars, loopVars, callVars, toldVars
    <2>2. ScalarsOK' /\ PairsOK'
      BY <1>1 DEF IInv, TypeOK, ScalarsOK, PairsOK
    <2>3. FlagsOK'
      BY Zenon DEF IInv, TypeOK, FlagsOK
    <2>4. Phases' /\ Channels' /\ Idles' /\ Told' /\ OutputIsWatched'
      BY DEF IInv, Phases, Channels, Idles, Told, OutputIsWatched
    <2>5. Waiting'
      BY DEF IInv, Waiting, TimeoutOf, ReconnectAfter
    <2> QED
      BY <2>2, <2>3, <2>4, <2>5 DEF IInv, TypeOK
  <1> QED
    BY <1>2, <1>3

LEMMA LoopEndsOK == IInv /\ LoopEnds => IInv' /\ final' # final
  <1> SUFFICES ASSUME IInv, LoopEnds PROVE IInv' /\ final' # final
    OBVIOUS
  <1> USE ConnAssumption DEF LoopEnds, Running, finish, Report, dataVars, setVars, callVars, toldVars
  <1>1. at = "poll" /\ exit /\ ~ final /\ slot = NoEvent /\ (recon => channel = 0 /\ state \notin Up)
    BY DEF IInv, Channels, Waiting
  <1>2. ScalarsOK'
    <2>1. /\ idle' \in {"none", "listed", "freed"} /\ fault' \in {"none", "state", "channel", "idle"}
          /\ state' \in States
      BY DEF IInv, TypeOK, ScalarsOK, States
    <2>2. channel' \in 0 .. MaxAttempts /\ live' \subseteq Attempts
      <3>1. /\ channel' = 0 \/ channel' = channel
            /\ live' = live \ {channel} \/ live' = live
        BY DEF IInv
      <3>2. channel \in 0 .. MaxAttempts /\ live \subseteq Attempts /\ 0 \in 0 .. MaxAttempts
        BY DEF IInv, TypeOK, ScalarsOK
      <3> QED
        BY <3>1, <3>2
    <2>3. reports' \in Nat
      BY DEF IInv, TypeOK, ScalarsOK
    <2>4. UNCHANGED <<attempt, output, closes, at, back, peer, closed, sent>>
      OBVIOUS
    <2> QED
      BY <2>1, <2>2, <2>3, <2>4 DEF IInv, TypeOK, ScalarsOK
  <1>3. FlagsOK'
    BY Zenon DEF IInv, TypeOK, FlagsOK
  <1>4. PairsOK' /\ Told'
    <2>1. CASE recon
      <3>1. told' = <<attempt, "Closed">> /\ attempt \in 0 .. MaxAttempts /\ state' = "Closed"
        BY <2>1 DEF IInv, TypeOK, ScalarsOK
      <3>2. told' \in (0 .. MaxAttempts) \X States
        BY <3>1 DEF States
      <3> QED
        BY <3>1, <3>2 DEF IInv, TypeOK, PairsOK, Told
    <2>2. CASE ~ recon
      BY <2>2 DEF IInv, TypeOK, PairsOK, Told
    <2> QED
      BY <2>1, <2>2
  <1>5. Phases'
    BY <1>1 DEF IInv, Phases
  <1>6. Channels'
    BY <1>1 DEF IInv, Channels, Waiting, Up
  <1>7. Waiting'
    BY <1>1 DEF IInv, Waiting
  <1>8. Idles' /\ OutputIsWatched' /\ final' # final
    BY <1>1 DEF IInv, Idles, OutputIsWatched
  <1> QED
    BY <1>2, <1>3, <1>4, <1>5, <1>6, <1>7, <1>8 DEF IInv, TypeOK

LEMMA DestroyOK == IInv /\ Destroy => IInv' /\ (reports' # reports => told' # told)
  <1> SUFFICES ASSUME IInv, Destroy PROVE IInv' /\ (reports' # reports => told' # told)
    OBVIOUS
  <1>1. Running /\ at = "done" /\ final /\ closes' \in Nat /\ UNCHANGED closes
    BY DEF Destroy, IInv, TypeOK, ScalarsOK, Phases
  <1>2. CASE channel # 0
    BY <1>1, <1>2, CloseOK DEF Destroy
  <1>3. CASE channel = 0
    <2>0. /\ at' = "gone"
          /\ UNCHANGED <<connVars, chanVars, dataVars, timerVars, idleVars, setVars, exit, back,
                         final, peer, callVars, fault, toldVars>>
      BY <1>3 DEF Destroy
    <2> USE <1>3, <2>0 DEF connVars, chanVars, dataVars, timerVars, idleVars, setVars, callVars,
                           toldVars
    <2>1. ScalarsOK' /\ PairsOK'
      BY <1>1 DEF IInv, TypeOK, ScalarsOK, PairsOK
    <2>2. FlagsOK'
      BY Zenon DEF IInv, TypeOK, FlagsOK
    <2>3. Phases' /\ Channels' /\ Idles' /\ Told' /\ OutputIsWatched'
      BY <1>1 DEF IInv, Phases, Channels, Idles, Told, OutputIsWatched
    <2>4. Waiting'
      BY <1>1 DEF IInv, Waiting
    <2> QED
      BY <2>1, <2>2, <2>3, <2>4 DEF IInv, TypeOK
  <1> QED
    BY <1>2, <1>3

----------------------------------------------------------------------------
(* Every step, and the theorems.                                           *)

LEMMA StutterOK == IInv /\ UNCHANGED vars => IInv' /\ UNCHANGED reports
  <1> SUFFICES ASSUME IInv, UNCHANGED vars PROVE IInv' /\ UNCHANGED reports
    OBVIOUS
  <1>1. UNCHANGED <<connVars, chanVars, dataVars, timerVars, idleVars, setVars, loopVars, peer,
                    closes, callVars, fault, toldVars>>
    BY DEF vars
  <1> USE <1>1 DEF connVars, chanVars, dataVars, timerVars, idleVars, setVars, loopVars,
                   callVars, toldVars
  <1>2. ScalarsOK' /\ PairsOK'
    BY DEF IInv, TypeOK, ScalarsOK, PairsOK
  <1>3. FlagsOK'
    BY Zenon DEF IInv, TypeOK, FlagsOK
  <1>4. Phases' /\ Channels' /\ Idles' /\ Told' /\ OutputIsWatched'
    BY DEF IInv, Phases, Channels, Idles, Told, OutputIsWatched
  <1>5. Waiting'
    BY DEF IInv, Waiting
  <1> QED
    BY <1>2, <1>3, <1>4, <1>5 DEF IInv, TypeOK

LEMMA NextOK ==
    IInv /\ [Next]_vars => IInv' /\ (reports' # reports => told' # told \/ final' # final)
  BY StutterOK, CreateOK, CloseCallOK, SendOutputOK, SendBytesOK, AddIdleOK, ExitOK, PeerOK, PollOK,
     HandleReadOK, ReadLoopOK, HandleWriteOK, RunCloseOK, ReconnectOK, EndEventsOK,
     EndTimeoutsOK, LoopEndsOK, DestroyOK, FireTimeoutOK, FireReconnectOK
     DEF Next, Loop

LEMMA Invariant == SafeSpec => []IInv
  BY InitOK, NextOK, PTL DEF SafeSpec

\* The types of the connection's fields hold in every state.
THEOREM TypeCorrect == SafeSpec => []TypeOK
  BY Invariant, PTL DEF IInv

\* The fatalif of connect() never fires: whatever close(), the connect timeout,
\* the peer and the reconnection do, connect() finds no channel and a state in
\* which it may be entered.
THEOREM ConnectsAreSafe == SafeSpec => []ConnectsWhenDown
  <1>1. IInv => ConnectsWhenDown
    BY DEF IInv, Idles, ConnectsWhenDown
  <1> QED
    BY <1>1, Invariant, PTL

\* An event in activeEvs_ leads to the connection's channel of now, which is open,
\* and no closure finds a channel whose connection is gone.
THEOREM EventsAreSafe == SafeSpec => []EventsLeadToChannel
  <1>1. IInv => EventsLeadToChannel
    BY DEF IInv, Idles, Channels, EventsLeadToChannel
  <1> QED
    BY <1>1, Invariant, PTL

\* A connect timeout that is set is the one of the current attempt.
THEOREM TimeoutsStayOwn == SafeSpec => []TimeoutIsOwn
  <1>1. IInv => TimeoutIsOwn
    BY DEF IInv, Waiting, TimeoutIsOwn
  <1> QED
    BY <1>1, Invariant, PTL

\* A connection to be kept up always has an open channel or a way to get one,
\* until exit_ is set.
THEOREM NotStranded == SafeSpec => []NeverStranded
  <1>1. IInv => NeverStranded
    <2> SUFFICES ASSUME IInv, reconnect, state # "Invalid", ~ exit
                 PROVE  \/ channel \in live /\ at # "reconnect" /\ ~ recon
                        \/ at = "reconnect" /\ ~ recon
                        \/ channel = 0 /\ recon /\ ReconnectAfter(attempt) \in timers
      BY DEF NeverStranded
    <2>1. attempt # 0
      BY DEF IInv, Channels
    <2>2. CASE at = "reconnect"
      BY <2>2 DEF IInv, Phases, Waiting
    <2>3. CASE at # "reconnect" /\ channel # 0
      BY <2>3 DEF IInv, Channels, Waiting
    <2>4. CASE channel = 0
      BY <2>1, <2>4 DEF IInv, Waiting
    <2> QED
      BY <2>2, <2>3, <2>4
  <1> QED
    BY <1>1, Invariant, PTL

\* Nothing of the connection is left when the event base is gone.
THEOREM LeftClean == SafeSpec => []CleanedUp
  <1>1. IInv => CleanedUp
    BY DEF IInv, Phases, Channels, Waiting, CleanedUp
  <1> QED
    BY <1>1, Invariant, PTL

\* Output waiting on a connection that is up is watched for writing.
THEOREM OutputStaysWatched == SafeSpec => []OutputIsWatched
  BY Invariant, PTL DEF IInv

\* The state callback is called for a change, or by loop() at its end.
THEOREM CallbacksReportChange == SafeSpec => ReportsChange
  <1>1. IInv /\ [Next]_vars => [reports' # reports => told' # told \/ final' # final]_vars
    BY NextOK
  <1> QED
    BY <1>1, Invariant, PTL DEF SafeSpec, ReportsChange
=============================================================================
