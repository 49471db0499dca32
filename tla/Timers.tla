-------------------------------- MODULE Timers --------------------------------
(***************************************************************************)
(* The timers of handy::EventBase.  All of it runs on the loop's thread,   *)
(* but not in a fixed order: handlers of channels and the timers' own      *)
(* tasks call runAt and cancel in the middle of a pass, exit() comes from  *)
(* any thread, and time goes by at every step.                             *)
(*                                                                         *)
(* timers_ is ordered by (at, seq).  The entry of a repeating timer holds  *)
(* a raw pointer to its record in timerReps_, and the record holds the     *)
(* entry's TimerId; each firing makes a new entry.                         *)
(*                                                                         *)
(* The clock is util::timeMilli, taken never to be set back.               *)
(***************************************************************************)
EXTENDS Integers

CONSTANTS Times,       \* what callers give to runAt, in milliseconds after the epoch
          Intervals,   \* intervals of repeating timers
          MaxWait,     \* the 10000 of loop()
          IntSpan,     \* 2^31: an int holds -IntSpan .. IntSpan - 1
          MaxTime,     \* bound on the clock
          MaxCalls     \* bound on the calls of runAt and cancel

ASSUME TimersAssumption ==
    /\ Times \subseteq Nat \ {0} /\ Intervals \subseteq Nat \ {0}
    /\ MaxWait \in Nat /\ IntSpan \in Nat \ {0}
    /\ MaxTime \in Nat /\ MaxCalls \in Nat

VARIABLES clock,
          timers,       \* timers_: entries [at, seq, key]; key is 0 for a one-shot timer
          reps,         \* timerReps_: records [key, at, interval, seq]
          timerSeq,     \* timerSeq_
          nextTimeout,  \* nextTimeout_
          exit,         \* exit_
          at,           \* where the loop thread is
          final,        \* whether it is in the pass after the while loop
          until,        \* when the wait in epoll_wait times out; 0 outside of it
          passNow,      \* the `now` of handleTimeouts; 0 outside of it
          fault,        \* an iterator past the end, a freed record or task was used
          calls,        \* calls made so far
          once, repeat, \* history: the ids handed to callers, by their seq
          cancelled,    \* history: those given to cancel
          running,      \* history: the id of the task being run
          refreshedAt,  \* history: when nextTimeout_ was computed
          cut,          \* history: whether it was from a time too long past for an int
          waitFrom      \* history: when epoll_wait was called; 0 outside of it

nearestVars == <<nextTimeout, refreshedAt, cut>>
mapVars == <<timers, reps, timerSeq, nearestVars>>
loopVars == <<at, final, until, passNow, running, waitFrom>>
callVars == <<calls, once, repeat, cancelled>>
vars == <<clock, mapVars, loopVars, callVars, exit, fault>>

Far == IntSpan \div 2     \* 1 << 30
Never == -1              \* the wait has no end

Entries == [at : Nat, seq : Nat \ {0}, key : Nat]
Reps == [key : Nat \ {0}, at : Nat, interval : Intervals, seq : Nat \ {0}]

TypeOK ==
    /\ clock \in Nat /\ refreshedAt \in Nat /\ waitFrom \in Nat
    /\ passNow \in Nat /\ until \in Nat \cup {Never}
    /\ timers \subseteq Entries /\ reps \subseteq Reps
    /\ timerSeq \in Nat /\ calls \in Nat
    /\ nextTimeout \in -IntSpan .. IntSpan - 1
    /\ exit \in BOOLEAN /\ final \in BOOLEAN /\ fault \in BOOLEAN /\ cut \in BOOLEAN
    /\ at \in {"start", "wait", "handlers", "timeouts", "task", "test", "done"}
    /\ once \subseteq Nat \ {0} /\ repeat \subseteq Nat \ {0} /\ cancelled \subseteq Nat
    /\ running \in Nat


Init ==
    /\ clock = 1
    /\ timers = {} /\ reps = {} /\ timerSeq = 0
    /\ nextTimeout = Far /\ refreshedAt = clock /\ cut = FALSE
    /\ exit = FALSE /\ fault = FALSE
    /\ at = "start" /\ final = FALSE /\ until = 0 /\ waitFrom = 0
    /\ passNow = 0 /\ running = 0
    /\ calls = 0 /\ once = {} /\ repeat = {} /\ cancelled = {}

Before(e, f) == e.at < f.at \/ (e.at = f.at /\ e.seq <= f.seq)
IsFirst(e, T) == e \in T /\ \A f \in T : Before(e, f)

\* An int64_t stored in an int.
Trunc(x) == ((x + IntSpan) % (2 * IntSpan)) - IntSpan

Least(x, y) == IF x < y THEN x ELSE y

\* A mistake refreshNearest could have made: epoll_wait would take a negative
\* number to mean no timeout.
refreshNearestUnclamped(T) ==
    /\ \/ T = {} /\ nextTimeout' = Far
       \/ \E e \in T : IsFirst(e, T) /\ nextTimeout' = Trunc(e.at - clock)
    /\ refreshedAt' = clock /\ UNCHANGED cut

\* refreshNearest, when timers_ has become T.
refreshNearest(T) ==
    /\ \/ T = {} /\ nextTimeout' = Far /\ cut' = FALSE
       \/ \E e \in T :
             /\ IsFirst(e, T)
             /\ nextTimeout' = LET d == Trunc(e.at - clock) IN IF d < 0 THEN 0 ELSE d
             /\ cut' = (e.at - clock < -IntSpan)
    /\ refreshedAt' = clock

----------------------------------------------------------------------------
(* Callers, on the loop's thread: before loop(), in a channel's handler or *)
(* in a timer's task.                                                      *)

MayCall == ~ fault /\ calls < MaxCalls /\ at \in {"start", "handlers", "task"}

\* A mistake runAt could have made: nextTimeout_ is left as it was.
runAtOnceNoRefresh(milli) ==
    /\ MayCall /\ ~ exit
    /\ timerSeq' = timerSeq + 1
    /\ timers' = timers \cup {[at |-> milli, seq |-> timerSeq + 1, key |-> 0]}
    /\ once' = once \cup {timerSeq + 1} /\ calls' = calls + 1
    /\ UNCHANGED <<clock, reps, nearestVars, loopVars, repeat, cancelled, exit,
                   fault>>

\* runAt does nothing once exit_ is set.
runAtOnce(milli) ==
    /\ MayCall /\ ~ exit
    /\ timerSeq' = timerSeq + 1
    /\ timers' = timers \cup {[at |-> milli, seq |-> timerSeq + 1, key |-> 0]}
    /\ refreshNearest(timers')
    /\ once' = once \cup {timerSeq + 1} /\ calls' = calls + 1
    /\ UNCHANGED <<clock, reps, loopVars, repeat, cancelled, exit, fault>>

\* A repeating timer has two numbers: its id, the key of its record, and that of
\* its first entry.
runAtRepeat(milli, d) ==
    /\ MayCall /\ ~ exit
    /\ timerSeq' = timerSeq + 2
    /\ reps' = reps \cup {[key |-> timerSeq + 1, at |-> milli, interval |-> d,
                           seq |-> timerSeq + 2]}
    /\ timers' = timers \cup {[at |-> milli, seq |-> timerSeq + 2, key |-> timerSeq + 1]}
    /\ refreshNearest(timers')
    /\ repeat' = repeat \cup {timerSeq + 1} /\ calls' = calls + 1
    /\ UNCHANGED <<clock, loopVars, once, cancelled, exit, fault>>

\* cancel of a one-shot timer; the id may be that of one that has run.
cancelOnce(q) ==
    /\ MayCall /\ q \in once
    /\ timers' = {e \in timers : e.key # 0 \/ e.seq # q}
    /\ cancelled' = cancelled \cup {q} /\ calls' = calls + 1
    /\ UNCHANGED <<clock, reps, timerSeq, nearestVars, loopVars, once, repeat,
                   exit, fault>>

\* Mistakes cancel could have made: the entry of the repeating timer stays, and
\* timers_ is searched for the id given instead of the one in the record.
cancelRepeatKeepsEntry(k) ==
    /\ MayCall /\ k \in repeat
    /\ reps' = {r \in reps : r.key # k}
    /\ cancelled' = cancelled \cup {k} /\ calls' = calls + 1
    /\ UNCHANGED <<clock, timers, timerSeq, nearestVars, loopVars, once, repeat,
                   exit, fault>>

cancelRepeatNotFound(k) ==
    /\ MayCall /\ k \in repeat
    /\ cancelled' = cancelled \cup {k} /\ calls' = calls + 1
    /\ UNCHANGED <<clock, mapVars, loopVars, once, repeat, exit, fault>>

\* cancel of a repeating timer: its current entry, if timers_ has it, and its
\* record.  The result of the first find is not compared with end().  When a task
\* cancels its own timer, erasing the record destroys the tr->cb that is running:
\* what the task captured may or may not be used before it returns.
cancelRepeat(k) ==
    /\ MayCall /\ k \in repeat
    /\ timers' = {e \in timers : ~ \E r \in reps : r.key = k /\ e.at = r.at /\ e.seq = r.seq}
    /\ reps' = {r \in reps : r.key # k}
    /\ \/ fault' = ~ \E r \in reps : r.key = k
       \/ running = k /\ fault' = TRUE
    /\ cancelled' = cancelled \cup {k} /\ calls' = calls + 1
    /\ UNCHANGED <<clock, timerSeq, nearestVars, loopVars, once, repeat, exit>>

\* exit(), from any thread.
Exit ==
    /\ ~ fault /\ ~ exit
    /\ exit' = TRUE
    /\ UNCHANGED <<clock, mapVars, loopVars, callVars, fault>>

----------------------------------------------------------------------------
(* The loop.                                                               *)

\* while (!exit_) loop_once(10000), which waits min(waitMs, nextTimeout_); the
\* pass after the while loop waits for 0 and has no timers left.  No wait starts
\* after the bound on the clock.
Wait ==
    /\ ~ fault /\ at \in {"start", "test"} /\ clock <= MaxTime
    /\ at' = "wait" /\ final' = exit /\ waitFrom' = clock
    /\ LET wait == Least(IF exit THEN 0 ELSE MaxWait, nextTimeout)
       IN  until' = IF wait < 0 THEN Never ELSE clock + wait
    /\ timers' = IF exit THEN {} ELSE timers
    /\ reps' = IF exit THEN {} ELSE reps
    /\ UNCHANGED <<clock, timerSeq, nearestVars, passNow, running, callVars,
                   exit, fault>>

\* epoll_wait returns, for an event or because its time is over.
Event ==
    /\ ~ fault /\ at = "wait"
    /\ at' = "handlers" /\ until' = 0 /\ waitFrom' = 0
    /\ UNCHANGED <<clock, mapVars, final, passNow, running, callVars, exit, fault>>
TimedOut == until # Never /\ clock >= until /\ Event

\* The handlers are done; handleTimeouts reads the clock.
StartTimeouts ==
    /\ ~ fault /\ at = "handlers"
    /\ at' = "timeouts" /\ passNow' = clock
    /\ UNCHANGED <<clock, mapVars, final, until, running, waitFrom, callVars, exit, fault>>

Due(e) == IsFirst(e, timers) /\ e.at <= passNow

\* The first timer is due and is a one-shot: the entry is erased, the task called.
FireOnce(e) ==
    /\ ~ fault /\ at = "timeouts" /\ Due(e) /\ e.key = 0
    /\ timers' = timers \ {e}
    /\ at' = "task" /\ running' = e.seq
    /\ UNCHANGED <<clock, reps, timerSeq, nearestVars, final, until, passNow,
                   waitFrom, callVars, exit, fault>>

\* It is a repeating one: repeatableTimeout puts in the next entry before it calls
\* the task.
FireRepeat(e) ==
    /\ ~ fault /\ at = "timeouts" /\ Due(e) /\ e.key # 0
    /\ IF \A r \in reps : r.key # e.key
       THEN fault' = TRUE /\ UNCHANGED <<mapVars, at, running>>
       ELSE \E r \in reps :
              LET next == r.at + r.interval
              IN  /\ r.key = e.key
                  /\ timerSeq' = timerSeq + 1
                  /\ reps' = (reps \ {r}) \cup {[r EXCEPT !.at = next, !.seq = timerSeq + 1]}
                  /\ timers' = (timers \ {e})
                               \cup {[at |-> next, seq |-> timerSeq + 1, key |-> r.key]}
                  /\ refreshNearest(timers')
                  /\ at' = "task" /\ running' = r.key
                  /\ UNCHANGED fault
    /\ UNCHANGED <<clock, final, until, passNow, waitFrom, callVars, exit>>

TaskReturns ==
    /\ ~ fault /\ at = "task"
    /\ at' = "timeouts" /\ running' = 0
    /\ UNCHANGED <<clock, mapVars, final, until, passNow, waitFrom, callVars, exit, fault>>

\* Nothing more is due at passNow.
EndPass ==
    /\ ~ fault /\ at = "timeouts" /\ ~ \E e \in timers : Due(e)
    /\ refreshNearest(timers)
    /\ at' = (IF final THEN "done" ELSE "test") /\ passNow' = 0
    /\ UNCHANGED <<clock, timers, reps, timerSeq, final, until, running, waitFrom, callVars,
                   exit, fault>>

\* Time goes by, up to the bound and to the end of the wait it falls in.
Tick ==
    /\ ~ fault /\ (clock < MaxTime \/ (at = "wait" /\ clock < until))
    /\ clock' = clock + 1
    /\ UNCHANGED <<mapVars, loopVars, callVars, exit, fault>>

Loop == \/ Wait \/ TimedOut \/ StartTimeouts \/ TaskReturns \/ EndPass
        \/ \E e \in timers : FireOnce(e) \/ FireRepeat(e)

Next ==
    \/ \E m \in Times : runAtOnce(m) \/ \E d \in Intervals : runAtRepeat(m, d)
    \/ \E q \in once : cancelOnce(q)
    \/ \E k \in repeat : cancelRepeat(k)
    \/ Exit \/ Loop \/ Event \/ Tick

SafeSpec == Init /\ [][Next]_vars

\* The loop's thread is scheduled, tasks and handlers return, and time goes by;
\* no event is relied on to end a wait.
Spec == SafeSpec /\ WF_vars(Loop) /\ WF_vars(Tick)

----------------------------------------------------------------------------
(* Properties.                                                             *)

EntryOf(r) == [at |-> r.at, seq |-> r.seq, key |-> r.key]

\* Each record of timerReps_ has exactly its own entry in timers_, and each entry
\* of a repeating timer leads to a record that is there: the raw pointer in the
\* entry is never followed after cancel or loop() has freed the record, and no
\* repeating timer is ever left without its next entry, whatever its own task
\* or the tasks of other timers cancel.  (That a task which cancels its own timer
\* runs on in a destroyed closure is a fault it does not exclude.)
RepsPaired ==
    /\ \A r \in reps : {e \in timers : e.key = r.key} = {EntryOf(r)}
    /\ \A e \in timers : e.key # 0 => \E r \in reps : r.key = e.key

\* Once cancel has been called on a timer its task is not started again, even if
\* it was due already in the pass that cancelled it, or cancels itself.
CancelledStaysSilent == [][running' # running => running' \notin cancelled]_vars

\* A wait lasts no longer than to the time of any timer, but for the time that
\* went by between refreshNearest and epoll_wait.  It holds although cancel does
\* not refresh nextTimeout_ and the difference of two int64_t is cut to an int;
\* only a timer more than IntSpan in the past can be waited for.
NoOversleep ==
    at = "wait" /\ ~ cut =>
        \A e \in timers :
            /\ until # Never
            /\ until <= waitFrom \/ until <= e.at + (waitFrom - refreshedAt)

IdOf(e) == IF e.key = 0 THEN e.seq ELSE e.key

\* A timer that is due is run, unless it is cancelled or dropped by loop()'s exit.
DueIsServed ==
    \A q \in 1 .. 2 * MaxCalls :
        (\E e \in timers : IdOf(e) = q /\ e.at <= clock)
            ~> (fault \/ running = q \/ ~ \E e \in timers : IdOf(e) = q)

----------------------------------------------------------------------------
(* What a comment of the code says and the code does not do.               *)

\* event_base.h:25: cancelling a timer that has expired is ignored.
CancelIgnoresExpired ==
    [][\A k \in repeat : cancelRepeat(k) /\ (\A r \in reps : r.key # k) => ~ fault']_vars
=============================================================================
