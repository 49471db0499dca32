---------------------------- MODULE Timers_proofs ----------------------------
(***************************************************************************)
(* Safety of the timers for any times, intervals and bounds: records and   *)
(* entries of repeating timers stay paired, cancelled timers stay silent,  *)
(* and no wait runs past a timer.                                          *)
(***************************************************************************)
EXTENDS Timers, TLAPS

\* Every entry carries a number that was handed out, one-shot and repeating timers
\* have different ones, and new numbers are larger than all of them.
Numbered ==
    /\ \A e \in timers : /\ e.seq <= timerSeq /\ e.key <= timerSeq
                         /\ e.key = 0 => e.seq \in once
                         /\ e.key # 0 => e.key \in repeat
    /\ \A q \in once \cup repeat : q <= timerSeq
    /\ once \cap repeat = {}

\* RepsPaired, and what makes it inductive: the numbers of two records differ.
Paired ==
    /\ \A r \in reps : EntryOf(r) \in timers
    /\ \A e \in timers : e.key # 0 => \E r \in reps : e = EntryOf(r)
    /\ \A r, s \in reps : r.key = s.key \/ r.seq = s.seq => r = s

\* No entry is left of a timer that was cancelled.
Silent ==
    /\ cancelled \subseteq once \cup repeat
    /\ \A e \in timers : IdOf(e) \notin cancelled

\* nextTimeout_ was computed from a first entry that no entry in the map precedes,
\* and a wait is no longer than nextTimeout_.
Covered ==
    /\ nextTimeout >= 0
    /\ ~ cut => \A e \in timers : nextTimeout <= 0 \/ nextTimeout <= e.at - refreshedAt
    /\ at = "wait" => until # Never /\ until <= waitFrom + nextTimeout

----------------------------------------------------------------------------
(* Operators.                                                              *)

LEMMA TruncRange ==
    ASSUME NEW x \in Int
    PROVE  Trunc(x) \in -IntSpan .. IntSpan - 1
  <1>1. IntSpan \in Nat \ {0} /\ 2 * IntSpan \in Nat \ {0}
    BY TimersAssumption
  <1> DEFINE m == 2 * IntSpan
             y == x + IntSpan
  <1>2. y \in Int /\ m \in Nat \ {0}
    BY <1>1
  <1> HIDE DEF m, y
  <1>3. y % m \in 0 .. m - 1
    BY <1>2
  <1> QED
    BY <1>1, <1>3 DEF Trunc, m, y

\* Cutting a number to an int never makes it larger, unless it is below every int.
LEMMA TruncBelow ==
    ASSUME NEW x \in Int, x >= -IntSpan
    PROVE  Trunc(x) <= x
  <1>1. IntSpan \in Nat \ {0} /\ 2 * IntSpan \in Nat \ {0}
    BY TimersAssumption
  <1> DEFINE m == 2 * IntSpan
             y == x + IntSpan
  <1>2. y \in Nat /\ m \in Nat \ {0}
    BY <1>1
  <1> HIDE DEF m, y
  <1>3. y % m <= y
    BY <1>2
  <1>4. y % m \in Int
    BY <1>2
  <1> QED
    BY <1>1, <1>3, <1>4 DEF Trunc, m, y

LEMMA FarRange == Far \in 0 .. IntSpan - 1
  BY TimersAssumption DEF Far

\* What refreshNearest leaves in nextTimeout_.
LEMMA Refreshed ==
    ASSUME clock \in Nat, NEW T, T \subseteq Entries, refreshNearest(T)
    PROVE  /\ nextTimeout' \in 0 .. IntSpan - 1
           /\ refreshedAt' = clock
           /\ cut' \in BOOLEAN
           /\ ~ cut' => \A e \in T : nextTimeout' <= 0 \/ nextTimeout' <= e.at - clock
  <1>0. IntSpan \in Nat \ {0}
    BY TimersAssumption
  <1>1. CASE T = {} /\ nextTimeout' = Far /\ cut' = FALSE
    BY <1>1, FarRange DEF refreshNearest
  <1>2. ASSUME NEW e \in T, IsFirst(e, T),
               nextTimeout' = LET d == Trunc(e.at - clock) IN IF d < 0 THEN 0 ELSE d,
               cut' = (e.at - clock < -IntSpan)
        PROVE  /\ nextTimeout' \in 0 .. IntSpan - 1
               /\ cut' \in BOOLEAN
               /\ ~ cut' => \A f \in T : nextTimeout' <= 0 \/ nextTimeout' <= f.at - clock
    <2>1. e.at \in Nat /\ \A f \in T : f.at \in Nat /\ e.at <= f.at
      BY <1>2 DEF IsFirst, Before, Entries
    <2> DEFINE d == Trunc(e.at - clock)
    <2>2. d \in -IntSpan .. IntSpan - 1
      BY <2>1, TruncRange
    <2>3. e.at - clock >= -IntSpan => d <= e.at - clock
      BY <2>1, TruncBelow
    <2>4. nextTimeout' = IF d < 0 THEN 0 ELSE d
      BY <1>2
    <2> HIDE DEF d
    <2>5. nextTimeout' \in 0 .. IntSpan - 1
      BY <1>0, <2>2, <2>4
    <2>6. cut' \in BOOLEAN
      <3>1. CASE e.at - clock < -IntSpan
        BY <1>2, <3>1
      <3>2. CASE ~ (e.at - clock < -IntSpan)
        BY <1>2, <3>2
      <3> QED BY <3>1, <3>2
    <2>7. ASSUME ~ cut' PROVE e.at - clock >= -IntSpan
      <3>1. ~ (e.at - clock < -IntSpan)
        BY <1>2, <2>7
      <3> QED
        BY <1>0, <2>1, <3>1
    <2>8. ASSUME ~ cut', NEW f \in T PROVE nextTimeout' <= 0 \/ nextTimeout' <= f.at - clock
      BY <2>1, <2>2, <2>3, <2>4, <2>7, <2>8
    <2> QED
      BY <2>5, <2>6, <2>8
  <1> QED
    BY <1>1, <1>2 DEF refreshNearest

----------------------------------------------------------------------------
(* Type correctness.                                                       *)

LEMMA InitType == Init => TypeOK
  <1> SUFFICES ASSUME Init PROVE TypeOK
    OBVIOUS
  <1>1. nextTimeout \in -IntSpan .. IntSpan - 1
    BY FarRange, TimersAssumption DEF Init
  <1> QED
    BY <1>1 DEF Init, TypeOK

LEMMA TypeInductive == TypeOK /\ [Next]_vars => TypeOK'
  <1> SUFFICES ASSUME TypeOK, [Next]_vars PROVE TypeOK'
    OBVIOUS
  <1> USE TimersAssumption
  <1>0. IntSpan \in Nat \ {0} /\ \A n \in 0 .. IntSpan - 1 : n \in -IntSpan .. IntSpan - 1
    OBVIOUS
  <1>1. ASSUME NEW m \in Times, runAtOnce(m) PROVE TypeOK'
    <2>1. [at |-> m, seq |-> timerSeq + 1, key |-> 0] \in Entries
      BY DEF TypeOK, Entries
    <2>2. timers' \subseteq Entries /\ refreshNearest(timers')
      BY <1>1, <2>1 DEF runAtOnce, TypeOK
    <2>3. nextTimeout' \in -IntSpan .. IntSpan - 1 /\ refreshedAt' \in Nat /\ cut' \in BOOLEAN
      BY <1>0, <2>2, Refreshed DEF TypeOK
    <2> QED
      BY <1>1, <2>2, <2>3 DEF runAtOnce, loopVars, TypeOK
  <1>2. ASSUME NEW m \in Times, NEW d \in Intervals, runAtRepeat(m, d) PROVE TypeOK'
    <2>1. /\ [at |-> m, seq |-> timerSeq + 2, key |-> timerSeq + 1] \in Entries
          /\ [key |-> timerSeq + 1, at |-> m, interval |-> d, seq |-> timerSeq + 2] \in Reps
      BY DEF TypeOK, Entries, Reps
    <2>2. timers' \subseteq Entries /\ reps' \subseteq Reps /\ refreshNearest(timers')
      BY <1>2, <2>1 DEF runAtRepeat, TypeOK
    <2>3. nextTimeout' \in -IntSpan .. IntSpan - 1 /\ refreshedAt' \in Nat /\ cut' \in BOOLEAN
      BY <1>0, <2>2, Refreshed DEF TypeOK
    <2> QED
      BY <1>2, <2>2, <2>3 DEF runAtRepeat, loopVars, TypeOK
  <1>3. ASSUME NEW q \in once, cancelOnce(q) PROVE TypeOK'
    BY <1>3 DEF cancelOnce, nearestVars, loopVars, TypeOK
  <1>4. ASSUME NEW k \in repeat, cancelRepeat(k) PROVE TypeOK'
    <2>1. timers' \subseteq Entries /\ reps' \subseteq Reps /\ cancelled' \subseteq Nat
      BY <1>4 DEF cancelRepeat, TypeOK
    <2>2. fault' \in BOOLEAN
      BY <1>4 DEF cancelRepeat
    <2> QED
      BY <1>4, <2>1, <2>2 DEF cancelRepeat, nearestVars, loopVars, TypeOK
  <1>5. CASE Exit
    BY <1>5 DEF Exit, mapVars, nearestVars, loopVars, callVars, TypeOK
  <1>6. CASE Wait
    <2>1. until' \in Nat \cup {Never}
      BY <1>6 DEF Wait, Least, TypeOK
    <2> QED
      BY <1>6, <2>1 DEF Wait, nearestVars, callVars, TypeOK
  <1>7. CASE Event
    BY <1>7 DEF Event, mapVars, nearestVars, callVars, TypeOK
  <1>8. CASE StartTimeouts \/ TaskReturns
    <2>1. CASE StartTimeouts
      BY <2>1 DEF StartTimeouts, mapVars, nearestVars, callVars, TypeOK
    <2>2. CASE TaskReturns
      BY <2>2 DEF TaskReturns, mapVars, nearestVars, callVars, TypeOK
    <2> QED
      BY <1>8, <2>1, <2>2
  <1>9. ASSUME NEW e \in timers, FireOnce(e) PROVE TypeOK'
    <2>1. e.seq \in Nat
      BY DEF TypeOK, Entries
    <2> QED
      BY <1>9, <2>1 DEF FireOnce, nearestVars, callVars, TypeOK
  <1>10. ASSUME NEW e \in timers, FireRepeat(e) PROVE TypeOK'
    <2>1. CASE \A r \in reps : r.key # e.key
      BY <1>10, <2>1 DEF FireRepeat, mapVars, nearestVars, callVars, TypeOK
    <2>2. CASE \E r \in reps : r.key = e.key
      <3> PICK r \in reps :
            LET next == r.at + r.interval
            IN  /\ r.key = e.key
                /\ timerSeq' = timerSeq + 1
                /\ reps' = (reps \ {r}) \cup {[r EXCEPT !.at = next, !.seq = timerSeq + 1]}
                /\ timers' = (timers \ {e})
                             \cup {[at |-> next, seq |-> timerSeq + 1, key |-> r.key]}
                /\ refreshNearest(timers')
                /\ at' = "task" /\ running' = r.key
                /\ UNCHANGED fault
        BY <1>10, <2>2 DEF FireRepeat
      <3> DEFINE next == r.at + r.interval
      <3>1. r \in Reps /\ next \in Nat /\ r.key \in Nat
        BY DEF TypeOK, Reps
      <3>2. /\ [r EXCEPT !.at = next, !.seq = timerSeq + 1] \in Reps
            /\ [at |-> next, seq |-> timerSeq + 1, key |-> r.key] \in Entries
        <4>1. timerSeq + 1 \in Nat \ {0}
          BY DEF TypeOK
        <4> HIDE DEF next
        <4> QED
          BY <3>1, <4>1 DEF Reps, Entries
      <3>3. timers' \subseteq Entries /\ reps' \subseteq Reps
        BY <3>2 DEF TypeOK
      <3>4. nextTimeout' \in -IntSpan .. IntSpan - 1 /\ refreshedAt' \in Nat /\ cut' \in BOOLEAN
        BY <1>0, <3>3, Refreshed DEF TypeOK
      <3>5. UNCHANGED <<clock, final, until, passNow, waitFrom, callVars, exit>>
        BY <1>10 DEF FireRepeat
      <3>6. /\ at' = "task" /\ running' \in Nat /\ timerSeq' \in Nat /\ fault' = fault
        BY <3>1 DEF TypeOK
      <3> QED
        BY <3>3, <3>4, <3>5, <3>6 DEF callVars, TypeOK
    <2> QED
      BY <2>1, <2>2
  <1>11. CASE EndPass
    <2>1. nextTimeout' \in -IntSpan .. IntSpan - 1 /\ refreshedAt' \in Nat /\ cut' \in BOOLEAN
      BY <1>0, <1>11, Refreshed DEF EndPass, TypeOK
    <2> QED
      BY <1>11, <2>1 DEF EndPass, callVars, TypeOK
  <1>12. CASE Tick
    BY <1>12 DEF Tick, mapVars, nearestVars, loopVars, callVars, TypeOK
  <1>13. CASE UNCHANGED vars
    BY <1>13 DEF vars, mapVars, nearestVars, loopVars, callVars, TypeOK
  <1> QED
    BY <1>1, <1>2, <1>3, <1>4, <1>5, <1>6, <1>7, <1>8, <1>9, <1>10, <1>11, <1>12, <1>13
       DEF Next, Loop, TimedOut

\* The variables of the timers keep their types; nextTimeout_ stays an int.
THEOREM TypeCorrect == SafeSpec => []TypeOK
  BY InitType, TypeInductive, PTL DEF SafeSpec

----------------------------------------------------------------------------
(* The two maps.                                                           *)

MInv == TypeOK /\ Numbered /\ Paired /\ Silent

\* Under the pairing, repeatableTimeout finds the record of its entry and puts in
\* the next entry.
LEMMA Refired ==
    ASSUME TypeOK, Paired, NEW e \in timers, FireRepeat(e)
    PROVE  \E r \in reps :
              /\ e = EntryOf(r) /\ r.key = e.key /\ e.key # 0
              /\ timerSeq' = timerSeq + 1
              /\ reps' = (reps \ {r}) \cup {[r EXCEPT !.at = r.at + r.interval,
                                                      !.seq = timerSeq + 1]}
              /\ timers' = (timers \ {e})
                           \cup {[at |-> r.at + r.interval, seq |-> timerSeq + 1, key |-> r.key]}
              /\ refreshNearest(timers') /\ at' = "task" /\ running' = r.key
              /\ UNCHANGED <<clock, callVars, waitFrom, fault>>
  <1>1. e.key # 0 /\ UNCHANGED <<clock, callVars, waitFrom>>
    BY DEF FireRepeat
  <1>2. PICK s \in reps : e = EntryOf(s)
    BY <1>1 DEF Paired
  <1>3. s.key = e.key
    BY <1>2 DEF EntryOf
  <1>4. PICK r \in reps :
            LET next == r.at + r.interval
            IN  /\ r.key = e.key
                /\ timerSeq' = timerSeq + 1
                /\ reps' = (reps \ {r}) \cup {[r EXCEPT !.at = next, !.seq = timerSeq + 1]}
                /\ timers' = (timers \ {e})
                             \cup {[at |-> next, seq |-> timerSeq + 1, key |-> r.key]}
                /\ refreshNearest(timers')
                /\ at' = "task" /\ running' = r.key
                /\ UNCHANGED fault
    BY <1>3 DEF FireRepeat
  <1>5. r = s
    BY <1>3, <1>4 DEF Paired
  <1> QED
    BY <1>1, <1>2, <1>4, <1>5

LEMMA NumberedInductive == MInv /\ [Next]_vars => Numbered'
  <1> SUFFICES ASSUME MInv, [Next]_vars PROVE Numbered'
    OBVIOUS
  <1> USE DEF MInv
  <1>0. /\ timerSeq \in Nat /\ once \subseteq Nat /\ repeat \subseteq Nat
        /\ \A e \in timers : e.seq \in Nat /\ e.key \in Nat
    BY DEF TypeOK, Entries
  <1>1. ASSUME UNCHANGED <<timerSeq, once, repeat>>, timers' \subseteq timers PROVE Numbered'
    BY <1>1 DEF Numbered
  <1>2. ASSUME NEW m \in Times, runAtOnce(m) PROVE Numbered'
    BY <1>0, <1>2 DEF runAtOnce, Numbered
  <1>3. ASSUME NEW m \in Times, NEW d \in Intervals, runAtRepeat(m, d) PROVE Numbered'
    BY <1>0, <1>3 DEF runAtRepeat, Numbered
  <1>4. ASSUME NEW q \in once, cancelOnce(q) PROVE Numbered'
    BY <1>1, <1>4 DEF cancelOnce
  <1>5. ASSUME NEW k \in repeat, cancelRepeat(k) PROVE Numbered'
    BY <1>1, <1>5 DEF cancelRepeat
  <1>6. CASE Exit \/ Event \/ StartTimeouts \/ TaskReturns \/ Tick \/ UNCHANGED vars
    BY <1>1, <1>6 DEF Exit, Event, StartTimeouts, TaskReturns, Tick, vars, mapVars, callVars
  <1>7. CASE Wait \/ EndPass
    BY <1>1, <1>7 DEF Wait, EndPass, callVars
  <1>8. ASSUME NEW e \in timers, FireOnce(e) PROVE Numbered'
    BY <1>1, <1>8 DEF FireOnce, callVars
  <1>9. ASSUME NEW e \in timers, FireRepeat(e) PROVE Numbered'
    <2> PICK r \in reps :
              /\ r.key = e.key /\ e.key # 0
              /\ timerSeq' = timerSeq + 1
              /\ timers' = (timers \ {e})
                           \cup {[at |-> r.at + r.interval, seq |-> timerSeq + 1, key |-> r.key]}
              /\ UNCHANGED callVars
      BY <1>9, Refired
    <2> QED
      BY <1>0 DEF Numbered, callVars
  <1> QED
    BY <1>2, <1>3, <1>4, <1>5, <1>6, <1>7, <1>8, <1>9 DEF Next, Loop, TimedOut

LEMMA SilentInductive == MInv /\ [Next]_vars => Silent'
  <1> SUFFICES ASSUME MInv, [Next]_vars PROVE Silent'
    OBVIOUS
  <1> USE DEF MInv
  <1>0. /\ timerSeq \in Nat /\ once \subseteq Nat /\ repeat \subseteq Nat
        /\ \A e \in timers : e.seq \in Nat /\ e.key \in Nat
    BY DEF TypeOK, Entries
  <1>1. ASSUME UNCHANGED <<once, repeat, cancelled>>, timers' \subseteq timers PROVE Silent'
    BY <1>1 DEF Silent, IdOf
  <1>2. timerSeq + 1 \notin cancelled
    BY <1>0 DEF Silent, Numbered
  <1>3. ASSUME NEW m \in Times, runAtOnce(m) PROVE Silent'
    BY <1>0, <1>2, <1>3 DEF runAtOnce, Silent, IdOf
  <1>4. ASSUME NEW m \in Times, NEW d \in Intervals, runAtRepeat(m, d) PROVE Silent'
    BY <1>0, <1>2, <1>4 DEF runAtRepeat, Silent, IdOf
  <1>5. ASSUME NEW q \in once, cancelOnce(q) PROVE Silent'
    <2>1. \A e \in timers' : e \in timers /\ IdOf(e) # q
      BY <1>5 DEF cancelOnce, Numbered, IdOf
    <2> QED
      BY <1>5, <2>1 DEF cancelOnce, Silent, IdOf
  <1>6. ASSUME NEW k \in repeat, cancelRepeat(k) PROVE Silent'
    <2>1. \A e \in timers' : e \in timers /\ IdOf(e) # k
      <3> SUFFICES ASSUME NEW e \in timers', IdOf(e) = k PROVE FALSE
        BY <1>6 DEF cancelRepeat
      <3>1. e \in timers /\ ~ \E r \in reps : r.key = k /\ e.at = r.at /\ e.seq = r.seq
        BY <1>6 DEF cancelRepeat
      <3>2. e.key # 0 /\ e.key = k
        BY <3>1 DEF IdOf, Numbered
      <3>3. PICK r \in reps : e = EntryOf(r)
        BY <3>1, <3>2 DEF Paired
      <3>4. r.key = k /\ e.at = r.at /\ e.seq = r.seq
        BY <3>2, <3>3 DEF EntryOf
      <3> QED
        BY <3>1, <3>4
    <2> QED
      BY <1>6, <2>1 DEF cancelRepeat, Silent, IdOf
  <1>7. CASE Exit \/ Event \/ StartTimeouts \/ TaskReturns \/ Tick \/ UNCHANGED vars
    BY <1>1, <1>7 DEF Exit, Event, StartTimeouts, TaskReturns, Tick, vars, mapVars, callVars
  <1>8. CASE Wait \/ EndPass
    BY <1>1, <1>8 DEF Wait, EndPass, callVars
  <1>9. ASSUME NEW e \in timers, FireOnce(e) PROVE Silent'
    BY <1>1, <1>9 DEF FireOnce, callVars
  <1>10. ASSUME NEW e \in timers, FireRepeat(e) PROVE Silent'
    <2> PICK r \in reps :
              /\ r.key = e.key /\ e.key # 0
              /\ timers' = (timers \ {e})
                           \cup {[at |-> r.at + r.interval, seq |-> timerSeq + 1, key |-> r.key]}
              /\ UNCHANGED callVars
      BY <1>10, Refired
    <2> QED
      BY DEF Silent, IdOf, callVars
  <1> QED
    BY <1>3, <1>4, <1>5, <1>6, <1>7, <1>8, <1>9, <1>10 DEF Next, Loop, TimedOut

LEMMA PairedInductive == MInv /\ [Next]_vars => Paired'
  <1> SUFFICES ASSUME MInv, [Next]_vars PROVE Paired'
    OBVIOUS
  <1> USE DEF MInv
  <1>0. /\ timerSeq \in Nat
        /\ \A r \in reps : r \in Reps /\ r.key \in Nat \ {0} /\ r.seq \in Nat
        /\ \A r \in reps : r.key <= timerSeq /\ r.seq <= timerSeq
    <2>1. timerSeq \in Nat /\ \A r \in reps : r \in Reps /\ r.key \in Nat \ {0} /\ r.seq \in Nat
      BY DEF TypeOK, Reps
    <2>2. \A r \in reps : r.key <= timerSeq /\ r.seq <= timerSeq
      BY DEF Paired, Numbered, EntryOf
    <2> QED BY <2>1, <2>2
  <1>1. ASSUME UNCHANGED <<timers, reps>> PROVE Paired'
    BY <1>1 DEF Paired, EntryOf
  <1>2. ASSUME timers' = {}, reps' = {} PROVE Paired'
    BY <1>2 DEF Paired
  <1>3. ASSUME NEW m \in Times, runAtOnce(m) PROVE Paired'
    BY <1>3 DEF runAtOnce, Paired, EntryOf
  <1>4. ASSUME NEW m \in Times, NEW d \in Intervals, runAtRepeat(m, d) PROVE Paired'
    <2> DEFINE n == [key |-> timerSeq + 1, at |-> m, interval |-> d, seq |-> timerSeq + 2]
    <2>1. /\ reps' = reps \cup {n} /\ timers' = timers \cup {EntryOf(n)}
          /\ n.key = timerSeq + 1 /\ n.seq = timerSeq + 2
      BY <1>4 DEF runAtRepeat, EntryOf
    <2>2. \A r \in reps : r.key # n.key /\ r.seq # n.seq
      BY <1>0, <2>1
    <2> HIDE DEF n
    <2>3. /\ \A r \in reps' : EntryOf(r) \in timers'
          /\ \A e \in timers' : e.key # 0 => \E r \in reps' : e = EntryOf(r)
      BY <2>1 DEF Paired
    <2>4. \A r, s \in reps' : r.key = s.key \/ r.seq = s.seq => r = s
      BY <2>1, <2>2 DEF Paired
    <2> QED
      BY <2>3, <2>4 DEF Paired, EntryOf
  <1>5. ASSUME NEW q \in once, cancelOnce(q) PROVE Paired'
    <2>1. \A r \in reps : EntryOf(r).key # 0
      BY <1>0 DEF EntryOf
    <2>2. /\ reps' = reps /\ timers' = {e \in timers : e.key # 0 \/ e.seq # q}
      BY <1>5 DEF cancelOnce
    <2>3. /\ \A r \in reps : EntryOf(r) \in timers'
          /\ \A e \in timers' : e.key # 0 => \E r \in reps : e = EntryOf(r)
      BY <2>1, <2>2 DEF Paired
    <2> QED
      BY <2>2, <2>3 DEF Paired, EntryOf
  <1>6. ASSUME NEW k \in repeat, cancelRepeat(k) PROVE Paired'
    <2>1. /\ reps' = {r \in reps : r.key # k}
          /\ timers' = {e \in timers : ~ \E r \in reps : r.key = k /\ e.at = r.at /\ e.seq = r.seq}
      BY <1>6 DEF cancelRepeat
    <2>2. ASSUME NEW r \in reps' PROVE EntryOf(r) \in timers'
      <3>1. r \in reps /\ r.key # k /\ EntryOf(r) \in timers /\ EntryOf(r).seq = r.seq
        BY <2>1, <2>2 DEF Paired, EntryOf
      <3>2. ~ \E s \in reps : s.key = k /\ EntryOf(r).at = s.at /\ EntryOf(r).seq = s.seq
        BY <3>1 DEF Paired
      <3> QED
        BY <2>1, <3>1, <3>2
    <2>3. ASSUME NEW e \in timers', e.key # 0 PROVE \E r \in reps' : e = EntryOf(r)
      <3>1. e \in timers /\ ~ \E r \in reps : r.key = k /\ e.at = r.at /\ e.seq = r.seq
        BY <2>1, <2>3
      <3> PICK r \in reps : e = EntryOf(r)
        BY <2>3, <3>1 DEF Paired
      <3>2. e.at = r.at /\ e.seq = r.seq
        BY DEF EntryOf
      <3> QED
        BY <2>1, <3>1, <3>2
    <2>4. \A r, s \in reps' : r.key = s.key \/ r.seq = s.seq => r = s
      BY <2>1 DEF Paired
    <2> QED
      BY <2>2, <2>3, <2>4 DEF Paired, EntryOf
  <1>7. CASE Exit \/ Event \/ StartTimeouts \/ TaskReturns \/ Tick \/ UNCHANGED vars \/ EndPass
    BY <1>1, <1>7 DEF Exit, Event, StartTimeouts, TaskReturns, Tick, EndPass, vars, mapVars
  <1>8. CASE Wait
    BY <1>1, <1>2, <1>8 DEF Wait
  <1>9. ASSUME NEW e \in timers, FireOnce(e) PROVE Paired'
    <2>1. \A r \in reps : EntryOf(r).key # 0
      BY <1>0 DEF EntryOf
    <2>2. reps' = reps /\ timers' = timers \ {e} /\ e.key = 0
      BY <1>9 DEF FireOnce
    <2>3. /\ \A r \in reps : EntryOf(r) \in timers'
          /\ \A f \in timers' : f.key # 0 => \E r \in reps : f = EntryOf(r)
      BY <2>1, <2>2 DEF Paired
    <2> QED
      BY <2>2, <2>3 DEF Paired, EntryOf
  <1>10. ASSUME NEW e \in timers, FireRepeat(e) PROVE Paired'
    <2> PICK r \in reps :
              /\ e = EntryOf(r)
              /\ reps' = (reps \ {r}) \cup {[r EXCEPT !.at = r.at + r.interval,
                                                      !.seq = timerSeq + 1]}
              /\ timers' = (timers \ {e})
                           \cup {[at |-> r.at + r.interval, seq |-> timerSeq + 1, key |-> r.key]}
      BY <1>10, Refired
    <2> DEFINE n == [r EXCEPT !.at = r.at + r.interval, !.seq = timerSeq + 1]
    <2>1. n.key = r.key /\ n.seq = timerSeq + 1 /\ n.at = r.at + r.interval
      BY <1>0 DEF Reps
    <2>2. EntryOf(n) = [at |-> r.at + r.interval, seq |-> timerSeq + 1, key |-> r.key]
      BY <2>1 DEF EntryOf
    <2>3. reps' = (reps \ {r}) \cup {n} /\ timers' = (timers \ {e}) \cup {EntryOf(n)}
      BY <2>2
    <2>4. \A s \in reps \ {r} : s.key # n.key /\ s.seq # n.seq
      BY <1>0, <2>1 DEF Paired
    <2> HIDE DEF n
    <2>5. \A s \in reps \ {r} : EntryOf(s) # e
      BY DEF Paired, EntryOf
    <2>6. \A s \in reps' : EntryOf(s) \in timers'
      BY <2>3, <2>5 DEF Paired
    <2>7. \A f \in timers' : f.key # 0 => \E s \in reps' : f = EntryOf(s)
      <3> SUFFICES ASSUME NEW f \in timers', f.key # 0 PROVE \E s \in reps' : f = EntryOf(s)
        OBVIOUS
      <3>1. CASE f = EntryOf(n)
        BY <2>3, <3>1
      <3>2. CASE f \in timers /\ f # e
        <4> PICK s \in reps : f = EntryOf(s)
          BY <3>2 DEF Paired
        <4>1. s # r
          BY <3>2
        <4> QED
          BY <2>3, <4>1
      <3> QED
        BY <2>3, <3>1, <3>2
    <2>8. \A s, t \in reps' : s.key = t.key \/ s.seq = t.seq => s = t
      BY <2>3, <2>4 DEF Paired
    <2> QED
      BY <2>6, <2>7, <2>8 DEF Paired, EntryOf
  <1> QED
    BY <1>3, <1>4, <1>5, <1>6, <1>7, <1>8, <1>9, <1>10 DEF Next, Loop, TimedOut

LEMMA MapsInvariant == SafeSpec => []MInv
  <1>1. Init => MInv
    <2> SUFFICES ASSUME Init PROVE MInv
      OBVIOUS
    <2>1. TypeOK
      BY InitType
    <2> QED
      BY <2>1 DEF MInv, Init, Numbered, Paired, Silent
  <1>2. MInv /\ [Next]_vars => MInv'
    BY TypeInductive, NumberedInductive, PairedInductive, SilentInductive DEF MInv
  <1> QED
    BY <1>1, <1>2, PTL DEF SafeSpec

\* Records and entries of repeating timers correspond one to one, so that the
\* pointer captured by an entry's task is never dangling.
THEOREM RepsStayPaired == SafeSpec => []RepsPaired
  <1>1. MInv => RepsPaired
    <2> SUFFICES ASSUME MInv PROVE RepsPaired
      OBVIOUS
    <2> USE DEF MInv
    <2>1. ASSUME NEW r \in reps PROVE {e \in timers : e.key = r.key} = {EntryOf(r)}
      <3>1. r.key # 0
        BY DEF TypeOK, Reps
      <3>2. EntryOf(r) \in timers /\ EntryOf(r).key = r.key
        BY DEF Paired, EntryOf
      <3>3. ASSUME NEW e \in timers, e.key = r.key PROVE e = EntryOf(r)
        <4> PICK s \in reps : e = EntryOf(s)
          BY <3>1, <3>3 DEF Paired
        <4>1. s.key = r.key
          BY <3>3 DEF EntryOf
        <4> QED
          BY <4>1 DEF Paired
      <3> QED
        BY <3>2, <3>3
    <2>2. ASSUME NEW e \in timers, e.key # 0 PROVE \E r \in reps : r.key = e.key
      BY <2>2 DEF Paired, EntryOf
    <2> QED
      BY <2>1, <2>2 DEF RepsPaired
  <1> QED
    BY <1>1, MapsInvariant, PTL

\* A timer that was given to cancel never starts again.
THEOREM CancelledStay == SafeSpec => CancelledStaysSilent
  <1> DEFINE A == running' # running => running' \notin cancelled
  <1>1. MInv /\ [Next]_vars => [A]_vars
    <2> SUFFICES ASSUME MInv, Next PROVE A
      BY DEF vars
    <2> USE DEF MInv
    <2>1. 0 \notin cancelled
      BY DEF TypeOK, Silent
    <2>2. CASE running' \in {0, running}
      BY <2>1, <2>2
    <2>3. ASSUME NEW e \in timers, FireOnce(e) PROVE A
      BY <2>3 DEF FireOnce, Silent, IdOf
    <2>4. ASSUME NEW e \in timers, FireRepeat(e) PROVE A
      <3> PICK r \in reps : r.key = e.key /\ e.key # 0 /\ running' = r.key
        BY <2>4, Refired
      <3> QED
        BY DEF Silent, IdOf
    <2>5. ASSUME \/ \E m \in Times : runAtOnce(m) \/ \E d \in Intervals : runAtRepeat(m, d)
                 \/ \E q \in once : cancelOnce(q)
                 \/ \E k \in repeat : cancelRepeat(k)
          PROVE  running' \in {0, running}
      BY <2>5 DEF runAtOnce, runAtRepeat, cancelOnce, cancelRepeat, loopVars
    <2>6. ASSUME Exit \/ Wait \/ Event \/ StartTimeouts \/ TaskReturns \/ EndPass \/ Tick
          PROVE  running' \in {0, running}
      BY <2>6 DEF Exit, Wait, Event, StartTimeouts, TaskReturns, EndPass, Tick, loopVars
    <2> QED
      BY <2>2, <2>3, <2>4, <2>5, <2>6 DEF Next, Loop, TimedOut
  <1> QED
    BY <1>1, MapsInvariant, PTL DEF SafeSpec, CancelledStaysSilent

----------------------------------------------------------------------------
(* The wait.                                                               *)

LEMMA CoveredInductive == MInv /\ Covered /\ [Next]_vars => Covered'
  <1> SUFFICES ASSUME MInv, Covered, [Next]_vars PROVE Covered'
    OBVIOUS
  <1> USE DEF MInv
  <1>0. TypeOK'
    BY TypeInductive
  <1>1. ASSUME UNCHANGED <<nearestVars, until, waitFrom>>, timers' \subseteq timers,
               at' = "wait" => at = "wait"
        PROVE  Covered'
    BY <1>1 DEF Covered, nearestVars
  <1>2. ASSUME refreshNearest(timers'), at' # "wait" PROVE Covered'
    <2>1. /\ nextTimeout' \in 0 .. IntSpan - 1
          /\ refreshedAt' = clock
          /\ ~ cut' => \A e \in timers' : nextTimeout' <= 0 \/ nextTimeout' <= e.at - clock
      BY <1>0, <1>2, Refreshed DEF TypeOK
    <2>2. nextTimeout' >= 0
      BY <2>1, TimersAssumption
    <2> QED
      BY <1>2, <2>1, <2>2 DEF Covered
  <1>3. ASSUME NEW m \in Times, runAtOnce(m) PROVE Covered'
    BY <1>2, <1>3 DEF runAtOnce, MayCall, loopVars
  <1>4. ASSUME NEW m \in Times, NEW d \in Intervals, runAtRepeat(m, d) PROVE Covered'
    BY <1>2, <1>4 DEF runAtRepeat, MayCall, loopVars
  <1>5. ASSUME NEW q \in once, cancelOnce(q) PROVE Covered'
    BY <1>1, <1>5 DEF cancelOnce, loopVars
  <1>6. ASSUME NEW k \in repeat, cancelRepeat(k) PROVE Covered'
    BY <1>1, <1>6 DEF cancelRepeat, loopVars
  <1>7. CASE Exit \/ Tick \/ UNCHANGED vars
    BY <1>1, <1>7 DEF Exit, Tick, vars, mapVars, loopVars
  <1>8. CASE Event
    BY <1>8 DEF Event, mapVars, nearestVars, Covered
  <1>9. CASE StartTimeouts \/ TaskReturns
    BY <1>1, <1>9 DEF StartTimeouts, TaskReturns, mapVars
  <1>10. CASE Wait
    <2>1. UNCHANGED <<nextTimeout, refreshedAt, cut>> /\ timers' \subseteq timers /\ waitFrom' = clock
      BY <1>10 DEF Wait, nearestVars
    <2>2. until' # Never /\ until' <= waitFrom' + nextTimeout'
      <3> DEFINE wait == Least(IF exit THEN 0 ELSE MaxWait, nextTimeout)
      <3>1. wait \in Nat /\ wait <= nextTimeout
        BY TimersAssumption DEF Least, Covered, TypeOK
      <3>2. until' = IF wait < 0 THEN Never ELSE clock + wait
        BY <1>10 DEF Wait
      <3> HIDE DEF wait
      <3>3. clock \in Nat /\ nextTimeout \in Int
        BY TimersAssumption DEF TypeOK
      <3> QED
        BY <2>1, <3>1, <3>2, <3>3 DEF Never
    <2> QED
      BY <2>1, <2>2 DEF Covered
  <1>11. ASSUME NEW e \in timers, FireOnce(e) PROVE Covered'
    BY <1>1, <1>11 DEF FireOnce
  <1>12. ASSUME NEW e \in timers, FireRepeat(e) PROVE Covered'
    BY <1>2, <1>12, Refired
  <1>13. CASE EndPass
    BY <1>2, <1>13 DEF EndPass
  <1> QED
    BY <1>3, <1>4, <1>5, <1>6, <1>7, <1>8, <1>9, <1>10, <1>11, <1>12, <1>13
       DEF Next, Loop, TimedOut

\* No wait in epoll_wait outlasts a timer by more than the time between computing
\* nextTimeout_ and using it.
THEOREM WaitsEndInTime == SafeSpec => []NoOversleep
  <1>1. Init => Covered
    BY FarRange, TimersAssumption DEF Init, Covered
  <1>2. MInv /\ Covered => NoOversleep
    <2> SUFFICES ASSUME MInv, Covered, at = "wait", ~ cut, NEW e \in timers
                 PROVE  /\ until # Never
                        /\ until <= waitFrom \/ until <= e.at + (waitFrom - refreshedAt)
      BY DEF NoOversleep
    <2>1. /\ waitFrom \in Nat /\ refreshedAt \in Nat /\ nextTimeout \in Int /\ e.at \in Nat
          /\ until \in Int
      BY TimersAssumption DEF MInv, TypeOK, Entries, Never
    <2> QED
      BY <2>1 DEF Covered
  <1> QED
    BY <1>1, <1>2, CoveredInductive, MapsInvariant, PTL DEF SafeSpec

=============================================================================
