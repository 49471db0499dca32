------------------------------ MODULE StreamMgr ------------------------------
(***************************************************************************)
(* The stream manager of the admin thread.  The management server MS sends *)
(* it the plan of what to record; a timer compares the plan with the clock *)
(* and creates or stops recordings; MS acknowledges each invitation.       *)
(*                                                                         *)
(* storeSess[s] is 0 when the map has no entry for s, as it is in the code *)
(* when operator[] makes the missing entry up.  A plan maps each of its    *)
(* streams to the set of (day, hour) slots in which it is to be recorded,  *)
(* the bits of timePhrase.                                                 *)
(***************************************************************************)
EXTENDS SessionService

CONSTANTS Streams,
          Days, Hours,    \* what getCurDay and getCurHour may return
          Clock,          \* the slots the clock goes through
          Plans,          \* the StorePlan messages MS may send
          PortBase, PortInterval, PortSpace   \* 3000, 10 and 2^16

Slots == Days \X Hours
NoPlan == <<>>            \* the empty map
Idle == <<>>              \* no slot

ASSUME MgrAssumption ==
    /\ \A p \in Plans : DOMAIN p \subseteq Streams /\ \A s \in DOMAIN p : p[s] \subseteq Slots
    /\ Clock \subseteq Slots /\ Idle \notin Slots
    /\ PortSpace \in Nat \ {0} /\ PortInterval \in Nat /\ PortBase \in 0 .. PortSpace - 1

\* prePlans_ is written and read by one handler, updateStorePlan, and is not
\* kept here between its calls.
VARIABLES curPlans,       \* curPlans_
          delPlans,       \* keys of delPlans_
          storeSess,      \* streamid -> sessionId
          port,           \* port_
          slot,           \* the wall clock, as (day, hour)
          invites,        \* invitations MS has not answered, as <<stream, session>>
          now,            \* the slot checkStorePlan has read, or Idle outside of it
          todo            \* what is left of its loop over curPlans_

mgrVars == <<curPlans, delPlans, storeSess, port, slot, invites, now, todo>>

MgrTypeOK ==
    /\ curPlans \in Plans \cup {NoPlan}
    /\ delPlans \subseteq Streams
    /\ storeSess \in [Streams -> Ids \cup {0}]
    /\ port \in 0 .. PortSpace - 1
    /\ slot \in Clock /\ now \in Slots \cup {Idle}
    /\ invites \subseteq Streams \X Ids
    /\ todo \subseteq Streams

MgrInit ==
    /\ curPlans = NoPlan /\ delPlans = {}
    /\ storeSess = [s \in Streams |-> 0]
    /\ port = PortBase
    /\ slot \in Clock
    /\ invites = {}
    /\ now = Idle /\ todo = {}

\* Handlers run one at a time on the admin thread, each to its end.
Checking == now # Idle
AdminIdle == fault = "none" /\ ~ Checking /\ dropping = 0

existStream(s) == storeSess[s] # 0

----------------------------------------------------------------------------
(* Parts of the handlers.                                                  *)

\* createStream: newStoreSes, the map entry, the invitation to MS.  port_ moves
\* on whether or not a session was made.
createStream(s) ==
    \E ret \in {0, 1} :
        LET sesId == newStoreSesResult(ret)
        IN  /\ newStoreSes(ret)
            /\ storeSess' = IF sesId # 0 THEN [storeSess EXCEPT ![s] = sesId] ELSE storeSess
            /\ invites' = IF sesId # 0 THEN invites \cup {<<s, sesId>>} ELSE invites
            /\ port' = (port + PortInterval) % PortSpace

\* A mistake: the session is stopped and the map entry stays.
releaseSessionKeepsEntry(s) ==
    /\ IF existStoreSes(storeSess[s])
       THEN stopStore(storeSess[s]) /\ UNCHANGED fault
       ELSE fault' = "null" /\ UNCHANGED storeTasks
    /\ UNCHANGED <<storeSess, obj, chan, kernelVars, serviceVars, port>>

\* getStoreSes(storeSess_[s].sessionId)->stopStore() and the erasure, in
\* stopStream (after the Bye to MS) and in startStream.  With no entry, or an
\* entry whose session is not registered, the pointer is null.
releaseSession(s) ==
    /\ IF existStoreSes(storeSess[s])
       THEN stopStore(storeSess[s]) /\ UNCHANGED fault
       ELSE fault' = "null" /\ UNCHANGED storeTasks
    /\ storeSess' = [storeSess EXCEPT ![s] = 0]
    /\ UNCHANGED <<obj, chan, kernelVars, serviceVars, port>>

stopStream(s) == releaseSession(s) /\ UNCHANGED invites

\* curPlans_.find(s) == prePlans_.end(), the test of diffStorePlan.  The end of
\* one map is never equal to an iterator of another: end() is the header node
\* inside the map object itself.
FoundAtOtherEnd(s, cur) == FALSE

\* diffStorePlan
diffStorePlan(pre, cur) == delPlans \cup {s \in pre : FoundAtOtherEnd(s, cur)}

----------------------------------------------------------------------------
(* The handlers of the admin thread.                                       *)

\* StorePlan message with empty set: both maps are cleared.
UpdateStorePlanEmpty ==
    /\ AdminIdle
    /\ curPlans' = NoPlan
    /\ delPlans' = diffStorePlan({}, NoPlan)
    /\ UNCHANGED <<storeVars, serviceVars, storeSess, port, slot, invites,
                   now, todo>>

\* StorePlan message with a plan: the current plan becomes the previous one.
UpdateStorePlan(p) ==
    /\ AdminIdle
    /\ curPlans' = p
    /\ delPlans' = diffStorePlan(DOMAIN curPlans, p)
    /\ UNCHANGED <<storeVars, serviceVars, storeSess, port, slot, invites,
                   now, todo>>

\* getCurDay() and then getCurHour(): two readings of the clock, which may move from
\* one slot to another in between.
ReadClock ==
    \/ now' = slot /\ UNCHANGED slot
    \/ \E t \in Clock \ {slot} : slot' = t /\ now' = <<slot[1], t[2]>>

\* A mistake: the loop stops one short of the end of the map.
CheckStorePlanAllButOne ==
    /\ AdminIdle
    /\ ReadClock
    /\ todo' = {s \in DOMAIN curPlans : s # CHOOSE t \in DOMAIN curPlans : TRUE}
    /\ UNCHANGED <<storeVars, serviceVars, curPlans, delPlans, storeSess, port, invites>>

\* checkStorePlan, on the six second timer, reads the clock ...
CheckStorePlan ==
    /\ AdminIdle
    /\ ReadClock
    /\ todo' = DOMAIN curPlans
    /\ UNCHANGED <<storeVars, serviceVars, curPlans, delPlans, storeSess, port, invites>>

\* ... goes through curPlans_, in the order of the names, which are arbitrary ...
CheckStream(s) ==
    /\ fault = "none" /\ Checking /\ dropping = 0 /\ s \in todo
    /\ todo' = todo \ {s}
    /\ \/ /\ now \in curPlans[s] /\ ~ existStream(s)
          /\ delPlans' = delPlans \ {s}
          /\ createStream(s)
       \/ /\ now \notin curPlans[s] /\ existStream(s)
          /\ stopStream(s) /\ UNCHANGED delPlans
       \/ /\ (now \in curPlans[s]) = existStream(s)
          /\ UNCHANGED <<storeVars, serviceVars, delPlans, storeSess, port, invites>>
    /\ UNCHANGED <<curPlans, slot, now>>

\* ... and then through delPlans_, erasing each entry under the iterator that
\* the loop goes on to increment.
CheckDeleted ==
    /\ fault = "none" /\ Checking /\ dropping = 0 /\ todo = {}
    /\ now' = Idle
    /\ IF delPlans = {}
       THEN UNCHANGED <<storeVars, serviceVars, storeSess, port, invites, delPlans>>
       ELSE LET s == CHOOSE s \in delPlans : TRUE
            IN  /\ delPlans' = delPlans \ {s}
                /\ storeSess' = [storeSess EXCEPT ![s] = 0]
                /\ fault' = IF existStoreSes(storeSess[s]) THEN "freed" ELSE "null"
                /\ UNCHANGED <<obj, chan, kernelVars, storeTasks, serviceVars, port,
                               invites>>
    /\ UNCHANGED <<curPlans, slot, todo>>

\* ReadyStoreStreamInfoACK with an error: startStream's first branch.
InviteFailed(s, i) ==
    /\ AdminIdle /\ <<s, i>> \in invites
    /\ releaseSession(s)
    /\ invites' = invites \ {<<s, i>>}
    /\ UNCHANGED <<curPlans, delPlans, slot, now, todo>>

\* ReadyStoreStreamInfoACK without error: startStream's second branch.
InviteAccepted(s, i) ==
    /\ AdminIdle /\ <<s, i>> \in invites
    /\ IF existStoreSes(storeSess[s])
       THEN startStore(storeSess[s]) /\ UNCHANGED fault
       ELSE fault' = "null" /\ UNCHANGED storeTasks
    /\ invites' = invites \ {<<s, i>>}
    /\ UNCHANGED <<obj, chan, kernelVars, serviceVars, curPlans, delPlans, storeSess,
                   port, slot, now, todo>>

\* The clock moves to another slot.
ClockMoves ==
    /\ fault = "none"
    /\ \E t \in Clock \ {slot} : slot' = t
    /\ UNCHANGED <<storeVars, serviceVars, curPlans, delPlans, storeSess, port,
                   invites, now, todo>>
=============================================================================
