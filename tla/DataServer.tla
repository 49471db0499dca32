----------------------------- MODULE DataServer -----------------------------
(***************************************************************************)
(* The data server: the admin thread with its stream manager and session   *)
(* registry, the store thread behind its task list, the clock, and MS,     *)
(* which sends plans and answers invitations when it likes or never.       *)
(***************************************************************************)
EXTENDS StreamMgr, FiniteSets

vars == <<storeVars, serviceVars, mgrVars>>

TypeOK == StoreTypeOK /\ ServiceTypeOK /\ MgrTypeOK

Init == StoreInit /\ ServiceInit /\ MgrInit

StoreThread == RunStoreTask /\ UNCHANGED <<serviceVars, mgrVars>>
Discard == DropSession /\ UNCHANGED mgrVars

Next ==
    \/ UpdateStorePlanEmpty
    \/ \E p \in Plans : UpdateStorePlan(p)
    \/ CheckStorePlan
    \/ \E s \in Streams : CheckStream(s)
    \/ CheckDeleted
    \/ \E s \in Streams, i \in Ids : InviteFailed(s, i) \/ InviteAccepted(s, i)
    \/ ClockMoves
    \/ Discard
    \/ StoreThread

SafeSpec == Init /\ [][Next]_vars

\* The timer goes off again and again, a handler that has started goes on to its
\* end, and the store loop runs its tasks (ImplementsExecutor of EventLoop).
\* The clock does not move between the two readings of every check: it moves once
\* an hour and is read every six seconds.  Nothing else is assumed of it, and
\* nothing of MS.
Fairness ==
    /\ SF_vars(CheckStorePlan /\ UNCHANGED slot)
    /\ \A s \in Streams : WF_vars(CheckStream(s))
    /\ WF_vars(CheckDeleted)
    /\ WF_vars(Discard)
    /\ WF_vars(StoreThread)

Spec == SafeSpec /\ Fairness

----------------------------------------------------------------------------
(* Properties.                                                             *)

\* As long as the process is up, every entry of StreamMgr's storeSess_ leads to
\* a registered session that has not been destroyed, and no two streams share
\* one.  stopStream and startStream dereference the pointer unchecked, across
\* any sequence of plans, checks, refusals and failed creations.
SessionsResolve ==
    fault = "none" =>
        /\ \A s \in Streams : existStream(s) =>
               storeSess[s] \in sessions /\ obj[storeSess[s]] = "live"
        /\ \A s, t \in Streams : existStream(s) /\ storeSess[s] = storeSess[t] => s = t

\* The store thread binds a session once and first, may then attach it, more than
\* once, closes it at most once, and runs nothing for it after that: closures
\* posted by handlers of the admin thread that know nothing of each other never
\* reach the socket out of order or twice.  (fd_ is 0 before the bind, a second
\* bind would leak the socket, and a channel made after the close would never be
\* closed.)  It speaks of every closure that is run: what was run last for the
\* session, and what is run now.
SessionLifecycle ==
    [][StoreThread =>
          <<did[Head(storeTasks).id], Head(storeTasks).op>> \in
              {<<"new", "bind">>, <<"bind", "attach">>, <<"attach", "attach">>,
               <<"bind", "close">>, <<"attach", "close">>}]_vars

\* A descriptor in the store loop's epoll set always leads to a session that
\* exists and has its channel, so that the handler of a late packet never runs
\* on a channel that closeUDP has deleted, even when a bind failed and two
\* sessions use the same descriptor number.
EpollLeadsToChannel ==
    \A f \in Fds : watch[f] # Closed => obj[watch[f]] = "live" /\ chan[watch[f]] = "open"

\* While no bind has failed, a session that has been bound and not closed has its
\* own socket under fd_, and epoll reports it once attached: no other session's
\* close takes it away, although descriptor numbers are reused.
SocketsHeld ==
    unbound = {} =>
        \A i \in Ids : /\ did[i] \in {"bind", "attach"} =>
                              fd[i] \in Fds /\ sock[fd[i]] = i
                       /\ did[i] = "attach" => watch[fd[i]] = i

\* checkStorePlan never calls through a null session pointer, whatever was
\* removed from the plan or refused by MS before.
CheckNeverDereferencesNull == [][Checking /\ fault = "none" => fault' # "null"]_vars

\* When checkStorePlan returns, no stream of the plan that is not to be recorded
\* in the slot it read, be it one that never was, has a session.
CheckStopsUnplanned ==
    [][Checking /\ now' = Idle =>
          \A s \in DOMAIN curPlans : storeSess'[s] # 0 => now \in curPlans[s]]_vars

\* A stream that stays planned for the current slot has a session again and
\* again, however often MS refuses the invitation or the creation fails, until
\* the process dies or the bound on sessions is reached.
PlannedIsInvited ==
    \A s \in Streams :
        <>[](s \in DOMAIN curPlans /\ slot \in curPlans[s])
            => []<>(existStream(s)) \/ <>(fault # "none" \/ id_ = MaxSes)

----------------------------------------------------------------------------
(* What comments of the code say and the code does not do.                 *)

\* startStream's comments give the effect of each acknowledgement: the session
\* attaches to a loop, or it is stopped and erased.  An acknowledgement that
\* comes after its stream was stopped, or after an earlier one refused it, must
\* not bring the process down.
AckIsHandled == fault # "null"

\* "after recv INVITEACK, session attatch to a loop" (StreamMgr.cc:46): the
\* session that an acknowledgement attaches is the one whose port was in the
\* invitation it answers.
AckAttachesInvited ==
    [][\A s \in Streams, i \in Ids :
          InviteAccepted(s, i) /\ Len(storeTasks') > Len(storeTasks)
              => storeTasks'[Len(storeTasks')].id = i]_vars

\* "prePlans exist, curPlans not exist" (StreamMgr.cc:218): a stream that a new
\* plan no longer has is put in delPlans_, and the next check stops it.
RemovedStreamsStop ==
    [][Checking /\ now' = Idle /\ curPlans # NoPlan =>
          \A s \in Streams : storeSess'[s] # 0 => s \in DOMAIN curPlans]_vars

\* "too many StoreSessions" (SessionService.cc:45): no more than maxStoreConn_
\* sessions are registered at a time.
SessionLimit == Cardinality(sessions) <= MaxStoreConn
=============================================================================
