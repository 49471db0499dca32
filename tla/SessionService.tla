--------------------------- MODULE SessionService ---------------------------
(***************************************************************************)
(* The registry of sessions kept by the admin thread: id_ numbers them,    *)
(* storeSess_ holds the shared_ptr that keeps each of them alive.          *)
(***************************************************************************)
EXTENDS StoreSession

CONSTANT MaxStoreConn    \* maxStoreConn_

ASSUME ServiceAssumption == MaxStoreConn \in Nat \ {0}

VARIABLES id_,           \* the last id given out
          sessions,      \* keys of SessionService::storeSess_
          storeSesCount, \* storeSesCount_; only startStoreSes changes it
          dropping       \* a session whose creation failed, about to be destroyed

serviceVars == <<id_, sessions, storeSesCount, dropping>>

ServiceTypeOK ==
    /\ id_ \in 0 .. MaxSes
    /\ sessions \subseteq Ids
    /\ storeSesCount \in Nat
    /\ dropping \in Ids \cup {0}

ServiceInit == id_ = 0 /\ sessions = {} /\ storeSesCount = 0 /\ dropping = 0

\* existStoreSes, and getStoreSes: nullptr for an id that is not registered.
existStoreSes(i) == i \in sessions

\* newStoreSes up to the test of prePareStore's result.  prePareStore has no
\* return statement: its result is whatever the register holds, ret = 0 or not.
\* When it is not 0 the session goes out of scope in a later step, while its
\* bindAddr is in the store loop's list.
newStoreSes(ret) ==
    /\ IF storeSesCount < MaxStoreConn
       THEN /\ id_ < MaxSes
            /\ id_' = id_ + 1
            /\ Prepare(id_ + 1)
            /\ sessions' = IF ret = 0 THEN sessions \cup {id_ + 1} ELSE sessions
            /\ dropping' = IF ret = 0 THEN 0 ELSE id_ + 1
       ELSE UNCHANGED <<id_, obj, chan, storeTasks, sessions, dropping>>
    /\ UNCHANGED <<kernelVars, fault, storeSesCount>>

\* A mistake: the id is returned whether or not the session was registered.
newStoreSesAlwaysId(ret) == IF storeSesCount < MaxStoreConn THEN id_ + 1 ELSE 0

\* The id it returns.
newStoreSesResult(ret) == IF storeSesCount < MaxStoreConn /\ ret = 0 THEN id_ + 1 ELSE 0

\* newStoreSes returns 0: the local shared_ptr was the only one.
DropSession ==
    /\ fault = "none" /\ dropping # 0
    /\ Destroy(dropping)
    /\ dropping' = 0
    /\ UNCHANGED <<chan, kernelVars, storeTasks, fault, id_, sessions, storeSesCount>>
=============================================================================
