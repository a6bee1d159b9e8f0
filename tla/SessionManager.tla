--------------------------- MODULE SessionManager ---------------------------
(***************************************************************************)
(* server/session_manager.py: the table of sessions, the thread that       *)
(* expires and purges them, and start/stop.  Every public operation holds  *)
(* _sessions_lock for its whole effect, so each is one step.  A call that  *)
(* raises SessionNotFound or InvalidStateTransition changes nothing here;  *)
(* what it does to its caller is AdminServer's matter.                     *)
(*                                                                         *)
(* A session is "none" before create_session and "purged" once it left the *)
(* table.  idle counts clock ticks since last_activity and saturates just  *)
(* above the largest limit it is compared with.                            *)
(***************************************************************************)
EXTENDS Naturals

CONSTANTS
    Sessions,        \* session ids (uuids, never reused)
    SessionTimeout,  \* ticks an open session may be idle
    PurgeAge         \* ticks a closed session is kept

ASSUME SessionAssumption == SessionTimeout \in Nat /\ PurgeAge \in Nat

VARIABLES
    state,      \* Session.state, per id
    reason,     \* Session.close_reason
    idle,       \* now - Session.last_activity
    ended,      \* number of SESSION_ENDED events emitted
    managing,   \* _running
    cleaner,    \* the cleanup thread
    stopping    \* a call of stop() that waits for the cleanup thread

sessionVars == <<state, reason, idle, ended>>
threadVars  == <<managing, cleaner, stopping>>
managerVars == <<state, reason, idle, ended, managing, cleaner, stopping>>

MaxIdle == 1 + (IF SessionTimeout > PurgeAge THEN SessionTimeout ELSE PurgeAge)

OpenStates    == {"handshaking", "connected", "active"}
SessionStates == OpenStates \cup {"none", "closed", "purged"}
Reasons       == {"normal", "timeout", "shutdown", "error"}

(* Mutant of ValidTransitions: a closed session may be reactivated. *)
ReopeningTransitions ==
    [handshaking |-> {"connected", "closed"}, connected |-> {"active", "closed"},
     active |-> {"closed"}, closed |-> {"active"}]

ValidTransitions ==
    [handshaking |-> {"connected", "closed"}, connected |-> {"active", "closed"},
     active |-> {"closed"}, closed |-> {}]

InTable(s) == state[s] \notin {"none", "purged"}
Open(s)    == state[s] \in OpenStates

ManagerInit ==
    /\ state = [s \in Sessions |-> "none"]
    /\ reason = [s \in Sessions |-> "none"]
    /\ idle = [s \in Sessions |-> 0]
    /\ ended = [s \in Sessions |-> 0]
    /\ managing = FALSE
    /\ cleaner = "off"
    /\ stopping = FALSE

-----------------------------------------------------------------------------
(* Operations on the table. *)
create_session(s) ==
    /\ state[s] = "none"
    /\ state' = [state EXCEPT ![s] = "handshaking"]
    /\ idle' = [idle EXCEPT ![s] = 0]
    /\ UNCHANGED <<reason, ended>>

CanSet(s, new) == InTable(s) /\ new \in ValidTransitions[state[s]]

set_session_state(s, new) ==
    /\ CanSet(s, new)
    /\ state' = [state EXCEPT ![s] = new]
    /\ idle' = [idle EXCEPT ![s] = 0]
    /\ UNCHANGED <<reason, ended>>

(* set_tls_info and record_exchange ask only that the session is in the     *)
(* table: on a closed one they put off its purge.                           *)
set_tls_info(s) ==
    /\ InTable(s)
    /\ idle' = [idle EXCEPT ![s] = 0]
    /\ UNCHANGED <<state, reason, ended>>

record_exchange(s) ==
    /\ InTable(s)
    /\ idle' = [idle EXCEPT ![s] = 0]
    /\ UNCHANGED <<state, reason, ended>>

(* Mutant of CloseAll: no early return for a session already closed. *)
CloseAllAgain(S, r) ==
    LET T == {s \in S : InTable(s)} IN
    /\ state' = [s \in Sessions |-> IF s \in T THEN "closed" ELSE state[s]]
    /\ reason' = [s \in Sessions |-> IF s \in T THEN r ELSE reason[s]]
    /\ idle' = [s \in Sessions |-> IF s \in T THEN 0 ELSE idle[s]]
    /\ ended' = [s \in Sessions |-> IF s \in T THEN ended[s] + 1 ELSE ended[s]]

(* _close_session_internal for every session of S: nothing for an unknown   *)
(* or a closed one.                                                         *)
CloseAll(S, r) ==
    LET T == {s \in S : Open(s)} IN
    /\ state' = [s \in Sessions |-> IF s \in T THEN "closed" ELSE state[s]]
    /\ reason' = [s \in Sessions |-> IF s \in T THEN r ELSE reason[s]]
    /\ idle' = [s \in Sessions |-> IF s \in T THEN 0 ELSE idle[s]]
    /\ ended' = [s \in Sessions |-> IF s \in T THEN ended[s] + 1 ELSE ended[s]]

close_session(s, r) == CloseAll({s}, r)

Expired(s) == Open(s) /\ idle[s] > SessionTimeout

cleanup_expired == CloseAll({s \in Sessions : Expired(s)}, "timeout")

purge_closed_sessions ==
    /\ state' = [s \in Sessions |->
                    IF state[s] = "closed" /\ idle[s] > PurgeAge
                    THEN "purged" ELSE state[s]]
    /\ UNCHANGED <<reason, idle, ended>>

Tick ==
    /\ idle' = [s \in Sessions |->
                    IF InTable(s) /\ idle[s] < MaxIdle THEN idle[s] + 1 ELSE idle[s]]
    /\ UNCHANGED <<state, reason, ended>>

-----------------------------------------------------------------------------
(* The cleanup thread, _cleanup_loop: expire, purge, then sleep in slices   *)
(* that watch the flag.                                                     *)
CleanerExpire ==
    /\ cleaner = "expire"
    /\ cleanup_expired
    /\ cleaner' = "purge"
    /\ UNCHANGED <<managing, stopping>>

(* Mutant of CleanerPurge: the loop ends after its first round. *)
CleanerPurgeOnce ==
    /\ cleaner = "purge"
    /\ purge_closed_sessions
    /\ cleaner' = "off"
    /\ UNCHANGED <<managing, stopping>>

CleanerPurge ==
    /\ cleaner = "purge"
    /\ purge_closed_sessions
    /\ cleaner' = "sleep"
    /\ UNCHANGED <<managing, stopping>>

CleanerWake ==
    /\ cleaner = "sleep"
    /\ cleaner' = IF managing THEN "expire" ELSE "off"
    /\ UNCHANGED <<managing, stopping, sessionVars>>

CleanupThread == CleanerExpire \/ CleanerPurge \/ CleanerWake

manager_start ==
    /\ ~managing
    /\ ~stopping
    /\ managing' = TRUE
    /\ cleaner' = "expire"
    /\ UNCHANGED <<stopping, sessionVars>>

manager_stop_flag ==
    /\ managing
    /\ managing' = FALSE
    /\ stopping' = TRUE
    /\ UNCHANGED <<cleaner, sessionVars>>

(* Mutant of manager_stop_close: the cleanup thread is not joined. *)
StopCloseNoJoin ==
    /\ stopping
    /\ CloseAll(Sessions, "shutdown")
    /\ stopping' = FALSE
    /\ UNCHANGED <<managing, cleaner>>

(* join() returns, then every session left is closed in one locked step.    *)
manager_stop_close ==
    /\ stopping
    /\ cleaner = "off"
    /\ CloseAll(Sessions, "shutdown")
    /\ stopping' = FALSE
    /\ UNCHANGED <<managing, cleaner>>

-----------------------------------------------------------------------------
(* Any thread may call any operation with any argument. *)
Client ==
    /\ \E s \in Sessions :
          \/ create_session(s)
          \/ \E new \in OpenStates \cup {"closed"} : set_session_state(s, new)
          \/ set_tls_info(s)
          \/ record_exchange(s)
          \/ \E r \in Reasons : close_session(s, r)
    /\ UNCHANGED threadVars

Clock == Tick /\ UNCHANGED threadVars

ManagerNext ==
    \/ Client
    \/ Clock
    \/ CleanupThread
    \/ manager_start
    \/ manager_stop_flag
    \/ manager_stop_close

ManagerSpec == ManagerInit /\ [][ManagerNext]_managerVars

(* The cleanup thread is scheduled and time goes on. *)
FairManagerSpec ==
    ManagerSpec /\ WF_managerVars(CleanupThread) /\ WF_managerVars(Clock)

-----------------------------------------------------------------------------
ManagerTypeOK ==
    /\ state \in [Sessions -> SessionStates]
    /\ reason \in [Sessions -> Reasons \cup {"none"}]
    /\ idle \in [Sessions -> 0..MaxIdle]
    /\ ended \in [Sessions -> 0..1]
    /\ managing \in BOOLEAN
    /\ cleaner \in {"off", "expire", "purge", "sleep"}
    /\ stopping \in BOOLEAN

(* SESSION_ENDED is emitted at most once per session, only for one that is  *)
(* over, and exactly when a close reason was recorded: the client thread's  *)
(* close, the clean-up's and stop()'s race for it and one wins.             *)
EndedOnce ==
    \A s \in Sessions :
        /\ ended[s] = (IF reason[s] = "none" THEN 0 ELSE 1)
        /\ ended[s] = 1 => state[s] \in {"closed", "purged"}

(* Outside a call of stop() there is a cleanup thread exactly while the     *)
(* manager runs: a stop() that returned has seen it end, so the next        *)
(* start() never makes a second one.                                        *)
OneCleaner == ~stopping => (managing <=> cleaner # "off")

(* The detailed table implements the promise.  A session closed through     *)
(* set_session_state has the outcome "silent".                              *)
outcome == [s \in Sessions |->
                IF state[s] \in {"closed", "purged"} /\ reason[s] = "none"
                THEN "silent" ELSE reason[s]]

Lifecycle == INSTANCE SessionLifecycle
                WITH stage <- state, outcome <- outcome,
                     Outcomes <- Reasons \cup {"silent"}

ImplementsLifecycle == Lifecycle!Spec

(* A session left idle too long is closed, unless the manager is stopped    *)
(* or somebody touches the session again.                                   *)
IdleSessionsExpire ==
    \A s \in Sessions :
        (managing /\ Expired(s)) ~> (~Open(s) \/ idle[s] = 0 \/ ~managing)
=============================================================================
