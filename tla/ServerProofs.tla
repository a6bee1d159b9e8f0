---------------------------- MODULE ServerProofs ----------------------------
(***************************************************************************)
(* What MCStores and MCAdminServer check of sessions and of the server for *)
(* a few of them holds for any set of sessions, connections and addresses, *)
(* any max_connections and any number of starts.  The first part is about  *)
(* the session manager alone; the second is about the server, whose every  *)
(* step is a step of the manager or leaves it alone.                       *)
(*                                                                         *)
(* None of the server's invariants is inductive: each rests on what the    *)
(* accept thread holds, on the order in which stop() shuts the parts down, *)
(* and on where a worker is when its session is open.                      *)
(***************************************************************************)
EXTENDS AdminServer, FiniteSetTheorems, TLAPS

-----------------------------------------------------------------------------
(* The session manager. *)

(* The inductive invariant: the counter of SESSION_ENDED events can only be *)
(* bounded by tying it to the close reason.                                 *)
ManagerInv == ManagerTypeOK /\ EndedOnce

LEMMA MaxIdleType == MaxIdle \in Nat
  BY SessionAssumption DEF MaxIdle

LEMMA OpenIsNotEnded ==
  ASSUME ManagerInv, NEW s \in Sessions, Open(s)
  PROVE  reason[s] = "none" /\ ended[s] = 0
  BY DEF ManagerInv, ManagerTypeOK, EndedOnce, Open, OpenStates, Reasons

(* Closing any set of sessions, for any reason, by any thread, keeps the    *)
(* count of announcements right.                                            *)
LEMMA CloseAllInv ==
  ASSUME ManagerInv, NEW S \in SUBSET Sessions, NEW r \in Reasons, CloseAll(S, r),
         managing' \in BOOLEAN, cleaner' \in {"off", "expire", "purge", "sleep"},
         stopping' \in BOOLEAN
  PROVE  ManagerInv'
<1> DEFINE T == {s \in S : Open(s)}
<1>1. ManagerTypeOK /\ EndedOnce /\ MaxIdle \in Nat
  BY MaxIdleType DEF ManagerInv
<1>2. ASSUME NEW s \in Sessions, s \in T
      PROVE  /\ state'[s] = "closed" /\ reason'[s] = r /\ idle'[s] = 0
             /\ ended'[s] = 1
  <2>1. ended[s] = 0
    BY <1>2, OpenIsNotEnded
  <2> QED
    BY <1>2, <2>1 DEF CloseAll
<1>3. ASSUME NEW s \in Sessions, s \notin T
      PROVE  /\ state'[s] = state[s] /\ reason'[s] = reason[s]
             /\ idle'[s] = idle[s] /\ ended'[s] = ended[s]
  BY <1>3 DEF CloseAll
<1>4. ManagerTypeOK'
  <2>1. /\ state' \in [Sessions -> SessionStates]
        /\ reason' \in [Sessions -> Reasons \cup {"none"}]
    BY <1>1 DEF CloseAll, ManagerTypeOK, SessionStates
  <2>2. idle' \in [Sessions -> 0..MaxIdle]
    BY <1>1 DEF CloseAll, ManagerTypeOK
  <2>3. ended' = [s \in Sessions |-> IF s \in T THEN ended[s] + 1 ELSE ended[s]]
    BY DEF CloseAll
  <2>4. \A s \in Sessions : ended'[s] \in 0..1
    BY <1>1, <1>2, <1>3 DEF ManagerTypeOK
  <2>5. ended' \in [Sessions -> 0..1]
    BY <2>3, <2>4
  <2> QED
    BY <2>1, <2>2, <2>5, MaxIdleType DEF ManagerTypeOK
<1>5. EndedOnce'
  BY <1>1, <1>2, <1>3 DEF EndedOnce, Reasons
<1> QED
  BY <1>4, <1>5 DEF ManagerInv

(* An operation that touches no reason and no count, and leaves closed      *)
(* sessions closed or purges them.                                          *)
LEMMA QuietStepInv ==
  ASSUME ManagerInv, UNCHANGED <<reason, ended>>, ManagerTypeOK',
         \A s \in Sessions : state[s] \in {"closed", "purged"} =>
                             state'[s] \in {"closed", "purged"}
  PROVE  ManagerInv'
  BY DEF ManagerInv, ManagerTypeOK, EndedOnce

LEMMA ClientInv == ManagerInv /\ Client => ManagerInv'
<1> SUFFICES ASSUME ManagerInv, Client PROVE ManagerInv'
  OBVIOUS
<1> USE MaxIdleType DEF threadVars
<1>0. ManagerTypeOK /\ EndedOnce /\ UNCHANGED threadVars
  BY DEF ManagerInv, Client
<1>1. ASSUME NEW s \in Sessions, create_session(s) PROVE ManagerInv'
  <2>1. ManagerTypeOK'
    BY <1>0, <1>1 DEF ManagerTypeOK, create_session, SessionStates, OpenStates
  <2> QED
    BY <1>0, <1>1, <2>1, QuietStepInv DEF create_session, ManagerTypeOK
<1>2. ASSUME NEW s \in Sessions, NEW new \in OpenStates \cup {"closed"},
             set_session_state(s, new)
      PROVE  ManagerInv'
  <2>1. ManagerTypeOK'
    BY <1>0, <1>2 DEF ManagerTypeOK, set_session_state, SessionStates
  <2>2. state[s] \notin {"closed", "purged"}
    BY <1>2 DEF set_session_state, CanSet, InTable, ValidTransitions
  <2> QED
    BY <1>0, <1>2, <2>1, <2>2, QuietStepInv DEF set_session_state, ManagerTypeOK
<1>3. ASSUME NEW s \in Sessions, set_tls_info(s) \/ record_exchange(s)
      PROVE  ManagerInv'
  <2>1. ManagerTypeOK'
    BY <1>0, <1>3 DEF ManagerTypeOK, set_tls_info, record_exchange
  <2> QED
    BY <1>0, <1>3, <2>1, QuietStepInv DEF set_tls_info, record_exchange
<1>4. ASSUME NEW s \in Sessions, NEW r \in Reasons, close_session(s, r)
      PROVE  ManagerInv'
  BY <1>0, <1>4, CloseAllInv DEF close_session, ManagerTypeOK
<1> QED
  BY <1>1, <1>2, <1>3, <1>4 DEF Client

LEMMA CleanupInv == ManagerInv /\ CleanupThread => ManagerInv'
<1> SUFFICES ASSUME ManagerInv, CleanupThread PROVE ManagerInv'
  OBVIOUS
<1>0. ManagerTypeOK
  BY DEF ManagerInv
<1>1. CASE CleanerExpire
  <2>1. {s \in Sessions : Expired(s)} \in SUBSET Sessions /\ "timeout" \in Reasons
    BY DEF Reasons
  <2> QED
    BY <1>0, <1>1, <2>1, CloseAllInv DEF CleanerExpire, cleanup_expired, ManagerTypeOK
<1>2. CASE CleanerPurge
  <2>1. ManagerTypeOK'
    BY <1>0, <1>2, MaxIdleType
    DEF CleanerPurge, purge_closed_sessions, ManagerTypeOK, SessionStates
  <2> QED
    BY <1>0, <1>2, <2>1, QuietStepInv DEF CleanerPurge, purge_closed_sessions
<1>3. CASE CleanerWake
  <2>1. ManagerTypeOK'
    BY <1>0, <1>3, MaxIdleType DEF CleanerWake, sessionVars, ManagerTypeOK
  <2> QED
    BY <1>3, <2>1, QuietStepInv DEF CleanerWake, sessionVars
<1> QED
  BY <1>1, <1>2, <1>3 DEF CleanupThread

LEMMA ManagerInvInductive == ManagerInv /\ [ManagerNext]_managerVars => ManagerInv'
<1> SUFFICES ASSUME ManagerInv, [ManagerNext]_managerVars PROVE ManagerInv'
  OBVIOUS
<1>0. ManagerTypeOK
  BY DEF ManagerInv
<1>1. CASE Client
  BY <1>1, ClientInv
<1>2. CASE Clock
  <2>1. ManagerTypeOK'
    BY <1>0, <1>2, MaxIdleType DEF Clock, Tick, threadVars, ManagerTypeOK
  <2> QED
    BY <1>2, <2>1, QuietStepInv DEF Clock, Tick
<1>3. CASE CleanupThread
  BY <1>3, CleanupInv
<1>4. CASE manager_start \/ manager_stop_flag
  <2>1. ManagerTypeOK'
    BY <1>0, <1>4, MaxIdleType
    DEF manager_start, manager_stop_flag, sessionVars, ManagerTypeOK
  <2> QED
    BY <1>4, <2>1, QuietStepInv DEF manager_start, manager_stop_flag, sessionVars
<1>5. CASE manager_stop_close
  <2>1. "shutdown" \in Reasons
    BY DEF Reasons
  <2> QED
    BY <1>0, <1>5, <2>1, CloseAllInv DEF manager_stop_close, ManagerTypeOK
<1>6. CASE UNCHANGED managerVars
  BY <1>6, MaxIdleType DEF managerVars, ManagerInv, ManagerTypeOK, EndedOnce
<1> QED
  BY <1>1, <1>2, <1>3, <1>4, <1>5, <1>6 DEF ManagerNext

(* The empty table satisfies the invariant. *)
LEMMA ManagerInitially == ManagerInit => ManagerInv
<1> SUFFICES ASSUME ManagerInit PROVE ManagerInv
  OBVIOUS
<1>1. state \in [Sessions -> SessionStates] /\ reason \in [Sessions -> Reasons \cup {"none"}]
  BY DEF ManagerInit, SessionStates
<1>2. 0 \in 0..MaxIdle /\ 0 \in 0..1
  BY MaxIdleType
<1>3. idle \in [Sessions -> 0..MaxIdle] /\ ended \in [Sessions -> 0..1]
  BY <1>2 DEF ManagerInit
<1>4. EndedOnce
  <2> SUFFICES ASSUME NEW s \in Sessions
               PROVE  /\ ended[s] = (IF reason[s] = "none" THEN 0 ELSE 1)
                      /\ ended[s] = 1 => state[s] \in {"closed", "purged"}
    BY DEF EndedOnce
  <2>1. reason[s] = "none"
    BY DEF ManagerInit
  <2>2. ended[s] = 0
    BY DEF ManagerInit
  <2>3. ended[s] \in 0..1
    BY <1>3
  <2> QED
    BY <2>1, <2>2, <2>3
<1> QED
  BY <1>1, <1>3, <1>4 DEF ManagerInit, ManagerInv, ManagerTypeOK

(* Type correctness, and at most one SESSION_ENDED per session tied to its  *)
(* close reason (session_manager.py: _close_session_internal).              *)
THEOREM ManagerSafety == ManagerSpec => [](ManagerTypeOK /\ EndedOnce)
<1>1. ManagerInv => ManagerTypeOK /\ EndedOnce
  BY DEF ManagerInv
<1> QED
  BY <1>1, ManagerInitially, ManagerInvInductive, PTL DEF ManagerSpec

-----------------------------------------------------------------------------
(* The refinement.  What one step of the table does to one session.         *)
Stays(s)   == state'[s] = state[s] /\ reason'[s] = reason[s]
Advances(s) ==
    /\ <<state[s], state'[s]>> \in Lifecycle!Advance
    /\ reason'[s] = reason[s]
Ends(s) ==
    /\ Open(s) /\ state'[s] = "closed"
    /\ reason'[s] \in Reasons \cup {"none"}
Forgets(s) ==
    /\ state[s] = "closed" /\ state'[s] = "purged"
    /\ reason'[s] = reason[s]

(* Closing a set of sessions ends the open ones and leaves the others.      *)
LEMMA CloseAllMoves ==
  ASSUME NEW S \in SUBSET Sessions, NEW r \in Reasons, CloseAll(S, r), NEW s \in Sessions
  PROVE  Stays(s) \/ Ends(s)
  BY DEF CloseAll, Stays, Ends

(* Whichever thread takes a step, every session stays, advances by one      *)
(* stage, ends or is forgotten.                                             *)
LEMMA StepMoves ==
  ASSUME ManagerInv, [ManagerNext]_managerVars, NEW s \in Sessions
  PROVE  Stays(s) \/ Advances(s) \/ Ends(s) \/ Forgets(s)
<1>0. ManagerTypeOK
  BY DEF ManagerInv
<1>1. ASSUME NEW u \in Sessions, create_session(u)
      PROVE  Stays(s) \/ Advances(s)
  BY <1>0, <1>1 DEF create_session, ManagerTypeOK, Stays, Advances, Lifecycle!Advance
<1>2. ASSUME NEW u \in Sessions, NEW new \in OpenStates \cup {"closed"},
             set_session_state(u, new)
      PROVE  Stays(s) \/ Advances(s) \/ Ends(s)
  <2>1. reason'[s] = reason[s] /\ reason[s] \in Reasons \cup {"none"}
    BY <1>0, <1>2 DEF set_session_state, ManagerTypeOK
  <2>2. CASE s # u
    BY <1>0, <1>2, <2>1, <2>2 DEF set_session_state, ManagerTypeOK, Stays
  <2>3. CASE s = u
    <3>1. state'[s] = new
      BY <1>0, <1>2, <2>3 DEF set_session_state, ManagerTypeOK
    <3>2. /\ state[s] \in OpenStates \cup {"closed"}
          /\ new \in ValidTransitions[state[s]]
      BY <1>0, <1>2, <2>3
      DEF set_session_state, CanSet, InTable, ManagerTypeOK, SessionStates
    <3> QED
      BY <2>1, <3>1, <3>2
      DEF ValidTransitions, Advances, Ends, Open, OpenStates, Lifecycle!Advance
  <2> QED
    BY <2>2, <2>3
<1>3. ASSUME NEW u \in Sessions, set_tls_info(u) \/ record_exchange(u)
      PROVE  Stays(s)
  BY <1>3 DEF set_tls_info, record_exchange, Stays
<1>4. CASE Client
  <2>1. ASSUME NEW u \in Sessions, NEW r \in Reasons, close_session(u, r)
        PROVE  Stays(s) \/ Ends(s)
    BY <2>1, CloseAllMoves DEF close_session
  <2> QED
    BY <1>1, <1>2, <1>3, <1>4, <2>1 DEF Client
<1>5. CASE Clock
  BY <1>5 DEF Clock, Tick, Stays
<1>6. CASE CleanupThread
  <2>1. CASE CleanerExpire
    BY <2>1, CloseAllMoves DEF CleanerExpire, cleanup_expired, Reasons
  <2>2. CASE CleanerPurge
    BY <1>0, <2>2
    DEF CleanerPurge, purge_closed_sessions, ManagerTypeOK, Stays, Forgets
  <2>3. CASE CleanerWake
    BY <2>3 DEF CleanerWake, sessionVars, Stays
  <2> QED
    BY <1>6, <2>1, <2>2, <2>3 DEF CleanupThread
<1>7. CASE manager_start \/ manager_stop_flag
  BY <1>7 DEF manager_start, manager_stop_flag, sessionVars, Stays
<1>8. CASE manager_stop_close
  BY <1>8, CloseAllMoves DEF manager_stop_close, Reasons
<1>9. CASE UNCHANGED managerVars
  BY <1>9 DEF managerVars, Stays
<1> QED
  BY <1>4, <1>5, <1>6, <1>7, <1>8, <1>9 DEF ManagerNext

(* Such a step is a step of the promise: a session ends with the outcome    *)
(* its reason gives it, or "silent", and keeps it when it is purged.        *)
LEMMA LifecycleStep ==
  ManagerInv /\ [ManagerNext]_managerVars /\ ManagerInv' => Lifecycle!Next
<1> SUFFICES ASSUME ManagerInv, [ManagerNext]_managerVars, ManagerInv'
             PROVE  Lifecycle!Next
  OBVIOUS
<1>0. ManagerTypeOK /\ ManagerTypeOK' /\ EndedOnce
  BY DEF ManagerInv
<1>1. state' \in [Sessions -> Lifecycle!Stages]
  BY <1>0 DEF ManagerTypeOK, SessionStates, OpenStates, Lifecycle!Stages
<1>2. outcome' \in [Sessions -> (Reasons \cup {"silent"}) \cup {"none"}]
  BY <1>0 DEF outcome, ManagerTypeOK
<1>3. ASSUME NEW s \in Sessions PROVE Lifecycle!Moves(s)
  <2> DEFINE Of(stage, why) == IF stage \in {"closed", "purged"} /\ why = "none"
                               THEN "silent" ELSE why
  <2>1. outcome[s] = Of(state[s], reason[s]) /\ outcome'[s] = Of(state'[s], reason'[s])
    BY DEF outcome
  <2>2. CASE Stays(s)
    BY <2>1, <2>2 DEF Stays, Lifecycle!Moves
  <2>3. CASE Advances(s)
    BY <2>1, <2>3 DEF Advances, Lifecycle!Moves, Lifecycle!Advance
  <2>4. CASE Ends(s)
    <3>1. <<state[s], state'[s]>> \in Lifecycle!Ending
      BY <2>4 DEF Ends, Open, OpenStates, Lifecycle!Ending
    <3>2. outcome'[s] \in Reasons \cup {"silent"}
      BY <2>1, <2>4 DEF Ends
    <3> QED
      BY <3>1, <3>2 DEF Lifecycle!Moves
  <2>5. CASE Forgets(s)
    BY <2>1, <2>5 DEF Forgets, Lifecycle!Moves, Lifecycle!Forget
  <2> QED
    BY <2>2, <2>3, <2>4, <2>5, StepMoves
<1> QED
  BY <1>1, <1>2, <1>3 DEF Lifecycle!Next

(* The table of sessions implements the promise of SessionLifecycle: through *)
(* any interleaving of clients, clean-up and stop(), a session only moves   *)
(* forward, ends once, with one outcome, and is purged only afterwards.     *)
THEOREM ManagerImplements == ManagerSpec => ImplementsLifecycle
<1>1. ManagerInit => Lifecycle!Init
  BY DEF ManagerInit, Lifecycle!Init, outcome
<1>2. ManagerInv /\ [ManagerNext]_managerVars /\ ManagerInv' => [Lifecycle!Next]_<<state, outcome>>
  BY LifecycleStep
<1>3. ManagerInit => ManagerInv
  BY ManagerInitially
<1> QED
  BY <1>1, <1>2, <1>3, ManagerInvInductive, PTL
  DEF ManagerSpec, ImplementsLifecycle, Lifecycle!Spec

-----------------------------------------------------------------------------
(* The server. *)

(* The connections the pool knows, and the addresses that take a place of  *)
(* the capacity.                                                           *)
Pooled  == Working \cup {"queued"}
Tracked == {a \in Addresses : active[a] # None}

(* The connection in the hands of the accept thread. *)
AcceptorHolds ==
    /\ acceptor \in {"off", "top", "accept"} => held = None
    /\ acceptor \in {"check", "submit"} => held \in Conns /\ pc[held] = "held"
    /\ acceptor \in {"track", "register"} =>
           held \in Conns /\ pc[held] \in Pooled \cup {"gone"}
    /\ \A c \in Conns :
           pc[c] = "held" => held = c /\ acceptor \in {"check", "submit"}

(* The order of start() and stop(): who still runs at each point of it. *)
LifeOrder ==
    /\ serving => stopper = "idle"
    /\ ~serving /\ stopper # "join" => acceptor = "off"
    /\ serving \/ stopper \in {"join", "close", "pool"} => managing
    /\ stopper \in {"manager", "stopped"} => ~managing
    /\ stopping <=> stopper = "manager"
    /\ stopper = "pool" => \A c \in Conns : pc[c] # "queued"
    /\ stopper \in {"manager", "stopped"} => \A c \in Conns : pc[c] \in Ended

(* Where a worker is when its session is open, and that nobody closes a     *)
(* session without a reason.                                                *)
SessionPlace ==
    \A c \in Conns :
        /\ pc[c] \in {"none", "backlog", "held", "queued", "refused",
                      "handshake", "shook"} => state[c] = "none"
        /\ pc[c] \in {"closing", "returned", "callback", "gone"} => ~Open(c)
        /\ state[c] \in {"closed", "purged"} => reason[c] # "none"

(* An entry of the tracking table has a callback that will remove it, or    *)
(* the accept thread is about to register one.                              *)
Tracking ==
    \A a \in Addresses : active[a] # None =>
        /\ Addr(active[a]) = a
        /\ \/ acceptor = "register" /\ held = active[a]
           \/ active[a] \in registered /\ pc[active[a]] \in Pooled

(* The accept thread has a free place for the connection it submits, and,   *)
(* when addresses are distinct, every pooled connection takes a place.      *)
DistinctAddresses == \A c, d \in Conns : Addr(c) = Addr(d) => c = d
PlaceForEach ==
    /\ IsFiniteSet(Tracked)
    /\ Cardinality(Tracked) + (IF acceptor \in {"submit", "track"} THEN 1 ELSE 0)
           <= MaxConnections
    /\ DistinctAddresses =>
           \A c \in Conns : pc[c] \in Pooled =>
               active[Addr(c)] = c \/ (acceptor = "track" /\ held = c)

ServerInv ==
    /\ ManagerInv
    /\ TypeOK
    /\ AcceptorHolds
    /\ LifeOrder
    /\ SessionPlace
    /\ Tracking
    /\ PlaceForEach

-----------------------------------------------------------------------------
(* Every step of the server is a call of the session manager, a step of its *)
(* cleanup thread, or none of its business.                                 *)
LEMMA WorkerCalls ==
  ASSUME NEW c \in Conns, Worker(c)
  PROVE  [Client]_managerVars
<1> USE DEF workerFrame, managerVars, sessionVars, threadVars
<1>1. CASE CreateSession(c)
  BY <1>1 DEF CreateSession, Client, Conns
<1>2. CASE SetTls(c)
  BY <1>2 DEF SetTls, Interrupted, Client, Conns
<1>3. CASE SetConnected(c) \/ SetActive(c)
  BY <1>3 DEF SetConnected, SetActive, SetState, Interrupted, Client, OpenStates, Conns
<1>4. CASE Finally(c)
  BY <1>4 DEF Finally, Client, Reasons, Conns
<1>5. CASE ConnectionDone(c)
  BY <1>5 DEF ConnectionDone
<1>6. CASE Take(c) \/ HandshakeOk(c) \/ HandshakeFails(c) \/ Serve(c) \/ LeaveLoop(c)
           \/ Send(c) \/ CloseSockets(c) \/ FutureDone(c)
  BY <1>6 DEF Take, HandshakeOk, HandshakeFails, Serve, LeaveLoop, Send, CloseSockets,
     FutureDone
<1> QED
  BY <1>1, <1>2, <1>3, <1>4, <1>5, <1>6 DEF Worker

LEMMA AcceptorIdle == AcceptThread => UNCHANGED <<managerVars, lifeVars>>
  BY DEF AcceptThread, AcceptTop, AcceptTimeout, AcceptCheck, AcceptSubmit, AcceptTrack,
     AcceptRegister, Accept

LEMMA ServerStep == [Next]_serverVars => [ManagerNext]_managerVars
<1> SUFFICES ASSUME [Next]_serverVars PROVE [ManagerNext]_managerVars
  OBVIOUS
<1>1. ASSUME NEW c \in Conns, Arrive(c) \/ Disconnect(c) \/ Worker(c)
      PROVE  [ManagerNext]_managerVars
  BY <1>1, WorkerCalls DEF Arrive, Disconnect, ManagerNext
<1>2. CASE AcceptThread
  BY <1>2, AcceptorIdle
<1>3. CASE StartOk \/ StartFails
  BY <1>3 DEF StartOk, StartFails, StartManager, ManagerNext
<1>4. CASE StopFlag \/ StopJoin \/ StopCancel
  BY <1>4 DEF StopFlag, StopJoin, StopCancel
<1>5. ASSUME NEW s \in Sessions, StopCloseOne(s) PROVE [ManagerNext]_managerVars
  BY <1>5 DEF StopCloseOne, ManagerNext, Client, Reasons
<1>6. CASE StopPool \/ StopManager
  BY <1>6 DEF StopPool, StopManager, ManagerNext
<1>7. CASE Cleanup \/ TimeFlows
  BY <1>7 DEF Cleanup, TimeFlows, ManagerNext
<1>8. CASE UNCHANGED serverVars
  BY <1>8 DEF serverVars
<1> QED
  BY <1>1, <1>2, <1>3, <1>4, <1>5, <1>6, <1>7, <1>8 DEF Next, StopThread

(* A worker moves its own connection through the pool, and touches neither  *)
(* the accept thread nor start and stop.  Only a connection without a       *)
(* callback is gone when its future is done.                                *)
LEMMA WorkerMoves ==
  ASSUME NEW c \in Conns, Worker(c), ~ConnectionDone(c)
  PROVE  /\ UNCHANGED <<acceptVars, lifeVars, threadVars>>
         /\ pc[c] \in Pooled
         /\ \E place \in Working \cup {"gone"} :
               /\ Goto(c, place)
               /\ place = "gone" => c \notin registered
<1> USE DEF workerFrame, Pooled, Working
<1>1. CASE Take(c) \/ HandshakeOk(c) \/ HandshakeFails(c)
  BY <1>1 DEF Take, HandshakeOk, HandshakeFails
<1>2. CASE CreateSession(c) \/ SetTls(c)
  BY <1>2 DEF CreateSession, SetTls, Interrupted
<1>3. CASE SetConnected(c) \/ SetActive(c)
  BY <1>3 DEF SetConnected, SetActive, SetState, Interrupted
<1>4. CASE Serve(c) \/ LeaveLoop(c) \/ Finally(c) \/ CloseSockets(c)
  BY <1>4 DEF Serve, LeaveLoop, Finally, CloseSockets
<1>5. CASE Send(c)
  BY <1>5 DEF Send
<1>6. CASE FutureDone(c)
  BY <1>6 DEF FutureDone
<1> QED
  BY <1>1, <1>2, <1>3, <1>4, <1>5, <1>6 DEF Worker

-----------------------------------------------------------------------------
(* One lemma per conjunct, with a case per action or group of like actions. *)
LEMMA AcceptorKept == ServerInv /\ [Next]_serverVars => AcceptorHolds'
<1> SUFFICES ASSUME ServerInv, [Next]_serverVars PROVE AcceptorHolds'
  OBVIOUS
<1> USE ServerAssumption DEF AcceptorHolds, Goto, Conns
<1>0. AcceptorHolds /\ TypeOK /\ LifeOrder
  BY DEF ServerInv
<1>1. ASSUME NEW c \in Conns, Arrive(c) \/ Disconnect(c) PROVE AcceptorHolds'
  BY <1>0, <1>1
  DEF Arrive, Disconnect, TypeOK, acceptVars, Pooled, Working
<1>2. ASSUME NEW c \in Conns, Worker(c), ~ConnectionDone(c) PROVE AcceptorHolds'
  <2>1. /\ UNCHANGED <<acceptor, held>> /\ pc[c] \in Pooled
        /\ \E place \in Working \cup {"gone"} : pc' = [pc EXCEPT ![c] = place]
    BY <1>2, WorkerMoves DEF acceptVars
  <2> QED
    BY <1>0, <2>1 DEF TypeOK, Pooled, Working
<1>3. ASSUME NEW c \in Conns, ConnectionDone(c) PROVE AcceptorHolds'
  BY <1>0, <1>3 DEF ConnectionDone, TypeOK, Pooled, Working
<1>4. CASE AcceptTop \/ AcceptTimeout \/ AcceptTrack \/ AcceptRegister
  BY <1>0, <1>4
  DEF AcceptTop, AcceptTimeout, AcceptTrack, AcceptRegister, netVars
<1>5. CASE AcceptCheck \/ AcceptSubmit
  BY <1>0, <1>5 DEF AcceptCheck, AcceptSubmit, TypeOK, Pooled
<1>6. ASSUME NEW c \in Conns, Accept(c) PROVE AcceptorHolds'
  BY <1>0, <1>6 DEF Accept, TypeOK
<1>7. CASE StartOk
  BY <1>0, <1>7 DEF StartOk, LifeOrder, netVars
<1>8. CASE StartFails \/ StopFlag \/ StopJoin \/ StopManager \/ Cleanup \/ TimeFlows
  BY <1>0, <1>8
  DEF StartFails, StopFlag, StopJoin, StopManager, Cleanup, TimeFlows, netVars, acceptVars
<1>9. ASSUME NEW s \in Sessions, StopCloseOne(s) PROVE AcceptorHolds'
  BY <1>0, <1>9 DEF StopCloseOne, netVars, acceptVars
<1>10. CASE StopCancel
  BY <1>0, <1>10 DEF StopCancel, TypeOK, LifeOrder, Pooled, Working
<1>11. CASE StopPool
  BY <1>0, <1>11 DEF StopPool, TypeOK, LifeOrder, acceptVars
<1>12. CASE UNCHANGED serverVars
  BY <1>0, <1>12 DEF serverVars, netVars, acceptVars
<1> QED
  BY <1>1, <1>2, <1>3, <1>4, <1>5, <1>6, <1>7, <1>8, <1>9, <1>10, <1>11, <1>12
  DEF Next, AcceptThread, StopThread

LEMMA LifeKept == ServerInv /\ [Next]_serverVars => LifeOrder'
<1> SUFFICES ASSUME ServerInv, [Next]_serverVars PROVE LifeOrder'
  OBVIOUS
<1> USE DEF LifeOrder, Goto, Conns, lifeVars, threadVars, managerVars
<1>0. LifeOrder /\ TypeOK /\ AcceptorHolds /\ SessionPlace
  BY DEF ServerInv
<1>1. ASSUME NEW c \in Conns, Arrive(c) \/ Disconnect(c) PROVE LifeOrder'
  BY <1>0, <1>1 DEF Arrive, Disconnect, TypeOK, acceptVars
<1>2. ASSUME NEW c \in Conns, Worker(c), ~ConnectionDone(c) PROVE LifeOrder'
  <2>1. /\ UNCHANGED <<acceptor, lifeVars, threadVars>> /\ pc[c] \in Pooled
        /\ \E place \in Working \cup {"gone"} : pc' = [pc EXCEPT ![c] = place]
    BY <1>2, WorkerMoves DEF acceptVars
  <2> QED
    BY <1>0, <2>1 DEF TypeOK, Pooled, Working, Ended
<1>3. ASSUME NEW c \in Conns, ConnectionDone(c) PROVE LifeOrder'
  BY <1>0, <1>3 DEF ConnectionDone, TypeOK, Ended
<1>4. CASE AcceptTop \/ AcceptTimeout \/ AcceptTrack \/ AcceptRegister
  BY <1>0, <1>4
  DEF AcceptTop, AcceptTimeout, AcceptTrack, AcceptRegister, netVars
<1>5. CASE AcceptCheck \/ AcceptSubmit
  BY <1>0, <1>5 DEF AcceptCheck, AcceptSubmit, TypeOK, AcceptorHolds, Ended
<1>6. ASSUME NEW c \in Conns, Accept(c) PROVE LifeOrder'
  BY <1>0, <1>6 DEF Accept, TypeOK
<1>7. CASE StartOk \/ StartFails
  BY <1>0, <1>7 DEF StartOk, StartFails, StartManager, manager_start, netVars, acceptVars
<1>8. CASE StopFlag \/ StopJoin
  BY <1>0, <1>8 DEF StopFlag, StopJoin, netVars, acceptVars
<1>9. ASSUME NEW s \in Sessions, StopCloseOne(s) PROVE LifeOrder'
  BY <1>0, <1>9 DEF StopCloseOne, netVars, acceptVars
<1>10. CASE StopCancel
  BY <1>0, <1>10 DEF StopCancel
<1>11. CASE StopPool
  BY <1>0, <1>11 DEF StopPool, manager_stop_flag, TypeOK, AcceptorHolds, acceptVars,
     Places, Ended
<1>12. CASE StopManager
  BY <1>0, <1>12 DEF StopManager, manager_stop_close, netVars, acceptVars
<1>13. CASE Cleanup \/ TimeFlows
  BY <1>0, <1>13
  DEF Cleanup, CleanupThread, CleanerExpire, CleanerPurge, CleanerWake, TimeFlows, Clock,
      netVars, acceptVars
<1>14. CASE UNCHANGED serverVars
  BY <1>0, <1>14 DEF serverVars, netVars, acceptVars
<1> QED
  BY <1>1, <1>2, <1>3, <1>4, <1>5, <1>6, <1>7, <1>8, <1>9, <1>10, <1>11, <1>12, <1>13,
     <1>14
  DEF Next, AcceptThread, StopThread

(* Closing sessions, wherever their workers are, opens none and gives each  *)
(* a reason; purging them changes neither.                                  *)
LEMMA CloseAllPlaces ==
  ASSUME ServerInv, NEW S \in SUBSET Sessions, NEW r \in Reasons, CloseAll(S, r), UNCHANGED pc
  PROVE  SessionPlace'
<1>1. ASSUME NEW c \in Conns
      PROVE  \/ state'[c] = state[c] /\ reason'[c] = reason[c]
             \/ Open(c) /\ state'[c] = "closed" /\ reason'[c] # "none"
  BY <1>1 DEF CloseAll, Reasons, Conns
<1> QED
  BY <1>1 DEF ServerInv, SessionPlace, Open, OpenStates

LEMMA SessionsKept == ServerInv /\ [Next]_serverVars => SessionPlace'
<1> SUFFICES ASSUME ServerInv, [Next]_serverVars PROVE SessionPlace'
  OBVIOUS
<1> USE DEF Goto, Conns, managerVars, sessionVars
<1>0. SessionPlace /\ TypeOK /\ ManagerTypeOK /\ AcceptorHolds
  BY DEF ServerInv, TypeOK
<1>1. ASSUME NEW c \in Conns, Arrive(c) \/ Disconnect(c) \/ Take(c) \/ HandshakeOk(c)
                              \/ HandshakeFails(c) \/ Serve(c) \/ LeaveLoop(c) \/ Send(c)
      PROVE  SessionPlace'
  BY <1>0, <1>1
  DEF Arrive, Disconnect, Take, HandshakeOk, HandshakeFails, Serve, LeaveLoop, Send,
      SessionPlace, TypeOK, Open, OpenStates, InTable
<1>2. ASSUME NEW c \in Conns, CreateSession(c) PROVE SessionPlace'
  BY <1>0, <1>2
  DEF CreateSession, create_session, SessionPlace, TypeOK, ManagerTypeOK, Open, OpenStates
<1>3. ASSUME NEW c \in Conns, SetTls(c) PROVE SessionPlace'
  BY <1>0, <1>3
  DEF SetTls, Interrupted, set_tls_info, SessionPlace, TypeOK, ManagerTypeOK, Open, OpenStates
<1>4. ASSUME NEW c \in Conns, NEW from \in {"named", "connected"},
             NEW to \in {"connected", "loop"}, NEW new \in {"connected", "active"},
             SetState(c, from, new, to)
      PROVE  SessionPlace'
  BY <1>0, <1>4
  DEF SetState, Interrupted, set_session_state, SessionPlace, TypeOK, ManagerTypeOK,
      Open, OpenStates
<1>5. ASSUME NEW c \in Conns, Finally(c) PROVE SessionPlace'
  <2>1. ASSUME NEW d \in Conns
        PROVE  IF d = c THEN /\ ~Open(c)'
                             /\ \/ state'[c] = state[c] /\ reason'[c] = reason[c]
                                \/ reason'[c] # "none"
               ELSE state'[d] = state[d] /\ reason'[d] = reason[d]
    BY <1>5, <2>1 DEF Finally, close_session, CloseAll, Open, OpenStates
  <2> QED
    BY <1>0, <1>5, <2>1 DEF Finally, SessionPlace, TypeOK, Open
<1>6. ASSUME NEW c \in Conns, CloseSockets(c) \/ FutureDone(c) \/ ConnectionDone(c)
      PROVE  SessionPlace'
  BY <1>0, <1>6
  DEF CloseSockets, FutureDone, ConnectionDone, SessionPlace, TypeOK, Open, OpenStates
<1>7. CASE AcceptTop \/ AcceptTimeout \/ AcceptTrack \/ AcceptRegister
  BY <1>0, <1>7
  DEF AcceptTop, AcceptTimeout, AcceptTrack, AcceptRegister, netVars, SessionPlace, Open
<1>8. CASE AcceptCheck \/ AcceptSubmit
  BY <1>0, <1>8 DEF AcceptCheck, AcceptSubmit, SessionPlace, TypeOK, AcceptorHolds, Open
<1>9. ASSUME NEW c \in Conns, Accept(c) PROVE SessionPlace'
  BY <1>0, <1>9 DEF Accept, SessionPlace, TypeOK, Open
<1>10. CASE StartOk \/ StartFails \/ StopFlag \/ StopJoin
  BY <1>0, <1>10
  DEF StartOk, StartFails, StartManager, manager_start, StopFlag, StopJoin, netVars,
      SessionPlace, Open
<1>11. ASSUME NEW s \in Sessions, StopCloseOne(s) PROVE SessionPlace'
  BY <1>11, CloseAllPlaces DEF StopCloseOne, close_session, Reasons, netVars
<1>12. CASE StopCancel \/ StopPool
  BY <1>0, <1>12
  DEF StopCancel, StopPool, manager_stop_flag, SessionPlace, TypeOK, Open, OpenStates
<1>13. CASE StopManager
  BY <1>13, CloseAllPlaces DEF StopManager, manager_stop_close, Reasons, netVars
<1>14. CASE Cleanup
  <2>1. CASE CleanerExpire
    BY <1>14, <2>1, CloseAllPlaces DEF Cleanup, CleanerExpire, cleanup_expired, Reasons, netVars
  <2>2. CASE CleanerPurge
    BY <1>0, <1>14, <2>2
    DEF Cleanup, CleanerPurge, purge_closed_sessions, netVars, SessionPlace, Open, OpenStates
  <2>3. CASE CleanerWake
    BY <1>0, <1>14, <2>3 DEF Cleanup, CleanerWake, netVars, SessionPlace, Open
  <2> QED
    BY <1>14, <2>1, <2>2, <2>3 DEF Cleanup, CleanupThread
<1>15. CASE TimeFlows \/ UNCHANGED serverVars
  BY <1>0, <1>15 DEF TimeFlows, Clock, Tick, serverVars, netVars, SessionPlace, Open
<1> QED
  BY <1>1, <1>2, <1>3, <1>4, <1>5, <1>6, <1>7, <1>8, <1>9, <1>10, <1>11, <1>12, <1>13,
     <1>14, <1>15
  DEF Next, Worker, SetConnected, SetActive, AcceptThread, StopThread

LEMMA TrackingKept == ServerInv /\ [Next]_serverVars => Tracking'
<1> SUFFICES ASSUME ServerInv, [Next]_serverVars PROVE Tracking'
  OBVIOUS
<1> USE ServerAssumption DEF Tracking, Goto, Conns, Addr
<1>0. Tracking /\ TypeOK /\ AcceptorHolds /\ LifeOrder
  BY DEF ServerInv
<1>1. ASSUME NEW c \in Conns, Arrive(c) \/ Disconnect(c) PROVE Tracking'
  BY <1>0, <1>1 DEF Arrive, Disconnect, TypeOK, acceptVars, Pooled, Working
<1>2. ASSUME NEW c \in Conns, Worker(c), ~ConnectionDone(c) PROVE Tracking'
  <2>1. /\ UNCHANGED <<acceptor, held, active, registered>>
        /\ \E place \in Working \cup {"gone"} :
              /\ pc' = [pc EXCEPT ![c] = place]
              /\ place = "gone" => c \notin registered
    BY <1>2, WorkerMoves DEF acceptVars
  <2> QED
    BY <1>0, <2>1 DEF TypeOK, Pooled
<1>3. ASSUME NEW c \in Conns, ConnectionDone(c) PROVE Tracking'
  BY <1>0, <1>3 DEF ConnectionDone, Untrack, TypeOK
<1>4. CASE AcceptTop \/ AcceptTimeout
  BY <1>0, <1>4 DEF AcceptTop, AcceptTimeout, netVars
<1>5. CASE AcceptTrack
  BY <1>0, <1>5 DEF AcceptTrack, TypeOK, AcceptorHolds, netVars
<1>6. CASE AcceptRegister
  BY <1>0, <1>6 DEF AcceptRegister, Untrack, TypeOK, AcceptorHolds, netVars
<1>7. CASE AcceptCheck \/ AcceptSubmit
  BY <1>0, <1>7 DEF AcceptCheck, AcceptSubmit, TypeOK, AcceptorHolds, Pooled, Working
<1>8. ASSUME NEW c \in Conns, Accept(c) PROVE Tracking'
  BY <1>0, <1>8 DEF Accept, TypeOK, Pooled, Working
<1>9. CASE StartOk
  BY <1>0, <1>9 DEF StartOk, LifeOrder, netVars
<1>10. CASE StartFails \/ StopFlag \/ StopJoin \/ StopManager \/ Cleanup \/ TimeFlows
  BY <1>0, <1>10
  DEF StartFails, StopFlag, StopJoin, StopManager, Cleanup, TimeFlows, netVars, acceptVars
<1>11. ASSUME NEW s \in Sessions, StopCloseOne(s) PROVE Tracking'
  BY <1>0, <1>11 DEF StopCloseOne, netVars, acceptVars
<1>12. CASE StopCancel
  <2>1. acceptor = "off"
    BY <1>0, <1>12 DEF StopCancel, LifeOrder
  <2>2. ASSUME NEW a \in Addresses, active'[a] # None
        PROVE  /\ active'[a] = active[a] /\ active[a] \in Conns
               /\ pc[active[a]] # "queued"
    BY <1>0, <1>12, <2>2 DEF StopCancel, TypeOK
  <2> QED
    BY <1>0, <1>12, <2>1, <2>2 DEF StopCancel, TypeOK
<1>13. CASE StopPool
  BY <1>0, <1>13 DEF StopPool, TypeOK, acceptVars, Pooled, Working
<1>14. CASE UNCHANGED serverVars
  BY <1>0, <1>14 DEF serverVars, netVars, acceptVars
<1> QED
  BY <1>1, <1>2, <1>3, <1>4, <1>5, <1>6, <1>7, <1>8, <1>9, <1>10, <1>11, <1>12, <1>13,
     <1>14
  DEF Next, AcceptThread, StopThread

(* Addresses that leave the table free their places.                        *)
LEMMA FewerTracked ==
  ASSUME IsFiniteSet(Tracked), Tracked' \subseteq Tracked
  PROVE  IsFiniteSet(Tracked') /\ Cardinality(Tracked') <= Cardinality(Tracked)
  BY FS_Subset

LEMMA PlacesKept == ServerInv /\ [Next]_serverVars => PlaceForEach'
<1> SUFFICES ASSUME ServerInv, [Next]_serverVars PROVE PlaceForEach'
  OBVIOUS
<1> USE ServerAssumption DEF Goto, Conns, Addr
<1>0. /\ PlaceForEach /\ TypeOK /\ AcceptorHolds /\ LifeOrder
      /\ Cardinality(Tracked) \in Nat
  BY FS_CardinalityType DEF ServerInv, PlaceForEach
<1> DEFINE Taken(T, at) == /\ IsFiniteSet(T)
                           /\ Cardinality(T) + (IF at \in {"submit", "track"} THEN 1 ELSE 0)
                                  <= MaxConnections
           Placed == DistinctAddresses =>
                         \A c \in Conns : pc[c] \in Pooled =>
                             active[Addr(c)] = c \/ (acceptor = "track" /\ held = c)
<1>1. /\ Taken(Tracked, acceptor) /\ Placed
      /\ Taken(Tracked', acceptor') /\ Placed' => PlaceForEach'
  BY <1>0 DEF PlaceForEach
<1>2. ASSUME Tracked' \subseteq Tracked,
             acceptor' \in {"submit", "track"} => acceptor \in {"submit", "track"}
      PROVE  Taken(Tracked', acceptor')
  BY <1>0, <1>1, <1>2, FewerTracked, FS_CardinalityType
<1>3. UNCHANGED active => Tracked' = Tracked
  BY DEF Tracked
<1>4. ASSUME NEW c \in Conns, Arrive(c) \/ Disconnect(c) PROVE PlaceForEach'
  <2>1. Placed'
    BY <1>0, <1>1, <1>4 DEF Arrive, Disconnect, acceptVars, TypeOK, Pooled, Working
  <2> QED
    BY <1>1, <1>2, <1>3, <1>4, <2>1 DEF Arrive, Disconnect, acceptVars
<1>5. ASSUME NEW c \in Conns, Worker(c), ~ConnectionDone(c) PROVE PlaceForEach'
  <2>1. /\ UNCHANGED <<acceptor, held, active>> /\ pc[c] \in Pooled
        /\ \E place \in Working \cup {"gone"} : pc' = [pc EXCEPT ![c] = place]
    BY <1>5, WorkerMoves DEF acceptVars
  <2>2. Placed'
    BY <1>0, <1>1, <2>1 DEF TypeOK
  <2> QED
    BY <1>1, <1>2, <1>3, <2>1, <2>2
<1>6. ASSUME NEW c \in Conns, ConnectionDone(c) PROVE PlaceForEach'
  <2>1. Tracked' \subseteq Tracked
    BY <1>0, <1>6 DEF ConnectionDone, Untrack, TypeOK, Tracked
  <2>2. Placed'
    BY <1>0, <1>1, <1>6
    DEF ConnectionDone, Untrack, TypeOK, DistinctAddresses, Pooled, Working
  <2> QED
    BY <1>1, <1>2, <1>6, <2>1, <2>2 DEF ConnectionDone
<1>7. CASE AcceptTop \/ AcceptTimeout
  BY <1>0, <1>1, <1>2, <1>3, <1>7 DEF AcceptTop, AcceptTimeout, netVars
<1>8. CASE AcceptCheck
  <2>1. Placed'
    BY <1>0, <1>1, <1>8 DEF AcceptCheck, TypeOK, AcceptorHolds, Pooled, Working
  <2>2. CASE AtCapacity
    BY <1>1, <1>2, <1>3, <1>8, <2>1, <2>2 DEF AcceptCheck
  <2>3. CASE ~AtCapacity
    <3>1. Cardinality(Tracked) + 1 <= MaxConnections
      BY <1>0, <2>3 DEF AtCapacity, Tracked
    <3> QED
      BY <1>1, <1>3, <1>8, <2>1, <2>3, <3>1 DEF AcceptCheck
  <2> QED
    BY <2>2, <2>3
<1>9. CASE AcceptSubmit
  <2>1. Placed'
    BY <1>0, <1>1, <1>9 DEF AcceptSubmit, TypeOK, AcceptorHolds, Pooled, Working
  <2> QED
    BY <1>1, <1>2, <1>3, <1>9, <2>1 DEF AcceptSubmit
<1>10. CASE AcceptTrack
  <2>1. held \in Conns /\ Addr(held) \in Addresses
    BY <1>0, <1>10 DEF AcceptTrack, AcceptorHolds
  <2>2. Tracked' = Tracked \cup {Addr(held)}
    BY <1>0, <1>10, <2>1 DEF AcceptTrack, TypeOK, Tracked
  <2>3. /\ IsFiniteSet(Tracked')
        /\ Cardinality(Tracked') <= Cardinality(Tracked) + 1
    <3> HIDE DEF Addr, Conns
    <3>1. IsFiniteSet(Tracked)
      BY <1>1
    <3>2. /\ IsFiniteSet(Tracked \cup {Addr(held)})
          /\ Cardinality(Tracked \cup {Addr(held)}) \in
                 {Cardinality(Tracked), Cardinality(Tracked) + 1}
      BY <3>1, FS_AddElement
    <3> QED
      BY <1>0, <2>2, <3>2
  <2>4. Taken(Tracked', acceptor')
    <3>1. Cardinality(Tracked) + 1 <= MaxConnections
      BY <1>1, <1>10 DEF AcceptTrack
    <3>2. Cardinality(Tracked') \in Nat
      BY <2>3, FS_CardinalityType
    <3> QED
      BY <1>0, <1>10, <2>3, <3>1, <3>2 DEF AcceptTrack
  <2>5. Placed'
    BY <1>0, <1>1, <1>10, <2>1 DEF AcceptTrack, TypeOK, DistinctAddresses, netVars
  <2> QED
    BY <1>1, <2>4, <2>5
<1>11. CASE AcceptRegister
  <2>1. Tracked' \subseteq Tracked
    BY <1>0, <1>11 DEF AcceptRegister, Untrack, TypeOK, Tracked
  <2>2. Placed'
    BY <1>0, <1>1, <1>11
    DEF AcceptRegister, Untrack, TypeOK, AcceptorHolds, DistinctAddresses, netVars, Pooled, Working
  <2> QED
    BY <1>1, <1>2, <1>11, <2>1, <2>2 DEF AcceptRegister
<1>12. ASSUME NEW c \in Conns, Accept(c) PROVE PlaceForEach'
  <2>1. Placed'
    BY <1>0, <1>1, <1>12 DEF Accept, TypeOK, Pooled, Working
  <2> QED
    BY <1>1, <1>2, <1>3, <1>12, <2>1 DEF Accept
<1>13. CASE StartOk
  <2>1. Placed'
    BY <1>0, <1>1, <1>13 DEF StartOk, LifeOrder, netVars
  <2> QED
    BY <1>1, <1>2, <1>3, <1>13, <2>1 DEF StartOk
<1>14. CASE StartFails \/ StopFlag \/ StopJoin \/ StopManager \/ Cleanup \/ TimeFlows
           \/ \E s \in Sessions : StopCloseOne(s)
  <2>1. UNCHANGED <<pc, acceptor, held, active>>
    BY <1>14
    DEF StartFails, StopFlag, StopJoin, StopManager, Cleanup, TimeFlows, StopCloseOne,
        netVars, acceptVars
  <2> QED
    BY <1>1, <1>2, <1>3, <2>1
<1>15. CASE StopCancel
  <2>1. Tracked' \subseteq Tracked
    BY <1>15 DEF StopCancel, Tracked
  <2>2. Placed'
    BY <1>0, <1>1, <1>15 DEF StopCancel, TypeOK, LifeOrder, Pooled, Working
  <2> QED
    BY <1>1, <1>2, <1>15, <2>1, <2>2 DEF StopCancel
<1>16. CASE StopPool
  <2>1. Placed'
    BY <1>0, <1>1, <1>16 DEF StopPool, TypeOK, acceptVars, Pooled, Working
  <2> QED
    BY <1>1, <1>2, <1>3, <1>16, <2>1 DEF StopPool, acceptVars
<1>17. CASE UNCHANGED serverVars
  BY <1>1, <1>2, <1>3, <1>17 DEF serverVars, netVars, acceptVars
<1> QED
  BY <1>4, <1>5, <1>6, <1>7, <1>8, <1>9, <1>10, <1>11, <1>12, <1>13, <1>14, <1>15, <1>16,
     <1>17
  DEF Next, AcceptThread, StopThread

LEMMA TypesKept == ServerInv /\ [Next]_serverVars => TypeOK'
<1> SUFFICES ASSUME ServerInv, [Next]_serverVars PROVE TypeOK'
  OBVIOUS
<1> USE ServerAssumption DEF Goto, Conns, Addr
<1>0. TypeOK /\ ManagerTypeOK /\ LifeOrder /\ AcceptorHolds
  BY DEF ServerInv, TypeOK
<1>1. ManagerTypeOK'
  <2>1. ManagerInv'
    BY ServerStep, ManagerInvInductive DEF ServerInv
  <2> QED
    BY <2>1 DEF ManagerInv
<1>2. OneCleaner'
  <2> USE DEF OneCleaner, threadVars, managerVars
  <2>0. OneCleaner /\ LifeOrder
    BY <1>0 DEF TypeOK
  <2>1. ASSUME NEW c \in Conns, Arrive(c) \/ Disconnect(c) \/ ConnectionDone(c)
        PROVE  OneCleaner'
    BY <2>0, <2>1 DEF Arrive, Disconnect, ConnectionDone
  <2>2. ASSUME NEW c \in Conns, Worker(c), ~ConnectionDone(c) PROVE OneCleaner'
    BY <2>0, <2>2, WorkerMoves
  <2>3. CASE AcceptThread
    BY <2>0, <2>3, AcceptorIdle
  <2>4. CASE StartOk \/ StartFails
    BY <2>0, <2>4 DEF StartOk, StartFails, StartManager, manager_start
  <2>5. CASE StopFlag \/ StopJoin \/ StopCancel \/ \E s \in Sessions : StopCloseOne(s)
    BY <2>0, <2>5 DEF StopFlag, StopJoin, StopCancel, StopCloseOne
  <2>6. CASE StopPool \/ StopManager
    BY <2>0, <2>6
    DEF StopPool, StopManager, manager_stop_flag, manager_stop_close, LifeOrder
  <2>7. CASE Cleanup \/ TimeFlows
    BY <2>0, <2>7
    DEF Cleanup, CleanupThread, CleanerExpire, CleanerPurge, CleanerWake, TimeFlows, Clock
  <2>8. CASE UNCHANGED serverVars
    BY <2>0, <2>8 DEF serverVars
  <2> QED
    BY <2>1, <2>2, <2>3, <2>4, <2>5, <2>6, <2>7, <2>8 DEF Next, StopThread
<1> DEFINE
      Lives == /\ serving \in BOOLEAN
               /\ starts \in 0..MaxStarts
               /\ stopper \in {"idle", "join", "close", "pool", "manager", "stopped"}
               /\ toClose \subseteq Sessions
      Accepts == /\ acceptor \in {"off", "top", "accept", "check", "submit", "track", "register"}
                 /\ held \in Conns \cup {None}
                 /\ active \in [Addresses -> Conns \cup {None}]
                 /\ registered \subseteq Conns
      Nets == /\ pc \in [Conns -> Places]
              /\ keep \in [Conns -> BOOLEAN]
              /\ peer \in [Conns -> {"up", "down"}]
              /\ reported \subseteq Conns
<1>3. Lives /\ Accepts /\ Nets
  BY <1>0 DEF TypeOK
<1>4. ASSUME Lives', Accepts', Nets' PROVE TypeOK'
  BY <1>1, <1>2, <1>4 DEF TypeOK
<1>5. UNCHANGED lifeVars => Lives'
  BY <1>3 DEF lifeVars
<1>6. UNCHANGED acceptVars => Accepts'
  BY <1>3 DEF acceptVars
<1>7. UNCHANGED netVars => Nets'
  BY <1>3 DEF netVars
<1>8. ASSUME NEW c \in Conns, Arrive(c) \/ Disconnect(c) PROVE TypeOK'
  <2>1. Nets'
    BY <1>3, <1>8 DEF Arrive, Disconnect, Places, Ended
  <2> QED
    BY <1>4, <1>5, <1>6, <1>8, <2>1 DEF Arrive, Disconnect
<1>9. ASSUME NEW c \in Conns, Worker(c), ~ConnectionDone(c) PROVE TypeOK'
  <2>1. /\ pc' \in [Conns -> Places]
        /\ UNCHANGED <<acceptVars, lifeVars>>
    BY <1>3, <1>9, WorkerMoves DEF Places, Working, Ended
  <2>2. /\ keep' \in [Conns -> BOOLEAN]
        /\ peer' \in [Conns -> {"up", "down"}]
        /\ reported' \subseteq Conns
    BY <1>3, <1>9
    DEF Worker, Take, HandshakeOk, HandshakeFails, CreateSession, SetTls, SetConnected,
        SetActive, SetState, Interrupted, Report, Serve, LeaveLoop, Send, Finally,
        CloseSockets, FutureDone
  <2> QED
    BY <1>4, <1>5, <1>6, <2>1, <2>2
<1>10. ASSUME NEW c \in Conns, ConnectionDone(c) PROVE TypeOK'
  <2>1. Accepts' /\ Nets'
    BY <1>3, <1>10 DEF ConnectionDone, Untrack, Places, Ended
  <2> QED
    BY <1>4, <1>5, <1>10, <2>1 DEF ConnectionDone
<1>11. CASE AcceptThread
  <2>1. Accepts'
    BY <1>0, <1>3, <1>11
    DEF AcceptThread, AcceptTop, AcceptTimeout, AcceptCheck, AcceptSubmit, AcceptTrack,
        AcceptRegister, Untrack, Accept, AcceptorHolds
  <2>2. Nets'
    BY <1>0, <1>3, <1>11
    DEF AcceptThread, AcceptTop, AcceptTimeout, AcceptCheck, AcceptSubmit, AcceptTrack,
        AcceptRegister, Accept, netVars, Places, Ended
  <2> QED
    BY <1>4, <1>5, <1>11, <2>1, <2>2, AcceptorIdle
<1>12. CASE StartOk \/ StartFails
  <2>1. starts' \in 0..MaxStarts
    BY <1>3, <1>12 DEF StartOk, StartFails
  <2>2. Lives'
    BY <1>3, <1>12, <2>1 DEF StartOk, StartFails
  <2>3. Accepts'
    BY <1>3, <1>12 DEF StartOk, StartFails, acceptVars
  <2> QED
    BY <1>4, <1>7, <1>12, <2>2, <2>3 DEF StartOk, StartFails
<1>13. CASE StopFlag \/ StopJoin \/ StopManager \/ \E s \in Sessions : StopCloseOne(s)
  <2>1. Lives'
    BY <1>3, <1>13 DEF StopFlag, StopJoin, StopManager, StopCloseOne
  <2> QED
    BY <1>4, <1>6, <1>7, <1>13, <2>1 DEF StopFlag, StopJoin, StopManager, StopCloseOne
<1>14. CASE StopCancel
  <2>1. Accepts' /\ Nets' /\ Lives'
    BY <1>3, <1>14 DEF StopCancel, Places, Ended
  <2> QED
    BY <1>4, <2>1
<1>15. CASE StopPool
  <2>1. Nets' /\ Lives'
    BY <1>3, <1>15 DEF StopPool, Places, Ended
  <2> QED
    BY <1>4, <1>6, <1>15, <2>1 DEF StopPool
<1>16. CASE Cleanup \/ TimeFlows \/ UNCHANGED serverVars
  BY <1>4, <1>5, <1>6, <1>7, <1>16 DEF Cleanup, TimeFlows, serverVars
<1> QED
  BY <1>8, <1>9, <1>10, <1>11, <1>12, <1>13, <1>14, <1>15, <1>16 DEF Next, StopThread

LEMMA ServerInitially == Init => ServerInv
<1> SUFFICES ASSUME Init PROVE ServerInv
  OBVIOUS
<1> USE ServerAssumption DEF Init, Conns
<1>1. ManagerInv
  BY ManagerInitially
<1>2. TypeOK
  <2>1. starts \in 0..MaxStarts
    OBVIOUS
  <2>2. OneCleaner /\ ManagerTypeOK
    BY <1>1 DEF ManagerInv, ManagerInit, OneCleaner
  <2>3. held \in Conns \cup {None} /\ active \in [Addresses -> Conns \cup {None}]
    OBVIOUS
  <2>4. /\ pc \in [Conns -> Places] /\ keep \in [Conns -> BOOLEAN]
        /\ peer \in [Conns -> {"up", "down"}]
    BY DEF Places, Ended
  <2> QED
    BY <2>1, <2>2, <2>3, <2>4 DEF TypeOK
<1>3. AcceptorHolds /\ LifeOrder
  BY DEF AcceptorHolds, LifeOrder, ManagerInit
<1>4. SessionPlace
  BY DEF SessionPlace, ManagerInit, Open, OpenStates
<1>5. Tracking
  BY DEF Tracking
<1>6. PlaceForEach
  <2>1. Tracked = {}
    BY DEF Tracked
  <2>2. IsFiniteSet(Tracked) /\ Cardinality(Tracked) = 0
    BY <2>1, FS_EmptySet
  <2>3. \A c \in Conns : pc[c] \notin Pooled
    BY DEF Pooled, Working
  <2> QED
    BY <2>2, <2>3 DEF PlaceForEach
<1> QED
  BY <1>1, <1>2, <1>3, <1>4, <1>5, <1>6 DEF ServerInv

LEMMA ServerInvariant == Spec => []ServerInv
<1>1. ServerInv /\ [Next]_serverVars => ServerInv'
  <2>1. ServerInv /\ [Next]_serverVars => ManagerInv'
    BY ServerStep, ManagerInvInductive DEF ServerInv
  <2> QED
    BY <2>1, TypesKept, AcceptorKept, LifeKept, SessionsKept, TrackingKept, PlacesKept
    DEF ServerInv
<1> QED
  BY <1>1, ServerInitially, PTL DEF Spec

-----------------------------------------------------------------------------
(* Every variable keeps its type, and start() never makes a second cleanup  *)
(* thread (admin_server.py: start, stop).                                   *)
THEOREM ServerTypes == Spec => []TypeOK
<1>1. ServerInv => TypeOK
  BY DEF ServerInv
<1> QED
  BY <1>1, ServerInvariant, PTL

(* However a connection ends, its session does not outlive the worker       *)
(* (admin_server.py: _handle_connection and its finally clause).            *)
THEOREM NoOrphans == Spec => []NoOrphanSession
<1>1. ServerInv => NoOrphanSession
  BY DEF ServerInv, TypeOK, SessionPlace, NoOrphanSession, Open, OpenStates, Places, Working,
     Ended
<1> QED
  BY <1>1, ServerInvariant, PTL

(* Of the worker, the clean-up and stop(), exactly one announces the end of *)
(* a session (session_manager.py: _close_session_internal).                 *)
THEOREM AnnouncedOnce == Spec => []EndAnnouncedOnce
<1>1. ServerInv => EndAnnouncedOnce
  <2> SUFFICES ASSUME ServerInv, NEW c \in Conns
               PROVE  ended[c] = (IF state[c] \in {"closed", "purged"} THEN 1 ELSE 0)
    BY DEF EndAnnouncedOnce
  <2>1. /\ ended[c] = (IF reason[c] = "none" THEN 0 ELSE 1)
        /\ ended[c] = 1 => state[c] \in {"closed", "purged"}
    BY DEF ServerInv, ManagerInv, EndedOnce, Conns
  <2>2. state[c] \in {"closed", "purged"} => reason[c] # "none"
    BY DEF ServerInv, SessionPlace
  <2> QED
    BY <2>1, <2>2
<1> QED
  BY <1>1, ServerInvariant, PTL

(* The pool never holds more than max_connections, and no entry of the      *)
(* tracking table outlives its connection, whichever of the worker's end    *)
(* and add_done_callback comes first (admin_server.py: _accept_loop,        *)
(* _connection_done).                                                       *)
THEOREM CapacityHolds == Spec => []CapacityKept
<1>1. ServerInv => CapacityKept
  <2> SUFFICES ASSUME ServerInv PROVE CapacityKept
    OBVIOUS
  <2>1. ASSUME DistinctAddresses PROVE Cardinality(InFlight) <= MaxConnections
    <3> DEFINE Submitted == IF acceptor = "track" THEN {Addr(held)} ELSE {}
               Occupied == Tracked \cup Submitted
               place == [c \in InFlight |-> Addr(c)]
    <3>1. /\ IsFiniteSet(Tracked) /\ Cardinality(Tracked) \in Nat
          /\ Cardinality(Tracked) + (IF acceptor \in {"submit", "track"} THEN 1 ELSE 0)
                 <= MaxConnections
      BY FS_CardinalityType DEF ServerInv, PlaceForEach
    <3>2. IsFiniteSet(Occupied) /\ Cardinality(Occupied) <= MaxConnections
      <4>1. CASE acceptor = "track"
        <5>1. /\ IsFiniteSet(Tracked \cup {Addr(held)})
              /\ Cardinality(Tracked \cup {Addr(held)}) \in
                     {Cardinality(Tracked), Cardinality(Tracked) + 1}
          BY <3>1, FS_AddElement
        <5>2. Occupied = Tracked \cup {Addr(held)}
          BY <4>1
        <5> QED
          BY <3>1, <4>1, <5>1, <5>2, ServerAssumption
      <4>2. CASE acceptor # "track"
        <5>1. Occupied = Tracked
          BY <4>2
        <5>2. Cardinality(Tracked) <= MaxConnections
          BY <3>1, ServerAssumption
        <5> QED
          BY <3>1, <5>1, <5>2
      <4> QED
        BY <4>1, <4>2
    <3>3. \A c \in InFlight : c \in Conns /\ Addr(c) \in Occupied
      BY <2>1, ServerAssumption
      DEF ServerInv, PlaceForEach, InFlight, Pooled, Tracked, Conns, Addr
    <3>4. place \in Injection(InFlight, Occupied)
      BY <2>1, <3>3 DEF DistinctAddresses, InFlight, Injection, IsInjective
    <3>5. Cardinality(InFlight) <= Cardinality(Occupied) /\ IsFiniteSet(InFlight)
      <4> HIDE DEF place, Occupied
      <4> QED
        BY <3>2, <3>4, FS_Injection
    <3>6. Cardinality(InFlight) \in Nat /\ Cardinality(Occupied) \in Nat
      BY <3>2, <3>5, FS_CardinalityType
    <3> QED
      BY <3>2, <3>5, <3>6, ServerAssumption
  <2>2. ASSUME NEW a \in Addresses, active[a] # None, pc[active[a]] = "gone"
        PROVE  acceptor = "register" /\ held = active[a]
    BY <2>2 DEF ServerInv, Tracking, Pooled, Working
  <2> QED
    BY <2>1, <2>2 DEF CapacityKept, DistinctAddresses
<1> QED
  BY <1>1, ServerInvariant, PTL

(* When stop() has returned nothing of the server is left: no worker, no    *)
(* open session, no tracked connection, no accept or cleanup thread         *)
(* (admin_server.py: stop).                                                 *)
THEOREM StopIsClean == Spec => []CleanStop
<1>1. ServerInv => CleanStop
  <2> SUFFICES ASSUME ServerInv, stopper = "stopped", ~serving
               PROVE  /\ \A c \in Conns : pc[c] \in Ended /\ ~Open(c)
                      /\ \A a \in Addresses : active[a] = None
                      /\ acceptor = "off" /\ (~managing => cleaner = "off")
    BY DEF CleanStop
  <2>1. acceptor = "off" /\ \A c \in Conns : pc[c] \in Ended
    BY DEF ServerInv, LifeOrder
  <2>2. \A c \in Conns : ~Open(c)
    BY <2>1 DEF ServerInv, SessionPlace, Ended, Open, OpenStates
  <2>3. \A a \in Addresses : active[a] = None
    BY <2>1 DEF ServerInv, TypeOK, Tracking, Ended, Pooled, Working
  <2>4. ~managing => cleaner = "off"
    BY DEF ServerInv, TypeOK, OneCleaner, LifeOrder
  <2> QED
    BY <2>1, <2>2, <2>3, <2>4
<1> QED
  BY <1>1, ServerInvariant, PTL

(* The server uses the session manager as its specification allows, so a    *)
(* session of the server, too, only moves forward, ends once and is then    *)
(* purged, whatever the accept thread, the workers and stop() do.           *)
THEOREM ServerImplements == Spec => ImplementsLifecycle
<1>1. Init => ManagerInit
  BY DEF Init
<1>2. Spec => ManagerSpec
  BY <1>1, ServerStep, PTL DEF Spec, ManagerSpec
<1> QED
  BY <1>2, ManagerImplements, PTL
=============================================================================
