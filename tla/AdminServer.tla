----------------------------- MODULE AdminServer -----------------------------
(***************************************************************************)
(* server/admin_server.py: the accept thread, the pool of connection       *)
(* workers and start/stop, over the table of SessionManager.  A connection *)
(* is named like the session its worker creates.  What a request asks for  *)
(* is HTTPHandler's matter; here a response keeps the connection alive   *)
(* or closes it.                                                           *)
(***************************************************************************)
EXTENDS SessionManager, FiniteSets

CONSTANTS
    Addresses,       \* client ip:port pairs
    AddressOf,       \* the address each connection comes from
    MaxConnections,  \* config.max_connections: capacity and pool size
    MaxStarts        \* bound: calls of start()

(* No connection, where the code has Python's None. *)
None == "none"

ASSUME ServerAssumption ==
    /\ None \notin Sessions
    /\ AddressOf \in [Sessions -> Addresses]
    /\ MaxConnections \in Nat \ {0}
    /\ MaxStarts \in Nat

VARIABLES
    serving,     \* _running and not _shutdown_event
    starts,      \* calls of start() so far
    stopper,     \* where the thread in stop() is
    toClose,     \* the sessions stop() has yet to close
    acceptor,    \* where the accept thread is
    held,        \* the connection it holds
    active,      \* _active_connections: address -> connection
    registered,  \* futures whose done-callback is registered
    pc,          \* per connection, where its socket, future and worker are
    keep,        \* per connection, the pending response is keep-alive
    peer,        \* per connection, whether the client's end is still up
    reported     \* connections reported as connection_interrupted

netVars    == <<pc, keep, peer, reported>>
acceptVars == <<acceptor, held, active, registered>>
lifeVars   == <<serving, starts, stopper, toClose>>
serverVars == <<netVars, acceptVars, lifeVars, managerVars>>

Conns   == Sessions
Addr(c) == AddressOf[c]

(* States of a connection: in the backlog, held by the accept thread,       *)
(* queued in the pool; then those a pool thread spends on it.               *)
Working == {"handshake", "shook", "created", "named", "connected", "loop",
            "respond", "finally", "closing", "returned", "callback"}
Ended   == {"none", "backlog", "refused", "gone"}
Places  == Working \cup Ended \cup {"held", "queued"}
Socketless == {"none", "refused", "gone", "returned", "callback"}

Init ==
    /\ ManagerInit
    /\ serving = FALSE
    /\ starts = 0
    /\ stopper = "idle"
    /\ toClose = {}
    /\ acceptor = "off"
    /\ held = None
    /\ active = [a \in Addresses |-> None]
    /\ registered = {}
    /\ pc = [c \in Conns |-> "none"]
    /\ keep = [c \in Conns |-> FALSE]
    /\ peer = [c \in Conns |-> "up"]
    /\ reported = {}

Goto(c, place) == pc' = [pc EXCEPT ![c] = place]
Report(c)      == reported' = reported \cup {c}

-----------------------------------------------------------------------------
(* Clients: a connection may come from an address as soon as no socket of   *)
(* an earlier one from there is open; a client may go away at any time.     *)
Arrive(c) ==
    /\ pc[c] = "none"
    /\ \A d \in Conns \ {c} : Addr(d) = Addr(c) => pc[d] \in Socketless
    /\ serving \/ stopper \in {"join", "close", "pool"}
    /\ Goto(c, "backlog")
    /\ UNCHANGED <<keep, peer, reported, acceptVars, lifeVars, managerVars>>

Disconnect(c) ==
    /\ peer[c] = "up"
    /\ pc[c] \notin Socketless
    /\ peer' = [peer EXCEPT ![c] = "down"]
    /\ UNCHANGED <<pc, keep, reported, acceptVars, lifeVars, managerVars>>

-----------------------------------------------------------------------------
(* The accept thread, _accept_loop. *)
(* Mutant of AcceptTop: the shutdown flag is not looked at. *)
AcceptTopDeaf ==
    /\ acceptor = "top"
    /\ acceptor' = "accept"
    /\ UNCHANGED <<held, active, registered, netVars, lifeVars, managerVars>>

AcceptTop ==
    /\ acceptor = "top"
    /\ acceptor' = IF serving THEN "accept" ELSE "off"
    /\ UNCHANGED <<held, active, registered, netVars, lifeVars, managerVars>>

AcceptTimeout ==
    /\ acceptor = "accept"
    /\ acceptor' = "top"
    /\ UNCHANGED <<held, active, registered, netVars, lifeVars, managerVars>>

Accept(c) ==
    /\ acceptor = "accept"
    /\ pc[c] = "backlog"
    /\ held' = c
    /\ acceptor' = "check"
    /\ Goto(c, "held")
    /\ UNCHANGED <<active, registered, keep, peer, reported, lifeVars, managerVars>>

AtCapacity == Cardinality({a \in Addresses : active[a] # None}) >= MaxConnections

(* Mutant of AcceptCheck: one connection too many. *)
AcceptCheckLate ==
    /\ acceptor = "check"
    /\ IF Cardinality({a \in Addresses : active[a] # None}) > MaxConnections
       THEN acceptor' = "top" /\ held' = None /\ Goto(held, "refused")
       ELSE acceptor' = "submit" /\ UNCHANGED <<held, pc>>
    /\ UNCHANGED <<active, registered, keep, peer, reported,
                   lifeVars, managerVars>>

AcceptCheck ==
    /\ acceptor = "check"
    /\ IF AtCapacity
       THEN acceptor' = "top" /\ held' = None /\ Goto(held, "refused")
       ELSE acceptor' = "submit" /\ UNCHANGED <<held, pc>>
    /\ UNCHANGED <<active, registered, keep, peer, reported,
                   lifeVars, managerVars>>

AcceptSubmit ==
    /\ acceptor = "submit"
    /\ acceptor' = "track"
    /\ Goto(held, "queued")
    /\ UNCHANGED <<held, active, registered, keep, peer, reported,
                   lifeVars, managerVars>>

AcceptTrack ==
    /\ acceptor = "track"
    /\ active' = [active EXCEPT ![Addr(held)] = held]
    /\ acceptor' = "register"
    /\ UNCHANGED <<held, registered, netVars, lifeVars, managerVars>>

(* _connection_done: the entry is found by address. *)
Untrack(c) == active' = [active EXCEPT ![Addr(c)] = None]

(* add_done_callback calls back at once when the future is already done. *)
AcceptRegister ==
    /\ acceptor = "register"
    /\ acceptor' = "top"
    /\ IF pc[held] = "gone"
       THEN Untrack(held) /\ UNCHANGED registered
       ELSE registered' = registered \cup {held} /\ UNCHANGED active
    /\ held' = None
    /\ UNCHANGED <<netVars, lifeVars, managerVars>>

AcceptThread ==
    \/ AcceptTop \/ AcceptTimeout \/ AcceptCheck \/ AcceptSubmit
    \/ AcceptTrack \/ AcceptRegister
    \/ \E c \in Conns : Accept(c)

-----------------------------------------------------------------------------
(* A pool thread in _handle_connection. *)
workerFrame == UNCHANGED <<acceptVars, lifeVars, threadVars>>

Take(c) ==
    /\ pc[c] = "queued"
    /\ Cardinality({d \in Conns : pc[d] \in Working}) < MaxConnections
    /\ Goto(c, "handshake")
    /\ UNCHANGED <<keep, peer, reported, sessionVars>> /\ workerFrame

HandshakeOk(c) ==
    /\ pc[c] = "handshake" /\ peer[c] = "up"
    /\ Goto(c, "shook")
    /\ UNCHANGED <<keep, peer, reported, sessionVars>> /\ workerFrame

(* A time-out, a lost peer or a wrong key all come back as HandshakeError.  *)
HandshakeFails(c) ==
    /\ pc[c] = "handshake"
    /\ Goto(c, "finally")
    /\ UNCHANGED <<keep, peer, reported, sessionVars>> /\ workerFrame

CreateSession(c) ==
    /\ pc[c] = "shook"
    /\ create_session(c)
    /\ Goto(c, "created")
    /\ UNCHANGED <<keep, peer, reported>> /\ workerFrame

(* An exception of the session manager is caught by _handle_connection,     *)
(* which reports the connection as interrupted.                             *)
Interrupted(c) ==
    /\ Goto(c, "finally")
    /\ Report(c)
    /\ UNCHANGED <<keep, peer, sessionVars>> /\ workerFrame

SetTls(c) ==
    /\ pc[c] = "created"
    /\ \/ /\ set_tls_info(c)
          /\ Goto(c, "named")
          /\ UNCHANGED <<keep, peer, reported>> /\ workerFrame
       \/ ~InTable(c) /\ Interrupted(c)

SetState(c, from, new, to) ==
    /\ pc[c] = from
    /\ \/ /\ set_session_state(c, new)
          /\ Goto(c, to)
          /\ UNCHANGED <<keep, peer, reported>> /\ workerFrame
       \/ ~CanSet(c, new) /\ Interrupted(c)

SetConnected(c) == SetState(c, "named", "connected", "connected")
SetActive(c)    == SetState(c, "connected", "active", "loop")

(* One turn of _handle_session: the flag, then handle_request.  A client    *)
(* that is gone, or silent for read_timeout, makes handle_request return a  *)
(* 400, 500 or 503 that closes; nothing asks for the state of the session.  *)
Serve(c) ==
    /\ pc[c] = "loop" /\ serving
    /\ \E alive \in BOOLEAN :
          /\ peer[c] = "down" => ~alive
          /\ keep' = [keep EXCEPT ![c] = alive]
    /\ Goto(c, "respond")
    /\ UNCHANGED <<peer, reported, sessionVars>> /\ workerFrame

LeaveLoop(c) ==
    /\ pc[c] = "loop" /\ ~serving
    /\ Goto(c, "finally")
    /\ UNCHANGED <<keep, peer, reported, sessionVars>> /\ workerFrame

(* sendall: done; a peer gone (SSLError, reset, broken pipe); a time-out,   *)
(* after which the loop goes on if the session is still in the table; or    *)
(* another error, which is reported.                                        *)
Send(c) ==
    /\ pc[c] = "respond"
    /\ \/ /\ Goto(c, IF keep[c] THEN "loop" ELSE "finally")
          /\ UNCHANGED reported
       \/ /\ peer[c] = "down"
          /\ Goto(c, "finally")
          /\ UNCHANGED reported
       \/ /\ Goto(c, IF InTable(c) THEN "loop" ELSE "finally")
          /\ UNCHANGED reported
       \/ /\ Goto(c, "finally")
          /\ Report(c)
    /\ keep' = [keep EXCEPT ![c] = FALSE]
    /\ UNCHANGED <<peer, sessionVars>> /\ workerFrame

(* Mutant of Finally: the session is left as it is. *)
FinallyLeaves(c) ==
    /\ pc[c] = "finally"
    /\ Goto(c, "closing")
    /\ UNCHANGED <<keep, peer, reported, sessionVars>> /\ workerFrame

(* The finally clause: close_session does nothing for a closed or unknown   *)
(* session.                                                                 *)
Finally(c) ==
    /\ pc[c] = "finally"
    /\ close_session(c, "normal")
    /\ Goto(c, "closing")
    /\ UNCHANGED <<keep, peer, reported>> /\ workerFrame

CloseSockets(c) ==
    /\ pc[c] = "closing"
    /\ Goto(c, "returned")
    /\ peer' = [peer EXCEPT ![c] = "down"]
    /\ UNCHANGED <<keep, reported, sessionVars>> /\ workerFrame

(* The future is done: its callbacks, if registered by now, run here. *)
FutureDone(c) ==
    /\ pc[c] = "returned"
    /\ Goto(c, IF c \in registered THEN "callback" ELSE "gone")
    /\ UNCHANGED <<keep, peer, reported, sessionVars>> /\ workerFrame

ConnectionDone(c) ==
    /\ pc[c] = "callback"
    /\ Untrack(c)
    /\ registered' = registered \ {c}
    /\ Goto(c, "gone")
    /\ UNCHANGED <<keep, peer, reported, acceptor, held,
                   lifeVars, managerVars>>

Worker(c) ==
    \/ Take(c) \/ HandshakeOk(c) \/ HandshakeFails(c) \/ CreateSession(c)
    \/ SetTls(c) \/ SetConnected(c) \/ SetActive(c)
    \/ Serve(c) \/ LeaveLoop(c) \/ Send(c)
    \/ Finally(c) \/ CloseSockets(c) \/ FutureDone(c) \/ ConnectionDone(c)

-----------------------------------------------------------------------------
(* start(): the session manager first (a no-op when it runs), then the      *)
(* sockets and the accept thread.  If bind or listen fails, _cleanup resets *)
(* the flag, the pool and the socket only.                                  *)
StartManager == IF managing THEN UNCHANGED managerVars ELSE manager_start

StartOk ==
    /\ ~serving /\ stopper \in {"idle", "stopped"}
    /\ starts < MaxStarts
    /\ starts' = starts + 1
    /\ StartManager
    /\ serving' = TRUE
    /\ stopper' = "idle"
    /\ acceptor' = "top"
    /\ UNCHANGED <<toClose, held, active, registered, netVars>>

StartFails ==
    /\ ~serving /\ stopper \in {"idle", "stopped"}
    /\ starts < MaxStarts
    /\ starts' = starts + 1
    /\ StartManager
    /\ stopper' = "idle"
    /\ UNCHANGED <<serving, toClose, acceptVars, netVars>>

StopFlag ==
    /\ serving /\ stopper = "idle"
    /\ serving' = FALSE
    /\ stopper' = "join"
    /\ UNCHANGED <<starts, toClose, acceptVars, netVars, managerVars>>

(* The accept thread is joined (it looks at the flag every second), then    *)
(* the active sessions are listed.                                          *)
StopJoin ==
    /\ stopper = "join" /\ acceptor = "off"
    /\ toClose' = {s \in Sessions : Open(s)}
    /\ stopper' = "close"
    /\ UNCHANGED <<serving, starts, acceptVars, netVars, managerVars>>

StopCloseOne(s) ==
    /\ stopper = "close" /\ s \in toClose
    /\ close_session(s, "shutdown")
    /\ toClose' = toClose \ {s}
    /\ UNCHANGED <<serving, starts, stopper, acceptVars, netVars, threadVars>>

(* shutdown(cancel_futures=True): queued connections never get a worker. *)
StopCancel ==
    /\ stopper = "close" /\ toClose = {}
    /\ pc' = [c \in Conns |-> IF pc[c] = "queued" THEN "gone" ELSE pc[c]]
    /\ active' = [a \in Addresses |->
                    IF active[a] # None /\ pc[active[a]] = "queued" THEN None ELSE active[a]]
    /\ registered' = {c \in registered : pc[c] # "queued"}
    /\ stopper' = "pool"
    /\ UNCHANGED <<serving, starts, toClose, acceptor, held,
                   keep, peer, reported, managerVars>>

(* Mutant of StopPool: shutdown(wait=False). *)
StopPoolNoWait ==
    /\ stopper = "pool"
    /\ pc' = [c \in Conns |-> IF pc[c] = "backlog" THEN "refused" ELSE pc[c]]
    /\ manager_stop_flag
    /\ stopper' = "manager"
    /\ UNCHANGED <<serving, starts, toClose, acceptVars, keep, peer, reported>>

(* wait=True: until every pool thread has returned.  Then the listening     *)
(* socket is closed, which resets the backlog, and SessionManager.stop().   *)
StopPool ==
    /\ stopper = "pool"
    /\ \A c \in Conns : pc[c] \notin Working
    /\ pc' = [c \in Conns |-> IF pc[c] = "backlog" THEN "refused" ELSE pc[c]]
    /\ manager_stop_flag
    /\ stopper' = "manager"
    /\ UNCHANGED <<serving, starts, toClose, acceptVars, keep, peer, reported>>

StopManager ==
    /\ stopper = "manager"
    /\ manager_stop_close
    /\ stopper' = "stopped"
    /\ UNCHANGED <<serving, starts, toClose, acceptVars, netVars>>

StopThread ==
    \/ StopJoin \/ StopCancel \/ StopPool \/ StopManager
    \/ \E s \in Sessions : StopCloseOne(s)

-----------------------------------------------------------------------------
Cleanup   == CleanupThread /\ UNCHANGED <<netVars, acceptVars, lifeVars>>
TimeFlows == Clock /\ UNCHANGED <<netVars, acceptVars, lifeVars>>

Next ==
    \/ \E c \in Conns : Arrive(c) \/ Disconnect(c) \/ Worker(c)
    \/ AcceptThread
    \/ StartOk \/ StartFails
    \/ StopFlag \/ StopThread
    \/ Cleanup \/ TimeFlows

Spec == Init /\ [][Next]_serverVars

(* Threads are scheduled; every blocking call of a worker has a time-out.   *)
(* Nobody has to connect, or to call start or stop.  AcceptTimeout is fair  *)
(* because accept() waits one second at most.                               *)
Fairness ==
    /\ \A c \in Conns : WF_serverVars(Worker(c))
    /\ WF_serverVars(AcceptThread)
    /\ WF_serverVars(StopThread)
    /\ WF_serverVars(Cleanup)

FairSpec == Spec /\ Fairness

-----------------------------------------------------------------------------
(* Every variable has its type, and the session manager one cleanup thread, *)
(* never two, however start() and stop() follow each other.                 *)
TypeOK ==
    /\ ManagerTypeOK /\ OneCleaner
    /\ serving \in BOOLEAN
    /\ starts \in 0..MaxStarts
    /\ stopper \in {"idle", "join", "close", "pool", "manager", "stopped"}
    /\ toClose \subseteq Sessions
    /\ acceptor \in {"off", "top", "accept", "check", "submit", "track", "register"}
    /\ held \in Conns \cup {None}
    /\ active \in [Addresses -> Conns \cup {None}]
    /\ registered \subseteq Conns
    /\ pc \in [Conns -> Places]
    /\ keep \in [Conns -> BOOLEAN]
    /\ peer \in [Conns -> {"up", "down"}]
    /\ reported \subseteq Conns

(* An open session has a worker that will close it: whatever exception ends *)
(* the connection, no session outlives its worker.                          *)
NoOrphanSession ==
    \A c \in Conns : Open(c) =>
        pc[c] \in {"created", "named", "connected", "loop", "respond", "finally"}

(* In the server, where sessions are closed by worker, clean-up and stop(), *)
(* every end of a session is announced exactly once.                        *)
EndAnnouncedOnce ==
    \A c \in Conns : ended[c] = (IF state[c] \in {"closed", "purged"} THEN 1 ELSE 0)

(* No more connections are in the pool than max_connections, as long as no  *)
(* two of them come from the same address and port; and the tracking table  *)
(* forgets a connection that is gone: an entry left behind by the race of   *)
(* the worker's end with add_done_callback would take a place of the        *)
(* capacity for ever.                                                       *)
InFlight == {c \in Conns : pc[c] \in Working \cup {"queued"}}
CapacityKept ==
    /\ (\A c, d \in Conns : Addr(c) = Addr(d) => c = d) =>
           Cardinality(InFlight) <= MaxConnections
    /\ \A a \in Addresses :
           active[a] # None /\ pc[active[a]] = "gone" =>
               acceptor = "register" /\ held = active[a]

(* When stop() has returned, no connection has a worker, no session is      *)
(* open, the tracking table is empty and no thread of the server is left.   *)
CleanStop ==
    stopper = "stopped" /\ ~serving =>
        /\ \A c \in Conns : pc[c] \in Ended /\ ~Open(c)
        /\ \A a \in Addresses : active[a] = None
        /\ acceptor = "off" /\ (~managing => cleaner = "off")

(* stop() always returns: it waits for the accept thread, the workers and   *)
(* the cleanup thread, and each of them leaves when the flag is cleared.    *)
StopReturns == (stopper = "join") ~> (stopper = "stopped")
=============================================================================
