------------------------------ MODULE Dashboard ------------------------------
(* The dashboard server: sessions and APDUs it shows, fed by events of the   *)
(* admin server and by its HTTP interface; websocket clients that are told   *)
(* of every change; the checker of idle sessions; the simulator it connects  *)
(* to.  One event loop: a handler runs until it awaits a client, and the     *)
(* lock of the state is never held across an await.                          *)
EXTENDS Naturals, Sequences, FiniteSets, SequencesExt, FiniteSetsExt

CONSTANTS
    Identities,     \* PSK identities of the cards
    Listeners,      \* websocket clients
    Requests,       \* HTTP requests that connect or disconnect the simulator; a connect
                    \* makes a simulator manager of the same name
    NoSimulator,
    MaxShown,       \* bound on the sessions made
    MaxShownApdus,  \* bound on the APDUs of a session
    MaxMessages,    \* bound on the messages broadcast
    MaxInbox        \* bound on the events handed over and not handled

ASSUME DashboardAssumption ==
    {MaxShown, MaxShownApdus, MaxMessages, MaxInbox} \subseteq Nat /\ NoSimulator \notin Requests

Shown == 1..MaxShown

VARIABLES
    running,    \* the loop runs and the admin server's events are subscribed
    inbox,      \* events handed to the loop by the emitter's thread
    introduced, \* history: identities with a handshake handed over and no deletion since
    lost,       \* history: an APDU event of such an identity found no session
    shown,      \* per session: [psk, byApi, stale, apdus, count], None, or Gone
    clients,    \* connected clients, in the order they joined
    joined,     \* history: per client, the messages broadcast before it joined
    heard,      \* history: per client, the messages written to it
    messages,   \* messages broadcast so far
    sending,    \* broadcasts that wait for a client: [message, todo]
    checker,    \* sessions the idle checker is going to delete, the message it waits for
    spoilt,     \* history: sessions used while the checker was about to delete them
    killed,     \* history: sessions the checker deleted although they had been used
    simulator,  \* the manager the dashboard holds
    link,       \* per manager: "new", "connecting", "connected", "closed"
    overlapped  \* history: a connect began while another was connecting or closing

bookVars == <<inbox, introduced, lost, shown, spoilt, killed>>
clientVars == <<clients, joined, heard, messages, sending>>
simulatorVars == <<simulator, link, overlapped>>
dashboardVars == <<running, bookVars, clientVars, checker, simulatorVars>>

NotYet == MaxMessages + 1
None == [psk |-> "none"]
Gone == [psk |-> "gone"]
Live(s) == shown[s] \notin {None, Gone}
LiveSessions == {s \in Shown : Live(s)}

(***************************************************************************)
(* Broadcasts                                                               *)
(***************************************************************************)

Told(c, message) == heard' = [heard EXCEPT ![c] = Append(@, message)]

\* The first client is written to before the first await; the others one by one after it.
Broadcast ==
    /\ messages < MaxMessages
    /\ messages' = messages + 1
    /\ IF clients = <<>> THEN UNCHANGED <<heard, sending>>
       ELSE /\ Told(Head(clients), messages + 1)
            /\ sending' = sending \cup {[message |-> messages + 1, todo |-> Tail(clients)]}
    /\ UNCHANGED <<clients, joined>>

Quiet == UNCHANGED <<clients, joined, heard, messages, sending>>

\* A client that has gone is tried all the same, and its error swallowed.
Send ==
    \E b \in sending :
        /\ IF b.todo # <<>>
           THEN /\ IF Head(b.todo) \in ToSet(clients) THEN Told(Head(b.todo), b.message)
                   ELSE UNCHANGED heard
                /\ sending' = (sending \ {b}) \cup {[b EXCEPT !.todo = Tail(@)]}
           ELSE sending' = sending \ {b} /\ UNCHANGED heard
        /\ UNCHANGED <<running, bookVars, clients, joined, messages, checker, simulatorVars>>

Join(c) ==
    /\ joined[c] = NotYet
    /\ clients' = Append(clients, c)
    /\ joined' = [joined EXCEPT ![c] = messages]
    /\ UNCHANGED <<running, bookVars, heard, messages, sending, checker, simulatorVars>>

\* Mutant of Leave: the walks over the dictionary of clients break.
LeaveBreaks(c) ==
    /\ \E i \in DOMAIN clients : clients[i] = c /\ clients' = RemoveAt(clients, i)
    /\ sending' = {}
    /\ UNCHANGED <<running, bookVars, joined, heard, messages, checker, simulatorVars>>

Leave(c) ==
    /\ \E i \in DOMAIN clients : clients[i] = c /\ clients' = RemoveAt(clients, i)
    /\ UNCHANGED <<running, bookVars, joined, heard, messages, sending, checker, simulatorVars>>

(***************************************************************************)
(* The state shown                                                          *)
(***************************************************************************)

Made(psk, byApi) ==
    [psk |-> psk, byApi |-> byApi, stale |-> FALSE, apdus |-> 0, count |-> 0]

NextId == {s \in Shown : shown[s] = None /\ \A t \in 1..(s - 1) : shown[t] # None}

\* get_session_by_psk_identity: the first one made.
Of(psk) == LET own == {s \in LiveSessions : shown[s].psk = psk}
           IN IF own = {} THEN {} ELSE {Min(own)}

Touched(s) == spoilt' = IF s \in checker.todo THEN spoilt \cup {s} ELSE spoilt

AddApdu(s) ==
    /\ shown[s].apdus < MaxShownApdus
    /\ shown' = [shown EXCEPT ![s].apdus = @ + 1, ![s].count = shown[s].apdus + 1,
                              ![s].stale = FALSE]
    /\ Touched(s)
    /\ Broadcast

(***************************************************************************)
(* Events of the admin server                                               *)
(***************************************************************************)

\* The callbacks run on the emitter's thread and schedule a handler, in order; events
\* before start() are dropped.
Emit ==
    /\ Len(inbox) < MaxInbox
    /\ \E kind \in {"handshake", "apdu", "updated"}, psk \in Identities :
        /\ inbox' = IF running THEN Append(inbox, [kind |-> kind, psk |-> psk,
                                                  known |-> psk \in introduced]) ELSE inbox
        /\ introduced' = IF running /\ kind = "handshake" THEN introduced \cup {psk} ELSE introduced
    /\ UNCHANGED <<running, lost, shown, spoilt, killed, clientVars, checker, simulatorVars>>

\* A card that comes back gets the session it had.
HandleHandshake(psk) ==
    IF Of(psk) # {}
    THEN \E s \in Of(psk) :
            /\ shown' = [shown EXCEPT ![s].stale = FALSE]
            /\ Touched(s) /\ Broadcast
    ELSE \E s \in NextId :
            /\ shown' = [shown EXCEPT ![s] = Made(psk, FALSE)]
            /\ Broadcast /\ UNCHANGED spoilt

\* An APDU of a card that has no session is not recorded.
HandleApdu(psk) ==
    IF Of(psk) = {} THEN Quiet /\ UNCHANGED <<shown, spoilt>>
    ELSE \E s \in Of(psk) : AddApdu(s)

HandleUpdated(psk) ==
    IF Of(psk) = {} THEN Quiet /\ UNCHANGED <<shown, spoilt>>
    ELSE \E s \in Of(psk) :
            /\ shown' = [shown EXCEPT ![s].stale = FALSE]
            /\ Touched(s) /\ Broadcast

HandleEvent(e) ==
    /\ \/ e.kind = "handshake" /\ HandleHandshake(e.psk)
       \/ e.kind = "apdu" /\ HandleApdu(e.psk)
       \/ e.kind = "updated" /\ HandleUpdated(e.psk)
    /\ lost' = (lost \/ (e.kind = "apdu" /\ e.known /\ e.psk \in introduced /\ Of(e.psk) = {}))
    /\ UNCHANGED <<running, introduced, killed, checker, simulatorVars>>

\* Mutant of Handle: the newest event is handled first.
HandleNewest ==
    /\ inbox # <<>>
    /\ HandleEvent(Last(inbox))
    /\ inbox' = Front(inbox)

Handle ==
    /\ inbox # <<>>
    /\ HandleEvent(Head(inbox))
    /\ inbox' = Tail(inbox)

(***************************************************************************)
(* HTTP requests                                                            *)
(***************************************************************************)

ApiFrame == UNCHANGED <<running, checker, simulatorVars>>

PostSession ==
    /\ \E psk \in Identities, s \in NextId : shown' = [shown EXCEPT ![s] = Made(psk, TRUE)]
    /\ Broadcast
    /\ UNCHANGED <<inbox, introduced, lost, spoilt, killed>> /\ ApiFrame

\* The fields patched are those that only describe the card.
PatchSession(s) ==
    /\ Live(s)
    /\ shown' = [shown EXCEPT ![s].stale = FALSE]
    /\ Touched(s) /\ Broadcast
    /\ UNCHANGED <<inbox, introduced, lost, killed>> /\ ApiFrame

Forgets(s) ==
    /\ introduced' = IF Live(s) THEN introduced \ {shown[s].psk} ELSE introduced
    /\ inbox' = [n \in DOMAIN inbox |-> [inbox[n] EXCEPT !.known = @ /\ inbox[n].psk \in introduced']]
    /\ shown' = [shown EXCEPT ![s] = Gone]

RemoveSession(s) ==
    /\ Live(s)
    /\ Forgets(s) /\ Broadcast
    /\ UNCHANGED <<lost, spoilt, killed>> /\ ApiFrame

\* Nothing is queued for the card: the admin server has no attribute _handler.
PostApdu(s) ==
    /\ Live(s)
    /\ AddApdu(s)
    /\ UNCHANGED <<inbox, introduced, lost, killed>> /\ ApiFrame

\* Clearing is no use of the session: updated_at stays.
ClearApdus(s) ==
    /\ Live(s)
    /\ shown' = [shown EXCEPT ![s].apdus = 0, ![s].count = 0]
    /\ UNCHANGED <<inbox, introduced, lost, spoilt, killed, clientVars>> /\ ApiFrame

(***************************************************************************)
(* The idle checker                                                         *)
(***************************************************************************)

BecomesIdle(s) ==
    /\ Live(s) /\ ~shown[s].stale
    /\ shown' = [shown EXCEPT ![s].stale = TRUE]
    /\ UNCHANGED <<running, inbox, introduced, lost, spoilt, killed, clientVars, checker,
                   simulatorVars>>

\* The sessions go in the order they were made: one is deleted, and the checker waits until
\* every client has been told.
Reap(todo) ==
    LET s == Min(todo) IN
    /\ Forgets(s) /\ Broadcast
    /\ killed' = IF Live(s) /\ ~shown[s].stale THEN killed \cup {s} ELSE killed
    /\ checker' = [todo |-> todo \ {s}, waits |-> messages + 1]
    /\ UNCHANGED <<running, lost, simulatorVars>>

Stale(s) == Live(s) /\ shown[s].stale

\* Mutant of Found: the age of the session is taken for its idle time.
FoundByAge == LiveSessions

\* The sessions idle for too long.
Found == {s \in Shown : Stale(s)}

CheckerLooks ==
    /\ running /\ checker.todo = {} /\ Found # {}
    /\ ~\E b \in sending : b.message = checker.waits
    /\ UNCHANGED spoilt
    /\ Reap(Found)

CheckerNext ==
    /\ checker.todo # {}
    /\ ~\E b \in sending : b.message = checker.waits
    /\ UNCHANGED spoilt
    /\ Reap(checker.todo)

(***************************************************************************)
(* The simulator                                                            *)
(***************************************************************************)

SimulatorFrame == UNCHANGED <<running, bookVars, checker>>

Connected(r) == link[r] = "connected"

\* A held manager that is not connected yet does not refuse a second connect.
ConnectBegins(r) ==
    /\ link[r] = "new"
    /\ simulator # NoSimulator => ~Connected(simulator)
    /\ overlapped' = (overlapped \/ \E q \in Requests : link[q] \in {"connecting", "closing"})
    /\ simulator' = r
    /\ link' = [link EXCEPT ![r] = "connecting"]
    /\ Quiet /\ SimulatorFrame

ConnectSucceeds(r) ==
    /\ link[r] = "connecting"
    /\ link' = [link EXCEPT ![r] = "connected"]
    /\ Broadcast
    /\ UNCHANGED <<simulator, overlapped>> /\ SimulatorFrame

\* Whatever is held by now is let go.
ConnectFails(r) ==
    /\ link[r] = "connecting"
    /\ link' = [link EXCEPT ![r] = "closed"]
    /\ simulator' = NoSimulator
    /\ UNCHANGED overlapped
    /\ Quiet /\ SimulatorFrame

DisconnectBegins ==
    /\ simulator # NoSimulator /\ link[simulator] \notin {"closing"}
    /\ link' = [link EXCEPT ![simulator] = "closing"]
    /\ overlapped' = (overlapped \/ \E q \in Requests : link[q] \in {"connecting", "closing"})
    /\ UNCHANGED simulator
    /\ Quiet /\ SimulatorFrame

DisconnectEnds(r) ==
    /\ link[r] = "closing"
    /\ \/ /\ link' = [link EXCEPT ![r] = "closed"]
          /\ simulator' = NoSimulator
          /\ Broadcast
       \/ link' = [link EXCEPT ![r] = "connected"] /\ Quiet /\ UNCHANGED simulator
    /\ UNCHANGED overlapped /\ SimulatorFrame

\* A cell started or stopped, a message sent through the simulator held: its success is told.
CommandSimulator ==
    /\ simulator # NoSimulator /\ Connected(simulator)
    /\ Broadcast
    /\ UNCHANGED simulatorVars /\ SimulatorFrame

\* Every manager made stays subscribed to, held or not.
SimulatorEvent ==
    /\ \E r \in Requests : link[r] \notin {"new", "closed"}
    /\ Broadcast
    /\ UNCHANGED simulatorVars /\ SimulatorFrame

StartDashboard ==
    /\ ~running /\ running' = TRUE
    /\ UNCHANGED <<bookVars, clientVars, checker, simulatorVars>>

DashboardInit ==
    /\ running = FALSE
    /\ inbox = <<>> /\ introduced = {} /\ lost = FALSE
    /\ shown = [s \in Shown |-> None] /\ spoilt = {} /\ killed = {}
    /\ clients = <<>> /\ joined = [c \in Listeners |-> NotYet] /\ heard = [c \in Listeners |-> <<>>]
    /\ messages = 0 /\ sending = {}
    /\ checker = [todo |-> {}, waits |-> 0]
    /\ simulator = NoSimulator /\ link = [r \in Requests |-> "new"] /\ overlapped = FALSE

ClientsNext(some) == Send \/ \E c \in some : Join(c) \/ Leave(c)

CardsNext ==
    \/ StartDashboard \/ Emit \/ Handle
    \/ PostSession
    \/ \E s \in Shown :
        PatchSession(s) \/ RemoveSession(s) \/ PostApdu(s) \/ ClearApdus(s) \/ BecomesIdle(s)
    \/ CheckerLooks \/ CheckerNext

SimulatorNext ==
    \/ \E r \in Requests :
        ConnectBegins(r) \/ ConnectSucceeds(r) \/ ConnectFails(r) \/ DisconnectEnds(r)
    \/ DisconnectBegins \/ CommandSimulator \/ SimulatorEvent

DashboardNext == CardsNext \/ SimulatorNext \/ ClientsNext(Listeners)
DashboardSpec == DashboardInit /\ [][DashboardNext]_dashboardVars

(***************************************************************************)
(* Properties                                                               *)
(***************************************************************************)

DashboardTypeOK ==
    /\ running \in BOOLEAN /\ lost \in BOOLEAN /\ overlapped \in BOOLEAN
    /\ messages \in 0..MaxMessages /\ simulator \in Requests \cup {NoSimulator}
    /\ ToSet(clients) \subseteq Listeners /\ introduced \subseteq Identities
    /\ \A s \in LiveSessions :
        shown[s].psk \in Identities /\ shown[s].apdus \in 0..MaxShownApdus

\* Handlers scheduled from the emitter's thread keep the order of the events: a card has
\* one session of its handshakes' making, however often it comes back, and no APDU that
\* follows its handshake goes unrecorded unless the session was deleted; the count shown
\* is that of the entries (_subscribe_to_admin_events, DashboardState).
CardsShown ==
    /\ ~lost
    /\ \A psk \in Identities :
        Cardinality({s \in LiveSessions : shown[s].psk = psk /\ ~shown[s].byApi}) <= 1
    /\ \A s \in LiveSessions : shown[s].count = shown[s].apdus

\* A client hears every message broadcast while it is connected, once, although
\* broadcasts overlap at each client and others come and go meanwhile (_broadcast).
HeardOnce ==
    \A c \in Listeners :
        LET underway == {b.message : b \in {d \in sending : c \in ToSet(d.todo)}} IN
        /\ Cardinality(ToSet(heard[c])) = Len(heard[c])
        /\ ToSet(heard[c]) \cap underway = {}
        /\ c \in ToSet(clients) => (joined[c] + 1)..messages = ToSet(heard[c]) \cup underway

\* The checker deletes no session that was used, except one used while the checker was
\* telling the clients of an earlier one (_run_session_timeout_checker).
IdleDeleted == killed \subseteq spoilt

\* While no two requests for the simulator overlap, the dashboard holds every simulator
\* that is connected; when they do, one is left connected and held by nobody
\* (_connect_simulator, _disconnect_simulator).
SimulatorHeld == ~overlapped => \A r \in Requests : Connected(r) => simulator = r

DashboardSound == DashboardTypeOK /\ CardsShown /\ HeardOnce /\ IdleDeleted /\ SimulatorHeld
=============================================================================
