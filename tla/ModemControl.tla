----------------------------- MODULE ModemControl -----------------------------
(* The modem controller and what it opens (modem/controller.py, vendors/base.py, *)
(* bip_monitor.py), the network manager (network_manager.py) and the diagnostic   *)
(* port (qxdm_interface.py), as tasks of one event loop.  A step runs from one    *)
(* await to the next.  One port: ports share nothing but the dictionary.           *)
EXTENDS Naturals, Sequences, FiniteSets

CONSTANTS
    Owners,     \* tasks
    MaxUnits,   \* bound: Modem objects
    MaxOrders,  \* bound: calls in all
    MaxLooks    \* bound: looks of wait_for_registration()

ASSUME ControlAssumption == MaxUnits \in Nat /\ MaxOrders \in Nat /\ MaxLooks \in Nat

VARIABLES
    unit,       \* the Modem objects, in the order they were made
    kept,       \* _modems: the number of the object kept for the port, 0 for none
    owner,      \* task -> the call in hand and the object it is about
    crossed,    \* history: two calls were in progress at once
    orders,     \* calls so far
    mobile,     \* external: the modem: registered, its APN, PDP context active
    chat,       \* task -> its call to the network manager
    astray,     \* history: a command timed out, so an answer may be another's
    dm          \* the QXDMInterface and its reader task

controlVars == <<unit, kept, owner, crossed, orders, mobile, chat, astray, dm>>
networkVars == <<mobile, chat, astray>>

NoOwner == [at |-> "idle", of |-> 0, call |-> "none"]
NoChat == [at |-> "idle", call |-> "none", looks |-> 0, seen |-> FALSE, result |-> "none"]

ControlInit ==
    /\ unit = <<>> /\ kept = 0 /\ owner = [o \in Owners |-> NoOwner]
    /\ crossed = FALSE /\ orders = 0
    /\ mobile = [registered |-> FALSE, apn |-> "old", active |-> FALSE]
    /\ chat = [o \in Owners |-> NoChat] /\ astray = FALSE
    /\ dm = [connected |-> FALSE, open |-> FALSE, logging |-> FALSE, reader |-> "none", leaving |-> {}]

-----------------------------------------------------------------------------
(* The controller *)

GoesTo(o, at) == owner' = [owner EXCEPT ![o].at = at]
Idle(o) == owner' = [owner EXCEPT ![o] = NoOwner]
ControlRest == UNCHANGED <<networkVars, dm>>
\* A call begins.
Orders(o) ==
    /\ owner[o] = NoOwner /\ orders < MaxOrders /\ orders' = orders + 1
    /\ crossed' = (crossed \/ \E other \in Owners : owner[other] # NoOwner)
    /\ ControlRest
GoesOn(o, at) == owner[o].at = at /\ UNCHANGED <<orders, crossed>> /\ ControlRest

\* BIPMonitor.start(): it is on already, or the notifications are asked for.
MonitorStarts(o, n, call) ==
    owner' = [owner EXCEPT ![o] =
        IF call # "bip" \/ unit[n].bip THEN NoOwner ELSE [at |-> "enabling", of |-> n, call |-> call]]

\* get_modem(): the object that is kept; or the port is looked for, and opened.
GetModem(o, call) ==
    /\ Orders(o)
    /\ IF kept # 0 /\ unit[kept].connected THEN MonitorStarts(o, kept, call)
       ELSE owner' = [owner EXCEPT ![o] = [at |-> "finding", of |-> 0, call |-> call]]
    /\ UNCHANGED <<unit, kept>>
\* _create_modem_instance() and the first half of connect(): the port opens, or
\* there is no such modem.
OpenPort(o) ==
    /\ GoesOn(o, "finding")
    /\ \/ Idle(o) /\ UNCHANGED unit
       \/ /\ Len(unit) < MaxUnits
          /\ unit' = Append(unit, [open |-> TRUE, connected |-> FALSE, bip |-> FALSE, handlers |-> 0, loop |-> FALSE])
          /\ owner' = [owner EXCEPT ![o].at = "checking", ![o].of = Len(unit) + 1]
    /\ UNCHANGED kept
\* check_alive(), and _initialize(), which ignores what fails.
CheckAlive(o) ==
    /\ GoesOn(o, "checking")
    /\ \/ GoesTo(o, "initializing") /\ UNCHANGED unit
       \/ Idle(o) /\ unit' = [unit EXCEPT ![owner[o].of].open = FALSE]
    /\ UNCHANGED kept
Connected_(o) ==
    /\ GoesOn(o, "initializing")
    /\ unit' = [unit EXCEPT ![owner[o].of].connected = TRUE]
    /\ kept' = owner[o].of
    /\ MonitorStarts(o, owner[o].of, owner[o].call)

\* enable_stk_notifications() has returned, whatever the modem says: the
\* handlers are registered and the URC loop runs.
BipStarts(o) ==
    /\ GoesOn(o, "enabling")
    /\ unit' = [unit EXCEPT ![owner[o].of].bip = TRUE, ![owner[o].of].handlers = @ + 1, ![owner[o].of].loop = TRUE]
    /\ Idle(o)
    /\ UNCHANGED kept

StopBipMonitoring(o) ==
    /\ kept # 0 /\ Orders(o)
    /\ unit' = IF unit[kept].bip THEN [unit EXCEPT ![kept].bip = FALSE, ![kept].handlers = 0] ELSE unit
    /\ UNCHANGED <<kept, owner>>

\* close_modem(): the object is dropped first; disconnect() ends the monitor and
\* the loop, waiting for its end, and closes the port.
StopsMonitor(n) == IF unit[n].bip THEN [unit EXCEPT ![n].bip = FALSE, ![n].handlers = 0] ELSE unit
\* Bug: disconnect() forgets the URC loop.
CloseModemLoops(o) ==
    /\ kept # 0 /\ Orders(o)
    /\ unit' = [StopsMonitor(kept) EXCEPT ![kept].open = FALSE, ![kept].connected = FALSE]
    /\ UNCHANGED owner
    /\ kept' = 0
CloseModem(o) ==
    /\ kept # 0 /\ Orders(o)
    /\ IF unit[kept].loop
       THEN /\ unit' = [StopsMonitor(kept) EXCEPT ![kept].loop = FALSE]
            /\ owner' = [owner EXCEPT ![o] = [at |-> "closing", of |-> kept, call |-> "close"]]
       ELSE /\ unit' = [StopsMonitor(kept) EXCEPT ![kept].open = FALSE, ![kept].connected = FALSE]
            /\ UNCHANGED owner
    /\ kept' = 0
ClosePort(o) ==
    /\ GoesOn(o, "closing")
    /\ unit' = [unit EXCEPT ![owner[o].of].open = FALSE, ![owner[o].of].connected = FALSE]
    /\ Idle(o)
    /\ UNCHANGED kept

ControlNext ==
    \E o \in Owners :
        \/ \E call \in {"get", "bip"} : GetModem(o, call)
        \/ OpenPort(o) \/ CheckAlive(o) \/ Connected_(o)
        \/ BipStarts(o) \/ StopBipMonitoring(o) \/ CloseModem(o) \/ ClosePort(o)

-----------------------------------------------------------------------------
(* The network manager *)

\* What a call has seen of the modem.
Sees(call, m) ==
    CASE call = "wait" -> m.registered
      [] call \in {"apn", "login"} -> m.apn = "new"
      [] call \in {"activate", "is active"} -> m.active
      [] OTHER -> ~m.active
Watching(chats, m) == [o \in Owners |-> [chats[o] EXCEPT !.seen = @ \/ (chats[o].at # "idle" /\ Sees(chats[o].call, m))]]

\* wait_for_registration(), configure_apn() ("login" with a user name), activate_pdp(), deactivate_pdp(),
\* is_pdp_active().
AskNetwork(o, call) ==
    /\ chat[o].at = "idle" /\ orders < MaxOrders /\ orders' = orders + 1
    /\ chat' = Watching([chat EXCEPT ![o] = [NoChat EXCEPT !.call = call, !.at = "first"]], mobile)
    /\ UNCHANGED <<unit, kept, owner, crossed, mobile, astray, dm>>

\* What a command does to the modem.
Obeyed(call) ==
    CASE call \in {"apn", "login"} -> [mobile EXCEPT !.apn = "new"]
      [] call = "activate" -> [mobile EXCEPT !.active = TRUE]
      [] call = "deactivate" -> [mobile EXCEPT !.active = FALSE]
      [] OTHER -> mobile
\* The answer to it: OK when it was obeyed; a query tells what is.
Honest(call) ==
    CASE call = "wait" -> {mobile.registered}
      [] call = "is active" -> {mobile.active}
      [] OTHER -> {TRUE}

\* What the call does with the answer to its command.  CREG? and CEREG? tell of
\* two domains; one that is registered is enough.  The answer to the
\* authentication of an APN is ignored, unless there is none.
Told(o, good) == [chat[o] EXCEPT !.at = "idle", !.result = IF good THEN "yes" ELSE "no"]
LooksOn(o) ==
    IF chat[o].at = "first" THEN [chat[o] EXCEPT !.at = "second"]
    ELSE IF chat[o].looks < MaxLooks THEN [chat[o] EXCEPT !.at = "first", !.looks = @ + 1]
    ELSE Told(o, FALSE)
Proceeds(o, good, lost) ==
    CASE chat[o].call = "wait" /\ ~good -> LooksOn(o)
      [] chat[o].call = "login" /\ chat[o].at = "first" /\ good -> [chat[o] EXCEPT !.at = "second"]
      [] chat[o].call = "login" /\ chat[o].at = "second" -> Told(o, ~lost)
      [] OTHER -> Told(o, good)
\* A command is answered, refused, or its time is up before or after it is
\* obeyed; after that an answer may be another's.
NetworkAnswers(o) ==
    /\ chat[o].at # "idle"
    /\ \E obeyed \in BOOLEAN, heard \in {"honest", "any", "lost"} :
         /\ heard = "any" => astray
         /\ mobile' = IF obeyed /\ chat[o].at = "first" THEN Obeyed(chat[o].call) ELSE mobile
         /\ \E good \in IF heard = "any" THEN BOOLEAN
                        ELSE IF heard = "lost" \/ ~obeyed THEN {FALSE} ELSE Honest(chat[o].call) :
              LET watched == Watching(chat, mobile')
              IN chat' = [watched EXCEPT ![o] = [Proceeds(o, good, heard = "lost") EXCEPT !.seen = watched[o].seen]]
         /\ astray' = (astray \/ heard = "lost")
    /\ UNCHANGED <<unit, kept, owner, crossed, orders, dm>>

NetworkComesAndGoes ==
    /\ \/ mobile' = [mobile EXCEPT !.registered = ~@]
       \/ mobile' = [mobile EXCEPT !.active = FALSE]
    /\ chat' = Watching(chat, mobile')
    /\ UNCHANGED <<unit, kept, owner, crossed, orders, astray, dm>>

NetworkCalls == {"wait", "apn", "login", "activate", "deactivate", "is active"}
NetworkManagerNext ==
    \/ \E o \in Owners : NetworkAnswers(o) \/ \E call \in NetworkCalls : AskNetwork(o, call)
    \/ NetworkComesAndGoes

-----------------------------------------------------------------------------
(* The diagnostic port *)

Diagnoses(o) ==
    /\ o \notin dm.leaving /\ orders < MaxOrders /\ orders' = orders + 1
    /\ crossed' = (crossed \/ dm.leaving # {})
    /\ UNCHANGED <<unit, kept, owner, networkVars>>

ConnectDm(o) ==
    /\ Diagnoses(o) /\ ~dm.connected
    /\ \E opens \in BOOLEAN : dm' = [dm EXCEPT !.connected = opens, !.open = opens]
StartLogging(o) ==
    /\ Diagnoses(o) /\ dm.connected /\ ~dm.logging
    /\ dm' = [dm EXCEPT !.logging = TRUE, !.reader = "runs"]
\* disconnect(): a reader is cancelled and waited for, and the port closed.
DisconnectDm(o) ==
    /\ Diagnoses(o)
    /\ dm' = IF dm.logging THEN [dm EXCEPT !.logging = FALSE, !.leaving = @ \cup {o}]
             ELSE [dm EXCEPT !.connected = FALSE, !.open = FALSE]
DmDisconnected(o) ==
    /\ o \in dm.leaving
    /\ dm' = [dm EXCEPT !.connected = FALSE, !.open = FALSE, !.leaving = @ \ {o}, !.reader = "none"]
    /\ UNCHANGED <<unit, kept, owner, crossed, orders, networkVars>>

DiagnosticNext == \E o \in Owners : ConnectDm(o) \/ StartLogging(o) \/ DisconnectDm(o) \/ DmDisconnected(o)

\* The three side by side.
ControlSpec ==
    ControlInit /\ [][ControlNext \/ NetworkManagerNext \/ DiagnosticNext]_controlVars

-----------------------------------------------------------------------------
\* However calls cross, the object kept for the port is connected.  While no
\* two calls cross, the port is open once at most and by the object that is
\* kept, each BIP event is handled once, and no URC loop outlives its port
\* (ModemController.get_modem, close_modem, BIPMonitor.start).
PortHeldOnce ==
    /\ kept # 0 => unit[kept].connected
    /\ ~crossed =>
        /\ \A n \in DOMAIN unit : unit[n].handlers <= 1 /\ (unit[n].loop => unit[n].open)
        /\ (\A o \in Owners : owner[o] = NoOwner) =>
              \A n \in DOMAIN unit : unit[n].open <=> n = kept

\* What the network manager says is done was so at some moment of the call,
\* whatever the network and the other tasks do, while no command has timed out
\* (NetworkManager).
SaidIsSeen == \A o \in Owners : chat[o].result = "yes" /\ ~astray => chat[o].seen

\* While no two calls cross, the diagnostic port is logged when there is a
\* reader, and only while it is connected (QXDMInterface).
LoggedIsRead ==
    ~crossed /\ dm.leaving = {} =>
        (dm.logging <=> dm.reader = "runs") /\ (dm.logging => dm.open) /\ (dm.connected <=> dm.open)

ControlSound == PortHeldOnce /\ SaidIsSeen /\ LoggedIsRead
=============================================================================
