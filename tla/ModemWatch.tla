----------------------------- MODULE ModemWatch -----------------------------
(***************************************************************************)
(* modem/modem_manager.py: the registry of modems, scan_modems(), and the  *)
(* monitoring loop, on one event loop; start_monitoring() and              *)
(* stop_monitoring() are called in turn.  Ports come and go (external).    *)
(***************************************************************************)
EXTENDS Integers

CONSTANTS
    Ports,
    ModemPorts, \* those whose USB ids list_modem_ports() knows
    NoPort,
    MaxPlugs,   \* bound: times a port is plugged in
    MaxScans    \* bound: scan_modems() calls, with those start_monitoring() makes

ASSUME ModemWatchAssumption ==
    /\ ModemPorts \subseteq Ports /\ NoPort \notin Ports
    /\ MaxPlugs \in Nat /\ MaxScans \in Nat

VARIABLES
    plugged,    \* external: ports there
    plugs,      \* external: times a port was plugged in
    modems,     \* keys of _modems
    known,      \* _known_ports
    monitoring, \* _monitoring
    prober,     \* per coroutine, where it is, the ports it has still to look at, and the one in hand
    current,    \* current_ports of the loop's check
    scans,      \* scans so far
    told,       \* history: what the callbacks last heard of each port
    twice,      \* history: ports announced as connected twice running
    blind       \* history: ports a caller's scan registered beside the running monitor

watchVars == <<plugged, plugs, modems, known, monitoring, prober, current, scans, told, twice, blind>>

\* The monitoring loop, the scan of start_monitoring(), and a caller's scan.
Probers == {"loop", "start", "user"}

Prober(at, todo, port) == [at |-> at, todo |-> todo, port |-> port]
Off == Prober("off", {}, NoPort)
Turns(x, at, todo, port) == prober' = [prober EXCEPT ![x] = Prober(at, todo, port)]

WatchInit ==
    /\ plugged \in SUBSET Ports
    /\ plugs = 0
    /\ modems = {} /\ known = {} /\ monitoring = FALSE
    /\ prober = [x \in Probers |-> Off]
    /\ current = {}
    /\ scans = 0
    /\ told = [p \in Ports |-> "nothing"]
    /\ twice = {} /\ blind = {}

Plug(p) ==
    /\ p \notin plugged /\ plugs < MaxPlugs
    /\ plugged' = plugged \cup {p}
    /\ plugs' = plugs + 1
    /\ UNCHANGED <<modems, known, monitoring, prober, current, scans, told, twice, blind>>

Unplug(p) ==
    /\ p \in plugged
    /\ plugged' = plugged \ {p}
    /\ UNCHANGED <<plugs, modems, known, monitoring, prober, current, scans, told, twice, blind>>

\* scan_modems() lists every port; descriptions name the ones the ids do not.
Scan(x) ==
    /\ prober[x] = Off /\ scans < MaxScans
    /\ x = "start" => ~monitoring
    /\ monitoring' = (monitoring \/ x = "start")
    /\ scans' = scans + 1
    /\ Turns(x, "pick", plugged, NoPort)
    /\ UNCHANGED <<plugged, plugs, modems, known, current, told, twice, blind>>

Pick(x, p) ==
    /\ prober[x].at = "pick" /\ p \in prober[x].todo
    /\ Turns(x, "asking", prober[x].todo \ {p}, p)
    /\ UNCHANGED <<plugged, plugs, modems, known, monitoring, current, scans, told, twice, blind>>

\* _identify_modem: AT is answered, and the profile is asked for; or it is not.
Answers(x) ==
    /\ prober[x].at = "asking"
    /\ \/ prober[x].port \in plugged /\ Turns(x, "profile", prober[x].todo, prober[x].port)
       \/ Turns(x, "pick", prober[x].todo, NoPort)
    /\ UNCHANGED <<plugged, plugs, modems, known, monitoring, current, scans, told, twice, blind>>

Announced(p, what) ==
    /\ told' = [told EXCEPT ![p] = what]
    /\ twice' = IF told[p] = what /\ what = "connected" THEN twice \cup {p} ELSE twice

\* Whatever the profile commands return; the loop tells the callbacks too.
Register(x) ==
    /\ prober[x].at = "profile"
    /\ LET p == prober[x].port
       IN  /\ modems' = modems \cup {p}
           /\ blind' = IF x = "user" /\ monitoring THEN blind \cup {p} ELSE blind \ {p}
           /\ IF x = "loop" THEN Announced(p, "connected") ELSE UNCHANGED <<told, twice>>
    /\ Turns(x, "pick", prober[x].todo, NoPort)
    /\ UNCHANGED <<plugged, plugs, known, monitoring, current, scans>>

(* Mutant: the monitor starts without the ports the scan found. *)
ScannedNoStock(x) ==
    /\ x # "loop" /\ prober[x] = Prober("pick", {}, NoPort)
    /\ prober' = IF x = "start"
                   THEN [prober EXCEPT ![x] = Off, !["loop"] = Prober("sleep", {}, NoPort)]
                   ELSE [prober EXCEPT ![x] = Off]
    /\ UNCHANGED <<plugged, plugs, modems, known, monitoring, current, scans, told, twice, blind>>

\* The scan is over; start_monitoring() takes stock and creates its task.
Scanned(x) ==
    /\ x # "loop" /\ prober[x] = Prober("pick", {}, NoPort)
    /\ IF x = "start"
         THEN /\ known' = modems
              /\ prober' = [prober EXCEPT ![x] = Off, !["loop"] = Prober("sleep", {}, NoPort)]
         ELSE Turns(x, "off", {}, NoPort) /\ UNCHANGED known
    /\ UNCHANGED <<plugged, plugs, modems, monitoring, current, scans, told, twice, blind>>

\* _check_modem_changes after poll_interval.
Check ==
    /\ prober["loop"].at = "sleep"
    /\ current' = plugged \cap ModemPorts
    /\ Turns("loop", "pick", current' \ known, NoPort)
    /\ UNCHANGED <<plugged, plugs, modems, known, monitoring, scans, told, twice, blind>>

NewDone ==
    /\ prober["loop"] = Prober("pick", {}, NoPort)
    /\ Turns("loop", "removing", known \ current, NoPort)
    /\ UNCHANGED <<plugged, plugs, modems, known, monitoring, current, scans, told, twice, blind>>

Forget(p) ==
    /\ prober["loop"].at = "removing" /\ p \in prober["loop"].todo
    /\ Turns("loop", "removing", prober["loop"].todo \ {p}, NoPort)
    /\ blind' = blind \ {p}
    /\ IF p \in modems
         THEN modems' = modems \ {p} /\ Announced(p, "disconnected")
         ELSE UNCHANGED <<modems, told, twice>>
    /\ UNCHANGED <<plugged, plugs, known, monitoring, current, scans>>

(* Mutant: a check forgets to note the ports it saw. *)
CheckedBlind ==
    /\ prober["loop"] = Prober("removing", {}, NoPort)
    /\ known' = known \cap current
    /\ Turns("loop", "sleep", {}, NoPort)
    /\ UNCHANGED <<plugged, plugs, modems, monitoring, current, scans, told, twice, blind>>

Checked ==
    /\ prober["loop"] = Prober("removing", {}, NoPort)
    /\ known' = current
    /\ Turns("loop", "sleep", {}, NoPort)
    /\ UNCHANGED <<plugged, plugs, modems, monitoring, current, scans, told, twice, blind>>

\* stop_monitoring() after start_monitoring(): the task is cancelled at its await.
Stop ==
    /\ monitoring /\ prober["start"] = Off
    /\ monitoring' = FALSE
    /\ Turns("loop", "off", {}, NoPort)
    /\ UNCHANGED <<plugged, plugs, modems, known, current, scans, told, twice, blind>>

Loop == Check \/ NewDone \/ Checked \/ \E p \in Ports : Forget(p)

Probing(x) == Answers(x) \/ Register(x) \/ Scanned(x) \/ \E p \in Ports : Pick(x, p)

WatchNext ==
    \/ Loop \/ Stop
    \/ \E x \in Probers : Probing(x)
    \/ \E x \in {"start", "user"} : Scan(x)
    \/ \E p \in Ports : Plug(p) \/ Unplug(p)

WatchSpec == WatchInit /\ [][WatchNext]_watchVars

\* The event loop runs the monitoring task, and poll_interval passes.
WatchFairness == WF_watchVars(Loop \/ Probing("loop")) /\ WF_watchVars(Probing("start"))

-----------------------------------------------------------------------------
(* Every variable has its type. *)
WatchTypeOK ==
    /\ plugged \subseteq Ports /\ plugs \in 0..MaxPlugs
    /\ modems \subseteq Ports /\ known \subseteq Ports /\ current \subseteq ModemPorts
    /\ monitoring \in BOOLEAN /\ scans \in 0..MaxScans
    /\ \A x \in Probers :
           prober[x] \in [at : {"off", "sleep", "pick", "asking", "profile", "removing"},
                          todo : SUBSET Ports, port : Ports \cup {NoPort}]
    /\ told \in [Ports -> {"nothing", "connected", "disconnected"}]
    /\ twice \subseteq Ports /\ blind \subseteq Ports

(* Between two "connected" callbacks for a port there is a "disconnected"    *)
(* one, whatever scans, stops and starts come between.                       *)
ConnectedOnce == WatchTypeOK /\ twice = {}

(* While the monitor runs, a modem that goes for good leaves the registry    *)
(* and cannot be had any more - unless the last to register it was a scan    *)
(* beside the monitor, whose find the monitor may never know of.             *)
GoneForgotten ==
    \A p \in Ports :
        p \in modems \ (plugged \cup blind) /\ monitoring ~>
            p \notin modems \/ p \in plugged \cup blind \/ ~monitoring
=============================================================================
