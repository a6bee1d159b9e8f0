------------------------------ MODULE PhoneWatch ------------------------------
(* Phones that come and go (phone/device_manager.py), the controller that      *)
(* keeps an object and a BIP monitor for each (phone/controller.py), and the    *)
(* monitors' logcat streams (phone/bip_monitor.py).  One event loop: a step is  *)
(* what runs between two awaits; adb looks at the phones at one moment and its  *)
(* answer is used at a later one.  What the objects do for their phones is in   *)
(* PhoneTrigger and ProfileCache; neither of them shares state with the rest.    *)
EXTENDS PhoneTrigger, ProfileCache

CONSTANTS
    Phones,
    Users,      \* tasks that call the controller
    Loops,      \* monitor tasks: bound on the starts
    NoLoop,
    MaxUses,    \* bound: calls in all
    MaxObjects  \* bound: Device objects in all

ASSUME PhoneAssumption == MaxUses \in Nat /\ MaxObjects \in Nat /\ NoLoop \notin Loops

VARIABLES
    attached,    \* phone -> its state for adb
    listed,      \* _devices and _device_states of the manager
    polling,    \* _monitoring, the task in _monitor_task, and those alive
    scan,       \* task -> the answer of adb it waits for
    use,        \* user -> the call in hand
    object,     \* controller: phone -> its Device object, 0 for none
    registered, \* controller: phone -> the object whose monitor is registered
    bip,        \* object -> its BIPMonitor: the flag, the stream, its callbacks
    heard,       \* history: phone -> whether listeners last heard it connect
    misTold,    \* history: one was told twice
    uses        \* calls so far

phoneVars == <<attached, listed, polling, scan, use, object, registered, bip, heard, misTold, uses>>
managerRest == <<attached, polling, use>>

NoUse == [name |-> "none", phone |-> CHOOSE p \in Phones : TRUE, size |-> 0, stopped |-> {}]
Silent == [running |-> FALSE, stream |-> "none", ears |-> 0]
Absent == [p \in Phones |-> "absent"]
NoScan == [is |-> "none", phones |-> Absent]

PhoneInit ==
    /\ attached \in [Phones -> {"absent", "device"}]
    /\ listed = Absent
    /\ polling = [on |-> FALSE, task |-> NoLoop, alive |-> {}, started |-> {}]
    /\ scan = [s \in Loops \cup Users |-> NoScan]
    /\ use = [u \in Users |-> NoUse]
    /\ object = [p \in Phones |-> 0] /\ registered = [p \in Phones |-> 0]
    /\ bip = [g \in 1..MaxObjects |-> Silent]
    /\ heard = [p \in Phones |-> FALSE] /\ misTold = FALSE /\ uses = 0

\* logcat ends or fails: the task of the stream returns, the flag stays up.
StreamEnds(b) == IF b.stream = "on" THEN [b EXCEPT !.stream = "ended"] ELSE b

\* start() of a BIPMonitor, after one more callback was added: one that runs is
\* left as it is.
Started(b, stream) ==
    [running |-> TRUE, ears |-> b.ears + 1, stream |-> IF b.running THEN b.stream ELSE stream]

\* A cable, a prompt answered, a phone that dies: its streams end.
PhoneMoves ==
    /\ \E p \in Phones, state \in {"absent", "unauthorized", "device"} :
         /\ attached[p] # state
         /\ attached' = [attached EXCEPT ![p] = state]
         /\ bip' = [g \in 1..MaxObjects |->
                      IF g \in {object[p], registered[p]} THEN StreamEnds(bip[g]) ELSE bip[g]]
    /\ UNCHANGED <<listed, polling, scan, use, object, registered, heard, misTold, uses>>

-----------------------------------------------------------------------------
(* scan_devices() *)

\* adb devices -l, or an exception that scan_devices() makes an empty answer of.
Answer == {[is |-> "answer", phones |-> attached], [is |-> "failed", phones |-> Absent]}

\* stop() of a BIPMonitor: it ends the task of its stream, and raises what that
\* task has raised.
Stopped(b) == IF b.running THEN [b EXCEPT !.running = FALSE, !.stream = IF @ = "failed" THEN @ ELSE "ended"] ELSE b
StopRaises(b) == b.running /\ b.stream = "failed"

\* Bug: every phone of the answer is announced.
ArrivedAll(answer) == {p \in Phones : answer[p] # "absent"}

\* The difference to what is known when the answer is there: each arrival and
\* departure is announced, a departure drops the object and stops its monitor.
Arrived(answer) == {p \in Phones : answer[p] # "absent" /\ listed[p] = "absent"}
Departed(answer) == {p \in Phones : answer[p] = "absent" /\ listed[p] # "absent"}
Differ(answer) ==
    LET gone == Departed(answer) new == Arrived(answer)
    IN /\ listed' = answer
       /\ heard' = [p \in Phones |-> (heard[p] \/ p \in new) /\ p \notin gone]
       /\ misTold' = (misTold \/ \E p \in Phones : (p \in new /\ heard[p]) \/ (p \in gone /\ ~heard[p]))
       /\ object' = [p \in Phones |-> IF p \in gone THEN 0 ELSE object[p]]
       /\ registered' = [p \in Phones |-> IF p \in gone THEN 0 ELSE registered[p]]
       /\ bip' = [g \in 1..MaxObjects |->
                    IF \E p \in gone : registered[p] = g THEN Stopped(bip[g]) ELSE bip[g]]

Applied(s) ==
    /\ IF scan[s].is = "failed" THEN UNCHANGED <<listed, heard, misTold, object, registered, bip>>
       ELSE Differ(scan[s].phones)
Asks(s) == \E answer \in Answer : scan' = [scan EXCEPT ![s] = answer]
Answered(s) == scan[s] # NoScan /\ scan' = [scan EXCEPT ![s] = NoScan]

\* The monitor task: it sleeps, scans, and ends when the flag is down.
LoopAsks(t) ==
    /\ t \in polling.alive /\ scan[t] = NoScan /\ polling.on
    /\ Asks(t)
    /\ UNCHANGED <<managerRest, listed, object, registered, bip, heard, misTold, uses>>
LoopApplies(t) ==
    /\ t \in polling.alive /\ Answered(t) /\ Applied(t)
    /\ UNCHANGED <<managerRest, uses>>
LoopEnds(t) ==
    /\ t \in polling.alive /\ scan[t] = NoScan /\ ~polling.on
    /\ polling' = [polling EXCEPT !.alive = @ \ {t}]
    /\ UNCHANGED <<attached, listed, scan, use, object, registered, bip, heard, misTold, uses>>

-----------------------------------------------------------------------------
(* Calls *)

Calls(u, name, p) ==
    /\ use[u].name = "none" /\ uses < MaxUses
    /\ uses' = uses + 1
    /\ use' = [use EXCEPT ![u] = [NoUse EXCEPT !.name = name, !.phone = p]]
Returns(u) == use' = [use EXCEPT ![u] = NoUse]
In(u, name) == use[u].name = name

\* start_monitoring(): a first scan, and then the task.
StartPolling(u) ==
    /\ ~polling.on
    /\ Calls(u, "start", NoUse.phone)
    /\ polling' = [polling EXCEPT !.on = TRUE]
    /\ Asks(u)
    /\ UNCHANGED <<attached, listed, object, registered, bip, heard, misTold>>
StartedPolling(u) ==
    /\ In(u, "start") /\ Answered(u) /\ Applied(u) /\ Returns(u)
    /\ \E t \in Loops \ polling.started :
         polling' = [polling EXCEPT !.task = t, !.alive = @ \cup {t}, !.started = @ \cup {t}]
    /\ UNCHANGED <<attached, uses>>

\* stop_monitoring(): the task is cancelled, whatever it waits for, and then
\* the monitors are stopped one by one in a loop over the dictionary.
Registered == {p \in Phones : registered[p] # 0}
StopPolling(u) ==
    /\ use[u].name = "none" /\ uses < MaxUses /\ uses' = uses + 1
    /\ polling' = IF polling.on
                  THEN [polling EXCEPT !.on = FALSE, !.task = NoLoop, !.alive = @ \ {polling.task}] ELSE polling
    /\ scan' = IF polling.on /\ polling.task # NoLoop THEN [scan EXCEPT ![polling.task] = NoScan] ELSE scan
    /\ use' = [use EXCEPT ![u] = [NoUse EXCEPT !.name = "stop", !.size = Cardinality(Registered)]]
    /\ UNCHANGED <<attached, listed, object, registered, bip, heard, misTold>>
StopNext(u) ==
    /\ In(u, "stop") /\ Cardinality(Registered) = use[u].size
    /\ \E p \in Registered \ use[u].stopped :
         LET g == registered[p]
         IN /\ bip' = [bip EXCEPT ![g] = Stopped(@)]
            /\ use' = [use EXCEPT ![u] = IF StopRaises(bip[g]) THEN NoUse ELSE [@ EXCEPT !.stopped = @ \cup {p}]]
    /\ UNCHANGED <<attached, listed, polling, scan, object, registered, heard, misTold, uses>>
\* A dictionary that has changed size meanwhile raises: nothing is cleared.
StopEnds(u) ==
    /\ In(u, "stop")
    /\ \/ Cardinality(Registered) # use[u].size /\ UNCHANGED registered
       \/ /\ Registered \subseteq use[u].stopped /\ Cardinality(Registered) = use[u].size
          /\ registered' = [p \in Phones |-> 0]
    /\ Returns(u)
    /\ UNCHANGED <<attached, listed, polling, scan, object, bip, heard, misTold, uses>>

\* discover_devices(), and the first scan of wait_for_device().
Discover(u, name, p) ==
    /\ Calls(u, name, p) /\ Asks(u)
    /\ UNCHANGED <<attached, listed, polling, object, registered, bip, heard, misTold>>
Discovered(u) ==
    /\ In(u, "discover") /\ Answered(u) /\ Applied(u) /\ Returns(u)
    /\ UNCHANGED <<attached, polling, uses>>

\* wait_for_device(): scans until the phone is ready or the time is up.
WaitLooks(u) ==
    /\ In(u, "wait") /\ Answered(u) /\ Applied(u)
    /\ use' = [use EXCEPT ![u] = IF listed'[use[u].phone] = "device" THEN NoUse ELSE [@ EXCEPT !.name = "sleep"]]
    /\ UNCHANGED <<attached, polling, uses>>
WaitAgain(u) ==
    /\ In(u, "sleep")
    /\ \/ Returns(u) /\ UNCHANGED scan
       \/ Asks(u) /\ use' = [use EXCEPT ![u].name = "wait"]
    /\ UNCHANGED <<attached, listed, polling, object, registered, bip, heard, misTold, uses>>

\* start_bip_monitoring(): a registered monitor is returned as it is; a phone
\* not known is scanned for.
StartBip(u, p) ==
    /\ registered[p] = 0
    /\ Calls(u, IF listed[p] = "absent" THEN "search" ELSE "get", p)
    /\ IF listed[p] = "absent" THEN Asks(u) ELSE UNCHANGED scan
    /\ UNCHANGED <<attached, listed, polling, object, registered, bip, heard, misTold>>
Searched(u) ==
    /\ In(u, "search") /\ Answered(u) /\ Applied(u)
    /\ use' = [use EXCEPT ![u].name = "get"]
    /\ UNCHANGED <<attached, polling, uses>>

\* get_device() and what follows run without an await: the object is made or
\* found, the callback added once more, and the stream's task started.
NewObject == CHOOSE g \in 1..MaxObjects : bip[g] = Silent
GotDevice(u) ==
    /\ In(u, "get")
    /\ LET p == use[u].phone
           g == IF object[p] # 0 THEN object[p] ELSE NewObject
       IN IF listed[p] \in {"absent", "unauthorized"}
          THEN UNCHANGED <<object, registered, bip>>
          ELSE /\ object[p] # 0 \/ \E free \in 1..MaxObjects : bip[free] = Silent
               /\ object' = [object EXCEPT ![p] = g]
               /\ registered' = [registered EXCEPT ![p] = g]
               /\ \E stream \in {"failed"} \cup {s \in {"on"} : attached[p] = "device"} :
                    bip' = [bip EXCEPT ![g] = Started(@, stream)]
    /\ Returns(u)
    /\ UNCHANGED <<attached, listed, polling, scan, heard, misTold, uses>>

\* stop_bip_monitoring(): taken out first, and then stopped.
StopBip(p) ==
    /\ registered[p] # 0 /\ uses < MaxUses /\ uses' = uses + 1
    /\ registered' = [registered EXCEPT ![p] = 0]
    /\ bip' = [bip EXCEPT ![registered[p]] = Stopped(@)]
    /\ UNCHANGED <<attached, listed, polling, scan, use, object, heard, misTold>>

PhoneNext ==
    \/ PhoneMoves
    \/ \E t \in Loops : LoopAsks(t) \/ LoopApplies(t) \/ LoopEnds(t)
    \/ \E u \in Users :
        \/ StartPolling(u) \/ StartedPolling(u) \/ StopPolling(u) \/ StopNext(u) \/ StopEnds(u)
        \/ \E p \in Phones : Discover(u, "wait", p) \/ StartBip(u, p)
        \/ Discover(u, "discover", NoUse.phone) \/ Discovered(u)
        \/ WaitLooks(u) \/ WaitAgain(u) \/ Searched(u) \/ GotDevice(u)
    \/ \E p \in Phones : StopBip(p)

PhoneSpec == PhoneInit /\ [][PhoneNext]_phoneVars

-----------------------------------------------------------------------------
\* However scans overlap, listeners hear of each phone in turn that it came and
\* that it went, and last what the manager knows.
ToldInTurn == ~misTold /\ \A p \in Phones : heard[p] <=> listed[p] # "absent"

\* What the controller keeps is of phones the manager knows: no object and no
\* registered monitor of a phone that has gone (_on_device_disconnected), though
\* both are made after awaits in which it may go.
KeptIsKnown ==
    \A p \in Phones : /\ object[p] # 0 => listed[p] # "absent"
                      /\ registered[p] # 0 => object[p] = registered[p]

PhoneSound == ToldInTurn /\ KeptIsKnown

\* What is known of phones, put into them and kept of them.
PhonesSound == PhoneSound /\ UsedIsDelivered /\ CacheSound
=============================================================================
