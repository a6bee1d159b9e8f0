----------------------------- MODULE ModemProofs -----------------------------
(* Proofs about MCModem: the registry of modems and its monitor, the modem    *)
(* controller with the network manager and the diagnostic port, the AT link,  *)
(* and the phones with their triggers and profiles, for any number of ports,  *)
(* phones, tasks and calls.                                                   *)
EXTENDS ModemWatch, ModemControl, ModemLink, PhoneWatch, SequenceFacts

-----------------------------------------------------------------------------
(* The registry of modems and its monitor                                     *)

ProberTypes == [at : {"off", "sleep", "pick", "asking", "profile", "removing"},
                todo : SUBSET Ports, port : Ports \cup {NoPort}]

(* A port in the hands of a coroutine is a port.                              *)
ProbersInv ==
    /\ prober \in [Probers -> ProberTypes]
    /\ \A x \in Probers : prober[x].at \in {"asking", "profile"} => prober[x].port \in Ports

(* Where the loop stands says which ports it will still announce: while it    *)
(* goes through the new ones none of those is announced; while it goes        *)
(* through those that have gone, all announced ports are there or still to be *)
(* looked at; when it sleeps it knows them.                                   *)
LoopKnows(l, announceds) ==
    /\ l.at = "sleep" => announceds \subseteq known
    /\ l.at \in {"pick", "asking", "profile"} =>
        /\ announceds \subseteq known \cup current
        /\ l.todo \subseteq current
        /\ announceds \cap l.todo = {}
    /\ l.at \in {"asking", "profile"} =>
        l.port \in current /\ l.port \notin announceds /\ l.port \notin l.todo
    /\ l.at = "removing" => announceds \subseteq current \cup l.todo

(* The ports whose last announcement was that they are connected: they are    *)
(* registered.                                                                *)
Announceds == {p \in Ports : told[p] = "connected"}
AnnouncedInv ==
    twice = {} /\ Announceds \subseteq modems /\ LoopKnows(prober["loop"], Announceds)

WatchInv == WatchTypeOK /\ ProbersInv /\ AnnouncedInv

LEMMA WatchInvInit == WatchInit => WatchInv
<1> SUFFICES ASSUME WatchInit PROVE WatchInv
  OBVIOUS
<1>1. Off \in ProberTypes /\ Off.at = "off" /\ prober = [x \in Probers |-> Off]
  BY DEF WatchInit, Off, Prober, ProberTypes
<1>2. ProbersInv /\ \A x \in Probers : prober[x] \in ProberTypes
  BY <1>1 DEF ProbersInv
<1>3. /\ plugged \subseteq Ports /\ plugs = 0 /\ scans = 0 /\ modems = {} /\ known = {}
      /\ current = {} /\ monitoring = FALSE /\ twice = {} /\ blind = {}
      /\ told = [p \in Ports |-> "nothing"]
  BY DEF WatchInit
<1>4. plugs \in 0..MaxPlugs /\ scans \in 0..MaxScans
  BY <1>3, ModemWatchAssumption
<1>5. told \in [Ports -> {"nothing", "connected", "disconnected"}] /\ Announceds = {}
  BY <1>3 DEF Announceds
<1>6. WatchTypeOK
  BY <1>2, <1>3, <1>4, <1>5 DEF WatchTypeOK, ProberTypes
<1>7. "loop" \in Probers
  BY DEF Probers
<1> QED
  BY <1>1, <1>2, <1>3, <1>5, <1>6, <1>7 DEF WatchInv, AnnouncedInv, LoopKnows

(* The steps a coroutine takes from one await to the next.                    *)
LEMMA TurnsFacts ==
  ASSUME ProbersInv, NEW x \in Probers,
         NEW at \in {"off", "sleep", "pick", "asking", "profile", "removing"},
         NEW todo \in SUBSET Ports, NEW port \in Ports \cup {NoPort},
         at \in {"asking", "profile"} => port \in Ports,
         Turns(x, at, todo, port)
  PROVE  /\ ProbersInv'
         /\ prober'[x].at = at /\ prober'[x].todo = todo /\ prober'[x].port = port
         /\ \A y \in Probers : y # x => prober'[y] = prober[y]
<1>1. Prober(at, todo, port) \in ProberTypes
  BY DEF Prober, ProberTypes
<1>2. prober' = [prober EXCEPT ![x] = Prober(at, todo, port)]
  BY DEF Turns
<1>3. prober \in [Probers -> ProberTypes]
  BY DEF ProbersInv
<1>4. /\ prober' \in [Probers -> ProberTypes] /\ prober'[x] = Prober(at, todo, port)
      /\ \A y \in Probers : y # x => prober'[y] = prober[y]
  BY <1>1, <1>2, <1>3
<1>5. /\ Prober(at, todo, port).at = at /\ Prober(at, todo, port).todo = todo
      /\ Prober(at, todo, port).port = port
  BY DEF Prober
<1> QED
  BY <1>4, <1>5 DEF ProbersInv
(* What keeps the loop, the registry's announcements and what it knows as     *)
(* they are, and forgets no modem, keeps the invariant.                       *)
LEMMA LoopUndisturbed ==
  ASSUME WatchInv, UNCHANGED <<told, twice, known, current>>,
         modems \subseteq modems', prober'["loop"] = prober["loop"]
  PROVE  AnnouncedInv'
<1>1. Announceds' = Announceds
  BY DEF Announceds
<1> QED
  BY <1>1 DEF WatchInv, AnnouncedInv, LoopKnows

LEMMA WatchInvStep == WatchInv /\ [WatchNext]_watchVars => WatchInv'
<1> SUFFICES ASSUME WatchInv, [WatchNext]_watchVars PROVE WatchInv'
  OBVIOUS
<1> USE ModemWatchAssumption
<1>a. /\ "loop" \in Probers /\ "start" \in Probers /\ "user" \in Probers
      /\ ProbersInv /\ AnnouncedInv /\ Announceds \subseteq Ports
  BY DEF Probers, WatchInv, Announceds
<1>b. /\ plugged \subseteq Ports /\ plugs \in 0..MaxPlugs
      /\ modems \subseteq Ports /\ known \subseteq Ports /\ current \subseteq ModemPorts
      /\ current \subseteq Ports
      /\ monitoring \in BOOLEAN /\ scans \in 0..MaxScans
      /\ told \in [Ports -> {"nothing", "connected", "disconnected"}]
      /\ twice \subseteq Ports /\ blind \subseteq Ports
  BY DEF WatchInv, WatchTypeOK
<1>c. \A x \in Probers : /\ prober[x] \in ProberTypes
                         /\ prober[x].at \in {"off", "sleep", "pick", "asking", "profile", "removing"}
                         /\ prober[x].todo \in SUBSET Ports
                         /\ prober[x].port \in Ports \cup {NoPort}
                         /\ prober[x].at \in {"asking", "profile"} => prober[x].port \in Ports
  BY <1>a DEF ProbersInv, ProberTypes
<1>d. ASSUME ProbersInv' PROVE \A x \in Probers : prober'[x] \in ProberTypes
  BY <1>d DEF ProbersInv
<1>e. ASSUME ProbersInv', AnnouncedInv',
             plugged' \subseteq Ports, plugs' \in 0..MaxPlugs,
             modems' \subseteq Ports, known' \subseteq Ports, current' \subseteq ModemPorts,
             monitoring' \in BOOLEAN, scans' \in 0..MaxScans,
             told' \in [Ports -> {"nothing", "connected", "disconnected"}],
             twice' \subseteq Ports, blind' \subseteq Ports
      PROVE  WatchInv'
  BY <1>d, <1>e DEF WatchInv, WatchTypeOK, ProberTypes
<1>f. \A x \in Probers : \A at, todo, port : prober[x] = Prober(at, todo, port) =>
          prober[x].at = at /\ prober[x].todo = todo /\ prober[x].port = port
  BY DEF Prober
<1>1. ASSUME NEW p \in Ports, Plug(p) \/ Unplug(p) PROVE WatchInv'
  <2>1. /\ UNCHANGED <<modems, known, monitoring, prober, current, scans, told, twice, blind>>
        /\ plugged' \subseteq Ports /\ plugs' \in 0..MaxPlugs
    BY <1>1, <1>b DEF Plug, Unplug
  <2>2. AnnouncedInv' /\ ProbersInv'
    BY <2>1, <1>a, LoopUndisturbed DEF ProbersInv
  <2> QED
    BY <2>1, <2>2, <1>b, <1>e
<1>2. ASSUME NEW x \in {"start", "user"}, Scan(x) PROVE WatchInv'
  <2>1. /\ UNCHANGED <<plugged, plugs, modems, known, current, told, twice, blind>>
        /\ Turns(x, "pick", plugged, NoPort) /\ scans < MaxScans /\ scans' = scans + 1
        /\ monitoring' = (monitoring \/ x = "start")
    BY <1>2 DEF Scan
  <2>2. ProbersInv' /\ prober'["loop"] = prober["loop"]
    BY <2>1, <1>a, <1>b, TurnsFacts
  <2>3. AnnouncedInv'
    BY <2>1, <2>2, LoopUndisturbed
  <2>4. scans' \in 0..MaxScans /\ monitoring' \in BOOLEAN
    BY <2>1, <1>b
  <2> QED
    BY <2>1, <2>2, <2>3, <2>4, <1>b, <1>e
<1>3. ASSUME NEW x \in Probers, NEW p \in Ports, Pick(x, p) PROVE WatchInv'
  <2>1. /\ UNCHANGED <<plugged, plugs, modems, known, monitoring, current, scans, told, twice, blind>>
        /\ prober[x].at = "pick" /\ p \in prober[x].todo
        /\ Turns(x, "asking", prober[x].todo \ {p}, p)
    BY <1>3 DEF Pick
  <2>2. /\ ProbersInv' /\ \A y \in Probers : y # x => prober'[y] = prober[y]
        /\ prober'[x].at = "asking" /\ prober'[x].todo = prober[x].todo \ {p}
        /\ prober'[x].port = p
    <3>1. PICK todo : todo = prober[x].todo \ {p}
      OBVIOUS
    <3>2. todo \in SUBSET Ports /\ p \in Ports \cup {NoPort} /\ Turns(x, "asking", todo, p)
      BY <2>1, <3>1, <1>c
    <3>3. /\ ProbersInv' /\ \A y \in Probers : y # x => prober'[y] = prober[y]
          /\ prober'[x].at = "asking" /\ prober'[x].todo = todo /\ prober'[x].port = p
      <4>1. /\ "asking" \in {"off", "sleep", "pick", "asking", "profile", "removing"}
            /\ ProbersInv /\ ("asking" \in {"asking", "profile"} => p \in Ports)
        BY <1>a
      <4> QED
        BY <3>2, <4>1, TurnsFacts
    <3> QED
      BY <3>1, <3>3
  <2>3. CASE x # "loop"
    BY <2>1, <2>2, <2>3, <1>a, <1>b, <1>e, LoopUndisturbed
  <2>4. CASE x = "loop"
    <3>1. Announceds' = Announceds
      BY <2>1 DEF Announceds
    <3>2. AnnouncedInv'
      BY <3>1, <2>1, <2>2, <2>4, <1>a DEF AnnouncedInv, LoopKnows
    <3> QED
      BY <3>2, <2>1, <2>2, <1>b, <1>e
  <2> QED
    BY <2>3, <2>4
<1>4. ASSUME NEW x \in Probers, Answers(x) PROVE WatchInv'
  <2>1. /\ UNCHANGED <<plugged, plugs, modems, known, monitoring, current, scans, told, twice, blind>>
        /\ prober[x].at = "asking"
    BY <1>4 DEF Answers
  <2>2. /\ ProbersInv' /\ \A y \in Probers : y # x => prober'[y] = prober[y]
        /\ prober'[x].todo = prober[x].todo
        /\ \/ prober'[x].at = "profile" /\ prober'[x].port = prober[x].port
           \/ prober'[x].at = "pick"
    <3>0. prober[x].todo \in SUBSET Ports /\ prober[x].port \in Ports
      BY <2>1, <1>c
    <3>1. CASE Turns(x, "profile", prober[x].todo, prober[x].port)
      <4> DEFINE todo == prober[x].todo
                 port == prober[x].port
      <4>1. todo \in SUBSET Ports /\ port \in Ports /\ Turns(x, "profile", todo, port)
        BY <3>0, <3>1
      <4> HIDE DEF todo, port
      <4>2. ProbersInv /\ x \in Probers /\ port \in Ports \cup {NoPort}
        BY <4>1, <1>a
      <4>3. /\ ProbersInv' /\ \A y \in Probers : y # x => prober'[y] = prober[y]
            /\ prober'[x].at = "profile" /\ prober'[x].todo = todo /\ prober'[x].port = port
        BY <4>1, <4>2, TurnsFacts
      <4> QED
        BY <4>3 DEF todo, port
    <3>2. CASE Turns(x, "pick", prober[x].todo, NoPort)
      <4>1. /\ ProbersInv' /\ \A y \in Probers : y # x => prober'[y] = prober[y]
            /\ prober'[x].at = "pick" /\ prober'[x].todo = prober[x].todo
        BY <3>0, <3>2, <1>a, TurnsFacts
      <4> QED
        BY <4>1
    <3> QED
      BY <3>1, <3>2, <1>4 DEF Answers
  <2>3. CASE x # "loop"
    BY <2>1, <2>2, <2>3, <1>a, <1>b, <1>e, LoopUndisturbed
  <2>4. CASE x = "loop"
    <3>1. Announceds' = Announceds
      BY <2>1 DEF Announceds
    <3>2. AnnouncedInv'
      BY <3>1, <2>1, <2>2, <2>4, <1>a DEF AnnouncedInv, LoopKnows
    <3> QED
      BY <3>2, <2>1, <2>2, <1>b, <1>e
  <2> QED
    BY <2>3, <2>4
<1>5. ASSUME NEW x \in Probers, Register(x) PROVE WatchInv'
  <2> DEFINE p == prober[x].port
  <2>1. /\ UNCHANGED <<plugged, plugs, known, monitoring, current, scans>>
        /\ prober[x].at = "profile" /\ modems' = modems \cup {p}
        /\ blind' = IF x = "user" /\ monitoring THEN blind \cup {p} ELSE blind \ {p}
        /\ IF x = "loop" THEN Announced(p, "connected") ELSE UNCHANGED <<told, twice>>
        /\ Turns(x, "pick", prober[x].todo, NoPort)
    BY <1>5 DEF Register
  <2>2. p \in Ports
    BY <2>1, <1>c
  <2>3. /\ ProbersInv' /\ \A y \in Probers : y # x => prober'[y] = prober[y]
        /\ prober'[x].at = "pick" /\ prober'[x].todo = prober[x].todo
    <3>1. prober[x].todo \in SUBSET Ports
      BY <1>c
    <3> QED
      BY <3>1, <2>1, <1>a, TurnsFacts
  <2> HIDE DEF p
  <2>4. modems' \subseteq Ports /\ blind' \subseteq Ports
    BY <2>1, <2>2, <1>b
  <2>5. CASE x # "loop"
    BY <2>1, <2>3, <2>4, <2>5, <1>a, <1>b, <1>e, LoopUndisturbed
  <2>6. CASE x = "loop"
    <3>1. /\ prober["loop"].todo \subseteq current /\ p \in current
          /\ Announceds \subseteq known \cup current
          /\ Announceds \cap prober["loop"].todo = {}
          /\ p \notin Announceds /\ p \notin prober["loop"].todo
          /\ twice = {} /\ Announceds \subseteq modems
      BY <2>1, <2>6, <1>a DEF AnnouncedInv, LoopKnows, p
    <3>2. told' = [told EXCEPT ![p] = "connected"] /\ twice' = {}
      BY <2>1, <2>2, <2>6, <3>1 DEF Announced, Announceds
    <3>3. /\ told' \in [Ports -> {"nothing", "connected", "disconnected"}]
          /\ Announceds' = Announceds \cup {p}
      BY <3>2, <2>2, <1>b DEF Announceds
    <3>4. AnnouncedInv'
      BY <3>1, <3>2, <3>3, <2>1, <2>3, <2>6 DEF AnnouncedInv, LoopKnows
    <3> QED
      BY <3>2, <3>3, <3>4, <2>1, <2>3, <2>4, <1>b, <1>e
  <2> QED
    BY <2>5, <2>6
<1>6. ASSUME NEW x \in Probers, Scanned(x) PROVE WatchInv'
  <2>1. /\ UNCHANGED <<plugged, plugs, modems, monitoring, current, scans, told, twice, blind>>
        /\ x # "loop"
        /\ \/ /\ x = "start" /\ known' = modems
              /\ prober' = [prober EXCEPT ![x] = Off, !["loop"] = Prober("sleep", {}, NoPort)]
           \/ Turns(x, "off", {}, NoPort) /\ known' = known
    BY <1>6 DEF Scanned
  <2>2. CASE Turns(x, "off", {}, NoPort) /\ known' = known
    <3>1. ProbersInv' /\ prober'["loop"] = prober["loop"]
      BY <2>1, <2>2, <1>a, TurnsFacts
    <3> QED
      BY <2>1, <2>2, <3>1, <1>b, <1>e, LoopUndisturbed
  <2>3. CASE /\ x = "start" /\ known' = modems
             /\ prober' = [prober EXCEPT ![x] = Off, !["loop"] = Prober("sleep", {}, NoPort)]
    <3>1. /\ Off \in ProberTypes /\ Off.at = "off"
          /\ Prober("sleep", {}, NoPort) \in ProberTypes
          /\ Prober("sleep", {}, NoPort).at = "sleep"
      BY DEF Off, Prober, ProberTypes
    <3>2. prober \in [Probers -> ProberTypes]
      BY <1>a DEF ProbersInv
    <3>3. /\ prober' \in [Probers -> ProberTypes] /\ prober'["loop"].at = "sleep"
          /\ \A y \in Probers : prober'[y] = prober[y] \/ prober'[y].at \in {"off", "sleep"}
      BY <2>3, <3>1, <3>2, <1>a
    <3>4. ProbersInv'
      BY <3>3, <1>a DEF ProbersInv
    <3>5. Announceds' = Announceds
      BY <2>1 DEF Announceds
    <3>6. AnnouncedInv'
      BY <3>3, <3>5, <2>1, <2>3, <1>a DEF AnnouncedInv, LoopKnows
    <3> QED
      BY <3>4, <3>6, <2>1, <2>3, <1>b, <1>e
  <2> QED
    BY <2>1, <2>2, <2>3
<1>7. CASE Check
  <2>1. /\ UNCHANGED <<plugged, plugs, modems, known, monitoring, scans, told, twice, blind>>
        /\ prober["loop"].at = "sleep" /\ current' = plugged \cap ModemPorts
        /\ Turns("loop", "pick", current' \ known, NoPort)
    BY <1>7 DEF Check
  <2>2. /\ ProbersInv' /\ prober'["loop"].at = "pick"
        /\ prober'["loop"].todo = current' \ known
    BY <2>1, <1>a, <1>b, TurnsFacts
  <2>3. Announceds' = Announceds
    BY <2>1 DEF Announceds
  <2>4. AnnouncedInv'
    BY <2>1, <2>2, <2>3, <1>a DEF AnnouncedInv, LoopKnows
  <2> QED
    BY <2>1, <2>2, <2>4, <1>b, <1>e
<1>8. CASE NewDone
  <2>1. /\ UNCHANGED <<plugged, plugs, modems, known, monitoring, current, scans, told, twice, blind>>
        /\ prober["loop"] = Prober("pick", {}, NoPort)
        /\ Turns("loop", "removing", known \ current, NoPort)
    BY <1>8 DEF NewDone
  <2>2. /\ ProbersInv' /\ prober'["loop"].at = "removing"
        /\ prober'["loop"].todo = known \ current
    <3> DEFINE lost == known \ current
    <3>1. lost \in SUBSET Ports /\ Turns("loop", "removing", lost, NoPort)
      BY <1>b, <2>1
    <3>2. "loop" \in Probers
      BY DEF Probers
    <3> HIDE DEF lost
    <3>3. ProbersInv /\ NoPort \in Ports \cup {NoPort}
      BY <1>a
    <3>4. ProbersInv' /\ prober'["loop"].at = "removing" /\ prober'["loop"].todo = lost
      BY <3>1, <3>2, <3>3, TurnsFacts
    <3> QED
      BY <3>4 DEF lost
  <2>3. Announceds' = Announceds /\ prober["loop"].at = "pick"
    BY <2>1, <1>a, <1>f DEF Announceds
  <2>4. AnnouncedInv'
    BY <2>1, <2>2, <2>3, <1>a DEF AnnouncedInv, LoopKnows
  <2> QED
    BY <2>1, <2>2, <2>4, <1>b, <1>e
<1>9. CASE Checked
  <2>1. /\ UNCHANGED <<plugged, plugs, modems, monitoring, current, scans, told, twice, blind>>
        /\ prober["loop"] = Prober("removing", {}, NoPort) /\ known' = current
        /\ Turns("loop", "sleep", {}, NoPort)
    BY <1>9 DEF Checked
  <2>2. ProbersInv' /\ prober'["loop"].at = "sleep"
    BY <2>1, <1>a, TurnsFacts
  <2>3. /\ Announceds' = Announceds
        /\ prober["loop"].at = "removing" /\ prober["loop"].todo = {}
    BY <2>1, <1>a, <1>f DEF Announceds
  <2>4. AnnouncedInv'
    BY <2>1, <2>2, <2>3, <1>a DEF AnnouncedInv, LoopKnows
  <2> QED
    BY <2>1, <2>2, <2>4, <1>b, <1>e
<1>10. ASSUME NEW p \in Ports, Forget(p) PROVE WatchInv'
  <2>1. /\ UNCHANGED <<plugged, plugs, known, monitoring, current, scans>>
        /\ prober["loop"].at = "removing" /\ p \in prober["loop"].todo
        /\ Turns("loop", "removing", prober["loop"].todo \ {p}, NoPort)
        /\ blind' = blind \ {p}
    BY <1>10 DEF Forget
  <2>2. /\ ProbersInv' /\ prober'["loop"].at = "removing"
        /\ prober'["loop"].todo = prober["loop"].todo \ {p}
    BY <2>1, <1>a, <1>c, TurnsFacts
  <2>3. /\ twice = {} /\ Announceds \subseteq modems
        /\ Announceds \subseteq current \cup prober["loop"].todo
    BY <2>1, <1>a DEF AnnouncedInv, LoopKnows
  <2>4. /\ modems' = modems \ {p} /\ twice' = {} /\ Announceds' = Announceds \ {p}
        /\ told' \in [Ports -> {"nothing", "connected", "disconnected"}]
    <3>1. CASE p \in modems
      <4>1. /\ modems' = modems \ {p} /\ told' = [told EXCEPT ![p] = "disconnected"]
            /\ twice' = {}
        BY <1>10, <3>1, <2>3 DEF Forget, Announced
      <4> QED
        BY <4>1, <1>b DEF Announceds
    <3>2. CASE p \notin modems
      <4>1. modems' = modems /\ told' = told /\ twice' = twice
        BY <1>10, <3>2 DEF Forget
      <4> QED
        BY <4>1, <3>2, <2>3, <1>b DEF Announceds
    <3> QED
      BY <3>1, <3>2
  <2>5. AnnouncedInv'
    BY <2>1, <2>2, <2>3, <2>4 DEF AnnouncedInv, LoopKnows
  <2> QED
    BY <2>1, <2>2, <2>4, <2>5, <1>b, <1>e
<1>11. CASE Stop
  <2>1. /\ UNCHANGED <<plugged, plugs, modems, known, current, scans, told, twice, blind>>
        /\ monitoring' = FALSE /\ Turns("loop", "off", {}, NoPort)
    BY <1>11 DEF Stop
  <2>2. ProbersInv' /\ prober'["loop"].at = "off"
    BY <2>1, <1>a, TurnsFacts
  <2>3. Announceds' = Announceds
    BY <2>1 DEF Announceds
  <2>4. AnnouncedInv'
    BY <2>1, <2>2, <2>3, <1>a DEF AnnouncedInv, LoopKnows
  <2> QED
    BY <2>1, <2>2, <2>4, <1>b, <1>e
<1>12. CASE UNCHANGED watchVars
  <2>1. ProbersInv' /\ AnnouncedInv'
    BY <1>12, <1>a, LoopUndisturbed DEF watchVars, ProbersInv
  <2> QED
    BY <2>1, <1>12, <1>b, <1>e DEF watchVars
<1> QED
  BY <1>1, <1>2, <1>3, <1>4, <1>5, <1>6, <1>7, <1>8, <1>9, <1>10, <1>11, <1>12
     DEF WatchNext, Loop, Probing

(* modem_manager.py: however ports come and go, and whatever scans, starts and *)
(* stops come between, a port is told to the callbacks as connected again only *)
(* after it was told as disconnected.                                          *)
THEOREM PortsToldOnce == WatchSpec => []ConnectedOnce
<1>1. WatchInv => ConnectedOnce
  BY DEF WatchInv, AnnouncedInv, ConnectedOnce
<1> QED
  BY <1>1, WatchInvInit, WatchInvStep, PTL DEF WatchSpec
-----------------------------------------------------------------------------
(* The controller                                                             *)

UnitTypes == [open : BOOLEAN, connected : BOOLEAN, bip : BOOLEAN, handlers : Nat, loop : BOOLEAN]
OwnerTypes == [at : {"idle", "finding", "checking", "initializing", "enabling", "closing"},
               of : Nat, call : {"none", "get", "bip", "close"}]
ControlTypes ==
    /\ unit \in Seq(UnitTypes) /\ kept \in 0..Len(unit) /\ crossed \in BOOLEAN
    /\ owner \in [Owners -> OwnerTypes]
    /\ \A o \in Owners :
          /\ owner[o].at = "idle" <=> owner[o] = NoOwner
          /\ owner[o].at \in {"checking", "initializing", "enabling", "closing"} =>
                 owner[o].of \in 1..Len(unit)

(* The object that a call opens, or closes, is in its hands alone, and is not *)
(* the one that is kept.                                                      *)
InHand(o) == owner[o].at \in {"checking", "initializing", "closing"}
HandsApart ==
    /\ kept # 0 => unit[kept].connected
    /\ \A o \in Owners : InHand(o) => owner[o].of # kept
    /\ \A o, other \in Owners :
          InHand(o) /\ InHand(other) /\ owner[o].of = owner[other].of => o = other

(* What is so of a single object while no two calls cross.                    *)
UnitSound(n) ==
    /\ unit[n].handlers = IF unit[n].bip THEN 1 ELSE 0
    /\ unit[n].loop => unit[n].open
    /\ unit[n].open <=> n = kept \/ \E o \in Owners : InHand(o) /\ owner[o].of = n

AloneInv ==
    ~crossed =>
        /\ \A o, other \in Owners : owner[o] # NoOwner /\ owner[other] # NoOwner => o = other
        /\ \A o \in Owners :
              /\ owner[o].at \in {"finding", "checking", "initializing", "closing"} => kept = 0
              /\ owner[o].at = "enabling" => owner[o].of = kept /\ ~unit[kept].bip
              /\ InHand(o) => ~unit[owner[o].of].loop
        /\ \A n \in 1..Len(unit) : UnitSound(n)

HeldInv == ControlTypes /\ HandsApart /\ AloneInv

(* What has been seen is noted while it can be told.                          *)
ChatTypes == [at : {"idle", "first", "second"}, call : NetworkCalls \cup {"none"},
              looks : Nat, seen : BOOLEAN, result : {"none", "yes", "no"}]
SeenInv ==
    /\ chat \in [Owners -> ChatTypes] /\ astray \in BOOLEAN
    /\ mobile \in [registered : BOOLEAN, apn : {"old", "new"}, active : BOOLEAN]
    /\ \A o \in Owners :
          /\ chat[o].at # "idle" => chat[o].call # "none"
          /\ chat[o].at # "idle" /\ Sees(chat[o].call, mobile) => chat[o].seen
          /\ chat[o].at = "second" => chat[o].call \in {"wait", "login"}
          /\ chat[o].at = "second" /\ chat[o].call = "login" /\ ~astray => chat[o].seen
          /\ chat[o].result = "yes" /\ ~astray => chat[o].seen

(* While no two calls cross, whoever closes the diagnostic port is alone.     *)
DmInv ==
    /\ crossed \in BOOLEAN
    /\ dm \in [connected : BOOLEAN, open : BOOLEAN, logging : BOOLEAN, reader : {"none", "runs"},
               leaving : SUBSET Owners]
    /\ ~crossed =>
          IF dm.leaving = {}
            THEN /\ dm.logging <=> dm.reader = "runs"
                 /\ dm.logging => dm.open
                 /\ dm.connected <=> dm.open
            ELSE (\E o \in Owners : dm.leaving = {o}) /\ ~dm.logging
LEMMA HeldInvInit == ControlInit => HeldInv
<1> SUFFICES ASSUME ControlInit PROVE HeldInv
  OBVIOUS
<1>1. /\ unit = <<>> /\ kept = 0 /\ crossed = FALSE
      /\ \A o \in Owners : owner[o] = NoOwner
      /\ owner = [o \in Owners |-> NoOwner]
  BY DEF ControlInit
<1>2. NoOwner \in OwnerTypes /\ NoOwner.at = "idle"
  BY DEF NoOwner, OwnerTypes
<1>3. Len(unit) = 0 /\ unit \in Seq(UnitTypes)
  BY <1>1
<1>4. ControlTypes
  <2>1. owner \in [Owners -> OwnerTypes]
    BY <1>1, <1>2
  <2>3. kept \in 0..Len(unit) /\ crossed \in BOOLEAN
    <3>1. 0 \in 0..0 /\ FALSE \in BOOLEAN
      OBVIOUS
    <3> QED
      BY <1>1, <1>3, <3>1, Zenon
  <2>2. \A o \in Owners : owner[o].at = "idle" /\ owner[o] = NoOwner
    BY <1>1, <1>2
  <2> QED
    BY <1>3, <2>1, <2>2, <2>3 DEF ControlTypes
<1>5. \A o \in Owners : ~InHand(o)
  BY <1>1, <1>2 DEF InHand
<1> QED
  BY <1>1, <1>2, <1>3, <1>4, <1>5 DEF HeldInv, HandsApart, AloneInv

(* One Modem object changes.                                                  *)
LEMMA UnitChanges ==
  ASSUME unit \in Seq(UnitTypes), NEW n \in 1..Len(unit), NEW u \in UnitTypes,
         unit' = [unit EXCEPT ![n] = u]
  PROVE  /\ unit' \in Seq(UnitTypes) /\ Len(unit') = Len(unit)
         /\ unit'[n] = u /\ \A m \in 1..Len(unit) : m # n => unit'[m] = unit[m]
BY ExceptSeq, LenProperties

(* A call goes to its next await, or returns.                                 *)
LEMMA OwnerChanges ==
  ASSUME ControlTypes, NEW o \in Owners, NEW r \in OwnerTypes,
         unit' \in Seq(UnitTypes), Len(unit') >= Len(unit),
         kept' \in 0..Len(unit'), crossed' \in BOOLEAN,
         r.at = "idle" <=> r = NoOwner,
         r.at \in {"checking", "initializing", "enabling", "closing"} => r.of \in 1..Len(unit'),
         owner' = [owner EXCEPT ![o] = r]
  PROVE  /\ ControlTypes' /\ owner'[o] = r
         /\ \A other \in Owners : other # o => owner'[other] = owner[other]
<1>1. owner \in [Owners -> OwnerTypes]
  BY DEF ControlTypes
<1>2. /\ owner' \in [Owners -> OwnerTypes] /\ owner'[o] = r
      /\ \A other \in Owners : other # o => owner'[other] = owner[other]
  BY <1>1
<1>3. Len(unit) \in Nat /\ Len(unit') \in Nat /\ \A i \in 1..Len(unit) : i \in 1..Len(unit')
  BY LenProperties DEF ControlTypes
<1>4. \A other \in Owners :
          /\ owner'[other].at = "idle" <=> owner'[other] = NoOwner
          /\ owner'[other].at \in {"checking", "initializing", "enabling", "closing"} =>
                 owner'[other].of \in 1..Len(unit')
  BY <1>2, <1>3 DEF ControlTypes
<1> QED
  BY <1>2, <1>4 DEF ControlTypes

(* Whoever begins a call beside another makes them cross.                     *)
LEMMA CallsBegin ==
  ASSUME HeldInv, NEW o \in Owners, Orders(o)
  PROVE  /\ owner[o] = NoOwner /\ crossed' \in BOOLEAN
         /\ ~crossed' => ~crossed /\ \A other \in Owners : owner[other] = NoOwner
BY DEF Orders, HeldInv, ControlTypes

(* What changes no object and no call in hand.                                *)
LEMMA HeldUndisturbed ==
  ASSUME HeldInv, UNCHANGED <<unit, kept, owner>>, crossed' \in BOOLEAN, crossed => crossed'
  PROVE  HeldInv'
BY DEF HeldInv, ControlTypes, HandsApart, InHand, AloneInv, UnitSound

LEMMA NoOwnerFacts == NoOwner \in OwnerTypes /\ NoOwner.at = "idle"
BY DEF NoOwner, OwnerTypes

LEMMA GetModemHolds == ASSUME HeldInv, NEW o \in Owners, NEW call_ \in {"get", "bip"}, GetModem(o, call_)
                       PROVE  HeldInv'
<1>1. /\ ControlTypes /\ HandsApart /\ AloneInv /\ UNCHANGED <<unit, kept>>
      /\ owner[o] = NoOwner /\ owner[o].at = "idle" /\ crossed' \in BOOLEAN
      /\ ~crossed' => ~crossed /\ \A other \in Owners : owner[other] = NoOwner
  BY CallsBegin, NoOwnerFacts DEF GetModem, HeldInv
<1>2. /\ unit \in Seq(UnitTypes) /\ kept \in 0..Len(unit) /\ Len(unit) \in Nat
      /\ unit' \in Seq(UnitTypes) /\ kept' \in 0..Len(unit') /\ Len(unit') = Len(unit)
  BY <1>1 DEF ControlTypes
<1>a. Len(unit') >= Len(unit)
  BY <1>2
<1>3. CASE kept # 0 /\ unit[kept].connected
  <2>1. CASE unit[kept].bip \/ call_ # "bip"
    <3>1. owner' = [owner EXCEPT ![o] = NoOwner]
      BY <1>3, <2>1 DEF GetModem, MonitorStarts
    <3>2. owner' = owner
      BY <3>1, <1>1 DEF ControlTypes
    <3> QED
      BY <1>1, <3>2, HeldUndisturbed
  <2>2. CASE ~unit[kept].bip /\ call_ = "bip"
    <3> DEFINE r == [at |-> "enabling", of |-> kept, call |-> call_]
    <3>1. owner' = [owner EXCEPT ![o] = r]
      BY <1>3, <2>2 DEF GetModem, MonitorStarts
    <3>2. /\ r \in OwnerTypes /\ r.at = "enabling" /\ r.of = kept /\ r # NoOwner
          /\ kept \in 1..Len(unit)
      BY <1>2, <1>3 DEF OwnerTypes, NoOwner
    <3> HIDE DEF r
    <3>3. /\ ControlTypes' /\ owner'[o] = r
          /\ \A other \in Owners : other # o => owner'[other] = owner[other]
      <4>1. r.of \in 1..Len(unit') /\ (r.at = "idle" <=> r = NoOwner)
        BY <1>2, <3>2
      <4> QED
        BY <1>1, <1>2, <1>a, <3>1, <3>2, <4>1, OwnerChanges
    <3>4. HandsApart'
      BY <1>1, <3>2, <3>3 DEF HandsApart, InHand
    <3>5. AloneInv'
      BY <1>1, <3>2, <3>3, <2>2, NoOwnerFacts DEF AloneInv, InHand, UnitSound
    <3> QED
      BY <3>3, <3>4, <3>5 DEF HeldInv
  <2> QED
    BY <2>1, <2>2
<1>4. CASE ~(kept # 0 /\ unit[kept].connected)
  <2> DEFINE r == [at |-> "finding", of |-> 0, call |-> call_]
  <2>1. owner' = [owner EXCEPT ![o] = r]
    BY <1>4 DEF GetModem
  <2>2. r \in OwnerTypes /\ r.at = "finding" /\ r # NoOwner /\ kept = 0
    BY <1>1, <1>4 DEF OwnerTypes, NoOwner, HandsApart
  <2> HIDE DEF r
  <2>3. /\ ControlTypes' /\ owner'[o] = r
        /\ \A other \in Owners : other # o => owner'[other] = owner[other]
    <3>1. r.at = "idle" <=> r = NoOwner
      BY <2>2
    <3> QED
      BY <1>1, <1>2, <1>a, <2>1, <2>2, <3>1, OwnerChanges
  <2>4. HandsApart'
    BY <1>1, <2>2, <2>3 DEF HandsApart, InHand
  <2>5. AloneInv'
    BY <1>1, <2>2, <2>3, NoOwnerFacts DEF AloneInv, InHand, UnitSound
  <2> QED
    BY <2>3, <2>4, <2>5 DEF HeldInv
<1> QED
  BY <1>3, <1>4

(* A call in hand goes on.                                                    *)
LEMMA CallsGoOn ==
  ASSUME HeldInv, NEW o \in Owners,
         NEW at \in {"finding", "checking", "initializing", "enabling", "closing"}, GoesOn(o, at)
  PROVE  /\ owner[o].at = at /\ owner[o] # NoOwner /\ crossed' = crossed /\ crossed \in BOOLEAN
         /\ at # "finding" => owner[o].of \in 1..Len(unit)
         /\ unit \in Seq(UnitTypes) /\ Len(unit) \in Nat /\ kept \in 0..Len(unit)
         /\ owner[o] \in OwnerTypes /\ owner \in [Owners -> OwnerTypes]
         /\ ControlTypes /\ HandsApart /\ AloneInv
BY NoOwnerFacts DEF GoesOn, HeldInv, ControlTypes

LEMMA OpenPortHolds == ASSUME HeldInv, NEW o \in Owners, OpenPort(o) PROVE HeldInv'
<1>1. /\ owner[o].at = "finding" /\ owner[o] # NoOwner /\ crossed' = crossed /\ crossed \in BOOLEAN
      /\ unit \in Seq(UnitTypes) /\ Len(unit) \in Nat /\ kept \in 0..Len(unit)
      /\ owner[o] \in OwnerTypes /\ owner \in [Owners -> OwnerTypes]
      /\ ControlTypes /\ HandsApart /\ AloneInv /\ kept' = kept
  BY CallsGoOn DEF OpenPort
<1>2. CASE Idle(o) /\ UNCHANGED unit
  <2>1. owner' = [owner EXCEPT ![o] = NoOwner] /\ Len(unit') >= Len(unit)
    BY <1>1, <1>2 DEF Idle
  <2>2. /\ ControlTypes' /\ owner'[o] = NoOwner
        /\ \A other \in Owners : other # o => owner'[other] = owner[other]
    BY <1>1, <1>2, <2>1, NoOwnerFacts, OwnerChanges
  <2>3. HandsApart'
    BY <1>1, <1>2, <2>2, NoOwnerFacts DEF HandsApart, InHand
  <2>4. AloneInv'
    BY <1>1, <1>2, <2>2, NoOwnerFacts DEF AloneInv, InHand, UnitSound
  <2> QED
    BY <2>2, <2>3, <2>4 DEF HeldInv
<1>3. CASE /\ unit' = Append(unit, [open |-> TRUE, connected |-> FALSE, bip |-> FALSE, handlers |-> 0, loop |-> FALSE])
           /\ owner' = [owner EXCEPT ![o].at = "checking", ![o].of = Len(unit) + 1]
  <2> DEFINE u == [open |-> TRUE, connected |-> FALSE, bip |-> FALSE, handlers |-> 0, loop |-> FALSE]
             r == [owner[o] EXCEPT !.at = "checking", !.of = Len(unit) + 1]
             last == Len(unit) + 1
  <2>1. /\ u \in UnitTypes /\ u.open /\ ~u.bip /\ u.handlers = 0 /\ ~u.loop
    BY DEF UnitTypes
  <2>2. owner' = [owner EXCEPT ![o] = r] /\ unit' = Append(unit, u)
    BY <1>1, <1>3
  <2>3. /\ r \in OwnerTypes /\ r.at = "checking" /\ r.of = last /\ r # NoOwner
    <3>1. last \in Nat
      BY <1>1
    <3> HIDE DEF last
    <3>2. r \in OwnerTypes /\ r.at = "checking" /\ r.of = last
      BY <1>1, <3>1 DEF OwnerTypes, last
    <3> QED
      BY <3>2, NoOwnerFacts
  <2> HIDE DEF u, r
  <2>4. /\ unit' \in Seq(UnitTypes) /\ Len(unit') = last /\ unit'[last] = u
        /\ \A n \in 1..Len(unit) : unit'[n] = unit[n]
    BY <1>1, <2>1, <2>2, AppendFacts
  <2>5. /\ \A n \in 1..last : n \in 1..Len(unit) \/ n = last
        /\ last \notin 1..Len(unit) /\ kept # last /\ last \in 1..last
        /\ Len(unit') >= Len(unit) /\ kept' \in 0..Len(unit')
    BY <1>1, <2>4
  <2>6. /\ ControlTypes' /\ owner'[o] = r
        /\ \A other \in Owners : other # o => owner'[other] = owner[other]
    <3>1. r.of \in 1..Len(unit') /\ (r.at = "idle" <=> r = NoOwner)
      BY <2>3, <2>4, <2>5
    <3> QED
      BY <1>1, <2>2, <2>3, <2>4, <2>5, <3>1, OwnerChanges
  <2>7. \A other \in Owners : InHand(other) => owner[other].of \in 1..Len(unit)
    BY <1>1 DEF ControlTypes, InHand
  <2> HIDE DEF last
  <2>8. \A other \in Owners : /\ other # o => InHand(other)' = InHand(other)
                              /\ ~InHand(o) /\ InHand(o)'
    BY <1>1, <2>3, <2>6 DEF InHand
  <2>9. HandsApart'
    <3>1. kept' # 0 => unit'[kept'].connected
      <4>1. kept # 0 => kept \in 1..Len(unit)
        BY <1>1
      <4> QED
        BY <1>1, <2>4, <4>1 DEF HandsApart
    <3> QED
      BY <3>1, <1>1, <2>3, <2>5, <2>6, <2>7, <2>8 DEF HandsApart
  <2>10. ASSUME ~crossed, NEW n \in 1..last PROVE UnitSound(n)'
    <3>1. CASE n = last
      BY <3>1, <2>1, <2>3, <2>4, <2>6, <2>8 DEF UnitSound
    <3>2. CASE n \in 1..Len(unit)
      <4>1. UnitSound(n) /\ unit'[n] = unit[n] /\ n # last
        BY <1>1, <2>4, <2>5, <2>10, <3>2 DEF AloneInv
      <4>2. (\E other \in Owners : InHand(other)' /\ owner'[other].of = n)
            <=> \E other \in Owners : InHand(other) /\ owner[other].of = n
        BY <2>3, <2>6, <2>8, <4>1
      <4> QED
        BY <4>1, <4>2, <1>1 DEF UnitSound
    <3> QED
      BY <2>5, <3>1, <3>2
  <2>11. AloneInv'
    <3> SUFFICES ASSUME ~crossed PROVE AloneInv'
      BY <1>1 DEF AloneInv
    <3>1. /\ \A x, other \in Owners : owner[x] # NoOwner /\ owner[other] # NoOwner => x = other
          /\ kept = 0
      BY <1>1 DEF AloneInv
    <3>2. \A other \in Owners : other # o => owner'[other] = NoOwner
      BY <1>1, <3>1, <2>6
    <3> QED
      BY <1>1, <2>1, <2>3, <2>4, <2>6, <2>10, <3>1, <3>2, NoOwnerFacts DEF AloneInv, InHand
  <2> QED
    BY <2>6, <2>9, <2>11 DEF HeldInv
<1> QED
  BY <1>2, <1>3 DEF OpenPort

(* One object and one call change, and the number of objects does not: what   *)
(* is left to show are the parts of the invariant they are about.             *)
LEMMA OneOfEach ==
  ASSUME HeldInv, NEW o \in Owners, NEW r \in OwnerTypes, NEW n \in 1..Len(unit), NEW u \in UnitTypes,
         owner' = [owner EXCEPT ![o] = r], r.at = "idle" <=> r = NoOwner,
         r.at \in {"checking", "initializing", "enabling", "closing"} => r.of \in 1..Len(unit),
         unit' = [unit EXCEPT ![n] = u],
         kept' \in 0..Len(unit), crossed' \in BOOLEAN
  PROVE  /\ ControlTypes' /\ owner'[o] = r
         /\ \A other \in Owners : other # o => owner'[other] = owner[other]
         /\ Len(unit') = Len(unit) /\ unit'[n] = u
         /\ \A m \in 1..Len(unit) : m # n => unit'[m] = unit[m]
<1>1. unit \in Seq(UnitTypes) /\ ControlTypes /\ Len(unit) \in Nat
  BY DEF HeldInv, ControlTypes
<1>2. /\ unit' \in Seq(UnitTypes) /\ Len(unit') = Len(unit) /\ unit'[n] = u
      /\ \A m \in 1..Len(unit) : m # n => unit'[m] = unit[m]
  BY <1>1, UnitChanges
<1>3. Len(unit') >= Len(unit)
  BY <1>1, <1>2
<1> QED
  BY <1>1, <1>2, <1>3, OwnerChanges

LEMMA CheckAliveHolds == ASSUME HeldInv, NEW o \in Owners, CheckAlive(o) PROVE HeldInv'
<1> DEFINE n == owner[o].of
<1>1. /\ owner[o].at = "checking" /\ kept' = kept
      /\ owner[o] # NoOwner /\ crossed' = crossed /\ crossed \in BOOLEAN
      /\ owner[o].of \in 1..Len(unit)
      /\ unit \in Seq(UnitTypes) /\ Len(unit) \in Nat /\ kept \in 0..Len(unit)
      /\ owner[o] \in OwnerTypes /\ owner \in [Owners -> OwnerTypes]
      /\ ControlTypes /\ HandsApart /\ AloneInv
  BY CallsGoOn DEF CheckAlive
<1>2. unit[n] \in UnitTypes
  BY <1>1
<1>3. CASE GoesTo(o, "initializing") /\ UNCHANGED unit
  <2> DEFINE r == [owner[o] EXCEPT !.at = "initializing"]
  <2>1. /\ owner' = [owner EXCEPT ![o] = r] /\ unit' = [unit EXCEPT ![n] = unit[n]]
        /\ r \in OwnerTypes /\ r.at = "initializing" /\ r.of = n
    <3>1. owner' = [owner EXCEPT ![o] = r]
      BY <1>3 DEF GoesTo
    <3>2. unit' = [unit EXCEPT ![n] = unit[n]]
      BY <1>1, <1>3
    <3>3. r \in OwnerTypes /\ r.at = "initializing" /\ r.of = n
      BY <1>1 DEF OwnerTypes
    <3> QED
      BY <3>1, <3>2, <3>3
  <2> HIDE DEF r
  <2>2. r # NoOwner
    BY <2>1, NoOwnerFacts
  <2>3. /\ ControlTypes' /\ owner'[o] = r
        /\ \A other \in Owners : other # o => owner'[other] = owner[other]
    BY <1>1, <1>2, <2>1, <2>2, OneOfEach
  <2>4. HandsApart'
    BY <1>1, <1>3, <2>1, <2>3 DEF HandsApart, InHand
  <2>5. AloneInv'
    BY <1>1, <1>3, <2>1, <2>2, <2>3 DEF AloneInv, InHand, UnitSound
  <2> QED
    BY <2>3, <2>4, <2>5 DEF HeldInv
<1>4. CASE Idle(o) /\ unit' = [unit EXCEPT ![n].open = FALSE]
  <2> DEFINE u == [unit[n] EXCEPT !.open = FALSE]
  <2>1. /\ owner' = [owner EXCEPT ![o] = NoOwner] /\ unit' = [unit EXCEPT ![n] = u]
    BY <1>4 DEF Idle
  <2>2. /\ u \in UnitTypes /\ ~u.open
        /\ u.handlers = unit[n].handlers /\ u.bip = unit[n].bip /\ u.loop = unit[n].loop
        /\ u.connected = unit[n].connected
    BY <1>2 DEF UnitTypes
  <2> HIDE DEF u
  <2>3. /\ ControlTypes' /\ owner'[o] = NoOwner
        /\ \A other \in Owners : other # o => owner'[other] = owner[other]
        /\ Len(unit') = Len(unit) /\ unit'[n] = u
        /\ \A m \in 1..Len(unit) : m # n => unit'[m] = unit[m]
    BY <1>1, <2>1, <2>2, NoOwnerFacts, OneOfEach
  <2> HIDE DEF n
  <2>4. HandsApart'
    BY <1>1, <2>2, <2>3, NoOwnerFacts DEF HandsApart, InHand, n
  <2>5. AloneInv'
    <3> SUFFICES ASSUME ~crossed PROVE AloneInv'
      BY <1>1 DEF AloneInv
    <3>1. \A x \in Owners : owner'[x] = NoOwner
      BY <1>1, <2>3 DEF AloneInv
    <3>2. \A x \in Owners : ~InHand(x)'
      BY <3>1, NoOwnerFacts DEF InHand
    <3>3. /\ InHand(o) /\ owner[o].of = n /\ n # kept /\ n \in 1..Len(unit)
          /\ \A x \in Owners : InHand(x) => x = o
      BY <1>1, NoOwnerFacts DEF InHand, HandsApart, AloneInv, n
    <3>4. ASSUME NEW m \in 1..Len(unit) PROVE UnitSound(m)'
      <4>1. UnitSound(m) /\ ~unit[n].loop
        BY <1>1, <3>3 DEF AloneInv
      <4>2. CASE m = n
        BY <1>1, <2>2, <2>3, <3>2, <3>3, <4>1, <4>2 DEF UnitSound
      <4>3. CASE m # n
        <5>1. unit[m].open <=> m = kept
          BY <3>3, <4>1, <4>3 DEF UnitSound
        <5> QED
          BY <1>1, <2>3, <3>2, <4>1, <4>3, <5>1 DEF UnitSound
      <4> QED
        BY <4>2, <4>3
    <3> QED
      BY <1>1, <2>3, <3>1, <3>2, <3>4, NoOwnerFacts DEF AloneInv
  <2> QED
    BY <2>3, <2>4, <2>5 DEF HeldInv
<1> QED
  BY <1>3, <1>4 DEF CheckAlive

LEMMA ConnectedHolds == ASSUME HeldInv, NEW o \in Owners, Connected_(o) PROVE HeldInv'
<1> DEFINE n == owner[o].of
           u == [unit[n] EXCEPT !.connected = TRUE]
<1>1. /\ owner[o].at = "initializing" /\ kept' = n /\ unit' = [unit EXCEPT ![n] = u]
      /\ MonitorStarts(o, n, owner[o].call)
      /\ owner[o] # NoOwner /\ crossed' = crossed /\ crossed \in BOOLEAN
      /\ owner[o].of \in 1..Len(unit)
      /\ unit \in Seq(UnitTypes) /\ Len(unit) \in Nat /\ kept \in 0..Len(unit)
      /\ owner[o] \in OwnerTypes /\ owner \in [Owners -> OwnerTypes]
      /\ ControlTypes /\ HandsApart /\ AloneInv
  BY CallsGoOn DEF Connected_
<1>2. PICK r \in OwnerTypes :
         /\ owner' = [owner EXCEPT ![o] = r]
         /\ r = NoOwner \/ (r.at = "enabling" /\ r.of = n /\ ~unit[n].bip)
  <2> DEFINE e == [at |-> "enabling", of |-> n, call |-> owner[o].call]
  <2>1. e \in OwnerTypes /\ e.at = "enabling" /\ e.of = n
    BY <1>1 DEF OwnerTypes
  <2>2. \/ owner' = [owner EXCEPT ![o] = NoOwner]
        \/ owner' = [owner EXCEPT ![o] = e] /\ ~unit[n].bip
    BY <1>1 DEF MonitorStarts
  <2> QED
    BY <2>1, <2>2, NoOwnerFacts
<1>3. unit[n] \in UnitTypes
  BY <1>1
<1>4. /\ u \in UnitTypes /\ u.connected /\ u.open = unit[n].open
      /\ u.handlers = unit[n].handlers /\ u.bip = unit[n].bip /\ u.loop = unit[n].loop
  BY <1>3 DEF UnitTypes
<1> HIDE DEF u
<1>5. /\ r.at = "idle" <=> r = NoOwner
      /\ r.at \in {"checking", "initializing", "enabling", "closing"} => r.of \in 1..Len(unit)
      /\ n \in 0..Len(unit) /\ n # 0
  BY <1>1, <1>2, NoOwnerFacts
<1>6. /\ ControlTypes' /\ owner'[o] = r
      /\ \A other \in Owners : other # o => owner'[other] = owner[other]
      /\ Len(unit') = Len(unit) /\ unit'[n] = u
      /\ \A m \in 1..Len(unit) : m # n => unit'[m] = unit[m]
  BY <1>1, <1>2, <1>4, <1>5, OneOfEach
<1>7. /\ InHand(o) /\ ~InHand(o)'
      /\ \A other \in Owners : other # o => (InHand(other)' <=> InHand(other))
  BY <1>1, <1>2, <1>6, NoOwnerFacts DEF InHand
<1>8. HandsApart'
  BY <1>1, <1>4, <1>6, <1>7 DEF HandsApart
<1>9. ASSUME ~crossed PROVE AloneInv'
  <2>1. /\ \A x, other \in Owners : owner[x] # NoOwner /\ owner[other] # NoOwner => x = other
        /\ kept = 0 /\ ~unit[n].loop
        /\ \A m \in 1..Len(unit) : UnitSound(m)
    BY <1>1, <1>7, <1>9 DEF AloneInv
  <2>2. \A other \in Owners : other # o => owner'[other] = NoOwner /\ ~InHand(other)'
    BY <1>1, <1>6, <2>1, NoOwnerFacts DEF InHand
  <2>3. ASSUME NEW m \in 1..Len(unit) PROVE UnitSound(m)'
    <3>1. m # 0
      BY <2>3
    <3>2. UnitSound(m) /\ (unit[m].open <=> m = n)
      BY <1>1, <1>6, <1>7, <2>1, <2>2, <3>1, NoOwnerFacts DEF UnitSound, InHand
    <3>3. /\ unit'[m].open = unit[m].open /\ unit'[m].bip = unit[m].bip
          /\ unit'[m].handlers = unit[m].handlers /\ unit'[m].loop = unit[m].loop
      BY <1>4, <1>6
    <3> QED
      BY <1>1, <1>7, <2>2, <3>2, <3>3 DEF UnitSound
  <2> QED
    BY <1>1, <1>2, <1>4, <1>6, <1>7, <2>2, <2>3, NoOwnerFacts DEF AloneInv
<1> QED
  BY <1>1, <1>6, <1>8, <1>9 DEF HeldInv, AloneInv

LEMMA BipStartsHolds == ASSUME HeldInv, NEW o \in Owners, BipStarts(o) PROVE HeldInv'
<1> DEFINE n == owner[o].of
           u == [unit[n] EXCEPT !.bip = TRUE, !.handlers = @ + 1, !.loop = TRUE]
<1>1. /\ owner[o].at = "enabling" /\ kept' = kept /\ unit' = [unit EXCEPT ![n] = u]
      /\ owner' = [owner EXCEPT ![o] = NoOwner]
      /\ owner[o] # NoOwner /\ crossed' = crossed /\ crossed \in BOOLEAN
      /\ owner[o].of \in 1..Len(unit)
      /\ unit \in Seq(UnitTypes) /\ Len(unit) \in Nat /\ kept \in 0..Len(unit)
      /\ owner[o] \in OwnerTypes /\ owner \in [Owners -> OwnerTypes]
      /\ ControlTypes /\ HandsApart /\ AloneInv
  BY CallsGoOn DEF BipStarts, Idle
<1>2. unit[n] \in UnitTypes
  BY <1>1
<1>3. /\ u \in UnitTypes /\ u.bip /\ u.loop /\ u.handlers = unit[n].handlers + 1
      /\ u.open = unit[n].open /\ u.connected = unit[n].connected
  <2>1. PICK h \in Nat : h = unit[n].handlers + 1
    BY <1>2 DEF UnitTypes
  <2>2. u = [unit[n] EXCEPT !.bip = TRUE, !.handlers = h, !.loop = TRUE]
    BY <1>2, <2>1 DEF UnitTypes
  <2> HIDE DEF u
  <2> QED
    BY <1>2, <2>1, <2>2 DEF UnitTypes
<1> HIDE DEF u
<1>4. /\ ControlTypes' /\ owner'[o] = NoOwner
      /\ \A other \in Owners : other # o => owner'[other] = owner[other]
      /\ Len(unit') = Len(unit) /\ unit'[n] = u
      /\ \A m \in 1..Len(unit) : m # n => unit'[m] = unit[m]
  BY <1>1, <1>3, NoOwnerFacts, OneOfEach
<1>5. \A other \in Owners : /\ InHand(other)' <=> InHand(other)
                            /\ InHand(other) => owner'[other].of = owner[other].of
  BY <1>1, <1>4, NoOwnerFacts DEF InHand
<1>6. HandsApart'
  BY <1>1, <1>3, <1>4, <1>5 DEF HandsApart
<1>7. ASSUME ~crossed PROVE AloneInv'
  <2>1. /\ \A x, other \in Owners : owner[x] # NoOwner /\ owner[other] # NoOwner => x = other
        /\ n = kept /\ ~unit[n].bip
        /\ \A m \in 1..Len(unit) : UnitSound(m)
    BY <1>1, <1>7 DEF AloneInv
  <2>2. \A other \in Owners : owner'[other] = NoOwner /\ ~InHand(other)'
    BY <1>1, <1>4, <2>1, NoOwnerFacts DEF InHand
  <2>3. ASSUME NEW m \in 1..Len(unit) PROVE UnitSound(m)'
    <3>1. CASE m = n
      <4>1. unit[n].handlers = 0 /\ unit[n].open
        BY <1>1, <2>1 DEF UnitSound
      <4>2. u.handlers = 1
        BY <1>3, <4>1
      <4>3. unit'[m] = u /\ m = kept'
        BY <1>1, <1>4, <2>1, <3>1
      <4> QED
        BY <1>3, <4>1, <4>2, <4>3 DEF UnitSound
    <3>2. CASE m # n
      BY <1>1, <1>4, <1>5, <2>1, <3>2 DEF UnitSound
    <3> QED
      BY <3>1, <3>2
  <2> QED
    BY <1>1, <1>4, <2>2, <2>3, NoOwnerFacts DEF AloneInv
<1> QED
  BY <1>1, <1>4, <1>6, <1>7 DEF HeldInv, AloneInv

(* What StopsMonitor() leaves of an object.                                   *)
LEMMA StopsMonitorFacts ==
  ASSUME unit \in Seq(UnitTypes), NEW n \in 1..Len(unit)
  PROVE  \E u \in UnitTypes :
            /\ StopsMonitor(n) = [unit EXCEPT ![n] = u]
            /\ u.open = unit[n].open /\ u.connected = unit[n].connected /\ u.loop = unit[n].loop
            /\ ~u.bip /\ (unit[n].bip \/ unit[n].handlers = 0 => u.handlers = 0)
<1>1. unit[n] \in UnitTypes
  OBVIOUS
<1>2. CASE unit[n].bip
  <2> DEFINE u == [unit[n] EXCEPT !.bip = FALSE, !.handlers = 0]
  <2>1. StopsMonitor(n) = [unit EXCEPT ![n] = u]
    BY <1>2 DEF StopsMonitor
  <2>2. /\ u \in UnitTypes /\ ~u.bip /\ u.handlers = 0
        /\ u.open = unit[n].open /\ u.connected = unit[n].connected /\ u.loop = unit[n].loop
    BY <1>1 DEF UnitTypes
  <2> QED
    BY <2>1, <2>2
<1>3. CASE ~unit[n].bip
  <2>1. StopsMonitor(n) = [unit EXCEPT ![n] = unit[n]]
    BY <1>3 DEF StopsMonitor
  <2> QED
    BY <1>1, <1>3, <2>1
<1> QED
  BY <1>2, <1>3

LEMMA StopBipMonitoringHolds ==
  ASSUME HeldInv, NEW o \in Owners, StopBipMonitoring(o) PROVE HeldInv'
<1>1. /\ ControlTypes /\ HandsApart /\ AloneInv /\ UNCHANGED <<kept, owner>>
      /\ owner[o] = NoOwner /\ crossed' \in BOOLEAN /\ kept # 0
      /\ ~crossed' => ~crossed /\ \A other \in Owners : owner[other] = NoOwner
      /\ unit' = StopsMonitor(kept)
  BY CallsBegin DEF StopBipMonitoring, StopsMonitor, HeldInv
<1>2. /\ unit \in Seq(UnitTypes) /\ kept \in 1..Len(unit) /\ Len(unit) \in Nat
      /\ owner \in [Owners -> OwnerTypes]
  BY <1>1 DEF ControlTypes
<1>3. PICK u \in UnitTypes :
         /\ unit' = [unit EXCEPT ![kept] = u]
         /\ u.open = unit[kept].open /\ u.connected = unit[kept].connected /\ u.loop = unit[kept].loop
         /\ ~u.bip /\ (unit[kept].bip \/ unit[kept].handlers = 0 => u.handlers = 0)
  BY <1>1, <1>2, StopsMonitorFacts
<1>4. owner' = [owner EXCEPT ![o] = NoOwner] /\ kept' \in 0..Len(unit)
  BY <1>1, <1>2
<1>5. /\ ControlTypes'
      /\ Len(unit') = Len(unit) /\ unit'[kept] = u
      /\ \A m \in 1..Len(unit) : m # kept => unit'[m] = unit[m]
  <2>1. /\ unit' \in Seq(UnitTypes) /\ Len(unit') = Len(unit) /\ unit'[kept] = u
        /\ \A m \in 1..Len(unit) : m # kept => unit'[m] = unit[m]
    BY <1>2, <1>3, UnitChanges
  <2> QED
    BY <1>1, <1>2, <2>1 DEF ControlTypes
<1>6. HandsApart'
  BY <1>1, <1>2, <1>3, <1>5 DEF HandsApart, InHand
<1>7. ASSUME ~crossed' PROVE AloneInv'
  <2>1. \A other \in Owners : owner'[other] = NoOwner /\ ~InHand(other) /\ ~InHand(other)'
    BY <1>1, <1>7, NoOwnerFacts DEF InHand
  <2>2. ASSUME NEW m \in 1..Len(unit) PROVE UnitSound(m)'
    <3>1. UnitSound(m) /\ UnitSound(kept)
      BY <1>1, <1>2, <1>7 DEF AloneInv
    <3>2. CASE m = kept
      BY <1>1, <1>3, <1>5, <2>1, <3>1, <3>2 DEF UnitSound
    <3>3. CASE m # kept
      BY <1>1, <1>5, <2>1, <3>1, <3>3 DEF UnitSound
    <3> QED
      BY <3>2, <3>3
  <2> QED
    BY <1>5, <2>1, <2>2, NoOwnerFacts DEF AloneInv
<1> QED
  BY <1>1, <1>5, <1>6, <1>7 DEF HeldInv, AloneInv

LEMMA CloseModemHolds == ASSUME HeldInv, NEW o \in Owners, CloseModem(o) PROVE HeldInv'
<1>1. /\ ControlTypes /\ HandsApart /\ AloneInv /\ kept' = 0
      /\ owner[o] = NoOwner /\ crossed' \in BOOLEAN /\ kept # 0
      /\ ~crossed' => ~crossed /\ \A other \in Owners : owner[other] = NoOwner
  BY CallsBegin DEF CloseModem, HeldInv
<1>2. /\ unit \in Seq(UnitTypes) /\ kept \in 1..Len(unit) /\ Len(unit) \in Nat
      /\ owner \in [Owners -> OwnerTypes] /\ kept' \in 0..Len(unit)
  BY <1>1 DEF ControlTypes
<1>3. PICK v \in UnitTypes :
         /\ StopsMonitor(kept) = [unit EXCEPT ![kept] = v]
         /\ v.open = unit[kept].open /\ v.loop = unit[kept].loop
         /\ ~v.bip /\ (unit[kept].bip \/ unit[kept].handlers = 0 => v.handlers = 0)
  BY <1>1, <1>2, StopsMonitorFacts
<1>4. PICK r \in OwnerTypes, u \in UnitTypes :
         /\ owner' = [owner EXCEPT ![o] = r] /\ unit' = [unit EXCEPT ![kept] = u]
         /\ ~u.bip /\ ~u.loop /\ (unit[kept].bip \/ unit[kept].handlers = 0 => u.handlers = 0)
         /\ \/ r.at = "closing" /\ r.of = kept /\ u.open = unit[kept].open
            \/ r = NoOwner /\ ~u.open
  <2>1. CASE unit[kept].loop
    <3> DEFINE r == [at |-> "closing", of |-> kept, call |-> "close"]
               u == [v EXCEPT !.loop = FALSE]
    <3>1. owner' = [owner EXCEPT ![o] = r] /\ unit' = [[unit EXCEPT ![kept] = v] EXCEPT ![kept].loop = FALSE]
      BY <1>3, <2>1 DEF CloseModem
    <3>2. unit' = [unit EXCEPT ![kept] = u]
      BY <1>2, <3>1
    <3>3. r \in OwnerTypes /\ r.at = "closing" /\ r.of = kept
      BY <1>2 DEF OwnerTypes
    <3>4. /\ u \in UnitTypes /\ ~u.bip /\ ~u.loop /\ u.handlers = v.handlers
          /\ u.open = unit[kept].open
      BY <1>3 DEF UnitTypes
    <3> HIDE DEF r, u
    <3> QED
      BY <1>3, <3>1, <3>2, <3>3, <3>4
  <2>2. CASE ~unit[kept].loop
    <3> DEFINE u == [v EXCEPT !.open = FALSE, !.connected = FALSE]
    <3>1. /\ owner' = [owner EXCEPT ![o] = NoOwner]
          /\ unit' = [[unit EXCEPT ![kept] = v] EXCEPT ![kept].open = FALSE, ![kept].connected = FALSE]
      BY <1>1, <1>2, <1>3, <2>2 DEF CloseModem
    <3>2. unit' = [unit EXCEPT ![kept] = u]
      BY <1>2, <3>1
    <3>3. u \in UnitTypes /\ ~u.bip /\ ~u.loop /\ u.handlers = v.handlers /\ ~u.open
      BY <1>3, <2>2 DEF UnitTypes
    <3> QED
      BY <1>3, <3>1, <3>2, <3>3, NoOwnerFacts
  <2> QED
    BY <2>1, <2>2
<1>5. /\ r.at = "idle" <=> r = NoOwner
      /\ r.at \in {"checking", "initializing", "enabling", "closing"} => r.of \in 1..Len(unit)
  BY <1>2, <1>4, NoOwnerFacts
<1>6. /\ ControlTypes' /\ owner'[o] = r
      /\ \A other \in Owners : other # o => owner'[other] = owner[other]
      /\ Len(unit') = Len(unit) /\ unit'[kept] = u
      /\ \A m \in 1..Len(unit) : m # kept => unit'[m] = unit[m]
  <2>1. /\ unit' \in Seq(UnitTypes) /\ Len(unit') = Len(unit) /\ unit'[kept] = u
        /\ \A m \in 1..Len(unit) : m # kept => unit'[m] = unit[m]
    BY <1>2, <1>4, UnitChanges
  <2>2. /\ owner' \in [Owners -> OwnerTypes] /\ owner'[o] = r
        /\ \A other \in Owners : other # o => owner'[other] = owner[other]
    BY <1>2, <1>4
  <2>3. \A other \in Owners :
            /\ owner'[other].at = "idle" <=> owner'[other] = NoOwner
            /\ owner'[other].at \in {"checking", "initializing", "enabling", "closing"} =>
                   owner'[other].of \in 1..Len(unit)
    BY <1>1, <1>5, <2>2 DEF ControlTypes
  <2>4. kept' \in 0..Len(unit')
    BY <1>2, <2>1
  <2> QED
    BY <1>1, <2>1, <2>2, <2>3, <2>4 DEF ControlTypes
<1>7. \A other \in Owners : other # o => (InHand(other)' <=> InHand(other))
  BY <1>6 DEF InHand
<1>8. HandsApart'
  <2>1. \A other \in Owners : InHand(other)' => owner'[other].of # 0
    BY <1>2, <1>6 DEF ControlTypes, InHand
  <2>2. InHand(o)' => owner'[o].of = kept
    BY <1>4, <1>6, NoOwnerFacts DEF InHand
  <2> QED
    BY <1>1, <1>6, <1>7, <2>1, <2>2 DEF HandsApart
<1>9. ASSUME ~crossed' PROVE AloneInv'
  <2>1. \A other \in Owners : other # o => owner'[other] = NoOwner /\ ~InHand(other) /\ ~InHand(other)'
    BY <1>1, <1>6, <1>9, NoOwnerFacts DEF InHand
  <2>2. ~InHand(o) /\ (InHand(o)' => owner'[o].of = kept)
    BY <1>1, <1>4, <1>6, NoOwnerFacts DEF InHand
  <2>3. ASSUME NEW m \in 1..Len(unit) PROVE UnitSound(m)'
    <3>1. UnitSound(m) /\ UnitSound(kept) /\ unit[kept].open /\ m # 0
      BY <1>1, <1>2, <1>9, <2>1, <2>2 DEF AloneInv, UnitSound
    <3>2. CASE m = kept
      <4>1. u.handlers = 0
        BY <1>4, <3>1 DEF UnitSound
      <4>2. u.open <=> InHand(o)'
        BY <1>4, <1>6, <3>1, NoOwnerFacts DEF InHand
      <4> QED
        BY <1>1, <1>4, <1>6, <2>1, <2>2, <3>1, <3>2, <4>1, <4>2 DEF UnitSound
    <3>3. CASE m # kept
      BY <1>1, <1>6, <2>1, <2>2, <3>1, <3>3 DEF UnitSound
    <3> QED
      BY <3>2, <3>3
  <2>4. InHand(o)' => ~unit'[owner'[o].of].loop
    BY <1>4, <1>6, <2>2
  <2> QED
    BY <1>1, <1>4, <1>6, <2>1, <2>3, <2>4, NoOwnerFacts DEF AloneInv
<1> QED
  BY <1>1, <1>6, <1>8, <1>9 DEF HeldInv, AloneInv

LEMMA ClosePortHolds == ASSUME HeldInv, NEW o \in Owners, ClosePort(o) PROVE HeldInv'
<1> DEFINE n == owner[o].of
           u == [unit[n] EXCEPT !.open = FALSE, !.connected = FALSE]
<1>1. /\ owner[o].at = "closing" /\ kept' = kept /\ unit' = [unit EXCEPT ![n] = u]
      /\ owner' = [owner EXCEPT ![o] = NoOwner]
      /\ owner[o] # NoOwner /\ crossed' = crossed /\ crossed \in BOOLEAN
      /\ owner[o].of \in 1..Len(unit)
      /\ unit \in Seq(UnitTypes) /\ Len(unit) \in Nat /\ kept \in 0..Len(unit)
      /\ owner[o] \in OwnerTypes /\ owner \in [Owners -> OwnerTypes]
      /\ ControlTypes /\ HandsApart /\ AloneInv
  BY CallsGoOn DEF ClosePort, Idle
<1>2. unit[n] \in UnitTypes
  BY <1>1
<1>3. /\ u \in UnitTypes /\ ~u.open
      /\ u.handlers = unit[n].handlers /\ u.bip = unit[n].bip /\ u.loop = unit[n].loop
  BY <1>2 DEF UnitTypes
<1> HIDE DEF u
<1>4. /\ ControlTypes' /\ owner'[o] = NoOwner
      /\ \A other \in Owners : other # o => owner'[other] = owner[other]
      /\ Len(unit') = Len(unit) /\ unit'[n] = u
      /\ \A m \in 1..Len(unit) : m # n => unit'[m] = unit[m]
  BY <1>1, <1>3, NoOwnerFacts, OneOfEach
<1> HIDE DEF n
<1>5. HandsApart'
  BY <1>1, <1>4, NoOwnerFacts DEF HandsApart, InHand, n
<1>6. AloneInv'
  BY <1>1, <1>3, <1>4, NoOwnerFacts DEF AloneInv, InHand, UnitSound, n
<1> QED
  BY <1>4, <1>5, <1>6 DEF HeldInv

LEMMA HeldInvStep == HeldInv /\ [ControlNext \/ NetworkManagerNext \/ DiagnosticNext]_controlVars
                     => HeldInv'
<1> SUFFICES ASSUME HeldInv, [ControlNext \/ NetworkManagerNext \/ DiagnosticNext]_controlVars
             PROVE  HeldInv'
  OBVIOUS
<1>1. crossed \in BOOLEAN
  BY DEF HeldInv, ControlTypes
<1>2. CASE ControlNext
  BY <1>2, GetModemHolds, OpenPortHolds, CheckAliveHolds, ConnectedHolds, BipStartsHolds,
     StopBipMonitoringHolds, CloseModemHolds, ClosePortHolds DEF ControlNext
<1>3. CASE NetworkManagerNext
  BY <1>1, <1>3, HeldUndisturbed DEF NetworkManagerNext, NetworkAnswers, AskNetwork, NetworkComesAndGoes
<1>4. CASE DiagnosticNext
  <2>1. /\ UNCHANGED <<unit, kept, owner>>
        /\ crossed' = crossed \/ crossed' = (crossed \/ dm.leaving # {})
    BY <1>4 DEF DiagnosticNext, ConnectDm, StartLogging, DisconnectDm, DmDisconnected, Diagnoses
  <2>2. crossed' \in BOOLEAN /\ (crossed => crossed')
    BY <1>1, <2>1
  <2> QED
    BY <2>1, <2>2, HeldUndisturbed
<1>5. CASE UNCHANGED controlVars
  BY <1>1, <1>5, HeldUndisturbed DEF controlVars
<1> QED
  BY <1>2, <1>3, <1>4, <1>5

-----------------------------------------------------------------------------
(* The network manager                                                        *)

MobileTypes == [registered : BOOLEAN, apn : {"old", "new"}, active : BOOLEAN]

LEMMA SeesIsTold ==
  ASSUME NEW m \in MobileTypes, NEW c PROVE Sees(c, m) \in BOOLEAN
BY DEF Sees, MobileTypes

(* Every call in progress notes what it sees.                                 *)
LEMMA WatchingFacts ==
  ASSUME NEW chats \in [Owners -> ChatTypes], NEW m \in MobileTypes
  PROVE  /\ Watching(chats, m) \in [Owners -> ChatTypes]
         /\ \A o \in Owners :
               /\ Watching(chats, m)[o].at = chats[o].at
               /\ Watching(chats, m)[o].call = chats[o].call
               /\ Watching(chats, m)[o].looks = chats[o].looks
               /\ Watching(chats, m)[o].result = chats[o].result
               /\ Watching(chats, m)[o].seen <=>
                     chats[o].seen \/ (chats[o].at # "idle" /\ Sees(chats[o].call, m))
<1>1. ASSUME NEW o \in Owners
      PROVE  /\ Watching(chats, m)[o] =
                    [chats[o] EXCEPT !.seen = @ \/ (chats[o].at # "idle" /\ Sees(chats[o].call, m))]
             /\ chats[o] \in ChatTypes
  BY DEF Watching
<1>2. ASSUME NEW o \in Owners
      PROVE  /\ Watching(chats, m)[o] \in ChatTypes
             /\ Watching(chats, m)[o].at = chats[o].at
             /\ Watching(chats, m)[o].call = chats[o].call
             /\ Watching(chats, m)[o].looks = chats[o].looks
             /\ Watching(chats, m)[o].result = chats[o].result
             /\ Watching(chats, m)[o].seen <=>
                   chats[o].seen \/ (chats[o].at # "idle" /\ Sees(chats[o].call, m))
  <2>1. PICK b \in BOOLEAN : b <=> chats[o].seen \/ (chats[o].at # "idle" /\ Sees(chats[o].call, m))
    OBVIOUS
  <2>2. chats[o].seen \in BOOLEAN
    BY <1>1 DEF ChatTypes
  <2>3. Watching(chats, m)[o] = [chats[o] EXCEPT !.seen = b]
    BY <1>1, <2>1, <2>2, SeesIsTold
  <2> QED
    BY <1>1, <2>1, <2>3 DEF ChatTypes
<1>3. Watching(chats, m) \in [Owners -> ChatTypes]
  BY <1>2 DEF Watching
<1> QED
  BY <1>2, <1>3

LEMMA SeenInvInit == ControlInit => SeenInv
<1> SUFFICES ASSUME ControlInit PROVE SeenInv
  OBVIOUS
<1>1. chat = [o \in Owners |-> NoChat] /\ astray = FALSE
      /\ mobile = [registered |-> FALSE, apn |-> "old", active |-> FALSE]
  BY DEF ControlInit
<1>2. NoChat \in ChatTypes /\ NoChat.at = "idle" /\ NoChat.result = "none"
  BY DEF NoChat, ChatTypes
<1> QED
  BY <1>1, <1>2 DEF SeenInv

LEMMA AskNetworkHolds ==
  ASSUME SeenInv, NEW o \in Owners, NEW c \in NetworkCalls, AskNetwork(o, c) PROVE SeenInv'
<1> DEFINE new == [NoChat EXCEPT !.call = c, !.at = "first"]
           chats == [chat EXCEPT ![o] = new]
<1>1. /\ chat' = Watching(chats, mobile) /\ UNCHANGED <<mobile, astray>>
      /\ mobile \in MobileTypes /\ chat \in [Owners -> ChatTypes] /\ astray \in BOOLEAN
  BY DEF AskNetwork, SeenInv, MobileTypes
<1>2. /\ new \in ChatTypes /\ new.at = "first" /\ new.call = c /\ new.result = "none"
      /\ c # "none"
  BY DEF NoChat, ChatTypes, NetworkCalls
<1> HIDE DEF new
<1>3. /\ chats \in [Owners -> ChatTypes] /\ chats[o] = new
      /\ \A x \in Owners : x # o => chats[x] = chat[x]
  BY <1>1, <1>2
<1> HIDE DEF chats
<1>4. /\ chat' \in [Owners -> ChatTypes]
      /\ \A x \in Owners :
            /\ chat'[x].at = chats[x].at /\ chat'[x].call = chats[x].call
            /\ chat'[x].result = chats[x].result
            /\ chat'[x].seen <=> chats[x].seen \/ (chats[x].at # "idle" /\ Sees(chats[x].call, mobile))
  BY <1>1, <1>3, WatchingFacts
<1> QED
  BY <1>1, <1>2, <1>3, <1>4 DEF SeenInv

LEMMA NetworkComesAndGoesHolds == ASSUME SeenInv, NetworkComesAndGoes PROVE SeenInv'
<1>1. /\ chat' = Watching(chat, mobile') /\ UNCHANGED astray
      /\ mobile \in MobileTypes /\ chat \in [Owners -> ChatTypes] /\ astray \in BOOLEAN
      /\ \/ mobile' = [mobile EXCEPT !.registered = ~@]
         \/ mobile' = [mobile EXCEPT !.active = FALSE]
  BY DEF NetworkComesAndGoes, SeenInv, MobileTypes
<1>2. mobile' \in MobileTypes
  BY <1>1 DEF MobileTypes
<1>3. /\ chat' \in [Owners -> ChatTypes]
      /\ \A x \in Owners :
            /\ chat'[x].at = chat[x].at /\ chat'[x].call = chat[x].call
            /\ chat'[x].result = chat[x].result
            /\ chat'[x].seen <=> chat[x].seen \/ (chat[x].at # "idle" /\ Sees(chat[x].call, mobile'))
  BY <1>1, <1>2, WatchingFacts
<1> QED
  BY <1>1, <1>2, <1>3 DEF SeenInv, MobileTypes

(* Where an answer takes a call: to its second command only from its first,   *)
(* and out with a "yes" only with a good answer, or, after the second command *)
(* of a "login", with any.                                                    *)
LEMMA ProceedsFacts ==
  ASSUME NEW o \in Owners, chat[o] \in ChatTypes, chat[o].at # "idle",
         chat[o].at = "second" => chat[o].call \in {"wait", "login"},
         NEW good \in BOOLEAN, NEW lost \in BOOLEAN
  PROVE  /\ Proceeds(o, good, lost) \in ChatTypes
         /\ Proceeds(o, good, lost).call = chat[o].call
         /\ Proceeds(o, good, lost).at = "second" =>
                \/ chat[o].call = "wait"
                \/ chat[o].call = "login" /\ chat[o].at = "first" /\ good
         /\ Proceeds(o, good, lost).result = "yes" =>
                \/ chat[o].result = "yes"
                \/ good /\ (chat[o].at = "second" => chat[o].call = "wait")
                \/ chat[o].call = "login" /\ chat[o].at = "second"
<1> DEFINE w == chat[o]
<1>1. ASSUME NEW g \in BOOLEAN
      PROVE  /\ Told(o, g) \in ChatTypes /\ Told(o, g).call = w.call
             /\ Told(o, g).at = "idle" /\ (Told(o, g).result = "yes" => g)
  BY <1>1 DEF Told, ChatTypes
<1>2. /\ LooksOn(o) \in ChatTypes /\ LooksOn(o).call = w.call
      /\ LooksOn(o).result = "yes" => w.result = "yes"
  <2>1. CASE w.at = "first"
    <3>1. LooksOn(o) = [w EXCEPT !.at = "second"]
      BY <2>1 DEF LooksOn
    <3> QED
      BY <3>1 DEF ChatTypes
  <2>2. CASE w.at # "first" /\ w.looks < MaxLooks
    <3>1. PICK l \in Nat : l = w.looks + 1
      BY DEF ChatTypes
    <3>2. LooksOn(o) = [w EXCEPT !.at = "first", !.looks = l]
      BY <2>2, <3>1 DEF LooksOn, ChatTypes
    <3> QED
      BY <3>1, <3>2 DEF ChatTypes
  <2>3. CASE w.at # "first" /\ ~(w.looks < MaxLooks)
    BY <2>3, <1>1 DEF LooksOn
  <2> QED
    BY <2>1, <2>2, <2>3
<1>3. CASE w.call = "wait" /\ ~good
  <2>1. Proceeds(o, good, lost) = LooksOn(o)
    BY <1>3 DEF Proceeds
  <2> QED
    BY <2>1, <1>2, <1>3
<1>4. CASE w.call = "login" /\ w.at = "first" /\ good
  <2>1. Proceeds(o, good, lost) = [w EXCEPT !.at = "second"]
    BY <1>4 DEF Proceeds
  <2> QED
    BY <2>1, <1>4 DEF ChatTypes
<1>5. CASE w.call = "login" /\ w.at = "second"
  <2>1. Proceeds(o, good, lost) = Told(o, ~lost)
    BY <1>5 DEF Proceeds
  <2> QED
    BY <2>1, <1>1, <1>5
<1>6. CASE /\ ~(w.call = "wait" /\ ~good) /\ ~(w.call = "login" /\ w.at = "first" /\ good)
           /\ ~(w.call = "login" /\ w.at = "second")
  <2>1. Proceeds(o, good, lost) = Told(o, good)
    BY <1>6 DEF Proceeds
  <2> QED
    BY <2>1, <1>1, <1>6
<1> QED
  BY <1>3, <1>4, <1>5, <1>6

(* An honest good answer to a first command tells what then is so.            *)
LEMMA GoodIsSeen ==
  ASSUME mobile \in MobileTypes, NEW c \in NetworkCalls, NEW obeyed \in BOOLEAN, NEW first \in BOOLEAN,
         mobile' = IF obeyed /\ first THEN Obeyed(c) ELSE mobile,
         first \/ c = "wait", obeyed, TRUE \in Honest(c)
  PROVE  Sees(c, mobile')
<1>1. CASE c = "wait" \/ c = "is active"
  <2>1. mobile' = mobile
    BY <1>1 DEF Obeyed
  <2>2. (c = "wait" => mobile.registered) /\ (c = "is active" => mobile.active)
    BY <1>1 DEF Honest
  <2> QED
    BY <1>1, <2>1, <2>2 DEF Sees
<1>2. CASE c = "apn" \/ c = "login"
  BY <1>2 DEF Obeyed, Sees, MobileTypes
<1>3. CASE c = "activate"
  BY <1>3 DEF Obeyed, Sees, MobileTypes
<1>4. CASE c = "deactivate"
  BY <1>4 DEF Obeyed, Sees, MobileTypes
<1> QED
  BY <1>1, <1>2, <1>3, <1>4 DEF NetworkCalls

LEMMA NetworkAnswersHolds == ASSUME SeenInv, NEW o \in Owners, NetworkAnswers(o) PROVE SeenInv'
<1>1. PICK obeyed \in BOOLEAN, sensed \in {"honest", "any", "lost"} :
         /\ sensed = "any" => astray
         /\ mobile' = IF obeyed /\ chat[o].at = "first" THEN Obeyed(chat[o].call) ELSE mobile
         /\ \E good \in IF sensed = "any" THEN BOOLEAN
                        ELSE IF sensed = "lost" \/ ~obeyed THEN {FALSE} ELSE Honest(chat[o].call) :
              LET watched == Watching(chat, mobile')
              IN chat' = [watched EXCEPT ![o] = [Proceeds(o, good, sensed = "lost") EXCEPT !.seen = watched[o].seen]]
         /\ astray' = (astray \/ sensed = "lost")
  BY DEF NetworkAnswers
<1> DEFINE watched == Watching(chat, mobile')
<1>2. PICK good \in IF sensed = "any" THEN BOOLEAN
                    ELSE IF sensed = "lost" \/ ~obeyed THEN {FALSE} ELSE Honest(chat[o].call) :
         chat' = [watched EXCEPT ![o] = [Proceeds(o, good, sensed = "lost") EXCEPT !.seen = watched[o].seen]]
  BY <1>1
<1>3. /\ mobile \in MobileTypes /\ chat \in [Owners -> ChatTypes] /\ astray \in BOOLEAN
      /\ chat[o] \in ChatTypes /\ chat[o].at # "idle" /\ chat[o].call \in NetworkCalls
      /\ chat[o].at = "second" => chat[o].call \in {"wait", "login"}
  <2>1. /\ mobile \in MobileTypes /\ chat \in [Owners -> ChatTypes] /\ astray \in BOOLEAN
        /\ chat[o].at # "idle" /\ chat[o].call # "none"
        /\ chat[o].at = "second" => chat[o].call \in {"wait", "login"}
    BY DEF NetworkAnswers, SeenInv, MobileTypes
  <2> QED
    BY <2>1 DEF ChatTypes
<1>4. good \in BOOLEAN /\ mobile' \in MobileTypes
  <2>1. Honest(chat[o].call) \subseteq BOOLEAN
    BY <1>3 DEF Honest, MobileTypes
  <2>2. Obeyed(chat[o].call) \in MobileTypes
    BY <1>3 DEF Obeyed, MobileTypes
  <2> QED
    BY <1>1, <1>2, <1>3, <2>1, <2>2
<1>5. /\ watched \in [Owners -> ChatTypes]
      /\ \A x \in Owners :
            /\ watched[x].at = chat[x].at /\ watched[x].call = chat[x].call
            /\ watched[x].result = chat[x].result
            /\ watched[x].seen <=> chat[x].seen \/ (chat[x].at # "idle" /\ Sees(chat[x].call, mobile'))
  BY <1>3, <1>4, WatchingFacts
<1>6. PICK q : q = Proceeds(o, good, sensed = "lost")
  OBVIOUS
<1>7. /\ q \in ChatTypes /\ q.call = chat[o].call
      /\ q.at = "second" =>
            \/ chat[o].call = "wait"
            \/ chat[o].call = "login" /\ chat[o].at = "first" /\ good
      /\ q.result = "yes" =>
            \/ chat[o].result = "yes"
            \/ good /\ (chat[o].at = "second" => chat[o].call = "wait")
            \/ chat[o].call = "login" /\ chat[o].at = "second"
  <2>1. PICK lost \in BOOLEAN : lost = (sensed = "lost")
    OBVIOUS
  <2>2. q = Proceeds(o, good, lost)
    BY <1>6, <2>1
  <2> QED
    BY <1>3, <1>4, <2>2, ProceedsFacts
<1> DEFINE r == [q EXCEPT !.seen = watched[o].seen]
<1>8. chat' = [watched EXCEPT ![o] = r]
  BY <1>2, <1>6
<1>9. /\ r \in ChatTypes /\ r.at = q.at /\ r.call = q.call /\ r.result = q.result
      /\ r.seen = watched[o].seen
  <2>1. watched[o].seen \in BOOLEAN
    BY <1>5 DEF ChatTypes
  <2> QED
    BY <1>7, <2>1 DEF ChatTypes
<1> HIDE DEF watched, r
<1>10. /\ chat' \in [Owners -> ChatTypes] /\ chat'[o] = r
       /\ \A x \in Owners : x # o => chat'[x] = watched[x]
  BY <1>5, <1>8, <1>9
<1>11. astray' \in BOOLEAN /\ (astray => astray')
  BY <1>1, <1>3
<1>12. ASSUME ~astray', good, chat[o].at = "second" => chat[o].call = "wait"
       PROVE  Sees(chat[o].call, mobile')
  <2>1. sensed = "honest"
    BY <1>1, <1>12
  <2>2. obeyed /\ TRUE \in Honest(chat[o].call)
    BY <1>2, <1>12, <2>1
  <2>3. PICK first \in BOOLEAN : first <=> chat[o].at = "first"
    OBVIOUS
  <2>4. first \/ chat[o].call = "wait"
    BY <1>3, <1>12, <2>3 DEF ChatTypes
  <2>5. mobile' = IF obeyed /\ first THEN Obeyed(chat[o].call) ELSE mobile
    BY <1>1, <2>3
  <2> QED
    BY <1>3, <2>2, <2>4, <2>5, GoodIsSeen
<1>13. ASSUME NEW x \in Owners, x # o
       PROVE  /\ chat'[x].at # "idle" => chat'[x].call # "none"
              /\ chat'[x].at # "idle" /\ Sees(chat'[x].call, mobile') => chat'[x].seen
              /\ chat'[x].at = "second" => chat'[x].call \in {"wait", "login"}
              /\ chat'[x].at = "second" /\ chat'[x].call = "login" /\ ~astray' => chat'[x].seen
              /\ chat'[x].result = "yes" /\ ~astray' => chat'[x].seen
  BY <1>5, <1>10, <1>11, <1>13 DEF SeenInv
<1>14. /\ r.at # "idle" => r.call # "none"
       /\ r.at # "idle" /\ Sees(r.call, mobile') => r.seen
       /\ r.at = "second" => r.call \in {"wait", "login"}
       /\ r.at = "second" /\ r.call = "login" /\ ~astray' => r.seen
       /\ r.result = "yes" /\ ~astray' => r.seen
  <2>1. r.seen <=> chat[o].seen \/ Sees(chat[o].call, mobile')
    BY <1>3, <1>5, <1>9
  <2>2. ASSUME r.at = "second", r.call = "login", ~astray' PROVE r.seen
    BY <1>7, <1>9, <1>12, <2>1, <2>2
  <2>3. ASSUME r.result = "yes", ~astray' PROVE r.seen
    <3>1. CASE chat[o].result = "yes" \/ (chat[o].call = "login" /\ chat[o].at = "second")
      BY <1>11, <2>1, <2>3, <3>1 DEF SeenInv
    <3>2. CASE good /\ (chat[o].at = "second" => chat[o].call = "wait")
      BY <1>12, <2>1, <2>3, <3>2
    <3> QED
      BY <1>7, <1>9, <2>3, <3>1, <3>2
  <2>4. chat[o].call # "none"
    BY <1>3 DEF NetworkCalls
  <2> QED
    BY <1>7, <1>9, <2>1, <2>2, <2>3, <2>4
<1> QED
  BY <1>4, <1>10, <1>11, <1>13, <1>14 DEF SeenInv, MobileTypes

LEMMA SeenInvStep == SeenInv /\ [ControlNext \/ NetworkManagerNext \/ DiagnosticNext]_controlVars
                     => SeenInv'
<1> SUFFICES ASSUME SeenInv, [ControlNext \/ NetworkManagerNext \/ DiagnosticNext]_controlVars
             PROVE  SeenInv'
  OBVIOUS
<1>1. ASSUME UNCHANGED networkVars PROVE SeenInv'
  BY <1>1 DEF networkVars, SeenInv
<1>2. CASE ControlNext
  <2>1. UNCHANGED networkVars
    BY <1>2 DEF ControlNext, GetModem, OpenPort, CheckAlive, Connected_, BipStarts, StopBipMonitoring,
                CloseModem, ClosePort, Orders, GoesOn, ControlRest
  <2> QED
    BY <1>1, <2>1
<1>3. CASE NetworkManagerNext
  BY <1>3, NetworkAnswersHolds, AskNetworkHolds, NetworkComesAndGoesHolds DEF NetworkManagerNext
<1>4. CASE DiagnosticNext
  <2>1. UNCHANGED networkVars
    BY <1>4 DEF DiagnosticNext, ConnectDm, StartLogging, DisconnectDm, DmDisconnected, Diagnoses
  <2> QED
    BY <1>1, <2>1
<1>5. CASE UNCHANGED controlVars
  BY <1>1, <1>5 DEF controlVars, networkVars
<1> QED
  BY <1>2, <1>3, <1>4, <1>5

-----------------------------------------------------------------------------
(* The diagnostic port                                                        *)

DmTypes == [connected : BOOLEAN, open : BOOLEAN, logging : BOOLEAN, reader : {"none", "runs"},
            leaving : SUBSET Owners]

LEMMA DmInvInit == ControlInit => DmInv
<1> SUFFICES ASSUME ControlInit PROVE DmInv
  OBVIOUS
<1>1. /\ crossed = FALSE
      /\ dm = [connected |-> FALSE, open |-> FALSE, logging |-> FALSE, reader |-> "none", leaving |-> {}]
  BY DEF ControlInit
<1>2. dm \in DmTypes /\ ~dm.connected /\ ~dm.open /\ ~dm.logging /\ dm.reader = "none" /\ dm.leaving = {}
  BY <1>1 DEF DmTypes
<1> QED
  BY <1>1, <1>2 DEF DmInv, DmTypes

LEMMA DmUndisturbed ==
  ASSUME DmInv, UNCHANGED dm, crossed' \in BOOLEAN, crossed => crossed' PROVE DmInv'
BY DEF DmInv

LEMMA DmInvStep == DmInv /\ [ControlNext \/ NetworkManagerNext \/ DiagnosticNext]_controlVars
                   => DmInv'
<1> SUFFICES ASSUME DmInv, [ControlNext \/ NetworkManagerNext \/ DiagnosticNext]_controlVars
             PROVE  DmInv'
  OBVIOUS
<1>1. crossed \in BOOLEAN /\ dm \in DmTypes
  BY DEF DmInv, DmTypes
<1>2. CASE ControlNext
  <2>1. /\ UNCHANGED dm
        /\ crossed' = crossed \/ \E o \in Owners : Orders(o)
    BY <1>2 DEF ControlNext, GetModem, OpenPort, CheckAlive, Connected_, BipStarts, StopBipMonitoring,
                CloseModem, ClosePort, Orders, GoesOn, ControlRest
  <2>2. crossed' \in BOOLEAN /\ (crossed => crossed')
    BY <1>1, <2>1 DEF Orders
  <2> QED
    BY <2>1, <2>2, DmUndisturbed
<1>3. CASE NetworkManagerNext
  BY <1>1, <1>3, DmUndisturbed DEF NetworkManagerNext, NetworkAnswers, AskNetwork, NetworkComesAndGoes
<1>4. CASE UNCHANGED controlVars
  BY <1>1, <1>4, DmUndisturbed DEF controlVars
<1>5. ASSUME NEW o \in Owners, Diagnoses(o)
      PROVE  /\ o \notin dm.leaving /\ crossed' \in BOOLEAN
             /\ ~crossed' => ~crossed /\ dm.leaving = {}
  BY <1>1, <1>5 DEF Diagnoses
<1>6. ASSUME NEW o \in Owners, ConnectDm(o) PROVE DmInv'
  <2>1. PICK opens \in BOOLEAN : dm' = [dm EXCEPT !.connected = opens, !.open = opens]
    BY <1>6 DEF ConnectDm
  <2>2. /\ dm' \in DmTypes /\ dm'.connected = opens /\ dm'.open = opens /\ dm'.logging = dm.logging
        /\ dm'.reader = dm.reader /\ dm'.leaving = dm.leaving
    BY <1>1, <2>1 DEF DmTypes
  <2>3. /\ ~dm.connected /\ crossed' \in BOOLEAN
        /\ ~crossed' => ~crossed /\ dm.leaving = {}
    BY <1>5, <1>6 DEF ConnectDm
  <2> QED
    BY <2>2, <2>3 DEF DmInv, DmTypes
<1>7. ASSUME NEW o \in Owners, StartLogging(o) PROVE DmInv'
  <2>1. dm' = [dm EXCEPT !.logging = TRUE, !.reader = "runs"] /\ dm.connected
    BY <1>7 DEF StartLogging
  <2>2. /\ dm' \in DmTypes /\ dm'.connected = dm.connected /\ dm'.open = dm.open /\ dm'.logging
        /\ dm'.reader = "runs" /\ dm'.leaving = dm.leaving
    BY <1>1, <2>1 DEF DmTypes
  <2>3. /\ crossed' \in BOOLEAN
        /\ ~crossed' => ~crossed /\ dm.leaving = {}
    BY <1>5, <1>7 DEF StartLogging
  <2> QED
    BY <2>1, <2>2, <2>3 DEF DmInv, DmTypes
<1>8. ASSUME NEW o \in Owners, DisconnectDm(o) PROVE DmInv'
  <2>1. /\ crossed' \in BOOLEAN
        /\ ~crossed' => ~crossed /\ dm.leaving = {}
    BY <1>5, <1>8 DEF DisconnectDm
  <2>2. CASE dm.logging
    <3>1. dm' = [dm EXCEPT !.logging = FALSE, !.leaving = dm.leaving \cup {o}]
      BY <1>8, <2>2 DEF DisconnectDm
    <3>2. dm.leaving \cup {o} \in SUBSET Owners
      BY <1>1 DEF DmTypes
    <3>3. dm' \in DmTypes /\ ~dm'.logging /\ dm'.leaving = dm.leaving \cup {o}
      BY <1>1, <3>1, <3>2 DEF DmTypes
    <3> QED
      BY <2>1, <3>3 DEF DmInv, DmTypes
  <2>3. CASE ~dm.logging
    <3>1. dm' = [dm EXCEPT !.connected = FALSE, !.open = FALSE]
      BY <1>8, <2>3 DEF DisconnectDm
    <3>2. /\ dm' \in DmTypes /\ ~dm'.connected /\ ~dm'.open /\ ~dm'.logging
          /\ dm'.reader = dm.reader /\ dm'.leaving = dm.leaving
      BY <1>1, <2>3, <3>1 DEF DmTypes
    <3> QED
      BY <2>1, <2>3, <3>2 DEF DmInv, DmTypes
  <2> QED
    BY <2>2, <2>3
<1>9. ASSUME NEW o \in Owners, DmDisconnected(o) PROVE DmInv'
  <2>1. /\ dm' = [dm EXCEPT !.connected = FALSE, !.open = FALSE, !.leaving = dm.leaving \ {o}, !.reader = "none"]
        /\ crossed' = crossed /\ o \in dm.leaving
    BY <1>9 DEF DmDisconnected
  <2>2. dm.leaving \ {o} \in SUBSET Owners
    BY <1>1 DEF DmTypes
  <2>3. /\ dm' \in DmTypes /\ ~dm'.connected /\ ~dm'.open /\ dm'.logging = dm.logging
        /\ dm'.reader = "none" /\ dm'.leaving = dm.leaving \ {o}
    BY <1>1, <2>1, <2>2 DEF DmTypes
  <2>4. ~crossed => dm.leaving = {o} /\ ~dm.logging
    BY <2>1 DEF DmInv
  <2> QED
    BY <2>1, <2>3, <2>4, <1>1 DEF DmInv, DmTypes
<1> QED
  BY <1>2, <1>3, <1>4, <1>6, <1>7, <1>8, <1>9 DEF DiagnosticNext

(* modem/controller.py, vendors/base.py, bip_monitor.py, network_manager.py   *)
(* and qxdm_interface.py: however tasks call them, the modem that is kept is   *)
(* connected, and while no two calls cross nothing else is open; a network     *)
(* call says done only what was so during the call; and the diagnostic port is *)
(* logged when it is read.                                                     *)
THEOREM ControlSafety == ControlSpec => []ControlSound
<1>1. HeldInv => PortHeldOnce
  <2> SUFFICES ASSUME HeldInv PROVE PortHeldOnce
    OBVIOUS
  <2>1. /\ unit \in Seq(UnitTypes) /\ DOMAIN unit = 1..Len(unit)
        /\ HandsApart /\ AloneInv
    BY DEF HeldInv, ControlTypes
  <2>2. ASSUME ~crossed, NEW n \in DOMAIN unit
        PROVE  /\ unit[n].handlers <= 1 /\ (unit[n].loop => unit[n].open)
               /\ (\A o \in Owners : owner[o] = NoOwner) => (unit[n].open <=> n = kept)
    <3>1. UnitSound(n)
      BY <2>1, <2>2 DEF AloneInv
    <3>2. unit[n].handlers \in {0, 1}
      BY <3>1 DEF UnitSound
    <3> QED
      BY <3>1, <3>2, NoOwnerFacts DEF UnitSound, InHand
  <2> QED
    BY <2>1, <2>2 DEF PortHeldOnce, HandsApart
<1>2. SeenInv => SaidIsSeen
  BY DEF SeenInv, SaidIsSeen
<1>3. DmInv => LoggedIsRead
  BY DEF DmInv, LoggedIsRead
<1> QED
  BY <1>1, <1>2, <1>3, HeldInvInit, HeldInvStep, SeenInvInit, SeenInvStep, DmInvInit, DmInvStep, PTL
     DEF ControlSpec, ControlSound

-----------------------------------------------------------------------------
(* The AT link                                                                *)

Ids == Callers \X Nat
LineItems == [is : {"ok", "crlf", "error", "prompt", "cmgs"}, id : Ids]
QueueItems == [is : {"command", "cmgs", "pdu", "esc"}, id : Ids]
CallTypes == [at : {"idle", "lock", "flush", "write", "read", "prompt", "text", "escape", "sleep"},
              sms : BOOLEAN, number : Nat, attempt : Nat, got : Seq(LineItems),
              result : {"none", "ok", "error", "timeout", "failed"}]

LinkRest ==
    /\ setup \in Setups
    /\ line \in Seq(LineItems) /\ queue \in Seq(QueueItems)
    /\ text \in BOOLEAN /\ garbled \in BOOLEAN
    /\ lock \in Callers \cup {Nobody} /\ orphans \in {0, 1} /\ pduMode \in BOOLEAN
    /\ disturbed \in BOOLEAN

(* A caller is somewhere it can be: it waits for the lock, or holds it, with  *)
(* a command, and for a prompt, or its next attempt, with a message.          *)
RecordSound(c, r, holder) ==
    /\ r.number \in 0..Len(setup.calls[c])
    /\ r.attempt \in 0..setup.retries + 1
    /\ r.at \in {"idle", "lock"} => r.attempt = 0
    /\ r.at \in {"idle", "lock", "flush", "write"} => r.got = <<>>
    /\ r.at \in {"prompt", "text", "escape", "sleep"} => r.attempt > 0
    /\ r.at = "sleep" => r.attempt <= setup.retries
    /\ holder = c <=> r.attempt = 0 /\ r.at \in {"flush", "write", "read"}

LinkTypes ==
    LinkRest /\ call \in [Callers -> CallTypes] /\ \A c \in Callers : RecordSound(c, call[c], lock)

(* While nothing has disturbed the link: nothing is on it but the line end    *)
(* nobody read, until the holder of the lock writes; then its command, and    *)
(* after it its answer, of which it may have read as much as says nothing.    *)
OwnOk(c) == <<Item("ok", Id(c)), Item("crlf", Id(c))>>
Waits(c) ==
    \/ call[c].got = <<>> /\ line = <<>> /\ queue = <<Item("command", Id(c))>>
    \/ call[c].got = <<>> /\ line \in {<<>>, OwnOk(c), <<Item("error", Id(c))>>} /\ queue = <<>>
    \/ call[c].got = OwnOk(c) /\ line = <<>> /\ queue = <<>>

QuietInv ==
    /\ stray = FALSE
    /\ ~disturbed =>
        /\ orphans = 0 /\ text = FALSE
        /\ \A c \in Callers :
              /\ call[c].at \in {"idle", "lock", "flush", "write", "read"}
              /\ call[c].at = "read" => call[c].attempt = 0 /\ Waits(c)
              /\ lock = c /\ call[c].at = "write" => line = <<>>
        /\ (\A c \in Callers : call[c].at # "read") =>
              queue = <<>> /\ Kinds(line) \subseteq {"crlf"}

LinkInv == LinkTypes /\ QuietInv

LEMMA ItemFacts ==
  ASSUME LinkTypes, NEW c \in Callers
  PROVE  /\ Id(c) \in Ids
         /\ \A is : Item(is, Id(c)).is = is /\ Item(is, Id(c)).id = Id(c)
         /\ \A is \in {"ok", "crlf", "error", "prompt", "cmgs"} : Item(is, Id(c)) \in LineItems
         /\ \A is \in {"command", "cmgs", "pdu", "esc"} : Item(is, Id(c)) \in QueueItems
<1>1. call[c] \in CallTypes
  BY DEF LinkTypes
<1>2. Id(c) \in Ids
  BY <1>1 DEF Id, Ids, CallTypes
<1> QED
  BY <1>2 DEF Item, LineItems, QueueItems

LEMMA SetupFacts ==
  ASSUME LinkTypes, NEW c \in Callers
  PROVE  /\ setup.retries \in Nat /\ setup.calls[c] \in Seq({"command", "sms"})
         /\ Len(setup.calls[c]) \in Nat
<1>1. setup.retries \in Nat /\ setup.calls \in [Callers -> Seq({"command", "sms"})]
  BY ModemLinkAssumption DEF LinkTypes, LinkRest
<1> QED
  BY <1>1

LEMMA NoCallFacts ==
  ASSUME NEW n \in Nat, NEW result \in {"none", "ok", "error", "timeout", "failed"}
  PROVE  /\ NoCall(n, result) \in CallTypes /\ NoCall(n, result).at = "idle"
         /\ NoCall(n, result).attempt = 0 /\ NoCall(n, result).number = n
         /\ NoCall(n, result).got = <<>> /\ ~NoCall(n, result).sms
BY DEF NoCall, CallTypes

(* A caller starts to write once nothing is to be read.                       *)
LEMMA FlushesFacts ==
  ASSUME NEW c \in Callers, NEW rec \in CallTypes, Flushes(c, rec)
  PROVE  \E r \in CallTypes :
            /\ call' = [call EXCEPT ![c] = r] /\ r.at \in {"write", "flush"}
            /\ r.at = "write" <=> line = <<>>
            /\ r.number = rec.number /\ r.attempt = rec.attempt /\ r.got = <<>>
<1>1. PICK at \in {"write", "flush"} : at = IF line = <<>> THEN "write" ELSE "flush"
  OBVIOUS
<1> DEFINE r == [rec EXCEPT !.got = <<>>, !.at = at]
<1>2. call' = [call EXCEPT ![c] = r]
  BY <1>1 DEF Flushes
<1>3. r \in CallTypes /\ r.at = at /\ r.number = rec.number /\ r.attempt = rec.attempt /\ r.got = <<>>
  <2>1. <<>> \in Seq(LineItems)
    OBVIOUS
  <2> QED
    BY <2>1 DEF CallTypes
<1> QED
  BY <1>1, <1>2, <1>3

(* The holder of the lock is done with its command.                           *)
LEMMA CommandEndsFacts ==
  ASSUME NEW c \in Callers, NEW rec \in CallTypes,
         NEW result \in {"none", "ok", "error", "timeout", "failed"},
         CommandEnds(c, result, rec), pduMode \in BOOLEAN
  PROVE  /\ lock' = Nobody /\ pduMode' \in BOOLEAN
         /\ \E r \in CallTypes :
               /\ call' = [call EXCEPT ![c] = r] /\ r.number = rec.number /\ r.got = <<>>
               /\ \/ r.at = "idle" /\ r.attempt = 0
                  \/ r.at \in {"write", "flush"} /\ r.attempt = 1
<1>1. lock' = Nobody
  BY DEF CommandEnds
<1>2. CASE rec.sms /\ result = "ok"
  <2> DEFINE first == [rec EXCEPT !.attempt = 1]
  <2>1. first \in CallTypes /\ first.attempt = 1 /\ first.number = rec.number
    BY DEF CallTypes
  <2>2. pduMode' = TRUE /\ Flushes(c, first)
    BY <1>2 DEF CommandEnds
  <2> HIDE DEF first
  <2> QED
    BY <1>1, <2>1, <2>2, FlushesFacts
<1>3. CASE ~(rec.sms /\ result = "ok")
  <2>1. call' = [call EXCEPT ![c] = NoCall(rec.number, result)] /\ pduMode' = pduMode
    BY <1>3 DEF CommandEnds
  <2>2. rec.number \in Nat
    BY DEF CallTypes
  <2> QED
    BY <1>1, <2>1, <2>2, NoCallFacts
<1> QED
  BY <1>2, <1>3

(* One caller moves.                                                          *)
LEMMA CallerMoves ==
  ASSUME LinkTypes, NEW c \in Callers, NEW r \in CallTypes, call' = [call EXCEPT ![c] = r],
         LinkRest', setup' = setup, RecordSound(c, r, lock'),
         \A d \in Callers : d # c => (lock' = d <=> lock = d)
  PROVE  /\ LinkTypes' /\ call'[c] = r
         /\ \A d \in Callers : d # c => call'[d] = call[d]
<1>1. /\ call' \in [Callers -> CallTypes] /\ call'[c] = r
      /\ \A d \in Callers : d # c => call'[d] = call[d]
  BY DEF LinkTypes
<1>2. \A d \in Callers : RecordSound(d, call[d], lock)'
  <2>1. RecordSound(c, call[c], lock)'
    BY <1>1 DEF RecordSound
  <2>2. ASSUME NEW d \in Callers, d # c PROVE RecordSound(d, call[d], lock)'
    BY <1>1, <2>2 DEF LinkTypes, RecordSound
  <2> QED
    BY <2>1, <2>2
<1> QED
  BY <1>1, <1>2 DEF LinkTypes

(* What only types depend on moves nothing.                                   *)
LEMMA NobodyMoves ==
  ASSUME LinkTypes, UNCHANGED <<setup, call, lock>>, LinkRest' PROVE LinkTypes'
BY DEF LinkTypes, RecordSound

(* Whoever reads an answer holds the lock, while nothing is disturbed.        *)
LEMMA ReaderHolds ==
  ASSUME LinkInv, ~disturbed, NEW c \in Callers, call[c].at = "read"
  PROVE  lock = c /\ call[c].attempt = 0 /\ Waits(c)
BY DEF LinkInv, QuietInv, LinkTypes, RecordSound

LEMMA LinkInvInit == ModemLinkInit => LinkInv
<1> SUFFICES ASSUME ModemLinkInit PROVE LinkInv
  OBVIOUS
<1>1. /\ setup \in Setups /\ line = <<>> /\ queue = <<>> /\ text = FALSE /\ garbled = FALSE
      /\ lock = Nobody /\ orphans = 0 /\ pduMode = FALSE /\ disturbed = FALSE /\ stray = FALSE
      /\ call = [c \in Callers |-> NoCall(0, "none")]
  BY DEF ModemLinkInit
<1>2. /\ NoCall(0, "none") \in CallTypes /\ NoCall(0, "none").at = "idle"
      /\ NoCall(0, "none").attempt = 0 /\ NoCall(0, "none").number = 0
      /\ NoCall(0, "none").got = <<>>
  BY NoCallFacts
<1>3. LinkRest
  <2>1. <<>> \in Seq(LineItems) /\ <<>> \in Seq(QueueItems)
    OBVIOUS
  <2>2. /\ setup \in Setups /\ line \in Seq(LineItems) /\ queue \in Seq(QueueItems)
        /\ text \in BOOLEAN /\ garbled \in BOOLEAN
    BY <1>1, <2>1
  <2>3. /\ lock \in Callers \cup {Nobody} /\ orphans \in {0, 1} /\ pduMode \in BOOLEAN
        /\ disturbed \in BOOLEAN
    BY <1>1
  <2> QED
    BY <2>2, <2>3 DEF LinkRest
<1>4. \A c \in Callers : RecordSound(c, call[c], lock)
  <2> SUFFICES ASSUME NEW c \in Callers PROVE RecordSound(c, call[c], lock)
    OBVIOUS
  <2>1. setup.retries \in Nat /\ Len(setup.calls[c]) \in Nat
    <3>1. setup.retries \in Nat /\ setup.calls \in [Callers -> Seq({"command", "sms"})]
      BY <1>1, ModemLinkAssumption
    <3> QED
      BY <3>1
  <2>2. 0 \in 0..Len(setup.calls[c]) /\ 0 \in 0..setup.retries + 1
    BY <2>1
  <2>3. lock # c
    BY <1>1, ModemLinkAssumption
  <2> QED
    BY <1>1, <1>2, <2>2, <2>3 DEF RecordSound
<1>5. LinkTypes
  <2>1. call \in [Callers -> CallTypes]
    BY <1>1, <1>2
  <2> QED
    BY <1>3, <1>4, <2>1 DEF LinkTypes
<1>6. Kinds(line) = {}
  BY <1>1 DEF Kinds
<1> QED
  BY <1>1, <1>2, <1>5, <1>6, ModemLinkAssumption DEF LinkInv, QuietInv

(* The modem acts on the oldest thing written to it.                          *)
LEMMA ActsFacts ==
  ASSUME LinkTypes, Acts
  PROVE  /\ queue' \in Seq(QueueItems) /\ queue # <<>>
         /\ \A is \in {"ok", "crlf", "error", "prompt", "cmgs"} :
               Item(is, Head(queue).id) \in LineItems
<1>1. queue \in Seq(QueueItems) /\ queue # <<>> /\ queue' = Tail(queue)
  BY DEF Acts, LinkTypes, LinkRest
<1>2. Head(queue) \in QueueItems /\ Tail(queue) \in Seq(QueueItems)
  BY <1>1, TailFacts
<1>3. Head(queue).id \in Ids
  BY <1>2 DEF QueueItems
<1> QED
  BY <1>1, <1>2, <1>3 DEF Item, LineItems

LEMMA SaysFacts ==
  ASSUME line \in Seq(LineItems), NEW a \in LineItems
  PROVE  /\ line \o <<a>> \in Seq(LineItems)
         /\ \A b \in LineItems : line \o <<a, b>> \in Seq(LineItems)
OBVIOUS

LEMMA ModemTypes == ASSUME LinkTypes, ModemActs PROVE LinkTypes'
<1>1. Acts /\ UNCHANGED hostVars
  BY DEF ModemActs, ModemAnswers, ModemPrompts, ModemTakesText, ModemIgnores
<1>2. /\ queue' \in Seq(QueueItems)
      /\ \A is \in {"ok", "crlf", "error", "prompt", "cmgs"} : Item(is, Head(queue).id) \in LineItems
      /\ UNCHANGED <<setup, call, lock, orphans, pduMode, disturbed>>
  BY <1>1, ActsFacts DEF hostVars, history
<1>3. line \in Seq(LineItems) /\ text \in BOOLEAN /\ garbled \in BOOLEAN
  BY DEF LinkTypes, LinkRest
<1> DEFINE id == Head(queue).id
<1>4. PICK ok \in LineItems, crlf \in LineItems, error \in LineItems, prompt \in LineItems, cmgs \in LineItems :
         /\ ok = Item("ok", id) /\ crlf = Item("crlf", id) /\ error = Item("error", id)
         /\ prompt = Item("prompt", id) /\ cmgs = Item("cmgs", id)
  BY <1>2
<1>5. /\ line' \in {line, line \o <<ok, crlf>>, line \o <<error>>, line \o <<prompt>>, line \o <<cmgs, crlf>>}
      /\ text' \in BOOLEAN /\ garbled' \in BOOLEAN
  <2>1. CASE ModemAnswers
    BY <2>1, <1>3, <1>4 DEF ModemAnswers, Says, modem
  <2>2. CASE ModemPrompts
    BY <2>2, <1>3, <1>4 DEF ModemPrompts, Says
  <2>3. CASE ModemTakesText
    BY <2>3, <1>3, <1>4 DEF ModemTakesText, Says
  <2>4. CASE ModemIgnores
    BY <2>4, <1>3, <1>4 DEF ModemIgnores, Says, modem
  <2> QED
    BY <2>1, <2>2, <2>3, <2>4 DEF ModemActs
<1>6. line' \in Seq(LineItems)
  <2>1. /\ line \o <<ok, crlf>> \in Seq(LineItems) /\ line \o <<error>> \in Seq(LineItems)
        /\ line \o <<prompt>> \in Seq(LineItems) /\ line \o <<cmgs, crlf>> \in Seq(LineItems)
    BY <1>3, SaysFacts
  <2> QED
    BY <1>3, <1>5, <2>1
<1>7. LinkRest'
  BY <1>2, <1>5, <1>6 DEF LinkTypes, LinkRest
<1> QED
  BY <1>2, <1>7, NobodyMoves

(* While nothing is disturbed the modem only answers whoever waits.           *)
LEMMA ModemQuiet == ASSUME LinkInv, ModemActs, ~disturbed PROVE QuietInv'
<1>1. Acts /\ UNCHANGED <<call, lock, orphans, disturbed, stray>>
  BY DEF ModemActs, ModemAnswers, ModemPrompts, ModemTakesText, ModemIgnores, hostVars, history
<1>2. queue # <<>> /\ queue' = Tail(queue) /\ text = FALSE
  BY <1>1 DEF Acts, LinkInv, QuietInv
<1>3. PICK h \in Callers : call[h].at = "read"
  BY <1>2 DEF LinkInv, QuietInv
<1>4. /\ lock = h /\ call[h].attempt = 0
      /\ call[h].got = <<>> /\ line = <<>> /\ queue = <<Item("command", Id(h))>>
  BY <1>2, <1>3, ReaderHolds DEF Waits
<1>5. \A c \in Callers : c # h => call[c].at # "read" /\ lock # c
  BY <1>4, ReaderHolds
<1>6. Head(queue) = Item("command", Id(h)) /\ queue' = <<>>
  BY <1>2, <1>4
<1>7. Head(queue).is = "command" /\ Head(queue).id = Id(h)
  BY <1>6, ItemFacts DEF LinkInv
<1>8. ModemAnswers
  BY <1>2, <1>7 DEF ModemActs, ModemPrompts, ModemTakesText, ModemIgnores
<1>9. line' \in {<<>>, OwnOk(h), <<Item("error", Id(h))>>} /\ text' = text
  <2>1. line' \in {line, line \o OwnOk(h), line \o <<Item("error", Id(h))>>} /\ text' = text
    BY <1>7, <1>8 DEF ModemAnswers, Says, OwnOk, modem
  <2> QED
    BY <1>4, <2>1 DEF OwnOk
<1>10. Waits(h)'
  <2>1. Id(h)' = Id(h) /\ OwnOk(h)' = OwnOk(h)
    BY <1>1 DEF Id, OwnOk
  <2> QED
    BY <1>1, <1>4, <1>6, <1>9, <2>1 DEF Waits
<1> QED
  BY <1>1, <1>2, <1>3, <1>4, <1>5, <1>9, <1>10 DEF LinkInv, QuietInv

(* A read takes what comes first.                                             *)
LEMMA ReadsFacts ==
  ASSUME line \in Seq(LineItems), NEW n \in 0..Len(line)
  PROVE  Taken(n) \in Seq(LineItems) /\ (Reads(n) => line' \in Seq(LineItems))
<1>1. Len(line) \in Nat /\ \A i \in 1..Len(line) : line[i] \in LineItems
  OBVIOUS
<1>2. SubSeq(line, 1, n) \in Seq(LineItems)
  <2>1. \A i \in 1..n : line[i] \in LineItems
    BY <1>1
  <2> QED
    BY <1>1, <2>1, SubSeqProperties
<1>3. SubSeq(line, n + 1, Len(line)) \in Seq(LineItems)
  <2>1. \A i \in n + 1..Len(line) : line[i] \in LineItems
    BY <1>1
  <2>2. n + 1 \in Int /\ Len(line) \in Int
    BY <1>1
  <2> QED
    BY <2>1, <2>2, SubSeqProperties
<1> QED
  BY <1>2, <1>3 DEF Taken, Reads

(* What each caller's step knows of it.                                       *)
LEMMA CallerFacts ==
  ASSUME LinkTypes, NEW c \in Callers
  PROVE  /\ call[c] \in CallTypes /\ RecordSound(c, call[c], lock) /\ call \in [Callers -> CallTypes]
         /\ call[c].number \in Nat /\ call[c].attempt \in Nat /\ call[c].got \in Seq(LineItems)
         /\ LinkRest
BY DEF LinkTypes, CallTypes

LEMMA QuietBroken == ASSUME disturbed', stray' = FALSE PROVE QuietInv'
BY DEF QuietInv

(* A step that leaves the link to its reader, if there is one, as it was, and *)
(* takes no caller to a read, or one to a write with nothing to be read.      *)
LEMMA QuietMoves ==
  ASSUME LinkInv, ~disturbed, UNCHANGED <<queue, text, orphans, disturbed, stray>>,
         NEW c \in Callers, NEW r \in CallTypes,
         call'[c] = r, \A d \in Callers : d # c => call'[d] = call[d],
         r.at \in {"idle", "lock", "flush", "write"}, call[c].at # "read",
         line' = line \/ line' = <<>>,
         \A d \in Callers : d # c => (lock' = d <=> lock = d),
         lock' = c /\ r.at = "write" => line' = <<>>
  PROVE  QuietInv'
<1>1. stray = FALSE /\ orphans = 0 /\ text = FALSE
  BY DEF LinkInv, QuietInv
<1>2. \A d \in Callers : d # c => Id(d)' = Id(d) /\ OwnOk(d)' = OwnOk(d)
  BY DEF Id, OwnOk
<1>3. ASSUME NEW d \in Callers
      PROVE  /\ call'[d].at \in {"idle", "lock", "flush", "write", "read"}
             /\ call'[d].at = "read" => call'[d].attempt = 0 /\ Waits(d)'
             /\ lock' = d /\ call'[d].at = "write" => line' = <<>>
  <2>1. CASE d = c
    BY <2>1
  <2>2. CASE d # c
    <3>1. call'[d] = call[d] /\ Id(d)' = Id(d) /\ OwnOk(d)' = OwnOk(d)
      BY <1>2, <2>2
    <3>2. /\ call[d].at \in {"idle", "lock", "flush", "write", "read"}
          /\ call[d].at = "read" => call[d].attempt = 0 /\ Waits(d)
          /\ lock = d /\ call[d].at = "write" => line = <<>>
      BY DEF LinkInv, QuietInv
    <3>3. ASSUME call[d].at = "read" PROVE Waits(d)'
      BY <3>1, <3>2, <3>3 DEF Waits
    <3> QED
      BY <2>2, <3>1, <3>2, <3>3
  <2> QED
    BY <2>1, <2>2
<1>4. ASSUME \A d \in Callers : call'[d].at # "read"
      PROVE  queue' = <<>> /\ Kinds(line') \subseteq {"crlf"}
  <2>1. \A d \in Callers : call[d].at # "read"
    BY <1>4
  <2>2. queue = <<>> /\ Kinds(line) \subseteq {"crlf"}
    BY <2>1 DEF LinkInv, QuietInv
  <2>3. Kinds(<<>>) = {}
    BY DEF Kinds
  <2> QED
    BY <2>2, <2>3
<1> QED
  BY <1>1, <1>3, <1>4 DEF QuietInv

(* A new call waits for the lock, or starts to write its message.             *)
LEMMA CallFacts ==
  ASSUME LinkTypes, NEW c \in Callers, Call(c)
  PROVE  \E r \in CallTypes :
            /\ call' = [call EXCEPT ![c] = r] /\ r.number = call[c].number + 1 /\ r.got = <<>>
            /\ \/ r.at = "lock" /\ r.attempt = 0
               \/ r.at \in {"write", "flush"} /\ r.attempt = 1
<1> DEFINE n == call[c].number + 1
           new == [NoCall(n, "none") EXCEPT !.sms = (setup.calls[c][n] = "sms")]
<1>1. \/ Flushes(c, [new EXCEPT !.attempt = 1])
      \/ call' = [call EXCEPT ![c] = [new EXCEPT !.at = "lock"]]
  BY DEF Call, At
<1>2. n \in Nat
  BY CallerFacts
<1>3. /\ new \in CallTypes /\ new.attempt = 0 /\ new.number = n /\ new.got = <<>>
  <2>1. PICK b \in BOOLEAN : b = (setup.calls[c][n] = "sms")
    OBVIOUS
  <2> HIDE DEF n
  <2> QED
    <3>1. PICK k \in CallTypes :
            k = NoCall(n, "none") /\ k.attempt = 0 /\ k.number = n /\ k.got = <<>>
      BY <1>2, NoCallFacts
    <3>2. new = [k EXCEPT !.sms = b]
      BY <2>1, <3>1
    <3> HIDE DEF new
    <3> QED
      BY <3>1, <3>2 DEF CallTypes
<1> HIDE DEF new
<1>4. CASE Flushes(c, [new EXCEPT !.attempt = 1])
  <2> DEFINE first == [new EXCEPT !.attempt = 1]
  <2>1. first \in CallTypes /\ first.attempt = 1 /\ first.number = n
    BY <1>3 DEF CallTypes
  <2> HIDE DEF first
  <2>2. PICK r \in CallTypes :
          /\ call' = [call EXCEPT ![c] = r] /\ r.at \in {"write", "flush"}
          /\ r.number = first.number /\ r.attempt = first.attempt /\ r.got = <<>>
    BY <1>4, <2>1, FlushesFacts DEF first
  <2> QED
    BY <2>1, <2>2
<1>5. CASE call' = [call EXCEPT ![c] = [new EXCEPT !.at = "lock"]]
  <2> DEFINE r == [new EXCEPT !.at = "lock"]
  <2>1. r \in CallTypes /\ r.attempt = 0 /\ r.number = n /\ r.got = <<>> /\ r.at = "lock"
    BY <1>3 DEF CallTypes
  <2> QED
    BY <1>5, <2>1
<1> QED
  BY <1>1, <1>4, <1>5

LEMMA CallHolds == ASSUME LinkInv, NEW c \in Callers, Call(c) PROVE LinkInv'
<1> DEFINE n == call[c].number + 1
<1>1. /\ call[c].at = "idle" /\ call[c].number < Len(setup.calls[c])
      /\ UNCHANGED <<setup, line, queue, modem, lock, orphans, pduMode, history>>
  BY DEF Call, At
<1>2. /\ LinkTypes /\ QuietInv /\ LinkRest /\ RecordSound(c, call[c], lock) /\ call[c].number \in Nat
      /\ call \in [Callers -> CallTypes]
  BY CallerFacts DEF LinkInv
<1>3. /\ n \in 0..Len(setup.calls[c]) /\ n \in Nat
      /\ 0 \in 0..setup.retries + 1 /\ 1 \in 0..setup.retries + 1
  BY <1>1, <1>2, SetupFacts
<1>4. PICK r \in CallTypes :
         /\ call' = [call EXCEPT ![c] = r] /\ r.number = n /\ r.got = <<>>
         /\ \/ r.at = "lock" /\ r.attempt = 0
            \/ r.at \in {"write", "flush"} /\ r.attempt = 1
  BY <1>2, CallFacts
<1>5. lock' = lock /\ lock # c
  BY <1>1, <1>2 DEF RecordSound
<1> HIDE DEF n
<1>6. RecordSound(c, r, lock')
  BY <1>3, <1>4, <1>5 DEF RecordSound
<1>7. LinkRest' /\ setup' = setup /\ UNCHANGED <<line, queue, text, orphans, disturbed, stray>>
  BY <1>1, <1>2 DEF LinkRest, modem, history
<1>8. /\ LinkTypes' /\ call'[c] = r
      /\ \A d \in Callers : d # c => call'[d] = call[d]
  BY <1>2, <1>4, <1>5, <1>6, <1>7, CallerMoves
<1>9. CASE disturbed
  BY <1>2, <1>7, <1>8, <1>9, QuietBroken DEF LinkInv, QuietInv
<1>10. CASE ~disturbed
  BY <1>1, <1>4, <1>5, <1>7, <1>8, <1>10, QuietMoves DEF LinkInv
<1> QED
  BY <1>2, <1>7, <1>9, <1>10 DEF LinkRest

(* A caller goes from one await to the next with the same command.            *)
LEMMA GoesFacts ==
  ASSUME LinkTypes, NEW c \in Callers,
         NEW at \in {"idle", "lock", "flush", "write", "read", "prompt", "text", "escape", "sleep"},
         Goes(c, at)
  PROVE  \E r \in CallTypes :
            /\ call' = [call EXCEPT ![c] = r] /\ r.at = at
            /\ r.number = call[c].number /\ r.attempt = call[c].attempt /\ r.got = call[c].got
<1> DEFINE r == [call[c] EXCEPT !.at = at]
<1>1. call' = [call EXCEPT ![c] = r]
  BY DEF Goes
<1>2. call[c] \in CallTypes
  BY CallerFacts
<1>3. /\ r \in CallTypes /\ r.at = at
      /\ r.number = call[c].number /\ r.attempt = call[c].attempt /\ r.got = call[c].got
  BY <1>2 DEF CallTypes
<1> QED
  BY <1>1, <1>3

LEMMA AcquireHolds == ASSUME LinkInv, NEW c \in Callers, Acquire(c) PROVE LinkInv'
<1>1. /\ call[c].at = "lock" /\ lock = Nobody /\ lock' = c /\ Flushes(c, call[c])
      /\ UNCHANGED <<setup, line, queue, modem, orphans, pduMode, history>>
  BY DEF Acquire, At
<1>2. /\ LinkTypes /\ QuietInv /\ LinkRest /\ RecordSound(c, call[c], lock) /\ call[c] \in CallTypes
  BY CallerFacts DEF LinkInv
<1>3. PICK r \in CallTypes :
         /\ call' = [call EXCEPT ![c] = r] /\ r.at \in {"write", "flush"}
         /\ r.at = "write" <=> line = <<>>
         /\ r.number = call[c].number /\ r.attempt = call[c].attempt /\ r.got = <<>>
  BY <1>1, <1>2, FlushesFacts
<1>4. RecordSound(c, r, lock')
  BY <1>1, <1>2, <1>3 DEF RecordSound
<1>5. LinkRest' /\ setup' = setup /\ UNCHANGED <<line, queue, text, orphans, disturbed, stray>>
  BY <1>1, <1>2 DEF LinkRest, modem, history
<1>6. \A d \in Callers : d # c => (lock' = d <=> lock = d)
  BY <1>1, ModemLinkAssumption
<1>7. /\ LinkTypes' /\ call'[c] = r
      /\ \A d \in Callers : d # c => call'[d] = call[d]
  BY <1>2, <1>3, <1>4, <1>5, <1>6, CallerMoves
<1>8. CASE disturbed
  BY <1>2, <1>5, <1>7, <1>8, QuietBroken DEF LinkInv, QuietInv
<1>9. CASE ~disturbed
  BY <1>1, <1>3, <1>5, <1>6, <1>7, <1>9, QuietMoves DEF LinkInv
<1> QED
  BY <1>2, <1>8, <1>9 DEF LinkRest

LEMMA FlushedHolds == ASSUME LinkInv, NEW c \in Callers, Flushed(c) PROVE LinkInv'
<1>1. /\ call[c].at = "flush" /\ line' = <<>> /\ Goes(c, "write")
      /\ UNCHANGED <<setup, queue, modem, lock, buffer, orphans, pduMode, history>>
  BY DEF Flushed, At
<1>2. /\ LinkTypes /\ QuietInv /\ LinkRest /\ RecordSound(c, call[c], lock) /\ call[c] \in CallTypes
  BY CallerFacts DEF LinkInv
<1>3. PICK r \in CallTypes :
         /\ call' = [call EXCEPT ![c] = r] /\ r.at = "write"
         /\ r.number = call[c].number /\ r.attempt = call[c].attempt /\ r.got = call[c].got
  BY <1>1, <1>2, GoesFacts
<1>4. RecordSound(c, r, lock')
  BY <1>1, <1>2, <1>3 DEF RecordSound
<1>5. LinkRest' /\ UNCHANGED <<setup, lock, queue, text, orphans, disturbed, stray>>
  <2>1. <<>> \in Seq(LineItems)
    OBVIOUS
  <2> QED
    BY <1>1, <1>2, <2>1 DEF LinkRest, modem, history
<1>6. /\ LinkTypes' /\ call'[c] = r
      /\ \A d \in Callers : d # c => call'[d] = call[d]
  BY <1>2, <1>3, <1>4, <1>5, CallerMoves
<1>7. CASE disturbed
  BY <1>2, <1>5, <1>6, <1>7, QuietBroken DEF LinkInv, QuietInv
<1>8. CASE ~disturbed
  BY <1>1, <1>3, <1>5, <1>6, <1>8, QuietMoves DEF LinkInv
<1> QED
  BY <1>2, <1>7, <1>8 DEF LinkRest

(* A write puts one item of the caller's own at the end of the queue.         *)
LEMMA WrittenFacts ==
  ASSUME LinkTypes, NEW c \in Callers, NEW is \in {"command", "cmgs", "pdu", "esc"}, Written(is, c)
  PROVE  queue' \in Seq(QueueItems)
<1>1. queue \in Seq(QueueItems) /\ Item(is, Id(c)) \in QueueItems
  BY ItemFacts DEF LinkTypes, LinkRest
<1> QED
  BY <1>1 DEF Written

LEMMA WriteHolds == ASSUME LinkInv, NEW c \in Callers, Write(c) PROVE LinkInv'
<1>1. /\ call[c].at = "write"
      /\ UNCHANGED <<setup, line, modem, lock, buffer, orphans, pduMode, reported, stray>>
  BY DEF Write, At
<1>2. /\ LinkTypes /\ QuietInv /\ LinkRest /\ RecordSound(c, call[c], lock) /\ call[c] \in CallTypes
      /\ call[c].attempt \in Nat /\ stray = FALSE
  BY CallerFacts DEF LinkInv, QuietInv
<1>3. CASE call[c].attempt = 0
  <2>1. Written("command", c) /\ Goes(c, "read") /\ disturbed' = disturbed
    BY <1>3 DEF Write
  <2>2. PICK r \in CallTypes :
           /\ call' = [call EXCEPT ![c] = r] /\ r.at = "read"
           /\ r.number = call[c].number /\ r.attempt = call[c].attempt /\ r.got = call[c].got
    BY <1>2, <2>1, GoesFacts
  <2>3. RecordSound(c, r, lock') /\ lock = c /\ lock' = c /\ r.got = <<>> /\ r.attempt = 0
    BY <1>1, <1>2, <1>3, <2>2 DEF RecordSound
  <2>4. LinkRest'
    <3>1. queue' \in Seq(QueueItems)
      BY <1>2, <2>1, WrittenFacts
    <3> QED
      BY <1>1, <1>2, <2>1, <3>1 DEF LinkRest, modem
  <2>5. /\ LinkTypes' /\ call'[c] = r
        /\ \A d \in Callers : d # c => call'[d] = call[d]
    BY <1>1, <1>2, <2>2, <2>3, <2>4, CallerMoves
  <2>6. CASE disturbed
    BY <1>1, <1>2, <2>1, <2>5, <2>6, QuietBroken DEF LinkInv
  <2>7. CASE ~disturbed
    <3>1. \A d \in Callers : call[d].at # "read"
      BY <1>1, <2>3, <2>7, ReaderHolds
    <3>2. queue = <<>> /\ line = <<>> /\ orphans = 0 /\ text = FALSE
      BY <1>1, <1>2, <2>3, <2>7, <3>1 DEF QuietInv
    <3>3. Id(c)' = Id(c)
      BY <2>2, <2>5 DEF Id
    <3>4. queue' = <<Item("command", Id(c)')>> /\ line' = <<>>
      BY <1>1, <2>1, <3>2, <3>3 DEF Written
    <3>5. Waits(c)'
      BY <2>3, <2>5, <3>4 DEF Waits
    <3>6. \A d \in Callers : d # c => /\ call'[d].at \in {"idle", "lock", "flush", "write"}
                                      /\ lock' # d
      BY <1>2, <2>3, <2>5, <2>7, <3>1 DEF QuietInv
    <3>7. QuietInv'
      BY <1>1, <1>2, <2>1, <2>2, <2>3, <2>5, <3>2, <3>5, <3>6 DEF QuietInv, modem
    <3> QED
      BY <2>5, <3>7 DEF LinkInv
  <2> QED
    BY <1>2, <2>6, <2>7 DEF LinkRest
<1>4. CASE call[c].attempt # 0
  <2>1. Written("cmgs", c) /\ Goes(c, "prompt") /\ disturbed' = TRUE
    BY <1>4 DEF Write
  <2>2. PICK r \in CallTypes :
           /\ call' = [call EXCEPT ![c] = r] /\ r.at = "prompt"
           /\ r.number = call[c].number /\ r.attempt = call[c].attempt /\ r.got = call[c].got
    BY <1>2, <2>1, GoesFacts
  <2>3. RecordSound(c, r, lock')
    BY <1>1, <1>2, <1>4, <2>2 DEF RecordSound
  <2>4. LinkRest'
    <3>1. queue' \in Seq(QueueItems)
      BY <1>2, <2>1, WrittenFacts
    <3> QED
      BY <1>1, <1>2, <2>1, <3>1 DEF LinkRest, modem
  <2>5. LinkTypes'
    BY <1>1, <1>2, <2>2, <2>3, <2>4, CallerMoves
  <2> QED
    BY <1>1, <1>2, <2>1, <2>5, QuietBroken DEF LinkInv
<1> QED
  BY <1>3, <1>4

(* The holder's command ends: the lock is free.                               *)
LEMMA CommandEndsTypes ==
  ASSUME LinkTypes, NEW c \in Callers, lock = c,
         NEW result \in {"none", "ok", "error", "timeout", "failed"},
         CommandEnds(c, result, call[c]), setup' = setup,
         line' \in Seq(LineItems), queue' \in Seq(QueueItems), UNCHANGED <<text, garbled>>,
         orphans' \in {0, 1}, disturbed' \in BOOLEAN
  PROVE  /\ LinkTypes' /\ lock' = Nobody
         /\ call'[c].at \in {"idle", "write", "flush"}
         /\ \A d \in Callers : d # c => call'[d] = call[d]
<1>1. /\ LinkRest /\ RecordSound(c, call[c], lock) /\ call[c] \in CallTypes /\ pduMode \in BOOLEAN
  BY CallerFacts DEF LinkRest
<1>2. /\ lock' = Nobody /\ pduMode' \in BOOLEAN
      /\ \E r \in CallTypes :
            /\ call' = [call EXCEPT ![c] = r] /\ r.number = call[c].number /\ r.got = <<>>
            /\ \/ r.at = "idle" /\ r.attempt = 0
               \/ r.at \in {"write", "flush"} /\ r.attempt = 1
  BY <1>1, CommandEndsFacts
<1>3. PICK r \in CallTypes :
         /\ call' = [call EXCEPT ![c] = r] /\ r.number = call[c].number /\ r.got = <<>>
         /\ \/ r.at = "idle" /\ r.attempt = 0
            \/ r.at \in {"write", "flush"} /\ r.attempt = 1
  BY <1>2
<1>4. 0 \in 0..setup.retries + 1 /\ 1 \in 0..setup.retries + 1
  BY SetupFacts
<1>5. \A d \in Callers : d # c => (lock' = d <=> lock = d)
  BY <1>2, ModemLinkAssumption
<1>6. RecordSound(c, r, lock')
  BY <1>1, <1>2, <1>3, <1>4, ModemLinkAssumption DEF RecordSound
<1>7. LinkRest'
  BY <1>1, <1>2 DEF LinkRest
<1>8. /\ LinkTypes' /\ call'[c] = r
      /\ \A d \in Callers : d # c => call'[d] = call[d]
  BY <1>3, <1>5, <1>6, <1>7, CallerMoves
<1> QED
  BY <1>2, <1>3, <1>8

(* What a read makes of an own answer that has come.                          *)
LEMMA OwnAnswer ==
  ASSUME LinkTypes, NEW c \in Callers
  PROVE  /\ HasOwn(c, <<Item("ok", Id(c))>>) /\ HasOwn(c, <<Item("error", Id(c))>>)
         /\ ~Complete(OwnOk(c)) /\ Complete(<<Item("ok", Id(c))>>) /\ Complete(<<Item("error", Id(c))>>)
         /\ Kinds(<<Item("crlf", Id(c))>>) = {"crlf"} /\ Kinds(<<>>) = {}
<1>1. PICK ok, crlf, error : ok = Item("ok", Id(c)) /\ crlf = Item("crlf", Id(c)) /\ error = Item("error", Id(c))
  OBVIOUS
<1>2. /\ ok.is = "ok" /\ ok.id = Id(c) /\ crlf.is = "crlf" /\ error.is = "error" /\ error.id = Id(c)
  BY <1>1 DEF Item
<1>3. HasOwn(c, <<ok>>) /\ HasOwn(c, <<error>>)
  BY <1>2 DEF HasOwn
<1>4. Kinds(<<crlf>>) = {"crlf"} /\ Kinds(<<>>) = {} /\ Kinds(<<error>>) = {"error"}
  <2>1. \A e : Kinds(<<e>>) = {e.is}
    <3>1. \A e : Len(<<e>>) = 1 /\ <<e>>[1] = e
      OBVIOUS
    <3>2. 1..1 = {1}
      OBVIOUS
    <3> QED
      BY <3>1, <3>2 DEF Kinds
  <2>2. Kinds(<<>>) = {}
    <3>1. Len(<<>>) = 0 /\ 1..0 = {}
      OBVIOUS
    <3> QED
      BY <3>1 DEF Kinds
  <2> QED
    BY <1>2, <2>1, <2>2
<1>5. Kinds(<<ok, crlf>>) = {"ok", "crlf"}
  <2>1. Len(<<ok, crlf>>) = 2 /\ 1..2 = {1, 2}
    OBVIOUS
  <2> QED
    BY <1>2, <2>1 DEF Kinds
<1>6. Last(<<ok, crlf>>) = crlf /\ Last(<<ok>>) = ok /\ Last(<<error>>) = error
  BY DEF Last
<1>7. ~Complete(<<ok, crlf>>) /\ Complete(<<ok>>) /\ Complete(<<error>>)
  BY <1>2, <1>4, <1>5, <1>6 DEF Complete
<1> QED
  BY <1>1, <1>3, <1>4, <1>7 DEF OwnOk

LEMMA ReadAnswerHolds == ASSUME LinkInv, NEW c \in Callers, ReadAnswer(c) PROVE LinkInv'
<1>1. /\ call[c].at = "read" /\ call[c].attempt = 0
      /\ UNCHANGED <<setup, queue, modem, orphans, reported, disturbed>>
  BY DEF ReadAnswer, At
<1>2. PICK n \in 1..Len(line) :
         LET got == call[c].got \o Taken(n)
         IN  /\ Reads(n)
             /\ IF Complete(got)
                  THEN /\ CommandEnds(c, IF "error" \in Kinds(got) THEN "error" ELSE "ok", call[c])
                       /\ stray' = (stray \/ (~disturbed /\ ~HasOwn(c, got)))
                  ELSE /\ call' = [call EXCEPT ![c].got = got]
                       /\ UNCHANGED <<lock, buffer, pduMode, stray>>
  BY DEF ReadAnswer
<1> DEFINE got == call[c].got \o Taken(n)
<1>3. /\ LinkTypes /\ QuietInv /\ LinkRest /\ RecordSound(c, call[c], lock) /\ call[c] \in CallTypes
      /\ call[c].got \in Seq(LineItems) /\ stray = FALSE /\ line \in Seq(LineItems)
  BY CallerFacts DEF LinkInv, QuietInv, LinkRest
<1>4. lock = c
  BY <1>1, <1>3 DEF RecordSound
<1>5. Taken(n) \in Seq(LineItems) /\ line' \in Seq(LineItems) /\ Reads(n)
  <2>1. n \in 0..Len(line)
    BY <1>3
  <2> QED
    BY <1>2, <1>3, <2>1, ReadsFacts
<1>6. got \in Seq(LineItems)
  BY <1>3, <1>5
\* What it has read is, while nothing is disturbed, part of its own answer.
<1>7. ASSUME ~disturbed
      PROVE  /\ queue = <<>> /\ text = FALSE /\ orphans = 0
             /\ \/ got = <<Item("ok", Id(c))>> /\ line' = <<Item("crlf", Id(c))>>
                \/ got = OwnOk(c) /\ line' = <<>>
                \/ got = <<Item("error", Id(c))>> /\ line' = <<>>
  <2>1. Waits(c) /\ text = FALSE /\ orphans = 0
    BY <1>1, <1>7, ReaderHolds DEF LinkInv, QuietInv
  <2>2. line # <<>> /\ Len(line) \in Nat
    BY <1>3
  <2>3. call[c].got = <<>> /\ queue = <<>> /\ line \in {OwnOk(c), <<Item("error", Id(c))>>}
    BY <2>1, <2>2 DEF Waits
  <2>4. got = Taken(n)
    BY <1>5, <2>3
  <2>5. PICK ok, crlf, error : ok = Item("ok", Id(c)) /\ crlf = Item("crlf", Id(c)) /\ error = Item("error", Id(c))
    OBVIOUS
  <2>6. CASE line = <<ok, crlf>>
    <3>1. n \in {1, 2} /\ Len(line) = 2
      BY <2>6
    <3>2. CASE n = 1
      <4>1. SubSeq(line, 1, 1) = <<ok>> /\ SubSeq(line, 2, 2) = <<crlf>>
        BY <2>6, PartsFacts
      <4> QED
        BY <1>5, <2>3, <2>1, <2>4, <2>5, <3>1, <3>2, <4>1 DEF Taken, Reads
    <3>3. CASE n = 2
      <4>1. SubSeq(line, 1, 2) = <<ok, crlf>> /\ SubSeq(line, 3, 2) = <<>>
        BY <2>6, PartsFacts
      <4> QED
        BY <1>5, <2>3, <2>1, <2>4, <2>5, <3>1, <3>3, <4>1 DEF Taken, Reads, OwnOk
    <3> QED
      BY <3>1, <3>2, <3>3
  <2>7. CASE line = <<error>>
    <3>1. n = 1 /\ Len(line) = 1
      BY <2>7
    <3>2. SubSeq(line, 1, 1) = <<error>> /\ SubSeq(line, 2, 1) = <<>>
      BY <2>7, PartsFacts
    <3> QED
      BY <1>5, <2>3, <2>1, <2>4, <2>5, <3>1, <3>2 DEF Taken, Reads
  <2> QED
    BY <2>3, <2>5, <2>6, <2>7 DEF OwnOk
<1> HIDE DEF got
<1>8. CASE Complete(got)
  <2>1. PICK result \in {"ok", "error"} : CommandEnds(c, result, call[c])
    BY <1>2, <1>8 DEF got
  <2>2. stray' = (stray \/ (~disturbed /\ ~HasOwn(c, got)))
    BY <1>2, <1>8 DEF got
  <2>3. /\ LinkTypes' /\ lock' = Nobody
        /\ call'[c].at \in {"idle", "write", "flush"}
        /\ \A d \in Callers : d # c => call'[d] = call[d]
    <3>1. /\ queue' \in Seq(QueueItems) /\ orphans' \in {0, 1} /\ disturbed' \in BOOLEAN
          /\ setup' = setup /\ UNCHANGED <<text, garbled>>
          /\ result \in {"none", "ok", "error", "timeout", "failed"}
      BY <1>1, <1>3 DEF LinkRest, modem
    <3> QED
      BY <1>3, <1>4, <1>5, <2>1, <3>1, CommandEndsTypes
  <2>4. CASE disturbed
    BY <1>1, <1>3, <2>2, <2>3, <2>4, QuietBroken DEF LinkInv
  <2>5. CASE ~disturbed
    <3>1. HasOwn(c, got) /\ Kinds(line') \subseteq {"crlf"}
      BY <1>3, <1>7, <1>8, <2>5, OwnAnswer
    <3>2. stray' = FALSE
      BY <1>3, <2>2, <3>1
    <3>3. \A d \in Callers : d # c => call[d].at # "read"
      BY <1>4, <2>5, ReaderHolds
    <3>4. \A d \in Callers : /\ call'[d].at \in {"idle", "lock", "flush", "write"}
                             /\ lock' # d
      BY <1>3, <2>3, <2>5, <3>3, ModemLinkAssumption DEF QuietInv
    <3>5. QuietInv'
      BY <1>1, <1>7, <2>5, <3>1, <3>2, <3>4 DEF QuietInv, modem
    <3> QED
      BY <2>3, <3>5 DEF LinkInv
  <2> QED
    BY <1>3, <2>4, <2>5 DEF LinkRest
<1>9. CASE ~Complete(got)
  <2> DEFINE r == [call[c] EXCEPT !.got = got]
  <2>1. call' = [call EXCEPT ![c] = r] /\ UNCHANGED <<lock, pduMode, stray>>
    BY <1>2, <1>9 DEF got
  <2>2. /\ r \in CallTypes /\ r.at = "read" /\ r.attempt = 0 /\ r.number = call[c].number
        /\ r.got = got
    BY <1>1, <1>3, <1>6 DEF CallTypes
  <2> HIDE DEF r
  <2>3. RecordSound(c, r, lock')
    BY <1>1, <1>3, <1>4, <2>1, <2>2 DEF RecordSound
  <2>4. LinkRest' /\ setup' = setup
    BY <1>1, <1>3, <1>5, <2>1 DEF LinkRest, modem
  <2>5. /\ LinkTypes' /\ call'[c] = r
        /\ \A d \in Callers : d # c => call'[d] = call[d]
    BY <1>3, <2>1, <2>2, <2>3, <2>4, CallerMoves
  <2>6. CASE disturbed
    BY <1>1, <1>3, <2>1, <2>5, <2>6, QuietBroken DEF LinkInv
  <2>7. CASE ~disturbed
    <3>1. got = OwnOk(c) /\ line' = <<>> /\ queue' = <<>>
      BY <1>1, <1>3, <1>7, <1>9, <2>7, OwnAnswer
    <3>2. OwnOk(c)' = OwnOk(c)
      BY <2>2, <2>5 DEF OwnOk, Id
    <3>3. Waits(c)'
      BY <2>2, <2>5, <3>1, <3>2 DEF Waits
    <3>4. \A d \in Callers : d # c => call[d].at # "read" /\ lock # d
      BY <1>4, <2>7, ReaderHolds
    <3>5. \A d \in Callers : d # c => /\ call'[d].at \in {"idle", "lock", "flush", "write"}
                                      /\ lock' # d
      BY <1>3, <2>1, <2>5, <2>7, <3>4 DEF QuietInv
    <3>6. QuietInv'
      BY <1>1, <1>3, <1>7, <2>1, <2>2, <2>5, <2>7, <3>1, <3>3, <3>5 DEF QuietInv, modem
    <3> QED
      BY <2>5, <3>6 DEF LinkInv
  <2> QED
    BY <1>3, <2>6, <2>7 DEF LinkRest
<1> QED
  BY <1>8, <1>9

(* A message's caller is under way only once the link is disturbed, and a     *)
(* step of it changes nothing of who holds the lock.                          *)
LEMMA SenderMoves ==
  ASSUME LinkInv, NEW c \in Callers, NEW r \in CallTypes, call' = [call EXCEPT ![c] = r],
         disturbed, UNCHANGED <<setup, lock, disturbed, stray>>,
         line' \in Seq(LineItems), queue' \in Seq(QueueItems),
         UNCHANGED <<text, garbled, orphans, pduMode>>,
         RecordSound(c, r, lock)
  PROVE  LinkInv'
<1>1. LinkTypes /\ LinkRest /\ stray = FALSE
  BY CallerFacts DEF LinkInv, QuietInv
<1>2. LinkRest'
  BY <1>1 DEF LinkRest
<1>3. RecordSound(c, r, lock') /\ \A d \in Callers : d # c => (lock' = d <=> lock = d)
  OBVIOUS
<1>4. LinkTypes'
  BY <1>1, <1>2, <1>3, CallerMoves
<1> QED
  BY <1>1, <1>4, QuietBroken DEF LinkInv

LEMMA SenderFacts ==
  ASSUME LinkInv, NEW c \in Callers
  PROVE  /\ LinkTypes /\ QuietInv /\ LinkRest /\ RecordSound(c, call[c], lock) /\ call[c] \in CallTypes
         /\ stray = FALSE /\ line \in Seq(LineItems) /\ queue \in Seq(QueueItems)
         /\ call[c].attempt \in Nat /\ setup.retries \in Nat /\ call[c].number \in Nat
         /\ call[c].at \in {"prompt", "text", "escape", "sleep"} => disturbed /\ call[c].attempt > 0
         /\ call[c].at = "read" /\ call[c].attempt # 0 => disturbed
BY CallerFacts, SetupFacts DEF LinkInv, QuietInv, LinkRest, RecordSound

LEMMA ReadPromptHolds == ASSUME LinkInv, NEW c \in Callers, ReadPrompt(c) PROVE LinkInv'
<1>1. /\ (call[c].at = "prompt" /\ Goes(c, "text")) \/ UNCHANGED call
      /\ UNCHANGED <<setup, queue, modem, lock, orphans, pduMode, history>>
      /\ \E n \in 0..Len(line) : Reads(n)
  BY DEF ReadPrompt, At
<1>2. /\ call[c].at = "prompt" /\ LinkTypes /\ RecordSound(c, call[c], lock) /\ call[c] \in CallTypes
      /\ line \in Seq(LineItems) /\ queue \in Seq(QueueItems) /\ disturbed /\ call[c].attempt > 0
  BY SenderFacts DEF ReadPrompt, At
<1>3. line' \in Seq(LineItems) /\ queue' \in Seq(QueueItems)
  BY <1>1, <1>2, ReadsFacts
<1>4. PICK r \in CallTypes :
         /\ call' = [call EXCEPT ![c] = r] /\ r.at \in {"text", "prompt"}
         /\ r.number = call[c].number /\ r.attempt = call[c].attempt /\ r.got = call[c].got
  <2>1. CASE Goes(c, "text")
    BY <2>1, <1>2, GoesFacts
  <2>2. CASE UNCHANGED call
    <3>1. call' = [call EXCEPT ![c] = call[c]]
      BY <1>2, <2>2 DEF LinkTypes
    <3> QED
      BY <1>2, <3>1
  <2> QED
    BY <1>1, <2>1, <2>2
<1>5. RecordSound(c, r, lock)
  BY <1>2, <1>4 DEF RecordSound
<1> QED
  BY <1>1, <1>2, <1>3, <1>4, <1>5, SenderMoves DEF modem, history

LEMMA PromptTimesOutHolds == ASSUME LinkInv, NEW c \in Callers, PromptTimesOut(c) PROVE LinkInv'
<1>1. /\ call[c].at = "prompt" /\ Goes(c, "escape")
      /\ UNCHANGED <<setup, line, queue, modem, lock, orphans, pduMode, history>>
  BY DEF PromptTimesOut, At
<1>2. /\ LinkTypes /\ RecordSound(c, call[c], lock) /\ call[c] \in CallTypes
      /\ line' \in Seq(LineItems) /\ queue' \in Seq(QueueItems) /\ disturbed /\ call[c].attempt > 0
  BY <1>1, SenderFacts
<1>3. PICK r \in CallTypes :
         /\ call' = [call EXCEPT ![c] = r] /\ r.at = "escape"
         /\ r.number = call[c].number /\ r.attempt = call[c].attempt /\ r.got = call[c].got
  BY <1>1, <1>2, GoesFacts
<1>4. RecordSound(c, r, lock)
  BY <1>1, <1>2, <1>3 DEF RecordSound
<1> QED
  BY <1>1, <1>2, <1>3, <1>4, SenderMoves DEF modem, history

LEMMA WritePduHolds == ASSUME LinkInv, NEW c \in Callers, WritePdu(c) PROVE LinkInv'
<1>1. /\ call[c].at = "text" /\ Goes(c, "read") /\ Written("pdu", c)
      /\ UNCHANGED <<setup, line, modem, lock, buffer, orphans, pduMode, history>>
  BY DEF WritePdu, At
<1>2. /\ LinkTypes /\ RecordSound(c, call[c], lock) /\ call[c] \in CallTypes
      /\ line' \in Seq(LineItems) /\ disturbed /\ call[c].attempt > 0 /\ call[c].attempt \in Nat
  BY <1>1, SenderFacts
<1>3. PICK r \in CallTypes :
         /\ call' = [call EXCEPT ![c] = r] /\ r.at = "read"
         /\ r.number = call[c].number /\ r.attempt = call[c].attempt /\ r.got = call[c].got
  BY <1>1, <1>2, GoesFacts
<1>4. RecordSound(c, r, lock) /\ queue' \in Seq(QueueItems)
  BY <1>1, <1>2, <1>3, WrittenFacts DEF RecordSound
<1> QED
  BY <1>1, <1>2, <1>3, <1>4, SenderMoves DEF modem, history

(* An attempt at a message fails: another one, or no more.                    *)
LEMMA AttemptFailsFacts ==
  ASSUME LinkInv, NEW c \in Callers, call[c].attempt # 0, AttemptFails(c)
  PROVE  \E r \in CallTypes :
            /\ call' = [call EXCEPT ![c] = r] /\ RecordSound(c, r, lock)
            /\ r.number = call[c].number
            /\ r.at \in {"idle", "sleep"} /\ (r.at = "sleep" => r.attempt = call[c].attempt)
<1>1. /\ RecordSound(c, call[c], lock) /\ call[c] \in CallTypes /\ call[c].number \in Nat
      /\ setup.retries \in Nat /\ call[c].attempt \in Nat /\ call[c].attempt > 0 /\ lock # c
  <2>1. /\ RecordSound(c, call[c], lock) /\ call[c] \in CallTypes /\ call[c].number \in Nat
        /\ setup.retries \in Nat /\ call[c].attempt \in Nat
    BY SenderFacts
  <2>2. lock # c
    BY <2>1 DEF RecordSound
  <2> QED
    BY <2>1, <2>2
<1>2. CASE call[c].attempt <= setup.retries
  <2> DEFINE r == [call[c] EXCEPT !.at = "sleep", !.got = <<>>]
  <2>1. call' = [call EXCEPT ![c] = r]
    BY <1>2 DEF AttemptFails
  <2>2. /\ r \in CallTypes /\ r.at = "sleep" /\ r.attempt = call[c].attempt
        /\ r.number = call[c].number
    <3>1. <<>> \in Seq(LineItems)
      OBVIOUS
    <3> QED
      BY <1>1, <3>1 DEF CallTypes
  <2> HIDE DEF r
  <2>3. RecordSound(c, r, lock)
    BY <1>1, <1>2, <2>2 DEF RecordSound
  <2> QED
    BY <2>1, <2>2, <2>3
<1>3. CASE ~(call[c].attempt <= setup.retries)
  <2> DEFINE r == NoCall(call[c].number, "failed")
  <2>1. call' = [call EXCEPT ![c] = r]
    BY <1>3 DEF AttemptFails
  <2>2. /\ r \in CallTypes /\ r.at = "idle" /\ r.attempt = 0 /\ r.number = call[c].number
        /\ r.got = <<>> /\ 0 \in 0..setup.retries + 1
    BY <1>1, NoCallFacts
  <2> HIDE DEF r
  <2>3. RecordSound(c, r, lock)
    BY <1>1, <2>2 DEF RecordSound
  <2>4. r.at \in {"idle", "sleep"} /\ (r.at = "sleep" => r.attempt = call[c].attempt)
    BY <2>2
  <2> QED
    BY <2>1, <2>2, <2>3, <2>4
<1> QED
  BY <1>2, <1>3

LEMMA EscapeHolds == ASSUME LinkInv, NEW c \in Callers, Escape(c) PROVE LinkInv'
<1>1. /\ call[c].at = "escape" /\ Written("esc", c) /\ AttemptFails(c)
      /\ UNCHANGED <<setup, line, modem, lock, buffer, orphans, pduMode, history>>
  BY DEF Escape, At
<1>2. /\ LinkTypes /\ line' \in Seq(LineItems) /\ disturbed /\ call[c].attempt # 0
  <2>1. /\ LinkTypes /\ line' \in Seq(LineItems) /\ disturbed
        /\ call[c].attempt > 0 /\ call[c].attempt \in Nat
    BY <1>1, SenderFacts
  <2> QED
    BY <2>1
<1>3. queue' \in Seq(QueueItems)
  BY <1>1, <1>2, WrittenFacts
<1>4. PICK r \in CallTypes : call' = [call EXCEPT ![c] = r] /\ RecordSound(c, r, lock)
  BY <1>1, <1>2, AttemptFailsFacts
<1> QED
  BY <1>1, <1>2, <1>3, <1>4, SenderMoves DEF modem, history

LEMMA ReadSentHolds == ASSUME LinkInv, NEW c \in Callers, ReadSent(c) PROVE LinkInv'
<1>1. /\ call[c].at = "read" /\ call[c].attempt > 0
      /\ UNCHANGED <<setup, queue, modem, lock, buffer, orphans, pduMode, disturbed, stray>>
  BY DEF ReadSent, At
<1>2. PICK n \in 1..Len(line) :
         /\ Reads(n)
         /\ \/ call' = [call EXCEPT ![c] = NoCall(call[c].number, "ok")]
            \/ call' = [call EXCEPT ![c] = NoCall(call[c].number, "error")]
            \/ call' = call
  BY DEF ReadSent
<1>3. /\ LinkTypes /\ RecordSound(c, call[c], lock) /\ call[c] \in CallTypes
      /\ line \in Seq(LineItems) /\ queue' \in Seq(QueueItems) /\ disturbed
      /\ call[c].number \in Nat /\ setup.retries \in Nat /\ call[c].attempt \in Nat
  <2>1. call[c].attempt \in Nat
    BY SenderFacts
  <2>2. call[c].attempt # 0
    BY <1>1, <2>1
  <2> QED
    BY <1>1, <2>1, <2>2, SenderFacts
<1>4. line' \in Seq(LineItems)
  <2>1. n \in 0..Len(line)
    BY <1>3
  <2> QED
    BY <1>2, <1>3, <2>1, ReadsFacts
<1>5. lock # c /\ 0 \in 0..setup.retries + 1
  BY <1>1, <1>3 DEF RecordSound
<1>6. PICK r \in CallTypes : call' = [call EXCEPT ![c] = r] /\ RecordSound(c, r, lock)
  <2>1. ASSUME NEW result \in {"ok", "error"}
        PROVE  /\ NoCall(call[c].number, result) \in CallTypes
               /\ RecordSound(c, NoCall(call[c].number, result), lock)
    <3> DEFINE r == NoCall(call[c].number, result)
    <3>1. r \in CallTypes /\ r.at = "idle" /\ r.attempt = 0 /\ r.number = call[c].number /\ r.got = <<>>
      BY <1>3, NoCallFacts
    <3> HIDE DEF r
    <3>2. RecordSound(c, r, lock)
      BY <1>3, <1>5, <3>1 DEF RecordSound
    <3> QED
      BY <3>1, <3>2 DEF r
  <2>2. CASE call' = call
    <3>1. call' = [call EXCEPT ![c] = call[c]]
      BY <1>3, <2>2 DEF LinkTypes
    <3> QED
      BY <1>3, <3>1
  <2> QED
    BY <1>2, <2>1, <2>2
<1> QED
  BY <1>1, <1>3, <1>4, <1>6, SenderMoves DEF modem

LEMMA RetryHolds == ASSUME LinkInv, NEW c \in Callers, Retry(c) PROVE LinkInv'
<1> DEFINE again == [call[c] EXCEPT !.attempt = @ + 1]
<1>1. /\ call[c].at = "sleep" /\ Flushes(c, again)
      /\ UNCHANGED <<setup, line, queue, modem, lock, orphans, pduMode, history>>
  BY DEF Retry, At
<1>2. /\ LinkTypes /\ RecordSound(c, call[c], lock) /\ call[c] \in CallTypes
      /\ line' \in Seq(LineItems) /\ queue' \in Seq(QueueItems) /\ disturbed
      /\ call[c].attempt \in Nat /\ call[c].attempt > 0 /\ setup.retries \in Nat
  BY <1>1, SenderFacts
<1>3. PICK next \in Nat : next = call[c].attempt + 1
  BY <1>2
<1>4. again \in CallTypes /\ again.attempt = next /\ again.number = call[c].number
  <2>1. again = [call[c] EXCEPT !.attempt = next]
    BY <1>2, <1>3
  <2> HIDE DEF again
  <2> QED
    BY <1>2, <2>1 DEF CallTypes
<1>5. next > 0 /\ next \in 0..setup.retries + 1
  <2>1. call[c].attempt <= setup.retries
    BY <1>1, <1>2 DEF RecordSound
  <2> QED
    BY <1>2, <1>3, <2>1
<1> HIDE DEF again
<1>6. PICK r \in CallTypes :
         /\ call' = [call EXCEPT ![c] = r] /\ r.at \in {"write", "flush"}
         /\ r.number = again.number /\ r.attempt = again.attempt /\ r.got = <<>>
  BY <1>1, <1>4, FlushesFacts
<1>7. RecordSound(c, r, lock)
  BY <1>1, <1>2, <1>4, <1>5, <1>6 DEF RecordSound
<1> QED
  BY <1>1, <1>2, <1>6, <1>7, SenderMoves DEF modem, history

LEMMA DeadlineHolds == ASSUME LinkInv, NEW c \in Callers, Deadline(c) PROVE LinkInv'
<1>1. /\ call[c].at = "read" /\ orphans' \in {orphans, 1} /\ disturbed' = TRUE
      /\ UNCHANGED <<setup, line, queue, modem, reported, stray>>
  BY DEF Deadline, At
<1>2. /\ LinkTypes /\ LinkRest /\ RecordSound(c, call[c], lock)
      /\ line' \in Seq(LineItems) /\ queue' \in Seq(QueueItems) /\ stray = FALSE
      /\ orphans' \in {0, 1} /\ disturbed' \in BOOLEAN /\ UNCHANGED <<text, garbled>>
  BY <1>1, SenderFacts DEF LinkRest, modem
<1>3. LinkTypes'
  <2>1. CASE call[c].attempt = 0
    <3>1. CommandEnds(c, "timeout", call[c]) /\ lock = c
      BY <1>1, <1>2, <2>1 DEF Deadline, RecordSound
    <3> QED
      BY <1>1, <1>2, <3>1, CommandEndsTypes
  <2>2. CASE call[c].attempt # 0
    <3>1. AttemptFails(c) /\ UNCHANGED <<lock, pduMode>>
      BY <2>2 DEF Deadline
    <3>2. PICK r \in CallTypes : call' = [call EXCEPT ![c] = r] /\ RecordSound(c, r, lock)
      BY <2>2, <3>1, AttemptFailsFacts
    <3>3. LinkRest' /\ RecordSound(c, r, lock')
      BY <1>1, <1>2, <3>1, <3>2 DEF LinkRest
    <3> QED
      BY <1>1, <1>2, <3>1, <3>2, <3>3, CallerMoves
  <2> QED
    BY <2>1, <2>2
<1> QED
  BY <1>1, <1>2, <1>3, QuietBroken DEF LinkInv

LEMMA PortFailsHolds == ASSUME LinkInv, NEW c \in Callers, PortFails(c) PROVE LinkInv'
<1>1. /\ call[c].at \in {"write", "read", "text", "escape"} /\ disturbed' = TRUE
      /\ UNCHANGED <<setup, line, queue, modem, orphans, reported, stray>>
  BY DEF PortFails
<1>2. /\ LinkTypes /\ LinkRest /\ RecordSound(c, call[c], lock)
      /\ line' \in Seq(LineItems) /\ queue' \in Seq(QueueItems) /\ stray = FALSE
      /\ orphans' \in {0, 1} /\ disturbed' \in BOOLEAN /\ UNCHANGED <<text, garbled>>
      /\ call[c].attempt \in Nat /\ call[c].number \in Nat /\ setup.retries \in Nat
      /\ call[c].at \in {"text", "escape"} => call[c].attempt > 0
  BY <1>1, SenderFacts DEF LinkRest, modem
<1>3. LinkTypes'
  <2>1. CASE call[c].attempt = 0
    <3>1. CommandEnds(c, "failed", call[c]) /\ lock = c
      BY <1>1, <1>2, <2>1 DEF PortFails, RecordSound
    <3> QED
      BY <1>1, <1>2, <3>1, CommandEndsTypes
  <2>2. CASE call[c].attempt # 0
    <3> DEFINE r == NoCall(call[c].number, "failed")
    <3>1. call' = [call EXCEPT ![c] = r] /\ UNCHANGED <<lock, pduMode>>
      BY <2>2 DEF PortFails
    <3>2. r \in CallTypes /\ r.at = "idle" /\ r.attempt = 0 /\ r.number = call[c].number /\ r.got = <<>>
      BY <1>2, NoCallFacts
    <3> HIDE DEF r
    <3>3. lock # c /\ 0 \in 0..setup.retries + 1
      BY <1>2, <2>2 DEF RecordSound
    <3>4. LinkRest' /\ RecordSound(c, r, lock')
      BY <1>1, <1>2, <3>1, <3>2, <3>3 DEF LinkRest, RecordSound
    <3> QED
      BY <1>1, <1>2, <3>1, <3>2, <3>4, CallerMoves
  <2> QED
    BY <2>1, <2>2
<1> QED
  BY <1>1, <1>2, <1>3, QuietBroken DEF LinkInv

LEMMA OrphanEndsHolds == ASSUME LinkInv, OrphanEnds PROVE LinkInv'
<1>1. /\ orphans = 1 /\ orphans' = 0 /\ \E n \in 0..Len(line) : Reads(n)
      /\ UNCHANGED <<setup, queue, modem, lock, buffer, pduMode, call, history>>
  BY DEF OrphanEnds
<1>2. /\ LinkTypes /\ LinkRest /\ line \in Seq(LineItems) /\ stray = FALSE /\ disturbed
  BY <1>1 DEF LinkInv, LinkTypes, LinkRest, QuietInv
<1>3. line' \in Seq(LineItems)
  BY <1>1, <1>2, ReadsFacts
<1>4. LinkRest'
  BY <1>1, <1>2, <1>3 DEF LinkRest, modem, history
<1>5. LinkTypes'
  BY <1>1, <1>2, <1>4, NobodyMoves
<1> QED
  BY <1>1, <1>2, <1>5, QuietBroken DEF LinkInv, history

LEMMA LinkInvStep == LinkInv /\ [ModemLinkNext]_modemLinkVars => LinkInv'
<1> SUFFICES ASSUME LinkInv, [ModemLinkNext]_modemLinkVars PROVE LinkInv'
  OBVIOUS
<1>1. CASE ModemActs
  <2>1. LinkTypes' /\ UNCHANGED <<disturbed, stray>> /\ stray = FALSE /\ disturbed \in BOOLEAN
    <3>1. UNCHANGED <<disturbed, stray>>
      BY <1>1 DEF ModemActs, ModemAnswers, ModemPrompts, ModemTakesText, ModemIgnores, hostVars, history
    <3> QED
      BY <1>1, <3>1, ModemTypes DEF LinkInv, QuietInv, LinkTypes, LinkRest
  <2>2. CASE disturbed
    BY <2>1, <2>2, QuietBroken DEF LinkInv
  <2>3. CASE ~disturbed
    BY <1>1, <2>1, <2>3, ModemQuiet DEF LinkInv
  <2> QED
    BY <2>2, <2>3
<1>2. ASSUME NEW c \in Callers, Coroutine(c) PROVE LinkInv'
  BY <1>2, CallHolds, AcquireHolds, FlushedHolds, WriteHolds, ReadAnswerHolds, ReadPromptHolds,
     PromptTimesOutHolds, EscapeHolds, WritePduHolds, ReadSentHolds, RetryHolds, DeadlineHolds,
     PortFailsHolds DEF Coroutine
<1>3. CASE UNCHANGED modemLinkVars
  <2>1. LinkRest'
    BY <1>3 DEF modemLinkVars, modem, history, LinkInv, LinkTypes, LinkRest
  <2>2. LinkTypes'
    BY <1>3, <2>1, NobodyMoves DEF modemLinkVars, LinkInv
  <2>3. QuietInv'
    BY <1>3 DEF modemLinkVars, modem, history, LinkInv, QuietInv, Waits, OwnOk, Id
  <2> QED
    BY <2>2, <2>3 DEF LinkInv
<1> QED
  BY <1>1, <1>2, <1>3, OrphanEndsHolds DEF ModemLinkNext

(* modem/at_interface.py, serial_client.py, sms_trigger.py: for any number of  *)
(* callers and calls, _command_lock is held just while a command is under way, *)
(* and until a read times out, the port fails or a message is sent, a command  *)
(* ends only with its own final result code.                                   *)
THEOREM LinkKeepsAnswersApart == ModemLinkSpec => []AnswerMatches
<1>1. LinkInv => AnswerMatches
  <2> SUFFICES ASSUME LinkInv PROVE AnswerMatches
    OBVIOUS
  <2>1. LinkTypes /\ LinkRest /\ stray = FALSE
    BY DEF LinkInv, LinkTypes, QuietInv
  <2>2. /\ line \in Seq(LineItems) /\ queue \in Seq(QueueItems)
        /\ \A i \in 1..Len(line) : line[i] \in LineItems
        /\ \A i \in 1..Len(queue) : queue[i] \in QueueItems
    BY <2>1 DEF LinkRest
  <2>3. /\ \A i \in 1..Len(line) : line[i].is \in {"ok", "crlf", "error", "prompt", "cmgs"}
        /\ \A i \in 1..Len(queue) : queue[i].is \in {"command", "cmgs", "pdu", "esc"}
    BY <2>2 DEF LineItems, QueueItems
  <2>4. ASSUME NEW c \in Callers
        PROVE  /\ call[c].at \in {"idle", "lock", "flush", "write", "read", "prompt", "text", "escape",
                                  "sleep"}
               /\ call[c].number \in 0..Len(setup.calls[c])
               /\ call[c].attempt \in 0..setup.retries + 1
               /\ lock = c <=> call[c].attempt = 0 /\ call[c].at \in {"flush", "write", "read"}
    <3>1. call[c] \in CallTypes /\ RecordSound(c, call[c], lock)
      BY <2>1 DEF LinkTypes
    <3>2. call[c].at \in {"idle", "lock", "flush", "write", "read", "prompt", "text", "escape", "sleep"}
      BY <3>1 DEF CallTypes
    <3> QED
      BY <3>1, <3>2 DEF RecordSound
  <2>5. ModemLinkTypeOK
    BY <2>1, <2>3, <2>4 DEF LinkRest, ModemLinkTypeOK
  <2> QED
    BY <2>1, <2>5 DEF AnswerMatches
<1> QED
  BY <1>1, LinkInvInit, LinkInvStep, PTL DEF ModemLinkSpec

-----------------------------------------------------------------------------
(* The messages of the AT link: every message in the network's hands has its  *)
(* answer on the line at most once, and no call has written its message more  *)
(* often than it has made attempts.                                           *)

Notices == {item \in LineItems : item.is = "cmgs"}
Copies(id) == HowMany(accepted, {id}) + HowMany(queue, {Item("pdu", id)})

\* How often a call may have written its message, from where it is.
Quota(r) ==
    IF r.at = "idle" THEN setup.retries + 1
    ELSE IF r.at \in {"read", "sleep"} \/ r.attempt = 0 THEN r.attempt
    ELSE r.attempt - 1
Allowed(c, k) ==
    IF k = call[c].number THEN Quota(call[c])
    ELSE IF k < call[c].number THEN setup.retries + 1 ELSE 0

BackedInv ==
    /\ accepted \in Seq(Ids) /\ reported \in Nat
    /\ reported + HowMany(line, Notices) <= Len(accepted)
CopiesInv == \A c \in Callers, k \in Nat : Copies(<<c, k>>) <= Allowed(c, k)

LEMMA QuotaFacts ==
  ASSUME LinkTypes, NEW c \in Callers
  PROVE  /\ \A r \in CallTypes : Quota(r) \in Nat
         /\ Quota(call[c]) <= setup.retries + 1
         /\ \A k \in Nat : Allowed(c, k) \in Nat /\ Allowed(c, k) <= setup.retries + 1
<1>1. /\ call[c] \in CallTypes /\ RecordSound(c, call[c], lock) /\ setup.retries \in Nat
      /\ call[c].number \in Nat /\ call[c].attempt \in Nat
  BY CallerFacts, SetupFacts
<1>2. ASSUME NEW r \in CallTypes PROVE Quota(r) \in Nat
  <2>1. r.attempt \in Nat
    BY DEF CallTypes
  <2> QED
    BY <1>1, <2>1 DEF Quota
<1>3. Quota(call[c]) <= setup.retries + 1
  <2>1. call[c].attempt <= setup.retries + 1
    BY <1>1 DEF RecordSound
  <2> QED
    BY <1>1, <2>1 DEF Quota
<1>4. Quota(call[c]) \in Nat
  BY <1>1, <1>2
<1> QED
  BY <1>1, <1>2, <1>3, <1>4 DEF Allowed

LEMMA CopiesFacts ==
  ASSUME LinkTypes, accepted \in Seq(Ids), NEW id \in Ids
  PROVE  /\ HowMany(accepted, {id}) \in Nat /\ HowMany(queue, {Item("pdu", id)}) \in Nat
         /\ Copies(id) \in Nat
<1>1. queue \in Seq(QueueItems)
  BY DEF LinkTypes, LinkRest
<1>2. HowMany(accepted, {id}) \in Nat /\ HowMany(queue, {Item("pdu", id)}) \in Nat
  BY <1>1, CountType
<1> QED
  BY <1>2 DEF Copies

(* What the modem sends at once: one or two items.                            *)
LEMMA SaysCounts ==
  ASSUME line \in Seq(LineItems), NEW a \in LineItems, NEW b \in LineItems, NEW S
  PROVE  /\ HowMany(line, S) \in Nat
         /\ HowMany(line \o <<a>>, S) = IF a \in S THEN HowMany(line, S) + 1 ELSE HowMany(line, S)
         /\ b \notin S => HowMany(line \o <<a, b>>, S) = HowMany(line \o <<a>>, S)
<1>1. HowMany(line, S) \in Nat
  BY CountType
<1>2. /\ line \o <<a>> = Append(line, a)
      /\ line \o <<a, b>> = Append(Append(line, a), b)
      /\ Append(line, a) \in Seq(LineItems)
  OBVIOUS
<1>3. HowMany(line \o <<a>>, S) = IF a \in S THEN HowMany(line, S) + 1 ELSE HowMany(line, S)
  <2>1. HowMany(Append(line, a), S) = IF a \in S THEN HowMany(line, S) + 1 ELSE HowMany(line, S)
    BY CountAppend
  <2> QED
    BY <1>2, <2>1
<1>4. ASSUME b \notin S PROVE HowMany(line \o <<a, b>>, S) = HowMany(line \o <<a>>, S)
  <2>1. PICK q \in Seq(LineItems) : q = Append(line, a)
    BY <1>2
  <2>2. HowMany(Append(q, b), S) = HowMany(q, S)
    BY <1>4, CountAppend
  <2> QED
    BY <1>2, <2>1, <2>2
<1> QED
  BY <1>1, <1>3, <1>4

(* The modem takes a message, and says so, or it takes none.                  *)
LEMMA ModemTakes ==
  ASSUME LinkTypes, ModemActs
  PROVE  LET id == Head(queue).id
         IN  /\ queue # <<>> /\ queue' = Tail(queue) /\ id \in Ids
             /\ UNCHANGED <<setup, call, reported>>
             /\ \/ /\ accepted' = accepted
                   /\ \E a, b \in LineItems \ Notices :
                         line' \in {line, line \o <<a>>, line \o <<a, b>>}
                \/ /\ accepted' = Append(accepted, id) /\ Head(queue) = Item("pdu", id)
                   /\ line' = line \o <<Item("cmgs", id), Item("crlf", id)>>
<1>1. Acts /\ UNCHANGED hostVars
  BY DEF ModemActs, ModemAnswers, ModemPrompts, ModemTakesText, ModemIgnores
<1>2. queue # <<>> /\ queue' = Tail(queue) /\ UNCHANGED <<setup, call, reported>> /\ queue \in Seq(QueueItems)
  BY <1>1 DEF Acts, hostVars, history, LinkTypes, LinkRest
<1>3. Head(queue) \in QueueItems
  BY <1>2, TailFacts
<1> DEFINE id == Head(queue).id
<1>4. id \in Ids
  BY <1>3 DEF QueueItems
<1>5. PICK ok \in LineItems \ Notices, crlf \in LineItems \ Notices, error \in LineItems \ Notices,
           prompt \in LineItems \ Notices :
         /\ ok = Item("ok", id) /\ crlf = Item("crlf", id) /\ error = Item("error", id)
         /\ prompt = Item("prompt", id)
  BY <1>4 DEF Item, LineItems, Notices
<1>6. CASE ModemAnswers
  <2>1. /\ accepted' = accepted
        /\ line' \in {line, line \o <<ok, crlf>>, line \o <<error>>}
    BY <1>5, <1>6 DEF ModemAnswers, Says, modem
  <2> QED
    BY <1>2, <1>4, <2>1
<1>7. CASE ModemPrompts
  <2>1. accepted' = accepted /\ line' \in {line, line \o <<prompt>>, line \o <<error>>}
    BY <1>5, <1>7 DEF ModemPrompts, Says
  <2> QED
    BY <1>2, <1>4, <2>1
<1>8. CASE ModemIgnores
  <2>1. accepted' = accepted /\ line' \in {line, line \o <<error>>}
    BY <1>5, <1>8 DEF ModemIgnores, Says, modem
  <2> QED
    BY <1>2, <1>4, <2>1
<1>9. CASE ModemTakesText
  <2>1. CASE Head(queue).is # "pdu"
    <3>1. Head(queue).is \in {"command", "cmgs", "esc"}
      BY <1>3, <2>1 DEF QueueItems
    <3>2. accepted' = accepted /\ line' = line
      BY <1>9, <3>1 DEF ModemTakesText
    <3> QED
      BY <1>2, <1>4, <1>5, <3>2
  <2>2. CASE Head(queue).is = "pdu"
    <3>1. \/ accepted' = accepted /\ line' = line \o <<error>>
          \/ /\ accepted' = Append(accepted, id)
             /\ line' = line \o <<Item("cmgs", id), Item("crlf", id)>>
      BY <1>5, <1>9, <2>2 DEF ModemTakesText, Says
    <3>2. Head(queue) = Item("pdu", id)
      BY <1>3, <2>2 DEF QueueItems, Item
    <3> QED
      BY <1>2, <1>4, <1>5, <3>1, <3>2
  <2> QED
    BY <2>1, <2>2
<1> QED
  BY <1>6, <1>7, <1>8, <1>9 DEF ModemActs

LEMMA ModemBacked == ASSUME LinkTypes, BackedInv, ModemActs PROVE BackedInv'
<1> DEFINE id == Head(queue).id
<1>1. /\ line \in Seq(LineItems) /\ accepted \in Seq(Ids) /\ reported \in Nat /\ reported' = reported
      /\ reported + HowMany(line, Notices) <= Len(accepted) /\ id \in Ids
      /\ HowMany(line, Notices) \in Nat /\ Len(accepted) \in Nat
  <2>1. line \in Seq(LineItems)
    BY DEF LinkTypes, LinkRest
  <2>2. HowMany(line, Notices) \in Nat
    BY <2>1, CountType
  <2> QED
    BY <2>1, <2>2, ModemTakes DEF BackedInv
<1>2. CASE /\ accepted' = accepted
           /\ \E a, b \in LineItems \ Notices : line' \in {line, line \o <<a>>, line \o <<a, b>>}
  <2>1. PICK a \in LineItems \ Notices, b \in LineItems \ Notices :
           line' \in {line, line \o <<a>>, line \o <<a, b>>}
    BY <1>2
  <2>2. /\ HowMany(line \o <<a>>, Notices) = HowMany(line, Notices)
        /\ HowMany(line \o <<a, b>>, Notices) = HowMany(line \o <<a>>, Notices)
    BY <1>1, SaysCounts
  <2>3. HowMany(line', Notices) = HowMany(line, Notices)
    BY <2>1, <2>2
  <2> QED
    BY <1>1, <1>2, <2>3 DEF BackedInv
<1>3. CASE /\ accepted' = Append(accepted, id)
           /\ line' = line \o <<Item("cmgs", id), Item("crlf", id)>>
  <2>1. PICK a \in LineItems, b \in LineItems :
           /\ a = Item("cmgs", id) /\ b = Item("crlf", id) /\ a \in Notices /\ b \notin Notices
    <3>1. Item("cmgs", id) \in Notices /\ Item("crlf", id) \in LineItems \ Notices
      BY <1>1 DEF Item, LineItems, Notices
    <3>2. Notices \subseteq LineItems
      BY DEF Notices
    <3> QED
      BY <3>1, <3>2
  <2>2. /\ HowMany(line \o <<a>>, Notices) = HowMany(line, Notices) + 1
        /\ HowMany(line \o <<a, b>>, Notices) = HowMany(line \o <<a>>, Notices)
    BY <1>1, <2>1, SaysCounts
  <2>3. HowMany(line', Notices) = HowMany(line, Notices) + 1
    BY <1>3, <2>1, <2>2
  <2>4. accepted' \in Seq(Ids) /\ Len(accepted') = Len(accepted) + 1
    BY <1>1, <1>3
  <2> QED
    BY <1>1, <2>3, <2>4 DEF BackedInv
<1> QED
  BY <1>2, <1>3, ModemTakes

LEMMA ModemCopies ==
  ASSUME LinkTypes, accepted \in Seq(Ids), CopiesInv, ModemActs PROVE CopiesInv'
<1> DEFINE head == Head(queue).id
<1>1. /\ queue # <<>> /\ queue' = Tail(queue) /\ head \in Ids /\ UNCHANGED <<setup, call>>
      /\ \/ accepted' = accepted
         \/ accepted' = Append(accepted, head) /\ Head(queue) = Item("pdu", head)
  BY ModemTakes
<1>2. queue \in Seq(QueueItems)
  BY DEF LinkTypes, LinkRest
<1> SUFFICES ASSUME NEW c \in Callers, NEW k \in Nat
             PROVE  Copies(<<c, k>>)' <= Allowed(c, k)'
  BY DEF CopiesInv
<1> DEFINE id == <<c, k>>
           pdus == {Item("pdu", id)}
<1>3. id \in Ids /\ Allowed(c, k) \in Nat /\ Allowed(c, k)' = Allowed(c, k) /\ Copies(id) <= Allowed(c, k)
  BY <1>1, QuotaFacts DEF Ids, CopiesInv, Allowed, Quota
<1>4. /\ HowMany(accepted, {id}) \in Nat /\ HowMany(queue, pdus) \in Nat
      /\ Copies(id) = HowMany(accepted, {id}) + HowMany(queue, pdus)
  BY <1>3, CopiesFacts DEF Copies
<1>5. /\ HowMany(queue', pdus) \in Nat
      /\ HowMany(queue', pdus) <= HowMany(queue, pdus)
      /\ Head(queue) \in pdus => HowMany(queue', pdus) + 1 <= HowMany(queue, pdus)
  <2>1. queue' \in Seq(QueueItems)
    BY <1>1, <1>2, TailFacts
  <2> HIDE DEF pdus
  <2> QED
    BY <1>1, <1>2, <2>1, CountTail, CountType
<1>6. Copies(id)' = HowMany(accepted', {id}) + HowMany(queue', pdus)
  BY DEF Copies
<1> HIDE DEF pdus, id
<1>7. CASE accepted' = accepted
  BY <1>3, <1>4, <1>5, <1>6, <1>7 DEF id
<1>8. CASE accepted' = Append(accepted, head) /\ Head(queue) = Item("pdu", head)
  <2>1. HowMany(accepted', {id}) =
           IF head \in {id} THEN HowMany(accepted, {id}) + 1 ELSE HowMany(accepted, {id})
    BY <1>1, <1>8, CountAppend
  <2>2. CASE head = id
    <3>1. Head(queue) \in pdus
      BY <1>8, <2>2 DEF pdus
    <3> QED
      BY <1>3, <1>4, <1>5, <1>6, <2>1, <2>2, <3>1 DEF id
  <2>3. CASE head # id
    BY <1>3, <1>4, <1>5, <1>6, <2>1, <2>3 DEF id
  <2> QED
    BY <2>2, <2>3
<1> QED
  BY <1>1, <1>7, <1>8

(* The host reads what is on the line, or throws it away.                     *)
LEMMA HostBacked ==
  ASSUME LinkTypes, BackedInv, accepted' = accepted, reported' = reported,
         line' \in {line, <<>>} \/ \E n \in 0..Len(line) : Reads(n)
  PROVE  BackedInv'
<1>1. /\ line \in Seq(LineItems) /\ accepted \in Seq(Ids) /\ reported \in Nat
      /\ reported + HowMany(line, Notices) <= Len(accepted) /\ Len(accepted) \in Nat
  BY DEF LinkTypes, LinkRest, BackedInv
<1>2. /\ HowMany(line', Notices) \in Nat /\ HowMany(line, Notices) \in Nat
      /\ HowMany(line', Notices) <= HowMany(line, Notices)
  <2>1. HowMany(line, Notices) \in Nat
    BY <1>1, CountType
  <2>2. CASE line' = line
    BY <2>1, <2>2
  <2>3. CASE line' = <<>>
    BY <1>1, <2>1, <2>3, CountType
  <2>4. CASE \E n \in 0..Len(line) : Reads(n)
    <3>1. PICK n \in 0..Len(line) : Reads(n)
      BY <2>4
    <3>2. HowMany(line', Notices) <= HowMany(line, Notices)
      BY <1>1, <3>1, CountRest DEF Reads
    <3>3. line' \in Seq(LineItems)
      BY <1>1, <3>1, ReadsFacts
    <3> QED
      BY <2>1, <3>2, <3>3, CountType
  <2> QED
    BY <2>2, <2>3, <2>4
<1> QED
  BY <1>1, <1>2 DEF BackedInv

(* A call that has read the answer to a message has taken it off the line.    *)
LEMMA ReadSentBacked ==
  ASSUME LinkTypes, BackedInv, NEW c \in Callers, ReadSent(c) PROVE BackedInv'
<1>1. /\ line \in Seq(LineItems) /\ accepted \in Seq(Ids) /\ reported \in Nat /\ Len(accepted) \in Nat
      /\ reported + HowMany(line, Notices) <= Len(accepted) /\ accepted' = accepted
  BY DEF LinkTypes, LinkRest, BackedInv, ReadSent, modem
<1>2. PICK n \in 1..Len(line) :
         Reads(n) /\ reported' = IF Sent(Taken(n)) THEN reported + 1 ELSE reported
  BY DEF ReadSent
<1>3. n \in 0..Len(line) /\ n \in Nat /\ Len(line) \in Nat /\ n <= Len(line)
  BY <1>1
<1>4. CASE ~Sent(Taken(n))
  BY <1>1, <1>2, <1>3, <1>4, HostBacked
<1>5. CASE Sent(Taken(n))
  <2>1. PICK i \in 1..n : line[i] \in Notices
    <3>1. Taken(n) \in Seq(LineItems) /\ Len(Taken(n)) = n /\ \A i \in 1..n : Taken(n)[i] = line[i]
      <4>1. \A i \in 1..n : line[i] \in LineItems
        BY <1>1, <1>3
      <4>2. /\ Len(SubSeq(line, 1, n)) = IF 1 <= n THEN n - 1 + 1 ELSE 0
            /\ SubSeq(line, 1, n) \in Seq(LineItems)
            /\ \A i \in 1..(n - 1 + 1) : SubSeq(line, 1, n)[i] = line[1 + i - 1]
        BY <1>3, <4>1, SubSeqProperties
      <4>3. n - 1 + 1 = n /\ 1 <= n /\ \A i \in 1..n : 1 + i - 1 = i
        BY <1>3
      <4> QED
        BY <4>2, <4>3 DEF Taken
    <3>2. PICK i \in 1..n : line[i].is = "cmgs"
      BY <1>5, <3>1 DEF Sent, Kinds
    <3>3. line[i] \in LineItems
      BY <1>1, <1>3
    <3> QED
      BY <3>2, <3>3 DEF Notices
  <2>2. HowMany(line', Notices) + 1 <= HowMany(line, Notices)
    BY <1>1, <1>2, <1>3, <2>1, CountRest DEF Reads
  <2>3. HowMany(line', Notices) \in Nat /\ HowMany(line, Notices) \in Nat
    BY <1>1, <1>2, <1>3, ReadsFacts, CountType
  <2> QED
    BY <1>1, <1>2, <1>5, <2>2, <2>3 DEF BackedInv
<1> QED
  BY <1>4, <1>5

(* A caller moves and writes no message: its call may have written as many as *)
(* before, or more.                                                           *)
LEMMA CopiesKept ==
  ASSUME LinkTypes, accepted \in Seq(Ids), CopiesInv,
         NEW c \in Callers, NEW r \in CallTypes, call' = [call EXCEPT ![c] = r],
         setup' = setup, accepted' = accepted,
         queue' = queue \/ \E is \in {"command", "cmgs", "esc"} : Written(is, c),
         \/ r.number = call[c].number /\ Quota(call[c]) <= Quota(r)
         \/ r.number = call[c].number + 1 /\ call[c].at = "idle"
  PROVE  CopiesInv'
<1> SUFFICES ASSUME NEW d \in Callers, NEW k \in Nat
             PROVE  Copies(<<d, k>>)' <= Allowed(d, k)'
  BY DEF CopiesInv
<1> DEFINE id == <<d, k>>
           pdus == {Item("pdu", id)}
<1>1. /\ call \in [Callers -> CallTypes] /\ call[c].number \in Nat /\ setup.retries \in Nat
      /\ call[c] \in CallTypes /\ Quota(call[c]) \in Nat /\ Quota(r) \in Nat
      /\ Quota(call[c]) <= setup.retries + 1
  BY CallerFacts, SetupFacts, QuotaFacts
<1>2. id \in Ids /\ Allowed(d, k) \in Nat /\ Copies(id) <= Allowed(d, k)
      /\ HowMany(accepted, {id}) \in Nat /\ HowMany(queue, pdus) \in Nat
      /\ Copies(id) = HowMany(accepted, {id}) + HowMany(queue, pdus)
  <2>1. id \in Ids /\ Allowed(d, k) \in Nat /\ Copies(id) <= Allowed(d, k)
    BY QuotaFacts DEF Ids, CopiesInv
  <2> QED
    BY <2>1, CopiesFacts DEF Copies
<1>3. HowMany(queue', pdus) = HowMany(queue, pdus)
  <2>1. CASE queue' = queue
    BY <2>1
  <2>2. ASSUME NEW is \in {"command", "cmgs", "esc"}, Written(is, c)
        PROVE  HowMany(queue', pdus) = HowMany(queue, pdus)
    <3>1. queue \in Seq(QueueItems) /\ Item(is, Id(c)) \in QueueItems
      BY ItemFacts DEF LinkTypes, LinkRest
    <3>2. Item(is, Id(c)) \notin pdus
      BY DEF Item
    <3> HIDE DEF pdus
    <3>3. queue' = Append(queue, Item(is, Id(c)))
      BY <2>2 DEF Written
    <3> QED
      BY <3>1, <3>2, <3>3, CountAppend
  <2> QED
    BY <2>1, <2>2
<1>4. Copies(id)' = Copies(id)
  BY <1>2, <1>3 DEF Copies
<1>5. Allowed(d, k) <= Allowed(d, k)' /\ Allowed(d, k)' \in Nat
  <2>1. call'[c] = r /\ \A e \in Callers : e # c => call'[e] = call[e]
    BY <1>1
  <2>2. CASE d # c
    BY <1>2, <2>1, <2>2 DEF Allowed, Quota
  <2>3. CASE d = c
    <3>1. Quota(call[c])' = Quota(r)
      BY <2>1 DEF Quota
    <3>2. Allowed(c, k)' = IF k = r.number THEN Quota(r)
                           ELSE IF k < r.number THEN setup.retries + 1 ELSE 0
      BY <2>1, <3>1 DEF Allowed
    <3>3. CASE r.number = call[c].number /\ Quota(call[c]) <= Quota(r)
      BY <1>1, <2>3, <3>2, <3>3 DEF Allowed
    <3>4. CASE r.number = call[c].number + 1 /\ call[c].at = "idle"
      <4>1. Quota(call[c]) = setup.retries + 1
        BY <3>4 DEF Quota
      <4> QED
        BY <1>1, <2>3, <3>2, <3>4, <4>1 DEF Allowed
    <3> QED
      BY <3>3, <3>4
  <2> QED
    BY <2>2, <2>3
<1> HIDE DEF id
<1> QED
  BY <1>2, <1>4, <1>5 DEF id

(* A call writes its message: once more, and as often as it has tried.        *)
LEMMA WritePduCopies ==
  ASSUME LinkInv, accepted \in Seq(Ids), CopiesInv, NEW c \in Callers, WritePdu(c)
  PROVE  CopiesInv'
<1>1. /\ call[c].at = "text" /\ Goes(c, "read") /\ Written("pdu", c)
      /\ UNCHANGED <<setup, accepted>>
  BY DEF WritePdu, At, modem
<1>2. /\ LinkTypes /\ call[c] \in CallTypes /\ call[c].attempt > 0 /\ call[c].attempt \in Nat
      /\ call \in [Callers -> CallTypes] /\ call[c].number \in Nat /\ queue \in Seq(QueueItems)
  BY <1>1, SenderFacts, CallerFacts
<1>3. PICK r \in CallTypes :
         /\ call' = [call EXCEPT ![c] = r] /\ r.at = "read"
         /\ r.number = call[c].number /\ r.attempt = call[c].attempt
  BY <1>1, <1>2, GoesFacts
<1>4. call'[c] = r /\ \A e \in Callers : e # c => call'[e] = call[e]
  BY <1>2, <1>3
<1> SUFFICES ASSUME NEW d \in Callers, NEW k \in Nat
             PROVE  Copies(<<d, k>>)' <= Allowed(d, k)'
  BY DEF CopiesInv
<1> DEFINE id == <<d, k>>
           pdus == {Item("pdu", id)}
<1>5. id \in Ids /\ Allowed(d, k) \in Nat /\ Copies(id) <= Allowed(d, k)
      /\ HowMany(accepted, {id}) \in Nat /\ HowMany(queue, pdus) \in Nat
      /\ Copies(id) = HowMany(accepted, {id}) + HowMany(queue, pdus)
  <2>1. id \in Ids /\ Allowed(d, k) \in Nat /\ Copies(id) <= Allowed(d, k)
    BY <1>2, QuotaFacts DEF Ids, CopiesInv
  <2> QED
    BY <1>2, <2>1, CopiesFacts DEF Copies
<1>6. HowMany(queue', pdus) =
         IF id = Id(c) THEN HowMany(queue, pdus) + 1 ELSE HowMany(queue, pdus)
  <2>1. Item("pdu", Id(c)) \in QueueItems /\ queue' = Append(queue, Item("pdu", Id(c)))
    BY <1>1, <1>2, ItemFacts DEF Written
  <2>2. Item("pdu", Id(c)) \in pdus <=> id = Id(c)
    <3>1. Item("pdu", Id(c)).id = Id(c) /\ Item("pdu", id).id = id
      BY DEF Item
    <3> QED
      BY <3>1
  <2> HIDE DEF pdus, id
  <2> QED
    BY <1>2, <2>1, <2>2, CountAppend
<1>7. Copies(id)' = HowMany(accepted, {id}) + HowMany(queue', pdus)
  BY <1>1 DEF Copies
<1>8. CASE id # Id(c)
  <2>1. ~(d = c /\ k = call[c].number)
    BY <1>8 DEF Id
  <2>2. Allowed(d, k)' = Allowed(d, k)
    BY <1>1, <1>3, <1>4, <2>1 DEF Allowed, Quota
  <2> HIDE DEF id, pdus
  <2>3. Copies(id)' <= Allowed(d, k)'
    BY <1>5, <1>6, <1>7, <1>8, <2>2
  <2> QED
    BY <2>3 DEF id
<1>9. CASE id = Id(c)
  <2>1. d = c /\ k = call[c].number
    BY <1>9 DEF Id
  <2>2. Allowed(d, k) = call[c].attempt - 1
    BY <1>1, <1>2, <2>1 DEF Allowed, Quota
  <2>3. Allowed(d, k)' = call[c].attempt
    BY <1>3, <1>4, <2>1 DEF Allowed, Quota
  <2> HIDE DEF id, pdus
  <2>4. Copies(id)' <= Allowed(d, k)'
    BY <1>2, <1>5, <1>6, <1>7, <1>9, <2>2, <2>3
  <2> QED
    BY <2>4 DEF id
<1> QED
  BY <1>8, <1>9

SmsInv == BackedInv /\ CopiesInv

LEMMA SmsInvInit == ModemLinkInit => SmsInv
<1> SUFFICES ASSUME ModemLinkInit PROVE SmsInv
  OBVIOUS
<1>1. /\ setup \in Setups /\ line = <<>> /\ queue = <<>> /\ accepted = <<>> /\ reported = 0
      /\ call = [c \in Callers |-> NoCall(0, "none")]
  BY DEF ModemLinkInit
<1>2. \A S : HowMany(<<>>, S) = 0
  <2>1. <<>> \in Seq({})
    OBVIOUS
  <2> QED
    BY <2>1, CountType
<1>3. <<>> \in Seq(Ids) /\ Len(<<>>) = 0
  OBVIOUS
<1>4. BackedInv
  BY <1>1, <1>2, <1>3 DEF BackedInv
<1>5. ASSUME NEW c \in Callers, NEW k \in Nat PROVE Copies(<<c, k>>) <= Allowed(c, k)
  <2>1. Copies(<<c, k>>) = 0
    BY <1>1, <1>2 DEF Copies
  <2>2. LinkTypes
    BY LinkInvInit DEF LinkInv
  <2>3. Allowed(c, k) \in Nat
    BY <2>2, QuotaFacts
  <2> QED
    BY <2>1, <2>3
<1> QED
  BY <1>4, <1>5 DEF SmsInv, CopiesInv

(* A coroutine's step and what the messages are.                              *)
LEMMA SmsInvCoroutine ==
  ASSUME LinkInv, SmsInv, NEW c \in Callers, Coroutine(c) PROVE SmsInv'
<1>1. /\ LinkTypes /\ RecordSound(c, call[c], lock) /\ call[c] \in CallTypes /\ pduMode \in BOOLEAN
      /\ accepted \in Seq(Ids) /\ BackedInv /\ CopiesInv
      /\ call[c].attempt \in Nat /\ call[c].number \in Nat /\ setup.retries \in Nat
      /\ call[c].attempt <= setup.retries + 1
      /\ call[c].at \in {"prompt", "text", "escape", "sleep"} => call[c].attempt > 0
      /\ call \in [Callers -> CallTypes] /\ \A r \in CallTypes : r.attempt \in Nat
  <2>1. /\ LinkTypes /\ RecordSound(c, call[c], lock) /\ call[c] \in CallTypes /\ LinkRest
        /\ call[c].attempt \in Nat /\ call[c].number \in Nat /\ setup.retries \in Nat
        /\ call[c].at \in {"prompt", "text", "escape", "sleep"} => call[c].attempt > 0
    BY SenderFacts
  <2>2. call[c].attempt <= setup.retries + 1
    BY <2>1 DEF RecordSound
  <2>3. \A r \in CallTypes : r.attempt \in Nat
    BY DEF CallTypes
  <2>4. call \in [Callers -> CallTypes] /\ pduMode \in BOOLEAN
    BY <2>1 DEF LinkTypes, LinkRest
  <2>5. accepted \in Seq(Ids) /\ BackedInv /\ CopiesInv
    BY DEF SmsInv, BackedInv
  <2> QED
    BY <2>1, <2>2, <2>3, <2>4, <2>5
\* The steps that leave a call with its number, and as many messages or more to write.
<1>2. ASSUME NEW r \in CallTypes, call' = [call EXCEPT ![c] = r], UNCHANGED <<setup, accepted>>,
             queue' = queue \/ \E is \in {"command", "cmgs", "esc"} : Written(is, c),
             r.number = call[c].number, Quota(call[c]) <= Quota(r)
      PROVE  CopiesInv'
  BY <1>1, <1>2, CopiesKept
\* A call that returns may have made every copy of its message.
<1>3. ASSUME NEW r \in CallTypes, r.at = "idle" PROVE Quota(call[c]) <= Quota(r)
  BY <1>1, <1>3, QuotaFacts DEF Quota
<1>4. CASE Call(c)
  <2>1. /\ UNCHANGED <<setup, line, queue, accepted, reported>> /\ call[c].at = "idle"
    BY <1>4 DEF Call, At, modem, history
  <2>2. PICK r \in CallTypes : call' = [call EXCEPT ![c] = r] /\ r.number = call[c].number + 1
    BY <1>1, <1>4, CallFacts
  <2>3. CopiesInv'
    BY <1>1, <2>1, <2>2, CopiesKept
  <2> QED
    BY <1>1, <2>1, <2>3, HostBacked DEF SmsInv
<1>5. CASE Acquire(c)
  <2>1. /\ UNCHANGED <<setup, line, queue, accepted, reported>> /\ call[c].at = "lock"
        /\ Flushes(c, call[c])
    BY <1>5 DEF Acquire, At, modem, history
  <2>2. PICK r \in CallTypes :
           /\ call' = [call EXCEPT ![c] = r] /\ r.at \in {"write", "flush"}
           /\ r.number = call[c].number /\ r.attempt = call[c].attempt
    BY <1>1, <2>1, FlushesFacts
  <2>3. Quota(call[c]) <= Quota(r)
    BY <1>1, <2>1, <2>2 DEF Quota
  <2> QED
    BY <1>1, <1>2, <2>1, <2>2, <2>3, HostBacked DEF SmsInv
<1>6. CASE Flushed(c)
  <2>1. /\ UNCHANGED <<setup, queue, accepted, reported>> /\ line' = <<>> /\ call[c].at = "flush"
        /\ Goes(c, "write")
    BY <1>6 DEF Flushed, At, modem, history
  <2>2. PICK r \in CallTypes :
           /\ call' = [call EXCEPT ![c] = r] /\ r.at = "write"
           /\ r.number = call[c].number /\ r.attempt = call[c].attempt
    BY <1>1, <2>1, GoesFacts
  <2>3. Quota(call[c]) <= Quota(r)
    BY <1>1, <2>1, <2>2 DEF Quota
  <2> QED
    BY <1>1, <1>2, <2>1, <2>2, <2>3, HostBacked DEF SmsInv
<1>7. CASE Write(c)
  <2>1. /\ UNCHANGED <<setup, line, accepted, reported>> /\ call[c].at = "write"
        /\ \/ call[c].attempt = 0 /\ Written("command", c) /\ Goes(c, "read")
           \/ call[c].attempt # 0 /\ Written("cmgs", c) /\ Goes(c, "prompt")
    BY <1>7 DEF Write, At, modem
  <2>2. PICK r \in CallTypes :
           /\ call' = [call EXCEPT ![c] = r]
           /\ r.number = call[c].number /\ r.attempt = call[c].attempt
           /\ (r.at = "read" /\ call[c].attempt = 0) \/ r.at = "prompt"
    <3>1. CASE call[c].attempt = 0
      BY <1>1, <2>1, <3>1, GoesFacts
    <3>2. CASE call[c].attempt # 0
      BY <1>1, <2>1, <3>2, GoesFacts
    <3> QED
      BY <3>1, <3>2
  <2>3. Quota(call[c]) <= Quota(r)
    BY <1>1, <2>1, <2>2 DEF Quota
  <2>4. \E is \in {"command", "cmgs", "esc"} : Written(is, c)
    BY <2>1
  <2> QED
    BY <1>1, <1>2, <2>1, <2>2, <2>3, <2>4, HostBacked DEF SmsInv
<1>8. CASE ReadAnswer(c)
  <2>1. /\ UNCHANGED <<setup, queue, accepted, reported>> /\ call[c].at = "read" /\ call[c].attempt = 0
    BY <1>8 DEF ReadAnswer, At, modem
  <2>2. PICK n \in 1..Len(line) :
           /\ Reads(n)
           /\ \/ CommandEnds(c, "error", call[c]) \/ CommandEnds(c, "ok", call[c])
              \/ call' = [call EXCEPT ![c].got = call[c].got \o Taken(n)]
    BY <1>8 DEF ReadAnswer
  <2>3. n \in 0..Len(line)
    BY <1>1 DEF LinkTypes, LinkRest
  <2>4. BackedInv'
    BY <1>1, <2>1, <2>2, <2>3, HostBacked
  <2>5. ASSUME NEW result \in {"ok", "error"}, CommandEnds(c, result, call[c]) PROVE SmsInv'
    <3>1. PICK r \in CallTypes :
             /\ call' = [call EXCEPT ![c] = r] /\ r.number = call[c].number
             /\ \/ r.at = "idle" /\ r.attempt = 0
                \/ r.at \in {"write", "flush"} /\ r.attempt = 1
      BY <1>1, <2>5, CommandEndsFacts
    <3>2. Quota(call[c]) <= Quota(r)
      BY <1>1, <2>1, <3>1 DEF Quota
    <3> QED
      BY <1>2, <2>1, <2>4, <3>1, <3>2 DEF SmsInv
  <2>6. CASE call' = [call EXCEPT ![c].got = call[c].got \o Taken(n)]
    <3>1. call[c].got \o Taken(n) \in Seq(LineItems)
      <4>1. line \in Seq(LineItems) /\ call[c].got \in Seq(LineItems)
        BY <1>1, CallerFacts DEF LinkRest
      <4>2. Taken(n) \in Seq(LineItems)
        BY <2>3, <4>1, ReadsFacts
      <4> QED
        BY <4>1, <4>2
    <3>2. PICK got \in Seq(LineItems) : got = call[c].got \o Taken(n)
      BY <3>1
    <3> DEFINE r == [call[c] EXCEPT !.got = got]
    <3>3. call' = [call EXCEPT ![c] = r]
      BY <2>6, <3>2
    <3>4. /\ r \in CallTypes /\ r.number = call[c].number /\ r.at = call[c].at
          /\ r.attempt = call[c].attempt
      BY <1>1 DEF CallTypes
    <3> HIDE DEF r
    <3>5. Quota(call[c]) <= Quota(r)
      BY <1>1, <2>1, <3>4 DEF Quota
    <3> QED
      BY <1>2, <2>1, <2>4, <3>3, <3>4, <3>5 DEF SmsInv
  <2> QED
    BY <2>2, <2>5, <2>6
<1>9. CASE ReadPrompt(c)
  <2>1. /\ UNCHANGED <<setup, queue, accepted, reported>> /\ call[c].at = "prompt"
        /\ \E n \in 0..Len(line) : Reads(n)
        /\ Goes(c, "text") \/ UNCHANGED call
    BY <1>9 DEF ReadPrompt, At, modem, history
  <2>2. PICK r \in CallTypes :
           /\ call' = [call EXCEPT ![c] = r] /\ r.number = call[c].number
           /\ r.attempt = call[c].attempt /\ r.at \in {"text", "prompt"}
    <3>1. CASE Goes(c, "text")
      BY <1>1, <3>1, GoesFacts
    <3>2. CASE UNCHANGED call
      <4>1. call' = [call EXCEPT ![c] = call[c]]
        BY <1>1, <3>2
      <4> QED
        BY <1>1, <2>1, <4>1
    <3> QED
      BY <2>1, <3>1, <3>2
  <2>3. Quota(call[c]) <= Quota(r)
    BY <1>1, <2>1, <2>2 DEF Quota
  <2> QED
    BY <1>1, <1>2, <2>1, <2>2, <2>3, HostBacked DEF SmsInv
<1>10. CASE PromptTimesOut(c)
  <2>1. /\ UNCHANGED <<setup, line, queue, accepted, reported>> /\ call[c].at = "prompt"
        /\ Goes(c, "escape")
    BY <1>10 DEF PromptTimesOut, At, modem, history
  <2>2. PICK r \in CallTypes :
           /\ call' = [call EXCEPT ![c] = r] /\ r.number = call[c].number
           /\ r.attempt = call[c].attempt /\ r.at = "escape"
    BY <1>1, <2>1, GoesFacts
  <2>3. Quota(call[c]) <= Quota(r)
    BY <1>1, <2>1, <2>2 DEF Quota
  <2> QED
    BY <1>1, <1>2, <2>1, <2>2, <2>3, HostBacked DEF SmsInv
<1>11. CASE Escape(c)
  <2>1. /\ UNCHANGED <<setup, line, accepted, reported>> /\ call[c].at = "escape" /\ call[c].attempt # 0
        /\ Written("esc", c) /\ AttemptFails(c)
    BY <1>1, <1>11 DEF Escape, At, modem, history
  <2>2. PICK r \in CallTypes :
           /\ call' = [call EXCEPT ![c] = r] /\ r.number = call[c].number
           /\ r.at \in {"idle", "sleep"} /\ (r.at = "sleep" => r.attempt = call[c].attempt)
    BY <1>1, <2>1, AttemptFailsFacts
  <2>3. Quota(call[c]) <= Quota(r)
    <3>1. CASE r.at = "idle"
      BY <1>3, <3>1
    <3>2. CASE r.at = "sleep"
      BY <1>1, <2>1, <2>2, <3>2 DEF Quota
    <3> QED
      BY <2>2, <3>1, <3>2
  <2>4. \E is \in {"command", "cmgs", "esc"} : Written(is, c)
    BY <2>1
  <2> QED
    BY <1>1, <1>2, <2>1, <2>2, <2>3, <2>4, HostBacked DEF SmsInv
<1>12. CASE WritePdu(c)
  <2>1. UNCHANGED <<line, accepted, reported>>
    BY <1>12 DEF WritePdu, modem, history
  <2> QED
    BY <1>1, <1>12, <2>1, WritePduCopies, HostBacked DEF SmsInv
<1>13. CASE ReadSent(c)
  <2>1. /\ UNCHANGED <<setup, queue, accepted>>
        /\ \/ call' = [call EXCEPT ![c] = NoCall(call[c].number, "ok")]
           \/ call' = [call EXCEPT ![c] = NoCall(call[c].number, "error")]
           \/ call' = call
    BY <1>13 DEF ReadSent, modem
  <2>2. PICK r \in CallTypes :
           /\ call' = [call EXCEPT ![c] = r] /\ r.number = call[c].number
           /\ r.at = "idle" \/ r = call[c]
    <3>1. ASSUME NEW result \in {"ok", "error"}
          PROVE  /\ NoCall(call[c].number, result) \in CallTypes
                 /\ NoCall(call[c].number, result).number = call[c].number
                 /\ NoCall(call[c].number, result).at = "idle"
      BY <1>1, NoCallFacts
    <3>2. CASE call' = call
      <4>1. call' = [call EXCEPT ![c] = call[c]]
        BY <1>1, <3>2
      <4> QED
        BY <1>1, <4>1
    <3> QED
      BY <2>1, <3>1, <3>2
  <2>3. Quota(call[c]) <= Quota(r)
    <3>1. CASE r.at = "idle"
      BY <1>3, <3>1
    <3>2. CASE r = call[c]
      <4>1. Quota(call[c]) \in Nat
        BY <1>1, QuotaFacts
      <4> QED
        BY <3>2, <4>1
    <3> QED
      BY <2>2, <3>1, <3>2
  <2> QED
    BY <1>1, <1>2, <1>13, <2>1, <2>2, <2>3, ReadSentBacked DEF SmsInv
<1>14. CASE Retry(c)
  <2> DEFINE again == [call[c] EXCEPT !.attempt = @ + 1]
  <2>1. /\ UNCHANGED <<setup, line, queue, accepted, reported>> /\ call[c].at = "sleep"
        /\ Flushes(c, again)
    BY <1>14 DEF Retry, At, modem, history
  <2>2. PICK next \in Nat : next = call[c].attempt + 1
    BY <1>1
  <2>3. again \in CallTypes /\ again.attempt = next /\ again.number = call[c].number
    <3>1. again = [call[c] EXCEPT !.attempt = next]
      BY <1>1, <2>2
    <3> HIDE DEF again
    <3> QED
      BY <1>1, <3>1 DEF CallTypes
  <2> HIDE DEF again
  <2>4. PICK r \in CallTypes :
           /\ call' = [call EXCEPT ![c] = r] /\ r.at \in {"write", "flush"}
           /\ r.number = again.number /\ r.attempt = again.attempt
    BY <2>1, <2>3, FlushesFacts
  <2>5. Quota(call[c]) <= Quota(r)
    BY <1>1, <2>1, <2>2, <2>3, <2>4 DEF Quota
  <2> QED
    BY <1>1, <1>2, <2>1, <2>3, <2>4, <2>5, HostBacked DEF SmsInv
<1>15. CASE Deadline(c)
  <2>1. /\ UNCHANGED <<setup, line, queue, accepted, reported>> /\ call[c].at = "read"
        /\ \/ call[c].attempt = 0 /\ CommandEnds(c, "timeout", call[c])
           \/ call[c].attempt # 0 /\ AttemptFails(c)
    BY <1>15 DEF Deadline, At, modem
  <2>2. CASE call[c].attempt = 0 /\ CommandEnds(c, "timeout", call[c])
    <3>1. PICK r \in CallTypes :
             /\ call' = [call EXCEPT ![c] = r] /\ r.number = call[c].number
             /\ \/ r.at = "idle" /\ r.attempt = 0
                \/ r.at \in {"write", "flush"} /\ r.attempt = 1
      BY <1>1, <2>2, CommandEndsFacts
    <3>2. Quota(call[c]) <= Quota(r)
      BY <1>1, <2>1, <2>2, <3>1 DEF Quota
    <3> QED
      BY <1>1, <1>2, <2>1, <3>1, <3>2, HostBacked DEF SmsInv
  <2>3. CASE call[c].attempt # 0 /\ AttemptFails(c)
    <3>1. PICK r \in CallTypes :
             /\ call' = [call EXCEPT ![c] = r] /\ r.number = call[c].number
             /\ r.at \in {"idle", "sleep"} /\ (r.at = "sleep" => r.attempt = call[c].attempt)
      BY <1>1, <2>3, AttemptFailsFacts
    <3>2. Quota(call[c]) <= Quota(r)
      <4>1. CASE r.at = "idle"
        BY <1>3, <4>1
      <4>2. CASE r.at = "sleep"
        BY <1>1, <2>1, <3>1, <4>2 DEF Quota
      <4> QED
        BY <3>1, <4>1, <4>2
    <3> QED
      BY <1>1, <1>2, <2>1, <3>1, <3>2, HostBacked DEF SmsInv
  <2> QED
    BY <2>1, <2>2, <2>3
<1>16. CASE PortFails(c)
  <2>1. /\ UNCHANGED <<setup, line, queue, accepted, reported>>
        /\ \/ call[c].attempt = 0 /\ CommandEnds(c, "failed", call[c])
           \/ call' = [call EXCEPT ![c] = NoCall(call[c].number, "failed")]
        /\ call[c].at \in {"write", "read", "text", "escape"}
    BY <1>16 DEF PortFails, modem
  <2>2. CASE call[c].attempt = 0 /\ CommandEnds(c, "failed", call[c])
    <3>1. PICK r \in CallTypes :
             /\ call' = [call EXCEPT ![c] = r] /\ r.number = call[c].number
             /\ \/ r.at = "idle" /\ r.attempt = 0
                \/ r.at \in {"write", "flush"} /\ r.attempt = 1
      BY <1>1, <2>2, CommandEndsFacts
    <3>2. Quota(call[c]) <= Quota(r)
      BY <1>1, <2>1, <2>2, <3>1 DEF Quota
    <3> QED
      BY <1>1, <1>2, <2>1, <3>1, <3>2, HostBacked DEF SmsInv
  <2>3. CASE call' = [call EXCEPT ![c] = NoCall(call[c].number, "failed")]
    <3>1. PICK r \in CallTypes :
             call' = [call EXCEPT ![c] = r] /\ r.number = call[c].number /\ r.at = "idle"
      BY <1>1, <2>3, NoCallFacts
    <3>2. Quota(call[c]) <= Quota(r)
      BY <1>3, <3>1
    <3> QED
      BY <1>1, <1>2, <2>1, <3>1, <3>2, HostBacked DEF SmsInv
  <2> QED
    BY <2>1, <2>2, <2>3
<1> QED
  BY <1>4, <1>5, <1>6, <1>7, <1>8, <1>9, <1>10, <1>11, <1>12, <1>13, <1>14, <1>15, <1>16 DEF Coroutine

LEMMA SmsInvStep == LinkInv /\ SmsInv /\ [ModemLinkNext]_modemLinkVars => SmsInv'
<1> SUFFICES ASSUME LinkInv, SmsInv, [ModemLinkNext]_modemLinkVars PROVE SmsInv'
  OBVIOUS
<1>1. LinkTypes /\ BackedInv /\ CopiesInv /\ accepted \in Seq(Ids)
  BY DEF LinkInv, SmsInv, BackedInv
<1>2. CASE ModemActs
  BY <1>1, <1>2, ModemBacked, ModemCopies DEF SmsInv
<1>3. CASE OrphanEnds
  <2>1. /\ UNCHANGED <<setup, queue, call, accepted, reported>>
        /\ \E n \in 0..Len(line) : Reads(n)
    BY <1>3 DEF OrphanEnds, modem, history
  <2>2. CopiesInv'
    BY <1>1, <2>1 DEF CopiesInv, Copies, Allowed, Quota
  <2> QED
    BY <1>1, <2>1, <2>2, HostBacked DEF SmsInv
<1>4. CASE \E c \in Callers : Coroutine(c)
  BY <1>4, SmsInvCoroutine
<1>5. CASE UNCHANGED modemLinkVars
  BY <1>5 DEF modemLinkVars, modem, history, SmsInv, BackedInv, CopiesInv, Copies, Allowed, Quota
<1> QED
  BY <1>2, <1>3, <1>4, <1>5 DEF ModemLinkNext

(* modem/sms_trigger.py send_raw_pdu(), _send_sms_pdu(): for any number of     *)
(* callers, calls and retries, no more messages are reported as sent than the  *)
(* network took, and it takes at most retry_count + 1 copies of one, whatever  *)
(* late prompts and answers the retries and the other callers' commands find   *)
(* on the line.                                                                *)
THEOREM SmsSafety == ModemLinkSpec => []SmsSound
<1>1. LinkInv /\ SmsInv => SmsSound
  <2> SUFFICES ASSUME LinkInv, SmsInv PROVE SmsSound
    OBVIOUS
  <2>1. /\ LinkTypes /\ line \in Seq(LineItems) /\ accepted \in Seq(Ids) /\ reported \in Nat
        /\ reported + HowMany(line, Notices) <= Len(accepted) /\ CopiesInv /\ setup \in Setups
    BY DEF LinkInv, LinkTypes, LinkRest, SmsInv, BackedInv
  <2>2. setup.retries \in Nat
    BY <2>1, ModemLinkAssumption
  <2>3. SmsBacked
    <3>1. HowMany(line, Notices) \in Nat /\ Len(accepted) \in Nat
      BY <2>1, CountType
    <3> QED
      BY <2>1, <3>1 DEF SmsBacked
  <2>4. ASSUME NEW i \in 1..Len(accepted)
        PROVE  Cardinality({j \in 1..Len(accepted) : accepted[j] = accepted[i]}) <= setup.retries + 1
    <3>1. PICK c \in Callers, k \in Nat : accepted[i] = <<c, k>>
      <4>1. accepted[i] \in Ids
        BY <2>1
      <4> QED
        BY <4>1 DEF Ids
    <3>2. {j \in 1..Len(accepted) : accepted[j] = accepted[i]} = Where(accepted, {<<c, k>>})
      BY <3>1 DEF Where
    <3>3. /\ HowMany(accepted, {<<c, k>>}) \in Nat /\ HowMany(queue, {Item("pdu", <<c, k>>)}) \in Nat
          /\ HowMany(accepted, {<<c, k>>}) + HowMany(queue, {Item("pdu", <<c, k>>)}) <= Allowed(c, k)
      <4>1. <<c, k>> \in Ids
        BY DEF Ids
      <4> QED
        BY <2>1, <4>1, CopiesFacts DEF CopiesInv, Copies
    <3>4. Allowed(c, k) \in Nat /\ Allowed(c, k) <= setup.retries + 1
      BY <2>1, QuotaFacts
    <3> QED
      <4>1. HowMany(accepted, {<<c, k>>}) <= setup.retries + 1
        BY <2>2, <3>3, <3>4
      <4> QED
        BY <3>2, <4>1 DEF HowMany
  <2>5. SmsCopies
    BY <2>4 DEF SmsCopies
  <2> QED
    BY <2>3, <2>5 DEF SmsSound
<1> QED
  BY <1>1, LinkInvInit, LinkInvStep, SmsInvInit, SmsInvStep, PTL DEF ModemLinkSpec

-----------------------------------------------------------------------------
(* Phones: what comes and goes. *)

PhoneInv == DOMAIN object = Phones /\ DOMAIN registered = Phones /\ PhoneSound

(* Whatever an answer says, the difference is to what is listed now. *)
LEMMA DifferStep ==
  ASSUME PhoneInv, NEW answer, Differ(answer)
  PROVE  PhoneInv'
<1> DEFINE gone == Departed(answer)
           new == Arrived(answer)
<1>0. \A p \in Phones :
        /\ p \in gone <=> answer[p] = "absent" /\ listed[p] # "absent"
        /\ p \in new <=> answer[p] # "absent" /\ listed[p] = "absent"
        /\ heard[p] <=> listed[p] # "absent"
  BY DEF Departed, Arrived, PhoneInv, PhoneSound, ToldInTurn
<1> HIDE DEF gone, new
<1>1. /\ listed' = answer
      /\ heard' = [p \in Phones |-> (heard[p] \/ p \in new) /\ p \notin gone]
      /\ misTold' = (misTold \/ \E p \in Phones : (p \in new /\ heard[p]) \/ (p \in gone /\ ~heard[p]))
      /\ object' = [p \in Phones |-> IF p \in gone THEN 0 ELSE object[p]]
      /\ registered' = [p \in Phones |-> IF p \in gone THEN 0 ELSE registered[p]]
  BY DEF Differ, gone, new
<1>2. ~misTold'
  BY <1>0, <1>1 DEF PhoneInv, PhoneSound, ToldInTurn
<1>3. \A p \in Phones : heard'[p] <=> listed'[p] # "absent"
  BY <1>0, <1>1
<1>4. KeptIsKnown'
  BY <1>0, <1>1 DEF PhoneInv, PhoneSound, KeptIsKnown
<1> QED
  BY <1>1, <1>2, <1>3, <1>4 DEF PhoneInv, PhoneSound, ToldInTurn

LEMMA AppliedStep ==
  ASSUME PhoneInv, NEW s, Applied(s)
  PROVE  PhoneInv'
<1>1. CASE UNCHANGED <<listed, heard, misTold, object, registered>>
  BY <1>1 DEF PhoneInv, PhoneSound, ToldInTurn, KeptIsKnown
<1> QED
  BY <1>1, DifferStep DEF Applied

LEMMA PhoneStep ==
  ASSUME PhoneInv, PhoneNext \/ UNCHANGED phoneVars
  PROVE  PhoneInv'
<1>0. DOMAIN object = Phones /\ DOMAIN registered = Phones /\ ToldInTurn /\ KeptIsKnown
  BY DEF PhoneInv, PhoneSound
<1>s. ASSUME UNCHANGED <<listed, heard, misTold, object, registered>> PROVE PhoneInv'
  BY <1>0, <1>s DEF PhoneInv, PhoneSound, ToldInTurn, KeptIsKnown
<1>1. CASE PhoneMoves \/ UNCHANGED phoneVars
  BY <1>1, <1>s DEF PhoneMoves, phoneVars
<1>2. ASSUME NEW t \in Loops, LoopAsks(t) \/ LoopApplies(t) \/ LoopEnds(t) PROVE PhoneInv'
  BY <1>2, <1>s, AppliedStep DEF LoopAsks, LoopApplies, LoopEnds
<1>3. ASSUME NEW u \in Users,
             StartPolling(u) \/ StopPolling(u) \/ StopNext(u) \/ WaitAgain(u)
             \/ \E p \in Phones, name \in {"wait", "discover"} : Discover(u, name, p) \/ StartBip(u, p)
      PROVE  PhoneInv'
  BY <1>3, <1>s DEF StartPolling, StopPolling, StopNext, WaitAgain, Discover, StartBip
<1>4. ASSUME NEW u \in Users,
             StartedPolling(u) \/ Discovered(u) \/ WaitLooks(u) \/ Searched(u)
      PROVE  PhoneInv'
  BY <1>4, AppliedStep DEF StartedPolling, Discovered, WaitLooks, Searched
<1>5. ASSUME NEW u \in Users, StopEnds(u) PROVE PhoneInv'
  <2>1. UNCHANGED <<listed, object, heard, misTold>>
    BY <1>5 DEF StopEnds
  <2>2. registered' = registered \/ registered' = [p \in Phones |-> 0]
    BY <1>5 DEF StopEnds
  <2> QED
    BY <1>0, <2>1, <2>2 DEF PhoneInv, PhoneSound, ToldInTurn, KeptIsKnown
<1>6. ASSUME NEW u \in Users, GotDevice(u) PROVE PhoneInv'
  <2> DEFINE p == use[u].phone
             g == IF object[p] # 0 THEN object[p] ELSE NewObject
  <2>1. UNCHANGED <<listed, heard, misTold>>
    BY <1>6 DEF GotDevice
  <2>2. \/ UNCHANGED <<object, registered>>
        \/ /\ listed[p] # "absent"
           /\ object' = [object EXCEPT ![p] = g] /\ registered' = [registered EXCEPT ![p] = g]
    BY <1>6 DEF GotDevice
  <2> HIDE DEF g
  <2> QED
    BY <1>0, <2>1, <2>2 DEF PhoneInv, PhoneSound, ToldInTurn, KeptIsKnown
<1>7. ASSUME NEW p \in Phones, StopBip(p) PROVE PhoneInv'
  BY <1>0, <1>7 DEF StopBip, PhoneInv, PhoneSound, ToldInTurn, KeptIsKnown
<1>8. CASE \E u \in Users : Discover(u, "discover", NoUse.phone)
  BY <1>8, <1>s DEF Discover
<1> QED
  BY <1>1, <1>2, <1>3, <1>4, <1>5, <1>6, <1>7, <1>8 DEF PhoneNext

-----------------------------------------------------------------------------
(* A trigger put into a phone. *)

Places == {"idle", "detecting", "rooting", "mode"} \cup Ways
SendingTypes == [at : Places, trigger : Nat, result : {"none", "raised", "failed"} \cup Ways]

(* What a phone may have got before the way that is tried now. *)
Before(place) ==
    IF place = "intent" THEN {"AT+CMGS", "content_provider"}
    ELSE IF place = "content_provider" THEN {"AT+CMGS"} ELSE {}

(* Each trigger is sent by one task, which has tried only earlier ways.      *)
TriggerInv ==
    /\ triggers \in 0..MaxTriggers /\ DOMAIN delivered = 1..MaxTriggers
    /\ sending \in [Senders -> SendingTypes]
    /\ \A n \in 1..MaxTriggers : n > triggers => delivered[n] = {}
    /\ \A s \in Senders : sending[s].trigger <= triggers
    /\ \A s, r \in Senders :
        sending[s].trigger = sending[r].trigger /\ sending[s].trigger # 0 => s = r
    /\ \A s \in Senders : ~SenderAt(s, "idle") =>
        /\ sending[s].trigger # 0 /\ sending[s].result \notin Ways
        /\ delivered[sending[s].trigger] \subseteq Before(sending[s].at)
    /\ \A s \in Senders : sending[s].result \in Ways => sending[s].trigger # 0
    /\ UsedIsDelivered


(* One sender moves on with a trigger of its own. *)
LEMMA TriggerMoves ==
  ASSUME TriggerInv, NEW s \in Senders, NEW e \in SendingTypes, sending' = [sending EXCEPT ![s] = e],
         triggers' \in 0..MaxTriggers, triggers <= triggers', DOMAIN delivered' = 1..MaxTriggers,
         e.trigger # 0, e.trigger <= triggers', e.trigger = sending[s].trigger \/ e.trigger > triggers,
         \A n \in 1..MaxTriggers : n # e.trigger => delivered'[n] = delivered[n],
         e.at # "idle" => e.result \notin Ways /\ delivered'[e.trigger] \subseteq Before(e.at),
         e.result \in Ways => /\ e.result \in delivered'[e.trigger] \cup {"intent"}
                              /\ delivered'[e.trigger] \cap Later[e.result] = {}
  PROVE  TriggerInv'
<1>0. /\ triggers \in Nat /\ triggers' \in Nat /\ MaxTriggers \in Nat
      /\ sending \in [Senders -> SendingTypes] /\ e.trigger \in Nat
      /\ \A r \in Senders : sending[r].trigger \in Nat /\ sending[r].trigger <= triggers
  BY TriggerAssumption DEF TriggerInv, SendingTypes
<1>1. /\ sending' \in [Senders -> SendingTypes] /\ sending'[s] = e
      /\ \A r \in Senders \ {s} : sending'[r] = sending[r] /\ sending[r].trigger # e.trigger
  BY <1>0 DEF TriggerInv
<1>2. \A r \in Senders \ {s} : sending[r].trigger # 0 =>
        delivered'[sending[r].trigger] = delivered[sending[r].trigger]
  BY <1>0, <1>1 DEF TriggerInv
<1>3. \A n \in 1..MaxTriggers : n > triggers' => delivered'[n] = {}
  BY <1>0 DEF TriggerInv
<1>4. \A r \in Senders : sending'[r].trigger <= triggers'
  BY <1>0, <1>1
<1>5. \A q, r \in Senders : sending'[q].trigger = sending'[r].trigger /\ sending'[q].trigger # 0 => q = r
  BY <1>0, <1>1 DEF TriggerInv
<1>6. ASSUME NEW r \in Senders, ~SenderAt(r, "idle")'
      PROVE  /\ sending'[r].trigger # 0 /\ sending'[r].result \notin Ways
             /\ delivered'[sending'[r].trigger] \subseteq Before(sending'[r].at)
  <2>1. CASE r = s
    BY <1>1, <1>6, <2>1 DEF SenderAt
  <2>2. CASE r # s
    BY <1>1, <1>2, <1>6, <2>2 DEF SenderAt, TriggerInv
  <2> QED
    BY <2>1, <2>2
<1>7. ASSUME NEW r \in Senders, sending'[r].result \in Ways
      PROVE  /\ sending'[r].trigger # 0
             /\ sending'[r].result \in delivered'[sending'[r].trigger] \cup {"intent"}
             /\ delivered'[sending'[r].trigger] \cap Later[sending'[r].result] = {}
  <2>1. CASE r = s
    BY <1>1, <1>7, <2>1
  <2>2. CASE r # s
    BY <1>1, <1>2, <1>7, <2>2 DEF TriggerInv, UsedIsDelivered
  <2> QED
    BY <2>1, <2>2
<1> QED
  BY <1>1, <1>3, <1>4, <1>5, <1>6, <1>7 DEF TriggerInv, UsedIsDelivered

LEMMA TriggerStep ==
  ASSUME TriggerInv, TriggerNext \/ UNCHANGED triggerVars
  PROVE  TriggerInv'
<1>0. /\ triggers \in 0..MaxTriggers /\ DOMAIN delivered = 1..MaxTriggers /\ MaxTriggers \in Nat
      /\ sending \in [Senders -> SendingTypes]
  BY TriggerAssumption DEF TriggerInv
<1>1. ASSUME NEW s \in Senders, SendTrigger(s) PROVE TriggerInv'
  <2>1. PICK at \in Places, result \in {"failed", "none"} :
          /\ sending' = [sending EXCEPT ![s] = [at |-> at, trigger |-> triggers + 1, result |-> result]]
          /\ triggers' = triggers + 1 /\ triggers < MaxTriggers /\ delivered' = delivered
    BY <1>1 DEF SendTrigger, Places, Ways
  <2> DEFINE e == [at |-> at, trigger |-> triggers + 1, result |-> result]
  <2>2. /\ e \in SendingTypes /\ e.trigger = triggers + 1 /\ e.result \notin Ways
        /\ sending' = [sending EXCEPT ![s] = e]
    BY <1>0, <2>1 DEF SendingTypes, Ways
  <2>3. delivered'[triggers + 1] = {}
    BY <1>0, <2>1 DEF TriggerInv
  <2> HIDE DEF e
  <2>4. /\ triggers' \in 0..MaxTriggers /\ triggers <= triggers' /\ DOMAIN delivered' = 1..MaxTriggers
    BY <1>0, <2>1, <2>2, <2>3
  <2>5. /\ e.trigger # 0 /\ e.trigger <= triggers' /\ e.trigger > triggers
    BY <1>0, <2>1, <2>2, <2>3
  <2>6. \A n \in 1..MaxTriggers : n # e.trigger => delivered'[n] = delivered[n]
    BY <1>0, <2>1, <2>2, <2>3
  <2>7. /\ e.result \notin Ways /\ delivered'[e.trigger] \subseteq Before(e.at)
    BY <1>0, <2>1, <2>2, <2>3
  <2> QED
    BY <2>2, <2>4, <2>5, <2>6, <2>7, TriggerMoves
<1>2. ASSUME NEW s \in Senders, TestServiceCall(s) \/ FindDeviceNode(s) \/ SendCommands(s)
      PROVE  TriggerInv'
  <2>1. sending[s].at \in {"detecting", "rooting", "mode"} /\ UNCHANGED <<delivered, triggers>>
    BY <1>2 DEF TestServiceCall, FindDeviceNode, SendCommands, SenderAt
  <2>2. /\ sending[s].trigger # 0 /\ sending[s].result \notin Ways
        /\ delivered[sending[s].trigger] = {} /\ sending[s].trigger <= triggers
    BY <2>1 DEF TriggerInv, SenderAt, Before
  <2>3. PICK at \in Places, result \in {"raised", sending[s].result} :
          sending' = [sending EXCEPT ![s].at = at, ![s].result = result]
    <3>1. CASE Results(s, "raised")
      BY <3>1 DEF Results, Places
    <3>2. CASE \E place \in Places : MovesOn(s, place)
      BY <1>0, <3>2 DEF MovesOn, SendingTypes
    <3> QED
      BY <1>2, <3>1, <3>2 DEF TestServiceCall, FindDeviceNode, SendCommands, Places, Ways
  <2> DEFINE e == [sending[s] EXCEPT !.at = at, !.result = result]
  <2>4. /\ e \in SendingTypes /\ e.trigger = sending[s].trigger /\ e.result \notin Ways
        /\ sending' = [sending EXCEPT ![s] = e]
    BY <1>0, <2>2, <2>3 DEF SendingTypes, Ways
  <2> HIDE DEF e
  <2>5. /\ triggers' \in 0..MaxTriggers /\ triggers <= triggers' /\ DOMAIN delivered' = 1..MaxTriggers
        /\ e.trigger # 0 /\ e.trigger <= triggers'
    BY <1>0, <2>1, <2>2, <2>4
  <2>6. /\ \A n \in 1..MaxTriggers : n # e.trigger => delivered'[n] = delivered[n]
        /\ delivered'[e.trigger] \subseteq Before(e.at)
    BY <2>1, <2>2, <2>4
  <2> QED
    BY <2>4, <2>5, <2>6, TriggerMoves
<1>3. ASSUME NEW s \in Senders, NEW way \in Ways, SendVia(s, way) PROVE TriggerInv'
  <2>1. PICK n : n = sending[s].trigger
    OBVIOUS
  <2>2. sending[s].at = way /\ triggers' = triggers /\ way \in Places
    BY <1>3 DEF SendVia, SenderAt, Places
  <2>3. /\ n # 0 /\ sending[s].result \notin Ways /\ n <= triggers /\ n \in 1..MaxTriggers
        /\ delivered[n] \subseteq Before(way)
    <3>1. n # 0 /\ sending[s].result \notin Ways /\ delivered[n] \subseteq Before(way) /\ n <= triggers
      BY <2>1, <2>2 DEF TriggerInv, SenderAt, Ways
    <3>2. n \in Nat
      BY <1>0, <2>1 DEF SendingTypes
    <3> QED
      BY <1>0, <3>1, <3>2
  <2>4. PICK outcome \in Shell, refused \in BOOLEAN :
          /\ delivered' = IF outcome = "failed" \/ refused THEN delivered
                          ELSE [delivered EXCEPT ![n] = delivered[n] \cup {way}]
          /\ \E seen \in Seen(way, outcome, refused) :
               IF seen THEN Results(s, way)
               ELSE IF way = "intent" THEN Results(s, "failed") ELSE MovesOn(s, NextWay[way])
    BY <1>3, <2>1 DEF SendVia
  <2>5. /\ DOMAIN delivered' = 1..MaxTriggers /\ delivered'[n] \subseteq Before(way) \cup {way}
        /\ \A m \in 1..MaxTriggers : m # n => delivered'[m] = delivered[m]
        /\ outcome # "failed" /\ ~refused => way \in delivered'[n]
    BY <1>0, <2>3, <2>4
  <2>t. triggers' \in 0..MaxTriggers /\ triggers <= triggers' /\ n <= triggers'
    BY <1>0, <2>2, <2>3
  <2>6. \/ Results(s, way) /\ outcome = "done" /\ (refused => way = "intent")
        \/ Results(s, "failed")
        \/ way # "intent" /\ MovesOn(s, NextWay[way])
    BY <2>4 DEF Seen
  <2>7. CASE Results(s, way) /\ outcome = "done" /\ (refused => way = "intent")
    <3> DEFINE e == [sending[s] EXCEPT !.at = "idle", !.result = way]
    <3>1. /\ e \in SendingTypes /\ e.trigger = n /\ e.result = way /\ e.at = "idle"
          /\ sending' = [sending EXCEPT ![s] = e]
      BY <1>0, <2>1, <2>7 DEF SendingTypes, Results, Places
    <3>2. way \in delivered'[n] \cup {"intent"} /\ delivered'[n] \cap Later[way] = {}
      BY <2>5, <2>7 DEF Before, Later, Ways
    <3> HIDE DEF e
    <3> QED
      BY <2>1, <2>3, <2>5, <2>t, <3>1, <3>2, TriggerMoves
  <2>8. CASE Results(s, "failed")
    <3> DEFINE e == [sending[s] EXCEPT !.at = "idle", !.result = "failed"]
    <3>1. /\ e \in SendingTypes /\ e.trigger = n /\ e.result \notin Ways /\ e.at = "idle"
          /\ sending' = [sending EXCEPT ![s] = e]
      BY <1>0, <2>1, <2>8 DEF SendingTypes, Results, Places, Ways
    <3> HIDE DEF e
    <3> QED
      BY <2>1, <2>3, <2>5, <2>t, <3>1, TriggerMoves
  <2>9. CASE way # "intent" /\ MovesOn(s, NextWay[way])
    <3>1. PICK later \in Places : /\ later = NextWay[way]
                                 /\ Before(way) \cup {way} \subseteq Before(later)
      BY <2>9 DEF NextWay, Ways, Before, Places
    <3> DEFINE e == [sending[s] EXCEPT !.at = later]
    <3>2. /\ e \in SendingTypes /\ e.trigger = n /\ e.result = sending[s].result /\ e.at = later
          /\ sending' = [sending EXCEPT ![s] = e]
      BY <1>0, <2>1, <2>9, <3>1 DEF SendingTypes, MovesOn
    <3> HIDE DEF e
    <3>3. delivered'[n] \subseteq Before(later)
      BY <2>5, <3>1
    <3> QED
      BY <2>1, <2>3, <2>5, <2>t, <3>2, <3>3, TriggerMoves
  <2> QED
    BY <2>6, <2>7, <2>8, <2>9
<1>4. CASE UNCHANGED triggerVars
  BY <1>4 DEF triggerVars, TriggerInv, UsedIsDelivered, SenderAt
<1> QED
  BY <1>1, <1>2, <1>3, <1>4 DEF TriggerNext

-----------------------------------------------------------------------------
(* The profiles kept. *)

StoredTypes == [has : BOOLEAN, age : Nat, stored : Nat, whole : BOOLEAN]
ReadTypes == [at : Nat, whole : BOOLEAN]
InquiryTypes == [rest : Seq(Sections), refresh : BOOLEAN, reads : [Sections -> ReadTypes]]

(* Of a phone, nothing that is being read has failed so far. *)
CacheInv ==
    /\ kind \in {"phone", "modem"} /\ epoch \in Nat
    /\ cached \in [Sections -> StoredTypes] /\ inquiry \in [Inquirers -> InquiryTypes]
    /\ \A t \in Inquirers, s \in Sections :
        /\ inquiry[t].reads[s].at <= Len(Fields(s))
        /\ kind = "phone" => inquiry[t].reads[s].whole
    /\ CacheSound

LEMMA FieldFacts ==
  ASSUME kind \in {"phone", "modem"}, NEW s \in Sections
  PROVE  /\ Len(Fields(s)) \in Nat /\ Len(Fields(s)) >= 1
         /\ \A i \in 1..Len(Fields(s)) : Fields(s)[i] \in {"must", "may", "state"}
<1> DEFINE FieldKinds == {"must", "may", "state"}
<1>1. /\ PhoneDeviceFields \in Seq(FieldKinds) /\ PhoneSimFields \in Seq(FieldKinds)
      /\ PhoneNetworkFields \in Seq(FieldKinds) /\ ModemDeviceFields \in Seq(FieldKinds)
      /\ ModemSimFields \in Seq(FieldKinds) /\ ModemNetworkFields \in Seq(FieldKinds)
      /\ Len(PhoneDeviceFields) = 2 /\ Len(PhoneSimFields) = 3 /\ Len(PhoneNetworkFields) = 2
      /\ Len(ModemDeviceFields) = 2 /\ Len(ModemSimFields) = 2 /\ Len(ModemNetworkFields) = 2
  BY DEF PhoneDeviceFields, PhoneSimFields, PhoneNetworkFields,
         ModemDeviceFields, ModemSimFields, ModemNetworkFields
<1>2. PICK fields \in Seq(FieldKinds) : fields = Fields(s) /\ Len(fields) \in {2, 3}
  BY <1>1 DEF Fields, FieldsOf, Sections
<1> HIDE DEF FieldKinds
<1>3. /\ Len(fields) \in Nat /\ Len(fields) >= 1
      /\ \A i \in 1..Len(fields) : fields[i] \in FieldKinds
  BY <1>2
<1> QED
  BY <1>2, <1>3 DEF FieldKinds

LEMMA NothingRead == NoInquiry \in InquiryTypes /\ \A s \in Sections : NoInquiry.reads[s] = NotReading
<1>1. NotReading \in ReadTypes
  BY DEF NotReading, ReadTypes
<1> QED
  BY <1>1 DEF NoInquiry, InquiryTypes

(* A call takes what is young enough, and begins to read the rest. *)
LEMMA TakesStep ==
  ASSUME CacheInv, NEW t \in Inquirers, NEW sections \in SUBSET Sections, NEW rest \in Seq(Sections),
         NEW refresh \in BOOLEAN, Takes(t, sections, rest, refresh), UNCHANGED <<kind, epoch, cached>>
  PROVE  CacheInv'
<1> DEFINE usable == Usable(refresh, sections)
           reads == [s \in Sections |->
                IF s \in sections \ usable THEN [NotReading EXCEPT !.at = 1] ELSE NotReading]
           e == [rest |-> rest, refresh |-> refresh, reads |-> reads]
<1>0. /\ kind \in {"phone", "modem"} /\ epoch \in Nat /\ CacheSound
      /\ cached \in [Sections -> StoredTypes] /\ inquiry \in [Inquirers -> InquiryTypes]
  BY DEF CacheInv
<1>1. \A r \in {NotReading, [NotReading EXCEPT !.at = 1]} : r \in ReadTypes /\ r.at \in {0, 1} /\ r.whole
  <2>1. NotReading \in ReadTypes /\ NotReading.at = 0 /\ NotReading.whole
    BY DEF NotReading, ReadTypes
  <2>2. [NotReading EXCEPT !.at = 1] \in ReadTypes /\ [NotReading EXCEPT !.at = 1].at = 1
    BY DEF NotReading, ReadTypes
  <2>3. [NotReading EXCEPT !.at = 1].whole
    BY DEF NotReading, ReadTypes
  <2> QED
    BY <2>1, <2>2, <2>3
<1>2. reads \in [Sections -> ReadTypes] /\ \A s \in Sections : reads[s].at \in {0, 1} /\ reads[s].whole
  BY <1>1
<1>3. inquiry' = [inquiry EXCEPT ![t] = e] /\ answered' = answered \cup {p.age : p \in {cached[s] : s \in usable}}
  BY DEF Takes, AnswersAll
<1>4. \A s \in usable : s \in Sections /\ cached[s].age < CacheTtl
  BY DEF Usable, IsValid
<1> HIDE DEF reads, usable
<1>5. e \in InquiryTypes /\ e.reads = reads
  BY <1>2 DEF InquiryTypes
<1> HIDE DEF e
<1>6. inquiry' \in [Inquirers -> InquiryTypes]
  BY <1>0, <1>3, <1>5
<1>7. ASSUME NEW u \in Inquirers, NEW s \in Sections
      PROVE  /\ inquiry'[u].reads[s].at <= Len(Fields(s))
             /\ kind = "phone" => inquiry'[u].reads[s].whole
  <2>1. CASE u = t
    <3>1. inquiry'[u] = e
      BY <1>0, <1>3, <2>1
    <3>2. reads[s].at \in {0, 1} /\ reads[s].whole /\ Len(Fields(s)) >= 1 /\ Len(Fields(s)) \in Nat
      BY <1>0, <1>2, FieldFacts
    <3> QED
      BY <1>5, <3>1, <3>2
  <2>2. CASE u # t
    <3>1. inquiry'[u] = inquiry[u]
      BY <1>0, <1>3, <2>2
    <3> QED
      BY <3>1 DEF CacheInv
  <2> QED
    BY <2>1, <2>2
<1>8. CacheSound'
  BY <1>0, <1>3, <1>4 DEF CacheSound, StoredSince, NoHalfProfile, AnsweredFresh
<1> QED
  BY <1>0, <1>6, <1>7, <1>8 DEF CacheInv, Fields

LEMMA ReadStep ==
  ASSUME CacheInv, NEW t \in Inquirers, NEW section \in Sections, ReadField(t, section)
  PROVE  CacheInv'
<1>0. /\ kind \in {"phone", "modem"} /\ epoch \in Nat /\ CacheSound
      /\ cached \in [Sections -> StoredTypes] /\ inquiry \in [Inquirers -> InquiryTypes]
      /\ UNCHANGED <<kind, epoch>>
  BY DEF CacheInv, ReadField
<1> DEFINE read == inquiry[t].reads[section]
           field == Fields(section)[read.at]
<1>1. /\ inquiry[t] \in InquiryTypes /\ read \in ReadTypes /\ read.at \in Nat /\ read.at > 0
      /\ read.at <= Len(Fields(section)) /\ (kind = "phone" => read.whole)
      /\ field \in {"must", "may", "state"} /\ Len(Fields(section)) \in Nat
  <2>1. inquiry[t] \in InquiryTypes /\ read \in ReadTypes /\ read.at > 0
    BY <1>0 DEF ReadField, Reading, InquiryTypes
  <2>2. read.at \in Nat /\ read.at <= Len(Fields(section)) /\ (kind = "phone" => read.whole)
    BY <2>1 DEF ReadTypes, CacheInv
  <2> QED
    BY <1>0, <2>1, <2>2, FieldFacts
<1>2. PICK works \in BOOLEAN, ends \in BOOLEAN, whole \in BOOLEAN :
        /\ whole = (read.whole /\ (works \/ field = "may"))
        /\ read.at = Len(Fields(section)) => ends
        /\ IF ~works /\ Raises(field)
           THEN inquiry' = [inquiry EXCEPT ![t] = NoInquiry] /\ UNCHANGED <<cached, answered>>
           ELSE IF ends
           THEN /\ cached' = [cached EXCEPT ![section] =
                                [has |-> TRUE, age |-> 0, stored |-> epoch, whole |-> whole]]
                /\ answered' = answered \cup {0}
                /\ inquiry' = [inquiry EXCEPT ![t].reads[section] = NotReading]
           ELSE /\ inquiry' = [inquiry EXCEPT ![t].reads[section] = [at |-> read.at + 1, whole |-> whole]]
                /\ UNCHANGED <<cached, answered>>
  <2>1. PICK works \in BOOLEAN, ends \in BOOLEAN :
          /\ read.at = Len(Fields(section)) => ends
          /\ LET now == [read EXCEPT !.whole = read.whole /\ (works \/ field = "may")]
             IN IF ~works /\ Raises(field)
                THEN inquiry' = [inquiry EXCEPT ![t] = NoInquiry] /\ UNCHANGED <<cached, answered>>
                ELSE IF ends
                THEN /\ cached' = [cached EXCEPT ![section] =
                                     [has |-> TRUE, age |-> 0, stored |-> epoch, whole |-> now.whole]]
                     /\ AnswersAll({[has |-> TRUE, age |-> 0, stored |-> epoch, whole |-> now.whole]})
                     /\ inquiry' = [inquiry EXCEPT ![t].reads[section] = NotReading]
                ELSE /\ inquiry' = [inquiry EXCEPT ![t].reads[section] = [now EXCEPT !.at = read.at + 1]]
                     /\ UNCHANGED <<cached, answered>>
    BY DEF ReadField
  <2>2. PICK whole \in BOOLEAN : whole = (read.whole /\ (works \/ field = "may"))
    OBVIOUS
  <2>3. /\ [read EXCEPT !.whole = whole].whole = whole
        /\ [[read EXCEPT !.whole = whole] EXCEPT !.at = read.at + 1] = [at |-> read.at + 1, whole |-> whole]
    <3>1. PICK now \in ReadTypes : now = [read EXCEPT !.whole = whole]
      BY <1>1, <2>2 DEF ReadTypes
    <3>2. now.whole = whole
      BY <1>1, <3>1 DEF ReadTypes
    <3>3. [now EXCEPT !.at = read.at + 1] = [at |-> read.at + 1, whole |-> now.whole]
      BY <1>1 DEF ReadTypes
    <3> QED
      BY <3>1, <3>2, <3>3
  <2>4. \A p : p.age = 0 => (AnswersAll({p}) <=> answered' = answered \cup {0})
    BY DEF AnswersAll
  <2> QED
    BY <2>1, <2>2, <2>3, <2>4
<1>3. kind = "phone" /\ (works \/ ~Raises(field)) => whole
  BY <1>1, <1>2 DEF Raises
<1>4. CASE ~works /\ Raises(field)
  <2>1. inquiry' = [inquiry EXCEPT ![t] = NoInquiry] /\ UNCHANGED <<cached, answered>>
    BY <1>2, <1>4
  <2>2. inquiry' \in [Inquirers -> InquiryTypes] /\ CacheSound'
    BY <1>0, <2>1, NothingRead DEF CacheSound, StoredSince, NoHalfProfile, AnsweredFresh
  <2>3. ASSUME NEW u \in Inquirers, NEW s \in Sections
        PROVE  /\ inquiry'[u].reads[s].at <= Len(Fields(s))
               /\ kind = "phone" => inquiry'[u].reads[s].whole
    BY <1>0, <2>1, NothingRead, FieldFacts DEF CacheInv, NotReading
  <2> QED
    BY <1>0, <2>1, <2>2, <2>3 DEF CacheInv, Fields
<1>5. CASE works \/ ~Raises(field)
  <2>1. PICK r \in ReadTypes :
          /\ inquiry' = [inquiry EXCEPT ![t].reads[section] = r]
          /\ r.at <= Len(Fields(section)) /\ (kind = "phone" => r.whole)
    <3>1. CASE ends
      <4>1. NotReading \in ReadTypes /\ NotReading.at = 0 /\ NotReading.whole
        BY DEF NotReading, ReadTypes
      <4> QED
        <5>1. inquiry' = [inquiry EXCEPT ![t].reads[section] = NotReading]
          BY <1>2, <1>5, <3>1
        <5>2. NotReading.at <= Len(Fields(section))
          BY <1>1, <4>1
        <5> QED
          BY <4>1, <5>1, <5>2
    <3>2. CASE ~ends
      <4> DEFINE r == [at |-> read.at + 1, whole |-> whole]
      <4>1. r \in ReadTypes /\ r.at = read.at + 1 /\ r.whole = whole
        <5>1. read.at + 1 \in Nat
          BY <1>1
        <5>2. r \in ReadTypes
          BY <1>2, <5>1 DEF ReadTypes
        <5>3. r.at = read.at + 1
          OBVIOUS
        <5>4. r.whole = whole
          OBVIOUS
        <5> QED
          BY <5>2, <5>3, <5>4
      <4>2. inquiry' = [inquiry EXCEPT ![t].reads[section] = r]
        BY <1>2, <1>5, <3>2
      <4> HIDE DEF r
      <4>3. r.at <= Len(Fields(section))
        <5>1. PICK l \in Nat : l = Len(Fields(section))
          BY <1>1
        <5>2. read.at \in Nat /\ read.at <= l /\ read.at # l
          BY <1>1, <1>2, <3>2, <5>1
        <5>3. read.at + 1 <= l
          BY <5>2
        <5> QED
          BY <4>1, <5>1, <5>3
      <4>4. kind = "phone" => r.whole
        BY <1>3, <1>5, <4>1
      <4> QED
        BY <4>1, <4>2, <4>3, <4>4
    <3> QED
      BY <3>1, <3>2
  <2> DEFINE e == [inquiry[t] EXCEPT !.reads[section] = r]
  <2>2. /\ e \in InquiryTypes /\ e.reads[section] = r
        /\ \A s \in Sections \ {section} : e.reads[s] = inquiry[t].reads[s]
    BY <1>1, <2>1 DEF InquiryTypes
  <2>3. inquiry' = [inquiry EXCEPT ![t] = e]
    BY <2>1
  <2> HIDE DEF e
  <2>4. inquiry' \in [Inquirers -> InquiryTypes]
    BY <1>0, <2>2, <2>3
  <2>5. ASSUME NEW u \in Inquirers, NEW s \in Sections
        PROVE  /\ inquiry'[u].reads[s].at <= Len(Fields(s))
               /\ kind = "phone" => inquiry'[u].reads[s].whole
    BY <1>0, <2>1, <2>2, <2>3 DEF CacheInv
  <2>6. cached' \in [Sections -> StoredTypes] /\ CacheSound'
    <3>1. CASE ends
      <4> DEFINE entry == [has |-> TRUE, age |-> 0, stored |-> epoch, whole |-> whole]
      <4>1. entry \in StoredTypes /\ entry.stored = epoch /\ entry.whole = whole
        BY <1>0, <1>2 DEF StoredTypes
      <4>2. cached' = [cached EXCEPT ![section] = entry] /\ answered' = answered \cup {0}
        BY <1>2, <1>5, <3>1
      <4> HIDE DEF entry
      <4>3. kind = "phone" => entry.whole
        BY <1>3, <1>5, <4>1
      <4>4. cached' \in [Sections -> StoredTypes]
        BY <1>0, <4>1, <4>2
      <4>5. StoredSince' /\ NoHalfProfile'
        BY <1>0, <4>1, <4>2, <4>3 DEF CacheSound, StoredSince, NoHalfProfile
      <4>6. AnsweredFresh'
        BY <1>0, <4>2 DEF CacheSound, AnsweredFresh
      <4> QED
        BY <4>4, <4>5, <4>6 DEF CacheSound
    <3>2. CASE ~ends
      <4>1. UNCHANGED <<cached, answered>>
        BY <1>2, <1>5, <3>2
      <4> QED
        BY <1>0, <4>1 DEF CacheSound, StoredSince, NoHalfProfile, AnsweredFresh
    <3> QED
      BY <3>1, <3>2
  <2> QED
    BY <1>0, <2>4, <2>5, <2>6 DEF CacheInv, Fields
<1> QED
  BY <1>4, <1>5

LEMMA CacheStep ==
  ASSUME CacheInv, CacheNext \/ UNCHANGED cacheVars
  PROVE  CacheInv'
<1>0. /\ kind \in {"phone", "modem"} /\ epoch \in Nat /\ CacheSound
      /\ cached \in [Sections -> StoredTypes] /\ inquiry \in [Inquirers -> InquiryTypes]
      /\ \A t \in Inquirers, s \in Sections :
            /\ inquiry[t].reads[s].at <= Len(Fields(s))
            /\ kind = "phone" => inquiry[t].reads[s].whole
  BY DEF CacheInv
<1>1. ASSUME NEW t \in Inquirers, NEW section \in Sections, Get(t, section) PROVE CacheInv'
  <2>1. <<>> \in Seq(Sections) /\ {section} \in SUBSET Sections
    OBVIOUS
  <2> QED
    BY <1>1, <2>1, TakesStep DEF Get, Inquires
<1>2. ASSUME NEW t \in Inquirers, GetFull(t) PROVE CacheInv'
  <2>1. <<>> \in Seq(Sections) /\ <<"sim", "network">> \in Seq(Sections) /\ "device" \in Sections
    BY DEF Sections
  <2> QED
    BY <1>2, <2>1, TakesStep DEF GetFull, Inquires
<1>3. ASSUME NEW t \in Inquirers, NextSection(t) PROVE CacheInv'
  <2>1. PICK rest \in Seq(Sections), refresh \in BOOLEAN : rest = inquiry[t].rest /\ refresh = inquiry[t].refresh
    BY <1>0 DEF InquiryTypes
  <2>2. Head(rest) \in Sections /\ Tail(rest) \in Seq(Sections)
    BY <1>3, <2>1, TailFacts DEF NextSection
  <2> QED
    BY <1>3, <2>1, <2>2, TakesStep DEF NextSection
<1>4. ASSUME NEW t \in Inquirers, Inquired(t) PROVE CacheInv'
  <2>1. inquiry' = [inquiry EXCEPT ![t] = NoInquiry] /\ UNCHANGED <<kind, epoch, cached, answered>>
    BY <1>4 DEF Inquired
  <2>2. inquiry' \in [Inquirers -> InquiryTypes] /\ CacheSound'
    BY <1>0, <2>1, NothingRead DEF CacheSound, StoredSince, NoHalfProfile, AnsweredFresh
  <2>3. ASSUME NEW u \in Inquirers, NEW s \in Sections
        PROVE  /\ inquiry'[u].reads[s].at <= Len(Fields(s))
               /\ kind = "phone" => inquiry'[u].reads[s].whole
    BY <1>0, <2>1, NothingRead, FieldFacts DEF NotReading
  <2> QED
    BY <1>0, <2>1, <2>2, <2>3 DEF CacheInv, Fields
<1>5. CASE InvalidateCache
  <2>1. /\ epoch' = epoch + 1 /\ cached' = [s \in Sections |-> Empty] /\ UNCHANGED <<kind, inquiry, answered>>
        /\ Empty \in StoredTypes /\ ~Empty.has /\ Empty.whole
    BY <1>5 DEF InvalidateCache, Empty, StoredTypes
  <2> QED
    BY <1>0, <2>1 DEF CacheInv, Fields, CacheSound, StoredSince, NoHalfProfile, AnsweredFresh
<1>6. CASE CacheTick
  <2>1. /\ UNCHANGED <<kind, epoch, inquiry, answered>> /\ DOMAIN cached' = Sections
        /\ cached' = [s \in Sections |-> cached'[s]]
    BY <1>6 DEF CacheTick
  <2>2. ASSUME NEW s \in Sections
        PROVE  /\ cached'[s] \in StoredTypes /\ cached'[s].has = cached[s].has
               /\ cached'[s].stored = cached[s].stored /\ cached'[s].whole = cached[s].whole
    <3>1. cached'[s] = cached[s] \/ cached'[s] = [cached[s] EXCEPT !.age = cached[s].age + 1]
      BY <1>6 DEF CacheTick
    <3> QED
      BY <1>0, <3>1 DEF StoredTypes
  <2>3. cached' \in [Sections -> StoredTypes]
    BY <2>1, <2>2
  <2> QED
    BY <1>0, <2>1, <2>2, <2>3 DEF CacheInv, Fields, CacheSound, StoredSince, NoHalfProfile, AnsweredFresh
<1>7. CASE UNCHANGED cacheVars
  BY <1>7 DEF cacheVars, CacheInv, Fields, CacheSound, StoredSince, NoHalfProfile, AnsweredFresh
<1> QED
  BY <1>1, <1>2, <1>3, <1>4, <1>5, <1>6, <1>7, ReadStep DEF CacheNext

-----------------------------------------------------------------------------
(* All of it. *)

\* Whatever the scans, users and monitors of the controller do, listeners hear of
\* each phone in turn that it came and went, and no object or registered monitor
\* is kept of a phone that has gone (DeviceManager and PhoneController).
THEOREM PhonesTold == PhoneSpec => []PhoneSound
<1>1. PhoneInit => PhoneInv
  BY DEF PhoneInit, PhoneInv, PhoneSound, ToldInTurn, KeptIsKnown, Absent
<1>2. PhoneInv /\ [PhoneNext]_phoneVars => PhoneInv'
  BY PhoneStep
<1>3. PhoneInv => PhoneSound
  BY DEF PhoneInv
<1> QED
  BY <1>1, <1>2, <1>3, PTL DEF PhoneSpec

\* Whatever adb and the phone do and however many tasks send, the way a trigger is
\* reported to have gone has delivered it, a broadcast excepted, and no later way
\* was tried (SMSTrigger.send_raw_pdu).
THEOREM TriggerTold == TriggerSpec => []UsedIsDelivered
<1>1. ASSUME TriggerInit PROVE TriggerInv
  <2>1. NoSending \in SendingTypes /\ NoSending.trigger = 0 /\ NoSending.at = "idle" /\ NoSending.result \notin Ways
    BY DEF NoSending, SendingTypes, Places, Ways
  <2>2. /\ triggers = 0 /\ delivered = [n \in 1..MaxTriggers |-> {}] /\ MaxTriggers \in Nat
        /\ sending = [s \in Senders |-> NoSending]
    BY <1>1, TriggerAssumption DEF TriggerInit
  <2> QED
    BY <2>1, <2>2 DEF TriggerInv, UsedIsDelivered, SenderAt
<1>2. TriggerInv /\ [TriggerNext]_triggerVars => TriggerInv'
  BY TriggerStep
<1>3. TriggerInv => UsedIsDelivered
  BY DEF TriggerInv
<1> QED
  BY <1>1, <1>2, <1>3, PTL DEF TriggerSpec

\* Whoever reads, invalidates or waits: what is kept was stored since the caches
\* were invalidated, of a phone it is whole, and what is answered out of it is
\* young (phone and modem profiles).
THEOREM ProfilesFresh == CacheSpec => []CacheSound
<1>1. ASSUME CacheInit PROVE CacheInv
  <2>1. /\ kind \in {"phone", "modem"} /\ epoch = 0 /\ answered = {}
        /\ cached = [s \in Sections |-> Empty] /\ inquiry = [t \in Inquirers |-> NoInquiry]
        /\ Empty \in StoredTypes /\ ~Empty.has /\ Empty.whole
    BY <1>1 DEF CacheInit, Empty, StoredTypes
  <2>2. \A s \in Sections : NoInquiry.reads[s].at = 0 /\ NoInquiry.reads[s].whole
    BY NothingRead DEF NotReading
  <2>3. inquiry \in [Inquirers -> InquiryTypes]
    BY <2>1, NothingRead
  <2>4. CacheSound
    BY <2>1 DEF CacheSound, StoredSince, NoHalfProfile, AnsweredFresh
  <2> QED
    BY <2>1, <2>2, <2>3, <2>4, FieldFacts DEF CacheInv
<1>2. CacheInv /\ [CacheNext]_cacheVars => CacheInv'
  BY CacheStep
<1>3. CacheInv => CacheSound
  BY DEF CacheInv
<1> QED
  BY <1>1, <1>2, <1>3, PTL DEF CacheSpec

\* The three run side by side, and none of them disturbs another.
THEOREM PhonesSafety == PhoneSpec /\ TriggerSpec /\ CacheSpec => []PhonesSound
<1>1. PhoneSound /\ UsedIsDelivered /\ CacheSound => PhonesSound
  BY DEF PhonesSound
<1> QED
  BY <1>1, PhonesTold, TriggerTold, ProfilesFresh, PTL
=============================================================================
