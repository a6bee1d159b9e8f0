----------------------------- MODULE StoreProofs -----------------------------
(* Proofs about the command-line tools (ToolCommands), the pool of health    *)
(* checks (HealthPool), the dashboard (Dashboard), the records of the        *)
(* database (Records) and the script library (ScriptStore).                  *)
EXTENDS ToolCommands, HealthPool, Dashboard, ScriptStore, SequenceFacts

-----------------------------------------------------------------------------
(* gp-server. *)

Places == {"new", "created", "checked", "unbound", "bound", "loop", "stopping", "leaving", "left",
           "read", "waiting", "stale", "gone"}
Processes ==
    [command : {"none", "start", "stop", "status", "close-session"}, at : Places,
     other : Pids \cup {NoPid}, port : Ports \cup {Unset}, exit : {"none", "ok", "failed", "killed"}]
ProcessTypeOK ==
    pidFile \in Pids \cup {NoPid} /\ process \in [Pids -> Processes] /\ overlap \in BOOLEAN

(* A process that serves, or has seen that no other does, and one that is    *)
(* busy with anything but serving.                                          *)
Past == {"checked", "unbound", "bound", "loop", "stopping", "leaving", "left"}
Active(p) == At(p) \notin {"new", "gone", "loop"}
Waits(p) == At(p) \in {"waiting", "stale"}
Leaving(p) == At(p) \in {"leaving", "left"}

(* Which command is where; and that the process named by the file, or found *)
(* by stop, is a server that was started.                                   *)
Roles ==
    /\ \A p \in Pids :
        /\ At(p) \in Past \cup {"created"} => process[p].command = "start"
        /\ process[p].command = "stop" => At(p) \in {"read", "waiting", "stale", "gone"}
        /\ process[p].command = "stop" /\ process[p].other # NoPid =>
             /\ At(process[p].other) # "new" /\ process[process[p].other].command = "start"
             /\ At(p) = "stale" \/ process[p].exit = "ok" => At(process[p].other) = "gone"
        /\ At(p) \in {"read", "waiting"} => process[p].command = "stop" /\ process[p].other # NoPid
        /\ At(p) = "new" => process[p].command = "none" /\ process[p].exit = "none"
    /\ pidFile # NoPid => At(pidFile) # "new" /\ process[pidFile].command = "start"

(* Commands that do not overlap: one process is busy at a time, but for a   *)
(* stop that waits for the server it told to leave.                         *)
OneAtATime ==
    /\ \A p, q \in Pids : p # q /\ At(p) \in Past => At(q) \notin Past
    /\ \A p, q \in Pids : p # q /\ Active(p) /\ Active(q) =>
            (Waits(p) /\ Leaving(q)) \/ (Waits(q) /\ Leaving(p))
    /\ \A p, q \in Pids : Waits(p) => At(q) # "loop"
    /\ \A p \in Pids : At(p) = "read" => process[p].other = pidFile
    /\ \A p \in Pids : At(p) = "loop" => pidFile = p

CommandInv == ProcessTypeOK /\ Roles /\ (~overlap => OneAtATime)

(* What a step that changes one process does to the others. *)
LEMMA OneChanges ==
  ASSUME process \in [Pids -> Processes], NEW p \in Pids, NEW r \in Processes,
         process' = [process EXCEPT ![p] = r]
  PROVE  /\ process' \in [Pids -> Processes]
         /\ process'[p] = r
         /\ \A q \in Pids : q # p => process'[q] = process[q]
OBVIOUS



(* Who a step leaves alone, and what it makes of the process it is about:    *)
(* its place, and what it returns.                                          *)
Others(p) == \A q \in Pids : q # p => process'[q] = process[q]
Puts(p, at, exit) ==
    /\ process' \in [Pids -> Processes] /\ Others(p)
    /\ process'[p].command = process[p].command /\ process'[p].other = process[p].other
    /\ process'[p].at = at /\ process'[p].exit = exit

LEMMA ToPuts ==
  ASSUME process \in [Pids -> Processes], NEW p \in Pids, NEW place \in Places, To(p, place)
  PROVE  Puts(p, place, process[p].exit)
<1> DEFINE r == [process[p] EXCEPT !.at = place]
<1>1. process' = [process EXCEPT ![p] = r]
  BY DEF To
<1>2. /\ r \in Processes /\ r.at = place /\ r.command = process[p].command
      /\ r.other = process[p].other /\ r.exit = process[p].exit
  BY DEF Processes
<1> HIDE DEF r
<1> QED
  BY <1>1, <1>2, OneChanges DEF Puts, Others

LEMMA ExitPuts ==
  ASSUME process \in [Pids -> Processes], NEW p \in Pids,
         NEW code \in {"ok", "failed", "killed"}, Exit(p, code)
  PROVE  Puts(p, "gone", code)
<1> DEFINE r == [process[p] EXCEPT !.at = "gone", !.exit = code]
<1>1. process' = [process EXCEPT ![p] = r]
  BY DEF Exit
<1>2. /\ r \in Processes /\ r.at = "gone" /\ r.command = process[p].command
      /\ r.other = process[p].other /\ r.exit = code
  BY DEF Processes, Places
<1> HIDE DEF r
<1> QED
  BY <1>1, <1>2, OneChanges DEF Puts, Others

(* The processes that begin a command. *)
LEMMA StartStep ==
  ASSUME CommandInv, NEW p \in Pids, UNCHANGED overlap,
         Start(p) \/ CloseSession(p)
  PROVE  CommandInv'
<1>0. /\ pidFile \in Pids \cup {NoPid} /\ process \in [Pids -> Processes] /\ overlap \in BOOLEAN
      /\ NoPid \notin Pids /\ Roles /\ (~overlap => OneAtATime)
  BY PortAssumption DEF CommandInv, ProcessTypeOK
<1>a. process[p].at = "new" /\ OperatorQuiet /\ pidFile' = pidFile
  BY DEF Start, CloseSession, MayBegin, At
<1>1. /\ process' \in [Pids -> Processes] /\ Others(p)
      /\ process'[p].at \in {"created", "gone"}
      /\ process'[p].command \in {"start", "close-session"}
      /\ process'[p].at = "created" => process'[p].command = "start"
  <2>1. ASSUME NEW r \in Processes, process' = [process EXCEPT ![p] = r],
               r.at \in {"created", "gone"}, r.command \in {"start", "close-session"},
               r.at = "created" => r.command = "start"
        PROVE  <1>1!:
    BY <1>0, <2>1, OneChanges DEF Others
  <2>2. ASSUME NEW command \in {"start", "close-session"},
               process' = [process EXCEPT ![p].command = command, ![p].at = "gone", ![p].exit = "failed"]
        PROVE  <1>1!:
    <3> DEFINE r == [process[p] EXCEPT !.command = command, !.at = "gone", !.exit = "failed"]
    <3>1. r \in Processes /\ r.at = "gone" /\ r.command = command
      BY <1>0 DEF Processes, Places
    <3>2. process' = [process EXCEPT ![p] = r]
      BY <2>2
    <3> HIDE DEF r
    <3> QED
      BY <2>1, <2>2, <3>1, <3>2
  <2>3. ASSUME NEW port \in Ports,
               process' = [process EXCEPT
                   ![p] = [@ EXCEPT !.command = "start", !.at = "created", !.port = port]]
        PROVE  <1>1!:
    <3> DEFINE r == [process[p] EXCEPT !.command = "start", !.at = "created", !.port = port]
    <3>1. r \in Processes /\ r.at = "created" /\ r.command = "start"
      BY <1>0 DEF Processes, Places
    <3>2. process' = [process EXCEPT ![p] = r]
      BY <2>3
    <3> HIDE DEF r
    <3> QED
      BY <2>1, <3>1, <3>2
  <2>4. \A option, environment, configured \in Ports \cup {Unset} :
            Resolved(option, environment, configured) \in Ports
    BY PortAssumption DEF Resolved
  <2> QED
    BY <2>2, <2>3, <2>4 DEF Start, CloseSession
<1>2. Roles'
  <2>1. ASSUME NEW q \in Pids, process[q].other # NoPid, process[q].command = "stop"
        PROVE  process[q].other # p /\ process[q].other \in Pids
    BY <1>0, <1>a, <2>1 DEF Roles, At, Processes
  <2> QED
    BY <1>0, <1>a, <1>1, <2>1 DEF Roles, At, Others, Past
<1>3. ASSUME ~overlap PROVE OneAtATime'
  BY <1>0, <1>a, <1>1, <1>3 DEF OneAtATime, At, Others, Past, Active, Waits, Leaving, OperatorQuiet
<1> QED
  BY <1>0, <1>a, <1>1, <1>2, <1>3 DEF CommandInv, ProcessTypeOK

(* What a place and an exit ask of the command that has them. *)
Fits(p, at, exit) ==
    /\ at \in Past \cup {"created"} => process[p].command = "start"
    /\ process[p].command = "stop" => at \in {"read", "waiting", "stale", "gone"}
    /\ process[p].command = "stop" /\ process[p].other # NoPid /\ (at = "stale" \/ exit = "ok") =>
            At(process[p].other) = "gone"
    /\ at \in {"read", "waiting"} => process[p].command = "stop" /\ process[p].other # NoPid

LEMMA RolesKept ==
  ASSUME ProcessTypeOK, Roles, NEW p \in Pids, NEW at \in Places \ {"new"}, NEW exit,
         At(p) \notin {"new", "gone"}, Puts(p, at, exit), Fits(p, at, exit),
         pidFile' \in {pidFile, NoPid, p}, pidFile' = p => process[p].command = "start"
  PROVE  Roles'
<1>0. NoPid \notin Pids /\ process \in [Pids -> Processes] /\ pidFile \in Pids \cup {NoPid}
  BY PortAssumption DEF ProcessTypeOK
<1>1. /\ \A q \in Pids : q # p => process'[q] = process[q]
      /\ process'[p].command = process[p].command /\ process'[p].other = process[p].other
      /\ process'[p].at = at /\ process'[p].exit = exit
  BY DEF Puts, Others
<1>2. ASSUME NEW q \in Pids, process[q].command = "stop", process[q].other # NoPid
      PROVE  /\ process[q].other \in Pids /\ process[q].other # q
             /\ process[process[q].other].command = "start" /\ At(process[q].other) # "new"
  BY <1>0, <1>2 DEF Roles, Processes
<1>3. \A q \in Pids : process'[q].command = process[q].command /\ process'[q].other = process[q].other
                    /\ (process[q].at = "gone" => process'[q].at = "gone")
                    /\ (process[q].at # "new" => process'[q].at # "new")
                    /\ (process'[q].at = "new" => process[q].at = "new")
  BY <1>1 DEF At
<1>4. ASSUME NEW q \in Pids PROVE Roles!1!(q)'
  <2>1. CASE q = p
    BY <1>0, <1>1, <1>2, <1>3, <2>1 DEF Roles, Fits, At
  <2>2. CASE q # p
    BY <1>0, <1>1, <1>2, <1>3, <2>2 DEF Roles, At
  <2> QED
    BY <2>1, <2>2
<1>5. Roles!2'
  BY <1>0, <1>1, <1>3 DEF Roles, At
<1> QED
  BY <1>4, <1>5 DEF Roles

(* A step that moves one process: what is left to show of it. *)
Moves(p, at, exit) ==
    /\ p \in Pids /\ at \in Places \ {"new"} /\ At(p) \notin {"new", "gone"}
    /\ Puts(p, at, exit) /\ Fits(p, at, exit)
    /\ overlap' = overlap
    /\ pidFile' \in {pidFile, NoPid, p} /\ (pidFile' = p => process[p].command = "start")

LEMMA MoveStep ==
  ASSUME CommandInv, NEW p, NEW at, NEW exit, Moves(p, at, exit), ~overlap => OneAtATime'
  PROVE  CommandInv'
<1>1. Roles'
  BY RolesKept DEF CommandInv, Moves
<1> QED
  BY <1>1 DEF CommandInv, ProcessTypeOK, Moves, Puts

(* A server that is started. *)
LEMMA StartingStep ==
  ASSUME CommandInv, NEW p \in Pids, UNCHANGED overlap,
         StartChecks(p) \/ StartBinds(p) \/ StartFails(p) \/ StartWrites(p)
  PROVE  CommandInv'
<1>0. /\ pidFile \in Pids \cup {NoPid} /\ process \in [Pids -> Processes] /\ overlap' = overlap
      /\ NoPid \notin Pids /\ Roles /\ (~overlap => OneAtATime)
  BY PortAssumption DEF CommandInv, ProcessTypeOK
<1>1. ASSUME At(p) \in {"created", "checked", "unbound", "bound"} PROVE process[p].command = "start"
  BY <1>0, <1>1 DEF Roles, Past
<1>2. ASSUME ~overlap, At(p) \in {"created", "checked", "unbound", "bound"}
      PROVE  \A q \in Pids : q # p => ~Active(q)
  BY <1>0, <1>2 DEF OneAtATime, Active, Waits, Leaving, At
<1>3. CASE StartChecks(p)
  <2>1. At(p) = "created" /\ pidFile' = pidFile
    BY <1>3 DEF StartChecks
  <2>2. CASE IsRunning(pidFile)
    <3>1. Moves(p, "gone", "failed")
      BY <1>0, <1>1, <1>3, <2>1, <2>2, ExitPuts DEF Moves, Fits, StartChecks, Places, Past
    <3>2. ASSUME ~overlap PROVE OneAtATime'
      BY <1>0, <1>2, <2>1, <3>1, <3>2
      DEF Moves, Puts, Others, OneAtATime, At, Past, Active, Waits, Leaving
    <3> QED
      BY <3>1, <3>2, MoveStep
  <2>3. CASE ~IsRunning(pidFile)
    <3>1. Moves(p, "checked", process[p].exit)
      BY <1>0, <1>1, <1>3, <2>1, <2>3, ToPuts DEF Moves, Fits, StartChecks, Places, Past
    <3>2. ASSUME ~overlap PROVE OneAtATime'
      <4>1. \A q \in Pids : At(q) # "loop"
        BY <1>0, <2>3, <3>2 DEF OneAtATime, IsRunning, At
      <4> QED
        BY <1>0, <1>2, <2>1, <3>1, <3>2, <4>1
        DEF Moves, Puts, Others, OneAtATime, At, Past, Active, Waits, Leaving
    <3> QED
      BY <3>1, <3>2, MoveStep
  <2> QED
    BY <2>2, <2>3
<1>4. CASE StartBinds(p)
  <2>1. At(p) = "checked" /\ pidFile' = pidFile
    BY <1>4 DEF StartBinds
  <2>2. PICK at \in {"unbound", "bound"} : Moves(p, at, process[p].exit)
    BY <1>0, <1>1, <1>4, <2>1, ToPuts DEF Moves, Fits, StartBinds, Places, Past
  <2>3. ASSUME ~overlap PROVE OneAtATime'
    BY <1>0, <1>2, <2>1, <2>2, <2>3
    DEF Moves, Puts, Others, OneAtATime, At, Past, Active, Waits, Leaving
  <2> QED
    BY <2>2, <2>3, MoveStep
<1>5. CASE StartFails(p)
  <2>1. At(p) = "unbound" /\ pidFile' = NoPid
    BY <1>5 DEF StartFails
  <2>2. Moves(p, "gone", "failed")
    BY <1>0, <1>1, <1>5, <2>1, ExitPuts DEF Moves, Fits, StartFails, Places, Past
  <2>3. ASSUME ~overlap PROVE OneAtATime'
    BY <1>0, <1>2, <2>1, <2>2, <2>3
    DEF Moves, Puts, Others, OneAtATime, At, Past, Active, Waits, Leaving
  <2> QED
    BY <2>2, <2>3, MoveStep
<1>6. CASE StartWrites(p)
  <2>1. At(p) = "bound" /\ pidFile' = p
    BY <1>6 DEF StartWrites
  <2>2. Moves(p, "loop", process[p].exit)
    BY <1>0, <1>1, <1>6, <2>1, ToPuts DEF Moves, Fits, StartWrites, Places, Past
  <2>3. ASSUME ~overlap PROVE OneAtATime'
    BY <1>0, <1>2, <2>1, <2>2, <2>3
    DEF Moves, Puts, Others, OneAtATime, At, Past, Active, Waits, Leaving
  <2> QED
    BY <2>2, <2>3, MoveStep
<1> QED
  BY <1>3, <1>4, <1>5, <1>6

(* A server that leaves, or is killed. *)
LEMMA LeavingStep ==
  ASSUME CommandInv, NEW p \in Pids, UNCHANGED overlap,
         HandlerRemoves(p) \/ FinallyRemoves(p) \/ Interrupt(p) \/ Crash(p)
  PROVE  CommandInv'
<1>0. /\ pidFile \in Pids \cup {NoPid} /\ process \in [Pids -> Processes] /\ overlap' = overlap
      /\ NoPid \notin Pids /\ Roles /\ (~overlap => OneAtATime)
  BY PortAssumption DEF CommandInv, ProcessTypeOK
<1>1. CASE HandlerRemoves(p)
  <2>1. At(p) \in {"stopping", "leaving"} /\ pidFile' = NoPid /\ process[p].command = "start"
    BY <1>0, <1>1 DEF HandlerRemoves, Roles, Past
  <2>2. \/ At(p) = "leaving" /\ Moves(p, "left", process[p].exit)
        \/ Moves(p, "gone", "ok")
    BY <1>0, <1>1, <2>1, ToPuts, ExitPuts DEF Moves, Fits, HandlerRemoves, Places, Past
  <2>3. ASSUME ~overlap PROVE OneAtATime'
    BY <1>0, <2>1, <2>2, <2>3
    DEF Moves, Puts, Others, OneAtATime, At, Past, Active, Waits, Leaving
  <2> QED
    BY <2>2, <2>3, MoveStep
<1>2. CASE FinallyRemoves(p)
  <2>1. At(p) = "left" /\ pidFile' = NoPid /\ process[p].command = "start"
    BY <1>0, <1>2 DEF FinallyRemoves, Roles, Past
  <2>2. Moves(p, "gone", "ok")
    BY <1>0, <1>2, <2>1, ExitPuts DEF Moves, Fits, FinallyRemoves, Places, Past
  <2>3. ASSUME ~overlap PROVE OneAtATime'
    BY <1>0, <2>1, <2>2, <2>3
    DEF Moves, Puts, Others, OneAtATime, At, Past, Active, Waits, Leaving
  <2> QED
    BY <2>2, <2>3, MoveStep
<1>3. CASE Interrupt(p)
  <2>1. /\ At(p) \in {"created", "checked", "unbound", "bound", "loop"} /\ OperatorQuiet
        /\ pidFile' = pidFile /\ process' = Signalled(p)
    BY <1>3 DEF Interrupt, Interrupted
  <2>2. process[p].command = "start"
    BY <1>0, <2>1 DEF Roles, Past
  <2>3. PICK at \in {"stopping", "leaving"} : To(p, at) /\ (At(p) = "loop" => at = "leaving")
    <3>1. /\ DOMAIN Interrupted = {"created", "checked", "unbound", "bound", "loop"}
          /\ Interrupted[At(p)] \in {"stopping", "leaving"}
          /\ At(p) = "loop" => Interrupted[At(p)] = "leaving"
      BY <2>1 DEF Interrupted
    <3>2. process' = [process EXCEPT ![p].at = Interrupted[At(p)]]
      BY <2>1, <3>1 DEF Signalled, At
    <3> QED
      BY <3>1, <3>2 DEF To
  <2>4. Moves(p, at, process[p].exit)
    BY <1>0, <2>1, <2>2, <2>3, ToPuts DEF Moves, Fits, Places, Past
  <2>5. ASSUME ~overlap PROVE OneAtATime'
    BY <1>0, <2>1, <2>3, <2>4, <2>5
    DEF Moves, Puts, Others, OneAtATime, At, Past, Active, Waits, Leaving, OperatorQuiet
  <2> QED
    BY <2>4, <2>5, MoveStep
<1>4. CASE Crash(p)
  <2>1. At(p) \notin {"new", "gone"} /\ pidFile' = pidFile /\ Exit(p, "killed")
    BY <1>4 DEF Crash, IsRunning
  <2>2. Puts(p, "gone", "killed")
    BY <1>0, <2>1, ExitPuts
  <2>3. Fits(p, "gone", "killed")
    BY DEF Fits, Past
  <2>5. Moves(p, "gone", "killed")
    BY <1>0, <2>1, <2>2, <2>3 DEF Moves, Places, Roles
  <2>6. ASSUME ~overlap PROVE OneAtATime'
    BY <1>0, <2>1, <2>5, <2>6
    DEF Moves, Puts, Others, OneAtATime, At, Past, Active, Waits, Leaving
  <2> QED
    BY <2>5, <2>6, MoveStep
<1> QED
  BY <1>1, <1>2, <1>3, <1>4

(* A command that finds the process gone. *)
LEMMA StaleStep ==
  ASSUME CommandInv, NEW p \in Pids, UNCHANGED overlap, StopWaited(p) \/ RemovesStale(p)
  PROVE  CommandInv'
<1>0. /\ pidFile \in Pids \cup {NoPid} /\ process \in [Pids -> Processes] /\ overlap' = overlap
      /\ NoPid \notin Pids /\ Roles /\ (~overlap => OneAtATime)
  BY PortAssumption DEF CommandInv, ProcessTypeOK
<1>1. CASE StopWaited(p)
  <2>1. /\ At(p) = "waiting" /\ pidFile' = pidFile
        /\ process[p].command = "stop" /\ process[p].other # NoPid
        /\ At(process[p].other) # "new"
    BY <1>0, <1>1 DEF StopWaited, Roles
  <2>2. pidFile # p
    BY <1>0, <2>1 DEF Roles
  <2>3. \/ Moves(p, "gone", "failed")
        \/ Moves(p, "stale", process[p].exit)
    <3>1. CASE IsRunning(process[p].other)
      BY <1>0, <1>1, <2>1, <2>2, <3>1, ExitPuts DEF Moves, Fits, StopWaited, Places, Past
    <3>2. CASE ~IsRunning(process[p].other)
      BY <1>0, <1>1, <2>1, <2>2, <3>2, ToPuts DEF Moves, Fits, StopWaited, Places, Past, IsRunning
    <3> QED
      BY <3>1, <3>2
  <2>4. ASSUME ~overlap PROVE OneAtATime'
    BY <1>0, <2>1, <2>3, <2>4
    DEF Moves, Puts, Others, OneAtATime, At, Past, Active, Waits, Leaving
  <2> QED
    BY <2>3, <2>4, MoveStep
<1>2. CASE RemovesStale(p)
  <2>1. At(p) = "stale" /\ pidFile' = NoPid
    BY <1>2 DEF RemovesStale
  <2>2. Fits(p, "gone", "ok")
    BY <1>0, <2>1 DEF Roles, Fits, Past
  <2>3. Moves(p, "gone", "ok")
    BY <1>0, <1>2, <2>1, <2>2, ExitPuts DEF Moves, RemovesStale, Places
  <2>4. ASSUME ~overlap PROVE OneAtATime'
    BY <1>0, <2>1, <2>3, <2>4
    DEF Moves, Puts, Others, OneAtATime, At, Past, Active, Waits, Leaving
  <2> QED
    BY <2>3, <2>4, MoveStep
<1> QED
  BY <1>1, <1>2

(* A command that reads the file. *)
LEMMA ReadingStep ==
  ASSUME CommandInv, NEW p \in Pids, UNCHANGED overlap, Stop(p) \/ Status(p)
  PROVE  CommandInv'
<1>0. /\ pidFile \in Pids \cup {NoPid} /\ process \in [Pids -> Processes] /\ overlap' = overlap
      /\ NoPid \notin Pids /\ Roles /\ (~overlap => OneAtATime)
  BY PortAssumption DEF CommandInv, ProcessTypeOK
<1>1. At(p) = "new" /\ OperatorQuiet /\ pidFile' = pidFile /\ process[p].exit = "none"
  BY <1>0 DEF Stop, Status, MayBegin, Roles
<1>2. PICK r \in Processes :
        /\ process' = [process EXCEPT ![p] = r]
        /\ \/ /\ r.command = "stop" /\ r.other = pidFile
              /\ r.at = IF pidFile = NoPid THEN "gone" ELSE "read"
              /\ pidFile # NoPid => r.exit = "none"
           \/ /\ r.command = "status"
              /\ r.at = IF pidFile = NoPid \/ IsRunning(pidFile) THEN "gone" ELSE "stale"
  <2>1. CASE Stop(p)
    <3> DEFINE r == [process[p] EXCEPT !.command = "stop", !.other = pidFile,
                       !.at = IF pidFile = NoPid THEN "gone" ELSE "read",
                       !.exit = IF pidFile = NoPid THEN "ok" ELSE process[p].exit]
    <3>1. process' = [process EXCEPT ![p] = r]
      BY <2>1 DEF Stop
    <3>2. /\ r \in Processes /\ r.command = "stop" /\ r.other = pidFile
          /\ r.at = IF pidFile = NoPid THEN "gone" ELSE "read"
          /\ pidFile # NoPid => r.exit = "none"
      BY <1>0, <1>1 DEF Processes, Places
    <3> HIDE DEF r
    <3> QED
      BY <3>1, <3>2
  <2>2. CASE Status(p)
    <3> DEFINE at == IF pidFile = NoPid \/ IsRunning(pidFile) THEN "gone" ELSE "stale"
               r == [process[p] EXCEPT !.command = "status", !.at = at,
                       !.exit = IF pidFile = NoPid \/ IsRunning(pidFile) THEN "ok" ELSE process[p].exit]
    <3>1. process' = [process EXCEPT ![p] = r]
      BY <2>2 DEF Status
    <3>2. r \in Processes /\ r.command = "status" /\ r.at = at
      BY <1>0 DEF Processes, Places
    <3> HIDE DEF r
    <3> QED
      BY <3>1, <3>2
  <2> QED
    BY <2>1, <2>2
<1>3. process' \in [Pids -> Processes] /\ process'[p] = r /\ Others(p)
  BY <1>0, <1>2, OneChanges DEF Others
<1>4. r.at \in {"gone", "read", "stale"} /\ r.command \in {"stop", "status"} /\ pidFile # p
  BY <1>0, <1>1, <1>2 DEF Roles
<1>5. ASSUME NEW q \in Pids, process[q].other # NoPid, process[q].command = "stop"
      PROVE  process[q].other # p /\ process[q].other \in Pids
  BY <1>0, <1>1, <1>5 DEF Roles, At, Processes
<1>6. Roles'
  <2>1. ASSUME NEW q \in Pids PROVE Roles!1!(q)'
    <3>1. CASE q = p
      BY <1>0, <1>1, <1>2, <1>3, <1>4, <3>1 DEF Roles, At, Others, Past
    <3>2. CASE q # p
      BY <1>0, <1>1, <1>3, <1>5, <3>2 DEF Roles, At, Others, Past
    <3> QED
      BY <3>1, <3>2
  <2>2. Roles!2'
    BY <1>0, <1>1, <1>3, <1>4 DEF Roles, At, Others
  <2> QED
    BY <2>1, <2>2 DEF Roles
<1>7. ASSUME ~overlap PROVE OneAtATime'
  <2>1. r.at = "stale" => \A q \in Pids : At(q) # "loop"
    BY <1>0, <1>2, <1>7 DEF OneAtATime, IsRunning, At
  <2>2. \A q \in Pids : q # p => ~Active(q)
    BY <1>1, <1>7 DEF OperatorQuiet, Active
  <2>3. r.at = "read" => r.other = pidFile
    BY <1>2, <1>4
  <2> QED
    BY <1>0, <1>1, <1>3, <1>4, <1>7, <2>1, <2>2, <2>3
    DEF OneAtATime, At, Others, Past, Active, Waits, Leaving
<1> QED
  BY <1>0, <1>1, <1>3, <1>6, <1>7 DEF CommandInv, ProcessTypeOK

(* stop signals the server it has found, which is not itself. *)
LEMMA SignalStep ==
  ASSUME CommandInv, NEW p \in Pids, NEW force \in BOOLEAN, UNCHANGED overlap, StopSignals(p, force)
  PROVE  CommandInv'
<1>0. /\ pidFile \in Pids \cup {NoPid} /\ process \in [Pids -> Processes] /\ overlap' = overlap
      /\ NoPid \notin Pids /\ Roles /\ (~overlap => OneAtATime)
  BY PortAssumption DEF CommandInv, ProcessTypeOK
<1>1. /\ At(p) = "read" /\ process[p].command = "stop" /\ pidFile' = pidFile
      /\ process[p].other # NoPid
  BY <1>0 DEF StopSignals, Roles
<1>2. PICK q \in Pids : q = process[p].other
  BY <1>0, <1>1 DEF Processes
<1>3. q # p /\ process[q].command = "start" /\ At(q) # "new" /\ pidFile # p
  BY <1>0, <1>1, <1>2 DEF Roles
<1>4. CASE ~IsRunning(q)
  <2>1. Moves(p, "stale", process[p].exit)
    BY <1>0, <1>1, <1>2, <1>3, <1>4, ToPuts DEF Moves, Fits, StopSignals, Places, Past, IsRunning
  <2>2. ASSUME ~overlap PROVE OneAtATime'
    <3>1. q = pidFile /\ At(q) = "gone"
      BY <1>0, <1>1, <1>2, <1>3, <1>4, <2>2 DEF OneAtATime, IsRunning
    <3>2. \A s \in Pids : At(s) # "loop"
      BY <1>0, <2>2, <3>1 DEF OneAtATime, At
    <3> QED
      BY <1>0, <1>1, <2>1, <2>2, <3>2
      DEF Moves, Puts, Others, OneAtATime, At, Past, Active, Waits, Leaving
  <2> QED
    BY <2>1, <2>2, MoveStep
<1>5. CASE IsRunning(q)
  <2>1. PICK s \in Processes :
          /\ process' = [process EXCEPT ![q] = s, ![p].at = "waiting"]
          /\ s.command = "start"
          /\ s.at \in Places \ {"new", "read", "waiting"}
          /\ At(q) = "gone" => s.at = "gone"
          /\ At(q) = "loop" => s.at \in {"gone", "leaving"}
    <3>1. CASE force
      <4> DEFINE s == [process[q] EXCEPT !.at = "gone", !.exit = "killed"]
      <4>1. process' = [process EXCEPT ![q] = s, ![p].at = "waiting"]
        BY <1>0, <1>2, <1>3, <1>5, <3>1 DEF StopSignals
      <4>2. s \in Processes /\ s.command = "start" /\ s.at = "gone"
        BY <1>0, <1>3 DEF Processes, Places
      <4> HIDE DEF s
      <4> QED
        BY <4>1, <4>2 DEF Places
    <3>2. CASE ~force
      <4> DEFINE at == IF At(q) \in DOMAIN Interrupted THEN Interrupted[At(q)] ELSE At(q)
                 s == [process[q] EXCEPT !.at = at]
      <4>1. process' = [process EXCEPT ![q] = s, ![p].at = "waiting"]
        BY <1>0, <1>2, <1>3, <1>5, <3>2 DEF StopSignals, Signalled, At
      <4>2. /\ at \in Places \ {"new", "read", "waiting"}
            /\ At(q) = "gone" => at = "gone"
            /\ At(q) = "loop" => at = "leaving"
        <5>1. At(q) \in Places \ {"new", "read", "waiting"}
          BY <1>0, <1>3 DEF Roles, Processes, At
        <5> QED
          BY <5>1 DEF Interrupted, Places
      <4> HIDE DEF at
      <4>3. s \in Processes /\ s.command = "start" /\ s.at = at
        BY <1>0, <1>3, <4>2 DEF Processes
      <4> HIDE DEF s
      <4> QED
        BY <4>1, <4>2, <4>3
    <3> QED
      BY <3>1, <3>2
  <2>2. /\ process' \in [Pids -> Processes]
        /\ process'[q] = s
        /\ process'[p] = [process[p] EXCEPT !.at = "waiting"]
        /\ \A c \in Pids \ {p, q} : process'[c] = process[c]
    BY <1>0, <1>3, <2>1 DEF Processes, Places
  <2>3. /\ process'[p].at = "waiting" /\ process'[p].command = "stop"
        /\ process'[p].other = q /\ process'[p].exit = process[p].exit
    BY <1>0, <1>1, <1>2, <2>2 DEF Processes
  <2>4. process[p].exit # "ok"
    BY <1>0, <1>1, <1>2, <1>5 DEF Roles, IsRunning
  <2>5. \A c \in Pids : /\ process'[c].command = process[c].command
                        /\ process[c].at = "gone" => process'[c].at = "gone"
                        /\ process[c].at # "new" => process'[c].at # "new"
    BY <1>1, <1>3, <2>1, <2>2, <2>3 DEF At
  <2>6. ASSUME NEW c \in Pids, process[c].other # NoPid, process[c].command = "stop"
        PROVE  /\ process[c].other \in Pids /\ process[process[c].other].command = "start"
               /\ At(process[c].other) # "new"
    BY <1>0, <2>6 DEF Roles, Processes
  <2>7. Roles'
    <3>1. ASSUME NEW c \in Pids PROVE Roles!1!(c)'
      <4>1. CASE c = p
        BY <1>0, <1>3, <2>2, <2>1, <2>3, <2>4, <4>1 DEF Roles, At, Past
      <4>2. CASE c = q
        BY <1>0, <1>3, <2>1, <2>2, <4>2 DEF Roles, At, Past
      <4>3. CASE c \notin {p, q}
        <5>1. process'[c] = process[c]
          BY <2>2, <4>3
        <5>2. ASSUME process[c].command = "stop", process[c].other # NoPid
              PROVE  Roles!1!(c)!3!2'
          <6>1. PICK o \in Pids :
                    /\ o = process[c].other /\ process[o].command = "start" /\ process[o].at # "new"
                    /\ (process[c].at = "stale" \/ process[c].exit = "ok") => process[o].at = "gone"
            <7>1. Roles!1!(c)!3!2
              BY <1>0, <5>2 DEF Roles
            <7> QED
              BY <2>6, <5>2, <7>1 DEF At
          <6>2. /\ process'[o].command = "start" /\ process'[o].at # "new"
                /\ (process[o].at = "gone" => process'[o].at = "gone")
            BY <2>5, <6>1
          <6> QED
            BY <5>1, <6>1, <6>2 DEF At
        <5> QED
          BY <1>0, <5>1, <5>2 DEF Roles, At
      <4> QED
        BY <4>1, <4>2, <4>3
    <3>2. ASSUME pidFile # NoPid PROVE At(pidFile)' # "new" /\ process'[pidFile'].command = "start"
      <4>1. PICK f \in Pids : f = pidFile /\ process[f].at # "new" /\ process[f].command = "start"
        BY <1>0, <3>2 DEF Roles, At
      <4>2. process'[f].at # "new" /\ process'[f].command = "start"
        BY <2>5, <4>1
      <4>3. pidFile' = f
        BY <1>1, <4>1
      <4> QED
        BY <4>2, <4>3 DEF At
    <3>3. Roles!2'
      BY <1>1, <3>2 DEF At
    <3> QED
      BY <3>1, <3>3 DEF Roles
  <2>8. ASSUME ~overlap PROVE OneAtATime'
    <3>1. At(q) = "loop" /\ s.at \in {"gone", "leaving"}
      BY <1>0, <1>1, <1>3, <1>5, <2>1, <2>8 DEF OneAtATime, IsRunning, Active, Waits, Leaving
    <3>2. \A c \in Pids \ {p, q} : ~Active(c) /\ At(c) # "loop"
      BY <1>0, <1>1, <1>3, <2>8, <3>1 DEF OneAtATime, Active, Waits, Leaving, Past
    <3>3. /\ \A c \in Pids \ {p, q} : At(c)' \in {"new", "gone"}
          /\ At(p)' = "waiting" /\ At(q)' \in {"gone", "leaving"}
      BY <2>2, <2>3, <3>1, <3>2 DEF Active, At
    <3>4. \A c \in Pids : /\ At(c)' # "loop" /\ At(c)' # "read"
                          /\ (At(c)' \in Past \/ Leaving(c)' => c = q)
                          /\ (Active(c)' => c \in {p, q})
      BY <3>3 DEF Past, Active, Leaving
    <3>5. Waits(p)' /\ (Active(q)' => Leaving(q)')
      BY <3>3 DEF Waits, Leaving, Active
    <3> QED
      BY <3>4, <3>5 DEF OneAtATime
  <2> QED
    BY <1>0, <1>1, <2>2, <2>7, <2>8 DEF CommandInv, ProcessTypeOK
<1> QED
  BY <1>4, <1>5

-----------------------------------------------------------------------------
(* The tools as a whole. *)

CommandsInv == CommandInv /\ ShownIsWhole

LEMMA CommandsInitial == CommandsInit => CommandsInv
<1> SUFFICES ASSUME CommandsInit PROVE CommandsInv
  OBVIOUS
<1>1. Fresh \in Processes
  BY DEF Fresh, Processes, Places
<1>2. \A p \in Pids : /\ process[p].at = "new" /\ process[p].command = "none"
                     /\ process[p].exit = "none"
  BY DEF CommandsInit, ServerCommandInit, Fresh
<1>3. ProcessTypeOK
  BY <1>1 DEF CommandsInit, ServerCommandInit, ProcessTypeOK
<1>4. Roles
  BY <1>2 DEF CommandsInit, ServerCommandInit, Roles, At, Past
<1>5. OneAtATime
  BY <1>2 DEF OneAtATime, At, Past, Active, Waits, Leaving
<1> QED
  BY <1>3, <1>4, <1>5 DEF CommandInv, CommandsInv, CommandsInit, DeviceInit, ShownIsWhole

(* load, list and compare show what a file holds only when it is a profile. *)
LEMMA DeviceStep ==
  ASSUME ShownIsWhole, DeviceNext
  PROVE  ShownIsWhole'
<1>1. \A n : Readable(n) => saved[n] \in Clerks
  BY DEF Readable
<1>2. PICK c \in Clerks : DeviceNext!(c)
  BY DEF DeviceNext
<1>3. CASE LoadReads(c) \/ ListProfiles(c) \/ \E one, two \in Profiles_ : CompareProfiles(c, one, two)
  <2>1. CASE LoadReads(c)
    <3>1. \/ displayed' = displayed
          \/ Readable(desk[c].name) /\ displayed' = displayed \cup {saved[desk[c].name]}
      BY <2>1 DEF LoadReads
    <3> QED
      BY <1>1, <3>1 DEF ShownIsWhole
  <2>2. CASE ListProfiles(c)
    <3>1. displayed' = displayed \cup {saved[n] : n \in {m \in Profiles_ : Readable(m)}}
      BY <2>2 DEF ListProfiles
    <3> QED
      BY <1>1, <3>1 DEF ShownIsWhole
  <2>3. ASSUME NEW one \in Profiles_, NEW two \in Profiles_, CompareProfiles(c, one, two)
        PROVE  ShownIsWhole'
    <3>1. \/ displayed' = displayed
          \/ Readable(one) /\ Readable(two) /\ displayed' = displayed \cup {saved[one], saved[two]}
      BY <2>3 DEF CompareProfiles
    <3> QED
      BY <1>1, <3>1 DEF ShownIsWhole
  <2> QED
    BY <1>3, <2>1, <2>2, <2>3
<1>4. CASE displayed' = displayed
  BY <1>4 DEF ShownIsWhole
<1> QED
  BY <1>2, <1>3, <1>4
  DEF Takes, AskDevice, DeviceAnswers, Save, PhoneSave, SaveChecks, SaveReads, SaveWrites,
      SaveKilled, Load, DeleteProfile, DeleteUnlinks

LEMMA CommandsStep == CommandsInv /\ [CommandsNext]_commandVars => CommandsInv'
<1> SUFFICES ASSUME CommandsInv, [CommandsNext]_commandVars PROVE CommandsInv'
  OBVIOUS
<1> USE DEF CommandsInv
<1>1. CASE ServerCommandNext /\ UNCHANGED deviceVars
  <2>1. ShownIsWhole'
    BY <1>1 DEF deviceVars, ShownIsWhole
  <2>2. PICK p \in Pids : ServerCommandNext!2!(p)
    BY <1>1 DEF ServerCommandNext
  <2>3. UNCHANGED overlap
    BY <1>1 DEF ServerCommandNext
  <2> QED
    BY <2>1, <2>2, <2>3, StartStep, StartingStep, LeavingStep, StaleStep, ReadingStep, SignalStep
<1>2. CASE DeviceNext /\ UNCHANGED serverCommandVars
  <2>1. CommandInv'
    BY <1>2
    DEF serverCommandVars, CommandInv, ProcessTypeOK, Roles, OneAtATime, At, Active, Waits, Leaving
  <2> QED
    BY <1>2, <2>1, DeviceStep
<1>3. CASE UNCHANGED commandVars
  <2>1. CommandInv'
    BY <1>3 DEF commandVars, serverCommandVars, CommandInv, ProcessTypeOK, Roles, OneAtATime, At,
                Active, Waits, Leaving
  <2> QED
    BY <1>3, <2>1 DEF commandVars, deviceVars, ShownIsWhole
<1> QED
  BY <1>1, <1>2, <1>3 DEF CommandsNext

(* The exit codes and the listings of the tools are true: without commands   *)
(* that overlap, a server that serves is the one the PID file names; stop    *)
(* reports success only of a server that has gone; and what load, list and  *)
(* compare show was saved whole, for any number of processes, ports and     *)
(* profiles (cli/server.py, cli/modem.py, cli/phone.py).                     *)
THEOREM CommandsTrue == CommandsSpec => []CommandsSound
<1>1. CommandsInv => CommandsSound
  BY DEF CommandsInv, CommandInv, Roles, OneAtATime, CommandsSound, ServerCommandSound,
         ServerListed, StoppedIsGone, IsRunning, At
<1> QED
  BY <1>1, CommandsInitial, CommandsStep, PTL DEF CommandsSpec

-----------------------------------------------------------------------------
(* observability/health: the pool of checks. *)

States == {"healthy", "degraded", "unhealthy"}
Verdicts == States \cup {"late"}
Runs_ ==
    [id : Nat, asked : Seq(Checks), awaits : Seq(Checks), ended : SUBSET (Checks \X States),
     results : Seq(Verdicts), well : SUBSET Checks, verdict : Verdicts \cup {"none", "raised"}]
Jobs == [by : HealthCallers, run : Nat, check : Checks]

HealthTypeOK ==
    /\ registry \in Seq(Checks) /\ condition \in [Checks -> States]
    /\ health \in [server : {"down", "up", "closing"}, pool : BOOLEAN, runs : Nat, turns : Nat]
    /\ jobs \in Seq(Jobs) /\ runs \in [HealthCallers -> Runs_]

(* What a run has noted of its checks is true: a check found healthy was    *)
(* well since the run began, and so were the checks it no longer awaits if  *)
(* each was noted healthy.                                                  *)
TrueRun(run) ==
    /\ \A e \in run.ended : e[2] = "healthy" => e[1] \in run.well
    /\ run.awaits # <<>> /\ ToSet(run.results) \subseteq {"healthy"} =>
            ToSet(run.asked) \ ToSet(run.awaits) \subseteq run.well
    /\ run.verdict = "healthy" => ToSet(run.asked) \subseteq run.well
RunsTrue ==
    \A c \in HealthCallers : TrueRun(runs[c]) /\ (Busy(c) => Well(condition) \subseteq runs[c].well)

(* A check is in the line once for a run. *)
JobsOnce ==
    /\ IsInjective(registry) /\ IsInjective(jobs)
    /\ \A job \in ToSet(jobs) : job.run <= health.runs

ServerAnswers == health.server = "down" => ~Busy(HttpServer)

HealthInv == HealthTypeOK /\ RunsTrue /\ JobsOnce /\ ServerAnswers

LEMMA HealthInitial == HealthInit => HealthInv
<1> SUFFICES ASSUME HealthInit PROVE HealthInv
  OBVIOUS
<1> USE DEF HealthInit
<1>1. registry \in Seq(Checks) /\ IsInjective(registry)
  BY HealthAssumption, SetToSeqFacts
<1>2. \A c \in HealthCallers : runs[c] = NoRun
  OBVIOUS
<1>3. ToSet(<<>>) = {} /\ NoRun \in Runs_
  BY DEF ToSet, NoRun, Runs_, Verdicts, States
<1>4. HealthTypeOK
  BY <1>1, <1>3 DEF HealthTypeOK, States
<1>5. TrueRun(NoRun) /\ \A c \in HealthCallers : ~Busy(c)
  BY <1>2, <1>3 DEF TrueRun, NoRun, Busy
<1>6. RunsTrue
  BY <1>2, <1>5 DEF RunsTrue
<1>7. JobsOnce
  BY <1>1, <1>3 DEF JobsOnce, IsInjective
<1> QED
  BY <1>4, <1>5, <1>6, <1>7, HealthAssumption DEF HealthInv, ServerAnswers

(* What is checked changes, and the registry with it. *)
LEMMA TurnStep ==
  ASSUME HealthInv, NEW k \in Checks,
         ConditionChanges(k) \/ RegisterCheck(k) \/ UnregisterCheck(k)
  PROVE  HealthInv'
<1>0. HealthTypeOK /\ RunsTrue /\ JobsOnce /\ ServerAnswers
  BY DEF HealthInv
<1>1. /\ health' \in [server : {"down", "up", "closing"}, pool : BOOLEAN, runs : Nat, turns : Nat]
      /\ health'.server = health.server /\ health'.runs = health.runs /\ jobs' = jobs
  BY <1>0 DEF HealthTypeOK, ConditionChanges, RegisterCheck, UnregisterCheck, Turned
<1>2. CASE ConditionChanges(k)
  <2>1. PICK now \in States : condition' = [condition EXCEPT ![k] = now]
    BY <1>2 DEF ConditionChanges, States
  <2>2. /\ registry' = registry
        /\ runs' = [c \in HealthCallers |-> [runs[c] EXCEPT !.well = @ \cup Well(condition')]]
    BY <1>2 DEF ConditionChanges
  <2>3. condition' \in [Checks -> States] /\ Well(condition') \subseteq Checks
    BY <1>0, <2>1 DEF HealthTypeOK, Well
  <2>4. ASSUME NEW c \in HealthCallers
        PROVE  /\ runs'[c] \in Runs_ /\ TrueRun(runs'[c]) /\ (Busy(c)' <=> Busy(c))
               /\ Well(condition') \subseteq runs'[c].well
    <3> DEFINE w == Well(condition')
    <3> HIDE DEF w
    <3>1. runs'[c] = [runs[c] EXCEPT !.well = @ \cup w] /\ runs[c] \in Runs_ /\ TrueRun(runs[c])
      BY <1>0, <2>2 DEF HealthTypeOK, RunsTrue, w
    <3>2. w \subseteq Checks /\ w = Well(condition')
      BY <2>3 DEF w
    <3>3. runs'[c] \in Runs_ /\ w \subseteq runs'[c].well /\ runs'[c].awaits = runs[c].awaits
      <4>1. PICK run \in Runs_ : run = runs[c] /\ runs'[c] = [run EXCEPT !.well = run.well \cup w]
        BY <3>1
      <4>2. PICK v \in SUBSET Checks : v = run.well \cup w
        BY <3>2 DEF Runs_
      <4>3. [run EXCEPT !.well = v] \in Runs_
        BY DEF Runs_
      <4>4. [run EXCEPT !.well = v].well = v /\ [run EXCEPT !.well = v].awaits = run.awaits
        BY DEF Runs_
      <4> QED
        BY <4>1, <4>2, <4>3, <4>4
    <3>4. TrueRun(runs'[c])
      BY <3>1 DEF TrueRun, Runs_
    <3> QED
      BY <3>2, <3>3, <3>4 DEF Busy
  <2>5. HealthTypeOK'
    BY <1>0, <1>1, <2>2, <2>3, <2>4 DEF HealthTypeOK
  <2>6. RunsTrue'
    BY <2>4 DEF RunsTrue
  <2> QED
    BY <1>0, <1>1, <2>2, <2>4, <2>5, <2>6, HealthAssumption DEF HealthInv, JobsOnce, ServerAnswers
<1>3. CASE RegisterCheck(k) \/ UnregisterCheck(k)
  <2>1. UNCHANGED <<condition, jobs, runs>>
    BY <1>3 DEF RegisterCheck, UnregisterCheck
  <2>2. registry' \in Seq(Checks) /\ IsInjective(registry')
    <3>1. CASE RegisterCheck(k)
      <4>1. k \notin ToSet(registry) /\ registry' = Append(registry, k)
        BY <1>0, <3>1 DEF RegisterCheck, Contains, ToSet, HealthTypeOK
      <4> QED
        BY <1>0, <4>1, AppendFacts DEF HealthTypeOK, JobsOnce
    <3>2. CASE UnregisterCheck(k)
      <4>1. PICK i \in DOMAIN registry : registry' = RemoveAt(registry, i)
        BY <3>2 DEF UnregisterCheck
      <4> QED
        BY <1>0, <4>1, RemoveFacts DEF HealthTypeOK, JobsOnce
    <3> QED
      BY <1>3, <3>1, <3>2
  <2> QED
    BY <1>0, <1>1, <2>1, <2>2
    DEF HealthInv, HealthTypeOK, RunsTrue, Busy, JobsOnce, ServerAnswers
<1> QED
  BY <1>2, <1>3

(* A step that changes the run of one caller. *)
LEMMA RunChanges ==
  ASSUME HealthTypeOK, RunsTrue, ServerAnswers, NEW c \in HealthCallers, NEW r \in Runs_,
         runs' = [runs EXCEPT ![c] = r], condition' = condition, health'.server = health.server,
         TrueRun(r),
         r.awaits # <<>> => Well(condition) \subseteq r.well,
         r.awaits # <<>> /\ c = HttpServer => health.server # "down"
  PROVE  runs' \in [HealthCallers -> Runs_] /\ RunsTrue' /\ ServerAnswers'
<1>1. runs' \in [HealthCallers -> Runs_]
  BY DEF HealthTypeOK
<1>2. ASSUME NEW d \in HealthCallers
      PROVE  /\ TrueRun(runs'[d])
             /\ runs'[d].awaits # <<>> => Well(condition) \subseteq runs'[d].well
             /\ runs'[d].awaits # <<>> /\ d = HttpServer => health.server # "down"
  <2>1. CASE d = c
    BY <2>1 DEF HealthTypeOK
  <2>2. CASE d # c
    BY <2>2 DEF HealthTypeOK, RunsTrue, Busy, ServerAnswers
  <2> QED
    BY <2>1, <2>2
<1>3. RunsTrue'
  BY <1>2 DEF RunsTrue, Busy, Well
<1> QED
  BY <1>1, <1>2, <1>3, HealthAssumption DEF ServerAnswers, Busy

(* A check has come back, or has not in time. *)
LEMMA NotedTrue ==
  ASSUME NEW run \in Runs_, TrueRun(run), run.awaits # <<>>, NEW verdict \in Verdicts,
         verdict = "healthy" => Head(run.awaits) \in run.well
  PROVE  /\ Noted(run, verdict) \in Runs_ /\ TrueRun(Noted(run, verdict))
         /\ Noted(run, verdict).well = run.well
<1> DEFINE results == Append(run.results, verdict)
           left == Tail(run.awaits)
<1>1. /\ run.awaits \in Seq(Checks) /\ run.results \in Seq(Verdicts) /\ run.well \subseteq Checks
      /\ run.asked \in Seq(Checks)
  BY DEF Runs_
<1>2. results \in Seq(Verdicts) /\ ToSet(results) = ToSet(run.results) \cup {verdict}
  BY <1>1, AppendFacts
<1>3. left \in Seq(Checks) /\ ToSet(run.awaits) = {Head(run.awaits)} \cup ToSet(left)
  BY <1>1, TailFacts
<1>4. ToSet(results) \subseteq {"healthy"} => ToSet(run.asked) \ ToSet(left) \subseteq run.well
  BY <1>2, <1>3 DEF TrueRun
<1>5. left = <<>> => ToSet(left) = {}
  BY DEF ToSet
<1>6. Aggregated(ToSet(results)) \in Verdicts
      /\ (Aggregated(ToSet(results)) = "healthy" => ToSet(results) \subseteq {"healthy"})
  BY DEF Aggregated, Verdicts, States
<1>7. Noted(run, verdict) =
        IF left # <<>> THEN [run EXCEPT !.results = results, !.awaits = left]
        ELSE [run EXCEPT !.results = results, !.awaits = left, !.ended = {},
                         !.verdict = Aggregated(ToSet(results))]
  BY DEF Noted
<1> HIDE DEF results, left
<1>8. CASE left # <<>>
  <2>1. Noted(run, verdict) = [run EXCEPT !.results = results, !.awaits = left]
    BY <1>7, <1>8
  <2>2. Noted(run, verdict) \in Runs_
    BY <1>2, <1>3, <2>1 DEF Runs_
  <2> QED
    BY <1>4, <2>1, <2>2 DEF TrueRun, Runs_
<1>9. CASE left = <<>>
  <2> DEFINE outcome == Aggregated(ToSet(results))
  <2>1. outcome \in Verdicts /\ (outcome = "healthy" => ToSet(run.asked) \subseteq run.well)
    BY <1>4, <1>5, <1>6, <1>9
  <2>2. Noted(run, verdict) =
          [run EXCEPT !.results = results, !.awaits = left, !.ended = {}, !.verdict = outcome]
    BY <1>7, <1>9
  <2> HIDE DEF outcome
  <2>3. Noted(run, verdict) \in Runs_
    BY <1>2, <1>3, <2>1, <2>2 DEF Runs_
  <2> QED
    BY <1>9, <2>1, <2>2, <2>3 DEF TrueRun, Runs_
<1> QED
  BY <1>8, <1>9

LEMMA AwaitedStep ==
  ASSUME HealthInv, NEW c \in HealthCallers, CheckReturned(c) \/ CheckTimesOut(c)
  PROVE  HealthInv'
<1>0. HealthTypeOK /\ RunsTrue /\ JobsOnce /\ ServerAnswers
  BY DEF HealthInv
<1>1. Busy(c) /\ runs[c] \in Runs_ /\ TrueRun(runs[c]) /\ runs[c].awaits # <<>>
  BY <1>0 DEF CheckReturned, CheckTimesOut, HealthTypeOK, RunsTrue, Busy
<1>2. PICK verdict \in Verdicts :
        /\ runs' = [runs EXCEPT ![c] = Noted(runs[c], verdict)]
        /\ verdict = "healthy" => Head(runs[c].awaits) \in runs[c].well
  <2>1. CASE CheckReturned(c)
    <3>1. PICK e \in runs[c].ended :
            e[1] = Head(runs[c].awaits) /\ runs' = [runs EXCEPT ![c] = Noted(runs[c], e[2])]
      BY <2>1 DEF CheckReturned
    <3>2. e[2] \in Verdicts
      BY <1>1, <3>1 DEF Runs_, Verdicts
    <3> QED
      BY <1>1, <3>1, <3>2 DEF TrueRun
  <2>2. CASE CheckTimesOut(c)
    <3>1. "late" \in Verdicts /\ "late" # "healthy"
      BY DEF Verdicts
    <3>2. runs' = [runs EXCEPT ![c] = Noted(runs[c], "late")]
      BY <2>2 DEF CheckTimesOut
    <3> QED
      BY <3>1, <3>2
  <2> QED
    BY <2>1, <2>2
<1>3. UNCHANGED <<registry, condition, health, jobs>>
  BY DEF CheckReturned, CheckTimesOut
<1>4. PICK r \in Runs_ : r = Noted(runs[c], verdict) /\ TrueRun(r) /\ r.well = runs[c].well
  BY <1>1, <1>2, NotedTrue
<1>5. /\ Well(condition) \subseteq r.well
      /\ c = HttpServer => health.server # "down"
  BY <1>0, <1>1, <1>4 DEF RunsTrue, ServerAnswers
<1>6. runs' \in [HealthCallers -> Runs_] /\ RunsTrue' /\ ServerAnswers'
  BY <1>0, <1>2, <1>3, <1>4, <1>5, RunChanges
<1> QED
  BY <1>0, <1>3, <1>6 DEF HealthInv, HealthTypeOK, JobsOnce

(* The jobs of a run are new: no job before has its number. *)
LEMMA JobsHandedOver ==
  ASSUME HealthTypeOK, JobsOnce, NEW c \in HealthCallers, health'.runs = health.runs + 1,
         registry' = registry,
         jobs' = jobs \/
         jobs' = jobs \o [i \in DOMAIN registry |-> [by |-> c, run |-> health'.runs, check |-> registry[i]]]
  PROVE  jobs' \in Seq(Jobs) /\ JobsOnce'
<1> DEFINE n == health.runs + 1
           job(i) == [by |-> c, run |-> n, check |-> registry[i]]
           handed == [i \in 1..Len(registry) |-> job(i)]
<1>0. /\ registry \in Seq(Checks) /\ jobs \in Seq(Jobs) /\ health.runs \in Nat
      /\ DOMAIN registry = 1..Len(registry) /\ Len(registry) \in Nat
      /\ IsInjective(registry) /\ IsInjective(jobs)
      /\ \A j \in ToSet(jobs) : j.run <= health.runs
  BY DEF HealthTypeOK, JobsOnce
<1>1. jobs' = jobs \/ jobs' = jobs \o handed
  BY <1>0
<1>2. \A i \in 1..Len(registry) : job(i) \in Jobs /\ job(i).run = n /\ job(i).check = registry[i]
  BY <1>0 DEF Jobs
<1>n. n \in Nat /\ n > health.runs /\ health'.runs = n
  BY <1>0
<1> HIDE DEF job, n
<1>3. handed \in Seq(Jobs)
  BY <1>0, <1>2, IsASeq
<1>4. DOMAIN handed = 1..Len(registry)
  OBVIOUS
<1>5. IsInjective(handed)
  BY <1>0, <1>2, <1>4 DEF IsInjective
<1>6. \A j \in ToSet(handed) : j.run = n
  BY <1>2, <1>4 DEF ToSet
<1> HIDE DEF handed
<1>7. ToSet(jobs) \cap ToSet(handed) = {}
  <2>1. ASSUME NEW j \in ToSet(jobs), j \in ToSet(handed) PROVE FALSE
    <3>1. j.run = n /\ j.run <= health.runs
      BY <1>0, <1>6, <2>1
    <3> QED
      BY <1>0, <1>n, <3>1
  <2> QED
    BY <2>1
<1>8. jobs' \in Seq(Jobs) /\ IsInjective(jobs') /\ ToSet(jobs') \subseteq ToSet(jobs) \cup ToSet(handed)
  <2>1. CASE jobs' = jobs
    BY <1>0, <2>1
  <2>2. CASE jobs' = jobs \o handed
    BY <1>0, <1>3, <1>5, <1>7, <2>2, ConcatFacts
  <2> QED
    BY <1>1, <2>1, <2>2
<1>9. \A j \in ToSet(jobs') : j.run <= health'.runs
  <2>1. ToSet(jobs) \subseteq Jobs
    BY <1>0 DEF ToSet
  <2>2. \A j \in Jobs : j.run \in Nat
    BY DEF Jobs
  <2> QED
    BY <1>0, <1>6, <1>8, <1>n, <2>1, <2>2
<1> QED
  BY <1>0, <1>8, <1>9 DEF JobsOnce

LEMMA RunAllStep ==
  ASSUME HealthInv, NEW c \in HealthCallers, RunAll(c)
  PROVE  HealthInv'
<1>0. HealthTypeOK /\ RunsTrue /\ JobsOnce /\ ServerAnswers
  BY DEF HealthInv
<1>1. /\ UNCHANGED <<registry, condition>>
      /\ health' \in [server : {"down", "up", "closing"}, pool : BOOLEAN, runs : Nat, turns : Nat]
      /\ health'.runs = health.runs + 1 /\ health'.server = health.server
      /\ c = HttpServer => health.server # "down"
      /\ registry \in Seq(Checks)
  BY <1>0 DEF RunAll, HealthTypeOK
<1>2. jobs' \in Seq(Jobs) /\ JobsOnce'
  BY <1>0, <1>1, JobsHandedOver DEF RunAll
<1>3. PICK r \in Runs_ :
        /\ runs' = [runs EXCEPT ![c] = r]
        /\ r.ended = {} /\ r.results = <<>> /\ r.asked = registry
        /\ r.well = Well(condition) /\ r.awaits \in {<<>>, registry}
        /\ r.verdict = "healthy" => registry = <<>>
  <2> DEFINE w == Well(condition)
             n == health'.runs
             begun == [NoRun EXCEPT !.id = n, !.asked = registry, !.well = w]
  <2>1. w \subseteq Checks /\ n \in Nat /\ <<>> \in Seq(Checks) /\ <<>> \in Seq(Verdicts)
    BY <1>1 DEF Well
  <2>2. \/ registry = <<>> /\ runs' = [runs EXCEPT ![c] = [begun EXCEPT !.verdict = "healthy"]]
        \/ runs' = [runs EXCEPT ![c] = [begun EXCEPT !.verdict = "raised"]]
        \/ runs' = [runs EXCEPT ![c] = [begun EXCEPT !.awaits = registry]]
    BY DEF RunAll
  <2> HIDE DEF w, n
  <2>3. begun \in Runs_ /\ begun.ended = {} /\ begun.results = <<>> /\ begun.asked = registry
        /\ begun.well = w /\ begun.awaits = <<>> /\ begun.verdict = "none"
    BY <1>1, <2>1 DEF NoRun, Runs_, Verdicts, States
  <2> HIDE DEF begun
  <2>4. CASE registry = <<>> /\ runs' = [runs EXCEPT ![c] = [begun EXCEPT !.verdict = "healthy"]]
    <3> DEFINE r == [begun EXCEPT !.verdict = "healthy"]
    <3>1. r \in Runs_ /\ r.ended = {} /\ r.results = <<>> /\ r.asked = registry
          /\ r.well = w /\ r.awaits = <<>>
      BY <2>3 DEF Runs_, Verdicts, States
    <3> HIDE DEF r
    <3> QED
      BY <2>4, <3>1 DEF w, r
  <2>5. CASE runs' = [runs EXCEPT ![c] = [begun EXCEPT !.verdict = "raised"]]
    <3> DEFINE r == [begun EXCEPT !.verdict = "raised"]
    <3>1. r \in Runs_ /\ r.ended = {} /\ r.results = <<>> /\ r.asked = registry
          /\ r.well = w /\ r.awaits = <<>> /\ r.verdict = "raised"
      BY <2>3 DEF Runs_, Verdicts, States
    <3>2. runs' = [runs EXCEPT ![c] = r]
      BY <2>5
    <3> HIDE DEF r
    <3> QED
      BY <3>1, <3>2 DEF w
  <2>6. CASE runs' = [runs EXCEPT ![c] = [begun EXCEPT !.awaits = registry]]
    <3> DEFINE r == [begun EXCEPT !.awaits = registry]
    <3>1. r \in Runs_ /\ r.ended = {} /\ r.results = <<>> /\ r.asked = registry
          /\ r.well = w /\ r.awaits = registry /\ r.verdict = "none"
      BY <1>1, <2>3 DEF Runs_, Verdicts, States
    <3>2. runs' = [runs EXCEPT ![c] = r]
      BY <2>6
    <3> HIDE DEF r
    <3> QED
      BY <3>1, <3>2 DEF w
  <2> QED
    BY <2>2, <2>4, <2>5, <2>6
<1>4. TrueRun(r)
  <2>1. r.awaits # <<>> => ToSet(r.asked) \ ToSet(r.awaits) = {}
    BY <1>3
  <2>2. r.verdict = "healthy" => ToSet(r.asked) = {}
    BY <1>3 DEF ToSet
  <2> QED
    BY <1>3, <2>1, <2>2 DEF TrueRun
<1>5. runs' \in [HealthCallers -> Runs_] /\ RunsTrue' /\ ServerAnswers'
  BY <1>0, <1>1, <1>3, <1>4, RunChanges
<1> QED
  BY <1>0, <1>1, <1>2, <1>5 DEF HealthInv, HealthTypeOK

(* A job that completes is noted by its run, if that still waits, as it     *)
(* found the check: healthy only if the check is well now.                  *)
LEMMA CompletesStep ==
  ASSUME HealthInv, NEW i \in DOMAIN jobs, JobCompletes(i)
  PROVE  HealthInv'
<1>0. HealthTypeOK /\ RunsTrue /\ JobsOnce /\ ServerAnswers
  BY DEF HealthInv
<1>1. jobs' = RemoveAt(jobs, i) /\ UNCHANGED <<registry, condition, health>>
  BY DEF JobCompletes
<1>2. i \in 1..Len(jobs) /\ jobs \in Seq(Jobs) /\ jobs[i] \in Jobs
  BY <1>0 DEF HealthTypeOK
<1>3. jobs' \in Seq(Jobs) /\ JobsOnce'
  BY <1>0, <1>1, <1>2, RemoveFacts DEF JobsOnce
<1>4. runs' \in [HealthCallers -> Runs_] /\ RunsTrue' /\ ServerAnswers'
  <2>1. CASE runs' = runs
    BY <1>0, <1>1, <2>1 DEF HealthTypeOK, RunsTrue, Busy, ServerAnswers
  <2>2. CASE runs' # runs
    <3>1. PICK c \in HealthCallers, k \in Checks : c = jobs[i].by /\ k = jobs[i].check
      BY <1>2 DEF Jobs
    <3> DEFINE found == <<k, condition[k]>>
               r == [runs[c] EXCEPT !.ended = @ \cup {found}]
    <3>2. Busy(c) /\ runs' = [runs EXCEPT ![c] = r]
      BY <2>2, <3>1 DEF JobCompletes, OfRun
    <3>3. runs[c] \in Runs_ /\ TrueRun(runs[c]) /\ Well(condition) \subseteq runs[c].well
          /\ (c = HttpServer => health.server # "down")
      BY <1>0, <3>2 DEF HealthTypeOK, RunsTrue, ServerAnswers
    <3>4. found \in Checks \X States /\ found[1] = k /\ found[2] = condition[k]
      BY <1>0 DEF HealthTypeOK
    <3>5. found[2] = "healthy" => found[1] \in runs[c].well
      BY <3>3, <3>4 DEF Well
    <3> HIDE DEF found
    <3>6. r \in Runs_
      BY <3>3, <3>4 DEF Runs_
    <3>7. TrueRun(r) /\ r.well = runs[c].well
      BY <3>3, <3>5 DEF TrueRun, Runs_
    <3> HIDE DEF r
    <3> QED
      BY <1>0, <1>1, <3>2, <3>3, <3>6, <3>7, RunChanges
  <2> QED
    BY <2>1, <2>2
<1> QED
  BY <1>0, <1>1, <1>3, <1>4 DEF HealthInv, HealthTypeOK

LEMMA OneCheckStep ==
  ASSUME HealthInv, NEW c \in HealthCallers, NEW k \in Checks, RunOne(c, k)
  PROVE  HealthInv'
<1>0. HealthTypeOK /\ RunsTrue /\ JobsOnce /\ ServerAnswers
  BY DEF HealthInv
<1>1. c # HttpServer /\ UNCHANGED <<registry, condition, health, jobs>>
  BY DEF RunOne
<1> DEFINE w == Well(condition)
           found == condition[k]
           r == [NoRun EXCEPT !.asked = <<k>>, !.well = w, !.results = <<found>>, !.verdict = found]
<1>2. w \subseteq Checks /\ found \in States /\ (found = "healthy" => k \in w)
  BY <1>0 DEF HealthTypeOK, Well
<1>3. runs' = [runs EXCEPT ![c] = r]
  BY DEF RunOne
<1> HIDE DEF w, found
<1>4. /\ r \in Runs_ /\ r.ended = {} /\ r.awaits = <<>>
      /\ r.asked = <<k>> /\ r.verdict = found /\ r.well = w
  <2>1. found \in Verdicts /\ <<k>> \in Seq(Checks) /\ <<>> \in Seq(Checks)
    BY <1>2 DEF Verdicts
  <2>2. <<found>> \in Seq(Verdicts)
    BY <2>1
  <2> QED
    BY <1>2, <2>1, <2>2 DEF NoRun, Runs_
<1>5. ToSet(<<k>>) = {k}
  BY DEF ToSet
<1> HIDE DEF r
<1>6. TrueRun(r)
  BY <1>2, <1>4, <1>5 DEF TrueRun
<1>7. runs' \in [HealthCallers -> Runs_] /\ RunsTrue' /\ ServerAnswers'
  BY <1>0, <1>1, <1>3, <1>4, <1>6, RunChanges
<1> QED
  BY <1>0, <1>1, <1>7 DEF HealthInv, HealthTypeOK, JobsOnce

LEMMA ServerStep ==
  ASSUME HealthInv, StartServer \/ ShutdownServer \/ ServerEnds
  PROVE  HealthInv'
<1>1. /\ UNCHANGED <<registry, condition, jobs, runs>>
      /\ health' \in [server : {"down", "up", "closing"}, pool : BOOLEAN, runs : Nat, turns : Nat]
      /\ health'.runs = health.runs
      /\ health'.server = "down" => health.server = "down" \/ ~Busy(HttpServer)
  BY DEF HealthInv, HealthTypeOK, StartServer, ShutdownServer, ServerEnds
<1> QED
  BY <1>1 DEF HealthInv, HealthTypeOK, RunsTrue, Busy, JobsOnce, ServerAnswers

LEMMA HealthStep == HealthInv /\ [HealthNext]_healthVars => HealthInv'
<1> SUFFICES ASSUME HealthInv, [HealthNext]_healthVars PROVE HealthInv'
  OBVIOUS
<1>1. CASE UNCHANGED healthVars
  BY <1>1 DEF healthVars, HealthInv, HealthTypeOK, RunsTrue, Busy, Well, JobsOnce, ServerAnswers
<1> QED
  BY <1>1, TurnStep, AwaitedStep, RunAllStep, CompletesStep, OneCheckStep, ServerStep DEF HealthNext

(* A pool with a thread for every check of the runs under way: the jobs with *)
(* a thread cannot all be awaited while another is, for awaited jobs are    *)
(* distinct pairs of a check and a caller who waits.                        *)
LEMMA ThreadsSuffice ==
  ASSUME HealthInv,
         PoolSize >= Cardinality(Checks) * Cardinality({c \in HealthCallers : Busy(c)}),
         NEW i \in DOMAIN jobs, i > PoolSize, StillAwaited(jobs[i])
  PROVE  \E k \in 1..PoolSize : ~StillAwaited(jobs[k])
<1> DEFINE B == {c \in HealthCallers : Busy(c)}
           S == 1..(PoolSize + 1)
           at == [k \in S |-> IF k = PoolSize + 1 THEN i ELSE k]
           f == [k \in S |-> <<jobs[at[k]].check, jobs[at[k]].by>>]
<1>0. /\ PoolSize \in Nat /\ IsFiniteSet(Checks) /\ IsFiniteSet(HealthCallers)
      /\ jobs \in Seq(Jobs) /\ IsInjective(jobs) /\ DOMAIN jobs = 1..Len(jobs) /\ Len(jobs) \in Nat
  BY HealthAssumption DEF HealthInv, HealthTypeOK, JobsOnce
<1> SUFFICES ASSUME \A k \in 1..PoolSize : StillAwaited(jobs[k]) PROVE FALSE
  OBVIOUS
<1>1. /\ \A k \in S : at[k] \in DOMAIN jobs /\ StillAwaited(jobs[at[k]])
      /\ \A k, m \in S : at[k] = at[m] => k = m
  BY <1>0
<1> HIDE DEF at
<1>2. IsFiniteSet(B)
  BY <1>0, FS_Subset
<1>3. IsFiniteSet(Checks \X B) /\ Cardinality(Checks \X B) = Cardinality(Checks) * Cardinality(B)
  BY <1>0, <1>2, FS_Product
<1>4. IsFiniteSet(S) /\ Cardinality(S) = PoolSize + 1
  BY <1>0, FS_Interval
<1>5. Cardinality(Checks \X B) \in Nat /\ Cardinality(Checks \X B) < Cardinality(S)
  BY <1>0, <1>3, <1>4, FS_CardinalityType
<1>6. f \in [S -> Checks \X B]
  <2>1. ASSUME NEW k \in S PROVE jobs[at[k]].check \in Checks /\ jobs[at[k]].by \in B
    <3>1. PICK job \in Jobs : job = jobs[at[k]] /\ StillAwaited(job)
      BY <1>0, <1>1
    <3>2. job.check \in Checks /\ job.by \in HealthCallers /\ Busy(job.by)
      BY <3>1 DEF Jobs, StillAwaited, OfRun
    <3> QED
      BY <3>1, <3>2
  <2> HIDE DEF S, B
  <2> QED
    BY <2>1
<1>k. \A k \in S : f[k] = <<jobs[at[k]].check, jobs[at[k]].by>>
  OBVIOUS
<1> HIDE DEF f
<1>7. PICK k, m \in S : k # m /\ f[k] = f[m]
  <2> HIDE DEF S, B
  <2> QED
    BY <1>3, <1>4, <1>5, <1>6, FS_PigeonHole
<1>8. PICK one, two \in Jobs :
        /\ one = jobs[at[k]] /\ two = jobs[at[m]]
        /\ StillAwaited(one) /\ StillAwaited(two)
        /\ one.check = two.check /\ one.by = two.by
  BY <1>0, <1>1, <1>7, <1>k
<1>9. one = two
  <2>1. one.run = runs[one.by].id /\ two.run = runs[two.by].id
    BY <1>8 DEF StillAwaited, OfRun
  <2>2. one.run = two.run /\ one.check = two.check /\ one.by = two.by
    BY <1>8, <2>1
  <2> QED
    BY <2>2 DEF Jobs
<1> QED
  BY <1>0, <1>1, <1>7, <1>8, <1>9 DEF IsInjective

(* A run answers "healthy" only if every check it copied was well at some    *)
(* moment since it began, however late the checks of earlier runs end; in a *)
(* pool with a thread for every check of the runs under way, a check waits  *)
(* for a thread only while one is kept by a check that nobody waits for any *)
(* more; and a server that is down has no run                               *)
(* (observability/health/checker.py, run_all_checks() and shutdown()).      *)
THEOREM HealthTrue == HealthSpec => []HealthSound
<1>1. ASSUME HealthInv PROVE HealthSound
  BY <1>1, ThreadsSuffice DEF HealthInv, RunsTrue, TrueRun, ServerAnswers, HealthSound
<1> QED
  BY <1>1, HealthInitial, HealthStep, PTL DEF HealthSpec

-----------------------------------------------------------------------------
(* The dashboard.  Three groups of variables: the sessions shown, what the  *)
(* clients have heard, and the simulator.                                   *)

Books == [psk : Identities, byApi : BOOLEAN, stale : BOOLEAN, apdus : 0..MaxShownApdus, count : Nat]
Events == [kind : {"handshake", "apdu", "updated"}, psk : Identities, known : BOOLEAN]
HasSession(psk) == \E s \in Shown : Live(s) /\ shown[s].psk = psk

(* What the checker is going to delete has been idle, is gone, or was used. *)
SessionsInv ==
    /\ shown \in [Shown -> Books \cup {None, Gone}]
    /\ checker.todo \subseteq Shown /\ killed \subseteq spoilt
    /\ \A s \in checker.todo :
        shown[s] # None /\ (Live(s) /\ ~shown[s].stale => s \in spoilt)
    /\ \A s \in LiveSessions : shown[s].count = shown[s].apdus
    /\ \A s, t \in LiveSessions :
        shown[s].psk = shown[t].psk /\ ~shown[s].byApi /\ ~shown[t].byApi => s = t

(* A card that was introduced has a session, or its handshake is still to   *)
(* be handled, before any of its events that follow it.                     *)
Greets(psk, n) == \E m \in 1..n : inbox[m].kind = "handshake" /\ inbox[m].psk = psk
Greeted(psk) == \E n \in {Len(inbox)} : Greets(psk, n)
InboxInv ==
    /\ inbox \in Seq(Events) /\ introduced \subseteq Identities /\ lost = FALSE
    /\ \A psk \in introduced : HasSession(psk) \/ Greeted(psk)
    /\ \A n \in 1..Len(inbox), psk \in Identities : inbox[n].known /\ inbox[n].psk = psk =>
        psk \in introduced /\ (HasSession(psk) \/ Greets(psk, n - 1))

(* A broadcast under way has told its clients but for those to come.        *)
Broadcasts == [message : Nat, todo : Seq(Listeners)]
Awaits(c, m) == \E b \in sending : b.message = m /\ c \in ToSet(b.todo)
ClientTypeOK ==
    /\ messages \in 0..MaxMessages /\ sending \subseteq Broadcasts
    /\ clients \in Seq(Listeners) /\ IsInjective(clients)
    /\ joined \in [Listeners -> 0..NotYet] /\ heard \in [Listeners -> Seq(Nat)]
Underway ==
    /\ \A b \in sending : b.message \in 1..messages /\ IsInjective(b.todo)
    /\ \A b, d \in sending : b.message = d.message => b = d
Hears(c) ==
    /\ IsInjective(heard[c])
    /\ \A m \in ToSet(heard[c]) : m \in 1..messages /\ ~Awaits(c, m)
    /\ joined[c] = NotYet => /\ heard[c] = <<>> /\ c \notin ToSet(clients)
                             /\ \A m \in 1..messages : ~Awaits(c, m)
    /\ c \in ToSet(clients) =>
        /\ joined[c] <= messages
        /\ \A m \in 1..messages : m > joined[c] <=> m \in ToSet(heard[c]) \/ Awaits(c, m)
ClientsInv == ClientTypeOK /\ Underway /\ \A c \in Listeners : Hears(c)

(* While no requests overlap, whatever is on its way is held.               *)
SimulatorInv ==
    /\ simulator \in Requests \cup {NoSimulator} /\ overlapped \in BOOLEAN
    /\ link \in [Requests -> {"new", "connecting", "connected", "closing", "closed"}]
    /\ ~overlapped => \A r \in Requests : link[r] \notin {"new", "closed"} => simulator = r

DashboardInv == running \in BOOLEAN /\ SessionsInv /\ InboxInv /\ ClientsInv /\ SimulatorInv

-----------------------------------------------------------------------------
(* What the clients hear. *)

(* An injective sequence has as many elements as its length. *)
LEMMA InjectiveCount ==
  ASSUME NEW S, NEW q \in Seq(S), IsInjective(q)
  PROVE  Cardinality(ToSet(q)) = Len(q)
<1> DEFINE D == 1..Len(q)
<1>1. Len(q) \in Nat /\ DOMAIN q = D /\ q \in [D -> ToSet(q)]
  BY DEF ToSet
<1>2. IsFiniteSet(D) /\ Cardinality(D) = Len(q)
  BY <1>1, FS_Interval
<1>3. q \in Bijection(D, ToSet(q))
  BY <1>1 DEF Bijection, Injection, Surjection, IsInjective, ToSet
<1> QED
  BY <1>2, <1>3, FS_Bijection DEF ExistsBijection

(* A message is broadcast: the first client has it at once. *)
LEMMA BroadcastStep ==
  ASSUME ClientsInv, Broadcast
  PROVE  ClientsInv'
<1> DEFINE n == messages + 1
<1>0. /\ ClientTypeOK /\ Underway /\ \A c \in Listeners : Hears(c)
      /\ MaxMessages \in Nat /\ messages \in Nat /\ n \in Nat /\ n <= MaxMessages
      /\ messages' = n /\ clients' = clients /\ joined' = joined
  BY DashboardAssumption DEF ClientsInv, ClientTypeOK, Broadcast
<1>1. /\ \A b \in sending : b.message # n /\ b.message \in 1..messages
      /\ \A c \in Listeners : n \notin ToSet(heard[c])
  BY <1>0 DEF Underway, Hears
<1>2. CASE clients = <<>>
  <2>1. UNCHANGED <<heard, sending>>
    BY <1>2 DEF Broadcast
  <2>2. ClientTypeOK' /\ Underway'
    BY <1>0, <1>1, <2>1 DEF ClientTypeOK, Underway
  <2>3. ASSUME NEW c \in Listeners PROVE Hears(c)'
    <3>1. \A m : Awaits(c, m)' <=> Awaits(c, m)
      BY <2>1 DEF Awaits
    <3>2. c \notin ToSet(clients)
      BY <1>2 DEF ToSet
    <3>3. ~Awaits(c, n)
      BY <1>1 DEF Awaits
    <3> QED
      BY <1>0, <2>1, <3>1, <3>2, <3>3 DEF Hears
  <2> QED
    BY <2>2, <2>3 DEF ClientsInv
<1>3. CASE clients # <<>>
  <2> DEFINE h == Head(clients)
             t == Tail(clients)
             new == [message |-> n, todo |-> t]
  <2>1. /\ clients \in Seq(Listeners) /\ heard \in [Listeners -> Seq(Nat)] /\ IsInjective(clients)
        /\ sending \subseteq Broadcasts
    BY <1>0 DEF ClientTypeOK
  <2>2. /\ h \in Listeners /\ t \in Seq(Listeners) /\ h \notin ToSet(t) /\ IsInjective(t)
        /\ ToSet(clients) = {h} \cup ToSet(t)
    BY <1>3, <2>1, TailFacts
  <2>3. heard' = [heard EXCEPT ![h] = Append(heard[h], n)] /\ sending' = sending \cup {new}
    BY <1>3 DEF Broadcast, Told
  <2>4. new \in Broadcasts /\ new.message = n /\ new.todo = t
    BY <1>0, <2>2 DEF Broadcasts
  <2> HIDE DEF h, t, n, new
  <2>5. /\ Append(heard[h], n) \in Seq(Nat) /\ ToSet(Append(heard[h], n)) = ToSet(heard[h]) \cup {n}
        /\ IsInjective(heard[h]) => IsInjective(Append(heard[h], n))
    BY <1>0, <1>1, <2>1, <2>2, AppendFacts
  <2>6. ClientTypeOK'
    <3>1. messages' \in 0..MaxMessages
      BY <1>0
    <3>2. sending' \subseteq Broadcasts
      BY <2>1, <2>3, <2>4
    <3>3. heard' \in [Listeners -> Seq(Nat)]
      BY <2>1, <2>2, <2>3, <2>5
    <3> QED
      BY <1>0, <3>1, <3>2, <3>3 DEF ClientTypeOK
  <2>7. Underway'
    <3>1. n \in 1..n /\ \A b \in sending : b.message \in 1..n
      BY <1>0, <1>1 DEF n
    <3> QED
      BY <1>0, <1>1, <2>2, <2>3, <2>4, <3>1 DEF Underway
  <2>8. ASSUME NEW c \in Listeners PROVE Hears(c)'
    <3>1. \A m : Awaits(c, m)' <=> Awaits(c, m) \/ (m = n /\ c \in ToSet(t))
      BY <2>3, <2>4 DEF Awaits
    <3>2. ~Awaits(c, n)
      BY <1>1 DEF Awaits
    <3>3. /\ IsInjective(heard'[c])
          /\ ToSet(heard'[c]) = ToSet(heard[c]) \cup (IF c = h THEN {n} ELSE {})
          /\ heard'[c] = <<>> \/ c = h \/ heard'[c] = heard[c]
      BY <1>0, <2>1, <2>3, <2>5 DEF Hears
    <3>4. messages' = messages + 1 /\ n = messages + 1 /\ messages \in Nat
      BY <1>0 DEF n
    <3>5. \A m \in ToSet(heard[c]) : m \in 1..messages /\ ~Awaits(c, m)
      BY <1>0 DEF Hears
    <3>6. \A m \in ToSet(heard'[c]) : m \in 1..messages' /\ ~Awaits(c, m)'
      BY <2>2, <3>1, <3>2, <3>3, <3>4, <3>5
    <3>7. joined'[c] = NotYet => /\ heard'[c] = <<>> /\ c \notin ToSet(clients')
                                 /\ \A m \in 1..messages' : ~Awaits(c, m)'
      <4> SUFFICES ASSUME joined[c] = NotYet
                   PROVE  /\ heard'[c] = <<>> /\ c \notin ToSet(clients')
                          /\ \A m \in 1..messages' : ~Awaits(c, m)'
        BY <1>0 DEF NotYet
      <4>1. /\ heard[c] = <<>> /\ c \notin ToSet(clients)
            /\ \A m \in 1..messages : ~Awaits(c, m)
        BY <1>0 DEF Hears
      <4>2. c # h /\ c \notin ToSet(t)
        BY <2>2, <4>1
      <4>3. heard'[c] = <<>>
        BY <2>1, <2>3, <4>1, <4>2
      <4> QED
        BY <1>0, <3>1, <3>2, <3>4, <4>1, <4>2, <4>3
    <3>8. ASSUME c \in ToSet(clients')
          PROVE  /\ joined'[c] <= messages'
                 /\ \A m \in 1..messages' :
                        m > joined'[c] <=> m \in ToSet(heard'[c]) \/ Awaits(c, m)'
      <4>1. /\ joined[c] \in Nat /\ joined[c] <= messages
            /\ \A m \in 1..messages : m > joined[c] <=> m \in ToSet(heard[c]) \/ Awaits(c, m)
        BY <1>0, <3>8 DEF Hears, ClientTypeOK, NotYet
      <4>2. c = h \/ c \in ToSet(t)
        BY <1>0, <2>2, <3>8
      <4> QED
        BY <1>0, <3>1, <3>2, <3>3, <3>4, <4>1, <4>2
    <3> QED
      BY <3>3, <3>6, <3>7, <3>8 DEF Hears
  <2> QED
    BY <2>6, <2>7, <2>8 DEF ClientsInv
<1> QED
  BY <1>2, <1>3

(* A broadcast goes on to its next client, or ends. *)
LEMMA SendStep ==
  ASSUME ClientsInv, Send
  PROVE  ClientsInv'
<1>0. /\ ClientTypeOK /\ Underway /\ \A c \in Listeners : Hears(c)
      /\ messages \in Nat /\ UNCHANGED <<clients, joined, messages>>
  BY DashboardAssumption DEF ClientsInv, ClientTypeOK, Send
<1>1. PICK b \in sending : Send!(b)!1
  BY DEF Send
<1>2. /\ sending \subseteq Broadcasts /\ b \in Broadcasts /\ b.todo \in Seq(Listeners)
      /\ IsInjective(b.todo) /\ b.message \in 1..messages /\ b.message \in Nat
      /\ heard \in [Listeners -> Seq(Nat)]
      /\ \A d \in sending : d.message = b.message => d = b
  BY <1>0 DEF ClientTypeOK, Underway, Broadcasts
<1>3. CASE b.todo = <<>>
  <2>1. sending' = sending \ {b} /\ heard' = heard
    BY <1>1, <1>3
  <2>2. \A c, m : Awaits(c, m)' <=> Awaits(c, m)
    BY <1>3, <2>1 DEF Awaits, ToSet
  <2>3. ClientTypeOK' /\ Underway'
    BY <1>0, <2>1 DEF ClientTypeOK, Underway
  <2> QED
    BY <1>0, <2>1, <2>2, <2>3 DEF ClientsInv, Hears
<1>4. CASE b.todo # <<>>
  <2> DEFINE h == Head(b.todo)
             t == Tail(b.todo)
             n == b.message
             r == [b EXCEPT !.todo = t]
  <2>1. /\ h \in Listeners /\ t \in Seq(Listeners) /\ h \notin ToSet(t) /\ IsInjective(t)
        /\ ToSet(b.todo) = {h} \cup ToSet(t)
    BY <1>2, <1>4, TailFacts
  <2>2. /\ sending' = (sending \ {b}) \cup {r}
        /\ \/ h \in ToSet(clients) /\ heard' = [heard EXCEPT ![h] = Append(heard[h], n)]
           \/ h \notin ToSet(clients) /\ heard' = heard
    BY <1>1, <1>4 DEF Told
  <2>3. r \in Broadcasts /\ r.message = n /\ r.todo = t
    BY <1>2, <2>1 DEF Broadcasts
  <2> HIDE DEF h, t, r
  <2>4. \A c, m : Awaits(c, m)' <=> Awaits(c, m) /\ ~(c = h /\ m = n)
    BY <1>2, <2>1, <2>2, <2>3 DEF Awaits
  <2>5. Awaits(h, n) /\ n \notin ToSet(heard[h])
    BY <1>0, <1>2, <2>1 DEF Awaits, Hears
  <2>6. /\ Append(heard[h], n) \in Seq(Nat) /\ ToSet(Append(heard[h], n)) = ToSet(heard[h]) \cup {n}
        /\ IsInjective(heard[h]) => IsInjective(Append(heard[h], n))
    BY <1>2, <2>1, <2>5, AppendFacts
  <2> HIDE DEF n
  <2>7. ClientTypeOK'
    <3>1. sending' \subseteq Broadcasts
      BY <1>2, <2>2, <2>3
    <3>2. heard' \in [Listeners -> Seq(Nat)]
      BY <1>2, <2>1, <2>2, <2>6
    <3> QED
      BY <1>0, <3>1, <3>2 DEF ClientTypeOK
  <2>8. Underway'
    BY <1>0, <1>2, <2>1, <2>2, <2>3 DEF Underway, n
  <2>9. ASSUME NEW c \in Listeners PROVE Hears(c)'
    <3>1. CASE c = h /\ h \in ToSet(clients)
      <4>1. heard'[c] = Append(heard[h], n) /\ n \in 1..messages
        BY <1>2, <2>1, <2>2, <3>1 DEF n
      <4> QED
        BY <1>0, <2>4, <2>5, <2>6, <3>1, <4>1 DEF Hears
    <3>2. CASE ~(c = h /\ h \in ToSet(clients))
      <4>1. heard'[c] = heard[c]
        BY <1>2, <2>1, <2>2, <3>2
      <4>2. c \in ToSet(clients) => \A m : Awaits(c, m)' <=> Awaits(c, m)
        BY <2>4, <3>2
      <4> QED
        BY <1>0, <2>4, <4>1, <4>2 DEF Hears
    <3> QED
      BY <3>1, <3>2
  <2> QED
    BY <2>7, <2>8, <2>9 DEF ClientsInv
<1> QED
  BY <1>3, <1>4

LEMMA JoinStep ==
  ASSUME ClientsInv, NEW c \in Listeners, Join(c)
  PROVE  ClientsInv'
<1>0. /\ ClientTypeOK /\ Underway /\ \A d \in Listeners : Hears(d)
      /\ messages \in Nat /\ MaxMessages \in Nat /\ messages <= MaxMessages
      /\ UNCHANGED <<heard, messages, sending>>
      /\ joined[c] = NotYet /\ clients' = Append(clients, c) /\ joined' = [joined EXCEPT ![c] = messages]
  BY DashboardAssumption DEF ClientsInv, ClientTypeOK, Join
<1>1. heard[c] = <<>> /\ c \notin ToSet(clients) /\ \A m \in 1..messages : ~Awaits(c, m)
  BY <1>0 DEF Hears
<1>2. /\ clients' \in Seq(Listeners) /\ IsInjective(clients') /\ ToSet(clients') = ToSet(clients) \cup {c}
  BY <1>0, <1>1, AppendFacts DEF ClientTypeOK
<1>3. joined' \in [Listeners -> 0..NotYet] /\ joined'[c] = messages /\ messages # NotYet
      /\ \A d \in Listeners \ {c} : joined'[d] = joined[d]
  BY <1>0 DEF ClientTypeOK, NotYet
<1>4. ClientTypeOK' /\ Underway'
  BY <1>0, <1>2, <1>3 DEF ClientTypeOK, Underway, NotYet
<1>5. \A d, m : Awaits(d, m)' <=> Awaits(d, m)
  BY <1>0 DEF Awaits
<1>6. ASSUME NEW d \in Listeners PROVE Hears(d)'
  <2>1. CASE d = c
    <3>1. ToSet(heard[c]) = {} /\ IsInjective(heard[c])
      BY <1>1 DEF ToSet, IsInjective
    <3> QED
      BY <1>0, <1>1, <1>3, <1>5, <2>1, <3>1 DEF Hears, NotYet
  <2>2. CASE d # c
    BY <1>0, <1>2, <1>3, <1>5, <2>2 DEF Hears, NotYet
  <2> QED
    BY <2>1, <2>2
<1> QED
  BY <1>4, <1>6 DEF ClientsInv

LEMMA LeaveStep ==
  ASSUME ClientsInv, NEW c \in Listeners, Leave(c)
  PROVE  ClientsInv'
<1>0. /\ ClientTypeOK /\ Underway /\ \A d \in Listeners : Hears(d)
      /\ UNCHANGED <<joined, heard, messages, sending>>
  BY DEF ClientsInv, Leave
<1>1. PICK i \in DOMAIN clients : clients' = RemoveAt(clients, i)
  BY DEF Leave
<1>2. clients' \in Seq(Listeners) /\ IsInjective(clients') /\ ToSet(clients') \subseteq ToSet(clients)
  <2>1. clients \in Seq(Listeners) /\ IsInjective(clients) /\ i \in 1..Len(clients)
    BY <1>0 DEF ClientTypeOK
  <2> QED
    BY <1>1, <2>1, RemoveFacts
<1>3. ClientTypeOK' /\ Underway'
  BY <1>0, <1>2 DEF ClientTypeOK, Underway, NotYet
<1>4. \A d, m : Awaits(d, m)' <=> Awaits(d, m)
  BY <1>0 DEF Awaits
<1>5. \A d \in Listeners : Hears(d)'
  BY <1>0, <1>2, <1>4 DEF Hears, NotYet
<1> QED
  BY <1>3, <1>5 DEF ClientsInv

LEMMA QuietStep ==
  ASSUME ClientsInv, UNCHANGED clientVars
  PROVE  ClientsInv'
<1>1. UNCHANGED <<clients, joined, heard, messages, sending>>
  BY DEF clientVars
<1>2. \A d, m : Awaits(d, m)' <=> Awaits(d, m)
  BY <1>1 DEF Awaits
<1> QED
  BY <1>1, <1>2 DEF ClientsInv, ClientTypeOK, Underway, Hears, NotYet

LEMMA ClientsHear == ClientsInv => HeardOnce
<1> SUFFICES ASSUME ClientsInv, NEW c \in Listeners PROVE HeardOnce!(c)
  BY DEF HeardOnce
<1>0. /\ ClientTypeOK /\ Underway /\ Hears(c) /\ heard[c] \in Seq(Nat)
      /\ messages \in Nat /\ joined[c] \in Nat
  BY DashboardAssumption DEF ClientsInv, ClientTypeOK, NotYet
<1> DEFINE underway == {b.message : b \in {d \in sending : c \in ToSet(d.todo)}}
<1>1. \A m : m \in underway <=> Awaits(c, m)
  BY DEF Awaits
<1>2. underway \subseteq 1..messages /\ ToSet(heard[c]) \subseteq 1..messages
  BY <1>0 DEF Underway, Hears
<1> HIDE DEF underway
<1>3. ToSet(heard[c]) \cap underway = {}
  BY <1>0, <1>1 DEF Hears
<1>4. ASSUME c \in ToSet(clients)
      PROVE  (joined[c] + 1)..messages = ToSet(heard[c]) \cup underway
  <2>1. \A m \in 1..messages : m > joined[c] <=> m \in ToSet(heard[c]) \cup underway
    BY <1>0, <1>1, <1>4 DEF Hears
  <2>2. \A m : m \in (joined[c] + 1)..messages <=> m \in 1..messages /\ m > joined[c]
    BY <1>0
  <2> QED
    BY <1>2, <2>1, <2>2
<1>5. Cardinality(ToSet(heard[c])) = Len(heard[c])
  BY <1>0, InjectiveCount DEF Hears
<1> QED
  BY <1>3, <1>4, <1>5 DEF underway

-----------------------------------------------------------------------------
(* The simulator. *)

LEMMA SimulatorStep ==
  ASSUME SimulatorInv, SimulatorNext \/ UNCHANGED simulatorVars
  PROVE  SimulatorInv'
<1>0. /\ simulator \in Requests \cup {NoSimulator} /\ overlapped \in BOOLEAN
      /\ link \in [Requests -> {"new", "connecting", "connected", "closing", "closed"}]
      /\ ~overlapped => \A r \in Requests : link[r] \notin {"new", "closed"} => simulator = r
      /\ NoSimulator \notin Requests
  BY DashboardAssumption DEF SimulatorInv
<1>1. ASSUME NEW r \in Requests, ConnectBegins(r) PROVE SimulatorInv'
  <2>1. /\ link' = [link EXCEPT ![r] = "connecting"] /\ simulator' = r
        /\ overlapped' = (overlapped \/ \E q \in Requests : link[q] \in {"connecting", "closing"})
        /\ simulator # NoSimulator => link[simulator] # "connected"
    BY <1>1 DEF ConnectBegins, Connected
  <2>2. ~overlapped' => \A q \in Requests : link[q] \in {"new", "closed"}
    BY <1>0, <2>1
  <2> QED
    BY <1>0, <2>1, <2>2 DEF SimulatorInv
<1>2. ASSUME NEW r \in Requests, ConnectSucceeds(r) PROVE SimulatorInv'
  BY <1>0, <1>2 DEF ConnectSucceeds, SimulatorInv
<1>3. ASSUME NEW r \in Requests, ConnectFails(r) PROVE SimulatorInv'
  BY <1>0, <1>3 DEF ConnectFails, SimulatorInv
<1>4. ASSUME NEW r \in Requests, DisconnectEnds(r) PROVE SimulatorInv'
  BY <1>0, <1>4 DEF DisconnectEnds, SimulatorInv
<1>5. CASE DisconnectBegins
  BY <1>0, <1>5 DEF DisconnectBegins, SimulatorInv
<1>6. CASE CommandSimulator \/ SimulatorEvent \/ UNCHANGED simulatorVars
  BY <1>0, <1>6 DEF CommandSimulator, SimulatorEvent, simulatorVars, SimulatorInv
<1> QED
  BY <1>1, <1>2, <1>3, <1>4, <1>5, <1>6 DEF SimulatorNext

-----------------------------------------------------------------------------
(* The sessions. *)

(* The clean-up and the answers take the lowest number there is. *)
LEMMA MinExists ==
  ASSUME NEW S, S \subseteq Nat, S # {}
  PROVE  Min(S) \in S
BY LeastExists DEF Min

LEMMA BookFacts ==
  /\ \A r \in Books : r # None /\ r # Gone
  /\ None # Gone /\ Shown \subseteq Nat
<1>1. ASSUME NEW r \in Books PROVE r # None /\ r # Gone
  <2>1. "byApi" \in DOMAIN r
    BY DEF Books
  <2>2. "byApi" \notin DOMAIN None /\ "byApi" \notin DOMAIN Gone
    BY DEF None, Gone
  <2> QED
    BY <2>1, <2>2
<1>2. None.psk # Gone.psk
  BY DEF None, Gone
<1> QED
  BY <1>1, <1>2, DashboardAssumption DEF Shown

LEMMA LiveFacts ==
  ASSUME SessionsInv
  PROVE  /\ \A s \in Shown : Live(s) <=> shown[s] \in Books
         /\ LiveSessions = {s \in Shown : shown[s] \in Books}
BY BookFacts DEF SessionsInv, Live, LiveSessions

LEMMA OfFacts ==
  ASSUME SessionsInv, NEW psk
  PROVE  /\ Of(psk) = {} <=> ~HasSession(psk)
         /\ \A s \in Of(psk) : s \in LiveSessions /\ shown[s].psk = psk
<1> DEFINE own == {s \in LiveSessions : shown[s].psk = psk}
<1>1. own \subseteq Nat /\ (own = {} <=> ~HasSession(psk))
  BY BookFacts DEF HasSession, LiveSessions
<1>2. Of(psk) = IF own = {} THEN {} ELSE {Min(own)}
  BY DEF Of
<1>3. own # {} => Min(own) \in own
  BY <1>1, MinExists
<1> HIDE DEF own
<1>4. Of(psk) \subseteq own /\ (Of(psk) = {} <=> own = {})
  BY <1>2, <1>3
<1> QED
  BY <1>1, <1>4 DEF own

(* A session is used, or described anew: it stays the card's. *)
LEMMA UseStep ==
  ASSUME SessionsInv, NEW s \in LiveSessions, NEW r \in Books, shown' = [shown EXCEPT ![s] = r],
         r.psk = shown[s].psk, r.byApi = shown[s].byApi, r.count = r.apdus,
         checker' = checker, killed' = killed, spoilt \subseteq spoilt',
         s \in checker.todo => r.stale \/ s \in spoilt'
  PROVE  SessionsInv' /\ \A psk : HasSession(psk)' <=> HasSession(psk)
<1>0. /\ shown \in [Shown -> Books \cup {None, Gone}]
      /\ \A t \in Shown : Live(t) <=> shown[t] \in Books
      /\ s \in Shown /\ Live(s)
      /\ LiveSessions = {t \in Shown : Live(t)}
  BY LiveFacts DEF SessionsInv, LiveSessions
<1>1. /\ shown' \in [Shown -> Books \cup {None, Gone}] /\ shown'[s] = r
      /\ \A t \in Shown \ {s} : shown'[t] = shown[t]
  BY <1>0
<1>2. \A t \in Shown : /\ Live(t)' <=> Live(t)
                      /\ (Live(t) => shown'[t].psk = shown[t].psk /\ shown'[t].byApi = shown[t].byApi)
  BY <1>0, <1>1, BookFacts DEF Live
<1>3. LiveSessions' = LiveSessions
  BY <1>2 DEF LiveSessions
<1>4. \A t \in LiveSessions' : shown'[t].count = shown'[t].apdus
  BY <1>1, <1>3, <1>0 DEF SessionsInv
<1>5. \A t, u \in LiveSessions' :
        shown'[t].psk = shown'[u].psk /\ ~shown'[t].byApi /\ ~shown'[u].byApi => t = u
  BY <1>0, <1>2, <1>3 DEF SessionsInv
<1>6. checker'.todo \subseteq Shown /\ killed' \subseteq spoilt'
  BY DEF SessionsInv
<1>7. ASSUME NEW t \in checker'.todo
      PROVE  shown'[t] # None /\ (Live(t)' /\ ~shown'[t].stale => t \in spoilt')
  <2>1. t \in Shown /\ shown[t] # None /\ (Live(t) /\ ~shown[t].stale => t \in spoilt)
    BY <1>7 DEF SessionsInv
  <2> QED
    BY <1>0, <1>1, <1>2, <2>1, BookFacts
<1>8. SessionsInv'
  BY <1>1, <1>4, <1>5, <1>6, <1>7 DEF SessionsInv
<1>9. \A psk : HasSession(psk)' <=> HasSession(psk)
  BY <1>2 DEF HasSession, Shown
<1> QED
  BY <1>8, <1>9

(* A session is made: by a handshake only for a card that has none. *)
LEMMA MakeStep ==
  ASSUME SessionsInv, NEW s \in NextId, NEW psk \in Identities, NEW byApi \in BOOLEAN,
         shown' = [shown EXCEPT ![s] = Made(psk, byApi)], byApi \/ ~HasSession(psk),
         checker' = checker, killed' = killed, spoilt' = spoilt
  PROVE  SessionsInv' /\ \A p : HasSession(p)' <=> HasSession(p) \/ p = psk
<1> DEFINE r == Made(psk, byApi)
<1>0. /\ shown \in [Shown -> Books \cup {None, Gone}]
      /\ \A t \in Shown : Live(t) <=> shown[t] \in Books
      /\ s \in Shown /\ shown[s] = None /\ ~Live(s)
      /\ LiveSessions = {t \in Shown : Live(t)}
  BY LiveFacts DEF SessionsInv, LiveSessions, NextId, Live
<1>1. r \in Books /\ r.psk = psk /\ r.byApi = byApi /\ r.count = r.apdus
  BY DashboardAssumption DEF Made, Books
<1>2. shown' = [shown EXCEPT ![s] = r]
  OBVIOUS
<1> HIDE DEF r
<1>3. /\ shown' \in [Shown -> Books \cup {None, Gone}] /\ shown'[s] = r
      /\ \A t \in Shown \ {s} : shown'[t] = shown[t]
  BY <1>0, <1>1, <1>2
<1>4. /\ Live(s)' /\ \A t \in Shown \ {s} : Live(t)' <=> Live(t)
      /\ LiveSessions' = LiveSessions \cup {s}
  BY <1>0, <1>1, <1>3, BookFacts DEF Live, LiveSessions
<1>5. \A t \in LiveSessions : t # s /\ shown'[t] = shown[t]
  BY <1>0, <1>3
<1>6. \A t \in LiveSessions' : shown'[t].count = shown'[t].apdus
  BY <1>1, <1>3, <1>4, <1>5 DEF SessionsInv
<1>7. ~byApi => \A t \in LiveSessions : shown[t].psk # psk
  BY <1>0 DEF HasSession
<1>8. \A t, u \in LiveSessions' :
        shown'[t].psk = shown'[u].psk /\ ~shown'[t].byApi /\ ~shown'[u].byApi => t = u
  BY <1>1, <1>3, <1>4, <1>5, <1>7 DEF SessionsInv
<1>9. ASSUME NEW t \in checker'.todo
      PROVE  shown'[t] # None /\ (Live(t)' /\ ~shown'[t].stale => t \in spoilt')
  <2>1. t \in Shown /\ shown[t] # None /\ (Live(t) /\ ~shown[t].stale => t \in spoilt)
    BY <1>9 DEF SessionsInv
  <2> QED
    BY <1>0, <1>3, <1>4, <2>1
<1>10. SessionsInv'
  BY <1>3, <1>6, <1>8, <1>9 DEF SessionsInv
<1>11. \A p : HasSession(p)' <=> HasSession(p) \/ p = psk
  BY <1>0, <1>1, <1>3, <1>4, <1>5 DEF HasSession, Shown
<1> QED
  BY <1>10, <1>11

(* A session is deleted, by a request or by the checker; what the checker   *)
(* deletes although it was used has been noted as spoilt.                    *)
LEMMA ForgetStep ==
  ASSUME SessionsInv, NEW s \in Shown, shown[s] # None, shown' = [shown EXCEPT ![s] = Gone],
         checker'.todo \subseteq checker.todo \/ checker'.todo \subseteq Found,
         killed' = killed \/ (killed' = killed \cup {s} /\ s \in spoilt), spoilt' = spoilt
  PROVE  /\ SessionsInv'
         /\ \A p : HasSession(p) /\ (Live(s) => p # shown[s].psk) => HasSession(p)'
<1>0. /\ shown \in [Shown -> Books \cup {None, Gone}]
      /\ \A t \in Shown : Live(t) <=> shown[t] \in Books
      /\ LiveSessions = {t \in Shown : Live(t)}
  BY LiveFacts DEF SessionsInv, LiveSessions
<1>1. /\ shown' \in [Shown -> Books \cup {None, Gone}] /\ shown'[s] = Gone
      /\ \A t \in Shown \ {s} : shown'[t] = shown[t]
  BY <1>0
<1>2. /\ ~Live(s)' /\ \A t \in Shown \ {s} : Live(t)' <=> Live(t)
      /\ LiveSessions' = LiveSessions \ {s}
  BY <1>0, <1>1 DEF Live, LiveSessions
<1>3. \A t \in LiveSessions' : t \in LiveSessions /\ shown'[t] = shown[t]
  BY <1>0, <1>1, <1>2
<1>4. /\ \A t \in LiveSessions' : shown'[t].count = shown'[t].apdus
      /\ \A t, u \in LiveSessions' :
            shown'[t].psk = shown'[u].psk /\ ~shown'[t].byApi /\ ~shown'[u].byApi => t = u
  BY <1>3 DEF SessionsInv
<1>5. checker'.todo \subseteq Shown /\ killed' \subseteq spoilt'
  BY DEF SessionsInv, Found
<1>6. ASSUME NEW t \in checker'.todo
      PROVE  shown'[t] # None /\ (Live(t)' /\ ~shown'[t].stale => t \in spoilt')
  <2>1. t \in Shown /\ shown[t] # None /\ (Live(t) /\ ~shown[t].stale => t \in spoilt)
    BY <1>6 DEF SessionsInv, Found, Stale, Live
  <2> QED
    BY <1>1, <1>2, <2>1, BookFacts
<1>7. SessionsInv'
  BY <1>1, <1>4, <1>5, <1>6 DEF SessionsInv
<1>8. \A p : HasSession(p) /\ (Live(s) => p # shown[s].psk) => HasSession(p)'
  BY <1>1, <1>2 DEF HasSession, Shown
<1> QED
  BY <1>7, <1>8

-----------------------------------------------------------------------------
(* The events of the admin server. *)

LEMMA InboxKept ==
  ASSUME InboxInv, UNCHANGED <<inbox, introduced, lost>>,
         \A p : HasSession(p) => HasSession(p)'
  PROVE  InboxInv'
BY DEF InboxInv, Greets, Greeted

LEMMA EmitStep ==
  ASSUME InboxInv, Emit
  PROVE  InboxInv'
<1>0. /\ inbox \in Seq(Events) /\ introduced \subseteq Identities /\ lost' = FALSE
      /\ shown' = shown /\ Len(inbox) \in Nat
  BY DEF InboxInv, Emit
<1>1. \A p : HasSession(p)' <=> HasSession(p)
  BY <1>0 DEF HasSession, Live, Shown
<1>2. CASE ~running
  <2>1. UNCHANGED <<inbox, introduced, lost>>
    BY <1>2 DEF Emit
  <2> QED
    BY <1>1, <2>1, InboxKept
<1>3. CASE running
  <2>1. PICK kind \in {"handshake", "apdu", "updated"}, psk \in Identities :
          /\ inbox' = Append(inbox, [kind |-> kind, psk |-> psk, known |-> psk \in introduced])
          /\ introduced' = IF kind = "handshake" THEN introduced \cup {psk} ELSE introduced
    BY <1>3 DEF Emit
  <2>2. PICK known \in BOOLEAN : known = (psk \in introduced)
    <3>1. (psk \in introduced) \in BOOLEAN
      OBVIOUS
    <3> QED
      BY <3>1, Zenon
  <2> DEFINE e == [kind |-> kind, psk |-> psk, known |-> known]
  <2>3. e \in Events /\ e.kind = kind /\ e.psk = psk /\ (e.known <=> psk \in introduced)
    BY <2>2 DEF Events
  <2>4. inbox' = Append(inbox, e)
    BY <2>1, <2>2
  <2> HIDE DEF e
  <2>5. /\ inbox' \in Seq(Events) /\ Len(inbox') = Len(inbox) + 1 /\ inbox'[Len(inbox) + 1] = e
        /\ \A n \in 1..Len(inbox) : inbox'[n] = inbox[n]
    BY <1>0, <2>3, <2>4, AppendFacts
  <2>6. introduced \subseteq introduced' /\ introduced' \subseteq Identities
    BY <1>0, <2>1
  <2>7. ASSUME NEW p, NEW n \in 0..Len(inbox), Greets(p, n)
        PROVE  Greets(p, n)'
    <3>1. PICK m \in 1..n : inbox[m].kind = "handshake" /\ inbox[m].psk = p
      BY <2>7 DEF Greets
    <3>2. m \in 1..Len(inbox)
      BY <1>0
    <3> QED
      BY <2>5, <3>1, <3>2 DEF Greets
  <2>8. ASSUME NEW p \in introduced' PROVE HasSession(p)' \/ Greeted(p)'
    <3>1. CASE p \in introduced
      <4>1. PICK n \in Nat : n = Len(inbox) /\ (HasSession(p) \/ Greets(p, n))
        BY <1>0, <3>1 DEF InboxInv, Greeted
      <4>2. HasSession(p)' \/ Greets(p, n)'
        BY <1>1, <2>7, <4>1
      <4>3. n + 1 \in Nat /\ n + 1 = Len(inbox') /\ \A m \in 1..n : m \in 1..(n + 1)
        BY <2>5, <4>1
      <4> QED
        BY <4>2, <4>3 DEF Greets, Greeted
    <3>2. CASE p \notin introduced
      <4>1. e.kind = "handshake" /\ e.psk = p
        BY <2>1, <2>3, <2>8, <3>2
      <4>2. PICK n \in Nat : n = Len(inbox) + 1
        BY <1>0
      <4>3. n \in 1..n /\ inbox'[n] = e /\ Len(inbox') = n
        BY <2>5, <4>2
      <4> QED
        BY <4>1, <4>3 DEF Greets, Greeted
    <3> QED
      BY <3>1, <3>2
  <2>9. ASSUME NEW n \in 1..Len(inbox'), NEW p \in Identities, inbox'[n].known, inbox'[n].psk = p
        PROVE  p \in introduced' /\ (HasSession(p)' \/ Greets(p, n - 1)')
    <3>1. CASE n \in 1..Len(inbox)
      <4>1. p \in introduced /\ (HasSession(p) \/ Greets(p, n - 1))
        BY <2>5, <2>9, <3>1 DEF InboxInv
      <4>2. n - 1 \in 0..Len(inbox)
        BY <1>0, <3>1
      <4> QED
        BY <1>1, <2>6, <2>7, <4>1, <4>2
    <3>2. CASE n = Len(inbox) + 1
      <4>1. p \in introduced /\ n - 1 = Len(inbox)
        BY <1>0, <2>3, <2>5, <2>9, <3>2
      <4>2. HasSession(p) \/ Greets(p, n - 1)
        BY <4>1 DEF InboxInv, Greeted
      <4>3. n - 1 \in 0..Len(inbox)
        BY <1>0, <4>1
      <4> QED
        BY <1>1, <2>6, <2>7, <4>1, <4>2, <4>3
    <3> QED
      BY <1>0, <2>5, <3>1, <3>2
  <2> QED
    BY <1>0, <2>5, <2>6, <2>8, <2>9 DEF InboxInv
<1> QED
  BY <1>2, <1>3

(* A session is deleted: nothing is promised any more to the card it was of. *)
LEMMA ForgetInbox ==
  ASSUME SessionsInv, InboxInv, NEW s \in Shown, Forgets(s), lost' = lost,
         \A p : HasSession(p) /\ (Live(s) => p # shown[s].psk) => HasSession(p)'
  PROVE  InboxInv'
<1>0. /\ inbox \in Seq(Events) /\ introduced \subseteq Identities /\ lost' = FALSE
      /\ Len(inbox) \in Nat /\ DOMAIN inbox = 1..Len(inbox)
      /\ introduced' \subseteq introduced
      /\ \A p \in introduced' : Live(s) => p # shown[s].psk
  BY DEF InboxInv, Forgets
<1>1. PICK left : left = introduced'
  OBVIOUS
<1> DEFINE event(n) == [inbox[n] EXCEPT !.known = inbox[n].known /\ inbox[n].psk \in left]
<1>2. inbox' = [n \in 1..Len(inbox) |-> event(n)]
  BY <1>0, <1>1 DEF Forgets
<1>3. ASSUME NEW n \in 1..Len(inbox)
      PROVE  /\ event(n) \in Events /\ event(n).kind = inbox[n].kind /\ event(n).psk = inbox[n].psk
             /\ event(n).known => inbox[n].known /\ inbox[n].psk \in left
  <2>1. inbox[n] \in Events
    BY <1>0
  <2>2. PICK known \in BOOLEAN : known = (inbox[n].known /\ inbox[n].psk \in left)
    OBVIOUS
  <2>3. event(n) = [inbox[n] EXCEPT !.known = known]
    BY <2>2
  <2> HIDE DEF event
  <2> QED
    BY <2>1, <2>2, <2>3 DEF Events
<1> HIDE DEF event
<1>4. inbox' \in Seq(Events)
  BY <1>0, <1>2, <1>3, IsASeq
<1>5. /\ Len(inbox') = Len(inbox)
      /\ \A n \in 1..Len(inbox) :
            /\ inbox'[n].kind = inbox[n].kind /\ inbox'[n].psk = inbox[n].psk
            /\ inbox'[n].known => inbox[n].known /\ inbox[n].psk \in left
  BY <1>0, <1>2, <1>3, <1>4
<1>6. ASSUME NEW p, NEW n \in 0..Len(inbox), Greets(p, n)
      PROVE  Greets(p, n)'
  <2>1. PICK m \in 1..n : inbox[m].kind = "handshake" /\ inbox[m].psk = p
    BY <1>6 DEF Greets
  <2>2. m \in 1..Len(inbox)
    BY <1>0
  <2> QED
    BY <1>5, <2>1, <2>2 DEF Greets
<1>7. \A p \in left : HasSession(p) => HasSession(p)'
  BY <1>0, <1>1
<1>8. ASSUME NEW p \in introduced' PROVE HasSession(p)' \/ Greeted(p)'
  <2>1. PICK n \in Nat : n = Len(inbox) /\ p \in left /\ (HasSession(p) \/ Greets(p, n))
    BY <1>0, <1>1, <1>8 DEF InboxInv, Greeted
  <2>2. HasSession(p)' \/ Greets(p, n)'
    BY <1>6, <1>7, <2>1
  <2> QED
    BY <1>5, <2>1, <2>2 DEF Greeted
<1>9. ASSUME NEW n \in 1..Len(inbox'), NEW p \in Identities, inbox'[n].known, inbox'[n].psk = p
      PROVE  p \in introduced' /\ (HasSession(p)' \/ Greets(p, n - 1)')
  <2>1. p \in left /\ inbox[n].known /\ inbox[n].psk = p /\ n \in 1..Len(inbox)
    BY <1>5, <1>9
  <2>2. HasSession(p) \/ Greets(p, n - 1)
    BY <2>1 DEF InboxInv
  <2>3. n - 1 \in 0..Len(inbox)
    BY <1>0, <2>1
  <2> QED
    BY <1>1, <1>6, <1>7, <2>1, <2>2, <2>3
<1> QED
  BY <1>0, <1>4, <1>8, <1>9 DEF InboxInv

(* The first event is handled: a handshake leaves its card with a session,  *)
(* and an event that follows it finds that session.                          *)
LEMMA HandleInbox ==
  ASSUME SessionsInv, InboxInv, inbox # <<>>, NEW e, e = Head(inbox),
         inbox' = Tail(inbox), introduced' = introduced,
         lost' = (lost \/ (e.kind = "apdu" /\ e.known /\ e.psk \in introduced /\ Of(e.psk) = {})),
         \A p : HasSession(p) => HasSession(p)',
         e.kind = "handshake" => HasSession(e.psk)'
  PROVE  InboxInv'
<1>0. inbox \in Seq(Events) /\ introduced \subseteq Identities /\ lost = FALSE /\ Len(inbox) \in Nat
  BY DEF InboxInv
<1>1. /\ Len(inbox) >= 1 /\ e = inbox[1] /\ inbox' \in Seq(Events) /\ Len(inbox') = Len(inbox) - 1
      /\ \A n \in 1..(Len(inbox) - 1) : inbox'[n] = inbox[n + 1]
  BY <1>0, TailFacts
<1>2. e.known => HasSession(e.psk)
  <2>1. 1 \in 1..Len(inbox) /\ 1..(1 - 1) = {} /\ inbox[1] \in Events
    BY <1>0, <1>1
  <2>2. e.psk \in Identities
    BY <1>1, <2>1 DEF Events
  <2> QED
    BY <1>1, <2>1, <2>2 DEF InboxInv, Greets
<1>3. lost' = FALSE
  BY <1>0, <1>2, OfFacts
<1>4. ASSUME NEW p, NEW n \in 1..Len(inbox), Greets(p, n)
      PROVE  HasSession(p)' \/ Greets(p, n - 1)'
  <2>1. PICK k \in 1..n : inbox[k].kind = "handshake" /\ inbox[k].psk = p
    BY <1>4 DEF Greets
  <2>2. CASE k = 1
    BY <1>1, <2>1, <2>2
  <2>3. CASE k # 1
    <3>1. k - 1 \in 1..(n - 1) /\ k - 1 \in 1..(Len(inbox) - 1) /\ (k - 1) + 1 = k
      BY <1>0, <2>3
    <3>2. inbox'[k - 1] = inbox[k]
      BY <1>1, <3>1
    <3> QED
      BY <2>1, <3>1, <3>2 DEF Greets
  <2> QED
    BY <2>2, <2>3
<1>5. ASSUME NEW p \in introduced PROVE HasSession(p)' \/ Greeted(p)'
  <2>1. PICK n \in Nat : n = Len(inbox) /\ (HasSession(p) \/ Greets(p, n))
    BY <1>0 DEF InboxInv, Greeted
  <2>2. n \in 1..Len(inbox) /\ n - 1 \in Nat /\ n - 1 = Len(inbox')
    BY <1>1, <2>1
  <2>3. HasSession(p)' \/ Greets(p, n - 1)'
    BY <1>4, <2>1, <2>2
  <2> QED
    BY <2>2, <2>3 DEF Greeted
<1>6. ASSUME NEW n \in 1..Len(inbox'), NEW p \in Identities, inbox'[n].known, inbox'[n].psk = p
      PROVE  p \in introduced /\ (HasSession(p)' \/ Greets(p, n - 1)')
  <2>1. n \in 1..Len(inbox) /\ n + 1 \in 1..Len(inbox) /\ inbox'[n] = inbox[n + 1] /\ (n + 1) - 1 = n
    BY <1>0, <1>1
  <2>2. p \in introduced /\ (HasSession(p) \/ Greets(p, n))
    BY <1>6, <2>1 DEF InboxInv
  <2> QED
    BY <1>4, <2>1, <2>2
<1> QED
  BY <1>0, <1>1, <1>3, <1>5, <1>6 DEF InboxInv

(* A session is used: it is idle no longer, and the checker is told so. *)
LEMMA TouchStep ==
  ASSUME SessionsInv, NEW s \in LiveSessions, shown' = [shown EXCEPT ![s].stale = FALSE],
         Touched(s), checker' = checker, killed' = killed
  PROVE  SessionsInv' /\ \A psk : HasSession(psk)' <=> HasSession(psk)
<1> DEFINE r == [shown[s] EXCEPT !.stale = FALSE]
<1>1. shown[s] \in Books
  BY LiveFacts
<1>2. /\ r \in Books /\ r.psk = shown[s].psk /\ r.byApi = shown[s].byApi
      /\ r.count = shown[s].count /\ r.apdus = shown[s].apdus
  BY <1>1 DEF Books
<1>3. shown' = [shown EXCEPT ![s] = r]
  OBVIOUS
<1>4. r.count = r.apdus
  BY <1>2 DEF SessionsInv
<1>5. spoilt \subseteq spoilt' /\ (s \in checker.todo => s \in spoilt')
  BY DEF Touched
<1> HIDE DEF r
<1> QED
  BY <1>2, <1>3, <1>4, <1>5, UseStep

LEMMA ApduStep ==
  ASSUME SessionsInv, NEW s \in LiveSessions, AddApdu(s), checker' = checker, killed' = killed
  PROVE  SessionsInv' /\ \A psk : HasSession(psk)' <=> HasSession(psk)
<1> DEFINE n == shown[s].apdus + 1
           r == [shown[s] EXCEPT !.apdus = n, !.count = n, !.stale = FALSE]
<1>1. shown[s] \in Books
  BY LiveFacts
<1>2. n \in 0..MaxShownApdus /\ n \in Nat
  BY <1>1, DashboardAssumption DEF Books, AddApdu
<1>3. r \in Books /\ r.psk = shown[s].psk /\ r.byApi = shown[s].byApi /\ r.count = r.apdus
  BY <1>1, <1>2 DEF Books
<1>4. shown' = [shown EXCEPT ![s] = r]
  BY DEF AddApdu
<1>5. spoilt \subseteq spoilt' /\ (s \in checker.todo => s \in spoilt')
  BY DEF AddApdu, Touched
<1> HIDE DEF r, n
<1> QED
  BY <1>3, <1>4, <1>5, UseStep

(* The APDUs of a session are cleared, or it has become idle. *)
LEMMA ClearStep ==
  ASSUME SessionsInv, NEW s \in Shown, ClearApdus(s)
  PROVE  SessionsInv' /\ \A psk : HasSession(psk)' <=> HasSession(psk)
<1> DEFINE r == [shown[s] EXCEPT !.apdus = 0, !.count = 0]
<1>1. s \in LiveSessions /\ shown[s] \in Books
  BY LiveFacts DEF ClearApdus, LiveSessions
<1>2. /\ r \in Books /\ r.psk = shown[s].psk /\ r.byApi = shown[s].byApi /\ r.count = r.apdus
  <2>1. MaxShownApdus \in Nat /\ 0 \in 0..MaxShownApdus
    BY DashboardAssumption
  <2> QED
    BY <1>1, <2>1 DEF Books
<1>5. r.stale = shown[s].stale
  <2>1. "stale" \in DOMAIN shown[s]
    BY <1>1 DEF Books
  <2> QED
    BY <2>1, Zenon
<1>3. shown' = [shown EXCEPT ![s] = r] /\ checker' = checker /\ UNCHANGED <<spoilt, killed>>
  BY DEF ClearApdus, ApiFrame
<1>4. s \in checker.todo => r.stale \/ s \in spoilt'
  BY <1>1, <1>5, <1>3 DEF SessionsInv, LiveSessions
<1> HIDE DEF r
<1> QED
  BY <1>1, <1>2, <1>3, <1>4, UseStep

LEMMA IdleStep ==
  ASSUME SessionsInv, NEW s \in Shown, BecomesIdle(s)
  PROVE  SessionsInv' /\ \A psk : HasSession(psk)' <=> HasSession(psk)
<1> DEFINE r == [shown[s] EXCEPT !.stale = TRUE]
<1>1. s \in LiveSessions /\ shown[s] \in Books
  BY LiveFacts DEF BecomesIdle, LiveSessions
<1>2. /\ r \in Books /\ r.psk = shown[s].psk /\ r.byApi = shown[s].byApi
      /\ r.count = shown[s].count /\ r.apdus = shown[s].apdus /\ r.stale
  BY <1>1 DEF Books
<1>3. shown' = [shown EXCEPT ![s] = r] /\ checker' = checker /\ UNCHANGED <<spoilt, killed>>
  BY DEF BecomesIdle
<1>4. r.count = r.apdus
  BY <1>1, <1>2 DEF SessionsInv
<1> HIDE DEF r
<1> QED
  BY <1>1, <1>2, <1>3, <1>4, UseStep

LEMMA HandleStep ==
  ASSUME SessionsInv, InboxInv, Handle
  PROVE  SessionsInv' /\ InboxInv'
<1>1. PICK e : e = Head(inbox)
  OBVIOUS
<1>2. /\ inbox # <<>> /\ inbox' = Tail(inbox) /\ HandleEvent(e) /\ introduced' = introduced
      /\ lost' = (lost \/ (e.kind = "apdu" /\ e.known /\ e.psk \in introduced /\ Of(e.psk) = {}))
      /\ checker' = checker /\ killed' = killed
  BY <1>1 DEF Handle, HandleEvent
<1>3. e \in Events
  <2>1. inbox \in Seq(Events)
    BY DEF InboxInv
  <2> QED
    BY <1>1, <1>2, <2>1, TailFacts
<1>4. e.psk \in Identities
  BY <1>3 DEF Events
<1>5. /\ Of(e.psk) = {} <=> ~HasSession(e.psk)
      /\ \A s \in Of(e.psk) : s \in LiveSessions
  BY OfFacts
<1>6. /\ SessionsInv' /\ \A p : HasSession(p) => HasSession(p)'
      /\ e.kind = "handshake" => HasSession(e.psk)'
  <2>1. CASE shown' = shown /\ spoilt' = spoilt /\ e.kind # "handshake"
    BY <1>2, <2>1 DEF SessionsInv, HasSession, LiveSessions, Live, Shown
  <2>2. CASE HasSession(e.psk) /\ \E s \in LiveSessions :
                shown' = [shown EXCEPT ![s].stale = FALSE] /\ Touched(s)
    BY <1>2, <2>2, TouchStep
  <2>3. CASE e.kind = "apdu" /\ \E s \in LiveSessions : AddApdu(s)
    BY <1>2, <2>3, ApduStep
  <2>4. CASE /\ ~HasSession(e.psk) /\ spoilt' = spoilt
             /\ \E s \in NextId : shown' = [shown EXCEPT ![s] = Made(e.psk, FALSE)]
    BY <1>2, <1>4, <2>4, MakeStep
  <2>5. CASE e.kind = "handshake" /\ HandleHandshake(e.psk)
    BY <1>5, <2>2, <2>4, <2>5 DEF HandleHandshake
  <2>6. CASE e.kind = "apdu" /\ HandleApdu(e.psk)
    BY <1>5, <2>1, <2>3, <2>6 DEF HandleApdu
  <2>7. CASE e.kind = "updated" /\ HandleUpdated(e.psk)
    BY <1>5, <2>1, <2>2, <2>7 DEF HandleUpdated
  <2> QED
    BY <1>2, <2>5, <2>6, <2>7 DEF HandleEvent
<1> QED
  BY <1>1, <1>2, <1>6, HandleInbox

(* The checker deletes the first of the sessions it is going to delete. *)
LEMMA ReapStep ==
  ASSUME SessionsInv, InboxInv, NEW todo, todo # {}, todo = checker.todo \/ todo = Found,
         Reap(todo), spoilt' = spoilt
  PROVE  SessionsInv' /\ InboxInv'
<1>1. PICK s : s = Min(todo)
  OBVIOUS
<1>2. todo \subseteq Shown /\ s \in todo
  <2>1. todo \subseteq Shown /\ todo \subseteq Nat
    BY BookFacts DEF SessionsInv, Found
  <2> QED
    BY <1>1, <2>1, MinExists
<1>3. /\ Forgets(s) /\ lost' = lost /\ checker' = [todo |-> todo \ {s}, waits |-> messages + 1]
      /\ killed' = IF Live(s) /\ ~shown[s].stale THEN killed \cup {s} ELSE killed
  BY <1>1 DEF Reap
<1>4. shown[s] # None /\ (Live(s) /\ ~shown[s].stale => s \in spoilt)
  BY <1>2 DEF SessionsInv, Found, Stale, Live
<1>5. checker'.todo \subseteq checker.todo \/ checker'.todo \subseteq Found
  BY <1>3
<1>6. shown' = [shown EXCEPT ![s] = Gone]
  BY <1>3 DEF Forgets
<1>7. /\ SessionsInv'
      /\ \A p : HasSession(p) /\ (Live(s) => p # shown[s].psk) => HasSession(p)'
  BY <1>2, <1>3, <1>4, <1>5, <1>6, ForgetStep
<1> QED
  BY <1>2, <1>3, <1>7, ForgetInbox

LEMMA CardsStep ==
  ASSUME SessionsInv, InboxInv, CardsNext \/ UNCHANGED <<bookVars, checker>>
  PROVE  SessionsInv' /\ InboxInv'
<1>1. CASE StartDashboard \/ UNCHANGED <<bookVars, checker>>
  <2>1. UNCHANGED <<inbox, introduced, lost, shown, spoilt, killed, checker>>
    BY <1>1 DEF StartDashboard, bookVars
  <2>2. SessionsInv' /\ \A p : HasSession(p) => HasSession(p)'
    BY <2>1 DEF SessionsInv, HasSession, LiveSessions, Live, Shown
  <2> QED
    BY <2>1, <2>2, InboxKept
<1>2. CASE Emit
  <2>1. UNCHANGED <<shown, spoilt, killed, checker>>
    BY <1>2 DEF Emit
  <2> QED
    BY <1>2, <2>1, EmitStep DEF SessionsInv, LiveSessions, Live, Shown
<1>3. CASE Handle
  BY <1>3, HandleStep
<1>4. CASE PostSession
  <2>1. PICK psk \in Identities, s \in NextId : shown' = [shown EXCEPT ![s] = Made(psk, TRUE)]
    BY <1>4 DEF PostSession
  <2>2. UNCHANGED <<inbox, introduced, lost, spoilt, killed, checker>>
    BY <1>4 DEF PostSession, ApiFrame
  <2> QED
    BY <2>1, <2>2, MakeStep, InboxKept
<1>5. ASSUME NEW s \in Shown, PatchSession(s) PROVE SessionsInv' /\ InboxInv'
  <2>1. s \in LiveSessions /\ shown' = [shown EXCEPT ![s].stale = FALSE] /\ Touched(s)
        /\ UNCHANGED <<inbox, introduced, lost, killed, checker>>
    BY <1>5 DEF PatchSession, ApiFrame, LiveSessions
  <2> QED
    BY <2>1, TouchStep, InboxKept
<1>6. ASSUME NEW s \in Shown, RemoveSession(s) PROVE SessionsInv' /\ InboxInv'
  <2>1. Live(s) /\ Forgets(s) /\ UNCHANGED <<lost, spoilt, killed, checker>>
    BY <1>6 DEF RemoveSession, ApiFrame
  <2>2. shown[s] # None /\ shown' = [shown EXCEPT ![s] = Gone]
    BY <2>1 DEF Live, Forgets
  <2>3. /\ SessionsInv'
        /\ \A p : HasSession(p) /\ (Live(s) => p # shown[s].psk) => HasSession(p)'
    BY <2>1, <2>2, ForgetStep
  <2> QED
    BY <2>1, <2>3, ForgetInbox
<1>7. ASSUME NEW s \in Shown, PostApdu(s) PROVE SessionsInv' /\ InboxInv'
  <2>1. s \in LiveSessions /\ AddApdu(s) /\ UNCHANGED <<inbox, introduced, lost, killed, checker>>
    BY <1>7 DEF PostApdu, ApiFrame, LiveSessions
  <2> QED
    BY <2>1, ApduStep, InboxKept
<1>8. ASSUME NEW s \in Shown, ClearApdus(s) PROVE SessionsInv' /\ InboxInv'
  <2>1. UNCHANGED <<inbox, introduced, lost>>
    BY <1>8 DEF ClearApdus
  <2> QED
    BY <1>8, <2>1, ClearStep, InboxKept
<1>9. ASSUME NEW s \in Shown, BecomesIdle(s) PROVE SessionsInv' /\ InboxInv'
  <2>1. UNCHANGED <<inbox, introduced, lost>>
    BY <1>9 DEF BecomesIdle
  <2> QED
    BY <1>9, <2>1, IdleStep, InboxKept
<1>10. CASE CheckerLooks
  BY <1>10, ReapStep DEF CheckerLooks
<1>11. CASE CheckerNext
  BY <1>11, ReapStep DEF CheckerNext
<1> QED
  BY <1>1, <1>2, <1>3, <1>4, <1>5, <1>6, <1>7, <1>8, <1>9, <1>10, <1>11 DEF CardsNext

-----------------------------------------------------------------------------
(* The dashboard as a whole. *)

(* Whatever is done to the sessions or the simulator is told, or is silent. *)
LEMMA ToldOrSilent ==
  ASSUME CardsNext \/ SimulatorNext
  PROVE  Broadcast \/ UNCHANGED clientVars
<1>1. Quiet <=> UNCHANGED clientVars
  BY DEF Quiet, clientVars
<1>2. CASE CardsNext
  <2>1. CASE Handle
    <3>1. PICK e : HandleEvent(e)
      BY <2>1 DEF Handle
    <3> QED
      BY <1>1, <3>1 DEF HandleEvent, HandleHandshake, HandleApdu, HandleUpdated, AddApdu
  <2>2. CASE CheckerLooks \/ CheckerNext
    BY <2>2 DEF CheckerLooks, CheckerNext, Reap
  <2>3. CASE StartDashboard \/ Emit \/ PostSession
    BY <2>3 DEF StartDashboard, Emit, PostSession
  <2>4. ASSUME NEW s \in Shown,
               PatchSession(s) \/ RemoveSession(s) \/ PostApdu(s) \/ ClearApdus(s) \/ BecomesIdle(s)
        PROVE  Broadcast \/ UNCHANGED clientVars
    BY <2>4 DEF PatchSession, RemoveSession, PostApdu, AddApdu, ClearApdus, BecomesIdle
  <2> QED
    BY <1>2, <2>1, <2>2, <2>3, <2>4 DEF CardsNext
<1>3. CASE SimulatorNext
  BY <1>1, <1>3 DEF SimulatorNext, ConnectBegins, ConnectSucceeds, ConnectFails, DisconnectEnds,
                    DisconnectBegins, CommandSimulator, SimulatorEvent
<1> QED
  BY <1>2, <1>3

LEMMA DashboardInitially == DashboardInit => DashboardInv
<1> SUFFICES ASSUME DashboardInit PROVE DashboardInv
  OBVIOUS
<1>1. SessionsInv
  <2>1. LiveSessions = {} /\ \A s \in Shown : shown[s] = None
    BY DEF DashboardInit, LiveSessions, Live
  <2> QED
    BY <2>1 DEF DashboardInit, SessionsInv
<1>2. InboxInv
  BY DEF DashboardInit, InboxInv
<1>3. ClientsInv
  <2>1. \A c, m : ~Awaits(c, m)
    BY DEF DashboardInit, Awaits
  <2>2. ToSet(clients) = {} /\ IsInjective(clients)
    BY DEF DashboardInit, ToSet, IsInjective
  <2>3. \A c \in Listeners : heard[c] = <<>> /\ ToSet(heard[c]) = {} /\ IsInjective(heard[c])
    BY DEF DashboardInit, ToSet, IsInjective
  <2>4. ClientTypeOK /\ Underway
    BY <2>2, DashboardAssumption DEF DashboardInit, ClientTypeOK, Underway, NotYet
  <2> QED
    BY <2>1, <2>2, <2>3, <2>4 DEF ClientsInv, Hears
<1>4. SimulatorInv
  BY DEF DashboardInit, SimulatorInv
<1> QED
  BY <1>1, <1>2, <1>3, <1>4 DEF DashboardInit, DashboardInv

LEMMA DashboardKept == DashboardInv /\ [DashboardNext]_dashboardVars => DashboardInv'
<1> SUFFICES ASSUME DashboardInv, [DashboardNext]_dashboardVars PROVE DashboardInv'
  OBVIOUS
<1>0. running \in BOOLEAN /\ SessionsInv /\ InboxInv /\ ClientsInv /\ SimulatorInv
  BY DEF DashboardInv
<1>1. CASE CardsNext
  <2>1. UNCHANGED simulatorVars /\ running' \in BOOLEAN
    BY <1>0, <1>1 DEF CardsNext, StartDashboard, Emit, Handle, HandleEvent, PostSession, PatchSession,
                      RemoveSession, PostApdu, ClearApdus, BecomesIdle, CheckerLooks, CheckerNext, Reap,
                      ApiFrame
  <2> QED
    BY <1>0, <1>1, <2>1, CardsStep, SimulatorStep, ToldOrSilent, BroadcastStep, QuietStep DEF DashboardInv
<1>2. CASE SimulatorNext
  <2>1. UNCHANGED <<running, bookVars, checker>>
    BY <1>2 DEF SimulatorNext, ConnectBegins, ConnectSucceeds, ConnectFails, DisconnectEnds,
                DisconnectBegins, CommandSimulator, SimulatorEvent, SimulatorFrame
  <2> QED
    BY <1>0, <1>2, <2>1, CardsStep, SimulatorStep, ToldOrSilent, BroadcastStep, QuietStep DEF DashboardInv
<1>3. CASE ClientsNext(Listeners)
  <2>1. UNCHANGED <<running, bookVars, checker, simulatorVars>>
    BY <1>3 DEF ClientsNext, Send, Join, Leave
  <2>2. ClientsInv'
    BY <1>0, <1>3, SendStep, JoinStep, LeaveStep DEF ClientsNext
  <2> QED
    BY <1>0, <2>1, <2>2, CardsStep, SimulatorStep DEF DashboardInv
<1>4. CASE UNCHANGED dashboardVars
  <2>1. UNCHANGED <<running, bookVars, clientVars, checker, simulatorVars>>
    BY <1>4 DEF dashboardVars
  <2> QED
    BY <1>0, <2>1, CardsStep, SimulatorStep, QuietStep DEF DashboardInv
<1> QED
  BY <1>1, <1>2, <1>3, <1>4 DEF DashboardNext

LEMMA DashboardHolds == DashboardInv => DashboardSound
<1> SUFFICES ASSUME DashboardInv PROVE DashboardSound
  OBVIOUS
<1>0. running \in BOOLEAN /\ SessionsInv /\ InboxInv /\ ClientsInv /\ SimulatorInv
  BY DEF DashboardInv
<1>1. \A s \in LiveSessions : shown[s] \in Books
  BY <1>0, LiveFacts
<1>2. DashboardTypeOK
  <2>1. ToSet(clients) \subseteq Listeners /\ messages \in 0..MaxMessages
    BY <1>0 DEF ClientsInv, ClientTypeOK, ToSet
  <2>2. introduced \subseteq Identities /\ lost \in BOOLEAN
    BY <1>0 DEF InboxInv
  <2>3. simulator \in Requests \cup {NoSimulator} /\ overlapped \in BOOLEAN
    BY <1>0 DEF SimulatorInv
  <2>4. \A s \in LiveSessions : shown[s].psk \in Identities /\ shown[s].apdus \in 0..MaxShownApdus
    BY <1>1 DEF Books
  <2> QED
    BY <1>0, <2>1, <2>2, <2>3, <2>4 DEF DashboardTypeOK
<1>3. CardsShown
  <2>1. ~lost /\ \A s \in LiveSessions : shown[s].count = shown[s].apdus
    BY <1>0 DEF InboxInv, SessionsInv
  <2>2. ASSUME NEW psk \in Identities
        PROVE  Cardinality({s \in LiveSessions : shown[s].psk = psk /\ ~shown[s].byApi}) <= 1
    <3> DEFINE own == {s \in LiveSessions : shown[s].psk = psk /\ ~shown[s].byApi}
    <3>1. own = {} \/ \E s : own = {s}
      BY <1>0 DEF SessionsInv
    <3> HIDE DEF own
    <3>2. own = {} => Cardinality(own) = 0
      BY FS_EmptySet
    <3>3. (\E s : own = {s}) => Cardinality(own) = 1
      BY FS_Singleton
    <3> QED
      BY <3>1, <3>2, <3>3 DEF own
  <2> QED
    BY <2>1, <2>2 DEF CardsShown
<1>4. HeardOnce
  BY <1>0, ClientsHear
<1>5. IdleDeleted /\ SimulatorHeld
  BY <1>0 DEF SessionsInv, IdleDeleted, SimulatorInv, SimulatorHeld, Connected
<1> QED
  BY <1>2, <1>3, <1>4, <1>5 DEF DashboardSound

(* Whatever the admin server, the requests, the clients and the simulator   *)
(* do, in whatever order their handlers wait for each other: a card that    *)
(* comes back keeps its session and loses no APDU, a connected client hears *)
(* every message once, the checker deletes no session in use but those used *)
(* while it waited, and a simulator connected by requests that do not       *)
(* overlap is held (DashboardState, _broadcast, _connect_simulator).        *)
THEOREM DashboardTrue == DashboardSpec => []DashboardSound
<1>1. DashboardInit => DashboardInv
  BY DashboardInitially
<1>2. DashboardInv /\ [DashboardNext]_dashboardVars => DashboardInv'
  BY DashboardKept
<1>3. DashboardInv => DashboardSound
  BY DashboardHolds
<1> QED
  BY <1>1, <1>2, <1>3, PTL DEF DashboardSpec

-----------------------------------------------------------------------------
(* The records of the database. *)

(* Tables whose rows refer to rows and whose keys belong to cards. *)
SoundTables(tables) == tables \in Tables /\ Referred(tables) /\ Keyed(tables)

(* What a write to one table asks of its rows. *)
LEMMA DevicesWritten ==
  ASSUME NEW t, SoundTables(t), NEW rows \in [Devices -> Rows \cup {Nothing}],
         Present(t.devices) \subseteq Present(rows)
  PROVE  SoundTables([t EXCEPT !.devices = rows])
BY DEF SoundTables, Tables, Referred, Keyed

LEMMA CardsWritten ==
  ASSUME NEW t, SoundTables(t), NEW rows \in [Cards -> Rows \cup {Nothing}],
         NEW keys \in [Cards -> {"old", "new", Nothing}],
         Present(t.cards) \subseteq Present(rows),
         \A c \in Cards : keys[c] # Nothing => rows[c] # Nothing
  PROVE  SoundTables([t EXCEPT !.cards = rows, !.keys = keys])
BY DEF SoundTables, Tables, Referred, Keyed

LEMMA SettingsWritten ==
  ASSUME NEW t, SoundTables(t), NEW rows \in [SettingKeys -> Rows \cup {Nothing}]
  PROVE  SoundTables([t EXCEPT !.settings = rows])
BY DEF SoundTables, Tables, Referred, Keyed

(* The references of a row. *)
SessionRefers(t, row) ==
    row # Nothing => /\ row.device \in Present(t.devices) \cup {Nothing}
                     /\ row.card \in Present(t.cards) \cup {Nothing}
TestRefers(t, row) == row # Nothing => row.device \in Present(t.devices) \cup {Nothing}

LEMMA SessionsWritten ==
  ASSUME NEW t, SoundTables(t), NEW rows \in [OtaSessions -> SessionRow \cup {Nothing}],
         \A s \in OtaSessions : SessionRefers(t, rows[s])
  PROVE  SoundTables([t EXCEPT !.sessions = rows])
BY DEF SoundTables, Tables, Referred, Keyed, SessionRefers, Present

LEMMA TestsWritten ==
  ASSUME NEW t, SoundTables(t), NEW rows \in [Tests -> TestRow \cup {Nothing}],
         \A n \in Tests : TestRefers(t, rows[n])
  PROVE  SoundTables([t EXCEPT !.tests = rows])
BY DEF SoundTables, Tables, Referred, Keyed, TestRefers, Present

LEMMA OneSessionWritten ==
  ASSUME NEW t, SoundTables(t), NEW s \in OtaSessions, NEW row \in SessionRow \cup {Nothing},
         SessionRefers(t, row)
  PROVE  SoundTables([t EXCEPT !.sessions[s] = row])
<1> DEFINE rows == [t.sessions EXCEPT ![s] = row]
<1>1. rows \in [OtaSessions -> SessionRow \cup {Nothing}]
  BY DEF SoundTables, Tables
<1>2. \A x \in OtaSessions : SessionRefers(t, rows[x])
  BY DEF SoundTables, Tables, Referred, SessionRefers, Present
<1>3. [t EXCEPT !.sessions[s] = row] = [t EXCEPT !.sessions = rows]
  BY DEF SoundTables, Tables
<1> HIDE DEF rows
<1> QED
  BY <1>1, <1>2, <1>3, SessionsWritten

LEMMA OneTestWritten ==
  ASSUME NEW t, SoundTables(t), NEW n \in Tests, NEW row \in TestRow \cup {Nothing},
         TestRefers(t, row)
  PROVE  SoundTables([t EXCEPT !.tests[n] = row])
<1> DEFINE rows == [t.tests EXCEPT ![n] = row]
<1>1. rows \in [Tests -> TestRow \cup {Nothing}]
  BY DEF SoundTables, Tables
<1>2. \A x \in Tests : TestRefers(t, rows[x])
  BY DEF SoundTables, Tables, Referred, TestRefers, Present
<1>3. [t EXCEPT !.tests[n] = row] = [t EXCEPT !.tests = rows]
  BY DEF SoundTables, Tables
<1> HIDE DEF rows
<1> QED
  BY <1>1, <1>2, <1>3, TestsWritten

(* A session keeps its references while other fields change. *)
LEMMA SessionKept ==
  ASSUME NEW t, SoundTables(t), NEW s \in OtaSessions, t.sessions[s] # Nothing,
         NEW row \in SessionRow, row.device = t.sessions[s].device, row.card = t.sessions[s].card
  PROVE  SoundTables([t EXCEPT !.sessions[s] = row])
<1>1. SessionRefers(t, row)
  BY DEF SessionRefers, SoundTables, Tables, Referred, Present
<1> QED
  BY <1>1, OneSessionWritten

(* Deleting what rows refer to. *)
LEMMA ReferencesGone ==
  ASSUME NEW t, SoundTables(t), NEW gone \in SUBSET Devices,
         NEW rows \in [Devices -> Rows \cup {Nothing}],
         \A d \in Devices \ gone : rows[d] = t.devices[d]
  PROVE  SoundTables([t EXCEPT !.devices = rows,
                               !.sessions = WithoutReference(@, "device", gone),
                               !.tests = WithoutReference(@, "device", gone)])
<1> DEFINE sessions == WithoutReference(t.sessions, "device", gone)
           tests == WithoutReference(t.tests, "device", gone)
           after == [t EXCEPT !.devices = rows, !.sessions = sessions, !.tests = tests]
<1>0. /\ t \in Tables /\ Referred(t) /\ Keyed(t)
      /\ t.sessions \in [OtaSessions -> SessionRow \cup {Nothing}]
      /\ t.tests \in [Tests -> TestRow \cup {Nothing}]
      /\ t.devices \in [Devices -> Rows \cup {Nothing}]
  BY DEF SoundTables, Tables
<1>1. /\ sessions \in [OtaSessions -> SessionRow \cup {Nothing}]
      /\ \A s \in OtaSessions : sessions[s] # Nothing =>
            /\ t.sessions[s] # Nothing /\ sessions[s].card = t.sessions[s].card
            /\ sessions[s].device \in {t.sessions[s].device, Nothing}
            /\ sessions[s].device \notin gone \/ sessions[s].device = Nothing
  BY <1>0 DEF WithoutReference, SessionRow
<1>2. /\ tests \in [Tests -> TestRow \cup {Nothing}]
      /\ \A s \in Tests : tests[s] # Nothing =>
            /\ t.tests[s] # Nothing
            /\ tests[s].device \in {t.tests[s].device, Nothing}
            /\ tests[s].device \notin gone \/ tests[s].device = Nothing
  BY <1>0 DEF WithoutReference, TestRow
<1>3. Present(t.devices) \subseteq Present(rows) \cup gone
  BY <1>0 DEF Present
<1> HIDE DEF sessions, tests
<1>4. /\ after \in Tables /\ after.devices = rows /\ after.sessions = sessions /\ after.tests = tests
      /\ after.cards = t.cards /\ after.keys = t.keys
  BY <1>0, <1>1, <1>2 DEF Tables
<1> HIDE DEF after
<1>5. Referred(after)
  BY <1>0, <1>1, <1>2, <1>3, <1>4 DEF Referred, Present
<1>6. Keyed(after)
  BY <1>0, <1>4 DEF Keyed
<1> QED
  BY <1>4, <1>5, <1>6 DEF SoundTables, after, sessions, tests

LEMMA CardGone ==
  ASSUME NEW t, SoundTables(t), NEW c \in Cards
  PROVE  SoundTables([t EXCEPT !.cards[c] = Nothing, !.keys[c] = Nothing,
                               !.sessions = WithoutReference(@, "card", {c})])
<1> DEFINE sessions == WithoutReference(t.sessions, "card", {c})
           cards == [t.cards EXCEPT ![c] = Nothing]
           keys == [t.keys EXCEPT ![c] = Nothing]
           after == [t EXCEPT !.cards = cards, !.keys = keys, !.sessions = sessions]
<1>0. /\ t \in Tables /\ Referred(t) /\ Keyed(t)
      /\ t.sessions \in [OtaSessions -> SessionRow \cup {Nothing}]
      /\ t.cards \in [Cards -> Rows \cup {Nothing}]
      /\ t.keys \in [Cards -> {"old", "new", Nothing}]
  BY DEF SoundTables, Tables
<1>1. /\ sessions \in [OtaSessions -> SessionRow \cup {Nothing}]
      /\ \A s \in OtaSessions : sessions[s] # Nothing =>
            /\ t.sessions[s] # Nothing /\ sessions[s].device = t.sessions[s].device
            /\ sessions[s].card \in {t.sessions[s].card, Nothing}
            /\ sessions[s].card # c \/ sessions[s].card = Nothing
  BY <1>0 DEF WithoutReference, SessionRow
<1>3. /\ Present(t.cards) \subseteq Present(cards) \cup {c}
      /\ cards \in [Cards -> Rows \cup {Nothing}] /\ keys \in [Cards -> {"old", "new", Nothing}]
      /\ \A k \in Cards : keys[k] # Nothing => cards[k] # Nothing
  BY <1>0 DEF Present, Keyed
<1>7. [t EXCEPT !.cards[c] = Nothing, !.keys[c] = Nothing,
                !.sessions = WithoutReference(@, "card", {c})] = after
  BY <1>0 DEF Tables
<1> HIDE DEF sessions, cards, keys
<1>4. /\ after \in Tables /\ after.devices = t.devices /\ after.sessions = sessions
      /\ after.tests = t.tests /\ after.cards = cards /\ after.keys = keys
  BY <1>0, <1>1, <1>3 DEF Tables
<1> HIDE DEF after
<1>5. Referred(after)
  BY <1>0, <1>1, <1>3, <1>4 DEF Referred, Present
<1>6. Keyed(after)
  BY <1>3, <1>4 DEF Keyed
<1> QED
  BY <1>4, <1>5, <1>6, <1>7 DEF SoundTables

(* What an operation of a unit of work does: it writes sound tables, or its  *)
(* statement fails.                                                         *)
Outcome == (\E t : SoundTables(t) /\ Write(t)) \/ Fail

LEMMA RowsMade ==
  ASSUME SoundTables(view)
  PROVE  /\ \A d \in Devices : CreateDevice(d) \/ DeleteDevice(d) => Outcome
         /\ \A k \in SettingKeys : SetValue(k) \/ DeleteKey(k) => Outcome
         /\ DeleteAllDevices => Outcome
<1>0. view \in Tables /\ Rows \subseteq Rows \cup {Nothing} /\ "old" \in Rows
  BY DEF SoundTables, Rows
<1>1. ASSUME NEW d \in Devices, CreateDevice(d) PROVE Outcome
  <2> DEFINE rows == [view.devices EXCEPT ![d] = "old"]
             t == [view EXCEPT !.devices = rows]
  <2>1. CASE view.devices[d] = Nothing /\ Write([view EXCEPT !.devices[d] = "old"])
    <3>1. /\ rows \in [Devices -> Rows \cup {Nothing}]
          /\ Present(view.devices) \subseteq Present(rows)
      BY <1>0, RecordsAssumption DEF Tables, Present
    <3>2. [view EXCEPT !.devices[d] = "old"] = t
      BY <1>0 DEF Tables
    <3> HIDE DEF rows
    <3>3. SoundTables(t)
      BY <3>1, DevicesWritten
    <3> HIDE DEF t
    <3> QED
      BY <2>1, <3>2, <3>3 DEF Outcome
  <2> QED
    BY <1>1, <2>1 DEF CreateDevice, CreateRow, Outcome
<1>2. ASSUME NEW d \in Devices, DeleteDevice(d) PROVE Outcome
  <2> DEFINE rows == [view.devices EXCEPT ![d] = Nothing]
             t == [view EXCEPT !.devices = rows,
                               !.sessions = WithoutReference(@, "device", {d}),
                               !.tests = WithoutReference(@, "device", {d})]
  <2>1. rows \in [Devices -> Rows \cup {Nothing}]
    BY <1>0 DEF Tables
  <2>2. \A x \in Devices \ {d} : rows[x] = view.devices[x]
    BY <1>0 DEF Tables
  <2>3. Write(t)
    BY <1>0, <1>2 DEF DeleteDevice, Tables
  <2> HIDE DEF rows
  <2>4. SoundTables(t)
    BY <2>1, <2>2, ReferencesGone
  <2> HIDE DEF t
  <2> QED
    BY <2>3, <2>4 DEF Outcome
<1>3. ASSUME NEW k \in SettingKeys, NEW row \in Rows \cup {Nothing},
             Write([view EXCEPT !.settings[k] = row])
      PROVE  Outcome
  <2> DEFINE rows == [view.settings EXCEPT ![k] = row]
             t == [view EXCEPT !.settings = rows]
  <2>1. rows \in [SettingKeys -> Rows \cup {Nothing}]
    BY <1>0 DEF Tables
  <2>2. [view EXCEPT !.settings[k] = row] = t
    BY <1>0 DEF Tables
  <2> HIDE DEF rows
  <2>3. SoundTables(t)
    BY <2>1, SettingsWritten
  <2> HIDE DEF t
  <2> QED
    BY <1>3, <2>2, <2>3 DEF Outcome
<1>4. ASSUME DeleteAllDevices PROVE Outcome
  <2> DEFINE rows == [d \in Devices |-> Nothing]
             t == [view EXCEPT !.devices = rows,
                               !.sessions = WithoutReference(@, "device", Devices),
                               !.tests = WithoutReference(@, "device", Devices)]
  <2>1. rows \in [Devices -> Rows \cup {Nothing}]
    OBVIOUS
  <2>2. Write(t)
    BY <1>4 DEF DeleteAllDevices
  <2> HIDE DEF rows
  <2>3. SoundTables(t)
    BY <2>1, ReferencesGone
  <2> HIDE DEF t
  <2> QED
    BY <2>2, <2>3 DEF Outcome
<1> QED
  BY <1>0, <1>1, <1>2, <1>3, <1>4 DEF SetValue, DeleteKey

LEMMA CardsMade ==
  ASSUME SoundTables(view), NEW c \in Cards,
         CreateCard(c) \/ DeleteCard(c) \/ SetPsk(c) \/ ClearPsk(c)
  PROVE  Outcome
<1>0. view \in Tables /\ Keyed(view) /\ "old" \in Rows
  BY DEF SoundTables, Rows
<1>1. CASE CreateCard(c)
  <2> DEFINE rows == [view.cards EXCEPT ![c] = "old"]
             keys == view.keys
             t == [view EXCEPT !.cards = rows, !.keys = keys]
  <2>1. CASE view.cards[c] = Nothing /\ Write([view EXCEPT !.cards[c] = "old"])
    <3>1. /\ rows \in [Cards -> Rows \cup {Nothing}] /\ keys \in [Cards -> {"old", "new", Nothing}]
          /\ Present(view.cards) \subseteq Present(rows)
          /\ \A k \in Cards : keys[k] # Nothing => rows[k] # Nothing
      BY <1>0, RecordsAssumption DEF Tables, Present, Keyed
    <3>2. [view EXCEPT !.cards[c] = "old"] = t
      BY <1>0 DEF Tables
    <3> HIDE DEF rows, keys
    <3>3. SoundTables(t)
      BY <3>1, CardsWritten
    <3> HIDE DEF t
    <3> QED
      BY <2>1, <3>2, <3>3 DEF Outcome
  <2> QED
    BY <1>1, <2>1 DEF CreateCard, CreateRow, Outcome
<1>2. CASE DeleteCard(c)
  <2> DEFINE t == [view EXCEPT !.cards[c] = Nothing, !.keys[c] = Nothing,
                               !.sessions = WithoutReference(@, "card", {c})]
  <2>1. Write(t)
    BY <1>2 DEF DeleteCard
  <2>2. SoundTables(t)
    BY CardGone
  <2> HIDE DEF t
  <2> QED
    BY <2>1, <2>2 DEF Outcome
<1>3. ASSUME NEW key \in {"new", Nothing}, view.cards[c] # Nothing,
             Write([view EXCEPT !.keys[c] = key])
      PROVE  Outcome
  <2> DEFINE rows == view.cards
             keys == [view.keys EXCEPT ![c] = key]
             t == [view EXCEPT !.cards = rows, !.keys = keys]
  <2>1. /\ rows \in [Cards -> Rows \cup {Nothing}] /\ keys \in [Cards -> {"old", "new", Nothing}]
        /\ Present(view.cards) \subseteq Present(rows)
        /\ \A k \in Cards : keys[k] # Nothing => rows[k] # Nothing
    BY <1>0, <1>3 DEF Tables, Present, Keyed
  <2>2. [view EXCEPT !.keys[c] = key] = t
    BY <1>0 DEF Tables
  <2> HIDE DEF rows, keys
  <2>3. SoundTables(t)
    BY <2>1, CardsWritten
  <2> HIDE DEF t
  <2> QED
    BY <1>3, <2>2, <2>3 DEF Outcome
<1> QED
  BY <1>1, <1>2, <1>3 DEF SetPsk, ClearPsk, Outcome

LEMMA SessionsMade ==
  ASSUME SoundTables(view), NEW s \in OtaSessions,
         \/ CreateSession(s) \/ MoveSession(s) \/ DeleteSession(s)
         \/ LogCommand(s) \/ LogResponse(s) \/ DeleteForSession(s)
  PROVE  Outcome
<1>0. /\ view \in Tables /\ view.sessions \in [OtaSessions -> SessionRow \cup {Nothing}]
      /\ MaxLogs \in Nat /\ 0 \in 0..MaxLogs
  BY RecordsAssumption DEF SoundTables, Tables
<1>1. ASSUME NEW row \in SessionRow \cup {Nothing}, SessionRefers(view, row),
             Write([view EXCEPT !.sessions[s] = row])
      PROVE  Outcome
  <2> DEFINE t == [view EXCEPT !.sessions[s] = row]
  <2>1. SoundTables(t)
    BY <1>1, OneSessionWritten
  <2> HIDE DEF t
  <2> QED
    BY <1>1, <2>1 DEF Outcome, t
<1>2. ASSUME NEW row \in SessionRow, view.sessions[s] # Nothing,
             row.device = view.sessions[s].device, row.card = view.sessions[s].card,
             Write([view EXCEPT !.sessions[s] = row])
      PROVE  Outcome
  <2> DEFINE t == [view EXCEPT !.sessions[s] = row]
  <2>1. SoundTables(t)
    BY <1>2, SessionKept
  <2> HIDE DEF t
  <2> QED
    BY <1>2, <2>1 DEF Outcome, t
<1>3. CASE CreateSession(s)
  <2>1. PICK d \in Devices \cup {Nothing}, c \in Cards \cup {Nothing} :
            IF d \in Known("devices") /\ c \in Known("cards")
            THEN CreateRow("sessions", s,
                    [status |-> "pending", device |-> d, card |-> c, stale |-> FALSE,
                     commands |-> 0, responses |-> 0])
            ELSE Fail
    BY <1>3 DEF CreateSession
  <2> DEFINE row == [status |-> "pending", device |-> d, card |-> c, stale |-> FALSE,
                     commands |-> 0, responses |-> 0]
  <2>2. row \in SessionRow /\ row.device = d /\ row.card = c
    BY <1>0 DEF SessionRow, SessionStatus
  <2> HIDE DEF row
  <2>3. Fail \/ (d \in Known("devices") /\ c \in Known("cards") /\ Write([view EXCEPT !.sessions[s] = row]))
    BY <2>1 DEF CreateRow, row
  <2>4. d \in Known("devices") /\ c \in Known("cards") => SessionRefers(view, row)
    BY <2>2 DEF SessionRefers, Known
  <2> QED
    BY <1>1, <2>2, <2>3, <2>4 DEF Outcome
<1>4. CASE MoveSession(s)
  <2>1. PICK status \in SessionStatus :
            view.sessions[s] # Nothing /\ Write([view EXCEPT !.sessions[s].status = status])
    BY <1>4 DEF MoveSession, SetStatus
  <2> DEFINE row == [view.sessions[s] EXCEPT !.status = status]
  <2>2. /\ row \in SessionRow /\ row.device = view.sessions[s].device
        /\ row.card = view.sessions[s].card
    BY <1>0, <2>1 DEF SessionRow
  <2>3. Write([view EXCEPT !.sessions[s] = row])
    BY <1>0, <2>1 DEF Tables
  <2> HIDE DEF row
  <2> QED
    BY <1>2, <2>1, <2>2, <2>3
<1>5. CASE DeleteSession(s)
  BY <1>1, <1>5 DEF DeleteSession, SessionRefers
<1>6. CASE LogCommand(s) /\ view.sessions[s] # Nothing
  <2> DEFINE row == [view.sessions[s] EXCEPT !.commands = @ + 1]
  <2>1. view.sessions[s].commands < MaxLogs /\ Write([view EXCEPT !.sessions[s].commands = @ + 1])
    BY <1>6 DEF LogCommand
  <2>2. /\ row \in SessionRow /\ row.device = view.sessions[s].device
        /\ row.card = view.sessions[s].card
    BY <1>0, <1>6, <2>1 DEF SessionRow
  <2>3. Write([view EXCEPT !.sessions[s] = row])
    BY <1>0, <2>1 DEF Tables
  <2> HIDE DEF row
  <2> QED
    BY <1>2, <1>6, <2>2, <2>3
<1>7. CASE LogResponse(s) /\ view.sessions[s] # Nothing
  <2> DEFINE row == [view.sessions[s] EXCEPT !.responses = @ + 1]
  <2>1. view.sessions[s].responses < MaxLogs /\ Write([view EXCEPT !.sessions[s].responses = @ + 1])
    BY <1>7 DEF LogResponse
  <2>2. /\ row \in SessionRow /\ row.device = view.sessions[s].device
        /\ row.card = view.sessions[s].card
    BY <1>0, <1>7, <2>1 DEF SessionRow
  <2>3. Write([view EXCEPT !.sessions[s] = row])
    BY <1>0, <2>1 DEF Tables
  <2> HIDE DEF row
  <2> QED
    BY <1>2, <1>7, <2>2, <2>3
<1>8. CASE DeleteForSession(s)
  <2> DEFINE row == [view.sessions[s] EXCEPT !.commands = 0, !.responses = 0]
  <2>1. /\ view.sessions[s] # Nothing
        /\ Write([view EXCEPT !.sessions[s].commands = 0, !.sessions[s].responses = 0])
    BY <1>8 DEF DeleteForSession
  <2>2. /\ row \in SessionRow /\ row.device = view.sessions[s].device
        /\ row.card = view.sessions[s].card
    BY <1>0, <2>1 DEF SessionRow
  <2>3. Write([view EXCEPT !.sessions[s] = row])
    BY <1>0, <2>1 DEF Tables
  <2> HIDE DEF row
  <2> QED
    BY <1>2, <2>1, <2>2, <2>3
<1> QED
  BY <1>3, <1>4, <1>5, <1>6, <1>7, <1>8 DEF LogCommand, LogResponse, Outcome

LEMMA TestsMade ==
  ASSUME SoundTables(view)
  PROVE  /\ \A n \in Tests : CreateTest(n) \/ FinishTest(n) => Outcome
         /\ DeleteByRun => Outcome
<1>0. view \in Tables /\ view.tests \in [Tests -> TestRow \cup {Nothing}] /\ Referred(view)
  BY DEF SoundTables, Tables
<1>1. ASSUME NEW n \in Tests, NEW row \in TestRow \cup {Nothing}, TestRefers(view, row),
             Write([view EXCEPT !.tests[n] = row])
      PROVE  Outcome
  <2> DEFINE t == [view EXCEPT !.tests[n] = row]
  <2>1. SoundTables(t)
    BY <1>1, OneTestWritten
  <2> HIDE DEF t
  <2> QED
    BY <1>1, <2>1 DEF Outcome, t
<1>2. ASSUME NEW n \in Tests, CreateTest(n) PROVE Outcome
  <2>1. PICK d \in Devices \cup {Nothing}, a \in 0..1 :
            IF d \in Known("devices")
            THEN CreateRow("tests", n, [status |-> "skipped", device |-> d, assertions |-> a])
            ELSE Fail
    BY <1>2 DEF CreateTest
  <2> DEFINE row == [status |-> "skipped", device |-> d, assertions |-> a]
  <2>2. row \in TestRow /\ row.device = d
    BY DEF TestRow, TestStatus
  <2> HIDE DEF row
  <2>3. Fail \/ (d \in Known("devices") /\ Write([view EXCEPT !.tests[n] = row]))
    BY <2>1 DEF CreateRow, row
  <2>4. d \in Known("devices") => TestRefers(view, row)
    BY <2>2 DEF TestRefers, Known
  <2> QED
    BY <1>1, <2>2, <2>3, <2>4 DEF Outcome
<1>3. ASSUME NEW n \in Tests, FinishTest(n) PROVE Outcome
  <2>1. PICK status \in TestStatus :
            view.tests[n] # Nothing /\ Write([view EXCEPT !.tests[n].status = status])
    BY <1>3 DEF FinishTest
  <2> DEFINE row == [view.tests[n] EXCEPT !.status = status]
  <2>2. row \in TestRow /\ row.device = view.tests[n].device
    BY <1>0, <2>1 DEF TestRow
  <2>3. Write([view EXCEPT !.tests[n] = row])
    BY <1>0, <2>1 DEF Tables
  <2> HIDE DEF row
  <2>4. TestRefers(view, row)
    BY <1>0, <2>1, <2>2 DEF TestRefers, Referred, Present
  <2> QED
    BY <1>1, <2>2, <2>3, <2>4
<1>4. ASSUME DeleteByRun PROVE Outcome
  <2> DEFINE rows == [n \in Tests |-> Nothing]
             t == [view EXCEPT !.tests = rows]
  <2>1. rows \in [Tests -> TestRow \cup {Nothing}] /\ \A n \in Tests : TestRefers(view, rows[n])
    BY DEF TestRefers
  <2>2. Write(t)
    BY <1>4 DEF DeleteByRun
  <2> HIDE DEF rows
  <2>3. SoundTables(t)
    BY <2>1, TestsWritten
  <2> HIDE DEF t
  <2> QED
    BY <2>2, <2>3 DEF Outcome
<1> QED
  BY <1>2, <1>3, <1>4

LEMMA CleanupMade ==
  ASSUME SoundTables(view), CleanupStale
  PROVE  Outcome
<1> DEFINE rows == [s \in OtaSessions |->
                IF /\ view.sessions[s] # Nothing /\ view.sessions[s].status = "pending"
                   /\ view.sessions[s].stale
                THEN [view.sessions[s] EXCEPT !.status = "timeout"] ELSE view.sessions[s]]
           t == [view EXCEPT !.sessions = rows]
<1>0. view.sessions \in [OtaSessions -> SessionRow \cup {Nothing}] /\ Referred(view)
  BY DEF SoundTables, Tables
<1>1. rows \in [OtaSessions -> SessionRow \cup {Nothing}]
  BY <1>0 DEF SessionRow, SessionStatus
<1>2. ASSUME NEW s \in OtaSessions PROVE SessionRefers(view, rows[s])
  <2>1. SessionRefers(view, view.sessions[s])
    BY <1>0 DEF SessionRefers, Referred, Present
  <2>2. rows[s] # Nothing => /\ view.sessions[s] # Nothing
                             /\ rows[s].device = view.sessions[s].device
                             /\ rows[s].card = view.sessions[s].card
    BY <1>0 DEF SessionRow
  <2> QED
    BY <2>1, <2>2 DEF SessionRefers
<1>3. Write(t)
  BY DEF CleanupStale
<1> HIDE DEF rows
<1>4. SoundTables(t)
  BY <1>1, <1>2, SessionsWritten
<1> HIDE DEF t
<1> QED
  BY <1>3, <1>4 DEF Outcome

LEMMA OperateMade ==
  ASSUME SoundTables(view), Operate
  PROVE  uow = "open" /\ Outcome
BY RowsMade, CardsMade, SessionsMade, TestsMade, CleanupMade DEF Operate

(* What the import of one table counts is what it does to the rows. *)
Accounted(rows, after, entries, counts) ==
    /\ counts.created = Cardinality(Present(after) \ Present(rows))
    /\ counts.updated + counts.errors
          >= Cardinality({id \in Present(rows) : after[id] # rows[id]})
    /\ counts.created + counts.updated + counts.skipped + counts.errors
          = Cardinality(DOMAIN entries)
    /\ \A id \in DOMAIN entries : entries[id] # "bad" => id \in Present(after)
Counts == [created : Nat, updated : Nat, skipped : Nat, errors : Nat]

LEMMA DisjointUnion ==
  ASSUME NEW S, NEW T, IsFiniteSet(S), IsFiniteSet(T), S \cap T = {}
  PROVE  /\ IsFiniteSet(S \cup T) /\ Cardinality(S \cup T) = Cardinality(S) + Cardinality(T)
         /\ Cardinality(S) \in Nat /\ Cardinality(T) \in Nat
BY FS_Union, FS_EmptySet, FS_CardinalityType

LEMMA ImportCounts ==
  ASSUME NEW ids, IsFiniteSet(ids), NEW rows \in [ids -> Rows \cup {Nothing}],
         NEW entries \in EntriesOf(ids), NEW mode \in ConflictModes
  PROVE  /\ Imported(rows, entries, mode) \in [ids -> Rows \cup {Nothing}]
         /\ Count(rows, entries, mode) \in Counts
         /\ Accounted(rows, Imported(rows, entries, mode), entries, Count(rows, entries, mode))
<1> DEFINE given == DOMAIN entries
           known == given \cap Present(rows)
           good == {id \in given : entries[id] # "bad"}
           after == Imported(rows, entries, mode)
           changed == {id \in Present(rows) : after[id] # rows[id]}
           counts == Count(rows, entries, mode)
<1>0. /\ given \subseteq ids /\ \A id \in given : entries[id] \in Entries
      /\ Nothing \notin Rows /\ "new" \in Rows /\ "half" \in Rows
  BY RecordsAssumption DEF EntriesOf, Rows
<1>1. /\ after \in [ids -> Rows \cup {Nothing}]
      /\ \A id \in ids \ given : after[id] = rows[id]
      /\ \A id \in given \ known : after[id] = IF id \in good THEN "new" ELSE Nothing
      /\ \A id \in known : /\ after[id] # Nothing
                           /\ mode = "skip" => after[id] = rows[id]
  BY <1>0 DEF Imported, ImportRow, Present
<1>2. /\ given \in SUBSET ids /\ IsFiniteSet(given) /\ known \in SUBSET given
      /\ good \in SUBSET given /\ good \ known \in SUBSET given
      /\ good \cap known \in SUBSET given /\ given \ good \in SUBSET given
      /\ (given \ good) \ known \in SUBSET given
  BY <1>0, FS_Subset
<1>3. /\ IsFiniteSet(known) /\ IsFiniteSet(good) /\ IsFiniteSet(good \ known)
      /\ IsFiniteSet(good \cap known) /\ IsFiniteSet(given \ good)
      /\ IsFiniteSet((given \ good) \ known)
  BY <1>2, FS_Subset
<1>4. Present(after) \ Present(rows) = good \ known
  BY <1>0, <1>1 DEF Present
<1>5. changed \subseteq known /\ (mode = "skip" => changed = {})
  <2>1. ASSUME NEW id \in changed PROVE id \in known /\ mode # "skip"
    <3>1. id \in ids /\ id \in Present(rows) /\ after[id] # rows[id]
      BY DEF Present
    <3> HIDE DEF after
    <3>2. id \in known
      BY <1>1, <3>1
    <3> QED
      BY <1>1, <3>1, <3>2
  <2> QED
    BY <2>1
<1>6. \A id \in given : entries[id] # "bad" => id \in Present(after)
  <2>1. ASSUME NEW id \in given, entries[id] # "bad" PROVE id \in ids /\ after[id] # Nothing
    <3>1. id \in ids /\ id \in good
      BY <1>0, <2>1
    <3> HIDE DEF after, known, good
    <3>2. CASE id \in known
      BY <1>1, <3>2, <3>1
    <3>3. CASE id \notin known
      BY <1>0, <1>1, <2>1, <3>1, <3>3
    <3> QED
      BY <3>1, <3>2, <3>3
  <2>2. DOMAIN after = ids
    BY <1>1
  <2> HIDE DEF after
  <2> QED
    BY <2>1, <2>2 DEF Present
<1>c. /\ counts.created = Cardinality(good \ known)
      /\ counts.updated = IF mode = "skip" THEN 0 ELSE Cardinality(good \cap known)
      /\ counts.skipped = IF mode = "skip" THEN Cardinality(known) ELSE 0
      /\ counts.errors = Cardinality((given \ good) \ (IF mode = "skip" THEN known ELSE {}))
      /\ counts = [created |-> counts.created, updated |-> counts.updated,
                   skipped |-> counts.skipped, errors |-> counts.errors]
  BY DEF Count
<1> HIDE DEF given, known, good, after, changed, counts
<1>7. CASE mode = "skip"
  <2>1. (good \ known) \cap known = {} /\ (good \ known) \cup known = known \cup good
    OBVIOUS
  <2>2. /\ Cardinality(known \cup good) = Cardinality(good \ known) + Cardinality(known)
        /\ IsFiniteSet(known \cup good)
        /\ Cardinality(good \ known) \in Nat /\ Cardinality(known) \in Nat
    BY <1>3, <2>1, DisjointUnion
  <2>3. /\ (known \cup good) \cap ((given \ good) \ known) = {}
        /\ (known \cup good) \cup ((given \ good) \ known) = given
    BY <1>2
  <2>4. /\ Cardinality(given) = Cardinality(known \cup good) + Cardinality((given \ good) \ known)
        /\ Cardinality((given \ good) \ known) \in Nat
    BY <1>3, <2>2, <2>3, DisjointUnion
  <2>5. Cardinality(changed) = 0
    BY <1>5, <1>7, FS_EmptySet
  <2>6. /\ counts.created = Cardinality(good \ known) /\ counts.updated = 0
        /\ counts.skipped = Cardinality(known)
        /\ counts.errors = Cardinality((given \ good) \ known)
    BY <1>7, <1>c
  <2>7. counts \in Counts
    BY <1>c, <2>2, <2>4, <2>6 DEF Counts
  <2>8. counts.updated + counts.errors >= Cardinality(changed)
    BY <2>4, <2>5, <2>6
  <2>9. counts.created + counts.updated + counts.skipped + counts.errors = Cardinality(given)
    BY <2>2, <2>4, <2>6
  <2> QED
    BY <1>1, <1>4, <1>6, <2>6, <2>7, <2>8, <2>9 DEF Accounted, after, counts, given, changed
<1>8. CASE mode # "skip"
  <2>1. (good \ known) \cap (good \cap known) = {} /\ (good \ known) \cup (good \cap known) = good
    OBVIOUS
  <2>2. /\ Cardinality(good) = Cardinality(good \ known) + Cardinality(good \cap known)
        /\ Cardinality(good \ known) \in Nat /\ Cardinality(good \cap known) \in Nat
    BY <1>3, <2>1, DisjointUnion
  <2>3. good \cap (given \ good) = {} /\ good \cup (given \ good) = given
    BY <1>2
  <2>4. /\ Cardinality(given) = Cardinality(good) + Cardinality(given \ good)
        /\ Cardinality(given \ good) \in Nat
    BY <1>3, <2>3, DisjointUnion
  <2>5. /\ (good \cap known) \cap (given \ good) = {}
        /\ changed \in SUBSET ((good \cap known) \cup (given \ good))
    BY <1>2, <1>5
  <2>6. /\ IsFiniteSet((good \cap known) \cup (given \ good))
        /\ Cardinality((good \cap known) \cup (given \ good))
             = Cardinality(good \cap known) + Cardinality(given \ good)
    BY <1>3, <2>5, DisjointUnion
  <2>7. Cardinality(changed) <= Cardinality(good \cap known) + Cardinality(given \ good)
    BY <2>5, <2>6, FS_Subset
  <2>8. (given \ good) \ {} = given \ good
    OBVIOUS
  <2>9. /\ counts.created = Cardinality(good \ known) /\ counts.updated = Cardinality(good \cap known)
        /\ counts.skipped = 0 /\ counts.errors = Cardinality(given \ good)
    BY <1>8, <1>c, <2>8
  <2>10. counts \in Counts
    BY <1>c, <2>2, <2>4, <2>9 DEF Counts
  <2>11. /\ counts.updated + counts.errors >= Cardinality(changed)
         /\ Cardinality(changed) \in Nat
    <3>1. IsFiniteSet(changed)
      BY <2>5, <2>6, FS_Subset
    <3>2. Cardinality(changed) \in Nat
      BY <3>1, FS_CardinalityType
    <3> QED
      BY <2>2, <2>4, <2>7, <2>9, <3>2
  <2>12. counts.created + counts.updated + counts.skipped + counts.errors = Cardinality(given)
    BY <2>2, <2>4, <2>9
  <2> QED
    BY <1>1, <1>4, <1>6, <2>9, <2>10, <2>11, <2>12 DEF Accounted, after, counts, given, changed
<1> QED
  BY <1>7, <1>8

LEMMA ImportSettingsCounts ==
  ASSUME NEW rows \in [SettingKeys -> Rows \cup {Nothing}], NEW entries \in EntriesOf(SettingKeys)
  PROVE  /\ ImportedSettings(rows, entries) \in [SettingKeys -> Rows \cup {Nothing}]
         /\ CountSettings(rows, entries) \in Counts
         /\ Accounted(rows, ImportedSettings(rows, entries), entries, CountSettings(rows, entries))
<1> DEFINE given == DOMAIN entries
           known == given \cap Present(rows)
           after == ImportedSettings(rows, entries)
           changed == {id \in Present(rows) : after[id] # rows[id]}
           counts == CountSettings(rows, entries)
<1>0. /\ given \in SUBSET SettingKeys /\ IsFiniteSet(SettingKeys)
      /\ Nothing \notin Rows /\ "new" \in Rows
  BY RecordsAssumption DEF EntriesOf, Rows
<1>1. /\ after \in [SettingKeys -> Rows \cup {Nothing}]
      /\ \A id \in SettingKeys \ given : after[id] = rows[id]
      /\ \A id \in given : after[id] = "new"
  BY <1>0 DEF ImportedSettings
<1>2. /\ Present(after) \ Present(rows) = given \ Present(rows) /\ changed \subseteq known
      /\ \A id \in given : id \in Present(after)
  BY <1>0, <1>1 DEF Present
<1>3. /\ IsFiniteSet(given) /\ given \ Present(rows) \in SUBSET given /\ known \in SUBSET given
      /\ (given \ Present(rows)) \cap known = {} /\ (given \ Present(rows)) \cup known = given
  BY <1>0, FS_Subset
<1>4. IsFiniteSet(given \ Present(rows)) /\ IsFiniteSet(known)
  BY <1>3, FS_Subset
<1>5. counts = [created |-> Cardinality(given \ Present(rows)), updated |-> Cardinality(known),
                skipped |-> 0, errors |-> 0]
  BY DEF CountSettings
<1> HIDE DEF given, known, after, changed, counts
<1>6. /\ Cardinality(given) = Cardinality(given \ Present(rows)) + Cardinality(known)
      /\ Cardinality(given \ Present(rows)) \in Nat /\ Cardinality(known) \in Nat
  BY <1>3, <1>4, DisjointUnion
<1>7. Cardinality(changed) <= Cardinality(known) /\ Cardinality(changed) \in Nat
  <2>1. changed \in SUBSET known
    BY <1>2
  <2> QED
    BY <1>4, <2>1, FS_Subset, FS_CardinalityType
<1>8. counts \in Counts
  BY <1>5, <1>6 DEF Counts
<1>9. counts.updated + counts.errors >= Cardinality(changed)
  BY <1>5, <1>6, <1>7
<1>10. counts.created + counts.updated + counts.skipped + counts.errors = Cardinality(given)
  BY <1>5, <1>6
<1>11. counts.created = Cardinality(Present(after) \ Present(rows))
  BY <1>2, <1>5
<1> QED
  BY <1>1, <1>2, <1>8, <1>9, <1>10, <1>11 DEF Accounted, after, counts, given, changed

(* How far an import i has come: what the tables t hold of it, and what it   *)
(* has counted.  It never takes a key, in any table's turn.                 *)
Totals(i) ==
    [created |-> i.created, updated |-> i.updated, skipped |-> i.skipped, errors |-> i.errors]
Plus(a, b) ==
    [created |-> a.created + b.created, updated |-> a.updated + b.updated,
     skipped |-> a.skipped + b.skipped, errors |-> a.errors + b.errors]
FromDevices(i) == Count(i.before.devices, i.file.devices, i.mode)
FromCards(i) == Count(i.before.cards, i.file.cards, i.mode)
FromSettings(i) == CountSettings(i.before.settings, i.file.settings)
DevicesIn(i, t) == t.devices = Imported(i.before.devices, i.file.devices, i.mode)
CardsIn(i, t) == t.cards = Imported(i.before.cards, i.file.cards, i.mode)
SettingsIn(i, t) == t.settings = ImportedSettings(i.before.settings, i.file.settings)

ImportSound(i, t) ==
    /\ i.before \in Tables /\ i.file \in ImportFiles
    /\ \A c \in Cards : i.before.keys[c] # Nothing => t.keys[c] # Nothing
    /\ i.status = "devices" =>
        /\ t.devices = i.before.devices /\ t.cards = i.before.cards
        /\ t.settings = i.before.settings
        /\ i.created = 0 /\ i.updated = 0 /\ i.skipped = 0 /\ i.errors = 0
    /\ i.status = "cards" =>
        /\ DevicesIn(i, t) /\ t.cards = i.before.cards /\ t.settings = i.before.settings
        /\ Totals(i) = FromDevices(i)
    /\ i.status = "settings" =>
        /\ DevicesIn(i, t) /\ CardsIn(i, t) /\ t.settings = i.before.settings
        /\ Totals(i) = Plus(FromDevices(i), FromCards(i))
    /\ i.status = "done" =>
        /\ DevicesIn(i, t) /\ CardsIn(i, t) /\ SettingsIn(i, t)
        /\ Totals(i) = Plus(Plus(FromDevices(i), FromCards(i)), FromSettings(i))

RecordsInv ==
    /\ RecordsTypeOK /\ SoundTables(store) /\ SoundTables(view)
    /\ import.status # "none" => uow = "closed" /\ ImportSound(import, store)

LEMMA NoImportSound ==
  ASSUME RecordsTypeOK, SoundTables(store'), SoundTables(view'), uow' \in {"closed", "open", "failed"},
         exported' \in ImportFiles, import' = import \/ import' = NoImport,
         import'.status = "none"
  PROVE  RecordsInv'
<1>1. NoImport \in ImportTypes
  BY DEF NoImport, ImportTypes, ConflictModes
<1>2. import' \in ImportTypes
  BY <1>1 DEF RecordsTypeOK
<1> QED
  BY <1>2 DEF RecordsInv, RecordsTypeOK, SoundTables

LEMMA OpenStep ==
  ASSUME RecordsInv,
         Enter \/ Commit \/ ExitRollback \/ Operate \/ GrowStale \/ Export \/ CleanupCommand \/ InitForce
  PROVE  RecordsInv'
<1>0. /\ RecordsTypeOK /\ SoundTables(store) /\ SoundTables(view) /\ NoImport.status = "none"
      /\ uow # "closed" => import.status = "none"
      /\ exported \in ImportFiles /\ uow \in {"closed", "open", "failed"}
  BY DEF RecordsInv, RecordsTypeOK, NoImport
<1>1. CASE Enter \/ Commit \/ ExitRollback \/ CleanupCommand
  BY <1>0, <1>1, NoImportSound DEF Enter, Commit, ExitRollback, CleanupCommand, RecordsInv
<1>2. CASE Operate
  <2>1. uow = "open" /\ Outcome
    BY <1>0, <1>2, OperateMade
  <2> QED
    BY <1>0, <2>1, NoImportSound DEF Outcome, Write, Fail
<1>3. CASE GrowStale
  <2>1. PICK s \in Present(store.sessions) : store' = [store EXCEPT !.sessions[s].stale = TRUE]
    BY <1>3 DEF GrowStale
  <2> DEFINE row == [store.sessions[s] EXCEPT !.stale = TRUE]
  <2>2. store \in Tables /\ s \in OtaSessions /\ store.sessions[s] # Nothing
    BY <1>0 DEF SoundTables, Tables, Present
  <2>3. /\ row \in SessionRow /\ row.device = store.sessions[s].device
        /\ row.card = store.sessions[s].card
    BY <2>2 DEF Tables, SessionRow
  <2>4. store' = [store EXCEPT !.sessions[s] = row]
    BY <2>1, <2>2 DEF Tables
  <2> HIDE DEF row
  <2>5. SoundTables(store')
    BY <1>0, <2>2, <2>3, <2>4, SessionKept
  <2> QED
    BY <1>0, <1>3, <2>5, NoImportSound DEF GrowStale
<1>4. CASE Export
  <2>1. PICK includePsk \in BOOLEAN :
          exported' = [devices |-> [d \in Present(store.devices) |-> "good"],
                     cards |-> [c \in Present(store.cards) |->
                        IF includePsk /\ store.keys[c] # Nothing THEN "keyed" ELSE "good"],
                     settings |-> [k \in Present(store.settings) |-> "good"]]
    BY <1>4 DEF Export
  <2>2. /\ Present(store.devices) \in SUBSET Devices /\ Present(store.cards) \in SUBSET Cards
        /\ Present(store.settings) \in SUBSET SettingKeys
    BY <1>0 DEF SoundTables, Tables, Present
  <2>3. /\ exported'.devices \in EntriesOf(Devices) /\ exported'.cards \in EntriesOf(Cards)
        /\ exported'.settings \in EntriesOf(SettingKeys)
    BY <2>1, <2>2 DEF EntriesOf, Entries
  <2>4. exported' \in ImportFiles
    BY <2>1, <2>3 DEF ImportFiles
  <2> QED
    BY <1>0, <1>4, <2>4, NoImportSound DEF Export
<1>5. CASE InitForce
  <2>1. SoundTables(EmptyTables)
    BY DEF SoundTables, EmptyTables, Tables, Referred, Keyed, Present
  <2> HIDE DEF EmptyTables
  <2> QED
    BY <1>0, <1>5, <2>1, NoImportSound DEF InitForce
<1> QED
  BY <1>1, <1>2, <1>3, <1>4, <1>5

LEMMA BeginStep ==
  ASSUME RecordsInv, BeginImport
  PROVE  RecordsInv'
<1>1. PICK f \in Imports \cup {exported}, mode \in ConflictModes :
        import' = [NoImport EXCEPT !.status = "devices", !.mode = mode, !.file = f, !.before = store]
  BY DEF BeginImport
<1>2. f \in ImportFiles /\ store \in Tables
  BY RecordsAssumption DEF RecordsInv, RecordsTypeOK
<1>3. /\ import'.status = "devices" /\ import'.file = f /\ import'.before = store
      /\ import'.created = 0 /\ import'.updated = 0 /\ import'.skipped = 0 /\ import'.errors = 0
      /\ import' \in ImportTypes
  BY <1>1, <1>2 DEF NoImport, ImportTypes, ConflictModes
<1>4. ImportSound(import', store)
  BY <1>2, <1>3 DEF ImportSound
<1> QED
  BY <1>3, <1>4 DEF BeginImport, RecordsInv, RecordsTypeOK, SoundTables

(* The turn of one table, as ImportTable takes it. *)
LEMMA TableStep ==
  ASSUME RecordsInv, NEW table \in {"devices", "cards", "settings"}, NEW tables, SoundTables(tables),
         NEW counts \in Counts, NEW next \in {"cards", "settings", "done"},
         ImportTable(table, tables, counts, next),
         \A i \in ImportTypes :
            /\ i.status = next /\ i.mode = import.mode /\ i.before = import.before
            /\ i.file = import.file /\ Totals(i) = Plus(Totals(import), counts)
            => ImportSound(i, tables)
  PROVE  RecordsInv'
<1>0. /\ import \in ImportTypes /\ import.status = table /\ ImportSound(import, store)
      /\ uow = "closed" /\ exported \in ImportFiles
      /\ SoundTables(store) /\ store \in Tables /\ tables \in Tables
  BY DEF RecordsInv, RecordsTypeOK, ImportTable, SoundTables
<1>1. CASE store' = tables /\ import' = [import EXCEPT !.status = next,
                !.created = @ + counts.created, !.updated = @ + counts.updated,
                !.skipped = @ + counts.skipped, !.errors = @ + counts.errors]
  <2>0. /\ import.created + counts.created \in Nat /\ import.updated + counts.updated \in Nat
        /\ import.skipped + counts.skipped \in Nat /\ import.errors + counts.errors \in Nat
    BY <1>0 DEF ImportTypes, Counts
  <2>1. /\ import' \in ImportTypes
        /\ import'.status = next /\ import'.mode = import.mode /\ import'.before = import.before
        /\ import'.file = import.file
    <3> DEFINE created == import.created + counts.created
               updated == import.updated + counts.updated
               skipped == import.skipped + counts.skipped
               errors == import.errors + counts.errors
    <3>1. import' = [import EXCEPT !.status = next, !.created = created, !.updated = updated,
                                   !.skipped = skipped, !.errors = errors]
      BY <1>1
    <3> HIDE DEF created, updated, skipped, errors
    <3>2. created \in Nat /\ updated \in Nat /\ skipped \in Nat /\ errors \in Nat
      BY <2>0 DEF created, updated, skipped, errors
    <3> QED
      BY <1>0, <3>1, <3>2 DEF ImportTypes
  <2>2. Totals(import') = Plus(Totals(import), counts)
    BY <1>0, <1>1 DEF ImportTypes, Totals, Plus
  <2>3. ImportSound(import', tables)
    BY <2>1, <2>2
  <2> QED
    BY <1>0, <1>1, <2>1, <2>3 DEF ImportTable, RecordsInv, RecordsTypeOK
<1>2. CASE UNCHANGED store /\ import' = [import EXCEPT !.status = "raised"]
  <2>1. /\ import' \in ImportTypes /\ import'.status = "raised" /\ import'.before = import.before
        /\ import'.file = import.file
    BY <1>0, <1>2 DEF ImportTypes
  <2>2. ImportSound(import', store)
    BY <1>0, <2>1 DEF ImportSound
  <2> QED
    BY <1>0, <1>2, <2>1, <2>2 DEF ImportTable, RecordsInv, RecordsTypeOK
<1> QED
  BY <1>1, <1>2 DEF ImportTable

LEMMA ImportingStep ==
  ASSUME RecordsInv, ImportDevices \/ ImportCards \/ ImportSettings
  PROVE  RecordsInv'
<1>0. /\ import \in ImportTypes /\ SoundTables(store) /\ store \in Tables /\ Keyed(store)
      /\ import.mode \in ConflictModes
  BY DEF RecordsInv, RecordsTypeOK, ImportTypes, SoundTables
<1> DEFINE f == import.file  b == import.before  m == import.mode
<1>f. import.status # "none" =>
        /\ b \in Tables /\ f.devices \in EntriesOf(Devices)
        /\ f.cards \in EntriesOf(Cards) /\ f.settings \in EntriesOf(SettingKeys)
        /\ ImportSound(import, store)
  BY DEF RecordsInv, ImportSound, ImportFiles
<1>1. CASE ImportDevices
  <2> DEFINE rows == Imported(store.devices, f.devices, m)
             tables == [store EXCEPT !.devices = rows]
             counts == Count(store.devices, f.devices, m)
  <2>1. import.status = "devices" /\ ImportTable("devices", tables, counts, "cards")
    BY <1>1 DEF ImportDevices, ImportTable
  <2>2. store.devices = b.devices /\ store.cards = b.cards /\ store.settings = b.settings
    BY <1>f, <2>1 DEF ImportSound
  <2>3. rows \in [Devices -> Rows \cup {Nothing}] /\ counts \in Counts
    BY <1>0, <1>f, <2>1, ImportCounts, RecordsAssumption DEF Tables
  <2>4. Present(store.devices) \subseteq Present(rows)
    BY <1>0, RecordsAssumption DEF Tables, Present, Imported, ImportRow, Rows
  <2>5. rows = Imported(b.devices, f.devices, m) /\ counts = FromDevices(import)
    BY <2>2 DEF FromDevices
  <2> HIDE DEF rows, counts
  <2>6. SoundTables(tables) /\ tables.devices = rows /\ tables.cards = store.cards
        /\ tables.settings = store.settings /\ tables.keys = store.keys
    BY <1>0, <2>3, <2>4, DevicesWritten DEF Tables
  <2> HIDE DEF tables
  <2>7. Plus(Totals(import), counts) = counts
    BY <1>f, <2>1, <2>3 DEF ImportSound, Plus, Totals, Counts
  <2>8. ASSUME NEW i \in ImportTypes,
               i.status = "cards", i.mode = m, i.before = b, i.file = f,
               Totals(i) = Plus(Totals(import), counts)
        PROVE  ImportSound(i, tables)
    <3>1. Totals(i) = FromDevices(i) /\ DevicesIn(i, tables)
      BY <2>5, <2>6, <2>7, <2>8 DEF FromDevices, DevicesIn
    <3> QED
      BY <1>f, <2>1, <2>2, <2>6, <2>8, <3>1 DEF ImportSound
  <2> QED
    BY <2>1, <2>3, <2>6, <2>8, TableStep
<1>2. CASE ImportCards
  <2> DEFINE rows == Imported(store.cards, f.cards, m)
             keys == ImportedKeys(store.cards, store.keys, f.cards, m)
             tables == [store EXCEPT !.cards = rows, !.keys = keys]
             counts == Count(store.cards, f.cards, m)
  <2>1. import.status = "cards" /\ ImportTable("cards", tables, counts, "settings")
    BY <1>2 DEF ImportCards, ImportTable
  <2>2. /\ DevicesIn(import, store) /\ store.cards = b.cards /\ store.settings = b.settings
        /\ Totals(import) = FromDevices(import)
    BY <1>f, <2>1 DEF ImportSound
  <2>3. rows \in [Cards -> Rows \cup {Nothing}] /\ counts \in Counts
    BY <1>0, <1>f, <2>1, ImportCounts, RecordsAssumption DEF Tables
  <2>4. /\ Present(store.cards) \subseteq Present(rows)
        /\ keys \in [Cards -> {"old", "new", Nothing}]
        /\ \A c \in Cards : keys[c] # Nothing => rows[c] # Nothing
        /\ \A c \in Cards : store.keys[c] # Nothing => keys[c] # Nothing
    <3>1. /\ store.cards \in [Cards -> Rows \cup {Nothing}]
          /\ store.keys \in [Cards -> {"old", "new", Nothing}]
          /\ Nothing \notin Rows /\ "new" \in Rows /\ "half" \in Rows
      BY <1>0, RecordsAssumption DEF Tables, Rows
    <3>2. Present(store.cards) \subseteq Present(rows)
      BY <3>1 DEF Present, Imported, ImportRow
    <3>3. keys \in [Cards -> {"old", "new", Nothing}]
      BY <3>1 DEF ImportedKeys
    <3>4. \A c \in Cards : store.keys[c] # Nothing => keys[c] # Nothing
      BY <3>1, RecordsAssumption DEF ImportedKeys, Rows
    <3>5. ASSUME NEW c \in Cards, keys[c] # Nothing PROVE rows[c] # Nothing
      BY <1>0, <3>1, <3>5 DEF ImportedKeys, Imported, ImportRow, Keyed
    <3> QED
      BY <3>2, <3>3, <3>4, <3>5
  <2>5. rows = Imported(b.cards, f.cards, m) /\ counts = FromCards(import)
    BY <2>2 DEF FromCards
  <2> HIDE DEF rows, counts, keys
  <2>6. SoundTables(tables) /\ tables.devices = store.devices /\ tables.cards = rows
        /\ tables.settings = store.settings /\ tables.keys = keys
    BY <1>0, <2>3, <2>4, CardsWritten DEF Tables
  <2> HIDE DEF tables
  <2>8. ASSUME NEW i \in ImportTypes,
               i.status = "settings", i.mode = m, i.before = b, i.file = f,
               Totals(i) = Plus(Totals(import), counts)
        PROVE  ImportSound(i, tables)
    <3>1. Totals(i) = Plus(FromDevices(i), FromCards(i))
      BY <2>2, <2>5, <2>8 DEF FromDevices, FromCards
    <3>2. DevicesIn(i, tables) /\ CardsIn(i, tables)
      BY <2>2, <2>5, <2>6, <2>8 DEF DevicesIn, CardsIn
    <3>3. \A c \in Cards : b.keys[c] # Nothing => tables.keys[c] # Nothing
      BY <1>f, <2>1, <2>4, <2>6 DEF ImportSound
    <3>4. i.before \in Tables /\ i.file \in ImportFiles
      BY <1>f, <2>1, <2>8 DEF ImportSound
    <3> QED
      BY <2>2, <2>6, <2>8, <3>1, <3>2, <3>3, <3>4 DEF ImportSound
  <2> QED
    BY <2>1, <2>3, <2>6, <2>8, TableStep
<1>3. CASE ImportSettings
  <2> DEFINE rows == ImportedSettings(store.settings, f.settings)
             tables == [store EXCEPT !.settings = rows]
             counts == CountSettings(store.settings, f.settings)
  <2>1. import.status = "settings" /\ ImportTable("settings", tables, counts, "done")
    BY <1>3 DEF ImportSettings, ImportTable
  <2>2. /\ DevicesIn(import, store) /\ CardsIn(import, store) /\ store.settings = b.settings
        /\ Totals(import) = Plus(FromDevices(import), FromCards(import))
    BY <1>f, <2>1 DEF ImportSound
  <2>3. rows \in [SettingKeys -> Rows \cup {Nothing}] /\ counts \in Counts
    BY <1>0, <1>f, <2>1, ImportSettingsCounts DEF Tables
  <2>5. rows = ImportedSettings(b.settings, f.settings) /\ counts = FromSettings(import)
    BY <2>2 DEF FromSettings
  <2> HIDE DEF rows, counts
  <2>6. SoundTables(tables) /\ tables.devices = store.devices /\ tables.cards = store.cards
        /\ tables.settings = rows /\ tables.keys = store.keys
    BY <1>0, <2>3, SettingsWritten DEF Tables
  <2> HIDE DEF tables
  <2>8. ASSUME NEW i \in ImportTypes,
               i.status = "done", i.mode = m, i.before = b, i.file = f,
               Totals(i) = Plus(Totals(import), counts)
        PROVE  ImportSound(i, tables)
    <3>1. Totals(i) = Plus(Plus(FromDevices(i), FromCards(i)), FromSettings(i))
      BY <2>2, <2>5, <2>8 DEF FromDevices, FromCards, FromSettings
    <3>2. DevicesIn(i, tables) /\ CardsIn(i, tables) /\ SettingsIn(i, tables)
      BY <2>2, <2>5, <2>6, <2>8 DEF DevicesIn, CardsIn, SettingsIn
    <3> QED
      BY <1>f, <2>1, <2>6, <2>8, <3>1, <3>2 DEF ImportSound
  <2> QED
    BY <2>1, <2>3, <2>6, <2>8, TableStep
<1> QED
  BY <1>1, <1>2, <1>3

LEMMA RecordsInitial == RecordsInit => RecordsInv
<1> SUFFICES ASSUME RecordsInit PROVE RecordsInv
  OBVIOUS
<1>1. SoundTables(store) /\ view = store
  BY RecordsAssumption DEF RecordsInit, SoundTables
<1>2. exported \in ImportFiles
  <2>1. /\ exported.devices \in EntriesOf(Devices) /\ exported.cards \in EntriesOf(Cards)
        /\ exported.settings \in EntriesOf(SettingKeys)
    <3>1. [x \in {} |-> "good"] \in [{} -> Entries]
      BY DEF Entries
    <3>2. \A ids : [x \in {} |-> "good"] \in EntriesOf(ids)
      BY <3>1 DEF EntriesOf
    <3> QED
      BY <3>2 DEF RecordsInit
  <2> QED
    BY <2>1 DEF RecordsInit, ImportFiles
<1>3. import \in ImportTypes /\ import.status = "none" /\ uow = "closed"
  BY DEF RecordsInit, NoImport, ImportTypes, ConflictModes
<1> QED
  BY <1>1, <1>2, <1>3 DEF RecordsInv, RecordsTypeOK, SoundTables

LEMMA RecordsStep == RecordsInv /\ [RecordsNext]_recordVars => RecordsInv'
<1> SUFFICES ASSUME RecordsInv, [RecordsNext]_recordVars PROVE RecordsInv'
  OBVIOUS
<1>1. CASE UNCHANGED recordVars
  BY <1>1 DEF recordVars, RecordsInv, RecordsTypeOK
<1>2. CASE RecordsNext
  BY <1>2, OpenStep, BeginStep, ImportingStep DEF RecordsNext
<1> QED
  BY <1>1, <1>2

LEMMA RecordsHold == RecordsInv => RecordsTypeOK /\ RecordsKept
<1> SUFFICES ASSUME RecordsInv PROVE RecordsKept
  BY DEF RecordsInv
<1>1. Referential /\ KeysKept
  BY DEF RecordsInv, SoundTables, Referential, KeysKept, ImportSound
<1>2. ASSUME import.status = "done" PROVE ImportAccounted
  <2> DEFINE f == import.file  b == import.before  m == import.mode
             d == FromDevices(import)  c == FromCards(import)  s == FromSettings(import)
  <2>0. /\ import \in ImportTypes /\ m \in ConflictModes /\ ImportSound(import, store)
        /\ b \in Tables /\ f.devices \in EntriesOf(Devices)
        /\ f.cards \in EntriesOf(Cards) /\ f.settings \in EntriesOf(SettingKeys)
    BY <1>2 DEF RecordsInv, RecordsTypeOK, ImportTypes, ImportSound, ImportFiles
  <2>1. /\ d \in Counts /\ Accounted(b.devices, store.devices, f.devices, d)
    BY <1>2, <2>0, ImportCounts, RecordsAssumption DEF Tables, FromDevices, ImportSound, DevicesIn
  <2>2. /\ c \in Counts /\ Accounted(b.cards, store.cards, f.cards, c)
    BY <1>2, <2>0, ImportCounts, RecordsAssumption DEF Tables, FromCards, ImportSound, CardsIn
  <2>3. /\ s \in Counts /\ Accounted(b.settings, store.settings, f.settings, s)
    BY <1>2, <2>0, ImportSettingsCounts DEF Tables, FromSettings, ImportSound, SettingsIn
  <2>4. Totals(import) = Plus(Plus(d, c), s)
    BY <1>2, <2>0 DEF ImportSound
  <2>5. /\ import.created = d.created + c.created + s.created
        /\ import.updated = d.updated + c.updated + s.updated
        /\ import.skipped = d.skipped + c.skipped + s.skipped
        /\ import.errors = d.errors + c.errors + s.errors
    BY <2>4 DEF Totals, Plus
  <2> HIDE DEF d, c, s
  <2>6. /\ d.created = NewRows("devices") /\ c.created = NewRows("cards")
        /\ s.created = NewRows("settings")
    BY <2>1, <2>2, <2>3 DEF Accounted, NewRows
  <2>7. /\ d.updated + d.errors >= ChangedRows("devices")
        /\ c.updated + c.errors >= ChangedRows("cards")
        /\ s.updated + s.errors >= ChangedRows("settings")
    BY <2>1, <2>2, <2>3 DEF Accounted, ChangedRows
  <2>8. /\ d.created + d.updated + d.skipped + d.errors = EntryCount("devices")
        /\ c.created + c.updated + c.skipped + c.errors = EntryCount("cards")
        /\ s.created + s.updated + s.skipped + s.errors = EntryCount("settings")
    BY <2>1, <2>2, <2>3 DEF Accounted, EntryCount
  <2>9. GoodStored("devices") /\ GoodStored("cards") /\ GoodStored("settings")
    BY <2>1, <2>2, <2>3 DEF Accounted, GoodStored
  <2>10. import.updated + import.errors
              >= ChangedRows("devices") + ChangedRows("cards") + ChangedRows("settings")
    <3>1. /\ ChangedRows("devices") \in Nat /\ ChangedRows("cards") \in Nat
          /\ ChangedRows("settings") \in Nat
      <4>1. /\ Present(b.devices) \in SUBSET Devices /\ Present(b.cards) \in SUBSET Cards
            /\ Present(b.settings) \in SUBSET SettingKeys
        BY <2>0 DEF Tables, Present
      <4> QED
        BY <4>1, RecordsAssumption, FS_Subset, FS_CardinalityType DEF ChangedRows
    <3> QED
      BY <2>1, <2>2, <2>3, <2>5, <2>7, <3>1 DEF Counts
  <2>11. import.created + import.updated + import.skipped + import.errors
              = EntryCount("devices") + EntryCount("cards") + EntryCount("settings")
    BY <2>1, <2>2, <2>3, <2>5, <2>8 DEF Counts
  <2> QED
    BY <2>5, <2>6, <2>9, <2>10, <2>11 DEF ImportAccounted
<1> QED
  BY <1>1, <1>2 DEF RecordsKept, ImportAccounted

-----------------------------------------------------------------------------
(* Scripts. *)

(* A library whose scripts can be executed. *)
Runs(library) ==
    /\ library \in Libraries
    /\ \A k \in ScriptIds : library[k] # Absent =>
          library[k].fixed > 0 /\ library[k].fixed % 2 = 0

ScriptInv == ScriptTypeOK /\ PromiseKept /\ Runs(mem) /\ Runs(db)

LEMMA ValidRuns ==
  ASSUME NEW k \in Keys, NEW c \in Commands, Valid(k, c)
  PROVE  k \in ScriptIds => c.fixed > 0 /\ c.fixed % 2 = 0
BY ScriptStoreAssumption DEF Valid, ValidCommand, ValidHex, Commands

LEMMA LoadableRuns ==
  ASSUME NEW f \in Libraries
  PROVE  Runs(Loadable(f))
<1>1. Loadable(f) \in Libraries
  BY DEF Loadable, Libraries
<1>2. ASSUME NEW k \in ScriptIds, Loadable(f)[k] # Absent
      PROVE  Loadable(f)[k].fixed > 0 /\ Loadable(f)[k].fixed % 2 = 0
  <2>1. k \in Keys /\ f[k] # Absent /\ Valid(k, f[k]) /\ Loadable(f)[k] = f[k]
    BY <1>2 DEF Loadable, Keys
  <2>2. f[k] \in Commands
    BY <2>1 DEF Libraries
  <2> QED
    BY <2>1, <2>2, ValidRuns
<1> QED
  BY <1>1, <1>2 DEF Runs

(* An id keeps what either of two libraries holds. *)
LEMMA MixedRuns ==
  ASSUME NEW a, Runs(a), NEW b, Runs(b), NEW c,
         c = [k \in Keys |-> c[k]], \A k \in Keys : c[k] \in {a[k], b[k], Absent}
  PROVE  Runs(c)
<1>1. c \in Libraries
  BY DEF Runs, Libraries
<1>2. \A k \in ScriptIds : c[k] # Absent => c[k].fixed > 0 /\ c[k].fixed % 2 = 0
  BY DEF Runs, Keys
<1> QED
  BY <1>1, <1>2 DEF Runs

LEMMA OneRuns ==
  ASSUME NEW a, Runs(a), NEW k \in Keys, NEW c \in Commands \cup {Absent},
         c # Absent /\ k \in ScriptIds => c.fixed > 0 /\ c.fixed % 2 = 0
  PROVE  Runs([a EXCEPT ![k] = c])
BY DEF Runs, Libraries, Keys

LEMMA DirectoryRuns ==
  ASSUME Runs(mem)
  PROVE  Runs(WithDirectory) /\ \A k \in Keys : mem[k] # Absent => WithDirectory[k] = mem[k]
<1>1. ASSUME NEW k \in Keys, mem[k] = Absent, Giving(k) # {}
      PROVE  \E f \in Libraries : WithDirectory[k] = Loadable(f)[k]
  <2>1. Giving(k) \subseteq Nat
    BY ScriptStoreAssumption DEF Giving
  <2>2. PICK i \in Giving(k) : \A j \in Giving(k) : i <= j
    BY <1>1, <2>1, LeastExists
  <2>3. Min(Giving(k)) \in Giving(k)
    BY <2>2 DEF Min
  <2>4. Directory[Min(Giving(k))] \in Libraries
    BY <2>3, ScriptStoreAssumption DEF Giving
  <2>5. WithDirectory[k] = Loadable(Directory[Min(Giving(k))])[k]
    BY <1>1 DEF WithDirectory
  <2> QED
    BY <2>4, <2>5
<1>2. ASSUME NEW k \in Keys, mem[k] # Absent \/ Giving(k) = {} PROVE WithDirectory[k] = mem[k]
  BY <1>2 DEF WithDirectory
<1>3. /\ WithDirectory = [k \in Keys |-> WithDirectory[k]]
  BY DEF WithDirectory
<1> DEFINE Holds(k, c) ==
             /\ c \in Commands \cup {Absent}
             /\ k \in ScriptIds /\ c # Absent => c.fixed > 0 /\ c.fixed % 2 = 0
<1>4. ASSUME NEW k \in Keys
      PROVE  Holds(k, WithDirectory[k])
  <2>1. \A library : Runs(library) => Holds(k, library[k])
    BY DEF Runs, Libraries
  <2>2. CASE mem[k] = Absent /\ Giving(k) # {}
    <3>1. PICK f \in Libraries : WithDirectory[k] = Loadable(f)[k]
      BY <1>1, <2>2
    <3>2. Holds(k, Loadable(f)[k])
      BY <2>1, LoadableRuns
    <3> HIDE DEF Holds
    <3> QED
      BY <3>1, <3>2
  <2>3. CASE ~(mem[k] = Absent /\ Giving(k) # {})
    <3>1. Holds(k, mem[k])
      BY <2>1
    <3> HIDE DEF Holds
    <3> QED
      BY <1>2, <2>3, <3>1
  <2> QED
    BY <2>2, <2>3
<1>5. Runs(WithDirectory)
  <2> DEFINE library == WithDirectory
  <2>1. library = [k \in Keys |-> library[k]]
    BY <1>3
  <2>2. \A k \in Keys : Holds(k, library[k])
    BY <1>4
  <2> HIDE DEF library
  <2>3. library \in Libraries
    <3>1. \A k \in Keys : library[k] \in Commands \cup {Absent}
      BY <2>2
    <3> HIDE DEF Holds
    <3> QED
      BY <2>1, <3>1 DEF Libraries
  <2>4. \A k \in ScriptIds : library[k] # Absent => library[k].fixed > 0 /\ library[k].fixed % 2 = 0
    BY <2>2 DEF Keys
  <2>5. Runs(library)
    BY <2>3, <2>4 DEF Runs
  <2> QED
    BY <2>5 DEF library
<1> QED
  BY <1>2, <1>5

(* A request that writes one id. *)
LEMMA WriteOne ==
  ASSUME ScriptInv, NEW k \in Keys, NEW c \in Commands \cup {Absent}, NEW status,
         c # Absent => Valid(k, c),
         mem' = [mem EXCEPT ![k] = c], Persist(k, c, status), UNCHANGED <<file, autoSync>>
  PROVE  ScriptInv'
<1>0. /\ mem \in Libraries /\ db \in Libraries /\ Runs(mem) /\ Runs(db)
      /\ promise \in [Keys -> Commands \cup {Absent, NoPromise}]
  BY DEF ScriptInv, ScriptTypeOK
<1>1. c # Absent /\ k \in ScriptIds => c.fixed > 0 /\ c.fixed % 2 = 0
  BY ValidRuns
<1>2. Runs(mem')
  BY <1>0, <1>1, OneRuns
<1>3. Runs(db')
  BY <1>0, <1>1, OneRuns DEF Persist
<1>4. PromiseKept'
  BY <1>0 DEF Persist, PromiseKept, ScriptInv, Libraries
<1>5. promise' \in [Keys -> Commands \cup {Absent, NoPromise}]
  BY <1>0 DEF Persist
<1> QED
  BY <1>2, <1>3, <1>4, <1>5 DEF ScriptInv, ScriptTypeOK, Runs

(* A request that writes nothing. *)
LEMMA WriteNone ==
  ASSUME ScriptInv, UNCHANGED <<mem, db, file, autoSync, promise>>
  PROVE  ScriptInv'
BY DEF ScriptInv, ScriptTypeOK, PromiseKept

LEMMA RequestStep ==
  ASSUME ScriptInv, ApiRequest
  PROVE  ScriptInv'
<1>0. ScriptContents \subseteq Commands /\ TemplateContents \subseteq Commands
  BY ScriptStoreAssumption DEF Contents
<1>1. \A status : Refuse(status) => ScriptInv'
  BY WriteNone DEF Refuse
<1>2. ASSUME NEW k \in Keys, NEW c \in Commands, Create(k, c) \/ Update(k, c) PROVE ScriptInv'
  BY <1>1, <1>2, WriteOne DEF Create, Update
<1>3. ASSUME NEW k \in Keys, Delete(k) PROVE ScriptInv'
  BY <1>1, <1>3, WriteOne DEF Delete
<1>4. ASSUME NEW k \in Keys, ExecuteScript(k) \/ RenderTemplate(k) PROVE ScriptInv'
  BY <1>1, <1>4 DEF ExecuteScript, RenderTemplate
<1> QED
  BY <1>0, <1>1, <1>2, <1>3, <1>4 DEF ApiRequest, CreateScript, UpdateScript, DeleteScript,
     CreateTemplate, UpdateTemplate, DeleteTemplate

(* What a file, a directory or a rendering adds to the memory. *)
LEMMA AddedStep ==
  ASSUME ScriptInv, NEW new, Runs(new), mem' = new, Unpromised(Changed(new)),
         \A k \in Keys : mem[k] # Absent => new[k] = mem[k],
         db' \in {db, Upserted(new)}, UNCHANGED <<file, autoSync>>
  PROVE  ScriptInv'
<1>0. /\ mem \in Libraries /\ db \in Libraries /\ Runs(mem) /\ Runs(db)
      /\ promise \in [Keys -> Commands \cup {Absent, NoPromise}] /\ new \in Libraries
  BY DEF ScriptInv, ScriptTypeOK, Runs
<1>1. Runs(Upserted(new))
  <2> DEFINE library == Upserted(new)
  <2>1. library = [k \in Keys |-> library[k]] /\ \A k \in Keys : library[k] \in {new[k], db[k], Absent}
    BY DEF Upserted
  <2> HIDE DEF library
  <2>2. Runs(library)
    BY <1>0, <2>1, MixedRuns
  <2> QED
    BY <2>2 DEF library
<1>2. /\ promise' \in [Keys -> Commands \cup {Absent, NoPromise}]
      /\ \A k \in Keys : promise'[k] # NoPromise => promise'[k] = promise[k] /\ new[k] = mem[k]
  BY <1>0 DEF Unpromised, Changed
<1>3. ASSUME NEW k \in Keys, promise'[k] # NoPromise
      PROVE  db'[k] = promise'[k] /\ mem'[k] \in {promise'[k], Absent}
  BY <1>2, <1>3 DEF ScriptInv, PromiseKept, Upserted
<1>4. Runs(mem') /\ Runs(db')
  BY <1>0, <1>1
<1>5. ScriptTypeOK'
  BY <1>2, <1>4 DEF ScriptInv, ScriptTypeOK, Runs
<1> QED
  BY <1>3, <1>4, <1>5 DEF ScriptInv, PromiseKept

LEMMA LoadedRuns ==
  ASSUME ScriptInv
  PROVE  Runs(WithLoaded) /\ \A k \in Keys : mem[k] # Absent => WithLoaded[k] = mem[k]
<1> DEFINE library == WithLoaded  loaded == Loadable(file)
<1>1. Runs(mem) /\ Runs(loaded)
  BY LoadableRuns DEF ScriptInv, ScriptTypeOK
<1>2. /\ library = [k \in Keys |-> library[k]]
      /\ \A k \in Keys : library[k] \in {mem[k], loaded[k], Absent}
      /\ \A k \in Keys : mem[k] # Absent => library[k] = mem[k]
  BY DEF WithLoaded, Over
<1> HIDE DEF library, loaded
<1>3. Runs(library)
  BY <1>1, <1>2, MixedRuns
<1> QED
  BY <1>2, <1>3 DEF library

LEMMA TransferStep ==
  ASSUME ScriptInv,
         \/ LoadFromFile \/ LoadFromDirectory \/ SaveToFile \/ Clear
         \/ SyncFromDatabase \/ SyncToDatabase \/ ImportYaml \/ ExportYaml \/ ClearDatabase
         \/ SetAutoSync
  PROVE  ScriptInv'
<1>0. /\ mem \in Libraries /\ db \in Libraries /\ Runs(mem) /\ Runs(db)
      /\ file \in Libraries /\ autoSync \in BOOLEAN
      /\ promise \in [Keys -> Commands \cup {Absent, NoPromise}]
  BY DEF ScriptInv, ScriptTypeOK
<1>e. Runs([k \in Keys |-> Absent])
  BY DEF Runs, Libraries, Keys
<1>1. CASE LoadFromFile
  BY <1>1, LoadedRuns, AddedStep DEF LoadFromFile
<1>2. CASE LoadFromDirectory
  BY <1>0, <1>2, DirectoryRuns, AddedStep DEF LoadFromDirectory
<1>3. CASE ImportYaml
  BY <1>3, LoadedRuns, AddedStep DEF ImportYaml
<1>4. CASE SaveToFile \/ SetAutoSync
  BY <1>0, <1>4 DEF SaveToFile, SetAutoSync, ScriptInv, ScriptTypeOK, PromiseKept
<1>5. CASE Clear
  BY <1>0, <1>e, <1>5 DEF Clear, ScriptInv, ScriptTypeOK, PromiseKept, Libraries
<1>6. CASE SyncFromDatabase
  <2>1. PICK replaced \in {{}, ScriptIds, Keys} :
            mem' = [k \in Keys |-> IF k \in replaced THEN db[k] ELSE mem[k]]
    BY <1>6 DEF SyncFromDatabase
  <2>2. mem' = [k \in Keys |-> mem'[k]] /\ \A k \in Keys : mem'[k] \in {db[k], mem[k], Absent}
    BY <2>1
  <2>3. Runs(mem')
    BY <1>0, <2>2, MixedRuns
  <2>4. PromiseKept'
    BY <1>6, <2>2 DEF SyncFromDatabase, ScriptInv, PromiseKept
  <2> QED
    BY <1>0, <1>6, <2>3, <2>4 DEF SyncFromDatabase, ScriptInv, ScriptTypeOK, Runs
<1>7. CASE SyncToDatabase
  <2> DEFINE library == Upserted(mem)
  <2>1. library = [k \in Keys |-> library[k]] /\ \A k \in Keys : library[k] \in {mem[k], db[k], Absent}
    BY DEF Upserted
  <2>2. db' = db \/ db' = library
    BY <1>7 DEF SyncToDatabase
  <2>3. PromiseKept'
    BY <1>7 DEF SyncToDatabase, Upserted, ScriptInv, PromiseKept
  <2> HIDE DEF library
  <2>4. Runs(db')
    BY <1>0, <2>1, <2>2, MixedRuns
  <2> QED
    BY <1>0, <1>7, <2>3, <2>4 DEF SyncToDatabase, ScriptInv, ScriptTypeOK, Runs
<1>8. CASE ExportYaml
  BY <1>0, <1>8 DEF ExportYaml, ScriptInv, ScriptTypeOK, PromiseKept
<1>9. CASE ClearDatabase
  BY <1>0, <1>e, <1>9 DEF ClearDatabase, Unpromised, ScriptInv, ScriptTypeOK, PromiseKept, Libraries
<1> QED
  BY <1>1, <1>2, <1>3, <1>4, <1>5, <1>6, <1>7, <1>8, <1>9

LEMMA RenderStep ==
  ASSUME ScriptInv, NEW k \in Keys, RenderToScript(k)
  PROVE  ScriptInv'
<1>0. /\ mem \in Libraries /\ db \in Libraries /\ Runs(mem) /\ Runs(db)
      /\ promise \in [Keys -> Commands \cup {Absent, NoPromise}]
  BY DEF ScriptInv, ScriptTypeOK
<1>1. PICK values \in Values(mem[k]), i \in DOMAIN RenderedIds[k] :
        /\ CanRender(mem[k], values)
        /\ mem' = [mem EXCEPT ![RenderedIds[k][i]] = RenderedScript(mem[k], values)]
        /\ promise' = [promise EXCEPT ![RenderedIds[k][i]] = NoPromise]
  BY DEF RenderToScript
<1> DEFINE id == RenderedIds[k][i]
           length == RenderedLength(mem[k], values)
           script == RenderedScript(mem[k], values)
<1>2. id \in Keys
  BY ScriptStoreAssumption DEF RenderToScript, Keys
<1>3. length \in Nat /\ length > 0 /\ length % 2 = 0 /\ script = [fixed |-> length, holes |-> <<>>]
  BY <1>1, ScriptStoreAssumption DEF CanRender, ValidHex, RenderedScript
<1>4. mem' = [mem EXCEPT ![id] = script] /\ promise' = [promise EXCEPT ![id] = NoPromise]
  BY <1>1
<1> HIDE DEF id, length, script
<1>5. script \in Commands /\ script.fixed > 0 /\ script.fixed % 2 = 0
  BY <1>3 DEF Commands
<1>6. Runs(mem')
  BY <1>0, <1>2, <1>4, <1>5, OneRuns
<1>7. PromiseKept'
  BY <1>0, <1>2, <1>4 DEF RenderToScript, ScriptInv, PromiseKept, Libraries
<1>8. promise' \in [Keys -> Commands \cup {Absent, NoPromise}]
  BY <1>0, <1>4
<1> QED
  BY <1>0, <1>6, <1>7, <1>8 DEF RenderToScript, ScriptInv, ScriptTypeOK, Runs

LEMMA ScriptInitial == ScriptInit => ScriptInv
<1> SUFFICES ASSUME ScriptInit PROVE ScriptInv
  OBVIOUS
<1>1. Runs(mem) /\ Runs(db)
  BY DEF ScriptInit, Runs, Libraries, Keys
<1>2. file \in Libraries
  BY ScriptStoreAssumption DEF ScriptInit
<1> QED
  BY <1>1, <1>2 DEF ScriptInit, ScriptInv, ScriptTypeOK, PromiseKept, Runs

LEMMA ScriptStep == ScriptInv /\ [ScriptNext]_scriptVars => ScriptInv'
<1> SUFFICES ASSUME ScriptInv, [ScriptNext]_scriptVars PROVE ScriptInv'
  OBVIOUS
<1>1. CASE UNCHANGED scriptVars
  BY <1>1, WriteNone DEF scriptVars
<1>2. CASE ScriptNext
  BY <1>2, RequestStep, RenderStep, TransferStep DEF ScriptNext
<1> QED
  BY <1>1, <1>2

LEMMA ScriptsHold == ScriptInv => ScriptTypeOK /\ ScriptsKept
<1> SUFFICES ASSUME ScriptInv PROVE ScriptTypeOK /\ ScriptsKept
  OBVIOUS
<1>1. ScriptsRun
  BY DEF ScriptInv, Runs, ScriptsRun
<1>2. ASSUME NEW k \in TemplateIds, mem[k] # Absent, NEW values \in Values(mem[k]),
             CanRender(mem[k], values)
      PROVE  PreviewValid(mem[k], values) /\ MissingParams(mem[k], values) = {}
  <2> DEFINE c == mem[k]
  <2>1. c \in Commands
    BY <1>2 DEF ScriptInv, ScriptTypeOK, Libraries, Keys
  <2>2. ASSUME NEW i \in DOMAIN c.holes
        PROVE  values[i] > 0 \/ c.holes[i].default > 0
    <3>1. values[i] \in Nat /\ c.holes[i] \in Holes
      <4>1. values \in [DOMAIN c.holes -> ParamValues] /\ ParamValues \subseteq Nat
        BY ScriptStoreAssumption DEF Values
      <4>2. c.holes \in Seq(Holes)
        BY <2>1 DEF Commands
      <4> HIDE DEF c
      <4>3. values[i] \in ParamValues
        BY <4>1
      <4>4. c.holes[i] \in Holes
        BY <4>2
      <4> QED
        BY <4>1, <4>3, <4>4
    <3>2. ValidValue(c.holes[i], values[i])
      BY <1>2 DEF CanRender
    <3> QED
      BY <3>1, <3>2 DEF ValidValue, Holes
  <2>3. ASSUME NEW i \in DOMAIN c.holes PROVE ~(values[i] = 0 /\ c.holes[i].default = 0)
    BY <2>2
  <2>4. ValidHex(RenderedLength(c, values))
    BY <1>2 DEF CanRender
  <2> QED
    BY <2>2, <2>3, <2>4 DEF PreviewValid, MissingParams
<1> QED
  BY <1>1, <1>2 DEF ScriptInv, ScriptsKept, PreviewAgrees

(* Whatever requests, files, renderings and synchronisations do to the        *)
(* library, and whatever units of work, imports, exports and commands do to   *)
(* the records: a promised write is stored and served until it is given up,   *)
(* every script can be executed, previews agree with renderings; rows refer   *)
(* to rows, an import's counts are what it did, and no import takes a key     *)
(* (DatabaseScriptManager, ScriptsAPI, UnitOfWork, DataImporter).             *)
THEOREM StoresTrue == ScriptSpec /\ RecordsSpec => []StoredSound
<1>1. ScriptInv /\ RecordsInv => StoredSound
  BY ScriptsHold, RecordsHold DEF StoredSound
<1> QED
  BY <1>1, ScriptInitial, ScriptStep, RecordsInitial, RecordsStep, PTL DEF ScriptSpec, RecordsSpec
=============================================================================
