---------------------------- MODULE ToolCommands ----------------------------
(***************************************************************************)
(* The command-line tools as processes.                                    *)
(*                                                                         *)
(* gp-server (cli/server.py): start, stop and status meet in one PID file  *)
(* and in the ports.  A PID is used once; a process that is killed leaves  *)
(* the file behind.                                                        *)
(*                                                                         *)
(* gp-modem and gp-phone (cli/modem.py, cli/phone.py): a device is opened, *)
(* asked and closed, and the profiles are files that several processes     *)
(* read and write.  A file opened for writing is empty until its writer    *)
(* closes it.                                                              *)
(***************************************************************************)
EXTENDS Naturals, FiniteSets, TLC

-----------------------------------------------------------------------------
(* gp-server. *)

CONSTANTS
    Pids,       \* processes, each of them one command
    Ports,      \* ports to serve on
    DefaultPort,
    Unset,      \* a setting a source leaves out
    NoPid       \* no file, no process

ASSUME PortAssumption == DefaultPort \in Ports /\ Unset \notin Ports /\ NoPid \notin Pids

VARIABLES
    pidFile,    \* the PID in the file
    process,    \* PID -> the command it runs and how far it is
    overlap     \* whether the operator acts while a server starts or exits

serverCommandVars == <<pidFile, process, overlap>>

Fresh == [command |-> "none", at |-> "new", other |-> NoPid, port |-> Unset, exit |-> "none"]

ServerCommandInit ==
    pidFile = NoPid /\ process = [p \in Pids |-> Fresh] /\ overlap \in BOOLEAN

At(p) == process[p].at
IsRunning(p) == p # NoPid /\ At(p) \notin {"new", "gone"}
Serving == {p \in Pids : At(p) \in {"bound", "loop"}}
To(p, place) == process' = [process EXCEPT ![p].at = place]
Exit(p, code) == process' = [process EXCEPT ![p].at = "gone", ![p].exit = code]

\* Whether the operator may act: begin a command, or interrupt a server.
OperatorQuiet == overlap \/ \A q \in Pids : At(q) \in {"new", "gone", "loop"}
MayBegin(p) == At(p) = "new" /\ OperatorQuiet

\* load_configuration() writes what it was called with, the defaults of the
\* command line included, over what it read of the file; click reads the
\* environment before that.
Resolved(option, environment, configured) ==
    IF option # Unset THEN option ELSE IF environment # Unset THEN environment ELSE DefaultPort

\* gp-server start, up to its handlers: an invalid configuration exits here.
Start(p) ==
    /\ MayBegin(p)
    /\ \/ process' = [process EXCEPT ![p].command = "start", ![p].at = "gone", ![p].exit = "failed"]
       \/ \E option, environment, configured \in Ports \cup {Unset} :
            process' = [process EXCEPT
                ![p] = [@ EXCEPT !.command = "start", !.at = "created",
                                 !.port = Resolved(option, environment, configured)]]
    /\ UNCHANGED pidFile

\* The check for another server.
StartChecks(p) ==
    /\ At(p) = "created"
    /\ IF IsRunning(pidFile) THEN Exit(p, "failed") ELSE To(p, "checked")
    /\ UNCHANGED pidFile

\* server.start() binds; a port in use is an exception whose handler removes
\* the file, whoever wrote it.
StartBinds(p) ==
    /\ At(p) = "checked"
    /\ IF \E q \in Serving : process[q].port = process[p].port
       THEN To(p, "unbound") ELSE To(p, "bound")
    /\ UNCHANGED pidFile
StartFails(p) ==
    /\ At(p) = "unbound"
    /\ pidFile' = NoPid
    /\ Exit(p, "failed")

StartWrites(p) ==
    /\ At(p) = "bound"
    /\ pidFile' = p
    /\ To(p, "loop")

\* SIGINT and SIGTERM: the handler stops the server, removes the file and
\* exits; leaving the loop removes the file once more.
Interrupted == [created |-> "stopping", checked |-> "stopping", unbound |-> "stopping",
                bound |-> "stopping", loop |-> "leaving"]
Signalled(p) == [process EXCEPT ![p].at = IF @ \in DOMAIN Interrupted THEN Interrupted[@] ELSE @]
HandlerRemoves(p) ==
    /\ At(p) \in {"stopping", "leaving"}
    /\ pidFile' = NoPid
    /\ IF At(p) = "leaving" THEN To(p, "left") ELSE Exit(p, "ok")
FinallyRemoves(p) ==
    /\ At(p) = "left"
    /\ pidFile' = NoPid
    /\ Exit(p, "ok")

Interrupt(p) ==
    /\ At(p) \in DOMAIN Interrupted /\ OperatorQuiet
    /\ process' = Signalled(p)
    /\ UNCHANGED pidFile

\* kill -9, a crash.
Crash(p) ==
    /\ IsRunning(p)
    /\ Exit(p, "killed")
    /\ UNCHANGED pidFile

\* gp-server stop: the PID is read, then checked and signalled.
Stop(p) ==
    /\ MayBegin(p)
    /\ process' = [process EXCEPT ![p] = [@ EXCEPT !.command = "stop", !.other = pidFile,
                       !.at = IF pidFile = NoPid THEN "gone" ELSE "read", !.exit = IF pidFile = NoPid THEN "ok" ELSE process[p].exit]]
    /\ UNCHANGED pidFile

StopSignals(p, force) ==
    /\ process[p].command = "stop" /\ At(p) = "read"
    /\ LET q == process[p].other
       IN IF ~IsRunning(q) THEN To(p, "stale")
          ELSE process' = [(IF force THEN [process EXCEPT ![q].at = "gone", ![q].exit = "killed"] ELSE Signalled(q))
                           EXCEPT ![p].at = "waiting"]
    /\ UNCHANGED pidFile

\* Bug: one look is taken to be enough.
StopWaitedNot(p) == At(p) = "waiting" /\ To(p, "stale") /\ UNCHANGED pidFile

\* It waits for the process to go, at most for the timeout.
StopWaited(p) ==
    /\ At(p) = "waiting"
    /\ IF IsRunning(process[p].other) THEN Exit(p, "failed") ELSE To(p, "stale")
    /\ UNCHANGED pidFile

\* The file of a server that has gone is removed, by stop and by status.
RemovesStale(p) ==
    /\ At(p) = "stale"
    /\ pidFile' = NoPid
    /\ Exit(p, "ok")

\* gp-server status.
Status(p) ==
    /\ MayBegin(p)
    /\ process' = [process EXCEPT ![p] = [@ EXCEPT !.command = "status",
                       !.at = IF pidFile = NoPid \/ IsRunning(pidFile) THEN "gone" ELSE "stale",
                       !.exit = IF pidFile = NoPid \/ IsRunning(pidFile) THEN "ok" ELSE process[p].exit]]
    /\ UNCHANGED pidFile

\* gp-server close-session: the server it looks for is the one this process
\* started, and start does not return while it serves.
CloseSession(p) ==
    /\ MayBegin(p)
    /\ process' = [process EXCEPT ![p].command = "close-session", ![p].at = "gone", ![p].exit = "failed"]
    /\ UNCHANGED pidFile

ServerCommandNext ==
    /\ UNCHANGED overlap
    /\ \E p \in Pids :
         \/ Start(p) \/ StartChecks(p) \/ StartBinds(p) \/ StartFails(p) \/ StartWrites(p)
         \/ HandlerRemoves(p) \/ FinallyRemoves(p) \/ Interrupt(p) \/ Crash(p)
         \/ Stop(p) \/ \E force \in BOOLEAN : StopSignals(p, force)
         \/ StopWaited(p) \/ RemovesStale(p) \/ Status(p) \/ CloseSession(p)

-----------------------------------------------------------------------------
\* A server that serves is the one the PID file names, so that stop finds it
\* and a second start refuses (cli/server.py, start and _remove_pid_file).  It
\* needs commands that do not overlap: a start that fails and a server that
\* exits remove the file whoever wrote it.
ServerListed == ~overlap => \A p \in Pids : At(p) = "loop" => pidFile = p

\* stop reports success only of a server that has gone (cli/server.py, stop).
StoppedIsGone ==
    \A p \in Pids : process[p].command = "stop" /\ process[p].exit = "ok" /\ process[p].other # NoPid
                      => ~IsRunning(process[p].other)

ServerCommandSound == ServerListed /\ StoppedIsGone

-----------------------------------------------------------------------------
(* gp-modem and gp-phone. *)

CONSTANTS
    Clerks,     \* processes
    Profiles_,  \* names of profiles
    NoFile_, Broken, \* a file that is not there, and one that is not JSON
    Asked,      \* the device commands they run
    MaxTurns    \* bound: commands in all

ASSUME DeviceAssumption == MaxTurns \in Nat /\ NoFile_ # Broken

VARIABLES
    saved,       \* name -> the clerk whose profile it holds, NoFile_ or Broken
    desk,       \* clerk -> the command in hand
    turns,      \* commands so far
    displayed       \* history: what load and compare have shown

deviceVars == <<saved, desk, turns, displayed>>

Idle == [command |-> "none", at |-> "idle", name |-> NoFile_, force |-> FALSE, exit |-> "none"]

DeviceInit ==
    /\ saved = [n \in Profiles_ |-> NoFile_]
    /\ desk = [c \in Clerks |-> Idle] /\ turns = 0 /\ displayed = {}

(***************************************************************************)
(* What the commands ask of a device.  An answer that says no is printed,  *)
(* and only an exception changes the exit; phone's network commands build  *)
(* a manager with an argument too many.                                     *)
(***************************************************************************)
ValueOrNot == {"value", "raised"}
YesOrNo == {"value", "no", "raised"}

ModemList == {"value"}
ModemInfoCommand == ValueOrNot
ModemAt == YesOrNo
ModemTrigger == YesOrNo
ModemPing == YesOrNo
ModemConfigureApn == YesOrNo
ModemPorts_ == ValueOrNot
ModemDiag == YesOrNo
ModemMonitor == ValueOrNot
PhoneList == {"value"}
PhoneInfo == ValueOrNot
PhoneAt == YesOrNo
PhoneMonitor == ValueOrNot
PhoneTriggerCommand == YesOrNo
NetworkWifi == {"raised"}
NetworkData == {"raised"}
NetworkTest == {"raised"}

Answers == [list |-> ModemList, info |-> ModemInfoCommand, at |-> ModemAt, trigger |-> ModemTrigger,
            ping |-> ModemPing, apn |-> ModemConfigureApn, ports |-> ModemPorts_, diag |-> ModemDiag,
            monitor |-> ModemMonitor, phones |-> PhoneList, phone |-> PhoneInfo, phone_at |-> PhoneAt,
            bip |-> PhoneMonitor, push |-> PhoneTriggerCommand, wifi |-> NetworkWifi,
            data |-> NetworkData, test |-> NetworkTest]

Takes(c, command, at, name, force) ==
    /\ desk[c].at = "idle" /\ turns < MaxTurns
    /\ turns' = turns + 1
    /\ desk' = [desk EXCEPT ![c] = [Idle EXCEPT !.command = command, !.at = at, !.name = name, !.force = force]]
    /\ UNCHANGED <<saved, displayed>>
Ends(c, exit) == desk' = [desk EXCEPT ![c].at = "idle", ![c].exit = exit]

AskDevice(c, command) == Takes(c, command, "asking", NoFile_, FALSE)
DeviceAnswers(c) ==
    /\ desk[c].at = "asking"
    /\ \E answer \in Answers[desk[c].command] : Ends(c, IF answer = "raised" THEN "failed" ELSE "ok")
    /\ UNCHANGED <<saved, turns, displayed>>

\* modem profile save: the check, then the device, then the file.
Save(c, name, force) == Takes(c, "save", "checking", name, force)
SaveChecks(c) ==
    /\ desk[c].at = "checking"
    /\ IF saved[desk[c].name] # NoFile_ /\ ~desk[c].force THEN Ends(c, "failed")
       ELSE desk' = [desk EXCEPT ![c].at = "reading"]
    /\ UNCHANGED <<saved, turns, displayed>>

\* phone profile save: save_profile() checks after the device has answered,
\* and opens the file at once.
PhoneSave(c, name, force) == Takes(c, "phone_save", "reading", name, force)
SaveReads(c) ==
    /\ desk[c].at = "reading"
    /\ \/ Ends(c, "failed") /\ UNCHANGED saved
       \/ /\ desk[c].command = "phone_save" /\ saved[desk[c].name] # NoFile_ /\ ~desk[c].force
          /\ Ends(c, "failed") /\ UNCHANGED saved
       \/ /\ desk[c].command = "phone_save" => saved[desk[c].name] = NoFile_ \/ desk[c].force
          /\ saved' = [saved EXCEPT ![desk[c].name] = Broken]
          /\ desk' = [desk EXCEPT ![c].at = "writing"]
    /\ UNCHANGED <<turns, displayed>>

\* The file is closed; one that another has opened meanwhile may hold the end
\* of the longer of the two after the end of the shorter.
SaveWrites(c) ==
    /\ desk[c].at \in {"writing", "orphan"}
    /\ \E content \in {c} \cup (IF saved[desk[c].name] \in Clerks THEN {Broken} ELSE {}) :
         saved' = [saved EXCEPT ![desk[c].name] = IF desk[c].at = "orphan" THEN @ ELSE content]
    /\ Ends(c, "ok")
    /\ UNCHANGED <<turns, displayed>>
SaveKilled(c) ==
    /\ desk[c].at \in {"reading", "writing", "orphan"}
    /\ Ends(c, "killed")
    /\ UNCHANGED <<saved, turns, displayed>>

\* Bug: whatever is in the file is shown.
ReadableAnyway(name) == saved[name] # NoFile_

\* A file that is there and is JSON.
Readable(name) == saved[name] \in Clerks

\* profile load and show, of modems and phones; an error exits 1.
Load(c, name) == Takes(c, "load", "loading", name, FALSE)
LoadReads(c) ==
    /\ desk[c].at = "loading"
    /\ IF Readable(desk[c].name)
       THEN Ends(c, "ok") /\ displayed' = displayed \cup {saved[desk[c].name]}
       ELSE Ends(c, "failed") /\ UNCHANGED displayed
    /\ UNCHANGED <<saved, turns>>

\* profile list leaves out what it cannot read; compare reads two.
ListProfiles(c) ==
    /\ desk[c].at = "idle" /\ turns < MaxTurns
    /\ turns' = turns + 1
    /\ displayed' = displayed \cup {saved[n] : n \in {m \in Profiles_ : Readable(m)}}
    /\ desk' = [desk EXCEPT ![c] = [Idle EXCEPT !.command = "profiles", !.exit = "ok"]]
    /\ UNCHANGED saved
CompareProfiles(c, one, two) ==
    /\ desk[c].at = "idle" /\ turns < MaxTurns
    /\ turns' = turns + 1
    /\ LET both == Readable(one) /\ Readable(two)
       IN /\ displayed' = IF both THEN displayed \cup {saved[one], saved[two]} ELSE displayed
          /\ desk' = [desk EXCEPT ![c] = [Idle EXCEPT !.command = "compare",
                                                      !.exit = IF both THEN "ok" ELSE "failed"]]
    /\ UNCHANGED saved

\* profile delete: the name is looked for, the user is asked, and the file
\* removed if it is still there; phone exits 0 all the same.
DeleteProfile(c, name) == Takes(c, "delete", "confirming", name, FALSE)
DeleteUnlinks(c) ==
    /\ desk[c].at = "confirming"
    /\ \/ Ends(c, "ok") /\ UNCHANGED saved
       \/ /\ saved' = [saved EXCEPT ![desk[c].name] = NoFile_]
          /\ desk' = [d \in Clerks |->
                IF d = c THEN [desk[d] EXCEPT !.at = "idle", !.exit = "ok"]
                ELSE IF desk[d].name = desk[c].name /\ desk[d].at = "writing"
                THEN [desk[d] EXCEPT !.at = "orphan"] ELSE desk[d]]
       \/ saved[desk[c].name] = NoFile_ /\ Ends(c, "failed") /\ UNCHANGED saved
    /\ UNCHANGED <<turns, displayed>>

DeviceNext ==
    \E c \in Clerks :
        \/ \E command \in Asked : AskDevice(c, command)
        \/ DeviceAnswers(c)
        \/ \E name \in Profiles_, force \in BOOLEAN : Save(c, name, force) \/ PhoneSave(c, name, force)
        \/ SaveChecks(c) \/ SaveReads(c) \/ SaveWrites(c) \/ SaveKilled(c)
        \/ \E name \in Profiles_ : Load(c, name) \/ DeleteProfile(c, name)
        \/ LoadReads(c) \/ DeleteUnlinks(c) \/ ListProfiles(c)
        \/ \E one, two \in Profiles_ : CompareProfiles(c, one, two)

-----------------------------------------------------------------------------
\* What load, list and compare show was saved whole by one command, though
\* saves overlap and are killed half way (cli/modem.py, phone/profile_manager.py).
ShownIsWhole == displayed \subseteq Clerks

-----------------------------------------------------------------------------
\* The server's commands and the devices' share nothing.
commandVars == <<serverCommandVars, deviceVars>>
CommandsInit == ServerCommandInit /\ DeviceInit
CommandsNext ==
    \/ ServerCommandNext /\ UNCHANGED deviceVars
    \/ DeviceNext /\ UNCHANGED serverCommandVars
CommandsSpec == CommandsInit /\ [][CommandsNext]_commandVars

\* The exit code of a command and what it shows are true: of the server's
\* processes, and of the files of the devices.
CommandsSound == ServerCommandSound /\ ShownIsWhole
=============================================================================
