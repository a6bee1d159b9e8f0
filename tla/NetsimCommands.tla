---------------------------- MODULE NetsimCommands ----------------------------
(* gp-netsim as processes (netsim/cli.py): each command checks its arguments, *)
(* connects, asks one thing of a manager, and disconnects whatever happened.   *)
(* Several run at once against one simulated network.                            *)
EXTENDS Naturals, FiniteSets, TLC

CONSTANTS
    Operators,  \* processes
    Tried       \* the commands they run

VARIABLES
    network,    \* what the simulator does: ue, bearer, cell, settings
    job         \* process -> the command it runs and how far it is

netsimCommandVars == <<network, job>>

NoJob == [command |-> "none", at |-> "new", carried |-> FALSE, answer |-> "none", exit |-> "none"]

NetsimCommandInit ==
    /\ network = [ue |-> TRUE, bearer |-> TRUE, cell |-> TRUE, plmn |-> "old"]
    /\ job = [o \in Operators |-> NoJob]

(***************************************************************************)
(* The commands.  "bad" is the exit for arguments it refuses (a missing    *)
(* URL, hex that does not parse); "ask" is what it asks of the network;    *)
(* "good" are the answers after which it returns.  An attribute its        *)
(* manager or the answer does not have is an answer that raises.           *)
(***************************************************************************)
Command(bad, ask, good) == [bad |-> bad, ask |-> ask, good |-> good]

\* The status has no simulator_type: after "Connected successfully!" and
\* before the table the command raises.
ConnectCommand == Command({"failed"}, "status", {})
StatusCommand == Command({"ok", "failed"}, "status", {})
UeList == Command({"failed"}, "ues", {"some", "none"})
UeShow == Command({"failed"}, "ue", {"some", "none"})
\* True is all wait_for_registration() returns: it has no imsi to print.
UeWait == Command({"failed"}, "wait", {})
UeDetach == Command({"failed"}, "detach", {"yes"})
\* list_sessions() takes no imsi.
SessionList == Command({"failed"}, "raise", {})
SessionShow == Command({"failed"}, "session", {"some", "none"})
SessionRelease == Command({"failed"}, "release", {"yes"})
SmsSend == Command({"failed"}, "sms", {"some"})
\* There is no send_ota_trigger().
SmsTrigger == Command({"failed"}, "raise", {})
\* The history is the one of this process.
SmsHistory == Command({"failed"}, "history", {"none"})
CellStart == Command({"failed"}, "start", {"yes"})
CellStop == Command({"failed"}, "stop", {"yes"})
CellShow == Command({"failed"}, "cell", {"some"})
CellConfig == Command({"failed", "ok"}, "configure", {"yes"})
\* A scenario that detaches a UE; it must pass.
RunScenarioCommand == Command({"failed"}, "detach", {"yes"})

Commands == [connect |-> ConnectCommand, status |-> StatusCommand, ue_list |-> UeList,
             ue_show |-> UeShow, ue_wait |-> UeWait, ue_detach |-> UeDetach,
             session_list |-> SessionList, session_show |-> SessionShow,
             session_release |-> SessionRelease, sms_send |-> SmsSend,
             sms_trigger |-> SmsTrigger, sms_history |-> SmsHistory, cell_start |-> CellStart,
             cell_stop |-> CellStop, cell_status |-> CellShow, cell_config |-> CellConfig,
             run_scenario |-> RunScenarioCommand]

ASSUME TriedAssumption == Tried \subseteq DOMAIN Commands

\* What a request does to the network and answers: pairs.
Served(ask) ==
    CASE ask = "detach" -> {<<[network EXCEPT !.ue = FALSE, !.bearer = FALSE], IF network.ue THEN "yes" ELSE "no">>}
      [] ask = "release" -> {<<[network EXCEPT !.bearer = FALSE], IF network.bearer THEN "yes" ELSE "no">>}
      [] ask = "start" -> {<<[network EXCEPT !.cell = TRUE], "yes">>, <<network, "no">>}
      [] ask = "stop" -> {<<[network EXCEPT !.cell = FALSE], "yes">>, <<network, "no">>}
      [] ask = "configure" -> {<<[network EXCEPT !.plmn = "new"], "yes">>, <<network, "no">>}
      [] ask = "sms" -> {<<network, "some">>}
      [] ask = "wait" -> {<<network, IF network.ue THEN "yes" ELSE "no">>}
      [] ask = "session" -> {<<network, IF network.bearer THEN "some" ELSE "none">>}
      [] ask \in {"ues", "ue"} -> {<<network, IF network.ue THEN "some" ELSE "none">>}
      [] ask \in {"status", "cell"} -> {<<network, "some">>}
      [] OTHER -> {<<network, "none">>}

\* Asked of this process only, or raised before anything is sent.
Local == {"raise", "history"}

Asks(o) == Commands[job[o].command].ask

\* The command starts: its arguments are refused, or it connects.
BeginCommand(o, command) ==
    /\ job[o] = NoJob
    /\ \/ \E code \in Commands[command].bad :
            job' = [job EXCEPT ![o] = [@ EXCEPT !.command = command, !.at = "gone", !.exit = code]]
       \/ job' = [job EXCEPT ![o] = [@ EXCEPT !.command = command, !.at = "connecting"]]
    /\ UNCHANGED network

\* A connect() that fails has cleaned up; the command still disconnects.
ConnectCommandLink(o) ==
    /\ job[o].at = "connecting"
    /\ \/ job' = [job EXCEPT ![o].at = IF Asks(o) \in Local THEN "answered" ELSE "connected",
                             ![o].answer = IF Asks(o) = "raise" THEN "raised" ELSE "none"]
       \/ job' = [job EXCEPT ![o].at = "answered", ![o].answer = "raised"]
    /\ UNCHANGED network

\* The simulator serves the request, and the answer may be lost on its way.
SimulatorServes(o) ==
    /\ job[o].at = "connected"
    /\ \E served \in Served(Asks(o)), lost \in BOOLEAN :
         /\ network' = served[1]
         /\ job' = [job EXCEPT ![o].at = "answered",
                               ![o].carried = served[2] # "no",
                               ![o].answer = IF lost THEN "raised" ELSE served[2]]

\* The link breaks, or the time is up, before anything is served.
LoseRequest(o) ==
    /\ job[o].at = "connected"
    /\ job' = [job EXCEPT ![o].at = "answered", ![o].answer = "raised"]
    /\ UNCHANGED network

\* Bug: only an exception fails.
ExitCodeOfExceptions(o) ==
    IF job[o].answer = "raised" \/ Commands[job[o].command].good = {} THEN "failed" ELSE "ok"

\* What comes after the answer: the exit, and disconnect() on every path.
ExitCode(o) == IF job[o].answer \in Commands[job[o].command].good THEN "ok" ELSE "failed"

Finish(o) ==
    /\ job[o].at = "answered"
    /\ job' = [job EXCEPT ![o].at = "gone", ![o].exit = ExitCode(o)]
    /\ UNCHANGED network

\* Another UE, bearer or cell comes back by itself.
NetworkMoves ==
    /\ network' = [network EXCEPT !.ue = TRUE, !.bearer = TRUE]
    /\ UNCHANGED job

NetsimCommandNext ==
    \/ \E o \in Operators :
        \/ \E command \in Tried : BeginCommand(o, command)
        \/ ConnectCommandLink(o) \/ SimulatorServes(o) \/ LoseRequest(o) \/ Finish(o)
    \/ NetworkMoves

NetsimCommandSpec == NetsimCommandInit /\ [][NetsimCommandNext]_netsimCommandVars

-----------------------------------------------------------------------------
\* What changes the network exits 0 only when the simulator has carried it
\* out, however the link broke and whatever others did (netsim/cli.py).
Changing == {"detach", "release", "start", "stop", "configure", "sms"}
ExitMeansDone ==
    \A o \in Operators : job[o].exit = "ok" /\ job[o].at = "gone" /\ job[o].answer # "none"
        /\ job[o].command # "none" /\ Asks(o) \in Changing => job[o].carried
=============================================================================
