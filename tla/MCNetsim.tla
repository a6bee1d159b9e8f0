------------------------------ MODULE MCNetsim ------------------------------
(* The netsim parts side by side. They share no state: a behaviour picks one    *)
(* and leaves the others in their initial state. The instance: two tasks of one *)
(* call each, one UE and two events of the network's own; two callers of the    *)
(* breaker; two of the reconnection manager; two emitters and two listeners,    *)
(* each in up to two lists; two users of the configuration; two processes; two  *)
(* users of the cell; three scenarios; two sessions and two tasks that ask for  *)
(* them; three requests of the batcher; two users of the limiter and the cache.   *)
EXTENDS SimulatorLink, ConnectionRecovery, ConfigManager,
        NetsimCommands, ScenarioRunner, NetsimManagers, NetsimPerformance

VARIABLE part  \* the part this behaviour runs

coreVars == <<linkVars, breakerVars, reconnectVars, eventVars, configVars>>
userVars == <<netsimCommandVars, runnerVars, managerTaskVars, performanceVars>>
suiteVars == <<part, coreVars, userVars>>

Parts == {"link", "breaker", "reconnect", "events", "config",
          "commands", "cell", "scenario", "sessions", "triggers",
          "batch", "limiter", "responses"}

\* One initial state is enough of a part that does not run.
Init ==
    /\ part \in Parts
    /\ LinkInit /\ BreakerInit /\ ReconnectInit /\ EventManagerInit /\ ConfigInit
    /\ NetsimCommandInit /\ CellInit /\ ScenarioInit /\ ManagersInit /\ PerformanceInit
    /\ part # "link" => op = CHOOSE p \in Programs : TRUE
    /\ part \notin {"cell", "scenario"} => cell = "active"
    /\ part # "scenario" => scenario = CHOOSE s \in Scenarios : TRUE

LinkStep ==
    /\ part = "link" /\ LinkNext
    /\ UNCHANGED <<part, breakerVars, reconnectVars, eventVars, configVars, userVars>>
BreakerStep ==
    /\ part = "breaker" /\ BreakerNext
    /\ UNCHANGED <<part, linkVars, reconnectVars, eventVars, configVars, userVars>>
ReconnectStep ==
    /\ part = "reconnect" /\ ReconnectNext
    /\ UNCHANGED <<part, linkVars, breakerVars, eventVars, configVars, userVars>>
EventStep ==
    /\ part = "events" /\ EventManagerNext
    /\ UNCHANGED <<part, linkVars, breakerVars, reconnectVars, configVars, userVars>>
ConfigStep ==
    /\ part = "config" /\ ConfigNext
    /\ UNCHANGED <<part, linkVars, breakerVars, reconnectVars, eventVars, userVars>>
CommandStep ==
    /\ part = "commands" /\ NetsimCommandNext
    /\ UNCHANGED <<part, coreVars, runnerVars, managerTaskVars, performanceVars>>
CellStep ==
    /\ part = "cell" /\ CellNext
    /\ UNCHANGED <<part, coreVars, netsimCommandVars, scenario, run, results, managerTaskVars, performanceVars>>
ScenarioStep ==
    /\ part = "scenario" /\ ScenarioNext
    /\ UNCHANGED <<part, coreVars, netsimCommandVars, managerTaskVars, performanceVars>>
SessionManagerStep ==
    /\ part = "sessions" /\ SessionManagerNext
    /\ UNCHANGED <<part, coreVars, netsimCommandVars, runnerVars, performanceVars>>
TriggerManagerStep ==
    /\ part = "triggers" /\ TriggerManagerNext
    /\ UNCHANGED <<part, coreVars, netsimCommandVars, runnerVars, performanceVars>>
PerformanceStep ==
    /\ \/ part = "batch" /\ BatchNext /\ UNCHANGED <<limiterVars, responseVars>>
       \/ part = "limiter" /\ LimiterNext /\ UNCHANGED <<batchVars, responseVars>>
       \/ part = "responses" /\ ResponseNext /\ UNCHANGED <<batchVars, limiterVars>>
    /\ UNCHANGED <<part, coreVars, netsimCommandVars, runnerVars, managerTaskVars>>

Next ==
    \/ LinkStep \/ BreakerStep \/ ReconnectStep \/ EventStep \/ ConfigStep
    \/ CommandStep \/ CellStep \/ ScenarioStep \/ SessionManagerStep \/ TriggerManagerStep
    \/ PerformanceStep

Spec == Init /\ [][Next]_suiteVars
\* In the other parts nothing of the link is enabled.
FairSpec == Spec /\ LinkFairness

-----------------------------------------------------------------------------
CONSTANTS t1, t2, s1, s2, q3, listener, imsi, none, given

MCTasks == {t1, t2}
MCSubscribers == {s1, s2}
MCImsis == {imsi}
Call(name) == [name |-> name, imsi |-> imsi]
MCPrograms == {t1 :> Call(p[1]) @@ t2 :> Call(p[2]) :
                   p \in {<<"wait", "list">>, <<"wait", "detach">>, <<"get", "send">>,
                          <<"send", "send">>}}
MCBearersUp == {s1}
MCAskers == {t1, t2, q3}
MCTried == DOMAIN Commands

Does(action, condition, onFailure, saves) ==
    [action |-> action, condition |-> condition, onFailure |-> onFailure, saves |-> saves]
Scenario(setup, steps, teardown) == [setup |-> setup, steps |-> steps, teardown |-> teardown]
StopCell == <<Does("stop", "none", "stop", FALSE)>>
MCScenarios ==
    {Scenario(<<Does("start", "none", "stop", TRUE)>>,
              <<Does("query", "number", "continue", FALSE), Does("restart", "saved", "stop", FALSE),
                Does("missing", "unsaved", "skip", FALSE)>>,
              <<Does("wait", "none", "stop", FALSE)>> \o StopCell),
     Scenario(<<>>,
              <<Does("unknown", "saved", "stop", FALSE), Does("query", "odd", "stop", TRUE)>>,
              StopCell),
     Scenario(<<>>,
              <<Does("query", "none", "continue", TRUE), Does("unknown", "saved", "stop", TRUE)>>,
              <<Does("stop", "unsaved", "stop", FALSE)>>)}
=============================================================================
