------------------------------ MODULE MCStores ------------------------------
(* The parts that keep records, side by side: a behaviour picks one and leaves  *)
(* the others in an initial state. The instance: two sessions of the server; a  *)
(* script and a template with one or two placeholders; two devices, a card, a   *)
(* setting, a session and a test in the database; a card, two clients and two   *)
(* requests of the dashboard; three commands of the server, and two clerks with *)
(* three commands on one profile; two health checks, two who run them and a pool  *)
(* of two threads.                                                              *)
EXTENDS SessionManager, ScriptStore, Records, Dashboard, ToolCommands, HealthPool, TLC

VARIABLE part  \* the part this behaviour runs

storeVars == <<managerVars, scriptVars, recordVars, dashboardVars>>
restVars == <<commandVars, healthVars>>
suiteVars == <<part, storeVars, restVars>>

\* One initial state is enough of a part that does not run.
Init ==
    /\ part \in {"sessions", "scripts", "records", "dashboard", "simulator", "server", "devices",
             "health"}
    /\ ManagerInit /\ ScriptInit /\ RecordsInit /\ DashboardInit
    /\ CommandsInit /\ HealthInit
    /\ part # "scripts" => file = (CHOOSE f \in Files : TRUE) /\ autoSync
    /\ part # "records" => store = CHOOSE s \in Stores : TRUE
    /\ part # "server" => overlap

SessionsStep ==
    /\ part = "sessions" /\ ManagerNext
    /\ UNCHANGED <<part, scriptVars, recordVars, dashboardVars, restVars>>
ScriptsStep ==
    /\ part = "scripts" /\ ScriptNext
    /\ UNCHANGED <<part, managerVars, recordVars, dashboardVars, restVars>>
RecordsStep ==
    /\ part = "records" /\ RecordsNext
    /\ UNCHANGED <<part, managerVars, scriptVars, dashboardVars, restVars>>
DashboardStep ==
    /\ \/ part = "dashboard" /\ (CardsNext \/ ClientsNext({CHOOSE c \in Listeners : TRUE}))
       \/ part = "simulator" /\ (SimulatorNext \/ ClientsNext(Listeners))
    /\ UNCHANGED <<part, managerVars, scriptVars, recordVars, restVars>>
ServerStep ==
    part = "server" /\ ServerCommandNext /\ UNCHANGED <<part, storeVars, deviceVars, healthVars>>
DevicesStep ==
    part = "devices" /\ DeviceNext /\ UNCHANGED <<part, storeVars, serverCommandVars, healthVars>>
HealthStep ==
    part = "health" /\ HealthNext /\ UNCHANGED <<part, storeVars, commandVars>>

Next ==
    SessionsStep \/ ScriptsStep \/ RecordsStep \/ DashboardStep \/ ServerStep \/ DevicesStep
    \/ HealthStep

Spec == Init /\ [][Next]_suiteVars
FairSpec == Spec /\ (part = "sessions" => WF_managerVars(CleanupThread) /\ WF_managerVars(Clock))

-----------------------------------------------------------------------------
CONSTANTS a, b, s1, t1, d1, d2, k1, g1, o1, r1, i1, l1, l2, q1, q2, none, unpromised

MCSessions == {a, b}

MCScriptIds == {s1}
MCTemplateIds == {t1}
MCRenderedIds == t1 :> <<s1>>
Plain(n) == [fixed |-> n, holes |-> <<>>]
Hole(type, min, default) == [type |-> type, min |-> min, default |-> default]
MCScriptContents == {Plain(8), Plain(9), Plain(10)}
MCTemplateContents ==
    {[fixed |-> 4, holes |-> <<Hole("hex", 1, 0)>>],
     [fixed |-> 4, holes |-> <<Hole("string", 1, 2), Hole("hex", 1, 0)>>],
     [fixed |-> 7, holes |-> <<Hole("hex", 1, 0)>>]}
MCParamValues == {0, 1, 4}
MCFiles ==
    LET nothing == [k \in {s1, t1} |-> none]
    IN {nothing, [nothing EXCEPT ![s1] = Plain(8)]}
MCDirectory == <<s1 :> Plain(10) @@ t1 :> none, s1 :> Plain(8) @@ t1 :> CHOOSE c \in MCTemplateContents : c.fixed = 4>>

All(ids, quality) == [id \in ids |-> quality]
MCImports ==
    {[devices |-> All({d1, d2}, "good"), cards |-> All({k1}, "bad"),
      settings |-> All({g1}, "good")],
     [devices |-> d1 :> "bad" @@ d2 :> "good", cards |-> All({}, "good"),
      settings |-> All({g1}, "good")]}
Session == [status |-> "pending", device |-> d1, card |-> k1, stale |-> FALSE,
            commands |-> 1, responses |-> 0]
Test == [status |-> "skipped", device |-> d1, assertions |-> 1]
MCStoresInit ==
    {[devices |-> d1 :> "old" @@ d2 :> none, cards |-> k1 :> "old", keys |-> k1 :> "old", settings |-> g1 :> "old",
      sessions |-> o1 :> Session, tests |-> r1 :> Test],
     EmptyTables}

MCAsked == DOMAIN Answers
=============================================================================
