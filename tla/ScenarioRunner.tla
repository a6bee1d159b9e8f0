--------------------------- MODULE ScenarioRunner ---------------------------
(***************************************************************************)
(* The cell manager and the scenario runner that drives it.                *)
(*                                                                         *)
(* The cell manager (netsim/managers/cell.py): start() and stop() send one *)
(* command and look at the status until it is the one wanted, restart() is *)
(* the two in turn.  Tasks share one link, on which requests are served in *)
(* order; the cell moves by itself, and a request nobody waits for any     *)
(* more is served all the same.                                            *)
(*                                                                         *)
(* The scenario runner (netsim/scenario.py): setup, steps and teardown,    *)
(* one after the other, each with its condition, its time-out and what to  *)
(* do when it fails.  A step whose time is up leaves behind what it has    *)
(* asked of the network.                                                   *)
(***************************************************************************)
EXTENDS Naturals, FiniteSets, Sequences

-----------------------------------------------------------------------------
(* The cell manager. *)

CONSTANTS
    CellUsers,  \* tasks
    NoUser,     \* whose request was given up
    MaxCellRequests \* bound: requests not served yet

ASSUME CellUserAssumption == NoUser \notin CellUsers /\ MaxCellRequests \in Nat

VARIABLES
    cell,       \* the status of the cell
    cellQueue,   \* what the simulator has not served yet: who asks for what
    order       \* task -> the call in hand, and what the last one returned

cellVars == <<cell, cellQueue, order>>

Statuses == {"inactive", "starting", "active", "stopping", "error"}
NoOrder == [call |-> "none", at |-> "idle", leg |-> "none", result |-> "none",
            down |-> FALSE, up |-> FALSE, again |-> FALSE]

CellInit ==
    /\ cell \in {"inactive", "active"}
    /\ cellQueue = <<>>
    /\ order = [u \in CellUsers |-> NoOrder]

\* The history of a call: whether the cell was inactive during it, active, and
\* active after it was inactive.
Witness(o, status) ==
    [o EXCEPT !.down = @ \/ status = "inactive", !.up = @ \/ status = "active",
              !.again = @ \/ (o.down /\ status = "active")]
Witnessed(orders, status) == [u \in CellUsers |-> Witness(orders[u], status)]

Waits(u) == order[u].at \in {"commanding", "looking", "first"}
AskCell(u, ask) ==
    /\ Len(cellQueue) < MaxCellRequests
    /\ cellQueue' = Append(cellQueue, [by |-> u, ask |-> ask])
PutAt(u, at) == order' = [order EXCEPT ![u].at = at]
Result(u, result) == order' = [order EXCEPT ![u].at = "idle", ![u].result = result]

\* start() and stop() send their command; restart() looks first.
BeginCall(u, call) ==
    /\ order[u].at = "idle"
    /\ order' = [order EXCEPT ![u] =
          Witness([NoOrder EXCEPT !.call = call, !.leg = IF call = "restart" THEN "look" ELSE call,
                                  !.at = IF call = "restart" THEN "first" ELSE "commanding"], cell)]
    /\ AskCell(u, IF call = "restart" THEN "status" ELSE call)
    /\ UNCHANGED cell

\* The leg of a call ends: restart() goes on to start() when it has stopped.
LegEnds(u, good, witnessed) ==
    IF order[u].call = "restart" /\ order[u].leg = "stop" /\ good
    THEN order' = [witnessed EXCEPT ![u].leg = "start", ![u].at = "send"]
    ELSE order' = [witnessed EXCEPT ![u].at = "idle", ![u].result = IF good THEN "yes" ELSE "no"]

SendCommand_(u) ==
    /\ order[u].at = "send"
    /\ AskCell(u, order[u].leg) /\ PutAt(u, "commanding")
    /\ UNCHANGED cell

\* What the task does with the answer to its command, to a look, and to the
\* first look of restart().
CommandAnswered(u, answer, witnessed) ==
    IF answer = "yes" THEN order' = [witnessed EXCEPT ![u].at = "sleeping"]
    ELSE LegEnds(u, FALSE, witnessed)
Wanted(leg) == IF leg = "start" THEN "active" ELSE "inactive"
LookAnswered(u, status, witnessed) ==
    CASE status = Wanted(order[u].leg) -> LegEnds(u, TRUE, witnessed)
      [] order[u].leg = "start" /\ status = "error" -> LegEnds(u, FALSE, witnessed)
      [] OTHER -> order' = [witnessed EXCEPT ![u].at = "sleeping"]
FirstAnswered(u, status, witnessed) ==
    order' = [witnessed EXCEPT ![u].at = "send",
                               ![u].leg = IF status = "inactive" THEN "start" ELSE "stop"]

\* The simulator serves the oldest request; the status it answers is the one of
\* that moment.
Answers_(ask) ==
    IF ask = "status" THEN {<<cell, cell>>}
    ELSE {<<"no", cell>>} \cup
         {<<"yes", status>> : status \in IF ask = "start" THEN {"starting", "active"} ELSE {"stopping", "inactive"}}
ServeRequest ==
    /\ cellQueue # <<>>
    /\ LET u == Head(cellQueue).by ask == Head(cellQueue).ask
       IN \E answer \in Answers_(ask) :
            /\ cell' = answer[2]
            /\ cellQueue' = Tail(cellQueue)
            /\ LET witnessed == Witnessed(order, answer[2])
               IN CASE u = NoUser -> order' = witnessed
                    [] u # NoUser /\ order[u].at = "commanding" -> CommandAnswered(u, answer[1], witnessed)
                    [] u # NoUser /\ order[u].at = "looking" -> LookAnswered(u, answer[1], witnessed)
                    [] OTHER -> FirstAnswered(u, answer[1], witnessed)

\* The cell comes up, goes down, or fails.
CellMoves ==
    /\ \/ cell = "starting" /\ cell' \in {"active", "error"}
       \/ cell = "stopping" /\ cell' = "inactive"
    /\ order' = Witnessed(order, cell')
    /\ UNCHANGED cellQueue

\* One more look, or the time is up.
LookAgain(u) ==
    /\ order[u].at = "sleeping"
    /\ \/ AskCell(u, "status") /\ PutAt(u, "looking")
       \/ LegEnds(u, FALSE, order) /\ UNCHANGED cellQueue
    /\ UNCHANGED cell

GiveUp(u) == cellQueue' = [i \in DOMAIN cellQueue |->
                IF cellQueue[i].by = u THEN [cellQueue[i] EXCEPT !.by = NoUser] ELSE cellQueue[i]]

\* The link or the answer fails: start() and stop() return False, the first
\* look of restart() raises.
RequestFails(u) ==
    /\ Waits(u)
    /\ GiveUp(u)
    /\ IF order[u].at = "first" THEN Result(u, "raised") ELSE LegEnds(u, FALSE, order)
    /\ UNCHANGED cell

CellCalls == {"start", "stop", "restart"}
CellNext ==
    \/ ServeRequest \/ CellMoves
    \/ \E u \in CellUsers :
        \/ \E call \in CellCalls : BeginCall(u, call)
        \/ SendCommand_(u) \/ LookAgain(u) \/ RequestFails(u)

CellSpec == CellInit /\ [][CellNext]_cellVars

-----------------------------------------------------------------------------
\* A call that returns True has seen the cell so: start() active and stop()
\* inactive at some moment of the call, restart() first inactive and then
\* active, whatever other tasks ask and whichever answers are lost
\* (CellManager.start, stop and restart).
CellSound ==
    \A u \in CellUsers : order[u].at = "idle" /\ order[u].result = "yes" =>
        CASE order[u].call = "start" -> order[u].up
          [] order[u].call = "stop" -> order[u].down
          [] order[u].call = "restart" -> order[u].again

-----------------------------------------------------------------------------
(* The scenario runner. *)

CONSTANTS
    Scenarios,  \* [setup, steps, teardown]: sequences of steps
    Runner      \* the task that runs them

StepTypes == [action : CellCalls \cup {"query", "wait", "missing", "unknown"},
              condition : {"none", "saved", "unsaved", "number", "odd"},
              onFailure : {"stop", "continue", "skip"}, saves : BOOLEAN]
ASSUME RunnerAssumption ==
    /\ Runner \in CellUsers
    /\ \A s \in Scenarios : {s.setup, s.steps, s.teardown} \subseteq Seq(StepTypes)

VARIABLES
    scenario,
    run,        \* the step it is at, and how it goes
    results     \* the results of the steps, in order

runnerVars == <<cellVars, scenario, run, results>>

Phases == <<"setup", "steps", "teardown">>

ScenarioInit ==
    /\ scenario \in Scenarios
    /\ run = [phase |-> 1, at |-> 1, busy |-> FALSE, passed |-> TRUE, saved |-> FALSE, ends |-> "running"]
    /\ results = <<>>

(***************************************************************************)
(* A step: its action, its condition, what follows a failure, and whether  *)
(* its result is saved.  The actions:                                      *)
(*   a cell call    passes whatever the call of the manager returns;       *)
(*   "query"        returns something, "wait" returns nothing;             *)
(*   "missing"      a parameter that is missing, or what the simulator     *)
(*                  manager does not have (triggers, send_ota_trigger(),   *)
(*                  sessions by IMSI): an exception;                       *)
(*   "unknown"      no action of this name.                                *)
(* The conditions: "none"; "saved" and "unsaved", on the variable;         *)
(* "number", a comparison; "odd", a search for what a container cannot     *)
(* hold, which raises.                                                     *)
(***************************************************************************)
Current == scenario[Phases[run.phase]]
Step == Current[run.at]
Due == run.ends = "running" /\ run.at <= Len(Current) /\ ~run.busy

\* _evaluate_condition()
Holds(condition) ==
    CASE condition = "none" -> {TRUE}
      [] condition = "saved" -> {run.saved}
      [] condition = "unsaved" -> {~run.saved}
      [] condition = "number" -> BOOLEAN
      [] OTHER -> {}

\* Bug: the steps run although the setup has failed.
AfterFailureOn ==
    IF run.phase = 2 /\ Step.onFailure # "continue" THEN [phase |-> 3, at |-> 1]
    ELSE [phase |-> run.phase, at |-> run.at + 1]

\* Where run() goes after a step that failed: out of the setup and, unless the
\* step says "continue", out of the steps, to the teardown.
AfterFailure ==
    IF run.phase = 1 \/ (run.phase = 2 /\ Step.onFailure # "continue")
    THEN [phase |-> 3, at |-> 1]
    ELSE [phase |-> run.phase, at |-> run.at + 1]

\* The result of a step is kept, and its value if there is one.
Keeps(status, value) ==
    LET next == IF status = "failed" THEN AfterFailure ELSE [phase |-> run.phase, at |-> run.at + 1]
    IN /\ results' = Append(results, [phase |-> run.phase, at |-> run.at, status |-> status])
       /\ run' = [run EXCEPT !.phase = next.phase, !.at = next.at, !.busy = FALSE,
                             !.passed = @ /\ (status = "failed" => run.phase = 3),
                             !.saved = @ \/ (status = "passed" /\ value /\ Step.saves)]
       /\ UNCHANGED scenario

SkipStep ==
    /\ Due /\ FALSE \in Holds(Step.condition)
    /\ Keeps("skipped", FALSE)
    /\ UNCHANGED cellVars

\* What is raised outside the try of _execute_step() leaves run(): a condition
\* that raises; and an action that is not known, because asyncio is a local
\* name of the function that is not bound yet when "except asyncio.TimeoutError"
\* is looked at.
StepRaises ==
    /\ Due
    /\ \/ Step.condition = "odd"
       \/ TRUE \in Holds(Step.condition) /\ Step.action = "unknown"
    /\ run' = [run EXCEPT !.ends = "raised"]
    /\ UNCHANGED <<scenario, results, cellVars>>

\* A step that returns, or fails, with no call of the cell manager.
PlainStep ==
    /\ Due /\ TRUE \in Holds(Step.condition) /\ Step.action \in {"query", "wait", "missing"}
    /\ \/ Step.action # "missing" /\ Keeps("passed", Step.action = "query")
       \/ Keeps("failed", FALSE)
    /\ UNCHANGED cellVars

BeginStep ==
    /\ Due /\ TRUE \in Holds(Step.condition) /\ Step.action \in CellCalls
    /\ BeginCall(Runner, Step.action)
    /\ run' = [run EXCEPT !.busy = TRUE]
    /\ UNCHANGED <<scenario, results>>
\* A call that returns False has passed like any other.
StepReturns ==
    /\ run.busy /\ order[Runner].at = "idle"
    /\ Keeps(IF order[Runner].result = "raised" THEN "failed" ELSE "passed", TRUE)
    /\ UNCHANGED cellVars
\* wait_for() gives the call up; its request stays with the simulator.
StepTimesOut ==
    /\ run.busy /\ order[Runner].at # "idle"
    /\ GiveUp(Runner) /\ Result(Runner, "given up")
    /\ Keeps("failed", FALSE)
    /\ UNCHANGED cell

\* The end of setup, of steps and of run().
NextPhase ==
    /\ run.ends = "running" /\ run.at > Len(Current)
    /\ run' = IF run.phase = 3 THEN [run EXCEPT !.ends = "done"]
              ELSE [run EXCEPT !.phase = @ + 1, !.at = 1]
    /\ UNCHANGED <<scenario, results, cellVars>>

ScenarioNext ==
    \/ SkipStep \/ StepRaises \/ PlainStep \/ BeginStep \/ StepReturns \/ StepTimesOut \/ NextPhase
    \/ /\ \/ ServeRequest \/ CellMoves \/ SendCommand_(Runner)
          \/ LookAgain(Runner) \/ RequestFails(Runner)
       /\ UNCHANGED <<scenario, run, results>>

ScenarioSpec == CellInit /\ ScenarioInit /\ [][ScenarioNext]_runnerVars

-----------------------------------------------------------------------------
ResultsOf(phase) == {i \in DOMAIN results : results[i].phase = phase}
Whole(phase) == Cardinality(ResultsOf(phase)) = Len(scenario[Phases[phase]])
Failures == {i \in DOMAIN results : results[i].status = "failed" /\ results[i].phase < 3}

\* A scenario that has passed has a result for each step of its setup and its
\* steps and no failure among them; one that has not has a failure.  No step
\* runs after a setup that failed (ScenarioRunner.run).
VerdictBacked ==
    /\ run.ends = "done" => (run.passed <=> Whole(1) /\ Whole(2) /\ Failures = {})
    /\ ResultsOf(2) # {} => \A i \in Failures : results[i].phase = 2

\* A scenario whose last act was to stop the cell, and which was told that it
\* is stopped, leaves it stopped: a start that was given up half way does not
\* come after it.
CleanedUp ==
    LET last == scenario.teardown[Len(scenario.teardown)]
    IN run.ends = "done" /\ scenario.teardown # <<>> /\ last.action = "stop"
         /\ order[Runner].call = "stop" /\ order[Runner].result = "yes"
         /\ results[Len(results)].status = "passed"
       => cell = "inactive" /\ \A i \in DOMAIN cellQueue : cellQueue[i].ask # "start"

ScenarioSound == CellSound /\ VerdictBacked /\ CleanedUp

\* "Run teardown steps (always run)" (netsim/scenario.py:462).
TeardownRuns == run.ends # "running" => Whole(3)
=============================================================================
