------------------------------ MODULE HealthPool ------------------------------
(* observability/health/checker.py: the checks registered by the program, run   *)
(* by a pool of threads for whoever asks: the one thread of the HTTP server and   *)
(* callers of run_all_checks().  Nothing cancels a check whose caller has gone    *)
(* on without it: it keeps its thread, or its place in the line for one.          *)
EXTENDS Integers, Sequences, FiniteSets, SequencesExt

CONSTANTS
    Checks,
    HttpServer, HealthCallers, \* who calls run_all_checks()
    PoolSize,   \* threads of the pool
    MaxRuns,    \* bound: runs of all checks
    MaxTurns_   \* bound: changes of the conditions and the registry

ASSUME HealthAssumption ==
    /\ PoolSize \in Nat \ {0} /\ {MaxRuns, MaxTurns_} \subseteq Nat
    /\ HttpServer \in HealthCallers /\ IsFiniteSet(Checks) /\ IsFiniteSet(HealthCallers)

VARIABLES
    registry,   \* _checks, in the order of registration
    condition,  \* check -> how what it checks is now
    health,     \* [server: "down", "up" or "closing", pool: it takes jobs, runs, turns]
    jobs,       \* the jobs not over, oldest first; the first PoolSize have a thread
    runs        \* caller -> its run

healthVars == <<registry, condition, health, jobs, runs>>

NoRun == [id |-> 0, asked |-> <<>>, awaits |-> <<>>, ended |-> {}, results |-> <<>>,
          well |-> {}, verdict |-> "none"]
HealthInit ==
    /\ registry = SetToSeq(Checks)
    /\ condition = [k \in Checks |-> "healthy"]
    /\ health = [server |-> "down", pool |-> TRUE, runs |-> 0, turns |-> 0]
    /\ jobs = <<>>
    /\ runs = [c \in HealthCallers |-> NoRun]

Turn == health.turns < MaxTurns_
Turned(h) == [h EXCEPT !.turns = @ + 1]
Well(states) == {k \in Checks : states[k] = "healthy"}
Busy(c) == runs[c].awaits # <<>>

-----------------------------------------------------------------------------
\* What is checked recovers or fails.
ConditionChanges(k) ==
    /\ Turn /\ health' = Turned(health)
    /\ \E now \in {"healthy", "degraded", "unhealthy"} :
         /\ now # condition[k] /\ condition' = [condition EXCEPT ![k] = now]
         /\ runs' = [c \in HealthCallers |-> [runs[c] EXCEPT !.well = @ \cup Well(condition')]]
    /\ UNCHANGED <<registry, jobs>>

RegisterCheck(k) ==
    /\ Turn /\ health' = Turned(health) /\ ~Contains(registry, k)
    /\ registry' = Append(registry, k) /\ UNCHANGED <<condition, jobs, runs>>
UnregisterCheck(k) ==
    /\ Turn /\ health' = Turned(health)
    /\ \E i \in DOMAIN registry : registry[i] = k /\ registry' = RemoveAt(registry, i)
    /\ UNCHANGED <<condition, jobs, runs>>

-----------------------------------------------------------------------------
(* run_all_checks() *)

\* _aggregate_status(), with nothing UNKNOWN.
Aggregated(verdicts) ==
    IF verdicts \subseteq {"healthy"} THEN "healthy"
    ELSE IF verdicts \cap {"unhealthy", "late"} # {} THEN "unhealthy" ELSE "degraded"

\* The checks are copied under the lock and handed to the pool in order; a pool
\* that was shut down raises.
RunAll(c) ==
    /\ ~Busy(c) /\ health.runs < MaxRuns
    /\ c = HttpServer => health.server # "down"
    /\ health' = [health EXCEPT !.runs = @ + 1]
    /\ LET begun == [NoRun EXCEPT !.id = health'.runs, !.asked = registry, !.well = Well(condition)]
       IN IF registry = <<>> THEN runs' = [runs EXCEPT ![c] = [begun EXCEPT !.verdict = "healthy"]]
          ELSE IF ~health.pool THEN runs' = [runs EXCEPT ![c] = [begun EXCEPT !.verdict = "raised"]]
          ELSE runs' = [runs EXCEPT ![c] = [begun EXCEPT !.awaits = registry]]
    /\ jobs' = IF health.pool
               THEN jobs \o [i \in DOMAIN registry |-> [by |-> c, run |-> health'.runs, check |-> registry[i]]]
               ELSE jobs
    /\ UNCHANGED <<registry, condition>>

HasThread(i) == i \in DOMAIN jobs /\ i <= PoolSize
OfRun(job) == Busy(job.by) /\ job.run = runs[job.by].id

\* A check on a thread looks, and returns what it found or raises.
JobCompletes(i) ==
    /\ HasThread(i) /\ jobs' = RemoveAt(jobs, i)
    /\ LET job == jobs[i] found == <<job.check, condition[job.check]>>
       IN runs' = IF OfRun(job) THEN [runs EXCEPT ![job.by].ended = @ \cup {found}] ELSE runs
    /\ UNCHANGED <<registry, condition, health>>

\* The futures are awaited one after the other, each for check_timeout.
Noted(run, verdict) ==
    LET results == Append(run.results, verdict)
        left == Tail(run.awaits)
    IN IF left # <<>> THEN [run EXCEPT !.results = results, !.awaits = left]
       ELSE [run EXCEPT !.results = results, !.awaits = left, !.ended = {}, !.verdict = Aggregated(ToSet(results))]
CheckReturned(c) ==
    /\ Busy(c)
    /\ \E e \in runs[c].ended :
         e[1] = Head(runs[c].awaits) /\ runs' = [runs EXCEPT ![c] = Noted(@, e[2])]
    /\ UNCHANGED <<registry, condition, health, jobs>>
\* Bug: a check that was late counts as healthy.
CheckSkipped(c) ==
    /\ Busy(c)
    /\ \A e \in runs[c].ended : e[1] # Head(runs[c].awaits)
    /\ runs' = [runs EXCEPT ![c] = Noted(@, "healthy")]
    /\ UNCHANGED <<registry, condition, health, jobs>>
CheckTimesOut(c) ==
    /\ Busy(c)
    /\ \A e \in runs[c].ended : e[1] # Head(runs[c].awaits)
    /\ runs' = [runs EXCEPT ![c] = Noted(@, "late")]
    /\ UNCHANGED <<registry, condition, health, jobs>>

\* run_check() runs one check in the thread of its caller.
RunOne(c, k) ==
    /\ c # HttpServer /\ ~Busy(c) /\ Contains(registry, k)
    /\ runs' = [runs EXCEPT ![c] = [NoRun EXCEPT !.asked = <<k>>, !.well = Well(condition),
                                                 !.results = <<condition[k]>>, !.verdict = condition[k]]]
    /\ UNCHANGED <<registry, condition, health, jobs>>

-----------------------------------------------------------------------------
StartServer ==
    /\ health.server = "down" /\ health' = [health EXCEPT !.server = "up"]
    /\ UNCHANGED <<registry, condition, jobs, runs>>
\* shutdown() waits for the request being served, then ends the pool for good.
ShutdownServer ==
    /\ health.server = "up" /\ health' = [health EXCEPT !.server = "closing"]
    /\ UNCHANGED <<registry, condition, jobs, runs>>
ServerEnds ==
    /\ health.server = "closing" /\ ~Busy(HttpServer)
    /\ health' = [health EXCEPT !.server = "down", !.pool = FALSE]
    /\ UNCHANGED <<registry, condition, jobs, runs>>

HealthNext ==
    \/ \E k \in Checks :
        \/ ConditionChanges(k) \/ RegisterCheck(k) \/ UnregisterCheck(k)
        \/ \E c \in HealthCallers : RunOne(c, k)
    \/ \E c \in HealthCallers : RunAll(c) \/ CheckReturned(c) \/ CheckTimesOut(c)
    \/ \E i \in DOMAIN jobs : JobCompletes(i)
    \/ StartServer \/ ShutdownServer \/ ServerEnds

HealthSpec == HealthInit /\ [][HealthNext]_healthVars

-----------------------------------------------------------------------------
\* A run that answers "healthy" has every check it copied well at some moment
\* since it began, however late the checks of earlier runs end; where the pool
\* has a thread for every check of the runs under way, a check waits for one only
\* while another thread is kept by a check nobody waits for any more; and a
\* server that is down has no run.
StillAwaited(job) == OfRun(job) /\ Contains(runs[job.by].awaits, job.check)
HealthSound ==
    /\ \A c \in HealthCallers : runs[c].verdict = "healthy" => ToSet(runs[c].asked) \subseteq runs[c].well
    /\ PoolSize >= Cardinality(Checks) * Cardinality({c \in HealthCallers : Busy(c)}) =>
         \A i \in DOMAIN jobs : i > PoolSize /\ StillAwaited(jobs[i]) =>
            \E k \in 1..PoolSize : ~StillAwaited(jobs[k])
    /\ health.server = "down" => ~Busy(HttpServer)
=============================================================================
