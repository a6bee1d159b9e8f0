------------------------- MODULE ConnectionRecovery -------------------------
(***************************************************************************)
(* netsim/connection.py: what stands between the network simulator's       *)
(* callers and a connection that fails.                                    *)
(*                                                                         *)
(* CircuitBreaker: callers run operations through execute(); the asyncio   *)
(* lock is held while the state-change callbacks are awaited, reset()      *)
(* takes no lock.  Time is the age of the last failure, counted in ticks   *)
(* up to the time-out.                                                     *)
(*                                                                         *)
(* ReconnectManager: tasks calling reconnect() on one manager.  The lock   *)
(* covers only the look at is_reconnecting; the loop awaits its callbacks, *)
(* its delay and connection.connect().                                     *)
(***************************************************************************)
EXTENDS Integers, FiniteSets

-----------------------------------------------------------------------------
(* CircuitBreaker. *)

CONSTANTS
    Callers,           \* tasks calling execute()
    NoCaller,          \* the lock is free
    FailureThreshold,  \* config.failure_threshold
    SuccessThreshold,  \* config.success_threshold
    Timeout,           \* config.timeout, in ticks
    MaxCalls           \* bound: calls of execute()

ASSUME BreakerAssumption ==
    /\ NoCaller \notin Callers
    /\ FailureThreshold \in Nat \ {0} /\ SuccessThreshold \in Nat \ {0}
    /\ Timeout \in Nat /\ MaxCalls \in Nat

Never == -1  \* last_failure_time is None

VARIABLES
    breaker,    \* _state
    failures,   \* _failure_count
    successes,  \* _success_count
    age,        \* ticks since _last_failure_time, or Never
    holder,     \* who holds _lock across an await
    stage,      \* where each caller is in execute()
    executions, \* calls so far
    trial       \* history: successes recorded since the breaker was half open

breakerVars == <<breaker, failures, successes, age, holder, stage, executions, trial>>

BreakerInit ==
    /\ breaker = "closed"
    /\ failures = 0
    /\ successes = 0
    /\ age = Never
    /\ holder = NoCaller
    /\ stage = [c \in Callers |-> "idle"]
    /\ executions = 0
    /\ trial = 0

Goes(c, where) == stage' = [stage EXCEPT ![c] = where]

Execute(c) ==
    /\ stage[c] = "idle"
    /\ executions < MaxCalls
    /\ executions' = executions + 1
    /\ Goes(c, "asking")
    /\ UNCHANGED <<breaker, failures, successes, age, holder, trial>>

(* can_execute() and _check_timeout(). *)
Admit(c) ==
    /\ stage[c] = "asking"
    /\ holder = NoCaller
    /\ breaker # "open"
    /\ Goes(c, "running")
    /\ UNCHANGED <<breaker, failures, successes, age, holder, executions, trial>>

Refuse(c) ==
    /\ stage[c] = "asking"
    /\ holder = NoCaller
    /\ breaker = "open"
    /\ age = Never \/ age < Timeout
    /\ Goes(c, "idle")
    /\ UNCHANGED <<breaker, failures, successes, age, holder, executions, trial>>

HalfOpen(c) ==
    /\ stage[c] = "asking"
    /\ holder = NoCaller
    /\ breaker = "open"
    /\ age # Never /\ age >= Timeout
    /\ breaker' = "half_open"
    /\ holder' = c
    /\ trial' = 0
    /\ Goes(c, "half_opening")
    /\ UNCHANGED <<failures, successes, age, executions>>

\* The callbacks are through; a reset() may have come between.
HalfOpened(c) ==
    /\ stage[c] = "half_opening"
    /\ successes' = 0
    /\ holder' = NoCaller
    /\ Goes(c, IF breaker = "open" THEN "idle" ELSE "running")
    /\ UNCHANGED <<breaker, failures, age, executions, trial>>

(* operation() returns, raises, or raises what is not recorded: an excluded *)
(* exception or a cancellation.                                             *)
Operate(c) ==
    /\ stage[c] = "running"
    /\ \E where \in {"succeeded", "failed", "idle"} : Goes(c, where)
    /\ UNCHANGED <<breaker, failures, successes, age, holder, executions, trial>>

(* record_success(). *)
RecordSuccess(c) ==
    /\ stage[c] = "succeeded"
    /\ holder = NoCaller
    /\ trial' = IF breaker = "half_open" THEN trial + 1 ELSE trial
    /\ \/ /\ breaker = "half_open"
          /\ successes' = successes + 1
          /\ IF successes + 1 >= SuccessThreshold
               THEN /\ breaker' = "closed"
                    /\ holder' = c
                    /\ Goes(c, "closing")
               ELSE /\ Goes(c, "idle")
                    /\ UNCHANGED <<breaker, holder>>
          /\ UNCHANGED failures
       \/ /\ breaker = "closed"
          /\ failures' = 0
          /\ Goes(c, "idle")
          /\ UNCHANGED <<breaker, successes, holder>>
       \/ /\ breaker = "open"
          /\ Goes(c, "idle")
          /\ UNCHANGED <<breaker, failures, successes, holder>>
    /\ UNCHANGED <<age, executions>>

(* Mutant: closing does not clear the failures. *)
ClosedWithFailures(c) ==
    /\ stage[c] = "closing"
    /\ successes' = 0
    /\ holder' = NoCaller
    /\ Goes(c, "idle")
    /\ UNCHANGED <<breaker, failures, age, executions, trial>>

Closed(c) ==
    /\ stage[c] = "closing"
    /\ failures' = 0
    /\ successes' = 0
    /\ holder' = NoCaller
    /\ Goes(c, "idle")
    /\ UNCHANGED <<breaker, age, executions, trial>>

(* record_failure(). *)
Trips == breaker = "half_open" \/ (breaker = "closed" /\ failures + 1 >= FailureThreshold)

RecordFailure(c) ==
    /\ stage[c] = "failed"
    /\ holder = NoCaller
    /\ age' = 0
    /\ failures' = failures + 1
    /\ IF Trips
         THEN /\ breaker' = "open"
              /\ holder' = c
              /\ Goes(c, "opening")
         ELSE /\ Goes(c, "idle")
              /\ UNCHANGED <<breaker, holder>>
    /\ UNCHANGED <<successes, executions, trial>>

Opened(c) ==
    /\ stage[c] = "opening"
    /\ holder' = NoCaller
    /\ Goes(c, "idle")
    /\ UNCHANGED <<breaker, failures, successes, age, executions, trial>>

(* reset(), from anywhere. *)
Reset ==
    /\ breaker' = "closed"
    /\ failures' = 0
    /\ successes' = 0
    /\ age' = Never
    /\ UNCHANGED <<holder, stage, executions, trial>>

Tick ==
    /\ age # Never /\ age < Timeout
    /\ age' = age + 1
    /\ UNCHANGED <<breaker, failures, successes, holder, stage, executions, trial>>

Caller(c) ==
    \/ Execute(c) \/ Admit(c) \/ Refuse(c) \/ HalfOpen(c) \/ HalfOpened(c)
    \/ Operate(c) \/ RecordSuccess(c) \/ Closed(c) \/ RecordFailure(c) \/ Opened(c)

BreakerNext == (\E c \in Callers : Caller(c)) \/ Reset \/ Tick

BreakerSpec == BreakerInit /\ [][BreakerNext]_breakerVars

-----------------------------------------------------------------------------
InCallback == {"half_opening", "closing", "opening"}

(* Every variable has its type. *)
BreakerTypeOK ==
    /\ breaker \in {"closed", "open", "half_open"}
    /\ failures \in Nat /\ successes \in Nat /\ trial \in Nat /\ executions \in Nat
    /\ age \in {Never} \cup (0..Timeout)
    /\ holder \in Callers \cup {NoCaller}
    /\ stage \in [Callers -> {"idle", "asking", "running", "succeeded", "failed"} \cup InCallback]

(* The lock is held by the one caller whose callbacks are running. *)
LockHeld == \A c \in Callers : stage[c] \in InCallback <=> holder = c

(* A closed breaker has not missed its threshold: the failures it counts,  *)
(* those of earlier rounds included, are fewer than failure_threshold.     *)
TripsInTime == breaker = "closed" /\ holder = NoCaller => failures < FailureThreshold

(* A half-open breaker counts the successes of this trial only, and has    *)
(* not reached success_threshold.                                          *)
TrialCounted ==
    breaker = "half_open" /\ holder = NoCaller =>
        successes = trial /\ successes < SuccessThreshold

(* An open breaker knows when it last failed; _check_timeout() would never *)
(* half-open it otherwise.                                                 *)
OpenEnds == breaker = "open" => age # Never

(* CircuitBreaker's states agree with its counters whenever the lock is    *)
(* free, whatever results come late and whenever reset() is called.        *)
BreakerSound == LockHeld /\ TripsInTime /\ TrialCounted /\ OpenEnds

-----------------------------------------------------------------------------
(* ReconnectManager. *)

CONSTANTS
    Reconnectors,  \* tasks calling reconnect()
    MaxAttempts,   \* max_attempts, 0 for no limit
    InitialDelay, MaxDelay, Multiplier,
    MaxReconnects  \* bound: calls of reconnect()

ASSUME ReconnectAssumption ==
    /\ MaxAttempts \in Nat /\ MaxReconnects \in Nat
    /\ InitialDelay \in Nat \ {0} /\ MaxDelay \in Nat /\ InitialDelay <= MaxDelay
    /\ Multiplier \in Nat \ {0}

VARIABLES
    reconnecting,  \* _state.is_reconnecting
    attempts,      \* _state.attempt_count
    delay,         \* _state.current_delay
    in,            \* where each task is in reconnect()
    reconnects,    \* calls so far
    tried          \* history: connect() calls that failed since the last reset()

reconnectVars == <<reconnecting, attempts, delay, in, reconnects, tried>>

ReconnectInit ==
    /\ reconnecting = FALSE
    /\ attempts = 0
    /\ delay = InitialDelay
    /\ in = [r \in Reconnectors |-> "out"]
    /\ reconnects = 0
    /\ tried = 0

Enters(r, where) == in' = [in EXCEPT ![r] = where]

\* The lock, the flag, and on to the start callbacks; or "already in progress".
Reconnect(r) ==
    /\ in[r] = "out"
    /\ reconnects < MaxReconnects
    /\ reconnects' = reconnects + 1
    /\ IF reconnecting
         THEN UNCHANGED <<reconnecting, in>>
         ELSE reconnecting' = TRUE /\ Enters(r, "starting")
    /\ UNCHANGED <<attempts, delay, tried>>

\* The top of the loop, after the start callbacks or a failed attempt.
Attempt(r) ==
    /\ in[r] \in {"starting", "failed"}
    /\ attempts' = attempts + 1
    /\ Enters(r, IF MaxAttempts > 0 /\ attempts + 1 > MaxAttempts THEN "giving_up" ELSE "sleeping")
    /\ UNCHANGED <<reconnecting, delay, reconnects, tried>>

Slept(r) ==
    /\ in[r] = "sleeping"
    /\ Enters(r, "connecting")
    /\ UNCHANGED <<reconnecting, attempts, delay, reconnects, tried>>

ConnectFailed(r) ==
    /\ in[r] = "connecting"
    /\ delay' = IF delay * Multiplier < MaxDelay THEN delay * Multiplier ELSE MaxDelay
    /\ tried' = tried + 1
    /\ Enters(r, "failed")
    /\ UNCHANGED <<reconnecting, attempts, reconnects>>

\* reset(), and on to the success callbacks.
Connected(r) ==
    /\ in[r] = "connecting"
    /\ attempts' = 0
    /\ delay' = InitialDelay
    /\ tried' = 0
    /\ Enters(r, "succeeding")
    /\ UNCHANGED <<reconnecting, reconnects>>

(* Mutant: a cancelled task leaves the flag set. *)
LeavesFlag(r) ==
    /\ in[r] \in {"starting", "sleeping", "connecting", "giving_up", "succeeding"}
    /\ reconnecting' = (in[r] \in {"sleeping", "connecting"})
    /\ Enters(r, "out")
    /\ UNCHANGED <<attempts, delay, reconnects, tried>>

\* The last callbacks are through, or the task is cancelled at an await: finally.
Leaves(r) ==
    /\ in[r] \in {"starting", "sleeping", "connecting", "giving_up", "succeeding"}
    /\ reconnecting' = FALSE
    /\ Enters(r, "out")
    /\ UNCHANGED <<attempts, delay, reconnects, tried>>

Reconnector(r) ==
    Reconnect(r) \/ Attempt(r) \/ Slept(r) \/ ConnectFailed(r) \/ Connected(r) \/ Leaves(r)

ReconnectNext == \E r \in Reconnectors : Reconnector(r)

ReconnectSpec == ReconnectInit /\ [][ReconnectNext]_reconnectVars

-----------------------------------------------------------------------------
(* Every variable has its type. *)
ReconnectTypeOK ==
    /\ reconnecting \in BOOLEAN
    /\ attempts \in Nat /\ tried \in Nat
    /\ delay \in InitialDelay..MaxDelay
    /\ in \in [Reconnectors -> {"out", "starting", "sleeping", "connecting", "failed",
                                "giving_up", "succeeding"}]
    /\ reconnects \in 0..MaxReconnects

(* At most one task reconnects, exactly when the flag says so: a task that  *)
(* fails or is cancelled leaves the way free for the next.                  *)
OneReconnects ==
    /\ Cardinality({r \in Reconnectors : in[r] # "out"}) <= 1
    /\ reconnecting <=> \E r \in Reconnectors : in[r] # "out"

(* No more than max_attempts connections fail between two resets, however   *)
(* many reconnect() calls make them.                                        *)
AttemptsBounded == MaxAttempts > 0 => tried <= MaxAttempts

(* reconnect() keeps to one loop and to its limit. *)
ReconnectSound == OneReconnects /\ AttemptsBounded
=============================================================================
