---------------------------- MODULE NetsimProofs ----------------------------
(***************************************************************************)
(* What MCNetsim checks of the parts of netsim on small instances holds    *)
(* for any number of callers, tasks, clients and requests.  The parts      *)
(* share no state, so each has its own invariant and its own theorem.      *)
(***************************************************************************)
EXTENDS ConnectionRecovery, ConfigManager, SimulatorLink, NetsimCommands,
        ScenarioRunner, NetsimManagers, NetsimPerformance, SequenceFacts, FiniteSetTheorems

-----------------------------------------------------------------------------
(* The circuit breaker.  While its lock is free BreakerSound is nearly      *)
(* inductive; what is added says what the holder of the lock is about to    *)
(* do, and what a reset() under its feet leaves behind.                     *)

(* While callbacks run: the breaker is in the state being announced, or    *)
(* reset() has closed it and cleared its counters.                         *)
HolderPending ==
    \A c \in Callers :
        /\ stage[c] = "half_opening" =>
               \/ breaker = "half_open" /\ trial = 0
               \/ breaker = "closed" /\ failures = 0
        /\ stage[c] = "opening" => breaker = "open" \/ (breaker = "closed" /\ failures = 0)
        /\ stage[c] = "closing" => breaker = "closed"

BreakerInv == BreakerTypeOK /\ BreakerSound /\ HolderPending

(* The initial state satisfies the invariant. *)
LEMMA BreakerInitially == BreakerInit => BreakerInv
<1>1. SUFFICES ASSUME BreakerInit PROVE BreakerInv
  OBVIOUS
<1>2. BreakerTypeOK
  BY <1>1, BreakerAssumption DEF BreakerInit, BreakerTypeOK, InCallback, Never
<1>3. BreakerSound
  BY <1>1, BreakerAssumption DEF BreakerInit, BreakerSound, LockHeld, TripsInTime,
     TrialCounted, OpenEnds, InCallback
<1>4. HolderPending
  BY <1>1 DEF BreakerInit, HolderPending
<1>5. QED
  BY <1>2, <1>3, <1>4 DEF BreakerInv

(* Every step keeps the invariant: one case per action. *)
LEMMA BreakerKept == BreakerInv /\ [BreakerNext]_breakerVars => BreakerInv'
<1>1. SUFFICES ASSUME BreakerInv, [BreakerNext]_breakerVars PROVE BreakerInv'
  OBVIOUS
<1>2. BreakerTypeOK /\ LockHeld /\ TripsInTime /\ TrialCounted /\ OpenEnds /\ HolderPending
  BY <1>1 DEF BreakerInv, BreakerSound
<1>3. CASE UNCHANGED breakerVars
  BY <1>2, <1>3 DEF breakerVars, BreakerInv, BreakerSound, BreakerTypeOK, LockHeld,
     TripsInTime, TrialCounted, OpenEnds, HolderPending
<1> USE BreakerAssumption, <1>2
<1>4. ASSUME NEW c \in Callers, Execute(c) \/ Admit(c) \/ Refuse(c) \/ Operate(c)
      PROVE BreakerInv'
  <2>1. BreakerTypeOK'
    BY <1>4 DEF Execute, Admit, Refuse, Operate, Goes, BreakerTypeOK
  <2>2. UNCHANGED <<breaker, failures, successes, age, holder, trial>>
    BY <1>4 DEF Execute, Admit, Refuse, Operate
  <2>3. \A d \in Callers :
            /\ stage'[d] \in InCallback <=> stage[d] \in InCallback
            /\ stage[d] \in InCallback => stage'[d] = stage[d]
    BY <1>4 DEF Execute, Admit, Refuse, Operate, Goes, BreakerTypeOK, InCallback
  <2>4. BreakerSound'
    BY <2>2, <2>3 DEF BreakerSound, LockHeld, TripsInTime, TrialCounted, OpenEnds
  <2>5. HolderPending'
    BY <2>2, <2>3 DEF HolderPending, InCallback
  <2>6. QED
    BY <2>1, <2>4, <2>5 DEF BreakerInv
<1>5. ASSUME NEW c \in Callers, HalfOpen(c) PROVE BreakerInv'
  <2>1. BreakerTypeOK'
    BY <1>5 DEF HalfOpen, Goes, BreakerTypeOK, InCallback
  <2>2. BreakerSound'
    BY <1>5 DEF HalfOpen, Goes, BreakerTypeOK, BreakerSound, LockHeld, TripsInTime,
       TrialCounted, OpenEnds, InCallback
  <2>3. HolderPending'
    BY <1>5 DEF HalfOpen, Goes, BreakerTypeOK, LockHeld, HolderPending, InCallback
  <2>4. QED
    BY <2>1, <2>2, <2>3 DEF BreakerInv
<1>6. ASSUME NEW c \in Callers, HalfOpened(c) PROVE BreakerInv'
  <2>1. BreakerTypeOK'
    BY <1>6 DEF HalfOpened, Goes, BreakerTypeOK, InCallback
  <2>2. BreakerSound'
    BY <1>6 DEF HalfOpened, Goes, BreakerTypeOK, BreakerSound, LockHeld, TripsInTime,
       TrialCounted, OpenEnds, HolderPending, InCallback
  <2>3. HolderPending'
    BY <1>6 DEF HalfOpened, Goes, BreakerTypeOK, LockHeld, HolderPending, InCallback
  <2>4. QED
    BY <2>1, <2>2, <2>3 DEF BreakerInv
<1>7. ASSUME NEW c \in Callers, RecordSuccess(c) PROVE BreakerInv'
  <2>1. BreakerTypeOK'
    BY <1>7 DEF RecordSuccess, Goes, BreakerTypeOK, InCallback
  <2>2. BreakerSound'
    BY <1>7 DEF RecordSuccess, Goes, BreakerTypeOK, BreakerSound, LockHeld, TripsInTime,
       TrialCounted, OpenEnds, InCallback
  <2>3. HolderPending'
    BY <1>7 DEF RecordSuccess, Goes, BreakerTypeOK, LockHeld, HolderPending, InCallback
  <2>4. QED
    BY <2>1, <2>2, <2>3 DEF BreakerInv
<1>8. ASSUME NEW c \in Callers, Closed(c) PROVE BreakerInv'
  <2>1. BreakerTypeOK'
    BY <1>8 DEF Closed, Goes, BreakerTypeOK, InCallback
  <2>2. BreakerSound'
    BY <1>8 DEF Closed, Goes, BreakerTypeOK, BreakerSound, LockHeld, TripsInTime,
       TrialCounted, OpenEnds, HolderPending, InCallback
  <2>3. HolderPending'
    BY <1>8 DEF Closed, Goes, BreakerTypeOK, LockHeld, HolderPending, InCallback
  <2>4. QED
    BY <2>1, <2>2, <2>3 DEF BreakerInv
<1>9. ASSUME NEW c \in Callers, RecordFailure(c) PROVE BreakerInv'
  <2>1. BreakerTypeOK'
    BY <1>9 DEF RecordFailure, Trips, Goes, BreakerTypeOK, InCallback
  <2>2. BreakerSound'
    BY <1>9 DEF RecordFailure, Trips, Goes, BreakerTypeOK, BreakerSound, LockHeld,
       TripsInTime, TrialCounted, OpenEnds, InCallback, Never
  <2>3. HolderPending'
    BY <1>9 DEF RecordFailure, Trips, Goes, BreakerTypeOK, LockHeld, HolderPending, InCallback
  <2>4. QED
    BY <2>1, <2>2, <2>3 DEF BreakerInv
<1>10. ASSUME NEW c \in Callers, Opened(c) PROVE BreakerInv'
  <2>1. BreakerTypeOK'
    BY <1>10 DEF Opened, Goes, BreakerTypeOK, InCallback
  <2>2. BreakerSound'
    BY <1>10 DEF Opened, Goes, BreakerTypeOK, BreakerSound, LockHeld, TripsInTime,
       TrialCounted, OpenEnds, HolderPending, InCallback
  <2>3. HolderPending'
    BY <1>10 DEF Opened, Goes, BreakerTypeOK, LockHeld, HolderPending, InCallback
  <2>4. QED
    BY <2>1, <2>2, <2>3 DEF BreakerInv
<1>11. CASE Reset
  <2>1. BreakerTypeOK'
    BY <1>11 DEF Reset, BreakerTypeOK
  <2>2. BreakerSound'
    BY <1>11 DEF Reset, BreakerTypeOK, BreakerSound, LockHeld, TripsInTime, TrialCounted, OpenEnds
  <2>3. HolderPending'
    BY <1>11 DEF Reset, HolderPending
  <2>4. QED
    BY <2>1, <2>2, <2>3 DEF BreakerInv
<1>12. CASE Tick
  <2>1. BreakerTypeOK'
    BY <1>12 DEF Tick, BreakerTypeOK, Never
  <2>2. BreakerSound'
    BY <1>12 DEF Tick, BreakerTypeOK, BreakerSound, LockHeld, TripsInTime, TrialCounted,
       OpenEnds, Never
  <2>3. HolderPending'
    BY <1>12 DEF Tick, HolderPending
  <2>4. QED
    BY <2>1, <2>2, <2>3 DEF BreakerInv
<1>13. QED
  BY <1>1, <1>3, <1>4, <1>5, <1>6, <1>7, <1>8, <1>9, <1>10, <1>11, <1>12
     DEF BreakerNext, Caller

(* CircuitBreaker (netsim/connection.py): whatever the callers, results    *)
(* that come late and resets between, the breaker's state agrees with its  *)
(* counters whenever its lock is free.                                     *)
THEOREM BreakerSafety == BreakerSpec => [](BreakerTypeOK /\ BreakerSound)
<1>1. BreakerInv => BreakerTypeOK /\ BreakerSound
  BY DEF BreakerInv
<1>2. QED
  BY <1>1, BreakerInitially, BreakerKept, PTL DEF BreakerSpec

-----------------------------------------------------------------------------
(* The reconnection manager.  AttemptsBounded is not inductive: it rests on *)
(* the task that is about to connect having counted that attempt, and found *)
(* it within the limit.                                                     *)

\* Two tasks inside reconnect() are one.
Alone ==
    /\ \A r, s \in Reconnectors : in[r] # "out" /\ in[s] # "out" => r = s
    /\ reconnecting <=> \E r \in Reconnectors : in[r] # "out"

\* Every failed connection was counted first; one about to be tried, too.
Counted ==
    /\ tried <= attempts
    /\ MaxAttempts > 0 => tried <= MaxAttempts
    /\ \A r \in Reconnectors :
           in[r] \in {"sleeping", "connecting"} =>
               tried < attempts /\ (MaxAttempts > 0 => attempts <= MaxAttempts)

ReconnectInv == ReconnectTypeOK /\ Alone /\ Counted

(* The initial state satisfies the invariant. *)
LEMMA ReconnectInitially == ReconnectInit => ReconnectInv
<1>1. ReconnectInit => ReconnectTypeOK
  <2>1. ReconnectInit => reconnecting \in BOOLEAN
    BY DEF ReconnectInit
  <2>2. ReconnectInit => delay \in InitialDelay..MaxDelay /\ attempts \in Nat /\ tried \in Nat
    BY ReconnectAssumption DEF ReconnectInit
  <2>3. ReconnectInit => reconnects \in 0..MaxReconnects
    BY ReconnectAssumption DEF ReconnectInit
  <2>4. QED
    BY <2>1, <2>2, <2>3 DEF ReconnectInit, ReconnectTypeOK
<1>2. ReconnectInit => Alone
  BY DEF ReconnectInit, Alone
<1>3. ReconnectInit => Counted
  BY ReconnectAssumption DEF ReconnectInit, Counted
<1>4. QED
  BY <1>1, <1>2, <1>3 DEF ReconnectInv

(* A multiple of a number is no smaller: the back-off keeps its lower bound. *)
LEMMA BackOffGrows ==
  ASSUME NEW d \in Nat, NEW m \in Nat \ {0}
  PROVE  d * m \in Nat /\ d * m >= d
  OBVIOUS

(* Every step keeps the invariant: one case per action. *)
LEMMA ReconnectKept == ReconnectInv /\ [ReconnectNext]_reconnectVars => ReconnectInv'
<1>1. SUFFICES ASSUME ReconnectInv, [ReconnectNext]_reconnectVars PROVE ReconnectInv'
  OBVIOUS
<1>2. ReconnectTypeOK /\ Alone /\ Counted
  BY <1>1 DEF ReconnectInv
<1>3. CASE UNCHANGED reconnectVars
  BY <1>2, <1>3 DEF reconnectVars, ReconnectInv, ReconnectTypeOK, Alone, Counted
<1> USE ReconnectAssumption, <1>2 DEF Enters, ReconnectInv, ReconnectTypeOK
<1>4. ASSUME NEW r \in Reconnectors, Reconnect(r) PROVE ReconnectInv'
  <2>1. ReconnectTypeOK'
    <3>1. reconnecting' \in BOOLEAN
      BY <1>4 DEF Reconnect
    <3>2. in' \in [Reconnectors -> {"out", "starting", "sleeping", "connecting", "failed",
                                    "giving_up", "succeeding"}]
      BY <1>4 DEF Reconnect
    <3>3. reconnects' \in 0..MaxReconnects /\ UNCHANGED <<attempts, delay, tried>>
      BY <1>4 DEF Reconnect
    <3>4. QED
      BY <3>1, <3>2, <3>3
  <2>2. Alone'
    BY <1>4 DEF Reconnect, Alone
  <2>3. Counted'
    BY <1>4 DEF Reconnect, Alone, Counted
  <2>4. QED
    BY <2>1, <2>2, <2>3
<1>5. ASSUME NEW r \in Reconnectors, Attempt(r) PROVE ReconnectInv'
  <2>1. ReconnectTypeOK'
    BY <1>5 DEF Attempt
  <2>2. Alone'
    BY <1>5 DEF Attempt, Alone
  <2>3. Counted'
    BY <1>5 DEF Attempt, Alone, Counted
  <2>4. QED
    BY <2>1, <2>2, <2>3
<1>6. ASSUME NEW r \in Reconnectors, Slept(r) PROVE ReconnectInv'
  <2>1. ReconnectTypeOK'
    BY <1>6 DEF Slept
  <2>2. Alone'
    BY <1>6 DEF Slept, Alone
  <2>3. Counted'
    BY <1>6 DEF Slept, Alone, Counted
  <2>4. QED
    BY <2>1, <2>2, <2>3
<1>7. ASSUME NEW r \in Reconnectors, ConnectFailed(r) PROVE ReconnectInv'
  <2>1. delay' \in InitialDelay..MaxDelay
    BY <1>7, BackOffGrows DEF ConnectFailed
  <2>2. ReconnectTypeOK'
    BY <1>7, <2>1 DEF ConnectFailed
  <2>3. Alone'
    BY <1>7 DEF ConnectFailed, Alone
  <2>4. Counted'
    BY <1>7 DEF ConnectFailed, Alone, Counted
  <2>5. QED
    BY <2>2, <2>3, <2>4
<1>8. ASSUME NEW r \in Reconnectors, Connected(r) PROVE ReconnectInv'
  <2>1. ReconnectTypeOK'
    BY <1>8 DEF Connected
  <2>2. Alone'
    BY <1>8 DEF Connected, Alone
  <2>3. Counted'
    BY <1>8 DEF Connected, Alone, Counted
  <2>4. QED
    BY <2>1, <2>2, <2>3
<1>9. ASSUME NEW r \in Reconnectors, Leaves(r) PROVE ReconnectInv'
  <2>1. ReconnectTypeOK'
    BY <1>9 DEF Leaves
  <2>2. Alone'
    BY <1>9 DEF Leaves, Alone
  <2>3. Counted'
    BY <1>9 DEF Leaves, Alone, Counted
  <2>4. QED
    BY <2>1, <2>2, <2>3
<1>10. QED
  BY <1>1, <1>3, <1>4, <1>5, <1>6, <1>7, <1>8, <1>9 DEF ReconnectNext, Reconnector

(* The invariant says what ReconnectSound counts with Cardinality. *)
LEMMA AloneIsOne == ReconnectInv => ReconnectSound
<1>1. SUFFICES ASSUME ReconnectInv PROVE ReconnectSound
  OBVIOUS
<1> DEFINE Inside == {r \in Reconnectors : in[r] # "out"}
<1>2. Cardinality(Inside) <= 1
  <2>1. CASE Inside = {}
    BY <2>1, FS_EmptySet
  <2>2. CASE Inside # {}
    <3>1. PICK r \in Reconnectors : in[r] # "out"
      BY <2>2
    <3>2. Inside = {r}
      BY <1>1, <3>1 DEF ReconnectInv, Alone
    <3>3. QED
      BY <3>2, FS_Singleton
  <2>3. QED
    BY <2>1, <2>2
<1>3. QED
  BY <1>1, <1>2 DEF ReconnectInv, Alone, Counted, ReconnectSound, OneReconnects, AttemptsBounded

(* Types, one loop at a time, and no more failed connections than           *)
(* max_attempts between two resets, for every instance of ReconnectManager. *)
THEOREM ReconnectSafety == ReconnectSpec => [](ReconnectTypeOK /\ ReconnectSound)
<1>1. ReconnectInv => ReconnectTypeOK /\ ReconnectSound
  BY AloneIsOne DEF ReconnectInv
<1>2. QED
  BY <1>1, ReconnectInitially, ReconnectKept, PTL DEF ReconnectSpec

-----------------------------------------------------------------------------
(* The configuration cache. *)

(* Answers wait in the order the simulator gave them, and none is older than *)
(* what set() has confirmed: the reason a get() resumed late cannot bring an *)
(* old configuration back.                                                   *)
AnswersInOrder ==
    /\ \A i, j \in 1..Len(resolved) : i <= j => resolved[i].version <= resolved[j].version
    /\ \A i \in 1..Len(resolved) :
          confirmed <= resolved[i].version /\ resolved[i].version <= config
    /\ confirmed <= config

ConfigInv == ConfigTypeOK /\ AnswersInOrder /\ ConfigFresh

\* Taking the first answer leaves the others as they were.
LEMMA TakeFirst ==
    ASSUME NEW s \in Seq(Answers), s # <<>>
    PROVE  /\ Head(s) \in Answers /\ Head(s) = s[1]
           /\ Tail(s) \in Seq(Answers)
           /\ Len(s) >= 1 /\ Len(Tail(s)) = Len(s) - 1
           /\ \A i \in 1..Len(Tail(s)) : Tail(s)[i] = s[i + 1]
OBVIOUS

LEMMA ConfigInvInit == ConfigInit => ConfigInv
<1> SUFFICES ASSUME ConfigInit PROVE ConfigInv
    OBVIOUS
<1>1. resolved = <<>> /\ Len(resolved) = 0 /\ resolved \in Seq(Answers)
    BY DEF ConfigInit
<1>2. asked \in Seq(Nat \X Kinds)
    BY DEF ConfigInit
<1>3. waits \in [Clients -> Nat]
    BY DEF ConfigInit
<1>4. AnswersInOrder
    BY <1>1 DEF AnswersInOrder, ConfigInit, Nothing
<1> QED
    BY <1>1, <1>2, <1>3, <1>4 DEF ConfigInit, ConfigInv, ConfigTypeOK, ConfigFresh, Nothing

LEMMA ConfigInvStep == ConfigInv /\ [ConfigNext]_configVars => ConfigInv'
<1> SUFFICES ASSUME ConfigInv, [ConfigNext]_configVars
             PROVE  ConfigInv'
    OBVIOUS
<1> USE DEF ConfigInv, ConfigTypeOK, ConfigFresh, Nothing
<1>1. ASSUME NEW c \in Clients, NEW kind \in Kinds, Request(c, kind)
      PROVE  /\ asks' \in Nat /\ asked' \in Seq(Nat \X Kinds) /\ waits' \in [Clients -> Nat]
             /\ UNCHANGED <<config, resolved, confirmed>>
    BY <1>1 DEF Request
<1>2. ASSUME NEW c \in Clients, NEW refresh \in BOOLEAN, get(c, refresh)
      PROVE  ConfigInv'
    BY <1>1, <1>2 DEF get, Kinds, AnswersInOrder
<1>3. ASSUME NEW c \in Clients, reload(c) PROVE ConfigInv'
    BY <1>1, <1>3 DEF reload, Kinds, AnswersInOrder
<1>4. ASSUME NEW c \in Clients, set(c) PROVE ConfigInv'
    BY <1>1, <1>4 DEF set, Kinds, AnswersInOrder
<1>5. ASSUME NEW c \in Clients, TimesOut(c) PROVE ConfigInv'
    BY <1>5 DEF TimesOut, AnswersInOrder
<1>6. CASE Expires
    BY <1>6 DEF Expires, AnswersInOrder
<1>7. CASE Replies
  <2>1. PICK done \in BOOLEAN :
            /\ config' = IF Head(asked)[2] = "set" /\ done THEN config + 1 ELSE config
            /\ \/ resolved' = resolved
               \/ resolved' = Append(resolved, [number |-> Head(asked)[1], kind |-> Head(asked)[2],
                                                done |-> done, version |-> config'])
      BY <1>7 DEF Replies
  <2>2. asked # <<>> /\ asked' = Tail(asked)
        /\ UNCHANGED <<cached, expired, waits, asks, confirmed>>
      BY <1>7 DEF Replies
  <2>3. Head(asked) \in Nat \X Kinds /\ asked' \in Seq(Nat \X Kinds)
      BY <2>2
  <2>4. config' \in Nat /\ config <= config'
      BY <2>1
  <2>5. CASE resolved' = resolved
    <3>1. \A i \in 1..Len(resolved) : resolved[i] \in Answers
        OBVIOUS
    <3>2. \A i \in 1..Len(resolved) :
             resolved[i].version \in Nat /\ resolved[i].version <= config
        BY <3>1 DEF AnswersInOrder, Answers
    <3>3. \A i \in 1..Len(resolved) : resolved[i].version <= config'
        BY <2>4, <3>2
    <3>4. confirmed <= config'
        BY <2>4 DEF AnswersInOrder
    <3>5. AnswersInOrder'
        BY <2>2, <2>5, <3>3, <3>4 DEF AnswersInOrder
    <3> QED BY <2>2, <2>3, <2>4, <2>5, <3>5
  <2>6. ASSUME NEW new, new = [number |-> Head(asked)[1], kind |-> Head(asked)[2],
                               done |-> done, version |-> config'],
               resolved' = Append(resolved, new)
        PROVE  ConfigInv'
    <3>1. new \in Answers /\ new.version = config'
        BY <2>1, <2>3, <2>4, <2>6 DEF Answers
    <3>2. /\ resolved' \in Seq(Answers) /\ Len(resolved') = Len(resolved) + 1
          /\ \A i \in 1..Len(resolved) : resolved'[i] = resolved[i]
          /\ resolved'[Len(resolved) + 1] = new
        BY <2>6, <3>1
    <3>3. Len(resolved) \in Nat /\ confirmed <= config /\ confirmed \in Nat \cup {-1}
        BY DEF AnswersInOrder
    <3>4. ASSUME NEW i \in 1..Len(resolved)
          PROVE  resolved'[i] = resolved[i] /\ resolved[i].version \in Nat
                 /\ confirmed <= resolved[i].version /\ resolved[i].version <= config'
      <4>1. resolved[i].version <= config /\ confirmed <= resolved[i].version
          BY DEF AnswersInOrder
      <4>2. resolved[i].version \in Nat
        <5>1. resolved[i] \in Answers
            OBVIOUS
        <5> QED BY <5>1 DEF Answers
      <4> QED BY <2>4, <3>2, <4>1, <4>2
    <3>5. \A i \in 1..Len(resolved') :
             confirmed' <= resolved'[i].version /\ resolved'[i].version <= config'
      <4> TAKE i \in 1..Len(resolved')
      <4>1. CASE i \in 1..Len(resolved)
          BY <2>2, <3>4, <4>1
      <4>2. CASE i = Len(resolved) + 1
          BY <2>2, <2>4, <3>1, <3>2, <3>3, <4>2
      <4> QED BY <3>2, <3>3, <4>1, <4>2
    <3>6. \A i, j \in 1..Len(resolved') : i <= j => resolved'[i].version <= resolved'[j].version
      <4> TAKE i, j \in 1..Len(resolved')
      <4> HAVE i <= j
      <4>1. CASE j \in 1..Len(resolved)
        <5>1. i \in 1..Len(resolved)
            BY <3>2, <3>3, <4>1
        <5> QED BY <3>4, <4>1, <5>1 DEF AnswersInOrder
      <4>2. CASE j = Len(resolved) + 1 /\ i \in 1..Len(resolved)
          BY <3>1, <3>2, <3>4, <4>2
      <4>3. CASE j = Len(resolved) + 1 /\ i = j
          BY <2>4, <3>1, <3>2, <4>3
      <4> QED BY <3>2, <3>3, <4>1, <4>2, <4>3
    <3>7. AnswersInOrder'
        BY <2>2, <2>4, <3>3, <3>5, <3>6 DEF AnswersInOrder
    <3> QED BY <2>2, <2>3, <2>4, <3>2, <3>7
  <2> QED BY <2>1, <2>5, <2>6
<1>8. ASSUME NEW c \in Clients, GetReturns(c) \/ SetReturns(c)
      PROVE  ConfigInv'
  <2>1. /\ resolved # <<>> /\ resolved' = Tail(resolved)
        /\ waits' \in [Clients -> Nat]
        /\ UNCHANGED <<config, asked, asks>>
    <3>1. Continues(c)
        BY <1>8 DEF GetReturns, SetReturns
    <3>2. waits' = [waits EXCEPT ![c] = 0] /\ waits \in [Clients -> Nat]
        BY <3>1 DEF Continues
    <3>3. waits' \in [Clients -> Nat]
        BY <3>2
    <3> QED BY <3>1, <3>3 DEF Continues
  <2>2. /\ answer \in Answers /\ answer = resolved[1]
        /\ resolved' \in Seq(Answers)
        /\ Len(resolved) >= 1 /\ Len(resolved') = Len(resolved) - 1
        /\ \A i \in 1..Len(resolved') : resolved'[i] = resolved[i + 1]
      BY <2>1, TakeFirst DEF answer
  <2>3. /\ answer.version \in Nat /\ confirmed <= answer.version /\ answer.version <= config
        /\ \A i \in 1..Len(resolved') :
              answer.version <= resolved'[i].version /\ resolved'[i].version <= config
    <3>1. 1 \in 1..Len(resolved) /\ \A i \in 1..Len(resolved') : i + 1 \in 1..Len(resolved) /\ 1 <= i + 1
        BY <2>2
    <3>2. \A i \in 1..Len(resolved) :
             /\ confirmed <= resolved[i].version /\ resolved[i].version <= config
             /\ resolved[1].version <= resolved[i].version
      <4>1. \A i \in 1..Len(resolved) : 1 <= i
          OBVIOUS
      <4> QED BY <3>1, <4>1 DEF AnswersInOrder
    <3>3. answer.version \in Nat
        BY <2>2 DEF Answers
    <3> QED BY <2>2, <3>1, <3>2, <3>3
  <2>4. \A i, j \in 1..Len(resolved') : i <= j => resolved'[i].version <= resolved'[j].version
    <3> TAKE i, j \in 1..Len(resolved')
    <3> HAVE i <= j
    <3>1. i + 1 \in 1..Len(resolved) /\ j + 1 \in 1..Len(resolved) /\ i + 1 <= j + 1
        BY <2>2
    <3>2. resolved[i + 1].version <= resolved[j + 1].version
        BY <3>1 DEF AnswersInOrder
    <3> QED BY <2>2, <3>2
  <2>5. confirmed' = confirmed \/ confirmed' = answer.version
      BY <1>8 DEF GetReturns, SetReturns
  <2>6. AnswersInOrder'
    <3>1. confirmed' <= config
        BY <2>3, <2>5 DEF AnswersInOrder
    <3>2. \A i \in 1..Len(resolved') : confirmed' <= resolved'[i].version
      <4> TAKE i \in 1..Len(resolved')
      <4>1. answer.version <= resolved'[i].version /\ resolved'[i].version \in Nat
        <5>1. i \in 1..Len(resolved) /\ resolved'[i] \in Answers
            BY <2>2
        <5> QED BY <2>3, <5>1 DEF Answers
      <4> QED BY <2>3, <2>5, <4>1
    <3> QED BY <2>1, <2>3, <2>4, <3>1, <3>2 DEF AnswersInOrder
  <2>7. CASE GetReturns(c)
      BY <2>1, <2>2, <2>3, <2>6, <2>7 DEF GetReturns
  <2>8. CASE SetReturns(c)
      BY <2>1, <2>2, <2>3, <2>6, <2>8 DEF SetReturns
  <2> QED BY <1>8, <2>7, <2>8
<1>9. CASE UNCHANGED configVars
    BY <1>9 DEF configVars, AnswersInOrder
<1> QED
    BY <1>2, <1>3, <1>4, <1>5, <1>6, <1>7, <1>8, <1>9 DEF ConfigNext

(* The cache never holds, and get() and get_cached() never hand out, a       *)
(* configuration older than one a set() has reported applied.                *)
THEOREM ConfigSafety == ConfigSpec => [](ConfigTypeOK /\ ConfigFresh)
<1>1. ConfigInv => ConfigTypeOK /\ ConfigFresh
    BY DEF ConfigInv
<1> QED
    BY ConfigInvInit, ConfigInvStep, <1>1, PTL DEF ConfigSpec

-----------------------------------------------------------------------------
(* The link to the simulator. *)

RequestIds  == Requesters \X Nat
ReplyValues == [is : {"unset", "raised", "present", "absent", "list", "done"},
                ues : SUBSET Imsis]
CallNames   == {"wait", "get", "list", "detach", "send"}
Answered    == [id : RequestIds, reply : ReplyValues \ {Unset}]
Happened    == [event : {"ue_attached", "ue_detached"}, of : Imsis]
               \cup [event : {"sms_sent", "sms_final"}, of : RequestIds]

(* LinkTypeOK, and the types of what is on its way. *)
LinkTypes ==
    /\ up \in BOOLEAN /\ connected \in BOOLEAN /\ wire \in BOOLEAN
    /\ attached \subseteq Imsis /\ cache \subseteq Imsis
    /\ carried \subseteq RequestIds
    /\ events \in 0..MaxEvents
    /\ requests \in Seq([id : RequestIds, name : CallNames, imsi : Imsis])
    /\ messages \in Seq(Answered \cup Happened)
    /\ registered \subseteq RequestIds
    /\ future \in [Requesters -> ReplyValues]
    /\ calls \in [Requesters -> 0..MaxTaskCalls]
    /\ op \in [Tasks -> [name : CallNames, imsi : Imsis]]
    /\ at \in [Tasks -> {"idle", "asking", "waiting"}]
    /\ loop \in {"receiving", "listening", "asking", "ended"}
    /\ waiters \in [Imsis -> SUBSET Tasks] /\ woken \subseteq Tasks
    /\ unfiled \subseteq RequestIds
    /\ history \in Seq(RequestIds) /\ Len(history) <= HistorySize

Awaits(r) == IF r = Listener THEN loop = "asking" ELSE at[r] = "asking"

(* _pending_requests holds the requests that are awaited, and no others,    *)
(* until disconnect() empties it and settles their futures.                 *)
PendingMatch ==
    /\ \A id \in registered : id = Id(id[1]) /\ Awaits(id[1])
    /\ up => \A r \in Requesters : Awaits(r) => Id(r) \in registered
    /\ ~up => /\ ~connected /\ registered = {}
              /\ \A r \in Requesters : Awaits(r) => future[r] # Unset

WaitersMatch ==
    \A i \in Imsis, t \in Tasks : t \in waiters[i] => at[t] = "waiting" /\ op[t].imsi = i

(* What is filed or about to be is the message of a call that is over. *)
FiledOnce ==
    /\ SmsFiledOnce
    /\ \A m \in unfiled \cup ToSet(history) :
           m[1] \in Tasks /\ m[2] <= calls[m[1]] /\ (at[m[1]] = "asking" => m[2] < calls[m[1]])

LinkInv == LinkTypes /\ PendingMatch /\ WaitersMatch /\ FiledOnce

(* A message is an answer or an event, and Receive can tell which. *)
LEMMA MessageShapes ==
  /\ \A m \in Answered : "id" \in DOMAIN m /\ "event" \notin DOMAIN m
  /\ \A m \in Happened : "event" \in DOMAIN m /\ "id" \notin DOMAIN m
  BY DEF Answered, Happened

LEMMA LinkInitially == LinkInit => LinkInv
<1> SUFFICES ASSUME LinkInit PROVE LinkInv
  OBVIOUS
<1> USE LinkAssumption
<1>1. /\ <<>> \in Seq([id : RequestIds, name : CallNames, imsi : Imsis])
      /\ <<>> \in Seq(Answered \cup Happened)
      /\ <<>> \in Seq(RequestIds) /\ Len(<<>>) = 0
      /\ ToSet(<<>>) = {} /\ IsInjective(<<>>)
  BY DEF ToSet, IsInjective
<1>2. LinkTypes
  <2>1. Unset \in ReplyValues
    BY DEF Unset, Reply, ReplyValues
  <2>2. 0 \in 0..MaxTaskCalls /\ 0 \in 0..MaxEvents /\ 0 <= HistorySize
    OBVIOUS
  <2>3. op \in [Tasks -> [name : CallNames, imsi : Imsis]]
    BY DEF LinkInit, CallNames
  <2> QED
    BY <1>1, <2>1, <2>2, <2>3 DEF LinkInit, LinkTypes
<1>3. PendingMatch
  BY DEF LinkInit, PendingMatch, Awaits, Requesters
<1>4. WaitersMatch
  BY DEF LinkInit, WaitersMatch
<1>5. FiledOnce
  BY <1>1 DEF LinkInit, FiledOnce, SmsFiledOnce
<1> QED
  BY <1>2, <1>3, <1>4, <1>5 DEF LinkInv

(* What a call sends is a request with its number. *)
LEMMA SendsTypes ==
  ASSUME LinkTypes, NEW r \in Requesters, calls[r] < MaxTaskCalls,
         NEW what \in [name : CallNames, imsi : Imsis], Sends(r, what)
  PROVE  /\ future' = [future EXCEPT ![r] = Unset] /\ future' \in [Requesters -> ReplyValues]
         /\ calls' = [calls EXCEPT ![r] = @ + 1] /\ calls' \in [Requesters -> 0..MaxTaskCalls]
         /\ registered' = registered \cup {<<r, calls[r] + 1>>} /\ registered' \subseteq RequestIds
         /\ requests' \in Seq([id : RequestIds, name : CallNames, imsi : Imsis])
<1> USE LinkAssumption DEF LinkTypes, Sends
<1>1. Unset \in ReplyValues
  BY DEF Unset, Reply, ReplyValues
<1>2. calls[r] + 1 \in 0..MaxTaskCalls /\ calls[r] + 1 \in Nat
  OBVIOUS
<1>3. <<r, calls[r] + 1>> \in RequestIds
  BY <1>2 DEF RequestIds
<1>4. requests' \in Seq([id : RequestIds, name : CallNames, imsi : Imsis])
  BY <1>3, AppendFacts
<1> QED
  BY <1>1, <1>2, <1>3, <1>4

LEMMA LinkTypesKept == LinkInv /\ [LinkNext]_linkVars => LinkTypes'
<1> SUFFICES ASSUME LinkInv, [LinkNext]_linkVars PROVE LinkTypes'
  OBVIOUS
<1>0. LinkTypes
  BY DEF LinkInv
<1> USE LinkAssumption, <1>0 DEF external, managers
<1>1. Unset \in ReplyValues /\ Raised \in ReplyValues \ {Unset}
  BY DEF Unset, Raised, Reply, ReplyValues
<1>2. CASE Serve
  <2> DEFINE q == Head(requests)
  <2>1. /\ q \in [id : RequestIds, name : CallNames, imsi : Imsis]
        /\ requests' \in Seq([id : RequestIds, name : CallNames, imsi : Imsis])
    BY <1>2, TailFacts DEF Serve, LinkTypes
  <2>2. ASSUME NEW r \in ReplyValues \ {Unset}
        PROVE  /\ [id |-> q.id, reply |-> r] \in Answered \cup Happened
               /\ Append(messages, [id |-> q.id, reply |-> r]) \in Seq(Answered \cup Happened)
    <3>1. [id |-> q.id, reply |-> r] \in Answered \cup Happened
      BY <2>1, <2>2 DEF Answered
    <3> QED
      BY <3>1 DEF LinkTypes
  <2>3. /\ \A ues \in SUBSET Imsis, is \in {"present", "absent", "list", "done"} :
               Reply(is, ues) \in ReplyValues \ {Unset}
    BY DEF Reply, ReplyValues, Unset
  <2>4. messages \o <<[id |-> q.id, reply |-> Reply("done", {})],
                      [event |-> "ue_detached", of |-> q.imsi]>> \in Seq(Answered \cup Happened)
    <3>1. [event |-> "ue_detached", of |-> q.imsi] \in Answered \cup Happened
      BY <2>1 DEF Happened
    <3>2. [id |-> q.id, reply |-> Reply("done", {})] \in Answered \cup Happened
      BY <2>2, <2>3
    <3>3. <<[id |-> q.id, reply |-> Reply("done", {})],
            [event |-> "ue_detached", of |-> q.imsi]>> \in Seq(Answered \cup Happened)
      BY <3>1, <3>2
    <3> QED
      BY <3>3, ConcatFacts DEF LinkTypes
  <2>5. /\ messages' \in Seq(Answered \cup Happened)
        /\ attached' \subseteq Imsis /\ carried' \subseteq RequestIds
    <3>1. \/ /\ messages' = Append(messages, [id |-> q.id, reply |-> Raised])
             /\ UNCHANGED <<attached, carried>>
          \/ /\ \E ues \in SUBSET Imsis, is \in {"present", "absent", "list", "done"} :
                    messages' = Append(messages, [id |-> q.id, reply |-> Reply(is, ues)])
             /\ UNCHANGED attached /\ carried' \in {carried, carried \cup {q.id}}
          \/ /\ messages' = messages \o <<[id |-> q.id, reply |-> Reply("done", {})],
                                          [event |-> "ue_detached", of |-> q.imsi]>>
             /\ attached' = attached \ {q.imsi} /\ UNCHANGED carried
      <4>1. attached \in SUBSET Imsis /\ {} \in SUBSET Imsis
        BY DEF LinkTypes
      <4> QED
        BY <1>2, <4>1 DEF Serve
    <3>2. /\ attached \subseteq Imsis /\ carried \subseteq RequestIds
          /\ carried \cup {q.id} \subseteq RequestIds
      BY <2>1 DEF LinkTypes
    <3> HIDE DEF q
    <3> QED
      BY <1>1, <2>2, <2>3, <2>4, <3>1, <3>2
  <2>6. UNCHANGED <<up, connected, wire, events, registered, future, calls, op, at, loop,
                    managers>>
    BY <1>2 DEF Serve
  <2> QED
    BY <2>1, <2>5, <2>6 DEF LinkTypes
<1>3. CASE UEMoves \/ SmsMoves
  <2>1. PICK name, of : /\ Happens(name, of)
                        /\ [event |-> name, of |-> of] \in Answered \cup Happened
                        /\ attached' \subseteq Imsis /\ carried' \subseteq RequestIds
    <3>1. CASE UEMoves
      BY <3>1 DEF UEMoves, LinkTypes, Happened
    <3>2. CASE SmsMoves
      BY <3>2 DEF SmsMoves, LinkTypes, Happened
    <3> QED
      BY <1>3, <3>1, <3>2
  <2>2. messages' \in Seq(Answered \cup Happened) /\ events' \in 0..MaxEvents
    BY <2>1 DEF Happens, LinkTypes
  <2> QED
    BY <2>1, <2>2 DEF Happens, LinkTypes
<1>4. CASE WireBreaks
  <2>1. PICK n \in 0..Len(messages) : messages' = SubSeq(messages, 1, n)
    BY <1>4 DEF WireBreaks
  <2>2. \A i \in 1..n : messages[i] \in Answered \cup Happened
    BY <2>1 DEF LinkTypes
  <2>3. messages' \in Seq(Answered \cup Happened)
    BY <2>1, <2>2, SubSeqProperties DEF LinkTypes
  <2>4. requests' \in Seq([id : RequestIds, name : CallNames, imsi : Imsis])
    BY <1>4 DEF WireBreaks
  <2>5. UNCHANGED <<up, connected, events, registered, future, calls, op, at, loop, managers>>
        /\ attached' = {} /\ carried' = {} /\ wire' = FALSE
    BY <1>4 DEF WireBreaks
  <2> QED
    BY <2>3, <2>4, <2>5 DEF LinkTypes
<1>5. ASSUME NEW t \in Tasks, CallReturns(t) PROVE LinkTypes'
  <2>1. calls' \in [Requesters -> 0..MaxTaskCalls]
    <3>1. calls[t] + 1 \in 0..MaxTaskCalls
      BY <1>5 DEF CallReturns, LinkTypes, Requesters
    <3> QED
      BY <1>5, <3>1 DEF CallReturns, LinkTypes
  <2>2. connected' \in BOOLEAN /\ at' \in [Tasks -> {"idle", "asking", "waiting"}]
    BY <1>5 DEF CallReturns, Returns, LinkTypes
  <2> QED
    BY <1>5, <2>1, <2>2 DEF CallReturns, LinkTypes
<1>6. ASSUME NEW t \in Tasks, CallAsks(t) PROVE LinkTypes'
  <2>1. t \in Requesters /\ op[t] \in [name : CallNames, imsi : Imsis]
    BY DEF Requesters, LinkTypes
  <2>2. /\ future' \in [Requesters -> ReplyValues] /\ calls' \in [Requesters -> 0..MaxTaskCalls]
        /\ registered' \subseteq RequestIds
        /\ requests' \in Seq([id : RequestIds, name : CallNames, imsi : Imsis])
    BY <1>6, <2>1, SendsTypes DEF CallAsks
  <2> QED
    BY <1>6, <2>2 DEF CallAsks, LinkTypes
<1>7. CASE ListenerAsks
  <2>1. PICK i \in Imsis : Sends(Listener, [name |-> "get", imsi |-> i])
    BY <1>7 DEF ListenerAsks
  <2>2. /\ Listener \in Requesters /\ calls[Listener] < MaxTaskCalls
        /\ [name |-> "get", imsi |-> i] \in [name : CallNames, imsi : Imsis]
    BY <1>7 DEF Requesters, CallNames, ListenerAsks
  <2>3. /\ future' \in [Requesters -> ReplyValues] /\ calls' \in [Requesters -> 0..MaxTaskCalls]
        /\ registered' \subseteq RequestIds
        /\ requests' \in Seq([id : RequestIds, name : CallNames, imsi : Imsis])
    BY <2>1, <2>2, SendsTypes
  <2> QED
    BY <1>7, <2>3 DEF ListenerAsks, LinkTypes
<1>8. CASE Receive
  <2> DEFINE m == Head(messages)
  <2>1. /\ m \in Answered \cup Happened /\ messages' \in Seq(Answered \cup Happened)
    BY <1>8, TailFacts DEF Receive, LinkTypes
  <2>2. /\ future' \in [Requesters -> ReplyValues] /\ cache' \subseteq Imsis
        /\ loop' \in {"receiving", "listening", "asking", "ended"}
        /\ waiters' \in [Imsis -> SUBSET Tasks] /\ woken' \subseteq Tasks
        /\ unfiled' \subseteq RequestIds
        /\ history' \in Seq(RequestIds) /\ Len(history') <= HistorySize
    <3>1. CASE "id" \in DOMAIN m /\ Answer(m)
      <4>1. m \in Answered
        BY <2>1, <3>1, MessageShapes
      <4>2. m.reply \in ReplyValues
        BY <4>1 DEF Answered
      <4> QED
        BY <3>1, <4>2 DEF Answer, LinkTypes
    <3>2. CASE m.event = "ue_attached" /\ Attached(m.of) /\ "event" \in DOMAIN m
      <4>1. m.of \in Imsis
        <5>1. m \in Happened
          BY <2>1, <3>2, MessageShapes
        <5> QED
          BY <3>2, <5>1 DEF Happened
      <4> HIDE DEF m
      <4> QED
        BY <3>2, <4>1 DEF Attached, Emits, LinkTypes
    <3>3. CASE m.event = "ue_detached" /\ Detached(m.of) /\ "event" \in DOMAIN m
      BY <3>3 DEF Detached, Emits, LinkTypes
    <3>4. ASSUME NEW final \in BOOLEAN, StatusCame(m.of, final)
          PROVE  /\ UNCHANGED <<future, cache, waiters, woken>>
                 /\ loop' \in {"receiving", "listening"}
                 /\ unfiled' \subseteq unfiled
                 /\ history' \in Seq(RequestIds) /\ Len(history') <= HistorySize
      <4> HIDE DEF m
      <4>1. CASE m.of \in unfiled /\ final
        <5>1. /\ Append(history, m.of) \in Seq(RequestIds)
              /\ Len(Append(history, m.of)) = Len(history) + 1 /\ Len(history) \in Nat
          BY <4>1, AppendFacts DEF LinkTypes
        <5> DEFINE longer == Append(history, m.of)
        <5>2. /\ longer # <<>> /\ Tail(longer) \in Seq(RequestIds)
              /\ Len(Tail(longer)) = Len(longer) - 1
          BY <5>1, TailFacts
        <5>3. history' = IF Len(longer) > HistorySize THEN Tail(longer) ELSE longer
          BY <3>4, <4>1 DEF StatusCame, File
        <5>4. Len(history) <= HistorySize
          BY DEF LinkTypes
        <5> HIDE DEF longer
        <5>5. Len(longer) = Len(history) + 1
          BY <5>1 DEF longer
        <5>6. history' \in Seq(RequestIds) /\ Len(history') <= HistorySize
          BY <5>1, <5>2, <5>3, <5>4, <5>5 DEF longer
        <5> QED
          BY <3>4, <4>1, <5>6 DEF StatusCame, Emits
      <4>2. CASE ~(m.of \in unfiled /\ final)
        BY <3>4, <4>2 DEF StatusCame, Emits, LinkTypes
      <4> QED
        BY <4>1, <4>2
    <3> QED
      BY <1>8, <3>1, <3>2, <3>3, <3>4 DEF Receive, LinkTypes
  <2> QED
    BY <1>8, <2>1, <2>2 DEF Receive, LinkTypes
<1>9. CASE LoopEnds \/ ListenerReturns \/ LoopCancelled
  BY <1>9 DEF LoopEnds, ListenerReturns, LoopCancelled, LinkTypes
<1>10. CASE ListenerEnds
  BY <1>1, <1>10 DEF ListenerEnds, RequestEnds, LinkTypes
<1> DEFINE Managed == /\ cache' \subseteq Imsis /\ woken' \subseteq Tasks
                      /\ waiters' \in [Imsis -> SUBSET Tasks] /\ unfiled' \subseteq RequestIds
                      /\ at' \in [Tasks -> {"idle", "asking", "waiting"}]
<1>t. /\ cache \subseteq Imsis /\ woken \subseteq Tasks
      /\ waiters \in [Imsis -> SUBSET Tasks] /\ unfiled \subseteq RequestIds
      /\ at \in [Tasks -> {"idle", "asking", "waiting"}]
  BY DEF LinkTypes
<1>11. ASSUME NEW t \in Tasks, Returns(t) PROVE at' \in [Tasks -> {"idle", "asking", "waiting"}]
  BY <1>t, <1>11 DEF Returns
<1>w. ASSUME NEW t \in Tasks, WaitsOn(t) PROVE Managed
  <2>1. waiters' \in [Imsis -> SUBSET Tasks]
    <3>1. op[t].imsi \in Imsis
      BY DEF LinkTypes
    <3> QED
      BY <1>t, <1>w, <3>1 DEF WaitsOn
  <2> QED
    BY <1>t, <1>w, <2>1 DEF WaitsOn
<1>12. ASSUME NEW t \in Tasks, NEW value \in ReplyValues, Concludes(t, value) PROVE Managed
  <2>1. value.ues \subseteq Imsis /\ op[t].imsi \in Imsis /\ Id(t) \in RequestIds
    BY <1>12 DEF ReplyValues, LinkTypes, Id, RequestIds, Requesters
  <2>2. CASE WaitsOn(t)
    BY <1>w, <2>2
  <2>3. CASE /\ cache' \in {cache, cache \cup {op[t].imsi}, cache \ {op[t].imsi}, value.ues}
             /\ unfiled' \in {unfiled, unfiled \cup {Id(t)}}
             /\ Returns(t) /\ UNCHANGED <<waiters, woken>>
    <3>1. cache' \subseteq Imsis /\ unfiled' \subseteq RequestIds
      BY <1>t, <2>1, <2>3
    <3> QED
      BY <1>t, <1>11, <2>3, <3>1
  <2> QED
    BY <1>12, <2>2, <2>3 DEF Concludes
<1>13. ASSUME NEW t \in Tasks, Resume(t) \/ RequestTimesOut(t) PROVE LinkTypes'
  <2>1. RequestEnds(t)
        /\ UNCHANGED <<up, connected, external, requests, messages, calls, op, loop, history>>
    BY <1>13 DEF Resume, RequestTimesOut
  <2>2. registered' \subseteq RequestIds /\ future' \in [Requesters -> ReplyValues]
    BY <1>1, <2>1 DEF RequestEnds, LinkTypes
  <2>3. Fails(t) \/ \E value \in ReplyValues : Concludes(t, value)
    <3>1. t \in Requesters /\ future[t] \in ReplyValues
      BY DEF LinkTypes, Requesters
    <3> QED
      BY <1>13, <3>1 DEF Resume, RequestTimesOut
  <2>4. ASSUME Fails(t) PROVE Managed
    <3>1. WaitsOn(t) \/ (Returns(t) /\ UNCHANGED <<cache, waiters, woken, unfiled>>)
      BY <2>4 DEF Fails
    <3> QED
      BY <1>t, <1>11, <1>w, <3>1
  <2>5. Managed
    BY <1>12, <2>3, <2>4
  <2> QED
    BY <2>1, <2>2, <2>5 DEF LinkTypes
<1>14. ASSUME NEW t \in Tasks, WaitEnds(t) PROVE LinkTypes'
  BY <1>14 DEF WaitEnds, Returns, LinkTypes
<1>15. CASE Disconnect
  <2>1. future' \in [Requesters -> ReplyValues]
    BY <1>1, <1>15 DEF Disconnect, LinkTypes
  <2>2. /\ requests' \in Seq([id : RequestIds, name : CallNames, imsi : Imsis])
        /\ messages' \in Seq(Answered \cup Happened)
    BY <1>15 DEF Disconnect
  <2>3. /\ up' = FALSE /\ registered' = {} /\ connected' = FALSE /\ wire' = FALSE
        /\ attached' = {} /\ carried' = {}
        /\ UNCHANGED <<events, calls, op, at, loop, managers>>
    BY <1>15 DEF Disconnect
  <2> QED
    BY <2>1, <2>2, <2>3 DEF LinkTypes
<1>16. CASE UNCHANGED linkVars
  BY <1>16 DEF linkVars, LinkTypes
<1> QED
  BY <1>2, <1>3, <1>4, <1>5, <1>6, <1>7, <1>8, <1>9, <1>10, <1>13, <1>14, <1>15, <1>16
  DEF LinkNext, Task, Loop, Simulator

LEMMA PendingKept == LinkInv /\ [LinkNext]_linkVars => PendingMatch'
<1> SUFFICES ASSUME LinkInv, [LinkNext]_linkVars PROVE PendingMatch'
  OBVIOUS
<1>0. LinkTypes /\ PendingMatch
  BY DEF LinkInv
<1>t. /\ registered \subseteq RequestIds /\ up \in BOOLEAN
      /\ future \in [Requesters -> ReplyValues] /\ calls \in [Requesters -> 0..MaxTaskCalls]
      /\ at \in [Tasks -> {"idle", "asking", "waiting"}]
      /\ Listener \in Requesters /\ Tasks \subseteq Requesters /\ Listener \notin Tasks
      /\ \A r \in Requesters : r = Listener \/ r \in Tasks
      /\ \A id \in registered : id[1] \in Requesters
  BY <1>0, LinkAssumption DEF LinkTypes, Requesters, RequestIds
<1> USE DEF external, managers
(* The same calls ask, and no future is taken back. *)
<1>1. ASSUME UNCHANGED <<registered, calls, up>>, ~up => ~connected',
             \A r \in Requesters : /\ Awaits(r)' <=> Awaits(r)
                                   /\ future[r] # Unset => future'[r] # Unset
      PROVE  PendingMatch'
  BY <1>0, <1>1, <1>t DEF PendingMatch, Id
<1>2. CASE Serve \/ UEMoves \/ SmsMoves \/ WireBreaks \/ UNCHANGED linkVars
  <2>1. UNCHANGED <<registered, calls, up, connected, at, loop, future>>
    BY <1>2 DEF Serve, UEMoves, SmsMoves, Happens, WireBreaks, linkVars
  <2> QED
    BY <1>0, <1>1, <2>1 DEF Awaits, PendingMatch
<1>3. ASSUME NEW t \in Tasks, WaitEnds(t) PROVE PendingMatch'
  <2>1. UNCHANGED <<registered, calls, up, connected, loop, future>>
    BY <1>3 DEF WaitEnds
  <2>2. \A r \in Requesters : Awaits(r)' <=> Awaits(r)
    BY <1>3, <1>t, <2>1 DEF WaitEnds, Returns, Awaits
  <2> QED
    BY <1>0, <1>1, <2>1, <2>2 DEF PendingMatch
<1>4. CASE ListenerReturns \/ LoopEnds
  <2>1. UNCHANGED <<registered, calls, up, at, future>> /\ (~connected => ~connected')
    BY <1>4 DEF ListenerReturns, LoopEnds
  <2>2. loop # "asking" /\ loop' # "asking"
    BY <1>4 DEF ListenerReturns, LoopEnds
  <2> QED
    BY <1>0, <1>1, <2>1, <2>2 DEF PendingMatch, Awaits
<1>5. CASE Receive
  <2>1. UNCHANGED <<registered, calls, up, connected, at>>
    BY <1>5 DEF Receive
  <2>2. loop # "asking" /\ loop' # "asking"
    BY <1>5 DEF Receive, Answer, Attached, Detached, StatusCame, Emits
  <2>3. \A r \in Requesters : future[r] # Unset => future'[r] # Unset
    <3>1. CASE "id" \in DOMAIN Head(messages) /\ Answer(Head(messages))
      <4>1. Head(messages) \in Answered
        BY <1>0, <1>5, <3>1, TailFacts, MessageShapes DEF Receive, LinkTypes
      <4>2. Head(messages).reply # Unset
        BY <4>1 DEF Answered
      <4> QED
        BY <1>t, <3>1, <4>2 DEF Answer
    <3>2. CASE UNCHANGED future
      BY <3>2
    <3> QED
      BY <1>5, <3>1, <3>2 DEF Receive, Attached, Detached, StatusCame, Emits
  <2> QED
    BY <1>0, <1>1, <2>1, <2>2, <2>3 DEF PendingMatch, Awaits
<1>6. ASSUME NEW t \in Tasks, CallReturns(t) PROVE PendingMatch'
  <2>1. UNCHANGED <<registered, up, loop, future>> /\ up /\ ~Awaits(t)
        /\ calls' = [calls EXCEPT ![t] = @ + 1]
    BY <1>6, <1>t DEF CallReturns, Awaits
  <2>2. at' = at
    BY <1>6, <1>t DEF CallReturns, Returns
  <2>3. \A r \in Requesters : Awaits(r)' <=> Awaits(r)
    BY <2>1, <2>2 DEF Awaits
  <2>4. \A r \in Requesters : r # t => calls'[r] = calls[r]
    BY <1>t, <2>1
  <2> QED
    BY <1>0, <1>t, <2>1, <2>3, <2>4 DEF PendingMatch, Id
(* A new call asks: it has no other request. *)
<1>7. ASSUME NEW r \in Requesters, NEW what \in [name : CallNames, imsi : Imsis],
             Sends(r, what), calls[r] < MaxTaskCalls, up, up', ~Awaits(r), Awaits(r)',
             \A q \in Requesters : q # r => (Awaits(q)' <=> Awaits(q))
      PROVE  PendingMatch'
  <2>1. /\ registered' = registered \cup {<<r, calls[r] + 1>>}
        /\ calls' = [calls EXCEPT ![r] = @ + 1]
    BY <1>7 DEF Sends
  <2>2. Id(r)' = <<r, calls[r] + 1>> /\ \A q \in Requesters : q # r => Id(q)' = Id(q)
    BY <1>t, <2>1 DEF Id
  <2>3. \A id \in registered : id[1] # r
    BY <1>0, <1>7 DEF PendingMatch
  <2>4. \A id \in registered' : id = <<id[1], calls'[id[1]]>> /\ Awaits(id[1])'
    <3> TAKE id \in registered'
    <3>1. CASE id \in registered
      <4>1. id[1] # r /\ id[1] \in Requesters /\ id = Id(id[1]) /\ Awaits(id[1])
        BY <1>0, <1>t, <2>3, <3>1 DEF PendingMatch
      <4> QED
        BY <1>7, <1>t, <2>1, <4>1 DEF Id
    <3>2. CASE id = <<r, calls[r] + 1>>
      BY <1>7, <1>t, <2>1, <3>2
    <3> QED
      BY <2>1, <3>1, <3>2
  <2>5. \A q \in Requesters : Awaits(q)' => <<q, calls'[q]>> \in registered'
    BY <1>0, <1>7, <1>t, <2>1 DEF PendingMatch, Id
  <2> QED
    BY <1>7, <2>4, <2>5 DEF PendingMatch, Id
<1>8. ASSUME NEW t \in Tasks, CallAsks(t) PROVE PendingMatch'
  <2>1. op[t] \in [name : CallNames, imsi : Imsis]
    BY <1>0 DEF LinkTypes
  <2>2. ~Awaits(t) /\ Awaits(t)' /\ \A q \in Requesters : q # t => (Awaits(q)' <=> Awaits(q))
    BY <1>8, <1>t DEF CallAsks, Awaits
  <2> QED
    BY <1>7, <1>8, <1>t, <2>1, <2>2 DEF CallAsks
<1>9. CASE ListenerAsks
  <2>1. PICK i \in Imsis : Sends(Listener, [name |-> "get", imsi |-> i])
    BY <1>9 DEF ListenerAsks
  <2>2. [name |-> "get", imsi |-> i] \in [name : CallNames, imsi : Imsis]
    BY DEF CallNames
  <2>3. /\ ~Awaits(Listener) /\ Awaits(Listener)'
        /\ \A q \in Requesters : q # Listener => (Awaits(q)' <=> Awaits(q))
    BY <1>9, <1>t DEF ListenerAsks, Awaits
  <2>4. up /\ up'
    BY <1>0, <1>9 DEF ListenerAsks, PendingMatch
  <2> QED
    BY <1>7, <1>9, <1>t, <2>1, <2>2, <2>3, <2>4 DEF ListenerAsks
(* A request ends with its call. *)
<1>10. ASSUME NEW r \in Requesters, RequestEnds(r), ~Awaits(r)',
              UNCHANGED <<calls, up, connected>>,
              \A q \in Requesters : q # r => (Awaits(q)' <=> Awaits(q))
       PROVE  PendingMatch'
  <2>1. /\ registered' = registered \ {Id(r)}
        /\ \A q \in Requesters : q # r => future'[q] = future[q]
    BY <1>10, <1>t DEF RequestEnds
  <2>2. \A id \in registered' : id[1] # r
    BY <1>0, <2>1 DEF PendingMatch
  <2>3. \A q \in Requesters : q # r => Id(q) # Id(r)
    BY DEF Id
  <2> QED
    BY <1>0, <1>10, <1>t, <2>1, <2>2, <2>3 DEF PendingMatch, Id
<1>11. CASE ListenerEnds
  <2>1. /\ RequestEnds(Listener) /\ ~Awaits(Listener)' /\ UNCHANGED <<calls, up, connected>>
        /\ \A q \in Requesters : q # Listener => (Awaits(q)' <=> Awaits(q))
    BY <1>11, <1>t DEF ListenerEnds, Awaits
  <2> QED
    BY <1>10, <1>t, <2>1
<1>12. ASSUME NEW t \in Tasks, Resume(t) \/ RequestTimesOut(t) PROVE PendingMatch'
  <2>1. RequestEnds(t) /\ UNCHANGED <<calls, up, connected, loop>>
    BY <1>12 DEF Resume, RequestTimesOut
  <2>2. at' = [at EXCEPT ![t] = "idle"] \/ at' = [at EXCEPT ![t] = "waiting"]
    <3>1. Fails(t) \/ Concludes(t, future[t])
      BY <1>12 DEF Resume, RequestTimesOut
    <3> QED
      BY <3>1 DEF Fails, Concludes, WaitsOn, Returns
  <2>3. ~Awaits(t)' /\ \A q \in Requesters : q # t => (Awaits(q)' <=> Awaits(q))
    BY <1>t, <2>1, <2>2 DEF Awaits
  <2> QED
    BY <1>10, <1>t, <2>1, <2>3
<1>13. CASE Disconnect
  <2>1. /\ ~up' /\ ~connected' /\ registered' = {} /\ UNCHANGED <<at, loop>>
    BY <1>13 DEF Disconnect
  <2>2. \A r \in Requesters : Awaits(r)' => future'[r] # Unset
    <3> SUFFICES ASSUME NEW r \in Requesters, Awaits(r) PROVE future'[r] # Unset
      BY <2>1 DEF Awaits
    <3>1. Id(r) \in registered
      BY <1>0, <1>13 DEF PendingMatch, Disconnect
    <3>2. Raised # Unset
      BY DEF Raised, Unset, Reply
    <3> QED
      BY <1>13, <3>1, <3>2 DEF Disconnect
  <2> QED
    BY <2>1, <2>2 DEF PendingMatch
<1>14. CASE LoopCancelled
  <2>1. UNCHANGED <<registered, calls, up, connected, at, future>> /\ ~up /\ loop' = "ended"
    BY <1>14 DEF LoopCancelled
  <2> QED
    BY <1>0, <1>t, <2>1 DEF PendingMatch, Awaits
<1> QED
  BY <1>2, <1>3, <1>4, <1>5, <1>6, <1>8, <1>9, <1>11, <1>12, <1>13, <1>14
  DEF LinkNext, Task, Loop, Simulator

LEMMA WaitersKept == LinkInv /\ [LinkNext]_linkVars => WaitersMatch'
<1> SUFFICES ASSUME LinkInv, [LinkNext]_linkVars PROVE WaitersMatch'
  OBVIOUS
<1>0. WaitersMatch
  BY DEF LinkInv
<1>t. /\ waiters \in [Imsis -> SUBSET Tasks] /\ at \in [Tasks -> {"idle", "asking", "waiting"}]
      /\ \A t \in Tasks : op[t].imsi \in Imsis
  BY DEF LinkInv, LinkTypes
<1> USE DEF external, managers
(* Nobody is added to a list, and who is in one waits on. *)
<1>1. ASSUME UNCHANGED op,
             \A i \in Imsis : waiters'[i] \subseteq waiters[i],
             \A i \in Imsis, t \in Tasks :
                 at[t] = "waiting" /\ at'[t] # "waiting" => t \notin waiters'[i]
      PROVE  WaitersMatch'
  BY <1>0, <1>1 DEF WaitersMatch
<1>2. CASE Serve \/ UEMoves \/ SmsMoves \/ WireBreaks \/ UNCHANGED linkVars \/ LoopEnds
           \/ ListenerReturns \/ ListenerAsks \/ ListenerEnds \/ LoopCancelled \/ Disconnect
  <2>1. UNCHANGED <<op, waiters, at>>
    BY <1>2 DEF Serve, UEMoves, SmsMoves, Happens, WireBreaks, linkVars, LoopEnds,
       ListenerReturns, ListenerAsks, ListenerEnds, LoopCancelled, Disconnect
  <2> QED
    BY <1>1, <2>1
<1>3. CASE Receive
  <2>1. UNCHANGED <<op, at>>
    BY <1>3 DEF Receive
  <2>2. \A i \in Imsis : waiters'[i] \subseteq waiters[i]
    <3>1. UNCHANGED waiters \/ \E i : waiters' = [waiters EXCEPT ![i] = {}]
      BY <1>3 DEF Receive, Answer, Attached, Detached, StatusCame
    <3> QED
      BY <1>t, <3>1
  <2> QED
    BY <1>1, <2>1, <2>2
<1>4. ASSUME NEW t \in Tasks, CallReturns(t) \/ CallAsks(t) PROVE WaitersMatch'
  <2>1. UNCHANGED <<op, waiters>> /\ at[t] = "idle"
        /\ \A u \in Tasks : u # t => at'[u] = at[u]
    BY <1>4, <1>t DEF CallReturns, CallAsks, Returns
  <2> QED
    BY <1>1, <2>1
<1>5. ASSUME NEW t \in Tasks, Resume(t) \/ RequestTimesOut(t) PROVE WaitersMatch'
  <2>1. UNCHANGED op /\ at[t] = "asking"
    BY <1>5 DEF Resume, RequestTimesOut
  <2>2. WaitsOn(t) \/ (Returns(t) /\ UNCHANGED waiters)
    <3>1. Fails(t) \/ Concludes(t, future[t])
      BY <1>5 DEF Resume, RequestTimesOut
    <3> QED
      BY <3>1 DEF Fails, Concludes
  <2>3. CASE Returns(t) /\ UNCHANGED waiters
    <3>1. \A u \in Tasks : u # t => at'[u] = at[u]
      BY <1>t, <2>3 DEF Returns
    <3> QED
      BY <1>1, <2>1, <2>3, <3>1
  <2>4. CASE WaitsOn(t)
    <3>1. /\ at'[t] = "waiting" /\ \A u \in Tasks : u # t => at'[u] = at[u]
          /\ \A i \in Imsis : waiters'[i] = IF i = op[t].imsi THEN waiters[i] \cup {t}
                                                              ELSE waiters[i]
      BY <1>t, <2>4 DEF WaitsOn
    <3> SUFFICES ASSUME NEW i \in Imsis, NEW u \in Tasks, u \in waiters'[i]
                 PROVE  at'[u] = "waiting" /\ op[u].imsi = i
      BY <2>1 DEF WaitersMatch
    <3>2. CASE u = t
      <4>1. t \notin waiters[i]
        BY <1>0, <2>1 DEF WaitersMatch
      <4> QED
        BY <3>1, <3>2, <4>1
    <3>3. CASE u # t
      <4>1. u \in waiters[i]
        BY <3>1, <3>3
      <4> QED
        BY <1>0, <3>1, <3>3, <4>1 DEF WaitersMatch
    <3> QED
      BY <3>2, <3>3
  <2> QED
    BY <2>2, <2>3, <2>4
<1>6. ASSUME NEW t \in Tasks, WaitEnds(t) PROVE WaitersMatch'
  <2>1. /\ UNCHANGED op /\ \A u \in Tasks : u # t => at'[u] = at[u]
        /\ \A i \in Imsis : waiters'[i] = IF i = op[t].imsi THEN waiters[i] \ {t} ELSE waiters[i]
    BY <1>6, <1>t DEF WaitEnds, Returns
  <2>2. \A i \in Imsis : t \in waiters[i] => i = op[t].imsi
    BY <1>0 DEF WaitersMatch
  <2> QED
    BY <1>1, <2>1, <2>2
<1> QED
  BY <1>2, <1>3, <1>4, <1>5, <1>6 DEF LinkNext, Task, Loop, Simulator

LEMMA FiledKept == LinkInv /\ [LinkNext]_linkVars => FiledOnce'
<1> SUFFICES ASSUME LinkInv, [LinkNext]_linkVars PROVE FiledOnce'
  OBVIOUS
<1>0. FiledOnce
  BY DEF LinkInv
<1>t. /\ calls \in [Requesters -> 0..MaxTaskCalls] /\ Tasks \subseteq Requesters
      /\ at \in [Tasks -> {"idle", "asking", "waiting"}] /\ Listener \notin Tasks
      /\ history \in Seq(RequestIds) /\ unfiled \subseteq RequestIds
      /\ \A m \in RequestIds : m[2] \in Nat
      /\ \A m \in unfiled \cup ToSet(history) : m \in RequestIds
  <2>1. \A m \in ToSet(history) : m \in RequestIds
    BY ElementOfSeq, LenProperties DEF LinkInv, LinkTypes, ToSet
  <2> QED
    BY <2>1, LinkAssumption DEF LinkInv, LinkTypes, Requesters, RequestIds
<1> USE DEF external, managers
<1> DEFINE Ended(m) == m[1] \in Tasks /\ m[2] <= calls[m[1]]
                       /\ (at[m[1]] = "asking" => m[2] < calls[m[1]])
(* Nothing is filed, and a call that was over stays so. *)
<1>1. ASSUME UNCHANGED <<unfiled, history>>, \A m \in RequestIds : Ended(m) => Ended(m)'
      PROVE  FiledOnce'
  BY <1>0, <1>1, <1>t DEF FiledOnce, SmsFiledOnce
<1>2. CASE Serve \/ UEMoves \/ SmsMoves \/ WireBreaks \/ UNCHANGED linkVars \/ LoopEnds
           \/ ListenerReturns \/ ListenerEnds \/ LoopCancelled \/ Disconnect
  <2>1. UNCHANGED <<unfiled, history, calls, at>>
    BY <1>2 DEF Serve, UEMoves, SmsMoves, Happens, WireBreaks, linkVars, LoopEnds,
       ListenerReturns, ListenerEnds, LoopCancelled, Disconnect
  <2> QED
    BY <1>1, <2>1
<1>3. CASE ListenerAsks
  <2>1. UNCHANGED <<unfiled, history, at>> /\ \A t \in Tasks : calls'[t] = calls[t]
    BY <1>3, <1>t DEF ListenerAsks, Sends
  <2> QED
    BY <1>1, <2>1
<1>4. ASSUME NEW t \in Tasks, CallReturns(t) \/ CallAsks(t) PROVE FiledOnce'
  <2>1. /\ UNCHANGED <<unfiled, history>> /\ at[t] = "idle"
        /\ calls'[t] = calls[t] + 1 /\ calls[t] \in Nat
        /\ \A u \in Tasks : u # t => at'[u] = at[u] /\ calls'[u] = calls[u]
    BY <1>4, <1>t DEF CallReturns, CallAsks, Sends, Returns
  <2>2. ASSUME NEW m \in RequestIds, Ended(m) PROVE Ended(m)'
    <3>1. m[2] \in Nat
      BY <1>t
    <3>2. CASE m[1] = t
      BY <2>1, <2>2, <3>1, <3>2
    <3>3. CASE m[1] # t
      BY <2>1, <2>2, <3>3
    <3> QED
      BY <3>2, <3>3
  <2> QED
    BY <1>1, <2>1, <2>2
<1>5. ASSUME NEW t \in Tasks, WaitEnds(t) PROVE FiledOnce'
  <2>1. UNCHANGED <<unfiled, history, calls>>
        /\ \A u \in Tasks : at'[u] = "asking" => at[u] = "asking"
    BY <1>5, <1>t DEF WaitEnds, Returns
  <2> QED
    BY <1>1, <2>1
<1>6. ASSUME NEW t \in Tasks, Resume(t) \/ RequestTimesOut(t) PROVE FiledOnce'
  <2>1. UNCHANGED <<history, calls>> /\ at[t] = "asking"
    BY <1>6 DEF Resume, RequestTimesOut
  <2>2. unfiled' \in {unfiled, unfiled \cup {Id(t)}}
        /\ (at' = [at EXCEPT ![t] = "idle"] \/ at' = [at EXCEPT ![t] = "waiting"])
    <3>1. Fails(t) \/ Concludes(t, future[t])
      BY <1>6 DEF Resume, RequestTimesOut
    <3> QED
      BY <3>1 DEF Fails, Concludes, WaitsOn, Returns
  <2>3. at'[t] # "asking" /\ \A u \in Tasks : at'[u] = "asking" => at[u] = "asking"
    BY <1>t, <2>2
  <2>4. \A m \in RequestIds : Ended(m) => Ended(m)'
    BY <2>1, <2>3
  <2>5. Ended(Id(t))' /\ ~Ended(Id(t))
    <3>1. Id(t)[1] = t /\ Id(t)[2] = calls[t] /\ Id(t)' = Id(t) /\ calls[t] \in Nat
      BY <1>t, <2>1 DEF Id
    <3> QED
      BY <2>1, <2>3, <3>1
  <2>6. Id(t) \notin ToSet(history) /\ Id(t)' = Id(t)
    BY <1>0, <2>1, <2>5 DEF FiledOnce, Id
  <2>7. \A m \in unfiled' \cup ToSet(history') : Ended(m)'
    BY <1>0, <1>t, <2>1, <2>2, <2>4, <2>5, <2>6 DEF FiledOnce
  <2>8. SmsFiledOnce'
    BY <1>0, <2>1, <2>2, <2>6 DEF FiledOnce, SmsFiledOnce
  <2> QED
    BY <2>7, <2>8 DEF FiledOnce
<1>7. CASE Receive
  <2>1. UNCHANGED <<calls, at>>
    BY <1>7 DEF Receive
  <2>2. UNCHANGED <<unfiled, history>>
        \/ \E m \in unfiled : history' = File(m) /\ unfiled' = unfiled \ {m}
    BY <1>7 DEF Receive, Answer, Attached, Detached, StatusCame
  <2>3. ASSUME NEW m \in unfiled, history' = File(m), unfiled' = unfiled \ {m}
        PROVE  /\ ToSet(history') \subseteq ToSet(history) \cup {m}
               /\ IsInjective(history')
    <3> DEFINE longer == Append(history, m)
    <3>1. m \in RequestIds /\ m \notin ToSet(history) /\ IsInjective(history)
      BY <1>0, <1>t DEF FiledOnce, SmsFiledOnce
    <3>2. /\ longer \in Seq(RequestIds) /\ longer # <<>>
          /\ ToSet(longer) = ToSet(history) \cup {m} /\ IsInjective(longer)
      BY <1>t, <3>1, AppendFacts
    <3>3. history' \in {longer, Tail(longer)}
      BY <2>3 DEF File
    <3> HIDE DEF longer
    <3>4. ToSet(Tail(longer)) \subseteq ToSet(longer) /\ IsInjective(Tail(longer))
      BY <3>2, TailFacts
    <3> QED
      BY <3>2, <3>3, <3>4
  <2> QED
    BY <1>0, <1>1, <2>1, <2>2, <2>3 DEF FiledOnce, SmsFiledOnce
<1> QED
  BY <1>2, <1>3, <1>4, <1>5, <1>6, <1>7 DEF LinkNext, Task, Loop, Simulator

(* Nothing of a call that is over stays behind: no pending request and no   *)
(* waiting event, no message filed twice; and disconnect() releases who     *)
(* awaits an answer, be it a listener of the receive loop (AmarisoftAdapter, *)
(* UEManager, SMSManager, SimulatorManager.disconnect).                     *)
THEOREM LinkSafety == LinkSpec => []LinkSound
<1>1. LinkInv /\ [LinkNext]_linkVars => LinkInv'
  BY LinkTypesKept, PendingKept, WaitersKept, FiledKept DEF LinkInv
<1>2. LinkInv => LinkSound
  <2> SUFFICES ASSUME LinkInv PROVE LinkSound
    OBVIOUS
  <2>1. LinkTypeOK
    <3>1. \A r \in Requesters : future[r] \in ReplyValues
      BY DEF LinkInv, LinkTypes
    <3> QED
      BY <3>1 DEF LinkInv, LinkTypes, LinkTypeOK, ReplyValues
  <2>2. NothingLeaks
    BY DEF LinkInv, PendingMatch, WaitersMatch, NothingLeaks, Awaits
  <2>3. SmsFiledOnce
    BY DEF LinkInv, FiledOnce
  <2>4. DisconnectReleases
    BY LinkAssumption DEF LinkInv, PendingMatch, DisconnectReleases, Awaits, Requesters
  <2> QED
    BY <2>1, <2>2, <2>3, <2>4 DEF LinkSound
<1> QED
  BY LinkInitially, <1>1, <1>2, PTL DEF LinkSpec

-----------------------------------------------------------------------------
(* The command line. *)

JobTypes ==
    job \in [Operators -> [command : DOMAIN Commands \cup {"none"},
                           at : {"new", "connecting", "connected", "answered", "gone"},
                           carried : BOOLEAN,
                           answer : {"none", "some", "yes", "no", "raised"},
                           exit : {"none", "ok", "failed"}]]

(* What an answer says has been carried out, and the exit follows it. *)
AnswersTrue ==
    \A o \in Operators :
        /\ job[o].at # "gone" => job[o].exit = "none"
        /\ job[o].answer \in {"some", "yes"} => job[o].carried
        /\ job[o].exit = "ok" /\ job[o].answer # "none" =>
               job[o].answer \in Commands[job[o].command].good

CommandInv == JobTypes /\ AnswersTrue

(* The simulator answers one of these, and says "no" to what it refuses. *)
LEMMA ServedAnswers ==
  ASSUME NEW ask, NEW served \in Served(ask)
  PROVE  served[2] \in {"none", "some", "yes", "no"}
  BY DEF Served

(* A command that changes the network succeeds on no other answer than one  *)
(* that says so.                                                            *)
LEMMA GoodAnswers ==
  ASSUME NEW c \in DOMAIN Commands, Commands[c].ask \in Changing
  PROVE  Commands[c].good \subseteq {"some", "yes"}
  BY DEF Commands, Changing, Command, ConnectCommand, StatusCommand, UeList, UeShow, UeWait,
     UeDetach, SessionList, SessionShow, SessionRelease, SmsSend, SmsTrigger, SmsHistory,
     CellStart, CellStop, CellShow, CellConfig, RunScenarioCommand

LEMMA CommandKept == CommandInv /\ [NetsimCommandNext]_netsimCommandVars => CommandInv'
<1> SUFFICES ASSUME CommandInv, [NetsimCommandNext]_netsimCommandVars PROVE CommandInv'
  OBVIOUS
<1> DEFINE JobType == [command : DOMAIN Commands \cup {"none"},
                       at : {"new", "connecting", "connected", "answered", "gone"},
                       carried : BOOLEAN,
                       answer : {"none", "some", "yes", "no", "raised"},
                       exit : {"none", "ok", "failed"}]
           True(j) == /\ j.at # "gone" => j.exit = "none"
                      /\ j.answer \in {"some", "yes"} => j.carried
                      /\ j.exit = "ok" /\ j.answer # "none" =>
                             j.answer \in Commands[j.command].good
<1>0. job \in [Operators -> JobType] /\ \A o \in Operators : True(job[o])
  BY DEF CommandInv, JobTypes, AnswersTrue
(* One job moves, and says what is true. *)
<1>1. ASSUME NEW o \in Operators, NEW j \in JobType, True(j), job' = [job EXCEPT ![o] = j]
      PROVE  CommandInv'
  <2>1. job' \in [Operators -> JobType] /\ \A p \in Operators : True(job'[p])
    BY <1>0, <1>1
  <2> QED
    BY <2>1 DEF CommandInv, JobTypes, AnswersTrue
<1>2. ASSUME NEW o \in Operators PROVE job[o] \in JobType /\ True(job[o])
  BY <1>0, <1>2
<1>3. ASSUME NEW o \in Operators, NEW command \in Tried, BeginCommand(o, command)
      PROVE  CommandInv'
  <2>1. command \in DOMAIN Commands
    BY TriedAssumption
  <2>2. job[o].answer = "none" /\ job[o].exit = "none"
    <3>1. job[o] = NoJob
      BY <1>3 DEF BeginCommand
    <3>2. NoJob.answer = "none" /\ NoJob.exit = "none"
      BY DEF NoJob
    <3> QED
      BY <3>1, <3>2
  <2>3. CASE job' = [job EXCEPT ![o] = [@ EXCEPT !.command = command, !.at = "connecting"]]
    <3> DEFINE j == [job[o] EXCEPT !.command = command, !.at = "connecting"]
    <3>1. j \in JobType /\ True(j)
      BY <1>2, <2>1, <2>2
    <3> QED
      BY <1>1, <2>3, <3>1
  <2>4. ASSUME NEW code \in Commands[command].bad,
               job' = [job EXCEPT ![o] = [@ EXCEPT !.command = command, !.at = "gone",
                                                   !.exit = code]]
        PROVE  CommandInv'
    <3> DEFINE j == [job[o] EXCEPT !.command = command, !.at = "gone", !.exit = code]
    <3>1. code \in {"ok", "failed"}
      BY <2>1, <2>4
      DEF Commands, Command, ConnectCommand, StatusCommand, UeList, UeShow, UeWait,
          UeDetach, SessionList, SessionShow, SessionRelease, SmsSend, SmsTrigger, SmsHistory,
          CellStart, CellStop, CellShow, CellConfig, RunScenarioCommand
    <3>2. j \in JobType /\ True(j)
      BY <1>2, <2>1, <2>2, <3>1
    <3> QED
      BY <1>1, <2>4, <3>2
  <2> QED
    BY <1>3, <2>3, <2>4 DEF BeginCommand
<1>4. ASSUME NEW o \in Operators, ConnectCommandLink(o) \/ LoseRequest(o) PROVE CommandInv'
  <2>1. job[o].at # "gone"
    BY <1>4 DEF ConnectCommandLink, LoseRequest
  <2>2. PICK place \in {"answered", "connected"}, said \in {"none", "raised"} :
            job' = [job EXCEPT ![o].at = place, ![o].answer = said]
    BY <1>4 DEF ConnectCommandLink, LoseRequest
  <2>3. job' = [job EXCEPT ![o] = [job[o] EXCEPT !.at = place, !.answer = said]]
    BY <1>0, <2>2
  <2>4. [job[o] EXCEPT !.at = place, !.answer = said] \in JobType
        /\ True([job[o] EXCEPT !.at = place, !.answer = said])
    BY <1>2, <2>1
  <2> QED
    BY <1>1, <2>3, <2>4
<1>5. ASSUME NEW o \in Operators, SimulatorServes(o) PROVE CommandInv'
  <2>1. job[o].at # "gone"
    BY <1>5 DEF SimulatorServes
  <2>2. PICK served \in Served(Asks(o)), lost \in BOOLEAN :
            job' = [job EXCEPT ![o].at = "answered", ![o].carried = served[2] # "no",
                               ![o].answer = IF lost THEN "raised" ELSE served[2]]
    BY <1>5 DEF SimulatorServes
  <2> DEFINE j == [job[o] EXCEPT !.at = "answered", !.carried = served[2] # "no",
                                 !.answer = IF lost THEN "raised" ELSE served[2]]
  <2>3. job' = [job EXCEPT ![o] = j]
    BY <1>0, <2>2
  <2>4. served[2] \in {"none", "some", "yes", "no"}
    BY ServedAnswers
  <2>5. j \in JobType /\ True(j)
    BY <1>2, <2>1, <2>4
  <2> HIDE DEF j
  <2> QED
    BY <1>1, <2>3, <2>5
<1>6. ASSUME NEW o \in Operators, Finish(o) PROVE CommandInv'
  <2> DEFINE j == [job[o] EXCEPT !.at = "gone", !.exit = ExitCode(o)]
  <2>1. job' = [job EXCEPT ![o] = j]
    BY <1>0, <1>6 DEF Finish
  <2>2. j \in JobType /\ True(j)
    BY <1>2 DEF ExitCode
  <2> QED
    BY <1>1, <2>1, <2>2
<1>7. CASE UNCHANGED job
  BY <1>7 DEF CommandInv, JobTypes, AnswersTrue
<1> QED
  BY <1>3, <1>4, <1>5, <1>6, <1>7 DEF NetsimCommandNext, netsimCommandVars, NetworkMoves

(* gp-netsim: a command that changes the network exits 0 only when the      *)
(* simulator has carried it out, whichever answers are lost and whatever    *)
(* other processes ask.                                                     *)
THEOREM CommandSafety == NetsimCommandSpec => []ExitMeansDone
<1>1. NetsimCommandInit => CommandInv
  BY DEF NetsimCommandInit, CommandInv, JobTypes, AnswersTrue, NoJob
<1>2. CommandInv => ExitMeansDone
  <2> SUFFICES ASSUME CommandInv, NEW o \in Operators, job[o].exit = "ok",
                      job[o].answer # "none", job[o].command # "none", Asks(o) \in Changing
               PROVE  job[o].carried
    BY DEF ExitMeansDone
  <2>1. job[o].command \in DOMAIN Commands
    BY DEF CommandInv, JobTypes
  <2>2. job[o].answer \in {"some", "yes"}
    BY <2>1, GoodAnswers DEF CommandInv, AnswersTrue, Asks
  <2> QED
    BY <2>2 DEF CommandInv, AnswersTrue
<1> QED
  BY <1>1, <1>2, CommandKept, PTL DEF NetsimCommandSpec

-----------------------------------------------------------------------------
(* The cell manager: a call is where its request is, and what it returns is   *)
(* what it has seen.                                                          *)

AskTypes == [by : CellUsers \cup {NoUser}, ask : {"start", "stop", "status"}]
OrderTypes == [call : CellCalls \cup {"none"},
               at : {"idle", "first", "send", "commanding", "sleeping", "looking"},
               leg : {"none", "look", "start", "stop"},
               result : {"none", "yes", "no", "raised", "given up"},
               down : BOOLEAN, up : BOOLEAN, again : BOOLEAN]
CellTypes ==
    /\ cell \in Statuses /\ cellQueue \in Seq(AskTypes) /\ order \in [CellUsers -> OrderTypes]

OrderSound(o) ==
    /\ o.at # "idle" => o.call # "none" /\ o.result = "none"
    /\ o.at = "first" => o.call = "restart"
    /\ o.at \in {"send", "commanding", "sleeping", "looking"} => o.leg \in {"start", "stop"}
    /\ o.at = "send" => o.call = "restart"
    /\ o.at \notin {"idle", "first"} /\ o.call \in {"start", "stop"} => o.leg = o.call
    /\ o.at # "idle" /\ o.call = "restart" /\ o.leg = "start" => o.down
    /\ o.at = "idle" /\ o.result = "yes" => /\ o.call # "none"
                                            /\ o.call = "start" => o.up
                                            /\ o.call = "stop" => o.down
                                            /\ o.call = "restart" => o.again

\* What a task waits for, and what it has asked.
Waiting == {"commanding", "looking", "first"}
AskOf(o) == IF o.at = "commanding" THEN o.leg ELSE "status"

\* A request in the queue is the one request of a task that waits for it.
QueueSound ==
    \A i \in 1..Len(cellQueue), u \in CellUsers : cellQueue[i].by = u =>
        /\ Waits(u) /\ cellQueue[i].ask = AskOf(order[u])
        /\ \A j \in 1..Len(cellQueue) : cellQueue[j].by = u => j = i

CellInv == CellTypes /\ QueueSound /\ \A u \in CellUsers : OrderSound(order[u])

\* What an action of a task does: it asks, or its call is over.
AsksAs(u, o) ==
    /\ order' = [order EXCEPT ![u] = o]
    /\ cellQueue' = Append(cellQueue, [by |-> u, ask |-> AskOf(o)])
    /\ cell' = cell
EndsAs(u, o) ==
    /\ order' = [order EXCEPT ![u] = o]
    /\ GiveUp(u)
    /\ cell' = cell

LEMMA CellInvInit == CellInit => CellInv
<1> SUFFICES ASSUME CellInit PROVE CellInv
  OBVIOUS
<1>1. NoOrder \in OrderTypes /\ OrderSound(NoOrder)
  BY DEF NoOrder, OrderTypes, OrderSound, CellCalls
<1>2. CellTypes
  BY <1>1 DEF CellInit, CellTypes, Statuses
<1> QED
  BY <1>1, <1>2 DEF CellInit, CellInv, QueueSound

(* What a call has seen only grows.                                           *)
LEMMA WitnessFacts ==
  ASSUME NEW o \in OrderTypes, NEW status \in Statuses
  PROVE  /\ Witness(o, status) \in OrderTypes
         /\ Witness(o, status).call = o.call /\ Witness(o, status).at = o.at
         /\ Witness(o, status).leg = o.leg /\ Witness(o, status).result = o.result
         /\ o.down \/ status = "inactive" => Witness(o, status).down
         /\ o.up \/ status = "active" => Witness(o, status).up
         /\ o.again \/ (o.down /\ status = "active") => Witness(o, status).again
         /\ OrderSound(o) => OrderSound(Witness(o, status))
<1>1. /\ Witness(o, status) \in OrderTypes
      /\ Witness(o, status).call = o.call /\ Witness(o, status).at = o.at
      /\ Witness(o, status).leg = o.leg /\ Witness(o, status).result = o.result
      /\ Witness(o, status).down = (o.down \/ status = "inactive")
      /\ Witness(o, status).up = (o.up \/ status = "active")
      /\ Witness(o, status).again = (o.again \/ (o.down /\ status = "active"))
  BY DEF Witness, OrderTypes
<1> QED
  BY <1>1 DEF OrderSound

LEMMA WitnessedFacts ==
  ASSUME CellInv, NEW status \in Statuses
  PROVE  /\ Witnessed(order, status) \in [CellUsers -> OrderTypes]
         /\ \A u \in CellUsers : /\ order[u] \in OrderTypes
                                 /\ Witnessed(order, status)[u] = Witness(order[u], status)
                                 /\ OrderSound(Witness(order[u], status))
<1>1. \A u \in CellUsers : order[u] \in OrderTypes /\ OrderSound(order[u])
  BY DEF CellInv, CellTypes
<1>2. \A u \in CellUsers : /\ Witnessed(order, status)[u] = Witness(order[u], status)
                           /\ Witness(order[u], status) \in OrderTypes
                           /\ OrderSound(Witness(order[u], status))
  BY <1>1, WitnessFacts DEF Witnessed
<1> QED
  BY <1>1, <1>2 DEF Witnessed

(* Where a leg leads: restart() goes on from stop() that was told the cell is *)
(* inactive; everything else is the end of the call.                          *)
LEMMA LegFails ==
  ASSUME NEW u \in CellUsers, NEW w \in [CellUsers -> OrderTypes], OrderSound(w[u]),
         LegEnds(u, FALSE, w)
  PROVE  \E o \in OrderTypes :
            order' = [w EXCEPT ![u] = o] /\ OrderSound(o) /\ o.at = "idle" /\ o.result = "no"
<1> DEFINE o == [w[u] EXCEPT !.at = "idle", !.result = "no"]
<1>1. order' = [w EXCEPT ![u] = o]
  BY DEF LegEnds
<1>2. o \in OrderTypes /\ OrderSound(o) /\ o.at = "idle" /\ o.result = "no"
  <2>1. w[u] \in OrderTypes
    OBVIOUS
  <2> QED
    BY <2>1 DEF OrderTypes, OrderSound
<1> QED
  BY <1>1, <1>2

LEMMA LegSucceeds ==
  ASSUME NEW u \in CellUsers, NEW w \in [CellUsers -> OrderTypes], OrderSound(w[u]),
         w[u].call = order[u].call, w[u].leg = order[u].leg,
         w[u].at \in {"commanding", "looking", "sleeping"},
         order[u].leg = "stop" => w[u].down,
         order[u].leg = "start" => w[u].up /\ (order[u].call = "restart" => w[u].again),
         LegEnds(u, TRUE, w)
  PROVE  \E o \in OrderTypes :
            /\ order' = [w EXCEPT ![u] = o] /\ OrderSound(o) /\ o.call = order[u].call
            /\ o.at \in {"idle", "send"}
<1>1. w[u] \in OrderTypes
  OBVIOUS
<1>2. CASE order[u].call = "restart" /\ order[u].leg = "stop"
  <2> DEFINE o == [w[u] EXCEPT !.leg = "start", !.at = "send"]
  <2>1. order' = [w EXCEPT ![u] = o]
    BY <1>2 DEF LegEnds
  <2>2. o \in OrderTypes /\ OrderSound(o) /\ o.call = order[u].call /\ o.at = "send"
    BY <1>1, <1>2 DEF OrderTypes, OrderSound
  <2> QED
    BY <2>1, <2>2
<1>3. CASE ~(order[u].call = "restart" /\ order[u].leg = "stop")
  <2> DEFINE o == [w[u] EXCEPT !.at = "idle", !.result = "yes"]
  <2>1. order' = [w EXCEPT ![u] = o]
    BY <1>3 DEF LegEnds
  <2>2. o \in OrderTypes /\ o.call = order[u].call /\ o.at = "idle"
    BY <1>1 DEF OrderTypes
  <2>3. OrderSound(o)
    BY <1>1, <1>3 DEF OrderTypes, OrderSound, CellCalls
  <2> QED
    BY <2>1, <2>2, <2>3
<1> QED
  BY <1>2, <1>3

(* A task asks: start(), stop() and restart() are called, restart() sends the *)
(* command of its next leg, the status is looked at once more.                *)
LEMMA AsksFacts ==
  ASSUME CellInv, NEW u \in CellUsers,
         \/ \E call \in CellCalls : BeginCall(u, call)
         \/ SendCommand_(u)
         \/ LookAgain(u) /\ cellQueue' # cellQueue
  PROVE  /\ ~Waits(u)
         /\ \E o \in OrderTypes : OrderSound(o) /\ o.at \in Waiting /\ AsksAs(u, o)
<1>1. order[u] \in OrderTypes /\ OrderSound(order[u]) /\ cell \in Statuses
  BY DEF CellInv, CellTypes
<1>2. ASSUME NEW call \in CellCalls, BeginCall(u, call)
      PROVE  /\ ~Waits(u)
             /\ \E o \in OrderTypes : OrderSound(o) /\ o.at \in Waiting /\ AsksAs(u, o)
  <2> DEFINE new == [NoOrder EXCEPT !.call = call, !.leg = IF call = "restart" THEN "look" ELSE call,
                                    !.at = IF call = "restart" THEN "first" ELSE "commanding"]
             o == Witness(new, cell)
  <2>1. /\ new \in OrderTypes /\ OrderSound(new) /\ new.at \in Waiting
        /\ AskOf(new) = IF call = "restart" THEN "status" ELSE call
    BY DEF NoOrder, OrderTypes, OrderSound, CellCalls, Waiting, AskOf
  <2>2. /\ order' = [order EXCEPT ![u] = o] /\ ~Waits(u) /\ cell' = cell
        /\ cellQueue' = Append(cellQueue, [by |-> u, ask |-> AskOf(new)])
    BY <1>2, <2>1 DEF BeginCall, AskCell, Waits
  <2> HIDE DEF new
  <2>3. o \in OrderTypes /\ OrderSound(o) /\ o.at \in Waiting /\ AskOf(o) = AskOf(new)
    BY <1>1, <2>1, WitnessFacts DEF AskOf
  <2> QED
    BY <2>2, <2>3 DEF AsksAs
<1>3. CASE SendCommand_(u)
  <2> DEFINE o == [order[u] EXCEPT !.at = "commanding"]
  <2>1. /\ order' = [order EXCEPT ![u] = o] /\ order[u].at = "send" /\ cell' = cell
        /\ cellQueue' = Append(cellQueue, [by |-> u, ask |-> order[u].leg])
    BY <1>3 DEF SendCommand_, AskCell, PutAt
  <2>2. o \in OrderTypes /\ OrderSound(o) /\ o.at \in Waiting /\ AskOf(o) = order[u].leg
    BY <1>1, <2>1 DEF OrderTypes, OrderSound, Waiting, AskOf
  <2> QED
    BY <2>1, <2>2 DEF AsksAs, Waits
<1>4. CASE LookAgain(u) /\ cellQueue' # cellQueue
  <2> DEFINE o == [order[u] EXCEPT !.at = "looking"]
  <2>1. /\ order' = [order EXCEPT ![u] = o] /\ order[u].at = "sleeping" /\ cell' = cell
        /\ cellQueue' = Append(cellQueue, [by |-> u, ask |-> "status"])
    BY <1>4 DEF LookAgain, AskCell, PutAt
  <2>2. o \in OrderTypes /\ OrderSound(o) /\ o.at \in Waiting /\ AskOf(o) = "status"
    BY <1>1, <2>1 DEF OrderTypes, OrderSound, Waiting, AskOf
  <2> QED
    BY <2>1, <2>2 DEF AsksAs, Waits
<1> QED
  BY <1>2, <1>3, <1>4

(* A call is over without the answer wanted: the time is up, the link fails,  *)
(* or the runner gives it up.                                                 *)
LEMMA EndsFacts ==
  ASSUME CellInv, NEW u \in CellUsers,
         \/ LookAgain(u) /\ cellQueue' = cellQueue
         \/ RequestFails(u)
         \/ order[u].at # "idle" /\ GiveUp(u) /\ Result(u, "given up") /\ cell' = cell
  PROVE  \E o \in OrderTypes : /\ OrderSound(o) /\ o.at = "idle" /\ o.result # "yes"
                               /\ EndsAs(u, o)
<1>0. cellQueue \in Seq(AskTypes)
  BY DEF CellInv, CellTypes
<1>1. /\ order[u] \in OrderTypes /\ OrderSound(order[u]) /\ order \in [CellUsers -> OrderTypes]
  BY DEF CellInv, CellTypes
<1>2. ASSUME NEW result \in {"raised", "given up"}, Result(u, result), GiveUp(u), cell' = cell
      PROVE  \E o \in OrderTypes : /\ OrderSound(o) /\ o.at = "idle" /\ o.result # "yes"
                                   /\ EndsAs(u, o)
  <2> DEFINE o == [order[u] EXCEPT !.at = "idle", !.result = result]
  <2>1. order' = [order EXCEPT ![u] = o]
    BY <1>2 DEF Result
  <2>2. o \in OrderTypes /\ OrderSound(o) /\ o.at = "idle" /\ o.result # "yes"
    BY <1>1 DEF OrderTypes, OrderSound
  <2> QED
    BY <1>2, <2>1, <2>2 DEF EndsAs
<1>3. ASSUME order[u].at \in {"commanding", "looking", "sleeping"}, LegEnds(u, FALSE, order),
             GiveUp(u), cell' = cell
      PROVE  \E o \in OrderTypes : /\ OrderSound(o) /\ o.at = "idle" /\ o.result # "yes"
                                   /\ EndsAs(u, o)
  <2>1. PICK o \in OrderTypes :
           /\ order' = [order EXCEPT ![u] = o] /\ OrderSound(o) /\ o.at = "idle" /\ o.result = "no"
    BY <1>1, <1>3, LegFails
  <2> QED
    BY <1>3, <2>1 DEF EndsAs
<1>4. CASE LookAgain(u) /\ cellQueue' = cellQueue
  <2>1. order[u].at = "sleeping" /\ cell' = cell
    BY <1>4 DEF LookAgain
  <2>2. LegEnds(u, FALSE, order)
    <3>1. ~AskCell(u, "status")
      <4>1. [by |-> u, ask |-> "status"] \in AskTypes
        BY DEF AskTypes
      <4>2. Len(cellQueue) \in Nat
        BY <1>0, LenProperties
      <4>3. Len(Append(cellQueue, [by |-> u, ask |-> "status"])) = Len(cellQueue) + 1
        BY <1>0, <4>1, AppendProperties
      <4> QED
        BY <1>4, <4>2, <4>3 DEF AskCell
    <3> QED
      BY <1>4, <3>1 DEF LookAgain
  <2>3. GiveUp(u)
    <3>1. \A i \in DOMAIN cellQueue : cellQueue[i].by # u
      <4>1. ~Waits(u) /\ DOMAIN cellQueue = 1..Len(cellQueue) /\ u # NoUser
        BY <1>0, <2>1, LenProperties, CellUserAssumption DEF Waits
      <4> QED
        BY <4>1 DEF CellInv, QueueSound
    <3>2. cellQueue = [i \in DOMAIN cellQueue |-> cellQueue[i]]
      BY <1>0, LenProperties
    <3> QED
      BY <1>4, <3>1, <3>2 DEF GiveUp
  <2> QED
    BY <1>3, <2>1, <2>2, <2>3
<1>5. CASE RequestFails(u)
  <2>1. Waits(u) /\ GiveUp(u) /\ cell' = cell
    BY <1>5 DEF RequestFails
  <2>2. CASE order[u].at = "first"
    BY <1>2, <1>5, <2>1, <2>2 DEF RequestFails
  <2>3. CASE order[u].at # "first"
    BY <1>3, <1>5, <2>1, <2>3 DEF RequestFails, Waits
  <2> QED
    BY <2>2, <2>3
<1> QED
  BY <1>2, <1>4, <1>5

(* The oldest request is served: what its task does with the answer, and what *)
(* every call has seen.                                                       *)
LEMMA ServeFacts ==
  ASSUME CellInv, ServeRequest
  PROVE  /\ cellQueue # <<>> /\ cellQueue' = Tail(cellQueue)
         /\ cellQueue[1].by = NoUser => order' = Witnessed(order, cell')
         /\ cellQueue[1].by # NoUser =>
              /\ cellQueue[1].by \in CellUsers /\ Waits(cellQueue[1].by)
              /\ \E o \in OrderTypes :
                    /\ order' = [Witnessed(order, cell') EXCEPT ![cellQueue[1].by] = o]
                    /\ OrderSound(o) /\ o.at \in {"idle", "send", "sleeping"}
                    /\ o.at = "idle" /\ o.result = "yes" /\ o.call = "stop" => cell' = "inactive"
         /\ cell' \in Statuses
<1>1. /\ cellQueue \in Seq(AskTypes) /\ cell \in Statuses
      /\ cellQueue # <<>> /\ cellQueue' = Tail(cellQueue)
  BY DEF CellInv, CellTypes, ServeRequest
<1>2. /\ Head(cellQueue) = cellQueue[1] /\ cellQueue[1] \in AskTypes /\ 1 \in 1..Len(cellQueue)
  <2>1. Head(cellQueue) = cellQueue[1] /\ Head(cellQueue) \in AskTypes /\ Len(cellQueue) >= 1
    BY <1>1, TailFacts
  <2>2. Len(cellQueue) \in Nat
    BY <1>1
  <2> QED
    BY <2>1, <2>2
<1>3. PICK u, ask, said :
         /\ u = cellQueue[1].by /\ ask = cellQueue[1].ask
         /\ said \in Answers_(ask) /\ cell' = said[2]
         /\ u = NoUser => order' = Witnessed(order, said[2])
         /\ u # NoUser /\ order[u].at = "commanding" =>
                CommandAnswered(u, said[1], Witnessed(order, said[2]))
         /\ u # NoUser /\ order[u].at = "looking" =>
                LookAnswered(u, said[1], Witnessed(order, said[2]))
         /\ u # NoUser /\ order[u].at \notin {"commanding", "looking"} =>
                FirstAnswered(u, said[1], Witnessed(order, said[2]))
  BY <1>2 DEF ServeRequest
<1>4. /\ said[2] \in Statuses
      /\ ask = "status" => said[1] = cell /\ said[2] = cell
  BY <1>1, <1>3 DEF Answers_, Statuses
<1>5. ASSUME u # NoUser
      PROVE  /\ u \in CellUsers /\ Waits(u)
             /\ \E o \in OrderTypes :
                   /\ order' = [Witnessed(order, said[2]) EXCEPT ![u] = o]
                   /\ OrderSound(o) /\ o.at \in {"idle", "send", "sleeping"}
                   /\ o.at = "idle" /\ o.result = "yes" /\ o.call = "stop" => said[2] = "inactive"
  <2>1. u \in CellUsers /\ Waits(u) /\ ask = AskOf(order[u])
    BY <1>2, <1>3, <1>5 DEF AskTypes, CellInv, QueueSound
  <2>2. PICK w : w = Witnessed(order, said[2])
    OBVIOUS
  <2>3. /\ w \in [CellUsers -> OrderTypes] /\ w[u] = Witness(order[u], said[2])
        /\ order[u] \in OrderTypes /\ OrderSound(order[u]) /\ OrderSound(w[u])
    BY <1>4, <2>1, <2>2, WitnessedFacts DEF CellInv
  <2>4. /\ w[u] \in OrderTypes
        /\ w[u].call = order[u].call /\ w[u].at = order[u].at /\ w[u].leg = order[u].leg
        /\ w[u].result = order[u].result
        /\ order[u].down \/ said[2] = "inactive" => w[u].down
        /\ order[u].up \/ said[2] = "active" => w[u].up
        /\ order[u].again \/ (order[u].down /\ said[2] = "active") => w[u].again
    BY <1>4, <2>3, WitnessFacts
  <2>5. ASSUME order' = [w EXCEPT ![u].at = "sleeping"], order[u].at \in {"commanding", "looking"}
        PROVE  \E o \in OrderTypes :
                  order' = [w EXCEPT ![u] = o] /\ OrderSound(o) /\ o.at = "sleeping"
    <3> DEFINE o == [w[u] EXCEPT !.at = "sleeping"]
    <3>1. order' = [w EXCEPT ![u] = o]
      BY <2>5
    <3>2. o \in OrderTypes /\ OrderSound(o) /\ o.at = "sleeping"
      BY <2>3, <2>4, <2>5 DEF OrderTypes, OrderSound
    <3> QED
      BY <3>1, <3>2
  <2>6. ASSUME LegEnds(u, FALSE, w), order[u].at \in {"commanding", "looking"}
        PROVE  \E o \in OrderTypes :
                  /\ order' = [w EXCEPT ![u] = o] /\ OrderSound(o)
                  /\ o.at = "idle" /\ o.result = "no"
    <3>1. w \in [CellUsers -> OrderTypes] /\ OrderSound(w[u]) /\ u \in CellUsers
      BY <2>1, <2>3
    <3>2. LegEnds(u, FALSE, w)
      BY <2>6
    <3> QED
      BY <3>1, <3>2, LegFails
  <2>7. CASE order[u].at = "commanding"
    BY <1>3, <1>5, <2>1, <2>2, <2>5, <2>6, <2>7 DEF CommandAnswered
  <2>8. CASE order[u].at = "looking"
    <3>1. said[1] = cell /\ said[2] = cell
      BY <1>4, <2>1, <2>8 DEF AskOf
    <3>2. LookAnswered(u, cell, w)
      BY <1>3, <1>5, <2>2, <2>8, <3>1
    <3>3. CASE cell = Wanted(order[u].leg)
      <4>1. LegEnds(u, TRUE, w)
        BY <3>2, <3>3 DEF LookAnswered, Wanted
      <4>2. /\ order[u].leg \in {"start", "stop"} /\ order[u].call \in CellCalls
            /\ order[u].leg = "start" => cell = "active"
            /\ order[u].leg = "stop" => cell = "inactive"
            /\ order[u].call = "restart" /\ order[u].leg = "start" => order[u].down
            /\ order[u].call = "stop" => order[u].leg = "stop"
        BY <2>3, <2>8, <3>3 DEF Wanted, OrderSound, OrderTypes, CellCalls
      <4>3. /\ order[u].leg = "stop" => w[u].down
            /\ order[u].leg = "start" => w[u].up /\ (order[u].call = "restart" => w[u].again)
            /\ w[u].at \in {"commanding", "looking", "sleeping"}
        BY <2>4, <2>8, <3>1, <4>2
      <4>4. PICK o \in OrderTypes :
               /\ order' = [w EXCEPT ![u] = o] /\ OrderSound(o) /\ o.call = order[u].call
               /\ o.at \in {"idle", "send"}
        BY <2>1, <2>3, <2>4, <4>1, <4>3, LegSucceeds
      <4>5. o.call = "stop" => said[2] = "inactive"
        BY <3>1, <4>2, <4>4
      <4> QED
        BY <2>1, <2>2, <4>4, <4>5
    <3>4. CASE cell # Wanted(order[u].leg)
      <4>1. LegEnds(u, FALSE, w) \/ order' = [w EXCEPT ![u].at = "sleeping"]
        BY <3>2, <3>4 DEF LookAnswered
      <4> QED
        BY <2>1, <2>2, <2>5, <2>6, <2>8, <4>1
    <3> QED
      BY <3>3, <3>4
  <2>9. CASE order[u].at = "first"
    <3> DEFINE o == [w[u] EXCEPT !.at = "send", !.leg = IF cell = "inactive" THEN "start" ELSE "stop"]
    <3>1. said[1] = cell /\ said[2] = cell
      BY <1>4, <2>1, <2>9 DEF AskOf
    <3>2. order' = [w EXCEPT ![u] = o]
      <4>1. FirstAnswered(u, cell, w)
        BY <1>3, <1>5, <2>2, <2>9, <3>1
      <4> QED
        BY <4>1 DEF FirstAnswered
    <3>3. o \in OrderTypes /\ o.at = "send"
      BY <2>4 DEF OrderTypes
    <3>4. OrderSound(o)
      BY <2>3, <2>4, <2>9, <3>1 DEF OrderTypes, OrderSound
    <3> QED
      BY <2>1, <2>2, <3>2, <3>3, <3>4
  <2> QED
    BY <2>1, <2>7, <2>8, <2>9 DEF Waits
<1> QED
  BY <1>1, <1>3, <1>4, <1>5
(* The request of a task is the last one now.                                 *)
LEMMA AsksHolds ==
  ASSUME CellInv, NEW u \in CellUsers, ~Waits(u),
         NEW o \in OrderTypes, OrderSound(o), o.at \in Waiting, AsksAs(u, o)
  PROVE  CellInv'
<1>1. /\ cell \in Statuses /\ cellQueue \in Seq(AskTypes) /\ order \in [CellUsers -> OrderTypes]
      /\ order' = [order EXCEPT ![u] = o] /\ cell' = cell
      /\ cellQueue' = Append(cellQueue, [by |-> u, ask |-> AskOf(o)])
  BY DEF CellInv, CellTypes, AsksAs
<1>2. [by |-> u, ask |-> AskOf(o)] \in AskTypes
  BY DEF AskTypes, AskOf, OrderSound
<1>3. CellTypes'
  BY <1>1, <1>2 DEF CellTypes
<1>4. QueueSound'
  <2>1. /\ Len(cellQueue) \in Nat /\ Len(cellQueue') = Len(cellQueue) + 1
        /\ \A i \in 1..Len(cellQueue) : cellQueue'[i] = cellQueue[i]
        /\ cellQueue'[Len(cellQueue) + 1] = [by |-> u, ask |-> AskOf(o)]
    BY <1>1, <1>2, AppendFacts
  <2>2. /\ order'[u] = o /\ u # NoUser
        /\ \A v \in CellUsers : v # u => order'[v] = order[v]
    BY <1>1, CellUserAssumption
  <2>3. \A i \in 1..Len(cellQueue) : cellQueue[i].by # u
    BY <2>2 DEF CellInv, QueueSound
  <2> SUFFICES ASSUME NEW i \in 1..Len(cellQueue'), NEW v \in CellUsers, cellQueue'[i].by = v
               PROVE  /\ Waits(v)' /\ cellQueue'[i].ask = AskOf(order'[v])
                      /\ \A j \in 1..Len(cellQueue') : cellQueue'[j].by = v => j = i
    BY DEF QueueSound, AskOf
  <2>4. \A j \in 1..Len(cellQueue') : j \in 1..Len(cellQueue) \/ j = Len(cellQueue) + 1
    BY <2>1
  <2>5. CASE i = Len(cellQueue) + 1
    <3>1. v = u /\ cellQueue'[i].ask = AskOf(o)
      BY <2>1, <2>5
    <3>2. \A j \in 1..Len(cellQueue') : cellQueue'[j].by = u => j = i
      BY <2>1, <2>3, <2>4, <2>5
    <3>3. Waits(u)'
      BY <2>2 DEF Waits, Waiting
    <3> QED
      BY <2>2, <3>1, <3>2, <3>3
  <2>6. CASE i \in 1..Len(cellQueue)
    <3>1. cellQueue'[i] = cellQueue[i] /\ cellQueue[i].by = v /\ v # u
      BY <2>1, <2>3, <2>6
    <3>2. /\ Waits(v) /\ cellQueue[i].ask = AskOf(order[v])
          /\ \A j \in 1..Len(cellQueue) : cellQueue[j].by = v => j = i
      BY <2>6, <3>1 DEF CellInv, QueueSound
    <3>3. \A j \in 1..Len(cellQueue') : cellQueue'[j].by = v => j = i
      <4>1. cellQueue'[Len(cellQueue) + 1].by = u
        BY <2>1
      <4> QED
        BY <2>1, <2>4, <3>1, <3>2, <4>1
    <3>4. order'[v] = order[v]
      BY <2>2, <3>1
    <3> QED
      BY <3>1, <3>2, <3>3, <3>4 DEF Waits
  <2> QED
    BY <2>4, <2>5, <2>6
<1>5. \A v \in CellUsers : OrderSound(order'[v])
  BY <1>1 DEF CellInv
<1> QED
  BY <1>3, <1>4, <1>5 DEF CellInv, OrderSound

(* What is in the queue belongs to nobody any more, or to somebody else.      *)
LEMMA EndsHolds ==
  ASSUME CellInv, NEW u \in CellUsers, NEW o \in OrderTypes, OrderSound(o), EndsAs(u, o)
  PROVE  CellInv'
<1>1. /\ cell \in Statuses /\ cellQueue \in Seq(AskTypes) /\ order \in [CellUsers -> OrderTypes]
      /\ order' = [order EXCEPT ![u] = o] /\ cell' = cell
  BY DEF CellInv, CellTypes, EndsAs
<1>2. /\ Len(cellQueue) \in Nat /\ DOMAIN cellQueue = 1..Len(cellQueue)
      /\ \A i \in 1..Len(cellQueue) : cellQueue[i] \in AskTypes
  BY <1>1, LenProperties
<1>3. /\ cellQueue' \in Seq(AskTypes) /\ Len(cellQueue') = Len(cellQueue)
      /\ \A i \in 1..Len(cellQueue) :
            cellQueue'[i] = IF cellQueue[i].by = u THEN [cellQueue[i] EXCEPT !.by = NoUser]
                            ELSE cellQueue[i]
  <2>1. cellQueue' = [i \in 1..Len(cellQueue) |->
                        IF cellQueue[i].by = u THEN [cellQueue[i] EXCEPT !.by = NoUser] ELSE cellQueue[i]]
    BY <1>2 DEF EndsAs, GiveUp
  <2>2. \A i \in 1..Len(cellQueue) : [cellQueue[i] EXCEPT !.by = NoUser] \in AskTypes
    BY <1>2 DEF AskTypes
  <2>3. cellQueue' \in [1..Len(cellQueue) -> AskTypes]
    BY <1>2, <2>1, <2>2
  <2> QED
    BY <1>2, <2>1, <2>3
<1>4. \A i \in 1..Len(cellQueue) :
        cellQueue'[i].by # NoUser => cellQueue'[i] = cellQueue[i] /\ cellQueue[i].by # u
  BY <1>2, <1>3 DEF AskTypes
<1>5. \A v \in CellUsers : v # u => order'[v] = order[v]
  BY <1>1
<1>6. QueueSound'
  <2> SUFFICES ASSUME NEW i \in 1..Len(cellQueue'), NEW v \in CellUsers, cellQueue'[i].by = v
               PROVE  /\ Waits(v)' /\ cellQueue'[i].ask = AskOf(order'[v])
                      /\ \A j \in 1..Len(cellQueue') : cellQueue'[j].by = v => j = i
    BY DEF QueueSound, AskOf
  <2>1. cellQueue'[i] = cellQueue[i] /\ cellQueue[i].by = v /\ v # u
    BY <1>3, <1>4, CellUserAssumption
  <2>2. /\ Waits(v) /\ cellQueue[i].ask = AskOf(order[v])
        /\ \A j \in 1..Len(cellQueue) : cellQueue[j].by = v => j = i
    BY <1>3, <2>1 DEF CellInv, QueueSound
  <2>3. \A j \in 1..Len(cellQueue') : cellQueue'[j].by = v => j = i
    BY <1>3, <1>4, <2>1, <2>2, CellUserAssumption
  <2>4. order'[v] = order[v]
    BY <1>5, <2>1
  <2> QED
    BY <2>1, <2>2, <2>3, <2>4 DEF Waits
<1>7. CellTypes'
  BY <1>1, <1>3 DEF CellTypes
<1>8. \A v \in CellUsers : OrderSound(order'[v])
  BY <1>1 DEF CellInv
<1> QED
  BY <1>6, <1>7, <1>8 DEF CellInv, OrderSound

(* The rest of the queue stays what it is.                                    *)
LEMMA ServeHolds ==
  ASSUME CellInv, ServeRequest
  PROVE  CellInv'
<1> DEFINE u == cellQueue[1].by
           w == Witnessed(order, cell')
<1>1. /\ cellQueue \in Seq(AskTypes) /\ cellQueue # <<>> /\ cellQueue' = Tail(cellQueue)
      /\ cell' \in Statuses /\ u \in CellUsers \cup {NoUser}
  <2>1. cellQueue \in Seq(AskTypes)
    BY DEF CellInv, CellTypes
  <2>2. cellQueue # <<>> /\ cellQueue' = Tail(cellQueue) /\ cell' \in Statuses
    BY ServeFacts
  <2>3. u \in CellUsers \cup {NoUser}
    BY ServeFacts
  <2> QED
    BY <2>1, <2>2, <2>3
<1>2. /\ Len(cellQueue) \in Nat /\ Len(cellQueue) >= 1 /\ cellQueue' \in Seq(AskTypes)
      /\ Len(cellQueue') = Len(cellQueue) - 1
      /\ \A i \in 1..(Len(cellQueue) - 1) : cellQueue'[i] = cellQueue[i + 1]
  BY <1>1, TailFacts
<1>3. /\ w \in [CellUsers -> OrderTypes]
      /\ \A v \in CellUsers : /\ OrderSound(w[v]) /\ w[v].at = order[v].at /\ w[v].leg = order[v].leg
  BY <1>1, WitnessedFacts, WitnessFacts
<1> HIDE DEF w
<1>4. /\ order' \in [CellUsers -> OrderTypes]
      /\ \A v \in CellUsers : OrderSound(order'[v]) /\ (v # u => order'[v] = w[v])
  <2>1. CASE u = NoUser
    BY <1>3, <2>1, ServeFacts, CellUserAssumption DEF w
  <2>2. CASE u # NoUser
    <3>1. PICK o \in OrderTypes : order' = [w EXCEPT ![u] = o] /\ OrderSound(o)
      BY <2>2, ServeFacts DEF w
    <3> QED
      BY <1>3, <3>1
  <2> QED
    BY <2>1, <2>2
<1>5. QueueSound'
  <2> SUFFICES ASSUME NEW i \in 1..Len(cellQueue'), NEW v \in CellUsers, cellQueue'[i].by = v
               PROVE  /\ Waits(v)' /\ cellQueue'[i].ask = AskOf(order'[v])
                      /\ \A j \in 1..Len(cellQueue') : cellQueue'[j].by = v => j = i
    BY DEF QueueSound, AskOf
  <2>1. /\ i + 1 \in 1..Len(cellQueue) /\ cellQueue'[i] = cellQueue[i + 1] /\ 1 \in 1..Len(cellQueue)
        /\ i + 1 # 1
    BY <1>2
  <2>2. /\ cellQueue[i + 1].by = v /\ Waits(v) /\ cellQueue[i + 1].ask = AskOf(order[v])
        /\ \A j \in 1..Len(cellQueue) : cellQueue[j].by = v => j = i + 1
    BY <2>1 DEF CellInv, QueueSound
  <2>3. v # u
    BY <2>1, <2>2
  <2>4. \A j \in 1..Len(cellQueue') : cellQueue'[j].by = v => j = i
    <3> SUFFICES ASSUME NEW j \in 1..Len(cellQueue'), cellQueue'[j].by = v
                 PROVE  j = i
      OBVIOUS
    <3>1. j + 1 \in 1..Len(cellQueue) /\ cellQueue'[j] = cellQueue[j + 1]
      BY <1>2
    <3>2. j + 1 = i + 1
      BY <2>2, <3>1
    <3> QED
      BY <1>2, <3>2
  <2>5. order'[v].at = order[v].at /\ order'[v].leg = order[v].leg
    BY <1>3, <1>4, <2>3
  <2> QED
    BY <2>1, <2>2, <2>4, <2>5 DEF Waits, AskOf
<1> QED
  BY <1>1, <1>2, <1>4, <1>5 DEF CellInv, CellTypes, OrderSound

(* The cell moves by itself, and every call under way sees it.                *)
LEMMA MovesHolds ==
  ASSUME CellInv, CellMoves
  PROVE  CellInv'
<1>1. cell' \in Statuses /\ cellQueue' = cellQueue /\ order' = Witnessed(order, cell')
  BY DEF CellMoves, Statuses
<1>2. /\ order' \in [CellUsers -> OrderTypes]
      /\ \A v \in CellUsers : /\ OrderSound(order'[v])
                              /\ order'[v].at = order[v].at /\ order'[v].leg = order[v].leg
  BY <1>1, WitnessedFacts, WitnessFacts
<1>3. CellTypes'
  BY <1>1, <1>2 DEF CellInv, CellTypes
<1>4. QueueSound'
  BY <1>1, <1>2 DEF CellInv, QueueSound, Waits, AskOf
<1> QED
  BY <1>2, <1>3, <1>4 DEF CellInv, OrderSound

LEMMA CellStays ==
  ASSUME CellInv, UNCHANGED cellVars
  PROVE  CellInv'
BY DEF cellVars, CellInv, CellTypes, QueueSound, Waits, AskOf, OrderSound

LEMMA CellInvStep == CellInv /\ [CellNext]_cellVars => CellInv'
<1> SUFFICES ASSUME CellInv, [CellNext]_cellVars PROVE CellInv'
  OBVIOUS
<1>1. ASSUME NEW u \in CellUsers, \E call \in CellCalls : BeginCall(u, call) PROVE CellInv'
  <2>1. /\ ~Waits(u)
        /\ \E o \in OrderTypes : OrderSound(o) /\ o.at \in Waiting /\ AsksAs(u, o)
    BY <1>1, AsksFacts
  <2> QED
    BY <2>1, AsksHolds
<1>2. ASSUME NEW u \in CellUsers, SendCommand_(u) PROVE CellInv'
  <2>1. /\ ~Waits(u)
        /\ \E o \in OrderTypes : OrderSound(o) /\ o.at \in Waiting /\ AsksAs(u, o)
    BY <1>2, AsksFacts
  <2> QED
    BY <2>1, AsksHolds
<1>3. ASSUME NEW u \in CellUsers, LookAgain(u) PROVE CellInv'
  <2>1. CASE cellQueue' # cellQueue
    <3>1. /\ ~Waits(u)
          /\ \E o \in OrderTypes : OrderSound(o) /\ o.at \in Waiting /\ AsksAs(u, o)
      BY <1>3, <2>1, AsksFacts
    <3> QED
      BY <3>1, AsksHolds
  <2>2. CASE cellQueue' = cellQueue
    <3>1. \E o \in OrderTypes : OrderSound(o) /\ o.at = "idle" /\ o.result # "yes" /\ EndsAs(u, o)
      BY <1>3, <2>2, EndsFacts
    <3> QED
      BY <3>1, EndsHolds
  <2> QED
    BY <2>1, <2>2
<1>4. ASSUME NEW u \in CellUsers, RequestFails(u) PROVE CellInv'
  <2>1. \E o \in OrderTypes : OrderSound(o) /\ o.at = "idle" /\ o.result # "yes" /\ EndsAs(u, o)
    BY <1>4, EndsFacts
  <2> QED
    BY <2>1, EndsHolds
<1> QED
  BY <1>1, <1>2, <1>3, <1>4, ServeHolds, MovesHolds, CellStays DEF CellNext

LEMMA CellFollows == CellInv => CellSound
<1> SUFFICES ASSUME CellInv, NEW u \in CellUsers, order[u].at = "idle", order[u].result = "yes"
             PROVE  CASE order[u].call = "start" -> order[u].up
                      [] order[u].call = "stop" -> order[u].down
                      [] order[u].call = "restart" -> order[u].again
  BY DEF CellSound
<1>1. OrderSound(order[u]) /\ order[u] \in OrderTypes
  BY DEF CellInv, CellTypes
<1> QED
  BY <1>1 DEF OrderSound, OrderTypes, CellCalls

(* netsim/managers/cell.py: for any number of tasks, a start(), stop() or     *)
(* restart() that returns True has seen the cell so during the call, whichever *)
(* answers are lost, whatever other tasks ask and the cell does by itself.    *)
THEOREM CellSafety == CellSpec => []CellSound
BY CellInvInit, CellInvStep, CellFollows, PTL DEF CellSpec

-----------------------------------------------------------------------------
(* The scenario runner, alone with the cell manager: what its call waits for  *)
(* was asked last, and nothing is left to serve once the answer has come.     *)

RunnerAlone ==
    /\ \A u \in CellUsers \ {Runner} : order[u].at = "idle" /\ order[u].result = "none"
    /\ \A i \in 1..Len(cellQueue) : cellQueue[i].by = Runner => i = Len(cellQueue)
    /\ order[Runner].at \in {"sleeping", "send"} => cellQueue = <<>>
    /\ order[Runner].at = "idle" /\ order[Runner].result = "yes" =>
          cellQueue = <<>> /\ (order[Runner].call = "stop" => cell = "inactive")

LEMMA AloneInit == CellInit => RunnerAlone
<1> SUFFICES ASSUME CellInit PROVE RunnerAlone
  OBVIOUS
<1>1. \A u \in CellUsers : order[u].at = "idle" /\ order[u].result = "none"
  BY DEF CellInit, NoOrder
<1>2. cellQueue = <<>> /\ Runner \in CellUsers
  BY RunnerAssumption DEF CellInit
<1> QED
  BY <1>1, <1>2 DEF RunnerAlone

LEMMA AloneAsks ==
  ASSUME CellInv, RunnerAlone, ~Waits(Runner),
         NEW o \in OrderTypes, o.at \in Waiting, AsksAs(Runner, o)
  PROVE  RunnerAlone'
<1>1. /\ cellQueue \in Seq(AskTypes) /\ order \in [CellUsers -> OrderTypes]
      /\ order' = [order EXCEPT ![Runner] = o] /\ Runner \in CellUsers
      /\ cellQueue' = Append(cellQueue, [by |-> Runner, ask |-> AskOf(o)])
  BY RunnerAssumption DEF CellInv, CellTypes, AsksAs
<1>2. /\ order'[Runner] = o /\ o.at \notin {"sleeping", "send", "idle"}
      /\ \A u \in CellUsers \ {Runner} : order'[u] = order[u]
  BY <1>1 DEF Waiting
<1>3. \A i \in 1..Len(cellQueue) : cellQueue[i].by # Runner
  BY <1>1 DEF CellInv, QueueSound
<1>4. \A i \in 1..Len(cellQueue') : cellQueue'[i].by = Runner => i = Len(cellQueue')
  BY <1>1, <1>3
<1> QED
  BY <1>2, <1>4 DEF RunnerAlone

LEMMA AloneEnds ==
  ASSUME CellInv, RunnerAlone, NEW o \in OrderTypes, o.at = "idle", o.result # "yes",
         EndsAs(Runner, o)
  PROVE  RunnerAlone'
<1>1. /\ order \in [CellUsers -> OrderTypes] /\ order' = [order EXCEPT ![Runner] = o]
      /\ GiveUp(Runner) /\ Runner \in CellUsers /\ Runner # NoUser
  BY RunnerAssumption, CellUserAssumption DEF CellInv, CellTypes, EndsAs
<1>2. order'[Runner] = o /\ \A u \in CellUsers \ {Runner} : order'[u] = order[u]
  BY <1>1
<1>3. /\ Len(cellQueue) \in Nat /\ DOMAIN cellQueue = 1..Len(cellQueue)
      /\ \A i \in 1..Len(cellQueue) : cellQueue[i] \in AskTypes
  <2>1. cellQueue \in Seq(AskTypes)
    BY DEF CellInv, CellTypes
  <2> QED
    BY <2>1, LenProperties
<1>4. \A i \in 1..Len(cellQueue') : cellQueue'[i].by # Runner
  <2>1. cellQueue' = [i \in 1..Len(cellQueue) |->
           IF cellQueue[i].by = Runner THEN [cellQueue[i] EXCEPT !.by = NoUser] ELSE cellQueue[i]]
    BY <1>1, <1>3 DEF GiveUp
  <2>2. Len(cellQueue') = Len(cellQueue)
    BY <1>3, <2>1
  <2>3. \A i \in 1..Len(cellQueue) : [cellQueue[i] EXCEPT !.by = NoUser].by # Runner
    BY <1>1, <1>3 DEF AskTypes
  <2> QED
    BY <2>1, <2>2, <2>3
<1> QED
  BY <1>2, <1>4 DEF RunnerAlone

LEMMA AloneServe ==
  ASSUME CellInv, RunnerAlone, ServeRequest
  PROVE  RunnerAlone'
<1> DEFINE by == cellQueue[1].by
           w == Witnessed(order, cell')
<1>1. /\ cellQueue \in Seq(AskTypes) /\ cellQueue # <<>> /\ cellQueue' = Tail(cellQueue)
      /\ cell' \in Statuses
  <2>1. cellQueue \in Seq(AskTypes)
    BY DEF CellInv, CellTypes
  <2> QED
    BY <2>1, ServeFacts
<1>2. /\ Len(cellQueue) \in Nat /\ Len(cellQueue) >= 1 /\ cellQueue' \in Seq(AskTypes)
      /\ Len(cellQueue') = Len(cellQueue) - 1
      /\ \A i \in 1..(Len(cellQueue) - 1) : cellQueue'[i] = cellQueue[i + 1]
  BY <1>1, TailFacts
<1>3. /\ w \in [CellUsers -> OrderTypes] /\ Runner \in CellUsers
      /\ \A v \in CellUsers : /\ w[v].at = order[v].at /\ w[v].result = order[v].result
                              /\ w[v].call = order[v].call
  BY <1>1, WitnessedFacts, WitnessFacts, RunnerAssumption
<1> HIDE DEF w
<1>4. \A i \in 1..Len(cellQueue') : cellQueue'[i].by = Runner => i = Len(cellQueue')
  <2> SUFFICES ASSUME NEW i \in 1..Len(cellQueue'), cellQueue'[i].by = Runner
               PROVE  i = Len(cellQueue')
    OBVIOUS
  <2>1. i + 1 \in 1..Len(cellQueue) /\ cellQueue[i + 1].by = Runner
    BY <1>2
  <2>2. i + 1 = Len(cellQueue)
    BY <2>1 DEF RunnerAlone
  <2> QED
    BY <1>2, <2>2
<1>5. CASE by = NoUser
  <2>1. order' = w
    BY <1>5, ServeFacts DEF w
  <2> QED
    BY <1>1, <1>3, <1>4, <2>1 DEF RunnerAlone
<1>6. CASE by # NoUser
  <2>1. by = Runner
    <3>1. by \in CellUsers /\ Waits(by)
      BY <1>6, ServeFacts
    <3> QED
      BY <3>1 DEF RunnerAlone, Waits
  <2>2. cellQueue' = <<>>
    <3>1. 1 \in 1..Len(cellQueue)
      BY <1>2
    <3>2. Len(cellQueue) = 1
      BY <2>1, <3>1 DEF RunnerAlone
    <3> QED
      BY <1>2, <3>2, EmptySeq
  <2>3. PICK o \in OrderTypes :
           /\ order' = [w EXCEPT ![Runner] = o]
           /\ o.at = "idle" /\ o.result = "yes" /\ o.call = "stop" => cell' = "inactive"
    BY <1>6, <2>1, ServeFacts DEF w
  <2>4. order'[Runner] = o /\ \A v \in CellUsers \ {Runner} : order'[v] = w[v]
    BY <1>3, <2>3
  <2> QED
    BY <1>3, <1>4, <2>2, <2>3, <2>4 DEF RunnerAlone
<1> QED
  BY <1>5, <1>6

LEMMA AloneMoves ==
  ASSUME CellInv, RunnerAlone, CellMoves
  PROVE  RunnerAlone'
<1>1. /\ cell' \in Statuses /\ cellQueue' = cellQueue /\ order' = Witnessed(order, cell')
      /\ cell # "inactive" /\ Runner \in CellUsers
  BY RunnerAssumption DEF CellMoves, Statuses
<1>2. \A v \in CellUsers : /\ order'[v].at = order[v].at /\ order'[v].result = order[v].result
                           /\ order'[v].call = order[v].call
  BY <1>1, WitnessedFacts, WitnessFacts
<1> QED
  BY <1>1, <1>2 DEF RunnerAlone

\* What the runner does with the cell manager, and what happens by itself.
ManagerStep ==
    \/ \E call \in CellCalls : BeginCall(Runner, call)
    \/ SendCommand_(Runner) \/ LookAgain(Runner) \/ RequestFails(Runner)
    \/ order[Runner].at # "idle" /\ GiveUp(Runner) /\ Result(Runner, "given up") /\ cell' = cell
    \/ ServeRequest \/ CellMoves \/ UNCHANGED cellVars

LEMMA ManagerHolds ==
  ASSUME CellInv, RunnerAlone, ManagerStep
  PROVE  CellInv' /\ RunnerAlone'
<1>0. Runner \in CellUsers
  BY RunnerAssumption
<1>1. ASSUME ~Waits(Runner),
             \E o \in OrderTypes : OrderSound(o) /\ o.at \in Waiting /\ AsksAs(Runner, o)
      PROVE  CellInv' /\ RunnerAlone'
  BY <1>0, <1>1, AsksHolds, AloneAsks
<1>2. ASSUME \E o \in OrderTypes : /\ OrderSound(o) /\ o.at = "idle" /\ o.result # "yes"
                                   /\ EndsAs(Runner, o)
      PROVE  CellInv' /\ RunnerAlone'
  BY <1>0, <1>2, EndsHolds, AloneEnds
<1>3. CASE \/ \E call \in CellCalls : BeginCall(Runner, call)
           \/ SendCommand_(Runner)
           \/ LookAgain(Runner) /\ cellQueue' # cellQueue
  BY <1>0, <1>1, <1>3, AsksFacts
<1>4. CASE \/ LookAgain(Runner) /\ cellQueue' = cellQueue
           \/ RequestFails(Runner)
           \/ order[Runner].at # "idle" /\ GiveUp(Runner) /\ Result(Runner, "given up") /\ cell' = cell
  BY <1>0, <1>2, <1>4, EndsFacts
<1>5. CASE UNCHANGED cellVars
  <2>1. RunnerAlone'
    BY <1>5 DEF cellVars, RunnerAlone
  <2> QED
    BY <1>5, <2>1, CellStays
<1> QED
  BY <1>3, <1>4, <1>5, ServeHolds, AloneServe, MovesHolds, AloneMoves DEF ManagerStep

-----------------------------------------------------------------------------
(* The results of a scenario: one for each step before the one it is at, and  *)
(* "passed" is that none of them has failed before the teardown.              *)

ResultTypes == [phase : 1..3, at : Nat, status : {"passed", "failed", "skipped"}]
RunTypes == [phase : 1..3, at : Nat \ {0}, busy : BOOLEAN, passed : BOOLEAN, saved : BOOLEAN,
             ends : {"running", "raised", "done"}]
InPhase(p) == {r \in ResultTypes : r.phase = p}
Early == {r \in ResultTypes : r.status = "failed" /\ r.phase < 3}
SetupFailed == {r \in ResultTypes : r.status = "failed" /\ r.phase = 1}
StepsOf(p) == scenario[Phases[p]]

RunTypeOK == scenario \in Scenarios /\ run \in RunTypes /\ results \in Seq(ResultTypes)
Tallied ==
    /\ run.at <= Len(StepsOf(run.phase)) + 1
    /\ HowMany(results, InPhase(run.phase)) = run.at - 1
    /\ \A p \in 1..3 : p > run.phase => HowMany(results, InPhase(p)) = 0
    /\ \A p \in 1..2 : run.passed /\ p < run.phase =>
          HowMany(results, InPhase(p)) = Len(StepsOf(p))
Judged ==
    /\ run.passed <=> HowMany(results, Early) = 0
    /\ HowMany(results, SetupFailed) # 0 => HowMany(results, InPhase(2)) = 0 /\ run.phase = 3
    /\ run.phase = 1 => run.passed
    /\ run.ends = "done" => run.phase = 3
    /\ run.busy => run.ends = "running" /\ run.at <= Len(StepsOf(run.phase))
RunInv == RunTypeOK /\ Tallied /\ Judged

LEMMA StepsFacts ==
  ASSUME scenario \in Scenarios, NEW p \in 1..3
  PROVE  StepsOf(p) \in Seq(StepTypes) /\ Len(StepsOf(p)) \in Nat
<1>1. {scenario.setup, scenario.steps, scenario.teardown} \subseteq Seq(StepTypes)
  BY RunnerAssumption
<1>2. StepsOf(p) \in {scenario.setup, scenario.steps, scenario.teardown}
  <2>1. p = 1 \/ p = 2 \/ p = 3
    OBVIOUS
  <2> QED
    BY <2>1 DEF StepsOf, Phases
<1>3. StepsOf(p) \in Seq(StepTypes)
  BY <1>1, <1>2
<1> QED
  BY <1>3, LenProperties

LEMMA RunInvInit == ScenarioInit => RunInv
<1> SUFFICES ASSUME ScenarioInit PROVE RunInv
  OBVIOUS
<1>1. /\ scenario \in Scenarios /\ results = <<>> /\ results \in Seq(ResultTypes)
      /\ run = [phase |-> 1, at |-> 1, busy |-> FALSE, passed |-> TRUE, saved |-> FALSE, ends |-> "running"]
  BY DEF ScenarioInit
<1>2. \A S : HowMany(results, S) = 0
  BY <1>1, CountType
<1>3. Len(StepsOf(1)) \in Nat
  BY <1>1, StepsFacts
<1>4. RunTypeOK
  BY <1>1 DEF RunTypeOK, RunTypes
<1>5. Tallied
  BY <1>1, <1>2, <1>3 DEF Tallied
<1>6. Judged
  BY <1>1, <1>2 DEF Judged
<1> QED
  BY <1>4, <1>5, <1>6 DEF RunInv

(* A result is kept, and run() goes on: to the next step or to the teardown.  *)
LEMMA KeepsHolds ==
  ASSUME RunInv, run.ends = "running", run.at <= Len(Current),
         NEW status \in {"passed", "failed", "skipped"}, NEW value \in BOOLEAN,
         Keeps(status, value)
  PROVE  RunInv'
<1> DEFINE r == [phase |-> run.phase, at |-> run.at, status |-> status]
           leaves == status = "failed" /\ (run.phase = 1 \/ (run.phase = 2 /\ Step.onFailure # "continue"))
<1>1. /\ scenario \in Scenarios /\ results \in Seq(ResultTypes) /\ run \in RunTypes
      /\ Tallied /\ Judged
  BY DEF RunInv, RunTypeOK
<1>2. /\ run.phase \in 1..3 /\ run.at \in Nat /\ run.at >= 1 /\ run.passed \in BOOLEAN
      /\ run.saved \in BOOLEAN
  BY <1>1 DEF RunTypes
<1>3. Current = StepsOf(run.phase) /\ Len(StepsOf(run.phase)) \in Nat
  BY <1>1, <1>2, StepsFacts DEF Current, StepsOf
<1>4. PICK saved \in BOOLEAN, passed \in BOOLEAN :
         /\ scenario' = scenario /\ results' = Append(results, r)
         /\ passed <=> run.passed /\ (status = "failed" => run.phase = 3)
         /\ run' = [run EXCEPT !.phase = IF leaves THEN 3 ELSE run.phase,
                               !.at = IF leaves THEN 1 ELSE run.at + 1,
                               !.busy = FALSE, !.passed = passed, !.saved = saved]
  BY <1>2 DEF Keeps, AfterFailure
<1> HIDE DEF leaves
<1>5. /\ run' \in RunTypes /\ run'.phase = (IF leaves THEN 3 ELSE run.phase)
      /\ run'.at = (IF leaves THEN 1 ELSE run.at + 1) /\ run'.busy = FALSE
      /\ run'.passed <=> run.passed /\ (status = "failed" => run.phase = 3)
      /\ run'.ends = "running"
  <2>1. run.at + 1 \in Nat \ {0} /\ 1 \in Nat \ {0} /\ 3 \in 1..3
    BY <1>2
  <2> QED
    BY <1>1, <1>2, <1>4, <2>1 DEF RunTypes
<1>6. r \in ResultTypes
  BY <1>2 DEF ResultTypes
<1>7. \A S : /\ HowMany(results, S) \in Nat
             /\ HowMany(results', S) = IF r \in S THEN HowMany(results, S) + 1 ELSE HowMany(results, S)
  BY <1>1, <1>4, <1>6, CountType, CountAppend
<1>8. /\ \A p \in 1..3 : r \in InPhase(p) <=> p = run.phase
      /\ r \in Early <=> status = "failed" /\ run.phase < 3
      /\ r \in SetupFailed <=> status = "failed" /\ run.phase = 1
  BY <1>6 DEF InPhase, Early, SetupFailed
<1>9. leaves => status = "failed" /\ run.phase < 3
  BY DEF leaves
<1>10. RunTypeOK'
  BY <1>1, <1>4, <1>5, <1>6, AppendFacts DEF RunTypeOK
<1> HIDE DEF r
<1>11. /\ \A p \in 1..3 : /\ HowMany(results, InPhase(p)) \in Nat
                         /\ HowMany(results', InPhase(p)) =
                              IF p = run.phase THEN HowMany(results, InPhase(p)) + 1
                              ELSE HowMany(results, InPhase(p))
       /\ \A p \in 1..3 : StepsOf(p)' = StepsOf(p)
  BY <1>4, <1>7, <1>8 DEF StepsOf
<1>12. Tallied'
  <2>1. /\ run'.at <= Len(StepsOf(run'.phase)) + 1
        /\ HowMany(results', InPhase(run'.phase)) = run'.at - 1
    <3>1. CASE leaves
      <4>1. run'.phase = 3 /\ run'.at = 1 /\ run.phase < 3
        BY <1>5, <1>9, <3>1
      <4>2. HowMany(results', InPhase(3)) = 0
        BY <1>1, <1>2, <1>11, <4>1 DEF Tallied
      <4>3. Len(StepsOf(3)) \in Nat
        BY <1>1, StepsFacts
      <4> QED
        BY <1>11, <4>1, <4>2, <4>3
    <3>2. CASE ~leaves
      <4>1. run'.phase = run.phase /\ run'.at = run.at + 1
        BY <1>5, <3>2
      <4>2. HowMany(results, InPhase(run.phase)) = run.at - 1
        BY <1>1 DEF Tallied
      <4>3. HowMany(results', InPhase(run'.phase)) = (run.at - 1) + 1
        BY <1>2, <1>11, <4>1, <4>2
      <4> QED
        BY <1>2, <1>3, <4>1, <4>3
    <3> QED
      BY <3>1, <3>2
  <2>2. ASSUME NEW p \in 1..3, p > run'.phase PROVE HowMany(results', InPhase(p)) = 0
    <3>1. p > run.phase /\ p # run.phase
      BY <1>2, <1>5, <2>2
    <3> QED
      BY <1>1, <1>11, <3>1 DEF Tallied
  <2>3. ASSUME NEW p \in 1..2, run'.passed, p < run'.phase
        PROVE  HowMany(results', InPhase(p)) = Len(StepsOf(p))
    <3>1. ~leaves /\ run.passed
      BY <1>2, <1>5, <1>9, <2>3
    <3>2. p < run.phase /\ p # run.phase /\ p \in 1..3
      BY <1>2, <1>5, <2>3, <3>1
    <3> QED
      BY <1>1, <1>11, <3>1, <3>2 DEF Tallied
  <2> QED
    BY <1>4, <2>1, <2>2, <2>3 DEF Tallied, StepsOf, InPhase, ResultTypes, HowMany, Where
<1>13. Judged'
  <2>1. run'.passed <=> HowMany(results', Early) = 0
    BY <1>1, <1>2, <1>5, <1>7, <1>8 DEF Judged
  <2>2. HowMany(results', SetupFailed) # 0 => HowMany(results', InPhase(2)) = 0 /\ run'.phase = 3
    <3>1. CASE r \in SetupFailed
      <4>1. status = "failed" /\ run.phase = 1
        BY <1>8, <3>1
      <4>2. leaves
        BY <4>1 DEF leaves
      <4> QED
        BY <1>1, <1>5, <1>11, <4>1, <4>2 DEF Tallied
    <3>2. CASE r \notin SetupFailed
      <4> SUFFICES ASSUME HowMany(results, SetupFailed) # 0
                   PROVE  HowMany(results', InPhase(2)) = 0 /\ run'.phase = 3
        BY <1>7, <3>2
      <4>1. HowMany(results, InPhase(2)) = 0 /\ run.phase = 3
        BY <1>1 DEF Judged
      <4> QED
        BY <1>5, <1>11, <4>1
    <3> QED
      BY <3>1, <3>2
  <2>3. run'.phase = 1 => run'.passed
    BY <1>1, <1>2, <1>5 DEF Judged, leaves
  <2> QED
    BY <1>5, <2>1, <2>2, <2>3 DEF Judged, StepsOf, InPhase, Early, SetupFailed, ResultTypes, HowMany, Where
<1> QED
  BY <1>10, <1>12, <1>13 DEF RunInv

(* The setup and the steps are through, or run() ends.                        *)
LEMMA PhaseHolds ==
  ASSUME RunInv, NextPhase
  PROVE  RunInv'
<1>1. /\ scenario \in Scenarios /\ results \in Seq(ResultTypes) /\ run \in RunTypes
      /\ Tallied /\ Judged
      /\ scenario' = scenario /\ results' = results /\ run.ends = "running"
  BY DEF RunInv, RunTypeOK, NextPhase
<1>2. run.phase \in 1..3 /\ run.at \in Nat /\ run.at >= 1 /\ run.passed \in BOOLEAN
  BY <1>1 DEF RunTypes
<1>3. \A p \in 1..3 : Len(StepsOf(p)) \in Nat /\ StepsOf(p)' = StepsOf(p)
  BY <1>1, StepsFacts DEF StepsOf
<1>4. run.at = Len(StepsOf(run.phase)) + 1
  <2>1. run.at > Len(StepsOf(run.phase)) /\ run.at <= Len(StepsOf(run.phase)) + 1
    BY <1>1 DEF NextPhase, Current, StepsOf, Tallied
  <2> QED
    BY <1>2, <1>3, <2>1
<1>5. ~run.busy
  <2>1. run.busy => run.at <= Len(StepsOf(run.phase))
    BY <1>1 DEF Judged
  <2> QED
    BY <1>2, <1>3, <1>4, <2>1
<1>6. CASE run.phase = 3
  <2>1. run' = [run EXCEPT !.ends = "done"]
    BY <1>6 DEF NextPhase
  <2>2. /\ run' \in RunTypes /\ run'.phase = run.phase /\ run'.at = run.at /\ run'.busy = run.busy
        /\ run'.passed = run.passed /\ run'.ends = "done"
    BY <1>1, <2>1 DEF RunTypes
  <2>3. RunTypeOK' /\ Tallied'
    BY <1>1, <2>2 DEF RunTypeOK, Tallied, StepsOf, InPhase, ResultTypes, HowMany, Where
  <2>4. Judged'
    BY <1>1, <1>5, <1>6, <2>2 DEF Judged, StepsOf, InPhase, Early, SetupFailed, ResultTypes, HowMany, Where
  <2> QED
    BY <2>3, <2>4 DEF RunInv
<1>7. CASE run.phase < 3
  <2>1. run' = [run EXCEPT !.phase = run.phase + 1, !.at = 1]
    BY <1>2, <1>7 DEF NextPhase
  <2>2. /\ run' \in RunTypes /\ run'.phase = run.phase + 1 /\ run'.at = 1 /\ run'.busy = run.busy
        /\ run'.passed = run.passed /\ run'.ends = "running"
    <3>1. run.phase + 1 \in 1..3 /\ 1 \in Nat \ {0}
      BY <1>2, <1>7
    <3> QED
      BY <1>1, <2>1, <3>1 DEF RunTypes
  <2>3. /\ HowMany(results, InPhase(run.phase)) = Len(StepsOf(run.phase))
        /\ HowMany(results, InPhase(run.phase + 1)) = 0
        /\ \A p \in 1..3 : p > run.phase + 1 => HowMany(results, InPhase(p)) = 0
        /\ \A p \in 1..2 : run.passed /\ p < run.phase => HowMany(results, InPhase(p)) = Len(StepsOf(p))
    <3>1. HowMany(results, InPhase(run.phase)) = run.at - 1
      BY <1>1 DEF Tallied
    <3> QED
      BY <1>1, <1>2, <1>3, <1>4, <1>7, <3>1 DEF Tallied
  <2>4. \A p \in 1..2 : run.passed /\ p < run.phase + 1 => HowMany(results, InPhase(p)) = Len(StepsOf(p))
    <3> SUFFICES ASSUME NEW p \in 1..2, run.passed, p < run.phase + 1
                 PROVE  HowMany(results, InPhase(p)) = Len(StepsOf(p))
      OBVIOUS
    <3>1. p < run.phase \/ p = run.phase
      BY <1>2
    <3> QED
      BY <2>3, <3>1
  <2>5. 1 <= Len(StepsOf(run.phase + 1)) + 1
    BY <1>2, <1>3, <1>7
  <2>6. RunTypeOK' /\ Tallied'
    BY <1>1, <2>2, <2>3, <2>4, <2>5
    DEF RunTypeOK, Tallied, StepsOf, InPhase, ResultTypes, HowMany, Where
  <2>7. Judged'
    <3>1. HowMany(results, SetupFailed) = 0
      BY <1>1, <1>7 DEF Judged
    <3> QED
      BY <1>1, <1>2, <1>5, <1>7, <2>2, <3>1
      DEF Judged, StepsOf, InPhase, Early, SetupFailed, ResultTypes, HowMany, Where
  <2> QED
    BY <2>6, <2>7 DEF RunInv
<1> QED
  BY <1>2, <1>6, <1>7

ScenInv == CellInv /\ RunnerAlone /\ RunInv

(* What leaves the scenario alone, starts the call of a step, or raises.      *)
LEMMA RunStays ==
  ASSUME RunInv, UNCHANGED <<scenario, results>>,
         \/ run' = run
         \/ Due /\ run' = [run EXCEPT !.busy = TRUE]
         \/ Due /\ run' = [run EXCEPT !.ends = "raised"]
  PROVE  RunInv'
<1>1. /\ RunTypeOK /\ Tallied /\ Judged /\ run \in RunTypes
      /\ scenario' = scenario /\ results' = results
  BY DEF RunInv, RunTypeOK
<1>2. Due => run.ends = "running" /\ run.at <= Len(StepsOf(run.phase)) /\ ~run.busy
  BY DEF Due, Current, StepsOf
<1>3. /\ run' \in RunTypes /\ run'.phase = run.phase /\ run'.at = run.at /\ run'.passed = run.passed
      /\ run'.ends = "done" => run.ends = "done"
      /\ run'.busy => run'.ends = "running" /\ run.at <= Len(StepsOf(run.phase))
  <2>1. CASE run' = run
    BY <1>1, <2>1 DEF Judged
  <2>2. CASE Due /\ run' = [run EXCEPT !.busy = TRUE]
    <3>1. /\ run' \in RunTypes /\ run'.phase = run.phase /\ run'.at = run.at /\ run'.passed = run.passed
          /\ run'.ends = run.ends
      BY <1>1, <2>2 DEF RunTypes
    <3> QED
      BY <1>2, <2>2, <3>1
  <2>3. CASE Due /\ run' = [run EXCEPT !.ends = "raised"]
    <3>1. /\ run' \in RunTypes /\ run'.phase = run.phase /\ run'.at = run.at /\ run'.passed = run.passed
          /\ run'.ends = "raised" /\ run'.busy = run.busy
      BY <1>1, <2>3 DEF RunTypes
    <3> QED
      BY <1>2, <2>3, <3>1
  <2> QED
    BY <2>1, <2>2, <2>3
<1>4. RunTypeOK' /\ Tallied'
  BY <1>1, <1>3 DEF RunTypeOK, Tallied, StepsOf, InPhase, ResultTypes, HowMany, Where
<1>5. Judged'
  BY <1>1, <1>3 DEF Judged, StepsOf, InPhase, Early, SetupFailed, ResultTypes, HowMany, Where
<1> QED
  BY <1>4, <1>5 DEF RunInv

LEMMA ScenInvStep == ScenInv /\ [ScenarioNext]_runnerVars => ScenInv'
<1> SUFFICES ASSUME ScenInv, [ScenarioNext]_runnerVars PROVE ScenInv'
  OBVIOUS
<1>1. CellInv /\ RunnerAlone /\ RunInv
  BY DEF ScenInv
<1>2. Due => run.ends = "running" /\ run.at <= Len(Current)
  BY DEF Due
<1>3. run.busy => run.ends = "running" /\ run.at <= Len(Current)
  BY <1>1 DEF RunInv, Judged, Current, StepsOf
<1>4. ASSUME UNCHANGED cellVars PROVE CellInv' /\ RunnerAlone'
  BY <1>1, <1>4, ManagerHolds DEF ManagerStep
<1>5. CASE SkipStep
  <2>1. Due /\ Keeps("skipped", FALSE) /\ UNCHANGED cellVars
    BY <1>5 DEF SkipStep
  <2>2. RunInv'
    BY <1>1, <1>2, <2>1, KeepsHolds
  <2> QED
    BY <1>4, <2>1, <2>2 DEF ScenInv
<1>6. CASE StepRaises
  <2>1. Due /\ run' = [run EXCEPT !.ends = "raised"] /\ UNCHANGED <<scenario, results>> /\ UNCHANGED cellVars
    BY <1>6 DEF StepRaises
  <2>2. RunInv'
    BY <1>1, <2>1, RunStays
  <2> QED
    BY <1>4, <2>1, <2>2 DEF ScenInv
<1>7. CASE PlainStep
  <2>1. PICK status \in {"passed", "failed", "skipped"}, value \in BOOLEAN :
           Due /\ Keeps(status, value) /\ UNCHANGED cellVars
    <3>1. Due /\ UNCHANGED cellVars
      BY <1>7 DEF PlainStep
    <3>2. Keeps("passed", Step.action = "query") \/ Keeps("failed", FALSE)
      BY <1>7 DEF PlainStep
    <3>3. (Step.action = "query") \in BOOLEAN
      OBVIOUS
    <3> QED
      BY <3>1, <3>2, <3>3
  <2>2. RunInv'
    BY <1>1, <1>2, <2>1, KeepsHolds
  <2> QED
    BY <1>4, <2>1, <2>2 DEF ScenInv
<1>8. CASE BeginStep
  <2>1. /\ Due /\ run' = [run EXCEPT !.busy = TRUE] /\ UNCHANGED <<scenario, results>>
        /\ \E call \in CellCalls : BeginCall(Runner, call)
    BY <1>8 DEF BeginStep
  <2>2. RunInv'
    BY <1>1, <2>1, RunStays
  <2>3. CellInv' /\ RunnerAlone'
    BY <1>1, <2>1, ManagerHolds DEF ManagerStep
  <2> QED
    BY <2>2, <2>3 DEF ScenInv
<1>9. CASE StepReturns
  <2>1. PICK status \in {"passed", "failed", "skipped"} :
           run.busy /\ Keeps(status, TRUE) /\ UNCHANGED cellVars
    BY <1>9 DEF StepReturns
  <2>2. RunInv'
    BY <1>1, <1>3, <2>1, KeepsHolds
  <2> QED
    BY <1>4, <2>1, <2>2 DEF ScenInv
<1>10. CASE StepTimesOut
  <2>1. /\ run.busy /\ Keeps("failed", FALSE)
        /\ order[Runner].at # "idle" /\ GiveUp(Runner) /\ Result(Runner, "given up") /\ cell' = cell
    BY <1>10 DEF StepTimesOut
  <2>2. RunInv'
    BY <1>1, <1>3, <2>1, KeepsHolds
  <2>3. CellInv' /\ RunnerAlone'
    BY <1>1, <2>1, ManagerHolds DEF ManagerStep
  <2> QED
    BY <2>2, <2>3 DEF ScenInv
<1>11. CASE NextPhase
  <2>1. UNCHANGED cellVars
    BY <1>11 DEF NextPhase
  <2> QED
    BY <1>1, <1>4, <1>11, <2>1, PhaseHolds DEF ScenInv
<1>12. ASSUME ManagerStep, UNCHANGED <<scenario, run, results>> PROVE ScenInv'
  <2>1. RunInv'
    BY <1>1, <1>12, RunStays
  <2>2. CellInv' /\ RunnerAlone'
    BY <1>1, <1>12, ManagerHolds
  <2> QED
    BY <2>1, <2>2 DEF ScenInv
<1>13. CASE /\ \/ ServeRequest \/ CellMoves \/ SendCommand_(Runner)
               \/ LookAgain(Runner) \/ RequestFails(Runner)
            /\ UNCHANGED <<scenario, run, results>>
  <2>1. ManagerStep
    BY <1>13 DEF ManagerStep
  <2> QED
    BY <1>12, <1>13, <2>1
<1>14. CASE UNCHANGED runnerVars
  <2>1. ManagerStep /\ UNCHANGED <<scenario, run, results>>
    BY <1>14 DEF ManagerStep, runnerVars
  <2> QED
    BY <1>12, <2>1
<1> QED
  BY <1>5, <1>6, <1>7, <1>8, <1>9, <1>10, <1>11, <1>13, <1>14 DEF ScenarioNext

LEMMA VerdictFollows == RunInv => VerdictBacked
<1> SUFFICES ASSUME RunInv PROVE VerdictBacked
  OBVIOUS
<1>1. /\ scenario \in Scenarios /\ results \in Seq(ResultTypes) /\ run \in RunTypes
      /\ Tallied /\ Judged
  BY DEF RunInv, RunTypeOK
<1>2. DOMAIN results = 1..Len(results) /\ \A i \in 1..Len(results) : results[i] \in ResultTypes
  BY <1>1, LenProperties
<1>3. ASSUME NEW p \in 1..3 PROVE ResultsOf(p) = Where(results, InPhase(p))
  BY <1>2 DEF ResultsOf, Where, InPhase
<1>4. Failures = Where(results, Early)
  BY <1>2 DEF Failures, Where, Early
<1>5. Failures = {} <=> run.passed
  BY <1>1, <1>4, CountZero DEF Judged
<1>6. ASSUME run.ends = "done", run.passed, NEW p \in 1..2 PROVE Whole(p)
  <2>1. run.phase = 3 /\ p < 3 /\ p \in 1..3
    BY <1>1, <1>6 DEF Judged
  <2>2. HowMany(results, InPhase(p)) = Len(StepsOf(p))
    BY <1>1, <1>6, <2>1 DEF Tallied
  <2> QED
    BY <1>3, <2>1, <2>2 DEF Whole, StepsOf, HowMany
<1>7. ASSUME ResultsOf(2) # {}, NEW i \in Failures PROVE results[i].phase = 2
  <2>1. HowMany(results, InPhase(2)) # 0
    <3>1. ResultsOf(2) = Where(results, InPhase(2))
      BY <1>3
    <3> QED
      BY <1>1, <1>7, <3>1, CountZero
  <2>2. Where(results, SetupFailed) = {}
    <3>1. HowMany(results, SetupFailed) = 0
      BY <1>1, <2>1 DEF Judged
    <3> QED
      BY <1>1, <3>1, CountZero
  <2>3. i \in 1..Len(results) /\ results[i] \in ResultTypes /\ results[i].status = "failed" /\ results[i].phase < 3
    BY <1>2 DEF Failures
  <2>4. results[i].phase # 1
    BY <2>2, <2>3 DEF Where, SetupFailed
  <2> QED
    BY <2>3, <2>4 DEF ResultTypes
<1> QED
  BY <1>5, <1>6, <1>7 DEF VerdictBacked

(* netsim/scenario.py: for every scenario, a scenario that has passed has a   *)
(* result for each step of its setup and its steps and no failure among them, *)
(* no step runs after a setup that failed, and a scenario that ends with the  *)
(* cell stopped leaves nothing that would start it again, whichever steps     *)
(* fail, raise or run out of time.                                            *)
THEOREM ScenarioSafety == ScenarioSpec => []ScenarioSound
<1>1. CellInit /\ ScenarioInit => ScenInv
  BY CellInvInit, AloneInit, RunInvInit DEF ScenInv
<1>2. ScenInv => ScenarioSound
  <2> SUFFICES ASSUME ScenInv PROVE ScenarioSound
    OBVIOUS
  <2>1. CellInv /\ RunnerAlone /\ RunInv /\ Runner \in CellUsers
    BY RunnerAssumption DEF ScenInv
  <2>2. ASSUME order[Runner].call = "stop", order[Runner].result = "yes"
        PROVE  cell = "inactive" /\ cellQueue = <<>>
    <3>1. order[Runner].at = "idle"
      BY <2>1, <2>2 DEF CellInv, OrderSound
    <3> QED
      BY <2>1, <2>2, <3>1 DEF RunnerAlone
  <2>3. CleanedUp
    BY <2>2 DEF CleanedUp
  <2> QED
    BY <2>1, <2>3, CellFollows, VerdictFollows DEF ScenarioSound
<1> QED
  BY <1>1, <1>2, ScenInvStep, PTL DEF ScenarioSpec

-----------------------------------------------------------------------------
(* The event manager. *)

Subscriptions == Lists \X Subscribers
Places == [list : Lists \cup {NoList}, index : Nat]

\* The callback is in the list still.
Stands(x) == x[1] \in Live /\ \E p \in 1..Len(lists[x[1]]) : lists[x[1]][p] = x[2]

\* Every variable has its type, and a callback is in a list at most once.
EventTypes ==
    /\ EventManagerTypeOK
    /\ walking \in [Emitters -> Places]
    /\ steady \in [Emitters -> SUBSET Subscriptions]
    /\ heard \in [Emitters -> SUBSET Subscriptions]
    /\ shrunk \in [Emitters -> SUBSET (Lists \cup {NoList})]
    /\ twice \in [Emitters -> SUBSET Subscriptions]
    /\ \A l \in Lists : IsInjective(lists[l])

\* The walk of an emission at index n of list l: those it may still owe are
\* ahead of it, those it served behind.
Owed(due, had, short, l, n) ==
    /\ \A x \in due : Stands(x) /\ (x[1] = General \/ l = General \/ x[1] = l)
    /\ \A x \in due \ had : x[1] \notin short =>
          /\ x[1] = l \/ (l = General /\ x[1] # General)
          /\ x[1] = l => \A p \in 1..Len(lists[l]) : lists[l][p] = x[2] => p > n
HasServed(had, l, n) ==
    \A x \in had :
        /\ x[1] = l \/ (x[1] = General /\ l # General)
        /\ x[1] = l => \E p \in 1..Len(lists[l]) : lists[l][p] = x[2] /\ p <= n
WalkIs(e) == LET l == walking[e].list n == walking[e].index
             IN Owed(steady[e], heard[e], shrunk[e], l, n) /\ HasServed(heard[e], l, n)
Walks == \A e \in Emitters : walking[e] # Idle => WalkIs(e)

EventInv == EventTypes /\ ListenersHear /\ Walks

LEMMA ListTypes ==
  ASSUME EventTypes, NEW l \in Lists
  PROVE  /\ lists[l] \in Seq(Subscribers) /\ Len(lists[l]) \in Nat
         /\ DOMAIN lists[l] = 1..Len(lists[l])
         /\ \A p \in 1..Len(lists[l]) : lists[l][p] \in Subscribers
         /\ \A p, q \in 1..Len(lists[l]) : lists[l][p] = lists[l][q] => p = q
<1>1. lists[l] \in Seq(Subscribers)
  BY DEF EventTypes, EventManagerTypeOK
<1>2. Len(lists[l]) \in Nat /\ DOMAIN lists[l] = 1..Len(lists[l])
      /\ \A p \in 1..Len(lists[l]) : lists[l][p] \in Subscribers
  BY <1>1, LenProperties, ElementOfSeq
<1>3. IsInjective(lists[l])
  BY DEF EventTypes
<1> QED
  BY <1>1, <1>2, <1>3 DEF IsInjective

LEMMA WalkTypes ==
  ASSUME EventTypes, NEW e \in Emitters
  PROVE  /\ walking[e].list \in Lists \cup {NoList} /\ walking[e].index \in Nat
         /\ walking[e] # Idle => walking[e].list \in Lists /\ walking[e].index \in Nat \ {0}
         /\ steady[e] \subseteq Subscriptions /\ heard[e] \subseteq Subscriptions
         /\ General \in Lists /\ General # NoList /\ NoList \notin Lists
BY EventManagerAssumption DEF EventTypes, EventManagerTypeOK, Places, Lists, General, NoList

(* The initial state satisfies the invariant.                                 *)
LEMMA EventInitially == EventManagerInit => EventInv
<1> SUFFICES ASSUME EventManagerInit PROVE EventInv
  OBVIOUS
<1> USE EventManagerAssumption DEF EventManagerInit
<1>1. EventManagerTypeOK
  <2>1. <<>> \in Seq(Subscribers) /\ 0 \in 0..MaxEmits /\ 0 \in 0..MaxSubscribes
    OBVIOUS
  <2> QED
    BY <2>1 DEF EventManagerTypeOK
<1>2. EventTypes
  <2>1. IsInjective(<<>>)
    BY DEF IsInjective
  <2>2. Idle \in Places
    BY DEF Idle, Places
  <2> QED
    BY <1>1, <2>1, <2>2 DEF EventTypes
<1>3. ListenersHear /\ Walks
  BY DEF ListenersHear, Walks, Missed
<1> QED
  BY <1>2, <1>3 DEF EventInv

(* Where emit() goes on: at a callback of the list, at the first of the       *)
(* type's list, or nowhere.                                                   *)
LEMMA PlaceFacts ==
  ASSUME EventTypes, NEW l \in Lists, NEW n \in Nat \ {0}
  PROVE  \/ n <= Len(lists[l]) /\ Place(l, n) = [list |-> l, index |-> n]
         \/ /\ n > Len(lists[l]) /\ l = General /\ typed \in Lists \ {General}
            /\ 1 <= Len(lists[typed]) /\ Place(l, n) = [list |-> typed, index |-> 1]
         \/ /\ n > Len(lists[l]) /\ Place(l, n) = Idle
            /\ l = General => typed = NoList \/ Len(lists[typed]) = 0
<1>1. Len(lists[l]) \in Nat
  BY ListTypes
<1>2. typed \in {NoList} \cup (Lists \ {General})
  BY DEF EventTypes, EventManagerTypeOK
<1>3. typed # NoList => Len(lists[typed]) \in Nat /\ (lists[typed] = <<>> <=> Len(lists[typed]) = 0)
  <2>1. ASSUME typed \in Lists PROVE lists[typed] \in Seq(Subscribers)
    BY <2>1, ListTypes
  <2> QED
    BY <1>2, <2>1, EmptySeq
<1>4. CASE n <= Len(lists[l])
  BY <1>4 DEF Place
<1>5. CASE n > Len(lists[l]) /\ l = General /\ typed # NoList /\ lists[typed] # <<>>
  <2>1. ~(n <= Len(lists[l]))
    BY <1>1, <1>5
  <2>2. Place(l, n) = [list |-> typed, index |-> 1]
    BY <1>5, <2>1 DEF Place
  <2> QED
    BY <1>2, <1>3, <1>5, <2>2
<1>6. CASE n > Len(lists[l]) /\ ~(l = General /\ typed # NoList /\ lists[typed] # <<>>)
  <2>1. ~(n <= Len(lists[l]))
    BY <1>1, <1>6
  <2>2. Place(l, n) = Idle
    BY <1>6, <2>1 DEF Place
  <2> QED
    BY <1>3, <1>6, <2>2
<1> QED
  BY <1>1, <1>4, <1>5, <1>6

-----------------------------------------------------------------------------
(* subscribe() adds to the end of a list, or makes one nobody walks.          *)
LEMMA SubscribeKeeps ==
  ASSUME EventInv, NEW s \in Subscribers, NEW forType \in BOOLEAN, subscribe(s, forType)
  PROVE  EventInv'
<1> USE EventManagerAssumption
<1>0. EventTypes /\ EventManagerTypeOK /\ ListenersHear /\ Walks
  BY DEF EventInv, EventTypes
<1>1. /\ UNCHANGED <<walking, steady, heard, twice, shrunk, emitted>>
      /\ subscribed' \in 0..MaxSubscribes
  BY <1>0 DEF subscribe, emission, EventManagerTypeOK
<1>2. ListenersHear'
  BY <1>0, <1>1 DEF ListenersHear, Missed
<1>3. ASSUME NEW l \in Live, ~Contains(lists[l], s),
             lists' = [lists EXCEPT ![l] = Append(@, s)], UNCHANGED typed
      PROVE  EventInv'
  <2>1. l \in Lists
    BY <1>0, WalkTypes DEF Live, EventManagerTypeOK, Lists, General
  <2>2. /\ lists[l] \in Seq(Subscribers) /\ Len(lists[l]) \in Nat
        /\ \A p \in 1..Len(lists[l]) : lists[l][p] # s
    <3>1. DOMAIN lists[l] = 1..Len(lists[l])
      BY <1>0, <2>1, ListTypes
    <3>2. \A p \in 1..Len(lists[l]) : lists[l][p] # s
      BY <1>3, <3>1 DEF Contains, ToSet
    <3> QED
      BY <1>0, <2>1, <3>2, ListTypes
  <2>3. lists' \in [Lists -> Seq(Subscribers)] /\ \A k \in Lists \ {l} : lists'[k] = lists[k]
    BY <1>0, <1>3, <2>2, AppendFacts DEF EventManagerTypeOK
  <2>4. /\ lists'[l] = Append(lists[l], s) /\ Len(lists'[l]) = Len(lists[l]) + 1
        /\ \A p \in 1..Len(lists[l]) : lists'[l][p] = lists[l][p]
        /\ lists'[l][Len(lists[l]) + 1] = s
        /\ IsInjective(lists'[l])
    <3>1. lists'[l] = Append(lists[l], s)
      BY <1>0, <1>3, <2>1 DEF EventManagerTypeOK
    <3>2. s \notin ToSet(lists[l]) /\ IsInjective(lists[l])
      BY <1>0, <2>1, <2>2, ListTypes DEF ToSet, EventTypes
    <3> QED
      BY <2>2, <3>1, <3>2, AppendFacts
  <2>5. EventTypes'
    <3>1. EventManagerTypeOK'
      BY <1>0, <1>1, <1>3, <2>3 DEF EventManagerTypeOK
    <3>2. \A k \in Lists : IsInjective(lists'[k])
      BY <1>0, <2>3, <2>4 DEF EventTypes
    <3> QED
      BY <1>0, <1>1, <3>1, <3>2 DEF EventTypes
  <2>6. \A k \in Lists : /\ Len(lists[k]) \in Nat
                         /\ \A p \in 1..Len(lists[k]) : p \in 1..Len(lists'[k]) /\ lists'[k][p] = lists[k][p]
    BY <1>0, <2>2, <2>3, <2>4, ListTypes
  <2>7. Live' = Live /\ Live \subseteq Lists
    <3>1. Live \subseteq Lists
      BY <1>0 DEF Live, EventManagerTypeOK, Lists, General
    <3> QED
      BY <1>3, <3>1 DEF Live
  <2>8. ASSUME NEW e \in Emitters, walking[e] # Idle PROVE WalkIs(e)'
    <3>0. PICK w \in Lists, n \in Nat : w = walking[e].list /\ n = walking[e].index
      BY <1>0, <2>8, WalkTypes
    <3>1. w \in Lists /\ n \in Nat /\ Owed(steady[e], heard[e], shrunk[e], w, n) /\ HasServed(heard[e], w, n)
          /\ steady[e] \subseteq Subscriptions /\ heard[e] \subseteq Subscriptions
      BY <1>0, <2>8, <3>0, WalkTypes DEF Walks, WalkIs
    <3>2. \A x \in steady[e] : Stands(x)'
      BY <2>6, <2>7, <3>1 DEF Owed, Stands
    <3>3. ASSUME NEW x \in steady[e] \ heard[e], x[1] \notin shrunk[e], x[1] = w,
                 NEW p \in 1..Len(lists'[w]), lists'[w][p] = x[2]
          PROVE  p > n
      <4>1. PICK r \in 1..Len(lists[w]) : lists[w][r] = x[2]
        BY <3>1, <3>3 DEF Owed, Stands
      <4>2. CASE w = l
        <5>1. x[2] # s
          BY <2>2, <4>1, <4>2
        <5>2. p \in 1..Len(lists[w]) /\ lists[w][p] = x[2]
          BY <2>2, <2>4, <3>3, <4>2, <5>1
        <5> QED
          BY <3>1, <3>3, <5>2 DEF Owed
      <4>3. CASE w # l
        BY <2>3, <3>1, <3>3, <4>3 DEF Owed
      <4> QED
        BY <4>2, <4>3
    <3>4. Owed(steady[e], heard[e], shrunk[e], w, n)'
      BY <1>1, <3>1, <3>2, <3>3 DEF Owed
    <3>5. HasServed(heard[e], w, n)'
      BY <1>1, <2>6, <3>1 DEF HasServed
    <3> QED
      BY <1>1, <3>0, <3>4, <3>5 DEF WalkIs
  <2>9. Walks'
    BY <1>1, <2>8 DEF Walks
  <2> QED
    BY <1>2, <2>5, <2>9 DEF EventInv
<1>4. ASSUME typed = NoList, typed' \in Unused, lists' = [lists EXCEPT ![typed'] = <<s>>]
      PROVE  EventInv'
  <2>1. /\ typed' \in Lists \ {General}
        /\ \A e \in Emitters : walking[e].list # typed'
    BY <1>4 DEF Unused
  <2>2. /\ lists' \in [Lists -> Seq(Subscribers)] /\ lists'[typed'] = <<s>>
        /\ \A k \in Lists \ {typed'} : lists'[k] = lists[k]
    BY <1>0, <1>4, <2>1 DEF EventManagerTypeOK
  <2>3. EventTypes'
    <3>1. EventManagerTypeOK'
      BY <1>0, <1>1, <2>1, <2>2 DEF EventManagerTypeOK
    <3>2. IsInjective(<<s>>)
      BY DEF IsInjective
    <3>3. \A k \in Lists : IsInjective(lists'[k])
      BY <1>0, <2>2, <3>2 DEF EventTypes
    <3> QED
      BY <1>0, <1>1, <3>1, <3>3 DEF EventTypes
  <2>4. Live = {General} /\ General \in Live' /\ General \in Lists
    BY <1>0, <1>4 DEF Live, Lists, General
  <2>5. ASSUME NEW e \in Emitters, walking[e] # Idle PROVE WalkIs(e)'
    <3>0. PICK w \in Lists, n \in Nat : w = walking[e].list /\ n = walking[e].index
      BY <1>0, <2>5, WalkTypes
    <3>1. w \in Lists /\ w # typed' /\ n \in Nat /\ Owed(steady[e], heard[e], shrunk[e], w, n) /\ HasServed(heard[e], w, n)
          /\ steady[e] \subseteq Subscriptions /\ heard[e] \subseteq Subscriptions
      BY <1>0, <2>1, <2>5, <3>0, WalkTypes DEF Walks, WalkIs
    <3>2. lists'[w] = lists[w] /\ lists'[General] = lists[General]
      BY <2>1, <2>2, <2>4, <3>1
    <3>3. \A x \in steady[e] : Stands(x)'
      BY <2>4, <3>1, <3>2 DEF Owed, Stands
    <3>4. Owed(steady[e], heard[e], shrunk[e], w, n)' /\ HasServed(heard[e], w, n)'
      BY <1>1, <3>1, <3>2, <3>3 DEF Owed, HasServed
    <3> QED
      BY <1>1, <3>0, <3>4 DEF WalkIs
  <2>6. Walks'
    BY <1>1, <2>5 DEF Walks
  <2> QED
    BY <1>2, <2>3, <2>6 DEF EventInv
<1> QED
  BY <1>3, <1>4 DEF subscribe

(* The function subscribe() returned: the list closes up over the listener,   *)
(* and the walks of that list count as disturbed.                             *)
LEMMA UnsubscribeKeeps ==
  ASSUME EventInv, NEW s \in Subscribers, NEW l \in Lists, unsubscribe(s, l)
  PROVE  EventInv'
<1> USE EventManagerAssumption
<1>0. EventTypes /\ EventManagerTypeOK /\ ListenersHear /\ Walks
  BY DEF EventInv, EventTypes
<1>1. /\ UNCHANGED <<typed, walking, twice, subscribed, emitted>>
      /\ l \in Live /\ Forget({<<l, s>>})
  BY DEF unsubscribe
<1>2. PICK i \in 1..Len(lists[l]) : lists[l][i] = s /\ lists' = [lists EXCEPT ![l] = RemoveAt(lists[l], i)]
  BY <1>0, ListTypes DEF unsubscribe
<1>3. ASSUME NEW e \in Emitters
      PROVE  /\ steady'[e] = steady[e] \ {<<l, s>>} /\ heard'[e] = heard[e] \ {<<l, s>>}
             /\ shrunk[e] \subseteq shrunk'[e]
             /\ shrunk'[e] \subseteq shrunk[e] \cup {walking[e].list}
             /\ walking[e].list = l => l \in shrunk'[e]
  BY <1>1, <1>3 DEF Forget
<1>4. /\ lists'[l] \in Seq(Subscribers) /\ IsInjective(lists'[l])
      /\ Len(lists[l]) \in Nat /\ Len(lists'[l]) = Len(lists[l]) - 1
      /\ \A p \in 1..Len(lists[l]) : p # i =>
            \E k \in 1..Len(lists'[l]) : k <= p /\ lists'[l][k] = lists[l][p]
  <2>1. lists'[l] = RemoveAt(lists[l], i)
    BY <1>0, <1>2 DEF EventManagerTypeOK
  <2>2. lists[l] \in Seq(Subscribers) /\ IsInjective(lists[l]) /\ Len(lists[l]) \in Nat
    BY <1>0, ListTypes DEF EventTypes
  <2>3. /\ RemoveAt(lists[l], i) \in Seq(Subscribers)
        /\ Len(RemoveAt(lists[l], i)) = Len(lists[l]) - 1
        /\ \A p \in 1..Len(lists[l]) : p # i =>
              \E k \in 1..(Len(lists[l]) - 1) : k <= p /\ RemoveAt(lists[l], i)[k] = lists[l][p]
    BY <2>2, RemovedPlaces
  <2>4. IsInjective(RemoveAt(lists[l], i))
    BY <2>2, RemoveFacts
  <2> QED
    BY <2>1, <2>2, <2>3, <2>4
<1>5. lists' \in [Lists -> Seq(Subscribers)] /\ \A k \in Lists \ {l} : lists'[k] = lists[k]
  BY <1>0, <1>2, <1>4 DEF EventManagerTypeOK
<1>6. EventTypes'
  <2>1. EventManagerTypeOK'
    BY <1>0, <1>1, <1>5 DEF EventManagerTypeOK
  <2>2. \A k \in Lists : IsInjective(lists'[k])
    BY <1>0, <1>4, <1>5 DEF EventTypes
  <2>3. /\ steady' \in [Emitters -> SUBSET Subscriptions] /\ heard' \in [Emitters -> SUBSET Subscriptions]
        /\ shrunk' \in [Emitters -> SUBSET (Lists \cup {NoList})]
    <3>1. \A e \in Emitters : steady'[e] \in SUBSET Subscriptions /\ heard'[e] \in SUBSET Subscriptions
      BY <1>0, <1>3, WalkTypes
    <3>2. \A e \in Emitters : shrunk'[e] \in SUBSET (Lists \cup {NoList})
      BY <1>0, <1>3, WalkTypes DEF EventTypes
    <3> QED
      BY <1>1, <3>1, <3>2 DEF Forget
  <2> QED
    BY <1>0, <1>1, <2>1, <2>2, <2>3 DEF EventTypes
<1>7. ListenersHear'
  BY <1>0, <1>1, <1>3 DEF ListenersHear, Missed
<1>8. ASSUME NEW e \in Emitters, walking[e] # Idle PROVE WalkIs(e)'
  <2>0. PICK w \in Lists, n \in Nat : w = walking[e].list /\ n = walking[e].index
    BY <1>0, <1>8, WalkTypes
  <2>1. /\ Owed(steady[e], heard[e], shrunk[e], w, n) /\ HasServed(heard[e], w, n)
        /\ steady[e] \subseteq Subscriptions /\ heard[e] \subseteq Subscriptions
    BY <1>0, <1>8, <2>0, WalkTypes DEF Walks, WalkIs
  <2>2. ASSUME NEW x \in Subscriptions, x # <<l, s>>, NEW p \in 1..Len(lists[x[1]]), lists[x[1]][p] = x[2]
        PROVE  \E k \in 1..Len(lists'[x[1]]) : k <= p /\ lists'[x[1]][k] = x[2]
    <3>1. x[1] \in Lists /\ x = <<x[1], x[2]>>
      BY DEF Subscriptions
    <3>2. CASE x[1] = l
      <4>1. x[2] # s
        BY <2>2, <3>1, <3>2
      <4>2. p \in 1..Len(lists[l]) /\ lists[l][p] = x[2] /\ p # i
        BY <1>2, <2>2, <3>2, <4>1
      <4>3. \E k \in 1..Len(lists'[l]) : k <= p /\ lists'[l][k] = lists[l][p]
        BY <1>4, <4>2
      <4> QED
        BY <3>2, <4>2, <4>3
    <3>3. CASE x[1] # l
      <4>1. lists'[x[1]] = lists[x[1]] /\ p <= p
        BY <1>0, <1>5, <3>1, <3>3, ListTypes
      <4> QED
        BY <2>2, <4>1
    <3> QED
      BY <3>2, <3>3
  <2>3. ASSUME NEW x \in steady'[e] PROVE Stands(x)' /\ (x[1] = General \/ w = General \/ x[1] = w)
    <3>1. x \in steady[e] /\ x \in Subscriptions /\ x # <<l, s>>
      BY <1>3, <2>1, <2>3
    <3>2. x[1] \in Live /\ \E p \in 1..Len(lists[x[1]]) : lists[x[1]][p] = x[2]
      BY <2>1, <3>1 DEF Owed, Stands
    <3>3. x[1] \in Live' /\ \E k \in 1..Len(lists'[x[1]]) : lists'[x[1]][k] = x[2]
      BY <1>1, <2>2, <3>1, <3>2 DEF Live
    <3> QED
      BY <2>1, <3>1, <3>3 DEF Owed, Stands
  <2>4. ASSUME NEW x \in steady'[e] \ heard'[e], x[1] \notin shrunk'[e]
        PROVE  /\ x[1] = w \/ (w = General /\ x[1] # General)
               /\ x[1] = w => \A p \in 1..Len(lists'[w]) : lists'[w][p] = x[2] => p > n
    <3>1. x \in steady[e] \ heard[e] /\ x[1] \notin shrunk[e]
      BY <1>3, <2>4
    <3>2. x[1] = w => w # l
      BY <1>3, <2>0, <2>4
    <3> QED
      BY <1>5, <2>1, <3>1, <3>2 DEF Owed
  <2>5. Owed(steady[e], heard[e], shrunk[e], w, n)'
    BY <2>3, <2>4 DEF Owed
  <2>6. ASSUME NEW x \in heard'[e]
        PROVE  /\ x[1] = w \/ (x[1] = General /\ w # General)
               /\ x[1] = w => \E p \in 1..Len(lists'[w]) : lists'[w][p] = x[2] /\ p <= n
    <3>1. x \in heard[e] /\ x \in Subscriptions /\ x # <<l, s>>
      BY <1>3, <2>1, <2>6
    <3>2. ASSUME x[1] = w PROVE \E p \in 1..Len(lists'[w]) : lists'[w][p] = x[2] /\ p <= n
      <4>1. PICK p \in 1..Len(lists[w]) : lists[w][p] = x[2] /\ p <= n
        BY <2>1, <3>1, <3>2 DEF HasServed
      <4>2. PICK k \in 1..Len(lists'[w]) : k <= p /\ lists'[w][k] = x[2]
        BY <2>2, <3>1, <3>2, <4>1
      <4>3. k <= n
        BY <4>1, <4>2
      <4> QED
        BY <4>2, <4>3
    <3> QED
      BY <2>1, <3>1, <3>2 DEF HasServed
  <2>7. HasServed(heard[e], w, n)'
    BY <2>6 DEF HasServed
  <2> QED
    BY <1>1, <2>0, <2>5, <2>7 DEF WalkIs
<1>9. Walks'
  BY <1>1, <1>8 DEF Walks
<1> QED
  BY <1>6, <1>7, <1>9 DEF EventInv

(* unsubscribe_all() leaves no emission anything it owes.                     *)
LEMMA UnsubscribeAllKeeps ==
  ASSUME EventInv, unsubscribe_all
  PROVE  EventInv'
<1> USE EventManagerAssumption
<1> DEFINE gone == UNION {In(l) : l \in Live}
<1>0. EventTypes /\ EventManagerTypeOK /\ ListenersHear /\ Walks
  BY DEF EventInv, EventTypes
<1>1. /\ UNCHANGED <<walking, twice, subscribed, emitted>> /\ typed' = NoList
      /\ Forget(gone) /\ lists' = [lists EXCEPT ![General] = <<>>]
  BY DEF unsubscribe_all
<1>2. Live \subseteq Lists /\ General \in Live /\ General \in Lists
  BY <1>0 DEF Live, EventManagerTypeOK, Lists, General
<1>3. /\ lists' \in [Lists -> Seq(Subscribers)] /\ lists'[General] = <<>>
      /\ \A k \in Lists \ {General} : lists'[k] = lists[k]
  <2>1. <<>> \in Seq(Subscribers)
    OBVIOUS
  <2> QED
    BY <1>0, <1>1, <1>2, <2>1 DEF EventManagerTypeOK
<1>4. ASSUME NEW x \in Subscriptions, Stands(x) PROVE x \in gone
  <2>1. x[1] \in Lists /\ x[1] \in Live /\ x = <<x[1], x[2]>> /\ x[2] \in ToSet(lists[x[1]])
    <3>1. x[1] \in Lists /\ x = <<x[1], x[2]>>
      BY DEF Subscriptions
    <3>2. x[2] \in ToSet(lists[x[1]])
      BY <1>0, <1>4, <3>1, ListTypes DEF Stands, ToSet
    <3> QED
      BY <1>4, <3>1, <3>2 DEF Stands
  <2>2. x \in In(x[1])
    BY <2>1 DEF In
  <2> QED
    BY <2>1, <2>2
<1> HIDE DEF gone
<1>5. ASSUME NEW e \in Emitters
      PROVE  /\ steady'[e] = steady[e] \ gone /\ heard'[e] = heard[e] \ gone
             /\ shrunk[e] \subseteq shrunk'[e]
             /\ shrunk'[e] \subseteq shrunk[e] \cup {walking[e].list}
  BY <1>1, <1>5 DEF Forget
<1>6. EventTypes'
  <2>1. EventManagerTypeOK'
    BY <1>0, <1>1, <1>3 DEF EventManagerTypeOK
  <2>2. \A k \in Lists : IsInjective(lists'[k])
    <3>1. IsInjective(<<>>)
      BY DEF IsInjective
    <3> QED
      BY <1>0, <1>3, <3>1 DEF EventTypes
  <2>3. /\ steady' \in [Emitters -> SUBSET Subscriptions] /\ heard' \in [Emitters -> SUBSET Subscriptions]
        /\ shrunk' \in [Emitters -> SUBSET (Lists \cup {NoList})]
    <3>1. \A e \in Emitters : steady'[e] \in SUBSET Subscriptions /\ heard'[e] \in SUBSET Subscriptions
      BY <1>0, <1>5, WalkTypes
    <3>2. \A e \in Emitters : shrunk'[e] \in SUBSET (Lists \cup {NoList})
      BY <1>0, <1>5, WalkTypes DEF EventTypes
    <3> QED
      BY <1>1, <3>1, <3>2 DEF Forget
  <2> QED
    BY <1>0, <1>1, <2>1, <2>2, <2>3 DEF EventTypes
<1>7. ListenersHear'
  BY <1>0, <1>1, <1>5 DEF ListenersHear, Missed
<1>8. ASSUME NEW e \in Emitters, walking[e] # Idle PROVE WalkIs(e)'
  <2>0. PICK w \in Lists, n \in Nat : w = walking[e].list /\ n = walking[e].index
    BY <1>0, <1>8, WalkTypes
  <2>1. /\ Owed(steady[e], heard[e], shrunk[e], w, n) /\ HasServed(heard[e], w, n)
        /\ steady[e] \subseteq Subscriptions /\ heard[e] \subseteq Subscriptions
    BY <1>0, <1>8, <2>0, WalkTypes DEF Walks, WalkIs
  <2>2. steady'[e] = {}
    <3>1. \A x \in steady[e] : Stands(x)
      BY <2>1 DEF Owed
    <3> QED
      BY <1>4, <1>5, <2>1, <3>1
  <2>3. Owed(steady[e], heard[e], shrunk[e], w, n)'
    BY <2>2 DEF Owed
  <2>4. ASSUME NEW x \in heard'[e]
        PROVE  /\ x[1] = w \/ (x[1] = General /\ w # General)
               /\ x[1] = w => \E p \in 1..Len(lists'[w]) : lists'[w][p] = x[2] /\ p <= n
    <3>1. x \in heard[e] /\ x \in Subscriptions /\ x \notin gone
      BY <1>5, <2>1, <2>4
    <3>2. x[1] = w => w # General
      <4>1. ASSUME x[1] = General, w = General PROVE FALSE
        <5>1. Stands(x)
          BY <1>2, <2>1, <3>1, <4>1 DEF HasServed, Stands
        <5> QED
          BY <1>4, <3>1, <5>1
      <4> QED
        BY <4>1
    <3> QED
      BY <1>3, <2>1, <3>1, <3>2 DEF HasServed
  <2>5. HasServed(heard[e], w, n)'
    BY <2>4 DEF HasServed
  <2> QED
    BY <1>1, <2>0, <2>3, <2>5 DEF WalkIs
<1>9. Walks'
  BY <1>1, <1>8 DEF Walks
<1> QED
  BY <1>6, <1>7, <1>9 DEF EventInv

(* The walk comes to an index and calls who is there.                         *)
LEMMA CallKeeps ==
  ASSUME EventTypes, NEW e \in Emitters, NEW l \in Lists, NEW n \in Nat,
         NEW due \in SUBSET Subscriptions, NEW had \in SUBSET Subscriptions, NEW short,
         Owed(due, had, short, l, n), HasServed(had, l, n),
         Calls(e, Place(l, n + 1), had, {}),
         UNCHANGED <<lists, typed>>,
         steady' = [steady EXCEPT ![e] = due], shrunk' = [shrunk EXCEPT ![e] = short]
  PROVE  /\ walking' = [walking EXCEPT ![e] = Place(l, n + 1)] /\ Place(l, n + 1) \in Places
         /\ walking'[e] = Idle \/ (walking'[e].list \in Lists /\ walking'[e].index \in Nat \ {0})
         /\ heard' \in [Emitters -> SUBSET Subscriptions]
         /\ twice' = [twice EXCEPT ![e] = {}]
         /\ \A d \in Emitters \ {e} : heard'[d] = heard[d]
         /\ walking'[e] = Idle => \A x \in due \ heard'[e] : x[1] \in short
         /\ walking'[e] # Idle => WalkIs(e)'
<1> USE EventManagerAssumption
<1> DEFINE here == Place(l, n + 1)
<1>1. /\ walking' = [walking EXCEPT ![e] = here]
      /\ heard' = [heard EXCEPT ![e] = had \cup At(here)]
      /\ twice' = [twice EXCEPT ![e] = {} \cup (had \cap At(here))]
  BY DEF Calls
<1>2. /\ walking'[e] = here /\ heard'[e] = had \cup At(here)
      /\ steady'[e] = due /\ shrunk'[e] = short
      /\ \A d \in Emitters \ {e} : heard'[d] = heard[d]
  BY <1>1 DEF EventTypes
<1>3. n + 1 \in Nat \ {0} /\ Len(lists[l]) \in Nat /\ General # NoList
      /\ General \in Lists /\ l # NoList
  BY ListTypes, WalkTypes DEF Lists, NoList, General
<1>4. \A x \in due \cup had : x[1] \in Lists /\ x[2] \in Subscribers /\ x = <<x[1], x[2]>>
  BY DEF Subscriptions
\* The places the walk can come to.
<1>5. ASSUME NEW k \in Lists, NEW p \in 1..Len(lists[k]), here = [list |-> k, index |-> p],
             \A x \in had : ~(x[1] = k /\ x[2] = lists[k][p])
      PROVE  /\ here # Idle /\ here \in Places /\ here.list = k /\ here.index = p /\ p \in Nat \ {0}
             /\ At(here) = {<<k, lists[k][p]>>} /\ At(here) \subseteq Subscriptions
             /\ had \cap At(here) = {}
  <2>1. p \in Nat \ {0} /\ lists[k][p] \in Subscribers /\ Len(lists[k]) \in Nat
    BY ListTypes
  <2>2. here.list = k /\ here.index = p /\ here # Idle /\ here \in Places
    BY <1>5, <2>1, WalkTypes DEF Idle, Places
  <2>3. At(here) = {<<k, lists[k][p]>>}
    BY <2>2 DEF At
  <2> QED
    BY <1>5, <2>1, <2>2, <2>3 DEF Subscriptions
<1>6. \/ n + 1 <= Len(lists[l]) /\ here = [list |-> l, index |-> n + 1]
      \/ /\ n + 1 > Len(lists[l]) /\ l = General /\ typed \in Lists \ {General}
         /\ 1 <= Len(lists[typed]) /\ here = [list |-> typed, index |-> 1]
      \/ /\ n + 1 > Len(lists[l]) /\ here = Idle
         /\ l = General => typed = NoList \/ Len(lists[typed]) = 0
  BY <1>3, PlaceFacts
<1> HIDE DEF here
<1>7. CASE n + 1 <= Len(lists[l]) /\ here = [list |-> l, index |-> n + 1]
  <2>1. n + 1 \in 1..Len(lists[l])
    BY <1>3, <1>7
  <2>2. ASSUME NEW x \in had, x[1] = l, x[2] = lists[l][n + 1] PROVE FALSE
    <3>1. PICK p \in 1..Len(lists[l]) : lists[l][p] = x[2] /\ p <= n
      BY <2>2 DEF HasServed
    <3>2. p = n + 1
      BY <2>1, <2>2, <3>1, ListTypes
    <3> QED
      BY <3>1, <3>2
  <2>3. /\ here # Idle /\ here \in Places /\ here.list = l /\ here.index = n + 1
        /\ At(here) = {<<l, lists[l][n + 1]>>} /\ At(here) \subseteq Subscriptions
        /\ had \cap At(here) = {}
    BY <1>5, <1>7, <2>1, <2>2
  <2>4. Owed(due, had \cup At(here), short, l, n + 1)
    <3>1. ASSUME NEW x \in due \ (had \cup At(here)), x[1] \notin short, x[1] = l,
                 NEW p \in 1..Len(lists[l]), lists[l][p] = x[2]
          PROVE  p > n + 1
      <4>1. p > n
        BY <3>1 DEF Owed
      <4>2. p # n + 1
        BY <1>4, <2>3, <3>1
      <4> QED
        BY <1>3, <4>1, <4>2
    <3> QED
      BY <3>1 DEF Owed
  <2>5. HasServed(had \cup At(here), l, n + 1)
    <3>1. ASSUME NEW x \in had
          PROVE  /\ x[1] = l \/ (x[1] = General /\ l # General)
                 /\ x[1] = l => \E p \in 1..Len(lists[l]) : lists[l][p] = x[2] /\ p <= n + 1
      BY DEF HasServed
    <3>2. ASSUME NEW x \in At(here)
          PROVE  x[1] = l /\ \E p \in 1..Len(lists[l]) : lists[l][p] = x[2] /\ p <= n + 1
      BY <1>3, <2>1, <2>3
    <3> QED
      BY <3>1, <3>2 DEF HasServed
  <2>6. WalkIs(e)'
    BY <1>2, <2>3, <2>4, <2>5 DEF WalkIs, Owed, HasServed, Stands, Live
  <2> QED
    BY <1>1, <1>2, <1>3, <2>3, <2>6 DEF here, EventTypes
<1>8. CASE /\ n + 1 > Len(lists[l]) /\ l = General /\ typed \in Lists \ {General}
           /\ 1 <= Len(lists[typed]) /\ here = [list |-> typed, index |-> 1]
  <2>1. 1 \in 1..Len(lists[typed]) /\ typed \in Lists /\ typed # General
    BY <1>8, ListTypes
  <2>2. \A x \in had : x[1] = General
    BY <1>8 DEF HasServed
  <2>3. /\ here # Idle /\ here \in Places /\ here.list = typed /\ here.index = 1
        /\ At(here) = {<<typed, lists[typed][1]>>} /\ At(here) \subseteq Subscriptions
        /\ had \cap At(here) = {}
    BY <1>5, <1>8, <2>1, <2>2
  <2>4. Owed(due, had \cup At(here), short, typed, 1)
    <3>1. \A x \in due : Stands(x) /\ (x[1] = General \/ x[1] = typed)
      BY DEF Owed, Stands, Live
    <3>2. ASSUME NEW x \in due \ (had \cup At(here)), x[1] \notin short
          PROVE  x[1] = typed
      <4>1. ASSUME x[1] = General PROVE FALSE
        <5>1. PICK p \in 1..Len(lists[l]) : lists[l][p] = x[2]
          BY <1>8, <3>1, <3>2, <4>1 DEF Stands
        <5>2. p > n
          BY <1>8, <3>2, <4>1, <5>1 DEF Owed
        <5> QED
          BY <1>3, <1>8, <5>1, <5>2
      <4> QED
        BY <3>1, <3>2, <4>1
    <3>3. ASSUME NEW x \in due \ (had \cup At(here)), x[1] = typed,
                 NEW p \in 1..Len(lists[typed]), lists[typed][p] = x[2]
          PROVE  p > 1
      <4>1. p # 1
        BY <1>4, <2>3, <3>3
      <4> QED
        BY <2>1, <4>1, ListTypes
    <3> QED
      BY <3>1, <3>2, <3>3 DEF Owed
  <2>5. HasServed(had \cup At(here), typed, 1)
    <3>1. ASSUME NEW x \in At(here)
          PROVE  x[1] = typed /\ \E p \in 1..Len(lists[typed]) : lists[typed][p] = x[2] /\ p <= 1
      BY <2>1, <2>3
    <3> QED
      BY <2>1, <2>2, <3>1 DEF HasServed
  <2>6. WalkIs(e)'
    BY <1>2, <2>3, <2>4, <2>5 DEF WalkIs, Owed, HasServed, Stands, Live
  <2>7. 1 \in Nat \ {0}
    OBVIOUS
  <2> QED
    BY <1>1, <1>2, <2>1, <2>3, <2>6, <2>7 DEF here, EventTypes
<1>9. CASE /\ n + 1 > Len(lists[l]) /\ here = Idle
           /\ l = General => typed = NoList \/ Len(lists[typed]) = 0
  <2>1. At(here) = {} /\ here \in Places
    BY <1>9, WalkTypes DEF At, Idle, Places
  <2>2. ASSUME NEW x \in due \ had, x[1] \notin short PROVE FALSE
    <3>1. x[1] \in Live /\ \E p \in 1..Len(lists[x[1]]) : lists[x[1]][p] = x[2]
      BY <2>2 DEF Owed, Stands
    <3>2. CASE x[1] = l
      <4>1. PICK p \in 1..Len(lists[l]) : lists[l][p] = x[2]
        BY <3>1, <3>2
      <4>2. p > n
        BY <2>2, <3>2, <4>1 DEF Owed
      <4> QED
        BY <1>3, <1>9, <4>1, <4>2
    <3>3. CASE l = General /\ x[1] # General
      <4>1. x[1] = typed /\ typed # NoList
        BY <3>1, <3>3 DEF Live
      <4> QED
        BY <1>9, <3>1, <3>3, <4>1
    <3> QED
      BY <2>2, <3>2, <3>3 DEF Owed
  <2> QED
    BY <1>1, <1>2, <1>9, <2>1, <2>2 DEF here, EventTypes
<1> QED
  BY <1>6, <1>7, <1>8, <1>9

(* emit() owes the event to all that are subscribed; Continue goes on from    *)
(* the callback that has returned.                                            *)
LEMMA EmitKeeps ==
  ASSUME EventInv, NEW e \in Emitters, emit(e) \/ Continue(e)
  PROVE  EventInv'
<1> USE EventManagerAssumption
<1>0. EventTypes /\ EventManagerTypeOK /\ ListenersHear /\ Walks
  BY DEF EventInv, EventTypes
<1>1. \E l \in Lists, n \in Nat, due \in SUBSET Subscriptions, had \in SUBSET Subscriptions, short \in SUBSET (Lists \cup {NoList}) :
         /\ Owed(due, had, short, l, n) /\ HasServed(had, l, n)
         /\ Calls(e, Place(l, n + 1), had, {})
         /\ steady' = [steady EXCEPT ![e] = due] /\ shrunk' = [shrunk EXCEPT ![e] = short]
  <2>1. CASE emit(e)
    <3> DEFINE all == UNION {In(l) : l \in Live}
    <3>1. General \in Lists /\ Live \subseteq Lists
      BY <1>0 DEF Live, EventManagerTypeOK, Lists, General
    <3>2. ASSUME NEW x \in all PROVE x \in Subscriptions /\ Stands(x)
      <4>0. PICK l \in Live : x \in In(l)
        OBVIOUS
      <4>1. PICK s \in ToSet(lists[l]) : x = <<l, s>>
        BY <4>0 DEF In
      <4>2. \E p \in 1..Len(lists[l]) : lists[l][p] = s
        BY <1>0, <3>1, <4>1, ListTypes DEF ToSet
      <4>3. s \in Subscribers
        BY <1>0, <3>1, <4>2, ListTypes
      <4> QED
        BY <3>1, <4>1, <4>2, <4>3 DEF Subscriptions, Stands
    <3>3. /\ Calls(e, Place(General, 1), {}, {})
          /\ steady' = [steady EXCEPT ![e] = all] /\ shrunk' = [shrunk EXCEPT ![e] = {}]
      BY <2>1 DEF emit
    <3> HIDE DEF all
    <3>4. Owed(all, {}, {}, General, 0)
      <4>1. \A p \in 1..Len(lists[General]) : p > 0
        BY <1>0, <3>1, ListTypes
      <4> QED
        BY <3>2, <4>1 DEF Owed
    <3>5. HasServed({}, General, 0) /\ 0 + 1 = 1 /\ 0 \in Nat
      BY DEF HasServed
    <3>6. all \in SUBSET Subscriptions /\ {} \in SUBSET Subscriptions /\ {} \in SUBSET (Lists \cup {NoList})
      BY <3>2
    <3>7. Calls(e, Place(General, 0 + 1), {}, {})
      BY <3>3, <3>5
    <3> QED
      BY <3>1, <3>3, <3>4, <3>5, <3>6, <3>7
  <2>2. CASE Continue(e)
    <3>1. walking[e] # Idle /\ twice[e] = {}
      BY <1>0, <2>2 DEF Continue, ListenersHear
    <3>2. PICK l \in Lists, n \in Nat : l = walking[e].list /\ n = walking[e].index
      BY <1>0, <3>1, WalkTypes
    <3>3. Owed(steady[e], heard[e], shrunk[e], l, n) /\ HasServed(heard[e], l, n)
      BY <1>0, <3>1, <3>2 DEF Walks, WalkIs
    <3>4. Calls(e, Place(l, n + 1), heard[e], {}) /\ steady' = steady /\ shrunk' = shrunk
      BY <2>2, <3>1, <3>2 DEF Continue
    <3>5. steady = [steady EXCEPT ![e] = steady[e]] /\ shrunk = [shrunk EXCEPT ![e] = shrunk[e]]
      BY <1>0 DEF EventTypes
    <3>6. /\ steady[e] \in SUBSET Subscriptions /\ heard[e] \in SUBSET Subscriptions
          /\ shrunk[e] \in SUBSET (Lists \cup {NoList})
      BY <1>0 DEF EventTypes
    <3> QED
      BY <3>2, <3>3, <3>4, <3>5, <3>6
  <2> QED
    BY <2>1, <2>2
<1>2. PICK l \in Lists, n \in Nat, due \in SUBSET Subscriptions, had \in SUBSET Subscriptions, short \in SUBSET (Lists \cup {NoList}) :
         /\ Owed(due, had, short, l, n) /\ HasServed(had, l, n)
         /\ Calls(e, Place(l, n + 1), had, {})
         /\ steady' = [steady EXCEPT ![e] = due] /\ shrunk' = [shrunk EXCEPT ![e] = short]
  BY <1>1
<1>3. UNCHANGED <<lists, typed, subscribed>> /\ emitted' \in 0..MaxEmits
  BY <1>0 DEF emit, Continue, EventManagerTypeOK
<1>4. /\ walking' = [walking EXCEPT ![e] = Place(l, n + 1)] /\ Place(l, n + 1) \in Places
      /\ walking'[e] = Idle \/ (walking'[e].list \in Lists /\ walking'[e].index \in Nat \ {0})
      /\ heard' \in [Emitters -> SUBSET Subscriptions]
      /\ twice' = [twice EXCEPT ![e] = {}]
      /\ \A d \in Emitters \ {e} : heard'[d] = heard[d]
      /\ walking'[e] = Idle => \A x \in due \ heard'[e] : x[1] \in short
      /\ walking'[e] # Idle => WalkIs(e)'
  BY <1>0, <1>2, <1>3, CallKeeps
<1>5. ASSUME NEW d \in Emitters \ {e}
      PROVE  /\ walking'[d] = walking[d] /\ heard'[d] = heard[d] /\ twice'[d] = twice[d]
             /\ steady'[d] = steady[d] /\ shrunk'[d] = shrunk[d]
  BY <1>0, <1>2, <1>4 DEF EventTypes
<1>6. EventTypes'
  <2>1. EventManagerTypeOK'
    <3>1. \A d \in Emitters : walking'[d] = Idle \/ (walking'[d].list \in Lists /\ walking'[d].index \in Nat \ {0})
      BY <1>0, <1>4, <1>5 DEF EventManagerTypeOK
    <3> QED
      BY <1>0, <1>3, <3>1 DEF EventManagerTypeOK
  <2>2. /\ walking' \in [Emitters -> Places] /\ twice' \in [Emitters -> SUBSET Subscriptions]
        /\ steady' \in [Emitters -> SUBSET Subscriptions]
        /\ shrunk' \in [Emitters -> SUBSET (Lists \cup {NoList})]
    BY <1>0, <1>2, <1>4 DEF EventTypes
  <2> QED
    BY <1>0, <1>3, <1>4, <2>1, <2>2 DEF EventTypes
<1>7. ListenersHear'
  <2>1. steady'[e] = due /\ shrunk'[e] = short /\ twice'[e] = {}
    BY <1>0, <1>2, <1>4 DEF EventTypes
  <2> QED
    BY <1>0, <1>4, <1>5, <2>1 DEF ListenersHear, Missed
<1>8. Walks'
  <2>1. ASSUME NEW d \in Emitters \ {e}, walking'[d] # Idle PROVE WalkIs(d)'
    BY <1>0, <1>3, <1>5, <2>1 DEF Walks, WalkIs, Owed, HasServed, Stands, Live
  <2> QED
    BY <1>4, <2>1 DEF Walks
<1> QED
  BY <1>6, <1>7, <1>8 DEF EventInv

LEMMA EventStep == EventInv /\ [EventManagerNext]_eventVars => EventInv'
<1> SUFFICES ASSUME EventInv, [EventManagerNext]_eventVars PROVE EventInv'
  OBVIOUS
<1>1. CASE UNCHANGED eventVars
  BY <1>1 DEF eventVars, EventInv, EventTypes, EventManagerTypeOK, ListenersHear, Missed,
     Walks, WalkIs, Owed, HasServed, Stands, Live
<1>2. CASE EventManagerNext
  BY <1>2, SubscribeKeeps, UnsubscribeKeeps, UnsubscribeAllKeeps, EmitKeeps DEF EventManagerNext
<1> QED
  BY <1>1, <1>2

(* However subscriptions come and go while events are emitted, every listener *)
(* there throughout is called once (EventManager.emit and subscribe).         *)
THEOREM EventManagerSafety == EventManagerSpec => [](EventManagerTypeOK /\ ListenersHear)
<1>1. EventInv => EventManagerTypeOK /\ ListenersHear
  BY DEF EventInv, EventTypes
<1> QED
  BY <1>1, EventInitially, EventStep, PTL DEF EventManagerSpec

-----------------------------------------------------------------------------
(* The session manager and the trigger manager. *)

Values == SUBSET (Bearers \cup {"yes", "no", "error"})
Errands == [call : {"none", "list", "release", "release_all", "recorded", "raised"},
         at : {"idle", "sent", "served", "answered"}, of : SUBSET Bearers,
         ask : {"none", "list", "release", "trigger"}, value : Values, n : 0..MaxAsked]
Events == [is : {"connect", "disconnect"}, session : Bearers]
AnswersTo == [is : {"answer"}, to : Managers, n : 0..MaxAsked, value : Values]
Messages == Events \cup AnswersTo
One(h, m) == CHOOSE s \in h[m].of : TRUE

ManagerTypes ==
    /\ bearer \in [Bearers -> {"new", "up", "down"}]
    /\ inbound \in Seq(Messages)
    /\ inHand \in [Managers -> Errands]
    /\ sessionCache \in SUBSET Bearers
    /\ endings \in [Bearers -> Nat]
    /\ raced \in BOOLEAN
    /\ asksMade \in 0..MaxAsked
    /\ log \in Seq([n : 1..MaxAsked, success : BOOLEAN])
    /\ outcome \in [1..MaxAsked -> {"none", "yes", "no", "error"}]

\* Every request in hand has a number of its own, and at most one answer on its way.
Numbered(h, n0) ==
    /\ \A m \in Managers : h[m].at # "idle" => 1 <= h[m].n /\ h[m].n <= n0
    /\ \A m, k \in Managers : h[m].at # "idle" /\ h[k].at # "idle" /\ h[m].n = h[k].n => m = k
    /\ \A m \in Managers : h[m].ask = "release" => h[m].of # {}
IsAnswer(q, i) == q[i].is = "answer"
AnswersNumbered(q, h, n0) ==
    /\ \A i \in 1..Len(q) : IsAnswer(q, i) =>
          /\ 1 <= q[i].n /\ q[i].n <= n0
          /\ \A m \in Managers : h[m].at # "idle" /\ h[m].n = q[i].n => q[i].to = m /\ h[m].at = "served"
    /\ \A i, j \in 1..Len(q) : IsAnswer(q, i) /\ IsAnswer(q, j) /\ q[i].n = q[j].n => i = j

\* The session is up, or the event of its end is behind that position.
Ended(q, i, s) == \E j \in 1..Len(q) : j > i /\ q[j] = Event("disconnect", s)
UpAfter(q, b, i, s) == b[s] = "up" \/ Ended(q, i, s)

\* What the cache holds, an event promises it, or a list tells, was so and is
\* so until the event of its end is handled.
ListsTrue(q, b, h, kept, late) ==
    /\ ~late => \A s \in kept : UpAfter(q, b, 0, s)
    /\ \A i \in 1..Len(q) : q[i].is = "connect" => UpAfter(q, b, i, q[i].session)
    /\ \A m \in Managers : h[m].ask = "list" =>
          /\ \A i \in 1..Len(q) : IsAnswer(q, i) /\ q[i].to = m /\ h[m].at = "served" /\ q[i].n = h[m].n =>
                \A s \in q[i].value : s \in Bearers /\ UpAfter(q, b, i, s)
          /\ h[m].at = "answered" =>
                /\ h[m].value \subseteq Bearers
                /\ ~late => \A s \in h[m].value : UpAfter(q, b, 0, s)

\* The tasks that will hear, or have heard, that they released that session.
ToldYes(q, h, m) ==
    \/ h[m].at = "answered" /\ h[m].value = {"yes"}
    \/ /\ h[m].at = "served"
       /\ \E i \in 1..Len(q) : IsAnswer(q, i) /\ q[i].to = m /\ q[i].n = h[m].n /\ q[i].value = {"yes"}
Releasing(q, h, s) == {m \in Managers : h[m].ask = "release" /\ One(h, m) = s /\ ToldYes(q, h, m)}

\* What is still to be announced of an end.
EndsCounted(q, b, h, e) ==
    \A s \in Bearers :
        /\ b[s] # "down" => e[s] = 0 /\ ~Ended(q, 0, s) /\ Releasing(q, h, s) = {}
        /\ b[s] = "down" => Ended(q, 0, s) \/ e[s] > 0
        /\ e[s] + (IF Ended(q, 0, s) THEN 1 ELSE 0) + (IF Releasing(q, h, s) # {} THEN 1 ELSE 0) <= 2
        /\ \A m, k \in Releasing(q, h, s) : m = k
        /\ \A i, j \in 1..Len(q) : q[i] = Event("disconnect", s) /\ q[j] = Event("disconnect", s) => i = j

\* What was recorded is over, and what a trigger is told is so.
LogTrue(q, h, l, o, n0) ==
    /\ Len(l) <= MaxHistory
    /\ \A i, j \in 1..Len(l) : l[i].n = l[j].n => i = j
    /\ \A i \in 1..Len(l) : /\ l[i].n <= n0
                            /\ l[i].success => o[l[i].n] = "yes"
                            /\ \A m \in Managers : h[m].at # "idle" => h[m].n # l[i].n
    /\ \A m \in Managers : h[m].ask = "trigger" /\ ToldYes(q, h, m) => o[h[m].n] = "yes"

ManagersInv ==
    /\ ManagerTypes
    /\ Numbered(inHand, asksMade)
    /\ AnswersNumbered(inbound, inHand, asksMade)
    /\ ListsTrue(inbound, bearer, inHand, sessionCache, raced)
    /\ EndsCounted(inbound, bearer, inHand, endings)
    /\ LogTrue(inbound, inHand, log, outcome, asksMade)

LEMMA MessageFacts ==
  /\ \A s \in Bearers : /\ Event("disconnect", s) \in Messages /\ Event("disconnect", s).is = "disconnect"
                        /\ Event("connect", s) \in Messages /\ Event("connect", s).is = "connect"
                        /\ Event("connect", s).session = s /\ Event("disconnect", s).session = s
  /\ \A s, t \in Bearers : /\ Event("disconnect", s) # Event("connect", t)
                           /\ Event("disconnect", s) = Event("disconnect", t) => s = t
  /\ \A x \in Messages : x.is = "answer" => /\ x \in AnswersTo /\ x.to \in Managers /\ x.n \in 0..MaxAsked /\ x.value \in Values
                                            /\ \A s \in Bearers : x # Event("disconnect", s)
  /\ \A x \in Messages : x.is # "answer" => /\ x \in Events /\ x.session \in Bearers
                                            /\ x.is \in {"connect", "disconnect"} /\ x = Event(x.is, x.session)
<1>1. \A x \in AnswersTo : x.is = "answer" /\ x.to \in Managers /\ x.n \in 0..MaxAsked /\ x.value \in Values
  BY DEF AnswersTo
<1>2. \A x \in Events : x.is \in {"connect", "disconnect"} /\ x.session \in Bearers /\ x = Event(x.is, x.session)
  BY DEF Events, Event
<1>3. \A s \in Bearers : /\ Event("disconnect", s) \in Events /\ Event("disconnect", s).is = "disconnect"
                         /\ Event("connect", s) \in Events /\ Event("connect", s).is = "connect"
                         /\ Event("connect", s).session = s /\ Event("disconnect", s).session = s
  BY DEF Events, Event
<1> QED
  BY <1>1, <1>2, <1>3 DEF Messages

\* The request of task m is over, and the task idle or on to a request that is
\* new; the others go on.
TaskLeaves(h, h2, m, n0, n1) ==
    /\ h2 \in [Managers -> Errands] /\ \A k \in Managers \ {m} : h2[k] = h[k]
    /\ \/ h2[m].at = "idle" /\ n1 = n0
       \/ h2[m].at = "sent" /\ n1 = n0 + 1 /\ h2[m].n = n0 + 1
    /\ h2[m].ask = "release" => h2[m].of # {}

LEMMA LeaveFacts ==
  ASSUME NEW q \in Seq(Messages), NEW h \in [Managers -> Errands], NEW h2, NEW m \in Managers,
         NEW n0 \in Nat, NEW n1 \in Nat, TaskLeaves(h, h2, m, n0, n1),
         Numbered(h, n0), AnswersNumbered(q, h, n0)
  PROVE  /\ Numbered(h2, n1) /\ AnswersNumbered(q, h2, n1)
         /\ ~ToldYes(q, h2, m) /\ \A k \in Managers \ {m} : ToldYes(q, h2, k) <=> ToldYes(q, h, k)
         /\ \A s \in Bearers : Releasing(q, h2, s) = Releasing(q, h, s) \ {m}
         /\ \A b, kept, late : ListsTrue(q, b, h, kept, late) => ListsTrue(q, b, h2, kept, late)
         /\ \A l, o : LogTrue(q, h, l, o, n0) /\ (\A i \in 1..Len(l) : l[i].n \in Nat) =>
                LogTrue(q, h2, l, o, n1)
<1>1. \A k \in Managers : h[k].n \in Nat /\ h2[k].n \in Nat
  BY DEF TaskLeaves, Errands
<1>2. \A i \in 1..Len(q) : q[i] \in Messages
  BY ElementOfSeq
<1>3. Numbered(h2, n1)
  BY <1>1 DEF TaskLeaves, Numbered
<1>4. AnswersNumbered(q, h2, n1)
  <2>1. ASSUME NEW i \in 1..Len(q), IsAnswer(q, i)
        PROVE  /\ 1 <= q[i].n /\ q[i].n <= n1
               /\ \A k \in Managers : h2[k].at # "idle" /\ h2[k].n = q[i].n => q[i].to = k /\ h2[k].at = "served"
    <3>1. q[i].n \in Nat
      BY <1>2, <2>1, MessageFacts DEF IsAnswer
    <3> QED
      BY <1>1, <2>1, <3>1 DEF TaskLeaves, AnswersNumbered
  <2> QED
    BY <2>1 DEF AnswersNumbered
<1>5. ~ToldYes(q, h2, m) /\ \A k \in Managers \ {m} : ToldYes(q, h2, k) <=> ToldYes(q, h, k)
  BY DEF TaskLeaves, ToldYes
<1>6. \A s \in Bearers : Releasing(q, h2, s) = Releasing(q, h, s) \ {m}
  BY <1>5 DEF TaskLeaves, Releasing, One
<1>7. ASSUME NEW b, NEW kept, NEW late, ListsTrue(q, b, h, kept, late)
      PROVE  ListsTrue(q, b, h2, kept, late)
  BY <1>7 DEF TaskLeaves, ListsTrue
<1>8. ASSUME NEW l, NEW o, LogTrue(q, h, l, o, n0), \A i \in 1..Len(l) : l[i].n \in Nat
      PROVE  LogTrue(q, h2, l, o, n1)
  <2>1. ASSUME NEW i \in 1..Len(l)
        PROVE  /\ l[i].n <= n1
               /\ \A k \in Managers : h2[k].at # "idle" => h2[k].n # l[i].n
    BY <1>1, <1>8, <2>1 DEF TaskLeaves, LogTrue
  <2> QED
    BY <1>5, <1>8, <2>1 DEF TaskLeaves, LogTrue
<1> QED
  BY <1>3, <1>4, <1>5, <1>6, <1>7, <1>8

LEMMA LeaveEnds ==
  ASSUME NEW q, NEW b, NEW h, NEW h2, NEW e \in [Bearers -> Nat], NEW m \in Managers,
         EndsCounted(q, b, h, e),
         \A s \in Bearers : Releasing(q, h2, s) = Releasing(q, h, s) \ {m}
  PROVE  EndsCounted(q, b, h2, e)
<1> SUFFICES ASSUME NEW s \in Bearers
    PROVE  /\ b[s] # "down" => e[s] = 0 /\ ~Ended(q, 0, s) /\ Releasing(q, h2, s) = {}
           /\ b[s] = "down" => Ended(q, 0, s) \/ e[s] > 0
           /\ e[s] + (IF Ended(q, 0, s) THEN 1 ELSE 0) + (IF Releasing(q, h2, s) # {} THEN 1 ELSE 0) <= 2
           /\ \A k, j \in Releasing(q, h2, s) : k = j
           /\ \A i, j \in 1..Len(q) : q[i] = Event("disconnect", s) /\ q[j] = Event("disconnect", s) => i = j
  BY DEF EndsCounted
<1>1. Releasing(q, h2, s) \subseteq Releasing(q, h, s) /\ e[s] \in Nat
  OBVIOUS
<1>2. /\ b[s] # "down" => e[s] = 0 /\ ~Ended(q, 0, s) /\ Releasing(q, h, s) = {}
      /\ b[s] = "down" => Ended(q, 0, s) \/ e[s] > 0
      /\ e[s] + (IF Ended(q, 0, s) THEN 1 ELSE 0) + (IF Releasing(q, h, s) # {} THEN 1 ELSE 0) <= 2
      /\ \A k, j \in Releasing(q, h, s) : k = j
      /\ \A i, j \in 1..Len(q) : q[i] = Event("disconnect", s) /\ q[j] = Event("disconnect", s) => i = j
  BY DEF EndsCounted
<1>3. e[s] + (IF Ended(q, 0, s) THEN 1 ELSE 0) + (IF Releasing(q, h2, s) # {} THEN 1 ELSE 0) <= 2
  <2>1. Releasing(q, h2, s) # {} => Releasing(q, h, s) # {}
    BY <1>1
  <2> QED
    BY <1>1, <1>2, <2>1
<1> QED
  BY <1>1, <1>2, <1>3

-----------------------------------------------------------------------------
LEMMA ManagersInitially == ManagersInit => ManagersInv
<1> SUFFICES ASSUME ManagersInit PROVE ManagersInv
  OBVIOUS
<1> USE ManagersAssumption DEF ManagersInit
<1>1. ManagerTypes
  <2>1. NotAsked \in Errands
    BY DEF NotAsked, Errands, Values
  <2>2. <<>> \in Seq(Messages) /\ <<>> \in Seq([n : 1..MaxAsked, success : BOOLEAN])
    OBVIOUS
  <2>3. 0 \in 0..MaxAsked /\ 0 \in Nat /\ {} \in SUBSET Bearers
    OBVIOUS
  <2>4. /\ bearer \in [Bearers -> {"new", "up", "down"}] /\ endings \in [Bearers -> Nat]
        /\ outcome \in [1..MaxAsked -> {"none", "yes", "no", "error"}]
    OBVIOUS
  <2>5. inHand \in [Managers -> Errands]
    BY <2>1
  <2> QED
    BY <2>2, <2>3, <2>4, <2>5 DEF ManagerTypes
<1>2. \A m \in Managers : inHand[m].at = "idle" /\ inHand[m].ask = "none"
  BY DEF NotAsked
<1>3. Numbered(inHand, asksMade) /\ AnswersNumbered(inbound, inHand, asksMade)
  BY <1>2 DEF Numbered, AnswersNumbered
<1>4. ListsTrue(inbound, bearer, inHand, sessionCache, raced)
  BY <1>2 DEF ListsTrue
<1>5. EndsCounted(inbound, bearer, inHand, endings)
  <2>1. \A s \in Bearers : ~Ended(inbound, 0, s) /\ Releasing(inbound, inHand, s) = {}
    BY <1>2 DEF Ended, Releasing
  <2> QED
    BY <2>1 DEF EndsCounted
<1>6. LogTrue(inbound, inHand, log, outcome, asksMade)
  BY <1>2 DEF LogTrue
<1> QED
  BY <1>1, <1>3, <1>4, <1>5, <1>6 DEF ManagersInv

\* What of the invariant a task leaving its request keeps by itself.
LEMMA LeavingKeeps ==
  ASSUME ManagersInv, NEW m \in Managers, TaskLeaves(inHand, inHand', m, asksMade, asksMade'),
         asksMade' \in 0..MaxAsked, UNCHANGED <<bearer, inbound, outcome, raced>>
  PROVE  /\ Numbered(inHand', asksMade') /\ AnswersNumbered(inbound', inHand', asksMade')
         /\ inHand' \in [Managers -> Errands] /\ asksMade' \in Nat
         /\ ListsTrue(inbound', bearer', inHand', sessionCache, raced')
         /\ EndsCounted(inbound', bearer', inHand', endings)
         /\ \A s \in Bearers : Releasing(inbound', inHand', s) = Releasing(inbound, inHand, s) \ {m}
         /\ LogTrue(inbound', inHand', log, outcome', asksMade')
<1>1. /\ inbound \in Seq(Messages) /\ inHand \in [Managers -> Errands] /\ endings \in [Bearers -> Nat]
      /\ asksMade \in Nat /\ asksMade' \in Nat /\ log \in Seq([n : 1..MaxAsked, success : BOOLEAN])
      /\ Numbered(inHand, asksMade) /\ AnswersNumbered(inbound, inHand, asksMade)
      /\ ListsTrue(inbound, bearer, inHand, sessionCache, raced)
      /\ EndsCounted(inbound, bearer, inHand, endings)
      /\ LogTrue(inbound, inHand, log, outcome, asksMade)
  BY ManagersAssumption DEF ManagersInv, ManagerTypes
<1>2. \A i \in 1..Len(log) : log[i].n \in Nat
  <2>1. \A i \in 1..Len(log) : log[i] \in [n : 1..MaxAsked, success : BOOLEAN]
    BY <1>1, ElementOfSeq
  <2> QED
    BY <2>1
<1>3. /\ Numbered(inHand', asksMade') /\ AnswersNumbered(inbound, inHand', asksMade')
      /\ \A s \in Bearers : Releasing(inbound, inHand', s) = Releasing(inbound, inHand, s) \ {m}
      /\ ListsTrue(inbound, bearer, inHand', sessionCache, raced)
      /\ LogTrue(inbound, inHand', log, outcome, asksMade')
  <2>1. Numbered(inHand', asksMade') /\ AnswersNumbered(inbound, inHand', asksMade')
    BY <1>1, LeaveFacts
  <2>4. \A s \in Bearers : Releasing(inbound, inHand', s) = Releasing(inbound, inHand, s) \ {m}
    <3>1. ~ToldYes(inbound, inHand', m) /\ \A k \in Managers \ {m} : ToldYes(inbound, inHand', k) <=> ToldYes(inbound, inHand, k)
      BY <1>1, LeaveFacts
    <3> QED
      BY <3>1 DEF TaskLeaves, Releasing, One
  <2>2. \A b, kept, late : ListsTrue(inbound, b, inHand, kept, late) => ListsTrue(inbound, b, inHand', kept, late)
    BY <1>1, LeaveFacts
  <2>3. \A l, o : LogTrue(inbound, inHand, l, o, asksMade) /\ (\A i \in 1..Len(l) : l[i].n \in Nat) =>
            LogTrue(inbound, inHand', l, o, asksMade')
    BY <1>1, LeaveFacts
  <2> QED
    BY <1>1, <1>2, <2>1, <2>2, <2>3, <2>4
<1>4. EndsCounted(inbound, bearer, inHand', endings)
  BY <1>1, <1>3, LeaveEnds
<1>5. inHand' \in [Managers -> Errands]
  BY DEF TaskLeaves
<1> QED
  BY <1>1, <1>3, <1>4, <1>5

LEMMA StartsKeeps ==
  ASSUME ManagersInv, NEW m \in Managers,
         NEW call \in {"none", "list", "release", "release_all", "recorded", "raised"},
         NEW ask \in {"list", "release", "trigger"}, NEW of \in SUBSET Bearers, Starts(m, call, ask, of),
         ask = "release" => of # {}
  PROVE  ManagersInv'
<1>1. /\ ManagerTypes /\ asksMade' = asksMade + 1 /\ asksMade < MaxAsked
      /\ UNCHANGED <<bearer, inbound, sessionCache, endings, raced, log, outcome>>
  BY DEF Starts, ManagersInv
<1>2. asksMade' \in 0..MaxAsked /\ asksMade \in Nat
  BY <1>1, ManagersAssumption DEF ManagerTypes
<1>3. TaskLeaves(inHand, inHand', m, asksMade, asksMade')
  <2> DEFINE new == [call |-> call, at |-> "sent", of |-> of, ask |-> ask, value |-> {}, n |-> asksMade + 1]
  <2>1. new \in Errands
    BY <1>1, <1>2 DEF Errands, Values
  <2>2. inHand' = [inHand EXCEPT ![m] = new]
    BY DEF Starts
  <2>3. new.at = "sent" /\ new.n = asksMade + 1 /\ new.ask = ask /\ new.of = of
    OBVIOUS
  <2> HIDE DEF new
  <2> QED
    BY <1>1, <2>1, <2>2, <2>3 DEF TaskLeaves, ManagerTypes
<1>4. /\ Numbered(inHand', asksMade') /\ AnswersNumbered(inbound', inHand', asksMade')
      /\ inHand' \in [Managers -> Errands]
      /\ ListsTrue(inbound', bearer', inHand', sessionCache, raced')
      /\ EndsCounted(inbound', bearer', inHand', endings)
      /\ LogTrue(inbound', inHand', log, outcome', asksMade')
  BY <1>1, <1>2, <1>3, LeavingKeeps
<1>5. ManagerTypes'
  BY <1>1, <1>2, <1>4 DEF ManagerTypes
<1> QED
  BY <1>1, <1>4, <1>5 DEF ManagersInv

LEMMA OverLeaves ==
  ASSUME ManagersInv, NEW m \in Managers, IsOver(m), UNCHANGED asksMade
  PROVE  TaskLeaves(inHand, inHand', m, asksMade, asksMade') /\ asksMade' \in 0..MaxAsked
<1>1. NotAsked \in Errands /\ NotAsked.at = "idle" /\ NotAsked.ask = "none"
  BY ManagersAssumption DEF NotAsked, Errands, Values
<1> QED
  BY <1>1 DEF IsOver, TaskLeaves, ManagersInv, ManagerTypes

LEMMA NextLeaves ==
  ASSUME ManagersInv, NEW m \in Managers, inHand[m].at # "idle", NextRelease(m)
  PROVE  TaskLeaves(inHand, inHand', m, asksMade, asksMade') /\ asksMade' \in 0..MaxAsked
<1> DEFINE rest == inHand[m].of \ {CHOOSE s \in inHand[m].of : TRUE}
<1>1. CASE inHand[m].call = "release_all" /\ rest # {} /\ asksMade < MaxAsked
  <2> DEFINE new == [inHand[m] EXCEPT !.at = "sent", !.of = rest, !.value = {}, !.n = asksMade + 1]
  <2>1. asksMade' = asksMade + 1 /\ inHand' = [inHand EXCEPT ![m] = new]
    BY <1>1 DEF NextRelease
  <2>2. inHand[m] \in Errands /\ asksMade \in Nat /\ asksMade' \in 0..MaxAsked /\ inHand \in [Managers -> Errands]
    BY <1>1, <2>1, ManagersAssumption DEF ManagersInv, ManagerTypes
  <2>3. new \in Errands /\ new.at = "sent" /\ new.n = asksMade + 1 /\ new.of = rest
    BY <2>1, <2>2 DEF Errands, Values
  <2> HIDE DEF new
  <2> QED
    BY <1>1, <2>1, <2>2, <2>3 DEF TaskLeaves
<1>2. CASE ~(inHand[m].call = "release_all" /\ rest # {} /\ asksMade < MaxAsked)
  <2>1. IsOver(m) /\ UNCHANGED asksMade
    BY <1>2 DEF NextRelease
  <2> QED
    BY <2>1, OverLeaves
<1> QED
  BY <1>1, <1>2

LEMMA StoreKeeps ==
  ASSUME ManagersInv, NEW m \in Managers, StoreSessions(m)
  PROVE  ManagersInv'
<1>1. /\ ManagerTypes /\ inHand[m].at = "answered" /\ inHand[m].ask = "list"
      /\ sessionCache' = inHand[m].value
      /\ UNCHANGED <<bearer, inbound, endings, raced, asksMade, log, outcome>>
      /\ ListsTrue(inbound, bearer, inHand, sessionCache, raced)
  BY DEF StoreSessions, ManagersInv
<1>2. TaskLeaves(inHand, inHand', m, asksMade, asksMade') /\ asksMade' \in 0..MaxAsked
  BY OverLeaves DEF StoreSessions
<1>3. /\ Numbered(inHand', asksMade') /\ AnswersNumbered(inbound', inHand', asksMade')
      /\ inHand' \in [Managers -> Errands]
      /\ ListsTrue(inbound', bearer', inHand', sessionCache, raced')
      /\ EndsCounted(inbound', bearer', inHand', endings)
      /\ LogTrue(inbound', inHand', log, outcome', asksMade')
  BY <1>1, <1>2, LeavingKeeps
<1>4. sessionCache' \subseteq Bearers /\ (~raced' => \A s \in sessionCache' : UpAfter(inbound', bearer', 0, s))
  BY <1>1 DEF ListsTrue
<1>5. ListsTrue(inbound', bearer', inHand', sessionCache', raced')
  BY <1>3, <1>4 DEF ListsTrue
<1>6. ManagerTypes'
  BY <1>1, <1>2, <1>3, <1>4 DEF ManagerTypes
<1> QED
  BY <1>1, <1>3, <1>5, <1>6 DEF ManagersInv

LEMMA ClearKeeps ==
  ASSUME ManagersInv, ClearCache
  PROVE  ManagersInv'
<1>1. ListsTrue(inbound', bearer', inHand', sessionCache', raced')
  BY DEF ClearCache, ManagersInv, ListsTrue
<1>2. ManagerTypes'
  BY DEF ClearCache, ManagersInv, ManagerTypes
<1> QED
  BY <1>1, <1>2 DEF ClearCache, ManagersInv

LEMMA ReleasedKeeps ==
  ASSUME ManagersInv, NEW m \in Managers, Released(m)
  PROVE  ManagersInv'
<1> DEFINE one == CHOOSE s \in inHand[m].of : TRUE
<1>1. /\ ManagerTypes /\ inHand[m].at = "answered" /\ inHand[m].ask = "release"
      /\ NextRelease(m) /\ UNCHANGED <<bearer, inbound, raced, log, outcome>>
      /\ IF inHand[m].value = {"yes"} THEN sessionCache' = sessionCache \ {one} /\ Announce({one})
         ELSE UNCHANGED <<sessionCache, endings>>
      /\ EndsCounted(inbound, bearer, inHand, endings) /\ Numbered(inHand, asksMade)
  BY DEF Released, ManagersInv
<1>2. TaskLeaves(inHand, inHand', m, asksMade, asksMade') /\ asksMade' \in 0..MaxAsked
  BY <1>1, NextLeaves
<1>3. /\ Numbered(inHand', asksMade') /\ AnswersNumbered(inbound', inHand', asksMade')
      /\ inHand' \in [Managers -> Errands]
      /\ ListsTrue(inbound', bearer', inHand', sessionCache, raced')
      /\ EndsCounted(inbound', bearer', inHand', endings)
      /\ \A s \in Bearers : Releasing(inbound', inHand', s) = Releasing(inbound, inHand, s) \ {m}
      /\ LogTrue(inbound', inHand', log, outcome', asksMade')
  BY <1>1, <1>2, LeavingKeeps
<1>4. sessionCache' \subseteq sessionCache /\ ListsTrue(inbound', bearer', inHand', sessionCache', raced')
  <2>1. sessionCache' \subseteq sessionCache
    BY <1>1
  <2> QED
    BY <1>3, <2>1 DEF ListsTrue
<1>5. endings' \in [Bearers -> Nat] /\ EndsCounted(inbound', bearer', inHand', endings')
  <2>1. CASE inHand[m].value = {"yes"}
    <3>1. inHand[m].of # {} /\ inHand[m].of \subseteq Bearers
      BY <1>1 DEF Numbered, ManagerTypes, Errands
    <3>2. one \in Bearers
      BY <3>1
    <3>3. endings' = [s \in Bearers |-> IF s \in {one} THEN endings[s] + 1 ELSE endings[s]]
      BY <1>1, <2>1 DEF Announce
    <3>4. m \in Releasing(inbound, inHand, one)
      BY <1>1, <2>1 DEF Releasing, ToldYes, One
    <3> HIDE DEF one
    <3>5. /\ endings' \in [Bearers -> Nat] /\ endings[one] \in Nat /\ endings'[one] = endings[one] + 1
          /\ \A s \in Bearers \ {one} : endings'[s] = endings[s]
      BY <1>1, <3>2, <3>3 DEF ManagerTypes
    <3>6. /\ bearer[one] = "down" /\ Releasing(inbound, inHand, one) = {m}
          /\ endings[one] + (IF Ended(inbound, 0, one) THEN 1 ELSE 0) + 1 <= 2
      BY <1>1, <3>2, <3>4 DEF EndsCounted
    <3>7. Releasing(inbound', inHand', one) = {}
      BY <1>3, <3>2, <3>6
    <3>8. endings'[one] + (IF Ended(inbound', 0, one) THEN 1 ELSE 0) <= 2 /\ endings'[one] > 0 /\ endings'[one] + 0 = endings'[one]
      BY <1>1, <3>5, <3>6
    <3>9. bearer'[one] = "down"
      BY <1>1, <3>6
    <3>10. ASSUME NEW s \in Bearers
           PROVE  /\ bearer'[s] # "down" => endings'[s] = 0 /\ ~Ended(inbound', 0, s) /\ Releasing(inbound', inHand', s) = {}
                  /\ bearer'[s] = "down" => Ended(inbound', 0, s) \/ endings'[s] > 0
                  /\ endings'[s] + (IF Ended(inbound', 0, s) THEN 1 ELSE 0) + (IF Releasing(inbound', inHand', s) # {} THEN 1 ELSE 0) <= 2
                  /\ \A k, j \in Releasing(inbound', inHand', s) : k = j
                  /\ \A i, j \in 1..Len(inbound') : inbound'[i] = Event("disconnect", s) /\ inbound'[j] = Event("disconnect", s) => i = j
      <4>1. CASE s = one
        <5>1. \A i, j \in 1..Len(inbound') : inbound'[i] = Event("disconnect", s) /\ inbound'[j] = Event("disconnect", s) => i = j
          BY <1>3 DEF EndsCounted
        <5> QED
          BY <3>5, <3>7, <3>8, <3>9, <4>1, <5>1
      <4>2. CASE s # one
        <5>1. endings'[s] = endings[s]
          BY <3>5, <4>2
        <5> QED
          BY <1>3, <5>1 DEF EndsCounted
      <4> QED
        BY <4>1, <4>2
    <3> QED
      BY <3>5, <3>10 DEF EndsCounted
  <2>2. CASE inHand[m].value # {"yes"}
    BY <1>1, <1>3, <2>2 DEF ManagerTypes
  <2> QED
    BY <2>1, <2>2
<1>6. ManagerTypes'
  BY <1>1, <1>2, <1>3, <1>4, <1>5 DEF ManagerTypes
<1> QED
  BY <1>1, <1>3, <1>4, <1>5, <1>6 DEF ManagersInv

\* _record_trigger() of a request that is over.
LEMMA RecordedKeeps ==
  ASSUME ManagersInv, NEW m \in Managers, NEW success \in BOOLEAN,
         inHand[m].at # "idle", Recorded(inHand[m].n, success),
         success => outcome[inHand[m].n] = "yes",
         TaskLeaves(inHand, inHand', m, asksMade, asksMade'), asksMade' \in 0..MaxAsked,
         inHand'[m].at = "idle",
         UNCHANGED <<bearer, inbound, outcome, raced>>
  PROVE  /\ LogTrue(inbound', inHand', log', outcome', asksMade')
         /\ log' \in Seq([n : 1..MaxAsked, success : BOOLEAN])
<1> DEFINE Entries == [n : 1..MaxAsked, success : BOOLEAN]
           entry == [n |-> inHand[m].n, success |-> success]
           longer == Append(log, entry)
<1>1. /\ log \in Seq(Entries) /\ Len(log) \in Nat /\ asksMade \in Nat /\ asksMade <= MaxAsked /\ asksMade' \in Nat
      /\ \A i \in 1..Len(log) : log[i] \in Entries
      /\ inHand \in [Managers -> Errands] /\ MaxHistory \in Nat /\ MaxHistory >= 1
      /\ Numbered(inHand, asksMade) /\ LogTrue(inbound, inHand, log, outcome, asksMade)
  <2>1. ManagerTypes /\ Numbered(inHand, asksMade) /\ LogTrue(inbound, inHand, log, outcome, asksMade)
    BY DEF ManagersInv
  <2>2. log \in Seq(Entries)
    BY <2>1 DEF ManagerTypes
  <2> HIDE DEF Entries
  <2>3. Len(log) \in Nat /\ \A i \in 1..Len(log) : log[i] \in Entries
    BY <2>2, ElementOfSeq
  <2> QED
    BY <2>1, <2>2, <2>3, ManagersAssumption DEF ManagerTypes
<1>2. LogTrue(inbound', inHand', log, outcome', asksMade')
  BY LeavingKeeps
<1>3. inHand[m].n \in 1..MaxAsked /\ inHand[m].n <= asksMade
  BY <1>1 DEF Numbered, Errands
<1>4. entry \in Entries /\ entry.n = inHand[m].n /\ entry.success = success
  BY <1>3
<1>5. /\ \A i \in 1..Len(log) : log[i].n # entry.n
      /\ entry.n <= asksMade' /\ asksMade <= asksMade'
      /\ success => outcome'[entry.n] = "yes"
      /\ \A k \in Managers : inHand'[k].at # "idle" => inHand'[k].n # entry.n
  <2>1. \A i \in 1..Len(log) : log[i].n # entry.n
    BY <1>1, <1>4 DEF LogTrue
  <2>2. asksMade <= asksMade' /\ entry.n <= asksMade'
    BY <1>1, <1>3, <1>4 DEF TaskLeaves
  <2>3. \A k \in Managers : inHand'[k].at # "idle" => inHand'[k].n # entry.n
    BY <1>1, <1>4 DEF TaskLeaves, Numbered
  <2> QED
    BY <1>4, <2>1, <2>2, <2>3
<1> HIDE DEF entry
<1>6. /\ longer \in Seq(Entries) /\ Len(longer) = Len(log) + 1
      /\ \A i \in 1..Len(log) : longer[i] = log[i]
      /\ longer[Len(log) + 1] = entry
  BY <1>1, <1>4, AppendFacts
<1>7. \A i \in 1..Len(longer) : (i \in 1..Len(log) /\ longer[i] = log[i]) \/ (i = Len(log) + 1 /\ longer[i] = entry)
  BY <1>1, <1>6
<1>8. log' = IF Len(longer) > MaxHistory THEN Tail(longer) ELSE longer
  BY DEF Recorded, entry
<1> HIDE DEF longer
<1>9. /\ \A i, j \in 1..Len(longer) : longer[i].n = longer[j].n => i = j
      /\ \A i \in 1..Len(longer) : /\ longer[i].n <= asksMade'
                                   /\ longer[i].success => outcome'[longer[i].n] = "yes"
                                   /\ \A k \in Managers : inHand'[k].at # "idle" => inHand'[k].n # longer[i].n
  <2>1. \A i \in 1..Len(longer) : /\ longer[i].n <= asksMade'
                                  /\ longer[i].success => outcome'[longer[i].n] = "yes"
                                  /\ \A k \in Managers : inHand'[k].at # "idle" => inHand'[k].n # longer[i].n
    BY <1>2, <1>4, <1>5, <1>7 DEF LogTrue
  <2>2. \A i, j \in 1..Len(longer) : longer[i].n = longer[j].n => i = j
    BY <1>2, <1>5, <1>7 DEF LogTrue
  <2> QED
    BY <2>1, <2>2
<1>10. \A k \in Managers : inHand'[k].ask = "trigger" /\ ToldYes(inbound', inHand', k) => outcome'[inHand'[k].n] = "yes"
  BY <1>2 DEF LogTrue
<1>11. CASE Len(longer) > MaxHistory
  <2>1. /\ Tail(longer) \in Seq(Entries) /\ Len(Tail(longer)) = Len(log)
        /\ \A i \in 1..Len(log) : Tail(longer)[i] = longer[i + 1] /\ i + 1 \in 1..Len(longer)
    <3>1. longer # <<>>
      BY <1>1, <1>6
    <3>2. /\ Tail(longer) \in Seq(Entries) /\ Len(Tail(longer)) = Len(longer) - 1
          /\ \A i \in 1..(Len(longer) - 1) : Tail(longer)[i] = longer[i + 1]
      BY <1>6, <3>1, TailFacts
    <3> QED
      BY <1>1, <1>6, <3>2
  <2>2. Len(log) <= MaxHistory /\ log' = Tail(longer)
    BY <1>1, <1>8, <1>11 DEF LogTrue
  <2>3. \A i, j \in 1..Len(log') : log'[i].n = log'[j].n => i = j
    <3> SUFFICES ASSUME NEW i \in 1..Len(log'), NEW j \in 1..Len(log'), log'[i].n = log'[j].n PROVE i = j
      OBVIOUS
    <3>1. i + 1 = j + 1
      BY <1>9, <2>1, <2>2
    <3> QED
      BY <3>1
  <2>4. LogTrue(inbound', inHand', log', outcome', asksMade')
    BY <1>9, <1>10, <2>1, <2>2, <2>3 DEF LogTrue
  <2> QED
    BY <2>1, <2>2, <2>4
<1>12. CASE ~(Len(longer) > MaxHistory)
  <2>1. log' = longer /\ Len(longer) <= MaxHistory
    BY <1>1, <1>6, <1>8, <1>12
  <2> QED
    BY <1>6, <1>9, <1>10, <2>1 DEF LogTrue
<1> QED
  BY <1>11, <1>12

LEMMA TriggeredKeeps ==
  ASSUME ManagersInv, NEW m \in Managers, Triggered(m) \/ AskTimesOut(m)
  PROVE  ManagersInv'
<1>1. /\ ManagerTypes /\ inHand[m].at # "idle"
      /\ UNCHANGED <<bearer, inbound, sessionCache, endings, raced, outcome>>
  BY DEF Triggered, AskTimesOut, ManagersInv
<1>2. TaskLeaves(inHand, inHand', m, asksMade, asksMade') /\ asksMade' \in 0..MaxAsked
  <2>1. CASE Triggered(m)
    BY <2>1, OverLeaves DEF Triggered
  <2>2. CASE AskTimesOut(m)
    BY <1>1, <2>2, OverLeaves, NextLeaves DEF AskTimesOut
  <2> QED
    BY <2>1, <2>2
<1>3. /\ Numbered(inHand', asksMade') /\ AnswersNumbered(inbound', inHand', asksMade')
      /\ inHand' \in [Managers -> Errands]
      /\ ListsTrue(inbound', bearer', inHand', sessionCache, raced')
      /\ EndsCounted(inbound', bearer', inHand', endings)
      /\ LogTrue(inbound', inHand', log, outcome', asksMade')
  BY <1>1, <1>2, LeavingKeeps
<1>4. /\ LogTrue(inbound', inHand', log', outcome', asksMade')
      /\ log' \in Seq([n : 1..MaxAsked, success : BOOLEAN])
  <2>1. CASE UNCHANGED log
    BY <1>1, <1>3, <2>1 DEF ManagerTypes
  <2>2. CASE Triggered(m) /\ Recorded(inHand[m].n, inHand[m].value = {"yes"})
    <3>1. inHand[m].value = {"yes"} => outcome[inHand[m].n] = "yes"
      BY <2>2 DEF Triggered, ManagersInv, LogTrue, ToldYes
    <3>2. inHand'[m].at = "idle" /\ (inHand[m].value = {"yes"}) \in BOOLEAN
      BY <1>1, <2>2 DEF Triggered, IsOver, NotAsked, ManagerTypes
    <3> QED
      BY <1>1, <1>2, <2>2, <3>1, <3>2, RecordedKeeps
  <2>3. CASE Recorded(inHand[m].n, FALSE) /\ IsOver(m)
    <3>1. inHand'[m].at = "idle"
      BY <1>1, <2>3 DEF IsOver, NotAsked, ManagerTypes
    <3> QED
      BY <1>1, <1>2, <2>3, <3>1, RecordedKeeps
  <2> QED
    BY <2>1, <2>2, <2>3 DEF Triggered, AskTimesOut
<1>5. ManagerTypes'
  BY <1>1, <1>2, <1>3, <1>4 DEF ManagerTypes
<1> QED
  BY <1>1, <1>3, <1>4, <1>5 DEF ManagersInv
-----------------------------------------------------------------------------
(* A message is put at the end of the link.                                   *)
LEMMA GrowFacts ==
  ASSUME NEW q \in Seq(Messages), NEW x \in Messages
  PROVE  LET q2 == Append(q, x)
         IN /\ q2 \in Seq(Messages) /\ Len(q) \in Nat /\ Len(q2) = Len(q) + 1
            /\ \A i \in 1..Len(q) : i \in 1..Len(q2) /\ q2[i] = q[i] /\ q[i] \in Messages
            /\ Len(q2) \in 1..Len(q2) /\ q2[Len(q2)] = x
            /\ \A i \in 1..Len(q2) : i \in 1..Len(q) \/ i = Len(q2)
            /\ \A s : \A i \in 0..Len(q) : Ended(q2, i, s) <=> Ended(q, i, s) \/ x = Event("disconnect", s)
<1> DEFINE q2 == Append(q, x)
<1>1. q2 \in Seq(Messages) /\ Len(q) \in Nat /\ Len(q2) = Len(q) + 1
  OBVIOUS
<1>2. /\ \A i \in 1..Len(q) : i \in 1..Len(q2) /\ q2[i] = q[i] /\ q[i] \in Messages
      /\ Len(q2) \in 1..Len(q2) /\ q2[Len(q2)] = x
      /\ \A i \in 1..Len(q2) : i \in 1..Len(q) \/ i = Len(q2)
  BY AppendFacts, ElementOfSeq
<1> HIDE DEF q2
<1>3. ASSUME NEW s, NEW i \in 0..Len(q)
      PROVE  Ended(q2, i, s) <=> Ended(q, i, s) \/ x = Event("disconnect", s)
  <2>1. Len(q2) > i
    BY <1>1
  <2> QED
    BY <1>1, <1>2, <2>1 DEF Ended
<1> QED
  BY <1>1, <1>2, <1>3 DEF q2

\* An event changes nothing of what the tasks have been told.
LEMMA EventTold ==
  ASSUME NEW q \in Seq(Messages), NEW x \in Messages, x.is # "answer",
         NEW h, NEW n0, AnswersNumbered(q, h, n0)
  PROVE  /\ AnswersNumbered(Append(q, x), h, n0)
         /\ \A m \in Managers : ToldYes(Append(q, x), h, m) <=> ToldYes(q, h, m)
         /\ \A s \in Bearers : Releasing(Append(q, x), h, s) = Releasing(q, h, s)
<1> DEFINE q2 == Append(q, x)
<1>1. /\ Len(q) \in Nat /\ Len(q2) = Len(q) + 1
      /\ \A i \in 1..Len(q) : i \in 1..Len(q2) /\ q2[i] = q[i]
      /\ \A i \in 1..Len(q2) : i \in 1..Len(q) \/ i = Len(q2)
      /\ q2[Len(q2)] = x
  BY GrowFacts
<1> HIDE DEF q2
<1>2. \A i \in 1..Len(q2) : IsAnswer(q2, i) => i \in 1..Len(q) /\ q2[i] = q[i] /\ IsAnswer(q, i)
  BY <1>1 DEF IsAnswer
<1>3. \A i \in 1..Len(q) : IsAnswer(q, i) => i \in 1..Len(q2) /\ q2[i] = q[i] /\ IsAnswer(q2, i)
  BY <1>1 DEF IsAnswer
<1>4. AnswersNumbered(q2, h, n0)
  BY <1>2 DEF AnswersNumbered
<1>5. \A m \in Managers : ToldYes(q2, h, m) <=> ToldYes(q, h, m)
  BY <1>2, <1>3 DEF ToldYes
<1>6. \A s \in Bearers : Releasing(q2, h, s) = Releasing(q, h, s)
  BY <1>5 DEF Releasing
<1> QED
  BY <1>4, <1>5, <1>6 DEF q2

\* What lists, events and the cache tell stays so while a session comes or ends.
LEMMA EventLists ==
  ASSUME NEW q \in Seq(Messages), NEW h, NEW kept \in SUBSET Bearers, NEW late,
         NEW b, NEW b2, NEW s \in Bearers, NEW is \in {"connect", "disconnect"},
         ListsTrue(q, b, h, kept, late),
         is = "connect" => b2[s] = "up", \A t \in Bearers \ {s} : b2[t] = b[t],
         is = "connect" => b[s] # "up" /\ ~Ended(q, 0, s)
  PROVE  ListsTrue(Append(q, Event(is, s)), b2, h, kept, late)
<1> DEFINE x == Event(is, s)
           q2 == Append(q, x)
<1>1. /\ x \in Messages /\ x.is = is /\ x.session = s
  BY MessageFacts
<1>2. /\ Len(q) \in Nat /\ Len(q2) = Len(q) + 1
      /\ \A i \in 1..Len(q) : i \in 1..Len(q2) /\ q2[i] = q[i] /\ q[i] \in Messages
      /\ \A i \in 1..Len(q2) : i \in 1..Len(q) \/ i = Len(q2)
      /\ q2[Len(q2)] = x
      /\ \A t : \A i \in 0..Len(q) : Ended(q2, i, t) <=> Ended(q, i, t) \/ x = Event("disconnect", t)
  BY <1>1, GrowFacts
<1>3. is = "disconnect" => x = Event("disconnect", s)
  OBVIOUS
<1> HIDE DEF x, q2
<1>4. ASSUME NEW t \in Bearers, NEW i \in 0..Len(q), UpAfter(q, b, i, t)
      PROVE  UpAfter(q2, b2, i, t)
  <2>1. CASE t = s /\ is = "disconnect"
    BY <1>2, <1>3, <2>1 DEF UpAfter
  <2>2. CASE t = s /\ is = "connect"
    BY <2>2 DEF UpAfter
  <2>3. CASE t # s
    BY <1>2, <1>4, <2>3 DEF UpAfter
  <2> QED
    BY <2>1, <2>2, <2>3
<1>5. \A i \in 1..Len(q) : i \in 0..Len(q) /\ (q[i].is = "connect" => q[i].session \in Bearers)
  BY <1>2, MessageFacts
<1>6. ~late => \A t \in kept : UpAfter(q2, b2, 0, t)
  BY <1>2, <1>4 DEF ListsTrue
<1>7. ASSUME NEW i \in 1..Len(q2), q2[i].is = "connect" PROVE UpAfter(q2, b2, i, q2[i].session)
  <2>1. CASE i \in 1..Len(q)
    BY <1>2, <1>4, <1>5, <1>7, <2>1 DEF ListsTrue
  <2>2. CASE i = Len(q2)
    BY <1>1, <1>2, <1>7, <2>2 DEF UpAfter
  <2> QED
    BY <1>2, <2>1, <2>2
<1>8. ASSUME NEW m \in Managers, h[m].ask = "list"
      PROVE  /\ \A i \in 1..Len(q2) : IsAnswer(q2, i) /\ q2[i].to = m /\ h[m].at = "served" /\ q2[i].n = h[m].n =>
                    \A t \in q2[i].value : t \in Bearers /\ UpAfter(q2, b2, i, t)
             /\ h[m].at = "answered" =>
                    /\ h[m].value \subseteq Bearers
                    /\ ~late => \A t \in h[m].value : UpAfter(q2, b2, 0, t)
  <2>1. ASSUME NEW i \in 1..Len(q2), IsAnswer(q2, i), q2[i].to = m, h[m].at = "served", q2[i].n = h[m].n,
               NEW t \in q2[i].value
        PROVE  t \in Bearers /\ UpAfter(q2, b2, i, t)
    <3>1. i \in 1..Len(q) /\ IsAnswer(q, i)
      BY <1>1, <1>2, <2>1 DEF IsAnswer
    <3>2. t \in Bearers /\ UpAfter(q, b, i, t)
      BY <1>2, <1>8, <2>1, <3>1 DEF ListsTrue
    <3> QED
      BY <1>4, <1>5, <3>1, <3>2
  <2>2. ASSUME h[m].at = "answered"
        PROVE  /\ h[m].value \subseteq Bearers
               /\ ~late => \A t \in h[m].value : UpAfter(q2, b2, 0, t)
    BY <1>2, <1>4, <1>8, <2>2 DEF ListsTrue
  <2> QED
    BY <2>1, <2>2
<1>9. ListsTrue(q2, b2, h, kept, late)
  BY <1>6, <1>7, <1>8 DEF ListsTrue
<1> QED
  BY <1>9 DEF q2, x

\* A session ends, and its end is on its way for the first time.
LEMMA EndGrows ==
  ASSUME NEW q \in Seq(Messages), NEW q2, NEW b, NEW b2, NEW h, NEW h2, NEW e \in [Bearers -> Nat], NEW s \in Bearers,
         EndsCounted(q, b, h, e), b[s] # "down", b2[s] = "down",
         \A t \in Bearers \ {s} : b2[t] = b[t] /\ Releasing(q2, h2, t) = Releasing(q, h, t),
         \A k, j \in Releasing(q2, h2, s) : k = j,
         \A t \in Bearers : Ended(q2, 0, t) <=> Ended(q, 0, t) \/ t = s,
         \A t \in Bearers \ {s} : \A i, j \in 1..Len(q2) :
             q2[i] = Event("disconnect", t) /\ q2[j] = Event("disconnect", t) => i = j,
         \A i, j \in 1..Len(q2) : q2[i] = Event("disconnect", s) /\ q2[j] = Event("disconnect", s) => i = j
  PROVE  EndsCounted(q2, b2, h2, e)
<1>1. ASSUME NEW t \in Bearers
      PROVE  /\ b2[t] # "down" => e[t] = 0 /\ ~Ended(q2, 0, t) /\ Releasing(q2, h2, t) = {}
             /\ b2[t] = "down" => Ended(q2, 0, t) \/ e[t] > 0
             /\ e[t] + (IF Ended(q2, 0, t) THEN 1 ELSE 0) + (IF Releasing(q2, h2, t) # {} THEN 1 ELSE 0) <= 2
             /\ \A k, j \in Releasing(q2, h2, t) : k = j
             /\ \A i, j \in 1..Len(q2) : q2[i] = Event("disconnect", t) /\ q2[j] = Event("disconnect", t) => i = j
  <2>1. CASE t = s
    <3>1. e[s] = 0 /\ Ended(q2, 0, s)
      BY DEF EndsCounted
    <3> QED
      BY <2>1, <3>1
  <2>2. CASE t # s
    <3>1. b2[t] = b[t] /\ Releasing(q2, h2, t) = Releasing(q, h, t) /\ (Ended(q2, 0, t) <=> Ended(q, 0, t))
      BY <2>2
    <3> QED
      BY <2>2, <3>1 DEF EndsCounted
  <2> QED
    BY <2>1, <2>2
<1> QED
  BY <1>1 DEF EndsCounted

LEMMA ComesKeeps ==
  ASSUME ManagersInv, NEW s \in Bearers, BearerComes(s)
  PROVE  ManagersInv'
<1> DEFINE x == Event("connect", s)
<1>1. /\ bearer[s] = "new" /\ bearer' = [bearer EXCEPT ![s] = "up"] /\ inbound' = Append(inbound, x)
      /\ UNCHANGED <<inHand, sessionCache, endings, raced, asksMade, log, outcome>>
      /\ ManagerTypes /\ AnswersNumbered(inbound, inHand, asksMade) /\ Numbered(inHand, asksMade)
      /\ ListsTrue(inbound, bearer, inHand, sessionCache, raced)
      /\ EndsCounted(inbound, bearer, inHand, endings)
      /\ LogTrue(inbound, inHand, log, outcome, asksMade)
  BY DEF BearerComes, ManagersInv
<1>2. x \in Messages /\ x.is # "answer" /\ x.session = s /\ \A t \in Bearers : x # Event("disconnect", t)
  BY MessageFacts
<1>3. inbound \in Seq(Messages) /\ sessionCache \in SUBSET Bearers
  BY <1>1 DEF ManagerTypes
<1>4. /\ inbound' \in Seq(Messages) /\ Len(inbound) \in Nat /\ Len(inbound') = Len(inbound) + 1
      /\ \A i \in 1..Len(inbound) : inbound'[i] = inbound[i]
      /\ inbound'[Len(inbound')] = x
      /\ \A i \in 1..Len(inbound') : i \in 1..Len(inbound) \/ i = Len(inbound')
      /\ \A t : \A i \in 0..Len(inbound) : Ended(inbound', i, t) <=> Ended(inbound, i, t) \/ x = Event("disconnect", t)
  BY <1>1, <1>2, <1>3, GrowFacts
<1>5. /\ AnswersNumbered(inbound', inHand', asksMade')
      /\ \A m \in Managers : ToldYes(inbound', inHand', m) <=> ToldYes(inbound, inHand, m)
      /\ \A t \in Bearers : Releasing(inbound', inHand', t) = Releasing(inbound, inHand, t)
  BY <1>1, <1>2, <1>3, EventTold
<1> HIDE DEF x
<1>6. bearer' \in [Bearers -> {"new", "up", "down"}] /\ bearer'[s] = "up" /\ \A t \in Bearers \ {s} : bearer'[t] = bearer[t]
  BY <1>1 DEF ManagerTypes
<1>7. ListsTrue(inbound', bearer', inHand', sessionCache', raced')
  <2>1. bearer[s] # "up" /\ ~Ended(inbound, 0, s)
    BY <1>1 DEF EndsCounted
  <2>2. ListsTrue(Append(inbound, Event("connect", s)), bearer', inHand, sessionCache, raced)
    BY <1>1, <1>3, <1>6, <2>1, EventLists
  <2> QED
    BY <1>1, <2>2 DEF x
<1>8. EndsCounted(inbound', bearer', inHand', endings')
  <2>1. \A t \in Bearers : Ended(inbound', 0, t) <=> Ended(inbound, 0, t)
    BY <1>2, <1>4
  <2>2. \A t \in Bearers : \A i \in 1..Len(inbound') : inbound'[i] = Event("disconnect", t) =>
            i \in 1..Len(inbound) /\ inbound[i] = Event("disconnect", t)
    BY <1>2, <1>4
  <2>3. \A t \in Bearers : bearer'[t] = "down" <=> bearer[t] = "down"
    BY <1>1, <1>6
  <2> QED
    BY <1>1, <1>5, <2>1, <2>2, <2>3 DEF EndsCounted
<1>9. LogTrue(inbound', inHand', log', outcome', asksMade')
  BY <1>1, <1>5 DEF LogTrue
<1>10. ManagerTypes'
  BY <1>1, <1>4, <1>6 DEF ManagerTypes
<1> QED
  BY <1>1, <1>5, <1>7, <1>8, <1>9, <1>10 DEF ManagersInv

LEMMA GoesKeeps ==
  ASSUME ManagersInv, NEW s \in Bearers, BearerGoes(s)
  PROVE  ManagersInv'
<1> DEFINE x == Event("disconnect", s)
<1>1. /\ bearer[s] = "up" /\ bearer' = [bearer EXCEPT ![s] = "down"] /\ inbound' = Append(inbound, x)
      /\ UNCHANGED <<inHand, sessionCache, endings, raced, asksMade, log, outcome>>
      /\ ManagerTypes /\ AnswersNumbered(inbound, inHand, asksMade) /\ Numbered(inHand, asksMade)
      /\ ListsTrue(inbound, bearer, inHand, sessionCache, raced)
      /\ EndsCounted(inbound, bearer, inHand, endings)
      /\ LogTrue(inbound, inHand, log, outcome, asksMade)
  BY DEF BearerGoes, ManagersInv
<1>2. x \in Messages /\ x.is # "answer" /\ x.session = s /\ \A t \in Bearers : x = Event("disconnect", t) <=> s = t
  BY MessageFacts
<1>3. inbound \in Seq(Messages) /\ sessionCache \in SUBSET Bearers
  BY <1>1 DEF ManagerTypes
<1>4. /\ inbound' \in Seq(Messages) /\ Len(inbound) \in Nat /\ Len(inbound') = Len(inbound) + 1
      /\ \A i \in 1..Len(inbound) : inbound'[i] = inbound[i]
      /\ inbound'[Len(inbound')] = x
      /\ \A i \in 1..Len(inbound') : i \in 1..Len(inbound) \/ i = Len(inbound')
      /\ \A t : \A i \in 0..Len(inbound) : Ended(inbound', i, t) <=> Ended(inbound, i, t) \/ x = Event("disconnect", t)
  BY <1>1, <1>2, <1>3, GrowFacts
<1>5. /\ AnswersNumbered(inbound', inHand', asksMade')
      /\ \A m \in Managers : ToldYes(inbound', inHand', m) <=> ToldYes(inbound, inHand, m)
      /\ \A t \in Bearers : Releasing(inbound', inHand', t) = Releasing(inbound, inHand, t)
  BY <1>1, <1>2, <1>3, EventTold
<1> HIDE DEF x
<1>6. bearer' \in [Bearers -> {"new", "up", "down"}] /\ bearer'[s] = "down" /\ \A t \in Bearers \ {s} : bearer'[t] = bearer[t]
  BY <1>1 DEF ManagerTypes
<1>7. ListsTrue(inbound', bearer', inHand', sessionCache', raced')
  <2>1. ListsTrue(Append(inbound, Event("disconnect", s)), bearer', inHand, sessionCache, raced)
    BY <1>1, <1>3, <1>6, EventLists
  <2> QED
    BY <1>1, <2>1 DEF x
<1>8. EndsCounted(inbound', bearer', inHand', endings')
  <2>1. endings \in [Bearers -> Nat] /\ bearer[s] # "down" /\ ~Ended(inbound, 0, s) /\ Releasing(inbound, inHand, s) = {}
    BY <1>1 DEF ManagerTypes, EndsCounted
  <2>2. \A t \in Bearers : Ended(inbound', 0, t) <=> Ended(inbound, 0, t) \/ t = s
    BY <1>2, <1>4
  <2>3. ASSUME NEW t \in Bearers, NEW i \in 1..Len(inbound'), NEW j \in 1..Len(inbound'),
               inbound'[i] = Event("disconnect", t), inbound'[j] = Event("disconnect", t)
        PROVE  i = j
    <3>1. CASE t = s
      <4>1. \A k \in 1..Len(inbound) : inbound[k] # Event("disconnect", s)
        BY <1>3, <2>1, LenProperties DEF Ended
      <4> QED
        BY <1>4, <2>3, <3>1, <4>1
    <3>2. CASE t # s
      <4>1. x # Event("disconnect", t)
        BY <1>2, <3>2
      <4>2. i \in 1..Len(inbound) /\ j \in 1..Len(inbound) /\ inbound[i] = Event("disconnect", t) /\ inbound[j] = Event("disconnect", t)
        BY <1>4, <2>3, <4>1
      <4> QED
        BY <1>1, <4>2 DEF EndsCounted
    <3> QED
      BY <3>1, <3>2
  <2>4. \A t \in Bearers : Releasing(inbound', inHand', t) = Releasing(inbound, inHand, t)
    BY <1>5
  <2>5. EndsCounted(inbound', bearer', inHand', endings)
    <3>1. \A k, j \in Releasing(inbound', inHand', s) : k = j
      BY <2>1, <2>4
    <3>2. \A t \in Bearers \ {s} : /\ bearer'[t] = bearer[t]
                                   /\ Releasing(inbound', inHand', t) = Releasing(inbound, inHand, t)
      BY <1>6, <2>4
    <3>3. /\ \A t \in Bearers \ {s} : \A i, j \in 1..Len(inbound') :
                inbound'[i] = Event("disconnect", t) /\ inbound'[j] = Event("disconnect", t) => i = j
          /\ \A i, j \in 1..Len(inbound') :
                inbound'[i] = Event("disconnect", s) /\ inbound'[j] = Event("disconnect", s) => i = j
      BY <2>3
    <3>4. EndsCounted(inbound, bearer, inHand, endings) /\ bearer'[s] = "down"
      BY <1>1, <1>6
    <3> QED
      BY <1>3, <2>1, <2>2, <3>1, <3>2, <3>3, <3>4, EndGrows
  <2> QED
    BY <1>1, <2>5
<1>9. LogTrue(inbound', inHand', log', outcome', asksMade')
  BY <1>1, <1>5 DEF LogTrue
<1>10. ManagerTypes'
  BY <1>1, <1>4, <1>6 DEF ManagerTypes
<1> QED
  BY <1>1, <1>5, <1>7, <1>8, <1>9, <1>10 DEF ManagersInv

LEMMA GrowOnce ==
  ASSUME NEW q \in Seq(Messages), NEW x \in Messages, NEW t,
         \A i, j \in 1..Len(q) : q[i] = Event("disconnect", t) /\ q[j] = Event("disconnect", t) => i = j,
         x = Event("disconnect", t) => ~Ended(q, 0, t)
  PROVE  \A i, j \in 1..Len(Append(q, x)) :
             Append(q, x)[i] = Event("disconnect", t) /\ Append(q, x)[j] = Event("disconnect", t) => i = j
<1> DEFINE q2 == Append(q, x)
<1>1. /\ Len(q) \in Nat /\ \A i \in 1..Len(q) : q2[i] = q[i]
      /\ \A i \in 1..Len(q2) : i \in 1..Len(q) \/ i = Len(q2)
      /\ q2[Len(q2)] = x
  BY GrowFacts
<1>2. x = Event("disconnect", t) => \A i \in 1..Len(q) : q[i] # Event("disconnect", t)
  BY <1>1 DEF Ended
<1> HIDE DEF q2
<1>3. \A i, j \in 1..Len(q2) : q2[i] = Event("disconnect", t) /\ q2[j] = Event("disconnect", t) => i = j
  BY <1>1, <1>2
<1> QED
  BY <1>3 DEF q2

\* The network has answered task m: it was told nothing before, and the others
\* are told what they were.
Told(q, q2, x, h, h2, m, n0) ==
    /\ h2 \in [Managers -> Errands] /\ h2[m].at = "served" /\ \A k \in Managers \ {m} : h2[k] = h[k]
    /\ \A k \in Managers : /\ h2[k].ask = h[k].ask /\ h2[k].of = h[k].of
                           /\ h2[k].n = h[k].n /\ h2[k].value = h[k].value
    /\ Numbered(h2, n0) /\ AnswersNumbered(q2, h2, n0)
    /\ \A k \in Managers \ {m} : ToldYes(q2, h2, k) <=> ToldYes(q, h, k)
    /\ ToldYes(q2, h2, m) <=> x.value = {"yes"}
    /\ ~ToldYes(q, h, m)
    /\ \A i \in 1..Len(q) : IsAnswer(q, i) => q[i].n # h[m].n

LEMMA AnswerTold ==
  ASSUME NEW q \in Seq(Messages), NEW h \in [Managers -> Errands], NEW m \in Managers, NEW x \in Messages,
         NEW n0 \in Nat, NEW h2, h2 = [h EXCEPT ![m].at = "served"],
         h[m].at = "sent", x.is = "answer", x.to = m, x.n = h[m].n,
         Numbered(h, n0), AnswersNumbered(q, h, n0)
  PROVE  Told(q, Append(q, x), x, h, h2, m, n0)
<1> DEFINE q2 == Append(q, x)
<1>1. /\ Len(q) \in Nat /\ Len(q2) = Len(q) + 1 /\ Len(q2) \in 1..Len(q2)
      /\ \A i \in 1..Len(q) : i \in 1..Len(q2) /\ q2[i] = q[i] /\ q[i] \in Messages
      /\ \A i \in 1..Len(q2) : i \in 1..Len(q) \/ i = Len(q2)
      /\ q2[Len(q2)] = x
  BY GrowFacts
<1> HIDE DEF q2
<1>2. /\ h2 \in [Managers -> Errands] /\ h2[m].at = "served" /\ \A k \in Managers \ {m} : h2[k] = h[k]
      /\ \A k \in Managers : /\ h2[k].ask = h[k].ask /\ h2[k].of = h[k].of
                             /\ h2[k].n = h[k].n /\ h2[k].value = h[k].value
  <2>1. h[m] \in Errands /\ h2[m] = [h[m] EXCEPT !.at = "served"]
    OBVIOUS
  <2>2. h2[m] \in Errands /\ h2[m].at = "served" /\ h2[m].ask = h[m].ask /\ h2[m].of = h[m].of
        /\ h2[m].n = h[m].n /\ h2[m].value = h[m].value
    BY <2>1 DEF Errands
  <2> QED
    BY <2>2
<1>3. \A i \in 1..Len(q) : IsAnswer(q, i) => q[i].n # h[m].n
  BY DEF AnswersNumbered
<1>4. \A k \in Managers : h2[k].at = "idle" <=> h[k].at = "idle"
  BY <1>2
<1>5. Numbered(h2, n0)
  BY <1>2, <1>4 DEF Numbered
<1>6. AnswersNumbered(q2, h2, n0)
  <2>1. 1 <= x.n /\ x.n <= n0
    BY DEF Numbered
  <2>2. ASSUME NEW i \in 1..Len(q2), IsAnswer(q2, i)
        PROVE  /\ 1 <= q2[i].n /\ q2[i].n <= n0
               /\ \A k \in Managers : h2[k].at # "idle" /\ h2[k].n = q2[i].n => q2[i].to = k /\ h2[k].at = "served"
    <3>1. CASE i \in 1..Len(q)
      <4>1. IsAnswer(q, i) /\ q2[i] = q[i]
        BY <1>1, <2>2, <3>1 DEF IsAnswer
      <4> QED
        BY <1>2, <1>3, <1>4, <3>1, <4>1 DEF AnswersNumbered
    <3>2. CASE i = Len(q2)
      <4>1. \A k \in Managers : h2[k].at # "idle" /\ h2[k].n = x.n => k = m
        BY <1>2, <1>4 DEF Numbered
      <4> QED
        BY <1>1, <1>2, <2>1, <3>2, <4>1
    <3> QED
      BY <1>1, <3>1, <3>2
  <2>3. \A i, j \in 1..Len(q2) : IsAnswer(q2, i) /\ IsAnswer(q2, j) /\ q2[i].n = q2[j].n => i = j
    BY <1>1, <1>3 DEF AnswersNumbered, IsAnswer
  <2> QED
    BY <2>2, <2>3 DEF AnswersNumbered
<1>7. ASSUME NEW k \in Managers \ {m} PROVE ToldYes(q2, h2, k) <=> ToldYes(q, h, k)
  <2>1. h2[k] = h[k] /\ k # m
    BY <1>2
  <2>2. \A i \in 1..Len(q2) : IsAnswer(q2, i) /\ q2[i].to = k => i \in 1..Len(q) /\ q2[i] = q[i] /\ IsAnswer(q, i)
    BY <1>1, <2>1 DEF IsAnswer
  <2>3. \A i \in 1..Len(q) : IsAnswer(q, i) => i \in 1..Len(q2) /\ q2[i] = q[i] /\ IsAnswer(q2, i)
    BY <1>1 DEF IsAnswer
  <2> QED
    BY <2>1, <2>2, <2>3 DEF ToldYes
<1>8. ToldYes(q2, h2, m) <=> x.value = {"yes"}
  <2>1. \A i \in 1..Len(q2) : IsAnswer(q2, i) /\ q2[i].n = h2[m].n => i = Len(q2)
    BY <1>1, <1>2, <1>3 DEF IsAnswer
  <2> QED
    BY <1>1, <1>2, <2>1 DEF ToldYes, IsAnswer
<1>9. ~ToldYes(q, h, m)
  BY DEF ToldYes
<1> QED
  BY <1>2, <1>3, <1>5, <1>6, <1>7, <1>8, <1>9 DEF Told, q2

LEMMA AnswerLists ==
  ASSUME NEW q \in Seq(Messages), NEW h \in [Managers -> Errands], NEW m \in Managers, NEW x \in Messages,
         NEW n0 \in Nat, NEW h2, h2 = [h EXCEPT ![m].at = "served"],
         h[m].at = "sent", x.is = "answer", x.to = m, x.n = h[m].n,
         Numbered(h, n0), AnswersNumbered(q, h, n0),
         NEW b, NEW kept, NEW late, ListsTrue(q, b, h, kept, late),
         h[m].ask = "list" => \A s \in x.value : s \in Bearers /\ b[s] = "up"
  PROVE  ListsTrue(Append(q, x), b, h2, kept, late)
<1> DEFINE q2 == Append(q, x)
<1>1. /\ Len(q) \in Nat /\ Len(q2) = Len(q) + 1
      /\ \A i \in 1..Len(q) : i \in 1..Len(q2) /\ q2[i] = q[i] /\ i \in 0..Len(q)
      /\ \A i \in 1..Len(q2) : i \in 1..Len(q) \/ i = Len(q2)
      /\ q2[Len(q2)] = x
      /\ \A t : \A i \in 0..Len(q) : Ended(q, i, t) => Ended(q2, i, t)
  BY GrowFacts
<1>2. /\ h2[m].at = "served" /\ \A k \in Managers \ {m} : h2[k] = h[k]
      /\ h2[m].ask = h[m].ask /\ h2[m].n = h[m].n
      /\ \A i \in 1..Len(q) : IsAnswer(q, i) => q[i].n # h[m].n
  <2>1. Told(q, Append(q, x), x, h, h2, m, n0)
    BY AnswerTold
  <2> QED
    BY <2>1 DEF Told
<1> HIDE DEF q2
<1>3. \A t : \A i \in 0..Len(q) : UpAfter(q, b, i, t) => UpAfter(q2, b, i, t)
  BY <1>1 DEF UpAfter
<1>4. 0 \in 0..Len(q)
  BY <1>1
<1>5. ~late => \A s \in kept : UpAfter(q2, b, 0, s)
  BY <1>3, <1>4 DEF ListsTrue
<1>6. \A i \in 1..Len(q2) : q2[i].is = "connect" => UpAfter(q2, b, i, q2[i].session)
  BY <1>1, <1>3 DEF ListsTrue
<1>7. ASSUME NEW k \in Managers, h2[k].ask = "list"
      PROVE  /\ \A i \in 1..Len(q2) : IsAnswer(q2, i) /\ q2[i].to = k /\ h2[k].at = "served" /\ q2[i].n = h2[k].n =>
                    \A t \in q2[i].value : t \in Bearers /\ UpAfter(q2, b, i, t)
             /\ h2[k].at = "answered" =>
                    /\ h2[k].value \subseteq Bearers
                    /\ ~late => \A t \in h2[k].value : UpAfter(q2, b, 0, t)
  <2>1. CASE k = m
    <3>1. \A i \in 1..Len(q2) : IsAnswer(q2, i) /\ q2[i].n = h2[m].n => q2[i] = x
      BY <1>1, <1>2 DEF IsAnswer
    <3> QED
      BY <1>2, <1>7, <2>1, <3>1 DEF UpAfter
  <2>2. CASE k # m
    <3>1. h2[k] = h[k]
      BY <1>2, <2>2
    <3>2. ASSUME NEW i \in 1..Len(q2), IsAnswer(q2, i), q2[i].to = k, h2[k].at = "served", q2[i].n = h2[k].n,
                 NEW t \in q2[i].value
          PROVE  t \in Bearers /\ UpAfter(q2, b, i, t)
      <4>1. i \in 1..Len(q) /\ q2[i] = q[i] /\ IsAnswer(q, i)
        BY <1>1, <2>2, <3>2 DEF IsAnswer
      <4>2. t \in Bearers /\ UpAfter(q, b, i, t)
        BY <1>7, <3>1, <3>2, <4>1 DEF ListsTrue
      <4> QED
        BY <1>1, <1>3, <4>1, <4>2
    <3>3. ASSUME h2[k].at = "answered"
          PROVE  /\ h2[k].value \subseteq Bearers
                 /\ ~late => \A t \in h2[k].value : UpAfter(q2, b, 0, t)
      BY <1>3, <1>4, <1>7, <3>1, <3>3 DEF ListsTrue
    <3> QED
      BY <3>2, <3>3
  <2> QED
    BY <2>1, <2>2
<1>8. ListsTrue(q2, b, h2, kept, late)
  BY <1>5, <1>6, <1>7 DEF ListsTrue
<1> QED
  BY <1>8 DEF q2

LEMMA ServeKeeps ==
  ASSUME ManagersInv, NEW m \in Managers, ServeManager(m)
  PROVE  ManagersInv'
<1> DEFINE one == CHOOSE s \in inHand[m].of : TRUE
           Old == /\ ManagerTypes /\ AnswersNumbered(inbound, inHand, asksMade) /\ Numbered(inHand, asksMade)
                  /\ ListsTrue(inbound, bearer, inHand, sessionCache, raced)
                  /\ EndsCounted(inbound, bearer, inHand, endings)
                  /\ LogTrue(inbound, inHand, log, outcome, asksMade)
<1>1. /\ Old /\ inHand[m].at = "sent" /\ inHand' = [inHand EXCEPT ![m].at = "served"]
      /\ UNCHANGED <<sessionCache, endings, raced, asksMade, log>>
  BY DEF ServeManager, ManagersInv
<1>2. /\ inbound \in Seq(Messages) /\ inHand \in [Managers -> Errands] /\ sessionCache \in SUBSET Bearers
      /\ asksMade \in Nat /\ endings \in [Bearers -> Nat] /\ inHand[m].n \in 1..MaxAsked
  <2>1. inHand[m].n \in 1..MaxAsked
    BY <1>1, ManagersAssumption DEF ManagerTypes, Numbered, Errands
  <2> QED
    BY <1>1, <2>1 DEF ManagerTypes
<1>3. ASSUME NEW value \in Values
      PROVE  /\ AnswerTo(m, value) \in Messages /\ AnswerTo(m, value).is = "answer" /\ AnswerTo(m, value).to = m
             /\ AnswerTo(m, value).n = inHand[m].n /\ AnswerTo(m, value).value = value
             /\ \A t \in Bearers : AnswerTo(m, value) # Event("disconnect", t)
  <2>1. AnswerTo(m, value) \in AnswersTo /\ AnswerTo(m, value).is = "answer"
    BY <1>2 DEF AnswerTo, AnswersTo
  <2>2. AnswerTo(m, value) \in Messages
    BY <2>1 DEF Messages
  <2> QED
    BY <2>1, <2>2, MessageFacts DEF AnswerTo
\* An answer that ends no session.
<1>4. ASSUME NEW value \in Values, inbound' = Append(inbound, AnswerTo(m, value)), UNCHANGED bearer,
             inHand[m].ask = "list" => \A s \in value : s \in Bearers /\ bearer[s] = "up",
             inHand[m].ask = "release" => value # {"yes"},
             outcome' \in [1..MaxAsked -> {"none", "yes", "no", "error"}],
             \A n \in 1..MaxAsked : n # inHand[m].n => outcome'[n] = outcome[n],
             inHand[m].ask = "trigger" /\ value = {"yes"} => outcome'[inHand[m].n] = "yes"
      PROVE  ManagersInv'
  <2> DEFINE x == AnswerTo(m, value)
  <2>1. /\ x \in Messages /\ x.is = "answer" /\ x.to = m /\ x.n = inHand[m].n /\ x.value = value
        /\ \A t \in Bearers : x # Event("disconnect", t)
    BY <1>3
  <2> HIDE DEF x
  <2>2. inbound' = Append(inbound, x)
    BY <1>4 DEF x
  <2>3. /\ inHand' \in [Managers -> Errands] /\ inHand'[m].at = "served" /\ \A k \in Managers \ {m} : inHand'[k] = inHand[k]
        /\ \A k \in Managers : /\ inHand'[k].ask = inHand[k].ask /\ inHand'[k].of = inHand[k].of
                               /\ inHand'[k].n = inHand[k].n
        /\ Numbered(inHand', asksMade) /\ AnswersNumbered(inbound', inHand', asksMade)
        /\ \A k \in Managers \ {m} : ToldYes(inbound', inHand', k) <=> ToldYes(inbound, inHand, k)
        /\ ToldYes(inbound', inHand', m) <=> x.value = {"yes"}
        /\ ~ToldYes(inbound, inHand, m)
    <3>1. Told(inbound, Append(inbound, x), x, inHand, inHand', m, asksMade)
      BY <1>1, <1>2, <2>1, AnswerTold
    <3> QED
      BY <2>2, <3>1 DEF Told
  <2>4. ListsTrue(inbound', bearer', inHand', sessionCache', raced')
    <3>1. inHand[m].ask = "list" => \A s \in x.value : s \in Bearers /\ bearer[s] = "up"
      BY <1>4, <2>1
    <3>2. ListsTrue(Append(inbound, x), bearer, inHand', sessionCache, raced)
      BY <1>1, <1>2, <2>1, <3>1, AnswerLists
    <3> QED
      BY <1>1, <1>4, <2>2, <3>2
  <2>5. EndsCounted(inbound', bearer', inHand', endings')
    <3>1. \A t \in Bearers : Releasing(inbound', inHand', t) = Releasing(inbound, inHand, t)
      BY <1>4, <2>1, <2>3 DEF Releasing, One
    <3>2. \A t \in Bearers : Ended(inbound', 0, t) <=> Ended(inbound, 0, t)
      <4>1. Len(inbound) \in Nat /\ \A t : \A i \in 0..Len(inbound) : Ended(inbound', i, t) <=> Ended(inbound, i, t) \/ x = Event("disconnect", t)
        BY <1>2, <2>1, <2>2, GrowFacts
      <4> QED
        BY <2>1, <4>1
    <3>3. ASSUME NEW t \in Bearers
          PROVE  \A i, j \in 1..Len(inbound') : inbound'[i] = Event("disconnect", t) /\ inbound'[j] = Event("disconnect", t) => i = j
      <4>1. \A i, j \in 1..Len(inbound) : inbound[i] = Event("disconnect", t) /\ inbound[j] = Event("disconnect", t) => i = j
        BY <1>1 DEF EndsCounted
      <4> QED
        BY <1>2, <2>1, <2>2, <4>1, GrowOnce
    <3>4. \A t \in Bearers : /\ Releasing(inbound', inHand', t) = Releasing(inbound, inHand, t)
                             /\ Ended(inbound', 0, t) <=> Ended(inbound, 0, t)
      BY <3>1, <3>2
    <3>5. EndsCounted(inbound, bearer, inHand, endings)
      BY <1>1
    <3>6. \A t \in Bearers : \A i, j \in 1..Len(inbound') :
             inbound'[i] = Event("disconnect", t) /\ inbound'[j] = Event("disconnect", t) => i = j
      BY <3>3
    <3>7. EndsCounted(inbound', bearer, inHand', endings)
      <4> SUFFICES ASSUME NEW t \in Bearers
          PROVE  /\ bearer[t] # "down" => endings[t] = 0 /\ ~Ended(inbound', 0, t) /\ Releasing(inbound', inHand', t) = {}
                 /\ bearer[t] = "down" => Ended(inbound', 0, t) \/ endings[t] > 0
                 /\ endings[t] + (IF Ended(inbound', 0, t) THEN 1 ELSE 0) + (IF Releasing(inbound', inHand', t) # {} THEN 1 ELSE 0) <= 2
                 /\ \A k, j \in Releasing(inbound', inHand', t) : k = j
        BY <3>6 DEF EndsCounted
      <4>1. Releasing(inbound', inHand', t) = Releasing(inbound, inHand, t) /\ (Ended(inbound', 0, t) <=> Ended(inbound, 0, t))
        BY <3>4
      <4> QED
        BY <3>5, <4>1 DEF EndsCounted
    <3> QED
      BY <1>1, <1>4, <3>7
  <2>6. LogTrue(inbound', inHand', log', outcome', asksMade')
    <3>1. \A i \in 1..Len(log) : log[i].n \in 1..MaxAsked /\ log[i].n # inHand[m].n
      <4>1. \A i \in 1..Len(log) : log[i] \in [n : 1..MaxAsked, success : BOOLEAN]
        BY <1>1, ElementOfSeq DEF ManagerTypes
      <4> QED
        BY <1>1, <4>1 DEF LogTrue
    <3>2. \A i \in 1..Len(log) : log[i].success => outcome'[log[i].n] = "yes"
      BY <1>1, <1>4, <3>1 DEF LogTrue
    <3>3. \A i \in 1..Len(log) : \A k \in Managers : inHand'[k].at # "idle" => inHand'[k].n # log[i].n
      BY <1>1, <2>3 DEF LogTrue
    <3>4. ASSUME NEW k \in Managers, inHand'[k].ask = "trigger", ToldYes(inbound', inHand', k)
          PROVE  outcome'[inHand'[k].n] = "yes"
      <4>1. CASE k = m
        BY <1>4, <2>1, <2>3, <3>4, <4>1
      <4>2. CASE k # m
        <5>1. ToldYes(inbound, inHand, k) /\ inHand[k].ask = "trigger" /\ inHand'[k].n = inHand[k].n
          BY <2>3, <3>4, <4>2
        <5>2. outcome[inHand[k].n] = "yes" /\ inHand[k].at # "idle"
          BY <1>1, <5>1 DEF LogTrue, ToldYes
        <5>3. inHand[k].n # inHand[m].n /\ inHand[k].n \in 1..MaxAsked
          BY <1>1, <1>2, <4>2, <5>2, ManagersAssumption DEF Numbered, Errands
        <5> QED
          BY <1>4, <5>1, <5>2, <5>3
      <4> QED
        BY <4>1, <4>2
    <3>5. /\ Len(log) <= MaxHistory /\ \A i, j \in 1..Len(log) : log[i].n = log[j].n => i = j
          /\ \A i \in 1..Len(log) : log[i].n <= asksMade
          /\ log' = log /\ asksMade' = asksMade
      BY <1>1 DEF LogTrue
    <3> HIDE DEF Old
    <3> QED
      BY <3>2, <3>3, <3>4, <3>5 DEF LogTrue
  <2>7. ManagerTypes'
    <3>1. inbound' \in Seq(Messages)
      BY <1>2, <2>1, <2>2, GrowFacts
    <3> QED
      BY <1>1, <1>4, <2>3, <3>1 DEF ManagerTypes
  <2> QED
    BY <1>1, <2>3, <2>4, <2>5, <2>6, <2>7 DEF ManagersInv
<1>5. CASE inHand[m].ask = "list" /\ inbound' = Append(inbound, AnswerTo(m, Up)) /\ UNCHANGED <<bearer, outcome>>
  <2>1. Up \in Values /\ \A s \in Up : s \in Bearers /\ bearer[s] = "up"
    BY DEF Up, Values
  <2> QED
    BY <1>1, <1>4, <1>5, <2>1 DEF ManagerTypes
<1>6. CASE inHand[m].ask = "release" /\ inbound' = Append(inbound, AnswerTo(m, {"error"})) /\ UNCHANGED <<bearer, outcome>>
  <2>1. {"error"} \in Values /\ {"error"} # {"yes"}
    BY DEF Values
  <2> QED
    BY <1>1, <1>4, <1>6, <2>1 DEF ManagerTypes
<1>7. ASSUME inHand[m].ask = "trigger", UNCHANGED bearer, NEW value \in {"yes", "no", "error"},
             inbound' = Append(inbound, AnswerTo(m, {value})), outcome' = [outcome EXCEPT ![inHand[m].n] = value]
      PROVE  ManagersInv'
  <2>1. {value} \in Values /\ ({value} = {"yes"} => value = "yes")
    BY DEF Values
  <2>2. /\ outcome' \in [1..MaxAsked -> {"none", "yes", "no", "error"}] /\ outcome'[inHand[m].n] = value
        /\ \A n \in 1..MaxAsked : n # inHand[m].n => outcome'[n] = outcome[n]
    BY <1>1, <1>2, <1>7 DEF ManagerTypes
  <2> QED
    BY <1>4, <1>7, <2>1, <2>2
<1>8. ASSUME inHand[m].ask = "release", bearer[one] = "up", bearer' = [bearer EXCEPT ![one] = "down"],
             inbound' \in {Append(Append(inbound, Event("disconnect", one)), AnswerTo(m, {"yes"})),
                           Append(Append(inbound, AnswerTo(m, {"yes"})), Event("disconnect", one))},
             UNCHANGED outcome
      PROVE  ManagersInv'
  <2>0. one \in Bearers
    <3>1. inHand[m].of # {} /\ inHand[m].of \subseteq Bearers
      BY <1>1, <1>2, <1>8 DEF Numbered, Errands
    <3> QED
      BY <3>1
  <2> DEFINE x == AnswerTo(m, {"yes"})
  <2>1. PICK s \in Bearers : s = one
    BY <2>0
  <2> DEFINE y == Event("disconnect", s)
  <2>2. /\ x \in Messages /\ x.is = "answer" /\ x.to = m /\ x.n = inHand[m].n /\ x.value = {"yes"}
        /\ \A t \in Bearers : x # Event("disconnect", t)
    <3>1. {"yes"} \in Values
      BY DEF Values
    <3> QED
      BY <1>3, <3>1
  <2>3. /\ y \in Messages /\ y.is # "answer" /\ \A t \in Bearers : y = Event("disconnect", t) <=> t = s
    BY MessageFacts
  <2>4. inbound' = Append(Append(inbound, y), x) \/ inbound' = Append(Append(inbound, x), y)
    BY <1>8, <2>1
  <2>5. /\ bearer[s] = "up" /\ bearer'[s] = "down" /\ \A t \in Bearers \ {s} : bearer'[t] = bearer[t]
        /\ bearer' \in [Bearers -> {"new", "up", "down"}] /\ One(inHand, m) = s
    BY <1>1, <1>8, <2>1 DEF ManagerTypes, One
  <2> HIDE DEF x, y, one
  <2>6. Append(inbound, x) \in Seq(Messages) /\ Append(inbound, y) \in Seq(Messages)
    BY <1>2, <2>2, <2>3
  <2>7. /\ inHand' \in [Managers -> Errands] /\ \A k \in Managers \ {m} : inHand'[k] = inHand[k]
        /\ \A k \in Managers : /\ inHand'[k].ask = inHand[k].ask /\ inHand'[k].of = inHand[k].of
                               /\ inHand'[k].n = inHand[k].n
        /\ Numbered(inHand', asksMade) /\ AnswersNumbered(inbound', inHand', asksMade)
        /\ \A k \in Managers \ {m} : ToldYes(inbound', inHand', k) <=> ToldYes(inbound, inHand, k)
        /\ ToldYes(inbound', inHand', m) /\ ~ToldYes(inbound, inHand, m)
    <3>1. CASE inbound' = Append(Append(inbound, y), x)
      <4> DEFINE q == Append(inbound, y)
      <4>1. AnswersNumbered(q, inHand, asksMade) /\ \A k \in Managers : ToldYes(q, inHand, k) <=> ToldYes(inbound, inHand, k)
        BY <1>1, <1>2, <2>3, EventTold
      <4> HIDE DEF q
      <4>2. /\ inHand' \in [Managers -> Errands] /\ \A k \in Managers \ {m} : inHand'[k] = inHand[k]
            /\ \A k \in Managers : /\ inHand'[k].ask = inHand[k].ask /\ inHand'[k].of = inHand[k].of
                                   /\ inHand'[k].n = inHand[k].n
            /\ Numbered(inHand', asksMade) /\ AnswersNumbered(Append(q, x), inHand', asksMade)
            /\ \A k \in Managers \ {m} : ToldYes(Append(q, x), inHand', k) <=> ToldYes(q, inHand, k)
            /\ ToldYes(Append(q, x), inHand', m) /\ ~ToldYes(q, inHand, m)
        <5>1. q \in Seq(Messages)
          BY <2>6 DEF q
        <5>2. Told(q, Append(q, x), x, inHand, inHand', m, asksMade)
          BY <1>1, <1>2, <2>2, <4>1, <5>1, AnswerTold
        <5> QED
          BY <2>2, <5>2 DEF Told
      <4> QED
        BY <3>1, <4>1, <4>2 DEF q
    <3>2. CASE inbound' = Append(Append(inbound, x), y)
      <4> DEFINE q == Append(inbound, x)
      <4>1. /\ inHand' \in [Managers -> Errands] /\ \A k \in Managers \ {m} : inHand'[k] = inHand[k]
            /\ \A k \in Managers : /\ inHand'[k].ask = inHand[k].ask /\ inHand'[k].of = inHand[k].of
                                   /\ inHand'[k].n = inHand[k].n
            /\ Numbered(inHand', asksMade) /\ AnswersNumbered(q, inHand', asksMade)
            /\ \A k \in Managers \ {m} : ToldYes(q, inHand', k) <=> ToldYes(inbound, inHand, k)
            /\ ToldYes(q, inHand', m) /\ ~ToldYes(inbound, inHand, m)
        <5>1. Told(inbound, Append(inbound, x), x, inHand, inHand', m, asksMade)
          BY <1>1, <1>2, <2>2, AnswerTold
        <5> QED
          BY <2>2, <5>1 DEF Told
      <4>2. q \in Seq(Messages)
        BY <2>6
      <4> HIDE DEF q
      <4>3. AnswersNumbered(Append(q, y), inHand', asksMade) /\ \A k \in Managers : ToldYes(Append(q, y), inHand', k) <=> ToldYes(q, inHand', k)
        BY <2>3, <4>1, <4>2, EventTold
      <4> QED
        BY <3>2, <4>1, <4>3 DEF q
    <3> QED
      BY <2>4, <3>1, <3>2
  <2>8. ListsTrue(inbound', bearer', inHand', sessionCache', raced')
    <3>0. inHand[m].ask = "list" => \A t \in x.value : t \in Bearers /\ bearer[t] = "up"
      BY <1>8
    <3>1. CASE inbound' = Append(Append(inbound, y), x)
      <4> DEFINE q == Append(inbound, y)
      <4>1. ListsTrue(q, bearer', inHand, sessionCache, raced)
        BY <1>1, <1>2, <2>5, EventLists DEF y
      <4>2. AnswersNumbered(q, inHand, asksMade) /\ q \in Seq(Messages)
        BY <1>1, <1>2, <2>3, <2>6, EventTold
      <4> HIDE DEF q
      <4>3. inHand[m].ask = "list" => \A t \in x.value : t \in Bearers /\ bearer'[t] = "up"
        BY <1>8
      <4>4. ListsTrue(Append(q, x), bearer', inHand', sessionCache, raced)
        BY <1>1, <1>2, <2>2, <4>1, <4>2, <4>3, AnswerLists
      <4> QED
        BY <1>1, <3>1, <4>4 DEF q
    <3>2. CASE inbound' = Append(Append(inbound, x), y)
      <4> DEFINE q == Append(inbound, x)
      <4>1. ListsTrue(q, bearer, inHand', sessionCache, raced)
        BY <1>1, <1>2, <2>2, <3>0, AnswerLists
      <4>2. q \in Seq(Messages)
        BY <2>6
      <4> HIDE DEF q
      <4>3. ListsTrue(Append(q, y), bearer', inHand', sessionCache, raced)
        BY <1>2, <2>5, <4>1, <4>2, EventLists DEF y
      <4> QED
        BY <1>1, <3>2, <4>3 DEF q
    <3> QED
      BY <2>4, <3>1, <3>2
  <2>9. /\ inbound' \in Seq(Messages)
        /\ \A t \in Bearers : Ended(inbound', 0, t) <=> Ended(inbound, 0, t) \/ t = s
        /\ \A t \in Bearers : \A i, j \in 1..Len(inbound') :
                inbound'[i] = Event("disconnect", t) /\ inbound'[j] = Event("disconnect", t) => i = j
    <3>1. ASSUME NEW t \in Bearers, NEW z1 \in {x, y}, NEW z2 \in {x, y}, z1 # z2,
                 inbound' = Append(Append(inbound, z1), z2)
          PROVE  /\ inbound' \in Seq(Messages) /\ (Ended(inbound', 0, t) <=> Ended(inbound, 0, t) \/ t = s)
                 /\ \A i, j \in 1..Len(inbound') :
                        inbound'[i] = Event("disconnect", t) /\ inbound'[j] = Event("disconnect", t) => i = j
      <4> DEFINE q == Append(inbound, z1)
      <4>1. z1 \in Messages /\ z2 \in Messages
        BY <2>2, <2>3
      <4>2. /\ q \in Seq(Messages) /\ Len(inbound) \in Nat /\ Len(q) \in Nat
            /\ Ended(q, 0, t) <=> Ended(inbound, 0, t) \/ z1 = Event("disconnect", t)
        <5>1. /\ q \in Seq(Messages) /\ Len(inbound) \in Nat
              /\ \A r : \A i \in 0..Len(inbound) : Ended(q, i, r) <=> Ended(inbound, i, r) \/ z1 = Event("disconnect", r)
          BY <1>2, <4>1, GrowFacts
        <5> HIDE DEF q
        <5> QED
          BY <5>1
      <4>3. Event("disconnect", t) = y <=> t = s
        BY <2>3
      <4>4. \A i, j \in 1..Len(inbound) : inbound[i] = Event("disconnect", t) /\ inbound[j] = Event("disconnect", t) => i = j
        BY <1>1 DEF EndsCounted
      <4>5. t = s => ~Ended(inbound, 0, t)
        BY <1>1, <2>5 DEF EndsCounted
      <4>6. \A i, j \in 1..Len(q) : q[i] = Event("disconnect", t) /\ q[j] = Event("disconnect", t) => i = j
        <5>1. z1 = Event("disconnect", t) => ~Ended(inbound, 0, t)
          BY <2>2, <2>3, <4>5
        <5> QED
          BY <1>2, <4>1, <4>4, <5>1, GrowOnce
      <4> HIDE DEF q
      <4>7. /\ Append(q, z2) \in Seq(Messages)
            /\ Ended(Append(q, z2), 0, t) <=> Ended(q, 0, t) \/ z2 = Event("disconnect", t)
        <5>1. /\ Append(q, z2) \in Seq(Messages)
              /\ \A r : \A i \in 0..Len(q) : Ended(Append(q, z2), i, r) <=> Ended(q, i, r) \/ z2 = Event("disconnect", r)
          BY <4>1, <4>2, GrowFacts
        <5> QED
          BY <4>2, <5>1
      <4>8. z2 = Event("disconnect", t) => ~Ended(q, 0, t)
        BY <2>2, <2>3, <3>1, <4>2, <4>5
      <4>9. \A i, j \in 1..Len(Append(q, z2)) : Append(q, z2)[i] = Event("disconnect", t) /\ Append(q, z2)[j] = Event("disconnect", t) => i = j
        BY <4>1, <4>2, <4>6, <4>8, GrowOnce
      <4>10. inbound' = Append(q, z2)
        BY <3>1 DEF q
      <4>11. z1 = Event("disconnect", t) \/ z2 = Event("disconnect", t) <=> t = s
        BY <2>2, <2>3, <3>1
      <4> QED
        BY <4>2, <4>7, <4>9, <4>10, <4>11
    <3>2. x # y
      BY <2>2, <2>3
    <3>3. s \in Bearers
      OBVIOUS
    <3> QED
      BY <2>4, <3>1, <3>2, <3>3
  <2>10. EndsCounted(inbound', bearer', inHand', endings')
    <3>1. Releasing(inbound, inHand, s) = {}
      BY <1>1, <2>5 DEF EndsCounted
    <3>2. \A t \in Bearers \ {s} : Releasing(inbound', inHand', t) = Releasing(inbound, inHand, t)
      <4>1. \A k \in Managers : One(inHand', k) = One(inHand, k) /\ inHand'[k].ask = inHand[k].ask
        BY <2>7 DEF One
      <4>2. \A k \in Managers \ {m} : ToldYes(inbound', inHand', k) <=> ToldYes(inbound, inHand, k)
        BY <2>7
      <4>3. \A t \in Bearers \ {s} : One(inHand, m) # t
        BY <2>5
      <4> QED
        BY <4>1, <4>2, <4>3 DEF Releasing
    <3>3. Releasing(inbound', inHand', s) \subseteq {m}
      <4>1. \A k \in Managers \ {m} : k \in Releasing(inbound', inHand', s) => k \in Releasing(inbound, inHand, s)
        BY <2>7 DEF Releasing, One
      <4> QED
        BY <3>1, <4>1 DEF Releasing
    <3>4. \A k, j \in Releasing(inbound', inHand', s) : k = j
      BY <3>3
    <3>5. \A t \in Bearers \ {s} : /\ bearer'[t] = bearer[t]
                                   /\ Releasing(inbound', inHand', t) = Releasing(inbound, inHand, t)
      BY <2>5, <3>2
    <3>6. /\ \A t \in Bearers \ {s} : \A i, j \in 1..Len(inbound') :
                inbound'[i] = Event("disconnect", t) /\ inbound'[j] = Event("disconnect", t) => i = j
          /\ \A i, j \in 1..Len(inbound') :
                inbound'[i] = Event("disconnect", s) /\ inbound'[j] = Event("disconnect", s) => i = j
      BY <2>9
    <3>7. EndsCounted(inbound, bearer, inHand, endings) /\ bearer[s] # "down" /\ bearer'[s] = "down"
      BY <1>1, <2>5
    <3>8. EndsCounted(inbound', bearer', inHand', endings)
      BY <1>2, <2>9, <3>4, <3>5, <3>6, <3>7, EndGrows
    <3> QED
      BY <1>1, <3>8
  <2>11. LogTrue(inbound', inHand', log', outcome', asksMade')
    <3>1. \A i \in 1..Len(log) : \A k \in Managers : inHand'[k].at # "idle" => inHand'[k].n # log[i].n
      BY <1>1, <2>7 DEF LogTrue
    <3>2. \A k \in Managers : inHand'[k].ask = "trigger" /\ ToldYes(inbound', inHand', k) => outcome[inHand'[k].n] = "yes"
      BY <1>1, <1>8, <2>7 DEF LogTrue
    <3>3. /\ Len(log) <= MaxHistory /\ \A i, j \in 1..Len(log) : log[i].n = log[j].n => i = j
          /\ \A i \in 1..Len(log) : log[i].n <= asksMade /\ (log[i].success => outcome[log[i].n] = "yes")
          /\ log' = log /\ asksMade' = asksMade /\ outcome' = outcome
      BY <1>1, <1>8 DEF LogTrue
    <3> HIDE DEF Old
    <3> QED
      BY <3>1, <3>2, <3>3 DEF LogTrue
  <2>12. ManagerTypes'
    BY <1>1, <1>8, <2>5, <2>7, <2>9 DEF ManagerTypes
  <2> QED
    BY <1>1, <2>7, <2>8, <2>10, <2>11, <2>12 DEF ManagersInv
<1> HIDE DEF Old
<1> QED
  BY <1>5, <1>6, <1>7, <1>8 DEF ServeManager

-----------------------------------------------------------------------------
(* The receive loop takes the oldest message.                                 *)
LEMMA LinkTail ==
  ASSUME NEW q \in Seq(Messages), q # <<>>
  PROVE  LET t == Tail(q)
         IN /\ t \in Seq(Messages) /\ Len(q) \in Nat /\ Len(t) \in Nat /\ Len(t) = Len(q) - 1
            /\ Head(q) = q[1] /\ q[1] \in Messages /\ 1 \in 1..Len(q)
            /\ \A i \in 1..Len(t) : i + 1 \in 1..Len(q) /\ t[i] = q[i + 1] /\ i + 1 # 1
            /\ \A s : \A i \in 0..Len(t) : Ended(t, i, s) <=> Ended(q, i + 1, s)
            /\ \A s : Ended(q, 0, s) <=> q[1] = Event("disconnect", s) \/ Ended(t, 0, s)
<1> DEFINE t == Tail(q)
<1>1. /\ t \in Seq(Messages) /\ Len(q) \in Nat /\ Len(t) \in Nat /\ Len(t) = Len(q) - 1
      /\ Head(q) = q[1] /\ 1 \in 1..Len(q)
      /\ \A i \in 1..Len(t) : i + 1 \in 1..Len(q) /\ t[i] = q[i + 1] /\ i + 1 # 1
  <2>1. t \in Seq(Messages) /\ Len(t) = Len(q) - 1 /\ \A i \in 1..(Len(q) - 1) : t[i] = q[i + 1]
    BY TailFacts
  <2>2. Len(q) \in Nat /\ Len(q) # 0 /\ Head(q) = q[1]
    BY LenProperties, EmptySeq
  <2> HIDE DEF t
  <2> QED
    BY <2>1, <2>2
<1>2. q[1] \in Messages
  BY <1>1, ElementOfSeq
<1> HIDE DEF t
<1>3. ASSUME NEW s, NEW i \in 0..Len(t)
      PROVE  Ended(t, i, s) <=> Ended(q, i + 1, s)
  <2>1. ASSUME Ended(t, i, s) PROVE Ended(q, i + 1, s)
    <3>1. PICK j \in 1..Len(t) : j > i /\ t[j] = Event("disconnect", s)
      BY <2>1 DEF Ended
    <3>2. j + 1 \in 1..Len(q) /\ j + 1 > i + 1 /\ q[j + 1] = Event("disconnect", s)
      BY <1>1, <3>1
    <3> QED
      BY <3>2 DEF Ended
  <2>2. ASSUME Ended(q, i + 1, s) PROVE Ended(t, i, s)
    <3>1. PICK j \in 1..Len(q) : j > i + 1 /\ q[j] = Event("disconnect", s)
      BY <2>2 DEF Ended
    <3>2. j - 1 \in 1..Len(t) /\ j - 1 > i /\ (j - 1) + 1 = j
      BY <1>1, <3>1
    <3>3. t[j - 1] = q[j]
      BY <1>1, <3>2
    <3> QED
      BY <3>1, <3>2, <3>3 DEF Ended
  <2> QED
    BY <2>1, <2>2
<1>4. ASSUME NEW s
      PROVE  Ended(q, 0, s) <=> q[1] = Event("disconnect", s) \/ Ended(t, 0, s)
  <2>1. Ended(t, 0, s) <=> Ended(q, 1, s)
    BY <1>1, <1>3
  <2>2. Ended(q, 0, s) <=> q[1] = Event("disconnect", s) \/ Ended(q, 1, s)
    BY <1>1 DEF Ended
  <2> QED
    BY <2>1, <2>2
<1> QED
  BY <1>1, <1>2, <1>3, <1>4 DEF t

\* What the loop makes of the answer, or the event, it has taken: the tasks are
\* told what they were.
Heard(q, h, h2) ==
    /\ h2 \in [Managers -> Errands]
    /\ \A k \in Managers : h2[k].ask = h[k].ask /\ h2[k].of = h[k].of /\ h2[k].n = h[k].n
    /\ \A k \in Managers : \/ h2[k] = h[k] /\ ~(h[k].at = "served" /\ IsAnswer(q, 1) /\ q[1].to = k /\ q[1].n = h[k].n)
                           \/ /\ h[k].at = "served" /\ IsAnswer(q, 1) /\ q[1].to = k /\ q[1].n = h[k].n
                              /\ h2[k].at = "answered" /\ h2[k].value = q[1].value

LEMMA HeardFacts ==
  ASSUME NEW q \in Seq(Messages), q # <<>>, NEW h \in [Managers -> Errands], NEW h2, NEW n0,
         Heard(q, h, h2), Numbered(h, n0), AnswersNumbered(q, h, n0)
  PROVE  /\ Numbered(h2, n0) /\ AnswersNumbered(Tail(q), h2, n0)
         /\ \A k \in Managers : ToldYes(Tail(q), h2, k) <=> ToldYes(q, h, k)
         /\ \A s \in Bearers : Releasing(Tail(q), h2, s) = Releasing(q, h, s)
<1> DEFINE t == Tail(q)
<1>1. /\ Len(t) \in Nat /\ 1 \in 1..Len(q)
      /\ \A i \in 1..Len(t) : i + 1 \in 1..Len(q) /\ t[i] = q[i + 1] /\ i + 1 # 1
      /\ \A i \in 1..Len(q) : i = 1 \/ (i - 1 \in 1..Len(t) /\ t[i - 1] = q[i])
  <2>1. /\ Len(t) \in Nat /\ Len(q) \in Nat /\ Len(t) = Len(q) - 1 /\ 1 \in 1..Len(q)
        /\ \A i \in 1..Len(t) : i + 1 \in 1..Len(q) /\ t[i] = q[i + 1] /\ i + 1 # 1
    BY LinkTail
  <2> HIDE DEF t
  <2>2. ASSUME NEW i \in 1..Len(q), i # 1 PROVE i - 1 \in 1..Len(t) /\ t[i - 1] = q[i]
    <3>1. i - 1 \in 1..Len(t) /\ (i - 1) + 1 = i
      BY <2>1, <2>2
    <3> QED
      BY <2>1, <3>1
  <2> QED
    BY <2>1, <2>2
<1> HIDE DEF t
<1>2. \A k \in Managers : h2[k].at = "idle" <=> h[k].at = "idle"
  BY DEF Heard
<1>3. Numbered(h2, n0)
  BY <1>2 DEF Heard, Numbered
<1>4. \A i \in 1..Len(t) : IsAnswer(t, i) <=> IsAnswer(q, i + 1)
  BY <1>1 DEF IsAnswer
<1>5. AnswersNumbered(t, h2, n0)
  <2>1. ASSUME NEW i \in 1..Len(t), IsAnswer(t, i)
        PROVE  /\ 1 <= t[i].n /\ t[i].n <= n0
               /\ \A k \in Managers : h2[k].at # "idle" /\ h2[k].n = t[i].n => t[i].to = k /\ h2[k].at = "served"
    <3>1. /\ i + 1 \in 1..Len(q) /\ t[i] = q[i + 1] /\ i + 1 # 1 /\ IsAnswer(q, i + 1)
      BY <1>1, <1>4, <2>1
    <3>2. IsAnswer(q, 1) => q[1].n # q[i + 1].n
      BY <1>1, <3>1 DEF AnswersNumbered
    <3>3. 1 <= t[i].n /\ t[i].n <= n0
      BY <3>1 DEF AnswersNumbered
    <3>4. ASSUME NEW k \in Managers, h2[k].at # "idle", h2[k].n = t[i].n
          PROVE  t[i].to = k /\ h2[k].at = "served"
      <4>1. h[k].at # "idle" /\ h[k].n = q[i + 1].n
        BY <1>2, <3>1, <3>4 DEF Heard
      <4>2. q[i + 1].to = k /\ h[k].at = "served"
        BY <3>1, <4>1 DEF AnswersNumbered
      <4>3. h2[k] = h[k]
        BY <3>2, <4>1 DEF Heard
      <4> QED
        BY <3>1, <4>2, <4>3
    <3> QED
      BY <3>3, <3>4
  <2>2. ASSUME NEW i \in 1..Len(t), NEW j \in 1..Len(t), IsAnswer(t, i), IsAnswer(t, j), t[i].n = t[j].n
        PROVE  i = j
    <3>1. /\ i + 1 \in 1..Len(q) /\ IsAnswer(q, i + 1) /\ t[i] = q[i + 1]
          /\ j + 1 \in 1..Len(q) /\ IsAnswer(q, j + 1) /\ t[j] = q[j + 1]
      BY <1>1, <1>4, <2>2
    <3>2. i + 1 = j + 1
      BY <2>2, <3>1 DEF AnswersNumbered
    <3> QED
      BY <3>2
  <2> QED
    BY <2>1, <2>2 DEF AnswersNumbered
<1>6. ASSUME NEW k \in Managers PROVE ToldYes(t, h2, k) <=> ToldYes(q, h, k)
  <2> DEFINE Tells(i) == IsAnswer(q, i) /\ q[i].to = k /\ q[i].n = h[k].n /\ q[i].value = {"yes"}
  <2>1. CASE h2[k] = h[k] /\ ~(h[k].at = "served" /\ IsAnswer(q, 1) /\ q[1].to = k /\ q[1].n = h[k].n)
    <3>1. ASSUME h[k].at = "served"
          PROVE  (\E i \in 1..Len(t) : IsAnswer(t, i) /\ t[i].to = k /\ t[i].n = h[k].n /\ t[i].value = {"yes"})
                 <=> \E i \in 1..Len(q) : Tells(i)
      <4>1. ASSUME NEW i \in 1..Len(t), IsAnswer(t, i), t[i].to = k, t[i].n = h[k].n, t[i].value = {"yes"}
            PROVE  \E j \in 1..Len(q) : Tells(j)
        <5>1. i + 1 \in 1..Len(q) /\ Tells(i + 1)
          BY <1>1, <1>4, <4>1
        <5> QED
          BY <5>1
      <4>2. ASSUME NEW i \in 1..Len(q), Tells(i)
            PROVE  \E j \in 1..Len(t) : IsAnswer(t, j) /\ t[j].to = k /\ t[j].n = h[k].n /\ t[j].value = {"yes"}
        <5>1. i # 1
          BY <2>1, <3>1, <4>2
        <5>2. i - 1 \in 1..Len(t) /\ t[i - 1] = q[i]
          BY <1>1, <5>1
        <5> QED
          BY <4>2, <5>2 DEF IsAnswer
      <4> QED
        BY <4>1, <4>2
    <3> QED
      BY <2>1, <3>1 DEF ToldYes
  <2>2. CASE /\ h[k].at = "served" /\ IsAnswer(q, 1) /\ q[1].to = k /\ q[1].n = h[k].n
             /\ h2[k].at = "answered" /\ h2[k].value = q[1].value
    <3>1. \A i \in 1..Len(q) : IsAnswer(q, i) /\ q[i].n = h[k].n => i = 1
      BY <1>1, <2>2 DEF AnswersNumbered
    <3>2. ToldYes(q, h, k) <=> q[1].value = {"yes"}
      BY <1>1, <2>2, <3>1 DEF ToldYes
    <3> QED
      BY <2>2, <3>2 DEF ToldYes
  <2> QED
    BY <2>1, <2>2 DEF Heard
<1>7. \A s \in Bearers : Releasing(t, h2, s) = Releasing(q, h, s)
  <2>1. \A k \in Managers : One(h2, k) = One(h, k) /\ h2[k].ask = h[k].ask
    BY DEF Heard, One
  <2> QED
    BY <1>6, <2>1 DEF Releasing
<1> QED
  BY <1>3, <1>5, <1>6, <1>7 DEF t

LEMMA HeardLists ==
  ASSUME NEW q \in Seq(Messages), q # <<>>, NEW h, NEW h2, NEW b, NEW kept, NEW kept2, NEW late, NEW late2,
         ListsTrue(q, b, h, kept, late),
         \A k \in Managers : h2[k].ask = "list" /\ h2[k].at = "served" => h2[k] = h[k],
         \A k \in Managers : h2[k].ask = "list" /\ h2[k].at = "answered" =>
             /\ h2[k].value \subseteq Bearers
             /\ ~late2 => \A s \in h2[k].value : UpAfter(Tail(q), b, 0, s),
         ~late2 => \A s \in kept2 : UpAfter(Tail(q), b, 0, s)
  PROVE  ListsTrue(Tail(q), b, h2, kept2, late2)
<1> DEFINE t == Tail(q)
<1>1. /\ \A i \in 1..Len(t) : i + 1 \in 1..Len(q) /\ t[i] = q[i + 1]
      /\ \A s : \A i \in 1..Len(t) : Ended(t, i, s) <=> Ended(q, i + 1, s)
  <2>1. /\ Len(t) \in Nat /\ \A i \in 1..Len(t) : i + 1 \in 1..Len(q) /\ t[i] = q[i + 1]
        /\ \A s : \A i \in 0..Len(t) : Ended(t, i, s) <=> Ended(q, i + 1, s)
    BY LinkTail
  <2> QED
    BY <2>1
<1> HIDE DEF t
<1>2. \A s : \A i \in 1..Len(t) : UpAfter(q, b, i + 1, s) => UpAfter(t, b, i, s)
  BY <1>1 DEF UpAfter
<1>3. \A i \in 1..Len(t) : t[i].is = "connect" => UpAfter(t, b, i, t[i].session)
  BY <1>1, <1>2 DEF ListsTrue
<1>4. ASSUME NEW k \in Managers, h2[k].ask = "list", NEW i \in 1..Len(t), IsAnswer(t, i),
             t[i].to = k, h2[k].at = "served", t[i].n = h2[k].n, NEW s \in t[i].value
      PROVE  s \in Bearers /\ UpAfter(t, b, i, s)
  <2>1. i + 1 \in 1..Len(q) /\ t[i] = q[i + 1] /\ IsAnswer(q, i + 1) /\ h2[k] = h[k]
    BY <1>1, <1>4 DEF IsAnswer
  <2>2. s \in Bearers /\ UpAfter(q, b, i + 1, s)
    BY <1>4, <2>1 DEF ListsTrue
  <2> QED
    BY <1>2, <2>2
<1>5. ListsTrue(t, b, h2, kept2, late2)
  BY <1>3, <1>4 DEF ListsTrue, t
<1> QED
  BY <1>5 DEF t

\* The event of an end is announced.
LEMMA EndAnnounced ==
  ASSUME NEW q \in Seq(Messages), q # <<>>, NEW b, NEW h, NEW h2, NEW e \in [Bearers -> Nat], NEW s \in Bearers,
         NEW e2, EndsCounted(q, b, h, e), q[1] = Event("disconnect", s),
         e2 = [t \in Bearers |-> IF t \in {s} THEN e[t] + 1 ELSE e[t]],
         \A t \in Bearers : Releasing(Tail(q), h2, t) = Releasing(q, h, t)
  PROVE  EndsCounted(Tail(q), b, h2, e2)
<1> DEFINE t == Tail(q)
<1>1. /\ Len(t) \in Nat /\ 1 \in 1..Len(q)
      /\ \A i \in 1..Len(t) : i + 1 \in 1..Len(q) /\ t[i] = q[i + 1] /\ i + 1 # 1
      /\ \A u : Ended(q, 0, u) <=> q[1] = Event("disconnect", u) \/ Ended(t, 0, u)
  BY LinkTail
<1> HIDE DEF t
<1>2. \A u \in Bearers : q[1] = Event("disconnect", u) <=> u = s
  BY MessageFacts
<1>3. e2[s] = e[s] + 1 /\ e[s] \in Nat /\ \A u \in Bearers \ {s} : e2[u] = e[u]
  OBVIOUS
<1>4. ~Ended(t, 0, s)
  <2>1. \A i, j \in 1..Len(q) : q[i] = Event("disconnect", s) /\ q[j] = Event("disconnect", s) => i = j
    BY DEF EndsCounted
  <2> QED
    BY <1>1, <2>1 DEF Ended
<1>5. ASSUME NEW u \in Bearers
      PROVE  /\ b[u] # "down" => e2[u] = 0 /\ ~Ended(t, 0, u) /\ Releasing(t, h2, u) = {}
             /\ b[u] = "down" => Ended(t, 0, u) \/ e2[u] > 0
             /\ e2[u] + (IF Ended(t, 0, u) THEN 1 ELSE 0) + (IF Releasing(t, h2, u) # {} THEN 1 ELSE 0) <= 2
             /\ \A k, j \in Releasing(t, h2, u) : k = j
  <2>1. Releasing(t, h2, u) = Releasing(q, h, u)
    BY DEF t
  <2>2. /\ b[u] # "down" => e[u] = 0 /\ ~Ended(q, 0, u) /\ Releasing(q, h, u) = {}
        /\ b[u] = "down" => Ended(q, 0, u) \/ e[u] > 0
        /\ e[u] + (IF Ended(q, 0, u) THEN 1 ELSE 0) + (IF Releasing(q, h, u) # {} THEN 1 ELSE 0) <= 2
        /\ \A k, j \in Releasing(q, h, u) : k = j
    BY DEF EndsCounted
  <2>3. CASE u = s
    <3>1. Ended(q, 0, s)
      BY <1>1
    <3>2. b[s] = "down"
      BY <2>2, <2>3, <3>1
    <3> QED
      BY <1>3, <1>4, <2>1, <2>2, <2>3, <3>1, <3>2
  <2>4. CASE u # s
    <3>1. e2[u] = e[u] /\ (Ended(t, 0, u) <=> Ended(q, 0, u))
      BY <1>1, <1>2, <1>3, <2>4
    <3> QED
      BY <2>1, <2>2, <3>1
  <2> QED
    BY <2>3, <2>4
<1>6. ASSUME NEW u \in Bearers, NEW i \in 1..Len(t), NEW j \in 1..Len(t),
             t[i] = Event("disconnect", u), t[j] = Event("disconnect", u)
      PROVE  i = j
  <2>1. i + 1 \in 1..Len(q) /\ j + 1 \in 1..Len(q) /\ q[i + 1] = Event("disconnect", u) /\ q[j + 1] = Event("disconnect", u)
    BY <1>1, <1>6
  <2>2. i + 1 = j + 1
    BY <2>1 DEF EndsCounted
  <2> QED
    BY <2>2
<1>7. EndsCounted(t, b, h2, e2)
  BY <1>5, <1>6 DEF EndsCounted
<1> QED
  BY <1>7 DEF t

\* A message that is not the end of a session.
LEMMA NoneAnnounced ==
  ASSUME NEW q \in Seq(Messages), q # <<>>, NEW b, NEW h, NEW h2, NEW e,
         EndsCounted(q, b, h, e), \A s \in Bearers : q[1] # Event("disconnect", s),
         \A t \in Bearers : Releasing(Tail(q), h2, t) = Releasing(q, h, t)
  PROVE  EndsCounted(Tail(q), b, h2, e)
<1> DEFINE t == Tail(q)
<1>1. /\ Len(t) \in Nat
      /\ \A i \in 1..Len(t) : i + 1 \in 1..Len(q) /\ t[i] = q[i + 1]
      /\ \A u : Ended(q, 0, u) <=> q[1] = Event("disconnect", u) \/ Ended(t, 0, u)
  BY LinkTail
<1> HIDE DEF t
<1>2. \A u \in Bearers : (Ended(t, 0, u) <=> Ended(q, 0, u)) /\ Releasing(t, h2, u) = Releasing(q, h, u)
  BY <1>1 DEF t
<1>3. ASSUME NEW u \in Bearers, NEW i \in 1..Len(t), NEW j \in 1..Len(t),
             t[i] = Event("disconnect", u), t[j] = Event("disconnect", u)
      PROVE  i = j
  <2>1. i + 1 \in 1..Len(q) /\ j + 1 \in 1..Len(q) /\ q[i + 1] = Event("disconnect", u) /\ q[j + 1] = Event("disconnect", u)
    BY <1>1, <1>3
  <2>2. i + 1 = j + 1
    BY <2>1 DEF EndsCounted
  <2> QED
    BY <2>2
<1>4. ASSUME NEW u \in Bearers
      PROVE  /\ b[u] # "down" => e[u] = 0 /\ ~Ended(t, 0, u) /\ Releasing(t, h2, u) = {}
             /\ b[u] = "down" => Ended(t, 0, u) \/ e[u] > 0
             /\ e[u] + (IF Ended(t, 0, u) THEN 1 ELSE 0) + (IF Releasing(t, h2, u) # {} THEN 1 ELSE 0) <= 2
             /\ \A k, j \in Releasing(t, h2, u) : k = j
  <2>1. Releasing(t, h2, u) = Releasing(q, h, u) /\ (Ended(t, 0, u) <=> Ended(q, 0, u))
    BY <1>2
  <2> QED
    BY <2>1 DEF EndsCounted
<1>5. EndsCounted(t, b, h2, e)
  BY <1>3, <1>4 DEF EndsCounted
<1> QED
  BY <1>5 DEF t

LEMMA ReceiveKeeps ==
  ASSUME ManagersInv, ReceiveMessage
  PROVE  ManagersInv'
<1> DEFINE x == Head(inbound)
<1>1. /\ ManagerTypes /\ Numbered(inHand, asksMade) /\ AnswersNumbered(inbound, inHand, asksMade)
      /\ ListsTrue(inbound, bearer, inHand, sessionCache, raced)
      /\ EndsCounted(inbound, bearer, inHand, endings)
      /\ LogTrue(inbound, inHand, log, outcome, asksMade)
      /\ inbound # <<>> /\ inbound' = Tail(inbound) /\ UNCHANGED <<bearer, asksMade, log, outcome>>
  BY DEF ReceiveMessage, ManagersInv
<1>2. /\ inbound \in Seq(Messages) /\ inHand \in [Managers -> Errands] /\ endings \in [Bearers -> Nat]
      /\ sessionCache \in SUBSET Bearers
  BY <1>1 DEF ManagerTypes
<1>3. /\ inbound' \in Seq(Messages) /\ Len(inbound) \in Nat
      /\ x = inbound[1] /\ x \in Messages
      /\ \A s : Ended(inbound, 0, s) <=> x = Event("disconnect", s) \/ Ended(inbound', 0, s)
      /\ \A s : Ended(inbound', 0, s) <=> Ended(inbound, 1, s)
  <2>1. /\ inbound' \in Seq(Messages) /\ Len(inbound) \in Nat /\ Len(inbound') \in Nat
        /\ x = inbound[1] /\ x \in Messages
        /\ \A s : Ended(inbound, 0, s) <=> inbound[1] = Event("disconnect", s) \/ Ended(inbound', 0, s)
    BY <1>1, <1>2, LinkTail
  <2>2. \A s : \A i \in 0..Len(inbound') : Ended(inbound', i, s) <=> Ended(inbound, i + 1, s)
    BY <1>1, <1>2, LinkTail
  <2>3. 0 \in 0..Len(inbound') /\ 0 + 1 = 1
    BY <2>1
  <2> HIDE DEF x
  <2> QED
    BY <2>1, <2>2, <2>3
<1>4. \/ x.is = "connect" /\ HandleConnect(x.session)
      \/ x.is = "disconnect" /\ HandleDisconnect(x.session)
      \/ x.is = "answer" /\ HandleAnswer(x)
  BY <1>3, MessageFacts DEF ReceiveMessage
<1> HIDE DEF x
\* An event: no task goes on.
<1>5. x.is # "answer" /\ UNCHANGED inHand => Heard(inbound, inHand, inHand')
  BY <1>2, <1>3 DEF Heard, IsAnswer
\* Whatever was taken, what the tasks are told and what is recorded stays true.
<1>6. ASSUME Heard(inbound, inHand, inHand'), sessionCache' \in SUBSET Bearers,
             endings' \in [Bearers -> Nat], raced' \in BOOLEAN,
             ListsTrue(inbound', bearer, inHand', sessionCache', raced'),
             (\A t \in Bearers : Releasing(inbound', inHand', t) = Releasing(inbound, inHand, t))
                 => EndsCounted(inbound', bearer, inHand', endings')
      PROVE  ManagersInv'
  <2>1. Numbered(inHand', asksMade) /\ AnswersNumbered(inbound', inHand', asksMade)
    BY <1>1, <1>2, <1>6, HeardFacts
  <2>2. \A k \in Managers : ToldYes(inbound', inHand', k) <=> ToldYes(inbound, inHand, k)
    BY <1>1, <1>2, <1>6, HeardFacts
  <2>3. \A t \in Bearers : Releasing(inbound', inHand', t) = Releasing(inbound, inHand, t)
    <3>1. \A k \in Managers : One(inHand', k) = One(inHand, k) /\ inHand'[k].ask = inHand[k].ask
      BY <1>6 DEF Heard, One
    <3> QED
      BY <2>2, <3>1 DEF Releasing
  <2>4. LogTrue(inbound', inHand', log, outcome, asksMade)
    <3>1. \A i \in 1..Len(log) : \A k \in Managers : inHand'[k].at # "idle" => inHand'[k].n # log[i].n
      BY <1>1, <1>6 DEF Heard, LogTrue
    <3>2. \A k \in Managers : inHand'[k].ask = "trigger" /\ ToldYes(inbound', inHand', k) => outcome[inHand'[k].n] = "yes"
      BY <1>1, <1>6, <2>2 DEF Heard, LogTrue
    <3> QED
      BY <1>1, <3>1, <3>2 DEF LogTrue
  <2>5. ManagerTypes'
    BY <1>1, <1>3, <1>6 DEF ManagerTypes, Heard
  <2> QED
    BY <1>1, <1>6, <2>1, <2>3, <2>4, <2>5 DEF ManagersInv
\* An event handled while a list waits is the race the cache may lose.
<1>7. ASSUME raced' = (raced \/ ListWaits), UNCHANGED inHand,
             raced' = FALSE => \A t \in sessionCache' : UpAfter(inbound', bearer, 0, t)
      PROVE  ListsTrue(inbound', bearer, inHand', sessionCache', raced') /\ raced' \in BOOLEAN
  <2>1. \A k \in Managers : inHand'[k].ask = "list" /\ inHand'[k].at = "served" => inHand'[k] = inHand[k]
    BY <1>7
  <2>2. \A k \in Managers : inHand'[k].ask = "list" /\ inHand'[k].at = "answered" =>
            /\ inHand'[k].value \subseteq Bearers
            /\ ~raced' => \A s \in inHand'[k].value : UpAfter(Tail(inbound), bearer, 0, s)
    BY <1>1, <1>7 DEF ListsTrue, ListWaits
  <2>3. raced' \in BOOLEAN /\ (~raced' => \A t \in sessionCache' : UpAfter(Tail(inbound), bearer, 0, t))
    <3>1. raced' \in BOOLEAN
      BY <1>1, <1>7 DEF ManagerTypes
    <3> QED
      BY <1>1, <1>7, <3>1
  <2>4. ListsTrue(Tail(inbound), bearer, inHand', sessionCache', raced')
    BY <1>1, <1>2, <2>1, <2>2, <2>3, HeardLists
  <2> QED
    BY <1>1, <2>3, <2>4
<1>8. ASSUME NEW t \in Bearers, UpAfter(inbound, bearer, 0, t), x # Event("disconnect", t)
      PROVE  UpAfter(inbound', bearer, 0, t)
  BY <1>3, <1>8 DEF UpAfter
<1>9. raced' = (raced \/ ListWaits) /\ raced' = FALSE => \A t \in sessionCache : UpAfter(inbound, bearer, 0, t)
  BY <1>1 DEF ListsTrue, ManagerTypes
<1>10. CASE x.is = "connect" /\ HandleConnect(x.session)
  <2>1. /\ sessionCache' = sessionCache \cup {x.session} /\ raced' = (raced \/ ListWaits)
        /\ UNCHANGED <<inHand, endings>> /\ x.is = "connect"
    BY <1>10 DEF HandleConnect
  <2>2. x.session \in Bearers /\ \A t \in Bearers : x # Event("disconnect", t)
    BY <1>3, <2>1, MessageFacts
  <2>3. UpAfter(inbound', bearer, 0, x.session)
    <3>1. 1 \in 1..Len(inbound)
      BY <1>1, <1>2, LinkTail
    <3>2. UpAfter(inbound, bearer, 1, x.session)
      BY <1>1, <1>3, <2>1, <3>1 DEF ListsTrue
    <3> QED
      BY <1>3, <3>2 DEF UpAfter
  <2>4. raced' = FALSE => \A t \in sessionCache' : UpAfter(inbound', bearer, 0, t)
    BY <1>2, <1>8, <1>9, <2>1, <2>2, <2>3
  <2>5. (\A t \in Bearers : Releasing(inbound', inHand', t) = Releasing(inbound, inHand, t))
            => EndsCounted(inbound', bearer, inHand', endings')
    <3> SUFFICES ASSUME \A t \in Bearers : Releasing(inbound', inHand', t) = Releasing(inbound, inHand, t)
        PROVE  EndsCounted(inbound', bearer, inHand', endings')
      OBVIOUS
    <3>1. \A s \in Bearers : inbound[1] # Event("disconnect", s)
      BY <1>3, <2>2
    <3>2. EndsCounted(Tail(inbound), bearer, inHand', endings)
      BY <1>1, <1>2, <3>1, NoneAnnounced
    <3> QED
      BY <1>1, <2>1, <3>2
  <2>6. Heard(inbound, inHand, inHand')
    BY <1>5, <2>1
  <2>7. ListsTrue(inbound', bearer, inHand', sessionCache', raced') /\ raced' \in BOOLEAN
    BY <1>7, <2>1, <2>4
  <2> QED
    BY <1>2, <1>6, <2>1, <2>2, <2>5, <2>6, <2>7
<1>11. CASE x.is = "disconnect" /\ HandleDisconnect(x.session)
  <2>1. PICK s \in Bearers : s = x.session /\ x = Event("disconnect", s) /\ \A t \in Bearers \ {s} : x # Event("disconnect", t)
    <3>1. x.session \in Bearers /\ x = Event("disconnect", x.session)
      BY <1>3, <1>11, MessageFacts
    <3> QED
      BY <3>1, MessageFacts
  <2>2. /\ sessionCache' = sessionCache \ {s} /\ raced' = (raced \/ ListWaits)
        /\ endings' = [t \in Bearers |-> IF t \in {s} THEN endings[t] + 1 ELSE endings[t]]
        /\ UNCHANGED inHand /\ x.is = "disconnect"
    BY <1>11, <2>1 DEF HandleDisconnect, Announce
  <2>3. raced' = FALSE => \A t \in sessionCache' : UpAfter(inbound', bearer, 0, t)
    BY <1>2, <1>8, <1>9, <2>1, <2>2
  <2>4. (\A t \in Bearers : Releasing(inbound', inHand', t) = Releasing(inbound, inHand, t))
            => EndsCounted(inbound', bearer, inHand', endings')
    <3> SUFFICES ASSUME \A t \in Bearers : Releasing(inbound', inHand', t) = Releasing(inbound, inHand, t)
        PROVE  EndsCounted(inbound', bearer, inHand', endings')
      OBVIOUS
    <3>1. inbound[1] = Event("disconnect", s)
      BY <1>3, <2>1
    <3>2. EndsCounted(Tail(inbound), bearer, inHand', endings')
      BY <1>1, <1>2, <2>2, <3>1, EndAnnounced
    <3> QED
      BY <1>1, <3>2
  <2>5. Heard(inbound, inHand, inHand')
    BY <1>5, <2>2
  <2>6. ListsTrue(inbound', bearer, inHand', sessionCache', raced') /\ raced' \in BOOLEAN
    BY <1>7, <2>2, <2>3
  <2>7. endings' \in [Bearers -> Nat] /\ sessionCache' \in SUBSET Bearers
    BY <1>2, <2>2
  <2> QED
    BY <1>6, <2>4, <2>5, <2>6, <2>7
<1>12. CASE x.is = "answer" /\ HandleAnswer(x)
  <2>1. /\ inHand' = [m \in Managers |->
               IF m = x.to /\ inHand[m].at = "served" /\ inHand[m].n = x.n
               THEN [inHand[m] EXCEPT !.at = "answered", !.value = x.value] ELSE inHand[m]]
        /\ UNCHANGED <<sessionCache, endings, raced>> /\ x.is = "answer"
    BY <1>12 DEF HandleAnswer
  <2>2. x.value \in Values /\ \A t \in Bearers : x # Event("disconnect", t)
    BY <1>3, <2>1, MessageFacts
  <2>3. Heard(inbound, inHand, inHand')
    <3>1. ASSUME NEW k \in Managers
          PROVE  /\ inHand'[k] \in Errands
                 /\ inHand'[k].ask = inHand[k].ask /\ inHand'[k].of = inHand[k].of /\ inHand'[k].n = inHand[k].n
                 /\ \/ inHand'[k] = inHand[k] /\ ~(inHand[k].at = "served" /\ x.to = k /\ x.n = inHand[k].n)
                    \/ /\ inHand[k].at = "served" /\ x.to = k /\ x.n = inHand[k].n
                       /\ inHand'[k].at = "answered" /\ inHand'[k].value = x.value
      <4>1. inHand[k] \in Errands
        BY <1>2
      <4>2. CASE k = x.to /\ inHand[k].at = "served" /\ inHand[k].n = x.n
        <5>1. inHand'[k] = [inHand[k] EXCEPT !.at = "answered", !.value = x.value]
          BY <2>1, <4>2
        <5> QED
          BY <2>2, <4>1, <4>2, <5>1 DEF Errands
      <4>3. CASE ~(k = x.to /\ inHand[k].at = "served" /\ inHand[k].n = x.n)
        <5>1. inHand'[k] = inHand[k]
          BY <2>1, <4>3
        <5> QED
          BY <4>1, <4>3, <5>1
      <4> QED
        BY <4>2, <4>3
    <3>2. inHand' = [k \in Managers |-> inHand'[k]]
      BY <2>1
    <3>3. inHand' \in [Managers -> Errands]
      BY <3>1, <3>2
    <3>4. IsAnswer(inbound, 1) /\ inbound[1] = x
      BY <1>3, <2>1 DEF IsAnswer
    <3> QED
      BY <3>1, <3>3, <3>4 DEF Heard
  <2>4. ListsTrue(inbound', bearer, inHand', sessionCache', raced')
    <3>1. \A k \in Managers : inHand'[k].ask = "list" /\ inHand'[k].at = "served" => inHand'[k] = inHand[k]
      BY <2>3 DEF Heard
    <3>2. ASSUME NEW k \in Managers, inHand'[k].ask = "list", inHand'[k].at = "answered"
          PROVE  inHand'[k].value \subseteq Bearers /\ (~raced' => \A s \in inHand'[k].value : UpAfter(inbound', bearer, 0, s))
      <4>1. CASE inHand'[k] = inHand[k]
        BY <1>1, <1>8, <2>1, <2>2, <3>2, <4>1 DEF ListsTrue
      <4>2. CASE /\ inHand[k].at = "served" /\ x.to = k /\ x.n = inHand[k].n
                 /\ inHand'[k].value = x.value
        <5>1. 1 \in 1..Len(inbound) /\ IsAnswer(inbound, 1) /\ inHand[k].ask = "list"
          BY <1>1, <1>2, <1>3, <2>1, <2>3, <3>2, LinkTail DEF IsAnswer, Heard
        <5>2. \A s \in x.value : s \in Bearers /\ UpAfter(inbound, bearer, 1, s)
          BY <1>1, <1>3, <4>2, <5>1 DEF ListsTrue
        <5>3. \A s \in x.value : s \in Bearers /\ UpAfter(inbound', bearer, 0, s)
          BY <1>3, <5>2 DEF UpAfter
        <5> QED
          BY <4>2, <5>3
      <4> QED
        BY <1>3, <2>3, <4>1, <4>2 DEF Heard
    <3>3. ~raced' => \A s \in sessionCache' : UpAfter(inbound', bearer, 0, s)
      BY <1>1, <1>2, <1>8, <2>1, <2>2 DEF ListsTrue
    <3>4. \A k \in Managers : inHand'[k].ask = "list" /\ inHand'[k].at = "answered" =>
              /\ inHand'[k].value \subseteq Bearers
              /\ ~raced' => \A s \in inHand'[k].value : UpAfter(Tail(inbound), bearer, 0, s)
      BY <1>1, <3>2
    <3>5. ~raced' => \A s \in sessionCache' : UpAfter(Tail(inbound), bearer, 0, s)
      BY <1>1, <3>3
    <3>6. ListsTrue(Tail(inbound), bearer, inHand', sessionCache', raced')
      BY <1>1, <1>2, <3>1, <3>4, <3>5, HeardLists
    <3> QED
      BY <1>1, <3>6
  <2>5. (\A t \in Bearers : Releasing(inbound', inHand', t) = Releasing(inbound, inHand, t))
            => EndsCounted(inbound', bearer, inHand', endings')
    <3> SUFFICES ASSUME \A t \in Bearers : Releasing(inbound', inHand', t) = Releasing(inbound, inHand, t)
        PROVE  EndsCounted(inbound', bearer, inHand', endings')
      OBVIOUS
    <3>1. \A s \in Bearers : inbound[1] # Event("disconnect", s)
      BY <1>3, <2>2
    <3>2. EndsCounted(Tail(inbound), bearer, inHand', endings)
      BY <1>1, <1>2, <3>1, NoneAnnounced
    <3> QED
      BY <1>1, <2>1, <3>2
  <2>6. sessionCache' \in SUBSET Bearers /\ endings' \in [Bearers -> Nat] /\ raced' \in BOOLEAN
    BY <1>1, <2>1 DEF ManagerTypes
  <2> QED
    BY <1>6, <2>3, <2>4, <2>5, <2>6
<1> QED
  BY <1>4, <1>10, <1>11, <1>12

-----------------------------------------------------------------------------
LEMMA ManagersStep == ManagersInv /\ [SessionManagerNext \/ TriggerManagerNext]_managerTaskVars => ManagersInv'
<1> SUFFICES ASSUME ManagersInv, [SessionManagerNext \/ TriggerManagerNext]_managerTaskVars PROVE ManagersInv'
  OBVIOUS
<1>1. CASE ReceiveMessage
  BY <1>1, ReceiveKeeps
<1>2. CASE ClearCache
  BY <1>2, ClearKeeps
<1>3. ASSUME NEW s \in Bearers, BearerComes(s) \/ BearerGoes(s) PROVE ManagersInv'
  BY <1>3, ComesKeeps, GoesKeeps
<1>4. ASSUME NEW m \in Managers, ServeManager(m) PROVE ManagersInv'
  BY <1>4, ServeKeeps
<1>5. ASSUME NEW m \in Managers, ListSessions(m) PROVE ManagersInv'
  BY <1>5, StartsKeeps DEF ListSessions
<1>6. ASSUME NEW m \in Managers, NEW s \in Bearers, GetSession(m, s) \/ ReleaseSession(m, s) PROVE ManagersInv'
  <2>1. CASE GetSession(m, s)
    BY <1>5, <2>1 DEF GetSession
  <2>2. CASE ReleaseSession(m, s)
    <3>1. {s} \in SUBSET Bearers /\ {s} # {}
      OBVIOUS
    <3> QED
      BY <2>2, <3>1, StartsKeeps DEF ReleaseSession
  <2> QED
    BY <1>6, <2>1, <2>2
<1>7. ASSUME NEW m \in Managers, ReleaseByImsi(m) PROVE ManagersInv'
  <2>1. sessionCache \in SUBSET Bearers /\ sessionCache # {}
    BY <1>7 DEF ReleaseByImsi, ManagersInv, ManagerTypes
  <2> QED
    BY <1>7, <2>1, StartsKeeps DEF ReleaseByImsi
<1>8. ASSUME NEW m \in Managers, StoreSessions(m) PROVE ManagersInv'
  BY <1>8, StoreKeeps
<1>9. ASSUME NEW m \in Managers, Released(m) PROVE ManagersInv'
  BY <1>9, ReleasedKeeps
<1>10. ASSUME NEW m \in Managers, Triggered(m) \/ AskTimesOut(m) PROVE ManagersInv'
  BY <1>10, TriggeredKeeps
<1>11. ASSUME NEW m \in Managers, NEW fate \in {"recorded", "raised"}, Trigger(m, fate) PROVE ManagersInv'
  BY <1>11, StartsKeeps DEF Trigger
<1>12. ASSUME NEW m \in Managers,
              \/ TriggerPaging(m) \/ TriggerDetach(m) \/ TriggerServiceRequest(m) \/ TriggerHandover(m)
              \/ TriggerCellOutage(m) \/ TriggerRlf(m) \/ TriggerTau(m) \/ TriggerCustom(m)
       PROVE  ManagersInv'
  BY <1>11, <1>12 DEF TriggerPaging, TriggerDetach, TriggerServiceRequest, TriggerHandover,
     TriggerCellOutage, TriggerRlf, TriggerTau, TriggerCustom
<1>13. CASE SessionManagerNext
  BY <1>1, <1>2, <1>3, <1>4, <1>5, <1>6, <1>7, <1>8, <1>9, <1>10, <1>13 DEF SessionManagerNext
<1>14. CASE TriggerManagerNext
  BY <1>1, <1>4, <1>10, <1>12, <1>14 DEF TriggerManagerNext
<1>15. CASE UNCHANGED managerTaskVars
  BY <1>15 DEF managerTaskVars, ManagersInv, ManagerTypes
<1> QED
  BY <1>13, <1>14, <1>15

LEMMA ManagersImply == ManagersInv => ManagersSound
<1> SUFFICES ASSUME ManagersInv PROVE ManagersSound
  OBVIOUS
<1>1. /\ ManagerTypes /\ ListsTrue(inbound, bearer, inHand, sessionCache, raced)
      /\ EndsCounted(inbound, bearer, inHand, endings) /\ LogTrue(inbound, inHand, log, outcome, asksMade)
  BY DEF ManagersInv
<1>2. CacheFollows
  <2> SUFFICES ASSUME Settled
      PROVE  (~raced => sessionCache \subseteq Up) /\ \A s \in Bearers : bearer[s] = "down" => endings[s] > 0
    BY DEF CacheFollows
  <2>1. \A s : ~Ended(inbound, 0, s)
    BY DEF Settled, Ended
  <2> QED
    BY <1>1, <2>1 DEF ManagerTypes, ListsTrue, EndsCounted, UpAfter, Up
<1>3. EndsAreEnds
  <2> SUFFICES ASSUME NEW s \in Bearers, endings[s] > 0 PROVE bearer[s] = "down" /\ endings[s] <= 2
    BY DEF EndsAreEnds
  <2>1. endings[s] \in Nat
    BY <1>1 DEF ManagerTypes
  <2> QED
    BY <1>1, <2>1 DEF EndsCounted
<1>4. HistoryTrue
  <2>1. DOMAIN log = 1..Len(log)
    BY <1>1, LenProperties DEF ManagerTypes
  <2> QED
    BY <1>1, <2>1 DEF LogTrue, HistoryTrue
<1> QED
  BY <1>2, <1>3, <1>4 DEF ManagersSound

\* However messages, calls and time-outs cross, once nothing is on its way the
\* cache holds no session that has ended and every end was announced, at most
\* twice; the history tells of each trigger once, and of none that it worked
\* that was not carried out (SessionManager, TriggerManager).
THEOREM ManagersSafety == ManagersSpec => []ManagersSound
BY ManagersInitially, ManagersStep, ManagersImply, PTL DEF ManagersSpec

\* What listeners, the session cache and the trigger history make of the
\* simulator's events is right (EventManager, SessionManager, TriggerManager).
THEOREM EventsTrue == EventManagerSpec /\ ManagersSpec => []EventsFollowed
BY EventManagerSafety, ManagersSafety, PTL DEF EventsFollowed

-----------------------------------------------------------------------------
(* Less() goes through the sequence: what it has kept of each beginning.      *)
KeptTo(f, n, s, gone) ==
    f = [i \in 0..n |-> IF i = 0 THEN <<>> ELSE IF s[i] \in gone THEN f[i - 1] ELSE Append(f[i - 1], s[i])]

\* What is kept of the first n, and from where.
Chosen(r, n, s, gone, g) ==
    /\ g \in [1..Len(r) -> 1..n]
    /\ \A i \in 1..Len(r) : r[i] = s[g[i]] /\ r[i] \notin gone
    /\ \A i, j \in 1..Len(r) : i < j => g[i] < g[j]
    /\ \A k \in 1..n : s[k] \notin gone => \E i \in 1..Len(r) : g[i] = k

LEMMA KeepsExists ==
  ASSUME NEW S, NEW s \in Seq(S), NEW gone, NEW n \in 0..Len(s)
  PROVE  \E f : KeptTo(f, n, s, gone) /\ f[n] \in Seq(S) /\ \E g : Chosen(f[n], n, s, gone, g)
<1> DEFINE P(k) == \E f : KeptTo(f, k, s, gone) /\ f[k] \in Seq(S) /\ \E g : Chosen(f[k], k, s, gone, g)
<1>1. P(0)
  <2> DEFINE f == [i \in 0..0 |-> <<>>]
  <2>1. KeptTo(f, 0, s, gone) /\ f[0] = <<>> /\ <<>> \in Seq(S)
    BY DEF KeptTo
  <2>2. Chosen(<<>>, 0, s, gone, [i \in 1..0 |-> 0])
    BY DEF Chosen
  <2> HIDE DEF f
  <2> QED
    BY <2>1, <2>2
<1>2. ASSUME NEW k \in 0..Len(s), k + 1 \in 0..Len(s), P(k) PROVE P(k + 1)
  <2>1. PICK f : KeptTo(f, k, s, gone) /\ f[k] \in Seq(S) /\ \E g : Chosen(f[k], k, s, gone, g)
    BY <1>2
  <2>2. PICK g : Chosen(f[k], k, s, gone, g)
    BY <2>1
  <2> DEFINE r == f[k]
             x == s[k + 1]
             r2 == IF x \in gone THEN r ELSE Append(r, x)
             f2 == [i \in 0..(k + 1) |-> IF i = k + 1 THEN r2 ELSE f[i]]
  <2>3. /\ k \in Nat /\ Len(s) \in Nat /\ k + 1 <= Len(s) /\ Len(r) \in Nat
        /\ x \in S
    BY <1>2, <2>1, ElementOfSeq
  <2>4. /\ f2 = [i \in 0..(k + 1) |-> IF i = 0 THEN <<>> ELSE IF s[i] \in gone THEN f2[i - 1] ELSE Append(f2[i - 1], s[i])]
        /\ f2[k + 1] = r2
    <3>1. \A i \in 0..k : f[i] = IF i = 0 THEN <<>> ELSE IF s[i] \in gone THEN f[i - 1] ELSE Append(f[i - 1], s[i])
      BY <2>1 DEF KeptTo
    <3>2. \A i \in 0..k : f2[i] = f[i] /\ i # k + 1
      BY <2>3
    <3>3. f2[k + 1] = r2 /\ f2[k] = r /\ k + 1 # 0 /\ (k + 1) - 1 = k
      BY <2>3
    <3> HIDE DEF f2
    <3>4. ASSUME NEW i \in 0..(k + 1)
          PROVE  f2[i] = IF i = 0 THEN <<>> ELSE IF s[i] \in gone THEN f2[i - 1] ELSE Append(f2[i - 1], s[i])
      <4>1. CASE i = k + 1
        BY <3>3, <4>1
      <4>2. CASE i = 0
        BY <2>3, <3>1, <3>2, <4>2
      <4>3. CASE i # 0 /\ i # k + 1
        <5>1. i \in 0..k /\ i - 1 \in 0..k
          BY <2>3, <4>3
        <5> QED
          BY <3>1, <3>2, <4>3, <5>1
      <4> QED
        BY <4>1, <4>2, <4>3
    <3>5. f2 = [i \in 0..(k + 1) |-> f2[i]]
      BY DEF f2
    <3> QED
      BY <3>3, <3>4, <3>5
  <2>5. r2 \in Seq(S)
    BY <2>1, <2>3
  <2>6. \E h : Chosen(r2, k + 1, s, gone, h)
    <3>1. CASE x \in gone
      <4>1. \A i \in 1..k + 1 : i \in 1..k \/ i = k + 1
        BY <2>3
      <4>2. 1..k \subseteq 1..k + 1
        BY <2>3
      <4>3. Chosen(r, k + 1, s, gone, g)
        BY <2>2, <3>1, <4>1, <4>2 DEF Chosen
      <4> QED
        BY <3>1, <4>3
    <3>2. CASE x \notin gone
      <4> DEFINE h == [i \in 1..(Len(r) + 1) |-> IF i = Len(r) + 1 THEN k + 1 ELSE g[i]]
      <4>1. /\ Len(r2) = Len(r) + 1 /\ r2[Len(r) + 1] = x
            /\ \A i \in 1..Len(r) : r2[i] = r[i]
        BY <2>1, <2>3, <3>2, AppendFacts
      <4>2. /\ h[Len(r) + 1] = k + 1 /\ \A i \in 1..Len(r) : h[i] = g[i] /\ g[i] \in 1..k /\ i # Len(r) + 1
        <5>1. g \in [1..Len(r) -> 1..k]
          BY <2>2 DEF Chosen
        <5>2. Len(r) + 1 \in 1..(Len(r) + 1) /\ \A i \in 1..Len(r) : i \in 1..(Len(r) + 1) /\ i # Len(r) + 1
          BY <2>3
        <5> HIDE DEF r
        <5> QED
          BY <5>1, <5>2
      <4>3. h \in [1..(Len(r) + 1) -> 1..k + 1]
        <5>1. 1..k \subseteq 1..k + 1 /\ k + 1 \in 1..k + 1
          BY <2>3
        <5>2. \A i \in 1..(Len(r) + 1) : i \in 1..Len(r) \/ i = Len(r) + 1
          BY <2>3
        <5>3. \A i \in 1..(Len(r) + 1) : h[i] \in 1..k + 1
          BY <4>2, <5>1, <5>2
        <5> QED
          BY <5>3
      <4> HIDE DEF h, r2
      <4>4. \A i \in 1..Len(r) + 1 : i \in 1..Len(r) \/ i = Len(r) + 1
        BY <2>3
      <4>5. \A i \in 1..Len(r2) : r2[i] = s[h[i]] /\ r2[i] \notin gone
        BY <2>2, <3>2, <4>1, <4>2, <4>4 DEF Chosen
      <4>6. \A i, j \in 1..Len(r2) : i < j => h[i] < h[j]
        <5> SUFFICES ASSUME NEW i \in 1..Len(r2), NEW j \in 1..Len(r2), i < j PROVE h[i] < h[j]
          OBVIOUS
        <5>1. i \in 1..Len(r)
          BY <2>3, <4>1
        <5>2. CASE j = Len(r) + 1
          BY <2>3, <4>2, <5>1, <5>2
        <5>3. CASE j \in 1..Len(r)
          BY <2>2, <4>2, <5>1, <5>3 DEF Chosen
        <5> QED
          BY <4>1, <4>4, <5>2, <5>3
      <4>7. \A l \in 1..(k + 1) : s[l] \notin gone => \E i \in 1..Len(r2) : h[i] = l
        <5> SUFFICES ASSUME NEW l \in 1..(k + 1), s[l] \notin gone PROVE \E i \in 1..Len(r2) : h[i] = l
          OBVIOUS
        <5>1. CASE l = k + 1
          <6>1. Len(r) + 1 \in 1..Len(r2)
            BY <2>3, <4>1
          <6> QED
            BY <4>2, <5>1, <6>1
        <5>2. CASE l \in 1..k
          <6>1. PICK i \in 1..Len(r) : g[i] = l
            BY <2>2, <5>2 DEF Chosen
          <6>2. i \in 1..Len(r2) /\ h[i] = l
            BY <2>3, <4>1, <4>2, <6>1
          <6> QED
            BY <6>2
        <5> QED
          BY <2>3, <5>1, <5>2
      <4> QED
        BY <4>1, <4>3, <4>5, <4>6, <4>7 DEF Chosen
    <3> QED
      BY <3>1, <3>2
  <2> HIDE DEF f2, r2
  <2>7. KeptTo(f2, k + 1, s, gone)
    BY <2>4 DEF KeptTo
  <2> QED
    BY <2>4, <2>5, <2>6, <2>7
<1> HIDE DEF P
<1>3. ASSUME ~P(n) PROVE FALSE
  <2> DEFINE Bad == {k \in 0..Len(s) : ~P(k)}
  <2>1. Bad \subseteq Nat /\ Bad # {}
    BY <1>3
  <2>2. PICK k \in Bad : \A i \in Bad : k <= i
    BY <2>1, LeastExists
  <2>3. k # 0
    BY <1>1
  <2>4. k - 1 \in 0..Len(s) /\ (k - 1) + 1 = k /\ k \in Nat
    BY <2>3
  <2>5. k - 1 \notin Bad
    BY <2>2, <2>4
  <2>6. P(k - 1)
    BY <2>4, <2>5
  <2>7. P(k)
    BY <1>2, <2>4, <2>6
  <2> QED
    BY <2>2, <2>7
<1> QED
  BY <1>3 DEF P

(* What is left, in the order it had.                                         *)
LEMMA LessChosen ==
  ASSUME NEW S, NEW s \in Seq(S), NEW gone
  PROVE  Less(s, gone) \in Seq(S) /\ \E g : Chosen(Less(s, gone), Len(s), s, gone, g)
<1>1. Len(s) \in 0..Len(s)
  BY LenProperties
<1> DEFINE c == CHOOSE f : KeptTo(f, Len(s), s, gone)
<1>2. Less(s, gone) = c[Len(s)]
  BY DEF Less, KeptTo
<1>3. PICK f : KeptTo(f, Len(s), s, gone) /\ f[Len(s)] \in Seq(S) /\ \E g : Chosen(f[Len(s)], Len(s), s, gone, g)
  BY <1>1, KeepsExists
<1>4. KeptTo(c, Len(s), s, gone)
  BY <1>3
<1> HIDE DEF c
\* There is one such function.
<1>5. ASSUME NEW i \in 0..Len(s) PROVE c[i] = f[i]
  <2> DEFINE Bad == {k \in 0..Len(s) : c[k] # f[k]}
  <2>1. SUFFICES ASSUME Bad # {} PROVE FALSE
    OBVIOUS
  <2>2. PICK k \in Bad : \A j \in Bad : k <= j
    <3>1. Bad \subseteq Nat
      OBVIOUS
    <3> HIDE DEF Bad
    <3> QED
      BY <2>1, <3>1, LeastExists
  <2>3. \A j \in 0..Len(s) : /\ c[j] = IF j = 0 THEN <<>> ELSE IF s[j] \in gone THEN c[j - 1] ELSE Append(c[j - 1], s[j])
                             /\ f[j] = IF j = 0 THEN <<>> ELSE IF s[j] \in gone THEN f[j - 1] ELSE Append(f[j - 1], s[j])
    BY <1>3, <1>4 DEF KeptTo
  <2>4. k # 0
    BY <2>3
  <2>5. k - 1 \in 0..Len(s) /\ ~(k <= k - 1)
    BY <1>1, <2>4
  <2>6. c[k - 1] = f[k - 1]
    BY <2>2, <2>5
  <2> QED
    BY <2>3, <2>4, <2>6
<1> QED
  BY <1>1, <1>2, <1>3, <1>5

LEMMA LessFacts ==
  ASSUME NEW S, NEW s \in Seq(S), NEW gone
  PROVE  LET r == Less(s, gone)
         IN /\ r \in Seq(S) /\ ToSet(r) = ToSet(s) \ gone /\ Len(r) <= Len(s)
            /\ (\E i \in 1..Len(s) : s[i] \in gone) => Len(r) < Len(s)
            /\ IsInjective(s) => IsInjective(r)
            /\ s # <<>> /\ Head(s) \notin gone => r # <<>> /\ Head(r) = Head(s)
<1> DEFINE r == Less(s, gone)
<1>1. PICK g : Chosen(r, Len(s), s, gone, g)
  BY LessChosen
<1>2. r \in Seq(S) /\ Len(r) \in Nat /\ Len(s) \in Nat /\ DOMAIN r = 1..Len(r) /\ DOMAIN s = 1..Len(s)
  BY LessChosen, LenProperties
<1> HIDE DEF r
<1>3. /\ g \in [1..Len(r) -> 1..Len(s)]
      /\ \A i \in 1..Len(r) : r[i] = s[g[i]] /\ r[i] \notin gone
      /\ \A i, j \in 1..Len(r) : i < j => g[i] < g[j]
      /\ \A k \in 1..Len(s) : s[k] \notin gone => \E i \in 1..Len(r) : g[i] = k
  BY <1>1 DEF Chosen
<1>4. \A i, j \in 1..Len(r) : g[i] = g[j] => i = j
  <2> SUFFICES ASSUME NEW i \in 1..Len(r), NEW j \in 1..Len(r), g[i] = g[j], i # j PROVE FALSE
    OBVIOUS
  <2>1. i < j \/ j < i
    BY <1>2
  <2>2. g[i] \in Nat /\ g[j] \in Nat
    BY <1>3
  <2> QED
    BY <1>3, <2>1, <2>2
<1>5. ToSet(r) = ToSet(s) \ gone
  <2>1. /\ ToSet(r) = {r[i] : i \in 1..Len(r)} /\ ToSet(s) = {s[k] : k \in 1..Len(s)}
    BY <1>2 DEF ToSet
  <2>2. \A i \in 1..Len(r) : g[i] \in 1..Len(s)
    BY <1>3
  <2>3. \A x \in ToSet(r) : x \in ToSet(s) \ gone
    BY <1>3, <2>1, <2>2
  <2>4. \A x \in ToSet(s) \ gone : x \in ToSet(r)
    BY <1>3, <2>1
  <2> QED
    BY <2>3, <2>4
<1>6. IsInjective(s) => IsInjective(r)
  BY <1>2, <1>3, <1>4 DEF IsInjective
<1>7. /\ IsFiniteSet(1..Len(r)) /\ Cardinality(1..Len(r)) = Len(r)
      /\ IsFiniteSet(1..Len(s)) /\ Cardinality(1..Len(s)) = Len(s)
  <2>1. \A n \in Nat : IsFiniteSet(1..n) /\ Cardinality(1..n) = n
    <3> SUFFICES ASSUME NEW n \in Nat PROVE IsFiniteSet(1..n) /\ Cardinality(1..n) = n
      OBVIOUS
    <3>1. 1 \in Int /\ n \in Int
      OBVIOUS
    <3>2. IsFiniteSet(1..n) /\ Cardinality(1..n) = IF 1 > n THEN 0 ELSE n - 1 + 1
      BY <3>1, FS_Interval
    <3> QED
      BY <3>2
  <2> QED
    BY <1>2, <2>1
<1>8. Len(r) <= Len(s)
  <2>1. g \in Injection(1..Len(r), 1..Len(s))
    BY <1>3, <1>4 DEF Injection, IsInjective
  <2> QED
    BY <1>7, <2>1, FS_Injection
<1>9. ASSUME NEW k \in 1..Len(s), s[k] \in gone PROVE Len(r) < Len(s)
  <2>1. g \in Injection(1..Len(r), (1..Len(s)) \ {k})
    <3>1. \A i \in 1..Len(r) : g[i] \in (1..Len(s)) \ {k}
      BY <1>3, <1>9
    <3>2. g \in [1..Len(r) -> (1..Len(s)) \ {k}]
      BY <1>3, <3>1
    <3> QED
      BY <1>4, <3>2 DEF Injection, IsInjective
  <2>2. IsFiniteSet((1..Len(s)) \ {k}) /\ Cardinality((1..Len(s)) \ {k}) = Len(s) - 1
    BY <1>7, FS_RemoveElement
  <2>3. Len(r) <= Len(s) - 1
    BY <1>7, <2>1, <2>2, FS_Injection
  <2> QED
    BY <1>2, <2>3
<1>10. ASSUME s # <<>>, Head(s) \notin gone PROVE r # <<>> /\ Head(r) = Head(s)
  <2>1. 1 \in 1..Len(s) /\ Head(s) = s[1]
    BY <1>2, <1>10, EmptySeq
  <2>2. PICK i \in 1..Len(r) : g[i] = 1
    BY <1>3, <1>10, <2>1
  <2>3. 1 \in 1..Len(r) /\ g[1] \in 1..Len(s)
    BY <1>2, <1>3, <2>2
  <2>4. i = 1
    <3>1. i # 1 => 1 < i
      BY <2>2
    <3>2. ~(g[1] < 1)
      BY <2>3
    <3> QED
      BY <1>3, <2>2, <2>3, <3>1, <3>2
  <2>5. r[1] = s[1] /\ r # <<>> /\ Head(r) = r[1]
    BY <1>2, <1>3, <2>2, <2>3, <2>4
  <2> QED
    BY <2>1, <2>5
<1> QED
  BY <1>2, <1>5, <1>6, <1>8, <1>9, <1>10 DEF r

LEMMA ContainsSet ==
  ASSUME NEW S, NEW s \in Seq(S), NEW x
  PROVE  Contains(s, x) <=> x \in ToSet(s)
BY DEF Contains, ToSet

-----------------------------------------------------------------------------
(* The batcher.  Its callers are in the line once each and have neither       *)
(* left nor come twice; the queue is empty while a batch is on its way.        *)
BatchUsers == Askers \cup {Timer, Flusher}
BatcherType == [queue : Seq(Askers), line : Seq(BatchUsers), sending : Seq(Askers),
                timer : {"none", "sleeping", "awake"}]
BatchTypes(b, a, l) ==
    /\ b \in BatcherType
    /\ a \in [Askers -> {"new", "locking", "waiting", "result", "failed", "gone"}]
    /\ l \in [answers : [Askers -> {"none", "result", "failed"}], stranded : SUBSET Askers, flushes : Nat]
LineTrue(b, a) ==
    /\ IsInjective(b.line)
    /\ b.sending # <<>> => b.line # <<>> /\ b.queue = <<>>
    /\ b.queue # <<>> => b.timer # "none"
    /\ b.timer = "awake" <=> Timer \in ToSet(b.line)
    /\ Len(b.queue) < MaxBatch /\ Len(b.sending) <= MaxBatch
    /\ \A r \in Askers : r \in ToSet(b.line) => a[r] \notin {"new", "gone"}
Waited(b, a, l) ==
    /\ \A r \in Askers : a[r] = "waiting" =>
          r \in ToSet(b.queue) \cup ToSet(b.sending) \cup l.stranded
    /\ \A r \in Askers : a[r] = "failed" /\ l.answers[r] = "result" =>
          \E other \in Askers : a[other] = "gone"
BatchInv == BatchTypes(batcher, asker, batchLog) /\ LineTrue(batcher, asker) /\ Waited(batcher, asker, batchLog)

LEMMA EmptyFacts == ToSet(<<>>) = {} /\ IsInjective(<<>>) /\ Len(<<>>) = 0
BY DEF ToSet, IsInjective

LEMMA BatchInitially == BatchInit => BatchInv
<1> SUFFICES ASSUME BatchInit PROVE BatchInv
  OBVIOUS
<1>1. /\ batcher.queue = <<>> /\ batcher.line = <<>> /\ batcher.sending = <<>> /\ batcher.timer = "none"
      /\ batcher \in BatcherType
  BY DEF BatchInit, BatcherType
<1>2. BatchTypes(batcher, asker, batchLog)
  BY <1>1 DEF BatchInit, BatchTypes
<1>3. LineTrue(batcher, asker)
  BY <1>1, EmptyFacts, PerformanceAssumption DEF LineTrue
<1>4. Waited(batcher, asker, batchLog)
  BY DEF Waited, BatchInit
<1> QED
  BY <1>2, <1>3, <1>4 DEF BatchInv

\* The lists of the batcher, and who is where.
LEMMA BatchParts ==
  ASSUME BatchInv
  PROVE  /\ batcher.queue \in Seq(Askers) /\ batcher.line \in Seq(BatchUsers)
         /\ batcher.sending \in Seq(Askers) /\ batcher.timer \in {"none", "sleeping", "awake"}
         /\ Len(batcher.queue) \in Nat /\ MaxBatch \in Nat /\ MaxBatch >= 1
         /\ Timer \notin Askers /\ Flusher \notin Askers /\ Timer # Flusher
         /\ Timer \in BatchUsers /\ Flusher \in BatchUsers /\ Askers \subseteq BatchUsers
BY PerformanceAssumption, LenProperties DEF BatchInv, BatchTypes, BatcherType, BatchUsers

\* The sender leaves the line, or one of the others: what it means for those
\* who stay.
LEMMA HeadLeaves ==
  ASSUME BatchInv, batcher.line # <<>>
  PROVE  /\ Tail(batcher.line) \in Seq(BatchUsers) /\ IsInjective(Tail(batcher.line))
         /\ ToSet(Tail(batcher.line)) = ToSet(batcher.line) \ {Head(batcher.line)}
         /\ Head(batcher.line) \in ToSet(batcher.line)
<1>1. batcher.line \in Seq(BatchUsers) /\ IsInjective(batcher.line)
  BY BatchParts DEF BatchInv, LineTrue
<1>2. /\ Tail(batcher.line) \in Seq(BatchUsers)
      /\ ToSet(batcher.line) = {Head(batcher.line)} \cup ToSet(Tail(batcher.line))
      /\ IsInjective(Tail(batcher.line)) /\ Head(batcher.line) \notin ToSet(Tail(batcher.line))
  BY <1>1, TailFacts
<1> QED
  BY <1>2

\* Who comes joins the line at its end.
LEMMA Joins ==
  ASSUME BatchInv, NEW x \in BatchUsers, x \notin ToSet(batcher.line)
  PROVE  LET line == Append(batcher.line, x)
         IN /\ line \in Seq(BatchUsers) /\ IsInjective(line) /\ line # <<>>
            /\ ToSet(line) = ToSet(batcher.line) \cup {x}
<1>1. batcher.line \in Seq(BatchUsers) /\ IsInjective(batcher.line)
  BY BatchParts DEF BatchInv, LineTrue
<1> DEFINE line == Append(batcher.line, x)
<1>2. /\ line \in Seq(BatchUsers) /\ IsInjective(line)
      /\ ToSet(line) = ToSet(batcher.line) \cup {x} /\ Len(line) = Len(batcher.line) + 1
  BY <1>1, AppendFacts
<1>3. line # <<>>
  BY <1>1, <1>2, LenProperties, EmptyFacts
<1> QED
  BY <1>2, <1>3

LEMMA BatchAdds == ASSUME BatchInv, NEW r \in Askers, AddRequest(r) PROVE BatchInv'
<1>1. /\ asker[r] = "new" /\ asker' = [asker EXCEPT ![r] = "locking"] /\ batchLog' = batchLog
      /\ batcher' = [batcher EXCEPT !.line = Append(batcher.line, r)]
  BY DEF AddRequest, Lines
<1>2. r \notin ToSet(batcher.line) /\ r \in BatchUsers /\ r # Timer
  BY <1>1, BatchParts DEF BatchInv, LineTrue
<1> DEFINE line == Append(batcher.line, r)
<1>3. /\ line \in Seq(BatchUsers) /\ IsInjective(line) /\ line # <<>>
      /\ ToSet(line) = ToSet(batcher.line) \cup {r}
  BY <1>2, Joins
<1> HIDE DEF line
<1>4. /\ batcher'.line = line /\ batcher'.queue = batcher.queue /\ batcher'.sending = batcher.sending
      /\ batcher'.timer = batcher.timer /\ batcher' \in BatcherType
  BY <1>1, <1>3 DEF BatchInv, BatchTypes, BatcherType, line
<1>5. \A q \in Askers : asker'[q] = IF q = r THEN "locking" ELSE asker[q]
  BY <1>1 DEF BatchInv, BatchTypes
<1>6. BatchTypes(batcher', asker', batchLog')
  BY <1>1, <1>4 DEF BatchInv, BatchTypes
<1>7. LineTrue(batcher', asker')
  BY <1>2, <1>3, <1>4, <1>5 DEF BatchInv, LineTrue
<1>8. Waited(batcher', asker', batchLog')
  <2>1. \A q \in Askers : asker[q] = "gone" => asker'[q] = "gone"
    BY <1>1, <1>5
  <2> QED
    BY <1>1, <1>4, <1>5, <2>1 DEF BatchInv, Waited
<1> QED
  BY <1>6, <1>7, <1>8 DEF BatchInv

LEMMA BatchEnters == ASSUME BatchInv, NEW r \in Askers, EnterRequest(r) PROVE BatchInv'
<1> DEFINE longer == Append(batcher.queue, r)
           rest == Tail(batcher.line)
<1>1. /\ batcher.line # <<>> /\ Head(batcher.line) = r /\ batcher.sending = <<>>
      /\ asker' = [asker EXCEPT ![r] = "waiting"] /\ batchLog' = batchLog
      /\ batcher' = IF Len(longer) >= MaxBatch
                    THEN [batcher EXCEPT !.queue = <<>>, !.sending = longer]
                    ELSE [batcher EXCEPT !.queue = longer, !.line = rest,
                                         !.timer = IF batcher.timer = "none" THEN "sleeping" ELSE batcher.timer]
  BY DEF EnterRequest, HoldsLock
<1>2. /\ longer \in Seq(Askers) /\ Len(longer) = Len(batcher.queue) + 1
      /\ ToSet(longer) = ToSet(batcher.queue) \cup {r}
  BY BatchParts, AppendFacts
<1>3. /\ rest \in Seq(BatchUsers) /\ IsInjective(rest) /\ ToSet(rest) = ToSet(batcher.line) \ {r}
      /\ r \in ToSet(batcher.line) /\ r # Timer
  BY <1>1, BatchParts, HeadLeaves
<1> HIDE DEF longer, rest
<1>4. \A q \in Askers : asker'[q] = IF q = r THEN "waiting" ELSE asker[q]
  BY <1>1 DEF BatchInv, BatchTypes
<1>5. asker[r] # "gone" /\ Len(batcher.queue) < MaxBatch
  BY <1>3 DEF BatchInv, LineTrue
<1>6. \A q \in Askers : asker[q] = "gone" => asker'[q] = "gone"
  BY <1>4, <1>5
<1>7. CASE Len(longer) >= MaxBatch
  <2>1. /\ batcher'.queue = <<>> /\ batcher'.line = batcher.line /\ batcher'.sending = longer
        /\ batcher'.timer = batcher.timer /\ batcher' \in BatcherType
    BY <1>1, <1>2, <1>7 DEF BatchInv, BatchTypes, BatcherType
  <2>2. BatchTypes(batcher', asker', batchLog')
    BY <1>1, <2>1 DEF BatchInv, BatchTypes
  <2>3. Len(longer) <= MaxBatch /\ 0 < MaxBatch
    BY <1>2, <1>5, BatchParts
  <2>4. LineTrue(batcher', asker')
    BY <1>1, <1>4, <2>1, <2>3, EmptyFacts DEF BatchInv, LineTrue
  <2>5. Waited(batcher', asker', batchLog')
    BY <1>1, <1>2, <1>4, <1>6, <2>1, EmptyFacts DEF BatchInv, Waited
  <2> QED
    BY <2>2, <2>4, <2>5 DEF BatchInv
<1>8. CASE ~(Len(longer) >= MaxBatch)
  <2> DEFINE timer == IF batcher.timer = "none" THEN "sleeping" ELSE batcher.timer
  <2>1. /\ batcher'.queue = longer /\ batcher'.line = rest /\ batcher'.sending = batcher.sending
        /\ batcher'.timer = timer /\ batcher' \in BatcherType
    BY <1>1, <1>2, <1>3, <1>8 DEF BatchInv, BatchTypes, BatcherType
  <2>2. BatchTypes(batcher', asker', batchLog')
    BY <1>1, <2>1 DEF BatchInv, BatchTypes
  <2>3. Len(longer) < MaxBatch
    BY <1>2, <1>8, BatchParts
  <2>4. LineTrue(batcher', asker')
    BY <1>1, <1>3, <1>4, <2>1, <2>3 DEF BatchInv, LineTrue
  <2>5. Waited(batcher', asker', batchLog')
    BY <1>1, <1>2, <1>4, <1>6, <2>1, EmptyFacts DEF BatchInv, Waited
  <2> QED
    BY <2>2, <2>4, <2>5 DEF BatchInv
<1> QED
  BY <1>7, <1>8

LEMMA BatchTimerWakes == ASSUME BatchInv, TimerWakes PROVE BatchInv'
<1> DEFINE line == Append(batcher.line, Timer)
<1>1. /\ batcher.timer = "sleeping" /\ asker' = asker /\ batchLog' = batchLog
      /\ batcher' = [batcher EXCEPT !.timer = "awake", !.line = line]
  BY DEF TimerWakes
<1>2. Timer \notin ToSet(batcher.line) /\ Timer \in BatchUsers /\ Timer \notin Askers
  BY <1>1, BatchParts DEF BatchInv, LineTrue
<1>3. /\ line \in Seq(BatchUsers) /\ IsInjective(line) /\ line # <<>>
      /\ ToSet(line) = ToSet(batcher.line) \cup {Timer}
  BY <1>2, Joins
<1> HIDE DEF line
<1>4. /\ batcher'.line = line /\ batcher'.queue = batcher.queue /\ batcher'.sending = batcher.sending
      /\ batcher'.timer = "awake" /\ batcher' \in BatcherType
  BY <1>1, <1>3 DEF BatchInv, BatchTypes, BatcherType
<1>5. BatchTypes(batcher', asker', batchLog')
  BY <1>1, <1>4 DEF BatchInv, BatchTypes
<1>6. LineTrue(batcher', asker')
  BY <1>1, <1>2, <1>3, <1>4 DEF BatchInv, LineTrue
<1>7. Waited(batcher', asker', batchLog')
  BY <1>1, <1>4 DEF BatchInv, Waited
<1> QED
  BY <1>5, <1>6, <1>7 DEF BatchInv

LEMMA BatchFlushAsked == ASSUME BatchInv, FlushPending PROVE BatchInv'
<1> DEFINE line == Append(batcher.line, Flusher)
<1>1. /\ ~Contains(batcher.line, Flusher) /\ asker' = asker
      /\ batchLog' = [batchLog EXCEPT !.flushes = batchLog.flushes + 1]
      /\ batcher' = [batcher EXCEPT !.line = line]
  BY DEF FlushPending, Lines
<1>2. Flusher \notin ToSet(batcher.line) /\ Flusher \in BatchUsers /\ Flusher \notin Askers /\ Flusher # Timer
  BY <1>1, BatchParts, ContainsSet
<1>3. /\ line \in Seq(BatchUsers) /\ IsInjective(line) /\ line # <<>>
      /\ ToSet(line) = ToSet(batcher.line) \cup {Flusher}
  BY <1>2, Joins
<1> HIDE DEF line
<1>4. /\ batcher'.line = line /\ batcher'.queue = batcher.queue /\ batcher'.sending = batcher.sending
      /\ batcher'.timer = batcher.timer /\ batcher' \in BatcherType
  BY <1>1, <1>3 DEF BatchInv, BatchTypes, BatcherType
<1>5. batchLog'.answers = batchLog.answers /\ batchLog'.stranded = batchLog.stranded
  BY <1>1 DEF BatchInv, BatchTypes
<1>6. BatchTypes(batcher', asker', batchLog')
  BY <1>1, <1>4 DEF BatchInv, BatchTypes
<1>7. LineTrue(batcher', asker')
  BY <1>1, <1>2, <1>3, <1>4 DEF BatchInv, LineTrue
<1>8. Waited(batcher', asker', batchLog')
  BY <1>1, <1>4, <1>5 DEF BatchInv, Waited
<1> QED
  BY <1>6, <1>7, <1>8 DEF BatchInv

\* The queue goes into the batch, under the lock of one whose place is kept;
\* with nothing queued the lock is given up.
LEMMA Flushed ==
  ASSUME BatchInv, batcher.sending = <<>>, asker' = asker, batchLog' = batchLog,
         NEW line \in Seq(BatchUsers), IsInjective(line), ToSet(line) \subseteq ToSet(batcher.line), line # <<>>,
         NEW timer \in {"none", "sleeping", "awake"}, timer = "awake" <=> Timer \in ToSet(line),
         batcher' = [queue |-> <<>>, line |-> line, sending |-> batcher.queue, timer |-> timer]
  PROVE  BatchInv'
<1>1. /\ batcher'.queue = <<>> /\ batcher'.line = line /\ batcher'.sending = batcher.queue
      /\ batcher'.timer = timer /\ batcher' \in BatcherType
  BY BatchParts DEF BatcherType
<1>2. BatchTypes(batcher', asker', batchLog')
  BY <1>1 DEF BatchInv, BatchTypes
<1>3. Len(batcher.queue) <= MaxBatch /\ 0 < MaxBatch
  BY BatchParts DEF BatchInv, LineTrue
<1>4. LineTrue(batcher', asker')
  BY <1>1, <1>3, EmptyFacts DEF BatchInv, LineTrue
<1>5. Waited(batcher', asker', batchLog')
  BY <1>1, EmptyFacts DEF BatchInv, Waited
<1> QED
  BY <1>2, <1>4, <1>5 DEF BatchInv

LEMMA NothingFlushed ==
  ASSUME BatchInv, batcher.sending = <<>>, batcher.queue = <<>>, asker' = asker, batchLog' = batchLog,
         NEW line \in Seq(BatchUsers), IsInjective(line), ToSet(line) \subseteq ToSet(batcher.line),
         Timer \notin ToSet(line),
         batcher' = [queue |-> <<>>, line |-> line, sending |-> <<>>, timer |-> "none"]
  PROVE  BatchInv'
<1>1. /\ batcher'.queue = batcher.queue /\ batcher'.line = line /\ batcher'.sending = batcher.sending
      /\ batcher'.timer = "none" /\ batcher' \in BatcherType
  BY BatchParts DEF BatcherType
<1>2. BatchTypes(batcher', asker', batchLog')
  BY <1>1 DEF BatchInv, BatchTypes
<1>3. LineTrue(batcher', asker')
  BY <1>1 DEF BatchInv, LineTrue
<1>4. Waited(batcher', asker', batchLog')
  BY <1>1 DEF BatchInv, Waited
<1> QED
  BY <1>2, <1>3, <1>4 DEF BatchInv

LEMMA BatchTimerEnters == ASSUME BatchInv, TimerEnters PROVE BatchInv'
<1>1. /\ batcher.line # <<>> /\ Head(batcher.line) = Timer /\ batcher.sending = <<>>
      /\ asker' = asker /\ batchLog' = batchLog
      /\ batcher' = IF batcher.queue # <<>> THEN [batcher EXCEPT !.queue = <<>>, !.sending = batcher.queue]
                    ELSE [batcher EXCEPT !.line = Tail(batcher.line), !.timer = "none"]
  BY DEF TimerEnters, HoldsLock, Flushing
<1>2. batcher = [queue |-> batcher.queue, line |-> batcher.line, sending |-> batcher.sending, timer |-> batcher.timer]
  BY DEF BatchInv, BatchTypes, BatcherType
<1>3. CASE batcher.queue # <<>>
  <2>1. batcher' = [queue |-> <<>>, line |-> batcher.line, sending |-> batcher.queue, timer |-> batcher.timer]
    BY <1>1, <1>2, <1>3
  <2>2. /\ batcher.line \in Seq(BatchUsers) /\ IsInjective(batcher.line)
        /\ batcher.timer \in {"none", "sleeping", "awake"}
        /\ batcher.timer = "awake" <=> Timer \in ToSet(batcher.line)
        /\ ToSet(batcher.line) \subseteq ToSet(batcher.line)
    BY BatchParts DEF BatchInv, LineTrue
  <2> QED
    BY <1>1, <2>1, <2>2, Flushed
<1>4. CASE batcher.queue = <<>>
  <2>1. batcher' = [queue |-> <<>>, line |-> Tail(batcher.line), sending |-> <<>>, timer |-> "none"]
    BY <1>1, <1>2, <1>4
  <2>2. /\ Tail(batcher.line) \in Seq(BatchUsers) /\ IsInjective(Tail(batcher.line))
        /\ ToSet(Tail(batcher.line)) \subseteq ToSet(batcher.line) /\ Timer \notin ToSet(Tail(batcher.line))
    BY <1>1, HeadLeaves
  <2> QED
    BY <1>1, <1>4, <2>1, <2>2, NothingFlushed
<1> QED
  BY <1>3, <1>4

LEMMA BatchFlushEnters == ASSUME BatchInv, FlushEnters PROVE BatchInv'
<1> DEFINE line == Less(batcher.line, {Timer})
<1>1. /\ batcher.line # <<>> /\ Head(batcher.line) = Flusher /\ batcher.sending = <<>>
      /\ asker' = asker /\ batchLog' = batchLog
      /\ LET alone == [batcher EXCEPT !.timer = "none", !.line = line]
         IN batcher' = IF batcher.queue # <<>> THEN [alone EXCEPT !.queue = <<>>, !.sending = alone.queue]
                       ELSE [alone EXCEPT !.line = Tail(alone.line)]
  BY DEF FlushEnters, HoldsLock, Flushing
<1>2. batcher = [queue |-> batcher.queue, line |-> batcher.line, sending |-> batcher.sending, timer |-> batcher.timer]
  BY DEF BatchInv, BatchTypes, BatcherType
<1>3. /\ line \in Seq(BatchUsers) /\ ToSet(line) = ToSet(batcher.line) \ {Timer} /\ IsInjective(line)
      /\ line # <<>> /\ Head(line) = Flusher
  <2>1. /\ batcher.line \in Seq(BatchUsers) /\ IsInjective(batcher.line) /\ Head(batcher.line) \notin {Timer}
    BY <1>1, BatchParts DEF BatchInv, LineTrue
  <2> QED
    BY <1>1, <2>1, LessFacts
<1> HIDE DEF line
<1>4. CASE batcher.queue # <<>>
  <2>1. batcher' = [queue |-> <<>>, line |-> line, sending |-> batcher.queue, timer |-> "none"]
    BY <1>1, <1>2, <1>4
  <2>2. ToSet(line) \subseteq ToSet(batcher.line) /\ ("none" = "awake" <=> Timer \in ToSet(line))
    BY <1>3
  <2> QED
    BY <1>1, <1>3, <2>1, <2>2, Flushed
<1>5. CASE batcher.queue = <<>>
  <2>1. batcher' = [queue |-> <<>>, line |-> Tail(line), sending |-> <<>>, timer |-> "none"]
    BY <1>1, <1>2, <1>5
  <2>2. /\ Tail(line) \in Seq(BatchUsers) /\ IsInjective(Tail(line)) /\ ToSet(line) = {Flusher} \cup ToSet(Tail(line))
    BY <1>3, TailFacts
  <2>3. ToSet(Tail(line)) \subseteq ToSet(batcher.line) /\ Timer \notin ToSet(Tail(line))
    BY <1>3, <2>2
  <2> QED
    BY <1>1, <1>5, <2>1, <2>2, <2>3, NothingFlushed
<1> QED
  BY <1>4, <1>5

\* What the answers of a batch make of its requests: those that have left stay
\* away, the others get theirs, or the error of the batch.
LEMMA AnswersHandedOut ==
  ASSUME BatchInv, NEW given \in [ToSet(batcher.sending) -> {"result", "failed"}],
         NEW answers, answers = [r \in Askers |-> IF r \in DOMAIN given THEN given[r] ELSE batchLog.answers[r]]
  PROVE  /\ answers \in [Askers -> {"none", "result", "failed"}]
         /\ HandedOut(answers) \in [Askers -> {"new", "locking", "waiting", "result", "failed", "gone"}]
         /\ \A r \in Askers : HandedOut(answers)[r] \in {"new", "gone"} => HandedOut(answers)[r] = asker[r]
         /\ \A r \in Askers : asker[r] = "gone" => HandedOut(answers)[r] = "gone"
         /\ \A r \in Askers : HandedOut(answers)[r] = "waiting" =>
               r \notin ToSet(batcher.sending) /\ asker[r] = "waiting"
         /\ \A r \in Askers : HandedOut(answers)[r] = "failed" /\ answers[r] = "result" =>
               \E other \in Askers : asker[other] = "gone"
<1> DEFINE sent == batcher.sending
           broken == {i \in DOMAIN sent : asker[sent[i]] = "gone"}
           Got(r) == \E i \in DOMAIN sent : sent[i] = r /\ asker[r] # "gone"
           Late(r) == \E i \in DOMAIN sent : sent[i] = r /\ \E b \in broken : b < i
<1>1. /\ sent \in Seq(Askers) /\ \A i \in DOMAIN sent : sent[i] \in Askers
      /\ ToSet(sent) = {sent[i] : i \in DOMAIN sent}
  BY BatchParts DEF ToSet
<1>2. /\ asker \in [Askers -> {"new", "locking", "waiting", "result", "failed", "gone"}]
      /\ batchLog.answers \in [Askers -> {"none", "result", "failed"}]
  BY DEF BatchInv, BatchTypes
<1>3. HandedOut(answers) = [r \in Askers |-> IF Got(r) THEN IF Late(r) THEN "failed" ELSE answers[r] ELSE asker[r]]
  BY DEF HandedOut
<1>4. /\ \A r \in Askers : Got(r) => r \in ToSet(sent) /\ asker[r] # "gone"
      /\ \A r \in ToSet(sent) : asker[r] # "gone" => Got(r)
      /\ \A r \in Askers : Late(r) => \E other \in Askers : asker[other] = "gone"
  BY <1>1
<1> HIDE DEF sent, Got, Late, broken
<1>5. \A r \in Askers : answers[r] = IF r \in ToSet(sent) THEN given[r] ELSE batchLog.answers[r]
  BY DEF sent
<1>6. \A r \in ToSet(sent) : given[r] \in {"result", "failed"}
  BY DEF sent
<1>7. answers \in [Askers -> {"none", "result", "failed"}]
  BY <1>2, <1>5, <1>6
<1>8. \A r \in Askers : HandedOut(answers)[r] = IF Got(r) THEN IF Late(r) THEN "failed" ELSE answers[r] ELSE asker[r]
  BY <1>3
<1>9. \A r \in Askers : Got(r) => answers[r] \in {"result", "failed"}
  BY <1>4, <1>5, <1>6
<1>10. \A r \in Askers : HandedOut(answers)[r] \in {"new", "locking", "waiting", "result", "failed", "gone"}
  BY <1>2, <1>8, <1>9
<1>11. HandedOut(answers) \in [Askers -> {"new", "locking", "waiting", "result", "failed", "gone"}]
  BY <1>3, <1>10
<1>12. \A r \in Askers : HandedOut(answers)[r] \in {"new", "gone"} => HandedOut(answers)[r] = asker[r]
  BY <1>8, <1>9
<1>13. \A r \in Askers : asker[r] = "gone" => HandedOut(answers)[r] = "gone"
  BY <1>4, <1>8
<1>14. \A r \in Askers : HandedOut(answers)[r] = "waiting" => r \notin ToSet(sent) /\ asker[r] = "waiting"
  BY <1>4, <1>8, <1>9
<1>15. ASSUME NEW r \in Askers, HandedOut(answers)[r] = "failed", answers[r] = "result"
       PROVE  \E other \in Askers : asker[other] = "gone"
  <2>1. CASE Got(r)
    BY <1>4, <1>8, <1>15, <2>1
  <2>2. CASE ~Got(r)
    <3>1. asker[r] = "failed"
      BY <1>8, <1>15, <2>2
    <3>2. r \notin ToSet(sent)
      BY <1>4, <2>2, <3>1
    <3>3. batchLog.answers[r] = "result"
      BY <1>5, <1>15, <3>2
    <3> QED
      BY <3>1, <3>3 DEF BatchInv, Waited
  <2> QED
    BY <2>1, <2>2
<1> QED
  BY <1>7, <1>11, <1>12, <1>13, <1>14, <1>15 DEF sent

\* The lock passes on; what the timer was is over when it was the sender.
LEMMA LockPasses ==
  ASSUME BatchInv, batcher.sending # <<>>, batcher' = LockFreed(batcher)
  PROVE  /\ batcher' \in BatcherType
         /\ batcher'.queue = <<>> /\ batcher'.sending = <<>>
         /\ IsInjective(batcher'.line) /\ batcher'.line = Tail(batcher.line)
         /\ ToSet(batcher'.line) = ToSet(batcher.line) \ {Head(batcher.line)}
         /\ batcher'.timer = "awake" <=> Timer \in ToSet(batcher'.line)
         /\ 0 < MaxBatch
<1> DEFINE timer == IF Head(batcher.line) = Timer THEN "none" ELSE batcher.timer
<1>1. batcher.line # <<>> /\ batcher.queue = <<>> /\ (batcher.timer = "awake" <=> Timer \in ToSet(batcher.line))
  BY DEF BatchInv, LineTrue
<1>2. batcher' = [batcher EXCEPT !.sending = <<>>, !.line = Tail(batcher.line), !.timer = timer]
  BY DEF LockFreed
<1>3. /\ Tail(batcher.line) \in Seq(BatchUsers) /\ IsInjective(Tail(batcher.line))
      /\ ToSet(Tail(batcher.line)) = ToSet(batcher.line) \ {Head(batcher.line)}
  BY <1>1, HeadLeaves
<1>4. timer \in {"none", "sleeping", "awake"}
  BY BatchParts
<1>5. timer = "awake" <=> Timer \in ToSet(Tail(batcher.line))
  BY <1>1, <1>3
<1> HIDE DEF timer
<1> DEFINE line == Tail(batcher.line)
<1>6. /\ batcher'.queue = batcher.queue /\ batcher'.line = line /\ batcher'.sending = <<>>
      /\ batcher'.timer = timer /\ batcher' \in BatcherType
  <2>1. batcher' = [batcher EXCEPT !.sending = <<>>, !.line = line, !.timer = timer] /\ line \in Seq(BatchUsers)
    BY <1>2, <1>3
  <2>2. batcher \in BatcherType /\ <<>> \in Seq(Askers)
    BY DEF BatchInv, BatchTypes
  <2> HIDE DEF line
  <2> QED
    BY <1>4, <2>1, <2>2 DEF BatcherType
<1> QED
  BY <1>1, <1>3, <1>5, <1>6, BatchParts

LEMMA BatchIsAnswered == ASSUME BatchInv, BatchAnswered PROVE BatchInv'
<1>1. batcher.sending # <<>> /\ batcher' = LockFreed(batcher)
  BY DEF BatchAnswered
<1>2. PICK given \in [ToSet(batcher.sending) -> {"result", "failed"}] :
        LET answers == [r \in Askers |-> IF r \in DOMAIN given THEN given[r] ELSE batchLog.answers[r]]
        IN batchLog' = [batchLog EXCEPT !.answers = answers] /\ asker' = HandedOut(answers)
  BY DEF BatchAnswered
<1> DEFINE answers == [r \in Askers |-> IF r \in DOMAIN given THEN given[r] ELSE batchLog.answers[r]]
<1>3. /\ answers \in [Askers -> {"none", "result", "failed"}]
      /\ HandedOut(answers) \in [Askers -> {"new", "locking", "waiting", "result", "failed", "gone"}]
      /\ \A r \in Askers : HandedOut(answers)[r] \in {"new", "gone"} => HandedOut(answers)[r] = asker[r]
      /\ \A r \in Askers : asker[r] = "gone" => HandedOut(answers)[r] = "gone"
      /\ \A r \in Askers : HandedOut(answers)[r] = "waiting" =>
            r \notin ToSet(batcher.sending) /\ asker[r] = "waiting"
      /\ \A r \in Askers : HandedOut(answers)[r] = "failed" /\ answers[r] = "result" =>
            \E other \in Askers : asker[other] = "gone"
  BY AnswersHandedOut
<1>4. batchLog' = [batchLog EXCEPT !.answers = answers] /\ asker' = HandedOut(answers)
  BY <1>2
<1> HIDE DEF answers
<1>5. batchLog'.answers = answers /\ batchLog'.stranded = batchLog.stranded
  BY <1>4 DEF BatchInv, BatchTypes
<1>6. /\ batcher' \in BatcherType
      /\ batcher'.queue = <<>> /\ batcher'.sending = <<>> /\ IsInjective(batcher'.line)
      /\ ToSet(batcher'.line) \subseteq ToSet(batcher.line)
      /\ batcher'.timer = "awake" <=> Timer \in ToSet(batcher'.line)
      /\ 0 < MaxBatch
  BY <1>1, LockPasses
<1>7. BatchTypes(batcher', asker', batchLog')
  BY <1>3, <1>4, <1>6 DEF BatchInv, BatchTypes
<1>8. LineTrue(batcher', asker')
  <2>1. \A r \in Askers : r \in ToSet(batcher'.line) => asker'[r] \notin {"new", "gone"}
    BY <1>3, <1>4, <1>6 DEF BatchInv, LineTrue
  <2> QED
    BY <1>6, <2>1, EmptyFacts, BatchParts DEF LineTrue
<1>9. Waited(batcher', asker', batchLog')
  <2>1. \A r \in Askers : asker'[r] = "waiting" => r \in batchLog.stranded
    <3>1. batcher.queue = <<>>
      BY <1>1 DEF BatchInv, LineTrue
    <3> QED
      BY <1>3, <1>4, <3>1, EmptyFacts DEF BatchInv, Waited
  <2>2. \A r \in Askers : asker'[r] = "failed" /\ batchLog'.answers[r] = "result" =>
            \E other \in Askers : asker'[other] = "gone"
    BY <1>3, <1>4, <1>5
  <2> QED
    BY <1>5, <2>1, <2>2 DEF Waited
<1> QED
  BY <1>7, <1>8, <1>9 DEF BatchInv

LEMMA BatchLeaves == ASSUME BatchInv, NEW r \in Askers, AskerGivesUp(r) PROVE BatchInv'
<1>1. asker[r] \in {"locking", "waiting"} /\ asker' = [asker EXCEPT ![r] = "gone"]
  BY DEF AskerGivesUp
<1>2. \A q \in Askers : asker'[q] = IF q = r THEN "gone" ELSE asker[q]
  BY <1>1 DEF BatchInv, BatchTypes
<1>3. r # Timer /\ r \in BatchUsers
  BY BatchParts
<1>4. CASE batcher.line # <<>> /\ Head(batcher.line) = r /\ batcher.sending # <<>>
  <2>1. /\ batcher' = LockFreed(batcher)
        /\ batchLog' = [batchLog EXCEPT !.stranded = batchLog.stranded \cup ToSet(batcher.sending)]
    BY <1>4 DEF AskerGivesUp
  <2>2. /\ batcher' \in BatcherType
        /\ batcher'.queue = <<>> /\ batcher'.sending = <<>> /\ IsInjective(batcher'.line)
        /\ ToSet(batcher'.line) = ToSet(batcher.line) \ {r}
        /\ batcher'.timer = "awake" <=> Timer \in ToSet(batcher'.line)
        /\ 0 < MaxBatch
    BY <1>4, <2>1, LockPasses
  <2>3. ToSet(batcher.sending) \subseteq Askers
    <3>1. \A i \in DOMAIN batcher.sending : batcher.sending[i] \in Askers
      BY BatchParts
    <3> QED
      BY <3>1 DEF ToSet
  <2>4. /\ batchLog'.answers = batchLog.answers
        /\ batchLog'.stranded = batchLog.stranded \cup ToSet(batcher.sending)
    BY <2>1 DEF BatchInv, BatchTypes
  <2>5. BatchTypes(batcher', asker', batchLog')
    BY <1>1, <2>1, <2>2, <2>3 DEF BatchInv, BatchTypes
  <2>6. LineTrue(batcher', asker')
    BY <1>2, <2>2, EmptyFacts, BatchParts DEF BatchInv, LineTrue
  <2>7. Waited(batcher', asker', batchLog')
    <3>1. batcher.queue = <<>>
      BY <1>4 DEF BatchInv, LineTrue
    <3> QED
      BY <1>2, <2>2, <2>4, <3>1, EmptyFacts DEF BatchInv, Waited
  <2> QED
    BY <2>5, <2>6, <2>7 DEF BatchInv
<1>5. CASE ~(batcher.line # <<>> /\ Head(batcher.line) = r /\ batcher.sending # <<>>)
  <2> DEFINE line == Less(batcher.line, {r})
  <2>1. batcher' = [batcher EXCEPT !.line = line] /\ batchLog' = batchLog
    BY <1>5 DEF AskerGivesUp
  <2>2. /\ line \in Seq(BatchUsers) /\ ToSet(line) = ToSet(batcher.line) \ {r} /\ IsInjective(line)
        /\ batcher.line # <<>> /\ Head(batcher.line) \notin {r} => line # <<>>
    <3>1. batcher.line \in Seq(BatchUsers) /\ IsInjective(batcher.line)
      BY BatchParts DEF BatchInv, LineTrue
    <3> QED
      BY <3>1, LessFacts
  <2> HIDE DEF line
  <2>3. /\ batcher'.queue = batcher.queue /\ batcher'.line = line /\ batcher'.sending = batcher.sending
        /\ batcher'.timer = batcher.timer /\ batcher' \in BatcherType
    BY <2>1, <2>2 DEF BatchInv, BatchTypes, BatcherType
  <2>4. BatchTypes(batcher', asker', batchLog')
    BY <1>1, <2>1, <2>3 DEF BatchInv, BatchTypes
  <2>5. LineTrue(batcher', asker')
    BY <1>2, <1>3, <1>5, <2>2, <2>3 DEF BatchInv, LineTrue
  <2>6. Waited(batcher', asker', batchLog')
    BY <1>2, <2>1, <2>3 DEF BatchInv, Waited
  <2> QED
    BY <2>4, <2>5, <2>6 DEF BatchInv
<1> QED
  BY <1>4, <1>5

LEMMA BatchStep == BatchInv /\ [BatchNext]_batchVars => BatchInv'
<1> SUFFICES ASSUME BatchInv, [BatchNext]_batchVars PROVE BatchInv'
  OBVIOUS
<1>1. ASSUME NEW r \in Askers, AddRequest(r) \/ EnterRequest(r) \/ AskerGivesUp(r) PROVE BatchInv'
  BY <1>1, BatchAdds, BatchEnters, BatchLeaves
<1>2. CASE TimerWakes \/ TimerEnters \/ FlushPending \/ FlushEnters \/ BatchAnswered
  BY <1>2, BatchTimerWakes, BatchTimerEnters, BatchFlushAsked, BatchFlushEnters, BatchIsAnswered
<1>3. CASE UNCHANGED batchVars
  BY <1>3 DEF BatchInv, batchVars
<1> QED
  BY <1>1, <1>2, <1>3 DEF BatchNext

LEMMA BatchImplies == BatchInv => BatchSound
<1> SUFFICES ASSUME BatchInv PROVE BatchSound
  OBVIOUS
<1>1. /\ \A x : Contains(batcher.queue, x) <=> x \in ToSet(batcher.queue)
      /\ \A x : Contains(batcher.sending, x) <=> x \in ToSet(batcher.sending)
      /\ \A x : Contains(batcher.line, x) <=> x \in ToSet(batcher.line)
  BY BatchParts, ContainsSet
<1>2. \A r \in Askers : asker[r] = "waiting" =>
          Contains(batcher.queue, r) \/ Contains(batcher.sending, r) \/ r \in batchLog.stranded
  BY <1>1 DEF BatchInv, Waited
<1>3. /\ batcher.queue # <<>> => batcher.timer \in {"sleeping", "awake"}
      /\ batcher.timer = "awake" <=> Contains(batcher.line, Timer)
      /\ Len(batcher.queue) < MaxBatch /\ Len(batcher.sending) <= MaxBatch
  BY <1>1, BatchParts DEF BatchInv, LineTrue
<1> QED
  BY <1>2, <1>3 DEF BatchSound, BatchInv, Waited

\* Requests that wait will be sent, or were given up with their batch
\* (RequestBatcher).
THEOREM BatchesSound == BatchSpec => []BatchSound
BY BatchInitially, BatchStep, BatchImplies, PTL DEF BatchSpec

-----------------------------------------------------------------------------
(* The limiter.  What was granted since any grant, and the tokens there are,  *)
(* never exceed the burst and what has come back in the meantime.              *)
TokenAsk == [by : Takers, n : Nat, waits : BOOLEAN]
LimiterTypes(l, t, g) ==
    /\ l \in [tokens : Int, updated : Nat, line : Seq(TokenAsk), wakes : Nat \cup {-1}]
    /\ t \in Nat /\ g \in Seq([n : Nat, at : Nat, total : Nat])
Refills(l, t) == l.tokens <= Burst /\ l.updated <= t
Accounted(l, g) ==
    \A i \in 1..Len(g) :
        /\ g[i].at <= l.updated
        /\ g[Len(g)].total - g[i].total + g[i].n + l.tokens <= Burst + (l.updated - g[i].at)
Kept(g) ==
    \A i, j \in 1..Len(g) : i <= j /\ g[j].n <= Burst =>
        g[j].total - g[i].total + g[i].n <= Burst + (g[j].at - g[i].at)
WakesInTime(l) ==
    l.wakes # -1 => l.line # <<>> /\ (l.tokens = Burst \/ l.tokens + (l.wakes - l.updated) >= Head(l.line).n)
LimiterInv ==
    /\ LimiterTypes(limiter, now, granted) /\ Refills(limiter, now)
    /\ Accounted(limiter, granted) /\ Kept(granted) /\ WakesInTime(limiter)

LEMMA LimiterParts ==
  ASSUME LimiterInv
  PROVE  /\ limiter.tokens \in Int /\ limiter.updated \in Nat /\ limiter.line \in Seq(TokenAsk)
         /\ limiter.wakes \in Nat \cup {-1} /\ now \in Nat /\ Burst \in Nat /\ Burst >= 1
         /\ limiter.tokens <= Burst /\ limiter.updated <= now
         /\ granted \in Seq([n : Nat, at : Nat, total : Nat]) /\ Len(granted) \in Nat
         /\ \A i \in 1..Len(granted) : granted[i] \in [n : Nat, at : Nat, total : Nat]
         /\ \A i \in 1..Len(granted) :
               granted[i].n \in Nat /\ granted[i].at \in Nat /\ granted[i].total \in Nat
<1>1. granted \in Seq([n : Nat, at : Nat, total : Nat])
  BY DEF LimiterInv, LimiterTypes
<1>2. Len(granted) \in Nat /\ \A i \in 1..Len(granted) : granted[i] \in [n : Nat, at : Nat, total : Nat]
  BY <1>1, LenProperties, ElementOfSeq
<1>3. \A i \in 1..Len(granted) : granted[i].n \in Nat /\ granted[i].at \in Nat /\ granted[i].total \in Nat
  BY <1>2
<1>4. /\ limiter.tokens \in Int /\ limiter.updated \in Nat /\ limiter.line \in Seq(TokenAsk)
      /\ limiter.wakes \in Nat \cup {-1} /\ now \in Nat
  BY DEF LimiterInv, LimiterTypes
<1>5. limiter.tokens <= Burst /\ limiter.updated <= now
  BY DEF LimiterInv, Refills
<1>6. Burst \in Nat /\ Burst >= 1
  BY PerformanceAssumption
<1> QED
  BY <1>1, <1>2, <1>3, <1>4, <1>5, <1>6

LEMMA LimiterInitially == LimiterInit => LimiterInv
<1> SUFFICES ASSUME LimiterInit PROVE LimiterInv
  OBVIOUS
<1>1. /\ limiter = [tokens |-> Burst, updated |-> 0, line |-> <<>>, wakes |-> -1] /\ now = 0 /\ granted = <<>>
      /\ Burst \in Nat /\ Len(granted) = 0
  BY PerformanceAssumption DEF LimiterInit
<1>2. LimiterTypes(limiter, now, granted)
  BY <1>1 DEF LimiterTypes
<1> QED
  BY <1>1, <1>2 DEF LimiterInv, Refills, Accounted, Kept, WakesInTime

\* The tokens come back with time.
LEMMA RefilledFacts ==
  ASSUME LimiterInv
  PROVE  /\ Refilled = [tokens |-> Refilled.tokens, updated |-> now, line |-> limiter.line, wakes |-> limiter.wakes]
         /\ Refilled.updated = now /\ Refilled.line = limiter.line /\ Refilled.wakes = limiter.wakes
         /\ Refilled.tokens \in Int /\ Refilled.tokens <= Burst
         /\ Refilled.tokens <= limiter.tokens + (now - limiter.updated)
         /\ Refilled.tokens = Burst \/ Refilled.tokens = limiter.tokens + (now - limiter.updated)
<1> DEFINE tokens == Lesser(Burst, limiter.tokens + (now - limiter.updated))
<1>1. Refilled = [limiter EXCEPT !.tokens = tokens, !.updated = now]
  BY DEF Refilled
<1>2. /\ tokens \in Int /\ tokens <= Burst /\ tokens <= limiter.tokens + (now - limiter.updated)
      /\ tokens = Burst \/ tokens = limiter.tokens + (now - limiter.updated)
  BY LimiterParts DEF Lesser
<1> HIDE DEF tokens
<1>3. Refilled = [tokens |-> tokens, updated |-> now, line |-> limiter.line, wakes |-> limiter.wakes]
  BY <1>1 DEF LimiterInv, LimiterTypes
<1> QED
  BY <1>2, <1>3

(* What the sums come to.                                                     *)
LEMMA CreditGrows ==
  ASSUME NEW x \in Int, NEW tokens \in Int, NEW more \in Int, NEW b \in Nat,
         NEW a \in Nat, NEW u \in Nat, NEW t \in Nat,
         a <= u, u <= t, x + tokens <= b + (u - a), more <= tokens + (t - u)
  PROVE  a <= t /\ x + more <= b + (t - a)
OBVIOUS

LEMMA CreditSpent ==
  ASSUME NEW sum \in Nat, NEW n \in Nat, NEW tokens \in Int, NEW b \in Nat, NEW t \in Nat,
         NEW x \in Nat, NEW m \in Nat, NEW a \in Nat,
         sum - x + m + tokens <= b + (t - a)
  PROVE  /\ (sum + n) - x + m + (tokens - n) <= b + (t - a)
         /\ n <= tokens => (sum + n) - x + m <= b + (t - a)
OBVIOUS

LEMMA CreditAtOnce ==
  ASSUME NEW sum \in Nat, NEW n \in Nat, NEW tokens \in Int, NEW b \in Nat, NEW t \in Nat, tokens <= b
  PROVE  /\ (sum + n) - (sum + n) + n + (tokens - n) <= b + (t - t)
         /\ n <= b => (sum + n) - (sum + n) + n <= b + (t - t)
OBVIOUS

LEMMA CreditWaits ==
  ASSUME NEW n \in Nat, NEW tokens \in Int, NEW b \in Nat, NEW w \in Nat, NEW u \in Nat, NEW t \in Nat,
         NEW more \in Int, more = b \/ more = tokens + (t - u), tokens <= b, u <= t,
         tokens = b \/ tokens + (w - u) >= n, more <= b
  PROVE  more = b \/ more + (w - t) >= n
OBVIOUS

LEMMA RefilledAccounted ==
  ASSUME LimiterInv
  PROVE  \A i \in 1..Len(granted) :
            /\ granted[i].at <= now
            /\ granted[Len(granted)].total - granted[i].total + granted[i].n + Refilled.tokens
                  <= Burst + (now - granted[i].at)
<1> SUFFICES ASSUME NEW i \in 1..Len(granted)
             PROVE  /\ granted[i].at <= now
                    /\ granted[Len(granted)].total - granted[i].total + granted[i].n + Refilled.tokens
                          <= Burst + (now - granted[i].at)
  OBVIOUS
<1>1. /\ granted[i].at <= limiter.updated
      /\ granted[Len(granted)].total - granted[i].total + granted[i].n + limiter.tokens
            <= Burst + (limiter.updated - granted[i].at)
  BY DEF LimiterInv, Accounted
<1>2. Len(granted) \in 1..Len(granted)
  BY LimiterParts
<1>3. /\ granted[i].n \in Nat /\ granted[i].at \in Nat /\ granted[i].total \in Nat
      /\ granted[Len(granted)].total \in Nat
  BY <1>2, LimiterParts
<1>4. /\ Refilled.tokens \in Int /\ Refilled.tokens <= limiter.tokens + (now - limiter.updated)
      /\ limiter.tokens \in Int /\ limiter.updated \in Nat /\ now \in Nat /\ limiter.updated <= now /\ Burst \in Nat
  BY RefilledFacts, LimiterParts
<1> DEFINE a == granted[i].at
           x == granted[Len(granted)].total - granted[i].total + granted[i].n
<1>5. a \in Nat /\ x \in Int /\ a <= limiter.updated /\ x + limiter.tokens <= Burst + (limiter.updated - a)
  BY <1>1, <1>3
<1> DEFINE more == Refilled.tokens
           tokens == limiter.tokens
           since == limiter.updated
<1> HIDE DEF a, x, more, tokens, since
<1>6. /\ more \in Int /\ tokens \in Int /\ since \in Nat /\ now \in Nat /\ Burst \in Nat
      /\ since <= now /\ more <= tokens + (now - since) /\ a <= since
      /\ x + tokens <= Burst + (since - a)
  BY <1>4, <1>5 DEF more, tokens, since
<1>7. a <= now /\ x + more <= Burst + (now - a)
  BY <1>5, <1>6, CreditGrows
<1> QED
  BY <1>7 DEF a, x, more

\* A request without a grant: the tokens may have come back, the line may have
\* changed, as long as who waits still wakes in time.
LEMMA OnlyRefilled ==
  ASSUME LimiterInv, granted' = granted, now' = now,
         NEW line \in Seq(TokenAsk), NEW wakes \in Nat \cup {-1},
         limiter' = [tokens |-> Refilled.tokens, updated |-> now, line |-> line, wakes |-> wakes],
         wakes # -1 => line # <<>> /\ (Refilled.tokens = Burst \/ Refilled.tokens + (wakes - now) >= Head(line).n)
  PROVE  LimiterInv'
<1>1. /\ limiter'.tokens = Refilled.tokens /\ limiter'.updated = now /\ limiter'.line = line /\ limiter'.wakes = wakes
      /\ Refilled.tokens \in Int /\ Refilled.tokens <= Burst /\ now \in Nat
  BY RefilledFacts, LimiterParts
<1>2. LimiterTypes(limiter', now', granted')
  BY <1>1 DEF LimiterInv, LimiterTypes
<1>3. Accounted(limiter', granted')
  BY <1>1, RefilledAccounted DEF Accounted
<1>4. WakesInTime(limiter')
  BY <1>1 DEF WakesInTime
<1>5. Refills(limiter', now')
  BY <1>1 DEF Refills
<1> QED
  BY <1>2, <1>3, <1>4, <1>5 DEF LimiterInv

\* The head of the line is granted what it asked for: with a request of at most
\* the burst there were the tokens for it.
LEMMA Granted ==
  ASSUME LimiterInv, limiter.line # <<>>, Grant(Refilled), now' = now,
         Head(limiter.line).n <= Burst => Refilled.tokens >= Head(limiter.line).n
  PROVE  LimiterInv'
<1> DEFINE n == Head(limiter.line).n
           new == [n |-> n, at |-> now, total |-> Total + n]
           line == Tail(limiter.line)
           last == Len(granted)
<1>1. granted' = Append(granted, new) /\ limiter' = [Refilled EXCEPT !.tokens = Refilled.tokens - n, !.line = line, !.wakes = -1]
  BY RefilledFacts DEF Grant
<1>2. /\ Head(limiter.line) \in TokenAsk /\ line \in Seq(TokenAsk)
  BY LimiterParts, TailFacts
<1>3. n \in Nat
  BY <1>2 DEF TokenAsk
<1>4. /\ granted \in Seq([n : Nat, at : Nat, total : Nat]) /\ last \in Nat /\ now \in Nat /\ Burst \in Nat
      /\ \A i \in 1..last : granted[i].n \in Nat /\ granted[i].at \in Nat /\ granted[i].total \in Nat
  BY LimiterParts
<1>5. Total \in Nat /\ (last # 0 => Total = granted[last].total)
  BY <1>4, LenProperties, EmptySeq DEF Total
<1>6. new \in [n : Nat, at : Nat, total : Nat]
  BY <1>3, <1>4, <1>5
<1>7. /\ granted' \in Seq([n : Nat, at : Nat, total : Nat]) /\ Len(granted') = last + 1
      /\ \A i \in 1..last : granted'[i] = granted[i]
      /\ granted'[last + 1] = new
  BY <1>1, <1>4, <1>6, AppendFacts
<1>8. Refilled.tokens \in Int /\ Refilled.tokens <= Burst
  BY RefilledFacts
<1>9. limiter' = [tokens |-> Refilled.tokens - n, updated |-> now, line |-> line, wakes |-> -1]
  BY <1>1, RefilledFacts
<1>10. /\ new.n = n /\ new.at = now /\ new.total = Total + n
  OBVIOUS
<1> HIDE DEF n, new, line
<1>11. \A i \in 1..last : /\ granted[i].at <= now
                          /\ Total - granted[i].total + granted[i].n + Refilled.tokens <= Burst + (now - granted[i].at)
  <2> SUFFICES ASSUME NEW i \in 1..last
               PROVE  /\ granted[i].at <= now
                      /\ Total - granted[i].total + granted[i].n + Refilled.tokens <= Burst + (now - granted[i].at)
    OBVIOUS
  <2>1. Total = granted[last].total
    BY <1>4, <1>5
  <2> QED
    BY <2>1, RefilledAccounted
<1>12. LimiterTypes(limiter', now', granted')
  <2>1. Refilled.tokens - n \in Int /\ -1 \in Nat \cup {-1}
    BY <1>3, <1>8
  <2> QED
    BY <1>2, <1>4, <1>7, <1>9, <2>1 DEF LimiterTypes
<1>13. Refills(limiter', now')
  BY <1>3, <1>4, <1>8, <1>9 DEF Refills
<1>14. \A i \in 1..(last + 1) : i \in 1..last \/ i = last + 1
  BY <1>4
<1>15. Accounted(limiter', granted')
  <2> SUFFICES ASSUME NEW i \in 1..(last + 1)
               PROVE  /\ granted'[i].at <= now
                      /\ new.total - granted'[i].total + granted'[i].n + (Refilled.tokens - n) <= Burst + (now - granted'[i].at)
    BY <1>7, <1>9 DEF Accounted
  <2>1. CASE i = last + 1
    <3>1. (Total + n) - (Total + n) + n + (Refilled.tokens - n) <= Burst + (now - now)
      BY <1>3, <1>4, <1>5, <1>8, CreditAtOnce
    <3>2. granted'[i] = new /\ now <= now
      BY <1>4, <1>7, <2>1
    <3> QED
      BY <1>10, <3>1, <3>2
  <2>2. CASE i \in 1..last
    <3>1. granted'[i] = granted[i] /\ granted[i].n \in Nat /\ granted[i].at \in Nat /\ granted[i].total \in Nat
      BY <1>4, <1>7, <2>2
    <3>2. /\ granted[i].at <= now
          /\ Total - granted[i].total + granted[i].n + Refilled.tokens <= Burst + (now - granted[i].at)
      BY <1>11, <2>2
    <3>3. (Total + n) - granted[i].total + granted[i].n + (Refilled.tokens - n) <= Burst + (now - granted[i].at)
      BY <1>3, <1>4, <1>5, <1>8, <3>1, <3>2, CreditSpent
    <3> QED
      BY <1>10, <3>1, <3>2, <3>3
  <2> QED
    BY <1>14, <2>1, <2>2
<1>16. Kept(granted')
  <2> SUFFICES ASSUME NEW i \in 1..(last + 1), NEW j \in 1..(last + 1), i <= j, granted'[j].n <= Burst
               PROVE  granted'[j].total - granted'[i].total + granted'[i].n <= Burst + (granted'[j].at - granted'[i].at)
    BY <1>7 DEF Kept
  <2>1. CASE j \in 1..last
    <3>1. i \in 1..last
      BY <1>4, <1>14, <2>1
    <3> QED
      BY <1>7, <2>1, <3>1 DEF LimiterInv, Kept
  <2>2. CASE j = last + 1 /\ i = last + 1
    BY <1>3, <1>4, <1>5, <1>7, <1>10, <2>2
  <2>3. CASE j = last + 1 /\ i \in 1..last
    <3>1. granted'[i] = granted[i] /\ granted[i].n \in Nat /\ granted[i].at \in Nat /\ granted[i].total \in Nat
      BY <1>4, <1>7, <2>3
    <3>2. granted'[j] = new /\ n <= Refilled.tokens
      BY <1>7, <1>10, <2>3 DEF n
    <3>3. Total - granted[i].total + granted[i].n + Refilled.tokens <= Burst + (now - granted[i].at)
      BY <1>11, <2>3
    <3>4. (Total + n) - granted[i].total + granted[i].n <= Burst + (now - granted[i].at)
      BY <1>3, <1>4, <1>5, <1>8, <3>1, <3>2, <3>3, CreditSpent
    <3> QED
      BY <1>10, <3>1, <3>2, <3>4
  <2> QED
    BY <1>14, <2>1, <2>2, <2>3
<1>17. WakesInTime(limiter')
  BY <1>9 DEF WakesInTime
<1> QED
  BY <1>12, <1>13, <1>15, <1>16, <1>17 DEF LimiterInv

LEMMA LimiterEnters == ASSUME LimiterInv, EnterLimiter PROVE LimiterInv'
<1> DEFINE ask == Head(limiter.line)
<1>1. /\ limiter.line # <<>> /\ limiter.wakes = -1 /\ now' = now
      /\ IF Refilled.tokens >= ask.n THEN Grant(Refilled)
         ELSE /\ limiter' = IF ask.waits THEN [Refilled EXCEPT !.wakes = now + (ask.n - Refilled.tokens)]
                            ELSE [Refilled EXCEPT !.line = Tail(Refilled.line)]
              /\ granted' = granted
  BY DEF EnterLimiter
<1>2. ask \in TokenAsk /\ Tail(limiter.line) \in Seq(TokenAsk) /\ limiter.line \in Seq(TokenAsk)
  BY <1>1, LimiterParts, TailFacts
<1>3. ask.n \in Nat
  BY <1>2 DEF TokenAsk
<1>4. CASE Refilled.tokens >= ask.n
  BY <1>1, <1>4, Granted
<1>5. CASE ~(Refilled.tokens >= ask.n) /\ ask.waits
  <2> DEFINE wakes == now + (ask.n - Refilled.tokens)
  <2>1. wakes \in Nat /\ Refilled.tokens + (wakes - now) = ask.n
    <3> DEFINE n == ask.n
               tokens == Refilled.tokens
    <3>1. n \in Nat /\ tokens \in Int /\ ~(tokens >= n) /\ now \in Nat
      BY <1>3, <1>5, RefilledFacts, LimiterParts
    <3> HIDE DEF n, tokens
    <3>2. now + (n - tokens) \in Nat /\ tokens + ((now + (n - tokens)) - now) = n
      BY <3>1
    <3> QED
      BY <3>2 DEF n, tokens
  <2>2. limiter' = [Refilled EXCEPT !.wakes = wakes] /\ granted' = granted
    BY <1>1, <1>5
  <2> HIDE DEF wakes
  <2>3. limiter' = [tokens |-> Refilled.tokens, updated |-> now, line |-> limiter.line, wakes |-> wakes]
    BY <2>2, RefilledFacts
  <2>4. wakes # -1 => limiter.line # <<>> /\ (Refilled.tokens = Burst \/ Refilled.tokens + (wakes - now) >= Head(limiter.line).n)
    BY <1>1, <1>3, <2>1
  <2>5. wakes \in Nat \cup {-1}
    BY <2>1
  <2> QED
    BY <1>1, <1>2, <2>2, <2>3, <2>4, <2>5, OnlyRefilled
<1>6. CASE ~(Refilled.tokens >= ask.n) /\ ~ask.waits
  <2>1. limiter' = [Refilled EXCEPT !.line = Tail(limiter.line)] /\ granted' = granted
    BY <1>1, <1>6, RefilledFacts
  <2>2. limiter' = [tokens |-> Refilled.tokens, updated |-> now, line |-> Tail(limiter.line), wakes |-> -1]
    BY <1>1, <2>1, RefilledFacts
  <2> QED
    BY <1>1, <1>2, <2>1, <2>2, OnlyRefilled
<1> QED
  BY <1>4, <1>5, <1>6

LEMMA LimiterWakes == ASSUME LimiterInv, TakerWakes PROVE LimiterInv'
<1>1. limiter.wakes # -1 /\ now >= limiter.wakes /\ Grant(Refilled) /\ now' = now
  BY DEF TakerWakes
<1>2. /\ limiter.line # <<>>
      /\ limiter.tokens = Burst \/ limiter.tokens + (limiter.wakes - limiter.updated) >= Head(limiter.line).n
  BY <1>1 DEF LimiterInv, WakesInTime
<1>3. Head(limiter.line).n \in Nat
  <2>1. Head(limiter.line) \in TokenAsk
    BY <1>2, LimiterParts, TailFacts
  <2> QED
    BY <2>1 DEF TokenAsk
<1>4. Head(limiter.line).n <= Burst => Refilled.tokens >= Head(limiter.line).n
  <2> DEFINE n == Head(limiter.line).n
  <2>1. /\ n \in Nat /\ limiter.wakes \in Nat /\ now >= limiter.wakes
        /\ limiter.tokens = Burst \/ limiter.tokens + (limiter.wakes - limiter.updated) >= n
    BY <1>1, <1>2, <1>3, LimiterParts
  <2> HIDE DEF n
  <2>2. n <= Burst => Refilled.tokens >= n
    BY <2>1, RefilledFacts, LimiterParts
  <2> QED
    BY <2>2 DEF n
<1> QED
  BY <1>1, <1>2, <1>4, Granted

LEMMA LimiterRefills == ASSUME LimiterInv, AvailableTokens PROVE LimiterInv'
<1>1. limiter' = Refilled /\ granted' = granted /\ now' = now
  BY DEF AvailableTokens
<1>2. limiter' = [tokens |-> Refilled.tokens, updated |-> now, line |-> limiter.line, wakes |-> limiter.wakes]
  BY <1>1, RefilledFacts
<1>3. limiter.wakes # -1 =>
        limiter.line # <<>> /\ (Refilled.tokens = Burst \/ Refilled.tokens + (limiter.wakes - now) >= Head(limiter.line).n)
  <2> SUFFICES ASSUME limiter.wakes # -1
               PROVE  limiter.line # <<>> /\ (Refilled.tokens = Burst \/ Refilled.tokens + (limiter.wakes - now) >= Head(limiter.line).n)
    OBVIOUS
  <2>1. /\ limiter.line # <<>>
        /\ limiter.tokens = Burst \/ limiter.tokens + (limiter.wakes - limiter.updated) >= Head(limiter.line).n
    BY DEF LimiterInv, WakesInTime
  <2>2. Head(limiter.line) \in TokenAsk
    BY <2>1, LimiterParts, TailFacts
  <2> DEFINE n == Head(limiter.line).n
  <2>3. n \in Nat /\ (limiter.tokens = Burst \/ limiter.tokens + (limiter.wakes - limiter.updated) >= n)
    BY <2>1, <2>2 DEF TokenAsk
  <2> HIDE DEF n
  <2>4. Refilled.tokens = Burst \/ Refilled.tokens + (limiter.wakes - now) >= n
    <3>1. /\ Refilled.tokens \in Int /\ Refilled.tokens <= Burst
          /\ Refilled.tokens = Burst \/ Refilled.tokens = limiter.tokens + (now - limiter.updated)
          /\ limiter.tokens \in Int /\ limiter.tokens <= Burst /\ limiter.updated \in Nat
          /\ limiter.updated <= now /\ now \in Nat /\ Burst \in Nat
          /\ limiter.wakes \in Nat
      BY RefilledFacts, LimiterParts
    <3> QED
      BY <2>3, <3>1, CreditWaits
  <2> QED
    BY <2>1, <2>4 DEF n
<1>4. limiter.line \in Seq(TokenAsk) /\ limiter.wakes \in Nat \cup {-1}
  BY LimiterParts
<1> QED
  BY <1>1, <1>2, <1>3, <1>4, OnlyRefilled

\* With the tokens as they were, and who waits in the line as before.
LEMMA LineChanges ==
  ASSUME LimiterInv, granted' = granted, now' = now,
         NEW line \in Seq(TokenAsk), NEW wakes \in {limiter.wakes, -1},
         limiter' = [tokens |-> limiter.tokens, updated |-> limiter.updated, line |-> line, wakes |-> wakes],
         wakes # -1 => line # <<>> /\ Head(line) = Head(limiter.line)
  PROVE  LimiterInv'
<1>1. /\ limiter'.tokens = limiter.tokens /\ limiter'.updated = limiter.updated
      /\ limiter'.line = line /\ limiter'.wakes = wakes
  OBVIOUS
<1>2. LimiterTypes(limiter', now', granted')
  BY LimiterParts DEF LimiterInv, LimiterTypes
<1>3. Refills(limiter', now') /\ Accounted(limiter', granted') /\ Kept(granted')
  BY <1>1 DEF LimiterInv, Refills, Accounted
<1>4. WakesInTime(limiter')
  BY <1>1 DEF LimiterInv, WakesInTime
<1> QED
  BY <1>2, <1>3, <1>4 DEF LimiterInv

LEMMA LimiterAsked ==
  ASSUME LimiterInv, NEW c \in Takers, NEW n \in 1..Burst + 1, NEW patient \in BOOLEAN, AskTokens(c, n, patient)
  PROVE  LimiterInv'
<1> DEFINE ask == [by |-> c, n |-> n, waits |-> patient]
           line == Append(limiter.line, ask)
<1>1. limiter' = [limiter EXCEPT !.line = line] /\ granted' = granted /\ now' = now
  BY DEF AskTokens
<1>2. ask \in TokenAsk
  BY LimiterParts DEF TokenAsk
<1>3. /\ line \in Seq(TokenAsk) /\ Len(line) = Len(limiter.line) + 1
      /\ \A i \in 1..Len(limiter.line) : line[i] = limiter.line[i]
  BY <1>2, LimiterParts, AppendFacts
<1> HIDE DEF line
<1>4. limiter' = [tokens |-> limiter.tokens, updated |-> limiter.updated, line |-> line, wakes |-> limiter.wakes]
  BY <1>1 DEF LimiterInv, LimiterTypes
<1>5. limiter.wakes # -1 => line # <<>> /\ Head(line) = Head(limiter.line)
  <2> SUFFICES ASSUME limiter.wakes # -1 PROVE line # <<>> /\ Head(line) = Head(limiter.line)
    OBVIOUS
  <2>1. limiter.line # <<>>
    BY DEF LimiterInv, WakesInTime
  <2>2. Head(limiter.line) = limiter.line[1] /\ Len(limiter.line) >= 1 /\ Len(limiter.line) \in Nat
    BY <2>1, LimiterParts, TailFacts, LenProperties
  <2>3. line # <<>>
    BY <1>3, <2>2, LenProperties, EmptyFacts
  <2>4. Head(line) = line[1] /\ 1 \in 1..Len(limiter.line)
    BY <1>3, <2>2, <2>3, TailFacts
  <2> QED
    BY <1>3, <2>2, <2>3, <2>4
<1> QED
  BY <1>1, <1>3, <1>4, <1>5, LineChanges

LEMMA LimiterLeft == ASSUME LimiterInv, NEW c \in Takers, TakerGivesUp(c) PROVE LimiterInv'
<1> DEFINE gone == {ask \in ToSet(limiter.line) : ask.by = c}
           line == Less(limiter.line, gone)
           wakes == IF Head(limiter.line).by = c THEN -1 ELSE limiter.wakes
<1>1. limiter' = [limiter EXCEPT !.wakes = wakes, !.line = line] /\ granted' = granted /\ now' = now
  BY DEF TakerGivesUp
<1>2. /\ line \in Seq(TokenAsk)
      /\ limiter.line # <<>> /\ Head(limiter.line) \notin gone => line # <<>> /\ Head(line) = Head(limiter.line)
  BY LimiterParts, LessFacts
<1>3. Head(limiter.line).by # c => Head(limiter.line) \notin gone
  OBVIOUS
<1>4. wakes \in {limiter.wakes, -1}
  OBVIOUS
<1>5. wakes # -1 => Head(limiter.line).by # c /\ limiter.wakes # -1
  OBVIOUS
<1> HIDE DEF line, wakes, gone
<1>6. limiter' = [tokens |-> limiter.tokens, updated |-> limiter.updated, line |-> line, wakes |-> wakes]
  BY <1>1 DEF LimiterInv, LimiterTypes
<1>7. wakes # -1 => line # <<>> /\ Head(line) = Head(limiter.line)
  BY <1>2, <1>3, <1>5 DEF LimiterInv, WakesInTime
<1> QED
  BY <1>1, <1>2, <1>4, <1>6, <1>7, LineChanges

LEMMA LimiterStep == LimiterInv /\ [LimiterNext]_limiterVars => LimiterInv'
<1> SUFFICES ASSUME LimiterInv, [LimiterNext]_limiterVars PROVE LimiterInv'
  OBVIOUS
<1>1. CASE EnterLimiter
  BY <1>1, LimiterEnters
<1>2. CASE TakerWakes
  BY <1>2, LimiterWakes
<1>3. CASE AvailableTokens
  BY <1>3, LimiterRefills
<1>4. CASE LimiterTick
  <2>1. now' = now + 1 /\ limiter' = limiter /\ granted' = granted
    BY <1>4 DEF LimiterTick
  <2>2. now \in Nat /\ limiter.updated \in Nat /\ limiter.updated <= now
    BY LimiterParts
  <2>3. LimiterTypes(limiter', now', granted') /\ Refills(limiter', now')
    BY <2>1, <2>2 DEF LimiterInv, LimiterTypes, Refills
  <2> QED
    BY <2>1, <2>3 DEF LimiterInv
<1>5. ASSUME NEW c \in Takers, TakerGivesUp(c) PROVE LimiterInv'
  BY <1>5, LimiterLeft
<1>6. ASSUME NEW c \in Takers, NEW n \in 1..Burst + 1, NEW patient \in BOOLEAN, AskTokens(c, n, patient) PROVE LimiterInv'
  BY <1>6, LimiterAsked
<1>7. CASE UNCHANGED limiterVars
  BY <1>7 DEF LimiterInv, limiterVars
<1> QED
  BY <1>1, <1>2, <1>3, <1>4, <1>5, <1>6, <1>7 DEF LimiterNext

LEMMA LimiterImplies == LimiterInv => LimitKept
<1> SUFFICES ASSUME LimiterInv, NEW i \in DOMAIN granted, NEW j \in DOMAIN granted, i <= j,
                    \A k \in i..j : granted[k].n <= Burst
             PROVE  GrantedIn(i, j) <= Burst + (granted[j].at - granted[i].at)
  BY DEF LimitKept
<1>1. i \in 1..Len(granted) /\ j \in 1..Len(granted) /\ Len(granted) \in Nat
  BY LimiterParts, LenProperties
<1>2. granted[j].n <= Burst
  BY <1>1
<1> QED
  BY <1>1, <1>2 DEF LimiterInv, Kept, GrantedIn

\* No span of time grants more than the burst and what came back in it
\* (RateLimiter).
THEOREM LimitsKept == LimiterSpec => []LimitKept
BY LimiterInitially, LimiterStep, LimiterImplies, PTL DEF LimiterSpec

-----------------------------------------------------------------------------
(* The response cache.  What is kept of a key that was not invalidated while  *)
(* its value was made is the version there is, and so is what a call has in    *)
(* hand to store.                                                              *)
CacheEntry == [key : Keys, made : Nat, age : Nat]
CacheCall == [at : {"idle", "locking", "making", "made"}, key : Keys \cup {"none"},
              made : Nat, since : Nat, got : Nat, age : Nat]
OneEach(e) == \A i, j \in 1..Len(e) : e[i].key = e[j].key => i = j
UpToDate(e, v, x) == \A i \in 1..Len(e) : e[i].key \notin x => e[i].made = v[e[i].key]
CacheTrue(e, v, x) == e \in Seq(CacheEntry) /\ Len(e) <= MaxSize /\ OneEach(e) /\ UpToDate(e, v, x)
CallTrue(call, v, x) ==
    /\ call \in CacheCall
    /\ call.at # "idle" => call.key \in Keys /\ call.since <= v[call.key] /\ call.age = 0
    /\ call.at = "made" /\ call.key \notin x => call.made = v[call.key]
    /\ call.at = "idle" /\ call.got # 0 =>
          call.age <= Ttl + StaleTtl /\ (call.key \notin x => call.got >= call.since)
ResponseInv ==
    /\ version \in [Keys -> Nat] /\ crossedFill \subseteq Keys
    /\ CacheTrue(entries, version, crossedFill)
    /\ filling = [c \in Takers |-> filling[c]]
    /\ \A c \in Takers : CallTrue(filling[c], version, crossedFill)

LEMMA ResponseInitially == ResponseInit => ResponseInv
<1> SUFFICES ASSUME ResponseInit PROVE ResponseInv
  OBVIOUS
<1>1. /\ entries = <<>> /\ Len(entries) = 0 /\ entries \in Seq(CacheEntry) /\ 0 <= MaxSize
      /\ filling = [c \in Takers |-> NoCall] /\ version \in [Keys -> Nat] /\ crossedFill = {}
  BY PerformanceAssumption DEF ResponseInit
<1>2. CallTrue(NoCall, version, crossedFill)
  BY DEF CallTrue, NoCall, CacheCall
<1>3. CacheTrue(entries, version, crossedFill)
  BY <1>1 DEF CacheTrue, OneEach, UpToDate
<1> QED
  BY <1>1, <1>2, <1>3 DEF ResponseInv

LEMMA ResponseParts ==
  ASSUME ResponseInv
  PROVE  /\ entries \in Seq(CacheEntry) /\ Len(entries) \in Nat /\ Len(entries) <= MaxSize
         /\ DOMAIN entries = 1..Len(entries) /\ ToSet(entries) = {entries[i] : i \in 1..Len(entries)}
         /\ \A i \in 1..Len(entries) : entries[i] \in CacheEntry
         /\ \A i \in 1..Len(entries) : entries[i].key \in Keys /\ entries[i].made \in Nat /\ entries[i].age \in Nat
         /\ MaxSize \in Nat /\ MaxSize >= 1 /\ Ttl \in Nat /\ StaleTtl \in Nat
         /\ \A k \in Keys : version[k] \in Nat
<1>1. entries \in Seq(CacheEntry) /\ Len(entries) <= MaxSize /\ version \in [Keys -> Nat]
  BY DEF ResponseInv, CacheTrue
<1>2. /\ Len(entries) \in Nat /\ DOMAIN entries = 1..Len(entries)
      /\ \A i \in 1..Len(entries) : entries[i] \in CacheEntry
  BY <1>1, LenProperties, ElementOfSeq
<1>3. \A i \in 1..Len(entries) : entries[i].key \in Keys /\ entries[i].made \in Nat /\ entries[i].age \in Nat
  BY <1>2 DEF CacheEntry
<1>4. ToSet(entries) = {entries[i] : i \in 1..Len(entries)}
  BY <1>2 DEF ToSet
<1> QED
  BY <1>1, <1>2, <1>3, <1>4, PerformanceAssumption

\* What some entries leave when they go.
LEMMA EntriesGo ==
  ASSUME ResponseInv, NEW keys
  PROVE  LET r == Without(keys)
         IN /\ r \in Seq(CacheEntry) /\ Len(r) <= Len(entries) /\ OneEach(r)
            /\ \A i \in 1..Len(r) : r[i] \in ToSet(entries) /\ r[i].key \notin keys
            /\ (\E i \in 1..Len(entries) : entries[i].key \in keys) => Len(r) < Len(entries)
            /\ CacheTrue(r, version, crossedFill)
<1> DEFINE gone == {e \in ToSet(entries) : e.key \in keys}
           r == Less(entries, gone)
<1>1. Without(keys) = r
  BY DEF Without
<1>2. OneEach(entries) /\ UpToDate(entries, version, crossedFill)
  BY DEF ResponseInv, CacheTrue
<1>3. IsInjective(entries)
  BY <1>2, ResponseParts DEF IsInjective, OneEach
<1>4. /\ r \in Seq(CacheEntry) /\ ToSet(r) = ToSet(entries) \ gone /\ Len(r) <= Len(entries) /\ IsInjective(r)
      /\ (\E i \in 1..Len(entries) : entries[i] \in gone) => Len(r) < Len(entries)
  BY <1>3, ResponseParts, LessFacts
<1>5. \A i \in 1..Len(entries) : entries[i].key \in keys => entries[i] \in gone
  BY ResponseParts
<1>6. \A e \in ToSet(entries) \ gone : e.key \notin keys
  OBVIOUS
<1> HIDE DEF gone, r
<1>7. Len(r) \in Nat /\ DOMAIN r = 1..Len(r) /\ ToSet(r) = {r[i] : i \in 1..Len(r)}
  BY <1>4, LenProperties DEF ToSet
<1>8. \A i \in 1..Len(r) : r[i] \in ToSet(entries) /\ r[i].key \notin keys
  BY <1>4, <1>6, <1>7
<1>9. \A i \in 1..Len(r) : \E k \in 1..Len(entries) : r[i] = entries[k]
  BY <1>8, ResponseParts
<1>10. OneEach(r)
  <2> SUFFICES ASSUME NEW i \in 1..Len(r), NEW j \in 1..Len(r), r[i].key = r[j].key PROVE i = j
    BY DEF OneEach
  <2>1. PICK k \in 1..Len(entries) : r[i] = entries[k]
    BY <1>9
  <2>2. PICK l \in 1..Len(entries) : r[j] = entries[l]
    BY <1>9
  <2>3. k = l
    BY <1>2, <2>1, <2>2 DEF OneEach
  <2> QED
    BY <1>4, <1>7, <2>1, <2>2, <2>3 DEF IsInjective
<1>11. UpToDate(r, version, crossedFill)
  BY <1>2, <1>9 DEF UpToDate
<1>12. Len(r) <= MaxSize
  BY <1>4, <1>7, ResponseParts
<1> QED
  BY <1>1, <1>4, <1>5, <1>8, <1>10, <1>11, <1>12 DEF CacheTrue

\* The entry of a key there is.
LEMMA EntryFound ==
  ASSUME ResponseInv, NEW k \in Keys, InCache(k)
  PROVE  /\ Entry(k) \in ToSet(entries) /\ Entry(k) \in CacheEntry /\ Entry(k).key = k
         /\ Entry(k).age <= Ttl + StaleTtl /\ Entry(k).made \in Nat /\ Entry(k).age \in Nat
         /\ k \notin crossedFill => Entry(k).made = version[k]
<1>1. PICK e \in ToSet(entries) : e.key = k /\ e.age <= Ttl + StaleTtl
  BY DEF InCache
<1> DEFINE f == Entry(k)
<1>2. f \in ToSet(entries) /\ f.key = k
  BY <1>1 DEF Entry
<1> HIDE DEF f
<1>3. PICK i \in 1..Len(entries) : e = entries[i]
  BY <1>1, ResponseParts
<1>4. PICK j \in 1..Len(entries) : f = entries[j]
  BY <1>2, ResponseParts
<1>5. i = j
  BY <1>1, <1>2, <1>3, <1>4 DEF ResponseInv, CacheTrue, OneEach
<1>6. f = e /\ f \in CacheEntry /\ f.made \in Nat /\ f.age \in Nat
  BY <1>3, <1>4, <1>5, ResponseParts
<1>7. k \notin crossedFill => f.made = version[k]
  BY <1>2, <1>4 DEF ResponseInv, CacheTrue, UpToDate
<1> QED
  BY <1>1, <1>2, <1>6, <1>7 DEF f

\* An entry at the end, of a key that has none.
LEMMA EntryAdded ==
  ASSUME ResponseInv, NEW r, CacheTrue(r, version, crossedFill), Len(r) < MaxSize,
         NEW e \in CacheEntry, \A i \in 1..Len(r) : r[i].key # e.key,
         e.key \notin crossedFill => e.made = version[e.key]
  PROVE  CacheTrue(Append(r, e), version, crossedFill)
<1> DEFINE a == Append(r, e)
<1>1. r \in Seq(CacheEntry) /\ OneEach(r) /\ UpToDate(r, version, crossedFill) /\ Len(r) \in Nat
  BY LenProperties DEF CacheTrue
<1>2. /\ a \in Seq(CacheEntry) /\ Len(a) = Len(r) + 1
      /\ \A i \in 1..Len(r) : a[i] = r[i]
      /\ a[Len(r) + 1] = e
  BY <1>1, AppendFacts
<1> HIDE DEF a
<1>3. \A i \in 1..Len(a) : i \in 1..Len(r) \/ i = Len(r) + 1
  BY <1>1, <1>2
<1>4. OneEach(a)
  <2> SUFFICES ASSUME NEW i \in 1..Len(a), NEW j \in 1..Len(a), a[i].key = a[j].key PROVE i = j
    BY DEF OneEach
  <2>1. CASE i \in 1..Len(r) /\ j \in 1..Len(r)
    BY <1>1, <1>2, <2>1 DEF OneEach
  <2>2. CASE i = Len(r) + 1 /\ j = Len(r) + 1
    BY <2>2
  <2>3. CASE i \in 1..Len(r) /\ j = Len(r) + 1
    BY <1>2, <2>3
  <2>4. CASE j \in 1..Len(r) /\ i = Len(r) + 1
    BY <1>2, <2>4
  <2> QED
    BY <1>3, <2>1, <2>2, <2>3, <2>4
<1>5. UpToDate(a, version, crossedFill)
  BY <1>1, <1>2, <1>3 DEF UpToDate
<1>6. Len(a) <= MaxSize
  BY <1>1, <1>2, ResponseParts
<1> QED
  BY <1>2, <1>4, <1>5, <1>6 DEF CacheTrue, a

LEMMA LookedTrue ==
  ASSUME ResponseInv, NEW k \in Keys
  PROVE  CacheTrue(Looked(k), version, crossedFill)
<1> DEFINE r == Without({k})
<1>1. /\ r \in Seq(CacheEntry) /\ Len(r) <= Len(entries)
      /\ \A i \in 1..Len(r) : r[i] \in ToSet(entries) /\ r[i].key \notin {k}
      /\ (\E i \in 1..Len(entries) : entries[i].key \in {k}) => Len(r) < Len(entries)
      /\ CacheTrue(r, version, crossedFill)
  BY EntriesGo
<1> HIDE DEF r
<1>2. CASE ~InCache(k)
  BY <1>1, <1>2 DEF Looked, r
<1>3. CASE InCache(k) /\ Entry(k).age <= Ttl
  <2>1. /\ Entry(k) \in ToSet(entries) /\ Entry(k) \in CacheEntry /\ Entry(k).key = k
        /\ k \notin crossedFill => Entry(k).made = version[k]
    BY <1>3, EntryFound
  <2>2. \E i \in 1..Len(entries) : entries[i].key \in {k}
    BY <2>1, ResponseParts
  <2>3. Len(r) < MaxSize
    <3>1. Len(r) \in Nat
      BY <1>1, LenProperties
    <3> QED
      BY <1>1, <2>2, <3>1, ResponseParts
  <2>4. \A i \in 1..Len(r) : r[i].key # Entry(k).key
    BY <1>1, <2>1
  <2>5. CacheTrue(Append(r, Entry(k)), version, crossedFill)
    BY <1>1, <2>1, <2>3, <2>4, EntryAdded
  <2> QED
    BY <1>3, <2>5 DEF Looked, r
<1>4. CASE InCache(k) /\ ~(Entry(k).age <= Ttl)
  BY <1>4 DEF Looked, ResponseInv
<1> QED
  BY <1>2, <1>3, <1>4

LEMMA StoredTrue ==
  ASSUME ResponseInv, NEW k \in Keys, NEW v \in Nat, k \notin crossedFill => v = version[k]
  PROVE  CacheTrue(Stored(k, v), version, crossedFill)
<1> DEFINE room == IF Len(entries) >= MaxSize THEN Tail(entries) ELSE entries
           new == [key |-> k, made |-> v, age |-> 0]
           over == [i \in DOMAIN room |-> IF room[i].key = k THEN new ELSE room[i]]
<1>1. Stored(k, v) = IF \E e \in ToSet(room) : e.key = k THEN over ELSE Append(room, new)
  BY DEF Stored
<1>2. new \in CacheEntry /\ new.key = k /\ new.made = v
  BY DEF CacheEntry
<1>3. CacheTrue(room, version, crossedFill) /\ Len(room) < MaxSize
  <2>1. CASE ~(Len(entries) >= MaxSize)
    BY <2>1, ResponseParts DEF ResponseInv
  <2>2. CASE Len(entries) >= MaxSize
    <3>1. entries # <<>>
      BY <2>2, ResponseParts, EmptyFacts
    <3> DEFINE t == Tail(entries)
    <3>2. /\ t \in Seq(CacheEntry) /\ Len(t) = Len(entries) - 1
          /\ \A i \in 1..(Len(entries) - 1) : t[i] = entries[i + 1]
      BY <3>1, ResponseParts, TailFacts
    <3> HIDE DEF t
    <3>3. \A i \in 1..Len(t) : i + 1 \in 1..Len(entries) /\ t[i] = entries[i + 1]
      BY <3>2, ResponseParts
    <3>4. OneEach(t)
      <4> SUFFICES ASSUME NEW i \in 1..Len(t), NEW j \in 1..Len(t), t[i].key = t[j].key PROVE i = j
        BY DEF OneEach
      <4>1. i + 1 \in 1..Len(entries) /\ j + 1 \in 1..Len(entries) /\ entries[i + 1].key = entries[j + 1].key
        BY <3>3
      <4>2. i + 1 = j + 1
        BY <4>1 DEF ResponseInv, CacheTrue, OneEach
      <4> QED
        BY <3>2, <4>2, ResponseParts
    <3>5. UpToDate(t, version, crossedFill)
      BY <3>3 DEF ResponseInv, CacheTrue, UpToDate
    <3>6. Len(t) < MaxSize /\ Len(t) <= MaxSize
      BY <3>2, ResponseParts
    <3> QED
      BY <2>2, <3>2, <3>4, <3>5, <3>6 DEF CacheTrue, t
  <2> QED
    BY <2>1, <2>2
<1> HIDE DEF room, new
<1>4. room \in Seq(CacheEntry) /\ OneEach(room) /\ UpToDate(room, version, crossedFill)
  BY <1>3 DEF CacheTrue
<1>5. /\ Len(room) \in Nat /\ DOMAIN room = 1..Len(room) /\ ToSet(room) = {room[i] : i \in 1..Len(room)}
      /\ \A i \in 1..Len(room) : room[i] \in CacheEntry
  BY <1>4, LenProperties, ElementOfSeq DEF ToSet
<1>6. CASE ~\E e \in ToSet(room) : e.key = k
  <2>1. \A i \in 1..Len(room) : room[i].key # new.key
    BY <1>2, <1>5, <1>6
  <2> QED
    BY <1>1, <1>2, <1>3, <1>6, <2>1, EntryAdded
<1>7. CASE \E e \in ToSet(room) : e.key = k
  <2>1. \A i \in 1..Len(room) : over[i] = IF room[i].key = k THEN new ELSE room[i]
    BY <1>5
  <2>2. over \in Seq(CacheEntry) /\ Len(over) = Len(room)
    <3>1. over = [i \in 1..Len(room) |-> over[i]]
      BY <1>5
    <3>2. \A i \in 1..Len(room) : over[i] \in CacheEntry
      BY <1>2, <1>5, <2>1
    <3> HIDE DEF over
    <3>3. over \in [1..Len(room) -> CacheEntry]
      BY <3>1, <3>2
    <3> QED
      BY <1>5, <3>3, LenProperties
  <2> HIDE DEF over
  <2>3. \A i \in 1..Len(room) : over[i].key = room[i].key
    BY <1>2, <2>1
  <2>4. OneEach(over)
    BY <1>4, <2>2, <2>3 DEF OneEach
  <2>5. UpToDate(over, version, crossedFill)
    BY <1>2, <1>4, <2>1, <2>2 DEF UpToDate
  <2>6. Len(over) <= MaxSize
    BY <1>3, <2>2 DEF CacheTrue
  <2> QED
    BY <1>1, <1>7, <2>2, <2>4, <2>5, <2>6 DEF CacheTrue
<1> QED
  BY <1>6, <1>7

\* One call moves on, and the entries with it.
LEMMA OneCallMoves ==
  ASSUME ResponseInv, NEW c \in Takers, NEW call, CallTrue(call, version, crossedFill),
         filling' = [filling EXCEPT ![c] = call], CacheTrue(entries', version, crossedFill),
         version' = version, crossedFill' = crossedFill
  PROVE  ResponseInv'
<1>1. filling' = [d \in Takers |-> filling'[d]] /\ \A d \in Takers : filling'[d] = IF d = c THEN call ELSE filling[d]
  BY DEF ResponseInv
<1> QED
  BY <1>1 DEF ResponseInv

LEMMA LookingUp ==
  ASSUME ResponseInv, NEW c \in Takers, NEW k \in Keys, NEW call \in CacheCall,
         call.key = k, call.since <= version[k], call.age = 0, LooksUp(c, k, call),
         version' = version, crossedFill' = crossedFill
  PROVE  ResponseInv'
<1>1. CacheTrue(entries', version, crossedFill)
  BY LookedTrue DEF LooksUp
<1>2. CASE InCache(k)
  <2> DEFINE next == [call EXCEPT !.at = "idle", !.got = Entry(k).made, !.age = Entry(k).age]
  <2>1. filling' = [filling EXCEPT ![c] = next]
    BY <1>2 DEF LooksUp
  <2>2. /\ Entry(k).age <= Ttl + StaleTtl /\ Entry(k).made \in Nat /\ Entry(k).age \in Nat
        /\ k \notin crossedFill => Entry(k).made = version[k]
    BY <1>2, EntryFound
  <2>3. /\ next \in CacheCall /\ next.at = "idle" /\ next.key = k /\ next.since = call.since
        /\ next.got = Entry(k).made /\ next.age = Entry(k).age
    BY <2>2 DEF CacheCall
  <2> HIDE DEF next
  <2>4. CallTrue(next, version, crossedFill)
    BY <2>2, <2>3 DEF CallTrue
  <2> QED
    BY <1>1, <2>1, <2>4, OneCallMoves
<1>3. CASE ~InCache(k)
  <2> DEFINE next == [call EXCEPT !.at = "making"]
  <2>1. filling' = [filling EXCEPT ![c] = next]
    BY <1>3 DEF LooksUp
  <2>2. /\ next \in CacheCall /\ next.at = "making" /\ next.key = k /\ next.since = call.since /\ next.age = 0
    BY DEF CacheCall
  <2> HIDE DEF next
  <2>3. CallTrue(next, version, crossedFill)
    BY <2>2 DEF CallTrue
  <2> QED
    BY <1>1, <2>1, <2>3, OneCallMoves
<1> QED
  BY <1>2, <1>3

\* A call as it begins.
LEMMA AskingTrue ==
  ASSUME ResponseInv, NEW c \in Takers, NEW k \in Keys
  PROVE  /\ Asking(c, k) \in CacheCall /\ Asking(c, k).key = k /\ Asking(c, k).since = version[k]
         /\ Asking(c, k).since <= version[k] /\ Asking(c, k).age = 0
         /\ CallTrue([Asking(c, k) EXCEPT !.at = "locking"], version, crossedFill)
<1> DEFINE a == [NoCall EXCEPT !.key = k, !.since = version[k]]
           l == [a EXCEPT !.at = "locking"]
<1>1. version[k] \in Nat
  BY ResponseParts
<1>0. Asking(c, k) = a
  BY DEF Asking
<1>2. NoCall \in CacheCall /\ NoCall.at = "idle" /\ NoCall.age = 0
  BY DEF NoCall, CacheCall
<1>3. a \in CacheCall /\ a.key = k /\ a.since = version[k] /\ a.age = 0
  BY <1>1, <1>2 DEF CacheCall
<1> HIDE DEF a
<1>4. /\ l \in CacheCall /\ l.key = a.key /\ l.since = a.since /\ l.age = a.age /\ l.at = "locking"
  BY <1>3 DEF CacheCall
<1> HIDE DEF l
<1>5. l.key = k /\ l.since = version[k] /\ l.age = 0
  BY <1>3, <1>4
<1>6. version[k] <= version[k]
  BY <1>1
<1>7. CallTrue(l, version, crossedFill)
  BY <1>4, <1>5, <1>6 DEF CallTrue
<1> QED
  BY <1>0, <1>3, <1>5, <1>6, <1>7 DEF l

LEMMA CallEnters == ASSUME ResponseInv, NEW c \in Takers, EnterCache(c) PROVE ResponseInv'
<1>1. /\ filling[c].at = "locking" /\ LooksUp(c, filling[c].key, filling[c])
      /\ version' = version /\ crossedFill' = crossedFill
  BY DEF EnterCache
<1>2. /\ filling[c] \in CacheCall /\ filling[c].key \in Keys
      /\ filling[c].since <= version[filling[c].key] /\ filling[c].age = 0
  BY <1>1 DEF ResponseInv, CallTrue
<1> DEFINE k == filling[c].key
           call == filling[c]
<1>3. k \in Keys /\ call \in CacheCall /\ call.key = k /\ call.since <= version[k] /\ call.age = 0 /\ LooksUp(c, k, call)
  BY <1>1, <1>2
<1> HIDE DEF k, call
<1> QED
  BY <1>1, <1>3, LookingUp

LEMMA FactoryDone == ASSUME ResponseInv, NEW c \in Takers, FactoryReads(c) PROVE ResponseInv'
<1> DEFINE call == filling[c]
           next == [call EXCEPT !.at = "made", !.made = version[call.key]]
<1>1. /\ call.at = "making" /\ entries' = entries /\ version' = version /\ crossedFill' = crossedFill
      /\ filling' = [filling EXCEPT ![c] = next]
  BY DEF FactoryReads, ResponseInv
<1>2. call \in CacheCall /\ call.key \in Keys /\ call.since <= version[call.key] /\ call.age = 0
  BY <1>1 DEF ResponseInv, CallTrue
<1>3. version[call.key] \in Nat
  BY <1>2, ResponseParts
<1> HIDE DEF call
<1>4. /\ next \in CacheCall /\ next.at = "made" /\ next.key = call.key /\ next.since = call.since
      /\ next.age = 0 /\ next.made = version[call.key]
  BY <1>2, <1>3 DEF CacheCall
<1> HIDE DEF next
<1>5. CallTrue(next, version, crossedFill)
  BY <1>2, <1>4 DEF CallTrue
<1>6. CacheTrue(entries', version, crossedFill)
  BY <1>1 DEF ResponseInv
<1> QED
  BY <1>1, <1>5, <1>6, OneCallMoves

LEMMA FillStoredTrue == ASSUME ResponseInv, NEW c \in Takers, FillStored(c) PROVE ResponseInv'
<1> DEFINE call == filling[c]
           next == [call EXCEPT !.at = "idle", !.made = 0, !.got = call.made]
<1>1. /\ call.at = "made" /\ entries' = Stored(call.key, call.made) /\ version' = version /\ crossedFill' = crossedFill
      /\ filling' = [filling EXCEPT ![c] = next]
  BY DEF FillStored
<1>2. /\ call \in CacheCall /\ call.key \in Keys /\ call.since <= version[call.key] /\ call.age = 0
      /\ call.key \notin crossedFill => call.made = version[call.key]
  BY <1>1 DEF ResponseInv, CallTrue
<1> HIDE DEF call
<1>3. call.made \in Nat /\ call.since \in Nat /\ version[call.key] \in Nat
  BY <1>2, ResponseParts DEF CacheCall
<1>4. CacheTrue(entries', version, crossedFill)
  BY <1>1, <1>2, <1>3, StoredTrue
<1>5. /\ next \in CacheCall /\ next.at = "idle" /\ next.key = call.key /\ next.since = call.since
      /\ next.age = 0 /\ next.got = call.made
  BY <1>2, <1>3 DEF CacheCall
<1> HIDE DEF next
<1>6. 0 <= Ttl + StaleTtl
  BY ResponseParts
<1>7. CallTrue(next, version, crossedFill)
  BY <1>2, <1>3, <1>5, <1>6 DEF CallTrue
<1> QED
  BY <1>1, <1>4, <1>7, OneCallMoves

LEMMA Invalidated == ASSUME ResponseInv, NEW keys \in SUBSET Keys, Invalidate(keys) PROVE ResponseInv'
<1>1. /\ version' = [k \in Keys |-> IF k \in keys THEN version[k] + 1 ELSE version[k]]
      /\ entries' = Without(keys) /\ filling' = filling
      /\ crossedFill' = crossedFill \cup {k \in keys : \E c \in Takers : filling[c].at = "made" /\ filling[c].key = k}
  BY DEF Invalidate
<1>2. \A k \in Keys : version'[k] \in Nat /\ version[k] <= version'[k] /\ (k \notin keys => version'[k] = version[k])
  BY <1>1, ResponseParts
<1>3. version' \in [Keys -> Nat] /\ crossedFill' \subseteq Keys /\ crossedFill \subseteq crossedFill'
  BY <1>1, <1>2 DEF ResponseInv
<1> DEFINE r == Without(keys)
<1>4. /\ r \in Seq(CacheEntry) /\ CacheTrue(r, version, crossedFill)
      /\ \A i \in 1..Len(r) : r[i] \in ToSet(entries) /\ r[i].key \notin keys
  BY EntriesGo
<1> HIDE DEF r
<1>5. CacheTrue(entries', version', crossedFill')
  <2>1. \A i \in 1..Len(r) : r[i].key \in Keys
    BY <1>4, ResponseParts
  <2>2. UpToDate(r, version', crossedFill')
    BY <1>2, <1>3, <1>4, <2>1 DEF CacheTrue, UpToDate
  <2> QED
    BY <1>1, <1>4, <2>2 DEF CacheTrue, r
<1>6. ASSUME NEW c \in Takers PROVE CallTrue(filling[c], version', crossedFill')
  <2> DEFINE call == filling[c]
  <2>1. CallTrue(call, version, crossedFill)
    BY DEF ResponseInv
  <2>2. call.at = "made" /\ call.key \in keys => call.key \in crossedFill'
    BY <1>1
  <2> HIDE DEF call
  <2>3. call \in CacheCall /\ call.since \in Nat
    BY <2>1 DEF CallTrue, CacheCall
  <2>4. ASSUME call.at # "idle" PROVE call.key \in Keys /\ call.since <= version'[call.key] /\ call.age = 0
    <3>1. call.key \in Keys /\ call.since <= version[call.key] /\ call.age = 0
      BY <2>1, <2>4 DEF CallTrue
    <3>2. version[call.key] \in Nat /\ version'[call.key] \in Nat /\ version[call.key] <= version'[call.key]
      BY <1>2, <3>1, ResponseParts
    <3> QED
      BY <2>3, <3>1, <3>2
  <2>5. ASSUME call.at = "made", call.key \notin crossedFill' PROVE call.made = version'[call.key]
    BY <1>2, <1>3, <2>1, <2>2, <2>4, <2>5 DEF CallTrue
  <2>6. call.at = "idle" /\ call.got # 0 =>
          call.age <= Ttl + StaleTtl /\ (call.key \notin crossedFill' => call.got >= call.since)
    BY <1>3, <2>1 DEF CallTrue
  <2> QED
    BY <2>3, <2>4, <2>5, <2>6 DEF CallTrue, call
<1> QED
  BY <1>1, <1>3, <1>5, <1>6 DEF ResponseInv

LEMMA EntriesAge == ASSUME ResponseInv, ResponsesAge PROVE ResponseInv'
<1> DEFINE older == [i \in DOMAIN entries |->
                        [entries[i] EXCEPT !.age = Lesser(entries[i].age + 1, Ttl + StaleTtl + 1)]]
<1>1. entries' = older /\ version' = version /\ filling' = filling /\ crossedFill' = crossedFill
  BY DEF ResponsesAge
<1>2. \A i \in 1..Len(entries) : Lesser(entries[i].age + 1, Ttl + StaleTtl + 1) \in Nat
  BY ResponseParts DEF Lesser
<1>3. \A i \in 1..Len(entries) :
         older[i] = [entries[i] EXCEPT !.age = Lesser(entries[i].age + 1, Ttl + StaleTtl + 1)]
  BY ResponseParts
<1>4. \A i \in 1..Len(entries) :
         older[i] \in CacheEntry /\ older[i].key = entries[i].key /\ older[i].made = entries[i].made
  BY <1>2, <1>3, ResponseParts DEF CacheEntry
<1>5. older = [i \in 1..Len(entries) |-> older[i]]
  BY ResponseParts
<1> HIDE DEF older
<1>6. older \in [1..Len(entries) -> CacheEntry]
  BY <1>4, <1>5
<1>7. older \in Seq(CacheEntry) /\ Len(older) = Len(entries)
  BY <1>6, ResponseParts, LenProperties
<1>8. OneEach(older) /\ UpToDate(older, version, crossedFill)
  BY <1>4, <1>7 DEF ResponseInv, CacheTrue, OneEach, UpToDate
<1>9. CacheTrue(entries', version', crossedFill')
  BY <1>1, <1>7, <1>8, ResponseParts DEF CacheTrue
<1> QED
  BY <1>1, <1>9 DEF ResponseInv

LEMMA ResponseStep == ResponseInv /\ [ResponseNext]_responseVars => ResponseInv'
<1> SUFFICES ASSUME ResponseInv, [ResponseNext]_responseVars PROVE ResponseInv'
  OBVIOUS
<1>1. CASE ResponsesAge
  BY <1>1, EntriesAge
<1>2. ASSUME NEW keys \in SUBSET Keys, Invalidate(keys) PROVE ResponseInv'
  BY <1>2, Invalidated
<1>3. ASSUME NEW c \in Takers, EnterCache(c) \/ FactoryReads(c) \/ FillStored(c) PROVE ResponseInv'
  BY <1>3, CallEnters, FactoryDone, FillStoredTrue
<1>4. ASSUME NEW c \in Takers, FillGivesUp(c) PROVE ResponseInv'
  <2>1. /\ filling' = [filling EXCEPT ![c] = NoCall] /\ entries' = entries
        /\ version' = version /\ crossedFill' = crossedFill
    BY <1>4 DEF FillGivesUp
  <2>2. CallTrue(NoCall, version, crossedFill)
    BY DEF CallTrue, NoCall, CacheCall
  <2>3. CacheTrue(entries', version, crossedFill)
    BY <2>1 DEF ResponseInv
  <2> QED
    BY <2>1, <2>2, <2>3, OneCallMoves
<1>5. ASSUME NEW c \in Takers, NEW k \in Keys, GetOrSet(c, k) PROVE ResponseInv'
  <2> DEFINE call == [Asking(c, k) EXCEPT !.at = "locking"]
  <2>1. /\ filling' = [filling EXCEPT ![c] = call] /\ entries' = entries
        /\ version' = version /\ crossedFill' = crossedFill
    BY <1>5 DEF GetOrSet
  <2>2. CallTrue(call, version, crossedFill)
    BY AskingTrue
  <2>3. CacheTrue(entries', version, crossedFill)
    BY <2>1 DEF ResponseInv
  <2> HIDE DEF call
  <2> QED
    BY <2>1, <2>2, <2>3, OneCallMoves
<1>6. ASSUME NEW c \in Takers, NEW k \in Keys, CachedCall(c, k) PROVE ResponseInv'
  <2>1. LooksUp(c, k, Asking(c, k)) /\ version' = version /\ crossedFill' = crossedFill
    BY <1>6 DEF CachedCall
  <2>2. /\ Asking(c, k) \in CacheCall /\ Asking(c, k).key = k
        /\ Asking(c, k).since <= version[k] /\ Asking(c, k).age = 0
    BY AskingTrue
  <2> QED
    BY <2>1, <2>2, LookingUp
<1>7. CASE UNCHANGED responseVars
  BY <1>7 DEF ResponseInv, responseVars
<1> QED
  BY <1>1, <1>2, <1>3, <1>4, <1>5, <1>6, <1>7 DEF ResponseNext

LEMMA ResponseImplies == ResponseInv => ResponsesFresh
<1> SUFFICES ASSUME ResponseInv PROVE ResponsesFresh
  OBVIOUS
<1>1. \A i, j \in DOMAIN entries : i # j => entries[i].key # entries[j].key
  BY ResponseParts DEF ResponseInv, CacheTrue, OneEach
<1>2. \A c \in Takers : filling[c].at = "idle" /\ filling[c].got # 0 =>
          /\ filling[c].age <= Ttl + StaleTtl
          /\ filling[c].key \notin crossedFill => filling[c].got >= filling[c].since
  BY DEF ResponseInv, CallTrue
<1> QED
  BY <1>1, <1>2, ResponseParts DEF ResponsesFresh

\* What the cache returns is not from before an invalidation that was over
\* when the call began (ResponseCache).
THEOREM ResponsesSound == ResponseSpec => []ResponsesFresh
BY ResponseInitially, ResponseStep, ResponseImplies, PTL DEF ResponseSpec

\* The helpers of netsim/performance.py keep their promises together, whoever
\* is cancelled at whatever await (RequestBatcher, RateLimiter, ResponseCache).
THEOREM PerformanceTrue == BatchSpec /\ LimiterSpec /\ ResponseSpec => []PerformanceSound
BY BatchesSound, LimitsKept, ResponsesSound, PTL DEF PerformanceSound
=============================================================================
