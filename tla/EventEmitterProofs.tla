------------------------- MODULE EventEmitterProofs -------------------------
(***************************************************************************)
(* What MCEventEmitter checks for four events holds for any number of      *)
(* events, subscribers, workers and restarts.  That a subscriber sees the  *)
(* events in order and without gaps rests on where each event is on its    *)
(* way: in the queue, dropped, in the hands of a worker, or received.      *)
(***************************************************************************)
EXTENDS EventEmitter, SequenceFacts

Busy(w)    == worker[w].pc \in {"check", "get", "snapshot", "call"}
Holding(w) == worker[w].pc \in {"snapshot", "call"}

(* Worker w has yet to call s with event e. *)
Pending(w, s, e) ==
    /\ worker[w].event = e
    /\ \/ worker[w].pc = "snapshot"
       \/ worker[w].pc = "call" /\ s \in ToSet(worker[w].calls)

Matches(s, e)  == Topic[s] \in {Wildcard, TypeOf[e]}
Subscribed(s)  == s \in ToSet(subs[Topic[s]])
LastOf(s)      == received[s][Len(received[s])]

(* start() is called while no worker runs, unless a join gave up. *)
OneWorker ==
    /\ running => owner = "idle"
    /\ \A w \in Workers : worker[w].pc # "none" => w <= starts
    /\ timeouts = 0 =>
           /\ \A w \in Workers : Busy(w) => w = starts
           /\ owner = "idle" /\ ~running => \A w \in Workers : ~Busy(w)

(* An id stands once, in the list of its own topic, and is never reused. *)
ListsDistinct ==
    /\ \A t \in Topics :
           /\ IsInjective(subs[t])
           /\ \A s \in ToSet(subs[t]) : s \in minted /\ Topic[s] = t
    /\ \A w \in Workers :
           IsInjective(worker[w].calls) /\ ToSet(worker[w].calls) \subseteq minted
    /\ \A s \in Subscriptions : received[s] # <<>> => s \in minted

(* The queue is in the order of emission; what was taken came before it.    *)
Queued == ToSet(queue) \ {Sentinel}

InOrder(q) ==
    \A i, j \in 1..Len(q) : i < j /\ q[i] # Sentinel /\ q[j] # Sentinel => q[i] < q[j]

QueueInOrder ==
    /\ InOrder(queue)
    /\ \A e \in Queued : e <= emitted
    /\ \A w \in Workers :
           /\ worker[w].event <= emitted
           /\ \A e \in Queued : worker[w].event < e
           /\ Holding(w) => worker[w].event # Sentinel
    /\ \A v, w \in Workers :
           Holding(v) /\ Holding(w) /\ v # w => worker[v].event # worker[w].event

(* A subscriber has each event once, and none that is still to come. *)
ReceivedOnce ==
    \A s \in Subscriptions :
        /\ IsInjective(received[s])
        /\ \A e \in ToSet(received[s]) :
               /\ e <= emitted
               /\ \A d \in Queued : e < d
               /\ \A w \in Workers : ~Pending(w, s, e)

(* An event emit() was called with is dropped or queued until it is taken,  *)
(* and of the workers that took one the busy one was the last.              *)
NoneLost ==
    /\ \A e \in 1..emitted :
           e \in dropped \/ e \in Queued \/ \E w \in Workers : e <= worker[w].event
    /\ timeouts = 0 =>
           \A w \in Workers : Holding(w) => \A v \in Workers : worker[v].event <= worker[w].event

(* What one worker at a time has delivered to s up to now has no gap, the   *)
(* call it makes next leaves none, and everything later is on its way.      *)
Skipped(s, d, e) == \A n \in (d + 1)..(e - 1) : Matches(s, n) => n \in dropped

Delivery(s) ==
    \A i \in 1..(Len(received[s]) - 1) :
        received[s][i] < received[s][i + 1] /\ Skipped(s, received[s][i], received[s][i + 1])

NextCall(s) ==
    received[s] # <<>> =>
        \A w \in Workers :
            /\ Holding(w) => LastOf(s) <= worker[w].event
            /\ worker[w].pc = "call" /\ s \in ToSet(worker[w].calls) =>
                   Skipped(s, LastOf(s), worker[w].event)

OnItsWay(s) ==
    received[s] # <<>> /\ Subscribed(s) =>
        \A e \in (LastOf(s) + 1)..emitted :
            Matches(s, e) => \/ e \in dropped
                             \/ e \in Queued
                             \/ \E w \in Workers : Pending(w, s, e)

NoGaps ==
    timeouts = 0 => \A s \in Subscriptions : Delivery(s) /\ NextCall(s) /\ OnItsWay(s)

EmitterInv ==
    /\ TypeOK
    /\ OneWorker
    /\ ListsDistinct
    /\ QueueInOrder
    /\ ReceivedOnce
    /\ NoneLost
    /\ NoGaps

-----------------------------------------------------------------------------
(* What each step of a worker does to it.                                   *)
Becomes(w, pc, event, calls) ==
    /\ \A v \in Workers : v # w => worker'[v] = worker[v]
    /\ worker'[w].pc = pc /\ worker'[w].event = event /\ worker'[w].calls = calls
    /\ worker' \in [Workers -> [pc : {"none", "check", "get", "snapshot", "call", "done"},
                                event : Events \cup {Sentinel},
                                calls : Seq(Subscriptions)]]

LEMMA TopicLists ==
  ASSUME TypeOK, NEW e \in Events
  PROVE  /\ subs[TypeOf[e]] \in Seq(Subscriptions) /\ subs[Wildcard] \in Seq(Subscriptions)
         /\ subs[TypeOf[e]] \o subs[Wildcard] \in Seq(Subscriptions)
<1>1. TypeOf[e] \in Topics /\ Wildcard \in Topics
  BY EmitterAssumption DEF Events, Topics
<1>2. subs[TypeOf[e]] \in Seq(Subscriptions) /\ subs[Wildcard] \in Seq(Subscriptions)
  BY <1>1 DEF TypeOK
<1> QED
  BY <1>2, ConcatFacts

LEMMA WorkerSteps ==
  ASSUME TypeOK, QueueInOrder, NEW w \in Workers
  PROVE  /\ CheckRunning(w) => Becomes(w, IF running THEN "get" ELSE "done",
                                       worker[w].event, worker[w].calls)
         /\ GetEmpty(w) \/ Delivered(w) => Becomes(w, "check", worker[w].event, worker[w].calls)
         /\ Get(w) => IF Head(queue) = Sentinel
                      THEN Becomes(w, "done", worker[w].event, worker[w].calls)
                      ELSE Becomes(w, "snapshot", Head(queue), worker[w].calls)
         /\ Snapshot(w) => Becomes(w, "call", worker[w].event,
                                   subs[TypeOf[worker[w].event]] \o subs[Wildcard])
         /\ Call(w) => Becomes(w, "call", worker[w].event, Tail(worker[w].calls))
<1>0. worker \in [Workers -> [pc : {"none", "check", "get", "snapshot", "call", "done"},
                              event : Events \cup {Sentinel},
                              calls : Seq(Subscriptions)]]
  BY DEF TypeOK
<1>1. CheckRunning(w) => Becomes(w, IF running THEN "get" ELSE "done",
                                 worker[w].event, worker[w].calls)
  BY <1>0 DEF CheckRunning, Becomes
<1>2. GetEmpty(w) \/ Delivered(w) => Becomes(w, "check", worker[w].event, worker[w].calls)
  <2>1. GetEmpty(w) \/ Delivered(w) => worker' = [worker EXCEPT ![w].pc = "check"]
    BY DEF GetEmpty, Delivered
  <2> QED
    BY <1>0, <2>1 DEF Becomes
<1>3. ASSUME Get(w)
      PROVE  IF Head(queue) = Sentinel
             THEN Becomes(w, "done", worker[w].event, worker[w].calls)
             ELSE Becomes(w, "snapshot", Head(queue), worker[w].calls)
  <2>1. Head(queue) \in Events \cup {Sentinel}
    BY <1>3, TailFacts DEF Get, TypeOK
  <2> QED
    BY <1>0, <1>3, <2>1 DEF Get, Becomes
<1>4. ASSUME Snapshot(w)
      PROVE  Becomes(w, "call", worker[w].event, subs[TypeOf[worker[w].event]] \o subs[Wildcard])
  <2>1. worker[w].event \in Events
    BY <1>0, <1>4 DEF Snapshot, QueueInOrder, Holding
  <2>2. subs[TypeOf[worker[w].event]] \o subs[Wildcard] \in Seq(Subscriptions)
    BY <2>1, TopicLists
  <2> QED
    BY <1>0, <1>4, <2>2 DEF Snapshot, Becomes
<1>5. ASSUME Call(w) PROVE Becomes(w, "call", worker[w].event, Tail(worker[w].calls))
  <2>1. Tail(worker[w].calls) \in Seq(Subscriptions)
    BY <1>0, <1>5, TailFacts DEF Call
  <2> QED
    BY <1>0, <1>5, <2>1 DEF Call, Becomes
<1> QED
  BY <1>1, <1>2, <1>3, <1>4, <1>5

LEMMA StartStep ==
  ASSUME TypeOK, start
  PROVE  /\ starts + 1 \in Workers
         /\ Becomes(starts + 1, "check", worker[starts + 1].event, worker[starts + 1].calls)
<1>1. starts + 1 \in Workers
  BY EmitterAssumption DEF TypeOK, start, Workers
<1>2. worker \in [Workers -> [pc : {"none", "check", "get", "snapshot", "call", "done"},
                              event : Events \cup {Sentinel},
                              calls : Seq(Subscriptions)]]
  BY DEF TypeOK
<1>3. worker' = [worker EXCEPT ![starts + 1].pc = "check"]
  BY DEF start
<1> QED
  BY <1>1, <1>2, <1>3 DEF Becomes

-----------------------------------------------------------------------------
(* What emit() and StopPut put at the end of the queue, and what Get takes  *)
(* from its head.                                                           *)
LEMMA Enqueued ==
  ASSUME TypeOK, NEW e \in Events \cup {Sentinel}, queue' = Append(queue, e)
  PROVE  /\ queue' \in Seq(Events \cup {Sentinel})
         /\ Len(queue') = Len(queue) + 1
         /\ ToSet(queue') = ToSet(queue) \cup {e}
         /\ InOrder(queue) /\ (e = Sentinel \/ \A d \in Queued : d < e) => InOrder(queue')
<1>0. queue \in Seq(Events \cup {Sentinel}) /\ DOMAIN queue = 1..Len(queue)
  BY LenProperties DEF TypeOK
<1>1. /\ queue' \in Seq(Events \cup {Sentinel})
      /\ Len(queue') = Len(queue) + 1 /\ Len(queue) \in Nat
      /\ \A i \in 1..Len(queue) : queue'[i] = queue[i]
      /\ queue'[Len(queue) + 1] = e
      /\ ToSet(queue') = ToSet(queue) \cup {e}
  BY <1>0, AppendFacts
<1>2. ASSUME InOrder(queue), e = Sentinel \/ \A d \in Queued : d < e
      PROVE  InOrder(queue')
  <2> SUFFICES ASSUME NEW i \in 1..(Len(queue) + 1), NEW j \in 1..(Len(queue) + 1),
                      i < j, queue'[i] # Sentinel, queue'[j] # Sentinel
               PROVE  queue'[i] < queue'[j]
    BY <1>1 DEF InOrder
  <2>1. i \in 1..Len(queue) /\ queue'[i] = queue[i]
    BY <1>1
  <2>2. queue[i] \in Queued
    BY <1>0, <1>1, <2>1 DEF Queued, ToSet
  <2>3. CASE j = Len(queue) + 1
    BY <1>1, <1>2, <2>1, <2>2, <2>3
  <2>4. CASE j \in 1..Len(queue)
    BY <1>1, <1>2, <2>1, <2>4 DEF InOrder
  <2> QED
    BY <1>1, <2>3, <2>4
<1> QED
  BY <1>1, <1>2

LEMMA Dequeued ==
  ASSUME TypeOK, queue # <<>>, queue' = Tail(queue)
  PROVE  /\ Head(queue) \in Events \cup {Sentinel}
         /\ queue' \in Seq(Events \cup {Sentinel}) /\ Len(queue') < Len(queue)
         /\ ToSet(queue) = {Head(queue)} \cup ToSet(queue')
         /\ InOrder(queue) =>
                /\ InOrder(queue')
                /\ Head(queue) # Sentinel => \A d \in Queued' : Head(queue) < d
<1> USE DEF TypeOK
<1>1. /\ Head(queue) \in Events \cup {Sentinel} /\ Head(queue) = queue[1]
      /\ queue' \in Seq(Events \cup {Sentinel}) /\ Len(queue') = Len(queue) - 1
      /\ \A i \in 1..Len(queue') : queue'[i] = queue[i + 1]
      /\ ToSet(queue) = {Head(queue)} \cup ToSet(queue')
      /\ Len(queue) \in Nat /\ Len(queue') \in Nat
  BY TailFacts
<1>2. ASSUME InOrder(queue) PROVE InOrder(queue')
  <2> SUFFICES ASSUME NEW i \in 1..Len(queue'), NEW j \in 1..Len(queue'),
                      i < j, queue'[i] # Sentinel, queue'[j] # Sentinel
               PROVE  queue'[i] < queue'[j]
    BY DEF InOrder
  <2>1. i + 1 \in 1..Len(queue) /\ j + 1 \in 1..Len(queue) /\ i + 1 < j + 1
    BY <1>1
  <2> QED
    BY <1>1, <1>2, <2>1 DEF InOrder
<1>3. ASSUME InOrder(queue), Head(queue) # Sentinel, NEW d \in Queued'
      PROVE  Head(queue) < d
  <2>1. PICK i \in 1..Len(queue') : queue'[i] = d
    BY <1>1, LenProperties DEF Queued, ToSet
  <2>2. i + 1 \in 1..Len(queue) /\ 1 \in 1..Len(queue) /\ 1 < i + 1
    BY <1>1, <2>1
  <2>3. queue[i + 1] = d /\ d # Sentinel
    BY <1>1, <1>3, <2>1 DEF Queued
  <2> QED
    BY <1>1, <1>3, <2>2, <2>3 DEF InOrder
<1> QED
  BY <1>1, <1>2, <1>3

-----------------------------------------------------------------------------
LEMMA TypesKept == EmitterInv /\ [Next]_vars => TypeOK'
<1> SUFFICES ASSUME EmitterInv, [Next]_vars PROVE TypeOK'
  OBVIOUS
<1> USE EmitterAssumption
<1>0. TypeOK /\ QueueInOrder /\ Len(queue) \in Nat
  BY DEF EmitterInv, TypeOK
<1> DEFINE Rest == /\ running \in BOOLEAN /\ minted \subseteq Subscriptions
                   /\ starts \in 0..MaxStarts /\ owner \in {"idle", "put", "join"}
                   /\ timeouts \in 0..MaxTimeouts /\ emitted \in 0..MaxEvents
                   /\ dropped \subseteq Events
           Fits == queue \in Seq(Events \cup {Sentinel}) /\ Len(queue) <= Capacity
           Lists == subs \in [Topics -> Seq(Subscriptions)]
           Hands == worker \in [Workers -> [pc : {"none", "check", "get", "snapshot",
                                                  "call", "done"},
                                            event : Events \cup {Sentinel},
                                            calls : Seq(Subscriptions)]]
           Got == received \in [Subscriptions -> Seq(Events)]
<1>1. Rest /\ Fits /\ Lists /\ Hands /\ Got
  BY <1>0 DEF TypeOK
<1>2. ASSUME Rest', Fits', Lists', Hands', Got' PROVE TypeOK'
  BY <1>2 DEF TypeOK
<1>3. CASE emit
  <2>1. emitted' \in Events
    BY <1>1, <1>3 DEF emit, Events
  <2>2. Fits'
    BY <1>0, <1>1, <1>3, <2>1, Enqueued DEF emit
  <2>3. Rest'
    <3>1. emitted' \in 0..MaxEvents
      BY <2>1 DEF Events
    <3>2. dropped' \subseteq Events
      BY <1>1, <1>3, <2>1 DEF emit
    <3> QED
      BY <1>1, <1>3, <3>1, <3>2 DEF emit
  <2> QED
    BY <1>1, <1>2, <1>3, <2>2, <2>3 DEF emit
<1>4. ASSUME NEW s \in Subscriptions, subscribe(s) PROVE TypeOK'
  <2>1. Topic[s] \in Topics /\ Append(subs[Topic[s]], s) \in Seq(Subscriptions)
    BY <1>1 DEF Topics
  <2> QED
    BY <1>1, <1>2, <1>4, <2>1 DEF subscribe
<1>5. ASSUME NEW s \in Subscriptions, unsubscribe(s) PROVE TypeOK'
  <2>1. Topic[s] \in Topics /\ subs[Topic[s]] \in Seq(Subscriptions)
    BY <1>1 DEF Topics
  <2>2. PICK i \in 1..Len(subs[Topic[s]]) :
            subs' = [subs EXCEPT ![Topic[s]] = RemoveAt(subs[Topic[s]], i)]
    BY <1>5, <2>1, LenProperties DEF unsubscribe
  <2>3. RemoveAt(subs[Topic[s]], i) \in Seq(Subscriptions)
    BY <2>1, RemoveFacts
  <2> QED
    BY <1>1, <1>2, <1>5, <2>2, <2>3 DEF unsubscribe
<1>6. CASE start
  <2>1. Hands' /\ starts + 1 \in 0..MaxStarts
    BY <1>0, <1>6, StartStep DEF Becomes, Workers
  <2> QED
    BY <1>1, <1>2, <1>6, <2>1 DEF start
<1>7. CASE StopFlag \/ StopJoin
  BY <1>1, <1>2, <1>7 DEF StopFlag, StopJoin
<1>8. CASE StopPut
  <2>1. Fits'
    BY <1>0, <1>1, <1>8, Enqueued DEF StopPut
  <2> QED
    BY <1>1, <1>2, <1>8, <2>1 DEF StopPut
<1>9. CASE StopJoinTimeout
  <2>1. timeouts' \in 0..MaxTimeouts
    BY <1>1, <1>9 DEF StopJoinTimeout
  <2> QED
    BY <1>1, <1>2, <1>9, <2>1 DEF StopJoinTimeout
<1>10. ASSUME NEW w \in Workers, CheckRunning(w) \/ GetEmpty(w) \/ Snapshot(w) \/ Delivered(w)
       PROVE  TypeOK'
  <2>1. Hands'
    BY <1>0, <1>10, WorkerSteps DEF Becomes
  <2> QED
    BY <1>1, <1>2, <1>10, <2>1 DEF CheckRunning, GetEmpty, Snapshot, Delivered
<1>11. ASSUME NEW w \in Workers, Get(w) PROVE TypeOK'
  <2>1. Hands'
    BY <1>0, <1>11, WorkerSteps DEF Becomes
  <2>2. Fits'
    BY <1>0, <1>1, <1>11, Dequeued DEF Get
  <2> QED
    BY <1>1, <1>2, <1>11, <2>1, <2>2 DEF Get
<1>12. ASSUME NEW w \in Workers, Call(w) PROVE TypeOK'
  <2>1. Hands'
    BY <1>0, <1>12, WorkerSteps DEF Becomes
  <2>2. Head(worker[w].calls) \in Subscriptions
    BY <1>1, <1>12, TailFacts DEF Call
  <2>3. worker[w].event \in Events
    BY <1>0, <1>1, <1>12 DEF Call, QueueInOrder, Holding
  <2>4. Append(received[Head(worker[w].calls)], worker[w].event) \in Seq(Events)
    BY <1>1, <2>2, <2>3
  <2>5. Got'
    BY <1>1, <1>12, <2>2, <2>4 DEF Call
  <2> QED
    BY <1>1, <1>2, <1>12, <2>1, <2>5 DEF Call
<1>13. CASE UNCHANGED vars
  BY <1>1, <1>2, <1>13 DEF vars
<1> QED
  BY <1>3, <1>4, <1>5, <1>6, <1>7, <1>8, <1>9, <1>10, <1>11, <1>12, <1>13
  DEF Next, stop, WorkerStep

LEMMA OneWorkerKept == EmitterInv /\ [Next]_vars => OneWorker'
<1> SUFFICES ASSUME EmitterInv, [Next]_vars PROVE OneWorker'
  OBVIOUS
<1>0. TypeOK /\ OneWorker /\ QueueInOrder
  BY DEF EmitterInv
<1> USE DEF OneWorker, Busy
<1>1. CASE emit \/ \E s \in Subscriptions : subscribe(s) \/ unsubscribe(s)
  BY <1>0, <1>1 DEF emit, subscribe, unsubscribe
<1>2. CASE start
  <2>1. \A w \in Workers : ~(w <= starts) => worker[w].pc = "none"
    BY <1>0
  <2>2. /\ running' /\ owner' = owner /\ owner = "idle" /\ ~running
        /\ starts' = starts + 1 /\ timeouts' = timeouts /\ starts \in Nat
        /\ \A w \in Workers : w \in Nat
    BY <1>0, <1>2 DEF start, TypeOK, Workers
  <2>3. /\ starts + 1 \in Workers /\ worker'[starts + 1].pc = "check"
        /\ \A v \in Workers : v # starts + 1 => worker'[v] = worker[v]
    BY <1>0, <1>2, StartStep DEF Becomes
  <2> QED
    BY <1>0, <2>1, <2>2, <2>3
<1>3. CASE StopFlag \/ StopPut \/ StopJoinTimeout
  BY <1>0, <1>3 DEF StopFlag, StopPut, StopJoinTimeout, TypeOK
<1>4. CASE StopJoin
  BY <1>0, <1>4 DEF StopJoin
<1>5. ASSUME NEW w \in Workers, WorkerStep(w) PROVE OneWorker'
  <2>1. UNCHANGED <<running, owner, starts, timeouts>>
    BY <1>5 DEF WorkerStep, CheckRunning, GetEmpty, Get, Snapshot, Call, Delivered
  <2>2. Busy(w)
    BY <1>5 DEF WorkerStep, CheckRunning, GetEmpty, Get, Snapshot, Call, Delivered
  <2>3. \A v \in Workers : v # w => worker'[v] = worker[v]
    BY <1>0, <1>5, WorkerSteps DEF WorkerStep, Becomes
  <2> QED
    BY <1>0, <2>1, <2>2, <2>3
<1>6. CASE UNCHANGED vars
  BY <1>0, <1>6 DEF vars
<1> QED
  BY <1>1, <1>2, <1>3, <1>4, <1>5, <1>6 DEF Next, stop

LEMMA ListsKept == EmitterInv /\ [Next]_vars => ListsDistinct'
<1> SUFFICES ASSUME EmitterInv, [Next]_vars PROVE ListsDistinct'
  OBVIOUS
<1>0. TypeOK /\ ListsDistinct /\ QueueInOrder
  BY DEF EmitterInv
<1>t. \A s \in Subscriptions : Topic[s] \in Topics
  BY EmitterAssumption DEF Topics
<1> DEFINE Lists == \A t \in Topics :
               /\ IsInjective(subs[t])
               /\ \A s \in ToSet(subs[t]) : s \in minted /\ Topic[s] = t
           Calls == \A w \in Workers :
               IsInjective(worker[w].calls) /\ ToSet(worker[w].calls) \subseteq minted
           Got == \A s \in Subscriptions : received[s] # <<>> => s \in minted
<1>1. Lists /\ Calls /\ Got
  BY <1>0 DEF ListsDistinct
<1>2. ASSUME Lists', Calls', Got' PROVE ListsDistinct'
  BY <1>2 DEF ListsDistinct
<1>3. CASE emit \/ StopFlag \/ StopPut \/ StopJoin \/ StopJoinTimeout \/ UNCHANGED vars
  BY <1>1, <1>2, <1>3 DEF emit, StopFlag, StopPut, StopJoin, StopJoinTimeout, vars
<1>4. ASSUME NEW s \in Subscriptions, subscribe(s) PROVE ListsDistinct'
  <2>1. Calls' /\ Got'
    BY <1>1, <1>4 DEF subscribe
  <2>2. ASSUME NEW t \in Topics
        PROVE  /\ IsInjective(subs'[t])
               /\ \A u \in ToSet(subs'[t]) : u \in minted' /\ Topic[u] = t
    <3>1. CASE t # Topic[s]
      BY <1>0, <1>1, <1>4, <3>1 DEF subscribe, TypeOK
    <3>2. CASE t = Topic[s]
      <4>1. subs[t] \in Seq(Subscriptions) /\ subs'[t] = Append(subs[t], s)
        BY <1>0, <1>4, <3>2 DEF subscribe, TypeOK
      <4>2. s \notin ToSet(subs[t])
        BY <1>1, <1>4 DEF subscribe
      <4>3. IsInjective(subs'[t]) /\ ToSet(subs'[t]) = ToSet(subs[t]) \cup {s}
        BY <1>1, <4>1, <4>2, AppendFacts
      <4> QED
        BY <1>1, <1>4, <3>2, <4>3 DEF subscribe
    <3> QED
      BY <3>1, <3>2
  <2> QED
    BY <1>2, <2>1, <2>2
<1>5. ASSUME NEW s \in Subscriptions, unsubscribe(s) PROVE ListsDistinct'
  <2>1. Calls' /\ Got'
    BY <1>1, <1>5 DEF unsubscribe
  <2>2. ASSUME NEW t \in Topics
        PROVE  /\ IsInjective(subs'[t])
               /\ \A u \in ToSet(subs'[t]) : u \in minted' /\ Topic[u] = t
    <3>1. CASE t # Topic[s]
      BY <1>0, <1>1, <1>5, <3>1 DEF unsubscribe, TypeOK
    <3>2. CASE t = Topic[s]
      <4>1. subs[t] \in Seq(Subscriptions) /\ DOMAIN subs[t] = 1..Len(subs[t])
        BY <1>0, LenProperties DEF TypeOK
      <4>2. PICK i \in 1..Len(subs[t]) : subs'[t] = RemoveAt(subs[t], i)
        BY <1>0, <1>5, <3>2, <4>1 DEF unsubscribe, TypeOK
      <4>3. IsInjective(subs'[t]) /\ ToSet(subs'[t]) \subseteq ToSet(subs[t])
        BY <1>1, <4>1, <4>2, RemoveFacts
      <4> QED
        BY <1>1, <1>5, <4>3 DEF unsubscribe
    <3> QED
      BY <3>1, <3>2
  <2> QED
    BY <1>2, <2>1, <2>2
<1>6. CASE start
  BY <1>0, <1>1, <1>2, <1>6, StartStep DEF start, Becomes, TypeOK
<1>7. ASSUME NEW w \in Workers, CheckRunning(w) \/ GetEmpty(w) \/ Delivered(w) \/ Get(w)
      PROVE  ListsDistinct'
  <2>1. \A v \in Workers : worker'[v].calls = worker[v].calls
    BY <1>0, <1>7, WorkerSteps DEF Becomes
  <2>2. UNCHANGED <<subs, minted, received>>
    BY <1>7 DEF CheckRunning, GetEmpty, Delivered, Get
  <2> QED
    BY <1>1, <1>2, <2>1, <2>2
<1>8. ASSUME NEW w \in Workers, Snapshot(w) PROVE ListsDistinct'
  <2> DEFINE e == worker[w].event
  <2>1. e \in Events /\ TypeOf[e] \in Types /\ TypeOf[e] \in Topics /\ Wildcard \in Topics
    BY <1>0, <1>8, EmitterAssumption
    DEF Snapshot, QueueInOrder, Holding, TypeOK, Events, Topics
  <2>2. ToSet(subs[TypeOf[e]]) \cap ToSet(subs[Wildcard]) = {}
    BY <1>1, <2>1, EmitterAssumption
  <2>3. subs[TypeOf[e]] \in Seq(Subscriptions) /\ subs[Wildcard] \in Seq(Subscriptions)
    BY <1>0, <2>1 DEF TypeOK
  <2>4. /\ worker'[w].calls = subs[TypeOf[e]] \o subs[Wildcard]
        /\ \A v \in Workers : v # w => worker'[v] = worker[v]
    BY <1>0, <1>8, WorkerSteps DEF Becomes
  <2>5. /\ IsInjective(worker'[w].calls)
        /\ ToSet(worker'[w].calls) = ToSet(subs[TypeOf[e]]) \cup ToSet(subs[Wildcard])
    BY <1>1, <2>1, <2>2, <2>3, <2>4, ConcatFacts
  <2>6. UNCHANGED <<subs, minted, received>>
    BY <1>8 DEF Snapshot
  <2> QED
    BY <1>1, <1>2, <2>1, <2>4, <2>5, <2>6
<1>9. ASSUME NEW w \in Workers, Call(w) PROVE ListsDistinct'
  <2>1. worker[w].calls \in Seq(Subscriptions) /\ worker[w].calls # <<>>
    BY <1>0, <1>9 DEF TypeOK, Call
  <2>2. /\ ToSet(worker[w].calls) = {Head(worker[w].calls)} \cup ToSet(Tail(worker[w].calls))
        /\ IsInjective(Tail(worker[w].calls))
    BY <1>1, <2>1, TailFacts
  <2>3. /\ worker'[w].calls = Tail(worker[w].calls)
        /\ \A v \in Workers : v # w => worker'[v] = worker[v]
    BY <1>0, <1>9, WorkerSteps DEF Becomes
  <2>4. /\ UNCHANGED <<subs, minted>>
        /\ \A s \in Subscriptions : s # Head(worker[w].calls) => received'[s] = received[s]
    BY <1>0, <1>9 DEF Call, TypeOK
  <2>5. Got'
    BY <1>1, <2>2, <2>4
  <2>6. Calls'
    BY <1>1, <2>2, <2>3, <2>4
  <2> QED
    BY <1>1, <1>2, <2>4, <2>5, <2>6
<1> QED
  BY <1>3, <1>4, <1>5, <1>6, <1>7, <1>8, <1>9 DEF Next, stop, WorkerStep

(* Events are numbers, wherever they are. *)
LEMMA Numbers ==
  ASSUME TypeOK
  PROVE  /\ emitted \in Nat /\ Queued \subseteq Events /\ Events \subseteq Nat
         /\ \A w \in Workers : worker[w].event \in Nat
         /\ \A s \in Subscriptions : ToSet(received[s]) \subseteq Events
<1>1. \A e \in ToSet(queue) : e \in Events \cup {Sentinel}
  BY ElementOfSeq, LenProperties DEF TypeOK, ToSet
<1>2. ASSUME NEW s \in Subscriptions PROVE ToSet(received[s]) \subseteq Events
  BY ElementOfSeq, LenProperties DEF TypeOK, ToSet
<1> QED
  BY <1>1, <1>2 DEF TypeOK, Queued, Events, Sentinel

LEMMA QueueKept == EmitterInv /\ [Next]_vars => QueueInOrder'
<1> SUFFICES ASSUME EmitterInv, [Next]_vars PROVE QueueInOrder'
  OBVIOUS
<1>0. TypeOK /\ QueueInOrder /\ OneWorker
  BY DEF EmitterInv
<1>1. /\ emitted \in Nat /\ Queued \subseteq Events
      /\ \A w \in Workers : worker[w].event \in Nat
  BY <1>0, Numbers
<1> USE DEF QueueInOrder
<1>2. CASE emit
  <2>1. emitted' = emitted + 1 /\ UNCHANGED worker
    BY <1>2 DEF emit
  <2>2. CASE Len(queue) < Capacity
    <3>1. queue' = Append(queue, emitted') /\ emitted' \in Events
      BY <1>0, <1>1, <1>2, <2>2, EmitterAssumption DEF emit, Events
    <3>2. \A d \in Queued : d < emitted'
      BY <1>0, <1>1, <2>1 DEF Events
    <3>3. InOrder(queue') /\ Queued' = Queued \cup {emitted'}
      BY <1>0, <3>1, <3>2, Enqueued DEF Queued, Events, Sentinel
    <3>4. \A w \in Workers : worker'[w].event <= emitted' /\ worker'[w].event < emitted'
      BY <1>0, <1>1, <2>1
    <3>5. \A e \in Queued' : e <= emitted'
      <4>1. emitted' <= emitted'
        BY <1>1, <2>1
      <4>2. ASSUME NEW e \in Queued PROVE e <= emitted'
        <5>1. e < emitted' /\ e \in Nat /\ emitted' \in Nat
          BY <1>1, <2>1, <3>2 DEF Events
        <5> QED
          BY <5>1
      <4> QED
        BY <3>3, <4>1, <4>2
    <3>6. \A w \in Workers : \A e \in Queued' : worker'[w].event < e
      BY <1>0, <2>1, <3>3, <3>4
    <3> QED
      BY <1>0, <2>1, <3>3, <3>4, <3>5, <3>6 DEF Holding
  <2>3. CASE ~(Len(queue) < Capacity)
    BY <1>0, <1>1, <1>2, <2>1, <2>3 DEF emit, Queued, Holding, Events
  <2> QED
    BY <2>2, <2>3
<1>3. CASE StopPut
  <2>1. InOrder(queue') /\ Queued' = Queued
    BY <1>0, <1>3, Enqueued DEF StopPut, Queued
  <2> QED
    BY <1>0, <1>3, <2>1 DEF StopPut, Holding
<1>4. CASE StopFlag \/ StopJoin \/ StopJoinTimeout \/ UNCHANGED vars
           \/ \E s \in Subscriptions : subscribe(s) \/ unsubscribe(s)
  BY <1>0, <1>4
  DEF StopFlag, StopJoin, StopJoinTimeout, vars, subscribe, unsubscribe, Queued, Holding
<1>5. ASSUME NEW w \in Workers, UNCHANGED <<queue, emitted>>,
             \A v \in Workers : /\ worker'[v].event = worker[v].event
                                /\ Holding(v)' => Holding(v)
      PROVE  QueueInOrder'
  BY <1>0, <1>5 DEF Queued
<1>6. CASE start
  BY <1>0, <1>5, <1>6, StartStep DEF start, Becomes, Holding, TypeOK
<1>7. ASSUME NEW w \in Workers,
             CheckRunning(w) \/ GetEmpty(w) \/ Delivered(w) \/ Snapshot(w) \/ Call(w)
      PROVE  QueueInOrder'
  <2>1. \A v \in Workers : v # w => worker'[v] = worker[v]
    BY <1>0, <1>7, WorkerSteps DEF Becomes
  <2>2. worker'[w].event = worker[w].event /\ (Holding(w)' => Holding(w))
    BY <1>0, <1>7, WorkerSteps
    DEF Becomes, Holding, CheckRunning, GetEmpty, Delivered, Snapshot, Call
  <2>3. UNCHANGED <<queue, emitted>>
    BY <1>7 DEF CheckRunning, GetEmpty, Delivered, Snapshot, Call
  <2> QED
    BY <1>5, <2>1, <2>2, <2>3 DEF Holding
<1>8. ASSUME NEW w \in Workers, Get(w) PROVE QueueInOrder'
  <2> DEFINE h == Head(queue)
  <2>1. /\ h \in ToSet(queue) /\ InOrder(queue') /\ Queued' \subseteq Queued
        /\ h # Sentinel => \A d \in Queued' : h < d
    BY <1>0, <1>8, Dequeued DEF Get, Queued
  <2>2. \A v \in Workers : v # w => worker'[v] = worker[v]
    BY <1>0, <1>8, WorkerSteps DEF Becomes
  <2>3. UNCHANGED emitted
    BY <1>8 DEF Get
  <2>4. CASE h = Sentinel
    <3>1. worker'[w].event = worker[w].event /\ ~Holding(w)'
      BY <1>0, <1>8, <2>4, WorkerSteps DEF Becomes, Holding
    <3> QED
      BY <1>0, <2>1, <2>2, <2>3, <3>1 DEF Holding
  <2>5. CASE h # Sentinel
    <3>1. worker'[w].event = h /\ h \in Queued
      BY <1>0, <1>8, <2>1, <2>5, WorkerSteps DEF Becomes, Queued
    <3>2. \A v \in Workers : worker[v].event # h
      BY <1>0, <1>1, <3>1
    <3> QED
      BY <1>0, <1>1, <2>1, <2>2, <2>3, <2>5, <3>1, <3>2 DEF Holding
  <2> QED
    BY <2>4, <2>5
<1> QED
  BY <1>2, <1>3, <1>4, <1>6, <1>7, <1>8 DEF Next, stop, WorkerStep

LEMMA ReceivedKept == EmitterInv /\ [Next]_vars => ReceivedOnce'
<1> SUFFICES ASSUME EmitterInv, [Next]_vars PROVE ReceivedOnce'
  OBVIOUS
<1>0. TypeOK /\ QueueInOrder /\ ListsDistinct /\ ReceivedOnce
  BY DEF EmitterInv
<1>1. /\ emitted \in Nat /\ Queued \subseteq Nat
      /\ \A w \in Workers : worker[w].event \in Nat
      /\ \A s \in Subscriptions : ToSet(received[s]) \subseteq Nat
  BY <1>0, Numbers
<1> DEFINE Quiet == \A w \in Workers, s \in Subscriptions, e \in Nat :
                        Pending(w, s, e)' => Pending(w, s, e) \/ e \in Queued
(* Nothing is received, and what is new to a worker comes from the queue. *)
<1>2. ASSUME UNCHANGED received, emitted' \in Nat, emitted <= emitted', Quiet,
             \A d \in Queued' : d \in Queued \/ d = emitted + 1
      PROVE  ReceivedOnce'
  <2> SUFFICES ASSUME NEW s \in Subscriptions, NEW e \in ToSet(received[s])
               PROVE  /\ e <= emitted'
                      /\ \A d \in Queued' : e < d
                      /\ \A w \in Workers : ~Pending(w, s, e)'
    BY <1>0, <1>2 DEF ReceivedOnce
  <2>1. /\ e \in Nat /\ e <= emitted /\ \A d \in Queued : e < d
        /\ \A w \in Workers : ~Pending(w, s, e)
    BY <1>0, <1>1 DEF ReceivedOnce
  <2>2. e \notin Queued
    BY <2>1
  <2>3. e <= emitted' /\ e < emitted + 1
    BY <1>1, <1>2, <2>1
  <2> QED
    BY <1>2, <2>1, <2>2, <2>3
<1>3. CASE emit
  <2>1. /\ emitted' = emitted + 1 /\ emitted' \in Events /\ UNCHANGED <<worker, received>>
    BY <1>0, <1>1, <1>3, EmitterAssumption DEF emit, Events
  <2>2. \A d \in Queued' : d \in Queued \/ d = emitted + 1
    BY <1>0, <1>3, <2>1, Enqueued DEF emit, Queued
  <2>3. Quiet
    BY <2>1 DEF Pending
  <2>4. emitted' \in Nat /\ emitted <= emitted'
    BY <1>1, <2>1
  <2> QED
    BY <1>2, <2>1, <2>2, <2>3, <2>4
<1>4. CASE StopPut
  <2>1. Queued' = Queued
    BY <1>0, <1>4, Enqueued DEF StopPut, Queued
  <2>2. UNCHANGED <<worker, received, emitted>>
    BY <1>4 DEF StopPut
  <2> QED
    BY <1>1, <1>2, <2>1, <2>2 DEF Pending
<1>5. CASE StopFlag \/ StopJoin \/ StopJoinTimeout \/ UNCHANGED vars
           \/ \E s \in Subscriptions : subscribe(s) \/ unsubscribe(s)
  <2>1. UNCHANGED <<worker, received, emitted, queue>>
    BY <1>5 DEF StopFlag, StopJoin, StopJoinTimeout, vars, subscribe, unsubscribe
  <2> QED
    BY <1>1, <1>2, <2>1 DEF Pending, Queued
<1>6. CASE start
  <2>1. UNCHANGED <<received, emitted, queue>>
    BY <1>6 DEF start
  <2>2. Quiet
    BY <1>0, <1>6, StartStep DEF Becomes, Pending
  <2> QED
    BY <1>1, <1>2, <2>1, <2>2 DEF Queued
<1>7. ASSUME NEW w \in Workers, CheckRunning(w) \/ GetEmpty(w) \/ Delivered(w) \/ Snapshot(w)
      PROVE  ReceivedOnce'
  <2>1. UNCHANGED <<received, emitted, queue>>
    BY <1>7 DEF CheckRunning, GetEmpty, Delivered, Snapshot
  <2>2. Quiet
    <3>1. \A v \in Workers : v # w => worker'[v] = worker[v]
      BY <1>0, <1>7, WorkerSteps DEF Becomes
    <3>2. CASE Snapshot(w)
      BY <1>0, <3>1, <3>2, WorkerSteps DEF Becomes, Pending, Snapshot
    <3>3. CASE CheckRunning(w) \/ GetEmpty(w) \/ Delivered(w)
      BY <1>0, <3>1, <3>3, WorkerSteps DEF Becomes, Pending
    <3> QED
      BY <1>7, <3>2, <3>3
  <2> QED
    BY <1>1, <1>2, <2>1, <2>2 DEF Queued
<1>8. ASSUME NEW w \in Workers, Get(w) PROVE ReceivedOnce'
  <2>1. UNCHANGED <<received, emitted>>
    BY <1>8 DEF Get
  <2>2. Queued' \subseteq Queued /\ (Head(queue) # Sentinel => Head(queue) \in Queued)
    BY <1>0, <1>8, Dequeued DEF Get, Queued
  <2>3. Quiet
    BY <1>0, <1>8, <2>2, WorkerSteps DEF Becomes, Pending
  <2> QED
    BY <1>1, <1>2, <2>1, <2>2, <2>3
<1>9. ASSUME NEW w \in Workers, Call(w) PROVE ReceivedOnce'
  <2>1. UNCHANGED <<queue, emitted>>
    BY <1>9 DEF Call
  <2>h. PICK h \in Subscriptions : h = Head(worker[w].calls)
    BY <1>0, <1>9, TailFacts DEF Call, TypeOK
  <2>v. PICK v \in Events : v = worker[w].event
    BY <1>0, <1>9 DEF Holding, Call, QueueInOrder, TypeOK
  <2>2. /\ ToSet(worker[w].calls) = {h} \cup ToSet(Tail(worker[w].calls))
        /\ h \notin ToSet(Tail(worker[w].calls))
    BY <1>0, <1>9, <2>h, TailFacts DEF Call, TypeOK, ListsDistinct
  <2>3. /\ worker'[w].pc = "call" /\ worker'[w].event = v
        /\ worker'[w].calls = Tail(worker[w].calls)
        /\ \A x \in Workers : x # w => worker'[x] = worker[x]
    BY <1>0, <1>9, <2>v, WorkerSteps DEF Becomes
  <2>4. Holding(w) /\ Pending(w, h, v)
    BY <1>9, <2>2, <2>v DEF Holding, Call, Pending
  <2>5. \A x \in Workers, s \in Subscriptions, e \in Nat :
            Pending(x, s, e)' => Pending(x, s, e)
    BY <1>9, <2>2, <2>3, <2>v DEF Pending, Call
  <2>6. ASSUME NEW s \in Subscriptions, NEW e \in ToSet(received[s])
        PROVE  /\ e <= emitted' /\ \A d \in Queued' : e < d
               /\ \A x \in Workers : ~Pending(x, s, e)'
    BY <1>0, <1>1, <2>1, <2>5 DEF ReceivedOnce, Queued
  <2>7. \A x \in Workers : ~Pending(x, h, v)'
    <3> SUFFICES ASSUME NEW x \in Workers PROVE ~Pending(x, h, v)'
      OBVIOUS
    <3>1. CASE x = w
      BY <2>2, <2>3, <3>1 DEF Pending
    <3>2. CASE x # w
      <4>1. Holding(x) => worker[x].event # v
        BY <1>0, <2>4, <2>v, <3>2 DEF QueueInOrder
      <4> QED
        BY <2>3, <3>2, <4>1 DEF Pending, Holding
    <3> QED
      BY <3>1, <3>2
  <2>8. v <= emitted' /\ \A d \in Queued' : v < d
    BY <1>0, <2>1, <2>v DEF QueueInOrder, Queued
  <2>9. /\ received'[h] = Append(received[h], v)
        /\ \A s \in Subscriptions : s # h => received'[s] = received[s]
    BY <1>0, <1>9, <2>h, <2>v DEF Call, TypeOK
  <2>10. v \notin ToSet(received[h])
    BY <1>0, <2>2, <2>4 DEF ReceivedOnce
  <2>11. IsInjective(received'[h]) /\ ToSet(received'[h]) = ToSet(received[h]) \cup {v}
    <3>1. received[h] \in Seq(Events) /\ IsInjective(received[h])
      BY <1>0, <2>2 DEF TypeOK, ReceivedOnce
    <3> QED
      BY <2>4, <2>9, <2>10, <3>1, AppendFacts
  <2>12. ASSUME NEW s \in Subscriptions
         PROVE  /\ IsInjective(received'[s])
                /\ \A e \in ToSet(received'[s]) :
                       /\ e <= emitted' /\ \A d \in Queued' : e < d
                       /\ \A x \in Workers : ~Pending(x, s, e)'
    <3>1. CASE s = h
      BY <2>6, <2>7, <2>8, <2>11, <3>1
    <3>2. CASE s # h
      BY <1>0, <2>6, <2>9, <3>2 DEF ReceivedOnce
    <3> QED
      BY <3>1, <3>2
  <2> QED
    BY <2>12 DEF ReceivedOnce
<1> QED
  BY <1>3, <1>4, <1>5, <1>6, <1>7, <1>8, <1>9 DEF Next, stop, WorkerStep

LEMMA NoneLostKept == EmitterInv /\ [Next]_vars => NoneLost'
<1> SUFFICES ASSUME EmitterInv, [Next]_vars PROVE NoneLost'
  OBVIOUS
<1>0. TypeOK /\ QueueInOrder /\ OneWorker /\ NoneLost
  BY DEF EmitterInv
<1>1. /\ emitted \in Nat /\ Queued \subseteq Nat
      /\ \A w \in Workers : worker[w].event \in Nat
  BY <1>0, Numbers
<1> DEFINE Kept == \A e \in 1..emitted :
                       \/ e \in dropped
                       \/ e \in Queued
                       \/ \E w \in Workers : e <= worker[w].event
           Newest == timeouts = 0 => \A w \in Workers :
                         Holding(w) => \A v \in Workers : worker[v].event <= worker[w].event
<1>2. Kept /\ Newest
  BY <1>0 DEF NoneLost
<1>3. CASE emit
  <2>1. UNCHANGED <<worker, timeouts>> /\ emitted' = emitted + 1
    BY <1>3 DEF emit
  <2>2. /\ Queued \subseteq Queued' /\ dropped \subseteq dropped'
        /\ emitted' \in Queued' \cup dropped'
    <3>1. emitted' \in Events /\ emitted' # Sentinel
      BY <1>0, <1>1, <1>3, EmitterAssumption DEF emit, Events, Sentinel
    <3>2. CASE Len(queue) < Capacity
      <4>1. queue' = Append(queue, emitted')
        BY <1>3, <3>2 DEF emit
      <4>2. ToSet(queue') = ToSet(queue) \cup {emitted'}
        BY <1>0, <3>1, <4>1, Enqueued
      <4> QED
        BY <1>3, <3>1, <3>2, <4>2 DEF emit, Queued
    <3>3. CASE ~(Len(queue) < Capacity)
      BY <1>3, <3>3 DEF emit, Queued
    <3> QED
      BY <3>2, <3>3
  <2>3. \A e \in 1..emitted' : e \in 1..emitted \/ e = emitted'
    BY <1>1, <2>1
  <2>4. Kept'
    BY <1>2, <2>1, <2>2, <2>3
  <2> QED
    BY <1>2, <2>1, <2>4 DEF NoneLost, Holding
<1>4. CASE StopPut
  <2>1. Queued' = Queued
    BY <1>0, <1>4, Enqueued DEF StopPut, Queued
  <2> QED
    BY <1>2, <1>4, <2>1 DEF StopPut, NoneLost, Holding
<1>5. CASE StopFlag \/ StopJoin \/ StopJoinTimeout \/ UNCHANGED vars
           \/ \E s \in Subscriptions : subscribe(s) \/ unsubscribe(s)
  <2>1. UNCHANGED <<worker, dropped, emitted, queue>>
    BY <1>5 DEF StopFlag, StopJoin, StopJoinTimeout, vars, subscribe, unsubscribe
  <2>2. timeouts' = 0 => timeouts = 0
    BY <1>0, <1>5
    DEF StopFlag, StopJoin, StopJoinTimeout, vars, subscribe, unsubscribe, TypeOK
  <2> QED
    BY <1>2, <2>1, <2>2 DEF NoneLost, Holding, Queued
(* A step of a worker that takes nothing. *)
<1>6. ASSUME UNCHANGED <<queue, dropped, emitted, timeouts>>,
             \A v \in Workers : /\ worker'[v].event = worker[v].event
                                /\ Holding(v)' => Holding(v)
      PROVE  NoneLost'
  BY <1>2, <1>6 DEF NoneLost, Queued
<1>7. CASE start
  BY <1>0, <1>6, <1>7, StartStep DEF start, Becomes, Holding, TypeOK
<1>8. ASSUME NEW w \in Workers,
             CheckRunning(w) \/ GetEmpty(w) \/ Delivered(w) \/ Snapshot(w) \/ Call(w)
      PROVE  NoneLost'
  <2>1. \A v \in Workers : v # w => worker'[v] = worker[v]
    BY <1>0, <1>8, WorkerSteps DEF Becomes
  <2>2. worker'[w].event = worker[w].event /\ (Holding(w)' => Holding(w))
    BY <1>0, <1>8, WorkerSteps
    DEF Becomes, Holding, CheckRunning, GetEmpty, Delivered, Snapshot, Call
  <2>3. UNCHANGED <<queue, dropped, emitted, timeouts>>
    BY <1>8 DEF CheckRunning, GetEmpty, Delivered, Snapshot, Call
  <2> QED
    BY <1>6, <2>1, <2>2, <2>3 DEF Holding
<1>9. ASSUME NEW w \in Workers, Get(w) PROVE NoneLost'
  <2>1. UNCHANGED <<dropped, emitted, timeouts>>
    BY <1>9 DEF Get
  <2>2. PICK h \in Events \cup {Sentinel} : h = Head(queue)
    BY <1>0, <1>9, Dequeued DEF Get
  <2>3. ToSet(queue) = {h} \cup ToSet(queue')
    BY <1>0, <1>9, <2>2, Dequeued DEF Get
  <2>4. \A v \in Workers : v # w => worker'[v] = worker[v]
    BY <1>0, <1>9, WorkerSteps DEF Becomes
  <2>5. CASE h = Sentinel
    <3>1. worker'[w].event = worker[w].event /\ ~Holding(w)'
      BY <1>0, <1>9, <2>2, <2>5, WorkerSteps DEF Becomes, Holding
    <3>2. Queued' = Queued
      BY <2>3, <2>5 DEF Queued
    <3>3. \A v \in Workers : /\ worker'[v].event = worker[v].event
                             /\ Holding(v)' => Holding(v)
      BY <2>4, <3>1 DEF Holding
    <3> QED
      BY <1>2, <2>1, <3>2, <3>3 DEF NoneLost
  <2>6. CASE h # Sentinel
    <3>1. worker'[w].event = h /\ Queued = Queued' \cup {h}
      BY <1>0, <1>9, <2>2, <2>3, <2>6, WorkerSteps DEF Becomes, Queued
    <3>2. h \in Nat /\ \A v \in Workers : worker[v].event < h
      BY <1>0, <1>1, <3>1 DEF QueueInOrder
    <3>3. \A v \in Workers : worker[v].event <= worker'[v].event /\ worker'[v].event <= h
      <4> SUFFICES ASSUME NEW v \in Workers
                   PROVE  worker[v].event <= worker'[v].event /\ worker'[v].event <= h
        OBVIOUS
      <4>1. worker[v].event < h /\ worker[v].event \in Nat
        BY <1>1, <3>2
      <4>2. worker'[v].event = worker[v].event \/ worker'[v].event = h
        BY <2>4, <3>1
      <4> QED
        BY <3>2, <4>1, <4>2
    <3>4. Kept'
      <4> SUFFICES ASSUME NEW e \in 1..emitted', e \notin dropped', e \notin Queued'
                   PROVE  \E v \in Workers : e <= worker'[v].event
        OBVIOUS
      <4>1. CASE e = h
        BY <3>1, <3>2, <4>1
      <4>2. CASE e # h
        <5>1. PICK v \in Workers : e <= worker[v].event
          BY <1>2, <2>1, <3>1, <4>2
        <5>2. worker'[v].event = worker[v].event \/ worker'[v].event = h
          BY <2>4, <3>1
        <5>3. e <= worker'[v].event
          BY <1>1, <3>2, <5>1, <5>2
        <5> QED
          BY <5>3
      <4> QED
        BY <4>1, <4>2
    <3>5. ASSUME timeouts' = 0, NEW v \in Workers, Holding(v)' PROVE v = w
      <4>1. Busy(w) /\ (v # w => Busy(v))
        BY <1>9, <2>4, <3>5 DEF Get, Busy, Holding
      <4> QED
        BY <1>0, <2>1, <3>5, <4>1 DEF OneWorker
    <3>6. Newest'
      BY <3>1, <3>3, <3>5
    <3> QED
      BY <3>4, <3>6 DEF NoneLost
  <2> QED
    BY <2>5, <2>6
<1> QED
  BY <1>3, <1>4, <1>5, <1>7, <1>8, <1>9 DEF Next, stop, WorkerStep

LEMMA NoGapsKept == EmitterInv /\ [Next]_vars => NoGaps'
<1> SUFFICES ASSUME EmitterInv, [Next]_vars, timeouts' = 0, NEW s \in Subscriptions
             PROVE  Delivery(s)' /\ NextCall(s)' /\ OnItsWay(s)'
  BY DEF NoGaps
<1>0. TypeOK /\ QueueInOrder /\ OneWorker /\ ListsDistinct /\ ReceivedOnce /\ NoneLost
  BY DEF EmitterInv
<1>1. /\ emitted \in Nat /\ Queued \subseteq Nat
      /\ \A w \in Workers : worker[w].event \in Nat
      /\ ToSet(received[s]) \subseteq Nat
      /\ received[s] \in Seq(Events) /\ DOMAIN received[s] = 1..Len(received[s])
      /\ Len(received[s]) \in Nat
  <2>1. received[s] \in Seq(Events)
    BY <1>0 DEF TypeOK
  <2> QED
    BY <1>0, <2>1, Numbers, LenProperties
<1>2. timeouts = 0
  <2>1. CASE StopJoinTimeout
    BY <1>0, <2>1 DEF StopJoinTimeout, TypeOK
  <2>2. CASE emit \/ start \/ StopFlag \/ StopPut \/ StopJoin \/ UNCHANGED vars
             \/ \E u \in Subscriptions : subscribe(u) \/ unsubscribe(u)
    BY <2>2 DEF emit, subscribe, unsubscribe, start, StopFlag, StopPut, StopJoin, vars
  <2>3. ASSUME NEW w \in Workers, WorkerStep(w) PROVE timeouts = 0
    BY <2>3 DEF WorkerStep, CheckRunning, GetEmpty, Get, Snapshot, Call, Delivered
  <2> QED
    BY <2>1, <2>2, <2>3 DEF Next, stop
<1>3. Delivery(s) /\ NextCall(s) /\ OnItsWay(s)
  BY <1>2 DEF EmitterInv, NoGaps
<1>4. received[s] # <<>> => LastOf(s) \in ToSet(received[s]) /\ LastOf(s) \in Nat
  <2> SUFFICES ASSUME received[s] # <<>>
               PROVE  LastOf(s) \in ToSet(received[s])
    BY <1>1
  <2>1. Len(received[s]) \in DOMAIN received[s]
    BY <1>1, EmptySeq
  <2> QED
    BY <2>1 DEF LastOf, ToSet
<1>5. \A v, w \in Workers : Holding(v) /\ Holding(w) => v = w
  BY <1>0, <1>2 DEF OneWorker, Busy, Holding
(* A step that hands s nothing and takes nothing from the queue. *)
<1>6. ASSUME UNCHANGED <<received[s], dropped, emitted>>, Queued' = Queued,
             Subscribed(s)' => Subscribed(s),
             \A w \in Workers :
                 /\ worker'[w].event = worker[w].event
                 /\ Holding(w)' => Holding(w)
                 /\ worker'[w].pc = "call" /\ s \in ToSet(worker'[w].calls) =>
                        worker[w].pc = "call" /\ s \in ToSet(worker[w].calls)
                 /\ \A e \in Nat : Matches(s, e) /\ Pending(w, s, e) => Pending(w, s, e)'
      PROVE  Delivery(s)' /\ NextCall(s)' /\ OnItsWay(s)'
  <2>1. Delivery(s)'
    BY <1>3, <1>6 DEF Delivery, Skipped, Matches
  <2>2. NextCall(s)'
    BY <1>3, <1>6 DEF NextCall, Skipped, Matches, LastOf
  <2>3. OnItsWay(s)'
    <3> SUFFICES ASSUME received[s] # <<>>, Subscribed(s), NEW e \in (LastOf(s) + 1)..emitted,
                        Matches(s, e), e \notin dropped, e \notin Queued
                 PROVE  \E w \in Workers : Pending(w, s, e)'
      BY <1>6 DEF OnItsWay, Matches, LastOf
    <3>1. PICK w \in Workers : Pending(w, s, e)
      BY <1>3 DEF OnItsWay
    <3>2. e \in Nat
      BY <1>1, <1>4
    <3> QED
      BY <1>6, <3>1, <3>2
  <2> QED
    BY <2>1, <2>2, <2>3
<1>7. CASE emit
  <2>1. UNCHANGED <<worker, subs, received>> /\ emitted' = emitted + 1
    BY <1>7 DEF emit
  <2>2. /\ Queued \subseteq Queued' /\ dropped \subseteq dropped'
        /\ emitted' \in Queued' \cup dropped'
    <3>1. emitted' \in Events /\ emitted' # Sentinel
      BY <1>0, <1>1, <1>7, EmitterAssumption DEF emit, Events, Sentinel
    <3>2. CASE Len(queue) < Capacity
      <4>1. queue' = Append(queue, emitted')
        BY <1>7, <3>2 DEF emit
      <4>2. ToSet(queue') = ToSet(queue) \cup {emitted'}
        BY <1>0, <3>1, <4>1, Enqueued
      <4> QED
        BY <1>7, <3>1, <3>2, <4>2 DEF emit, Queued
    <3>3. CASE ~(Len(queue) < Capacity)
      BY <1>7, <3>3 DEF emit, Queued
    <3> QED
      BY <3>2, <3>3
  <2>3. Delivery(s)'
    BY <1>3, <2>1, <2>2 DEF Delivery, Skipped, Matches
  <2>4. NextCall(s)'
    BY <1>3, <2>1, <2>2 DEF NextCall, Skipped, Matches, LastOf, Holding
  <2>5. OnItsWay(s)'
    <3> SUFFICES ASSUME received[s] # <<>>, Subscribed(s), NEW e \in (LastOf(s) + 1)..emitted',
                        Matches(s, e), e \notin dropped', e \notin Queued'
                 PROVE  \E w \in Workers : Pending(w, s, e)'
      BY <2>1 DEF OnItsWay, Matches, LastOf, Subscribed
    <3>1. e # emitted' /\ e \notin dropped /\ e \notin Queued
      BY <2>2
    <3>2. e \in (LastOf(s) + 1)..emitted
      BY <1>1, <1>4, <2>1, <3>1
    <3>3. PICK w \in Workers : Pending(w, s, e)
      BY <1>3, <3>1, <3>2 DEF OnItsWay
    <3> QED
      BY <2>1, <3>3 DEF Pending
  <2> QED
    BY <2>3, <2>4, <2>5
<1>8. CASE StopPut
  <2>1. Queued' = Queued
    BY <1>0, <1>8, Enqueued DEF StopPut, Queued
  <2> QED
    BY <1>6, <1>8, <2>1 DEF StopPut, Holding, Pending, Subscribed
<1>9. CASE StopFlag \/ StopJoin \/ StopJoinTimeout \/ UNCHANGED vars
  <2>1. UNCHANGED <<worker, dropped, emitted, queue, subs, received>>
    BY <1>9 DEF StopFlag, StopJoin, StopJoinTimeout, vars
  <2> QED
    BY <1>6, <2>1 DEF Holding, Pending, Subscribed, Queued
<1>10. ASSUME NEW u \in Subscriptions, subscribe(u)
       PROVE  Delivery(s)' /\ NextCall(s)' /\ OnItsWay(s)'
  <2>1. UNCHANGED <<worker, dropped, emitted, queue, received>>
    BY <1>10 DEF subscribe
  <2>2. CASE s = u
    <3>1. received[s] = <<>>
      BY <1>0, <1>10, <2>2 DEF ListsDistinct, subscribe
    <3>2. 1..(Len(received'[s]) - 1) = {}
      BY <2>1, <3>1
    <3> QED
      BY <2>1, <3>1, <3>2 DEF Delivery, NextCall, OnItsWay
  <2>3. CASE s # u
    <3>1. Topic[s] \in Topics /\ Topic[u] \in Topics
      BY EmitterAssumption DEF Topics
    <3>2. CASE Topic[s] # Topic[u]
      <4>1. subs'[Topic[s]] = subs[Topic[s]]
        BY <1>0, <1>10, <3>1, <3>2 DEF subscribe, TypeOK
      <4> QED
        BY <1>6, <2>1, <4>1 DEF Holding, Pending, Subscribed, Queued
    <3>3. CASE Topic[s] = Topic[u]
      <4>1. subs'[Topic[s]] = Append(subs[Topic[s]], u) /\ subs[Topic[s]] \in Seq(Subscriptions)
        BY <1>0, <1>10, <3>1, <3>3 DEF subscribe, TypeOK
      <4>2. ToSet(subs'[Topic[s]]) = ToSet(subs[Topic[s]]) \cup {u}
        BY <4>1, AppendFacts
      <4> QED
        BY <1>6, <2>1, <2>3, <4>2 DEF Holding, Pending, Subscribed, Queued
    <3> QED
      BY <3>2, <3>3
  <2> QED
    BY <2>2, <2>3
<1>11. ASSUME NEW u \in Subscriptions, unsubscribe(u)
       PROVE  Delivery(s)' /\ NextCall(s)' /\ OnItsWay(s)'
  <2>1. UNCHANGED <<worker, dropped, emitted, queue, received>>
    BY <1>11 DEF unsubscribe
  <2>2. Topic[s] \in Topics /\ Topic[u] \in Topics
    BY EmitterAssumption DEF Topics
  <2>3. ToSet(subs'[Topic[s]]) \subseteq ToSet(subs[Topic[s]])
    <3>1. CASE Topic[s] # Topic[u]
      BY <1>0, <1>11, <2>2, <3>1 DEF unsubscribe, TypeOK
    <3>2. CASE Topic[s] = Topic[u]
      <4>1. subs[Topic[s]] \in Seq(Subscriptions)
            /\ DOMAIN subs[Topic[s]] = 1..Len(subs[Topic[s]])
        BY <1>0, <2>2, LenProperties DEF TypeOK
      <4>2. PICK i \in 1..Len(subs[Topic[s]]) : subs'[Topic[s]] = RemoveAt(subs[Topic[s]], i)
        BY <1>0, <1>11, <2>2, <3>2, <4>1 DEF unsubscribe, TypeOK
      <4> QED
        BY <4>1, <4>2, RemoveFacts
    <3> QED
      BY <3>1, <3>2
  <2> QED
    BY <1>6, <2>1, <2>3 DEF Holding, Pending, Subscribed, Queued
<1>12. CASE start
  <2>1. UNCHANGED <<dropped, emitted, queue, subs, received>>
    BY <1>12 DEF start
  <2>2. worker[starts + 1].pc = "none"
    BY <1>0, <1>12, StartStep DEF OneWorker, TypeOK
  <2> QED
    BY <1>0, <1>6, <1>12, <2>1, <2>2, StartStep
    DEF Becomes, Holding, Pending, Subscribed, Queued
<1>13. ASSUME NEW w \in Workers, CheckRunning(w) \/ GetEmpty(w) \/ Delivered(w)
       PROVE  Delivery(s)' /\ NextCall(s)' /\ OnItsWay(s)'
  <2>1. UNCHANGED <<dropped, emitted, queue, subs, received>>
    BY <1>13 DEF CheckRunning, GetEmpty, Delivered
  <2>2. \A v \in Workers : v # w => worker'[v] = worker[v]
    BY <1>0, <1>13, WorkerSteps DEF Becomes
  <2>3. worker'[w].event = worker[w].event /\ worker'[w].pc \in {"check", "get", "done"}
    BY <1>0, <1>13, WorkerSteps DEF Becomes
  <2>4. \A e \in Nat : ~Pending(w, s, e)
    <3>1. ToSet(<<>>) = {}
      BY DEF ToSet
    <3> QED
      BY <1>13, <3>1 DEF Pending, CheckRunning, GetEmpty, Delivered
  <2>5. \A v \in Workers :
            /\ worker'[v].event = worker[v].event
            /\ Holding(v)' => Holding(v)
            /\ worker'[v].pc = "call" /\ s \in ToSet(worker'[v].calls) =>
                   worker[v].pc = "call" /\ s \in ToSet(worker[v].calls)
            /\ \A e \in Nat : Matches(s, e) /\ Pending(v, s, e) => Pending(v, s, e)'
    BY <2>2, <2>3, <2>4 DEF Holding, Pending
  <2> QED
    BY <1>6, <2>1, <2>5 DEF Subscribed, Queued
<1>14. ASSUME NEW w \in Workers, Get(w)
       PROVE  Delivery(s)' /\ NextCall(s)' /\ OnItsWay(s)'
  <2>1. UNCHANGED <<dropped, emitted, subs, received>>
    BY <1>14 DEF Get
  <2>2. PICK h \in Events \cup {Sentinel} : h = Head(queue)
    BY <1>0, <1>14, Dequeued DEF Get
  <2>3. ToSet(queue) = {h} \cup ToSet(queue')
    BY <1>0, <1>14, <2>2, Dequeued DEF Get
  <2>4. \A v \in Workers : v # w => worker'[v] = worker[v]
    BY <1>0, <1>14, WorkerSteps DEF Becomes
  <2>5. worker[w].pc = "get" /\ \A e \in Nat : ~Pending(w, s, e)
    BY <1>14 DEF Get, Pending
  <2>6. CASE h = Sentinel
    <3>1. worker'[w].event = worker[w].event /\ worker'[w].pc = "done"
      BY <1>0, <1>14, <2>2, <2>6, WorkerSteps DEF Becomes
    <3>2. Queued' = Queued
      BY <2>3, <2>6 DEF Queued
    <3>3. \A v \in Workers :
              /\ worker'[v].event = worker[v].event
              /\ Holding(v)' => Holding(v)
              /\ worker'[v].pc = "call" /\ s \in ToSet(worker'[v].calls) =>
                     worker[v].pc = "call" /\ s \in ToSet(worker[v].calls)
              /\ \A e \in Nat : Matches(s, e) /\ Pending(v, s, e) => Pending(v, s, e)'
      BY <2>4, <2>5, <3>1 DEF Holding, Pending
    <3> QED
      BY <1>6, <2>1, <3>2, <3>3 DEF Subscribed
  <2>7. CASE h # Sentinel
    <3>1. /\ worker'[w].event = h /\ worker'[w].pc = "snapshot"
          /\ Queued = Queued' \cup {h}
      BY <1>0, <1>14, <2>2, <2>3, <2>7, WorkerSteps DEF Becomes, Queued
    <3>2. Delivery(s)'
      BY <1>3, <2>1 DEF Delivery, Skipped, Matches
    <3>3. NextCall(s)'
      <4> SUFFICES ASSUME received[s] # <<>>, NEW v \in Workers
                   PROVE  /\ Holding(v)' => LastOf(s) <= worker'[v].event
                          /\ worker'[v].pc = "call" /\ s \in ToSet(worker'[v].calls) =>
                                 Skipped(s, LastOf(s), worker[v].event)'
        BY <2>1 DEF NextCall, LastOf, Skipped
      <4>1. CASE v = w
        <5>1. LastOf(s) < h
          BY <1>0, <1>4, <3>1 DEF ReceivedOnce
        <5>2. LastOf(s) <= h
          <6>1. LastOf(s) \in Nat /\ h \in Nat
            BY <1>1, <1>4, <3>1
          <6> QED
            BY <5>1, <6>1
        <5> QED
          BY <3>1, <4>1, <5>2
      <4>2. CASE v # w
        <5>1. worker'[v] = worker[v]
          BY <2>4, <4>2
        <5> QED
          BY <1>3, <2>1, <5>1 DEF NextCall, Holding, Skipped, Matches, LastOf
      <4> QED
        BY <4>1, <4>2
    <3>4. OnItsWay(s)'
      <4> SUFFICES ASSUME received[s] # <<>>, Subscribed(s), NEW e \in (LastOf(s) + 1)..emitted,
                          Matches(s, e), e \notin dropped, e \notin Queued'
                   PROVE  \E v \in Workers : Pending(v, s, e)'
        BY <2>1 DEF OnItsWay, LastOf, Subscribed
      <4>1. CASE e = h
        BY <3>1, <4>1 DEF Pending
      <4>2. CASE e # h
        <5>1. PICK v \in Workers : Pending(v, s, e)
          BY <1>3, <3>1, <4>2 DEF OnItsWay
        <5>2. v # w
          BY <1>1, <1>4, <2>5, <5>1
        <5> QED
          BY <2>4, <5>1, <5>2 DEF Pending
      <4> QED
        BY <4>1, <4>2
    <3> QED
      BY <3>2, <3>3, <3>4
  <2> QED
    BY <2>6, <2>7
<1>15. ASSUME NEW w \in Workers, Snapshot(w)
       PROVE  Delivery(s)' /\ NextCall(s)' /\ OnItsWay(s)'
  <2>1. UNCHANGED <<dropped, emitted, queue, subs, received>>
    BY <1>15 DEF Snapshot
  <2>2. \A v \in Workers : v # w => worker'[v] = worker[v]
    BY <1>0, <1>15, WorkerSteps DEF Becomes
  <2>3. PICK d \in Events : d = worker[w].event
    BY <1>0, <1>15 DEF Holding, Snapshot, QueueInOrder, TypeOK
  <2>4. /\ worker'[w].event = d /\ worker'[w].pc = "call"
        /\ worker'[w].calls = subs[TypeOf[d]] \o subs[Wildcard]
    BY <1>0, <1>15, <2>3, WorkerSteps DEF Becomes
  <2>5. ToSet(worker'[w].calls) = ToSet(subs[TypeOf[d]]) \cup ToSet(subs[Wildcard])
    BY <1>0, <2>4, TopicLists, ConcatFacts
  <2>6. s \in ToSet(worker'[w].calls) => Subscribed(s)
    <3>1. TypeOf[d] \in Topics /\ Wildcard \in Topics
      BY EmitterAssumption DEF Events, Topics
    <3> QED
      BY <1>0, <2>5, <3>1 DEF ListsDistinct, Subscribed
  <2>7. Subscribed(s) /\ Matches(s, d) => s \in ToSet(worker'[w].calls)
    BY <2>5 DEF Subscribed, Matches
  <2>8. Holding(w)
    BY <1>15 DEF Holding, Snapshot
  <2>9. Delivery(s)'
    BY <1>3, <2>1 DEF Delivery, Skipped, Matches
  <2>10. NextCall(s)'
    <3> SUFFICES ASSUME received[s] # <<>>, NEW v \in Workers
                 PROVE  /\ Holding(v)' => LastOf(s) <= worker'[v].event
                        /\ worker'[v].pc = "call" /\ s \in ToSet(worker'[v].calls) =>
                               Skipped(s, LastOf(s), worker[v].event)'
      BY <2>1 DEF NextCall, LastOf, Skipped
    <3>1. CASE v # w
      BY <1>3, <2>1, <2>2, <3>1 DEF NextCall, Holding, Skipped, Matches, LastOf
    <3>2. CASE v = w
      <4>1. LastOf(s) <= d
        BY <1>3, <2>3, <2>8 DEF NextCall
      <4>2. ASSUME s \in ToSet(worker'[w].calls), NEW n \in (LastOf(s) + 1)..(d - 1),
                   Matches(s, n), n \notin dropped
            PROVE  FALSE
        <5>1. d <= emitted /\ d \in Nat /\ n \in Nat /\ n < d /\ n # d
          BY <1>0, <1>1, <1>4, <2>3 DEF QueueInOrder
        <5>2. n \notin Queued
          <6>1. n \in Queued => d < n
            BY <1>0, <2>3 DEF QueueInOrder
          <6> QED
            BY <5>1, <6>1
        <5>3. n \in (LastOf(s) + 1)..emitted
          BY <1>1, <1>4, <5>1
        <5>4. PICK x \in Workers : Pending(x, s, n)
          BY <1>3, <2>6, <4>2, <5>2, <5>3 DEF OnItsWay
        <5>5. x = w
          BY <1>5, <2>8, <5>4 DEF Pending, Holding
        <5> QED
          BY <2>3, <5>1, <5>4, <5>5 DEF Pending
      <4> QED
        BY <2>1, <2>4, <3>2, <4>1, <4>2 DEF Skipped, Matches, LastOf
    <3> QED
      BY <3>1, <3>2
  <2>11. OnItsWay(s)'
    <3> SUFFICES ASSUME received[s] # <<>>, Subscribed(s), NEW e \in (LastOf(s) + 1)..emitted,
                        Matches(s, e), e \notin dropped, e \notin Queued
                 PROVE  \E v \in Workers : Pending(v, s, e)'
      BY <2>1 DEF OnItsWay, LastOf, Subscribed, Matches, Queued
    <3>1. PICK v \in Workers : Pending(v, s, e)
      BY <1>3 DEF OnItsWay
    <3>2. CASE v # w
      BY <2>2, <3>1, <3>2 DEF Pending
    <3>3. CASE v = w
      <4>1. d = e
        BY <2>3, <3>1, <3>3 DEF Pending
      <4> QED
        BY <2>4, <2>7, <4>1 DEF Pending
    <3> QED
      BY <3>2, <3>3
  <2> QED
    BY <2>9, <2>10, <2>11
<1>16. ASSUME NEW w \in Workers, Call(w)
       PROVE  Delivery(s)' /\ NextCall(s)' /\ OnItsWay(s)'
  <2>1. UNCHANGED <<dropped, emitted, queue, subs>>
    BY <1>16 DEF Call
  <2>2. PICK h \in Subscriptions : h = Head(worker[w].calls)
    BY <1>0, <1>16, TailFacts DEF Call, TypeOK
  <2>3. PICK d \in Events : d = worker[w].event
    BY <1>0, <1>16 DEF Holding, Call, QueueInOrder, TypeOK
  <2>4. /\ ToSet(worker[w].calls) = {h} \cup ToSet(Tail(worker[w].calls))
        /\ h \notin ToSet(Tail(worker[w].calls))
    BY <1>0, <1>16, <2>2, TailFacts DEF Call, TypeOK, ListsDistinct
  <2>5. /\ worker'[w].pc = "call" /\ worker'[w].event = d
        /\ ToSet(worker'[w].calls) = ToSet(worker[w].calls) \ {h}
        /\ \A x \in Workers : x # w => worker'[x] = worker[x]
    BY <1>0, <1>16, <2>3, <2>4, WorkerSteps DEF Becomes
  <2>6. worker[w].pc = "call" /\ Holding(w) /\ Pending(w, h, d)
    BY <1>16, <2>3, <2>4 DEF Call, Holding, Pending
  <2>7. CASE s # h
    <3>1. received'[s] = received[s]
      BY <1>0, <1>16, <2>2, <2>7 DEF Call, TypeOK
    <3>2. \A v \in Workers :
              /\ worker'[v].event = worker[v].event
              /\ Holding(v)' => Holding(v)
              /\ worker'[v].pc = "call" /\ s \in ToSet(worker'[v].calls) =>
                     worker[v].pc = "call" /\ s \in ToSet(worker[v].calls)
              /\ \A e \in Nat : Matches(s, e) /\ Pending(v, s, e) => Pending(v, s, e)'
      BY <2>3, <2>5, <2>6, <2>7 DEF Holding, Pending
    <3> QED
      BY <1>6, <2>1, <3>1, <3>2 DEF Subscribed, Queued
  <2>8. CASE s = h
    <3> DEFINE len == Len(received[s])
    <3>1. received'[s] = Append(received[s], d)
      BY <1>0, <1>16, <2>2, <2>3, <2>8 DEF Call, TypeOK
    <3>2. /\ Len(received'[s]) = len + 1
          /\ \A i \in 1..len : received'[s][i] = received[s][i]
          /\ received'[s][len + 1] = d
      BY <1>1, <3>1, AppendFacts
    <3>3. LastOf(s)' = d
      BY <3>2 DEF LastOf
    <3>4. received[s] # <<>> => LastOf(s) < d /\ Skipped(s, LastOf(s), d)
      <4> SUFFICES ASSUME received[s] # <<>>
                   PROVE  LastOf(s) < d /\ Skipped(s, LastOf(s), d)
        OBVIOUS
      <4>1. LastOf(s) <= d /\ Skipped(s, LastOf(s), d)
        BY <1>3, <2>3, <2>4, <2>6, <2>8 DEF NextCall
      <4>2. LastOf(s) # d
        BY <1>0, <1>4, <2>6, <2>8 DEF ReceivedOnce
      <4>3. LastOf(s) \in Nat /\ d \in Nat
        BY <1>1, <1>4, <2>3
      <4> QED
        BY <4>1, <4>2, <4>3
    <3>5. Delivery(s)'
      <4> SUFFICES ASSUME NEW i \in 1..(Len(received'[s]) - 1)
                   PROVE  /\ received'[s][i] < received'[s][i + 1]
                          /\ Skipped(s, received[s][i], received[s][i + 1])'
        BY DEF Delivery
      <4>1. CASE i = len
        <5>1. received[s] # <<>> /\ i \in 1..len
          BY <1>1, <3>2, <4>1, EmptySeq
        <5>2. received'[s][i] = LastOf(s) /\ received'[s][i + 1] = d
          BY <3>2, <4>1, <5>1 DEF LastOf
        <5> QED
          BY <2>1, <3>4, <5>1, <5>2 DEF Skipped, Matches
      <4>2. CASE i # len
        <5>1. i \in 1..(len - 1) /\ i \in 1..len /\ i + 1 \in 1..len
          BY <1>1, <3>2, <4>2
        <5>2. received'[s][i] = received[s][i] /\ received'[s][i + 1] = received[s][i + 1]
          BY <3>2, <5>1
        <5> QED
          BY <1>3, <2>1, <5>1, <5>2 DEF Delivery, Skipped, Matches
      <4> QED
        BY <4>1, <4>2
    <3>6. NextCall(s)'
      <4> SUFFICES ASSUME NEW v \in Workers, Holding(v)'
                   PROVE  /\ d <= worker'[v].event
                          /\ s \notin ToSet(worker'[v].calls)
        BY <3>3 DEF NextCall, Holding
      <4>1. v = w
        BY <1>5, <2>5, <2>6 DEF Holding
      <4>2. d <= d
        BY <1>1, <2>3
      <4> QED
        BY <2>5, <2>8, <4>1, <4>2
    <3>7. OnItsWay(s)'
      <4> SUFFICES ASSUME NEW e \in (d + 1)..emitted, e \notin dropped, e \notin Queued
                   PROVE  FALSE
        BY <2>1, <3>3 DEF OnItsWay, Queued
      <4>1. d \in Nat /\ e \in 1..emitted
        BY <1>1, <2>3
      <4>2. PICK v \in Workers : e <= worker[v].event
        BY <1>0, <4>1 DEF NoneLost
      <4>3. worker[v].event <= d
        BY <1>0, <1>2, <2>3, <2>6 DEF NoneLost
      <4> QED
        BY <1>1, <4>1, <4>2, <4>3
    <3> QED
      BY <3>5, <3>6, <3>7
  <2> QED
    BY <2>7, <2>8
<1> QED
  BY <1>7, <1>8, <1>9, <1>10, <1>11, <1>12, <1>13, <1>14, <1>15, <1>16
  DEF Next, stop, WorkerStep

-----------------------------------------------------------------------------
LEMMA EmitterInitially == Init => EmitterInv
<1> SUFFICES ASSUME Init PROVE EmitterInv
  OBVIOUS
<1>1. <<>> \in Seq(Subscriptions) /\ <<>> \in Seq(Events) /\ Len(<<>>) = 0
      /\ <<>> \in Seq(Events \cup {Sentinel})
      /\ ToSet(<<>>) = {} /\ IsInjective(<<>>)
  BY DEF ToSet, IsInjective
<1>2. /\ queue = <<>> /\ subs = [t \in Topics |-> <<>>] /\ worker = [w \in Workers |-> Idle]
      /\ received = [s \in Subscriptions |-> <<>>]
      /\ emitted = 0 /\ starts = 0 /\ timeouts = 0 /\ ~running /\ owner = "idle"
  BY DEF Init
<1>3. TypeOK
  <2>1. Idle \in [pc : {"none", "check", "get", "snapshot", "call", "done"},
                   event : Events \cup {Sentinel}, calls : Seq(Subscriptions)]
    BY <1>1 DEF Idle
  <2>2. 0 \in 0..MaxStarts /\ 0 \in 0..MaxTimeouts /\ 0 \in 0..MaxEvents /\ 0 <= Capacity
    BY EmitterAssumption
  <2>3. worker \in [Workers -> [pc : {"none", "check", "get", "snapshot", "call", "done"},
                                event : Events \cup {Sentinel}, calls : Seq(Subscriptions)]]
    BY <1>2, <2>1
  <2>4. subs \in [Topics -> Seq(Subscriptions)] /\ received \in [Subscriptions -> Seq(Events)]
    BY <1>1, <1>2
  <2>5. running \in BOOLEAN /\ minted \subseteq Subscriptions /\ dropped \subseteq Events
    BY DEF Init
  <2> QED
    BY <1>1, <1>2, <2>2, <2>3, <2>4, <2>5 DEF TypeOK
<1>4. \A w \in Workers : /\ worker[w].pc = "none" /\ worker[w].event = 0
                         /\ worker[w].calls = <<>> /\ ~Holding(w) /\ ~Busy(w)
  BY <1>2 DEF Idle, Holding, Busy, Sentinel
<1>5. Queued = {} /\ InOrder(queue)
  BY <1>1, <1>2 DEF Queued, InOrder
<1>6. OneWorker
  BY <1>2, <1>4 DEF OneWorker
<1>7. ListsDistinct
  BY <1>1, <1>2, <1>4 DEF ListsDistinct
<1>8. QueueInOrder
  BY <1>2, <1>4, <1>5 DEF QueueInOrder
<1>9. ReceivedOnce
  BY <1>1, <1>2 DEF ReceivedOnce
<1>10. NoneLost
  BY <1>2, <1>4 DEF NoneLost
<1>11. NoGaps
  <2>1. \A s \in Subscriptions : 1..(Len(received[s]) - 1) = {}
    BY <1>1, <1>2
  <2> QED
    BY <1>2, <2>1 DEF NoGaps, Delivery, NextCall, OnItsWay
<1> QED
  BY <1>3, <1>6, <1>7, <1>8, <1>9, <1>10, <1>11 DEF EmitterInv

LEMMA EmitterInvariance == Spec => []EmitterInv
<1>1. EmitterInv /\ [Next]_vars => EmitterInv'
  BY TypesKept, OneWorkerKept, ListsKept, QueueKept, ReceivedKept, NoneLostKept, NoGapsKept
  DEF EmitterInv
<1> QED
  BY EmitterInitially, <1>1, PTL DEF Spec

(* The state of the emitter keeps its types; in particular the queue never  *)
(* holds more than queue_size items, though emit() and stop() both put.     *)
THEOREM EmitterTypes == Spec => []TypeOK
BY EmitterInvariance, PTL DEF EmitterInv

(* Once stop() has set the flag, put the sentinel and joined the worker, no *)
(* thread of the emitter runs until start() is called again.                *)
THEOREM EmitterQuiet == Spec => []QuietAfterStop
<1>1. EmitterInv => QuietAfterStop
  BY DEF EmitterInv, TypeOK, OneWorker, Busy, QuietAfterStop
<1> QED
  BY EmitterInvariance, <1>1, PTL

(* _process_events calls a subscriber once per event, whatever emit(),      *)
(* subscribe(), unsubscribe(), start() and stop() do meanwhile; with one    *)
(* worker at a time the calls are in the order of emission and leave out    *)
(* only what a full queue refused.                                          *)
THEOREM EmitterInOrder == Spec => []InOrderWithoutGaps
<1>1. EmitterInv => InOrderWithoutGaps
  <2> SUFFICES ASSUME EmitterInv PROVE InOrderWithoutGaps
    OBVIOUS
  <2>1. \A s \in Subscriptions : IsInjective(received[s])
    BY DEF EmitterInv, ReceivedOnce
  <2>2. ASSUME timeouts = 0, NEW s \in Subscriptions, NEW i \in 1..(Len(received[s]) - 1)
        PROVE  /\ received[s][i] < received[s][i + 1]
               /\ \A e \in (received[s][i] + 1)..(received[s][i + 1] - 1) :
                      Topic[s] \in {Wildcard, TypeOf[e]} => e \in dropped
    BY <2>2 DEF EmitterInv, NoGaps, Delivery, Skipped, Matches
  <2> QED
    BY <2>1, <2>2 DEF InOrderWithoutGaps
<1> QED
  BY EmitterInvariance, <1>1, PTL
=============================================================================
