---------------------------- MODULE EventEmitter ----------------------------
(***************************************************************************)
(* server/event_emitter.py: a bounded queue between the threads that emit  *)
(* events and one worker thread that calls the subscribers.                *)
(*                                                                         *)
(* Any thread may emit, subscribe or unsubscribe at any time.  start() and *)
(* stop() are called by one thread, the owner (AdminServer.start / stop),  *)
(* so a call of stop() is three steps: clear the flag, put the sentinel    *)
(* (a blocking put), join the worker.  The n-th call of start() creates    *)
(* worker n; a worker whose join timed out keeps running beside its        *)
(* successor.  Events are numbered in the order emit() is called.          *)
(***************************************************************************)
EXTENDS Naturals, Sequences, SequencesExt

CONSTANTS
    Types,          \* event types
    Wildcard,       \* EVENT_WILDCARD, the "*" subscription
    Subscriptions,  \* subscription ids
    Topic,          \* the type, or the wildcard, each id subscribes to
    Capacity,       \* queue_size
    MaxEvents,      \* bound: calls of emit()
    TypeOf,         \* the type of each event
    MaxStarts,      \* bound: calls of start()
    MaxTimeouts     \* bound: joins in stop() that give up on a slow callback

ASSUME EmitterAssumption ==
    /\ Wildcard \notin Types
    /\ Topic \in [Subscriptions -> Types \cup {Wildcard}]
    /\ Capacity \in Nat \ {0}
    /\ MaxEvents \in Nat
    /\ TypeOf \in [1..MaxEvents -> Types]
    /\ MaxStarts \in Nat
    /\ MaxTimeouts \in Nat

VARIABLES
    running,    \* _running
    queue,      \* _event_queue: event numbers and sentinels
    subs,       \* _subscriptions: topic -> list of ids
    minted,     \* ids subscribe() has returned
    worker,     \* per worker thread: pc, the event it took, the calls left
    starts,     \* number of workers created
    owner,      \* where the thread that calls start/stop is
    timeouts,   \* joins given up so far
    emitted,    \* calls of emit() so far
    dropped,    \* events emit() could not queue
    received    \* per subscription, the events its callback was called with

vars == <<running, queue, subs, minted, worker, starts, owner, timeouts,
          emitted, dropped, received>>

Events    == 1..MaxEvents
Sentinel  == 0
Topics    == Types \cup {Wildcard}
Workers   == 1..MaxStarts
Idle      == [pc |-> "none", event |-> Sentinel, calls |-> <<>>]

Init ==
    /\ running = FALSE
    /\ queue = <<>>
    /\ subs = [t \in Topics |-> <<>>]
    /\ minted = {}
    /\ worker = [w \in Workers |-> Idle]
    /\ starts = 0
    /\ owner = "idle"
    /\ timeouts = 0
    /\ emitted = 0
    /\ dropped = {}
    /\ received = [s \in Subscriptions |-> <<>>]

-----------------------------------------------------------------------------
(* Mutant of emit: the queue is made without a maximal size. *)
emitUnbounded ==
    /\ emitted < MaxEvents
    /\ emitted' = emitted + 1
    /\ queue' = Append(queue, emitted')
    /\ UNCHANGED <<running, subs, minted, worker, starts, owner, timeouts,
                   dropped, received>>

(* Mutant of emit: an event goes in front of the queue. *)
emitLifo ==
    /\ emitted < MaxEvents
    /\ emitted' = emitted + 1
    /\ IF Len(queue) < Capacity
       THEN /\ queue' = <<emitted'>> \o queue
            /\ UNCHANGED dropped
       ELSE /\ dropped' = dropped \cup {emitted'}
            /\ UNCHANGED queue
    /\ UNCHANGED <<running, subs, minted, worker, starts, owner, timeouts, received>>

(* emit(): put_nowait, which drops the event it was given when full.  It    *)
(* does not ask whether the emitter runs.                                   *)
emit ==
    /\ emitted < MaxEvents
    /\ emitted' = emitted + 1
    /\ IF Len(queue) < Capacity
       THEN /\ queue' = Append(queue, emitted')
            /\ UNCHANGED dropped
       ELSE /\ dropped' = dropped \cup {emitted'}
            /\ UNCHANGED queue
    /\ UNCHANGED <<running, subs, minted, worker, starts, owner, timeouts, received>>

(* An id is a fresh uuid. *)
subscribe(s) ==
    /\ s \notin minted
    /\ minted' = minted \cup {s}
    /\ subs' = [subs EXCEPT ![Topic[s]] = Append(@, s)]
    /\ UNCHANGED <<running, queue, worker, starts, owner, timeouts,
                   emitted, dropped, received>>

(* subscriptions.remove(sub) *)
unsubscribe(s) ==
    /\ \E i \in DOMAIN subs[Topic[s]] :
          /\ subs[Topic[s]][i] = s
          /\ subs' = [subs EXCEPT ![Topic[s]] = RemoveAt(@, i)]
    /\ UNCHANGED <<running, queue, minted, worker, starts, owner, timeouts,
                   emitted, dropped, received>>

-----------------------------------------------------------------------------
(* The owner thread. *)
start ==
    /\ owner = "idle"
    /\ ~running
    /\ starts < MaxStarts
    /\ running' = TRUE
    /\ starts' = starts + 1
    /\ worker' = [worker EXCEPT ![starts'].pc = "check"]
    /\ UNCHANGED <<queue, subs, minted, owner, timeouts, emitted, dropped, received>>

StopFlag ==
    /\ owner = "idle"
    /\ running
    /\ running' = FALSE
    /\ owner' = "put"
    /\ UNCHANGED <<queue, subs, minted, worker, starts, timeouts, emitted, dropped, received>>

(* Queue.put(None) without a timeout: it waits while the queue is full. *)
StopPut ==
    /\ owner = "put"
    /\ Len(queue) < Capacity
    /\ queue' = Append(queue, Sentinel)
    /\ owner' = "join"
    /\ UNCHANGED <<running, subs, minted, worker, starts, timeouts, emitted, dropped, received>>

(* Mutant of StopJoin: the worker is not joined. *)
StopNoJoin ==
    /\ owner = "join"
    /\ owner' = "idle"
    /\ UNCHANGED <<running, queue, subs, minted, worker, starts, timeouts,
                   emitted, dropped, received>>

StopJoin ==
    /\ owner = "join"
    /\ worker[starts].pc = "done"
    /\ owner' = "idle"
    /\ UNCHANGED <<running, queue, subs, minted, worker, starts, timeouts,
                   emitted, dropped, received>>

StopJoinTimeout ==
    /\ owner = "join"
    /\ worker[starts].pc # "done"
    /\ timeouts < MaxTimeouts
    /\ timeouts' = timeouts + 1
    /\ owner' = "idle"
    /\ UNCHANGED <<running, queue, subs, minted, worker, starts, emitted, dropped, received>>

-----------------------------------------------------------------------------
(* The worker thread: _process_events and, inlined in it, _deliver_event. *)
CheckRunning(w) ==
    /\ worker[w].pc = "check"
    /\ worker' = [worker EXCEPT ![w].pc = IF running THEN "get" ELSE "done"]
    /\ UNCHANGED <<running, queue, subs, minted, starts, owner, timeouts,
                   emitted, dropped, received>>

GetEmpty(w) ==
    /\ worker[w].pc = "get"
    /\ queue = <<>>
    /\ worker' = [worker EXCEPT ![w].pc = "check"]
    /\ UNCHANGED <<running, queue, subs, minted, starts, owner, timeouts,
                   emitted, dropped, received>>

(* Mutant of Get: the event is looked at and left in the queue. *)
GetPeek(w) ==
    /\ worker[w].pc = "get"
    /\ queue # <<>>
    /\ worker' = [worker EXCEPT
            ![w] = IF Head(queue) = Sentinel
                   THEN [@ EXCEPT !.pc = "done"]
                   ELSE [@ EXCEPT !.pc = "snapshot", !.event = Head(queue)]]
    /\ UNCHANGED <<running, queue, subs, minted, starts, owner, timeouts,
                   emitted, dropped, received>>

Get(w) ==
    /\ worker[w].pc = "get"
    /\ queue # <<>>
    /\ queue' = Tail(queue)
    /\ worker' = [worker EXCEPT
            ![w] = IF Head(queue) = Sentinel
                   THEN [@ EXCEPT !.pc = "done"]
                   ELSE [@ EXCEPT !.pc = "snapshot", !.event = Head(queue)]]
    /\ UNCHANGED <<running, subs, minted, starts, owner, timeouts, emitted, dropped, received>>

(* The list of subscribers is copied under the lock, then called outside it. *)
Snapshot(w) ==
    /\ worker[w].pc = "snapshot"
    /\ worker' = [worker EXCEPT
            ![w].pc = "call",
            ![w].calls = subs[TypeOf[worker[w].event]] \o subs[Wildcard]]
    /\ UNCHANGED <<running, queue, subs, minted, starts, owner, timeouts,
                   emitted, dropped, received>>

(* A callback returns or raises, to the same effect. *)
Call(w) ==
    /\ worker[w].pc = "call"
    /\ worker[w].calls # <<>>
    /\ received' = [received EXCEPT ![Head(worker[w].calls)] =
                        Append(@, worker[w].event)]
    /\ worker' = [worker EXCEPT ![w].calls = Tail(@)]
    /\ UNCHANGED <<running, queue, subs, minted, starts, owner, timeouts, emitted, dropped>>

Delivered(w) ==
    /\ worker[w].pc = "call"
    /\ worker[w].calls = <<>>
    /\ worker' = [worker EXCEPT ![w].pc = "check"]
    /\ UNCHANGED <<running, queue, subs, minted, starts, owner, timeouts,
                   emitted, dropped, received>>

-----------------------------------------------------------------------------
WorkerStep(w) ==
    \/ CheckRunning(w) \/ GetEmpty(w) \/ Get(w)
    \/ Snapshot(w) \/ Call(w) \/ Delivered(w)

stop == StopFlag \/ StopPut \/ StopJoin \/ StopJoinTimeout

Next ==
    \/ emit
    \/ \E s \in Subscriptions : subscribe(s) \/ unsubscribe(s)
    \/ start
    \/ stop
    \/ \E w \in Workers : WorkerStep(w)

(* The worker is a thread the scheduler runs, and a call of stop() that has *)
(* begun goes on whenever it is not blocked; nobody has to call anything.   *)
Fairness ==
    /\ \A w \in Workers : WF_vars(WorkerStep(w))
    /\ WF_vars(StopPut \/ StopJoin)

Spec     == Init /\ [][Next]_vars
FairSpec == Spec /\ Fairness

-----------------------------------------------------------------------------
TypeOK ==
    /\ running \in BOOLEAN
    /\ queue \in Seq(Events \cup {Sentinel})
    /\ Len(queue) <= Capacity
    /\ subs \in [Topics -> Seq(Subscriptions)]
    /\ minted \subseteq Subscriptions
    /\ worker \in [Workers -> [pc : {"none", "check", "get", "snapshot", "call", "done"},
                               event : Events \cup {Sentinel},
                               calls : Seq(Subscriptions)]]
    /\ starts \in 0..MaxStarts
    /\ owner \in {"idle", "put", "join"}
    /\ timeouts \in 0..MaxTimeouts
    /\ emitted \in 0..MaxEvents
    /\ dropped \subseteq Events
    /\ received \in [Subscriptions -> Seq(Events)]

(* No subscriber is called twice with one event, whatever start, stop and   *)
(* unsubscribe do meanwhile and even while two workers drain the queue.     *)
(* With one worker at a time (no join timed out) it sees events in the      *)
(* order they were emitted and skips only those a full queue refused;       *)
(* across a restart the events left in the queue come first.                *)
InOrderWithoutGaps ==
    /\ \A s \in Subscriptions : IsInjective(received[s])
    /\ timeouts = 0 =>
           \A s \in Subscriptions : \A i \in 1..(Len(received[s]) - 1) :
               /\ received[s][i] < received[s][i + 1]
               /\ \A e \in (received[s][i] + 1)..(received[s][i + 1] - 1) :
                       Topic[s] \in {Wildcard, TypeOf[e]} => e \in dropped

(* Once stop() has returned without giving up, no callback runs until the   *)
(* next start(): the flag is set and the worker joined in that order.       *)
QuietAfterStop ==
    timeouts = 0 /\ owner = "idle" /\ ~running =>
        \A w \in Workers : worker[w].pc \in {"none", "done"}

(* In the first life of the emitter an event that was queued is taken by    *)
(* the worker unless stop() is called.  Later lives give no such promise: a *)
(* sentinel an earlier worker never took ends the next worker at once.      *)
EventsDelivered ==
    \A e \in Events :
        (running /\ starts = 1 /\ e \in ToSet(queue)) ~> (e \notin ToSet(queue) \/ ~running)

(* stop(): "timeout: Maximum time to wait for thread to finish."  The call   *)
(* returns.                                                                 *)
StopReturns == (owner # "idle") ~> (owner = "idle")
=============================================================================
