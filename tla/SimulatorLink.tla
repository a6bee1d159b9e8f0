--------------------------- MODULE SimulatorLink ---------------------------
(***************************************************************************)
(* The network-simulator client (netsim): the connection's receive loop,   *)
(* the JSON-RPC adapter and the UE and SMS managers, on one event loop.    *)
(* Each step runs from one await to the next.  The simulator at the other  *)
(* end is external: it serves requests in order and sends events.          *)
(***************************************************************************)
EXTENDS Integers, Sequences, SequencesExt

CONSTANTS
    Tasks,        \* coroutines calling the managers
    Listener,     \* the user's event listener, awaited by the receive loop
    Imsis,
    Programs,     \* what the tasks may call: functions from Tasks to calls
    HistorySize,  \* max_history_size of the SMSManager
    MaxTaskCalls, \* bound: manager calls of each task
    MaxEvents     \* bound: events the simulator sends of its own accord

ASSUME LinkAssumption ==
    /\ Listener \notin Tasks
    /\ Programs \subseteq
           [Tasks -> [name : {"wait", "get", "list", "detach", "send"}, imsi : Imsis]]
    /\ HistorySize \in Nat \ {0} /\ MaxTaskCalls \in Nat /\ MaxEvents \in Nat

VARIABLES
    up,          \* SimulatorManager._connected
    connected,   \* the connection's _connected
    wire,        \* external: the websocket is intact
    attached,    \* external: the UEs on the network
    carried,     \* external: messages accepted, without a final status yet
    events,      \* external: events sent so far
    requests,    \* in flight to the simulator
    messages,    \* in flight from it
    registered,  \* keys of _pending_requests
    future,      \* per requester, the future it awaits
    calls,       \* per requester, its calls so far; <<r, calls[r]>> is its request id
    op,          \* what each task called, and for which UE
    at,          \* the await each task is at
    loop,        \* the receive loop: at recv(), in a listener, that awaits, or over
    cache,       \* UEManager._ue_cache
    waiters,     \* UEManager._waiters, per UE the tasks whose event is listed
    woken,       \* tasks whose event is set
    unfiled,     \* SMSManager._pending_messages
    history      \* SMSManager._message_history

external == <<wire, attached, carried, events>>
managers == <<cache, waiters, woken, unfiled, history>>
linkVars == <<up, connected, external, requests, messages, registered, future,
              calls, op, at, loop, managers>>

Requesters == Tasks \cup {Listener}
Id(r) == <<r, calls[r]>>

\* What a future holds: nothing yet, an exception, or the simulator's result.
Reply(is, ues) == [is |-> is, ues |-> ues]
Unset == Reply("unset", {})
Raised == Reply("raised", {})

LinkInit ==
    /\ up = TRUE
    /\ connected = TRUE
    /\ wire = TRUE
    /\ attached = {}
    /\ carried = {}
    /\ events = 0
    /\ requests = <<>>
    /\ messages = <<>>
    /\ registered = {}
    /\ future = [r \in Requesters |-> Unset]
    /\ calls = [r \in Requesters |-> 0]
    /\ op \in Programs
    /\ at = [t \in Tasks |-> "idle"]
    /\ loop = "receiving"
    /\ cache = {}
    /\ waiters = [i \in Imsis |-> {}]
    /\ woken = {}
    /\ unfiled = {}
    /\ history = <<>>

Returns(t) == at' = [at EXCEPT ![t] = "idle"]

-----------------------------------------------------------------------------
(* The simulator and the wire. *)

Serve ==
    /\ wire
    /\ requests # <<>>
    /\ LET q == Head(requests)
           answer(r) == [id |-> q.id, reply |-> r]
           status(name) == [event |-> name, of |-> q.imsi]
       IN  \/ /\ messages' = Append(messages, answer(Raised))
              /\ UNCHANGED <<attached, carried>>
           \/ /\ q.name \in {"wait", "get"}
              /\ messages' = Append(messages, answer(
                     Reply(IF q.imsi \in attached THEN "present" ELSE "absent", {})))
              /\ UNCHANGED <<attached, carried>>
           \/ /\ q.name = "list"
              /\ messages' = Append(messages, answer(Reply("list", attached)))
              /\ UNCHANGED <<attached, carried>>
           \/ /\ q.name = "detach"
              /\ q.imsi \in attached
              /\ attached' = attached \ {q.imsi}
              /\ messages' = messages \o <<answer(Reply("done", {})), status("ue_detached")>>
              /\ UNCHANGED carried
           \/ /\ q.name = "send"
              /\ messages' = Append(messages, answer(Reply("done", {})))
              /\ carried' = carried \cup {q.id}
              /\ UNCHANGED attached
    /\ requests' = Tail(requests)
    /\ UNCHANGED <<up, connected, wire, events, registered, future, calls, op, at,
                   loop, managers>>

Happens(name, of) ==
    /\ wire
    /\ events < MaxEvents
    /\ events' = events + 1
    /\ messages' = Append(messages, [event |-> name, of |-> of])
    /\ UNCHANGED <<up, connected, wire, requests, registered, future, calls, op, at,
                   loop, managers>>

UEMoves ==
    \E i \in Imsis :
        /\ attached' = IF i \in attached THEN attached \ {i} ELSE attached \cup {i}
        /\ Happens(IF i \in attached THEN "ue_detached" ELSE "ue_attached", i)
        /\ UNCHANGED carried

SmsMoves ==
    \E m \in carried, final \in BOOLEAN :
        /\ Happens(IF final THEN "sms_final" ELSE "sms_sent", m)
        /\ carried' \in {carried, carried \ {m}}
        /\ UNCHANGED attached

WireBreaks ==
    /\ wire
    /\ wire' = FALSE
    /\ requests' = <<>>
    /\ \E n \in 0..Len(messages) : messages' = SubSeq(messages, 1, n)
    /\ attached' = {} /\ carried' = {}  \* nobody sees them any more
    /\ UNCHANGED <<up, connected, events, registered, future, calls,
                   op, at, loop, managers>>

-----------------------------------------------------------------------------
(* A manager call, up to its first await: AmarisoftAdapter._send_request().  *)

Sends(r, what) ==
    /\ future' = [future EXCEPT ![r] = Unset]
    /\ calls' = [calls EXCEPT ![r] = @ + 1]
    /\ registered' = registered \cup {<<r, calls[r] + 1>>}
    /\ requests' = IF wire
                     THEN Append(requests, [id |-> <<r, calls[r] + 1>>,
                                            name |-> what.name, imsi |-> what.imsi])
                     ELSE requests

\* _send_request()'s finally clause: the request is over.
RequestEnds(r) ==
    /\ registered' = registered \ {Id(r)}
    /\ future' = [future EXCEPT ![r] = Unset]

\* wait_for_registration() and get_ue() look in the cache first.
Cached(t) == op[t].name \in {"wait", "get"} /\ op[t].imsi \in cache

CallReturns(t) ==
    /\ at[t] = "idle"
    /\ up
    /\ calls[t] < MaxTaskCalls
    /\ calls' = [calls EXCEPT ![t] = @ + 1]
    /\ \/ Cached(t) /\ Returns(t) /\ UNCHANGED connected
       \/ ~Cached(t) /\ ~connected /\ Returns(t) /\ UNCHANGED connected
       \/ \* connection.send() raises
          /\ ~Cached(t) /\ connected /\ ~wire
          /\ connected' = FALSE
          /\ Returns(t)
    /\ UNCHANGED <<up, external, requests, messages, registered, future, op, loop, managers>>

CallAsks(t) ==
    /\ at[t] = "idle"
    /\ up /\ connected
    /\ calls[t] < MaxTaskCalls
    /\ ~Cached(t)
    /\ Sends(t, op[t])
    /\ at' = [at EXCEPT ![t] = "asking"]
    /\ UNCHANGED <<up, connected, external, messages, op, loop, managers>>

-----------------------------------------------------------------------------
(* The receive loop: one message, its callbacks awaited before the next.    *)

\* _handle_response()
Answer(m) ==
    /\ IF m.id \in registered /\ future[m.id[1]] = Unset
         THEN future' = [future EXCEPT ![m.id[1]] = m.reply]
         ELSE UNCHANGED future
    /\ UNCHANGED <<loop, managers>>

\* _handle_event() goes on to emit(), whose listeners may suspend the loop.
Emits == loop' \in {"receiving", "listening"} /\ UNCHANGED future

\* UEManager._handle_attach() and _handle_detach()
Attached(i) ==
    /\ cache' = cache \cup {i}
    /\ woken' = woken \cup waiters[i]
    /\ waiters' = [waiters EXCEPT ![i] = {}]
    /\ Emits
    /\ UNCHANGED <<unfiled, history>>

Detached(i) ==
    /\ cache' = cache \ {i}
    /\ Emits
    /\ UNCHANGED <<waiters, woken, unfiled, history>>

\* SMSManager._handle_sent() and _add_to_history()
File(m) ==
    LET longer == Append(history, m)
    IN  IF Len(longer) > HistorySize THEN Tail(longer) ELSE longer

StatusCame(m, final) ==
    /\ IF m \in unfiled /\ final
         THEN /\ history' = File(m)
              /\ unfiled' = unfiled \ {m}
         ELSE UNCHANGED <<history, unfiled>>
    /\ Emits
    /\ UNCHANGED <<cache, waiters, woken>>

Receive ==
    /\ loop = "receiving"
    /\ connected
    /\ messages # <<>>
    /\ messages' = Tail(messages)
    /\ LET m == Head(messages)
       IN  \/ "id" \in DOMAIN m /\ Answer(m)
           \/ /\ "event" \in DOMAIN m
              /\ \/ m.event = "ue_attached" /\ Attached(m.of)
                 \/ m.event = "ue_detached" /\ Detached(m.of)
                 \/ m.event = "sms_sent" /\ StatusCame(m.of, FALSE)
                 \/ m.event = "sms_final" /\ StatusCame(m.of, TRUE)
    /\ UNCHANGED <<up, connected, external, requests, registered, calls, op, at>>

\* recv() raises ConnectionClosed, or the loop finds _connected cleared.
LoopEnds ==
    /\ loop = "receiving"
    /\ \/ ~connected
       \/ ~wire /\ messages = <<>>
    /\ loop' = "ended"
    /\ connected' = FALSE
    /\ UNCHANGED <<up, external, requests, messages, registered, future, calls, op, at,
                   managers>>

ListenerReturns ==
    /\ loop = "listening"
    /\ loop' = "receiving"
    /\ UNCHANGED <<up, connected, external, requests, messages, registered, future,
                   calls, op, at, managers>>

\* A listener that calls the adapter waits for an answer only its own caller
\* could receive.
ListenerAsks ==
    /\ loop = "listening"
    /\ connected
    /\ calls[Listener] < MaxTaskCalls
    /\ \E i \in Imsis : Sends(Listener, [name |-> "get", imsi |-> i])
    /\ loop' = "asking"
    /\ UNCHANGED <<up, connected, external, messages, op, at, managers>>

ListenerEnds ==
    /\ loop = "asking"
    /\ RequestEnds(Listener)
    /\ loop' = "listening"
    /\ UNCHANGED <<up, connected, external, requests, messages, calls, op, at, managers>>

-----------------------------------------------------------------------------
(* A call goes on with its answer, an exception or its time-out.            *)

\* wait_for_registration() takes every exception for "not registered yet".
WaitsOn(t) ==
    /\ waiters' = [waiters EXCEPT ![op[t].imsi] = @ \cup {t}]
    /\ woken' = woken \ {t}
    /\ at' = [at EXCEPT ![t] = "waiting"]
    /\ UNCHANGED <<cache, unfiled>>

\* An exception reaches the caller of the other calls.
Fails(t) ==
    IF op[t].name = "wait"
      THEN WaitsOn(t)
      ELSE Returns(t) /\ UNCHANGED <<cache, waiters, woken, unfiled>>

Concludes(t, value) ==
    \/ /\ op[t].name = "wait" /\ value.is = "absent"
       /\ WaitsOn(t)
    \/ /\ op[t].name = "get" /\ value.is = "absent"
       /\ Returns(t)
       /\ UNCHANGED <<cache, waiters, woken, unfiled>>
    \/ /\ value.is = "present"
       /\ cache' = cache \cup {op[t].imsi}
       /\ Returns(t)
       /\ UNCHANGED <<waiters, woken, unfiled>>
    \/ /\ op[t].name = "list"
       /\ cache' = value.ues
       /\ Returns(t)
       /\ UNCHANGED <<waiters, woken, unfiled>>
    \/ /\ op[t].name = "detach"
       /\ cache' = cache \ {op[t].imsi}
       /\ Returns(t)
       /\ UNCHANGED <<waiters, woken, unfiled>>
    \/ /\ op[t].name = "send"
       /\ unfiled' = unfiled \cup {Id(t)}
       /\ Returns(t)
       /\ UNCHANGED <<cache, waiters, woken>>

Resume(t) ==
    /\ at[t] = "asking"
    /\ future[t] # Unset
    /\ IF future[t] = Raised THEN Fails(t) ELSE Concludes(t, future[t])
    /\ RequestEnds(t)
    /\ UNCHANGED <<up, connected, external, requests, messages, calls, op, loop, history>>

(* Mutant: the time-out watches only a live connection. *)
ConnectedRequestTimesOut(t) ==
    /\ at[t] = "asking"
    /\ connected
    /\ Fails(t)
    /\ RequestEnds(t)
    /\ UNCHANGED <<up, connected, external, requests, messages, calls, op, loop, history>>

RequestTimesOut(t) ==
    /\ at[t] = "asking"
    /\ Fails(t)
    /\ RequestEnds(t)
    /\ UNCHANGED <<up, connected, external, requests, messages, calls, op, loop, history>>

\* event.wait() returns or times out; the finally clause takes the event off the list.
WaitEnds(t) ==
    /\ at[t] = "waiting"
    /\ waiters' = [waiters EXCEPT ![op[t].imsi] = @ \ {t}]
    /\ woken' = woken \ {t}
    /\ Returns(t)
    /\ UNCHANGED <<up, connected, external, requests, messages, registered, future, calls,
                   op, loop, cache, unfiled, history>>

-----------------------------------------------------------------------------
(* SimulatorManager.disconnect(), up to where it awaits the receive loop;    *)
(* the loop is cancelled wherever it is.                                     *)

(* Mutant: cancel_pending_requests() forgets the requests without failing them. *)
DisconnectSilently ==
    /\ up
    /\ up' = FALSE
    /\ registered' = {}
    /\ connected' = FALSE
    /\ wire' = FALSE /\ requests' = <<>> /\ messages' = <<>>
    /\ attached' = {} /\ carried' = {}
    /\ UNCHANGED <<events, future, calls, op, at, loop, managers>>

Disconnect ==
    /\ up
    /\ up' = FALSE
    /\ future' = [r \in Requesters |->
                     IF Id(r) \in registered /\ future[r] = Unset THEN Raised ELSE future[r]]
    /\ registered' = {}
    /\ connected' = FALSE
    /\ wire' = FALSE /\ requests' = <<>> /\ messages' = <<>>  \* nothing is read any more
    /\ attached' = {} /\ carried' = {}
    /\ UNCHANGED <<events, calls, op, at, loop, managers>>

LoopCancelled ==
    /\ ~up
    /\ loop # "ended"
    /\ loop' = "ended"
    /\ UNCHANGED <<up, connected, external, requests, messages, registered, future, calls,
                   op, at, managers>>

Task(t) == CallReturns(t) \/ CallAsks(t) \/ Resume(t) \/ RequestTimesOut(t) \/ WaitEnds(t)
Loop == Receive \/ LoopEnds \/ ListenerReturns \/ ListenerAsks \/ ListenerEnds \/ LoopCancelled
Simulator == Serve \/ UEMoves \/ SmsMoves \/ WireBreaks

LinkNext == (\E t \in Tasks : Task(t)) \/ Loop \/ Simulator \/ Disconnect

LinkSpec == LinkInit /\ [][LinkNext]_linkVars

\* Time passes and the event loop runs: a time-out fires, a ready task resumes.
LinkFairness ==
    /\ \A t \in Tasks :
           WF_linkVars(Resume(t)) /\ WF_linkVars(RequestTimesOut(t)) /\ WF_linkVars(WaitEnds(t))
    /\ WF_linkVars(ListenerEnds) /\ WF_linkVars(ListenerReturns) /\ WF_linkVars(LoopCancelled)

-----------------------------------------------------------------------------
(* Every variable has its type; the history keeps within its size. *)
LinkTypeOK ==
    /\ up \in BOOLEAN /\ connected \in BOOLEAN /\ wire \in BOOLEAN
    /\ attached \subseteq Imsis /\ cache \subseteq Imsis
    /\ events \in 0..MaxEvents
    /\ calls \in [Requesters -> 0..MaxTaskCalls]
    /\ \A r \in Requesters :
           /\ future[r].is \in {"unset", "raised", "present", "absent", "list", "done"}
           /\ future[r].ues \subseteq Imsis
    /\ at \in [Tasks -> {"idle", "asking", "waiting"}]
    /\ loop \in {"receiving", "listening", "asking", "ended"}
    /\ waiters \in [Imsis -> SUBSET Tasks] /\ woken \subseteq Tasks
    /\ Len(history) <= HistorySize

(* _pending_requests and _waiters hold nothing of a call that is over: each *)
(* finally clause undoes what its call registered, on time-outs, errors and *)
(* after the lists were emptied by others.                                  *)
NothingLeaks ==
    /\ \A id \in registered :
           /\ id = Id(id[1])
           /\ IF id[1] = Listener THEN loop = "asking" ELSE at[id[1]] = "asking"
    /\ \A i \in Imsis, t \in Tasks : t \in waiters[i] => at[t] = "waiting" /\ op[t].imsi = i

(* A message is either pending or in the history, and in the history once,  *)
(* however its status events are repeated or ordered against its response.  *)
SmsFiledOnce ==
    /\ IsInjective(history)
    /\ unfiled \cap ToSet(history) = {}

(* After disconnect() no call waits for an answer: its future is settled,   *)
(* also if the call was made from a listener.                               *)
DisconnectReleases ==
    ~up => /\ \A t \in Tasks : at[t] = "asking" => future[t] # Unset
           /\ loop = "asking" => future[Listener] # Unset

(* Nothing is left over of what is over: requests and waiters, messages,    *)
(* and the calls under way at disconnect().                                 *)
LinkSound == LinkTypeOK /\ NothingLeaks /\ SmsFiledOnce /\ DisconnectReleases

(* Every manager call returns and the receive loop never hangs for good,    *)
(* even when a listener awaits an answer the blocked loop cannot receive.   *)
CallsReturn ==
    /\ \A t \in Tasks : at[t] # "idle" ~> at[t] = "idle"
    /\ loop \in {"listening", "asking"} ~> loop \in {"receiving", "ended"}

(* "Blocks until the specified UE attaches": no caller of                   *)
(* wait_for_registration() is blocked while the UE is known to be attached. *)
NoBlockedWaiter == \A t \in Tasks : at[t] = "waiting" /\ t \notin woken => op[t].imsi \notin cache
=============================================================================
