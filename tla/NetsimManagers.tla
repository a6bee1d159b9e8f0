--------------------------- MODULE NetsimManagers ---------------------------
(* The session manager and the trigger manager (netsim/managers/session.py,    *)
(* netsim/triggers.py) over one link: a receive loop handles messages in the     *)
(* order of the link, and a task goes on with its answer some time after the     *)
(* loop has put it down.  A session id is used once.  EventManager, through whose *)
(* listeners others hear of this, is there for EventsFollowed.                    *)
EXTENDS EventManager

CONSTANTS
    Bearers,    \* ids of data sessions
    BearersUp,     \* those that are up at the start
    Managers,   \* tasks
    MaxAsked,   \* bound: calls in all
    MaxHistory  \* records kept (1000)

ASSUME ManagersAssumption == MaxAsked \in Nat /\ MaxHistory \in Nat \ {0}

VARIABLES
    bearer,     \* session -> "new", "up" or "down" in the network
    inbound,       \* messages the receive loop has not handled
    inHand,      \* task -> the request in hand
    sessionCache,      \* _session_cache
    endings,    \* history: session -> how often its end was announced
    raced,      \* history: an event was handled while a list was to be stored
    asksMade,      \* calls so far
    log,        \* _trigger_history
    outcome     \* history: call -> what became of it

managerTaskVars == <<bearer, inbound, inHand, sessionCache, endings, raced, asksMade, log, outcome>>

NotAsked == [call |-> "none", at |-> "idle", of |-> {}, ask |-> "none", value |-> {}, n |-> 0]

ManagersInit ==
    /\ bearer = [s \in Bearers |-> IF s \in BearersUp THEN "up" ELSE "new"]
    /\ inbound = <<>> /\ inHand = [m \in Managers |-> NotAsked]
    /\ sessionCache = {} /\ endings = [s \in Bearers |-> 0] /\ raced = FALSE
    /\ asksMade = 0 /\ log = <<>> /\ outcome = [n \in 1..MaxAsked |-> "none"]

Up == {s \in Bearers : bearer[s] = "up"}
Event(is, s) == [is |-> is, session |-> s]
AnswerTo(m, value) == [is |-> "answer", to |-> m, n |-> inHand[m].n, value |-> value]

-----------------------------------------------------------------------------
(* The network *)

BearerComes(s) ==
    /\ bearer[s] = "new"
    /\ bearer' = [bearer EXCEPT ![s] = "up"]
    /\ inbound' = Append(inbound, Event("connect", s))
    /\ UNCHANGED <<inHand, sessionCache, endings, raced, asksMade, log, outcome>>
BearerGoes(s) ==
    /\ bearer[s] = "up"
    /\ bearer' = [bearer EXCEPT ![s] = "down"]
    /\ inbound' = Append(inbound, Event("disconnect", s))
    /\ UNCHANGED <<inHand, sessionCache, endings, raced, asksMade, log, outcome>>

\* A request is served: a list is the one of this moment, a release takes the
\* session down and is told as an event as well, a trigger is carried out or not.
ServeManager(m) ==
    /\ inHand[m].at = "sent"
    /\ LET ask == inHand[m].ask one == CHOOSE s \in inHand[m].of : TRUE
       IN \/ /\ ask = "list"
             /\ inbound' = Append(inbound, AnswerTo(m, Up))
             /\ UNCHANGED <<bearer, outcome>>
          \/ /\ ask = "release" /\ bearer[one] = "up"
             /\ bearer' = [bearer EXCEPT ![one] = "down"]
             /\ LET end == Event("disconnect", one) answer == AnswerTo(m, {"yes"})
                IN inbound' \in {Append(Append(inbound, end), answer), Append(Append(inbound, answer), end)}
             /\ UNCHANGED outcome
          \/ /\ ask = "release" /\ bearer[one] # "up"
             /\ inbound' = Append(inbound, AnswerTo(m, {"error"}))
             /\ UNCHANGED <<bearer, outcome>>
          \/ /\ ask = "trigger"
             /\ \E value \in {"yes", "no", "error"} :
                  /\ inbound' = Append(inbound, AnswerTo(m, {value}))
                  /\ outcome' = [outcome EXCEPT ![inHand[m].n] = value]
             /\ UNCHANGED bearer
    /\ inHand' = [inHand EXCEPT ![m].at = "served"]
    /\ UNCHANGED <<sessionCache, endings, raced, asksMade, log>>

-----------------------------------------------------------------------------
(* The receive loop *)

Announce(sessions) == endings' = [s \in Bearers |-> IF s \in sessions THEN endings[s] + 1 ELSE endings[s]]

\* A list that is there and not stored yet.
ListWaits == \E m \in Managers : inHand[m].at = "answered" /\ inHand[m].ask = "list"

\* _handle_connect() and _handle_disconnect()
HandleConnect(s) ==
    /\ sessionCache' = sessionCache \cup {s} /\ raced' = (raced \/ ListWaits)
    /\ UNCHANGED <<inHand, endings>>
\* Bug: a session that goes is announced and kept.
DisconnectKeeps(s) ==
    /\ Announce({s}) /\ raced' = (raced \/ ListWaits)
    /\ UNCHANGED <<inHand, sessionCache>>
HandleDisconnect(s) ==
    /\ sessionCache' = sessionCache \ {s} /\ Announce({s}) /\ raced' = (raced \/ ListWaits)
    /\ UNCHANGED inHand
\* The answer to a request that timed out is dropped.
HandleAnswer(message) ==
    /\ inHand' = [m \in Managers |->
          IF m = message.to /\ inHand[m].at = "served" /\ inHand[m].n = message.n
          THEN [inHand[m] EXCEPT !.at = "answered", !.value = message.value] ELSE inHand[m]]
    /\ UNCHANGED <<sessionCache, endings, raced>>
ReceiveMessage ==
    /\ inbound # <<>> /\ inbound' = Tail(inbound)
    /\ LET message == Head(inbound)
       IN CASE message.is = "connect" -> HandleConnect(message.session)
            [] message.is = "disconnect" -> HandleDisconnect(message.session)
            [] OTHER -> HandleAnswer(message)
    /\ UNCHANGED <<bearer, asksMade, log, outcome>>

-----------------------------------------------------------------------------
(* Calls *)

Starts(m, call, ask, of) ==
    /\ inHand[m].at = "idle" /\ asksMade < MaxAsked
    /\ asksMade' = asksMade + 1
    /\ inHand' = [inHand EXCEPT ![m] = [call |-> call, at |-> "sent", of |-> of, ask |-> ask, value |-> {}, n |-> asksMade + 1]]
    /\ UNCHANGED <<bearer, inbound, sessionCache, endings, raced, log, outcome>>
IsOver(m) == inHand' = [inHand EXCEPT ![m] = NotAsked]

\* list_sessions(); get_session() of one that is not in the cache.
ListSessions(m) == Starts(m, "list", "list", {})
GetSession(m, s) == s \notin sessionCache /\ ListSessions(m)
StoreSessions(m) ==
    /\ inHand[m].at = "answered" /\ inHand[m].ask = "list"
    /\ sessionCache' = inHand[m].value
    /\ IsOver(m)
    /\ UNCHANGED <<bearer, inbound, endings, raced, asksMade, log, outcome>>

\* release_session(), and release_sessions_by_imsi(): what the cache holds is
\* released one by one.
ReleaseSession(m, s) == Starts(m, "release", "release", {s})
ReleaseByImsi(m) == sessionCache # {} /\ Starts(m, "release_all", "release", sessionCache)
\* The next of the sessions to release, or the end of the call.
NextRelease(m) ==
    LET rest == inHand[m].of \ {CHOOSE s \in inHand[m].of : TRUE}
    IN IF inHand[m].call = "release_all" /\ rest # {} /\ asksMade < MaxAsked
       THEN /\ asksMade' = asksMade + 1
            /\ inHand' = [inHand EXCEPT ![m] =
                  [inHand[m] EXCEPT !.at = "sent", !.of = rest, !.value = {}, !.n = asksMade + 1]]
       ELSE IsOver(m) /\ UNCHANGED asksMade
Released(m) ==
    /\ inHand[m].at = "answered" /\ inHand[m].ask = "release"
    /\ LET one == CHOOSE s \in inHand[m].of : TRUE
       IN IF inHand[m].value = {"yes"} THEN sessionCache' = sessionCache \ {one} /\ Announce({one})
          ELSE UNCHANGED <<sessionCache, endings>>
    /\ NextRelease(m)
    /\ UNCHANGED <<bearer, inbound, raced, log, outcome>>

ClearCache ==
    /\ sessionCache # {} /\ sessionCache' = {}
    /\ UNCHANGED <<bearer, inbound, inHand, endings, raced, asksMade, log, outcome>>

\* The triggers: an IMSI that is not 14 or 15 digits is refused before anything
\* is asked; paging and detach record what raises, the others do not.
Trigger(m, fate) == Starts(m, fate, "trigger", {})
TriggerPaging(m) == Trigger(m, "recorded")
TriggerDetach(m) == Trigger(m, "recorded")
TriggerServiceRequest(m) == Trigger(m, "raised")
TriggerHandover(m) == Trigger(m, "raised")
TriggerCellOutage(m) == Trigger(m, "raised")
TriggerRlf(m) == Trigger(m, "raised")
TriggerTau(m) == Trigger(m, "raised")
TriggerCustom(m) == Trigger(m, "raised")

\* _record_trigger(): the newest are kept.
Recorded(n, success) ==
    LET longer == Append(log, [n |-> n, success |-> success])
    IN log' = IF Len(longer) > MaxHistory THEN Tail(longer) ELSE longer
Triggered(m) ==
    /\ inHand[m].at = "answered" /\ inHand[m].ask = "trigger"
    /\ IF inHand[m].value # {"error"} THEN Recorded(inHand[m].n, inHand[m].value = {"yes"})
       ELSE IF inHand[m].call = "recorded" THEN Recorded(inHand[m].n, FALSE)
       ELSE UNCHANGED log
    /\ IsOver(m)
    /\ UNCHANGED <<bearer, inbound, sessionCache, endings, raced, asksMade, outcome>>

\* The time of a request is up, before or after it is served.
AskTimesOut(m) ==
    /\ inHand[m].at \in {"sent", "served"}
    /\ IF inHand[m].ask = "trigger" /\ inHand[m].call = "recorded"
       THEN Recorded(inHand[m].n, FALSE) ELSE UNCHANGED log
    /\ IF inHand[m].ask = "release" THEN NextRelease(m) ELSE IsOver(m) /\ UNCHANGED asksMade
    /\ UNCHANGED <<bearer, inbound, sessionCache, endings, raced, outcome>>

SessionManagerNext ==
    \/ ReceiveMessage \/ ClearCache
    \/ \E s \in Bearers : BearerComes(s) \/ BearerGoes(s)
    \/ \E m \in Managers :
        \/ ServeManager(m) \/ ListSessions(m) \/ StoreSessions(m) \/ ReleaseByImsi(m) \/ Released(m)
        \/ \E s \in Bearers : GetSession(m, s) \/ ReleaseSession(m, s)
        \/ AskTimesOut(m)
TriggerManagerNext ==
    \/ ReceiveMessage
    \/ \E m \in Managers :
        \/ TriggerPaging(m) \/ TriggerDetach(m) \/ TriggerServiceRequest(m) \/ TriggerHandover(m)
        \/ TriggerCellOutage(m) \/ TriggerRlf(m) \/ TriggerTau(m) \/ TriggerCustom(m)
        \/ ServeManager(m) \/ Triggered(m) \/ AskTimesOut(m)

ManagersSpec == ManagersInit /\ [][SessionManagerNext \/ TriggerManagerNext]_managerTaskVars

-----------------------------------------------------------------------------
\* With nothing on its way, the cache holds no session that has ended, and the
\* end of each that ended was announced, however lists, events and releases
\* cross (netsim/managers/session.py).  An event handled between a list's answer
\* and its storing is the exception: the older list wins.
Settled == inbound = <<>> /\ \A m \in Managers : inHand[m].at \in {"idle", "sent"}
CacheFollows ==
    Settled => /\ ~raced => sessionCache \subseteq Up
               /\ \A s \in Bearers : bearer[s] = "down" => endings[s] > 0

\* An end is announced of a session that has ended, and at most twice: by the
\* event and by the release.
EndsAreEnds == \A s \in Bearers : endings[s] > 0 => bearer[s] = "down" /\ endings[s] <= 2

\* The history tells of each trigger once, says of none that it worked that the
\* network has not carried out, and forgets one that worked only for newer ones
\* (TriggerManager._record_trigger).
HistoryTrue ==
    /\ \A i, j \in DOMAIN log : i # j => log[i].n # log[j].n
    /\ \A i \in DOMAIN log : log[i].success => outcome[log[i].n] = "yes"
    /\ Len(log) <= MaxHistory

ManagersSound == CacheFollows /\ EndsAreEnds /\ HistoryTrue

\* What listeners and caches make of events.
EventsFollowed == EventManagerTypeOK /\ ListenersHear /\ ManagersSound
=============================================================================
