----------------------------- MODULE OtaSession -----------------------------
(***************************************************************************)
(* An admin session end to end: the mobile simulator (simulator/client.py, *)
(* http_client.py, psk_tls_client.py) against the handler of HTTPHandler.  *)
(* The client is one coroutine; its state is ConnectionState, and step     *)
(* says which await it is at.  The client's connection number is current.  *)
(***************************************************************************)
EXTENDS HTTPHandler, FiniteSets

CONSTANTS
    RetryCount,      \* config.retry_count
    SessionTimeout,  \* poll intervals without a command, 0 for no limit
    MaxRuns,         \* bound: calls of run_session()
    MaxPolls         \* bound: polls of a persistent client

ASSUME ClientAssumption ==
    RetryCount \in Nat /\ SessionTimeout \in Nat /\ MaxRuns \in Nat /\ MaxPolls \in Nat

VARIABLES
    persistent,  \* connection_mode = PERSISTENT (the other modes act alike)
    state,       \* ConnectionState
    step,        \* the await the coroutine is at
    current,     \* the connection it holds, 0 for none
    attempt,     \* connect() attempts made since IDLE
    asking,      \* the request in flight: what it is
    command,     \* the C-APDU in hand
    idle,        \* poll intervals since a command came
    polls,       \* polls so far
    runs,        \* calls of run_session() so far
    result,      \* how the last run_session ended
    answered,    \* per session, the exchanges of this client
    executed     \* the commands the virtual UICC processed, in order

clientVars == <<persistent, state, step, current, attempt, asking, command,
                idle, polls, runs, result, answered, executed>>
vars == <<handlerVars, clientVars>>

Init ==
    /\ HandlerInit
    /\ persistent \in BOOLEAN
    /\ state = "idle"
    /\ step = "none"
    /\ current = 0
    /\ attempt = 0
    /\ asking = None
    /\ command = None
    /\ idle = 0
    /\ polls = 0
    /\ runs = 0
    /\ result = None
    /\ answered = [s \in SessionIds |-> <<>>]
    /\ executed = <<>>

Connections == Cardinality({s \in SessionIds : worker[s] # None})

-----------------------------------------------------------------------------
(* connect(). *)
Connect ==
    /\ state = "idle"
    /\ Connections < MaxSessions
    /\ state' = "connecting"
    /\ attempt' = 1
    /\ UNCHANGED <<persistent, step, current, asking, command, idle, polls, runs, result,
                   answered, executed, handlerVars>>

ConnectOk ==
    /\ state = "connecting"
    /\ current' = Connections + 1
    /\ Open(current')
    /\ state' = "connected"
    /\ attempt' = 0
    /\ UNCHANGED <<persistent, step, asking, command, idle, polls,
                   runs, result, answered, executed>>

(* Refused or timed out: try again while attempts are left.                 *)
ConnectRefused ==
    /\ state = "connecting"
    /\ IF attempt <= RetryCount
       THEN attempt' = attempt + 1 /\ UNCHANGED state
       ELSE state' = "error" /\ attempt' = 0
    /\ UNCHANGED <<persistent, step, current, asking, command, idle, polls, runs, result,
                   answered, executed, handlerVars>>

(* HandshakeError, or an error nobody expected: no retry. *)
ConnectFails ==
    /\ state = "connecting"
    /\ state' = "error"
    /\ attempt' = 0
    /\ UNCHANGED <<persistent, step, current, asking, command, idle, polls,
                   runs, result, answered, executed, handlerVars>>

-----------------------------------------------------------------------------
(* run_session(): an exchange may last longer than the session time-out.    *)
Slow == IF persistent /\ SessionTimeout > 0 THEN {0, SessionTimeout + 1} ELSE {0}

RunSession ==
    /\ state = "connected" /\ step = "none"
    /\ runs < MaxRuns
    /\ runs' = runs + 1
    /\ state' = "exchanging"
    /\ step' = "send"
    /\ asking' = "initial"
    /\ idle' \in Slow
    /\ result' = None
    /\ UNCHANGED <<persistent, current, attempt, command, polls, answered, executed,
                   handlerVars>>

(* send(): on a connection the peer has closed the bytes may still go out.  *)
Send ==
    /\ step = "send" /\ link[current] = "up"
    /\ up' = [up EXCEPT ![current] =
                IF worker[current] = "gone" THEN None
                ELSE IF asking = "answer" THEN "answer" ELSE "empty"]
    /\ step' = "receive"
    /\ UNCHANGED <<persistent, state, current, attempt, asking, command, idle, polls,
                   runs, result, answered, executed, queues, worker, reply, down, link,
                   sent, received, operator>>

(* The response in the buffer.  Reading in chunks may take with it the      *)
(* response behind it, which is then lost.                                  *)
Take ==
    \E rest \in {Tail(down[current]), <<>>} : down' = [down EXCEPT ![current] = rest]

(* A command, or Done: an empty C-APDU. *)
Receive ==
    /\ step = "receive"
    /\ down[current] # <<>>
    /\ Head(down[current]) # Error
    /\ Take
    /\ command' = IF Head(down[current]) = Done THEN None ELSE Head(down[current])
    /\ idle' = IF command' # None /\ asking \in {"poll", "repoll"} THEN 0 ELSE idle
    /\ step' = "loop"
    /\ UNCHANGED <<persistent, state, current, attempt, asking, polls, runs, result,
                   answered, executed, queues, worker, reply, up, link,
                   sent, received, operator>>

(* What send and receive raise.  "closed" is HTTPProtocolError: the peer's  *)
(* end of file; "lost" is ConnectionError; "late" is TimeoutError.          *)
Fails(why) ==
    CASE why = "status" -> step = "receive" /\ down[current] # <<>> /\ Head(down[current]) = Error
      [] why = "closed" -> step = "receive" /\ down[current] = <<>> /\ worker[current] = "gone"
      [] why = "lost"   -> /\ step \in {"send", "receive"}
                           /\ link[current] # "up" \/ worker[current] = "gone"
      [] why = "late"   -> step = "receive" /\ down[current] = <<>>

Errors == {"status", "closed", "lost", "late"}

(* The errors the poll branch catches: PSKTLSClientError on the first poll, *)
(* everything on the poll that follows a reconnection.                      *)
Caught(why) ==
    \/ asking = "poll" /\ why \in {"lost", "late"}
    \/ asking = "repoll"

(* run_session returns: its local variables are gone. *)
Return ==
    /\ step' = "none"
    /\ asking' = None
    /\ command' = None
    /\ idle' = 0

(* Any other error ends the session. *)
SessionFails(why) ==
    /\ Fails(why) /\ ~Caught(why)
    /\ IF why = "status" THEN Take ELSE UNCHANGED down
    /\ state' = IF why = "late" THEN "timeout" ELSE "error"
    /\ result' = "failed"
    /\ Return
    /\ UNCHANGED <<persistent, current, attempt, polls, runs,
                   answered, executed, queues, worker, reply, up, link,
                   sent, received, operator>>

PollFails(why) ==
    /\ Fails(why) /\ Caught(why)
    /\ IF why = "status" THEN Take ELSE UNCHANGED down
    /\ step' = IF asking = "repoll" THEN "loop" ELSE "reconnect"
    /\ UNCHANGED <<persistent, state, current, attempt, asking, command, idle, polls,
                   runs, result, answered, executed, queues, worker, reply, up, link,
                   sent, received, operator>>

(* The old connection is closed; the next one may fail, and the next poll   *)
(* on the closed client then raises and comes back here.                    *)
Reconnect ==
    /\ step = "reconnect"
    /\ Connections < MaxSessions
    /\ current' = Connections + 1
    /\ worker' = [worker EXCEPT ![current'] = "read"]
    /\ link' = [link EXCEPT ![current] = IF @ = "up" THEN "closed" ELSE @, ![current'] = "up"]
    /\ step' = "send"
    /\ asking' = "repoll"
    /\ UNCHANGED <<persistent, state, attempt, command, idle, polls, runs, result, answered,
                   executed, queues, reply, up, down, sent, received, operator>>

ReconnectFails ==
    /\ step = "reconnect"
    /\ link' = [link EXCEPT ![current] = IF @ = "up" THEN "closed" ELSE @]
    /\ step' = "loop"
    /\ UNCHANGED <<persistent, state, current, attempt, asking, command, idle, polls,
                   runs, result, answered, executed, queues, worker, reply, up, down,
                   sent, received, operator>>

TimedOut == persistent /\ SessionTimeout > 0 /\ idle > SessionTimeout

(* Mutant of Finish: a session never ends on an empty C-APDU. *)
FinishOnlyTimedOut ==
    /\ step = "loop"
    /\ TimedOut
    /\ state' = "connected"
    /\ result' = "success"
    /\ Return
    /\ UNCHANGED <<persistent, current, attempt, polls, runs, answered, executed, handlerVars>>

(* The top of the loop: the time-out first, whatever is in hand.            *)
Finish ==
    /\ step = "loop"
    /\ TimedOut \/ (command = None /\ ~persistent)
    /\ state' = "connected"
    /\ result' = "success"
    /\ Return
    /\ UNCHANGED <<persistent, current, attempt, polls, runs, answered, executed, handlerVars>>

Poll ==
    /\ step = "loop" /\ ~TimedOut /\ command = None /\ persistent
    /\ polls < MaxPolls
    /\ polls' = polls + 1
    /\ idle' = IF idle <= SessionTimeout THEN idle + 1 ELSE idle
    /\ step' = "send"
    /\ asking' = "poll"
    /\ UNCHANGED <<persistent, state, current, attempt, command, runs, result,
                   answered, executed, handlerVars>>

(* maybe_inject_behavior may answer in the card's place; either way there   *)
(* is one exchange and one answer to send.                                  *)
Process ==
    /\ step = "loop" /\ ~TimedOut /\ command # None
    /\ executed' \in {executed, Append(executed, command)}
    /\ answered' = [answered EXCEPT ![current] = Append(@, command)]
    /\ command' = None
    /\ idle' \in Slow
    /\ asking' = "answer"
    /\ step' = "send"
    /\ UNCHANGED <<persistent, state, current, attempt, polls, runs, result, handlerVars>>

(* disconnect(), which run_complete_session calls whatever happened.        *)
Disconnect ==
    /\ state \in {"connected", "error", "timeout"} /\ step = "none"
    /\ state' = "idle"
    /\ current' = 0
    /\ link' = IF current = 0 THEN link
               ELSE [link EXCEPT ![current] = IF @ = "up" THEN "closed" ELSE @]
    /\ UNCHANGED <<persistent, step, attempt, asking, command, idle, polls, runs, result,
                   answered, executed, queues, worker, reply, up, down,
                   sent, received, operator>>

Client ==
    \/ Connect \/ ConnectOk \/ ConnectRefused \/ ConnectFails
    \/ RunSession \/ Send \/ Receive
    \/ \E why \in Errors : SessionFails(why) \/ PollFails(why)
    \/ Reconnect \/ ReconnectFails \/ Finish \/ Poll \/ Process \/ Disconnect

-----------------------------------------------------------------------------
Server ==
    /\ \E s \in SessionIds : Worker(s) \/ Break(s)
    /\ UNCHANGED clientVars

Dashboard == OperatorStep /\ UNCHANGED clientVars

Next == Client \/ Server \/ Dashboard

Spec == Init /\ [][Next]_vars

(* The client's loop and the workers run; every read has a time-out.  The   *)
(* operator need not do anything, and nobody has to connect.                *)
Fairness ==
    /\ WF_vars(Client /\ state = "exchanging")
    /\ \A s \in SessionIds : WF_vars(Worker(s) /\ UNCHANGED clientVars)

FairSpec == Spec /\ Fairness

-----------------------------------------------------------------------------
(* Among the types: no more than RetryCount retries. *)
TypeOK ==
    /\ HandlerTypeOK
    /\ persistent \in BOOLEAN
    /\ state \in {"idle", "connecting", "connected", "exchanging", "error", "timeout"}
    /\ step \in {"none", "send", "receive", "loop", "reconnect"}
    /\ state = "exchanging" <=> step # "none"
    /\ current \in 0..MaxSessions
    /\ attempt \in 0..RetryCount + 1
    /\ asking \in {None, "initial", "answer", "poll", "repoll"}
    /\ command \in Commands \cup {None}
    /\ idle \in 0..SessionTimeout + 1
    /\ polls \in 0..MaxPolls
    /\ runs \in 0..MaxRuns
    /\ result \in {None, "success", "failed"}
    /\ answered \in [SessionIds -> Seq(Commands)]
    /\ executed \in Seq(Commands)

(* A command the operator queued once is executed by the card at most once, *)
(* whatever is lost, retried, or reconnected between the two.  In a session *)
(* that does not poll, commands and responses alternate and correspond: the *)
(* card has answered what was sent, in order, but for the last; and the     *)
(* server has the answers, in order, but for the last.                      *)
InStep ==
    /\ TypeOK
    /\ \A c \in Operator : Cardinality({i \in DOMAIN executed : executed[i] = c}) <= 1
    /\ ~persistent =>
           \A s \in SessionIds :
               /\ IsPrefix(answered[s], sent[s])
               /\ Len(sent[s]) <= received[s] + 1
               /\ received[s] <= Len(answered[s])
               /\ Len(answered[s]) <= received[s] + 1

(* A session that does not poll and is reported as a success left nothing   *)
(* behind: every command taken from the queue was answered, and the server  *)
(* has every answer.                                                        *)
SuccessMeansDone ==
    [][~persistent /\ state = "exchanging" /\ result' = "success" =>
         /\ answered[current] = sent[current]
         /\ received[current] = Len(sent[current])]_vars

(* Such a session ends, with success or an error, however the connection    *)
(* behaves and whatever the operator adds to it.                            *)
SessionEnds == (~persistent /\ state = "exchanging") ~> (state # "exchanging")

(* run_session(): "In persistent mode, polls for new commands after session *)
(* completion instead of disconnecting" (client.py): that the server closed *)
(* the connection does not make a poll fail the session.                    *)
PollSurvivesClose ==
    [][asking = "poll" /\ worker[current] = "gone" /\ down[current] = <<>>
         => result' # "failed"]_vars
=============================================================================
