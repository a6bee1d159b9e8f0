---------------------------- MODULE HTTPHandler ----------------------------
(***************************************************************************)
(* server/http_handler.py as the session loop of admin_server.py drives    *)
(* it: the command queue of each session, one request answered at a time,  *)
(* and the operator whose thread queues commands meanwhile.  A connection  *)
(* and its server session share a number.  The queue is a dict of lists    *)
(* with no lock, so queue_commands is three steps: look for the list, put  *)
(* an empty one, extend it.                                                *)
(*                                                                         *)
(* A request is "empty" (initial or poll: the handler does not look at     *)
(* X-Admin-Resume) or "answer", an R-APDU.  A response is a command, or    *)
(* Done (204) or Error (4xx, 5xx), which close the connection.             *)
(***************************************************************************)
EXTENDS Naturals, Sequences, SequencesExt

CONSTANTS
    Demo,        \* DEMO_COMMANDS, a sequence
    Operator,    \* commands the operator may queue, each once
    MaxSessions  \* bound: connections made

None   == "none"
Done   == "done"
Error  == "error"

ASSUME HandlerAssumption ==
    /\ Demo \in Seq(ToSet(Demo)) /\ Demo # <<>>
    /\ Operator \cap ToSet(Demo) = {}
    /\ {None, Done, Error} \cap (Operator \cup ToSet(Demo)) = {}
    /\ MaxSessions \in Nat

VARIABLES
    queues,    \* _command_queues: a function from the sessions that have a list
    worker,    \* per session, where its worker is
    reply,     \* per session, the response it is about to write
    up,        \* per connection, the request not yet read
    down,      \* per connection, the responses not yet read
    link,      \* per connection: "up", "closed" by the client, or "broken"
    sent,      \* per session, the commands popped for it (EVENT_APDU_SENT)
    received,  \* per session, how many R-APDUs arrived (EVENT_APDU_RECEIVED)
    operator   \* the operator's thread: place, session, command, what is left

handlerVars == <<queues, worker, reply, up, down, link, sent, received, operator>>

SessionIds == 1..MaxSessions
Commands   == ToSet(Demo) \cup Operator

HandlerInit ==
    /\ queues = <<>>
    /\ worker = [s \in SessionIds |-> None]
    /\ reply = [s \in SessionIds |-> None]
    /\ up = [s \in SessionIds |-> None]
    /\ down = [s \in SessionIds |-> <<>>]
    /\ link = [s \in SessionIds |-> None]
    /\ sent = [s \in SessionIds |-> <<>>]
    /\ received = [s \in SessionIds |-> 0]
    /\ operator = [at |-> "idle", session |-> 0, command |-> None, left |-> Operator]

Goto(s, place) == worker' = [worker EXCEPT ![s] = place]

Pending(s) == s \in DOMAIN queues /\ queues[s] # <<>>

(* The dictionary with an empty list at s, whatever was there. *)
WithList(s) == [x \in DOMAIN queues \cup {s} |-> IF x = s THEN <<>> ELSE queues[x]]

-----------------------------------------------------------------------------
(* The connection of session s is accepted, its handshake done. *)
Open(s) ==
    /\ worker[s] = None
    /\ Goto(s, "read")
    /\ link' = [link EXCEPT ![s] = "up"]
    /\ UNCHANGED <<queues, reply, up, down, sent, received, operator>>

(* _read_request, and what handle_request does before the next command. *)
ReadRequest(s) ==
    /\ worker[s] = "read" /\ up[s] # None
    /\ up' = [up EXCEPT ![s] = None]
    /\ IF up[s] = "empty"
       THEN Goto(s, IF Pending(s) THEN "next" ELSE "look") /\ UNCHANGED received
       ELSE Goto(s, "next") /\ received' = [received EXCEPT ![s] = @ + 1]
    /\ UNCHANGED <<queues, reply, down, link, sent, operator>>

(* No request for read_timeout, the client gone, a reset: 503, 400 or 500.  *)
ReadFails(s) ==
    /\ worker[s] = "read"
    /\ up[s] = None \/ link[s] = "broken"
    /\ reply' = [reply EXCEPT ![s] = Error]
    /\ Goto(s, "write")
    /\ UNCHANGED <<queues, up, down, link, sent, received, operator>>

(* stop(): the loop ends between two requests, or before the first.         *)
Leave(s) ==
    /\ worker[s] = "read"
    /\ Goto(s, "gone")
    /\ UNCHANGED <<queues, reply, up, down, link, sent, received, operator>>

(* queue_commands(session_id, DEMO_COMMANDS) by the worker. *)
DemoLook(s) ==
    /\ worker[s] = "look"
    /\ Goto(s, IF s \in DOMAIN queues THEN "extend" ELSE "put")
    /\ UNCHANGED <<queues, reply, up, down, link, sent, received, operator>>

DemoPut(s) ==
    /\ worker[s] = "put"
    /\ queues' = WithList(s)
    /\ Goto(s, "extend")
    /\ UNCHANGED <<reply, up, down, link, sent, received, operator>>

DemoExtend(s) ==
    /\ worker[s] = "extend"
    /\ queues' = [queues EXCEPT ![s] = @ \o Demo]
    /\ Goto(s, "next")
    /\ UNCHANGED <<reply, up, down, link, sent, received, operator>>

(* Mutant of NextCommand: the command is looked at and stays queued. *)
NextCommandPeek(s) ==
    /\ worker[s] = "next"
    /\ Goto(s, "write")
    /\ IF Pending(s)
       THEN /\ reply' = [reply EXCEPT ![s] = Head(queues[s])]
            /\ sent' = [sent EXCEPT ![s] = Append(@, Head(queues[s]))]
            /\ UNCHANGED queues
       ELSE /\ reply' = [reply EXCEPT ![s] = Done]
            /\ UNCHANGED <<queues, sent>>
    /\ UNCHANGED <<up, down, link, received, operator>>

(* Mutant of NextCommand: the end of the session is announced with the last *)
(* command instead of after it.                                             *)
NextCommandEarlyDone(s) ==
    /\ worker[s] = "next"
    /\ Goto(s, "write")
    /\ IF Pending(s)
       THEN /\ reply' = [reply EXCEPT ![s] = IF Len(queues[s]) = 1 THEN Done ELSE Head(queues[s])]
            /\ sent' = [sent EXCEPT ![s] = Append(@, Head(queues[s]))]
            /\ queues' = [queues EXCEPT ![s] = Tail(@)]
       ELSE /\ reply' = [reply EXCEPT ![s] = Done]
            /\ UNCHANGED <<queues, sent>>
    /\ UNCHANGED <<up, down, link, received, operator>>

(* get_next_command and the response built from it. *)
NextCommand(s) ==
    /\ worker[s] = "next"
    /\ Goto(s, "write")
    /\ IF Pending(s)
       THEN /\ reply' = [reply EXCEPT ![s] = Head(queues[s])]
            /\ sent' = [sent EXCEPT ![s] = Append(@, Head(queues[s]))]
            /\ queues' = [queues EXCEPT ![s] = Tail(@)]
       ELSE /\ reply' = [reply EXCEPT ![s] = Done]
            /\ UNCHANGED <<queues, sent>>
    /\ UNCHANGED <<up, down, link, received, operator>>

(* sendall: the bytes go out, or into a connection nobody reads, or it      *)
(* fails.  Nothing calls clear_session: the queue outlives the session.     *)
Write(s) ==
    /\ worker[s] = "write"
    /\ \/ /\ link[s] = "up"
          /\ down' = [down EXCEPT ![s] = Append(@, reply[s])]
          /\ Goto(s, IF reply[s] \in Commands THEN "read" ELSE "gone")
       \/ /\ link[s] # "up"
          /\ \E next \in {"read", "gone"} :
                /\ next = "read" => reply[s] \in Commands
                /\ Goto(s, next)
          /\ UNCHANGED down
    /\ reply' = [reply EXCEPT ![s] = None]
    /\ UNCHANGED <<queues, up, link, sent, received, operator>>

Worker(s) ==
    \/ ReadRequest(s) \/ ReadFails(s) \/ Leave(s)
    \/ DemoLook(s) \/ DemoPut(s) \/ DemoExtend(s)
    \/ NextCommand(s) \/ Write(s)

-----------------------------------------------------------------------------
(* The operator's thread: queue_commands(s, [c]) for any session ever made. *)
OperatorLook(s, c) ==
    /\ operator.at = "idle" /\ c \in operator.left /\ worker[s] # None
    /\ operator' = [operator EXCEPT !.at = IF s \in DOMAIN queues THEN "extend" ELSE "put",
                                    !.session = s, !.command = c, !.left = @ \ {c}]
    /\ UNCHANGED <<queues, worker, reply, up, down, link, sent, received>>

OperatorPut ==
    /\ operator.at = "put"
    /\ queues' = WithList(operator.session)
    /\ operator' = [operator EXCEPT !.at = "extend"]
    /\ UNCHANGED <<worker, reply, up, down, link, sent, received>>

OperatorExtend ==
    /\ operator.at = "extend"
    /\ queues' = [queues EXCEPT ![operator.session] = Append(@, operator.command)]
    /\ operator' = [operator EXCEPT !.at = "idle", !.session = 0, !.command = None]
    /\ UNCHANGED <<worker, reply, up, down, link, sent, received>>

OperatorStep ==
    \/ \E s \in SessionIds, c \in Operator : OperatorLook(s, c)
    \/ OperatorPut \/ OperatorExtend

(* The network loses the connection; nobody sees it once the server has     *)
(* closed its end.                                                          *)
Break(s) ==
    /\ link[s] = "up" /\ worker[s] # "gone"
    /\ link' = [link EXCEPT ![s] = "broken"]
    /\ UNCHANGED <<queues, worker, reply, up, down, sent, received, operator>>

-----------------------------------------------------------------------------
HandlerTypeOK ==
    /\ DOMAIN queues \subseteq SessionIds
    /\ \A s \in DOMAIN queues : queues[s] \in Seq(Commands)
    /\ worker \in [SessionIds -> {None, "read", "look", "put", "extend", "next", "write", "gone"}]
    /\ reply \in [SessionIds -> Commands \cup {None, Done, Error}]
    /\ up \in [SessionIds -> {None, "empty", "answer"}]
    /\ down \in [SessionIds -> Seq(Commands \cup {Done, Error})]
    /\ link \in [SessionIds -> {None, "up", "closed", "broken"}]
    /\ sent \in [SessionIds -> Seq(Commands)]
    /\ received \in [SessionIds -> Nat]
    /\ operator \in [at : {"idle", "put", "extend"}, session : 0..MaxSessions,
                     command : Operator \cup {None}, left : SUBSET Operator]
=============================================================================
