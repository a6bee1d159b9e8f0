----------------------------- MODULE OtaProofs -----------------------------
(***************************************************************************)
(* What MCOtaSession checks of one demo and one operator command holds for *)
(* any commands, any number of sessions, retries, polls and runs.  That a  *)
(* command is executed once rests on where it is on its way from the       *)
(* operator to the card: in one place at a time, and there once.  That     *)
(* client and server stay in step rests on whose turn it is: the request   *)
(* on its way, the response on its way, and what either has in hand say    *)
(* how the counts of commands sent, answered and received compare.         *)
(***************************************************************************)
EXTENDS OtaSession, SequenceFacts, FiniteSetTheorems, TLAPS

(* What is in the hands of the operator's thread, a worker and the client  *)
(* while they are busy.                                                    *)
HandsFull ==
    /\ operator.at # "idle" => operator.session \in SessionIds /\ operator.command \in Operator
    /\ \A s \in SessionIds : worker[s] = "write" => reply[s] # None
    /\ step # "none" \/ state = "connected" => current # 0
    /\ current # 0 => worker[current] # None
    /\ state = "connecting" => Connections < MaxSessions
    /\ state = "exchanging" => result # "success"

-----------------------------------------------------------------------------
(* The places of a command of the operator. *)
Kinds == {"left", "operator", "queue", "reply", "down", "client", "card"}
At(c, kind, s) ==
    \/ kind = "left" /\ s = 0 /\ c \in operator.left
    \/ kind = "operator" /\ s = 0 /\ c = operator.command
    \/ kind = "queue" /\ s \in DOMAIN queues /\ c \in ToSet(queues[s])
    \/ kind = "reply" /\ s \in SessionIds /\ c = reply[s]
    \/ kind = "down" /\ s \in SessionIds /\ c \in ToSet(down[s])
    \/ kind = "client" /\ s = 0 /\ c = command
    \/ kind = "card" /\ s = 0 /\ c \in ToSet(executed)

InOnePlace ==
    \A c \in Operator, k, l \in Kinds, s, t \in 0..MaxSessions :
        At(c, k, s) /\ At(c, l, t) => k = l /\ s = t

Single(q) == \A c \in Operator : \A i, j \in DOMAIN q : q[i] = c /\ q[j] = c => i = j
ThereOnce ==
    /\ \A s \in DOMAIN queues : Single(queues[s])
    /\ \A s \in SessionIds : Single(down[s])
    /\ Single(executed)

-----------------------------------------------------------------------------
(* The worker has read a request and not written its response. *)
Thinking(s)  == worker[s] \in {"look", "put", "extend", "next"}
Answering(s) == Thinking(s) \/ (worker[s] = "write" /\ reply[s] # Error)

(* The last command sent, which the client has not answered. *)
Outstanding(s, c) ==
    /\ Len(sent[s]) = received[s] + 1 /\ Len(answered[s]) = received[s]
    /\ c = sent[s][Len(sent[s])]

Balance(s) ==
    /\ received[s] <= Len(answered[s]) /\ Len(answered[s]) <= Len(sent[s])
    /\ Len(sent[s]) <= received[s] + 1
    /\ \A i \in 1..Len(answered[s]) : answered[s][i] = sent[s][i]

(* The server's turn, and what a request on its way says. *)
ServerSide(s) ==
    /\ worker[s] = None =>
           Len(sent[s]) = 0 /\ received[s] = 0 /\ up[s] = None /\ down[s] = <<>>
    /\ Thinking(s) => Len(sent[s]) = received[s]
    /\ Answering(s) => up[s] = None /\ down[s] = <<>>
    /\ worker[s] = "write" /\ reply[s] \in Commands => Outstanding(s, reply[s])
    /\ worker[s] = "write" /\ reply[s] = Done => Len(sent[s]) = received[s]
    /\ worker[s] = "read" /\ up[s] # None => down[s] = <<>>
    /\ up[s] = "answer" => Len(answered[s]) = received[s] + 1
    /\ up[s] = "empty" => Len(sent[s]) = received[s]

(* What a response on its way says. *)
OnTheWay(s) ==
    \A i \in DOMAIN down[s] :
        /\ down[s][i] \in Commands => i = 1 /\ Outstanding(s, down[s][i])
        /\ down[s][i] \in {Done, Error} => worker[s] = "gone"
        /\ down[s][i] = Done => Len(sent[s]) = received[s] /\ up[s] = None

(* The client's turn: nothing is on its way to the server. *)
ClientSide ==
    /\ step # "loop" => command = None
    /\ step # "reconnect"
    /\ step \in {"send", "receive"} => asking \in {"initial", "answer"}
    /\ step \in {"send", "loop"} \/ state = "connected" =>
           ~Answering(current) /\ up[current] = None
    /\ (step = "send" /\ asking = "answer") => Len(answered[current]) = received[current] + 1
    /\ (step = "send" /\ asking = "initial") \/ state = "connected" =>
           Len(sent[current]) = received[current]
    /\ step = "loop" /\ command # None =>
           /\ Outstanding(current, command)
           /\ \A i \in DOMAIN down[current] : down[current][i] \notin Commands
    /\ step = "loop" /\ command = None =>
           Len(sent[current]) = received[current] /\ worker[current] = "gone"

TurnsTaken ==
    ~persistent =>
        /\ \A s \in SessionIds : Balance(s) /\ ServerSide(s) /\ OnTheWay(s)
        /\ ClientSide

OtaInv == TypeOK /\ HandsFull /\ InOnePlace /\ ThereOnce /\ TurnsTaken

-----------------------------------------------------------------------------
LEMMA Values ==
  /\ None \notin Commands /\ Done \notin Commands /\ Error \notin Commands
  /\ None # Done /\ None # Error /\ Done # Error
  /\ \A i \in DOMAIN Demo : Demo[i] \in Commands /\ Demo[i] \notin Operator
  /\ Demo \in Seq(Commands) /\ Operator \subseteq Commands /\ MaxSessions \in Nat
<1>1. Demo \in Seq(Commands)
  BY HandlerAssumption DEF Commands
<1> QED
  BY <1>1, HandlerAssumption DEF Commands, None, Done, Error, ToSet

LEMMA CountOfConnections ==
  /\ Connections \in 0..MaxSessions
  /\ Connections' \in 0..MaxSessions
<1>1. IsFiniteSet(SessionIds) /\ Cardinality(SessionIds) = MaxSessions
  BY FS_Interval, Values DEF SessionIds
<1>2. ASSUME NEW S \in SUBSET SessionIds PROVE Cardinality(S) \in 0..MaxSessions
  BY <1>1, FS_Subset, FS_CardinalityType, Values
<1> QED
  BY <1>2 DEF Connections

LEMMA WorkersKeepConnections ==
  ASSUME \A s \in SessionIds : worker'[s] = None <=> worker[s] = None
  PROVE  Connections' = Connections
BY DEF Connections

(* Each step of a worker keeps the types: what it changes is looked at.     *)
LEMMA WorkerTypes ==
  ASSUME HandlerTypeOK, NEW s \in SessionIds, Worker(s) \/ Break(s),
         worker[s] = "write" => reply[s] # None
  PROVE  HandlerTypeOK'
<1> DEFINE Q(q) == DOMAIN q \subseteq SessionIds /\ \A t \in DOMAIN q : q[t] \in Seq(Commands)
           W == {None, "read", "look", "put", "extend", "next", "write", "gone"}
           O == [at : {"idle", "put", "extend"}, session : 0..MaxSessions,
                 command : Operator \cup {None}, left : SUBSET Operator]
<1>0. SUFFICES /\ Q(queues')
               /\ worker' \in [SessionIds -> W]
               /\ reply' \in [SessionIds -> Commands \cup {None, Done, Error}]
               /\ up' \in [SessionIds -> {None, "empty", "answer"}]
               /\ down' \in [SessionIds -> Seq(Commands \cup {Done, Error})]
               /\ link' \in [SessionIds -> {None, "up", "closed", "broken"}]
               /\ sent' \in [SessionIds -> Seq(Commands)]
               /\ received' \in [SessionIds -> Nat]
               /\ operator' \in O
  BY DEF HandlerTypeOK
<1>1. /\ Q(queues)
      /\ worker \in [SessionIds -> W]
      /\ reply \in [SessionIds -> Commands \cup {None, Done, Error}]
      /\ up \in [SessionIds -> {None, "empty", "answer"}]
      /\ down \in [SessionIds -> Seq(Commands \cup {Done, Error})]
      /\ link \in [SessionIds -> {None, "up", "closed", "broken"}]
      /\ sent \in [SessionIds -> Seq(Commands)]
      /\ received \in [SessionIds -> Nat]
      /\ operator \in O
  BY DEF HandlerTypeOK
<1>w. ASSUME NEW place \in W, Goto(s, place) PROVE worker' \in [SessionIds -> W]
  BY <1>1, <1>w DEF Goto
<1> HIDE DEF Q, W, O
<1>v. {"read", "look", "put", "extend", "next", "write", "gone"} \subseteq W
  BY DEF W
<1>2. CASE ReadRequest(s)
  <2>1. worker' \in [SessionIds -> W]
    BY <1>2, <1>v, <1>w DEF ReadRequest
  <2>2. up' \in [SessionIds -> {None, "empty", "answer"}]
    BY <1>1, <1>2 DEF ReadRequest
  <2>3. received' \in [SessionIds -> Nat]
    BY <1>1, <1>2 DEF ReadRequest
  <2> QED
    BY <1>1, <1>2, <2>1, <2>2, <2>3 DEF ReadRequest
<1>3. CASE ReadFails(s)
  <2>1. worker' \in [SessionIds -> W]
    BY <1>3, <1>v, <1>w DEF ReadFails
  <2>2. reply' \in [SessionIds -> Commands \cup {None, Done, Error}]
    BY <1>1, <1>3 DEF ReadFails
  <2> QED
    BY <1>1, <1>3, <2>1, <2>2 DEF ReadFails
<1>4. CASE Leave(s)
  <2>1. worker' \in [SessionIds -> W]
    BY <1>4, <1>v, <1>w DEF Leave
  <2> QED
    BY <1>1, <1>4, <2>1 DEF Leave
<1>5. CASE DemoLook(s)
  <2>1. worker' \in [SessionIds -> W]
    BY <1>5, <1>v, <1>w DEF DemoLook
  <2> QED
    BY <1>1, <1>5, <2>1 DEF DemoLook
<1>6. CASE DemoPut(s)
  <2>1. worker' \in [SessionIds -> W]
    BY <1>6, <1>v, <1>w DEF DemoPut
  <2>2. Q(queues')
    BY <1>1, <1>6, EmptySeq DEF DemoPut, WithList, Q
  <2> QED
    BY <1>1, <1>6, <2>1, <2>2 DEF DemoPut
<1>7. CASE DemoExtend(s)
  <2>1. worker' \in [SessionIds -> W]
    BY <1>7, <1>v, <1>w DEF DemoExtend
  <2>2. Q(queues')
    BY <1>1, <1>7, Values, ConcatFacts DEF DemoExtend, Q
  <2> QED
    BY <1>1, <1>7, <2>1, <2>2 DEF DemoExtend
<1>8. CASE NextCommand(s)
  <2>1. worker' \in [SessionIds -> W]
    BY <1>8, <1>v, <1>w DEF NextCommand
  <2>2. CASE Pending(s)
    <3>1. /\ queues[s] \in Seq(Commands) /\ queues[s] # <<>> /\ sent[s] \in Seq(Commands)
          /\ s \in DOMAIN queues
      BY <1>1, <2>2 DEF Pending, Q
    <3>2. Head(queues[s]) \in Commands /\ Tail(queues[s]) \in Seq(Commands)
      BY <3>1, TailFacts
    <3>3. Append(sent[s], Head(queues[s])) \in Seq(Commands)
      BY <3>1, <3>2, AppendFacts
    <3>4. Q(queues')
      BY <1>1, <1>8, <2>2, <3>2 DEF NextCommand, Q
    <3>5. reply' \in [SessionIds -> Commands \cup {None, Done, Error}]
      BY <1>1, <1>8, <2>2, <3>2 DEF NextCommand
    <3>6. sent' \in [SessionIds -> Seq(Commands)]
      BY <1>1, <1>8, <2>2, <3>3 DEF NextCommand
    <3> QED
      BY <1>1, <1>8, <2>1, <3>4, <3>5, <3>6 DEF NextCommand
  <2>3. CASE ~Pending(s)
    <3>1. reply' \in [SessionIds -> Commands \cup {None, Done, Error}]
      BY <1>1, <1>8, <2>3 DEF NextCommand
    <3> QED
      BY <1>1, <1>8, <2>1, <2>3, <3>1 DEF NextCommand
  <2> QED
    BY <2>2, <2>3
<1>9. CASE Write(s)
  <2>1. worker' \in [SessionIds -> W]
    BY <1>9, <1>v, <1>w DEF Write
  <2>2. reply[s] \in Commands \cup {Done, Error}
    BY <1>1, <1>9 DEF Write
  <2>3. Append(down[s], reply[s]) \in Seq(Commands \cup {Done, Error})
    BY <1>1, <2>2, AppendFacts
  <2>4. down' \in [SessionIds -> Seq(Commands \cup {Done, Error})]
    BY <1>1, <1>9, <2>3 DEF Write
  <2>5. reply' \in [SessionIds -> Commands \cup {None, Done, Error}]
    BY <1>1, <1>9 DEF Write
  <2> QED
    BY <1>1, <1>9, <2>1, <2>4, <2>5 DEF Write
<1>10. CASE Break(s)
  <2>1. link' \in [SessionIds -> {None, "up", "closed", "broken"}]
    BY <1>1, <1>10 DEF Break
  <2> QED
    BY <1>1, <1>10, <2>1 DEF Break
<1> QED
  BY <1>2, <1>3, <1>4, <1>5, <1>6, <1>7, <1>8, <1>9, <1>10 DEF Worker

(* So does each step of the operator's thread. *)
LEMMA OperatorTypes ==
  ASSUME HandlerTypeOK, OperatorStep,
         operator.at # "idle" => operator.session \in SessionIds /\ operator.command \in Operator
  PROVE  /\ HandlerTypeOK'
         /\ operator'.at # "idle" =>
                operator'.session \in SessionIds /\ operator'.command \in Operator
<1>1. CASE \E s \in SessionIds, c \in Operator : OperatorLook(s, c)
  <2>1. PICK s \in SessionIds, c \in Operator : OperatorLook(s, c)
    BY <1>1
  <2>2. PICK place \in {"put", "extend"} :
            operator' = [operator EXCEPT !.at = place, !.session = s, !.command = c,
                                         !.left = @ \ {c}]
    BY <2>1 DEF OperatorLook
  <2>3. s \in 0..MaxSessions
    BY Values DEF SessionIds
  <2>4. /\ operator'.at = place /\ operator'.session = s /\ operator'.command = c
        /\ operator' \in [at : {"idle", "put", "extend"}, session : 0..MaxSessions,
                          command : Operator \cup {None}, left : SUBSET Operator]
    BY <2>2, <2>3 DEF HandlerTypeOK
  <2> QED
    BY <2>1, <2>4 DEF HandlerTypeOK, OperatorLook
<1>2. CASE OperatorPut
  <2>1. \A t \in DOMAIN queues' : queues'[t] \in Seq(Commands) /\ t \in SessionIds
    BY <1>2, EmptySeq DEF HandlerTypeOK, OperatorPut, WithList
  <2>2. /\ operator'.session = operator.session /\ operator'.command = operator.command
        /\ operator' \in [at : {"idle", "put", "extend"}, session : 0..MaxSessions,
                          command : Operator \cup {None}, left : SUBSET Operator]
    BY <1>2, Values DEF HandlerTypeOK, OperatorPut
  <2> QED
    BY <1>2, <2>1, <2>2 DEF HandlerTypeOK, OperatorPut
<1>3. CASE OperatorExtend
  <2>1. ASSUME NEW t \in DOMAIN queues' PROVE queues'[t] \in Seq(Commands) /\ t \in SessionIds
    <3>1. t \in DOMAIN queues /\ queues[t] \in Seq(Commands) /\ t \in SessionIds
      BY <1>3, <2>1 DEF OperatorExtend, HandlerTypeOK
    <3>2. queues'[t] = IF t = operator.session THEN Append(queues[t], operator.command) ELSE queues[t]
      BY <1>3, <3>1 DEF OperatorExtend
    <3>3. operator.command \in Commands
      BY <1>3, Values DEF OperatorExtend
    <3> QED
      BY <3>1, <3>2, <3>3, AppendFacts
  <2>2. /\ operator' = [operator EXCEPT !.at = "idle", !.session = 0, !.command = None]
        /\ 0 \in 0..MaxSessions
    BY <1>3, Values DEF OperatorExtend
  <2>3. /\ operator'.at = "idle"
        /\ operator' \in [at : {"idle", "put", "extend"}, session : 0..MaxSessions,
                          command : Operator \cup {None}, left : SUBSET Operator]
    BY <2>2 DEF HandlerTypeOK
  <2> QED
    BY <1>3, <2>1, <2>3 DEF HandlerTypeOK, OperatorExtend
<1> QED
  BY <1>1, <1>2, <1>3 DEF OperatorStep

LEMMA HandlerStays ==
  ASSUME HandlerTypeOK, UNCHANGED handlerVars
  PROVE  /\ HandlerTypeOK' /\ Connections' = Connections
         /\ \A s \in SessionIds : worker'[s] = worker[s] /\ reply'[s] = reply[s]
         /\ operator' = operator
BY DEF HandlerTypeOK, handlerVars, Connections

(* And so does each step of the client. *)
LEMMA ClientTypes ==
  ASSUME TypeOK, HandsFull, Client
  PROVE  TypeOK' /\ HandsFull'
<1>0. HandlerTypeOK
  BY DEF TypeOK
<1>1. ASSUME UNCHANGED handlerVars
      PROVE  /\ HandlerTypeOK' /\ Connections' = Connections
             /\ operator' = operator /\ worker' = worker /\ reply' = reply
  BY <1>0, <1>1, HandlerStays DEF handlerVars
<1>2. ASSUME current \in SessionIds, current # 0 PROVE worker[current] # None
  BY <1>2 DEF HandsFull
<1>3. SessionIds = 1..MaxSessions /\ MaxSessions \in Nat
  BY Values DEF SessionIds
<1>4. CASE Connect
  BY <1>1, <1>4, ClientAssumption DEF TypeOK, HandsFull, Connect
<1>5. CASE ConnectOk
  <2>1. current' \in SessionIds /\ current' # 0 /\ worker[current'] = None
    BY <1>3, <1>5, CountOfConnections DEF ConnectOk, HandsFull, Open
  <2>2. /\ worker' = [worker EXCEPT ![current'] = "read"] /\ link' = [link EXCEPT ![current'] = "up"]
        /\ UNCHANGED <<queues, reply, up, down, sent, received, operator>>
    BY <1>5 DEF ConnectOk, Open, Goto
  <2>3. HandlerTypeOK'
    BY <1>0, <2>1, <2>2 DEF HandlerTypeOK
  <2>4. worker'[current'] = "read" /\ \A s \in SessionIds : s # current' => worker'[s] = worker[s]
    BY <1>0, <2>1, <2>2 DEF HandlerTypeOK
  <2>5. TypeOK'
    BY <1>3, <1>5, <2>1, <2>3, ClientAssumption DEF TypeOK, ConnectOk
  <2>6. /\ \A s \in SessionIds : worker'[s] = "write" => reply'[s] # None
        /\ worker'[current'] # None
    BY <2>1, <2>2, <2>4 DEF HandsFull, None
  <2> QED
    BY <1>5, <2>1, <2>2, <2>5, <2>6 DEF TypeOK, HandsFull, ConnectOk
<1>6. CASE ConnectRefused
  BY <1>1, <1>6, ClientAssumption DEF TypeOK, HandsFull, ConnectRefused
<1>7. CASE ConnectFails
  BY <1>1, <1>7, ClientAssumption DEF TypeOK, HandsFull, ConnectFails
<1>8. CASE RunSession
  <2>1. idle' \in 0..SessionTimeout + 1
    BY <1>8, ClientAssumption DEF RunSession, Slow
  <2> QED
    BY <1>1, <1>8, <2>1, ClientAssumption DEF TypeOK, HandsFull, RunSession, None
<1>9. CASE Send
  <2>1. HandlerTypeOK'
    BY <1>0, <1>9 DEF HandlerTypeOK, Send
  <2> QED
    BY <1>9, <2>1 DEF TypeOK, HandsFull, Send
<1>t. ASSUME step = "receive", down[current] # <<>>, Take
      PROVE  down' \in [SessionIds -> Seq(Commands \cup {Done, Error})]
  <2>0. current \in SessionIds
    BY <1>3, <1>t DEF TypeOK, HandsFull
  <2>1. down[current] \in Seq(Commands \cup {Done, Error})
    BY <1>0, <2>0 DEF HandlerTypeOK
  <2>2. Tail(down[current]) \in Seq(Commands \cup {Done, Error})
    BY <1>t, <2>1, TailFacts
  <2>3. PICK rest : rest \in Seq(Commands \cup {Done, Error}) /\ down' = [down EXCEPT ![current] = rest]
    BY <1>t, <2>2, EmptySeq DEF Take
  <2> QED
    BY <1>0, <2>3 DEF HandlerTypeOK
<1>10. CASE Receive
  <2>0. current \in SessionIds
    BY <1>3, <1>10 DEF TypeOK, HandsFull, Receive
  <2>1. down[current] \in Seq(Commands \cup {Done, Error})
    BY <1>0, <2>0 DEF HandlerTypeOK
  <2>2. Head(down[current]) \in Commands \cup {Done, Error}
    BY <1>10, <2>1, TailFacts DEF Receive
  <2>3. command' \in Commands \cup {None}
    BY <1>10, <2>2 DEF Receive
  <2>4. idle' \in 0..SessionTimeout + 1
    BY <1>10, ClientAssumption DEF Receive, TypeOK
  <2>5. down' \in [SessionIds -> Seq(Commands \cup {Done, Error})]
    BY <1>t, <1>10 DEF Receive
  <2>6. HandlerTypeOK'
    BY <1>0, <1>10, <2>5 DEF HandlerTypeOK, Receive
  <2>7. TypeOK'
    BY <1>10, <2>3, <2>4, <2>6 DEF TypeOK, Receive
  <2> QED
    BY <1>10, <2>7 DEF TypeOK, HandsFull, Receive
<1>11. ASSUME NEW why \in Errors, SessionFails(why) \/ PollFails(why)
       PROVE  HandlerTypeOK' /\ UNCHANGED <<queues, worker, reply, operator>>
  <2>1. down' \in [SessionIds -> Seq(Commands \cup {Done, Error})]
    <3>1. CASE why = "status"
      <4>1. step = "receive" /\ down[current] # <<>> /\ Take
        BY <1>11, <3>1 DEF SessionFails, PollFails, Fails
      <4> QED
        BY <1>t, <4>1
    <3>2. CASE why # "status"
      BY <1>0, <1>11, <3>2 DEF SessionFails, PollFails, HandlerTypeOK
    <3> QED
      BY <3>1, <3>2
  <2> QED
    BY <1>0, <1>11, <2>1 DEF HandlerTypeOK, SessionFails, PollFails
<1>f. ASSUME NEW why \in Errors, Fails(why) PROVE step # "none" /\ state = "exchanging"
  BY <1>f DEF Fails, Errors, TypeOK
<1>12. CASE \E why \in Errors : SessionFails(why)
  <2>1. PICK why \in Errors : SessionFails(why)
    BY <1>12
  <2>2. HandlerTypeOK' /\ UNCHANGED <<queues, worker, reply, operator>>
    BY <1>11, <2>1
  <2>3. TypeOK'
    BY <2>1, <2>2, ClientAssumption DEF TypeOK, SessionFails, Return
  <2> QED
    BY <2>1, <2>2, <2>3 DEF HandsFull, SessionFails, Return
<1>13. CASE \E why \in Errors : PollFails(why)
  <2>1. PICK why \in Errors : PollFails(why)
    BY <1>13
  <2>2. HandlerTypeOK' /\ UNCHANGED <<queues, worker, reply, operator>>
    BY <1>11, <2>1
  <2>3. step # "none" /\ state = "exchanging"
    BY <1>f, <2>1 DEF PollFails
  <2>4. TypeOK'
    BY <2>1, <2>2, <2>3 DEF TypeOK, PollFails
  <2> QED
    BY <2>1, <2>2, <2>3, <2>4 DEF HandsFull, PollFails
<1>14. CASE Reconnect
  <2>1. current' \in SessionIds /\ current' # 0 /\ current \in SessionIds /\ current # 0
    BY <1>3, <1>14, CountOfConnections DEF Reconnect, HandsFull, TypeOK
  <2>2. /\ worker' \in [SessionIds -> {None, "read", "look", "put", "extend", "next", "write", "gone"}]
        /\ link' \in [SessionIds -> {None, "up", "closed", "broken"}]
    BY <1>0, <1>14, <2>1 DEF Reconnect, HandlerTypeOK
  <2>3. HandlerTypeOK'
    BY <1>0, <1>14, <2>2 DEF HandlerTypeOK, Reconnect
  <2>4. worker'[current'] = "read" /\ \A s \in SessionIds : s # current' => worker'[s] = worker[s]
    BY <1>0, <1>14, <2>1 DEF HandlerTypeOK, Reconnect
  <2>5. step # "none" /\ state = "exchanging"
    BY <1>14 DEF Reconnect, TypeOK
  <2>6. TypeOK'
    BY <1>3, <1>14, <2>1, <2>3, <2>5 DEF TypeOK, Reconnect
  <2>7. /\ \A s \in SessionIds : worker'[s] = "write" => reply'[s] # None
        /\ worker'[current'] # None
    BY <1>14, <2>1, <2>4 DEF HandsFull, Reconnect, None
  <2> QED
    BY <1>14, <2>1, <2>5, <2>6, <2>7 DEF TypeOK, HandsFull, Reconnect
<1>19. CASE ReconnectFails
  <2>1. HandlerTypeOK'
    BY <1>0, <1>19 DEF HandlerTypeOK, ReconnectFails
  <2> QED
    BY <1>19, <2>1 DEF TypeOK, HandsFull, ReconnectFails
<1>15. CASE Finish
  BY <1>1, <1>15, ClientAssumption DEF TypeOK, HandsFull, Finish, Return
<1>16. CASE Poll
  BY <1>1, <1>16, ClientAssumption DEF TypeOK, HandsFull, Poll
<1>17. CASE Process
  <2>1. current \in SessionIds /\ answered[current] \in Seq(Commands) /\ command \in Commands
    BY <1>3, <1>17 DEF TypeOK, HandsFull, Process
  <2>2. Append(answered[current], command) \in Seq(Commands)
    BY <2>1, AppendFacts
  <2>6. answered' \in [SessionIds -> Seq(Commands)]
    BY <1>17, <2>1, <2>2 DEF TypeOK, Process
  <2>7. executed \in Seq(Commands) /\ Append(executed, command) \in Seq(Commands)
    BY <2>1, AppendFacts DEF TypeOK
  <2>3. answered' \in [SessionIds -> Seq(Commands)] /\ executed' \in Seq(Commands)
    BY <1>17, <2>6, <2>7 DEF Process
  <2>4. idle' \in 0..SessionTimeout + 1
    BY <1>17, ClientAssumption DEF Process, Slow
  <2>5. TypeOK'
    BY <1>1, <1>17, <2>3, <2>4 DEF TypeOK, Process
  <2> QED
    BY <1>1, <1>17, <2>5 DEF TypeOK, HandsFull, Process
<1>18. CASE Disconnect
  <2>1. HandlerTypeOK'
    BY <1>0, <1>18 DEF HandlerTypeOK, Disconnect
  <2>2. TypeOK'
    BY <1>3, <1>18, <2>1 DEF TypeOK, Disconnect
  <2> QED
    BY <1>18, <2>2 DEF TypeOK, HandsFull, Disconnect
<1> QED
  BY <1>4, <1>5, <1>6, <1>7, <1>8, <1>9, <1>10, <1>12, <1>13, <1>14, <1>15, <1>16,
     <1>17, <1>18, <1>19 DEF Client

LEMMA TypesKept ==
  ASSUME TypeOK, HandsFull, [Next]_vars
  PROVE  TypeOK' /\ HandsFull'
<1>0. HandlerTypeOK
  BY DEF TypeOK
<1>1. CASE Client
  BY <1>1, ClientTypes
<1>2. CASE Server
  <2>1. PICK s \in SessionIds : (Worker(s) \/ Break(s)) /\ UNCHANGED clientVars
    BY <1>2 DEF Server
  <2>2. HandlerTypeOK'
    BY <1>0, <2>1, WorkerTypes DEF HandsFull
  <2>3. /\ \A t \in SessionIds : worker'[t] = None <=> worker[t] = None
        /\ \A t \in SessionIds : worker'[t] = "write" => reply'[t] # None
        /\ operator' = operator
    <3>1. CASE ReadRequest(s) \/ Leave(s) \/ DemoLook(s) \/ DemoPut(s) \/ DemoExtend(s)
      BY <1>0, <3>1 DEF HandsFull, HandlerTypeOK, ReadRequest, Leave, DemoLook, DemoPut,
         DemoExtend, Goto, None
    <3>2. CASE ReadFails(s)
      BY <1>0, <3>2 DEF HandsFull, HandlerTypeOK, ReadFails, Goto, None, Error
    <3>3. CASE Write(s)
      BY <1>0, <3>3 DEF HandsFull, HandlerTypeOK, Write, Goto, None
    <3>4. CASE NextCommand(s)
      <4>1. Pending(s) => Head(queues[s]) \in Commands
        BY <1>0, TailFacts DEF HandlerTypeOK, Pending
      <4>2. reply'[s] # None /\ \A t \in SessionIds : t # s => reply'[t] = reply[t]
        BY <1>0, <3>4, <4>1, Values DEF NextCommand, HandlerTypeOK
      <4> QED
        BY <1>0, <3>4, <4>2 DEF HandsFull, HandlerTypeOK, NextCommand, Goto, None
    <3>5. CASE Break(s)
      BY <3>5 DEF HandsFull, Break
    <3> QED
      BY <2>1, <3>1, <3>2, <3>3, <3>4, <3>5 DEF Worker
  <2>4. Connections' = Connections
    BY <2>3, WorkersKeepConnections
  <2>5. current # 0 => current \in SessionIds
    BY Values DEF TypeOK, SessionIds
  <2>6. UNCHANGED clientVars
    BY <2>1
  <2>7. TypeOK'
    BY <2>2, <2>6 DEF TypeOK, clientVars
  <2> QED
    BY <2>3, <2>4, <2>5, <2>6, <2>7 DEF HandsFull, clientVars
<1>3. CASE Dashboard
  <2>1. OperatorStep /\ UNCHANGED clientVars
    BY <1>3 DEF Dashboard
  <2>2. /\ HandlerTypeOK'
        /\ operator'.at # "idle" =>
               operator'.session \in SessionIds /\ operator'.command \in Operator
    BY <1>0, <2>1, OperatorTypes DEF HandsFull
  <2>3. UNCHANGED <<worker, reply>>
    BY <2>1 DEF OperatorStep, OperatorLook, OperatorPut, OperatorExtend
  <2>4. Connections' = Connections
    BY <2>3 DEF Connections
  <2>5. TypeOK'
    BY <2>1, <2>2 DEF TypeOK, clientVars
  <2> QED
    BY <2>1, <2>2, <2>3, <2>4, <2>5 DEF HandsFull, clientVars
<1>4. CASE UNCHANGED vars
  <2>1. /\ UNCHANGED clientVars /\ UNCHANGED handlerVars
    BY <1>4 DEF vars
  <2>2. HandlerTypeOK' /\ Connections' = Connections
    BY <1>0, <2>1, HandlerStays
  <2>3. TypeOK'
    BY <2>1, <2>2 DEF TypeOK, clientVars
  <2> QED
    BY <2>1, <2>2, <2>3 DEF HandsFull, clientVars, handlerVars
<1> QED
  BY <1>1, <1>2, <1>3, <1>4 DEF Next

-----------------------------------------------------------------------------
(* A command of the operator stays single in a sequence from which elements *)
(* are taken, to which the demo commands are added, or another command.     *)
LEMMA SingleFacts ==
  ASSUME NEW S, NEW q \in Seq(S), Single(q)
  PROVE  /\ q # <<>> => /\ Single(Tail(q))
                        /\ Head(q) \in Operator => Head(q) \notin ToSet(Tail(q))
         /\ \A e \in S : e \notin Operator \/ e \notin ToSet(q) => Single(Append(q, e))
         /\ S = Commands => Single(q \o Demo)
         /\ Single(<<>>)
<1>1. ASSUME q # <<>>
      PROVE  Single(Tail(q)) /\ (Head(q) \in Operator => Head(q) \notin ToSet(Tail(q)))
  <2>1. /\ Len(q) \in Nat /\ Len(q) >= 1 /\ Head(q) = q[1] /\ DOMAIN q = 1..Len(q)
        /\ DOMAIN Tail(q) = 1..(Len(q) - 1)
        /\ \A i \in 1..(Len(q) - 1) : Tail(q)[i] = q[i + 1]
    BY <1>1, TailFacts
  <2>2. \A i \in 1..(Len(q) - 1) : i + 1 \in 1..Len(q) /\ i + 1 # 1
    BY <2>1
  <2>3. ASSUME NEW c \in Operator, NEW i \in DOMAIN Tail(q), NEW j \in DOMAIN Tail(q),
               Tail(q)[i] = c, Tail(q)[j] = c
        PROVE  i = j
    <3>1. i + 1 = j + 1
      BY <2>1, <2>2, <2>3 DEF Single
    <3> QED
      BY <2>1, <3>1
  <2>4. ASSUME Head(q) \in Operator, NEW i \in DOMAIN Tail(q), Tail(q)[i] = Head(q) PROVE FALSE
    BY <2>1, <2>2, <2>4 DEF Single
  <2> QED
    BY <2>3, <2>4 DEF Single, ToSet
<1>2. ASSUME NEW e \in S, e \notin Operator \/ e \notin ToSet(q) PROVE Single(Append(q, e))
  <2>1. /\ Len(q) \in Nat /\ DOMAIN q = 1..Len(q) /\ DOMAIN Append(q, e) = 1..(Len(q) + 1)
        /\ \A i \in 1..Len(q) : Append(q, e)[i] = q[i] /\ q[i] \in ToSet(q)
        /\ Append(q, e)[Len(q) + 1] = e
    BY AppendFacts DEF ToSet
  <2>2. \A i \in 1..(Len(q) + 1) : i \in 1..Len(q) \/ i = Len(q) + 1
    BY <2>1
  <2> QED
    BY <1>2, <2>1, <2>2 DEF Single
<1>3. ASSUME S = Commands PROVE Single(q \o Demo)
  <2>1. /\ Len(q) \in Nat /\ Len(Demo) \in Nat /\ DOMAIN q = 1..Len(q) /\ DOMAIN Demo = 1..Len(Demo)
        /\ DOMAIN (q \o Demo) = 1..(Len(q) + Len(Demo))
        /\ \A i \in 1..(Len(q) + Len(Demo)) :
              (q \o Demo)[i] = IF i <= Len(q) THEN q[i] ELSE Demo[i - Len(q)]
    BY <1>3, Values, ConcatProperties, LenProperties
  <2>2. ASSUME NEW i \in 1..(Len(q) + Len(Demo)), (q \o Demo)[i] \in Operator
        PROVE  i \in 1..Len(q) /\ (q \o Demo)[i] = q[i]
    <3>1. CASE i <= Len(q)
      BY <2>1, <3>1
    <3>2. CASE i > Len(q)
      <4>1. i - Len(q) \in 1..Len(Demo) /\ (q \o Demo)[i] = Demo[i - Len(q)]
        BY <2>1, <3>2
      <4> QED
        BY <2>1, <2>2, <4>1, Values
    <3> QED
      BY <2>1, <3>1, <3>2
  <2> QED
    BY <2>1, <2>2 DEF Single
<1>4. Single(<<>>)
  BY DEF Single
<1> QED
  BY <1>1, <1>2, <1>3, <1>4

(* A step in which command c0 leaves one place, and one in which nothing    *)
(* but c0 is anywhere it was not before, and c0 in one new place only.      *)
Leaves(c0, k0, s0) == c0 \in Operator => At(c0, k0, s0) /\ ~At(c0, k0, s0)'
Enters(c0, k1, s1) ==
    \A c \in Operator, k \in Kinds, s \in 0..MaxSessions :
        At(c, k, s)' => At(c, k, s) \/ (c = c0 /\ k = k1 /\ s = s1)

(* If one command at most moves each command stays in one place.            *)
LEMMA Moves ==
  ASSUME InOnePlace, NEW c0, NEW k0 \in Kinds, NEW s0 \in 0..MaxSessions,
         NEW k1 \in Kinds, NEW s1 \in 0..MaxSessions,
         Leaves(c0, k0, s0), Enters(c0, k1, s1)
  PROVE  InOnePlace'
<1>1. SUFFICES ASSUME NEW c \in Operator, NEW k \in Kinds, NEW l \in Kinds,
                      NEW s \in 0..MaxSessions, NEW t \in 0..MaxSessions,
                      At(c, k, s)', At(c, l, t)'
               PROVE  k = l /\ s = t
  BY DEF InOnePlace
<1> DEFINE P(d, m, r) == At(d, m, r)
           Q(d, m, r) == At(d, m, r)'
<1>2. /\ \A d \in Operator, m, n \in Kinds, r, u \in 0..MaxSessions :
              P(d, m, r) /\ P(d, n, u) => m = n /\ r = u
      /\ c0 \in Operator => P(c0, k0, s0) /\ ~Q(c0, k0, s0)
      /\ \A d \in Operator, m \in Kinds, r \in 0..MaxSessions :
             Q(d, m, r) => P(d, m, r) \/ (d = c0 /\ m = k1 /\ r = s1)
      /\ Q(c, k, s) /\ Q(c, l, t)
  BY <1>1 DEF InOnePlace, Leaves, Enters
<1> HIDE DEF P, Q
<1> QED
  BY <1>2

LEMMA NothingNew ==
  ASSUME InOnePlace,
         \A c \in Operator, k \in Kinds, s \in 0..MaxSessions : At(c, k, s)' => At(c, k, s)
  PROVE  InOnePlace'
<1>1. None \notin Operator /\ "left" \in Kinds /\ 0 \in 0..MaxSessions
  BY Values DEF Kinds
<1>2. Leaves(None, "left", 0) /\ Enters(None, "left", 0)
  BY <1>1 DEF Leaves, Enters
<1> QED
  BY <1>1, <1>2, Moves

(* The commands of the worker's queue: taken to the reply, then sent. *)
LEMMA WorkerPlaces ==
  ASSUME TypeOK, HandsFull, InOnePlace, ThereOnce, NEW s \in SessionIds,
         Worker(s) \/ Break(s), UNCHANGED clientVars
  PROVE  InOnePlace' /\ ThereOnce'
<1>0. /\ DOMAIN queues \subseteq SessionIds /\ \A t \in DOMAIN queues : queues[t] \in Seq(Commands)
      /\ reply \in [SessionIds -> Commands \cup {None, Done, Error}]
      /\ down \in [SessionIds -> Seq(Commands \cup {Done, Error})]
  BY DEF TypeOK, HandlerTypeOK
<1>k. /\ "left" \in Kinds /\ "queue" \in Kinds /\ "reply" \in Kinds /\ "down" \in Kinds
      /\ 0 \in 0..MaxSessions /\ s \in 0..MaxSessions
  BY Values DEF Kinds, SessionIds
<1>1. UNCHANGED <<executed, command>>
  BY DEF clientVars
<1>n. None \notin Operator /\ Done \notin Operator /\ Error \notin Operator
  BY Values
<1>2. CASE ReadRequest(s) \/ Leave(s) \/ DemoLook(s) \/ Break(s)
  <2>1. UNCHANGED <<queues, reply, down, operator>>
    BY <1>2 DEF ReadRequest, Leave, DemoLook, Break
  <2>2. InOnePlace'
    BY <1>1, <2>1, NothingNew DEF At
  <2> QED
    BY <1>1, <2>1, <2>2 DEF ThereOnce
<1>3. CASE ReadFails(s)
  <2>1. /\ UNCHANGED <<queues, down, operator>>
        /\ \A t \in SessionIds : reply'[t] \in {reply[t], Error}
    BY <1>0, <1>3 DEF ReadFails
  <2>2. InOnePlace'
    BY <1>1, <1>n, <2>1, NothingNew DEF At
  <2> QED
    BY <1>1, <2>1, <2>2 DEF ThereOnce
<1>4. CASE DemoPut(s)
  <2>1. /\ UNCHANGED <<reply, down, operator>>
        /\ \A t \in DOMAIN queues' : queues'[t] = <<>> \/ (t \in DOMAIN queues /\ queues'[t] = queues[t])
    BY <1>4 DEF DemoPut, WithList
  <2>2. ToSet(<<>>) = {}
    BY DEF ToSet
  <2>3. InOnePlace'
    BY <1>1, <2>1, <2>2, NothingNew DEF At
  <2>4. \A t \in DOMAIN queues' : Single(queues'[t])
    BY <2>1 DEF ThereOnce, Single
  <2> QED
    BY <1>1, <2>1, <2>3, <2>4 DEF ThereOnce
<1>5. CASE DemoExtend(s)
  <2>1. /\ UNCHANGED <<reply, down, operator>>
        /\ DOMAIN queues' = DOMAIN queues
        /\ \A t \in DOMAIN queues : queues'[t] = IF t = s THEN queues[t] \o Demo ELSE queues[t]
    BY <1>5 DEF DemoExtend
  <2>2. ToSet(Demo) \cap Operator = {}
    BY Values DEF ToSet
  <2>3. \A t \in DOMAIN queues : /\ ToSet(queues[t] \o Demo) = ToSet(queues[t]) \cup ToSet(Demo)
                                 /\ Single(queues[t]) => Single(queues[t] \o Demo)
    BY <1>0, Values, ConcatFacts, SingleFacts
  <2>7. \A t \in DOMAIN queues : \A c \in Operator : c \in ToSet(queues'[t]) => c \in ToSet(queues[t])
    BY <2>1, <2>2, <2>3
  <2>6. \A c \in Operator, k \in Kinds, t \in 0..MaxSessions : At(c, k, t)' => At(c, k, t)
    BY <1>1, <2>1, <2>7 DEF At
  <2>4. InOnePlace'
    BY <2>6, NothingNew
  <2>5. \A t \in DOMAIN queues' : Single(queues'[t])
    BY <2>1, <2>3 DEF ThereOnce
  <2> QED
    BY <1>1, <2>1, <2>4, <2>5 DEF ThereOnce
<1>6. CASE NextCommand(s)
  <2>1. CASE Pending(s)
    <3>0. PICK c0, q : c0 = Head(queues[s]) /\ q = Tail(queues[s])
      OBVIOUS
    <3>1. /\ UNCHANGED <<down, operator>> /\ s \in DOMAIN queues
          /\ reply' = [reply EXCEPT ![s] = c0] /\ queues' = [queues EXCEPT ![s] = q]
      BY <1>6, <2>1, <3>0 DEF NextCommand, Pending
    <3>2. /\ ToSet(queues[s]) = {c0} \cup ToSet(q)
          /\ Single(q) /\ (c0 \in Operator => c0 \notin ToSet(q))
      BY <1>0, <2>1, <3>0, TailFacts, SingleFacts DEF Pending, ThereOnce
    <3>3. /\ DOMAIN queues' = DOMAIN queues /\ queues'[s] = q
          /\ \A t \in DOMAIN queues : t # s => queues'[t] = queues[t]
          /\ reply'[s] = c0 /\ \A t \in SessionIds : t # s => reply'[t] = reply[t]
      BY <1>0, <3>1
    <3>4. Leaves(c0, "queue", s)
      BY <3>1, <3>2, <3>3 DEF Leaves, At
    <3>5. Enters(c0, "reply", s)
      BY <1>1, <3>1, <3>2, <3>3 DEF Enters, At
    <3>6. InOnePlace'
      BY <1>k, <3>4, <3>5, Moves
    <3> QED
      BY <1>1, <3>1, <3>2, <3>3, <3>6 DEF ThereOnce
  <2>2. CASE ~Pending(s)
    <3>1. /\ UNCHANGED <<queues, down, operator>>
          /\ \A t \in SessionIds : reply'[t] \in {reply[t], Done}
      BY <1>0, <1>6, <2>2 DEF NextCommand
    <3>2. InOnePlace'
      BY <1>1, <1>n, <3>1, NothingNew DEF At
    <3> QED
      BY <1>1, <3>1, <3>2 DEF ThereOnce
  <2> QED
    BY <2>1, <2>2
<1>7. CASE Write(s)
  <2>0. PICK c0 : c0 = reply[s]
    OBVIOUS
  <2>1. /\ UNCHANGED <<queues, operator>>
        /\ reply' = [reply EXCEPT ![s] = None]
        /\ down' = down \/ down' = [down EXCEPT ![s] = Append(@, c0)]
    BY <1>7, <2>0 DEF Write
  <2>2. c0 \in Commands \cup {Done, Error}
    BY <1>0, <1>7, <2>0 DEF Write, HandsFull
  <2>3. c0 \in Operator => c0 \notin ToSet(down[s])
    BY <1>0, <1>k, <2>0 DEF InOnePlace, At
  <2>4. /\ ToSet(Append(down[s], c0)) = ToSet(down[s]) \cup {c0}
        /\ Single(Append(down[s], c0))
    BY <1>0, <2>2, <2>3, AppendFacts, SingleFacts DEF ThereOnce
  <2>5. Leaves(c0, "reply", s)
    BY <1>0, <1>n, <2>0, <2>1 DEF Leaves, At
  <2>6. \A t \in SessionIds : /\ reply'[t] \in {reply[t], None}
                              /\ ToSet(down'[t]) \subseteq ToSet(down[t]) \cup (IF t = s THEN {c0} ELSE {})
                              /\ Single(down'[t])
    BY <1>0, <2>1, <2>4 DEF ThereOnce
  <2>7. Enters(c0, "down", s)
    BY <1>1, <1>n, <2>1, <2>6 DEF Enters, At
  <2>8. InOnePlace'
    BY <1>k, <2>5, <2>7, Moves
  <2> QED
    BY <1>1, <2>1, <2>6, <2>8 DEF ThereOnce
<1> QED
  BY <1>2, <1>3, <1>4, <1>5, <1>6, <1>7 DEF Worker

(* The commands in the hands of the operator's thread. *)
LEMMA OperatorPlaces ==
  ASSUME TypeOK, HandsFull, InOnePlace, ThereOnce, OperatorStep, UNCHANGED clientVars
  PROVE  InOnePlace' /\ ThereOnce'
<1>0. /\ DOMAIN queues \subseteq SessionIds /\ \A t \in DOMAIN queues : queues[t] \in Seq(Commands)
      /\ operator \in [at : {"idle", "put", "extend"}, session : 0..MaxSessions,
                       command : Operator \cup {None}, left : SUBSET Operator]
  BY DEF TypeOK, HandlerTypeOK
<1>1. UNCHANGED <<executed, command>> /\ None \notin Operator
  BY Values DEF clientVars
<1>k. /\ "left" \in Kinds /\ "queue" \in Kinds /\ "operator" \in Kinds /\ 0 \in 0..MaxSessions
      /\ \A s \in SessionIds : s \in 0..MaxSessions
  BY Values DEF Kinds, SessionIds
<1>2. CASE \E s \in SessionIds, c \in Operator : OperatorLook(s, c)
  <2>1. PICK s \in SessionIds, c0 \in Operator : OperatorLook(s, c0)
    BY <1>2
  <2>2. /\ UNCHANGED <<queues, reply, down>>
        /\ c0 \in operator.left /\ operator'.left = operator.left \ {c0} /\ operator'.command = c0
    BY <1>0, <2>1 DEF OperatorLook
  <2>3. Leaves(c0, "left", 0)
    BY <2>2 DEF Leaves, At
  <2>4. Enters(c0, "operator", 0)
    BY <1>1, <2>2 DEF Enters, At
  <2>5. InOnePlace'
    BY <1>k, <2>3, <2>4, Moves
  <2> QED
    BY <1>1, <2>2, <2>5 DEF ThereOnce
<1>3. CASE OperatorPut
  <2>1. /\ UNCHANGED <<reply, down>>
        /\ operator'.left = operator.left /\ operator'.command = operator.command
        /\ \A t \in DOMAIN queues' : queues'[t] = <<>> \/ (t \in DOMAIN queues /\ queues'[t] = queues[t])
    BY <1>0, <1>3 DEF OperatorPut, WithList
  <2>2. ToSet(<<>>) = {}
    BY DEF ToSet
  <2>3. \A c \in Operator, k \in Kinds, t \in 0..MaxSessions : At(c, k, t)' => At(c, k, t)
    BY <1>1, <2>1, <2>2 DEF At
  <2>4. InOnePlace'
    BY <2>3, NothingNew
  <2>5. \A t \in DOMAIN queues' : Single(queues'[t])
    BY <2>1 DEF ThereOnce, Single
  <2> QED
    BY <1>1, <2>1, <2>4, <2>5 DEF ThereOnce
<1>4. CASE OperatorExtend
  <2>0. PICK c0, s : c0 = operator.command /\ s = operator.session
    OBVIOUS
  <2>1. /\ UNCHANGED <<reply, down>> /\ c0 \in Operator /\ s \in SessionIds
        /\ operator'.left = operator.left /\ operator'.command = None
        /\ DOMAIN queues' = DOMAIN queues
        /\ \A t \in DOMAIN queues : queues'[t] = IF t = s THEN Append(queues[t], c0) ELSE queues[t]
    BY <1>0, <1>4, <2>0 DEF OperatorExtend, HandsFull
  <2>2. s \in DOMAIN queues => c0 \notin ToSet(queues[s])
    BY <1>k, <2>0, <2>1 DEF InOnePlace, At
  <2>3. s \in DOMAIN queues => /\ ToSet(Append(queues[s], c0)) = ToSet(queues[s]) \cup {c0}
                               /\ Single(Append(queues[s], c0))
    BY <1>0, <2>1, <2>2, Values, AppendFacts, SingleFacts DEF ThereOnce
  <2>4. Leaves(c0, "operator", 0)
    BY <1>1, <2>0, <2>1 DEF Leaves, At
  <2>7. \A t \in DOMAIN queues :
            ToSet(queues'[t]) \subseteq ToSet(queues[t]) \cup (IF t = s THEN {c0} ELSE {})
    BY <2>1, <2>3
  <2>5. Enters(c0, "queue", s)
    BY <1>1, <2>1, <2>7 DEF Enters, At
  <2>6. InOnePlace'
    BY <1>k, <2>1, <2>4, <2>5, Moves
  <2> QED
    BY <1>1, <2>1, <2>3, <2>6 DEF ThereOnce
<1> QED
  BY <1>2, <1>3, <1>4 DEF OperatorStep

(* The commands on their way to the client, in its hands and at the card.   *)
LEMMA ClientPlaces ==
  ASSUME TypeOK, HandsFull, InOnePlace, ThereOnce, Client
  PROVE  InOnePlace' /\ ThereOnce'
<1>0. /\ down \in [SessionIds -> Seq(Commands \cup {Done, Error})] /\ executed \in Seq(Commands)
      /\ command \in Commands \cup {None}
  BY DEF TypeOK, HandlerTypeOK
<1>n. None \notin Operator /\ Done \notin Operator /\ Error \notin Operator
  BY Values
<1>k. /\ "down" \in Kinds /\ "client" \in Kinds /\ "card" \in Kinds /\ 0 \in 0..MaxSessions
      /\ \A s \in SessionIds : s \in 0..MaxSessions
  BY Values DEF Kinds, SessionIds
<1>1. ASSUME UNCHANGED <<queues, reply, operator, executed>>, command' \in {command, None},
             \A s \in SessionIds : ToSet(down'[s]) \subseteq ToSet(down[s]) /\ Single(down'[s])
      PROVE  InOnePlace' /\ ThereOnce'
  <2>1. \A c \in Operator, k \in Kinds, t \in 0..MaxSessions : At(c, k, t)' => At(c, k, t)
    BY <1>1, <1>n DEF At
  <2>2. InOnePlace'
    BY <2>1, NothingNew
  <2> QED
    BY <1>1, <2>2 DEF ThereOnce
<1>2. ASSUME down' = down
      PROVE  \A s \in SessionIds : ToSet(down'[s]) \subseteq ToSet(down[s]) /\ Single(down'[s])
  BY <1>2 DEF ThereOnce
<1>t. ASSUME step = "receive", down[current] # <<>>, Take
      PROVE  /\ current \in SessionIds
             /\ \A s \in SessionIds : /\ ToSet(down'[s]) \subseteq ToSet(down[s]) /\ Single(down'[s])
                                      /\ s # current => down'[s] = down[s]
             /\ Head(down[current]) \in ToSet(down[current])
             /\ Head(down[current]) \in Operator => Head(down[current]) \notin ToSet(down'[current])
  <2>0. current \in SessionIds
    BY <1>t, Values DEF TypeOK, HandsFull, SessionIds
  <2>1. PICK rest \in {Tail(down[current]), <<>>} : down' = [down EXCEPT ![current] = rest]
    BY <1>t DEF Take
  <2>2. PICK q : q = down[current] /\ q \in Seq(Commands \cup {Done, Error}) /\ q # <<>> /\ Single(q)
    BY <1>0, <1>t, <2>0 DEF ThereOnce
  <2>3. /\ ToSet(q) = {Head(q)} \cup ToSet(Tail(q)) /\ Single(Tail(q)) /\ Single(<<>>)
        /\ Head(q) \in Operator => Head(q) \notin ToSet(Tail(q))
    BY <2>2, TailFacts, SingleFacts
  <2>4. ToSet(<<>>) = {}
    BY DEF ToSet
  <2>5. /\ ToSet(rest) \subseteq ToSet(q) /\ Single(rest)
        /\ Head(q) \in ToSet(q) /\ (Head(q) \in Operator => Head(q) \notin ToSet(rest))
    BY <2>1, <2>2, <2>3, <2>4
  <2>6. down'[current] = rest /\ \A s \in SessionIds : s # current => down'[s] = down[s]
    BY <1>0, <2>0, <2>1
  <2> QED
    BY <2>0, <2>2, <2>5, <2>6 DEF ThereOnce
<1>3. CASE Connect \/ ConnectRefused \/ ConnectFails \/ RunSession \/ Finish \/ Poll
  <2>1. UNCHANGED <<queues, reply, down, operator, executed>> /\ command' \in {command, None}
    BY <1>3 DEF Connect, ConnectRefused, ConnectFails, RunSession, Finish, Poll, Return, handlerVars
  <2> QED
    BY <1>1, <1>2, <2>1
<1>4. CASE ConnectOk \/ Send \/ Reconnect \/ ReconnectFails \/ Disconnect
  <2>1. UNCHANGED <<queues, reply, down, operator, executed, command>>
    BY <1>4 DEF ConnectOk, Send, Open, Reconnect, ReconnectFails, Disconnect
  <2> QED
    BY <1>1, <1>2, <2>1
<1>5. CASE \E why \in Errors : SessionFails(why) \/ PollFails(why)
  <2>1. PICK why \in Errors : SessionFails(why) \/ PollFails(why)
    BY <1>5
  <2>2. UNCHANGED <<queues, reply, operator, executed>> /\ command' \in {command, None}
    BY <2>1 DEF SessionFails, PollFails, Return
  <2>3. CASE why = "status"
    <3>1. step = "receive" /\ down[current] # <<>> /\ Take
      BY <2>1, <2>3 DEF SessionFails, PollFails, Fails
    <3> QED
      BY <1>1, <1>t, <2>2, <3>1
  <2>4. CASE why # "status"
    <3>1. down' = down
      BY <2>1, <2>4 DEF SessionFails, PollFails
    <3> QED
      BY <1>1, <1>2, <2>2, <3>1
  <2> QED
    BY <2>3, <2>4
<1>6. CASE Receive
  <2>0. PICK c0, s : c0 = Head(down[current]) /\ s = current
    OBVIOUS
  <2>1. /\ UNCHANGED <<queues, reply, operator, executed>>
        /\ command' = IF c0 = Done THEN None ELSE c0
    BY <1>6, <2>0 DEF Receive
  <2>2. /\ s \in SessionIds
        /\ \A t \in SessionIds : /\ ToSet(down'[t]) \subseteq ToSet(down[t]) /\ Single(down'[t])
        /\ c0 \in ToSet(down[s]) /\ (c0 \in Operator => c0 \notin ToSet(down'[s]))
    BY <1>6, <1>t, <2>0 DEF Receive
  <2>3. Leaves(c0, "down", s)
    BY <2>2 DEF Leaves, At
  <2>4. Enters(c0, "client", 0)
    BY <1>n, <2>1, <2>2 DEF Enters, At
  <2>5. InOnePlace'
    BY <1>k, <2>2, <2>3, <2>4, Moves
  <2> QED
    BY <2>1, <2>2, <2>5 DEF ThereOnce
<1>7. CASE Process
  <2>0. PICK c0 : c0 = command
    OBVIOUS
  <2>1. /\ UNCHANGED <<queues, reply, down, operator>> /\ command' = None /\ c0 \in Commands
        /\ executed' = executed \/ executed' = Append(executed, c0)
    BY <1>0, <1>7, <2>0 DEF Process, handlerVars
  <2>2. c0 \in Operator => c0 \notin ToSet(executed)
    BY <1>k, <2>0 DEF InOnePlace, At
  <2>3. /\ ToSet(Append(executed, c0)) = ToSet(executed) \cup {c0}
        /\ Single(Append(executed, c0)) /\ Single(executed)
    BY <1>0, <2>1, <2>2, AppendFacts, SingleFacts DEF ThereOnce
  <2>4. Leaves(c0, "client", 0)
    BY <1>n, <2>0, <2>1 DEF Leaves, At
  <2>7. ToSet(executed') \subseteq ToSet(executed) \cup {c0}
    BY <2>1, <2>3
  <2>5. Enters(c0, "card", 0)
    BY <1>n, <2>1, <2>7 DEF Enters, At
  <2>6. InOnePlace'
    BY <1>k, <2>4, <2>5, Moves
  <2> QED
    BY <2>1, <2>3, <2>6 DEF ThereOnce
<1> QED
  BY <1>3, <1>4, <1>5, <1>6, <1>7 DEF Client

LEMMA PlacesKept ==
  ASSUME TypeOK, HandsFull, InOnePlace, ThereOnce, [Next]_vars
  PROVE  InOnePlace' /\ ThereOnce'
<1>1. CASE Client
  BY <1>1, ClientPlaces
<1>2. CASE Server
  BY <1>2, WorkerPlaces DEF Server
<1>3. CASE Dashboard
  BY <1>3, OperatorPlaces DEF Dashboard
<1>4. CASE UNCHANGED vars
  <2>1. UNCHANGED <<queues, reply, down, operator, executed, command>>
    BY <1>4 DEF vars, handlerVars, clientVars
  <2>2. \A c \in Operator, k \in Kinds, t \in 0..MaxSessions : At(c, k, t)' => At(c, k, t)
    BY <2>1 DEF At
  <2> QED
    BY <2>1, <2>2, NothingNew DEF ThereOnce
<1> QED
  BY <1>1, <1>2, <1>3, <1>4 DEF Next

-----------------------------------------------------------------------------
(* What is said of a session, and what it depends on. *)
Side(s) == Balance(s) /\ ServerSide(s) /\ OnTheWay(s)
Same(s) ==
    /\ worker'[s] = worker[s] /\ reply'[s] = reply[s] /\ up'[s] = up[s] /\ down'[s] = down[s]
    /\ sent'[s] = sent[s] /\ received'[s] = received[s] /\ answered'[s] = answered[s]
Busy == step \in {"send", "loop"} \/ state = "connected"

LEMMA SideStays ==
  ASSUME NEW s, Side(s), Same(s)
  PROVE  Side(s)'
<1>1. Balance(s)'
  BY DEF Side, Same, Balance
<1>2. ServerSide(s)'
  BY DEF Side, Same, ServerSide, Thinking, Answering, Outstanding
<1>3. OnTheWay(s)'
  BY DEF Side, Same, OnTheWay, Outstanding
<1> QED
  BY <1>1, <1>2, <1>3 DEF Side

(* A step of another is nothing to the client whose connection it leaves    *)
(* alone, or who waits for a response.                                      *)
LEMMA ClientStays ==
  ASSUME ClientSide, UNCHANGED clientVars, ~Busy \/ Same(current)
  PROVE  ClientSide'
<1>1. CASE ~Busy
  BY <1>1 DEF ClientSide, Busy, clientVars
<1>2. CASE Same(current)
  BY <1>2 DEF ClientSide, Same, clientVars, Answering, Thinking, Outstanding
<1> QED
  BY <1>1, <1>2

(* The types of what belongs to a session. *)
LEMMA SessionTypes ==
  ASSUME TypeOK, NEW s \in SessionIds
  PROVE  /\ worker[s] \in {None, "read", "look", "put", "extend", "next", "write", "gone"}
         /\ reply[s] \in Commands \cup {None, Done, Error}
         /\ up[s] \in {None, "empty", "answer"}
         /\ down[s] \in Seq(Commands \cup {Done, Error})
         /\ sent[s] \in Seq(Commands) /\ answered[s] \in Seq(Commands)
         /\ received[s] \in Nat /\ Len(sent[s]) \in Nat /\ Len(answered[s]) \in Nat
<1>1. sent[s] \in Seq(Commands) /\ answered[s] \in Seq(Commands)
  BY DEF TypeOK, HandlerTypeOK
<1> QED
  BY <1>1 DEF TypeOK, HandlerTypeOK

(* The worker's turn: it reads a request and answers it. *)
LEMMA WorkerTurns ==
  ASSUME TypeOK, HandsFull, NEW s \in SessionIds, Worker(s) \/ Break(s), UNCHANGED clientVars,
         \A t \in SessionIds : Side(t), ClientSide
  PROVE  (\A t \in SessionIds : Side(t)') /\ ClientSide'
<1>0. /\ worker \in [SessionIds -> {None, "read", "look", "put", "extend", "next", "write", "gone"}]
      /\ reply \in [SessionIds -> Commands \cup {None, Done, Error}]
      /\ up \in [SessionIds -> {None, "empty", "answer"}]
      /\ down \in [SessionIds -> Seq(Commands \cup {Done, Error})]
      /\ sent \in [SessionIds -> Seq(Commands)]
      /\ received \in [SessionIds -> Nat]
  BY DEF TypeOK, HandlerTypeOK
<1>1. ASSUME \A t \in SessionIds : t # s => Same(t), Side(s)',
             current = s /\ Busy => ClientSide'
      PROVE  (\A t \in SessionIds : Side(t)') /\ ClientSide'
  <2>1. ASSUME NEW t \in SessionIds PROVE Side(t)'
    BY <1>1, SideStays
  <2>2. Busy => current \in SessionIds
    BY Values DEF Busy, HandsFull, TypeOK, SessionIds
  <2>3. ClientSide'
    BY <1>1, <2>2, ClientStays
  <2> QED
    BY <2>1, <2>3
<1>2. answered' = answered
  BY DEF clientVars
<1>3. ASSUME \A t \in SessionIds : Same(t)
      PROVE  (\A t \in SessionIds : Side(t)') /\ ClientSide'
  <2>1. Side(s)'
    BY <1>3, SideStays
  <2>2. current = s /\ Busy => ClientSide'
    BY <1>3, ClientStays
  <2> QED
    BY <1>1, <1>3, <2>1, <2>2
<1>4. /\ worker[s] \in {None, "read", "look", "put", "extend", "next", "write", "gone"}
      /\ reply[s] \in Commands \cup {None, Done, Error}
      /\ up[s] \in {None, "empty", "answer"}
      /\ received[s] \in Nat /\ Len(sent[s]) \in Nat /\ Len(answered[s]) \in Nat
  BY SessionTypes
<1>5. Balance(s) /\ ServerSide(s) /\ OnTheWay(s)
  BY DEF Side
<1>6. current = s /\ Busy => ~Answering(s) /\ up[s] = None
  BY DEF Busy, ClientSide
<1>7. CASE Break(s)
  BY <1>2, <1>3, <1>7 DEF Break, Same
<1>8. CASE ReadRequest(s)
  <2>1. /\ worker[s] = "read" /\ up[s] # None /\ down[s] = <<>>
        /\ worker'[s] \in {"next", "look"} /\ up'[s] = None
        /\ received'[s] = IF up[s] = "empty" THEN received[s] ELSE received[s] + 1
        /\ UNCHANGED <<sent, reply, down>>
    BY <1>0, <1>5, <1>8 DEF ReadRequest, Goto, ServerSide
  <2>2. Len(sent[s]) = received'[s] /\ received'[s] \in Nat /\ Len(answered[s]) = received'[s]
    BY <1>4, <1>5, <2>1 DEF ServerSide, Balance
  <2>3. Balance(s)'
    BY <1>2, <1>4, <1>5, <2>1, <2>2 DEF Balance
  <2>4. ServerSide(s)'
    BY <2>1, <2>2 DEF ServerSide, Thinking, Answering, None
  <2>5. OnTheWay(s)'
    BY <2>1 DEF OnTheWay
  <2>6. \A t \in SessionIds : t # s => Same(t)
    BY <1>0, <1>2, <1>8 DEF ReadRequest, Goto, Same
  <2> QED
    BY <1>1, <1>6, <2>1, <2>3, <2>4, <2>5, <2>6 DEF Side
<1>9. CASE DemoLook(s) \/ DemoPut(s) \/ DemoExtend(s)
  <2>1. /\ Thinking(s) /\ Thinking(s)' /\ worker'[s] # None /\ worker'[s] # "write"
        /\ worker'[s] # "read" /\ UNCHANGED <<sent, received, reply, up, down>>
    BY <1>0, <1>9 DEF DemoLook, DemoPut, DemoExtend, Goto, Thinking, None
  <2>2. Balance(s)'
    BY <1>2, <1>5, <2>1 DEF Balance
  <2>3. ServerSide(s)'
    BY <1>2, <1>5, <2>1 DEF ServerSide, Answering
  <2>4. OnTheWay(s)'
    BY <1>5, <2>1 DEF OnTheWay, ServerSide, Answering
  <2>5. \A t \in SessionIds : t # s => Same(t)
    BY <1>0, <1>2, <1>9 DEF DemoLook, DemoPut, DemoExtend, Goto, Same
  <2>6. Side(s)' /\ ~(current = s /\ Busy)
    BY <1>6, <2>1, <2>2, <2>3, <2>4 DEF Side, Answering
  <2> QED
    BY <1>1, <2>5, <2>6
<1>10. CASE ReadFails(s) \/ Leave(s)
  <2>1. /\ worker[s] = "read" /\ UNCHANGED <<sent, received, up, down>>
        /\ \/ worker'[s] = "write" /\ reply'[s] = Error
           \/ worker'[s] = "gone"
    BY <1>0, <1>10 DEF ReadFails, Leave, Goto
  <2>2. Balance(s)'
    BY <1>2, <1>5, <2>1 DEF Balance
  <2>3. ServerSide(s)'
    BY <1>2, <1>5, <2>1, Values DEF ServerSide, Thinking, Answering, None
  <2>4. OnTheWay(s)'
    BY <1>2, <1>5, <2>1 DEF OnTheWay, Outstanding
  <2>5. \A t \in SessionIds : t # s => Same(t)
    BY <1>0, <1>2, <1>10 DEF ReadFails, Leave, Goto, Same
  <2>6. ASSUME current = s, Busy PROVE ClientSide'
    <3>1. ~Answering(current)' /\ worker'[s] # "read" /\ up'[s] = None
      BY <1>6, <2>1, <2>6 DEF clientVars, Answering, Thinking
    <3> QED
      BY <2>1, <2>6, <3>1 DEF ClientSide, clientVars, Outstanding
  <2> QED
    BY <1>1, <2>2, <2>3, <2>4, <2>5, <2>6 DEF Side
<1>11. CASE NextCommand(s)
  <2>1. /\ Len(sent[s]) = received[s] /\ Len(answered[s]) = received[s]
        /\ up[s] = None /\ down[s] = <<>>
    BY <1>4, <1>5, <1>11 DEF NextCommand, ServerSide, Balance, Answering, Thinking
  <2>2. UNCHANGED <<received, up, down>> /\ worker'[s] = "write"
    BY <1>0, <1>11 DEF NextCommand, Goto
  <2>3. OnTheWay(s)'
    BY <2>1, <2>2 DEF OnTheWay
  <2>4. \A t \in SessionIds : t # s => Same(t)
    BY <1>0, <1>2, <1>11 DEF NextCommand, Goto, Same
  <2>5. CASE Pending(s)
    <3>1. PICK c \in Commands : c = Head(queues[s])
      BY <2>5, TailFacts DEF Pending, TypeOK, HandlerTypeOK
    <3>2. reply'[s] = c /\ sent'[s] = Append(sent[s], c)
      BY <1>0, <1>11, <2>5, <3>1 DEF NextCommand
    <3>3. /\ Len(sent'[s]) = received[s] + 1 /\ sent'[s][Len(sent'[s])] = c
          /\ \A i \in 1..Len(sent[s]) : sent'[s][i] = sent[s][i]
      BY <1>0, <2>1, <3>2, AppendFacts
    <3>4. Balance(s)'
      BY <1>2, <1>4, <1>5, <2>1, <2>2, <3>3 DEF Balance
    <3>5. ServerSide(s)'
      BY <1>2, <1>4, <2>1, <2>2, <3>2, <3>3, Values
         DEF ServerSide, Thinking, Answering, Outstanding, None
    <3> QED
      BY <1>1, <1>6, <1>11, <2>3, <2>4, <3>4, <3>5 DEF Side, NextCommand, Answering, Thinking
  <2>6. CASE ~Pending(s)
    <3>1. reply'[s] = Done /\ sent' = sent
      BY <1>0, <1>11, <2>6 DEF NextCommand
    <3>2. Balance(s)'
      BY <1>2, <1>5, <2>2, <3>1 DEF Balance
    <3>3. ServerSide(s)'
      BY <1>2, <2>1, <2>2, <3>1, Values DEF ServerSide, Thinking, Answering, Outstanding, None
    <3> QED
      BY <1>1, <1>6, <1>11, <2>3, <2>4, <3>2, <3>3 DEF Side, NextCommand, Answering, Thinking
  <2> QED
    BY <2>5, <2>6
<1>12. CASE Write(s)
  <2>1. /\ UNCHANGED <<sent, received, up>> /\ worker[s] = "write" /\ reply[s] # None
        /\ worker'[s] \in {"read", "gone"} /\ (worker'[s] = "read" => reply[s] \in Commands)
        /\ reply[s] \notin Commands => worker'[s] = "gone"
        /\ down' = down \/ down'[s] = Append(down[s], reply[s])
    BY <1>0, <1>12 DEF Write, Goto, HandsFull
  <2>2. Balance(s)'
    BY <1>2, <1>5, <2>1 DEF Balance
  <2>3. reply[s] \in Commands => reply[s] # Error
    BY Values
  <2>5. \A t \in SessionIds : t # s => Same(t)
    BY <1>0, <1>2, <1>12 DEF Write, Goto, Same
  <2>6. CASE reply[s] = Error
    <3>1. worker'[s] = "gone" /\ Error \notin Commands /\ Error # Done
      BY <2>1, <2>6, Values
    <3>2. ServerSide(s)'
      BY <1>2, <1>5, <2>1, <3>1 DEF ServerSide, Thinking, Answering, None
    <3>3. OnTheWay(s)'
      <4>1. CASE down' = down
        BY <1>2, <1>5, <2>1, <3>1, <4>1 DEF OnTheWay, Outstanding
      <4>2. CASE down'[s] = Append(down[s], Error)
        <5>1. ASSUME NEW i \in DOMAIN down'[s]
              PROVE  (i \in DOMAIN down[s] /\ down'[s][i] = down[s][i]) \/ down'[s][i] = Error
          BY <1>0, <4>2, <5>1, AppendFacts
        <5> QED
          BY <1>2, <1>5, <2>1, <3>1, <5>1 DEF OnTheWay, Outstanding
      <4> QED
        BY <2>1, <2>6, <4>1, <4>2
    <3>4. ASSUME current = s, Busy PROVE ClientSide'
      <4>1. ~Answering(current)' /\ up'[s] = None
        BY <1>6, <2>1, <3>1, <3>4 DEF clientVars, Answering, Thinking
      <4>2. ASSUME NEW i \in DOMAIN down'[s]
            PROVE  (i \in DOMAIN down[s] /\ down'[s][i] = down[s][i]) \/ down'[s][i] = Error
        <5>1. CASE down' = down
          BY <5>1
        <5>2. CASE down'[s] = Append(down[s], Error)
          BY <1>0, <4>2, <5>2, AppendFacts
        <5> QED
          BY <2>1, <2>6, <5>1, <5>2
      <4> QED
        BY <2>1, <3>1, <3>4, <4>1, <4>2 DEF ClientSide, clientVars, Outstanding
    <3> QED
      BY <1>1, <2>2, <2>5, <3>2, <3>3, <3>4 DEF Side
  <2>7. CASE reply[s] # Error
    <3>1. /\ Answering(s) /\ up[s] = None /\ down[s] = <<>>
      BY <1>5, <2>1, <2>7 DEF ServerSide, Answering
    <3>2. /\ reply[s] \in Commands => Outstanding(s, reply[s])
          /\ reply[s] = Done => Len(sent[s]) = received[s]
          /\ reply[s] \in Commands \/ reply[s] = Done
      BY <1>4, <1>5, <2>1, <2>7 DEF ServerSide
    <3>3. ServerSide(s)'
      BY <1>2, <2>1, <3>1 DEF ServerSide, Thinking, Answering, None
    <3>4. \A i \in DOMAIN down'[s] : i = 1 /\ down'[s][i] = reply[s]
      BY <2>1, <3>1
    <3>5. OnTheWay(s)'
      BY <1>2, <2>1, <2>7, <3>1, <3>2, <3>4, Values DEF OnTheWay, Outstanding
    <3> QED
      BY <1>1, <1>6, <2>2, <2>5, <3>1, <3>3, <3>5 DEF Side
  <2> QED
    BY <2>6, <2>7
<1> QED
  BY <1>7, <1>8, <1>9, <1>10, <1>11, <1>12 DEF Worker

(* The client's turn: it takes a response and sends the next request. *)
LEMMA ClientTurns ==
  ASSUME TypeOK, HandsFull, Client, ~persistent, \A t \in SessionIds : Side(t), ClientSide
  PROVE  (\A t \in SessionIds : Side(t)') /\ ClientSide'
<1>0. /\ worker \in [SessionIds -> {None, "read", "look", "put", "extend", "next", "write", "gone"}]
      /\ up \in [SessionIds -> {None, "empty", "answer"}]
      /\ down \in [SessionIds -> Seq(Commands \cup {Done, Error})]
      /\ answered \in [SessionIds -> Seq(Commands)]
  BY DEF TypeOK, HandlerTypeOK
<1>1. ASSUME \A t \in SessionIds : Same(t) PROVE \A t \in SessionIds : Side(t)'
  BY <1>1, SideStays
<1>2. ASSUME UNCHANGED <<handlerVars, answered>> PROVE \A t \in SessionIds : Same(t)
  BY <1>2 DEF handlerVars, Same
<1>3. step # "none" <=> state = "exchanging"
  BY DEF TypeOK
<1>4. step # "none" \/ state = "connected" => current \in SessionIds /\ worker[current] # None
  BY Values DEF HandsFull, TypeOK, SessionIds
<1>5. CASE Connect \/ ConnectRefused \/ ConnectFails
  <2>1. \A t \in SessionIds : Same(t)
    BY <1>2, <1>5 DEF Connect, ConnectRefused, ConnectFails
  <2>2. /\ step = "none" /\ step' = step /\ command' = command /\ state' # "connected"
    BY <1>3, <1>5 DEF Connect, ConnectRefused, ConnectFails
  <2>3. ClientSide'
    BY <2>2 DEF ClientSide
  <2> QED
    BY <1>1, <2>1, <2>3
<1>6. CASE ConnectOk
  <2>0. PICK s : s = current'
    OBVIOUS
  <2>1. /\ s \in SessionIds /\ worker[s] = None /\ step = "none" /\ step' = step /\ command' = command
        /\ UNCHANGED <<reply, up, down, sent, received, answered>>
        /\ worker' = [worker EXCEPT ![s] = "read"]
    BY <1>3, <1>6, <2>0, CountOfConnections, Values
       DEF ConnectOk, Open, Goto, HandsFull, SessionIds
  <2>2. worker'[s] = "read" /\ \A t \in SessionIds : t # s => Same(t)
    BY <1>0, <2>1 DEF Same
  <2>3. Len(sent[s]) = 0 /\ received[s] = 0 /\ up[s] = None /\ down[s] = <<>>
    BY <2>1 DEF Side, ServerSide
  <2>4. Balance(s)'
    BY <2>1 DEF Side, Balance
  <2>5. ServerSide(s)'
    BY <2>1, <2>2, <2>3 DEF ServerSide, Thinking, Answering, None
  <2>6. OnTheWay(s)'
    BY <2>1, <2>3 DEF OnTheWay
  <2>7. \A t \in SessionIds : Side(t)'
    BY <2>2, <2>4, <2>5, <2>6, SideStays DEF Side
  <2>8. ClientSide'
    BY <2>0, <2>1, <2>2, <2>3 DEF ClientSide, Thinking, Answering
  <2> QED
    BY <2>7, <2>8
<1>7. CASE RunSession
  <2>1. \A t \in SessionIds : Same(t)
    BY <1>2, <1>7 DEF RunSession
  <2>2. current' = current /\ Same(current) /\ command' = command
        /\ state = "connected" /\ step = "none" /\ step' = "send" /\ asking' = "initial" /\ state' = "exchanging"
    BY <1>4, <1>7, <2>1 DEF RunSession
  <2>3. ClientSide'
    BY <2>2 DEF ClientSide, Same, Answering, Thinking
  <2> QED
    BY <1>1, <2>1, <2>3
<1>8. CASE Send
  <2>0. PICK s \in SessionIds : s = current
    BY <1>4, <1>8 DEF Send
  <2>1. /\ UNCHANGED <<worker, reply, down, sent, received, answered>>
        /\ current' = s /\ asking' = asking /\ command' = command /\ state' = state
        /\ step = "send" /\ step' = "receive" /\ state = "exchanging"
        /\ up' = [up EXCEPT ![s] = IF worker[s] = "gone" THEN None
                                   ELSE IF asking = "answer" THEN "answer" ELSE "empty"]
    BY <1>3, <1>8, <2>0 DEF Send
  <2>2. /\ worker[s] # None /\ ~Answering(s) /\ up[s] = None
        /\ asking \in {"initial", "answer"}
        /\ asking = "answer" => Len(answered[s]) = received[s] + 1
        /\ asking = "initial" => Len(sent[s]) = received[s]
    BY <1>4, <2>0, <2>1 DEF ClientSide
  <2>3. /\ up'[s] = "answer" => Len(answered[s]) = received[s] + 1
        /\ up'[s] = "empty" => Len(sent[s]) = received[s]
        /\ worker[s] = "gone" => up'[s] = None
    BY <1>0, <2>1, <2>2, Values DEF None
  <2>4. \A t \in SessionIds : t # s => Same(t)
    BY <1>0, <2>1 DEF Same
  <2>5. Balance(s) /\ ServerSide(s) /\ OnTheWay(s)
    BY DEF Side
  <2>6. Balance(s)'
    BY <2>1, <2>5 DEF Balance
  <2>7. worker[s] = "read" => down[s] = <<>>
    <3>1. SUFFICES ASSUME worker[s] = "read", down[s] # <<>> PROVE FALSE
      OBVIOUS
    <3>2. 1 \in DOMAIN down[s] /\ down[s][1] \in Commands \cup {Done, Error}
      BY <1>0, <3>1, TailFacts
    <3>3. Outstanding(s, down[s][1])
      BY <2>5, <3>1, <3>2 DEF OnTheWay
    <3> QED
      BY <2>2, <3>3, SessionTypes DEF Outstanding
  <2>8. ServerSide(s)'
    BY <2>1, <2>2, <2>3, <2>5, <2>7 DEF ServerSide, Answering, Thinking, Outstanding
  <2>9. OnTheWay(s)'
    BY <2>1, <2>3, <2>5 DEF OnTheWay, Outstanding
  <2>10. \A t \in SessionIds : Side(t)'
    BY <2>4, <2>6, <2>8, <2>9, SideStays DEF Side
  <2>11. ClientSide'
    BY <2>1, <2>2 DEF ClientSide
  <2> QED
    BY <2>10, <2>11
<1>t. ASSUME NEW s, s = current, step = "receive", down[s] # <<>>, Take,
             UNCHANGED <<worker, reply, up, sent, received, answered>>
      PROVE  /\ s \in SessionIds /\ worker[s] # None /\ ~Answering(s)
             /\ 1 \in DOMAIN down[s] /\ Head(down[s]) = down[s][1]
             /\ Head(down[s]) \in Commands \cup {Done, Error}
             /\ \A i \in DOMAIN down'[s] : down'[s][i] \notin Commands
             /\ \A t \in SessionIds : Side(t)'
  <2>1. s \in SessionIds /\ worker[s] # None
    BY <1>4, <1>t
  <2>2. Balance(s) /\ ServerSide(s) /\ OnTheWay(s)
    BY <2>1 DEF Side
  <2>3. /\ 1 \in DOMAIN down[s] /\ Head(down[s]) = down[s][1]
        /\ Head(down[s]) \in Commands \cup {Done, Error}
    BY <1>0, <1>t, <2>1, TailFacts
  <2>4. PICK rest \in {Tail(down[s]), <<>>} : down' = [down EXCEPT ![s] = rest]
    BY <1>t DEF Take
  <2>5. down'[s] = rest /\ \A t \in SessionIds : t # s => Same(t)
    BY <1>0, <1>t, <2>1, <2>4 DEF Same
  <2>6. ASSUME NEW i \in DOMAIN rest
        PROVE  i + 1 \in DOMAIN down[s] /\ i + 1 # 1 /\ rest[i] = down[s][i + 1]
    <3>1. CASE rest = <<>>
      BY <2>6, <3>1
    <3>2. CASE rest = Tail(down[s])
      BY <1>0, <1>t, <2>1, <2>6, <3>2, TailFacts
    <3> QED
      BY <2>4, <3>1, <3>2
  <2>7. ~Answering(s) /\ (worker[s] = "read" => up[s] = None)
    BY <1>t, <2>2 DEF ServerSide
  <2>8. Balance(s)'
    BY <1>t, <2>2 DEF Balance
  <2>9. ServerSide(s)'
    BY <1>t, <2>1, <2>2, <2>7 DEF ServerSide, Answering, Thinking, Outstanding
  <2>10. \A i \in DOMAIN down'[s] : down'[s][i] \notin Commands
    BY <2>2, <2>5, <2>6 DEF OnTheWay
  <2>11. OnTheWay(s)'
    BY <1>t, <2>2, <2>5, <2>6, <2>10 DEF OnTheWay
  <2>12. \A t \in SessionIds : Side(t)'
    BY <2>5, <2>8, <2>9, <2>11, SideStays DEF Side
  <2> QED
    BY <2>1, <2>3, <2>7, <2>10, <2>12
<1>9. CASE Receive
  <2>0. PICK s, c : s = current /\ c = Head(down[s])
    OBVIOUS
  <2>1. /\ UNCHANGED <<worker, reply, up, sent, received, answered>>
        /\ current' = s /\ asking' = asking /\ state' = state /\ step = "receive" /\ step' = "loop"
        /\ down[s] # <<>> /\ c # Error /\ Take
        /\ command' = IF c = Done THEN None ELSE c
    BY <1>9, <2>0 DEF Receive
  <2>2. /\ s \in SessionIds /\ ~Answering(s) /\ 1 \in DOMAIN down[s] /\ c = down[s][1]
        /\ c \in Commands \cup {Done}
        /\ \A i \in DOMAIN down'[s] : down'[s][i] \notin Commands
        /\ \A t \in SessionIds : Side(t)'
    BY <1>t, <2>0, <2>1
  <2>3. ServerSide(s) /\ OnTheWay(s)
    BY <2>2 DEF Side
  <2>4. CASE c = Done
    <3>1. Len(sent[s]) = received[s] /\ up[s] = None /\ worker[s] = "gone" /\ command' = None
      BY <2>1, <2>2, <2>3, <2>4 DEF OnTheWay
    <3>2. ClientSide'
      BY <2>1, <2>2, <3>1 DEF ClientSide, Answering, Thinking
    <3> QED
      BY <2>2, <3>2
  <2>5. CASE c # Done
    <3>1. c \in Commands /\ command' = c /\ c # None /\ Outstanding(s, c)
      BY <2>1, <2>2, <2>3, <2>5, Values DEF OnTheWay
    <3>2. up[s] = None
      BY <1>0, <2>2, <2>3, <3>1, SessionTypes DEF ServerSide, Outstanding
    <3>3. /\ ~Answering(current)' /\ up'[current'] = None /\ Outstanding(current, command)'
          /\ \A i \in DOMAIN down'[current'] : down'[current'][i] \notin Commands
      BY <2>1, <2>2, <3>1, <3>2 DEF Answering, Thinking, Outstanding
    <3>4. ClientSide'
      BY <1>3, <2>1, <3>1, <3>3 DEF ClientSide
    <3> QED
      BY <2>2, <3>4
  <2> QED
    BY <2>4, <2>5
<1>10. CASE \E why \in Errors : SessionFails(why)
  <2>1. PICK why \in Errors : SessionFails(why)
    BY <1>10
  <2>2. /\ UNCHANGED <<worker, reply, up, sent, received, answered>>
        /\ step' = "none" /\ command' = None /\ state' # "connected"
    BY <2>1 DEF SessionFails, Return
  <2>3. ClientSide'
    BY <2>2 DEF ClientSide
  <2>4. CASE why = "status"
    <3>1. PICK s : s = current
      OBVIOUS
    <3>2. step = "receive" /\ down[s] # <<>> /\ Take
      BY <2>1, <2>4, <3>1 DEF SessionFails, Fails
    <3> QED
      BY <1>t, <2>2, <2>3, <3>1, <3>2
  <2>5. CASE why # "status"
    <3>1. \A t \in SessionIds : Same(t)
      BY <2>1, <2>2, <2>5 DEF SessionFails, Same
    <3> QED
      BY <1>1, <2>3, <3>1
  <2> QED
    BY <2>4, <2>5
<1>11. CASE \E why \in Errors : PollFails(why)
  <2>1. PICK why \in Errors : PollFails(why)
    BY <1>11
  <2>2. step \in {"send", "receive"} /\ asking \in {"poll", "repoll"}
    BY <2>1 DEF PollFails, Fails, Caught, Errors
  <2> QED
    BY <2>2 DEF ClientSide
<1>12. CASE Reconnect \/ ReconnectFails \/ Poll
  BY <1>12 DEF Reconnect, ReconnectFails, Poll, ClientSide
<1>13. CASE Finish
  <2>1. \A t \in SessionIds : Same(t)
    BY <1>2, <1>13 DEF Finish
  <2>2. /\ current' = current /\ Same(current) /\ command = None /\ command' = None
        /\ step = "loop" /\ step' = "none" /\ state' = "connected"
    BY <1>4, <1>13, <2>1 DEF Finish, Return, TimedOut
  <2>3. ClientSide'
    BY <2>2 DEF ClientSide, Same, Answering, Thinking
  <2> QED
    BY <1>1, <2>1, <2>3
<1>14. CASE Process
  <2>0. PICK s \in SessionIds, c \in Commands : s = current /\ c = command
    BY <1>4, <1>14 DEF Process, TypeOK
  <2>1. /\ UNCHANGED <<worker, reply, up, down, sent, received>>
        /\ answered' = [answered EXCEPT ![s] = Append(@, c)]
        /\ current' = s /\ command' = None /\ asking' = "answer" /\ state' = state
        /\ step = "loop" /\ step' = "send" /\ c # None
    BY <1>14, <2>0 DEF Process, handlerVars
  <2>2. /\ worker[s] # None /\ ~Answering(s) /\ up[s] = None /\ Outstanding(s, c)
        /\ \A i \in DOMAIN down[s] : down[s][i] \notin Commands
    BY <1>4, <2>0, <2>1 DEF ClientSide
  <2>3. /\ answered'[s] = Append(answered[s], c) /\ \A t \in SessionIds : t # s => Same(t)
    BY <1>0, <2>1 DEF Same
  <2>4. /\ Len(answered'[s]) = received[s] + 1 /\ Len(sent[s]) = received[s] + 1
        /\ \A i \in 1..received[s] : answered'[s][i] = answered[s][i]
        /\ answered'[s][received[s] + 1] = sent[s][received[s] + 1]
        /\ received[s] \in Nat /\ Len(answered[s]) = received[s]
    BY <1>0, <2>1, <2>2, <2>3, AppendFacts, SessionTypes DEF Outstanding
  <2>5. Balance(s) /\ ServerSide(s) /\ OnTheWay(s)
    BY DEF Side
  <2>6. Balance(s)'
    <3>1. \A i \in 1..(received[s] + 1) : i \in 1..received[s] \/ i = received[s] + 1
      BY <2>4
    <3> QED
      BY <2>1, <2>4, <2>5, <3>1 DEF Balance
  <2>7. ServerSide(s)'
    <3>1. /\ ~Answering(s)' /\ up'[s] = None /\ worker'[s] # None /\ ~Thinking(s)'
      BY <2>1, <2>2 DEF Answering, Thinking
    <3>2. worker'[s] = "write" => reply'[s] = Error
      BY <3>1 DEF Answering
    <3> QED
      BY <3>1, <3>2, Values DEF ServerSide, None
  <2>8. OnTheWay(s)'
    BY <2>1, <2>2, <2>5 DEF OnTheWay
  <2>9. \A t \in SessionIds : Side(t)'
    BY <2>3, <2>6, <2>7, <2>8, SideStays DEF Side
  <2>10. /\ ~Answering(current)' /\ up'[current'] = None
         /\ Len(answered'[current']) = received'[current'] + 1
    BY <2>1, <2>2, <2>4 DEF Answering, Thinking
  <2>11. ClientSide'
    BY <1>3, <2>1, <2>10 DEF ClientSide
  <2> QED
    BY <2>9, <2>11
<1>15. CASE Disconnect
  <2>1. \A t \in SessionIds : Same(t)
    BY <1>15 DEF Disconnect, Same
  <2>2. step = "none" /\ step' = "none" /\ command' = command /\ state' = "idle"
    BY <1>15 DEF Disconnect
  <2>3. ClientSide'
    BY <2>2 DEF ClientSide
  <2> QED
    BY <1>1, <2>1, <2>3
<1> QED
  BY <1>5, <1>6, <1>7, <1>8, <1>9, <1>10, <1>11, <1>12, <1>13, <1>14, <1>15 DEF Client

LEMMA TurnsKept ==
  ASSUME TypeOK, HandsFull, TurnsTaken, [Next]_vars
  PROVE  TurnsTaken'
<1>1. persistent' = persistent
  BY DEF Next, vars, Client, Server, Dashboard, clientVars, Connect, ConnectOk, ConnectRefused,
     ConnectFails, RunSession, Send, Receive, SessionFails, PollFails, Reconnect, ReconnectFails,
     Finish, Poll, Process, Disconnect
<1>2. SUFFICES ASSUME ~persistent PROVE (\A s \in SessionIds : Side(s)') /\ ClientSide'
  BY <1>1 DEF TurnsTaken, Side
<1>3. (\A s \in SessionIds : Side(s)) /\ ClientSide
  BY <1>2 DEF TurnsTaken, Side
<1>4. CASE Client
  BY <1>2, <1>3, <1>4, ClientTurns
<1>5. CASE Server
  BY <1>3, <1>5, WorkerTurns DEF Server
<1>6. CASE Dashboard \/ UNCHANGED vars
  <2>1. UNCHANGED clientVars /\ UNCHANGED <<worker, reply, up, down, sent, received>>
    BY <1>6 DEF vars, handlerVars, Dashboard, OperatorStep, OperatorLook, OperatorPut, OperatorExtend
  <2>2. \A s : Same(s)
    BY <2>1 DEF clientVars, Same
  <2> QED
    BY <1>3, <2>1, <2>2, SideStays, ClientStays
<1> QED
  BY <1>4, <1>5, <1>6 DEF Next

-----------------------------------------------------------------------------
LEMMA OtaInit == Init => OtaInv
<1> SUFFICES ASSUME Init PROVE OtaInv
  OBVIOUS
<1>1. /\ queues = <<>> /\ worker = [s \in SessionIds |-> None] /\ reply = [s \in SessionIds |-> None]
      /\ up = [s \in SessionIds |-> None] /\ down = [s \in SessionIds |-> <<>>]
      /\ link = [s \in SessionIds |-> None] /\ sent = [s \in SessionIds |-> <<>>]
      /\ received = [s \in SessionIds |-> 0]
      /\ operator = [at |-> "idle", session |-> 0, command |-> None, left |-> Operator]
  BY DEF Init, HandlerInit
<1>2. /\ answered = [s \in SessionIds |-> <<>>] /\ executed = <<>> /\ command = None
      /\ state = "idle" /\ step = "none" /\ current = 0 /\ result = None
  BY DEF Init
<1>3. DOMAIN queues = {} /\ 0 \in 0..MaxSessions
  BY <1>1, Values
<1>4. HandlerTypeOK
  BY <1>1, <1>3, EmptySeq DEF HandlerTypeOK
<1>5. TypeOK
  BY <1>2, <1>3, <1>4, EmptySeq, ClientAssumption DEF Init, TypeOK
<1>6. HandsFull
  BY <1>1, <1>2 DEF HandsFull, None
<1>7. InOnePlace
  <2>1. \A c \in Operator, k \in Kinds, s \in 0..MaxSessions : At(c, k, s) => k = "left" /\ s = 0
    BY <1>1, <1>2, <1>3, Values DEF At, ToSet
  <2> QED
    BY <2>1 DEF InOnePlace
<1>8. ThereOnce
  BY <1>1, <1>2, <1>3 DEF ThereOnce, Single
<1>9. ASSUME NEW s \in SessionIds PROVE Balance(s) /\ ServerSide(s) /\ OnTheWay(s)
  <2>1. /\ worker[s] = None /\ up[s] = None /\ down[s] = <<>> /\ received[s] = 0
        /\ Len(sent[s]) = 0 /\ Len(answered[s]) = 0
    BY <1>1, <1>2
  <2> QED
    BY <2>1 DEF Balance, ServerSide, OnTheWay, Thinking, Answering, None
<1>10. ClientSide
  BY <1>2 DEF ClientSide
<1> QED
  BY <1>5, <1>6, <1>7, <1>8, <1>9, <1>10 DEF OtaInv, TurnsTaken

LEMMA OtaStep == OtaInv /\ [Next]_vars => OtaInv'
BY TypesKept, PlacesKept, TurnsKept DEF OtaInv

(* What an end to end session promises follows from who holds what.         *)
LEMMA OtaPromise == OtaInv => InStep
<1> SUFFICES ASSUME OtaInv PROVE InStep
  OBVIOUS
<1>1. ASSUME NEW c \in Operator PROVE Cardinality({i \in DOMAIN executed : executed[i] = c}) <= 1
  <2> DEFINE S == {i \in DOMAIN executed : executed[i] = c}
  <2>1. \A i, j \in S : i = j
    BY DEF OtaInv, ThereOnce, Single
  <2> HIDE DEF S
  <2>2. S = {} => Cardinality(S) = 0
    BY FS_EmptySet
  <2>3. S # {} => Cardinality(S) = 1
    <3>1. S # {} => \E i \in S : S = {i}
      BY <2>1
    <3> QED
      BY <3>1, FS_Singleton
  <2>4. Cardinality(S) <= 1
    BY <2>2, <2>3
  <2> QED
    BY <2>4 DEF S
<1>2. ASSUME ~persistent, NEW s \in SessionIds
      PROVE  /\ IsPrefix(answered[s], sent[s])
             /\ Len(sent[s]) <= received[s] + 1
             /\ received[s] <= Len(answered[s])
             /\ Len(answered[s]) <= received[s] + 1
  <2>1. Balance(s)
    BY <1>2 DEF OtaInv, TurnsTaken
  <2>2. PICK p, q : p = answered[s] /\ q = sent[s]
    OBVIOUS
  <2>3. /\ p \in Seq(Commands) /\ q \in Seq(Commands) /\ Len(p) \in Nat /\ Len(q) \in Nat
        /\ received[s] \in Nat
    BY <2>2, SessionTypes DEF OtaInv
  <2>4. Len(p) <= Len(q) /\ \A i \in 1..Len(p) : p[i] = q[i]
    BY <2>1, <2>2 DEF Balance
  <2>5. SubSeq(p, 1, Len(p)) = SubSeq(q, 1, Len(p))
    <3>1. /\ \A i \in 1..Len(p) : p[i] \in Commands /\ q[i] \in Commands
      BY <2>3, <2>4
    <3>2. /\ SubSeq(p, 1, Len(p)) \in Seq(Commands) /\ SubSeq(q, 1, Len(p)) \in Seq(Commands)
          /\ Len(SubSeq(p, 1, Len(p))) = Len(p) /\ Len(SubSeq(q, 1, Len(p))) = Len(p)
          /\ \A i \in 1..Len(p) : SubSeq(p, 1, Len(p))[i] = p[i] /\ SubSeq(q, 1, Len(p))[i] = q[i]
      BY <2>3, <2>4, <3>1, SubSeqProperties
    <3> QED
      BY <2>4, <3>2, SeqEqual
  <2>6. IsPrefix(p, q)
    BY <2>4, <2>5 DEF IsPrefix
  <2> QED
    BY <2>1, <2>2, <2>3, <2>6 DEF Balance
<1> QED
  BY <1>1, <1>2 DEF InStep, OtaInv

(* Whatever is lost, retried or added while it runs, a command queued once  *)
(* by the operator is executed by the card once at most; and client and     *)
(* handler never disagree about which commands were answered by more than   *)
(* the one in flight (handle_request, queue_commands, run_session).         *)
THEOREM OtaInStep == Spec => []InStep
<1>1. Spec => []OtaInv
  BY OtaInit, OtaStep, PTL DEF Spec
<1> QED
  BY <1>1, OtaPromise, PTL

(* A session that does not poll is a success only at the 204 that says the  *)
(* queue is empty: then every command taken from it was answered, and the   *)
(* handler has the answer (run_session).                                    *)
THEOREM OtaSuccess == Spec => SuccessMeansDone
<1>1. ASSUME OtaInv, [Next]_vars, ~persistent, state = "exchanging", result' = "success"
      PROVE  answered[current] = sent[current] /\ received[current] = Len(sent[current])
  <2>1. Finish
    <3>1. result # "success" /\ step # "none"
      BY <1>1 DEF OtaInv, HandsFull, TypeOK
    <3> QED
      BY <1>1, <3>1, Values DEF Next, vars, Client, Server, Dashboard, clientVars, Connect, ConnectOk,
         ConnectRefused, ConnectFails, RunSession, Send, Receive, SessionFails, PollFails,
         Reconnect, ReconnectFails, Poll, Process, Disconnect
  <2>2. step = "loop" /\ command = None
    BY <1>1, <2>1 DEF Finish, TimedOut
  <2>0. TypeOK /\ current \in 0..MaxSessions /\ current # 0
    BY <1>1, <2>2 DEF OtaInv, HandsFull, TypeOK
  <2>3. PICK s \in SessionIds : s = current
    BY <2>0, Values DEF SessionIds
  <2>4. Balance(s) /\ Len(sent[s]) = received[s]
    BY <1>1, <2>2, <2>3 DEF OtaInv, TurnsTaken, ClientSide
  <2>5. /\ answered[s] \in Seq(Commands) /\ sent[s] \in Seq(Commands) /\ received[s] \in Nat
        /\ Len(answered[s]) \in Nat
    BY <2>0, SessionTypes
  <2>6. Len(answered[s]) = Len(sent[s]) /\ \A i \in 1..Len(sent[s]) : answered[s][i] = sent[s][i]
    BY <2>4, <2>5 DEF Balance
  <2>7. answered[s] = sent[s]
    BY <2>5, <2>6, SeqEqual
  <2> QED
    BY <2>3, <2>4, <2>7
<1>2. Spec => []OtaInv
  BY OtaInit, OtaStep, PTL DEF Spec
<1> QED
  BY <1>1, <1>2, PTL DEF Spec, SuccessMeansDone
=============================================================================
