--------------------------- MODULE SecureChannel ---------------------------
(* The host side of SCP02 and SCP03 against a card that keeps to them, over    *)
(* a link that loses commands and answers.  A MAC is what it is computed from: *)
(* the session's keys and the chain of MACs before it.                         *)
EXTENDS Naturals

CONSTANTS
    Protocol,      \* "SCP02" or "SCP03"
    MaxSessions,   \* bound on the sessions a run opens
    MaxChain       \* bound on the commands of a session

ASSUME ChannelAssumption ==
    Protocol \subseteq {"SCP02", "SCP03"} /\ MaxSessions \in Nat /\ MaxChain \in Nat

Zero == [session |-> 0, nr |-> 0]       \* the chaining value of zeros
Link(prior, session) == [session |-> session, nr |-> prior.nr + 1]
NoSession == [session |-> 0, chain |-> Zero, counter |-> 0]

VARIABLES
    scp,            \* the protocol of this run
    sessions,       \* sessions begun: each INITIALIZE UPDATE makes new keys
    authenticated,  \* _is_authenticated
    encrypting,     \* _security_level has encryption
    keys,           \* _session_keys: the session they belong to, 0 for none
    chain,          \* _mac_chaining_value
    counter,        \* _encryption_counter: commands encrypted since the session began
    card,           \* the session of the card: [session, chain, counter], or NoSession
    initializing,   \* initialize() between INITIALIZE UPDATE and EXTERNAL AUTHENTICATE
    broken,      \* history: since the session was set up something was lost, the card was
                    \* reset, a later initialize() failed or a command was too long
    lastInit        \* history: how the last initialize() ended, and the chain it started on

channelVars == <<scp, sessions, authenticated, encrypting, keys, chain, counter, card,
                 initializing, broken, lastInit>>

ChannelInit ==
    /\ scp \in Protocol /\ sessions = 0 /\ authenticated = FALSE /\ encrypting = FALSE
    /\ keys = 0 /\ chain = Zero /\ counter = 0 /\ card = NoSession
    /\ initializing = FALSE /\ broken = FALSE
    /\ lastInit = [result |-> "none", fromZero |-> TRUE]

InitEnds(result) ==
    lastInit' = [result |-> result, fromZero |-> chain = Zero]

(***************************************************************************)
(* initialize                                                               *)
(***************************************************************************)

\* The card forgets its session when it takes INITIALIZE UPDATE, and so does a command that
\* is lost on the way back.  Refused, too short an answer, or the wrong cryptogram: raised,
\* with whatever was authenticated before still so.
BeginFails ==
    /\ ~initializing /\ sessions < MaxSessions /\ sessions' = sessions + 1
    /\ \E reached \in BOOLEAN : card' = IF reached THEN NoSession ELSE card
    \* keys are derived before the cryptogram is looked at
    /\ keys' \in {keys, sessions'}
    /\ broken' = TRUE /\ InitEnds("noAnswer")
    /\ UNCHANGED <<scp, authenticated, encrypting, chain, counter, initializing>>

BeginSession ==
    /\ ~initializing /\ sessions < MaxSessions /\ sessions' = sessions + 1
    /\ keys' = sessions' /\ card' = NoSession /\ initializing' = TRUE
    /\ UNCHANGED <<scp, authenticated, encrypting, chain, counter, broken, lastInit>>

\* Mutant of Restarted: SCP03 does not start from zeros either.
NotRestarted == chain

\* The chain the MAC of EXTERNAL AUTHENTICATE starts on: SCP02 has that of the session
\* before, unless it was closed.
Restarted == IF scp = "SCP03" THEN Zero ELSE chain

\* The card accepts a MAC that starts on zeros.
Authenticate(wantsEncryption) ==
    /\ initializing /\ initializing' = FALSE
    /\ IF Restarted = Zero
       THEN /\ chain' = Link(Zero, keys)
            /\ card' = [session |-> keys, chain |-> Link(Zero, keys), counter |-> 0]
            /\ authenticated' = TRUE /\ encrypting' = wantsEncryption /\ counter' = 0
            /\ broken' = FALSE /\ InitEnds("ok")
       ELSE /\ authenticated' = FALSE /\ InitEnds("refused")
            /\ UNCHANGED <<chain, card, encrypting, counter, broken>>
    /\ UNCHANGED <<scp, sessions, keys>>

\* The command or its answer is lost: the transmit function raises.
AuthenticateLost ==
    /\ initializing /\ initializing' = FALSE
    /\ chain' = Restarted
    /\ \E reached \in BOOLEAN :
        card' = IF reached /\ Restarted = Zero
                THEN [session |-> keys, chain |-> Link(Zero, keys), counter |-> 0] ELSE card
    /\ broken' = TRUE /\ InitEnds("noAnswer")
    /\ UNCHANGED <<scp, sessions, authenticated, encrypting, keys, counter>>

(***************************************************************************)
(* send, close                                                              *)
(***************************************************************************)

Encrypts(hasData) == encrypting /\ hasData
CounterAfter(hasData) == IF scp = "SCP03" /\ Encrypts(hasData) THEN counter + 1 ELSE counter
Chained == Link(chain, keys)

\* The card checks the MAC against its own chain, and with it what the command says.
Accepts(hasData) ==
    /\ card.session = keys /\ keys # 0 /\ card.chain = chain
    /\ scp = "SCP03" /\ Encrypts(hasData) => card.counter = counter
CardAfter(hasData) ==
    IF Accepts(hasData) THEN [card EXCEPT !.chain = Chained, !.counter = CounterAfter(hasData)]
    ELSE NoSession

\* The chain and the counter go on before the command is transmitted; the status is the
\* caller's business.
Send(hasData) ==
    /\ ~initializing /\ authenticated /\ chain.nr < MaxChain
    /\ chain' = Chained /\ counter' = CounterAfter(hasData) /\ card' = CardAfter(hasData)
    /\ UNCHANGED <<scp, sessions, authenticated, encrypting, keys, initializing, broken, lastInit>>

SendLost(hasData) ==
    /\ ~initializing /\ authenticated /\ chain.nr < MaxChain
    /\ chain' = Chained /\ counter' = CounterAfter(hasData)
    /\ \E reached \in BOOLEAN : card' = IF reached THEN CardAfter(hasData) ELSE card
    \* an answer that is lost costs nothing
    /\ broken' = (broken \/ card' = card \/ card' = NoSession)
    /\ UNCHANGED <<scp, sessions, authenticated, encrypting, keys, initializing, lastInit>>

\* No room for the MAC: an error, after SCP03 has counted the encryption.
SendTooLong ==
    /\ ~initializing /\ authenticated /\ counter < MaxChain
    /\ counter' = CounterAfter(TRUE)
    /\ broken' = (broken \/ counter' # counter)
    /\ UNCHANGED <<scp, sessions, authenticated, encrypting, keys, chain, card, initializing, lastInit>>

SendRefused == /\ ~authenticated /\ ~initializing /\ UNCHANGED channelVars
WrapKey == /\ authenticated /\ ~initializing /\ UNCHANGED channelVars

CloseChannel ==
    /\ ~initializing
    /\ authenticated' = FALSE /\ encrypting' = FALSE /\ keys' = 0 /\ chain' = Zero
    /\ counter' = IF scp = "SCP03" THEN 0 ELSE counter
    /\ UNCHANGED <<scp, sessions, card, initializing, broken, lastInit>>

CardReset ==
    /\ card # NoSession /\ card' = NoSession /\ broken' = TRUE
    /\ UNCHANGED <<scp, sessions, authenticated, encrypting, keys, chain, counter,
                   initializing, lastInit>>

ChannelNext ==
    \/ BeginFails \/ BeginSession \/ AuthenticateLost \/ SendTooLong \/ SendRefused \/ WrapKey
    \/ CloseChannel \/ CardReset
    \/ \E b \in BOOLEAN : Authenticate(b) \/ Send(b) \/ SendLost(b)

ChannelSpec == ChannelInit /\ [][ChannelNext]_channelVars

(***************************************************************************)
(* Properties                                                               *)
(***************************************************************************)

\* The host and the card stay in step: as long as every command of a session arrived, the
\* card was not reset and no command was too long, the card takes the next one, whatever it
\* carries.  And a new session can be set up over the old one with a card that answers,
\* except under SCP02 on a chain that close() has not put back to zeros
\* (SCP02, SCP03: initialize, _send_external_authenticate, _secure_command, close).
ChannelSound ==
    /\ authenticated /\ ~broken /\ ~initializing => \A hasData \in BOOLEAN : Accepts(hasData)
    /\ lastInit.result = "refused" => scp = "SCP02" /\ ~lastInit.fromZero
=============================================================================
