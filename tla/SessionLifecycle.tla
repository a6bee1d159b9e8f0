-------------------------- MODULE SessionLifecycle --------------------------
(***************************************************************************)
(* What the server promises of a session, whoever drives it: it moves      *)
(* forward through handshaking, connected and active, may end from any of  *)
(* them, ends once with one outcome, and is forgotten only after it ended. *)
(* A step moves any number of sessions: clean-up ends many at once.        *)
(***************************************************************************)
CONSTANTS Sessions, Outcomes

VARIABLES stage, outcome

Stages == {"none", "handshaking", "connected", "active", "closed", "purged"}

Advance == { <<"none", "handshaking">>, <<"handshaking", "connected">>,
             <<"connected", "active">> }
Ending  == { <<"handshaking", "closed">>, <<"connected", "closed">>,
             <<"active", "closed">> }
Forget  == { <<"closed", "purged">> }

Init ==
    /\ stage = [s \in Sessions |-> "none"]
    /\ outcome = [s \in Sessions |-> "none"]

Moves(s) ==
    LET move == <<stage[s], stage'[s]>> IN
    \/ stage'[s] = stage[s] /\ outcome'[s] = outcome[s]
    \/ move \in Advance \cup Forget /\ outcome'[s] = outcome[s]
    \/ move \in Ending /\ outcome'[s] \in Outcomes

Next ==
    /\ stage' \in [Sessions -> Stages]
    /\ outcome' \in [Sessions -> Outcomes \cup {"none"}]
    /\ \A s \in Sessions : Moves(s)

Spec == Init /\ [][Next]_<<stage, outcome>>
=============================================================================
