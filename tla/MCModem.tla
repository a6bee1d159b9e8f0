------------------------------ MODULE MCModem ------------------------------
(* Modems and phones, part by part: the AT link, the modems that come and go,   *)
(* the modem controller with what it opens, the phones that come and go, a      *)
(* trigger put into a phone, and the profiles kept of either. They share no     *)
(* state: a behaviour picks one and leaves the others in their initial state.   *)
(* The instance: two callers of one modem in four setups; two ports, one of     *)
(* them with USB ids of no known vendor; a phone with two users of its          *)
(* controller, two senders of a trigger and two readers of a profile.           *)
EXTENDS ModemLink, ModemWatch, ModemControl, PhoneWatch, TLC

VARIABLE part  \* the part this behaviour runs

modemVars == <<modemLinkVars, watchVars, controlVars>>
phoneSideVars == <<phoneVars, triggerVars, cacheVars>>
suiteVars == <<part, modemVars, phoneSideVars>>

\* One initial state is enough of a part that does not run.
Init ==
    /\ part \in {"link", "watch", "control", "network", "diagnostics", "phones", "trigger", "cache"}
    /\ ModemLinkInit /\ WatchInit /\ ControlInit /\ PhoneInit /\ TriggerInit /\ CacheInit
    /\ part # "link" => setup = CHOOSE s \in Setups : TRUE
    /\ part # "watch" => plugged = {}
    /\ part # "phones" => attached = Absent
    /\ part # "trigger" => withAt
    /\ part # "cache" => kind = "phone"

LinkStep == part = "link" /\ ModemLinkNext /\ UNCHANGED <<part, watchVars, controlVars, phoneSideVars>>
WatchStep == part = "watch" /\ WatchNext /\ UNCHANGED <<part, modemLinkVars, controlVars, phoneSideVars>>
ControlStep ==
    /\ \/ part = "control" /\ ControlNext
       \/ part = "network" /\ NetworkManagerNext
       \/ part = "diagnostics" /\ DiagnosticNext
    /\ UNCHANGED <<part, modemLinkVars, watchVars, phoneSideVars>>
PhoneStep ==
    part = "phones" /\ PhoneNext /\ UNCHANGED <<part, modemVars, triggerVars, cacheVars>>
TriggerStep ==
    part = "trigger" /\ TriggerNext /\ UNCHANGED <<part, modemVars, phoneVars, cacheVars>>
CacheStep ==
    part = "cache" /\ CacheNext /\ UNCHANGED <<part, modemVars, phoneVars, triggerVars>>

Next == LinkStep \/ WatchStep \/ ControlStep \/ PhoneStep \/ TriggerStep \/ CacheStep

Spec == Init /\ [][Next]_suiteVars
FairSpec == Spec /\ (part = "watch" => WatchFairness)

-----------------------------------------------------------------------------
CONSTANTS c1, c2, p1, p2, l1, l2, none

MCCallers == {c1, c2}
MCPorts == {p1, p2}
MCModemPorts == {p1}
Setup(retries, first, second) == [retries |-> retries, calls |-> c1 :> first @@ c2 :> second]
MCSetups == {Setup(0, <<"sms">>, <<"sms">>), Setup(1, <<"command">>, <<"sms">>),
             Setup(1, <<"command", "command">>, <<"command">>),
             Setup(0, <<"command">>, <<"sms", "sms">>)}
=============================================================================
