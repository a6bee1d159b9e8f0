----------------------------- MODULE PhoneTrigger -----------------------------
(* A trigger put into a phone (phone/sms_trigger.py): over AT commands, the     *)
(* content provider or an intent, each tried when the one before does not say    *)
(* it worked.  AT commands go the way that was found to work once                *)
(* (phone/at_interface.py), all of it as adb shell commands (phone/adb_client.py) *)
(* that time out on this side only.                                               *)
EXTENDS Naturals, FiniteSets

CONSTANTS
    Senders,    \* tasks; they share the phone
    MaxTriggers \* bound: triggers in all

ASSUME TriggerAssumption == MaxTriggers \in Nat

VARIABLES
    withAt,     \* whether Device.at was used before Device.sms
    detected,   \* _detected_method of the AT interface
    sending,    \* sender -> the step it is at, the trigger, its result
    delivered,  \* trigger -> the ways by which the phone has got it
    triggers    \* triggers so far

triggerVars == <<withAt, detected, sending, delivered, triggers>>

Ways == {"AT+CMGS", "content_provider", "intent"}
NoSending == [at |-> "idle", trigger |-> 0, result |-> "none"]

TriggerInit ==
    /\ withAt \in BOOLEAN
    /\ detected = "unknown"
    /\ sending = [s \in Senders |-> NoSending]
    /\ delivered = [n \in 1..MaxTriggers |-> {}] /\ triggers = 0

SenderAt(s, place) == sending[s].at = place
MovesOn(s, place) == sending' = [sending EXCEPT ![s].at = place]
Results(s, result) == sending' = [sending EXCEPT ![s].at = "idle", ![s].result = result]

\* A shell command: done and its output seen, done after execute() gave up, or
\* not done; any but the first is an exception.
Shell == {"done", "late", "failed"}

\* send_trigger(): the template may be missing, a parameter, or the hex be bad.
SendTrigger(s) ==
    /\ SenderAt(s, "idle") /\ triggers < MaxTriggers
    /\ triggers' = triggers + 1
    /\ \/ sending' = [sending EXCEPT ![s] = [at |-> "idle", trigger |-> triggers + 1, result |-> "failed"]]
       \/ sending' = [sending EXCEPT ![s] =
              [at |-> IF ~withAt \/ detected = "unavailable" THEN "content_provider"
                      ELSE IF detected = "unknown" THEN "detecting" ELSE "mode",
               trigger |-> triggers + 1, result |-> "none"]]
    /\ UNCHANGED <<withAt, detected, delivered>>

\* _detect_method(): a service call that answers; an exception is an answer too.
TestServiceCall(s) ==
    /\ SenderAt(s, "detecting")
    /\ \/ detected' = "service_call" /\ MovesOn(s, "mode")
       \/ MovesOn(s, "rooting") /\ UNCHANGED detected
    /\ UNCHANGED <<withAt, delivered, triggers>>

\* is_root() and root(): what they raise beyond a command error is caught by
\* nobody up to the caller of send_raw_pdu().  What is found, or not found, is
\* kept for good.
FindDeviceNode(s) ==
    /\ SenderAt(s, "rooting")
    /\ \/ Results(s, "raised") /\ UNCHANGED detected
       \/ detected' = "unavailable" /\ MovesOn(s, "content_provider")
       \/ detected' = "device_node" /\ MovesOn(s, "mode")
    /\ UNCHANGED <<withAt, delivered, triggers>>

\* send_command(): AT+CMGF=0, whatever it answers, and AT+CMGS; each of them may
\* raise, at once when another task has found no way meanwhile.
SendCommands(s) ==
    /\ SenderAt(s, "mode")
    /\ \/ detected # "unavailable" /\ MovesOn(s, "AT+CMGS")
       \/ MovesOn(s, "content_provider")
    /\ UNCHANGED <<withAt, detected, delivered, triggers>>

NextWay == [w \in {"AT+CMGS", "content_provider"} |-> IF w = "AT+CMGS" THEN "content_provider" ELSE "intent"]

\* Whether what the shell prints says that it worked.  What a phone prints is
\* not known, but a broadcast is completed whoever receives it; what is not
\* seen says nothing.
Seen(way, outcome, refused) ==
    IF outcome = "done" /\ (refused => way = "intent") THEN BOOLEAN ELSE {FALSE}

\* _send_via_at() with its message to the device, _send_via_content_provider()
\* and _send_via_intent(): an answer that does not say it worked is followed by
\* the next way, whether or not the phone has got the trigger.
SendVia(s, way) ==
    /\ SenderAt(s, way)
    /\ \E outcome \in Shell, refused \in BOOLEAN :
         /\ delivered' = IF outcome = "failed" \/ refused THEN delivered
                         ELSE [delivered EXCEPT ![sending[s].trigger] = @ \cup {way}]
         /\ \E seen \in Seen(way, outcome, refused) :
              IF seen THEN Results(s, way)
              ELSE IF way = "intent" THEN Results(s, "failed") ELSE MovesOn(s, NextWay[way])
    /\ UNCHANGED <<withAt, detected, triggers>>

TriggerNext ==
    \E s \in Senders :
        \/ SendTrigger(s) \/ TestServiceCall(s) \/ FindDeviceNode(s) \/ SendCommands(s)
        \/ \E way \in Ways : SendVia(s, way)

TriggerSpec == TriggerInit /\ [][TriggerNext]_triggerVars

-----------------------------------------------------------------------------
\* A way reported as used has delivered the trigger, the broadcast excepted,
\* and no later one was tried after it (TriggerResult.method_used of
\* send_raw_pdu): what was delivered besides are earlier ways whose answer did
\* not say so.
Later == [w \in Ways |-> CASE w = "AT+CMGS" -> Ways \ {w} [] w = "content_provider" -> {"intent"} [] OTHER -> {}]
UsedIsDelivered ==
    \A s \in Senders : sending[s].result \in Ways =>
        LET got == delivered[sending[s].trigger]
        IN sending[s].result \in got \cup {"intent"} /\ got \cap Later[sending[s].result] = {}
=============================================================================
