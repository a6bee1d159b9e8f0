----------------------------- MODULE ModemLink -----------------------------
(***************************************************************************)
(* modem/at_interface.py, serial_client.py and sms_trigger.py: coroutines  *)
(* that send AT commands, under _command_lock, and SMS, without it, over   *)
(* one serial port.  Each step runs from one await to the next; reads run  *)
(* on executor threads, and one abandoned by wait_for still takes bytes.   *)
(* The modem is external: it answers in order, late or never; unsolicited  *)
(* lines, which only add data to an answer, are left out.                  *)
(***************************************************************************)
EXTENDS Integers, FiniteSets, Sequences, SequencesExt

CONSTANTS
    Callers,      \* coroutines using the modem
    Nobody,
    Setups        \* bound: for each behaviour, retry_count and the calls each caller makes

ASSUME ModemLinkAssumption ==
    /\ Nobody \notin Callers
    /\ \A s \in Setups : /\ s.retries \in Nat
                         /\ s.calls \in [Callers -> Seq({"command", "sms"})]

VARIABLES
    setup,      \* the setup of this behaviour
    line,       \* external: what the modem sent and nobody has read
    queue,      \* external: what was written and the modem has not acted on
    text,       \* external: after a prompt, the modem takes anything as the message
    garbled,    \* external: and it took something that was none
    lock,       \* who holds _command_lock
    buffer,     \* SerialClient._read_buffer
    orphans,    \* reads given up by wait_for, still on their threads
    pduMode,    \* _pdu_mode_configured
    call,       \* what each caller is doing
    accepted,   \* history: messages the network took, each <<caller, number of the call>>
    reported,   \* history: SMS calls that returned success
    disturbed,  \* history: a read timed out, the port failed, or an SMS was sent
    stray       \* history: before that, a command ended without its own final result code

modem == <<text, garbled, accepted>>
history == <<reported, disturbed, stray>>
modemLinkVars == <<setup, line, queue, modem, lock, buffer, orphans, pduMode, call, history>>

Item(is, id) == [is |-> is, id |-> id]
Id(c) == <<c, call[c].number>>

\* attempt is 0 in an AT command and counts the attempts at an SMS.
NoCall(n, result) ==
    [at |-> "idle", sms |-> FALSE, number |-> n, attempt |-> 0, got |-> <<>>,
     result |-> result]

ModemLinkInit ==
    /\ setup \in Setups
    /\ line = <<>> /\ queue = <<>> /\ text = FALSE /\ garbled = FALSE
    /\ lock = Nobody
    /\ buffer = <<>>
    /\ orphans = 0
    /\ pduMode = FALSE
    /\ call = [c \in Callers |-> NoCall(0, "none")]
    /\ accepted = <<>>
    /\ reported = 0
    /\ disturbed = FALSE
    /\ stray = FALSE

-----------------------------------------------------------------------------
(* The modem.  OK and what ends its line are items of their own, since a    *)
(* read may return between them; "ok" is OK or ERROR, whose patterns are of *)
(* one form, and "error" a +CME or +CMS ERROR line.                         *)

Says(items) == line' = line \o items
Acts == queue # <<>> /\ queue' = Tail(queue)
hostVars == <<setup, lock, buffer, orphans, pduMode, call, history>>

ModemAnswers ==
    /\ Acts /\ ~text /\ Head(queue).is = "command"
    /\ LET id == Head(queue).id
       IN  \/ Says(<<Item("ok", id), Item("crlf", id)>>)
           \/ Says(<<Item("error", id)>>)
           \/ UNCHANGED line
    /\ UNCHANGED <<modem, hostVars>>

ModemPrompts ==
    /\ Acts /\ ~text /\ Head(queue).is = "cmgs"
    /\ \/ Says(<<Item("prompt", Head(queue).id)>>) /\ text' = TRUE
       \/ Says(<<Item("error", Head(queue).id)>>) /\ UNCHANGED text
       \/ UNCHANGED <<line, text>>
    /\ garbled' = FALSE
    /\ UNCHANGED <<accepted, hostVars>>

ModemTakesText ==
    /\ Acts /\ text
    /\ CASE Head(queue).is = "esc" -> text' = FALSE /\ UNCHANGED <<line, garbled, accepted>>
         [] Head(queue).is \in {"command", "cmgs"} ->
                garbled' = TRUE /\ UNCHANGED <<line, text, accepted>>
         [] OTHER ->
                /\ text' = FALSE
                /\ \/ /\ ~garbled
                      /\ accepted' = Append(accepted, Head(queue).id)
                      /\ Says(<<Item("cmgs", Head(queue).id), Item("crlf", Head(queue).id)>>)
                   \/ Says(<<Item("error", Head(queue).id)>>) /\ UNCHANGED accepted
                /\ UNCHANGED garbled
    /\ UNCHANGED hostVars

\* A message or an escape that comes when no prompt is open.
ModemIgnores ==
    /\ Acts /\ ~text /\ Head(queue).is \in {"pdu", "esc"}
    /\ Says(<<Item("error", Head(queue).id)>>) \/ UNCHANGED line
    /\ UNCHANGED <<modem, hostVars>>

-----------------------------------------------------------------------------
(* The host. *)

At(c, where) == call[c].at = where
Goes(c, where) == call' = [call EXCEPT ![c].at = where]
Written(is, c) == queue' = Append(queue, Item(is, Id(c)))

\* A read takes the first of the bytes that have come.
Reads(n) == line' = SubSeq(line, n + 1, Len(line))
Taken(n) == SubSeq(line, 1, n)

\* read_available() of what follows in `rec`: it waits only if bytes have come.
Flushes(c, rec) ==
    /\ buffer' = <<>>
    /\ call' = [call EXCEPT ![c] =
                   [rec EXCEPT !.got = <<>>, !.at = IF line = <<>> THEN "write" ELSE "flush"]]

Call(c) ==
    /\ At(c, "idle") /\ call[c].number < Len(setup.calls[c])
    /\ LET sms == setup.calls[c][call[c].number + 1] = "sms"
           new == [NoCall(call[c].number + 1, "none") EXCEPT !.sms = sms]
       IN  IF sms /\ pduMode
             THEN Flushes(c, [new EXCEPT !.attempt = 1])
             ELSE call' = [call EXCEPT ![c] = [new EXCEPT !.at = "lock"]] /\ UNCHANGED buffer
    /\ UNCHANGED <<setup, line, queue, modem, lock, orphans, pduMode, history>>

(* Mutant: the lock is not waited for. *)
AcquireAnyway(c) ==
    /\ At(c, "lock")
    /\ lock' = c
    /\ Flushes(c, call[c])
    /\ UNCHANGED <<setup, line, queue, modem, orphans, pduMode, history>>

Acquire(c) ==
    /\ At(c, "lock") /\ lock = Nobody
    /\ lock' = c
    /\ Flushes(c, call[c])
    /\ UNCHANGED <<setup, line, queue, modem, orphans, pduMode, history>>

Flushed(c) ==
    /\ At(c, "flush")
    /\ line' = <<>>
    /\ Goes(c, "write")
    /\ UNCHANGED <<setup, queue, modem, lock, buffer, orphans, pduMode, history>>

Write(c) ==
    /\ At(c, "write")
    /\ IF call[c].attempt = 0
         THEN Written("command", c) /\ Goes(c, "read") /\ UNCHANGED disturbed
         ELSE Written("cmgs", c) /\ Goes(c, "prompt") /\ disturbed' = TRUE
    /\ UNCHANGED <<setup, line, modem, lock, buffer, orphans, pduMode, reported, stray>>

\* The lock is released; ensure_pdu_mode() goes on to the SMS, or raises.
CommandEnds(c, result, rec) ==
    /\ lock' = Nobody
    /\ IF rec.sms /\ result = "ok"
         THEN pduMode' = TRUE /\ Flushes(c, [rec EXCEPT !.attempt = 1])
         ELSE call' = [call EXCEPT ![c] = NoCall(rec.number, result)] /\ UNCHANGED <<buffer, pduMode>>

Kinds(got) == {got[i].is : i \in 1..Len(got)}

\* _is_response_complete: "^OK$" matches only what ends with OK, before its line end.
Complete(got) == got # <<>> /\ (Last(got).is \in {"ok", "cmgs"} \/ "error" \in Kinds(got))

HasOwn(c, got) == \E i \in 1..Len(got) : got[i].id = Id(c) /\ got[i].is \in {"ok", "error"}

ReadAnswer(c) ==
    /\ At(c, "read") /\ call[c].attempt = 0
    /\ \E n \in 1..Len(line) :
           LET got == call[c].got \o Taken(n)
           IN  /\ Reads(n)
               /\ IF Complete(got)
                    THEN /\ CommandEnds(c, IF "error" \in Kinds(got) THEN "error" ELSE "ok", call[c])
                         /\ stray' = (stray \/ (~disturbed /\ ~HasOwn(c, got)))
                    ELSE /\ call' = [call EXCEPT ![c].got = got]
                         /\ UNCHANGED <<lock, buffer, pduMode, stray>>
    /\ UNCHANGED <<setup, queue, modem, orphans, reported, disturbed>>

\* _wait_for_prompt: read_until(b">") into the shared buffer.
ReadPrompt(c) ==
    /\ At(c, "prompt")
    /\ \E n \in 0..Len(line) :
           LET all == buffer \o Taken(n)
               i == SelectInSeq(all, LAMBDA item : item.is = "prompt")
           IN  /\ n = 0 <=> "prompt" \in Kinds(buffer)
               /\ Reads(n)
               /\ buffer' = SubSeq(all, i + 1, Len(all))
               /\ IF i > 0 THEN Goes(c, "text") ELSE UNCHANGED call
    /\ UNCHANGED <<setup, queue, modem, lock, orphans, pduMode, history>>

PromptTimesOut(c) ==
    /\ At(c, "prompt")
    /\ buffer' = <<>>
    /\ Goes(c, "escape")
    /\ UNCHANGED <<setup, line, queue, modem, lock, orphans, pduMode, history>>

\* SMSTriggerError: another attempt after retry_delay, or out.
AttemptFails(c) ==
    call' = [call EXCEPT ![c] = IF call[c].attempt <= setup.retries
                                  THEN [call[c] EXCEPT !.at = "sleep", !.got = <<>>]
                                  ELSE NoCall(call[c].number, "failed")]

Escape(c) ==
    /\ At(c, "escape")
    /\ Written("esc", c)
    /\ AttemptFails(c)
    /\ UNCHANGED <<setup, line, modem, lock, buffer, orphans, pduMode, history>>

WritePdu(c) ==
    /\ At(c, "text")
    /\ Written("pdu", c)
    /\ Goes(c, "read")
    /\ UNCHANGED <<setup, line, modem, lock, buffer, orphans, pduMode, history>>

(* Mutant: any OK is taken for the answer to the message. *)
SentAnyOk(got) == Kinds(got) \cap {"cmgs", "ok"} # {}

Sent(got) == "cmgs" \in Kinds(got)

\* What it has read until then decides nothing.
ReadSent(c) ==
    /\ At(c, "read") /\ call[c].attempt > 0
    /\ \E n \in 1..Len(line) :
           /\ Reads(n)
           /\ reported' = IF Sent(Taken(n)) THEN reported + 1 ELSE reported
           /\ call' = IF Sent(Taken(n)) THEN [call EXCEPT ![c] = NoCall(@.number, "ok")]
                      ELSE IF "error" \in Kinds(Taken(n))
                        THEN [call EXCEPT ![c] = NoCall(@.number, "error")]
                      ELSE call
    /\ UNCHANGED <<setup, queue, modem, lock, buffer, orphans, pduMode, disturbed, stray>>

Retry(c) ==
    /\ At(c, "sleep")
    /\ Flushes(c, [call[c] EXCEPT !.attempt = @ + 1])
    /\ UNCHANGED <<setup, line, queue, modem, lock, orphans, pduMode, history>>

\* The deadline passes; the read wait_for gives up may still be on its thread.
Deadline(c) ==
    /\ At(c, "read")
    /\ orphans' \in {orphans, 1}
    /\ disturbed' = TRUE
    /\ IF call[c].attempt = 0
         THEN CommandEnds(c, "timeout", call[c])
         ELSE AttemptFails(c) /\ UNCHANGED <<lock, buffer, pduMode>>
    /\ UNCHANGED <<setup, line, queue, modem, reported, stray>>

OrphanEnds ==
    /\ orphans = 1
    /\ orphans' = 0
    /\ \E n \in 0..Len(line) : Reads(n)
    /\ UNCHANGED <<setup, queue, modem, lock, buffer, pduMode, call, history>>

\* SerialPortError: it ends a command or an SMS, but not the wait for a prompt.
PortFails(c) ==
    /\ call[c].at \in {"write", "read", "text", "escape"}
    /\ disturbed' = TRUE
    /\ IF call[c].attempt = 0
         THEN CommandEnds(c, "failed", call[c])
         ELSE /\ call' = [call EXCEPT ![c] = NoCall(call[c].number, "failed")]
              /\ UNCHANGED <<lock, buffer, pduMode>>
    /\ UNCHANGED <<setup, line, queue, modem, orphans, reported, stray>>

Coroutine(c) ==
    \/ Call(c) \/ Acquire(c) \/ Flushed(c) \/ Write(c) \/ ReadAnswer(c) \/ ReadPrompt(c)
    \/ PromptTimesOut(c) \/ Escape(c) \/ WritePdu(c) \/ ReadSent(c) \/ Retry(c) \/ Deadline(c)
    \/ PortFails(c)

ModemActs == ModemAnswers \/ ModemPrompts \/ ModemTakesText \/ ModemIgnores

ModemLinkNext == ModemActs \/ OrphanEnds \/ \E c \in Callers : Coroutine(c)

ModemLinkSpec == ModemLinkInit /\ [][ModemLinkNext]_modemLinkVars

-----------------------------------------------------------------------------
(* Every variable has its type, and _command_lock is held just while a       *)
(* command is under way, however commands end.                               *)
ModemLinkTypeOK ==
    /\ \A i \in 1..Len(line) : line[i].is \in {"ok", "crlf", "error", "prompt", "cmgs"}
    /\ \A i \in 1..Len(queue) : queue[i].is \in {"command", "cmgs", "pdu", "esc"}
    /\ text \in BOOLEAN /\ garbled \in BOOLEAN
    /\ lock \in Callers \cup {Nobody} /\ orphans \in {0, 1} /\ pduMode \in BOOLEAN
    /\ \A c \in Callers :
           /\ call[c].at \in {"idle", "lock", "flush", "write", "read", "prompt", "text", "escape",
                              "sleep"}
           /\ call[c].number \in 0..Len(setup.calls[c])
           /\ call[c].attempt \in 0..setup.retries + 1
           /\ lock = c <=> call[c].attempt = 0 /\ call[c].at \in {"flush", "write", "read"}

(* While no read has timed out, no port failed and no SMS been sent, the     *)
(* answer a command returns holds its own final result code: the lock and   *)
(* the flush keep the callers' answers apart.                               *)
AnswerMatches == ModemLinkTypeOK /\ ~stray

(* send_raw_pdu() reports no more successes than messages the network took,  *)
(* whatever late prompts and answers its retries and the other callers'      *)
(* commands leave on the line.                                              *)
SmsBacked == reported <= Len(accepted)

(* One send_raw_pdu() makes at most retry_count + 1 copies of its message.   *)
SmsCopies ==
    \A i \in 1..Len(accepted) :
        Cardinality({j \in 1..Len(accepted) : accepted[j] = accepted[i]}) <= setup.retries + 1

(* The messages of send_raw_pdu(): as reported, and no more copies.          *)
SmsSound == SmsBacked /\ SmsCopies

(* "Check if response is complete (ends with OK, ERROR, etc.)": no command  *)
(* goes on reading when it has an OK line and its line end.                  *)
OkIsSeen ==
    \A c \in Callers :
        call[c].at = "read" /\ call[c].attempt = 0 =>
            ~\E i \in 1..Len(call[c].got) - 1 :
                 call[c].got[i].is = "ok" /\ call[c].got[i + 1].is = "crlf"
=============================================================================
