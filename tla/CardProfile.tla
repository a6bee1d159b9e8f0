---------------------------- MODULE CardProfile ----------------------------
(* Writing a profile to a card and reading one back: a sequence of SELECT,     *)
(* UPDATE BINARY and READ BINARY on the files of the PSK identity and key, the *)
(* URL, the triggers and the bearer.  The status of SELECT is not looked at.   *)
(* The manager of the card's security domains (CardDomain) works beside it and  *)
(* shares no state with it.                                                    *)
EXTENDS CardDomain, Sequences

CONSTANTS
    Profiles,       \* [psk, url, sms, poll, bip]: values or Nil; psk is [id, key]
    Length(_),      \* length of a value
    DefaultBip,     \* what reading the bearer file always gives
    Nil             \* no value; also the file selected by 3F00

FileIds == {"iccid", "pskId", "pskKey", "url", "trigger", "bip"}

VARIABLES
    present,     \* the files this card has
    zeroed,      \* unused bytes are 00 (else FF)
    channel,     \* a secure channel was given to the manager
    selectedFile,
    content,     \* per file: [value, extent]: the last value written, the most bytes in use
    saved,       \* the profile read back last, or Nil
    apply,       \* the call of apply_profile: [profile, key, verify, step]
    outcome,     \* of the last call
    keyRefused,  \* history: the card refused the key in this call
    before       \* history: content when the call began

profileVars == <<present, zeroed, channel, selectedFile, content, saved, apply, outcome,
                 keyRefused, before>>

Empty == [value |-> Nil, extent |-> 0]
NoApply == [profile |-> Nil, key |-> Nil, verify |-> FALSE, step |-> "idle"]
CardConstant == UNCHANGED <<present, zeroed, channel>>

ProfileInit ==
    /\ present \in {FileIds, FileIds \ {"pskKey"}, FileIds \ {"url"}, FileIds \ {"pskId", "bip"}}
    /\ zeroed \in BOOLEAN /\ channel \in BOOLEAN
    /\ selectedFile = Nil /\ content = [f \in FileIds |-> Empty] /\ saved = Nil
    /\ apply = NoApply /\ outcome = "none" /\ keyRefused = FALSE
    /\ before = content

\* A SELECT that fails leaves the selection where it was.
Selecting(f) == IF f \in present THEN f ELSE selectedFile

\* UPDATE BINARY at offset 0 leaves what was behind.
Written(old, v) == [value |-> v, extent |-> IF Length(v) > old.extent THEN Length(v) ELSE old.extent]

\* The text of a file: nothing but the value and zeros.
ReadsAs(f, v) ==
    /\ f # Nil /\ content[f].value = v
    /\ v # Nil => content[f].extent = Length(v)
    /\ zeroed

(***************************************************************************)
(* apply_profile                                                            *)
(***************************************************************************)

Order == <<"iccid", "pskId", "pskKey", "pskCheck", "url", "urlCheck", "sms", "poll",
           "triggerCheck", "bip", "bipCheck", "done">>
Position(step) == CHOOSE i \in 1..Len(Order) : Order[i] = step
\* Whether the profile has the part that this step is about.
HasPart(p, step) ==
    CASE step \in {"pskId", "pskKey", "pskCheck"} -> p.psk # Nil
      [] step \in {"url", "urlCheck"} -> p.url # Nil
      [] step = "sms" -> p.sms # Nil
      [] step = "poll" -> p.poll # Nil
      [] step = "triggerCheck" -> p.sms # Nil \/ p.poll # Nil \/ p.trigger
      [] step \in {"bip", "bipCheck"} -> p.bip # Nil
      [] OTHER -> TRUE
Wanted(step) ==
    /\ HasPart(apply.profile, step)
    /\ step \in {"pskCheck", "urlCheck", "triggerCheck", "bipCheck"} => apply.verify
\* The step after this one.
Following(step) ==
    LET later == {i \in Position(step) + 1..Len(Order) : Wanted(Order[i])}
    IN Order[CHOOSE i \in later : \A j \in later : i <= j]

AtStep(step) == apply.step = step
Continue == /\ apply' = [apply EXCEPT !.step = Following(@)]
            /\ UNCHANGED outcome
Fail == apply' = NoApply /\ outcome' = "failed"
\* The link fails, before or after the selection: nothing is written.
LinkFails(f) ==
    /\ Fail /\ selectedFile' \in {selectedFile, Selecting(f)} /\ UNCHANGED <<content, keyRefused>>

Begin(p, key, verify) ==
    /\ AtStep("idle")
    /\ apply' = [profile |-> p, key |-> key, verify |-> verify, step |-> "iccid"]
    /\ outcome' = "none" /\ keyRefused' = FALSE /\ before' = content
    /\ UNCHANGED <<selectedFile, content, saved>> /\ CardConstant

\* 3F00 and the file of the ICCID are selected and ten bytes read; a profile with a PSK and
\* no key at all ends here.
ReadIccid ==
    /\ AtStep("iccid")
    /\ selectedFile' = IF "iccid" \in present THEN "iccid" ELSE Nil
    /\ UNCHANGED <<content, keyRefused>>
    /\ \/ selectedFile' = "iccid"
          /\ (apply.profile.psk # Nil => apply.profile.psk.key # Nil \/ apply.key # Nil)
          /\ Continue
       \/ Fail

\* One update of the file for this step, or of whatever is selected if that is missing; the
\* card refuses one without data.
Put(f, v) ==
    LET target == Selecting(f) IN
    /\ selectedFile' = target
    /\ target # Nil /\ v # Nil /\ content' = [content EXCEPT ![target] = Written(@, v)]

WriteIdentity ==
    /\ AtStep("pskId")
    /\ \/ Put("pskId", apply.profile.psk.id) /\ Continue /\ UNCHANGED keyRefused
       \/ LinkFails("pskId")

\* psk_key takes precedence over the key of the profile.
KeyUsed == IF apply.key # Nil THEN apply.key ELSE apply.profile.psk.key

\* Without a secure channel the identity stays written.  The response of the channel is not
\* looked at.
WriteKey ==
    /\ AtStep("pskKey")
    /\ \/ channel /\ Put("pskKey", KeyUsed) /\ Continue /\ UNCHANGED keyRefused
       \/ /\ channel /\ selectedFile' = Selecting("pskKey") /\ keyRefused' = TRUE
          /\ UNCHANGED content /\ Continue
       \/ ~channel /\ Fail /\ UNCHANGED <<selectedFile, content, keyRefused>>
       \/ channel /\ LinkFails("pskKey")

CheckIdentity ==
    /\ AtStep("pskCheck")
    /\ \/ /\ selectedFile' = Selecting("pskId")
          /\ IF ReadsAs(selectedFile', apply.profile.psk.id) THEN Continue ELSE Fail
          /\ UNCHANGED <<content, keyRefused>>
       \/ LinkFails("pskId")

\* A URL that came from a file is a text and has no .url: an error; so is an invalid one.
WriteUrl ==
    /\ AtStep("url")
    /\ \/ apply.profile.url.valid /\ Put("url", apply.profile.url) /\ Continue /\ UNCHANGED keyRefused
       \/ LinkFails("url")

\* parse() gives one TLV where a list is iterated: its tag is primitive, the list is empty
\* and every reading of the URL fails.
CheckUrl == AtStep("urlCheck") /\ LinkFails("url")

WriteSms ==
    /\ AtStep("sms")
    /\ \/ Put("trigger", apply.profile.sms) /\ Continue /\ UNCHANGED keyRefused
       \/ LinkFails("trigger")

\* Written over the SMS trigger, at the same offset of the same file.
WritePoll ==
    /\ AtStep("poll")
    /\ \/ Put("trigger", apply.profile.poll) /\ Continue /\ UNCHANGED keyRefused
       \/ LinkFails("trigger")

\* What was read of the triggers or the bearer is not compared.
CheckRead(step, f) ==
    /\ AtStep(step)
    /\ \/ selectedFile' = Selecting(f) /\ Continue /\ UNCHANGED <<content, keyRefused>>
       \/ LinkFails(f)

WriteBip ==
    /\ AtStep("bip")
    /\ \/ Put("bip", apply.profile.bip) /\ Continue /\ UNCHANGED keyRefused
       \/ LinkFails("bip")

Return ==
    /\ AtStep("done") /\ apply' = [apply EXCEPT !.step = "returned"] /\ outcome' = "applied"
    /\ UNCHANGED <<selectedFile, content, keyRefused>>

Close ==
    /\ AtStep("returned") /\ apply' = NoApply
    /\ UNCHANGED <<outcome, selectedFile, content, keyRefused>>

ApplyStep ==
    /\ \/ ReadIccid \/ WriteIdentity \/ WriteKey \/ CheckIdentity \/ WriteUrl \/ CheckUrl
       \/ WriteSms \/ WritePoll \/ CheckRead("triggerCheck", "trigger")
       \/ WriteBip \/ CheckRead("bipCheck", "bip") \/ Return \/ Close
    /\ UNCHANGED <<saved, before>> /\ CardConstant

(***************************************************************************)
(* save_profile                                                             *)
(***************************************************************************)

\* Each part is read on its own, an error giving none: an identity, never a URL, a trigger
\* with nothing in it, the default bearer.  Keys cannot be read.
SaveProfile ==
    /\ AtStep("idle") /\ "iccid" \in present
    /\ LET f == IF "pskId" \in present THEN "pskId" ELSE "iccid"
           readable == zeroed /\ (content[f].value = Nil \/ content[f].extent = Length(content[f].value))
       IN saved' \in {[psk |-> IF readable THEN [id |-> content[f].value, key |-> Nil] ELSE Nil,
                       url |-> Nil, sms |-> Nil, poll |-> Nil, trigger |-> trigger,
                       bip |-> IF trigger THEN DefaultBip ELSE Nil] : trigger \in BOOLEAN}
    /\ selectedFile' \in {"iccid", "pskId", "url", "trigger", "bip"} \cap present
    /\ UNCHANGED <<content, apply, outcome, keyRefused, before>> /\ CardConstant

ProfileNext ==
    \/ \E p \in Profiles \cup ({saved} \ {Nil}), verify \in BOOLEAN,
          key \in {q.psk.key : q \in {r \in Profiles : r.psk # Nil}} \cup {Nil} : Begin(p, key, verify)
    \/ ApplyStep \/ SaveProfile

ProfileSpec == ProfileInit /\ [][ProfileNext]_profileVars

(***************************************************************************)
(* Properties                                                               *)
(***************************************************************************)

ProfileTypeOK ==
    /\ selectedFile \in FileIds \cup {Nil} /\ outcome \in {"none", "failed", "applied"}
    /\ \A f \in FileIds : content[f].value # Nil => f \in present

Returned == outcome = "applied" /\ AtStep("returned")
Target(p) == [pskId |-> IF p.psk = Nil THEN Nil ELSE p.psk.id,
              pskKey |-> IF p.psk = Nil \/ keyRefused THEN Nil ELSE KeyUsed,
              url |-> p.url, bip |-> p.bip, iccid |-> Nil,
              trigger |-> IF p.poll # Nil THEN p.poll ELSE p.sms]

\* On a card that has all the files, a profile applied without an error is on the card: each
\* part in its own file (of two triggers the polling one), the key too unless the card
\* refused it, and the files of parts the profile does not have are as they were.  On any
\* card a verified identity is in its file
\* (ProfileManager.apply_profile; PSKConfig, URLConfig, TriggerConfig, BIPConfig .configure).
ProfileSound ==
    /\ ProfileTypeOK
    /\ Returned =>
        /\ present = FileIds =>
            \A f \in FileIds : LET v == Target(apply.profile)[f] IN
                IF v = Nil THEN content[f] = before[f] ELSE content[f].value = v
        /\ apply.verify /\ apply.profile.psk # Nil /\ "pskId" \in present =>
            apply.profile.url # Nil \/ content["pskId"].value = apply.profile.psk.id

\* What the managers of a card believe and leave on it.
ManagedCardSound == DomainSound /\ ProfileSound
=============================================================================
