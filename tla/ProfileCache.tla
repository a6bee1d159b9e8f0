----------------------------- MODULE ProfileCache -----------------------------
(* The profiles of a phone and of a modem (phone/device_info.py and            *)
(* modem/modem_info.py): device, SIM and network, each read field by field       *)
(* with an await for every field, and kept for a while.  What the fields say is   *)
(* left out; a profile is whole when nothing failed that was to be read.          *)
EXTENDS Naturals, Sequences, FiniteSets

CONSTANTS
    Inquirers,  \* tasks
    CacheTtl,   \* time a profile is kept
    MaxAge,     \* bound: ages counted
    MaxInquiries, MaxInvalidations \* bounds

ASSUME CacheAssumption ==
    CacheTtl \in Nat /\ MaxAge \in Nat /\ CacheTtl <= MaxAge

VARIABLES
    kind,       \* "phone" or "modem"
    epoch,      \* how often the caches were invalidated
    cached,     \* section -> the profile kept
    inquiry,    \* task -> the sections it reads and how far it is
    answered,   \* history: the ages of what was answered
    inquiries   \* calls so far

cacheVars == <<kind, epoch, cached, inquiry, answered, inquiries>>

Sections == {"device", "sim", "network"}
Empty == [has |-> FALSE, age |-> 0, stored |-> 0, whole |-> TRUE]
NotReading == [at |-> 0, whole |-> TRUE]
NoInquiry == [rest |-> <<>>, refresh |-> FALSE, reads |-> [s \in Sections |-> NotReading]]

CacheInit ==
    /\ kind \in {"phone", "modem"}
    /\ epoch = 0 /\ inquiries = 0
    /\ cached = [s \in Sections |-> Empty]
    /\ inquiry = [t \in Inquirers |-> NoInquiry]
    /\ answered = {}

(***************************************************************************)
(* The fields of a section, in order; what repeats is left out.  "must": what  *)
(* fails is an exception of the call; "may": the field stays empty;         *)
(* "state": an answer other than ready ends the section with what there is. *)
(***************************************************************************)
PhoneDeviceFields == <<"must", "may">>
PhoneSimFields == <<"may", "state", "must">>
PhoneNetworkFields == <<"must", "may">>
ModemDeviceFields == <<"may", "may">>
ModemSimFields == <<"state", "may">>
ModemNetworkFields == <<"may", "may">>

FieldsOf ==
    [phone |-> [device |-> PhoneDeviceFields, sim |-> PhoneSimFields, network |-> PhoneNetworkFields],
     modem |-> [device |-> ModemDeviceFields, sim |-> ModemSimFields, network |-> ModemNetworkFields]]
Fields(section) == FieldsOf[kind][section]

\* _is_cache_valid()
IsValid(profile) == profile.has /\ profile.age < CacheTtl

\* get_device_info(), get_sim_info() and get_network_info(): the cache, or a
\* read that begins.  get_full_profile() takes the sections one after the
\* other in a phone, and all at once in a modem.
Reading(t) == {s \in Sections : inquiry[t].reads[s].at > 0}
AnswersAll(profiles) == answered' = answered \cup {p.age : p \in profiles}
Usable(refresh, sections) == {s \in sections : ~refresh /\ IsValid(cached[s])}
Takes(t, sections, rest, refresh) ==
    LET usable == Usable(refresh, sections)
    IN /\ AnswersAll({cached[s] : s \in usable})
       /\ inquiry' = [inquiry EXCEPT ![t] = [rest |-> rest, refresh |-> refresh,
             reads |-> [s \in Sections |->
                IF s \in sections \ usable THEN [NotReading EXCEPT !.at = 1] ELSE NotReading]]]
Inquires(t, sections, rest, refresh) ==
    /\ inquiry[t] = NoInquiry /\ inquiries < MaxInquiries
    /\ inquiries' = inquiries + 1
    /\ Takes(t, sections, rest, refresh)
    /\ UNCHANGED <<kind, epoch, cached>>

Get(t, section) == \E refresh \in BOOLEAN : Inquires(t, {section}, <<>>, refresh)
GetFull(t) ==
    \E refresh \in BOOLEAN :
        IF kind = "modem" THEN Inquires(t, Sections, <<>>, refresh)
        ELSE Inquires(t, {"device"}, <<"sim", "network">>, refresh)
NextSection(t) ==
    /\ Reading(t) = {} /\ inquiry[t].rest # <<>>
    /\ Takes(t, {Head(inquiry[t].rest)}, Tail(inquiry[t].rest), inquiry[t].refresh)
    /\ UNCHANGED <<kind, epoch, cached, inquiries>>
\* The call returns.
Inquired(t) ==
    /\ Reading(t) = {} /\ inquiry[t].rest = <<>> /\ inquiry[t] # NoInquiry
    /\ inquiry' = [inquiry EXCEPT ![t] = NoInquiry]
    /\ UNCHANGED <<kind, epoch, cached, answered, inquiries>>

\* Bug: a property that cannot be read is left empty.
RaisesNever(field) == FALSE

\* Whether an error of a field leaves the call.
Raises(field) == kind = "phone" /\ field \in {"must", "state"}

\* One field is read, or fails.  The last one, or a SIM that is not ready,
\* stores the profile with the time.
ReadField(t, section) ==
    LET read == inquiry[t].reads[section]
        field == Fields(section)[read.at]
        Keeps(profile) ==
            /\ cached' = [cached EXCEPT ![section] = profile]
            /\ AnswersAll({profile})
            /\ inquiry' = [inquiry EXCEPT ![t].reads[section] = NotReading]
    IN /\ section \in Reading(t)
       /\ \E works \in BOOLEAN, ends \in BOOLEAN :
            /\ IF read.at = Len(Fields(section)) THEN ends ELSE ends => field = "state"
            /\ LET now == [read EXCEPT !.whole = @ /\ (works \/ field = "may")]
               IN IF ~works /\ Raises(field)
                  THEN inquiry' = [inquiry EXCEPT ![t] = NoInquiry] /\ UNCHANGED <<cached, answered>>
                  ELSE IF ends
                  THEN Keeps([has |-> TRUE, age |-> 0, stored |-> epoch, whole |-> now.whole])
                  ELSE inquiry' = [inquiry EXCEPT ![t].reads[section] = [now EXCEPT !.at = read.at + 1]]
                       /\ UNCHANGED <<cached, answered>>
       /\ UNCHANGED <<kind, epoch, inquiries>>

InvalidateCache ==
    /\ epoch < MaxInvalidations /\ epoch' = epoch + 1
    /\ cached' = [s \in Sections |-> Empty]
    /\ UNCHANGED <<kind, inquiry, answered, inquiries>>

CacheTick ==
    /\ cached' = [s \in Sections |-> IF cached[s].has /\ cached[s].age < MaxAge
                                     THEN [cached[s] EXCEPT !.age = @ + 1] ELSE cached[s]]
    /\ UNCHANGED <<kind, epoch, inquiry, answered, inquiries>>

CacheNext ==
    \/ \E t \in Inquirers :
        \/ GetFull(t) \/ NextSection(t) \/ Inquired(t)
        \/ \E section \in Sections : Get(t, section) \/ ReadField(t, section)
    \/ InvalidateCache \/ CacheTick

CacheSpec == CacheInit /\ [][CacheNext]_cacheVars

-----------------------------------------------------------------------------
\* What is kept was stored after the last invalidate_cache(), though reads that
\* began before it go on.
StoredSince == \A s \in Sections : cached[s].has => cached[s].stored = epoch

\* A phone whose properties cannot be read leaves no half profile behind to be
\* served for the time to live; a modem does, and what it answers says so only
\* by its empty fields.
NoHalfProfile == kind = "phone" => \A s \in Sections : cached[s].whole

\* An answer out of the cache is younger than the time to live; the age of one
\* that is read now is 0.
AnsweredFresh == \A age \in answered : age = 0 \/ age < CacheTtl

CacheSound == StoredSince /\ NoHalfProfile /\ AnsweredFresh
=============================================================================
