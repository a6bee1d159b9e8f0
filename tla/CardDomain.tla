----------------------------- MODULE CardDomain -----------------------------
(* The manager of security domains: what it believes is selected on the       *)
(* card, what it lists, installs and deletes.  The card is modelled by the    *)
(* answers GlobalPlatform allows it.                                          *)
EXTENDS Naturals, FiniteSets

CONSTANTS
    Isd, IsdShort,   \* the two AIDs of the issuer domain that are tried
    Domains,         \* AIDs of other security domains
    Packages,        \* AIDs that are installed and deleted
    KeySlots,        \* key versions
    NoneSelected     \* no domain

DomainAids == {Isd, IsdShort} \cup Domains \cup Packages

VARIABLES
    selectable,   \* AIDs the card knows
    locked,       \* AIDs of them that answer SELECT with a warning
    onCard,       \* the AID selected on the card
    cardPackages, \* registry of the card
    perBatch,     \* entries of the registry the card returns at once
    isIsd,        \* _is_isd_selected
    currentSd,    \* _current_sd_aid
    disturbed,    \* history: a reset, another user of the card or a warning moved the selection
    listed,       \* the last listing, what the card had and in how many batches
    answer,       \* outcome of the last call
    keysSet       \* versions with a key

domainVars == <<selectable, locked, onCard, cardPackages, perBatch, isIsd, currentSd,
                disturbed, listed, answer, keysSet>>

Outcome(result) == [result |-> result, aid |-> NoneSelected]
NoListing == [aids |-> {}, had |-> {}, batches |-> 1]
HostSame == UNCHANGED <<isIsd, currentSd, disturbed>>
CardSame == UNCHANGED <<selectable, locked, onCard, cardPackages, perBatch, keysSet>>
Fixed == UNCHANGED <<selectable, perBatch>>

DomainInit ==
    /\ selectable \in {{Isd} \cup Domains, {IsdShort} \cup Domains, Domains}
    /\ locked = {} /\ onCard \in {NoneSelected, Isd} \cap (selectable \cup {NoneSelected})
    /\ cardPackages = {} /\ perBatch \in 1..2 /\ keysSet = {}
    /\ isIsd = FALSE /\ currentSd = NoneSelected /\ disturbed = FALSE
    /\ listed = NoListing /\ answer = Outcome("none")

(***************************************************************************)
(* Selection                                                                *)
(***************************************************************************)

\* select_by_aid: 9000, the warning of a locked one, which is selected all the same, or
\* "not found".
Answered(aid) == IF aid \notin selectable THEN "6A82"
                 ELSE IF aid \in locked THEN "6283" ELSE "9000"
After(aid) == IF Answered(aid) = "6A82" THEN onCard ELSE aid
Believed(aid) == IF aid \in {Isd, IsdShort} THEN aid ELSE NoneSelected

\* select_isd with the AID it is given: the short one is tried when that is not found.
IsdTried(aid) == IF Answered(aid) = "6A82" THEN IsdShort ELSE aid
\* What the selection is after it, and whether the domain was found.
SelectsIsd(aid) == Answered(IsdTried(aid)) = "9000"

SelectIsd(aid) ==
    /\ onCard' = After(IsdTried(aid))
    /\ IF SelectsIsd(aid)
       THEN isIsd' = TRUE /\ currentSd' = IsdTried(aid) /\ disturbed' = FALSE /\ answer' = Outcome("ok")
       ELSE /\ UNCHANGED <<isIsd, currentSd>> /\ answer' = Outcome("error")
            /\ disturbed' = (disturbed \/ Answered(IsdTried(aid)) = "6283")
    /\ Fixed /\ UNCHANGED <<locked, cardPackages, keysSet, listed>>

SelectSd(aid) ==
    /\ onCard' = After(aid)
    /\ IF Answered(aid) = "9000"
       THEN /\ currentSd' = aid /\ isIsd' = (aid \in {Isd, IsdShort}) /\ disturbed' = FALSE
            /\ answer' = Outcome("ok")
       ELSE /\ UNCHANGED <<isIsd, currentSd>> /\ answer' = Outcome("error")
            /\ disturbed' = (disturbed \/ Answered(aid) = "6283")
    /\ Fixed /\ UNCHANGED <<locked, cardPackages, keysSet, listed>>

\* Mutant of SelectApplication: what was believed is kept.
SelectApplicationKeeps(aid) ==
    /\ onCard' = After(aid) /\ answer' = Outcome(Answered(aid))
    /\ Fixed /\ UNCHANGED <<locked, cardPackages, keysSet, listed, isIsd, currentSd, disturbed>>

\* The response is returned whatever its status.
SelectApplication(aid) ==
    /\ onCard' = After(aid) /\ answer' = Outcome(Answered(aid))
    /\ IF Answered(aid) = "9000" THEN currentSd' = NoneSelected /\ isIsd' = FALSE /\ disturbed' = FALSE
       ELSE UNCHANGED <<isIsd, currentSd>> /\ disturbed' = (disturbed \/ Answered(aid) = "6283")
    /\ Fixed /\ UNCHANGED <<locked, cardPackages, keysSet, listed>>

(***************************************************************************)
(* GET STATUS                                                               *)
(***************************************************************************)

Ceil(n) == (n + perBatch - 1) \div perBatch
Batches == IF cardPackages = {} THEN 1 ELSE Ceil(Cardinality(cardPackages))

\* The loop for further batches stands inside the branch for 9000, which a response that
\* announces them (6310) does not have: then the list is empty.
AppsListed == IF Batches = 1 THEN cardPackages ELSE {}
\* get_status_load_files takes the first batch and no other.
FilesListed == IF Batches = 1 THEN {cardPackages}
               ELSE {s \in SUBSET cardPackages : Cardinality(s) = perBatch}
Listing(found) == [aids |-> found, had |-> cardPackages, batches |-> Batches]

\* The issuer domain is selected first unless it is believed to be; a card on which
\* something else is selected refuses.
StatusAfterSelecting(listings) ==
    LET at == IF isIsd THEN onCard ELSE After(IsdTried(Isd))
        ok == isIsd \/ SelectsIsd(Isd)
    IN /\ onCard' = at
       /\ IF ok /\ ~isIsd THEN isIsd' = TRUE /\ currentSd' = IsdTried(Isd) /\ disturbed' = FALSE
          ELSE /\ UNCHANGED <<isIsd, currentSd>>
               /\ disturbed' = (disturbed \/ (~ok /\ Answered(IsdTried(Isd)) = "6283"))
       /\ IF ok /\ at \in {Isd, IsdShort}
          THEN listed' \in listings /\ answer' = Outcome("ok")
          ELSE answer' = Outcome("error") /\ UNCHANGED listed
       /\ Fixed /\ UNCHANGED <<locked, cardPackages, keysSet>>

GetStatusApps == StatusAfterSelecting({Listing(AppsListed)})
GetStatusLoadFiles == StatusAfterSelecting({Listing(found) : found \in FilesListed})
\* One entry, the domain itself.
GetStatusIsd == StatusAfterSelecting({listed})

(***************************************************************************)
(* Content and keys                                                         *)
(***************************************************************************)

\* Not 9000: raised, and the card has done nothing.
Refuse ==
    /\ answer' = Outcome("error") /\ HostSame /\ CardSame /\ UNCHANGED listed

Install(aid) ==
    /\ onCard \in {Isd, IsdShort} \cup Domains
    /\ cardPackages' = cardPackages \cup {aid} /\ answer' = Outcome("ok")
    /\ HostSame /\ Fixed /\ UNCHANGED <<locked, onCard, keysSet, listed>>

\* 6A88 is returned and not raised; with cascade the deletion is sent once more and its
\* failure swallowed.
Deleted(aid) == [result |-> "deleted", aid |-> aid]
DeletePackage(aid, cascade) ==
    /\ onCard \in {Isd, IsdShort} \cup Domains
    /\ cardPackages' = cardPackages \ {aid} /\ answer' = Deleted(aid)
    /\ HostSame /\ Fixed /\ UNCHANGED <<locked, onCard, keysSet, listed>>

\* A new key has version 0 on the card whatever version was asked for.
PutDomainKey(version, replace) ==
    /\ onCard \in {Isd, IsdShort} \cup Domains
    /\ replace => version \in keysSet
    /\ keysSet' = keysSet \cup {IF replace THEN version ELSE 0} /\ answer' = Outcome("ok")
    /\ HostSame /\ Fixed /\ UNCHANGED <<locked, onCard, cardPackages, listed>>

\* set_status knows only locking and terminating.
SetStatusTo(aid, state) ==
    /\ aid \in selectable /\ onCard \in {Isd, IsdShort}
    /\ IF state = "locked" THEN locked' = locked \cup {aid} /\ answer' = Outcome("ok")
       ELSE UNCHANGED locked /\ answer' = Outcome("error")
    /\ HostSame /\ Fixed /\ UNCHANGED <<onCard, cardPackages, keysSet, listed>>

StoreOrGetData == answer' = Outcome("ok") /\ HostSame /\ CardSame /\ UNCHANGED listed

\* A reset of the card, or another user of the same link.
SelectionMoves ==
    /\ onCard' \in {NoneSelected, Isd} \cap (selectable \cup {NoneSelected}) /\ disturbed' = TRUE
    /\ Fixed /\ UNCHANGED <<locked, cardPackages, keysSet, isIsd, currentSd, listed, answer>>

DomainNext ==
    \/ GetStatusApps \/ GetStatusLoadFiles \/ GetStatusIsd \/ Refuse \/ StoreOrGetData
    \/ SelectionMoves
    \/ \E aid \in {Isd, IsdShort} : SelectIsd(aid)
    \/ \E aid \in DomainAids : SelectSd(aid) \/ SelectApplication(aid)
    \/ \E aid \in Packages : Install(aid) \/ \E c \in BOOLEAN : DeletePackage(aid, c)
    \/ \E v \in KeySlots, r \in BOOLEAN : PutDomainKey(v, r)
    \/ \E aid \in DomainAids, state \in {"locked", "other"} : SetStatusTo(aid, state)

DomainSpec == DomainInit /\ [][DomainNext]_domainVars

(***************************************************************************)
(* Properties                                                               *)
(***************************************************************************)

\* The manager skips the selection of the issuer domain only when it is the domain
\* selected on the card, through failed selections, the fallback to the short AID and
\* switches to applications and back, unless something else moved the card's selection
\* since.  A listing the card gave in one batch is complete; a package deleted is gone
\* (SecureDomainManager: select_isd, select_sd, select_application, get_status_apps, delete).
DomainSound ==
    /\ isIsd /\ ~disturbed => onCard = currentSd /\ currentSd \in {Isd, IsdShort}
    /\ currentSd # NoneSelected /\ ~disturbed => onCard = currentSd
    /\ \A aid \in Packages : answer = Deleted(aid) => aid \notin cardPackages
    /\ listed.batches = 1 => listed.aids = listed.had
=============================================================================
