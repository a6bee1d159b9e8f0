----------------------------- MODULE VirtualCard -----------------------------
(* The virtual UICC of the mobile simulator: what its answers to the        *)
(* commands of remote management do to its load files, keys and counters.   *)
EXTENDS Naturals, Sequences, FiniteSetsExt

CONSTANTS
    LoadFileAids,   \* AIDs of load files
    AppletAids,     \* AIDs of the applets of the profile
    KeyIds, KeyVersions, KeyValues,
    NoFile, NoKey, NoAid,
    MaxCommands,    \* bound on the commands of a run
    MaxLoads        \* bound on the blocks of a load file

ASSUME CardAssumption == NoAid \notin LoadFileAids /\ MaxCommands \in Nat /\ MaxLoads \in Nat

CardAids == LoadFileAids \cup AppletAids
Slots == KeyIds \X KeyVersions
EmptyKey == "empty"

VARIABLES
    loadFiles,  \* per AID: its data blocks, or NoFile
    current,    \* _current_load_file: [aid, kept]; an entry deleted is still written to
    slots,      \* per (key id, version): a key, EmptyKey or NoKey
    selectedAid,
    security,   \* the level of the last EXTERNAL AUTHENTICATE
    counts,     \* _delete_count, _install_count, _load_count, _put_key_count, _ram_command_count
    sw,         \* status of the last command
    loading,    \* history: per file, the blocks a loader had acknowledged; it loads only
                \* what it installed last, and stops when that is deleted
    orders      \* history: the key last acknowledged or refused half way, per slot

cardVars == <<loadFiles, current, slots, selectedAid, security, counts, sw, loading, orders>>

Counted == {"delete", "install", "load", "putKey", "ram"}
Ram(kind) == [counts EXCEPT ![kind] = @ + 1, !["ram"] = @ + 1]
InBounds == counts.ram < MaxCommands

ContentSame == UNCHANGED <<loadFiles, current, loading>>
KeysSame == UNCHANGED <<slots, orders>>
ChannelSame == UNCHANGED <<selectedAid, security>>

(***************************************************************************)
(* Commands that change nothing of the content                              *)
(***************************************************************************)

\* Every AID is accepted, installed or not; 3F00 selects the master file.
Select ==
    /\ selectedAid' \in CardAids \cup {NoAid} /\ sw' = "9000"
    /\ UNCHANGED <<security, counts>> /\ ContentSame /\ KeysSame

Refused ==
    /\ sw' \in {"6A82", "6A86", "6700", "6D00"}
    /\ UNCHANGED counts /\ ContentSame /\ KeysSame /\ ChannelSame

\* Nothing ever leaves a response to be fetched.
GetResponse ==
    /\ sw' = "6985"
    /\ UNCHANGED counts /\ ContentSame /\ KeysSame /\ ChannelSame

GetStatus ==
    /\ sw' = IF AppletAids = {} THEN "6A82" ELSE "9000"
    /\ UNCHANGED counts /\ ContentSame /\ KeysSame /\ ChannelSame

\* The cryptogram of the host is not looked at.
ExternalAuthenticate ==
    /\ security' \in 0..1 /\ sw' = "9000"
    /\ UNCHANGED <<selectedAid, counts>> /\ ContentSame /\ KeysSame

SetStatus ==
    /\ InBounds /\ counts' = [counts EXCEPT !["ram"] = @ + 1] /\ sw' = "9000"
    /\ ContentSame /\ KeysSame /\ ChannelSame

\* Counted before the data is looked at.
Malformed(kind) ==
    /\ InBounds /\ counts' = Ram(kind) /\ sw' \in {"6700", "6A80", "6A86"}
    /\ ContentSame /\ KeysSame /\ ChannelSame

\* INSTALL for install, make selectable and personalization.
InstallOther ==
    /\ InBounds /\ counts' = Ram("install") /\ sw' = "9000"
    /\ ContentSame /\ KeysSame /\ ChannelSame

(***************************************************************************)
(* Load files                                                               *)
(***************************************************************************)

\* Mutant of NewEntry: an entry of the same AID is kept.
KeptEntry(aid) == IF loadFiles[aid] = NoFile THEN <<>> ELSE loadFiles[aid]

NewEntry(aid) == <<>>

InstallForLoad(aid) ==
    /\ InBounds /\ counts' = Ram("install") /\ sw' = "9000"
    /\ loadFiles' = [loadFiles EXCEPT ![aid] = NewEntry(aid)]
    /\ current' = [aid |-> aid, kept |-> TRUE]
    /\ loading' = [f \in LoadFileAids |-> IF f = aid THEN <<>> ELSE loading[f]]
    /\ KeysSame /\ ChannelSame

\* The number of the block is not looked at; without a file the block is dropped and 9000
\* answered all the same.
Load ==
    /\ InBounds /\ counts' = Ram("load") /\ sw' = "9000"
    /\ LET block == counts.load + 1
           into == current.aid # NoAid /\ current.kept
       IN /\ into => Len(loadFiles[current.aid]) < MaxLoads
          /\ loadFiles' = IF into THEN [loadFiles EXCEPT ![current.aid] = Append(@, block)]
                          ELSE loadFiles
          /\ loading' = IF into THEN [loading EXCEPT ![current.aid] = Append(@, block)]
                        ELSE loading
    /\ UNCHANGED current /\ KeysSame /\ ChannelSame

\* An applet of the profile, or nothing at all, is deleted with 9000 and no effect.
Delete(aid) ==
    /\ InBounds /\ counts' = Ram("delete") /\ sw' = "9000"
    /\ loadFiles' = [f \in LoadFileAids |-> IF f = aid THEN NoFile ELSE loadFiles[f]]
    /\ current' = [current EXCEPT !.kept = @ /\ current.aid # aid]
    /\ loading' = [f \in LoadFileAids |-> IF f = aid THEN <<>> ELSE loading[f]]
    /\ KeysSame /\ ChannelSame

(***************************************************************************)
(* Keys                                                                     *)
(***************************************************************************)

\* What one key of a PUT KEY does: "good" is stored; the value of a "short" one is missing
\* and an empty key is stored; a "cut" one ends the command with 9000; a tag with no length
\* ends it with 6F00; another type is skipped.
KeyKinds == {"good", "short", "cut", "tagOnly", "otherType"}

Stored(entry) == IF entry.kind = "good" THEN entry.value ELSE EmptyKey

Ends(entries) == {i \in DOMAIN entries : entries[i].kind \in {"cut", "tagOnly"}}
Puts(entries) ==
    {i \in DOMAIN entries : entries[i].kind \in {"good", "short"} /\ \A j \in Ends(entries) : i < j}
Good(entries) == {i \in DOMAIN entries : entries[i].kind = "good"}

\* Every key of one command goes to the same slot: the last one stays.
PutKey(id, version, entries) ==
    /\ InBounds /\ counts' = Ram("putKey")
    /\ sw' = IF Ends(entries) # {} /\ entries[Min(Ends(entries))].kind = "tagOnly"
             THEN "6F00" ELSE "9000"
    /\ slots' = IF Puts(entries) = {} THEN slots
                ELSE [slots EXCEPT ![<<id, version>>] = Stored(entries[Max(Puts(entries))])]
    /\ orders' = [orders EXCEPT ![<<id, version>>] =
                    @ \cup {entries[i].value : i \in Good(entries)}]
    /\ ContentSame /\ ChannelSame

\* add_psk_key, called by the program the card runs in.
AddPskKey(id, version, value) ==
    /\ slots' = [slots EXCEPT ![<<id, version>>] = value]
    /\ orders' = [orders EXCEPT ![<<id, version>>] = @ \cup {value}]
    /\ UNCHANGED <<counts, sw>> /\ ContentSame /\ ChannelSame

CardInit ==
    /\ loadFiles = [f \in LoadFileAids |-> NoFile] /\ current = [aid |-> NoAid, kept |-> FALSE]
    /\ slots = [s \in Slots |-> NoKey] /\ orders = [s \in Slots |-> {}]
    /\ selectedAid = NoAid /\ security = 0 /\ sw = "9000"
    /\ counts = [kind \in Counted |-> 0]
    /\ loading = [f \in LoadFileAids |-> <<>>]

ResetUicc ==
    /\ loadFiles' = [f \in LoadFileAids |-> NoFile]
    /\ current' = [aid |-> NoAid, kept |-> FALSE]
    /\ slots' = [s \in Slots |-> NoKey] /\ orders' = [s \in Slots |-> {}]
    /\ selectedAid' = NoAid /\ security' = 0 /\ UNCHANGED sw
    /\ counts' = [kind \in Counted |-> 0]
    /\ loading' = [f \in LoadFileAids |-> <<>>]

KeyEntries == [kind : KeyKinds, value : KeyValues]

CardNext ==
    \/ Select \/ Refused \/ GetResponse \/ GetStatus \/ ExternalAuthenticate \/ SetStatus
    \/ InstallOther \/ Load \/ ResetUicc
    \/ \E kind \in {"delete", "install", "putKey"} : Malformed(kind)
    \/ \E aid \in LoadFileAids : InstallForLoad(aid)
    \/ \E aid \in CardAids : Delete(aid)
    \/ \E id \in KeyIds, version \in KeyVersions :
        \/ \E value \in KeyValues : AddPskKey(id, version, value)
        \/ \E entries \in {<<e>> : e \in KeyEntries} \cup (KeyEntries \X KeyEntries) :
            PutKey(id, version, entries)

CardSpec == CardInit /\ [][CardNext]_cardVars

(***************************************************************************)
(* Properties                                                               *)
(***************************************************************************)

CardTypeOK ==
    /\ current.aid \in LoadFileAids \cup {NoAid}
    /\ \A f \in LoadFileAids : loadFiles[f] = NoFile \/ Len(loadFiles[f]) <= MaxLoads
    /\ \A s \in Slots : slots[s] \in KeyValues \cup {EmptyKey, NoKey}

\* A load file holds exactly the blocks acknowledged since it was last installed, in their
\* order, whatever other files were installed, loaded or deleted meanwhile, refused
\* commands in between, or the same file before; a key slot holds no key but one a command
\* named for it; the counter of all commands is no less than the sum of the four
\* (VirtualUICC: _handle_install, _handle_load, _handle_delete, _handle_put_key).
CardSound ==
    /\ CardTypeOK
    /\ \A f \in LoadFileAids : loadFiles[f] # NoFile => loadFiles[f] = loading[f]
    /\ \A s \in Slots : slots[s] \in orders[s] \cup {EmptyKey, NoKey}
    /\ counts.ram >= counts.delete + counts.install + counts.load + counts.putKey
=============================================================================
