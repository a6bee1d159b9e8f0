----------------------------- MODULE ScriptStore -----------------------------
(* The script library: ScriptManager keeps scripts and templates in memory,  *)
(* DatabaseScriptManager stores each change in the database as well while    *)
(* auto_sync is on, and ScriptsAPI serves both to the dashboard.  A command  *)
(* is the number of hex digits it writes out and the placeholders in it.     *)
EXTENDS Naturals, Sequences, FiniteSets, SequencesExt, Records

CONSTANTS
    ScriptIds, TemplateIds,
    RenderedIds,       \* RenderedIds[t]: the ids a script rendered from t may get, in order
    ScriptContents,    \* what the inputs hold: [fixed, holes]
    TemplateContents,
    ParamValues,       \* the lengths given for a placeholder, 0 when it is not given
    Absent, NoPromise,
    Directory,         \* the files of the scripts directory, sorted
    Files,             \* what the file may hold to begin with
    MaxHexLength,      \* MAX_HEX_LENGTH
    MinApduDigits      \* two digits for each of CLA, INS, P1, P2

Keys == ScriptIds \cup TemplateIds
Contents == ScriptContents \cup TemplateContents

\* A placeholder has a type, a minimum and a default, 0 when there is none.
Holes == [type : {"hex", "string"}, min : Nat, default : Nat]
Commands == [fixed : Nat, holes : Seq(Holes)]
Libraries == [Keys -> Commands \cup {Absent}]

ASSUME ScriptStoreAssumption ==
    /\ ScriptIds \cap TemplateIds = {}
    /\ \A t \in TemplateIds : \A i \in DOMAIN RenderedIds[t] : RenderedIds[t][i] \in ScriptIds
    /\ Contents \subseteq Commands /\ ParamValues \subseteq Nat
    /\ Files \subseteq Libraries /\ Directory \in Seq(Libraries)
    /\ Absent \notin Contents /\ NoPromise \notin Contents \cup {Absent}
    /\ MaxHexLength \in Nat /\ MinApduDigits \in Nat

VARIABLES
    mem,        \* the manager's dictionaries: what each id holds, or Absent
    db,         \* the tables scripts and templates
    file,       \* the YAML file that is saved and loaded
    autoSync,   \* _auto_sync
    promise,    \* history: what the last acknowledged write with auto_sync gave an id
    answer      \* the status of the request just answered, 0 when none was

scriptVars == <<mem, db, file, autoSync, promise, answer>>

NotAsked == answer' = 0

(***************************************************************************)
(* Validation and rendering, on numbers of digits                           *)
(***************************************************************************)

ValidHex(digits) == digits \in 1..MaxHexLength /\ digits % 2 = 0

\* A script has no placeholder. With placeholders allowed the minimum length is not checked.
ValidCommand(k, c) ==
    IF k \in ScriptIds THEN c.holes = <<>> /\ ValidHex(c.fixed) /\ c.fixed >= MinApduDigits
    ELSE c.fixed % 2 = 0 /\ (c.holes = <<>> => ValidHex(c.fixed))

ValidDefault(hole) ==
    hole.default > 0 /\ hole.type = "hex" => ValidHex(hole.default) /\ hole.default \div 2 >= hole.min

Valid(k, c) ==
    ValidCommand(k, c) /\ \A i \in DOMAIN c.holes : ValidDefault(c.holes[i])

ValidValue(hole, value) ==
    IF value = 0 THEN hole.default > 0
    ELSE IF hole.type = "hex" THEN ValidHex(value) /\ value \div 2 >= hole.min
    ELSE value >= hole.min

\* The digits that stand for one placeholder: a text is encoded, two digits a character.
Digits(hole, value) ==
    LET given == IF value = 0 THEN hole.default ELSE value
    IN IF hole.type = "string" THEN 2 * given ELSE given

RenderedLength(c, values) ==
    FoldLeft(LAMBDA n, i : n + Digits(c.holes[i], values[i]), c.fixed,
             [i \in DOMAIN c.holes |-> i])

\* render_template raises for a refused value and for a result that is no hex string.
CanRender(c, values) ==
    /\ \A i \in DOMAIN c.holes : ValidValue(c.holes[i], values[i])
    /\ ValidHex(RenderedLength(c, values))
RenderedScript(c, values) == [fixed |-> RenderedLength(c, values), holes |-> <<>>]

\* preview_render replaces what it can; a command is complete when no placeholder is left.
PreviewValid(c, values) ==
    /\ \A i \in DOMAIN c.holes : values[i] > 0 \/ c.holes[i].default > 0
    /\ ValidHex(RenderedLength(c, values))

MissingParams(c, values) ==
    {i \in DOMAIN c.holes : values[i] = 0 /\ c.holes[i].default = 0}

Values(c) == [DOMAIN c.holes -> ParamValues]

(***************************************************************************)
(* The database behind the manager                                          *)
(***************************************************************************)

\* _save_*_to_db and _delete_*_from_db: one transaction, which may fail and roll back.
\* The memory has been changed by then; the error goes up to the caller.
Persist(k, c, status) ==
    \/ /\ autoSync
       /\ db' = [db EXCEPT ![k] = c]
       /\ promise' = [promise EXCEPT ![k] = c]
       /\ answer' = status
    \/ /\ UNCHANGED db
       /\ promise' = [promise EXCEPT ![k] = NoPromise]
       /\ answer' = (IF autoSync THEN 500 ELSE status)

Refuse(status) ==
    answer' = status /\ UNCHANGED <<mem, db, file, autoSync, promise>>

(***************************************************************************)
(* The operations of the manager, as the API's handlers call them           *)
(***************************************************************************)

Create(k, c) ==
    \/ mem[k] # Absent /\ Refuse(409)
    \/ mem[k] = Absent /\ ~Valid(k, c) /\ Refuse(400)
    \/ /\ mem[k] = Absent /\ Valid(k, c)
       /\ mem' = [mem EXCEPT ![k] = c]
       /\ Persist(k, c, 201)
       /\ UNCHANGED <<file, autoSync>>

Update(k, c) ==
    \/ mem[k] = Absent /\ Refuse(404)
    \/ mem[k] # Absent /\ ~Valid(k, c) /\ Refuse(400)
    \/ /\ mem[k] # Absent /\ Valid(k, c)
       /\ mem' = [mem EXCEPT ![k] = c]
       /\ Persist(k, c, 200)
       /\ UNCHANGED <<file, autoSync>>

Delete(k) ==
    \/ mem[k] = Absent /\ Refuse(404)
    \/ /\ mem[k] # Absent
       /\ mem' = [mem EXCEPT ![k] = Absent]
       /\ Persist(k, Absent, 200)
       /\ UNCHANGED <<file, autoSync>>

CreateScript(k) == k \in ScriptIds /\ \E c \in ScriptContents : Create(k, c)
UpdateScript(k) == k \in ScriptIds /\ \E c \in ScriptContents : Update(k, c)
DeleteScript(k) == k \in ScriptIds /\ Delete(k)
CreateTemplate(k) == k \in TemplateIds /\ \E c \in TemplateContents : Create(k, c)
UpdateTemplate(k) == k \in TemplateIds /\ \E c \in TemplateContents : Update(k, c)
DeleteTemplate(k) == k \in TemplateIds /\ Delete(k)

\* A script that is executed is turned into bytes: an odd number of digits would raise.
ExecuteScript(k) ==
    /\ k \in ScriptIds
    /\ \/ mem[k] = Absent /\ Refuse(404)
       \/ mem[k] # Absent /\ Refuse(IF mem[k].fixed % 2 = 0 THEN 200 ELSE 500)

\* The rendered commands are answered, and executed when the request says so.
RenderTemplate(k) ==
    /\ k \in TemplateIds
    /\ \/ mem[k] = Absent /\ Refuse(404)
       \/ /\ mem[k] # Absent
          /\ \E values \in Values(mem[k]) :
                Refuse(IF CanRender(mem[k], values) THEN 200 ELSE 400)

\* The result is stored under the first free id; no validation, no database.
RenderToScript(k) ==
    /\ k \in TemplateIds /\ mem[k] # Absent
    /\ \E values \in Values(mem[k]), i \in DOMAIN RenderedIds[k] :
        LET id == RenderedIds[k][i] IN
        /\ CanRender(mem[k], values)
        /\ mem[id] = Absent
        /\ \A j \in 1..(i - 1) : mem[RenderedIds[k][j]] # Absent
        /\ mem' = [mem EXCEPT ![id] = RenderedScript(mem[k], values)]
        /\ promise' = [promise EXCEPT ![id] = NoPromise]
    /\ UNCHANGED <<db, file, autoSync>> /\ NotAsked

(***************************************************************************)
(* Files and whole-library transfers                                        *)
(***************************************************************************)

\* What a file gives: its valid entries.
Loadable(f) == [k \in Keys |-> IF f[k] # Absent /\ Valid(k, f[k]) THEN f[k] ELSE Absent]

\* Entries whose id the memory knows are skipped.
Over(under, loaded) == [k \in Keys |-> IF under[k] # Absent THEN under[k] ELSE loaded[k]]
WithLoaded == Over(mem, Loadable(file))
Changed(new) == {k \in Keys : new[k] # mem[k]}

\* The files of a directory in the order of their names: the first to give an id keeps it.
Giving(k) == {i \in DOMAIN Directory : Loadable(Directory[i])[k] # Absent}
WithDirectory ==
    [k \in Keys |-> IF mem[k] # Absent \/ Giving(k) = {} THEN mem[k]
                    ELSE Loadable(Directory[Min(Giving(k))])[k]]
Unpromised(changed) == promise' = [k \in Keys |-> IF k \in changed THEN NoPromise ELSE promise[k]]

LoadFromFile ==
    /\ mem' = WithLoaded
    /\ Unpromised(Changed(WithLoaded))
    /\ UNCHANGED <<db, file, autoSync>> /\ NotAsked

LoadFromDirectory ==
    /\ mem' = WithDirectory
    /\ Unpromised(Changed(WithDirectory))
    /\ UNCHANGED <<db, file, autoSync>> /\ NotAsked

SaveToFile ==
    /\ file' = mem
    /\ UNCHANGED <<mem, db, autoSync, promise>> /\ NotAsked

\* clear(), and a manager made anew: its memory is empty until it is filled.
Clear ==
    /\ mem' = [k \in Keys |-> Absent]
    /\ UNCHANGED <<db, file, autoSync, promise>> /\ NotAsked

\* sync_from_database: scripts are replaced, then templates; a read that fails stops it there.
SyncFromDatabase ==
    /\ \E replaced \in {{}, ScriptIds, Keys} :
          mem' = [k \in Keys |-> IF k \in replaced THEN db[k] ELSE mem[k]]
    /\ UNCHANGED <<db, file, autoSync, promise>> /\ NotAsked

\* Mutant of Upserted: what the memory lacks is deleted.
UpsertedExactly(from) == from

\* What the database holds after sync_to_database: saved over, never deleted.
Upserted(from) == [k \in Keys |-> IF from[k] # Absent THEN from[k] ELSE db[k]]

SyncToDatabase ==
    /\ db' \in {db, Upserted(mem)}
    /\ UNCHANGED <<mem, file, autoSync, promise>> /\ NotAsked

\* Loaded entries are stored in a second step, which may fail; nothing loaded, nothing stored.
ImportYaml ==
    /\ Changed(WithLoaded) # {}
    /\ mem' = WithLoaded
    /\ db' \in {db, Upserted(WithLoaded)}
    /\ Unpromised(Changed(WithLoaded))
    /\ UNCHANGED <<file, autoSync>> /\ NotAsked

ExportYaml ==
    /\ mem' = db
    /\ file' = IF \A k \in Keys : db[k] = Absent THEN file ELSE db
    /\ UNCHANGED <<db, autoSync, promise>> /\ NotAsked

ClearDatabase ==
    /\ db' = [k \in Keys |-> Absent]
    /\ Unpromised(Keys)
    /\ UNCHANGED <<mem, file, autoSync>> /\ NotAsked

SetAutoSync ==
    /\ autoSync' = ~autoSync
    /\ UNCHANGED <<mem, db, file, promise>> /\ NotAsked

ScriptInit ==
    /\ mem = [k \in Keys |-> Absent]
    /\ db = [k \in Keys |-> Absent]
    /\ file \in Files
    /\ autoSync \in BOOLEAN
    /\ promise = [k \in Keys |-> NoPromise]
    /\ answer = 0

\* handle_request finds the handler; an unknown path is 404 there.
ApiRequest ==
    \/ \E k \in Keys :
        \/ CreateScript(k) \/ UpdateScript(k) \/ DeleteScript(k) \/ ExecuteScript(k)
        \/ CreateTemplate(k) \/ UpdateTemplate(k) \/ DeleteTemplate(k) \/ RenderTemplate(k)
    \/ Refuse(404)

ScriptNext ==
    \/ ApiRequest
    \/ \E k \in Keys : RenderToScript(k)
    \/ LoadFromFile \/ LoadFromDirectory \/ SaveToFile \/ Clear
    \/ SyncFromDatabase \/ SyncToDatabase \/ ImportYaml \/ ExportYaml \/ ClearDatabase
    \/ SetAutoSync

ScriptSpec == ScriptInit /\ [][ScriptNext]_scriptVars

(***************************************************************************)
(* Properties                                                               *)
(***************************************************************************)

ScriptTypeOK ==
    /\ mem \in Libraries /\ db \in Libraries /\ file \in Libraries
    /\ promise \in [Keys -> Commands \cup {Absent, NoPromise}]
    /\ autoSync \in BOOLEAN

\* What a write acknowledged under auto_sync gave an id is what the database holds and
\* the manager serves, until a write without auto_sync or one that failed, a file or
\* rendering that adds the id again, or clear_database; syncing either way, exports and
\* a new manager keep it (DatabaseScriptManager, ScriptsAPI).
PromiseKept ==
    \A k \in Keys : promise[k] # NoPromise =>
        db[k] = promise[k] /\ mem[k] \in {promise[k], Absent}

\* Whichever way a script came into memory or database, by request, file, rendering or
\* from the other side, executing it finds whole bytes in every command
\* (execute_script, APDUCommand.to_bytes).
ScriptsRun ==
    \A k \in ScriptIds : \A c \in {mem[k], db[k]} \ {Absent} : c.fixed > 0 /\ c.fixed % 2 = 0

\* A template that renders is previewed as valid and lacks no parameter
\* (render_template, preview_render, get_missing_params).
PreviewAgrees ==
    \A k \in TemplateIds : mem[k] # Absent => \A values \in Values(mem[k]) :
        CanRender(mem[k], values) =>
            PreviewValid(mem[k], values) /\ MissingParams(mem[k], values) = {}

ScriptsKept == PromiseKept /\ ScriptsRun /\ PreviewAgrees

\* What is kept in memory, in files and in the database, scripts and all other records.
StoredSound == ScriptTypeOK /\ RecordsTypeOK /\ ScriptsKept /\ RecordsKept
=============================================================================
