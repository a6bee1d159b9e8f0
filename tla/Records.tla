------------------------------- MODULE Records -------------------------------
(* The database: units of work over the repositories of devices, cards, OTA  *)
(* sessions, their logs, test results and settings; import of a file; the    *)
(* commands of `cardlink db` that change data.  One unit of work is open at  *)
(* a time (SQLite has one writer).                                           *)
EXTENDS Naturals, FiniteSets, FiniteSetsExt

CONSTANTS
    Devices, Cards, SettingKeys, OtaSessions, Tests,
    Nothing,        \* no row; a null reference
    Imports,        \* the files that can be imported: [devices, cards, settings], each a
                    \* function from ids to entries
    Stores,         \* what the database may hold to begin with
    MaxLogs,        \* bound on the log rows of a session
    MaxOps          \* bound on the operations of a behaviour

ConflictModes == {"skip", "overwrite", "merge"}
SessionStatus == {"pending", "active", "completed", "failed", "timeout"}
TestStatus == {"skipped", "passed", "failed", "error"}

\* An entry of a file is good, good with a PSK key (a card's), or has a bad value.
Entries == {"good", "keyed", "bad"}
EntriesOf(ids) == UNION {[some -> Entries] : some \in SUBSET ids}
ImportFiles ==
    [devices : EntriesOf(Devices), cards : EntriesOf(Cards), settings : EntriesOf(SettingKeys)]

\* A row is what it was, what a file gave, or half of each.
Rows == {"old", "new", "half"}
TestRow == [status : TestStatus, device : Devices \cup {Nothing}, assertions : 0..1]
SessionRow == [status : SessionStatus, device : Devices \cup {Nothing},
               card : Cards \cup {Nothing}, stale : BOOLEAN, commands : 0..MaxLogs,
               responses : 0..MaxLogs]

Tables == [devices : [Devices -> Rows \cup {Nothing}],
           cards : [Cards -> Rows \cup {Nothing}],
           keys : [Cards -> {"old", "new", Nothing}],  \* psk_key_encrypted of the cards
           settings : [SettingKeys -> Rows \cup {Nothing}],
           sessions : [OtaSessions -> SessionRow \cup {Nothing}],
           tests : [Tests -> TestRow \cup {Nothing}]]

Present(table) == {id \in DOMAIN table : table[id] # Nothing}

\* A reference is null or to a row, and a key belongs to a card: the database enforces it.
Referred(tables) ==
    /\ \A s \in Present(tables.sessions) :
        /\ tables.sessions[s].device \in Present(tables.devices) \cup {Nothing}
        /\ tables.sessions[s].card \in Present(tables.cards) \cup {Nothing}
    /\ \A t \in Present(tables.tests) :
        tables.tests[t].device \in Present(tables.devices) \cup {Nothing}
Keyed(tables) == \A c \in Cards : tables.keys[c] # Nothing => tables.cards[c] # Nothing

ASSUME RecordsAssumption ==
    /\ IsFiniteSet(Devices) /\ IsFiniteSet(Cards) /\ IsFiniteSet(SettingKeys)
    /\ Nothing \notin Rows /\ MaxLogs \in Nat
    /\ Imports \subseteq ImportFiles
    /\ Stores \subseteq Tables /\ \A tables \in Stores : Referred(tables) /\ Keyed(tables)

VARIABLES
    store,      \* what is committed
    view,       \* what the open unit of work sees
    uow,        \* "closed", "open", or "failed" once a statement has failed
    exported,   \* what the last export gave
    import,     \* history: the last import: how it ended, its counts, what was there before
    ops         \* operations done so far

recordVars == <<store, view, uow, exported, import, ops>>

NoImport == [status |-> "none", mode |-> "skip", before |-> Nothing, file |-> Nothing,
             created |-> 0, updated |-> 0, skipped |-> 0, errors |-> 0]

\* The command that imports runs alone; what came of it is remembered until the next one.
Importing == import.status \in {"devices", "cards", "settings"}

(***************************************************************************)
(* Unit of work                                                             *)
(***************************************************************************)

Enter ==
    /\ uow = "closed" /\ ~Importing
    /\ uow' = "open" /\ view' = store
    /\ import' = NoImport
    /\ UNCHANGED <<store, exported>>

\* commit: all of it or, with an error, none; in both cases the session is closed at exit.
Commit ==
    /\ uow = "open"
    /\ store' \in {store, view}
    /\ uow' = "closed" /\ view' = store'
    /\ UNCHANGED <<exported, import>>

\* __exit__ without commit, or after an error: rollback and close.
ExitRollback ==
    /\ uow # "closed"
    /\ uow' = "closed" /\ view' = store
    /\ UNCHANGED <<store, exported, import>>

Write(tables) == view' = tables /\ UNCHANGED <<store, uow, exported, import>>
Fail == uow' = "failed" /\ UNCHANGED <<store, view, exported, import>>

(***************************************************************************)
(* Repository operations                                                    *)
(***************************************************************************)

\* create(): a second row with the same key makes the flush fail.
CreateRow(table, id, row) ==
    \/ view[table][id] = Nothing /\ Write([view EXCEPT ![table][id] = row])
    \/ view[table][id] # Nothing /\ Fail

CreateDevice(d) == CreateRow("devices", d, "old")
CreateCard(c) == CreateRow("cards", c, "old")

\* set_value creates or updates; delete_by_id answers False when there is no row.
SetValue(k) == Write([view EXCEPT !.settings[k] = "old"])
DeleteKey(k) == Write([view EXCEPT !.settings[k] = Nothing])

\* A key that cannot be encrypted raises before the card is changed.
SetPsk(c) ==
    /\ view.cards[c] # Nothing
    /\ Write([view EXCEPT !.keys[c] = "new"]) \/ Fail
ClearPsk(c) == view.cards[c] # Nothing /\ Write([view EXCEPT !.keys[c] = Nothing])

\* A reference of a new row must be to a row: the foreign keys are enforced.
Known(table) == Present(view[table]) \cup {Nothing}
CreateSession(s) ==
    \E d \in Devices \cup {Nothing}, c \in Cards \cup {Nothing} :
        IF d \in Known("devices") /\ c \in Known("cards")
        THEN CreateRow("sessions", s,
                [status |-> "pending", device |-> d, card |-> c, stale |-> FALSE,
                 commands |-> 0, responses |-> 0])
        ELSE Fail

SetStatus(s, status) ==
    /\ view.sessions[s] # Nothing
    /\ Write([view EXCEPT !.sessions[s].status = status])

\* start, complete, fail and timeout do not look at the status they replace.
MoveSession(s) == \E status \in SessionStatus \ {"pending"} : SetStatus(s, status)

\* cleanup_stale: every pending session older than the cutoff times out.
CleanupStale ==
    Write([view EXCEPT !.sessions = [s \in OtaSessions |->
        IF view.sessions[s] # Nothing /\ view.sessions[s].status = "pending" /\ view.sessions[s].stale
        THEN [view.sessions[s] EXCEPT !.status = "timeout"] ELSE view.sessions[s]]])

LogCommand(s) ==
    \/ view.sessions[s] = Nothing /\ Fail
    \/ /\ view.sessions[s] # Nothing /\ view.sessions[s].commands < MaxLogs
       /\ Write([view EXCEPT !.sessions[s].commands = @ + 1])
LogResponse(s) ==
    \/ view.sessions[s] = Nothing /\ Fail
    \/ /\ view.sessions[s] # Nothing /\ view.sessions[s].responses < MaxLogs
       /\ Write([view EXCEPT !.sessions[s].responses = @ + 1])
DeleteForSession(s) ==
    /\ view.sessions[s] # Nothing
    /\ Write([view EXCEPT !.sessions[s].commands = 0, !.sessions[s].responses = 0])

\* The logs go with the session they belong to.
DeleteSession(s) == Write([view EXCEPT !.sessions[s] = Nothing])

\* References to a deleted row become null.
WithoutReference(rows, field, gone) ==
    [id \in DOMAIN rows |-> IF rows[id] # Nothing /\ rows[id][field] \in gone
                            THEN [rows[id] EXCEPT ![field] = Nothing] ELSE rows[id]]
DeleteDevice(d) ==
    Write([view EXCEPT !.devices[d] = Nothing,
                       !.sessions = WithoutReference(@, "device", {d}),
                       !.tests = WithoutReference(@, "device", {d})])
DeleteCard(c) ==
    Write([view EXCEPT !.cards[c] = Nothing, !.keys[c] = Nothing, !.sessions = WithoutReference(@, "card", {c})])
\* Mutant of DeleteAllDevices: the query leaves the references.
DeleteAllDevicesOnly == Write([view EXCEPT !.devices = [d \in Devices |-> Nothing]])

DeleteAllDevices ==
    Write([view EXCEPT !.devices = [d \in Devices |-> Nothing],
                       !.sessions = WithoutReference(@, "device", Devices),
                       !.tests = WithoutReference(@, "device", Devices)])

\* A test result starts with the assertions it was given and the default status.
CreateTest(t) ==
    \E d \in Devices \cup {Nothing}, n \in 0..1 :
        IF d \in Known("devices")
        THEN CreateRow("tests", t, [status |-> "skipped", device |-> d, assertions |-> n])
        ELSE Fail
FinishTest(t) ==
    /\ view.tests[t] # Nothing
    /\ \E status \in TestStatus : Write([view EXCEPT !.tests[t].status = status])
DeleteByRun == Write([view EXCEPT !.tests = [t \in Tests |-> Nothing]])

Operate ==
    /\ uow = "open"
    /\ \/ \E d \in Devices : CreateDevice(d) \/ DeleteDevice(d)
       \/ \E c \in Cards : CreateCard(c) \/ DeleteCard(c) \/ SetPsk(c) \/ ClearPsk(c)
       \/ \E k \in SettingKeys : SetValue(k) \/ DeleteKey(k)
       \/ \E s \in OtaSessions :
            \/ CreateSession(s) \/ MoveSession(s) \/ DeleteSession(s)
            \/ LogCommand(s) \/ LogResponse(s) \/ DeleteForSession(s)
       \/ \E t \in Tests : CreateTest(t) \/ FinishTest(t)
       \/ CleanupStale \/ DeleteAllDevices \/ DeleteByRun

\* Time passes and a session becomes older than the cutoff of the cleanups.
GrowStale ==
    /\ uow = "closed" /\ ~Importing
    /\ \E s \in Present(store.sessions) :
        store' = [store EXCEPT !.sessions[s].stale = TRUE]
    /\ view' = store' /\ import' = NoImport
    /\ UNCHANGED <<uow, exported>>

(***************************************************************************)
(* Import: a unit of work for each table, devices, cards, then settings     *)
(***************************************************************************)

\* A bad value is met after some fields have been assigned: the entry is an error and
\* an existing row is written half.
ImportRow(row, entry, mode) ==
    IF row = Nothing THEN IF entry = "bad" THEN Nothing ELSE "new"
    ELSE IF mode = "skip" THEN row
    ELSE IF entry = "bad" THEN "half" ELSE "new"

Imported(rows, entries, mode) ==
    [id \in DOMAIN rows |-> IF id \in DOMAIN entries
                            THEN ImportRow(rows[id], entries[id], mode) ELSE rows[id]]

\* An entry without a key leaves the card's key, in every mode.
ImportedKeys(cards, keys, entries, mode) ==
    [c \in Cards |-> IF c \notin DOMAIN entries \/ (cards[c] # Nothing /\ mode = "skip") THEN keys[c]
                     ELSE IF entries[c] = "keyed" THEN "new" ELSE keys[c]]

\* _import_settings has no conflict mode; a setting takes any value.
ImportedSettings(rows, entries) ==
    [k \in DOMAIN rows |-> IF k \in DOMAIN entries THEN "new" ELSE rows[k]]

Count(rows, entries, mode) ==
    LET known == DOMAIN entries \cap Present(rows)
        good == {id \in DOMAIN entries : entries[id] # "bad"}
    IN [created |-> Cardinality(good \ known),
        updated |-> IF mode = "skip" THEN 0 ELSE Cardinality(good \cap known),
        skipped |-> IF mode = "skip" THEN Cardinality(known) ELSE 0,
        errors |-> Cardinality((DOMAIN entries \ good) \ (IF mode = "skip" THEN known ELSE {}))]

CountSettings(rows, entries) ==
    [created |-> Cardinality(DOMAIN entries \ Present(rows)),
     updated |-> Cardinality(DOMAIN entries \cap Present(rows)), skipped |-> 0, errors |-> 0]

BeginImport ==
    /\ uow = "closed" /\ ~Importing
    /\ \E f \in Imports \cup {exported}, mode \in ConflictModes :
        import' = [NoImport EXCEPT !.status = "devices", !.mode = mode, !.file = f,
                                   !.before = store]
    /\ UNCHANGED <<store, view, uow, exported>>

\* One table: its commit succeeds and the next table follows, or the import raises and
\* what earlier tables committed stays.
ImportTable(table, tables, counts, next) ==
    /\ uow = "closed" /\ import.status = table
    /\ \/ /\ store' = tables
          /\ import' = [import EXCEPT !.status = next,
                !.created = @ + counts.created, !.updated = @ + counts.updated,
                !.skipped = @ + counts.skipped, !.errors = @ + counts.errors]
       \/ /\ UNCHANGED store
          /\ import' = [import EXCEPT !.status = "raised"]
    /\ view' = store'
    /\ UNCHANGED <<uow, exported>>

ImportDevices ==
    LET entries == import.file.devices IN
    ImportTable("devices",
        [store EXCEPT !.devices = Imported(@, entries, import.mode)],
        Count(store.devices, entries, import.mode), "cards")
ImportCards ==
    LET entries == import.file.cards IN
    ImportTable("cards",
        [store EXCEPT !.cards = Imported(@, entries, import.mode),
                      !.keys = ImportedKeys(store.cards, @, entries, import.mode)],
        Count(store.cards, entries, import.mode), "settings")
ImportSettings ==
    LET entries == import.file.settings IN
    ImportTable("settings",
        [store EXCEPT !.settings = ImportedSettings(@, entries)],
        CountSettings(store.settings, entries), "done")

\* export_all: devices, cards with or without their keys, and settings.
Export ==
    /\ uow = "closed" /\ ~Importing
    /\ \E includePsk \in BOOLEAN :
        exported' = [devices |-> [d \in Present(store.devices) |-> "good"],
                     cards |-> [c \in Present(store.cards) |->
                        IF includePsk /\ store.keys[c] # Nothing THEN "keyed" ELSE "good"],
                     settings |-> [k \in Present(store.settings) |-> "good"]]
    /\ import' = NoImport
    /\ UNCHANGED <<store, view, uow>>

(***************************************************************************)
(* Commands of the operator                                                 *)
(***************************************************************************)

\* `db cleanup` looks up the sessions to keep and commits.
CleanupCommand ==
    /\ uow = "closed" /\ ~Importing
    /\ import' = NoImport
    /\ UNCHANGED <<store, view, uow, exported>>

EmptyTables ==
    [devices |-> [d \in Devices |-> Nothing], cards |-> [c \in Cards |-> Nothing],
     keys |-> [c \in Cards |-> Nothing],
     settings |-> [k \in SettingKeys |-> Nothing], sessions |-> [s \in OtaSessions |-> Nothing],
     tests |-> [t \in Tests |-> Nothing]]

\* `db init --force` drops the tables and creates them.
InitForce ==
    /\ uow = "closed" /\ ~Importing
    /\ store' = EmptyTables /\ view' = EmptyTables
    /\ import' = NoImport
    /\ UNCHANGED <<uow, exported>>

RecordsInit ==
    /\ store \in Stores /\ view = store
    /\ uow = "closed"
    /\ exported = [devices |-> [d \in {} |-> "good"], cards |-> [c \in {} |-> "good"],
                  settings |-> [k \in {} |-> "good"]]
    /\ import = NoImport
    /\ ops = 0

RecordsNext ==
    \/ /\ Enter \/ Commit \/ ExitRollback \/ ImportDevices \/ ImportCards \/ ImportSettings
       /\ UNCHANGED ops
    \/ /\ ops < MaxOps /\ ops' = ops + 1
       /\ Operate \/ GrowStale \/ Export \/ BeginImport \/ CleanupCommand \/ InitForce

RecordsSpec == RecordsInit /\ [][RecordsNext]_recordVars

(***************************************************************************)
(* Properties                                                               *)
(***************************************************************************)

ImportTypes ==
    [status : {"none", "devices", "cards", "settings", "done", "raised"}, mode : ConflictModes,
     before : Tables \cup {Nothing}, file : ImportFiles \cup {Nothing},
     created : Nat, updated : Nat, skipped : Nat, errors : Nat]

RecordsTypeOK ==
    /\ store \in Tables /\ view \in Tables
    /\ uow \in {"closed", "open", "failed"}
    /\ exported \in ImportFiles /\ import \in ImportTypes

\* No row refers to a row that is gone, whatever was deleted one by one, by query or
\* with the tables (ondelete of the models, cascade of OTASession.comm_logs).
Referential == Referred(store)

\* What an import did to a table.
NewRows(table) == Cardinality(Present(store[table]) \ Present(import.before[table]))
ChangedRows(table) ==
    Cardinality({id \in Present(import.before[table]) : store[table][id] # import.before[table][id]})
EntryCount(table) == Cardinality(DOMAIN import.file[table])
GoodStored(table) ==
    \A id \in DOMAIN import.file[table] :
        import.file[table][id] # "bad" => id \in Present(store[table])

\* The counts of an import that returned are what it did: as many rows as it counts as
\* created are new, every row that changed is counted as updated or as an error, every
\* entry of the file is counted once, and every good entry has its row (import_data,
\* ImportResult).
ImportAccounted ==
    import.status = "done" =>
        /\ import.created = NewRows("devices") + NewRows("cards") + NewRows("settings")
        /\ import.updated + import.errors
              >= ChangedRows("devices") + ChangedRows("cards") + ChangedRows("settings")
        /\ import.created + import.updated + import.skipped + import.errors
              = EntryCount("devices") + EntryCount("cards") + EntryCount("settings")
        /\ GoodStored("devices") /\ GoodStored("cards") /\ GoodStored("settings")

\* No import takes a card's PSK key away, whatever the file leaves out (an export lacks
\* the keys unless asked for them), and a key has its card.
KeysKept ==
    /\ Keyed(store)
    /\ import.status # "none" => \A c \in Cards :
        import.before.keys[c] # Nothing => store.keys[c] # Nothing

RecordsKept == Referential /\ ImportAccounted /\ KeysKept
=============================================================================
