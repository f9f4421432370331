----------------------------- MODULE StoreOpening -----------------------------
(***************************************************************************)
(* Opening the store (internal/memory/store.go: Open) and the first-run    *)
(* import of a legacy memories.jsonl (internal/memory/migrate.go), against *)
(* a daemon that may crash at any point, calls of zvec and of the file     *)
(* system that may fail, and the clients' Adds and Forgets while the store *)
(* is open.                                                                *)
(*                                                                         *)
(* A line of the legacy file is the id of its record; its text is the      *)
(* number of the line.  zvec keeps what was flushed; of what was upserted  *)
(* and not flushed, a crash or a Close keeps some part.                    *)
(***************************************************************************)
EXTENDS RecordKeys, Integers, Sequences

CONSTANTS
    UserTexts,      \* texts clients add
    NoRec,          \* the text of a key that has no record
    Broken,         \* a line that is not JSON
    LegacyFiles,    \* the legacy files looked at
    BatchSize,      \* migrateBatchSize
    MaxFaults       \* bound on crashes and failed calls

ASSUME FilesAssumption == LegacyFiles \subseteq Seq(Ids \cup {Broken})
ASSUME TextsAssumption == NoRec \notin Int /\ NoRec \notin UserTexts /\ UserTexts \cap Int = {}
ASSUME BrokenAssumption == Broken \notin Ids
ASSUME BoundsAssumption == BatchSize \in Nat \ {0} /\ MaxFaults \in Nat

VARIABLES
    legacy,     \* the lines of memories.jsonl
    file,       \* "there" or "migrated": under which name the file is
    coll,       \* the collection: the record under each key
    durable,    \* what of it has been flushed
    merged,     \* keys whose record Optimize has merged into the FTS index
    phase,      \* how far Open has come; "closed" when no daemon holds the store
    line,       \* the next line to import
    faults,     \* faults so far
    touched     \* history: keys a client has added or forgotten

openingVars == <<legacy, file, coll, durable, merged, phase, line, faults, touched>>

Importing == {"batch", "optimize", "rename"}
Phases == {"closed", "opened", "open"} \cup Importing

Lines == DOMAIN legacy
Records == [Keys -> UserTexts \cup Int \cup {NoRec}]

OpeningTypeOK ==
    /\ legacy \in LegacyFiles
    /\ file \in {"there", "migrated"}
    /\ coll \in Records /\ durable \in Records
    /\ merged \subseteq Keys
    /\ phase \in Phases
    /\ line \in Nat \ {0}
    /\ faults \in 0..MaxFaults
    /\ touched \subseteq Keys

Empty == [k \in Keys |-> NoRec]

OpeningInit ==
    /\ legacy \in LegacyFiles
    /\ file = "there"
    /\ coll = Empty /\ durable = Empty
    /\ merged = {}
    /\ phase = "closed"
    /\ line = 1
    /\ faults = 0
    /\ touched = {}

(* recordToDoc stores a record under sanitizePK of its id.                 *)
(* The lines from..to whose record has key k, and the last of them. *)
LinesOf(k, from, to) == {i \in Lines : i >= from /\ i <= to /\ sanitizePK(legacy[i]) = k}
Last(S) == CHOOSE i \in S : \A j \in S : j <= i

(* One Upsert of lines from..to: under each key the last line wins. *)
Upserted(from, to) ==
    [k \in Keys |-> IF LinesOf(k, from, to) = {} THEN coll[k] ELSE Last(LinesOf(k, from, to))]

BatchEnd == IF line + BatchSize - 1 > Len(legacy) THEN Len(legacy) ELSE line + BatchSize - 1

DocCount == {k \in Keys : coll[k] # NoRec}      \* only its being empty matters

Parses == \A i \in Lines : legacy[i] # Broken

(* What a Close or a crash may leave of the collection c. *)
Survivors(c) == {[k \in Keys |-> IF k \in kept THEN c[k] ELSE durable[k]] : kept \in SUBSET Keys}

CloseWith(c) ==
    /\ \E s \in Survivors(c) : coll' = s /\ durable' = s
    /\ phase' = "closed"

Fault == faults < MaxFaults /\ faults' = faults + 1

(* Open: an existing collection is opened and flushed, a new one created. *)
OpenCollection ==
    /\ phase = "closed"
    /\ phase' = "opened"
    /\ UNCHANGED <<legacy, file, coll, durable, merged, line, faults, touched>>

(* Mutant: an import that was cut short is an error of the next Open.      *)
SkipOrRefuse ==
    /\ phase = "opened"
    /\ file = "migrated" \/ DocCount # {} \/ legacy = <<>>
    /\ phase' = IF file = "there" /\ DocCount # {} THEN "closed" ELSE "open"
    /\ UNCHANGED <<legacy, file, coll, durable, merged, line, faults, touched>>

(* migrateIfNeeded: no file, or a collection with documents, or no records *)
(* in the file: nothing to do.                                             *)
SkipImport ==
    /\ phase = "opened"
    /\ \/ file = "migrated"
       \/ DocCount # {}
       \/ legacy = <<>>
    /\ phase' = "open"
    /\ UNCHANGED <<legacy, file, coll, durable, merged, line, faults, touched>>

(* Mutant: without the DocCount check.                                     *)
StartImportAnyway ==
    /\ phase = "opened"
    /\ file = "there"
    /\ Parses /\ legacy # <<>>
    /\ phase' = "batch"
    /\ line' = 1
    /\ UNCHANGED <<legacy, file, coll, durable, merged, faults, touched>>

StartImport ==
    /\ phase = "opened"
    /\ file = "there" /\ DocCount = {}
    /\ Parses /\ legacy # <<>>
    /\ phase' = "batch"
    /\ line' = 1
    /\ UNCHANGED <<legacy, file, coll, durable, merged, faults, touched>>

(* A line that does not parse: Open closes the collection and fails. *)
ParseFails ==
    /\ phase = "opened"
    /\ file = "there" /\ DocCount = {}
    /\ ~Parses
    /\ phase' = "closed"
    /\ UNCHANGED <<legacy, file, coll, durable, merged, line, faults, touched>>

UpsertBatch ==
    /\ phase = "batch"
    /\ line <= Len(legacy)
    /\ coll' = Upserted(line, BatchEnd)
    /\ merged' = {k \in merged : LinesOf(k, line, BatchEnd) = {}}
    /\ line' = BatchEnd + 1
    /\ UNCHANGED <<legacy, file, durable, phase, faults, touched>>

(* Mutant: the Flush is forgotten.                                         *)
FlushNothing ==
    /\ phase = "batch"
    /\ line > Len(legacy)
    /\ phase' = "optimize"
    /\ UNCHANGED <<legacy, file, coll, durable, merged, line, faults, touched>>

FlushImport ==
    /\ phase = "batch"
    /\ line > Len(legacy)
    /\ durable' = coll
    /\ phase' = "optimize"
    /\ UNCHANGED <<legacy, file, coll, merged, line, faults, touched>>

OptimizeImport ==
    /\ phase = "optimize"
    /\ merged' = DocCount
    /\ phase' = "rename"
    /\ UNCHANGED <<legacy, file, coll, durable, line, faults, touched>>

RenameFile ==
    /\ phase = "rename"
    /\ file' = "migrated"
    /\ phase' = "open"
    /\ UNCHANGED <<legacy, coll, durable, merged, line, faults, touched>>

(* The collection a fault finds: in the middle of an Upsert, with a part   *)
(* of the batch in it.                                                     *)
Found ==
    IF phase = "batch" /\ line <= Len(legacy)
    THEN {Upserted(line, to) : to \in (line - 1)..BatchEnd}
    ELSE {coll}

(* A call fails while the store opens (GetStats, Upsert, Flush, Optimize,  *)
(* Rename): Open closes the collection and returns the error.              *)
OpenFails ==
    /\ phase \in {"opened"} \cup Importing
    /\ Fault
    /\ \E c \in Found : CloseWith(c)
    /\ UNCHANGED <<legacy, file, merged, line, touched>>

Crash ==
    /\ phase # "closed"
    /\ Fault
    /\ \E c \in Found : CloseWith(c)
    /\ UNCHANGED <<legacy, file, merged, line, touched>>

(* Store.Add: an upsert and a flush; when the flush fails the record is in *)
(* the collection all the same.                                            *)
ClientAdds(k, t) ==
    /\ phase = "open"
    /\ coll' = [coll EXCEPT ![k] = t]
    /\ \/ durable' = coll' /\ UNCHANGED faults
       \/ Fault /\ UNCHANGED durable
    /\ merged' = merged \ {k}
    /\ touched' = touched \cup {k}
    /\ UNCHANGED <<legacy, file, phase, line>>

ClientForgets(k) ==
    /\ phase = "open"
    /\ coll[k] # NoRec
    /\ coll' = [coll EXCEPT ![k] = NoRec]
    /\ \/ durable' = coll' /\ UNCHANGED faults
       \/ Fault /\ UNCHANGED durable
    /\ merged' = merged \ {k}
    /\ touched' = touched \cup {k}
    /\ UNCHANGED <<legacy, file, phase, line>>

(* The daemon stops: Optimize, then Close. *)
CloseStore ==
    /\ phase = "open"
    /\ merged' = DocCount
    /\ CloseWith(coll)
    /\ UNCHANGED <<legacy, file, line, faults, touched>>

OpeningStep ==
    \/ OpenCollection \/ SkipImport \/ StartImport \/ ParseFails
    \/ UpsertBatch \/ FlushImport \/ OptimizeImport \/ RenameFile

OpeningNext ==
    \/ OpeningStep
    \/ OpenFails \/ Crash \/ CloseStore
    \/ \E k \in Keys :
           \/ \E t \in UserTexts : ClientAdds(k, t)
           \/ ClientForgets(k)

OpeningSpec == OpeningInit /\ [][OpeningNext]_openingVars

-----------------------------------------------------------------------------
LegacyKeys == {sanitizePK(legacy[i]) : i \in Lines}

(* Once the legacy file has its new name, every record of it that no       *)
(* client has touched is in the collection, flushed and in the FTS index,  *)
(* and of several lines with one key the last is the one: migrateIfNeeded  *)
(* renames only after Upsert, Flush and Optimize, whatever failed before   *)
(* (migrate.go).                                                           *)
MigratedWhole ==
    file = "migrated" =>
        \A k \in LegacyKeys \ touched :
            /\ durable[k] = Last(LinesOf(k, 1, Len(legacy)))
            /\ coll[k] = durable[k]
            /\ k \in merged

(* No step of opening replaces a record a client added, also not when the  *)
(* file is still there because an earlier import was cut short: the        *)
(* DocCount check of migrate.go.                                           *)
KeepsClientRecords ==
    phase \in Importing \cup {"opened"} /\ phase' # "closed" =>
        \A k \in Keys : coll[k] \in UserTexts => coll'[k] = coll[k]
ClientRecordsStand == [][KeepsClientRecords]_openingVars

(* The legacy file keeps the store from opening.                           *)
Unreadable == file = "there" /\ DocCount = {} /\ ~Parses

(* What docs/architecture.md says of the first open: the file is imported  *)
(* and renamed.  So a store that is open holds every record of the file    *)
(* that no client has touched.                                             *)
ImportedAtOpen ==
    phase = "open" => \A k \in LegacyKeys \ touched : coll[k] # NoRec
=============================================================================
