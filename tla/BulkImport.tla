------------------------------ MODULE BulkImport ------------------------------
(***************************************************************************)
(* `memoryd init --import` (internal/importmem): a file or a directory of  *)
(* files is added to the store line by line, through Add calls that may    *)
(* fail, or take effect and be reported as failed.  An import that failed  *)
(* is started again by the user; other clients use the store meanwhile.    *)
(*                                                                         *)
(* An item is a line of a JSONL file or the body of a text file; it is     *)
(* known by its place <<file, line>>, which stands for its text too.  It   *)
(* is stored under the key of its id, and two ids may have one key.        *)
(***************************************************************************)
EXTENDS RecordKeys, Integers, Sequences, FiniteSets

CONSTANTS
    NoId,           \* a record without an id
    Blank,          \* a blank line, or a record with a blank body
    BadLine,        \* a line that is not JSON
    OthersText,     \* the text other clients add
    NoItem,         \* the text of a key without a record
    Sources,        \* what may be imported: [dir |-> BOOLEAN, files |-> files]
    MaxRuns,        \* bound on the times the import is started
    MaxBreaks       \* bound on failed calls

(* The record of a line: the id it carries, or none.                       *)
RecordLines == Ids \cup {NoId}

ASSUME ImportAssumption ==
    /\ MaxRuns \in Nat /\ MaxBreaks \in Nat
    /\ Sources \subseteq
          [dir : BOOLEAN,
           files : Seq([format : {"jsonl", "text", "unknown"},
                        items : Seq(RecordLines \cup {Blank, BadLine})])]
    /\ Blank # BadLine /\ {Blank, BadLine} \cap RecordLines = {}

VARIABLES
    source,         \* what is imported
    stored,         \* the store: the text under each key
    progress,       \* "idle", "running", "failed" or "done"
    at,             \* the item to import next: <<file, line>>
    imported, skipped,
    runs, breaks,
    changed         \* history: keys other clients touched since the import started

importVars == <<source, stored, progress, at, imported, skipped, runs, breaks, changed>>

Format(f) == source.files[f].format
Item(p) == source.files[p[1]].items[p[2]]
Places == UNION {{f} \X DOMAIN source.files[f].items : f \in DOMAIN source.files}

IsRecord(p) == Item(p) \in RecordLines

(* The id of a record without one: the path with the number of the line,   *)
(* or the path alone for a text file.  It is "import:" and a hash of them, *)
(* whose key is as good as the id: the place stands for both.  Keys may    *)
(* have places too: a line may carry the id that an import has made.       *)
stableID(p) == IF Format(p[1]) = "text" THEN <<p[1], 0>> ELSE p

(* Add stores a record under sanitizePK of its id.                         *)
KeyOf(p) == IF Item(p) = NoId THEN stableID(p) ELSE sanitizePK(Item(p))

StoreKeys == Keys \cup {KeyOf(p) : p \in {q \in Places : IsRecord(q)}}

ItemTexts == Places \cup {OthersText, NoItem}

BulkImportTypeOK ==
    /\ source \in Sources
    /\ stored \in [StoreKeys -> ItemTexts]
    /\ progress \in {"idle", "running", "failed", "done"}
    /\ at \in (Nat \ {0}) \X (Nat \ {0})
    /\ imported \in Nat /\ skipped \in Nat
    /\ runs \in 0..MaxRuns /\ breaks \in 0..MaxBreaks
    /\ changed \subseteq StoreKeys

BulkImportInit ==
    /\ source \in Sources
    /\ stored = [k \in StoreKeys |-> NoItem]
    /\ progress = "idle"
    /\ at = <<1, 1>>
    /\ imported = 0 /\ skipped = 0
    /\ runs = 0 /\ breaks = 0
    /\ changed = {}

Running == progress = "running" /\ at[1] \in DOMAIN source.files
AtItem == Running /\ Format(at[1]) # "unknown" /\ at \in Places
Onward == at' = <<at[1], at[2] + 1>>
Break == breaks < MaxBreaks /\ breaks' = breaks + 1

(* The command, run by hand: from the first item, whatever ran before.     *)
StartRun ==
    /\ progress # "running"
    /\ runs < MaxRuns
    /\ runs' = runs + 1
    /\ progress' = "running"
    /\ at' = <<1, 1>>
    /\ imported' = 0 /\ skipped' = 0
    /\ changed' = {}
    /\ UNCHANGED <<source, stored, breaks>>

(* A file of another format: passed over in a directory, counted alone.    *)
SkipFile ==
    /\ Running
    /\ Format(at[1]) = "unknown"
    /\ at' = <<at[1] + 1, 1>>
    /\ skipped' = IF source.dir THEN skipped ELSE skipped + 1
    /\ UNCHANGED <<source, stored, progress, imported, runs, breaks, changed>>

SkipItem ==
    /\ AtItem
    /\ Item(at) = Blank
    /\ Onward
    /\ skipped' = skipped + 1
    /\ UNCHANGED <<source, stored, progress, imported, runs, breaks, changed>>

AddItem ==
    /\ AtItem
    /\ IsRecord(at)
    /\ stored' = [stored EXCEPT ![KeyOf(at)] = at]
    /\ Onward
    /\ imported' = imported + 1
    /\ UNCHANGED <<source, progress, skipped, runs, breaks, changed>>

(* Mutant: an Add that fails is counted and passed over.                   *)
AddFailsOnward ==
    /\ AtItem
    /\ IsRecord(at)
    /\ Break
    /\ stored' \in {stored, [stored EXCEPT ![KeyOf(at)] = at]}
    /\ Onward
    /\ imported' = imported + 1
    /\ UNCHANGED <<source, progress, skipped, runs, changed>>

(* Add returns an error, done or not, and the import stops there.          *)
AddFails ==
    /\ AtItem
    /\ IsRecord(at)
    /\ Break
    /\ stored' \in {stored, [stored EXCEPT ![KeyOf(at)] = at]}
    /\ progress' = "failed"
    /\ UNCHANGED <<source, at, imported, skipped, runs, changed>>

DecodeFails ==
    /\ AtItem
    /\ Item(at) = BadLine
    /\ progress' = "failed"
    /\ UNCHANGED <<source, stored, at, imported, skipped, runs, breaks, changed>>

(* The path, a directory or a file cannot be read.                         *)
ReadFails ==
    /\ Running
    /\ Break
    /\ progress' = "failed"
    /\ UNCHANGED <<source, stored, at, imported, skipped, runs, changed>>

NextFile ==
    /\ Running
    /\ Format(at[1]) # "unknown" /\ at \notin Places
    /\ at' = <<at[1] + 1, 1>>
    /\ UNCHANGED <<source, stored, progress, imported, skipped, runs, breaks, changed>>

FinishRun ==
    /\ progress = "running"
    /\ at[1] \notin DOMAIN source.files
    /\ progress' = "done"
    /\ UNCHANGED <<source, stored, at, imported, skipped, runs, breaks, changed>>

(* Another client adds or forgets a record.                                *)
OtherClient(k) ==
    /\ stored' \in {[stored EXCEPT ![k] = OthersText], [stored EXCEPT ![k] = NoItem]}
    /\ changed' = changed \cup {k}
    /\ UNCHANGED <<source, progress, at, imported, skipped, runs, breaks>>

BulkImportNext ==
    \/ StartRun
    \/ SkipFile \/ SkipItem \/ AddItem \/ AddFails \/ DecodeFails \/ ReadFails
    \/ NextFile \/ FinishRun
    \/ \E k \in StoreKeys : OtherClient(k)

BulkImportSpec == BulkImportInit /\ [][BulkImportNext]_importVars

-----------------------------------------------------------------------------
Before(p, q) == p[1] < q[1] \/ (p[1] = q[1] /\ p[2] < q[2])

(* The records the current run has got past.                               *)
Passed == {p \in Places : Before(p, at) /\ Format(p[1]) # "unknown" /\ IsRecord(p)}

(* What a run that has not failed got past is in the store, whatever       *)
(* earlier runs left there: under each key the last record with that key,  *)
(* unless another client has touched it.  Of two ids with one key the      *)
(* later record stays and the earlier is lost.  The run reports an import  *)
(* for each record, the lost ones too, and is not done when a line does    *)
(* not decode (importJSONL, importText and the directory walk stop at the  *)
(* first error).                                                           *)
ImportedWhole ==
    progress \in {"running", "done"} =>
        /\ imported = Cardinality(Passed)
        /\ \A p \in Passed :
              \/ KeyOf(p) \in changed
              \/ \E q \in Passed : KeyOf(q) = KeyOf(p) /\ ~Before(q, p) /\ stored[KeyOf(p)] = q
        /\ \A p \in Places :
              Before(p, at) /\ Item(p) = BadLine => Format(p[1]) = "unknown"
=============================================================================
