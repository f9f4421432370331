--------------------------- MODULE StoreToolsProofs ---------------------------
(***************************************************************************)
(* Proofs about the programs around the store: StoreOpening, for any       *)
(* legacy file, batch size and number of faults, Setup, for any number of  *)
(* kills and failed calls, BulkImport, for any files and any number of     *)
(* runs and failed calls; and that StoreTools is each of its programs, so  *)
(* that what is proved of one of them holds of the whole.                  *)
(***************************************************************************)
EXTENDS StoreTools, ExplorerProofs, ContextBuilderProofs, WellFoundedInduction,
        FiniteSetTheorems, TLAPS

(***************************************************************************)
(* The opening of the store                                                *)
(***************************************************************************)

(* What the collection is when the first n lines have been imported.       *)
ImportedTo(n) ==
    [k \in Keys |-> IF LinesOf(k, 1, n) = {} THEN NoRec ELSE Last(LinesOf(k, 1, n))]

(* The import has come to line, in a collection that was empty.            *)
ImportInOrder ==
    phase \in Importing =>
        /\ file = "there"
        /\ line <= Len(legacy) + 1
        /\ coll = ImportedTo(line - 1)

FlushedBeforeRename ==
    /\ phase \in {"optimize", "rename"} => line = Len(legacy) + 1 /\ durable = coll
    /\ phase = "rename" => merged = DocCount

Readable == file = "migrated" \/ phase \in Importing => Parses

OpeningInv == OpeningTypeOK /\ ImportInOrder /\ FlushedBeforeRename /\ Readable /\ MigratedWhole

-----------------------------------------------------------------------------
(* Lines and keys *)

(* A set of line numbers that is not empty has a last one.                 *)
LEMMA LastIsLast ==
    ASSUME NEW n \in Nat, NEW S \in SUBSET (1..n), S # {}
    PROVE  Last(S) \in S /\ \A j \in S : j <= Last(S)
<1> DEFINE T == {n - i : i \in S}
           R == OpToRel(<, Nat)
<1>1. T \subseteq Nat /\ T # {}
    <2>1. \A i \in S : n - i \in Nat
        OBVIOUS
    <2>2. PICK i \in S : TRUE
        OBVIOUS
    <2>3. n - i \in T
        BY <2>2
    <2> QED
        BY <2>1, <2>3
<1>2. PICK x \in T : \A y \in T : ~ (<<y, x>> \in R)
    <2>1. IsWellFoundedOn(R, Nat)
        BY NatLessThanWellFounded
    <2> HIDE DEF T, R
    <2> QED
        BY <1>1, <2>1, WFMin
<1>3. \A y \in T : x <= y
    <2> SUFFICES ASSUME NEW y \in T PROVE x <= y
        OBVIOUS
    <2>1. x \in Nat /\ y \in Nat
        <3> HIDE DEF T
        <3> QED
            BY <1>1
    <2>2. y < x => <<y, x>> \in R
        BY <2>1 DEF OpToRel
    <2> HIDE DEF T, R
    <2> QED
        BY <1>2, <2>1, <2>2
<1>4. PICK i \in S : x = n - i
    BY <1>2
<1>5. \A j \in S : j <= i
    <2> SUFFICES ASSUME NEW j \in S PROVE j <= i
        OBVIOUS
    <2>1. n - j \in T /\ i \in 1..n /\ j \in 1..n
        OBVIOUS
    <2> HIDE DEF T
    <2> QED
        BY <1>3, <1>4, <2>1
<1> QED
    BY <1>5 DEF Last

LEMMA LinesAreNumbers ==
    ASSUME OpeningTypeOK
    PROVE  /\ Len(legacy) \in Nat /\ Lines = 1..Len(legacy)
           /\ legacy \in Seq(Ids \cup {Broken})
           /\ \A k, from, to : LinesOf(k, from, to) \in SUBSET (1..Len(legacy))
BY FilesAssumption DEF OpeningTypeOK, LinesOf, Lines

LEMMA LastLine ==
    ASSUME OpeningTypeOK, NEW k, NEW from, NEW to, LinesOf(k, from, to) # {}
    PROVE  /\ Last(LinesOf(k, from, to)) \in LinesOf(k, from, to)
           /\ \A j \in LinesOf(k, from, to) : j <= Last(LinesOf(k, from, to))
           /\ Last(LinesOf(k, from, to)) \in 1..Len(legacy)
<1>1. Len(legacy) \in Nat /\ LinesOf(k, from, to) \in SUBSET (1..Len(legacy))
    BY LinesAreNumbers
<1> QED
    BY <1>1, LastIsLast

LEMMA KeysOfLines ==
    ASSUME OpeningTypeOK, Parses
    PROVE  LegacyKeys \subseteq Keys
<1>1. \A i \in Lines : legacy[i] \in Ids
    BY LinesAreNumbers DEF Parses
<1> QED
    BY <1>1, KeysAssumption DEF LegacyKeys, sanitizePK

LEMMA UpsertedIsRecords ==
    ASSUME OpeningTypeOK, NEW from, NEW to
    PROVE  Upserted(from, to) \in Records
<1>1. \A k \in Keys : LinesOf(k, from, to) # {} => Last(LinesOf(k, from, to)) \in Int
    BY LastLine, LinesAreNumbers
<1> QED
    BY <1>1 DEF Upserted, Records, OpeningTypeOK

(* Batch after batch, the collection is what the file says up to there.    *)
LEMMA BatchesAddUp ==
    ASSUME OpeningTypeOK, coll = ImportedTo(line - 1), NEW to \in Nat, to >= line - 1
    PROVE  Upserted(line, to) = ImportedTo(to)
<1>0. line \in Nat \ {0}
    BY DEF OpeningTypeOK
<1> SUFFICES ASSUME NEW k \in Keys PROVE Upserted(line, to)[k] = ImportedTo(to)[k]
    BY DEF Upserted, ImportedTo
<1> DEFINE New == LinesOf(k, line, to)
           Old == LinesOf(k, 1, line - 1)
           All == LinesOf(k, 1, to)
<1>1. All = Old \cup New
    BY <1>0, LinesAreNumbers DEF LinesOf
<1>2. CASE New = {}
    <2>1. All = Old
        BY <1>1, <1>2
    <2>2. Upserted(line, to)[k] = coll[k]
        BY <1>2 DEF Upserted
    <2>3. coll[k] = IF Old = {} THEN NoRec ELSE Last(Old)
        BY DEF ImportedTo
    <2>4. ImportedTo(to)[k] = IF All = {} THEN NoRec ELSE Last(All)
        BY DEF ImportedTo
    <2> HIDE DEF Old, All, New
    <2> QED
        BY <2>1, <2>2, <2>3, <2>4
<1>3. CASE New # {}
    <2>1. All # {}
        BY <1>1, <1>3
    <2>2. Last(New) \in New /\ Last(All) \in All /\ (\A j \in All : j <= Last(All))
          /\ (\A j \in New : j <= Last(New))
        BY <1>3, <2>1, LastLine
    <2>3. Last(New) <= Last(All) /\ Last(New) \in Nat /\ Last(All) \in Nat /\ line <= Last(New)
        BY <1>0, <1>1, <2>2, LinesAreNumbers DEF LinesOf
    <2>4. Last(All) \in New
        BY <1>0, <1>1, <2>2, <2>3, LinesAreNumbers DEF LinesOf
    <2>5. Last(All) = Last(New)
        <3> HIDE DEF Old, All, New
        <3> QED
            BY <2>2, <2>3, <2>4
    <2>6. Upserted(line, to)[k] = Last(New) /\ ImportedTo(to)[k] = Last(All)
        BY <1>3, <2>1 DEF Upserted, ImportedTo
    <2> QED
        BY <2>5, <2>6
<1> QED
    BY <1>2, <1>3

LEMMA BatchEnds ==
    ASSUME OpeningTypeOK, line <= Len(legacy)
    PROVE  BatchEnd \in Nat /\ line <= BatchEnd /\ BatchEnd <= Len(legacy)
BY LinesAreNumbers, BoundsAssumption DEF BatchEnd, OpeningTypeOK

(* While the import runs the collection holds numbers of lines only.       *)
LEMMA ImportedAreLines ==
    ASSUME OpeningTypeOK, NEW n, NEW k \in Keys
    PROVE  ImportedTo(n)[k] \notin UserTexts
<1>1. CASE LinesOf(k, 1, n) = {}
    BY <1>1, TextsAssumption DEF ImportedTo
<1>2. CASE LinesOf(k, 1, n) # {}
    <2>1. Last(LinesOf(k, 1, n)) \in Int
        BY <1>2, LastLine, LinesAreNumbers
    <2> QED
        BY <1>2, <2>1, TextsAssumption DEF ImportedTo
<1> QED
    BY <1>1, <1>2
-----------------------------------------------------------------------------
(* Steps *)

(* No step changes the file, so lines and keys stay what they are.         *)
LEMMA FileFixed ==
    ASSUME legacy' = legacy
    PROVE  /\ \A k, from, to : LinesOf(k, from, to)' = LinesOf(k, from, to)
           /\ \A n : ImportedTo(n)' = ImportedTo(n)
           /\ LegacyKeys' = LegacyKeys /\ Parses' = Parses
<1>1. \A k, from, to : LinesOf(k, from, to)' = LinesOf(k, from, to)
    BY DEF LinesOf, Lines
<1> QED
    BY <1>1 DEF ImportedTo, LegacyKeys, Parses, Lines

LEMMA OpeningInitHolds == OpeningInit => OpeningInv
<1> SUFFICES ASSUME OpeningInit PROVE OpeningInv
    OBVIOUS
<1>1. OpeningTypeOK
    BY BoundsAssumption DEF OpeningInit, OpeningTypeOK, Records, Empty, Phases
<1> QED
    BY <1>1 DEF OpeningInit, OpeningInv, ImportInOrder, FlushedBeforeRename, Readable, MigratedWhole,
                Importing

LEMMA OpenPreserves ==
    ASSUME OpeningInv, OpenCollection \/ SkipImport \/ ParseFails
    PROVE  OpeningInv'
<1>1. UNCHANGED <<legacy, file, coll, durable, merged, line, faults, touched>> /\ phase' \in {"opened", "open", "closed"}
    BY DEF OpenCollection, SkipImport, ParseFails
<1>2. OpeningTypeOK'
    BY <1>1 DEF OpeningInv, OpeningTypeOK, Phases
<1>3. MigratedWhole'
    BY <1>1, FileFixed DEF OpeningInv, MigratedWhole
<1> QED
    BY <1>1, <1>2, <1>3, FileFixed
    DEF OpeningInv, ImportInOrder, FlushedBeforeRename, Readable, Importing

LEMMA StartPreserves ==
    ASSUME OpeningInv, StartImport
    PROVE  OpeningInv'
<1>1. OpeningTypeOK'
    BY DEF OpeningInv, OpeningTypeOK, StartImport, Phases, Importing
<1>2. coll = ImportedTo(0)
    <2>1. \A k \in Keys : coll[k] = NoRec
        BY DEF StartImport, DocCount
    <2>2. \A k : LinesOf(k, 1, 0) = {}
        BY LinesAreNumbers DEF OpeningInv, LinesOf
    <2>3. coll = [k \in Keys |-> coll[k]]
        BY DEF OpeningInv, OpeningTypeOK, Records
    <2> QED
        BY <2>1, <2>2, <2>3 DEF ImportedTo
<1>3. ImportInOrder'
    BY <1>2, FileFixed, LinesAreNumbers DEF StartImport, ImportInOrder, OpeningInv
<1> QED
    BY <1>1, <1>3, FileFixed DEF StartImport, OpeningInv, FlushedBeforeRename, Readable, MigratedWhole

LEMMA BatchPreserves ==
    ASSUME OpeningInv, UpsertBatch
    PROVE  OpeningInv'
<1>1. BatchEnd \in Nat /\ line <= BatchEnd /\ BatchEnd <= Len(legacy)
    BY BatchEnds DEF OpeningInv, UpsertBatch
<1>2. OpeningTypeOK'
    <2>1. Upserted(line, BatchEnd) \in Records
        BY UpsertedIsRecords DEF OpeningInv
    <2> QED
        BY <1>1, <2>1 DEF OpeningInv, OpeningTypeOK, UpsertBatch
<1>3. coll = ImportedTo(line - 1) /\ file = "there" /\ line \in Nat \ {0}
    BY DEF OpeningInv, OpeningTypeOK, ImportInOrder, UpsertBatch, Importing
<1>4. coll' = ImportedTo(BatchEnd)
    BY <1>1, <1>3, BatchesAddUp DEF OpeningInv, UpsertBatch
<1>5. line' - 1 = BatchEnd
    BY <1>1 DEF UpsertBatch
<1>6. ImportInOrder'
    BY <1>1, <1>3, <1>4, <1>5, FileFixed, LinesAreNumbers DEF OpeningInv, UpsertBatch, ImportInOrder
<1> QED
    BY <1>2, <1>3, <1>6, FileFixed
    DEF UpsertBatch, OpeningInv, FlushedBeforeRename, Readable, MigratedWhole

LEMMA FlushPreserves ==
    ASSUME OpeningInv, FlushImport \/ OptimizeImport
    PROVE  OpeningInv'
<1>0. legacy' = legacy /\ file' = file /\ coll' = coll /\ line' = line /\ phase \in Importing
    BY DEF FlushImport, OptimizeImport, Importing
<1>1. OpeningTypeOK'
    BY DEF OpeningInv, OpeningTypeOK, FlushImport, OptimizeImport, Phases, Importing, DocCount
<1>2. ImportInOrder' /\ file = "there"
    BY <1>0, FileFixed DEF OpeningInv, ImportInOrder
<1>3. FlushedBeforeRename'
    <2>1. CASE FlushImport
        <3>1. line = Len(legacy) + 1
            BY <1>0, <2>1, LinesAreNumbers DEF OpeningInv, FlushImport, ImportInOrder, OpeningTypeOK
        <3> QED
            BY <2>1, <3>1 DEF FlushImport, FlushedBeforeRename
    <2>2. CASE OptimizeImport
        BY <2>2 DEF OptimizeImport, OpeningInv, FlushedBeforeRename, DocCount
    <2> QED
        BY <2>1, <2>2
<1> QED
    BY <1>0, <1>1, <1>2, <1>3, FileFixed DEF OpeningInv, Readable, MigratedWhole

(* The rename is the point of no return: all that it needs is there.       *)
LEMMA RenamePreserves ==
    ASSUME OpeningInv, RenameFile
    PROVE  OpeningInv'
<1>1. OpeningTypeOK'
    BY DEF OpeningInv, OpeningTypeOK, RenameFile, Phases
<1>2. Parses
    BY DEF OpeningInv, RenameFile, Readable, Importing
<1>3. /\ durable = coll /\ coll = ImportedTo(Len(legacy)) /\ merged = DocCount
    BY LinesAreNumbers
    DEF OpeningInv, RenameFile, ImportInOrder, FlushedBeforeRename, Importing
<1>4. \A k \in LegacyKeys :
          /\ coll[k] = Last(LinesOf(k, 1, Len(legacy)))
          /\ k \in merged
    <2> SUFFICES ASSUME NEW k \in LegacyKeys
                 PROVE  coll[k] = Last(LinesOf(k, 1, Len(legacy))) /\ k \in merged
        OBVIOUS
    <2>1. k \in Keys
        BY <1>2, KeysOfLines DEF OpeningInv
    <2>2. LinesOf(k, 1, Len(legacy)) # {}
        BY LinesAreNumbers DEF OpeningInv, LegacyKeys, LinesOf
    <2>3. coll[k] = Last(LinesOf(k, 1, Len(legacy)))
        BY <1>3, <2>1, <2>2 DEF ImportedTo
    <2>4. coll[k] \in Int
        BY <2>2, <2>3, LastLine, LinesAreNumbers DEF OpeningInv
    <2>5. k \in DocCount
        BY <2>1, <2>4, TextsAssumption DEF DocCount
    <2> QED
        BY <1>3, <2>3, <2>5
<1>5. MigratedWhole'
    BY <1>3, <1>4, FileFixed DEF RenameFile, MigratedWhole
<1> QED
    BY <1>1, <1>2, <1>5, FileFixed
    DEF RenameFile, OpeningInv, ImportInOrder, FlushedBeforeRename, Readable, Importing

(* A fault ends the import wherever it is; what is migrated was flushed.   *)
LEMMA FaultPreserves ==
    ASSUME OpeningInv, OpenFails \/ Crash
    PROVE  OpeningInv'
<1>0. PICK c \in Found : CloseWith(c)
    BY DEF OpenFails, Crash
<1>1. UNCHANGED <<legacy, file, merged, line, touched>> /\ phase' = "closed" /\ faults' \in 0..MaxFaults
    BY <1>0, BoundsAssumption DEF OpenFails, Crash, CloseWith, Fault, OpeningInv, OpeningTypeOK
<1>2. PICK kept \in SUBSET Keys :
          coll' = [k \in Keys |-> IF k \in kept THEN c[k] ELSE durable[k]] /\ durable' = coll'
    BY <1>0 DEF CloseWith, Survivors
<1>3. c \in Records
    BY <1>0, UpsertedIsRecords DEF Found, OpeningInv, OpeningTypeOK
<1>4. coll' \in Records /\ durable' \in Records
    BY <1>2, <1>3 DEF Records, OpeningInv, OpeningTypeOK
<1>5. OpeningTypeOK'
    BY <1>1, <1>4 DEF OpeningInv, OpeningTypeOK, Phases
<1>6. MigratedWhole'
    <2> SUFFICES ASSUME file = "migrated", NEW k \in LegacyKeys \ touched
                 PROVE  /\ durable'[k] = Last(LinesOf(k, 1, Len(legacy)))
                        /\ coll'[k] = durable'[k]
                        /\ k \in merged
        BY <1>1, FileFixed DEF MigratedWhole
    <2>1. phase \notin Importing /\ Parses
        BY DEF OpeningInv, ImportInOrder, Readable
    <2>2. c = coll
        BY <1>0, <2>1 DEF Found, Importing
    <2>3. k \in Keys
        BY <2>1, KeysOfLines DEF OpeningInv
    <2>4. /\ durable[k] = Last(LinesOf(k, 1, Len(legacy)))
          /\ coll[k] = durable[k] /\ k \in merged
        BY DEF OpeningInv, MigratedWhole
    <2> QED
        BY <1>2, <2>2, <2>3, <2>4
<1> QED
    BY <1>1, <1>5, <1>6, FileFixed
    DEF OpeningInv, ImportInOrder, FlushedBeforeRename, Readable, Importing

LEMMA ClientPreserves ==
    ASSUME OpeningInv, NEW k \in Keys,
           (\E t \in UserTexts : ClientAdds(k, t)) \/ ClientForgets(k)
    PROVE  OpeningInv'
<1>1. PICK r \in UserTexts \cup {NoRec} :
          /\ phase = "open" /\ UNCHANGED <<legacy, file, phase, line>>
          /\ coll' = [coll EXCEPT ![k] = r]
          /\ durable' \in {durable, coll'}
          /\ merged' = merged \ {k} /\ touched' = touched \cup {k}
          /\ faults' \in {faults, faults + 1} /\ (faults' = faults \/ faults < MaxFaults)
    BY DEF ClientAdds, ClientForgets, Fault
<1>2. coll' \in Records /\ durable' \in Records
    BY <1>1 DEF OpeningInv, OpeningTypeOK, Records
<1>3. OpeningTypeOK'
    BY <1>1, <1>2, BoundsAssumption DEF OpeningInv, OpeningTypeOK
<1>4. MigratedWhole'
    <2> SUFFICES ASSUME file = "migrated", NEW j \in LegacyKeys \ touched, j # k
                 PROVE  /\ durable'[j] = Last(LinesOf(j, 1, Len(legacy)))
                        /\ coll'[j] = durable'[j]
                        /\ j \in merged'
        BY <1>1, FileFixed DEF MigratedWhole
    <2>1. /\ durable[j] = Last(LinesOf(j, 1, Len(legacy)))
          /\ coll[j] = durable[j] /\ j \in merged
        BY DEF OpeningInv, MigratedWhole
    <2>2. coll'[j] = coll[j]
        BY <1>1 DEF OpeningInv, OpeningTypeOK, Records
    <2> QED
        BY <1>1, <2>1, <2>2
<1> QED
    BY <1>1, <1>3, <1>4, FileFixed
    DEF OpeningInv, ImportInOrder, FlushedBeforeRename, Readable, Importing

LEMMA ClosePreserves ==
    ASSUME OpeningInv, CloseStore
    PROVE  OpeningInv'
<1>1. UNCHANGED <<legacy, file, line, faults, touched>> /\ phase' = "closed" /\ merged' = DocCount
    BY DEF CloseStore, CloseWith
<1>2. PICK kept \in SUBSET Keys :
          coll' = [k \in Keys |-> IF k \in kept THEN coll[k] ELSE durable[k]] /\ durable' = coll'
    BY DEF CloseStore, CloseWith, Survivors
<1>3. coll' \in Records /\ durable' \in Records
    BY <1>2 DEF Records, OpeningInv, OpeningTypeOK
<1>4. OpeningTypeOK'
    BY <1>1, <1>3 DEF OpeningInv, OpeningTypeOK, Phases, DocCount
<1>5. MigratedWhole'
    <2> SUFFICES ASSUME file = "migrated", NEW k \in LegacyKeys \ touched
                 PROVE  /\ durable'[k] = Last(LinesOf(k, 1, Len(legacy)))
                        /\ coll'[k] = durable'[k]
                        /\ k \in DocCount
        BY <1>1, FileFixed DEF MigratedWhole
    <2>1. k \in Keys
        BY KeysOfLines DEF OpeningInv, Readable
    <2>2. durable[k] = Last(LinesOf(k, 1, Len(legacy))) /\ coll[k] = durable[k]
        BY DEF OpeningInv, MigratedWhole
    <2>3. LinesOf(k, 1, Len(legacy)) # {}
        BY LinesAreNumbers DEF OpeningInv, LegacyKeys, LinesOf
    <2>4. coll[k] \in Int
        BY <2>2, <2>3, LastLine, LinesAreNumbers DEF OpeningInv
    <2>5. k \in DocCount
        BY <2>1, <2>4, TextsAssumption DEF DocCount
    <2> QED
        BY <1>2, <2>1, <2>2, <2>5
<1> QED
    BY <1>1, <1>4, <1>5, FileFixed
    DEF OpeningInv, ImportInOrder, FlushedBeforeRename, Readable, Importing

LEMMA OpeningStepPreserves == OpeningInv /\ [OpeningNext]_openingVars => OpeningInv'
<1> SUFFICES ASSUME OpeningInv, [OpeningNext]_openingVars PROVE OpeningInv'
    OBVIOUS
<1>1. CASE OpenCollection \/ SkipImport \/ ParseFails
    BY <1>1, OpenPreserves
<1>2. CASE StartImport
    BY <1>2, StartPreserves
<1>3. CASE UpsertBatch
    BY <1>3, BatchPreserves
<1>4. CASE FlushImport \/ OptimizeImport
    BY <1>4, FlushPreserves
<1>5. CASE RenameFile
    BY <1>5, RenamePreserves
<1>6. CASE OpenFails \/ Crash
    BY <1>6, FaultPreserves
<1>7. CASE CloseStore
    BY <1>7, ClosePreserves
<1>8. CASE \E k \in Keys : (\E t \in UserTexts : ClientAdds(k, t)) \/ ClientForgets(k)
    BY <1>8, ClientPreserves
<1>9. CASE UNCHANGED openingVars
    BY <1>9, FileFixed
    DEF openingVars, OpeningInv, OpeningTypeOK, ImportInOrder, FlushedBeforeRename, Readable,
        MigratedWhole, DocCount
<1> QED
    BY <1>1, <1>2, <1>3, <1>4, <1>5, <1>6, <1>7, <1>8, <1>9 DEF OpeningNext, OpeningStep

LEMMA OpeningAlways == OpeningSpec => []OpeningInv
BY OpeningInitHolds, OpeningStepPreserves, PTL DEF OpeningSpec

-----------------------------------------------------------------------------
(* Results *)

(* The types of opening: the store's states and the position in the file.  *)
THEOREM OpeningTypeCorrect == OpeningSpec => []OpeningTypeOK
BY OpeningAlways, PTL DEF OpeningInv

(* For any file and any faults, a file that has been renamed is in the     *)
(* collection in full, flushed and indexed, but for what clients changed.  *)
THEOREM MigrationComplete == OpeningSpec => []MigratedWhole
BY OpeningAlways, PTL DEF OpeningInv

(* For any file and any faults, opening leaves clients' records alone.     *)
THEOREM OpeningKeepsRecords == OpeningSpec => ClientRecordsStand
<1>1. OpeningInv /\ [OpeningNext]_openingVars => [KeepsClientRecords]_openingVars
    <2> SUFFICES ASSUME OpeningInv, OpeningNext,
                        phase \in Importing \cup {"opened"}, phase' # "closed",
                        NEW k \in Keys, coll[k] \in UserTexts
                 PROVE  coll'[k] = coll[k]
        BY DEF KeepsClientRecords
    <2>1. CASE UpsertBatch
        <3>1. coll = ImportedTo(line - 1)
            BY <2>1 DEF OpeningInv, ImportInOrder, UpsertBatch, Importing
        <3> QED
            BY <3>1, ImportedAreLines DEF OpeningInv
    <2>2. CASE ~ UpsertBatch
        BY <2>2
        DEF OpeningNext, OpeningStep, OpenCollection, SkipImport, StartImport, ParseFails,
            FlushImport, OptimizeImport, RenameFile, OpenFails, Crash, CloseStore, CloseWith,
            ClientAdds, ClientForgets, Importing
    <2> QED
        BY <2>1, <2>2
<1> QED
    BY <1>1, OpeningAlways, PTL DEF OpeningSpec, ClientRecordsStand

(* Until something fails, no store with records in its file comes open     *)
(* before the rename, and none has anything in it but while it imports.    *)
Untroubled ==
    faults = 0 /\ file = "there" /\ legacy # <<>> =>
        /\ phase # "open"
        /\ phase \in {"closed", "opened"} => coll = Empty

LEMMA UntroubledStep == OpeningInv /\ Untroubled /\ [OpeningNext]_openingVars => Untroubled'
<1> SUFFICES ASSUME OpeningInv, Untroubled, [OpeningNext]_openingVars,
                    faults' = 0, file' = "there", legacy' # <<>>
             PROVE  /\ phase' # "open"
                    /\ phase' \in {"closed", "opened"} => coll' = Empty
    BY DEF Untroubled
<1>1. faults \in Nat /\ file \in {"there", "migrated"} /\ DocCount = {k \in Keys : coll[k] # NoRec}
    BY BoundsAssumption DEF OpeningInv, OpeningTypeOK, DocCount
<1>2. CASE OpenCollection \/ ParseFails \/ UNCHANGED openingVars
    BY <1>2 DEF Untroubled, OpenCollection, ParseFails, openingVars
<1>3. CASE SkipImport
    BY <1>1, <1>3 DEF Untroubled, SkipImport, Empty
<1>4. CASE StartImport \/ UpsertBatch \/ FlushImport \/ OptimizeImport
    BY <1>4 DEF StartImport, UpsertBatch, FlushImport, OptimizeImport
<1>5. CASE RenameFile
    BY <1>5 DEF RenameFile
<1>6. CASE OpenFails \/ Crash
    BY <1>1, <1>6 DEF OpenFails, Crash, Fault
<1>7. ASSUME NEW k \in Keys, (\E t \in UserTexts : ClientAdds(k, t)) \/ ClientForgets(k)
      PROVE  FALSE
    BY <1>1, <1>7 DEF Untroubled, ClientAdds, ClientForgets, Fault
<1>8. CASE CloseStore
    BY <1>1, <1>8 DEF Untroubled, CloseStore
<1> QED
    BY <1>2, <1>3, <1>4, <1>5, <1>6, <1>7, <1>8 DEF OpeningNext, OpeningStep

(* What docs/architecture.md says of the first open does hold of every     *)
(* store until a crash or a failed call; and after any number of them if   *)
(* the file has its new name.                                              *)
THEOREM UntroubledOpenImports ==
    OpeningSpec => [](faults = 0 \/ file = "migrated" \/ legacy = <<>> => ImportedAtOpen)
<1>1. OpeningInit => Untroubled
    BY DEF OpeningInit, Untroubled
<1>2. OpeningInv /\ Untroubled =>
          (faults = 0 \/ file = "migrated" \/ legacy = <<>> => ImportedAtOpen)
    <2> SUFFICES ASSUME OpeningInv, Untroubled, phase = "open",
                        faults = 0 \/ file = "migrated" \/ legacy = <<>>,
                        NEW k \in LegacyKeys \ touched
                 PROVE  coll[k] # NoRec
        BY DEF ImportedAtOpen
    <2>1. LinesOf(k, 1, Len(legacy)) # {} /\ legacy # <<>>
        BY LinesAreNumbers DEF OpeningInv, LegacyKeys, LinesOf
    <2>2. file = "migrated"
        BY <2>1 DEF Untroubled, OpeningInv, OpeningTypeOK
    <2>3. coll[k] = Last(LinesOf(k, 1, Len(legacy)))
        BY <2>2 DEF OpeningInv, MigratedWhole
    <2>4. Last(LinesOf(k, 1, Len(legacy))) \in Int
        BY <2>1, LastLine, LinesAreNumbers DEF OpeningInv
    <2> QED
        BY <2>3, <2>4, TextsAssumption
<1> QED
    BY <1>1, <1>2, UntroubledStep, OpeningAlways, PTL DEF OpeningSpec

(***************************************************************************)
(* The setup and its removal                                               *)
(***************************************************************************)

(* The three hooks, one by one.                                            *)
LEMMA HookFacts ==
    /\ DOMAIN hookNames = 1..3 /\ Len(hookNames) = 3
    /\ hookNames[1] = "post-commit" /\ hookNames[2] = "post-merge" /\ hookNames[3] = "post-rewrite"
    /\ Hooks = {"post-commit", "post-merge", "post-rewrite"}
<1>1. DOMAIN hookNames = 1..3 /\ Len(hookNames) = 3
    BY DEF hookNames
<1>2. hookNames[1] = "post-commit" /\ hookNames[2] = "post-merge" /\ hookNames[3] = "post-rewrite"
    BY DEF hookNames
<1>3. Hooks = {hookNames[1], hookNames[2], hookNames[3]}
    BY <1>1 DEF Hooks
<1> QED
    BY <1>1, <1>2, <1>3

-----------------------------------------------------------------------------
(* Types *)

(* A write leaves every file as it may be.                                 *)
LEMMA WriteTypeOK ==
    ASSUME SetupTypeOK, step \in WriteSteps, NEW n \in InitSteps, Write(n),
           data' \in BOOLEAN
    PROVE  SetupTypeOK'
<1>1. disk' \in [Files -> {"none", "torn", "whole"} \cup ConfigPaths]
    BY DEF SetupTypeOK, Write, Choices
<1>2. Written = "manifest" => step = "manifest"
    BY DEF SetupTypeOK, Written, Choices, ConfigPaths
<1>3. disk'["manifest"] # "whole"
    BY <1>2 DEF SetupTypeOK, Write, Choices, ConfigPaths, Files, RootFiles
<1> QED
    BY <1>1, <1>3 DEF SetupTypeOK, Write, GoOn, localVars, leftVars, fixedVars, gitVars, serviceVars

(* The end of a command.                                                   *)
LEMMA EndTypeOK ==
    ASSUME SetupTypeOK, NEW how \in {"installed", "configured", "uninstalled", "failed"},
           EndWith(how)
    PROVE  /\ step' = "idle"
           /\ choice' \in Choices
           /\ planned' \in ConfigPaths
           /\ seen' \in {"unset", "managed", "other", "nogit"}
           /\ outcome' \in {"none", "installed", "configured", "uninstalled", "failed"}
           /\ moved' \in BOOLEAN /\ unbooted' \in BOOLEAN /\ lingering' \in BOOLEAN
BY DEF SetupTypeOK, EndWith, leftVars, Defaults, Choices, ConfigPaths

(* Init of types, and a step of any command or of anybody else.            *)
LEMMA TypeInit == SetupInit => SetupTypeOK
<1> SUFFICES ASSUME SetupInit PROVE SetupTypeOK
    OBVIOUS
<1>1. disk \in [Files -> {"none", "torn", "whole"} \cup ConfigPaths]
    BY DEF SetupInit
<1>2. disk["manifest"] # "whole"
    BY DEF SetupInit, Files, RootFiles
<1>3. choice \in Choices /\ planned \in ConfigPaths /\ mishaps \in 0..MaxMishaps
    BY MishapsAssumption DEF SetupInit, Defaults, Choices, ConfigPaths
<1> QED
    BY <1>1, <1>2, <1>3 DEF SetupInit, SetupTypeOK

LEMMA TypeStep == SetupTypeOK /\ [SetupNext]_setupVars => SetupTypeOK'
<1> SUFFICES ASSUME SetupTypeOK, [SetupNext]_setupVars PROVE SetupTypeOK'
    OBVIOUS
<1> USE MishapsAssumption DEF SetupTypeOK, localVars, leftVars, fixedVars, gitVars, serviceVars
<1>1. CASE UNCHANGED setupVars
    BY <1>1 DEF setupVars
<1>2. CASE StartInit
    BY <1>2 DEF StartInit, Start, InitSteps, ConfigPaths
<1>3. CASE MakeDirs
    BY <1>3 DEF MakeDirs, GoOn, InitSteps
<1>4. CASE WriteConfig
    BY <1>4, WriteTypeOK DEF WriteConfig, InitSteps, WriteSteps
<1>5. CASE WriteManifest
    BY <1>5, WriteTypeOK, HookFacts DEF WriteManifest, InitSteps, WriteSteps
<1>6. CASE WriteManagedHooks
    <2>1. PICK i \in DOMAIN hookNames :
             /\ step = hookNames[i]
             /\ Write(IF i < Len(hookNames) THEN hookNames[i + 1] ELSE "look")
             /\ data' = TRUE
        BY <1>6 DEF WriteManagedHooks
    <2>2. step \in Hooks /\ (IF i < Len(hookNames) THEN hookNames[i + 1] ELSE "look") \in InitSteps
        BY <2>1, HookFacts DEF InitSteps
    <2> QED
        BY <2>1, <2>2, WriteTypeOK DEF WriteSteps
<1>7. CASE LookAtHooksPath
    BY <1>7 DEF LookAtHooksPath, Asks, InitSteps
<1>8. CASE SetHooksPath
    BY <1>8 DEF SetHooksPath, GoOn, InitSteps
<1>9. CASE StartDaemonOrNot
    BY <1>9, EndTypeOK DEF StartDaemonOrNot, GoOn, InitSteps
<1>10. CASE WritePlist
    BY <1>10, WriteTypeOK DEF WritePlist, InitSteps, WriteSteps
<1>11. CASE RestartService
    BY <1>11 DEF RestartService, GoOn, InitSteps
<1>12. CASE AwaitDaemon
    BY <1>12, EndTypeOK DEF AwaitDaemon, GoOn, InitSteps
<1>13. CASE ImportAtInit
    BY <1>13, EndTypeOK DEF ImportAtInit
<1>14. CASE StartEmbedder
    BY <1>14, EndTypeOK DEF StartEmbedder, Start, EmbedderSteps, ConfigPaths
<1>15. CASE WriteEmbedder
    BY <1>15, EndTypeOK DEF WriteEmbedder, RootFiles, Files, ConfigPaths
<1>16. CASE StartUninstall
    BY <1>16, EndTypeOK DEF StartUninstall, Start, UninstallSteps, ConfigPaths
<1>17. CASE LoadManifest
    BY <1>17, EndTypeOK DEF LoadManifest, UninstallSteps, ConfigPaths, RootFiles, Files
<1>18. CASE LookToUnhook
    BY <1>18 DEF LookToUnhook, Asks, UninstallSteps
<1>19. CASE UnsetHooksPath
    BY <1>19, EndTypeOK DEF UnsetHooksPath, GoOn, UninstallSteps
<1>20. CASE BootoutAndRemove
    BY <1>20 DEF BootoutAndRemove, BootsOut, BootoutFails, AfterBootout, RootFiles, Files,
                 ConfigPaths, UninstallSteps
<1>21. CASE RemoveRoot
    BY <1>21 DEF RemoveRoot, Without, RootFiles, Files, UninstallSteps
<1>22. CASE RemoveConfig
    BY <1>22, EndTypeOK DEF RemoveConfig, RootFiles, Files, ConfigPaths
<1>23. CASE CutShort
    <2> DEFINE Typed(l) == l \in [Files -> {"none", "torn", "whole"} \cup ConfigPaths] /\ l["manifest"] # "whole"
    <2>1. \A l \in Torn : Typed(l)
        BY DEF Torn, SetupTypeOK, Files, RootFiles
    <2>2. \A l \in PartlyRemoved : Typed(l)
        BY DEF PartlyRemoved, Without, SetupTypeOK, Files, RootFiles
    <2>3. Typed(disk')
        BY <1>23, <2>1, <2>2 DEF CutShort, Leftovers, SetupTypeOK
    <2> QED
        BY <1>23, <2>3, EndTypeOK DEF CutShort
<1>24. CASE UserSetsHooksPath
    BY <1>24 DEF UserSetsHooksPath
<1>25. CASE HookStarts
    BY <1>25 DEF HookStarts, Outside
<1>26. CASE HookEnqueues
    BY <1>26 DEF HookEnqueues, Outside
<1>27. CASE DaemonStarts
    BY <1>27 DEF DaemonStarts, Outside
<1>28. CASE DaemonSaves
    BY <1>28 DEF DaemonSaves, Outside
<1>29. CASE DaemonStops
    BY <1>29 DEF DaemonStops, Outside
<1>30. CASE Login
    BY <1>30 DEF Login, Outside
<1> QED
    BY <1>1, <1>2, <1>3, <1>4, <1>5, <1>6, <1>7, <1>8, <1>9, <1>10, <1>11, <1>12, <1>13,
       <1>14, <1>15, <1>16, <1>17, <1>18, <1>19, <1>20, <1>21, <1>22, <1>23, <1>24,
       <1>25, <1>26, <1>27, <1>28, <1>29, <1>30
       DEF SetupNext, InitStep, EmbedderStep, UninstallStep

(* Every variable of the setup keeps to its values, whatever is cut short. *)
THEOREM SetupTypeCorrect == SetupSpec => []SetupTypeOK
<1>1. SetupInit => SetupTypeOK
    BY TypeInit
<1>2. SetupTypeOK /\ [SetupNext]_setupVars => SetupTypeOK'
    BY TypeStep
<1> QED
    BY <1>1, <1>2, PTL DEF SetupSpec

-----------------------------------------------------------------------------
(* The hooks git is pointed at *)

AllHooks == \A h \in Hooks : disk[h] # "none"

(* The scripts before the one that init writes are there, and all are when *)
(* core.hooksPath is looked at and set.                                    *)
ScriptsInOrder ==
    /\ step = "post-merge" => disk["post-commit"] # "none"
    /\ step = "post-rewrite" => disk["post-commit"] # "none" /\ disk["post-merge"] # "none"
    /\ step \in {"look", "set"} => AllHooks

UnhookedBeforeRemoval ==
    step \in {"unplist", "root"} => hooksPath # "managed" \/ blind

HooksInv == ScriptsInOrder /\ UnhookedBeforeRemoval /\ HooksLive

LEMMA HooksStep == SetupTypeOK /\ HooksInv /\ [SetupNext]_setupVars => HooksInv'
<1> SUFFICES ASSUME SetupTypeOK, HooksInv, [SetupNext]_setupVars PROVE HooksInv'
    OBVIOUS
<1> USE DEF localVars, leftVars, fixedVars, gitVars, serviceVars
<1> USE DEF SetupTypeOK, HooksInv, ScriptsInOrder, UnhookedBeforeRemoval, HooksLive, AllHooks,
           Files, RootFiles, Choices, ConfigPaths
<1>1. CASE UNCHANGED setupVars
    BY <1>1 DEF setupVars
<1>2. CASE StartInit
    BY <1>2, HookFacts DEF StartInit, Start
<1>3. CASE MakeDirs
    BY <1>3, HookFacts DEF MakeDirs, GoOn
<1>4. CASE WriteConfig
    BY <1>4, HookFacts DEF WriteConfig, Write, Written, GoOn
<1>5. CASE WriteManifest
    BY <1>5, HookFacts DEF WriteManifest, Write, Written, GoOn
<1>6. CASE WriteManagedHooks
    BY <1>6, HookFacts DEF WriteManagedHooks, Write, Written, GoOn
<1>7. CASE LookAtHooksPath
    BY <1>7, HookFacts DEF LookAtHooksPath, Asks
<1>8. CASE SetHooksPath
    BY <1>8, HookFacts DEF SetHooksPath, GoOn
<1>9. CASE StartDaemonOrNot
    BY <1>9, HookFacts DEF StartDaemonOrNot, GoOn, EndWith
<1>10. CASE WritePlist
    BY <1>10, HookFacts DEF WritePlist, Write, Written, GoOn
<1>11. CASE RestartService
    BY <1>11, HookFacts DEF RestartService, GoOn
<1>12. CASE AwaitDaemon
    BY <1>12, HookFacts DEF AwaitDaemon, GoOn, EndWith
<1>13. CASE ImportAtInit
    BY <1>13, HookFacts DEF ImportAtInit, EndWith
<1>14. CASE StartEmbedder
    BY <1>14, HookFacts DEF StartEmbedder, Start, EndWith
<1>15. CASE WriteEmbedder
    BY <1>15, HookFacts DEF WriteEmbedder, EndWith
<1>16. CASE StartUninstall
    BY <1>16, HookFacts DEF StartUninstall, Start, EndWith
<1>17. CASE LoadManifest
    BY <1>17, HookFacts DEF LoadManifest, EndWith
<1>18. CASE LookToUnhook
    BY <1>18, HookFacts DEF LookToUnhook, Asks
<1>19. CASE UnsetHooksPath
    BY <1>19, HookFacts DEF UnsetHooksPath, GoOn, EndWith
<1>20. CASE BootoutAndRemove
    BY <1>20, HookFacts DEF BootoutAndRemove, BootsOut, BootoutFails, AfterBootout
<1>21. CASE RemoveRoot
    BY <1>21, HookFacts DEF RemoveRoot, Without
<1>22. CASE RemoveConfig
    BY <1>22, HookFacts DEF RemoveConfig, EndWith
<1>23. CASE CutShort
    BY <1>23, HookFacts DEF CutShort, EndWith, Leftovers, Torn, PartlyRemoved, Without
<1>24. CASE UserSetsHooksPath
    BY <1>24, HookFacts DEF UserSetsHooksPath
<1>25. CASE HookStarts
    BY <1>25, HookFacts DEF HookStarts, Outside
<1>26. CASE HookEnqueues
    BY <1>26, HookFacts DEF HookEnqueues, Outside
<1>27. CASE DaemonStarts
    BY <1>27, HookFacts DEF DaemonStarts, Outside
<1>28. CASE DaemonSaves
    BY <1>28, HookFacts DEF DaemonSaves, Outside
<1>29. CASE DaemonStops
    BY <1>29, HookFacts DEF DaemonStops, Outside
<1>30. CASE Login
    BY <1>30, HookFacts DEF Login, Outside
<1> QED
    BY <1>1, <1>2, <1>3, <1>4, <1>5, <1>6, <1>7, <1>8, <1>9, <1>10, <1>11,
       <1>12, <1>13, <1>14, <1>15, <1>16, <1>17, <1>18, <1>19, <1>20, <1>21,
       <1>22, <1>23, <1>24, <1>25, <1>26, <1>27, <1>28, <1>29, <1>30
       DEF SetupNext, InitStep, EmbedderStep, UninstallStep

(* For any number of kills and failed calls, git is never pointed at hooks *)
(* that are not all there, but after an uninstall without git.             *)
THEOREM HooksStayLive == SetupSpec => []HooksLive
<1>1. SetupInit => SetupTypeOK /\ HooksInv
    BY TypeInit DEF SetupInit, HooksInv, ScriptsInOrder, UnhookedBeforeRemoval, HooksLive
<1>2. (SetupTypeOK /\ HooksInv) /\ [SetupNext]_setupVars => (SetupTypeOK /\ HooksInv)'
    BY TypeStep, HooksStep
<1>3. HooksInv => HooksLive
    BY DEF HooksInv
<1> QED
    BY <1>1, <1>2, <1>3, PTL DEF SetupSpec

-----------------------------------------------------------------------------
(* The core.hooksPath of others *)

(* A command that is about to change core.hooksPath has seen that it may,  *)
(* unless the user has moved it since.                                     *)
MaySet ==
    /\ step = "set" => hooksPath # "other" \/ moved
    /\ step = "unset" => hooksPath = "managed" \/ moved

LEMMA MaySetStep == SetupTypeOK /\ MaySet /\ [SetupNext]_setupVars => MaySet'
<1> SUFFICES ASSUME SetupTypeOK, MaySet, [SetupNext]_setupVars PROVE MaySet'
    OBVIOUS
<1> USE DEF localVars, leftVars, fixedVars, gitVars, serviceVars
<1> USE DEF SetupTypeOK, MaySet
<1>1. CASE UNCHANGED setupVars
    BY <1>1 DEF setupVars
<1>2. CASE StartInit
    BY <1>2, HookFacts DEF StartInit, Start
<1>3. CASE MakeDirs
    BY <1>3, HookFacts DEF MakeDirs, GoOn
<1>4. CASE WriteConfig
    BY <1>4, HookFacts DEF WriteConfig, Write, Written, GoOn
<1>5. CASE WriteManifest
    BY <1>5, HookFacts DEF WriteManifest, Write, Written, GoOn
<1>6. CASE WriteManagedHooks
    BY <1>6, HookFacts DEF WriteManagedHooks, Write, Written, GoOn
<1>7. CASE LookAtHooksPath
    BY <1>7, HookFacts DEF LookAtHooksPath, Asks
<1>8. CASE SetHooksPath
    BY <1>8, HookFacts DEF SetHooksPath, GoOn
<1>9. CASE StartDaemonOrNot
    BY <1>9, HookFacts DEF StartDaemonOrNot, GoOn, EndWith
<1>10. CASE WritePlist
    BY <1>10, HookFacts DEF WritePlist, Write, Written, GoOn
<1>11. CASE RestartService
    BY <1>11, HookFacts DEF RestartService, GoOn
<1>12. CASE AwaitDaemon
    BY <1>12, HookFacts DEF AwaitDaemon, GoOn, EndWith
<1>13. CASE ImportAtInit
    BY <1>13, HookFacts DEF ImportAtInit, EndWith
<1>14. CASE StartEmbedder
    BY <1>14, HookFacts DEF StartEmbedder, Start, EndWith
<1>15. CASE WriteEmbedder
    BY <1>15, HookFacts DEF WriteEmbedder, EndWith
<1>16. CASE StartUninstall
    BY <1>16, HookFacts DEF StartUninstall, Start, EndWith
<1>17. CASE LoadManifest
    BY <1>17, HookFacts DEF LoadManifest, EndWith
<1>18. CASE LookToUnhook
    BY <1>18, HookFacts DEF LookToUnhook, Asks
<1>19. CASE UnsetHooksPath
    BY <1>19, HookFacts DEF UnsetHooksPath, GoOn, EndWith
<1>20. CASE BootoutAndRemove
    BY <1>20, HookFacts DEF BootoutAndRemove, BootsOut, BootoutFails, AfterBootout
<1>21. CASE RemoveRoot
    BY <1>21, HookFacts DEF RemoveRoot, Without
<1>22. CASE RemoveConfig
    BY <1>22, HookFacts DEF RemoveConfig, EndWith
<1>23. CASE CutShort
    BY <1>23, HookFacts DEF CutShort, EndWith, Leftovers, Torn, PartlyRemoved, Without
<1>24. CASE UserSetsHooksPath
    BY <1>24, HookFacts DEF UserSetsHooksPath
<1>25. CASE HookStarts
    BY <1>25, HookFacts DEF HookStarts, Outside
<1>26. CASE HookEnqueues
    BY <1>26, HookFacts DEF HookEnqueues, Outside
<1>27. CASE DaemonStarts
    BY <1>27, HookFacts DEF DaemonStarts, Outside
<1>28. CASE DaemonSaves
    BY <1>28, HookFacts DEF DaemonSaves, Outside
<1>29. CASE DaemonStops
    BY <1>29, HookFacts DEF DaemonStops, Outside
<1>30. CASE Login
    BY <1>30, HookFacts DEF Login, Outside
<1> QED
    BY <1>1, <1>2, <1>3, <1>4, <1>5, <1>6, <1>7, <1>8, <1>9, <1>10, <1>11,
       <1>12, <1>13, <1>14, <1>15, <1>16, <1>17, <1>18, <1>19, <1>20, <1>21,
       <1>22, <1>23, <1>24, <1>25, <1>26, <1>27, <1>28, <1>29, <1>30
       DEF SetupNext, InitStep, EmbedderStep, UninstallStep

LEMMA OthersStep == MaySet /\ [SetupNext]_setupVars => [KeepsOthersPath]_setupVars
<1> SUFFICES ASSUME MaySet, SetupNext PROVE KeepsOthersPath
    BY DEF KeepsOthersPath, setupVars
<1> USE DEF MaySet, KeepsOthersPath
<1>1. CASE SetHooksPath
    BY <1>1 DEF SetHooksPath
<1>2. CASE UnsetHooksPath
    BY <1>2 DEF UnsetHooksPath
<1>3. CASE UserSetsHooksPath
    BY <1>3 DEF UserSetsHooksPath
<1>4. CASE UNCHANGED hooksPath
    BY <1>4
<1>5. SetupNext => SetHooksPath \/ UnsetHooksPath \/ UserSetsHooksPath \/ UNCHANGED hooksPath
    BY DEF SetupNext, InitStep, EmbedderStep, UninstallStep, gitVars, Outside,
           StartInit, MakeDirs, WriteConfig, WriteManifest, WriteManagedHooks, Write,
           LookAtHooksPath, Asks, StartDaemonOrNot, WritePlist, RestartService, AwaitDaemon,
           ImportAtInit, StartEmbedder, WriteEmbedder, StartUninstall, LoadManifest,
           LookToUnhook, BootoutAndRemove, AfterBootout, RemoveRoot, RemoveConfig, CutShort, HookStarts,
           HookEnqueues, DaemonStarts, DaemonSaves, DaemonStops, Login
<1> QED
    BY <1>1, <1>2, <1>3, <1>4, <1>5

(* init and uninstall leave the core.hooksPath of others alone, unless it  *)
(* was set between their look at it and their change of it.                *)
THEOREM OthersPathKept == SetupSpec => OthersHooksKept
<1>1. SetupInit => SetupTypeOK /\ MaySet
    BY TypeInit DEF SetupInit, MaySet
<1>2. (SetupTypeOK /\ MaySet) /\ [SetupNext]_setupVars => (SetupTypeOK /\ MaySet)'
    BY TypeStep, MaySetStep
<1> QED
    BY <1>1, <1>2, OthersStep, PTL DEF SetupSpec, OthersHooksKept

-----------------------------------------------------------------------------
(* What an uninstall leaves *)

(* The files of the root are gone when it is, and what could make the root *)
(* again was running then, was started by the user since, or is a daemon   *)
(* of the service that was not booted out.                                 *)
RemovedIsGone ==
    Removed =>
        /\ \A f \in RootFiles : disk[f] = "none"
        /\ data \/ running \/ hookRuns => lingering \/ unbooted

UnloadedOrUnbooted == step = "root" \/ Removed => (loaded => unbooted)

PlistGone == step = "root" \/ Removed => disk["plist"] = "none"

UnhookedOrBlind ==
    step \in {"unplist", "root"} \/ Removed => (hooksPath = "managed" => seen = "nogit")

PlannedGone ==
    outcome = "uninstalled" => step = "idle" /\ disk[planned] = "none"

LeavingInv == RemovedIsGone /\ UnloadedOrUnbooted /\ PlistGone /\ UnhookedOrBlind /\ PlannedGone

LEMMA LeavingStep == SetupTypeOK /\ LeavingInv /\ [SetupNext]_setupVars => LeavingInv'
<1> SUFFICES ASSUME SetupTypeOK, LeavingInv, [SetupNext]_setupVars PROVE LeavingInv'
    OBVIOUS
<1> USE DEF localVars, leftVars, fixedVars, gitVars, serviceVars
<1> USE DEF SetupTypeOK, LeavingInv, RemovedIsGone, UnloadedOrUnbooted, PlistGone, UnhookedOrBlind, PlannedGone,
           Removed, Loads, Files, RootFiles, Choices, ConfigPaths
<1>1. CASE UNCHANGED setupVars
    BY <1>1 DEF setupVars
<1>2. CASE StartInit
    BY <1>2, HookFacts DEF StartInit, Start
<1>3. CASE MakeDirs
    BY <1>3, HookFacts DEF MakeDirs, GoOn
<1>4. CASE WriteConfig
    BY <1>4, HookFacts DEF WriteConfig, Write, Written, GoOn
<1>5. CASE WriteManifest
    BY <1>5, HookFacts DEF WriteManifest, Write, Written, GoOn
<1>6. CASE WriteManagedHooks
    BY <1>6, HookFacts DEF WriteManagedHooks, Write, Written, GoOn
<1>7. CASE LookAtHooksPath
    BY <1>7, HookFacts DEF LookAtHooksPath, Asks
<1>8. CASE SetHooksPath
    BY <1>8, HookFacts DEF SetHooksPath, GoOn
<1>9. CASE StartDaemonOrNot
    BY <1>9, HookFacts DEF StartDaemonOrNot, GoOn, EndWith
<1>10. CASE WritePlist
    BY <1>10, HookFacts DEF WritePlist, Write, Written, GoOn
<1>11. CASE RestartService
    BY <1>11, HookFacts DEF RestartService, GoOn
<1>12. CASE AwaitDaemon
    BY <1>12, HookFacts DEF AwaitDaemon, GoOn, EndWith
<1>13. CASE ImportAtInit
    BY <1>13, HookFacts DEF ImportAtInit, EndWith
<1>14. CASE StartEmbedder
    BY <1>14, HookFacts DEF StartEmbedder, Start, EndWith
<1>15. CASE WriteEmbedder
    BY <1>15, HookFacts DEF WriteEmbedder, EndWith
<1>16. CASE StartUninstall
    BY <1>16, HookFacts DEF StartUninstall, Start, EndWith
<1>17. CASE LoadManifest
    BY <1>17, HookFacts DEF LoadManifest, EndWith
<1>18. CASE LookToUnhook
    BY <1>18, HookFacts DEF LookToUnhook, Asks
<1>19. CASE UnsetHooksPath
    BY <1>19, HookFacts DEF UnsetHooksPath, GoOn, EndWith
<1>20. CASE BootoutAndRemove
    <2>1. /\ step = "unplist" /\ step' = "root" /\ disk' = [disk EXCEPT !["plist"] = "none"]
          /\ UNCHANGED <<outcome, hooksPath, seen>>
        BY <1>20 DEF BootoutAndRemove, AfterBootout
    <2>2. ~Removed'
        BY <2>1
    <2>3. loaded' => unbooted'
        <3>1. BootsOut => ~loaded'
            BY DEF BootsOut
        <3>2. ASSUME BootoutFails
              PROVE  loaded' => unbooted'
            <4>1. loaded' = unbooted'
                BY <3>2 DEF BootoutFails
            <4> QED
                BY <4>1, Zenon
        <3> QED
            BY <1>20, <3>1, <3>2 DEF BootoutAndRemove
    <2>4. disk'["plist"] = "none"
        BY <2>1
    <2> QED
        BY <2>1, <2>2, <2>3, <2>4
<1>21. CASE RemoveRoot
    BY <1>21, HookFacts DEF RemoveRoot, Without
<1>22. CASE RemoveConfig
    BY <1>22, HookFacts DEF RemoveConfig, EndWith
<1>23. CASE CutShort
    BY <1>23, HookFacts DEF CutShort, EndWith, Leftovers, Torn, PartlyRemoved, Without
<1>24. CASE UserSetsHooksPath
    BY <1>24, HookFacts DEF UserSetsHooksPath
<1>25. CASE HookStarts
    BY <1>25, HookFacts DEF HookStarts, Outside
<1>26. CASE HookEnqueues
    BY <1>26, HookFacts DEF HookEnqueues, Outside
<1>27. CASE DaemonStarts
    BY <1>27, HookFacts DEF DaemonStarts, Outside
<1>28. CASE DaemonSaves
    BY <1>28, HookFacts DEF DaemonSaves, Outside
<1>29. CASE DaemonStops
    BY <1>29, HookFacts DEF DaemonStops, Outside
<1>30. CASE Login
    BY <1>30, HookFacts DEF Login, Outside
<1> QED
    BY <1>1, <1>2, <1>3, <1>4, <1>5, <1>6, <1>7, <1>8, <1>9, <1>10, <1>11,
       <1>12, <1>13, <1>14, <1>15, <1>16, <1>17, <1>18, <1>19, <1>20, <1>21,
       <1>22, <1>23, <1>24, <1>25, <1>26, <1>27, <1>28, <1>29, <1>30
       DEF SetupNext, InitStep, EmbedderStep, UninstallStep

(* For any number of kills and failed calls, an uninstall that succeeds    *)
(* leaves nothing that launchd has, unless its bootout failed; and the     *)
(* root comes back only by what was running when it was removed, by what   *)
(* the user starts later, or by the service of a bootout that failed.      *)
THEOREM NothingIsLeft == SetupSpec => []UninstallLeavesNothing
<1>1. SetupInit => SetupTypeOK /\ LeavingInv
    BY TypeInit DEF SetupInit, LeavingInv, RemovedIsGone, UnloadedOrUnbooted, PlistGone, UnhookedOrBlind,
       PlannedGone, Removed
<1>2. (SetupTypeOK /\ LeavingInv) /\ [SetupNext]_setupVars => (SetupTypeOK /\ LeavingInv)'
    BY TypeStep, LeavingStep
<1>3. LeavingInv => UninstallLeavesNothing
    BY DEF LeavingInv, RemovedIsGone, UnloadedOrUnbooted, PlistGone, UnhookedOrBlind, PlannedGone, Removed,
       UninstallLeavesNothing
<1> QED
    BY <1>1, <1>2, <1>3, PTL DEF SetupSpec

(***************************************************************************)
(* The bulk import                                                         *)
(***************************************************************************)

(* The keys and the texts are those of the source.                         *)
LEMMA KeysFixed ==
    ASSUME UNCHANGED source
    PROVE  UNCHANGED <<Places, StoreKeys, ItemTexts>>
<1>1. UNCHANGED Places
    BY DEF Places
<1>2. \A p : /\ Item(p)' = Item(p) /\ IsRecord(p)' = IsRecord(p) /\ KeyOf(p)' = KeyOf(p)
    BY DEF Item, IsRecord, KeyOf, stableID, Format
<1> QED
    BY <1>1, <1>2 DEF StoreKeys, ItemTexts

LEMMA ImportTypeStep == BulkImportTypeOK /\ [BulkImportNext]_importVars => BulkImportTypeOK'
<1> SUFFICES ASSUME BulkImportTypeOK, [BulkImportNext]_importVars PROVE BulkImportTypeOK'
    OBVIOUS
<1> USE DEF BulkImportTypeOK
<1>1. CASE UNCHANGED importVars
    BY <1>1, KeysFixed DEF importVars
<1>2. CASE UNCHANGED <<source, stored>>
    <2>1. UNCHANGED <<StoreKeys, ItemTexts>>
        BY <1>2, KeysFixed
    <2>2. at' \in (Nat \ {0}) \X (Nat \ {0})
        BY DEF BulkImportNext, StartRun, SkipFile, SkipItem, AddItem, AddFails, DecodeFails,
               ReadFails, NextFile, FinishRun, OtherClient, Onward, importVars
    <2> QED
        BY <1>2, <2>1, <2>2, ImportAssumption
           DEF BulkImportNext, StartRun, SkipFile, SkipItem, AddItem, AddFails, DecodeFails,
               ReadFails, NextFile, FinishRun, OtherClient, Break, importVars
<1>3. ASSUME NEW i \in StoreKeys, NEW t \in ItemTexts, stored' = [stored EXCEPT ![i] = t],
             UNCHANGED source
      PROVE  stored' \in [StoreKeys -> ItemTexts]' /\ StoreKeys' = StoreKeys
    BY <1>3, KeysFixed
<1>4. CASE AddItem \/ AddFails
    <2>1. at \in Places /\ KeyOf(at) \in StoreKeys /\ at \in ItemTexts
        BY <1>4 DEF AddItem, AddFails, AtItem, StoreKeys, ItemTexts
    <2>2. CASE UNCHANGED stored
        BY <1>2, <1>4, <2>2 DEF AddItem, AddFails
    <2>3. CASE stored' = [stored EXCEPT ![KeyOf(at)] = at]
        <3>1. UNCHANGED source /\ stored' \in [StoreKeys -> ItemTexts]'
            BY <1>3, <1>4, <2>1, <2>3 DEF AddItem, AddFails
        <3>2. at' \in (Nat \ {0}) \X (Nat \ {0}) /\ imported' \in Nat
            BY <1>4 DEF AddItem, AddFails, Onward
        <3>3. /\ progress' \in {"running", "failed", progress}
              /\ breaks' \in 0 .. MaxBreaks
              /\ UNCHANGED <<skipped, runs, changed>>
            BY <1>4, ImportAssumption DEF AddItem, AddFails, Break
        <3>4. UNCHANGED StoreKeys
            BY <3>1, KeysFixed
        <3> QED
            BY <3>1, <3>2, <3>3, <3>4
    <2> QED
        BY <1>4, <2>2, <2>3 DEF AddItem, AddFails
<1>5. ASSUME NEW i \in StoreKeys, OtherClient(i)
      PROVE  BulkImportTypeOK'
    BY <1>3, <1>5 DEF OtherClient, ItemTexts
<1> QED
    BY <1>1, <1>2, <1>4, <1>5
       DEF BulkImportNext, StartRun, SkipFile, SkipItem, DecodeFails, ReadFails, NextFile, FinishRun

LEMMA ImportTypeInit == BulkImportInit => BulkImportTypeOK
BY ImportAssumption DEF BulkImportInit, BulkImportTypeOK, ItemTexts

(* The types of the import: it only ever writes under the keys of its records. *)
THEOREM ImportTypeCorrect == BulkImportSpec => []BulkImportTypeOK
BY ImportTypeInit, ImportTypeStep, PTL DEF BulkImportSpec

(* A source is a sequence of files, and a file of items. *)
LEMMA PlacesTyped ==
    ASSUME BulkImportTypeOK
    PROVE  /\ DOMAIN source.files = 1 .. Len(source.files) /\ Len(source.files) \in Nat
           /\ \A p \in Places :
                /\ p = <<p[1], p[2]>> /\ p[1] \in DOMAIN source.files
                /\ p[1] \in Nat \ {0} /\ p[2] \in Nat \ {0}
           /\ \A f \in DOMAIN source.files :
                /\ Len(source.files[f].items) \in Nat
                /\ DOMAIN source.files[f].items = 1 .. Len(source.files[f].items)
                /\ \A n \in DOMAIN source.files[f].items : <<f, n>> \in Places
<1> DEFINE FileSet == [format : {"jsonl", "text", "unknown"},
                       items : Seq(RecordLines \cup {Blank, BadLine})]
<1>1. source.files \in Seq(FileSet)
    BY ImportAssumption DEF BulkImportTypeOK
<1>2. /\ DOMAIN source.files = 1 .. Len(source.files) /\ Len(source.files) \in Nat
      /\ \A f \in DOMAIN source.files : source.files[f].items \in Seq(RecordLines \cup {Blank, BadLine})
    <2>1. \A x \in FileSet : x.items \in Seq(RecordLines \cup {Blank, BadLine})
        OBVIOUS
    <2> HIDE DEF FileSet
    <2> QED
        BY <1>1, <2>1
<1>3. \A f \in DOMAIN source.files :
        /\ Len(source.files[f].items) \in Nat
        /\ DOMAIN source.files[f].items = 1 .. Len(source.files[f].items)
        /\ \A n \in DOMAIN source.files[f].items : <<f, n>> \in Places
    BY <1>2 DEF Places
<1>4. \A p \in Places : \E f \in DOMAIN source.files :
                            \E n \in DOMAIN source.files[f].items : p = <<f, n>>
    BY DEF Places
<1>5. ASSUME NEW p \in Places
      PROVE  p = <<p[1], p[2]>> /\ p[1] \in DOMAIN source.files
             /\ p[1] \in Nat \ {0} /\ p[2] \in Nat \ {0}
    <2>1. PICK f \in DOMAIN source.files : \E n \in DOMAIN source.files[f].items : p = <<f, n>>
        BY <1>4
    <2>2. PICK n \in DOMAIN source.files[f].items : p = <<f, n>>
        BY <2>1
    <2>3. f \in Nat \ {0} /\ n \in Nat \ {0}
        BY <1>2, <1>3
    <2> QED
        BY <2>2, <2>3
<1> QED
    BY <1>2, <1>3, <1>5

(* The places before the next item, after each way to go on. *)
LEMMA GoOnPlaces ==
    ASSUME BulkImportTypeOK, NEW p \in Places
    PROVE  /\ AtItem /\ Onward => (Before(p, at)' <=> Before(p, at) \/ p = at)
           /\ NextFile => (Before(p, at)' <=> Before(p, at))
           /\ SkipFile => (Before(p, at)' <=> Before(p, at) \/ p[1] = at[1])
           /\ ~Before(at, at) /\ (Before(p, at) => ~Before(at, p))
<1>1. /\ at = <<at[1], at[2]>> /\ at[1] \in Nat \ {0} /\ at[2] \in Nat \ {0}
      /\ p = <<p[1], p[2]>> /\ p[1] \in Nat \ {0} /\ p[2] \in Nat \ {0}
    BY PlacesTyped DEF BulkImportTypeOK
<1>2. p = at <=> p[1] = at[1] /\ p[2] = at[2]
    BY <1>1
<1>3. AtItem /\ Onward => (Before(p, at)' <=> Before(p, at) \/ p = at)
    BY <1>1, <1>2 DEF Onward, Before
<1>4. ASSUME NextFile
      PROVE  Before(p, at)' <=> Before(p, at)
    <2>1. at' = <<at[1] + 1, 1>> /\ at[1] \in DOMAIN source.files /\ at \notin Places
        BY <1>4 DEF NextFile, Running
    <2>2. at[2] \notin DOMAIN source.files[at[1]].items
        BY <1>1, <2>1, PlacesTyped
    <2>3. at[2] > Len(source.files[at[1]].items) /\ Len(source.files[at[1]].items) \in Nat
        BY <1>1, <2>1, <2>2, PlacesTyped
    <2>4. p[1] = at[1] => p[2] \in DOMAIN source.files[at[1]].items
        BY <1>1 DEF Places
    <2>5. p[1] = at[1] => p[2] < at[2]
        BY <1>1, <2>1, <2>3, <2>4, PlacesTyped
    <2> QED
        BY <1>1, <2>1, <2>5 DEF Before
<1>5. SkipFile => (Before(p, at)' <=> Before(p, at) \/ p[1] = at[1])
    BY <1>1 DEF SkipFile, Before
<1>6. ~Before(at, at) /\ (Before(p, at) => ~Before(at, p))
    BY <1>1 DEF Before
<1> QED
    BY <1>3, <1>4, <1>5, <1>6

(* What the run has got past is one record more, or the same. *)
LEMMA PassedGrows ==
    ASSUME BulkImportTypeOK, UNCHANGED source
    PROVE  /\ AddItem => Passed' = Passed \cup {at} /\ at \notin Passed
           /\ SkipItem \/ SkipFile \/ NextFile => Passed' = Passed
           /\ UNCHANGED at => Passed' = Passed
<1> DEFINE Kept(p) == Format(p[1]) # "unknown" /\ IsRecord(p)
<1>1. /\ Places' = Places
      /\ \A p \in Places : Kept(p)' <=> Kept(p)
    BY DEF Places, Format, IsRecord, Item
<1>2. /\ Passed = {p \in Places : Before(p, at) /\ Kept(p)}
      /\ Passed' = {p \in Places : Before(p, at)' /\ Kept(p)}
    BY <1>1 DEF Passed
<1>3. ASSUME AddItem
      PROVE  Passed' = Passed \cup {at} /\ at \notin Passed
    <2>1. AtItem /\ Onward /\ at \in Places /\ Kept(at)
        BY <1>3 DEF AddItem, AtItem
    <2> HIDE DEF Kept
    <2> QED
        BY <1>2, <2>1, GoOnPlaces
<1>4. ASSUME SkipItem
      PROVE  Passed' = Passed
    <2>1. AtItem /\ Onward /\ ~Kept(at)
        BY <1>4, ImportAssumption DEF SkipItem, IsRecord
    <2> HIDE DEF Kept
    <2> QED
        BY <1>2, <2>1, GoOnPlaces
<1>5. ASSUME SkipFile
      PROVE  Passed' = Passed
    <2>1. \A p \in Places : p[1] = at[1] => ~Kept(p)
        BY <1>5 DEF SkipFile
    <2> HIDE DEF Kept
    <2> QED
        BY <1>2, <1>5, <2>1, GoOnPlaces
<1>6. ASSUME NextFile
      PROVE  Passed' = Passed
    <2> HIDE DEF Kept
    <2> QED
        BY <1>2, <1>6, GoOnPlaces
<1>7. UNCHANGED at => Passed' = Passed
    BY <1>2 DEF Before
<1> QED
    BY <1>3, <1>4, <1>5, <1>6, <1>7

(* A line that does not decode is never got past. *)
NoBadLinePassed ==
    \A p \in Places : Before(p, at) /\ Item(p) = BadLine => Format(p[1]) = "unknown"

(* Each record the run has got past is there, or a later one with its key. *)
LastOfKey ==
    \A p \in Passed :
        \/ KeyOf(p) \in changed
        \/ \E q \in Passed : KeyOf(q) = KeyOf(p) /\ ~Before(q, p) /\ stored[KeyOf(p)] = q

ImportInv ==
    progress \in {"running", "done"} =>
        /\ IsFiniteSet(Passed) /\ imported = Cardinality(Passed)
        /\ LastOfKey /\ NoBadLinePassed

LEMMA ImportStep ==
    ASSUME BulkImportTypeOK, ImportInv, [BulkImportNext]_importVars
    PROVE  ImportInv'
<1> USE DEF ImportInv
<1>1. ASSUME UNCHANGED source
      PROVE  /\ Places' = Places
             /\ \A p \in Places : /\ KeyOf(p)' = KeyOf(p) /\ Item(p)' = Item(p)
                                  /\ Format(p[1])' = Format(p[1])
    BY <1>1 DEF Places, KeyOf, sanitizePK, Item, Format, stableID
<1>2. Passed \subseteq Places
    BY DEF Passed
<1>3. CASE UNCHANGED <<source, at, imported, stored, changed>> /\ progress \in {"running", "done"}
    <2>1. Passed' = Passed
        BY <1>3, PassedGrows
    <2>2. LastOfKey => LastOfKey'
        BY <1>1, <1>2, <1>3, <2>1 DEF LastOfKey, Before
    <2>3. NoBadLinePassed => NoBadLinePassed'
        BY <1>1, <1>3 DEF NoBadLinePassed, Before
    <2> QED
        BY <1>3, <2>1, <2>2, <2>3
<1>4. CASE StartRun
    <2>1. at' = <<1, 1>> /\ UNCHANGED source /\ imported' = 0
        BY <1>4 DEF StartRun
    <2>2. \A p \in Places : ~Before(p, at)'
        <3>1. \A p \in Places : p[1] \in Nat \ {0} /\ p[2] \in Nat \ {0}
            BY PlacesTyped
        <3> QED
            BY <2>1, <3>1 DEF Before
    <2>3. Passed' = {} /\ NoBadLinePassed'
        BY <1>1, <2>1, <2>2 DEF Passed, NoBadLinePassed
    <2> QED
        BY <2>1, <2>3, FS_EmptySet DEF LastOfKey
<1>5. CASE SkipItem \/ SkipFile \/ NextFile
    <2>1. /\ Passed' = Passed
          /\ UNCHANGED <<source, stored, changed, imported, progress>> /\ progress = "running"
        BY <1>5, PassedGrows DEF SkipItem, SkipFile, NextFile, AtItem, Running
    <2>2. LastOfKey'
        BY <1>1, <1>2, <2>1 DEF LastOfKey, Before
    <2>3. NoBadLinePassed'
        <3>1. SkipItem => Item(at) # BadLine /\ AtItem /\ Onward
            BY ImportAssumption DEF SkipItem
        <3>2. SkipFile => Format(at[1]) = "unknown"
            BY DEF SkipFile
        <3> QED
            BY <1>1, <1>5, <2>1, <3>1, <3>2, GoOnPlaces DEF NoBadLinePassed
    <2> QED
        BY <2>1, <2>2, <2>3
<1>6. CASE AddItem
    <2>1. /\ Passed' = Passed \cup {at} /\ at \notin Passed
          /\ UNCHANGED <<source, changed, progress>> /\ progress = "running"
          /\ imported' = imported + 1 /\ at \in Places /\ AtItem /\ Onward
          /\ stored' = [stored EXCEPT ![KeyOf(at)] = at] /\ Item(at) # BadLine
        BY <1>6, PassedGrows, ImportAssumption DEF AddItem, AtItem, Running, IsRecord
    <2>2. IsFiniteSet(Passed') /\ imported' = Cardinality(Passed')
        BY <2>1, FS_AddElement
    <2>3. LastOfKey'
        <3>1. stored \in [StoreKeys -> ItemTexts] /\ KeyOf(at) \in StoreKeys
            BY <1>6 DEF BulkImportTypeOK, AddItem, AtItem, StoreKeys
        <3>2. ASSUME NEW p \in Passed'
              PROVE  \/ KeyOf(p) \in changed
                     \/ \E q \in Passed' : /\ KeyOf(q) = KeyOf(p) /\ ~Before(q, p)
                                           /\ stored'[KeyOf(p)] = q
            <4>1. CASE KeyOf(p) = KeyOf(at)
                <5>1. ~Before(at, p) /\ stored'[KeyOf(p)] = at
                    BY <1>2, <2>1, <3>1, <4>1, GoOnPlaces DEF Passed
                <5> QED
                    BY <2>1, <4>1, <5>1
            <4>2. CASE KeyOf(p) # KeyOf(at)
                <5>1. p \in Passed /\ stored'[KeyOf(p)] = stored[KeyOf(p)]
                    BY <2>1, <3>1, <4>2
                <5> QED
                    BY <2>1, <5>1 DEF LastOfKey
            <4> QED
                BY <4>1, <4>2
        <3> QED
            BY <1>1, <1>2, <2>1, <3>2 DEF LastOfKey, Before
    <2>4. NoBadLinePassed'
        BY <1>1, <2>1, GoOnPlaces DEF NoBadLinePassed
    <2> QED
        BY <2>2, <2>3, <2>4
<1>7. ASSUME NEW i \in StoreKeys, OtherClient(i)
      PROVE  ImportInv'
    <2>1. /\ UNCHANGED <<source, at, imported, progress>> /\ changed' = changed \cup {i}
          /\ \A j \in StoreKeys : j # i => stored'[j] = stored[j]
        BY <1>7 DEF OtherClient, BulkImportTypeOK
    <2>0. \A p \in Passed : KeyOf(p) \in StoreKeys
        BY DEF Passed, StoreKeys
    <2>2. Passed' = Passed
        BY <2>1, PassedGrows
    <2>3. LastOfKey => LastOfKey'
        BY <1>1, <1>2, <2>0, <2>1, <2>2 DEF LastOfKey, Before
    <2>4. NoBadLinePassed => NoBadLinePassed'
        BY <1>1, <2>1 DEF NoBadLinePassed, Before
    <2> QED
        BY <2>1, <2>2, <2>3, <2>4
<1>8. CASE \/ progress' = progress /\ progress \notin {"running", "done"}
          \/ progress' = "failed"
    BY <1>8
<1> QED
    BY <1>3, <1>4, <1>5, <1>6, <1>7, <1>8
       DEF BulkImportNext, AddFails, DecodeFails, ReadFails, FinishRun, importVars

(* What a run of the import that has not failed got past is in the store,   *)
(* and counted, whatever earlier runs left there and other clients do.      *)
THEOREM ImportIsWhole == BulkImportSpec => []ImportedWhole
<1>1. BulkImportInit => ImportInv
    BY DEF BulkImportInit, ImportInv
<1>2. BulkImportTypeOK /\ ImportInv /\ [BulkImportNext]_importVars => ImportInv'
    BY ImportStep
<1>3. ImportInv => ImportedWhole
    BY DEF ImportInv, ImportedWhole, LastOfKey, NoBadLinePassed
<1> QED
    BY <1>1, <1>2, <1>3, ImportTypeInit, ImportTypeStep, PTL DEF BulkImportSpec

(***************************************************************************)
(* The programs together                                                   *)
(***************************************************************************)

(* Of the variables of two programs only recs is shared.                   *)
LEMMA EachStarts ==
    Init => /\ OpeningInit /\ BulkImportInit /\ SetupInit
            /\ LiveStoreInit /\ ExplorerInit /\ ContextInit
BY DEF Init

LEMMA OnlyOneMoves ==
    ASSUME [Next]_toolVars
    PROVE  /\ [OpeningNext]_openingVars
           /\ [BulkImportNext]_importVars
           /\ [ExplorerNext]_<<recs, explorerVars>>
           /\ [ContextNext]_<<recs, contextVars>>
           /\ [SetupNext]_setupVars
<1>1. CASE UNCHANGED toolVars
    BY <1>1 DEF toolVars
<1>2. CASE Opens
    BY <1>2 DEF Opens, OpensBy
<1>3. CASE Imports
    BY <1>3 DEF Imports
<1>4. CASE Explores
    <2>1. [ContextNext]_<<recs, contextVars>>
        BY <1>4 DEF Explores, ExplorerNext, ContextNext
    <2> QED
        BY <1>4, <2>1 DEF Explores
<1>5. CASE BuildsContext
    <2>1. [ExplorerNext]_<<recs, explorerVars>>
        BY <1>5 DEF BuildsContext, ExplorerNext, ContextNext
    <2> QED
        BY <1>5, <2>1 DEF BuildsContext
<1>6. CASE SetsUp
    BY <1>6 DEF SetsUp
<1> QED
    BY <1>1, <1>2, <1>3, <1>4, <1>5, <1>6 DEF Next

(* Whatever one process runs is a behaviour of each of the programs: the   *)
(* one that runs takes its steps, and to every other it is a client of the *)
(* store or nothing at all.                                                *)
THEOREM ToolsAreEach ==
    Spec => OpeningSpec /\ BulkImportSpec /\ ExplorerSpec /\ ContextSpec /\ SetupSpec
<1>1. [Next]_toolVars =>
          /\ [OpeningNext]_openingVars
          /\ [BulkImportNext]_importVars
          /\ [ExplorerNext]_<<recs, explorerVars>>
          /\ [ContextNext]_<<recs, contextVars>>
          /\ [SetupNext]_setupVars
    BY OnlyOneMoves
<1> QED
    BY <1>1, EachStarts, PTL
       DEF Spec, OpeningSpec, BulkImportSpec, ExplorerSpec, ContextSpec, SetupSpec

(* The types of the whole: one program runs, and each program, running or  *)
(* not, keeps its own.                                                     *)
THEOREM ToolsTypeCorrect == Spec => []ToolsTypeOK
<1>1. Init => tool \in Tools
    BY DEF Init
<1>2. tool \in Tools /\ [Next]_toolVars => (tool \in Tools)'
    BY DEF Next, toolVars, Opens, OpensBy, Imports, Explores, BuildsContext, SetsUp
<1>3. Spec => [](tool \in Tools)
    BY <1>1, <1>2, PTL DEF Spec
<1>4. ExplorerInv => LiveStoreTypeOK /\ ExplorerTypeOK
    BY DEF ExplorerInv
<1>5. /\ tool \in Tools
      /\ OpeningTypeOK /\ BulkImportTypeOK
      /\ LiveStoreTypeOK /\ ExplorerTypeOK /\ ContextTypeOK
      /\ SetupTypeOK
      => ToolsTypeOK
    BY DEF ToolsTypeOK
<1> QED
    BY <1>3, <1>4, <1>5, ToolsAreEach, OpeningTypeCorrect, ImportTypeCorrect, ExplorerAlways,
       ContextTypeCorrect, SetupTypeCorrect, PTL

(* What is proved of each program holds of the whole.                      *)
THEOREM ToolsKeepPromises ==
    Spec => /\ [](MigratedWhole /\ ImportedWhole)
            /\ [](SelectionVisible /\ PageFull)
            /\ [](WithinBudget /\ FairShare /\ BetterRanksFirst)
            /\ [](HooksLive /\ UninstallLeavesNothing)
            /\ ClientRecordsStand /\ OthersHooksKept
BY ToolsAreEach, MigrationComplete, ImportIsWhole, SelectionStaysVisible, PagesStayFull,
   AnswersFitBudget, SharesAreFair, BestRankFirst, HooksStayLive, NothingIsLeft,
   OpeningKeepsRecords, OthersPathKept, PTL
=============================================================================
