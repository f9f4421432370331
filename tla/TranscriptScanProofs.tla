------------------------- MODULE TranscriptScanProofs -------------------------
(***************************************************************************)
(* For every set of sessions and roots and all bounds: TranscriptScan keeps *)
(* its types, marks a session only when what it held is summarized, gives   *)
(* up on one only after failures of its own, and summarizes nothing twice.  *)
(***************************************************************************)
EXTENDS TranscriptScan, IngestStateProofs, TLAPS

(* The inductive invariant: types, and four facts about the State.  The     *)
(* attempts it counts have failed or were lost to a shutdown ...            *)
Charged(i, s, n) == i.attempts = 0 \/ i.attempts <= fails[s][i.fp] + n

AllCharged == \A s \in Sessions : Charged(mem[s], s, stops) /\ Charged(disk[s], s, stops)

(* ... the shutdown under way not having taken one yet from the sessions    *)
(* the root still has ...                                                   *)
Scanning == pc \in {"walk", "read", "digest"}

NotChargedYet ==
    /\ cancelled => stops > 0 /\ \A s \in left : Charged(mem[s], s, stops - 1)
    /\ ~Scanning => left = {}

(* ... what it knows of a session is never ahead of it, and without faults  *)
(* what was summarized is known, or something later is ...                  *)
Known == IF pc = "idle" THEN disk ELSE mem

NotAhead ==
    \A s \in Sessions : \A i \in {mem[s], disk[s]} : i.fp = NoFp \/ i.fp <= version[s]

Knows(i, f) == i.fp # NoFp /\ f <= i.fp /\ (i.fp = f => i.status = "processed")

Remembered ==
    faults = 0 => \A s \in Sessions, f, v \in Versions :
        <<s, f, v>> \in whole => Knows(Known[s], f)

(* ... and a session in hand is there with a fingerprint that is not known. *)
News(i, f) == i.fp = NoFp \/ i.fp < f \/ (i.fp = f /\ i.status = "failed")

HandIsNews == pc \in {"read", "digest"} => fp <= version[cur] /\ News(mem[cur], fp)

IInv ==
    /\ TypeOK
    /\ ProcessedIsWhole
    /\ AllCharged /\ NotChargedYet
    /\ NotAhead /\ Remembered /\ HandIsNews

----------------------------------------------------------------------------
(* Lemmas about States *)

LEMMA VersionsAreNat == Versions \subseteq Nat /\ NoFp \notin Versions
BY ScanBounds, NoFpFresh DEF Versions

LEMMA BoundsAreNat ==
    /\ NumRoots \in Nat /\ MaxVersion \in Nat /\ MaxStops \in Nat /\ MaxFaults \in Nat
    /\ 0 \in Versions
BY ScanBounds DEF Versions

LEMMA StateFields ==
    ASSUME NEW m \in States, NEW s \in Sessions
    PROVE  /\ m[s] \in Inputs(Versions)
           /\ m[s].fp \in Versions \cup {NoFp}
           /\ m[s].attempts \in 0 .. MaxAttempts
           /\ m[s].status # "none" => m[s].fp \in Versions
BY InputFields DEF States

LEMMA NothingTyped ==
    /\ NothingKnown \in States
    /\ \A s \in Sessions : /\ NothingKnown[s].attempts = 0
                            /\ NothingKnown[s].status = "none"
                            /\ NothingKnown[s].fp = NoFp
BY NoInputTyped DEF NothingKnown, States

----------------------------------------------------------------------------
(* Each action keeps the invariant *)

LEMMA WriteKeeps ==
    ASSUME IInv, NEW s \in Sessions, Write(s) \/ Rest(s)
    PROVE  IInv'
<1> USE DEF IInv
<1>1. /\ \A t \in Sessions : version[t] <= version'[t]
      /\ version' \in [Sessions -> Versions]
      /\ kind' \in [Sessions -> Kinds]
      /\ idle' \subseteq Sessions
    <2>1. CASE Write(s)
        <3>1. version \in [Sessions -> Versions] /\ idle \subseteq Sessions
            BY DEF TypeOK
        <3>2. PICK most \in MaxWrites : version[s] < most[s]
            BY <2>1 DEF Write
        <3>3. version[s] \in Versions /\ most[s] \in 0 .. MaxVersion
            BY <3>1, <3>2, ScanBounds
        <3>4. version[s] + 1 \in Versions
            BY <3>2, <3>3, BoundsAreNat DEF Versions
        <3>5. \A t \in Sessions : version[t] <= version'[t]
            <4>1. \A t \in Sessions : version[t] \in Nat
                BY <3>1, VersionsAreNat
            <4> QED
                BY <2>1, <3>1, <4>1 DEF Write
        <3>6. kind' \in [Sessions -> Kinds]
            <4>1. PICK k \in KindsOf(s) : kind' = [kind EXCEPT ![s] = k]
                BY <2>1 DEF Write
            <4> QED
                BY <4>1 DEF TypeOK, KindsOf
        <3> QED
            BY <2>1, <3>1, <3>4, <3>5, <3>6 DEF Write
    <2>2. CASE Rest(s)
        <3>1. \A t \in Sessions : version[t] \in Nat
            BY VersionsAreNat DEF TypeOK
        <3> QED
            BY <2>2, <3>1 DEF Rest, TypeOK
    <2> QED
        BY <2>1, <2>2
<1>2. UNCHANGED <<disk, pc, mem, place, context, history>>
    BY DEF Write, Rest
<1>a. \A t \in Sessions, n \in Versions : n <= version[t] => n <= version'[t]
    <2> SUFFICES ASSUME NEW t \in Sessions, NEW n \in Versions, n <= version[t]
                 PROVE  n <= version'[t]
        OBVIOUS
    <2>1. n \in Nat /\ version[t] \in Nat /\ version'[t] \in Nat
        BY <1>1, VersionsAreNat DEF TypeOK
    <2> QED
        BY <1>1, <2>1
<1>3. TypeOK'
    <2>1. pc' = "digest" => fp' <= got' /\ got' <= version'[cur']
        BY <1>2, <1>a DEF TypeOK, place, hand
    <2> QED
        BY <1>1, <1>2, <2>1 DEF TypeOK, place, hand, context, history
<1>4. ProcessedIsWhole'
    <2> SUFFICES ASSUME NEW t \in Sessions, NEW i \in {mem[t], disk[t]}, i.status = "processed"
                 PROVE  \E v \in i.fp .. version'[t] : <<t, i.fp, v>> \in whole
        BY <1>2 DEF ProcessedIsWhole, history
    <2>1. PICK v \in i.fp .. version[t] : <<t, i.fp, v>> \in whole
        BY DEF ProcessedIsWhole
    <2>2. i.fp \in Versions
        BY StateFields DEF TypeOK
    <2>3. v \in i.fp .. version'[t]
        BY <1>1, <2>1, <2>2, VersionsAreNat DEF TypeOK
    <2> QED
        BY <2>1, <2>3
<1>5. AllCharged' /\ NotChargedYet'
    BY <1>2 DEF AllCharged, NotChargedYet, Charged, Scanning, place, context, history
<1>6. NotAhead'
    BY <1>2, <1>a, StateFields DEF NotAhead, TypeOK
<1>7. Remembered'
    BY <1>2 DEF Remembered, Known, Knows, context, history
<1>8. HandIsNews'
    BY <1>2, <1>a DEF HandIsNews, News, TypeOK, place, hand
<1> QED
    BY <1>3, <1>4, <1>5, <1>6, <1>7, <1>8

LEMMA ElapseKeeps ==
    ASSUME IInv, NEW n, Elapse(n)
    PROVE  IInv'
<1> USE DEF IInv
<1>1. UNCHANGED <<outside, pc, place, context, history>>
    BY DEF Elapse
<1>2. /\ mem' \in States /\ disk' \in States
      /\ \A s \in Sessions :
            /\ mem'[s].fp = mem[s].fp /\ disk'[s].fp = disk[s].fp
            /\ mem'[s].status = mem[s].status /\ disk'[s].status = disk[s].status
            /\ mem'[s].attempts = mem[s].attempts /\ disk'[s].attempts = disk[s].attempts
    BY ElapsedTyped DEF Elapse, TypeOK, States
<1>3. TypeOK'
    BY <1>1, <1>2 DEF TypeOK, outside, place, hand, context, history
<1>4. ProcessedIsWhole'
    BY <1>1, <1>2 DEF ProcessedIsWhole, outside, history
<1>5. AllCharged' /\ NotChargedYet'
    BY <1>1, <1>2 DEF AllCharged, NotChargedYet, Charged, Scanning, TypeOK, place, context, history
<1>6. NotAhead'
    BY <1>1, <1>2 DEF NotAhead, outside
<1>7. Remembered'
    BY <1>1, <1>2 DEF Remembered, Known, Knows, context, history
<1>8. HandIsNews'
    BY <1>1, <1>2 DEF HandIsNews, News, TypeOK, outside, place, hand
<1> QED
    BY <1>3, <1>4, <1>5, <1>6, <1>7, <1>8

(* A pass moves on, knowing what it knew. *)
LEMMA MoveKeeps ==
    ASSUME IInv, UNCHANGED <<outside, disk, mem, cancelled, stops, history>>,
           pc # "idle", pc' \in {"spool", "walk", "read", "digest", "save"},
           NoFault \/ Fault,
           root' \in 0 .. NumRoots, left' \subseteq Sessions,
           cur' \in Sessions \cup {NoSession}, fp' \in Versions, got' \in Versions,
           left' \subseteq left \/ ~cancelled,
           Scanning' \/ left' = {},
           pc' \in {"read", "digest"} =>
                cur' \in left' /\ fp' <= version[cur'] /\ News(mem[cur'], fp'),
           pc' = "digest" => fp' <= got' /\ got' <= version[cur']
    PROVE  IInv'
<1> USE DEF IInv
<1>1. faults' \in 0 .. MaxFaults /\ (faults' = 0 => faults = 0)
    BY ScanBounds DEF NoFault, Fault, TypeOK
<1>2. TypeOK'
    BY <1>1 DEF TypeOK, outside, history
<1>3. ProcessedIsWhole'
    BY DEF ProcessedIsWhole, outside, history
<1>4. AllCharged' /\ NotChargedYet'
    BY DEF AllCharged, NotChargedYet, Charged, history
<1>5. NotAhead'
    BY DEF NotAhead, outside
<1>6. Remembered'
    BY <1>1 DEF Remembered, Known, Knows, history
<1>7. HandIsNews'
    BY DEF HandIsNews, News, outside
<1> QED
    BY <1>2, <1>3, <1>4, <1>5, <1>6, <1>7

LEMMA StopKeeps ==
    ASSUME IInv, Stop \/ Restart
    PROVE  IInv'
<1> USE DEF IInv
<1>1. UNCHANGED <<outside, disk, pc, mem, place, faults, history>>
    BY DEF Stop, Restart
<1>2. TypeOK'
    <2>1. cancelled' \in BOOLEAN
        <3>1. cancelled' = TRUE \/ cancelled' = FALSE
            BY Zenon DEF Stop, Restart
        <3> QED
            BY <3>1, Zenon
    <2>2. stops' \in 0 .. MaxStops
        BY BoundsAreNat DEF Stop, Restart, TypeOK
    <2> QED
        BY <1>1, <2>1, <2>2 DEF TypeOK, outside, place, hand, history
<1>3. ProcessedIsWhole' /\ NotAhead' /\ Remembered' /\ HandIsNews'
    BY <1>1 DEF ProcessedIsWhole, NotAhead, Remembered, Known, Knows, HandIsNews, News,
               outside, place, hand, history
<1>4. AllCharged' /\ NotChargedYet'
    <2>1. CASE Restart
        BY <1>1, <2>1 DEF Restart, AllCharged, NotChargedYet, Charged, Scanning, place, history
    <2>2. CASE Stop
        <3>1. stops \in Nat /\ stops' = stops + 1
            BY <2>2, ScanBounds DEF Stop, TypeOK
        <3>2. ASSUME NEW s \in Sessions, NEW m \in States, Charged(m[s], s, stops)
              PROVE  Charged(m[s], s, stops + 1)
            <4>1. m[s].attempts \in Nat
                BY <3>2, StateFields, MaxAttemptsPositive
            <4>2. CASE m[s].attempts # 0
                <5>1. m[s].fp \in Versions
                    BY <4>2, InputFields DEF States
                <5>2. fails[s][m[s].fp] \in Nat
                    BY <5>1, MaxAttemptsPositive DEF TypeOK
                <5> QED
                    BY <3>1, <3>2, <4>1, <4>2, <5>2 DEF Charged
            <4> QED
                BY <4>2 DEF Charged
        <3>3. AllCharged'
            BY <1>1, <3>1, <3>2 DEF AllCharged, Charged, TypeOK, history
        <3>4. NotChargedYet'
            <4>1. \A s \in left : Charged(mem[s], s, stops)
                BY DEF AllCharged, TypeOK
            <4>2. stops' > 0 /\ stops' - 1 = stops
                BY <3>1
            <4>3. (\A s \in left : Charged(mem[s], s, stops - 1))'
                BY <1>1, <4>1, <4>2 DEF Charged, place, history
            <4> QED
                BY <1>1, <4>2, <4>3 DEF NotChargedYet, Scanning, place
        <3> QED
            BY <3>3, <3>4
    <2> QED
        BY <2>1, <2>2
<1> QED
    BY <1>2, <1>3, <1>4

LEMMA CrashKeeps ==
    ASSUME IInv, Crash
    PROVE  IInv'
<1> USE DEF IInv
<1>1. /\ UNCHANGED <<outside, disk, stops, history>>
      /\ mem' = NothingKnown /\ pc' = "idle" /\ left' = {} /\ ~cancelled'
      /\ faults' # 0 /\ faults' \in 0 .. MaxFaults
    BY ScanBounds DEF Crash, Fault, LeavePlace, TypeOK
<1>2. TypeOK'
    <2>1. root' = 0 /\ cur' = NoSession /\ fp' = 0 /\ got' = 0
        BY DEF Crash, LeavePlace
    <2>2. cancelled' \in BOOLEAN
        BY Zenon DEF Crash
    <2> QED
        BY <1>1, <2>1, <2>2, NothingTyped, BoundsAreNat DEF TypeOK, outside, history
<1>3. ProcessedIsWhole'
    BY <1>1, NothingTyped DEF ProcessedIsWhole, outside, history
<1>4. AllCharged' /\ NotChargedYet'
    BY <1>1, NothingTyped DEF AllCharged, NotChargedYet, Charged, Scanning, history
<1>5. NotAhead'
    BY <1>1, NothingTyped DEF NotAhead, outside
<1>6. Remembered' /\ HandIsNews'
    BY <1>1 DEF Remembered, HandIsNews
<1> QED
    BY <1>2, <1>3, <1>4, <1>5, <1>6

LEMMA LoadKeeps ==
    ASSUME IInv, Load
    PROVE  IInv'
<1> USE DEF IInv
<1>1. /\ UNCHANGED <<outside, disk, place, context, history>>
      /\ mem' = disk /\ pc = "idle" /\ pc' = "spool" /\ left' = {}
    BY DEF Load, NotChargedYet, Scanning, place
<1>2. TypeOK'
    BY <1>1 DEF TypeOK, outside, place, hand, context, history
<1>3. ProcessedIsWhole'
    BY <1>1 DEF ProcessedIsWhole, outside, history
<1>4. AllCharged' /\ NotChargedYet'
    BY <1>1 DEF AllCharged, NotChargedYet, Charged, Scanning, place, context, history
<1>5. NotAhead'
    BY <1>1 DEF NotAhead, outside
<1>6. Remembered' /\ HandIsNews'
    BY <1>1 DEF Remembered, Known, Knows, HandIsNews, context, history
<1> QED
    BY <1>2, <1>3, <1>4, <1>5, <1>6

LEMMA SaveKeeps ==
    ASSUME IInv, Save
    PROVE  IInv'
<1> USE DEF IInv
<1>1. /\ UNCHANGED <<outside, place, cancelled, stops, history>>
      /\ mem' = NothingKnown /\ pc = "save" /\ pc' = "idle"
      /\ \/ disk' = mem /\ faults' = faults
         \/ disk' = disk /\ faults' # 0 /\ faults' \in 0 .. MaxFaults
    BY ScanBounds DEF Save, Fault, NoFault, TypeOK
<1>2. TypeOK'
    BY <1>1, NothingTyped DEF TypeOK, outside, place, hand, history
<1>3. ProcessedIsWhole'
    BY <1>1, NothingTyped DEF ProcessedIsWhole, outside, history
<1>4. AllCharged' /\ NotChargedYet'
    BY <1>1, NothingTyped DEF AllCharged, NotChargedYet, Charged, Scanning, place, history
<1>5. NotAhead'
    BY <1>1, NothingTyped DEF NotAhead, outside
<1>6. Remembered' /\ HandIsNews'
    BY <1>1 DEF Remembered, Known, Knows, HandIsNews, history
<1> QED
    BY <1>2, <1>3, <1>4, <1>5, <1>6

LEMMA ProcessGitKeeps ==
    ASSUME IInv, ProcessGit
    PROVE  IInv'
<1>1. /\ UNCHANGED <<outside, disk, mem, cancelled, stops, history>>
      /\ pc # "idle" /\ pc' \in {"walk", "save"} /\ (NoFault \/ Fault)
      /\ root' = root /\ left' = left /\ cur' = cur /\ fp' = fp /\ got' = got
    BY DEF ProcessGit, place, hand
<1>2. left = {}
    BY DEF ProcessGit, IInv, NotChargedYet, Scanning
<1> QED
    BY <1>1, <1>2, MoveKeeps DEF IInv, TypeOK, Scanning

(* The scan ends. *)
LEMMA EndScanKeeps ==
    ASSUME IInv, EndScan, pc # "idle", NoFault \/ Fault,
           UNCHANGED <<outside, disk, cancelled, stops, history>>
    PROVE  IInv'
<1>1. /\ root' = 0 /\ left' = {} /\ cur' = NoSession /\ fp' = 0 /\ got' = 0
      /\ pc' = "save" /\ UNCHANGED mem
    BY DEF EndScan, LeavePlace
<1>2. 0 \in Versions /\ 0 \in 0 .. NumRoots
    BY ScanBounds DEF Versions
<1> QED
    BY <1>1, <1>2, MoveKeeps DEF Scanning

(* A session is passed over. *)
LEMMA PassKeeps ==
    ASSUME IInv, NEW s, Pass(s), pc # "idle", NoFault \/ Fault,
           UNCHANGED <<outside, disk, mem, cancelled, stops, history>>
    PROVE  IInv'
<1>1. /\ root' = root /\ left' = left \ {s} /\ cur' = NoSession /\ fp' = 0 /\ got' = 0
      /\ pc' = "walk"
    BY DEF Pass
<1>2. 0 \in Versions
    BY ScanBounds DEF Versions
<1> QED
    BY <1>1, <1>2, MoveKeeps DEF Scanning, IInv, TypeOK

LEMMA NextRootKeeps ==
    ASSUME IInv, NextRoot
    PROVE  IInv'
<1>1. UNCHANGED <<outside, disk, cancelled, stops, history>> /\ pc = "walk"
    BY DEF NextRoot
<1>2. CASE EndScan /\ (NoFault \/ Fault)
    BY <1>1, <1>2, EndScanKeeps
<1>3. CASE ~(EndScan /\ (NoFault \/ Fault))
    <2>1. /\ ~cancelled /\ root < NumRoots /\ root' = root + 1
          /\ left' = {s \in Sessions : RootOf[s] = root'}
          /\ NoFault /\ UNCHANGED <<pc, mem, hand>>
        BY <1>3 DEF NextRoot
    <2>2. root' \in 0 .. NumRoots
        BY <2>1, ScanBounds DEF IInv, TypeOK
    <2> QED
        BY <1>1, <2>1, <2>2, MoveKeeps DEF Scanning, IInv, TypeOK, hand
<1> QED
    BY <1>2, <1>3

(* What is new when a fingerprint is taken. *)
LEMMA ProcessedIsNews ==
    ASSUME IInv, NEW s \in Sessions, ShouldProcess(mem[s], version[s])
    PROVE  News(mem[s], version[s])
<1>1. mem[s].fp = NoFp \/ (mem[s].fp \in Nat /\ mem[s].fp <= version[s])
    BY StateFields, VersionsAreNat DEF IInv, NotAhead, TypeOK
<1>2. version[s] \in Nat
    BY VersionsAreNat DEF IInv, TypeOK
<1> QED
    BY <1>1, <1>2 DEF ShouldProcess, News

LEMMA VisitFileKeeps ==
    ASSUME IInv, NEW s \in Sessions, VisitFile(s)
    PROVE  IInv'
<1>1. /\ UNCHANGED <<outside, disk, mem, cancelled, stops, history>>
      /\ NoFault /\ pc = "walk" /\ s \in left
    BY DEF VisitFile, At, context, NoFault
<1>2. CASE InWindow(s) /\ ShouldProcess(mem[s], version[s])
    <2>1. /\ pc' = "read" /\ cur' = s /\ fp' = version[s]
          /\ root' = root /\ left' = left /\ got' = got
        BY <1>2 DEF VisitFile
    <2>2. News(mem[s], version[s]) /\ version[s] \in Versions /\ version[s] \in Nat
        BY <1>2, ProcessedIsNews, VersionsAreNat DEF IInv, TypeOK
    <2>3. fp' <= version[cur'] /\ News(mem[cur'], fp')
        BY <2>1, <2>2
    <2> QED
        BY <1>1, <2>1, <2>2, <2>3, MoveKeeps DEF Scanning, IInv, TypeOK
<1>3. CASE ~(InWindow(s) /\ ShouldProcess(mem[s], version[s]))
    BY <1>1, <1>3, PassKeeps DEF VisitFile
<1> QED
    BY <1>2, <1>3

LEMMA ExportKeeps ==
    ASSUME IInv, NEW s \in Sessions, Export(s)
    PROVE  IInv'
<1>1. UNCHANGED <<outside, disk, cancelled, stops, history>> /\ pc = "walk" /\ s \in left
    BY DEF Export, At
<1>2. CASE EndScan /\ (NoFault \/ Fault)
    BY <1>1, <1>2, EndScanKeeps
<1>3. CASE Pass(s) /\ UNCHANGED mem /\ NoFault
    BY <1>1, <1>3, PassKeeps
<1>4. CASE /\ ShouldProcess(mem[s], version[s]) /\ NoFault
           /\ pc' = "digest" /\ cur' = s /\ fp' = version[s] /\ got' = version[s]
           /\ UNCHANGED <<mem, root, left>>
    <2>1. News(mem[s], version[s]) /\ version[s] \in Versions /\ version[s] \in Nat
        BY <1>4, ProcessedIsNews, VersionsAreNat DEF IInv, TypeOK
    <2>2. fp' <= got' /\ got' <= version[cur'] /\ fp' <= version[cur'] /\ News(mem[cur'], fp')
        BY <1>4, <2>1
    <2> QED
        BY <1>1, <1>4, <2>1, <2>2, MoveKeeps DEF Scanning, IInv, TypeOK
<1> QED
    BY <1>2, <1>3, <1>4 DEF Export

(* The session in hand, and the State once it is marked. *)
LEMMA HandFacts ==
    ASSUME IInv, pc \in {"read", "digest"}
    PROVE  /\ cur \in left /\ cur \in Sessions
           /\ fp \in Versions /\ fp \in Nat /\ version[cur] \in Nat
           /\ fp <= version[cur] /\ News(mem[cur], fp)
           /\ mem[cur].fp # NoFp => mem[cur].fp \in Nat
           /\ ~Exhausted(mem[cur], fp)
<1>1. cur \in left /\ cur \in Sessions /\ fp \in Versions
    BY DEF IInv, TypeOK
<1>3. fp <= version[cur] /\ News(mem[cur], fp)
    BY DEF IInv, HandIsNews
<1>4. fp \in Nat /\ version[cur] \in Nat
    BY <1>1, VersionsAreNat DEF IInv, TypeOK
<1>5. mem[cur].fp # NoFp => mem[cur].fp \in Nat
    BY <1>1, StateFields, VersionsAreNat DEF IInv, TypeOK
<1>6. ~Exhausted(mem[cur], fp)
    BY <1>1, <1>3, <1>4, <1>5, VersionsAreNat DEF News, Exhausted
<1> QED
    BY <1>1, <1>3, <1>4, <1>5, <1>6

LEMMA MarkFacts ==
    ASSUME IInv, pc \in {"read", "digest"}, NoFault \/ Fault, Pass(cur),
           UNCHANGED <<outside, disk, cancelled, stops>>,
           NEW i \in Inputs(Versions), i.fp = fp, mem' = [mem EXCEPT ![cur] = i],
           fails' \in [Sessions -> [Versions -> 0 .. MaxAttempts]],
           whole' \subseteq Sessions \X Versions \X Versions
    PROVE  /\ mem'[cur] = i
           /\ \A s \in Sessions \ {cur} : mem'[s] = mem[s]
           /\ faults' = 0 => faults = 0
           /\ TypeOK' /\ NotAhead' /\ HandIsNews'
<1>1. cur \in Sessions /\ fp \in Nat /\ version[cur] \in Nat /\ fp <= version[cur]
    BY HandFacts
<1>2. mem' \in States /\ mem'[cur] = i /\ \A s \in Sessions \ {cur} : mem'[s] = mem[s]
    BY <1>1 DEF IInv, TypeOK, States
<1>3. faults' \in 0 .. MaxFaults /\ (faults' = 0 => faults = 0)
    BY BoundsAreNat DEF NoFault, Fault, IInv, TypeOK
<1>4. /\ root' = root /\ left' = left \ {cur} /\ cur' = NoSession /\ fp' = 0 /\ got' = 0
      /\ pc' = "walk"
    BY DEF Pass
<1>5. TypeOK'
    BY <1>2, <1>3, <1>4, BoundsAreNat DEF IInv, TypeOK, outside
<1>6. NotAhead'
    BY <1>1, <1>2 DEF IInv, NotAhead, outside
<1>7. HandIsNews'
    BY <1>4 DEF HandIsNews
<1> QED
    BY <1>2, <1>3, <1>5, <1>6, <1>7

(* Failures are counted where they happen, up to MaxAttempts. *)
LEMMA FailsGrow ==
    ASSUME IInv, cur \in Sessions, fp \in Versions, CountFailure \/ UNCHANGED fails
    PROVE  /\ fails' \in [Sessions -> [Versions -> 0 .. MaxAttempts]]
           /\ \A s \in Sessions, v \in Versions :
                /\ fails[s][v] \in 0 .. MaxAttempts /\ fails'[s][v] \in 0 .. MaxAttempts
                /\ fails[s][v] <= fails'[s][v]
           /\ CountFailure => \/ fails'[cur][fp] = MaxAttempts
                              \/ fails'[cur][fp] = fails[cur][fp] + 1
<1>1. fails \in [Sessions -> [Versions -> 0 .. MaxAttempts]]
    BY DEF IInv, TypeOK
<1>2. CASE UNCHANGED fails /\ ~CountFailure
    BY <1>1, <1>2, MaxAttemptsPositive
<1>3. CASE CountFailure
    <2> DEFINE more == IF fails[cur][fp] < MaxAttempts THEN fails[cur][fp] + 1 ELSE fails[cur][fp]
    <2>1. fails[cur] \in [Versions -> 0 .. MaxAttempts] /\ fails[cur][fp] \in 0 .. MaxAttempts
        BY <1>1
    <2>2. /\ more \in 0 .. MaxAttempts /\ fails[cur][fp] <= more
          /\ more = MaxAttempts \/ more = fails[cur][fp] + 1
        BY <2>1, MaxAttemptsPositive
    <2>3. fails' = [fails EXCEPT ![cur] = [fails[cur] EXCEPT ![fp] = more]]
        BY <1>3 DEF CountFailure
    <2> HIDE DEF more
    <2>4. /\ fails' \in [Sessions -> [Versions -> 0 .. MaxAttempts]]
          /\ fails'[cur][fp] = more
          /\ \A s \in Sessions, v \in Versions :
                (s = cur /\ v = fp) \/ fails'[s][v] = fails[s][v]
        BY <1>1, <2>1, <2>2, <2>3
    <2>5. \A s \in Sessions, v \in Versions : fails[s][v] <= fails'[s][v]
        <3> SUFFICES ASSUME NEW s \in Sessions, NEW v \in Versions
                     PROVE  fails[s][v] <= fails'[s][v]
            OBVIOUS
        <3>1. fails[s][v] \in 0 .. MaxAttempts
            BY <1>1
        <3> QED
            BY <2>2, <2>4, <3>1, MaxAttemptsPositive
    <2> QED
        BY <1>1, <2>2, <2>4, <2>5
<1> QED
    BY <1>2, <1>3

LEMMA FailKeeps ==
    ASSUME IInv, pc \in {"read", "digest"}, NoFault \/ Fault,
           UNCHANGED <<outside, disk, cancelled, stops>>,
           NEW genuine, Fail(genuine), genuine \/ cancelled
    PROVE  IInv'
<1> DEFINE i == MarkFailed(mem[cur], fp)
<1>1. /\ cur \in left /\ cur \in Sessions
      /\ fp \in Versions /\ fp \in Nat /\ News(mem[cur], fp)
      /\ mem[cur].fp # NoFp => mem[cur].fp \in Nat
    BY HandFacts
<1>2. /\ i \in Inputs(Versions) /\ i.fp = fp
      /\ i.status \in {"failed", "quarantined"}
      /\ i.attempts = IF mem[cur].fp = fp THEN mem[cur].attempts + 1 ELSE 1
    <2>1. mem[cur] \in Inputs(Versions) /\ ~Exhausted(mem[cur], fp)
        BY <1>1, StateFields, HandFacts DEF IInv, TypeOK
    <2> QED
        BY <1>1, <2>1, FailedTyped
<1>3. mem' = [mem EXCEPT ![cur] = i] /\ Pass(cur) /\ whole' = whole
    BY DEF Fail
<1> HIDE DEF i
<1>4. IF genuine THEN CountFailure ELSE UNCHANGED fails
    BY DEF Fail
<1>5. /\ fails' \in [Sessions -> [Versions -> 0 .. MaxAttempts]]
      /\ \A s \in Sessions, v \in Versions :
            /\ fails[s][v] \in 0 .. MaxAttempts /\ fails'[s][v] \in 0 .. MaxAttempts
            /\ fails[s][v] <= fails'[s][v]
      /\ CountFailure => \/ fails'[cur][fp] = MaxAttempts
                         \/ fails'[cur][fp] = fails[cur][fp] + 1
    BY <1>1, <1>4, FailsGrow
<1>6. whole' \subseteq Sessions \X Versions \X Versions
    BY <1>3 DEF IInv, TypeOK
<1>7. /\ mem'[cur] = i /\ \A s \in Sessions \ {cur} : mem'[s] = mem[s]
      /\ faults' = 0 => faults = 0
      /\ TypeOK' /\ NotAhead' /\ HandIsNews'
    BY <1>2, <1>3, <1>5, <1>6, MarkFacts
<1>8. ProcessedIsWhole'
    BY <1>2, <1>3, <1>7 DEF IInv, ProcessedIsWhole, outside
<1>9. stops \in Nat /\ (cancelled => stops > 0)
    BY BoundsAreNat DEF IInv, TypeOK, NotChargedYet
<1>10. ASSUME NEW s \in Sessions, NEW m \in States, NEW n \in Nat, Charged(m[s], s, n)
       PROVE  m[s].attempts = 0 \/ m[s].attempts <= fails'[s][m[s].fp] + n
    <2>1. CASE m[s].attempts # 0
        <3>1. m[s].fp \in Versions /\ m[s].attempts \in 0 .. MaxAttempts
            BY <1>10, <2>1, InputFields DEF States
        <3>2. m[s].attempts <= fails[s][m[s].fp] + n
            BY <1>10, <2>1 DEF Charged
        <3>3. /\ fails[s][m[s].fp] \in 0 .. MaxAttempts /\ fails'[s][m[s].fp] \in 0 .. MaxAttempts
              /\ fails[s][m[s].fp] <= fails'[s][m[s].fp]
            BY <1>5, <3>1
        <3> QED
            BY <1>10, <3>1, <3>2, <3>3, MaxAttemptsPositive
    <2> QED
        BY <2>1
<1>11. i.attempts <= fails'[cur][fp] + stops
    <2>1. /\ fails[cur][fp] \in Nat /\ fails'[cur][fp] \in Nat
          /\ fails[cur][fp] <= fails'[cur][fp]
        BY <1>1, <1>5, MaxAttemptsPositive
    <2>2. i.attempts \in 0 .. MaxAttempts /\ mem[cur].attempts \in 0 .. MaxAttempts
        BY <1>1, <1>2, InputFields, StateFields DEF IInv, TypeOK
    <2>3. CASE mem[cur].fp = fp
        <3>1. mem[cur].attempts # 0
            <4>1. mem[cur] \in Inputs(Versions)
                BY <1>1, StateFields DEF IInv, TypeOK
            <4>2. mem[cur].status = "failed"
                BY <1>1, <2>3, VersionsAreNat DEF News
            <4> QED
                BY <4>1, <4>2, InputFields
        <3>2. mem[cur].attempts <= fails[cur][fp] + stops
            BY <1>1, <2>3, <3>1 DEF IInv, AllCharged, Charged
        <3>3. CASE genuine
            BY <1>2, <1>4, <1>5, <1>9, <2>1, <2>2, <2>3, <3>2, <3>3, MaxAttemptsPositive
        <3>4. CASE ~genuine
            <4>1. mem[cur].attempts <= fails[cur][fp] + (stops - 1)
                BY <1>1, <2>3, <3>1, <3>4 DEF IInv, NotChargedYet, Charged
            <4> QED
                BY <1>2, <1>9, <2>1, <2>2, <2>3, <4>1, MaxAttemptsPositive
        <3> QED
            BY <3>3, <3>4
    <2>4. CASE mem[cur].fp # fp
        <3>1. i.attempts = 1
            BY <1>2, <2>4
        <3>2. genuine => fails'[cur][fp] >= 1
            BY <1>4, <1>5, <2>1, MaxAttemptsPositive
        <3> QED
            BY <1>9, <2>1, <3>1, <3>2
    <2> QED
        BY <2>3, <2>4
<1>12. AllCharged'
    <2> SUFFICES ASSUME NEW s \in Sessions
                 PROVE  (Charged(mem[s], s, stops) /\ Charged(disk[s], s, stops))'
        BY DEF AllCharged
    <2>1. Charged(disk[s], s, stops)'
        BY <1>9, <1>10 DEF IInv, TypeOK, AllCharged, Charged
    <2>2. Charged(mem[s], s, stops)'
        <3>1. CASE s = cur
            BY <1>2, <1>7, <1>11, <3>1 DEF Charged
        <3>2. CASE s # cur
            BY <1>7, <1>9, <1>10, <3>2 DEF IInv, TypeOK, AllCharged, Charged
        <3> QED
            BY <3>1, <3>2
    <2> QED
        BY <2>1, <2>2
<1>13. NotChargedYet'
    <2>1. pc' = "walk" /\ left' = left \ {cur}
        BY <1>3 DEF Pass
    <2>2. ASSUME NEW s \in left', cancelled'
          PROVE  Charged(mem[s], s, stops - 1)'
        <3>1. s \in left /\ s # cur /\ s \in Sessions /\ cancelled
            BY <2>1, <2>2 DEF IInv, TypeOK
        <3>2. Charged(mem[s], s, stops - 1) /\ stops - 1 \in Nat
            BY <1>9, <3>1 DEF IInv, NotChargedYet
        <3>3. mem[s].attempts = 0 \/ mem[s].attempts <= fails'[s][mem[s].fp] + (stops - 1)
            BY <1>10, <3>1, <3>2 DEF IInv, TypeOK
        <3> QED
            BY <1>7, <3>1, <3>3 DEF Charged
    <2> QED
        BY <1>9, <2>1, <2>2 DEF NotChargedYet, Scanning
<1>14. Remembered'
    <2> SUFFICES ASSUME faults = 0, NEW s \in Sessions, NEW f \in Versions, NEW v \in Versions,
                        <<s, f, v>> \in whole
                 PROVE  Knows(mem'[s], f)
        BY <1>3, <1>7 DEF Remembered, Known, Pass
    <2>1. Knows(mem[s], f)
        BY DEF IInv, Remembered, Known
    <2>2. CASE s = cur
        <3>1. f \in Nat /\ fp # NoFp
            BY <1>1, VersionsAreNat
        <3> QED
            BY <1>1, <1>2, <1>7, <2>1, <2>2, <3>1 DEF Knows, News
    <2>3. CASE s # cur
        BY <1>7, <2>1, <2>3
    <2> QED
        BY <2>2, <2>3
<1> QED
    BY <1>7, <1>8, <1>12, <1>13, <1>14 DEF IInv

LEMMA ReadFileKeeps ==
    ASSUME IInv, ReadFile
    PROVE  IInv'
<1>1. UNCHANGED <<outside, disk, cancelled, stops>> /\ pc = "read"
    BY DEF ReadFile
<1>2. /\ cur \in left /\ cur \in Sessions
      /\ fp \in Versions /\ fp <= version[cur] /\ News(mem[cur], fp)
    BY <1>1, HandFacts
<1>3. CASE /\ got' = version[cur] /\ pc' = "digest" /\ NoFault
           /\ UNCHANGED <<mem, root, left, cur, fp, history>>
    <2>1. got' \in Versions
        BY <1>2, <1>3 DEF IInv, TypeOK
    <2>2. fp' <= got' /\ got' <= version[cur'] /\ fp' <= version[cur'] /\ News(mem[cur'], fp')
        <3>1. version[cur] \in Nat
            BY <1>1, HandFacts
        <3> QED
            BY <1>2, <1>3, <3>1
    <2> QED
        BY <1>1, <1>2, <1>3, <2>1, <2>2, MoveKeeps DEF Scanning, IInv, TypeOK
<1>4. CASE Pass(cur) /\ NoFault /\ UNCHANGED <<mem, history>>
    BY <1>1, <1>4, PassKeeps
<1>5. CASE Fail(TRUE) /\ (NoFault \/ Fault)
    BY <1>1, <1>5, FailKeeps
<1> QED
    BY <1>3, <1>4, <1>5 DEF ReadFile

LEMMA DigestFailsKeeps ==
    ASSUME IInv, DigestFails
    PROVE  IInv'
<1>1. /\ UNCHANGED <<outside, disk, cancelled, stops>> /\ NoFault
      /\ pc = "digest" /\ Fail(~cancelled)
    BY DEF DigestFails, context, NoFault
<1>2. ~cancelled \/ cancelled
    OBVIOUS
<1> QED
    BY <1>1, <1>2, FailKeeps

LEMMA DigestKeeps ==
    ASSUME IInv, Digest
    PROVE  IInv'
<1> DEFINE i == MarkProcessed(fp)
<1>1. /\ cur \in left /\ cur \in Sessions
      /\ fp \in Versions /\ fp \in Nat /\ News(mem[cur], fp)
      /\ mem[cur].fp # NoFp => mem[cur].fp \in Nat
    BY HandFacts DEF Digest
<1>2. i \in Inputs(Versions) /\ i.fp = fp /\ i.status = "processed" /\ i.attempts = 0
    BY <1>1, ProcessedTyped
<1>3. /\ mem' = [mem EXCEPT ![cur] = i] /\ Pass(cur)
      /\ whole' = whole \cup {<<cur, fp, got>>} /\ fails' = fails
      /\ UNCHANGED <<outside, disk, cancelled, stops, faults>>
      /\ pc = "digest" /\ ~cancelled
    BY DEF Digest, context
<1> HIDE DEF i
<1>4. got \in Versions /\ fp <= got /\ got <= version[cur]
    BY <1>3 DEF IInv, TypeOK
<1>5. /\ fails' \in [Sessions -> [Versions -> 0 .. MaxAttempts]]
      /\ whole' \subseteq Sessions \X Versions \X Versions
    BY <1>1, <1>3, <1>4 DEF IInv, TypeOK
<1>6. /\ mem'[cur] = i /\ \A s \in Sessions \ {cur} : mem'[s] = mem[s]
      /\ TypeOK' /\ NotAhead' /\ HandIsNews'
    BY <1>2, <1>3, <1>5, MarkFacts DEF NoFault
<1>7. ProcessedIsWhole'
    <2>1. ASSUME NEW s \in Sessions, NEW j \in {mem[s], disk[s]}, j.status = "processed"
          PROVE  \E v \in j.fp .. version[s] : <<s, j.fp, v>> \in whole'
        BY <1>3, <2>1 DEF IInv, ProcessedIsWhole
    <2>2. got \in fp .. version[cur] /\ <<cur, fp, got>> \in whole'
        BY <1>1, <1>3, <1>4, VersionsAreNat DEF IInv, TypeOK
    <2> SUFFICES ASSUME NEW s \in Sessions, NEW j \in {mem'[s], disk'[s]}, j.status = "processed"
                 PROVE  \E v \in j.fp .. version'[s] : <<s, j.fp, v>> \in whole'
        BY DEF ProcessedIsWhole
    <2>3. CASE j = i /\ s = cur
        BY <1>2, <1>3, <2>2, <2>3 DEF outside
    <2>4. CASE j \in {mem[s], disk[s]}
        BY <1>3, <2>1, <2>4 DEF outside
    <2> QED
        BY <1>3, <1>6, <2>3, <2>4
<1>8. AllCharged' /\ NotChargedYet'
    <2>1. AllCharged'
        <3> SUFFICES ASSUME NEW s \in Sessions
                     PROVE  (Charged(mem[s], s, stops) /\ Charged(disk[s], s, stops))'
            BY DEF AllCharged
        <3>1. CASE s = cur
            BY <1>2, <1>3, <1>6, <3>1 DEF IInv, AllCharged, Charged
        <3>2. CASE s # cur
            BY <1>3, <1>6, <3>2 DEF IInv, AllCharged, Charged
        <3> QED
            BY <3>1, <3>2
    <2> QED
        BY <1>3, <2>1 DEF NotChargedYet, Scanning, Pass
<1>9. Remembered'
    <2> SUFFICES ASSUME faults = 0, NEW s \in Sessions, NEW f \in Versions, NEW v \in Versions,
                        <<s, f, v>> \in whole'
                 PROVE  Knows(mem'[s], f)
        BY <1>3 DEF Remembered, Known, Pass
    <2>1. CASE <<s, f, v>> \in whole
        <3>1. Knows(mem[s], f)
            BY <1>3, <2>1 DEF IInv, Remembered, Known
        <3>2. CASE s = cur
            <4>1. f \in Nat /\ fp # NoFp
                BY <1>1, VersionsAreNat
            <4> QED
                BY <1>1, <1>2, <1>6, <3>1, <3>2, <4>1 DEF Knows, News
        <3>3. CASE s # cur
            BY <1>6, <3>1, <3>3
        <3> QED
            BY <3>2, <3>3
    <2>2. CASE <<s, f, v>> = <<cur, fp, got>>
        BY <1>1, <1>2, <1>6, <2>2, VersionsAreNat DEF Knows
    <2> QED
        BY <1>3, <2>1, <2>2
<1> QED
    BY <1>6, <1>7, <1>8, <1>9 DEF IInv

----------------------------------------------------------------------------
(* The theorems *)

LEMMA InitHolds == Init => IInv
<1> SUFFICES ASSUME Init
             PROVE  IInv
    OBVIOUS
<1> USE DEF Init
<1>1. TypeOK
    <2>1. fails \in [Sessions -> [Versions -> 0 .. MaxAttempts]]
        BY MaxAttemptsPositive
    <2>2. cancelled \in BOOLEAN
        BY Zenon
    <2>3. /\ version \in [Sessions -> Versions] /\ kind \in [Sessions -> Kinds]
          /\ fp \in Versions /\ got \in Versions
        BY BoundsAreNat
    <2> QED
        BY <2>1, <2>2, <2>3, BoundsAreNat, NothingTyped DEF TypeOK
<1>2. ProcessedIsWhole
    BY NothingTyped DEF ProcessedIsWhole
<1>3. AllCharged /\ NotChargedYet
    BY NothingTyped DEF AllCharged, NotChargedYet, Charged, Scanning
<1>4. NotAhead /\ Remembered /\ HandIsNews
    BY NothingTyped DEF NotAhead, Remembered, HandIsNews
<1> QED
    BY <1>1, <1>2, <1>3, <1>4 DEF IInv

LEMMA StepKeeps == IInv /\ [Next]_vars => IInv'
<1> SUFFICES ASSUME IInv, [Next]_vars
             PROVE  IInv'
    OBVIOUS
<1>1. CASE Work
    BY <1>1, LoadKeeps, ProcessGitKeeps, NextRootKeeps, VisitFileKeeps, ExportKeeps,
       ReadFileKeeps, DigestKeeps, DigestFailsKeeps, SaveKeeps DEF Work
<1>2. CASE \E s \in Sessions : Write(s) \/ Rest(s)
    BY <1>2, WriteKeeps
<1>3. CASE \E n \in 1 .. MaxAttempts - 1 : Elapse(n)
    BY <1>3, ElapseKeeps
<1>4. CASE Stop \/ Restart
    BY <1>4, StopKeeps
<1>5. CASE Crash
    BY <1>5, CrashKeeps
<1>6. CASE UNCHANGED vars
    BY <1>6 DEF IInv, TypeOK, ProcessedIsWhole, AllCharged, NotChargedYet, Charged, Scanning,
                NotAhead, Remembered, Known, Knows, HandIsNews, News,
                vars, outside, hand, place, context, history
<1> QED
    BY <1>1, <1>2, <1>3, <1>4, <1>5, <1>6 DEF Next

(* The invariant of all actions: the four facts above and the types.          *)
THEOREM ScanInvariant == Spec => []IInv
BY InitHolds, StepKeeps, PTL DEF Spec

(* Whatever a pass, a shutdown or a crash leaves in the state file is one    *)
(* Load accepts, and a session in hand is one the root still has             *)
(* (state.go:100-125, transcript.go:46-104).                                 *)
THEOREM ScanTypeCorrect == Spec => []TypeOK
<1>1. IInv => TypeOK
    BY DEF IInv
<1> QED
    BY <1>1, ScanInvariant, PTL

(* However many sessions are written while they are read and summarized, one *)
(* that is marked as processed has a summary of what it held or of more      *)
(* (transcript.go:69-96).                                                    *)
THEOREM SessionsWhole == Spec => []ProcessedIsWhole
<1>1. IInv => ProcessedIsWhole
    BY DEF IInv
<1> QED
    BY <1>1, ScanInvariant, PTL

(* For every MaxAttempts: what is quarantined has failed that often with     *)
(* this content, less one attempt for each shutdown (state.go:104-111).      *)
THEOREM QuarantinesEarned == Spec => []QuarantineEarned
<1>1. IInv => QuarantineEarned
    <2> SUFFICES ASSUME IInv, NEW s \in Sessions, NEW i \in {mem[s], disk[s]},
                        i.status = "quarantined"
                 PROVE  fails[s][i.fp] + stops >= MaxAttempts
        BY DEF QuarantineEarned
    <2>1. i \in Inputs(Versions)
        BY StateFields DEF IInv, TypeOK
    <2>2. i.attempts = MaxAttempts /\ i.fp \in Versions
        BY <2>1, InputFields
    <2>3. fails[s][i.fp] \in Nat /\ stops \in Nat
        BY <2>2, MaxAttemptsPositive, BoundsAreNat DEF IInv, TypeOK
    <2>4. Charged(i, s, stops)
        BY DEF IInv, AllCharged
    <2> QED
        BY <2>2, <2>3, <2>4, MaxAttemptsPositive DEF Charged
<1> QED
    BY <1>1, ScanInvariant, PTL

(* As long as no fault keeps the State from the disk, no session comes up    *)
(* for a second summary under one fingerprint, through any shutdowns and     *)
(* scans cut short (daemon.go:52-56, transcript.go:96, 116).                 *)
THEOREM NothingDigestedTwice == Spec => []DigestedOnce
<1>1. IInv => DigestedOnce
    <2> SUFFICES ASSUME IInv, pc = "digest", faults = 0,
                        NEW v \in Versions, <<cur, fp, v>> \in whole
                 PROVE  FALSE
        BY DEF DigestedOnce
    <2>1. /\ cur \in Sessions /\ fp \in Versions /\ fp \in Nat /\ News(mem[cur], fp)
          /\ mem[cur].fp # NoFp => mem[cur].fp \in Nat
        BY HandFacts
    <2>2. Knows(mem[cur], fp)
        BY <2>1 DEF IInv, Remembered, Known
    <2> QED
        BY <2>1, <2>2 DEF Knows, News
<1> QED
    BY <1>1, ScanInvariant, PTL
=============================================================================
