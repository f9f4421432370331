---------------------------- MODULE GitSpoolProofs ----------------------------
(***************************************************************************)
(* For every set of workers and events: GitSpool keeps its types, and it    *)
(* implements EventDelivery: no event leaves the spool before some attempt  *)
(* stored it in full or MaxAttempts failed, however passes overlap and      *)
(* whatever crashes.  Workers that keep apart leave a state file that loads *)
(* and whole summaries; a single one also bounds the retries.               *)
(***************************************************************************)
EXTENDS GitSpool, IngestStateProofs, TLAPS

(* The inductive invariant.  A State counts no failure that did not happen, *)
(* in whatever copy of it a later pass will load ...                        *)
CountsAreReal(inputs) == \A e \in Events : inputs[e].attempts <= tries[e]

Counted ==
    /\ \A w \in Workers : CountsAreReal(mem[w])
    /\ disk \in States => CountsAreReal(disk)
    /\ tmp \in States => CountsAreReal(tmp)

(* ... and a worker that has an event in hand has read it whole, found it   *)
(* due, and has seen done what the step it is at relies on.                 *)
Ready(w) ==
    /\ pc[w] \in Handling => file[cur[w]] \in {"ready", "removed", "failed"}
    /\ pc[w] \in {"summarize", "adding"} => ~Exhausted(mem[w][cur[w]], cur[w])
    /\ pc[w] = "adding" => slot[w] <= size[w]
    /\ pc[w] = "remove" => cur[w] \in whole
    /\ pc[w] = "move" => tries[cur[w]] >= MaxAttempts

InHand == \A w \in Workers : Ready(w)

IInv == TypeOK /\ Counted /\ InHand

----------------------------------------------------------------------------
(* Lemmas about States *)

LEMMA LaterTyped ==
    ASSUME NEW s \in States, NEW e \in Events, NEW n \in Nat
    PROVE  /\ Later(s, e, n) \in States
           /\ \A f \in Events : /\ Later(s, e, n)[f].attempts = s[f].attempts
                                /\ Later(s, e, n)[f].fp = s[f].fp
                                /\ Later(s, e, n)[f].status = s[f].status
BY ElapsedTyped DEF Later, States

LEMMA EmptyStateTyped ==
    /\ [e \in Events |-> NoInput] \in States
    /\ \A e \in Events : [f \in Events |-> NoInput][e].attempts = 0
BY NoInputTyped DEF States
----------------------------------------------------------------------------
(* Each action keeps the invariant *)

LEMMA EnqueueKeeps ==
    ASSUME IInv, NEW e \in Events, EnqueueCreate(e) \/ EnqueueWrite(e)
    PROVE  IInv'
<1> USE DEF IInv, EnqueueCreate, EnqueueWrite
<1>1. TypeOK'
    BY DEF TypeOK, statefile, hand, history
<1>2. Counted'
    BY DEF Counted, CountsAreReal, statefile, history
<1>3. InHand'
    BY DEF InHand, Ready, TypeOK, Handling, Exhausted, statefile, hand, history
<1> QED
    BY <1>1, <1>2, <1>3

LEMMA LoadKeeps ==
    ASSUME IInv, NEW w \in Workers, Load(w)
    PROVE  IInv'
<1> USE DEF IInv, Load, Goto
<1>1. PICK s : s = IF disk = Absent THEN [e \in Events |-> NoInput] ELSE disk
    OBVIOUS
<1>2. s \in States /\ CountsAreReal(s)
    <2>1. disk # Absent => disk \in States
        BY DEF TypeOK
    <2>2. \A e \in Events : tries[e] \in Nat
        BY SpoolBounds DEF TypeOK
    <2> QED
        BY <1>1, <2>1, <2>2, EmptyStateTyped DEF Counted, CountsAreReal
<1>3. mem' = [mem EXCEPT ![w] = s]
    BY <1>1
<1>4. TypeOK'
    BY <1>2, <1>3 DEF TypeOK, Labels, Handling, files, statefile, hand, history
<1>5. Counted'
    BY <1>2, <1>3 DEF Counted, CountsAreReal, TypeOK, statefile, history
<1>6. InHand'
    BY <1>3 DEF InHand, Ready, TypeOK, Handling, Exhausted, files, statefile, hand, history
<1> QED
    BY <1>4, <1>5, <1>6

LEMMA ReadSpoolKeeps ==
    ASSUME IInv, NEW w \in Workers, ReadSpool(w)
    PROVE  IInv'
<1> USE DEF IInv, ReadSpool, Goto
<1>1. TypeOK'
    BY DEF TypeOK, InSpool, Labels, Handling, files, statefile, hand, history
<1>2. Counted'
    BY DEF Counted, CountsAreReal, statefile, history
<1>3. InHand'
    BY DEF InHand, Ready, TypeOK, Handling, Exhausted, files, statefile, hand, history
<1> QED
    BY <1>1, <1>2, <1>3

LEMMA TakeEventKeeps ==
    ASSUME IInv, NEW w \in Workers, TakeEvent(w)
    PROVE  IInv'
<1> USE DEF IInv, TakeEvent, Goto
<1>1. Counted'
    BY DEF Counted, CountsAreReal, statefile, history
<1>2. ASSUME NEW e \in Events, First(w, e), Begin(w, e)
      PROVE  TypeOK' /\ InHand'
    <2>1. TypeOK'
        BY <1>2, EventsNumbered
           DEF Begin, TypeOK, Labels, Handling, files, statefile, hand, history
    <2>2. ~Exhausted(mem[w][e], e)
        BY <1>2 DEF Begin, ShouldProcess, Exhausted, Fingerprint
    <2>3. InHand'
        BY <1>2, <2>2 DEF Begin, InHand, Ready, TypeOK, Handling, Exhausted, files, statefile, hand, history
    <2> QED
        BY <2>1, <2>3
<1>3. ASSUME NEW e \in Events, First(w, e), ReadError(w, e) \/ Skip(w, e)
      PROVE  TypeOK' /\ InHand'
    <2>1. /\ \E label \in {"next", "save"} : pc' = [pc EXCEPT ![w] = label]
          /\ \E q \in SUBSET Events : queue' = [queue EXCEPT ![w] = q]
          /\ UNCHANGED hand
        BY <1>3 DEF ReadError, Skip, NextEvent, EndPass, TypeOK
    <2>2. TypeOK'
        BY <2>1 DEF TypeOK, Labels, Handling, files, statefile, hand, history
    <2>3. InHand'
        BY <2>1 DEF InHand, Ready, TypeOK, Handling, Exhausted, files, statefile, hand, history
    <2> QED
        BY <2>2, <2>3
<1>4. ASSUME queue[w] = {}, EndPass(w), UNCHANGED hand
      PROVE  TypeOK' /\ InHand'
    BY <1>4 DEF EndPass, InHand, Ready, TypeOK, Labels, Handling, Exhausted, files, statefile,
                hand, history
<1> QED
    BY <1>1, <1>2, <1>3, <1>4

LEMMA FailKeeps ==
    ASSUME IInv, NEW w \in Workers, pc[w] \in {"summarize", "adding"}, Fail(w),
           UNCHANGED <<file, statefile, faults, whole>>,
           stored' \in [Events -> [Slots -> 0 .. MaxMems]]
    PROVE  IInv'
<1> USE DEF IInv
<1>1. PICK e : e = cur[w]
    OBVIOUS
<1>2. e \in Events /\ ~Exhausted(mem[w][e], e)
    BY <1>1 DEF TypeOK, InHand, Ready, Handling
<1>3. PICK i : i = MarkFailed(mem[w][e], e)
    OBVIOUS
<1>4. mem[w] \in States /\ mem[w][e] \in Inputs(Events)
    BY <1>2 DEF TypeOK, States
<1>5. /\ i \in Inputs(Events)
      /\ i.attempts <= mem[w][e].attempts + 1
      /\ i.status = "quarantined" => i.attempts = MaxAttempts
    BY <1>2, <1>3, <1>4, FailedTyped, InputFields
<1>6. /\ mem' = [mem EXCEPT ![w] = [mem[w] EXCEPT ![e] = i]]
      /\ tries' = [tries EXCEPT ![e] = IF @ < MaxTries THEN @ + 1 ELSE @]
      /\ changed' = [changed EXCEPT ![w] = TRUE]
      /\ \/ /\ i.status = "quarantined"
            /\ pc' = [pc EXCEPT ![w] = "move"]
            /\ UNCHANGED <<queue, cur, size, slot>>
         \/ /\ pc' = [pc EXCEPT ![w] = "next"]
            /\ queue' = [queue EXCEPT ![w] = @ \ {e}]
            /\ DropHand(w)
    BY <1>1, <1>3 DEF Fail, Fingerprint, Goto, NextEvent, hand
<1>7. /\ tries \in [Events -> 0 .. MaxTries]
      /\ mem \in [Workers -> States]
      /\ \A v \in Workers : CountsAreReal(mem[v])
    BY DEF TypeOK, Counted
<1>8. /\ tries' \in [Events -> 0 .. MaxTries]
      /\ \A f \in Events : tries[f] <= tries'[f] /\ (f # e => tries'[f] = tries[f])
      /\ tries'[e] = tries[e] + 1 \/ (tries'[e] = tries[e] /\ tries[e] = MaxTries)
    <2>1. CASE tries[e] < MaxTries
        <3>1. tries' = [tries EXCEPT ![e] = tries[e] + 1]
            BY <1>6, <2>1
        <3> QED
            BY <1>2, <1>7, <2>1, <3>1, SpoolBounds
    <2>2. CASE ~(tries[e] < MaxTries)
        <3>0. tries[e] \in 0 .. MaxTries
            BY <1>2, <1>7
        <3>1. tries[e] = MaxTries
            BY <2>2, <3>0, SpoolBounds
        <3>2. tries' = [tries EXCEPT ![e] = tries[e]]
            BY <1>6, <2>2
        <3>3. tries' = tries
            BY <1>2, <1>7, <3>2
        <3> QED
            BY <1>7, <3>1, <3>3, SpoolBounds
    <2> QED
        BY <2>1, <2>2
<1>9. i.attempts <= tries'[e]
    <2>1. mem[w][e].attempts <= tries[e] /\ tries[e] \in 0 .. MaxTries
        BY <1>2, <1>7 DEF CountsAreReal
    <2>2. i.attempts \in 0 .. MaxAttempts /\ mem[w][e].attempts \in 0 .. MaxAttempts
        BY <1>4, <1>5, InputFields
    <2> QED
        BY <1>5, <1>8, <2>1, <2>2, MaxAttemptsPositive, SpoolBounds
<1>10. mem' \in [Workers -> States]
    BY <1>2, <1>5, <1>6, <1>7 DEF States
<1>11. TypeOK'
    <2>1. changed' \in [Workers -> BOOLEAN]
        BY <1>6 DEF TypeOK
    <2>2. /\ pc' \in [Workers -> Labels]
          /\ queue' \in [Workers -> SUBSET Events]
          /\ cur' \in [Workers -> Events \cup {NoEvent}]
          /\ size' \in [Workers -> 0 .. MaxMems]
          /\ slot' \in [Workers -> 1 .. MaxMems + 1]
          /\ \A v \in Workers : pc'[v] \in Handling <=> cur'[v] # NoEvent
        <3>1. CASE pc' = [pc EXCEPT ![w] = "move"] /\ UNCHANGED <<queue, cur, size, slot>>
            BY <1>1, <1>2, <3>1, EventsNumbered DEF TypeOK, Labels, Handling
        <3>2. CASE /\ pc' = [pc EXCEPT ![w] = "next"]
                   /\ queue' = [queue EXCEPT ![w] = @ \ {e}]
                   /\ DropHand(w)
            BY <3>2, SpoolBounds DEF TypeOK, DropHand, Labels, Handling
        <3> QED
            BY <1>6, <3>1, <3>2
    <2> QED
        BY <1>8, <1>10, <2>1, <2>2 DEF TypeOK, statefile
<1>12. Counted'
    <2>1. ASSUME NEW s \in States, CountsAreReal(s)
          PROVE  \A f \in Events : s[f].attempts <= tries'[f]
        <3>1. \A f \in Events : s[f].attempts \in Nat
            BY InputFields, MaxAttemptsPositive DEF States
        <3> QED
            BY <1>7, <1>8, <2>1, <3>1, SpoolBounds DEF CountsAreReal
    <2>2. \A v \in Workers, f \in Events : mem'[v][f].attempts <= tries'[f]
        <3>1. \A v \in Workers, f \in Events :
                mem'[v][f] = IF v = w /\ f = e THEN i ELSE mem[v][f]
            BY <1>2, <1>6, <1>7 DEF States
        <3> QED
            BY <1>7, <1>9, <2>1, <3>1
    <2> QED
        BY <2>1, <2>2 DEF Counted, CountsAreReal, statefile
<1>13. ASSUME NEW v \in Workers
       PROVE  Ready(v)'
    <2>1. CASE v # w
        <3>1. /\ pc'[v] = pc[v] /\ cur'[v] = cur[v] /\ mem'[v] = mem[v]
              /\ size'[v] = size[v] /\ slot'[v] = slot[v]
            BY <1>6, <1>7, <2>1 DEF TypeOK, DropHand
        <3>2. Ready(v) /\ (pc[v] \in Handling => cur[v] \in Events)
            BY DEF InHand, TypeOK
        <3>3. pc[v] = "move" => tries'[cur[v]] >= MaxAttempts
            BY <1>7, <1>8, <3>2, SpoolBounds, MaxAttemptsPositive DEF Ready, Handling
        <3> QED
            BY <3>1, <3>2, <3>3 DEF Ready, Exhausted
    <2>2. CASE v = w
        BY <1>1, <1>2, <1>5, <1>6, <1>8, <1>9, <2>2, SpoolBounds, MaxAttemptsPositive
           DEF InHand, Ready, TypeOK, Handling, DropHand
    <2> QED
        BY <2>1, <2>2
<1> QED
    BY <1>11, <1>12, <1>13 DEF InHand

LEMMA SummarizeKeeps ==
    ASSUME IInv, NEW w \in Workers, Summarize(w)
    PROVE  IInv'
<1> USE DEF IInv, Summarize
<1>1. CASE Fail(w) /\ UNCHANGED whole
    BY <1>1, FailKeeps DEF files, TypeOK
<1>2. ASSUME NEW n \in 0 .. MaxMems,
             size' = [size EXCEPT ![w] = n],
             slot' = [slot EXCEPT ![w] = 1],
             Goto(w, IF n = 0 THEN "remove" ELSE "adding"),
             whole' = IF n = 0 THEN whole \cup {cur[w]} ELSE whole,
             UNCHANGED <<cur, mem, changed, queue, tries>>
      PROVE  IInv'
    <2>1. \/ n = 0 /\ pc' = [pc EXCEPT ![w] = "remove"] /\ whole' = whole \cup {cur[w]}
          \/ n > 0 /\ pc' = [pc EXCEPT ![w] = "adding"] /\ whole' = whole
        <3>1. CASE n = 0
            BY <1>2, <3>1 DEF Goto
        <3>2. CASE n # 0
            <4>1. pc' = [pc EXCEPT ![w] = "adding"] /\ whole' = whole
                BY <1>2, <3>2 DEF Goto
            <4> QED
                BY <3>2, <4>1, SpoolBounds
        <3> QED
            BY <3>1, <3>2
    <2>2. TypeOK'
        <3>1. cur[w] \in Events /\ pc[w] = "summarize"
            BY DEF TypeOK, Handling
        <3>2. /\ size' \in [Workers -> 0 .. MaxMems]
              /\ slot' \in [Workers -> 1 .. MaxMems + 1]
            BY <1>2, SpoolBounds DEF TypeOK
        <3>3. /\ pc' \in [Workers -> Labels]
              /\ whole' \subseteq Events
              /\ \A v \in Workers : pc'[v] \in Handling <=> cur[v] # NoEvent
            BY <2>1, <3>1 DEF TypeOK, Labels, Handling
        <3> QED
            BY <1>2, <3>2, <3>3 DEF TypeOK, files, statefile
    <2>3. Counted'
        BY <1>2 DEF Counted, CountsAreReal, statefile
    <2>4. InHand'
        BY <1>2, <2>1, SpoolBounds DEF InHand, Ready, TypeOK, Handling, Exhausted, files, statefile
    <2> QED
        BY <2>2, <2>3, <2>4
<1> QED
    BY <1>1, <1>2

LEMMA AddMemoryKeeps ==
    ASSUME IInv, NEW w \in Workers, AddMemory(w)
    PROVE  IInv'
<1> USE DEF IInv, AddMemory
<1>1. cur[w] \in Events /\ slot[w] \in Slots /\ size[w] \in 0 .. MaxMems
    BY SpoolBounds DEF TypeOK, InHand, Ready, Handling, Slots
<1>2. stored' \in [Events -> [Slots -> 0 .. MaxMems]]
    BY <1>1 DEF TypeOK, Put
<1>3. CASE Fail(w) /\ UNCHANGED whole
    BY <1>2, <1>3, FailKeeps
<1>4. CASE Added(w)
    <2>1. \/ /\ slot[w] = size[w] /\ pc' = [pc EXCEPT ![w] = "remove"]
             /\ whole' = whole \cup {cur[w]}
          \/ slot[w] # size[w] /\ pc' = [pc EXCEPT ![w] = "adding"] /\ whole' = whole
        BY <1>4 DEF Added, Goto
    <2>2. TypeOK'
        <3>1. slot' \in [Workers -> 1 .. MaxMems + 1]
            BY <1>1, <1>4, SpoolBounds DEF Added, TypeOK, Slots
        <3>2. /\ pc' \in [Workers -> Labels]
              /\ whole' \subseteq Events
              /\ \A v \in Workers : pc'[v] \in Handling <=> cur[v] # NoEvent
            BY <1>1, <2>1 DEF TypeOK, Labels, Handling
        <3> QED
            BY <1>2, <1>4, <3>1, <3>2 DEF Added, TypeOK, statefile
    <2>3. Counted'
        BY <1>4 DEF Added, Counted, CountsAreReal, statefile
    <2>4. InHand'
        BY <1>1, <1>4, <2>1, SpoolBounds
           DEF Added, InHand, Ready, TypeOK, Handling, Exhausted, Slots, statefile
    <2> QED
        BY <2>2, <2>3, <2>4
<1> QED
    BY <1>3, <1>4

LEMMA RemoveKeeps ==
    ASSUME IInv, NEW w \in Workers, Remove(w)
    PROVE  IInv'
<1> USE DEF IInv
<1>1. PICK e \in Events : e = cur[w] /\ file[e] \in {"ready", "removed", "failed"}
    BY DEF Remove, TypeOK, InHand, Ready, Handling
<1>2. CASE /\ file' = [file EXCEPT ![e] = "removed"]
           /\ mem' = [mem EXCEPT ![w][e] = MarkProcessed(Fingerprint(e))]
           /\ changed' = [changed EXCEPT ![w] = TRUE]
           /\ NextEvent(w, e)
           /\ UNCHANGED faults
    <2>1. PICK i : i = MarkProcessed(e)
        OBVIOUS
    <2>2. /\ i \in Inputs(Events) /\ i.attempts = 0
          /\ mem' = [mem EXCEPT ![w] = [mem[w] EXCEPT ![e] = i]]
        BY <1>2, <2>1, ProcessedTyped DEF Fingerprint
    <2>3. /\ mem' \in [Workers -> States]
          /\ \A v \in Workers, f \in Events :
                mem'[v][f] = IF v = w /\ f = e THEN i ELSE mem[v][f]
        BY <2>2 DEF TypeOK, States
    <2>4. TypeOK'
        BY <1>2, <2>3, SpoolBounds
           DEF Remove, DropHand, NextEvent, Goto, TypeOK, Labels, Handling, statefile, history
    <2>5. Counted'
        <3>1. \A f \in Events : tries[f] >= 0
            BY SpoolBounds DEF TypeOK
        <3> QED
            BY <2>2, <2>3, <3>1 DEF Remove, Counted, CountsAreReal, TypeOK, statefile, history
    <2>6. ASSUME NEW v \in Workers
          PROVE  Ready(v)'
        BY <1>2, <2>3 DEF Remove, DropHand, NextEvent, Goto, InHand, Ready, TypeOK, Handling,
               Exhausted, statefile, history
    <2> QED
        BY <2>4, <2>5, <2>6 DEF InHand
<1>3. CASE EndPass(w) /\ UNCHANGED <<file, mem, changed>>
    <2>1. TypeOK'
        BY <1>3, SpoolBounds DEF Remove, Fault, DropHand, EndPass, Goto, TypeOK, Labels, Handling,
               statefile, history
    <2>2. Counted'
        BY <1>3 DEF Remove, Counted, CountsAreReal, statefile, history
    <2>3. InHand'
        BY <1>3 DEF Remove, DropHand, EndPass, Goto, InHand, Ready, TypeOK, Handling, Exhausted,
               statefile, history
    <2> QED
        BY <2>1, <2>2, <2>3
<1> QED
    BY <1>1, <1>2, <1>3 DEF Remove

LEMMA MoveKeeps ==
    ASSUME IInv, NEW w \in Workers, Move(w)
    PROVE  IInv'
<1> USE DEF IInv, Move, DropHand, Goto, Handling
<1>1. PICK e \in Events : e = cur[w]
    BY DEF TypeOK
<1>2. Counted'
    BY DEF Counted, CountsAreReal, statefile, history
<1>3. CASE file' = [file EXCEPT ![e] = "failed"] /\ NextEvent(w, e) /\ UNCHANGED faults
    <2>1. TypeOK'
        BY <1>3, SpoolBounds DEF NextEvent, TypeOK, Labels, statefile, history
    <2>2. InHand'
        BY <1>3 DEF NextEvent, InHand, Ready, TypeOK, Exhausted, statefile, history
    <2> QED
        BY <1>2, <2>1, <2>2
<1>4. CASE EndPass(w) /\ UNCHANGED file
    <2>1. TypeOK'
        BY <1>4, SpoolBounds DEF Fault, EndPass, TypeOK, Labels, statefile, history
    <2>2. InHand'
        BY <1>4 DEF EndPass, InHand, Ready, TypeOK, Exhausted, statefile, history
    <2> QED
        BY <1>2, <2>1, <2>2
<1> QED
    BY <1>1, <1>3, <1>4
LEMMA SaveKeeps ==
    ASSUME IInv, NEW w \in Workers,
           SaveNothing(w) \/ SaveOpen(w) \/ SaveWrite(w) \/ SaveRename(w)
    PROVE  IInv'
<1> USE DEF IInv
<1>1. PICK s : s = [e \in Events |-> NoInput]
    OBVIOUS
<1>2. s \in States /\ CountsAreReal(s)
    BY <1>1, EmptyStateTyped, SpoolBounds DEF CountsAreReal, TypeOK
<1>3. EndedPass(w) => /\ mem' = [mem EXCEPT ![w] = s]
                      /\ pc' = [pc EXCEPT ![w] = "idle"]
                      /\ changed' = [changed EXCEPT ![w] = FALSE]
    BY <1>1 DEF EndedPass, Goto
<1>4. EndedPass(w) =>
        /\ mem' \in [Workers -> States]
        /\ \A v \in Workers : mem'[v] = s \/ mem'[v] = mem[v]
    BY <1>2, <1>3 DEF TypeOK
<1>5. CASE SaveNothing(w) \/ SaveRename(w)
    <2>1. EndedPass(w) /\ UNCHANGED <<files, queue, hand, history>>
        BY <1>5 DEF SaveNothing, SaveRename
    <2>2. /\ {disk', tmp'} \subseteq {disk, tmp, Absent}
          /\ fd' \in [Workers -> {"none", "tmp", "disk", "unlinked"}]
          /\ faults' \in 0 .. MaxFaults
        BY <1>5, SpoolBounds DEF SaveNothing, SaveRename, Fault, TypeOK, statefile
    <2>3. pc[w] \in {"save", "written"}
        BY <1>5 DEF SaveNothing, SaveRename
    <2>4. TypeOK'
        BY <1>3, <1>4, <2>1, <2>2, <2>3 DEF TypeOK, Labels, Handling, files, hand, history
    <2>5. Counted'
        <3>1. UNCHANGED tries
            BY <2>1 DEF history
        <3>2. \A f : f \in {disk, tmp, Absent} /\ f \in States => CountsAreReal(f)
            BY FilesApart DEF Counted
        <3> QED
            BY <1>2, <1>4, <2>1, <2>2, <3>1, <3>2 DEF Counted, CountsAreReal
    <2>6. InHand'
        BY <1>3, <2>1, <2>3 DEF InHand, Ready, TypeOK, Handling, Exhausted, files, hand, history
    <2> QED
        BY <2>4, <2>5, <2>6
<1>6. CASE SaveOpen(w)
    <2>1. TypeOK'
        BY <1>6 DEF SaveOpen, Goto, TypeOK, Labels, Handling, files, hand, history
    <2>2. Counted'
        BY <1>6, FilesApart DEF SaveOpen, Counted, CountsAreReal, history
    <2>3. InHand'
        BY <1>6 DEF SaveOpen, Goto, InHand, Ready, TypeOK, Handling, Exhausted, files, hand, history
    <2> QED
        BY <2>1, <2>2, <2>3
<1>7. CASE SaveWrite(w)
    <2>1. {disk', tmp'} \subseteq {disk, tmp, mem[w], Garbled}
        BY <1>7 DEF SaveWrite, Written
    <2>2. mem[w] \in States /\ CountsAreReal(mem[w])
        BY DEF TypeOK, Counted
    <2>3. TypeOK'
        BY <1>7, <2>1, <2>2 DEF SaveWrite, Goto, TypeOK, Labels, Handling, files, hand, history
    <2>4. Counted'
        <3>1. UNCHANGED <<mem, tries>>
            BY <1>7 DEF SaveWrite, history
        <3>2. \A f : f \in {disk, tmp, mem[w], Garbled} /\ f \in States => CountsAreReal(f)
            BY <2>2, FilesApart DEF Counted
        <3> QED
            BY <2>1, <3>1, <3>2 DEF Counted, CountsAreReal
    <2>5. InHand'
        BY <1>7 DEF SaveWrite, Goto, InHand, Ready, TypeOK, Handling, Exhausted, files, hand, history
    <2> QED
        BY <2>3, <2>4, <2>5
<1> QED
    BY <1>5, <1>6, <1>7

LEMMA CrashKeeps ==
    ASSUME IInv, NEW w \in Workers, Crash(w)
    PROVE  IInv'
<1> USE DEF IInv, Crash
<1>1. PICK s : s = [e \in Events |-> NoInput]
    OBVIOUS
<1>2. s \in States /\ CountsAreReal(s)
    BY <1>1, EmptyStateTyped, SpoolBounds DEF CountsAreReal, TypeOK
<1>3. /\ mem' = [mem EXCEPT ![w] = s]
      /\ pc' = [pc EXCEPT ![w] = "idle"]
      /\ changed' = [changed EXCEPT ![w] = FALSE]
    BY <1>1 DEF EndedPass, Goto
<1>4. TypeOK'
    BY <1>2, <1>3, SpoolBounds DEF Fault, DropHand, TypeOK, Labels, Handling, files, history
<1>5. Counted'
    BY <1>2, <1>3 DEF Counted, CountsAreReal, TypeOK, history
<1>6. InHand'
    BY <1>3 DEF DropHand, InHand, Ready, TypeOK, Handling, Exhausted, files, history
<1> QED
    BY <1>4, <1>5, <1>6

LEMMA ElapseKeeps ==
    ASSUME IInv, NEW e \in Events, NEW n \in 1 .. MaxAttempts - 1, Elapse(e, n)
    PROVE  IInv'
<1> USE DEF IInv
<1>1. n \in Nat
    BY MaxAttemptsPositive
<1>2. PICK m : m = mem'
    OBVIOUS
<1>3. /\ m \in [Workers -> States]
      /\ \A v \in Workers, f \in Events : /\ m[v][f].attempts = mem[v][f].attempts
                                         /\ m[v][f].fp = mem[v][f].fp
                                         /\ m[v][f].status = mem[v][f].status
    BY <1>1, <1>2, LaterTyped DEF Elapse, TypeOK
<1>4. \A s \in States : CountsAreReal(s) => CountsAreReal(Later(s, e, n))
    BY <1>1, LaterTyped DEF CountsAreReal
<1>5. /\ disk' \in States \cup {Absent, Empty, Garbled}
      /\ tmp' \in States \cup {Absent, Empty, Garbled}
      /\ disk' \in States => CountsAreReal(disk')
      /\ tmp' \in States => CountsAreReal(tmp')
    BY <1>1, <1>4, LaterTyped DEF Elapse, TypeOK, Counted
<1>6. TypeOK'
    BY <1>2, <1>3, <1>5 DEF Elapse, TypeOK, files, hand, history
<1>7. Counted'
    BY <1>2, <1>3, <1>5 DEF Elapse, Counted, CountsAreReal, history
<1>8. ASSUME NEW v \in Workers
      PROVE  Ready(v)'
    <2>1. Ready(v) /\ UNCHANGED <<file, pc, cur, size, slot, tries, whole>>
        BY DEF InHand, Elapse, files, hand, history
    <2>2. ASSUME pc[v] \in {"summarize", "adding"}
          PROVE  ~Exhausted(m[v][cur[v]], cur[v])
        <3>1. cur[v] \in Events
            BY <2>2 DEF TypeOK, Handling
        <3> QED
            BY <1>3, <2>1, <2>2, <3>1 DEF Ready, Exhausted
    <2> QED
        BY <1>2, <2>1, <2>2 DEF Ready, Exhausted
<1> QED
    BY <1>6, <1>7, <1>8 DEF InHand
LEMMA InitHolds == Init => IInv
<1> SUFFICES ASSUME Init PROVE IInv
    OBVIOUS
<1>1. TypeOK
    BY EmptyStateTyped, SpoolBounds DEF Init, TypeOK, Slots, Labels, Handling
<1>2. Counted
    BY EmptyStateTyped, FilesApart, SpoolBounds DEF Init, Counted, CountsAreReal
<1>3. InHand
    BY DEF Init, InHand, Ready, Handling
<1> QED
    BY <1>1, <1>2, <1>3 DEF IInv

LEMMA StepKeeps == IInv /\ [Next]_vars => IInv'
<1> SUFFICES ASSUME IInv, [Next]_vars PROVE IInv'
    OBVIOUS
<1>1. CASE UNCHANGED vars
    BY <1>1 DEF vars, files, statefile, hand, history, IInv, TypeOK, Counted, CountsAreReal,
                InHand, Ready, Exhausted
<1>2. ASSUME NEW e \in Events, EnqueueCreate(e) \/ EnqueueWrite(e)
      PROVE  IInv'
    BY <1>2, EnqueueKeeps
<1>3. ASSUME NEW w \in Workers, Work(w) \/ Crash(w)
      PROVE  IInv'
    BY <1>3, LoadKeeps, ReadSpoolKeeps, TakeEventKeeps, SummarizeKeeps, AddMemoryKeeps,
       RemoveKeeps, MoveKeeps, SaveKeeps, CrashKeeps DEF Work
<1>4. ASSUME NEW e \in Events, NEW n \in 1 .. MaxAttempts - 1, Elapse(e, n)
      PROVE  IInv'
    BY <1>4, ElapseKeeps
<1> QED
    BY <1>1, <1>2, <1>3, <1>4 DEF Next

----------------------------------------------------------------------------
(* Every step is a step of EventDelivery, or changes nothing of it *)

Outcomes == [e \in Events |-> Outcome(file[e])]

LEMMA QuietMaps ==
    ASSUME UNCHANGED <<file, tries, whole>>
    PROVE  UNCHANGED ED!vars
BY DEF ED!vars

LEMMA EnqueueMaps ==
    ASSUME IInv, NEW e \in Events, EnqueueCreate(e) \/ EnqueueWrite(e)
    PROVE  ED!Submit(e) \/ UNCHANGED ED!vars
<1>1. UNCHANGED <<tries, whole>>
    BY DEF EnqueueCreate, EnqueueWrite, history
<1>2. PICK f \in {"writing", "ready", "broken"} :
        /\ file' = [file EXCEPT ![e] = f]
        /\ Outcome(file[e]) = "none"
    BY DEF EnqueueCreate, EnqueueWrite, Outcome
<1>3. \A d \in Events : Outcome(file'[d]) = IF d = e THEN Outcome(f) ELSE Outcome(file[d])
    BY <1>2 DEF IInv, TypeOK
<1>4. CASE f = "ready"
    <2>1. Outcome(f) = "pending"
        BY <1>4 DEF Outcome
    <2>2. Outcomes' = [Outcomes EXCEPT ![e] = "pending"]
        BY <1>3, <2>1 DEF Outcomes
    <2> QED
        BY <1>1, <1>2, <2>2 DEF ED!Submit, Outcomes
<1>5. CASE f # "ready"
    <2>1. Outcome(f) = "none"
        BY <1>5 DEF Outcome
    <2>2. Outcomes' = Outcomes
        BY <1>2, <1>3, <2>1 DEF Outcomes
    <2> QED
        BY <1>1, <2>2 DEF ED!vars, Outcomes
<1> QED
    BY <1>4, <1>5

LEMMA HandledWasSubmitted ==
    ASSUME IInv, NEW w \in Workers, pc[w] \in Handling
    PROVE  cur[w] \in Events /\ Outcomes[cur[w]] # "none"
BY DEF IInv, TypeOK, InHand, Ready, Outcomes, Outcome

LEMMA FailMaps ==
    ASSUME IInv, NEW w \in Workers, pc[w] \in Handling, Fail(w), UNCHANGED <<file, whole>>
    PROVE  ED!Fail(cur[w])
<1>1. Outcomes' = Outcomes
    BY DEF Outcomes
<1> QED
    BY <1>1, HandledWasSubmitted DEF Fail, ED!Fail, Outcomes

LEMMA StoreMaps ==
    ASSUME IInv, NEW w \in Workers, pc[w] \in Handling, UNCHANGED <<file, tries>>,
           whole' = whole \cup {cur[w]} \/ UNCHANGED whole
    PROVE  ED!StoreAll(cur[w]) \/ UNCHANGED ED!vars
<1>1. Outcomes' = Outcomes
    BY DEF Outcomes
<1> QED
    BY <1>1, HandledWasSubmitted DEF ED!StoreAll, ED!vars, Outcomes

LEMMA SettleMaps ==
    ASSUME IInv, NEW w \in Workers, Remove(w) \/ Move(w)
    PROVE  ED!Deliver(cur[w]) \/ ED!Reject(cur[w]) \/ UNCHANGED ED!vars
<1>1. PICK e \in Events : e = cur[w]
    BY DEF Remove, Move, IInv, TypeOK, Handling
<1>2. UNCHANGED <<tries, whole>>
    BY DEF Remove, Move, history
<1>3. CASE UNCHANGED file
    BY <1>2, <1>3, QuietMaps
<1>4. ASSUME NEW f \in {"removed", "failed"}, file[e] = "ready",
             file' = [file EXCEPT ![e] = f]
      PROVE  /\ Outcomes[e] = "pending"
             /\ Outcomes' = [Outcomes EXCEPT ![e] = Outcome(f)]
    <2>1. \A d \in Events : Outcome(file'[d]) = IF d = e THEN Outcome(f) ELSE Outcome(file[d])
        BY <1>4 DEF IInv, TypeOK
    <2>2. Outcome("ready") = "pending"
        BY DEF Outcome
    <2> QED
        BY <1>4, <2>1, <2>2 DEF Outcomes
<1>5. Outcome("removed") = "delivered" /\ Outcome("failed") = "rejected"
    BY DEF Outcome
<1>6. CASE Remove(w) /\ file[e] = "ready" /\ file' = [file EXCEPT ![e] = "removed"]
    <2>1. e \in whole
        BY <1>1, <1>6 DEF Remove, IInv, InHand, Ready
    <2> QED
        BY <1>1, <1>2, <1>4, <1>5, <1>6, <2>1 DEF ED!Deliver, ED!Settle, Outcomes
<1>7. CASE Move(w) /\ file[e] = "ready" /\ file' = [file EXCEPT ![e] = "failed"]
    <2>1. tries[e] >= MaxAttempts
        BY <1>1, <1>7 DEF Move, IInv, InHand, Ready
    <2> QED
        BY <1>1, <1>2, <1>4, <1>5, <1>7, <2>1 DEF ED!Reject, ED!Settle, Outcomes
<1> QED
    BY <1>1, <1>3, <1>6, <1>7 DEF Remove, Move

LEMMA StepMaps == IInv /\ [Next]_vars => [ED!Next]_ED!vars
<1> SUFFICES ASSUME IInv, [Next]_vars PROVE [ED!Next]_ED!vars
    OBVIOUS
<1>1. CASE UNCHANGED vars
    BY <1>1, QuietMaps DEF vars, files, history
<1>2. ASSUME NEW e \in Events, EnqueueCreate(e) \/ EnqueueWrite(e)
      PROVE  [ED!Next]_ED!vars
    BY <1>2, EnqueueMaps DEF ED!Next
<1>3. ASSUME NEW w \in Workers, Summarize(w) \/ AddMemory(w)
      PROVE  [ED!Next]_ED!vars
    <2>1. /\ pc[w] \in Handling
          /\ UNCHANGED file
          /\ \/ Fail(w) /\ UNCHANGED whole
             \/ /\ UNCHANGED tries
                /\ whole' = whole \cup {cur[w]} \/ UNCHANGED whole
        BY <1>3 DEF Summarize, AddMemory, Added, Handling, files
    <2>2. cur[w] \in Events
        BY <2>1, HandledWasSubmitted
    <2>3. ED!Fail(cur[w]) \/ ED!StoreAll(cur[w]) \/ UNCHANGED ED!vars
        BY <2>1, FailMaps, StoreMaps
    <2> QED
        BY <2>2, <2>3 DEF ED!Next
<1>4. ASSUME NEW w \in Workers, Remove(w) \/ Move(w)
      PROVE  [ED!Next]_ED!vars
    <2>1. cur[w] \in Events
        BY <1>4, HandledWasSubmitted DEF Remove, Move, Handling
    <2> QED
        BY <1>4, <2>1, SettleMaps DEF ED!Next
<1>5. ASSUME NEW w \in Workers,
             \/ Load(w) \/ ReadSpool(w) \/ TakeEvent(w) \/ Crash(w)
             \/ SaveNothing(w) \/ SaveOpen(w) \/ SaveWrite(w) \/ SaveRename(w)
      PROVE  [ED!Next]_ED!vars
    BY <1>5, QuietMaps DEF Load, ReadSpool, TakeEvent, Crash, SaveNothing, SaveOpen, SaveWrite,
           SaveRename, files, history
<1>6. ASSUME NEW e \in Events, NEW n \in 1 .. MaxAttempts - 1, Elapse(e, n)
      PROVE  [ED!Next]_ED!vars
    BY <1>6, QuietMaps DEF Elapse, files, history
<1> QED
    BY <1>1, <1>2, <1>3, <1>4, <1>5, <1>6 DEF Next, Work

LEMMA InitMaps == Init => ED!Init
BY DEF Init, ED!Init, Outcome

----------------------------------------------------------------------------
(* Theorems *)

(* The state file and its copies always hold states Load accepts, in which  *)
(* failed inputs have attempts left and quarantined ones none.              *)
THEOREM SpoolTypeCorrect == Spec => []TypeOK
<1>1. IInv => TypeOK
    BY DEF IInv
<1> QED
    BY <1>1, InitHolds, StepKeeps, PTL DEF Spec
(* Whatever the workers interleave, whatever fails and whoever crashes, an   *)
(* event whose hook wrote it stays in the spool until an attempt has stored  *)
(* its whole summary or MaxAttempts attempts have failed.                    *)
THEOREM SpoolImplementsDelivery == Spec => SpoolDelivers
BY InitHolds, StepKeeps, InitMaps, StepMaps, PTL DEF Spec, SpoolDelivers, ED!Spec
----------------------------------------------------------------------------
(* Workers that keep apart *)

(* No two workers save at a time. *)
SavesApart ==
    \A v, w \in Workers : {pc[v], pc[w]} \subseteq {"opened", "written"} => v = w

(* No two workers store memories of the same event at a time. *)
EventsApart ==
    \A v, w \in Workers :
        {pc[v], pc[w]} \subseteq {"adding", "remove"} /\ cur[v] = cur[w] => v = w

(* With a single worker neither can happen. *)
Alone == \A v, w \in Workers : v = w

(* What such a Save relies on: the temporary file is its own.               *)
SaveIsPrivate ==
    /\ disk \notin {Empty, Garbled}
    /\ \A w \in Workers :
        /\ fd[w] = IF pc[w] = "opened" THEN "tmp" ELSE "none"
        /\ pc[w] = "opened" => tmp = Empty
        /\ pc[w] = "written" => tmp \in States

(* The memories added so far are those of the summary in hand. *)
AddedSoFar ==
    \A w \in Workers :
        /\ pc[w] = "adding" => \A k \in Slots : k < slot[w] => stored[cur[w]][k] = size[w]
        /\ pc[w] = "remove" => \A k \in Slots : k <= size[w] => stored[cur[w]][k] = size[w]

LEMMA OthersStay ==
    ASSUME IInv, NEW w \in Workers, Work(w) \/ Crash(w), NEW v \in Workers, v # w
    PROVE  pc'[v] = pc[v] /\ cur'[v] = cur[v] /\ slot'[v] = slot[v] /\ size'[v] = size[v]
<1> USE DEF IInv, TypeOK, Goto, DropHand
<1>1. CASE Load(w) \/ ReadSpool(w) \/ TakeEvent(w)
    BY <1>1 DEF Load, ReadSpool, TakeEvent, ReadError, Skip, Begin, NextEvent, EndPass, hand
<1>2. CASE Summarize(w) \/ AddMemory(w)
    BY <1>2 DEF Summarize, AddMemory, Added, Fail, NextEvent, hand
<1>3. CASE Remove(w) \/ Move(w)
    BY <1>3 DEF Remove, Move, NextEvent, EndPass
<1>4. CASE SaveNothing(w) \/ SaveOpen(w) \/ SaveWrite(w) \/ SaveRename(w) \/ Crash(w)
    BY <1>4 DEF SaveNothing, SaveOpen, SaveWrite, SaveRename, Crash, EndedPass, hand
<1> QED
    BY <1>1, <1>2, <1>3, <1>4 DEF Work

LEMMA SavePrivateKept ==
    ASSUME SavesApart, SavesApart', IInv, SaveIsPrivate, [Next]_vars
    PROVE  SaveIsPrivate'
<1> USE DEF SaveIsPrivate
<1>1. CASE UNCHANGED vars
    BY <1>1 DEF vars, statefile
<1>2. ASSUME NEW e \in Events, EnqueueCreate(e) \/ EnqueueWrite(e)
      PROVE  SaveIsPrivate'
    BY <1>2 DEF EnqueueCreate, EnqueueWrite, statefile
<1>3. ASSUME NEW e \in Events, NEW n \in 1 .. MaxAttempts - 1, Elapse(e, n)
      PROVE  SaveIsPrivate'
    <2>1. \A s \in States : Later(s, e, n) \in States
        BY MaxAttemptsPositive, LaterTyped
    <2> QED
        BY <1>3, <2>1, FilesApart DEF Elapse
<1>4. ASSUME NEW w \in Workers,
             \/ Load(w) \/ ReadSpool(w) \/ TakeEvent(w) \/ Summarize(w) \/ AddMemory(w)
             \/ Remove(w) \/ Move(w) \/ SaveNothing(w)
      PROVE  SaveIsPrivate'
    <2>1. /\ UNCHANGED statefile
          /\ pc[w] \notin {"opened", "written"} /\ pc'[w] \notin {"opened", "written"}
        BY <1>4 DEF IInv, TypeOK, Goto, Load, ReadSpool, TakeEvent, ReadError, Skip, Begin,
               NextEvent, EndPass, Summarize, AddMemory, Added, Fail, Remove, Move, SaveNothing,
               EndedPass, statefile
    <2>2. \A v \in Workers : v # w => pc'[v] = pc[v]
        BY <1>4, OthersStay DEF Work
    <2> QED
        BY <2>1, <2>2 DEF statefile
<1>5. ASSUME NEW w \in Workers, Crash(w) \/ SaveOpen(w) \/ SaveWrite(w) \/ SaveRename(w)
      PROVE  SaveIsPrivate'
    <2>1. \A v \in Workers : v # w => pc'[v] = pc[v]
        BY <1>5, OthersStay DEF Work
    <2>2. mem[w] \in States /\ pc[w] \in Labels /\ fd \in [Workers -> {"none", "tmp", "disk", "unlinked"}]
        BY DEF IInv, TypeOK
    <2>3. CASE Crash(w)
        BY <2>1, <2>2, <2>3 DEF IInv, TypeOK, Crash, EndedPass, Goto
    <2>4. CASE SaveOpen(w)
        <3>1. \A v \in Workers : v # w => pc[v] \notin {"opened", "written"}
            BY <2>1, <2>4 DEF SavesApart, SaveOpen, Goto, IInv, TypeOK
        <3> QED
            BY <2>1, <2>2, <2>4, <3>1 DEF IInv, TypeOK, SaveOpen, Goto
    <2>5. CASE SaveWrite(w)
        <3>1. \A v \in Workers : v # w => pc[v] \notin {"opened", "written"}
            BY <2>5 DEF SavesApart, SaveWrite
        <3> QED
            BY <2>1, <2>2, <2>5, <3>1 DEF IInv, TypeOK, SaveWrite, Written, Goto
    <2>6. CASE SaveRename(w)
        <3>1. \A v \in Workers : v # w => pc[v] \notin {"opened", "written"}
            BY <2>6 DEF SavesApart, SaveRename
        <3> QED
            BY <2>1, <2>2, <2>6, <3>1, FilesApart DEF IInv, TypeOK, SaveRename, EndedPass, Goto
    <2> QED
        BY <1>5, <2>3, <2>4, <2>5, <2>6
<1> QED
    BY <1>1, <1>2, <1>3, <1>4, <1>5 DEF Next, Work

LEMMA AddedSoFarKept ==
    ASSUME EventsApart, IInv, AddedSoFar, [Next]_vars
    PROVE  AddedSoFar'
<1> USE DEF AddedSoFar
<1>1. CASE UNCHANGED vars
    BY <1>1 DEF vars, files, hand
<1>2. CASE \/ \E e \in Events : EnqueueCreate(e) \/ EnqueueWrite(e)
           \/ \E e \in Events, n \in 1 .. MaxAttempts - 1 : Elapse(e, n)
    BY <1>2 DEF EnqueueCreate, EnqueueWrite, Elapse, files, hand
<1>3. ASSUME NEW w \in Workers, Work(w) \/ Crash(w), ~Summarize(w), ~AddMemory(w)
      PROVE  AddedSoFar'
    <2>1. pc'[w] \notin {"adding", "remove"}
        BY <1>3 DEF IInv, TypeOK, Work, Goto, Load, ReadSpool, TakeEvent, ReadError, Skip, Begin,
               NextEvent, EndPass, Remove, Move, SaveNothing, SaveOpen, SaveWrite, SaveRename,
               EndedPass, Crash
    <2>2. stored' = stored
        BY <1>3 DEF Work, Load, ReadSpool, TakeEvent, Remove, Move, SaveNothing, SaveOpen, SaveWrite,
               SaveRename, Crash, files
    <2> QED
        BY <1>3, <2>1, <2>2, OthersStay
<1>4. ASSUME NEW w \in Workers, Summarize(w)
      PROVE  AddedSoFar'
    <2>1. \/ pc'[w] \notin {"adding", "remove"}
          \/ slot'[w] = 1 /\ pc'[w] = "adding"
          \/ size'[w] = 0 /\ pc'[w] = "remove"
        BY <1>4 DEF Summarize, Fail, NextEvent, Goto, IInv, TypeOK
    <2>2. stored' = stored
        BY <1>4 DEF Summarize, files
    <2> QED
        BY <1>4, <2>1, <2>2, OthersStay DEF Work, Slots
<1>5. ASSUME NEW w \in Workers, AddMemory(w)
      PROVE  AddedSoFar'
    <2>0. /\ cur[w] \in Events /\ slot[w] \in Slots /\ pc[w] = "adding"
          /\ size[w] \in 0 .. MaxMems
        BY <1>5, SpoolBounds DEF AddMemory, IInv, TypeOK, InHand, Ready, Handling, Slots
    (* It writes under its own event only, and that is no one else's. *)
    <2>1. ASSUME NEW v \in Workers, v # w, pc'[v] \in {"adding", "remove"}
          PROVE  /\ pc'[v] = pc[v] /\ cur'[v] = cur[v] /\ slot'[v] = slot[v] /\ size'[v] = size[v]
                 /\ stored'[cur[v]] = stored[cur[v]]
        <3>1. pc'[v] = pc[v] /\ cur'[v] = cur[v] /\ slot'[v] = slot[v] /\ size'[v] = size[v]
            BY <1>5, <2>1, OthersStay DEF Work
        <3>2. cur[v] # cur[w]
            BY <2>0, <2>1, <3>1 DEF EventsApart
        <3>3. cur[v] \in Events
            BY <2>1, <3>1 DEF IInv, TypeOK, Handling
        <3>4. \A e \in Events : e # cur[w] => stored'[e] = stored[e]
            BY <1>5, <2>0 DEF AddMemory, Put, IInv, TypeOK
        <3> QED
            BY <3>1, <3>2, <3>3, <3>4
    <2>2. CASE Fail(w)
        <3>1. pc'[w] \notin {"adding", "remove"}
            BY <2>2 DEF Fail, NextEvent, Goto, IInv, TypeOK
        <3> QED
            BY <2>1, <3>1
    <2>3. CASE Put(w) /\ Added(w)
        <3>2. \A k \in Slots : k <= slot[w] => stored'[cur[w]][k] = size[w]
            <4>1. stored[cur[w]] \in [Slots -> 0 .. MaxMems] /\ cur[w] \in DOMAIN stored
                BY <2>0 DEF IInv, TypeOK
            <4>2. stored'[cur[w]] = [stored[cur[w]] EXCEPT ![slot[w]] = size[w]]
                BY <2>3, <4>1 DEF Put
            <4>3. \A k \in Slots : k <= slot[w] => k < slot[w] \/ k = slot[w]
                BY <2>0 DEF Slots
            <4> QED
                BY <2>0, <4>1, <4>2, <4>3
        <3>3. /\ slot'[w] = slot[w] + 1 /\ UNCHANGED <<cur, size>>
              /\ pc'[w] = "remove" => slot[w] = size[w]
            BY <2>3 DEF Added, Goto, IInv, TypeOK
        <3>4. \A k \in Slots : k < slot[w] + 1 => k <= slot[w]
            BY <2>0 DEF Slots
        <3> QED
            BY <2>1, <3>2, <3>3, <3>4
    <2> QED
        BY <1>5, <2>2, <2>3 DEF AddMemory
<1> QED
    BY <1>1, <1>2, <1>3, <1>4, <1>5 DEF Next, Work

(* As long as no two workers save at a time, the state file can be loaded    *)
(* after any crash: a Save then renames a file only that it has written to   *)
(* the end.                                                                  *)
THEOREM SavesApartStateLoads == Spec /\ []SavesApart => []SavedStateLoads
<1>1. Init => SaveIsPrivate
    BY FilesApart DEF Init, SaveIsPrivate
<1>2. IInv /\ SaveIsPrivate /\ SavesApart /\ SavesApart' /\ [Next]_vars => SaveIsPrivate'
    BY SavePrivateKept
<1>3. SaveIsPrivate => SavedStateLoads
    BY DEF SaveIsPrivate, SavedStateLoads
<1> QED
    BY <1>1, <1>2, <1>3, InitHolds, StepKeeps, PTL DEF Spec

(* A single worker never needs that proviso.                                 *)
THEOREM SingleWorkerStateLoads == Alone => (Spec => []SavedStateLoads)
<1> SUFFICES ASSUME Alone PROVE Spec => []SavedStateLoads
    OBVIOUS
<1>1. SavesApart
    BY DEF Alone, SavesApart
<1> QED
    BY <1>1, SavesApartStateLoads, PTL

(* As long as no two workers store memories of the same event at a time, an  *)
(* event is removed only while the store holds exactly the summary of the    *)
(* attempt that removes it, whatever was left by attempts that failed half   *)
(* way, or by other workers before.                                          *)
THEOREM EventsApartSummaryWhole == Spec /\ []EventsApart => SummaryWhole
<1>1. Init => AddedSoFar
    BY DEF Init, AddedSoFar
<1>2. IInv /\ AddedSoFar /\ EventsApart /\ [Next]_vars => AddedSoFar'
    BY AddedSoFarKept
<1>3. IInv /\ AddedSoFar =>
        \A w \in Workers : pc[w] = "remove" /\ file' # file =>
            \A k \in 1 .. size[w] : stored[cur[w]][k] = size[w]
    BY SpoolBounds DEF IInv, TypeOK, AddedSoFar, Slots
<1> QED
    BY <1>1, <1>2, <1>3, InitHolds, StepKeeps, PTL DEF Spec, SummaryWhole

(* Nor that one.                                                             *)
THEOREM SingleWorkerSummaryWhole == Alone => (Spec => SummaryWhole)
<1> SUFFICES ASSUME Alone PROVE Spec => SummaryWhole
    OBVIOUS
<1>1. EventsApart
    BY DEF Alone, EventsApart
<1> QED
    BY <1>1, EventsApartSummaryWhole, PTL
----------------------------------------------------------------------------
(* How often a single worker fails on an event *)

(* The failures a pass that starts now would know of. *)
CountOnDisk(e) == IF disk \in States THEN disk[e].attempts ELSE 0

(* Each copy of the state knows an event by its own fingerprint. *)
OwnFp(inputs) == \A e \in Events : inputs[e].fp \in {NoFp, e}

OwnFps ==
    /\ \A w \in Workers : OwnFp(mem[w])
    /\ disk \in States => OwnFp(disk)
    /\ tmp \in States => OwnFp(tmp)

(* The pass has not failed on the event, or on any. *)
NotYetFailed(w, e) ==
    \/ pc[w] = "listing" \/ ~changed[w]
    \/ e \in queue[w] /\ (pc[w] = "move" => e # cur[w])

(* A pass takes each event once, so that its State is at most one failure   *)
(* ahead of the state file; and what it is about to rename is its State.    *)
OncePerPass ==
    \A w \in Workers :
        /\ pc[w] \in Handling => file[cur[w]] = "ready" /\ cur[w] \in queue[w]
        /\ \A e \in Events :
            /\ pc[w] = "written" => tmp[e].attempts = mem[w][e].attempts
            /\ pc[w] # "idle" => mem[w][e].attempts <= CountOnDisk(e) + 1
            /\ pc[w] # "idle" /\ NotYetFailed(w, e) => mem[w][e].attempts <= CountOnDisk(e)

(* Of an event still in the spool all failures are known, but one for each  *)
(* fault: to the pass under way, and between passes to the state file.      *)
Remembered ==
    \A w \in Workers, e \in Events : file[e] \notin {"removed", "failed"} =>
        /\ pc[w] = "idle" => tries[e] <= CountOnDisk(e) + faults
        /\ pc[w] # "idle" => tries[e] <= mem[w][e].attempts + faults

RetriesInv == OwnFps /\ OncePerPass /\ Remembered /\ RetriesBounded

LEMMA CountsTyped ==
    ASSUME IInv, NEW e \in Events
    PROVE  /\ \A w \in Workers : mem[w][e].attempts \in 0 .. MaxAttempts
           /\ CountOnDisk(e) \in 0 .. MaxAttempts
           /\ tries[e] \in Nat /\ faults \in Nat
<1>1. \A s \in States : s[e].attempts \in 0 .. MaxAttempts
    BY InputFields DEF States
<1> QED
    BY <1>1, SpoolBounds, MaxAttemptsPositive DEF IInv, TypeOK, CountOnDisk

LEMMA OwnFpsKept ==
    ASSUME IInv, OwnFps, [Next]_vars
    PROVE  OwnFps'
<1> USE DEF OwnFps
<1>1. CASE UNCHANGED vars
    BY <1>1 DEF vars, statefile, OwnFp
<1>2. CASE \E e \in Events : EnqueueCreate(e) \/ EnqueueWrite(e)
    BY <1>2 DEF EnqueueCreate, EnqueueWrite, statefile, OwnFp
<1>3. ASSUME NEW e \in Events, NEW n \in 1 .. MaxAttempts - 1, Elapse(e, n)
      PROVE  OwnFps'
    <2>1. \A s \in States : Later(s, e, n) \in States /\ (OwnFp(s) => OwnFp(Later(s, e, n)))
        BY MaxAttemptsPositive, LaterTyped DEF OwnFp
    <2>2. \A w \in Workers : mem'[w] = Later(mem[w], e, n) /\ mem[w] \in States
        BY <1>3 DEF Elapse, IInv, TypeOK
    <2> QED
        BY <1>3, <2>1, <2>2 DEF Elapse
<1>4. OwnFp([e \in Events |-> NoInput])
    BY NoInputTyped DEF OwnFp
<1>5. ASSUME NEW w \in Workers, Work(w) \/ Crash(w)
      PROVE  OwnFps'
    <2>1. /\ mem \in [Workers -> States]
          /\ disk \in States \cup {Absent, Empty, Garbled}
          /\ tmp \in States \cup {Absent, Empty, Garbled}
          /\ pc[w] \in Handling => cur[w] \in Events
        BY DEF IInv, TypeOK
    <2>2. CASE UNCHANGED <<disk, tmp, mem>>
        BY <2>2 DEF OwnFp
    <2>3. CASE Load(w)
        BY <1>4, <2>1, <2>3 DEF Load, statefile
    <2>4. CASE UNCHANGED <<disk, tmp>> /\ EndedPass(w)
        BY <1>4, <2>1, <2>4 DEF EndedPass
    <2>5. ASSUME NEW i, i.fp = cur[w], cur[w] \in Events,
                 mem' = [mem EXCEPT ![w][cur[w]] = i], UNCHANGED statefile
          PROVE  OwnFps'
        <3>1. \A v \in Workers, e \in Events :
                mem'[v][e] = IF v = w /\ e = cur[w] THEN i ELSE mem[v][e]
            BY <2>1, <2>5 DEF States
        <3> QED
            BY <2>5, <3>1 DEF OwnFp, statefile
    <2>6. CASE Fail(w) /\ pc[w] \in Handling /\ UNCHANGED statefile
        <3>1. MarkFailed(mem[w][cur[w]], cur[w]).fp = cur[w]
            BY DEF MarkFailed, Input
        <3> QED
            BY <2>1, <2>5, <2>6, <3>1 DEF Fail, Fingerprint
    <2>7. CASE Remove(w)
        <3>1. MarkProcessed(cur[w]).fp = cur[w]
            BY DEF MarkProcessed, Input
        <3>2. CASE UNCHANGED mem
            BY <2>2, <2>7, <3>2 DEF Remove, statefile
        <3> QED
            BY <2>1, <2>5, <2>7, <3>1, <3>2 DEF Remove, Fingerprint, Handling
    <2>8. CASE SaveOpen(w)
        BY <2>8, FilesApart DEF SaveOpen, OwnFp
    <2>9. CASE SaveWrite(w)
        BY <2>1, <2>9, FilesApart DEF SaveWrite, Written, OwnFp
    <2>10. CASE SaveRename(w)
        BY <1>4, <2>1, <2>10, FilesApart DEF SaveRename, EndedPass, statefile
    <2> QED
        BY <1>5, <2>2, <2>3, <2>4, <2>6, <2>7, <2>8, <2>9, <2>10
           DEF Work, ReadSpool, TakeEvent, Summarize, AddMemory, Added, Move, SaveNothing,
               Crash, Handling, files, statefile
<1> QED
    BY <1>1, <1>2, <1>3, <1>5 DEF Next


LEMMA EnqueueCountsKept ==
    ASSUME IInv, OncePerPass, Remembered, RetriesBounded,
           NEW e \in Events, EnqueueCreate(e) \/ EnqueueWrite(e)
    PROVE  OncePerPass' /\ Remembered' /\ RetriesBounded'
<1>1. UNCHANGED <<disk, tmp, pc, mem, changed, queue, cur, faults, tries>>
    BY DEF EnqueueCreate, EnqueueWrite, statefile, hand, history
<1>2. /\ \A f \in Events : f # e => file'[f] = file[f]
      /\ file[e] \notin {"ready", "removed", "failed"}
    BY DEF EnqueueCreate, EnqueueWrite, IInv, TypeOK
<1>3. \A w \in Workers : pc[w] \in Handling => cur[w] \in Events
    BY DEF IInv, TypeOK
<1> QED
    BY <1>1, <1>2, <1>3
       DEF OncePerPass, Remembered, RetriesBounded, CountOnDisk, NotYetFailed

LEMMA ElapseCountsKept ==
    ASSUME IInv, SaveIsPrivate, OncePerPass, Remembered, RetriesBounded,
           NEW e \in Events, NEW n \in 1 .. MaxAttempts - 1, Elapse(e, n)
    PROVE  OncePerPass' /\ Remembered' /\ RetriesBounded'
<1>1. UNCHANGED <<file, pc, changed, queue, cur, faults, tries>>
    BY DEF Elapse, files, hand, history
<1>2. \A s \in States : /\ Later(s, e, n) \in States
                        /\ \A f \in Events : Later(s, e, n)[f].attempts = s[f].attempts
    BY MaxAttemptsPositive, LaterTyped
<1>3. /\ \A w \in Workers, f \in Events : mem'[w][f].attempts = mem[w][f].attempts
      /\ \A f \in Events : CountOnDisk(f)' = CountOnDisk(f)
      /\ tmp \in States => \A f \in Events : tmp'[f].attempts = tmp[f].attempts
    <2>1. mem \in [Workers -> States]
        BY DEF IInv, TypeOK
    <2> QED
        BY <1>2, <2>1 DEF Elapse, CountOnDisk
<1> QED
    BY <1>1, <1>3 DEF OncePerPass, Remembered, RetriesBounded, NotYetFailed, SaveIsPrivate

LEMMA LoadCountsKept ==
    ASSUME Alone, IInv, SaveIsPrivate, OncePerPass, Remembered, RetriesBounded,
           NEW w \in Workers, Load(w)
    PROVE  OncePerPass' /\ Remembered' /\ RetriesBounded'
<1>1. UNCHANGED <<file, disk, tmp, queue, cur, faults, tries>> /\ pc[w] = "idle"
    BY DEF Load, files, statefile, hand, history
<1>2. /\ pc'[w] = "listing" /\ changed'[w] = FALSE
      /\ \A e \in Events : mem'[w][e].attempts = CountOnDisk(e)
    BY EmptyStateTyped, FilesApart DEF Load, Goto, CountOnDisk, IInv, TypeOK
<1>3. \A e \in Events : CountOnDisk(e)' = CountOnDisk(e) /\ CountOnDisk(e) \in Nat
    BY <1>1, CountsTyped DEF CountOnDisk
<1> QED
    BY <1>1, <1>2, <1>3
       DEF Alone, OncePerPass, Remembered, RetriesBounded, NotYetFailed, Handling

(* Steps that neither fail nor mark anything. *)
LEMMA QuietCountsKept ==
    ASSUME Alone, IInv, OncePerPass, Remembered, RetriesBounded, NEW w \in Workers,
           pc[w] \notin {"idle", "written"}, pc'[w] \notin {"idle", "written", "listing"},
           UNCHANGED <<file, disk, mem, changed, tries>>, faults' >= faults, faults' \in Nat,
           pc'[w] \in Handling => file[cur'[w]] = "ready" /\ cur'[w] \in queue'[w],
           pc'[w] # "move",
           pc[w] = "move" => cur[w] \notin queue'[w],
           pc[w] = "listing" \/ queue'[w] \subseteq queue[w]
    PROVE  OncePerPass' /\ Remembered' /\ RetriesBounded'
<1>1. \A e \in Events : /\ CountOnDisk(e)' = CountOnDisk(e)
                        /\ CountOnDisk(e) \in Nat /\ mem[w][e].attempts \in Nat
                        /\ tries[e] \in Nat /\ faults \in Nat
    BY CountsTyped DEF CountOnDisk
<1>2. ASSUME NEW e \in Events, NotYetFailed(w, e)'
      PROVE  NotYetFailed(w, e)
    BY <1>2 DEF NotYetFailed
<1>3. OncePerPass'
    BY <1>1, <1>2 DEF Alone, OncePerPass
<1>4. Remembered' /\ RetriesBounded'
    BY <1>1, MaxAttemptsPositive DEF Alone, Remembered, RetriesBounded
<1> QED
    BY <1>3, <1>4

LEMMA FailCountsKept ==
    ASSUME Alone, IInv, OwnFps, OncePerPass, Remembered, RetriesBounded, NEW w \in Workers,
           pc[w] \in {"summarize", "adding"}, Fail(w), UNCHANGED <<file, statefile, faults>>
    PROVE  OncePerPass' /\ Remembered' /\ RetriesBounded'
<1>1. PICK e \in Events : e = cur[w]
    BY DEF IInv, TypeOK, Handling
<1>2. PICK i : i = MarkFailed(mem[w][e], e)
    OBVIOUS
<1>3. mem[w] \in States /\ mem[w][e] \in Inputs(Events) /\ ~Exhausted(mem[w][e], e)
    BY <1>1 DEF IInv, TypeOK, States, InHand, Ready
<1>4. i.attempts = mem[w][e].attempts + 1 /\ i.attempts \in 0 .. MaxAttempts
    <2>1. /\ i \in Inputs(Events)
          /\ i.attempts = IF mem[w][e].fp = e THEN mem[w][e].attempts + 1 ELSE 1
        BY <1>2, <1>3, FailedTyped
    <2>2. mem[w][e].fp = NoFp => mem[w][e].attempts = 0
        BY <1>3, InputFields, EventsNumbered
    <2> QED
        BY <1>3, <2>1, <2>2, InputFields DEF OwnFps, OwnFp
<1>5. /\ \A f \in Events : mem'[w][f] = IF f = e THEN i ELSE mem[w][f]
      /\ changed'[w] = TRUE
      /\ \/ pc'[w] = "move" /\ UNCHANGED <<queue, cur>>
         \/ pc'[w] = "next" /\ queue'[w] = queue[w] \ {e}
    BY <1>1, <1>2, <1>3
       DEF Fail, Fingerprint, Goto, NextEvent, hand, IInv, TypeOK, States
<1>6. \A f \in Events : /\ tries'[f] \in Nat
                        /\ tries'[f] <= tries[f] + 1 /\ (f # e => tries'[f] = tries[f])
    BY <1>1, SpoolBounds DEF Fail, IInv, TypeOK
<1>7. \A f \in Events : /\ CountOnDisk(f)' = CountOnDisk(f)
                        /\ CountOnDisk(f) \in Nat /\ mem[w][f].attempts \in Nat
                        /\ tries[f] \in Nat /\ faults \in Nat
    BY CountsTyped DEF CountOnDisk, statefile
<1>8. /\ file[e] = "ready" /\ e \in queue[w]
      /\ NotYetFailed(w, e) /\ pc[w] \notin {"idle", "move", "listing"}
    BY <1>1 DEF OncePerPass, Handling, NotYetFailed
<1>9. OncePerPass'
    <2>1. ASSUME NEW f \in Events, NotYetFailed(w, f)'
          PROVE  f # e /\ NotYetFailed(w, f)
        BY <1>1, <1>5, <1>8, <2>1 DEF NotYetFailed
    <2>2. \A f \in Events : mem'[w][f].attempts <= CountOnDisk(f) + 1
        BY <1>4, <1>5, <1>7, <1>8 DEF OncePerPass
    <2>3. \A f \in Events : NotYetFailed(w, f)' => mem'[w][f].attempts <= CountOnDisk(f)
        BY <1>5, <1>8, <2>1 DEF OncePerPass
    <2> QED
        BY <1>1, <1>5, <1>7, <1>8, <2>2, <2>3 DEF Alone, OncePerPass, Handling
<1>10. \A f \in Events : file[f] \notin {"removed", "failed"} =>
                            tries'[f] <= mem'[w][f].attempts + faults
    BY <1>4, <1>5, <1>6, <1>7, <1>8 DEF Remembered
<1>11. Remembered'
    BY <1>5, <1>10 DEF Alone, Remembered
<1>12. RetriesBounded'
    BY <1>4, <1>5, <1>6, <1>7, <1>8, <1>10, MaxAttemptsPositive DEF RetriesBounded
<1> QED
    BY <1>9, <1>11, <1>12

LEMMA PassCountsKept ==
    ASSUME Alone, IInv, OwnFps, OncePerPass, Remembered, RetriesBounded, NEW w \in Workers,
           \/ ReadSpool(w) \/ TakeEvent(w) \/ Summarize(w) \/ AddMemory(w)
           \/ SaveOpen(w)
    PROVE  OncePerPass' /\ Remembered' /\ RetriesBounded'
<1>1. CASE ReadSpool(w)
    <2>1. /\ pc[w] = "listing" /\ pc'[w] = "next"
          /\ UNCHANGED <<file, disk, mem, changed, tries, faults>>
        BY <1>1 DEF ReadSpool, Goto, files, statefile, history, IInv, TypeOK
    <2>2. faults \in Nat /\ pc'[w] \notin Handling
        BY <2>1, SpoolBounds DEF Handling, IInv, TypeOK
    <2> QED
        BY <2>1, <2>2, QuietCountsKept
<1>2. CASE TakeEvent(w)
    <2>1. /\ pc[w] = "next" /\ pc'[w] \in {"next", "save", "summarize"}
          /\ UNCHANGED <<file, disk, mem, changed, tries, faults>>
          /\ queue'[w] \subseteq queue[w]
        BY <1>2 DEF TakeEvent, ReadError, Skip, Begin, NextEvent, EndPass, Goto, files,
                    statefile, history, IInv, TypeOK
    <2>2. pc'[w] = "summarize" => file[cur'[w]] = "ready" /\ cur'[w] \in queue'[w]
        BY <1>2 DEF TakeEvent, ReadError, Skip, Begin, First, NextEvent, EndPass, Goto,
                    IInv, TypeOK
    <2>3. faults \in Nat /\ (pc'[w] \in Handling => pc'[w] = "summarize")
        BY <2>1, SpoolBounds DEF Handling, IInv, TypeOK
    <2> QED
        BY <2>1, <2>2, <2>3, QuietCountsKept
<1>3. CASE (Summarize(w) \/ AddMemory(w)) /\ Fail(w)
    BY <1>3, FailCountsKept DEF Summarize, AddMemory, files, statefile
<1>4. CASE (Summarize(w) \/ AddMemory(w)) /\ ~Fail(w)
    <2>1. /\ pc[w] \in {"summarize", "adding"} /\ pc'[w] \in {"adding", "remove"}
          /\ UNCHANGED <<file, disk, mem, changed, tries, faults, cur, queue>>
        BY <1>4 DEF Summarize, AddMemory, Added, Goto, files, statefile, IInv, TypeOK
    <2>2. file[cur[w]] = "ready" /\ cur[w] \in queue[w] /\ faults \in Nat
        BY <2>1, SpoolBounds DEF OncePerPass, Handling, IInv, TypeOK
    <2> QED
        BY <2>1, <2>2, QuietCountsKept
<1>5. CASE SaveOpen(w)
    <2>1. /\ pc[w] = "save" /\ pc'[w] = "opened"
          /\ UNCHANGED <<file, disk, mem, changed, queue, tries, faults>>
        BY <1>5 DEF SaveOpen, Goto, files, history, IInv, TypeOK
    <2>2. faults \in Nat /\ pc'[w] \notin Handling
        BY <2>1, SpoolBounds DEF Handling, IInv, TypeOK
    <2> QED
        BY <2>1, <2>2, QuietCountsKept
<1> QED
    BY <1>1, <1>2, <1>3, <1>4, <1>5

(* The event leaves the spool, and with it what is remembered of it; or a   *)
(* fault ends the pass.                                                     *)
LEMMA SettleCountsKept ==
    ASSUME Alone, IInv, OncePerPass, Remembered, RetriesBounded, NEW w \in Workers,
           Remove(w) \/ Move(w)
    PROVE  OncePerPass' /\ Remembered' /\ RetriesBounded'
<1>1. PICK e \in Events : e = cur[w]
    BY DEF Remove, Move, IInv, TypeOK, Handling
<1>2. file[e] = "ready" /\ pc[w] \in {"remove", "move"}
    BY <1>1 DEF Remove, Move, OncePerPass, Handling
<1>3. CASE EndPass(w) /\ UNCHANGED <<file, mem, changed>>
    <2>1. faults' = faults + 1 /\ faults \in Nat
        BY <1>1, <1>2, <1>3, SpoolBounds DEF Remove, Move, NextEvent, Fault, IInv, TypeOK
    <2>2. pc'[w] = "save" /\ queue'[w] = {} /\ UNCHANGED <<disk, tries>>
        BY <1>3 DEF Remove, Move, EndPass, Goto, statefile, history, IInv, TypeOK
    <2> QED
        BY <1>2, <1>3, <2>1, <2>2, QuietCountsKept DEF Handling
<1>4. ASSUME NEW f \in {"removed", "failed"}, file' = [file EXCEPT ![e] = f],
             NextEvent(w, e), UNCHANGED faults,
             \/ UNCHANGED <<mem, changed>>
             \/ /\ mem' = [mem EXCEPT ![w][e] = MarkProcessed(Fingerprint(e))]
                /\ changed' = [changed EXCEPT ![w] = TRUE]
      PROVE  OncePerPass' /\ Remembered' /\ RetriesBounded'
    <2>1. /\ pc'[w] = "next" /\ queue'[w] = queue[w] \ {e}
          /\ UNCHANGED <<disk, tmp, tries>>
        BY <1>4 DEF Remove, Move, NextEvent, Goto, statefile, history, IInv, TypeOK
    <2>2. \A d \in Events : d # e => file'[d] = file[d] /\ mem'[w][d] = mem[w][d]
        BY <1>4 DEF IInv, TypeOK, States
    <2>3. mem'[w][e].attempts \in {mem[w][e].attempts, 0}
        BY <1>1, <1>4, ProcessedTyped DEF Fingerprint, IInv, TypeOK, States
    <2>4. file'[e] \in {"removed", "failed"}
        BY <1>4 DEF IInv, TypeOK
    <2>5. \A d \in Events : /\ CountOnDisk(d)' = CountOnDisk(d)
                            /\ CountOnDisk(d) \in Nat /\ mem[w][d].attempts \in Nat
        BY <2>1, CountsTyped DEF CountOnDisk
    <2>6. \A d \in Events : NotYetFailed(w, d)' => (d # e /\ NotYetFailed(w, d)) \/ ~changed'[w]
        BY <1>1, <2>1 DEF NotYetFailed
    <2>7. ~changed'[w] => ~changed[w] /\ UNCHANGED mem
        BY <1>4 DEF IInv, TypeOK
    <2>8. OncePerPass'
        <3>1. \A d \in Events : mem'[w][d].attempts <= CountOnDisk(d) + 1
            BY <1>2, <2>2, <2>3, <2>5 DEF OncePerPass
        <3>2. \A d \in Events : NotYetFailed(w, d)' => mem'[w][d].attempts <= CountOnDisk(d)
            BY <1>2, <2>2, <2>5, <2>6, <2>7 DEF OncePerPass, NotYetFailed
        <3> QED
            BY <2>1, <2>5, <3>1, <3>2 DEF Alone, OncePerPass, Handling
    <2>9. Remembered'
        BY <1>2, <1>4, <2>1, <2>2, <2>4 DEF Alone, Remembered
    <2> QED
        BY <1>4, <2>1, <2>8, <2>9 DEF RetriesBounded
<1> QED
    BY <1>1, <1>3, <1>4 DEF Remove, Move

LEMMA SaveCountsKept ==
    ASSUME Alone, IInv, IInv', SaveIsPrivate, OncePerPass, Remembered, RetriesBounded,
           NEW w \in Workers, SaveNothing(w) \/ SaveWrite(w) \/ SaveRename(w) \/ Crash(w)
    PROVE  OncePerPass' /\ Remembered' /\ RetriesBounded'
<1>1. /\ UNCHANGED <<file, tries>> /\ pc[w] # "idle" /\ faults \in Nat
      /\ \A e \in Events : /\ CountOnDisk(e) \in Nat /\ mem[w][e].attempts \in Nat
                           /\ tries[e] \in Nat
    <2>1. faults \in Nat
        BY SpoolBounds DEF IInv, TypeOK
    <2> QED
        BY <2>1, CountsTyped, MaxAttemptsPositive
           DEF SaveNothing, SaveWrite, SaveRename, Crash, files, history
<1>2. CASE SaveWrite(w)
    <2>1. /\ pc[w] = "opened" /\ fd[w] = "tmp" /\ tmp = Empty
          /\ UNCHANGED <<disk, mem, changed, queue, cur, faults>> /\ pc'[w] = "written"
          /\ tmp' = mem[w]
        BY <1>2 DEF SaveIsPrivate, SaveWrite, Written, Goto, hand, IInv, TypeOK
    <2>2. \A e \in Events : /\ CountOnDisk(e)' = CountOnDisk(e)
                            /\ NotYetFailed(w, e)' => NotYetFailed(w, e)
        BY <2>1 DEF CountOnDisk, NotYetFailed
    <2> QED
        BY <1>1, <2>1, <2>2 DEF Alone, OncePerPass, Remembered, RetriesBounded, Handling
<1>3. \A e \in Events : CountOnDisk(e)' \in Nat
    BY InputFields, MaxAttemptsPositive DEF CountOnDisk, States
<1>4. ASSUME EndedPass(w), faults' \in Nat, faults' >= faults,
             \A e \in Events : mem[w][e].attempts + faults <= CountOnDisk(e)' + faults'
      PROVE  OncePerPass' /\ Remembered' /\ RetriesBounded'
    <2>1. pc'[w] = "idle"
        BY <1>4 DEF EndedPass, Goto, IInv, TypeOK
    <2>2. OncePerPass'
        BY <2>1 DEF Alone, OncePerPass, Handling
    <2>3. \A e \in Events : file[e] \notin {"removed", "failed"} =>
                                tries[e] <= CountOnDisk(e)' + faults'
        BY <1>1, <1>3, <1>4 DEF Remembered
    <2>4. Remembered'
        BY <1>1, <2>1, <2>3 DEF Alone, Remembered
    <2>5. RetriesBounded'
        BY <1>1, <1>4, MaxAttemptsPositive DEF RetriesBounded
    <2> QED
        BY <2>2, <2>4, <2>5
<1>5. CASE Crash(w)
    <2>1. EndedPass(w) /\ faults' = faults + 1 /\ disk' = disk
        BY <1>5 DEF Crash, Fault
    <2>2. \A e \in Events : CountOnDisk(e)' = CountOnDisk(e)
        BY <2>1 DEF CountOnDisk
    <2>3. \A e \in Events : mem[w][e].attempts <= CountOnDisk(e) + 1
        BY <1>1 DEF OncePerPass
    <2>4. \A e \in Events : mem[w][e].attempts + faults <= CountOnDisk(e)' + faults'
        BY <1>1, <2>1, <2>2, <2>3
    <2> QED
        BY <1>1, <1>4, <2>1, <2>4
<1>6. CASE SaveNothing(w)
    <2>1. EndedPass(w) /\ disk' = disk /\ faults' = IF changed[w] THEN faults + 1 ELSE faults
        BY <1>6 DEF SaveNothing, Fault, statefile
    <2>2. \A e \in Events : CountOnDisk(e)' = CountOnDisk(e)
        BY <2>1 DEF CountOnDisk
    <2>3. \A e \in Events : mem[w][e].attempts <= CountOnDisk(e) + 1
                            /\ (~changed[w] => mem[w][e].attempts <= CountOnDisk(e))
        BY <1>1 DEF OncePerPass, NotYetFailed
    <2>4. \A e \in Events : mem[w][e].attempts + faults <= CountOnDisk(e)' + faults'
        BY <1>1, <2>1, <2>2, <2>3
    <2> QED
        BY <1>1, <1>4, <2>1, <2>4
<1>7. CASE SaveRename(w)
    <2>1. EndedPass(w) /\ faults' = faults /\ disk' = tmp /\ tmp \in States
        BY <1>7, FilesApart DEF SaveRename, SaveIsPrivate
    <2>2. \A e \in Events : CountOnDisk(e)' = mem[w][e].attempts
        BY <1>7, <2>1 DEF CountOnDisk, OncePerPass, SaveRename
    <2>3. \A e \in Events : mem[w][e].attempts + faults <= CountOnDisk(e)' + faults'
        BY <1>1, <2>1, <2>2
    <2> QED
        BY <1>1, <1>4, <2>1, <2>3
<1> QED
    BY <1>2, <1>5, <1>6, <1>7

LEMMA RetriesKept ==
    ASSUME Alone, IInv, SaveIsPrivate, RetriesInv, [Next]_vars
    PROVE  RetriesInv'
<1> USE DEF RetriesInv
<1>1. OwnFps' /\ IInv'
    BY OwnFpsKept, StepKeeps
<1>2. CASE UNCHANGED vars
    BY <1>1, <1>2 DEF vars, files, statefile, hand, history, OncePerPass, Remembered,
                      RetriesBounded, CountOnDisk, NotYetFailed
<1>3. ASSUME NEW e \in Events, EnqueueCreate(e) \/ EnqueueWrite(e)
      PROVE  RetriesInv'
    BY <1>1, <1>3, EnqueueCountsKept
<1>4. ASSUME NEW e \in Events, NEW n \in 1 .. MaxAttempts - 1, Elapse(e, n)
      PROVE  RetriesInv'
    BY <1>1, <1>4, ElapseCountsKept
<1>5. ASSUME NEW w \in Workers, Work(w) \/ Crash(w)
      PROVE  RetriesInv'
    BY <1>1, <1>5, LoadCountsKept, PassCountsKept, SettleCountsKept, SaveCountsKept DEF Work
<1> QED
    BY <1>2, <1>3, <1>4, <1>5 DEF Next

(* With one worker, an event is tried at most MaxAttempts times, and once    *)
(* more for every crash or failing file operation: a pass takes an event     *)
(* once and saves what it knows, so a fault forgets one failure of it.       *)
THEOREM SingleWorkerRetriesBounded == Alone => (Spec => []RetriesBounded)
<1> SUFFICES ASSUME Alone PROVE Spec => []RetriesBounded
    OBVIOUS
<1>1. Init => SaveIsPrivate
    BY FilesApart DEF Init, SaveIsPrivate
<1>2. Init => RetriesInv
    <2> SUFFICES ASSUME Init PROVE RetriesInv
        OBVIOUS
    <2>1. OwnFps
        BY FilesApart DEF Init, OwnFps, OwnFp, NoInput, Input
    <2>2. OncePerPass
        BY DEF Init, OncePerPass, Handling
    <2>3. Remembered /\ RetriesBounded
        BY FilesApart, MaxAttemptsPositive DEF Init, Remembered, RetriesBounded, CountOnDisk
    <2> QED
        BY <2>1, <2>2, <2>3 DEF RetriesInv
<1>3. IInv /\ SaveIsPrivate /\ [Next]_vars => SaveIsPrivate'
    <2>1. SavesApart /\ SavesApart'
        BY DEF Alone, SavesApart
    <2> QED
        BY <2>1, SavePrivateKept
<1>4. IInv /\ SaveIsPrivate /\ RetriesInv /\ [Next]_vars => RetriesInv'
    BY RetriesKept
<1>5. RetriesInv => RetriesBounded
    BY DEF RetriesInv
<1> QED
    BY <1>1, <1>2, <1>3, <1>4, <1>5, InitHolds, StepKeeps, PTL DEF Spec
=============================================================================
