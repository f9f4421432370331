------------------------------- MODULE GitSpool -------------------------------
(***************************************************************************)
(* The git event spool (internal/spool/spool.go) and the ingest state file  *)
(* (internal/ingeststate/state.go), as the passes of daemon.Once drive      *)
(* them.  Hooks write event files; workers, the resident daemon and         *)
(* `scan-once` commands each in a process of its own, take passes over the  *)
(* spool.  A pass loads the state file, handles the events one by one, and  *)
(* saves the state when it returns, also on an error.  Nothing but the file *)
(* system keeps two workers apart.                                          *)
(*                                                                         *)
(* A worker's pc: idle; listing, state loaded; next, at the head of the     *)
(* loop over the events; summarize, adding, remove, move, handling one;     *)
(* save, opened, written, in Save.                                          *)
(***************************************************************************)
EXTENDS IngestState, FiniteSets

CONSTANTS
    Workers,        \* processes that run passes
    Events,         \* event files, numbered in the order of their names
    MaxMems,        \* the most memories a summary has
    MaxTries,       \* the history tries stops counting here
    MaxFaults,      \* bound on crashes and failing file operations
    NoEvent,
    Absent, Empty, Garbled  \* a state file that is not there, truncated, mixed up

ASSUME EventsNumbered == Events \subseteq Nat /\ NoEvent \notin Events /\ NoFp \notin Events
ASSUME SpoolBounds == MaxMems \in Nat /\ MaxFaults \in Nat
                        /\ MaxTries \in Nat /\ MaxTries >= MaxAttempts

States == [Events -> Inputs(Events)]

ASSUME FilesApart == Absent \notin States /\ Empty \notin States /\ Garbled \notin States
                        /\ Absent # Empty /\ Absent # Garbled /\ Empty # Garbled

VARIABLES
    file,       \* event -> "none", "writing", "broken", "ready", "removed", "failed"
    stored,     \* the store: event -> slot -> size of the summary stored there, or 0
    disk, tmp,  \* contents of ingest-state.json and ingest-state.json.tmp
    fd,         \* worker -> the name its open state file has by now, or "none"
    pc,
    mem,        \* worker -> its State, the copy of the pass
    changed,    \* worker -> State.changed
    queue,      \* worker -> events listed by ReadDir and not handled yet
    cur, size, slot,    \* worker -> event in hand, size of its summary, next memory
    faults,     \* crashes and failed file operations so far
    tries, whole    \* history: failed attempts; events some attempt stored in full

files == <<file, stored>>
statefile == <<disk, tmp, fd>>
hand == <<cur, size, slot>>
history == <<tries, whole>>
vars == <<files, statefile, pc, mem, changed, queue, hand, faults, history>>

Fingerprint(e) == e     \* events are distinct, and an event file never changes
Slots == 1 .. MaxMems

Init ==
    /\ file = [e \in Events |-> "none"]
    /\ stored = [e \in Events |-> [k \in Slots |-> 0]]
    /\ disk = Absent /\ tmp = Absent
    /\ fd = [w \in Workers |-> "none"]
    /\ pc = [w \in Workers |-> "idle"]
    /\ mem = [w \in Workers |-> [e \in Events |-> NoInput]]
    /\ changed = [w \in Workers |-> FALSE]
    /\ queue = [w \in Workers |-> {}]
    /\ cur = [w \in Workers |-> NoEvent]
    /\ size = [w \in Workers |-> 0]
    /\ slot = [w \in Workers |-> 1]
    /\ faults = 0
    /\ tries = [e \in Events |-> 0]
    /\ whole = {}

Goto(w, label) == pc' = [pc EXCEPT ![w] = label]

Fault == faults < MaxFaults /\ faults' = faults + 1

----------------------------------------------------------------------------
(* Hooks: EnqueueGit creates a file under a fresh name, then writes it. *)

EnqueueCreate(e) ==
    /\ file[e] = "none"
    /\ file' = [file EXCEPT ![e] = "writing"]
    /\ UNCHANGED <<stored, statefile, pc, mem, changed, queue, hand, faults, history>>

(* The write completes, or the hook dies, or the disk is full, before it does. *)
EnqueueWrite(e) ==
    /\ file[e] = "writing"
    /\ \E f \in {"ready", "broken"} : file' = [file EXCEPT ![e] = f]
    /\ UNCHANGED <<stored, statefile, pc, mem, changed, queue, hand, faults, history>>

----------------------------------------------------------------------------
(* A pass over the spool *)

(* A state file that does not decode ends the pass before it begins. *)
Load(w) ==
    /\ pc[w] = "idle"
    /\ disk \notin {Empty, Garbled}
    /\ mem' = [mem EXCEPT ![w] = IF disk = Absent THEN [e \in Events |-> NoInput] ELSE disk]
    /\ changed' = [changed EXCEPT ![w] = FALSE]
    /\ Goto(w, "listing")
    /\ UNCHANGED <<files, statefile, queue, hand, faults, history>>

InSpool == {e \in Events : file[e] \in {"writing", "broken", "ready"}}

ReadSpool(w) ==
    /\ pc[w] = "listing"
    /\ queue' = [queue EXCEPT ![w] = InSpool]
    /\ Goto(w, "next")
    /\ UNCHANGED <<files, statefile, mem, changed, hand, faults, history>>

(* ReadDir sorts by name. *)
First(w, e) == e \in queue[w] /\ \A f \in queue[w] : e <= f

(* The rest of the events are left to a later pass, but the state is saved. *)
EndPass(w) ==
    /\ Goto(w, "save")
    /\ queue' = [queue EXCEPT ![w] = {}]

(* The event is done with, for this pass. *)
NextEvent(w, e) ==
    /\ Goto(w, "next")
    /\ queue' = [queue EXCEPT ![w] = @ \ {e}]

(* The file is gone, another worker having taken it, or does not decode: an *)
(* error, which ends the pass.                                              *)
ReadError(w, e) == file[e] # "ready" /\ EndPass(w) /\ UNCHANGED hand

Skip(w, e) ==
    /\ file[e] = "ready"
    /\ ~ShouldProcess(mem[w][e], Fingerprint(e))
    /\ NextEvent(w, e)
    /\ UNCHANGED hand

Begin(w, e) ==
    /\ file[e] = "ready"
    /\ ShouldProcess(mem[w][e], Fingerprint(e))
    /\ Goto(w, "summarize")
    /\ cur' = [cur EXCEPT ![w] = e]
    /\ UNCHANGED <<queue, size, slot>>

TakeEvent(w) ==
    /\ pc[w] = "next"
    /\ \/ \E e \in Events : First(w, e) /\ (ReadError(w, e) \/ Skip(w, e) \/ Begin(w, e))
       \/ queue[w] = {} /\ EndPass(w) /\ UNCHANGED hand
    /\ UNCHANGED <<files, statefile, mem, changed, faults, history>>

DropHand(w) ==
    /\ cur' = [cur EXCEPT ![w] = NoEvent]
    /\ size' = [size EXCEPT ![w] = 0]
    /\ slot' = [slot EXCEPT ![w] = 1]

(* MarkFailed, and on to moving the event away if that was once too often.  *)
Fail(w) ==
    LET e == cur[w]
        input == MarkFailed(mem[w][e], Fingerprint(e)) IN
    /\ mem' = [mem EXCEPT ![w][e] = input]
    /\ changed' = [changed EXCEPT ![w] = TRUE]
    /\ tries' = [tries EXCEPT ![e] = IF @ < MaxTries THEN @ + 1 ELSE @]
    /\ IF input.status = "quarantined"
       THEN Goto(w, "move") /\ UNCHANGED <<queue, hand>>
       ELSE NextEvent(w, e) /\ DropHand(w)

(* The existing memories are listed and the summarizer runs: it fails, is   *)
(* killed by a timeout or a shutdown, or returns zero or more memories.     *)
Summarize(w) ==
    /\ pc[w] = "summarize"
    /\ \/ Fail(w) /\ UNCHANGED whole
       \/ \E n \in 0 .. MaxMems :
            /\ size' = [size EXCEPT ![w] = n]
            /\ slot' = [slot EXCEPT ![w] = 1]
            /\ Goto(w, IF n = 0 THEN "remove" ELSE "adding")
            /\ whole' = IF n = 0 THEN whole \cup {cur[w]} ELSE whole
            /\ UNCHANGED <<cur, mem, changed, queue, tries>>
    /\ UNCHANGED <<files, statefile, faults>>

Put(w) == stored' = [stored EXCEPT ![cur[w]][slot[w]] = size[w]]

Added(w) ==
    /\ Goto(w, IF slot[w] = size[w] THEN "remove" ELSE "adding")
    /\ slot' = [slot EXCEPT ![w] = @ + 1]
    /\ whole' = IF slot[w] = size[w] THEN whole \cup {cur[w]} ELSE whole
    /\ UNCHANGED <<cur, size, mem, changed, queue, tries>>

(* A failing Add is passed over, as if it had not been needed. *)
AddIgnored(w) ==
    /\ pc[w] = "adding"
    /\ \/ Put(w) /\ Added(w)
       \/ UNCHANGED stored /\ Added(w)
    /\ UNCHANGED <<file, statefile, faults>>

(* Add number slot of the memories, under an id made of the event's source  *)
(* and that number.  An Add that reports an error may have been done, the   *)
(* reply having been lost or Flush having failed after the Upsert.          *)
AddMemory(w) ==
    /\ pc[w] = "adding"
    /\ \/ Put(w) /\ Added(w)
       \/ /\ Put(w) \/ UNCHANGED stored
          /\ Fail(w) /\ UNCHANGED whole
    /\ UNCHANGED <<file, statefile, faults>>

(* The event file is removed and then marked; if it cannot be, because it is *)
(* gone or by a fault, the pass ends and nothing is marked.                  *)
Remove(w) ==
    LET e == cur[w] IN
    /\ pc[w] = "remove"
    /\ \/ /\ file[e] = "ready"
          /\ file' = [file EXCEPT ![e] = "removed"]
          /\ mem' = [mem EXCEPT ![w][e] = MarkProcessed(Fingerprint(e))]
          /\ changed' = [changed EXCEPT ![w] = TRUE]
          /\ NextEvent(w, e)
          /\ UNCHANGED faults
       \/ /\ IF file[e] = "ready" THEN Fault ELSE UNCHANGED faults
          /\ EndPass(w)
          /\ UNCHANGED <<file, mem, changed>>
    /\ DropHand(w)
    /\ UNCHANGED <<stored, statefile, history>>

(* moveFailedEvent; the event stays quarantined in the state if that fails. *)
Move(w) ==
    LET e == cur[w] IN
    /\ pc[w] = "move"
    /\ \/ /\ file[e] = "ready"
          /\ file' = [file EXCEPT ![e] = "failed"]
          /\ NextEvent(w, e)
          /\ UNCHANGED faults
       \/ /\ IF file[e] = "ready" THEN Fault ELSE UNCHANGED faults
          /\ EndPass(w)
          /\ UNCHANGED file
    /\ DropHand(w)
    /\ UNCHANGED <<stored, statefile, mem, changed, history>>

----------------------------------------------------------------------------
(* Save: the temporary file has one name for all workers.  A worker that    *)
(* has it open keeps writing to the same file when another renames it.      *)

EndedPass(w) ==
    /\ Goto(w, "idle")
    /\ mem' = [mem EXCEPT ![w] = [e \in Events |-> NoInput]]
    /\ changed' = [changed EXCEPT ![w] = FALSE]

(* Nothing changed, or the temporary file cannot be created. *)
SaveNothing(w) ==
    /\ pc[w] = "save"
    /\ IF changed[w] THEN Fault ELSE UNCHANGED faults
    /\ EndedPass(w)
    /\ UNCHANGED <<files, statefile, queue, hand, history>>

(* os.WriteFile creates or truncates the file. *)
SaveOpen(w) ==
    /\ pc[w] = "save" /\ changed[w]
    /\ tmp' = Empty
    /\ fd' = [fd EXCEPT ![w] = "tmp"]
    /\ Goto(w, "opened")
    /\ UNCHANGED <<files, disk, mem, changed, queue, hand, faults, history>>

(* A write over what another worker has written since leaves that worker's  *)
(* tail, when it wrote more.                                                *)
Written(old, new) == IF old = Empty THEN {new} ELSE {new, Garbled}

(* A Save that renames before it has written. *)
RenameUnwritten(w) ==
    /\ pc[w] = "opened"
    /\ disk' = tmp /\ tmp' = Absent
    /\ fd' = [v \in Workers |-> IF fd[v] = "tmp" THEN "disk" ELSE fd[v]]
    /\ EndedPass(w)
    /\ UNCHANGED <<files, queue, hand, faults, history>>

SaveWrite(w) ==
    /\ pc[w] = "opened"
    /\ IF fd[w] = "tmp" THEN tmp' \in Written(tmp, mem[w]) ELSE UNCHANGED tmp
    /\ IF fd[w] = "disk" THEN disk' \in Written(disk, mem[w]) ELSE UNCHANGED disk
    /\ fd' = [fd EXCEPT ![w] = "none"]
    /\ Goto(w, "written")
    /\ UNCHANGED <<files, mem, changed, queue, hand, faults, history>>

(* The rename takes the temporary file, whoever wrote it, and whoever has   *)
(* it open; it fails when another worker has renamed it already.            *)
SaveRename(w) ==
    /\ pc[w] = "written"
    /\ IF tmp = Absent THEN UNCHANGED statefile
       ELSE /\ disk' = tmp /\ tmp' = Absent
            /\ fd' = [v \in Workers |-> CASE fd[v] = "tmp" -> "disk"
                                         [] fd[v] = "disk" -> "unlinked"
                                         [] OTHER -> fd[v]]
    /\ EndedPass(w)
    /\ UNCHANGED <<files, queue, hand, faults, history>>

----------------------------------------------------------------------------

(* The process dies: its State is lost, and what it has done stays done. *)
Crash(w) ==
    /\ pc[w] # "idle"
    /\ Fault
    /\ EndedPass(w)
    /\ queue' = [queue EXCEPT ![w] = {}]
    /\ fd' = [fd EXCEPT ![w] = "none"]
    /\ DropHand(w)
    /\ UNCHANGED <<files, disk, tmp, history>>

Later(inputs, e, n) == [inputs EXCEPT ![e] = Elapsed(@, n)]

(* The retry time of an event that failed n times passes, in every copy. *)
Elapse(e, n) ==
    /\ mem' = [w \in Workers |-> Later(mem[w], e, n)]
    /\ disk' = IF disk \in States THEN Later(disk, e, n) ELSE disk
    /\ tmp' = IF tmp \in States THEN Later(tmp, e, n) ELSE tmp
    /\ UNCHANGED <<files, fd, pc, changed, queue, hand, faults, history>>

Work(w) ==
    \/ Load(w) \/ ReadSpool(w) \/ TakeEvent(w)
    \/ Summarize(w) \/ AddMemory(w) \/ Remove(w) \/ Move(w)
    \/ SaveNothing(w) \/ SaveOpen(w) \/ SaveWrite(w) \/ SaveRename(w)

Next ==
    \/ \E e \in Events : EnqueueCreate(e) \/ EnqueueWrite(e)
    \/ \E w \in Workers : Work(w) \/ Crash(w)
    \/ \E e \in Events, n \in 1 .. MaxAttempts - 1 : Elapse(e, n)

Spec == Init /\ [][Next]_vars

(* The ticker starts passes for as long as the daemon lives, a pass keeps    *)
(* going (the summarizer runs under a timeout), and retry times pass.        *)
Fairness ==
    /\ \A w \in Workers : WF_vars(Work(w))
    /\ \A e \in Events : WF_vars(EnqueueWrite(e))
    /\ \A e \in Events, n \in 1 .. MaxAttempts - 1 : WF_vars(Elapse(e, n))

LiveSpec == Spec /\ Fairness

----------------------------------------------------------------------------
(* Properties *)

Labels == {"idle", "listing", "next", "summarize", "adding", "remove", "move",
           "save", "opened", "written"}

Handling == {"summarize", "adding", "remove", "move"}

(* The state always fits what Load accepts: a failed event has attempts     *)
(* left, a quarantined one has none (state.go:100-125); and a worker has an  *)
(* event in hand exactly while it handles one.                               *)
TypeOK ==
    /\ file \in [Events -> {"none", "writing", "broken", "ready", "removed", "failed"}]
    /\ stored \in [Events -> [Slots -> 0 .. MaxMems]]
    /\ {disk, tmp} \subseteq States \cup {Absent, Empty, Garbled}
    /\ fd \in [Workers -> {"none", "tmp", "disk", "unlinked"}]
    /\ pc \in [Workers -> Labels]
    /\ mem \in [Workers -> States]
    /\ changed \in [Workers -> BOOLEAN]
    /\ queue \in [Workers -> SUBSET Events]
    /\ cur \in [Workers -> Events \cup {NoEvent}]
    /\ size \in [Workers -> 0 .. MaxMems]
    /\ slot \in [Workers -> 1 .. MaxMems + 1]
    /\ faults \in 0 .. MaxFaults
    /\ tries \in [Events -> 0 .. MaxTries]
    /\ whole \subseteq Events
    /\ \A w \in Workers : pc[w] \in Handling <=> cur[w] # NoEvent

Outcome(f) ==
    CASE f = "ready" -> "pending"
      [] f = "removed" -> "delivered"
      [] f = "failed" -> "rejected"
      [] OTHER -> "none"

(* An event whose hook wrote it is not lost: whatever crashes, fails or      *)
(* overtakes whom, it leaves the spool only after some attempt stored its    *)
(* whole summary, or after MaxAttempts failed ones (spool.go:73-92).         *)
ED == INSTANCE EventDelivery WITH
    outcome <- [e \in Events |-> Outcome(file[e])]

SpoolDelivers == ED!Spec

(* When an event is removed, the store holds the summary of the attempt that *)
(* removes it, whole and unmixed, whatever earlier attempts left there        *)
(* (spool.go:138-152, 88).  It takes a single worker: two that summarize the  *)
(* same event write their memories under the same ids.                       *)
SummaryWhole ==
    [][\A w \in Workers : pc[w] = "remove" /\ file' # file =>
        \A k \in 1 .. size[w] : stored[cur[w]][k] = size[w]]_vars

(* A fault forgets at most one failed attempt, so a single worker fails on   *)
(* an event at most MaxAttempts times, and once more for every fault         *)
(* (state.go:100-125, daemon.go:52).                                         *)
RetriesBounded == \A e \in Events : tries[e] <= MaxAttempts + faults

(* Out of the spool, or quarantined where it is because moving it failed. *)
Settled(e) ==
    \/ file[e] \in {"removed", "failed"}
    \/ disk \in States /\ disk[e].status = "quarantined"

(* Every event that was written is settled in the end, after any number of   *)
(* failures, unless a broken event file precedes it.                         *)
EventsSettle ==
    \A e \in Events :
        file[e] = "ready" ~> Settled(e) \/ \E b \in Events : b < e /\ file[b] = "broken"

(* docs/daemon.md: events that keep failing are moved aside "so the top-level *)
(* spool does not block future events".                                      *)
NoEventBlocked == \A e \in Events : file[e] = "ready" ~> Settled(e)

(* TestStateSaveLoad: what Save wrote, Load reads.  A state file that does   *)
(* not decode while nobody is saving stops every later pass.                 *)
SavedStateLoads ==
    (\A w \in Workers : pc[w] \notin {"opened", "written"}) => disk \notin {Empty, Garbled}
=============================================================================
