---------------------------- MODULE TranscriptScan ----------------------------
(***************************************************************************)
(* The daemon's pass (internal/daemon/daemon.go) with its transcript scan   *)
(* (internal/ingest/transcript.go), by one process.  Agents write session   *)
(* files, and opencode keeps sessions the scan exports, while passes walk   *)
(* over them; a session is summarized when it has been idle for a while and *)
(* its fingerprint is new.  A file's fingerprint is that of its directory   *)
(* entry, taken before the file is read; an export's is of the data itself. *)
(*                                                                         *)
(* Sessions are numbered in the order a scan meets them.  The spool's part  *)
(* of the pass is one step here (GitSpool has its detail), and so is Save,  *)
(* which GitSpoolProofs shows to be atomic for one process.                 *)
(***************************************************************************)
EXTENDS IngestState, FiniteSets

CONSTANTS
    NumRoots,       \* transcript roots, 1 .. NumRoots in the order of the config
    ExportRoots,    \* those that are opencode's, handled by its commands
    Sessions,
    RootOf,         \* session -> its root
    MaxVersion,     \* bound on the writes to any session
    MaxWrites,      \* bounds on the writes to each session; one of them is kept
    MaxStops,       \* bound on shutdowns
    MaxFaults,      \* bound on crashes and failing system calls
    NoSession

ASSUME ScanBounds ==
    /\ {NumRoots, MaxVersion, MaxStops, MaxFaults} \subseteq Nat
    /\ MaxWrites \subseteq [Sessions -> 0 .. MaxVersion]
ASSUME SessionsNumbered == Sessions \subseteq Nat /\ NoSession \notin Sessions
ASSUME RootsOrdered ==
    /\ RootOf \in [Sessions -> 1 .. NumRoots]
    /\ \A s, t \in Sessions : s < t => RootOf[s] <= RootOf[t]

(* Version 0 is what a session held when init wrote the manifest.  Every    *)
(* later write changes time and size, or the exported data.                 *)
Versions == 0 .. MaxVersion

ASSUME NoFpFresh == NoFp \notin Versions

Exports == {s \in Sessions : RootOf[s] \in ExportRoots}

(* What a session may hold: conversation; nothing to summarize; data that   *)
(* does not parse; and, in opencode, data its export command chokes on.     *)
Kinds == {"talk", "blank", "broken", "unexportable"}
KindsOf(s) == IF s \in Exports THEN Kinds ELSE Kinds \ {"unexportable"}

States == [Sessions -> Inputs(Versions)]
NothingKnown == [s \in Sessions |-> NoInput]

VARIABLES
    version, kind,  \* what each session holds now
    idle,           \* sessions not written for IdleAfter
    disk,           \* the ingest state file
    cancelled,      \* the context of the process
    pc,             \* "idle", "spool", "walk", "read", "digest", "save"
    mem,            \* State, the copy of the pass
    root, left,     \* the root being walked, and its sessions not dealt with yet
    cur, fp, got,   \* session in hand, its fingerprint, the version that was read
    stops, faults,  \* shutdowns and faults so far
    fails,          \* history: failures that no shutdown caused, per version,
                    \* counted up to MaxAttempts
    whole           \* history: <<session, fingerprint, version summarized>>

outside == <<version, kind, idle>>
hand == <<cur, fp, got>>
place == <<root, left, hand>>
context == <<cancelled, stops, faults>>
history == <<fails, whole>>
vars == <<outside, disk, pc, mem, place, context, history>>

Init ==
    /\ version = [s \in Sessions |-> 0]
    /\ kind \in {k \in [Sessions -> Kinds] : \A s \in Sessions \ Exports : k[s] = "blank"}
    /\ idle = Sessions
    /\ disk = NothingKnown
    /\ cancelled = FALSE
    /\ pc = "idle"
    /\ mem = NothingKnown
    /\ root = 0 /\ left = {}
    /\ cur = NoSession /\ fp = 0 /\ got = 0
    /\ stops = 0 /\ faults = 0
    /\ fails = [s \in Sessions |-> [v \in Versions |-> 0]]
    /\ whole = {}

Fault == faults < MaxFaults /\ faults' = faults + 1
NoFault == UNCHANGED faults

CountFailure ==
    fails' = [fails EXCEPT ![cur][fp] = IF @ < MaxAttempts THEN @ + 1 ELSE @]

----------------------------------------------------------------------------
(* Around the daemon *)

Write(s) ==
    /\ \E most \in MaxWrites :
         version[s] < most[s] /\ \A r \in Sessions : version[r] <= most[r]
    /\ version' = [version EXCEPT ![s] = @ + 1]
    /\ \E k \in KindsOf(s) : kind' = [kind EXCEPT ![s] = k]
    /\ idle' = idle \ {s}
    /\ UNCHANGED <<disk, pc, mem, place, context, history>>

Rest(s) ==
    /\ s \notin idle
    /\ idle' = idle \cup {s}
    /\ UNCHANGED <<version, kind, disk, pc, mem, place, context, history>>

Elapse(n) ==
    /\ disk' = [s \in Sessions |-> Elapsed(disk[s], n)]
    /\ mem' = [s \in Sessions |-> Elapsed(mem[s], n)]
    /\ UNCHANGED <<outside, pc, place, context, history>>

(* SIGTERM; the pass under way goes on with a cancelled context. *)
Stop ==
    /\ ~cancelled /\ stops < MaxStops
    /\ cancelled' = TRUE
    /\ stops' = stops + 1
    /\ UNCHANGED <<outside, disk, pc, mem, place, faults, history>>

(* Run returns between two passes, and launchd starts the daemon again. *)
Restart ==
    /\ cancelled /\ pc = "idle"
    /\ cancelled' = FALSE
    /\ UNCHANGED <<outside, disk, pc, mem, place, stops, faults, history>>

LeavePlace ==
    /\ root' = 0 /\ left' = {}
    /\ cur' = NoSession /\ fp' = 0 /\ got' = 0

Crash ==
    /\ pc # "idle"
    /\ Fault
    /\ pc' = "idle"
    /\ mem' = NothingKnown
    /\ LeavePlace
    /\ cancelled' = FALSE
    /\ UNCHANGED <<outside, disk, stops, history>>

----------------------------------------------------------------------------
(* A pass *)

(* The select of Run may choose the ticker though the context is cancelled. *)
Load ==
    /\ pc = "idle"
    /\ mem' = disk
    /\ pc' = "spool"
    /\ UNCHANGED <<outside, disk, place, context, history>>

(* An error of ProcessGit ends the pass before the scan.  It is a fault here; *)
(* GitSpool says when it is one for good.                                   *)
ProcessGit ==
    /\ pc = "spool"
    /\ \/ pc' = "walk" /\ NoFault
       \/ pc' = "save" /\ Fault
    /\ UNCHANGED <<outside, disk, mem, place, cancelled, stops, history>>

(* An abort that returns without the deferred Save. *)
AbortUnsaved ==
    /\ pc' = "idle"
    /\ mem' = NothingKnown
    /\ LeavePlace

(* The scan returns, with an error or at its end; Save is deferred. *)
EndScan ==
    /\ pc' = "save"
    /\ LeavePlace
    /\ UNCHANGED mem

(* The context is looked at between roots only; opencode's list of sessions *)
(* is taken here and may fail.                                              *)
NextRoot ==
    /\ pc = "walk" /\ left = {}
    /\ \/ /\ cancelled \/ root = NumRoots
          /\ EndScan /\ NoFault
       \/ /\ ~cancelled /\ root < NumRoots
          /\ root' = root + 1
          /\ left' = {s \in Sessions : RootOf[s] = root'}
          /\ NoFault
          /\ UNCHANGED <<pc, mem, hand>>
       \/ /\ ~cancelled /\ root < NumRoots /\ root + 1 \in ExportRoots
          /\ EndScan /\ Fault
    /\ UNCHANGED <<outside, disk, cancelled, stops, history>>

(* The next session of the root. *)
At(s) == pc = "walk" /\ s \in left /\ \A t \in left : s <= t

Pass(s) ==
    /\ pc' = "walk"
    /\ left' = left \ {s}
    /\ cur' = NoSession /\ fp' = 0 /\ got' = 0
    /\ UNCHANGED root

(* Idle long enough, and written since init. *)
InWindow(s) == s \in idle /\ version[s] > 0

(* A fingerprint of the path alone. *)
VisitPath(s) ==
    /\ At(s) /\ s \notin Exports
    /\ IF InWindow(s) /\ ShouldProcess(mem[s], 1)
       THEN /\ pc' = "read"
            /\ cur' = s /\ fp' = 1
            /\ UNCHANGED <<root, left, got>>
       ELSE Pass(s)
    /\ UNCHANGED <<outside, disk, mem, context, history>>

(* A file is stat'ed: its times are looked at and its fingerprint taken. *)
VisitFile(s) ==
    /\ At(s) /\ s \notin Exports
    /\ IF InWindow(s) /\ ShouldProcess(mem[s], version[s])
       THEN /\ pc' = "read"
            /\ cur' = s /\ fp' = version[s]
            /\ UNCHANGED <<root, left, got>>
       ELSE Pass(s)
    /\ UNCHANGED <<outside, disk, mem, context, history>>

(* An attempt fails and is counted by the State; by fails too, unless it    *)
(* was the shutdown that made it fail.                                      *)
Fail(genuine) ==
    /\ mem' = [mem EXCEPT ![cur] = MarkFailed(mem[cur], fp)]
    /\ IF genuine THEN CountFailure ELSE UNCHANGED fails
    /\ Pass(cur)
    /\ UNCHANGED whole

(* It is read as it is by now.  What is no transcript is passed over and    *)
(* not marked; what does not parse, or cannot be opened, has failed.        *)
ReadFile ==
    /\ pc = "read"
    /\ \/ /\ kind[cur] = "talk"
          /\ got' = version[cur]
          /\ pc' = "digest"
          /\ NoFault
          /\ UNCHANGED <<mem, root, left, cur, fp, history>>
       \/ kind[cur] = "blank" /\ Pass(cur) /\ NoFault /\ UNCHANGED <<mem, history>>
       \/ kind[cur] = "broken" /\ Fail(TRUE) /\ NoFault
       \/ Fail(TRUE) /\ Fault
    /\ UNCHANGED <<outside, disk, cancelled, stops>>

(* An opencode session is exported whole.  An export that fails ends the    *)
(* scan, one that does not parse is passed over.  One without conversation  *)
(* has no time to be idle by, and is not passed over.                       *)
Digestible(s) ==
    \/ kind[s] = "talk" /\ InWindow(s)
    \/ kind[s] = "blank"

Export(s) ==
    /\ At(s) /\ s \in Exports
    /\ \/ cancelled /\ EndScan /\ NoFault
       \/ ~cancelled /\ kind[s] = "unexportable" /\ EndScan /\ NoFault
       \/ ~cancelled /\ EndScan /\ Fault
       \/ /\ ~cancelled /\ kind[s] # "unexportable"
          /\ IF Digestible(s) /\ ShouldProcess(mem[s], version[s])
             THEN /\ pc' = "digest"
                  /\ cur' = s /\ fp' = version[s] /\ got' = version[s]
                  /\ UNCHANGED <<mem, root, left>>
             ELSE Pass(s) /\ UNCHANGED mem
          /\ NoFault
    /\ UNCHANGED <<outside, disk, cancelled, stops, history>>

(* A fingerprint taken when the session is marked, of what is there then. *)
DigestLate ==
    /\ pc = "digest" /\ ~cancelled
    /\ mem' = [mem EXCEPT ![cur] = MarkProcessed(version[cur])]
    /\ whole' = whole \cup {<<cur, fp, got>>}
    /\ Pass(cur)
    /\ UNCHANGED <<outside, disk, context, fails>>

(* Every memory of the summary is stored, and the session marked. *)
Digest ==
    /\ pc = "digest" /\ ~cancelled
    /\ mem' = [mem EXCEPT ![cur] = MarkProcessed(fp)]
    /\ whole' = whole \cup {<<cur, fp, got>>}
    /\ Pass(cur)
    /\ UNCHANGED <<outside, disk, context, fails>>

(* The summarizer or an Add fails; under a cancelled context the listing of *)
(* existing memories already does.                                          *)
DigestFails ==
    /\ pc = "digest"
    /\ Fail(~cancelled)
    /\ UNCHANGED <<outside, disk, context>>

Save ==
    /\ pc = "save"
    /\ \/ disk' = mem /\ NoFault
       \/ UNCHANGED disk /\ Fault
    /\ pc' = "idle"
    /\ mem' = NothingKnown
    /\ UNCHANGED <<outside, place, cancelled, stops, history>>

----------------------------------------------------------------------------

Work ==
    \/ Load \/ ProcessGit \/ NextRoot
    \/ \E s \in Sessions : VisitFile(s) \/ Export(s)
    \/ ReadFile \/ Digest \/ DigestFails \/ Save

Next ==
    \/ Work
    \/ \E s \in Sessions : Write(s) \/ Rest(s)
    \/ \E n \in 1 .. MaxAttempts - 1 : Elapse(n)
    \/ Stop \/ Restart \/ Crash

Spec == Init /\ [][Next]_vars

(* Passes are started and go on, a stopped daemon is started again, time    *)
(* passes.  Nothing makes a summary succeed.                                *)
Fairness ==
    /\ WF_vars(Work)
    /\ SF_vars(Restart)
    /\ \A s \in Sessions : WF_vars(Rest(s))
    /\ \A n \in 1 .. MaxAttempts - 1 : WF_vars(Elapse(n))

LiveSpec == Spec /\ Fairness

----------------------------------------------------------------------------
(* Properties *)

(* The state always fits what Load accepts (state.go:100-125), no session    *)
(* is read before it has its fingerprint, and one in hand is one of those    *)
(* the root still has.                                                       *)
TypeOK ==
    /\ version \in [Sessions -> Versions]
    /\ kind \in [Sessions -> Kinds]
    /\ idle \subseteq Sessions
    /\ disk \in States
    /\ mem \in States
    /\ cancelled \in BOOLEAN
    /\ pc \in {"idle", "spool", "walk", "read", "digest", "save"}
    /\ root \in 0 .. NumRoots
    /\ left \subseteq Sessions
    /\ cur \in Sessions \cup {NoSession}
    /\ fp \in Versions /\ got \in Versions
    /\ stops \in 0 .. MaxStops /\ faults \in 0 .. MaxFaults
    /\ fails \in [Sessions -> [Versions -> 0 .. MaxAttempts]]
    /\ whole \subseteq Sessions \X Versions \X Versions
    /\ pc \in {"read", "digest"} => cur \in left
    /\ pc = "digest" => fp <= got /\ got <= version[cur]

(* A session marked as processed under a fingerprint has a stored summary    *)
(* of what it held at that fingerprint, or of something later: a session     *)
(* that goes on while it is summarized loses nothing (transcript.go:69-96).  *)
ProcessedIsWhole ==
    \A s \in Sessions : \A i \in {mem[s], disk[s]} :
        i.status = "processed" =>
            \E v \in i.fp .. version[s] : <<s, i.fp, v>> \in whole

(* A session is quarantined for what it holds and not for what it held, and  *)
(* a shutdown during a pass, after which every session the walk still meets  *)
(* fails at once, takes from each at most one of its MaxAttempts attempts    *)
(* (state.go:104-111, transcript.go:34-37, 86-91).                           *)
QuarantineEarned ==
    \A s \in Sessions : \A i \in {mem[s], disk[s]} :
        i.status = "quarantined" => fails[s][i.fp] + stops >= MaxAttempts

(* Unless a fault kept the state from being saved, nothing is summarized     *)
(* twice: neither a shutdown nor a scan that ends in an error forgets what   *)
(* it has done (daemon.go:52-56, transcript.go:96, 116).                     *)
DigestedOnce ==
    pc = "digest" /\ faults = 0 => \A v \in Versions : <<cur, fp, v>> \notin whole

Quarantined(s) == disk[s].status = "quarantined" /\ disk[s].fp = version[s]

(* Every scan ends before it reaches the session. *)
Blocked(s) ==
    \E t \in Exports : t < s /\ kind[t] = "unexportable"

(* What a session holds when it comes to rest is summarized in the end, or   *)
(* quarantined, unless an export that fails ends every scan before it        *)
(* (transcript.go:33-148, daemon.go:46-90).                                  *)
LastStateDigested ==
    \A s \in Sessions, v \in Versions \ {0} :
        version[s] = v /\ kind[s] = "talk"
            ~> version[s] # v \/ <<s, v, v>> \in whole \/ Quarantined(s) \/ Blocked(s)
=============================================================================
