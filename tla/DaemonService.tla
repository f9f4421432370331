----------------------------- MODULE DaemonService -----------------------------
(***************************************************************************)
(* Daemons that come and go (internal/app/app.go) and the calls of other    *)
(* processes they serve over a unix socket (internal/storerpc/storerpc.go). *)
(* zvec locks its directory, so one daemon at a time has the collection;    *)
(* the path of the socket is whoever's bound it last.  A call is an Add of  *)
(* the client's own record; MemoryStore has the other operations.  What     *)
(* matters here of the collection is what survives: records flushed to      *)
(* disk, records upserted only, and records an Optimize has made durable    *)
(* for full-text search.                                                    *)
(***************************************************************************)
EXTENDS Naturals

CONSTANTS
    Daemons,        \* processes of "memoryd daemon", launchd's and others
    Clients,
    Nobody,
    MaxStops,       \* bound on SIGTERMs
    MaxFaults       \* bound on crashes and failing calls

ASSUME ServiceBounds == MaxStops \in Nat /\ MaxFaults \in Nat
ASSUME NobodyElse == Nobody \notin Daemons \cup Clients

VARIABLES
    lock,           \* the daemon that has the collection open
    sock,           \* the daemon whose listener the socket path leads to
    pc, cancelled,  \* of each daemon: where it is, and its context
    listening,      \* its listener is open
    accepting,      \* its accept loop runs
    mu,             \* the client whose handler holds the mutex of its store
    disk, dirty,    \* records flushed; records upserted and not flushed
    searchable,     \* records that full-text search finds in later processes
    call,           \* of each client: "idle", "waiting", "ok", "failed"
    conn, at,       \* its connection as the handler sees it, and to whom
    stops, faults,  \* signals and faults so far
    acked           \* history: records whose Add was acknowledged

process == <<lock, pc, cancelled, mu>>
socket == <<sock, listening, accepting>>
records == <<disk, dirty, searchable>>
calls == <<call, conn, at, acked>>
bounds == <<stops, faults>>
vars == <<process, socket, records, calls, bounds>>

(* The stretches of a daemon's main goroutine; in these the collection is   *)
(* open.                                                                    *)
Holding == {"opened", "unlinked", "serving", "stopping", "stopped", "cleaned"}

Init ==
    /\ lock = Nobody /\ sock = Nobody
    /\ pc = [d \in Daemons |-> "down"]
    /\ cancelled = [d \in Daemons |-> FALSE]
    /\ listening = [d \in Daemons |-> FALSE]
    /\ accepting = [d \in Daemons |-> FALSE]
    /\ mu = [d \in Daemons |-> Nobody]
    /\ disk = {} /\ dirty = {} /\ searchable = {}
    /\ call = [c \in Clients |-> "idle"]
    /\ conn = [c \in Clients |-> "none"]
    /\ at = [c \in Clients |-> Nobody]
    /\ stops = 0 /\ faults = 0
    /\ acked = {}

Fault == faults < MaxFaults /\ faults' = faults + 1

Goto(d, from, to) == pc[d] = from /\ pc' = [pc EXCEPT ![d] = to]

(* The connections of these clients are gone: who waits reads an error. *)
HangUp(gone) ==
    /\ conn' = [c \in Clients |-> IF c \in gone THEN "none" ELSE conn[c]]
    /\ at' = [c \in Clients |-> IF c \in gone THEN Nobody ELSE at[c]]
    /\ call' = [c \in Clients |->
                    IF c \in gone /\ call[c] = "waiting" THEN "failed" ELSE call[c]]
    /\ UNCHANGED acked

ConnectedTo(d) == {c \in Clients : at[c] = d}

(* Of records that were upserted and not flushed any may be kept. *)
Unflushed == dirty' = {} /\ \E kept \in SUBSET dirty : disk' = disk \cup kept

----------------------------------------------------------------------------
(* A daemon starts *)

(* zvec.Open; while another has the lock it fails, and the process exits. *)
Open(d) ==
    /\ lock = Nobody
    /\ Goto(d, "down", "opened")
    /\ lock' = d
    /\ UNCHANGED <<cancelled, mu, socket, records, calls, bounds>>

(* Marking descriptors, removing the socket path, or chmod fails. *)
StartFails(d) ==
    /\ pc[d] \in {"opened", "unlinked"}
    /\ Fault
    /\ pc' = [pc EXCEPT ![d] = "down"]
    /\ lock' = Nobody
    /\ cancelled' = [cancelled EXCEPT ![d] = FALSE]
    /\ UNCHANGED <<mu, socket, records, calls, stops>>

(* A Listen that leaves a socket that is there. *)
UnlinkNothing(d) ==
    /\ Goto(d, "opened", "unlinked")
    /\ UNCHANGED <<lock, cancelled, mu, socket, records, calls, bounds>>

(* Listen removes what is at the path ... *)
Unlink(d) ==
    /\ Goto(d, "opened", "unlinked")
    /\ sock' = Nobody
    /\ UNCHANGED <<lock, cancelled, mu, listening, accepting, records, calls, bounds>>

(* ... and binds it, which fails if it is there again. *)
Bind(d) ==
    /\ pc[d] = "unlinked"
    /\ LET free == sock = Nobody IN
        /\ pc' = [pc EXCEPT ![d] = IF free THEN "serving" ELSE "down"]
        /\ lock' = IF free THEN d ELSE Nobody
        /\ sock' = IF free THEN d ELSE sock
        /\ listening' = [listening EXCEPT ![d] = free]
        /\ accepting' = [accepting EXCEPT ![d] = free]
        /\ cancelled' = [cancelled EXCEPT ![d] = @ /\ free]
    /\ UNCHANGED <<mu, records, calls, bounds>>

----------------------------------------------------------------------------
(* It runs, and stops *)

(* Accept returns an error, for want of descriptors say, and Serve returns. *)
AcceptFails(d) ==
    /\ accepting[d]
    /\ Fault
    /\ accepting' = [accepting EXCEPT ![d] = FALSE]
    /\ UNCHANGED <<process, sock, listening, records, calls, stops>>

(* The Optimize at the end of a pass, or of a call. *)
PassOptimize(d) ==
    /\ pc[d] = "serving" /\ ~cancelled[d]
    /\ mu[d] = Nobody
    /\ searchable' = searchable \cup disk \cup dirty
    /\ UNCHANGED <<process, socket, disk, dirty, calls, bounds>>

(* SIGTERM cancels the context. *)
Stop(d) ==
    /\ pc[d] \in {"opened", "unlinked", "serving"} /\ ~cancelled[d]
    /\ stops < MaxStops
    /\ stops' = stops + 1
    /\ cancelled' = [cancelled EXCEPT ![d] = TRUE]
    /\ UNCHANGED <<lock, pc, mu, socket, records, calls, faults>>

(* Closing a listener removes its path, whoever's that is by now; calls it  *)
(* has not accepted are reset.                                              *)
CloseListener(d) ==
    /\ listening' = [listening EXCEPT ![d] = FALSE]
    /\ accepting' = [accepting EXCEPT ![d] = FALSE]
    /\ sock' = Nobody
    /\ HangUp({c \in ConnectedTo(d) : conn[c] = "queued"})

(* The goroutine of Serve that waits for the context. *)
ServeEnds(d) ==
    /\ cancelled[d] /\ listening[d]
    /\ CloseListener(d)
    /\ UNCHANGED <<process, records, bounds>>

RunReturns(d) ==
    /\ cancelled[d]
    /\ Goto(d, "serving", "stopping")
    /\ UNCHANGED <<lock, cancelled, mu, socket, records, calls, bounds>>

(* The last Optimize, whose failure is logged. *)
StopOptimize(d) ==
    /\ mu[d] = Nobody
    /\ Goto(d, "stopping", "stopped")
    /\ \/ searchable' = searchable \cup disk \cup dirty /\ UNCHANGED faults
       \/ UNCHANGED searchable /\ Fault
    /\ UNCHANGED <<lock, cancelled, mu, socket, disk, dirty, calls, stops>>

(* A clean-up that leaves the listener to the exit of the process. *)
CleanupPathOnly(d) ==
    /\ Goto(d, "stopped", "cleaned")
    /\ sock' = Nobody
    /\ UNCHANGED <<lock, cancelled, mu, listening, accepting, records, calls, bounds>>

(* runDaemon's deferred function: close the listener, if that is not done,  *)
(* remove the path, and wait for Serve.  Handlers are not waited for.       *)
Cleanup(d) ==
    /\ Goto(d, "stopped", "cleaned")
    /\ CloseListener(d)
    /\ UNCHANGED <<lock, cancelled, mu, records, bounds>>

(* The deferred store.Close, which does not take the mutex. *)
Close(d) ==
    /\ Goto(d, "cleaned", "closed")
    /\ lock' = Nobody
    /\ Unflushed
    /\ UNCHANGED <<cancelled, mu, socket, searchable, calls, bounds>>

(* An exit that removes the path, after the store has been closed. *)
ExitRemovesPath(d) ==
    /\ Goto(d, "closed", "down")
    /\ sock' = Nobody
    /\ cancelled' = [cancelled EXCEPT ![d] = FALSE]
    /\ mu' = [mu EXCEPT ![d] = Nobody]
    /\ HangUp(ConnectedTo(d))
    /\ UNCHANGED <<lock, listening, accepting, records, bounds>>

Exit(d) ==
    /\ Goto(d, "closed", "down")
    /\ cancelled' = [cancelled EXCEPT ![d] = FALSE]
    /\ mu' = [mu EXCEPT ![d] = Nobody]
    /\ HangUp(ConnectedTo(d))
    /\ UNCHANGED <<lock, socket, records, bounds>>

(* The system releases the lock and resets connections; the path stays.     *)
(* The lock is not inherited by subprocesses: descriptors are marked        *)
(* close-on-exec before there are any.                                      *)
Crash(d) ==
    /\ pc[d] # "down"
    /\ Fault
    /\ pc' = [pc EXCEPT ![d] = "down"]
    /\ \/ /\ lock = d
          /\ lock' = Nobody
          /\ Unflushed
       \/ lock # d /\ UNCHANGED <<lock, disk, dirty>>
    /\ cancelled' = [cancelled EXCEPT ![d] = FALSE]
    /\ mu' = [mu EXCEPT ![d] = Nobody]
    /\ listening' = [listening EXCEPT ![d] = FALSE]
    /\ accepting' = [accepting EXCEPT ![d] = FALSE]
    /\ HangUp(ConnectedTo(d))
    /\ UNCHANGED <<sock, searchable, stops>>

----------------------------------------------------------------------------
(* A call *)

Dialable == \E d \in Daemons : sock = d /\ listening[d]

(* The client dials for each call, and has no timeout. *)
Dial(c) ==
    /\ call[c] # "waiting" /\ conn[c] = "none"
    /\ \/ /\ Dialable
          /\ call' = [call EXCEPT ![c] = "waiting"]
          /\ conn' = [conn EXCEPT ![c] = "queued"]
          /\ at' = [at EXCEPT ![c] = sock]
       \/ /\ ~Dialable
          /\ call' = [call EXCEPT ![c] = "failed"]
          /\ UNCHANGED <<conn, at>>
    /\ UNCHANGED <<process, socket, records, acked, bounds>>

(* The client is killed, and its handler goes on. *)
Leave(c) ==
    /\ call[c] = "waiting"
    /\ call' = [call EXCEPT ![c] = "idle"]
    /\ UNCHANGED <<process, socket, records, conn, at, acked, bounds>>

Handle(c, from, to) == conn[c] = from /\ conn' = [conn EXCEPT ![c] = to]

Accept(c) ==
    /\ Handle(c, "queued", "handling")
    /\ accepting[at[c]]
    /\ UNCHANGED <<process, socket, records, call, at, acked, bounds>>

(* An Add that replies before it flushes. *)
UpsertAlone(c) ==
    /\ Handle(c, "handling", "flushed")
    /\ mu[at[c]] = Nobody
    /\ pc[at[c]] \in Holding
    /\ dirty' = dirty \cup {c}
    /\ searchable' = searchable \ {c}
    /\ UNCHANGED <<process, socket, disk, call, at, acked, bounds>>

(* After embedding, without a look at the context, the handler of an Add    *)
(* takes the mutex and upserts, ...                                         *)
Upsert(c) ==
    /\ Handle(c, "handling", "upserted")
    /\ mu[at[c]] = Nobody
    /\ pc[at[c]] \in Holding
    /\ mu' = [mu EXCEPT ![at[c]] = c]
    /\ dirty' = dirty \cup {c}
    /\ searchable' = searchable \ {c}
    /\ UNCHANGED <<lock, pc, cancelled, socket, disk, call, at, acked, bounds>>

(* ... flushes and releases it, ... *)
Flush(c) ==
    /\ Handle(c, "upserted", "flushed")
    /\ pc[at[c]] \in Holding
    /\ mu' = [mu EXCEPT ![at[c]] = Nobody]
    /\ disk' = disk \cup {c}
    /\ dirty' = dirty \ {c}
    /\ UNCHANGED <<lock, pc, cancelled, socket, searchable, call, at, acked, bounds>>

(* A handler that keeps the mutex when Flush fails. *)
EngineFailsLocked(c) ==
    /\ \/ conn[c] = "handling" /\ mu[at[c]] = Nobody
       \/ conn[c] = "upserted"
    /\ \/ pc[at[c]] = "closed" /\ UNCHANGED faults
       \/ pc[at[c]] # "closed" /\ Fault
    /\ HangUp({c})
    /\ UNCHANGED <<process, socket, records, stops>>

(* ... unless either fails, as they do when the collection has been closed. *)
EngineFails(c) ==
    /\ \/ conn[c] = "handling" /\ mu[at[c]] = Nobody /\ UNCHANGED mu
       \/ conn[c] = "upserted" /\ mu' = [mu EXCEPT ![at[c]] = Nobody]
    /\ \/ pc[at[c]] = "closed" /\ UNCHANGED faults
       \/ pc[at[c]] # "closed" /\ Fault
    /\ HangUp({c})
    /\ UNCHANGED <<lock, pc, cancelled, socket, records, stops>>

(* A handler that returns without a reply and leaves the connection open. *)
ReplyNothing(c) ==
    /\ Handle(c, "flushed", "none")
    /\ at' = [at EXCEPT ![c] = Nobody]
    /\ UNCHANGED <<process, socket, records, call, acked, bounds>>

(* The reply reaches the client if it is still there. *)
Reply(c) ==
    /\ Handle(c, "flushed", "none")
    /\ at' = [at EXCEPT ![c] = Nobody]
    /\ \/ /\ call[c] = "waiting"
          /\ call' = [call EXCEPT ![c] = "ok"]
          /\ acked' = acked \cup {c}
       \/ call[c] # "waiting" /\ UNCHANGED <<call, acked>>
    /\ UNCHANGED <<process, socket, records, bounds>>

----------------------------------------------------------------------------

Main(d) ==
    \/ Unlink(d) \/ Bind(d)
    \/ RunReturns(d) \/ StopOptimize(d) \/ Cleanup(d) \/ Close(d) \/ Exit(d)

Handler(c) == Accept(c) \/ Upsert(c) \/ Flush(c) \/ EngineFails(c) \/ Reply(c)

Next ==
    \/ \E d \in Daemons :
        \/ Open(d) \/ Main(d) \/ ServeEnds(d)
        \/ StartFails(d) \/ AcceptFails(d) \/ PassOptimize(d) \/ Stop(d) \/ Crash(d)
    \/ \E c \in Clients : Dial(c) \/ Leave(c) \/ Handler(c)

Spec == Init /\ [][Next]_vars

(* launchd keeps a daemon alive, goroutines that can go on do, and Go's      *)
(* mutex starves no one.                                                    *)
Fairness ==
    /\ WF_vars(\E d \in Daemons : Open(d))
    /\ \A d \in Daemons : SF_vars(Main(d)) /\ WF_vars(ServeEnds(d))
    /\ \A c \in Clients : SF_vars(Handler(c))

LiveSpec == Spec /\ Fairness

----------------------------------------------------------------------------
(* Properties *)

Types ==
    /\ lock \in Daemons \cup {Nobody} /\ sock \in Daemons \cup {Nobody}
    /\ pc \in [Daemons -> Holding \cup {"down", "closed"}]
    /\ cancelled \in [Daemons -> BOOLEAN]
    /\ listening \in [Daemons -> BOOLEAN] /\ accepting \in [Daemons -> BOOLEAN]
    /\ mu \in [Daemons -> Clients \cup {Nobody}]
    /\ disk \subseteq Clients /\ dirty \subseteq Clients /\ searchable \subseteq Clients
    /\ call \in [Clients -> {"idle", "waiting", "ok", "failed"}]
    /\ conn \in [Clients -> {"none", "queued", "handling", "upserted", "flushed"}]
    /\ at \in [Clients -> Daemons \cup {Nobody}]
    /\ stops \in 0 .. MaxStops /\ faults \in 0 .. MaxFaults
    /\ acked \subseteq Clients

DaemonsOK ==
    \A d \in Daemons :
        /\ lock = d <=> pc[d] \in Holding
        /\ listening[d] => pc[d] \in {"serving", "stopping", "stopped"}
        /\ accepting[d] => listening[d]

CallsOK ==
    \A c \in Clients :
        /\ conn[c] = "none" <=> at[c] = Nobody
        /\ at[c] # Nobody => pc[at[c]] # "down"
        /\ \A d \in Daemons : mu[d] = c <=> conn[c] = "upserted" /\ at[c] = d

(* A daemon has the lock in exactly the stretches in which the collection   *)
(* is open; a listener is open only in those; a call is handled by a process *)
(* that is up, and the mutex of its store is held by the handler that is     *)
(* between its Upsert and its Flush (app.go:477-491, store.go:193-206).      *)
TypeOK == Types /\ DaemonsOK /\ CallsOK

(* While a daemon listens, the path of the socket leads to it: no one that   *)
(* stops or starts removes it under a successor or a predecessor             *)
(* (storerpc.go:107, app.go:1053-1054, which remove it by name).             *)
SocketServed == \A d \in Daemons : listening[d] => sock = d

(* A record whose Add was acknowledged is kept, whatever crashes or stops    *)
(* after that, and though Close waits for no handler (store.go:200-206,      *)
(* 150-155).                                                                 *)
AckedKept == acked \subseteq disk

(* Who waits for a daemon whose accept loop has ended by an error. *)
Unheard(c) == conn[c] = "queued" /\ ~accepting[at[c]]

(* A call is answered or fails, though its daemon may stop or die meanwhile, *)
(* unless the daemon has stopped accepting (storerpc.go:146-166, 288-312).   *)
CallsAnswered == \A c \in Clients : call[c] = "waiting" ~> call[c] # "waiting" \/ Unheard(c)

(* A daemon that is told to stop does, whatever calls it has (app.go:        *)
(* 1052-1075).                                                               *)
StopEnds == \A d \in Daemons : cancelled[d] ~> ~cancelled[d]

(* In the end there is always a daemon again that can be dialled, over the   *)
(* socket files of dead ones too (storerpc.go:104-118).                      *)
ServiceReturns == []<>Dialable

(* What app.go:1065-1066 says of the last Optimize, and store.go:159-161 of  *)
(* Optimize before Close: when a daemon has closed the collection, and       *)
(* nothing failed, the records on disk will be found by full-text search.    *)
SearchableAtStop ==
    \A d \in Daemons : pc[d] = "closed" /\ faults = 0 => disk \subseteq searchable
=============================================================================
