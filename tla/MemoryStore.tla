----------------------------- MODULE MemoryStore -----------------------------
(***************************************************************************)
(* The memory store (internal/memory/store.go): one zvec collection behind *)
(* one mutex, called by concurrent goroutines.  Embeddings are computed    *)
(* outside the mutex, so Add, Search, Status and Backfill each hold it     *)
(* once or several times with something slow in between; what they read    *)
(* under one hold may be old by the next.                                  *)
(*                                                                         *)
(* A caller's pc says where it is in its operation:                        *)
(*   embed   computing an embedding, or at the head of Backfill's loop     *)
(*   wait    blocked in s.mu.Lock(); locked, holding s.mu                  *)
(*   wait2, locked2   the same for the operation's later critical section  *)
(*   rank    Search after its critical sections; probe, Status after its   *)
(*   done    the reply is there, the caller has not taken it yet           *)
(* Every access to the collection is made between Lock and Unlock, so the  *)
(* body of a critical section is one action, which also releases the mutex.*)
(***************************************************************************)
EXTENDS Naturals, FiniteSets, FiniteSetsExt

CONSTANTS
    Procs,          \* goroutines calling the store
    Ids,            \* document keys, after sanitizePK
    Texts,          \* what a record holds: kind, project, source, summary, body
    Wants,          \* the sets of texts a project/kind filter can select
    Ops,            \* the operations called in this instance
    SearchLimit,    \* search limit, after its default and its cap
    MaxTopK,        \* the most hits an enumeration asks for (10000 in the code)
    MaxNow,         \* bound on the clock
    NoDoc, NoVec, NoReq, NoItem, Free,
    BadVec,         \* an embedding whose length is not the store's dimension
    QueryVec        \* the embedding of a search query

ASSUME NoDocFresh == NoDoc \notin [text : Texts, at : Nat, vec : Texts \cup {NoVec}]
ASSUME NoDocNotText == NoDoc \notin Texts
ASSUME NoVecFresh == NoVec \notin Texts /\ BadVec \notin Texts \cup {NoVec}
                        /\ QueryVec \notin {NoVec, BadVec}
ASSUME FreeFresh == Free \notin Procs
ASSUME WantsAreTexts == Texts \in Wants /\ Wants \subseteq SUBSET Texts
ASSUME OpsKnown == Ops \subseteq {"add", "get", "forget", "list", "optimize",
                                  "search", "status", "backfill"}
ASSUME BoundsNat == SearchLimit \in Nat \ {0} /\ MaxTopK \in Nat \ {0} /\ MaxNow \in Nat

VARIABLES
    docs,       \* the collection: id -> document or NoDoc
    stale,      \* <<id, text>> index entries zvec has left behind after a Delete
    mu,         \* s.mu: the caller that holds it, or Free
    cancelled,  \* the context of the daemon, which all its handlers run under
    now,        \* the clock read by NewRecord
    pc, req, loc, reply,
    raced       \* history, read by no action: the ids whose last Add was
                \* written while a Backfill held another text of that id

vars == <<docs, stale, mu, cancelled, now, pc, req, loc, reply, raced>>
store == <<docs, stale, raced>>
env == <<cancelled, now>>

----------------------------------------------------------------------------
(* Data *)

Vectors == Texts \cup {NoVec}      \* a vector is named by the text it embeds
Docs == [text : Texts, at : Nat, vec : Vectors]
Items == Ids \X Texts

Request(op, id, text, want) == [op |-> op, id |-> id, text |-> text, want |-> want]

Requests ==
    {r \in
        {Request("add", i, t, Texts) : i \in Ids, t \in Texts}
        \cup {Request(op, i, NoDoc, Texts) : op \in {"get", "forget"}, i \in Ids}
        \cup {Request("search", NoDoc, NoDoc, w) : w \in Wants}
        \cup {Request(op, NoDoc, NoDoc, Texts) :
                op \in {"list", "optimize", "status", "backfill"}}
     : r.op \in Ops}

NoReply == [st |-> "none", hits |-> {}]

(* The local variables of an operation that outlive one of its steps. *)
NoLocals == [at |-> 0, vec |-> NoVec, todo |-> {}, cur |-> NoItem,
             fts |-> {}, near |-> {}, pool |-> {}]

Live == {i \in Ids : docs[i] # NoDoc}
Pending == {i \in Live : docs[i].vec = NoVec}
Record(i) == <<i, docs[i].text>>
Present(want) == {Record(i) : i \in {j \in Live : docs[j].text \in want}}

(* zvec, as store.go uses it: a query answers from the index, which holds  *)
(* an entry for every document and may still hold some of deleted ones.    *)
Index(want) == Present(want) \cup {e \in stale : e[2] \in want}

(* fetchLiveDocsLocked / docsToLiveResultsLocked: hits are fetched again by *)
(* key, and those that no longer exist are dropped.                         *)
Refetch(entries) == {Record(i) : i \in {e[1] : e \in entries} \cap Live}

(* Enumeration asks for all hits of the constant _tag field, DocCount of   *)
(* them; an off-by-one in that count.                                       *)
ShortTopK == Max({1, Min({Cardinality(Live) - 1, MaxTopK})})
TopK == Max({1, Min({Cardinality(Live), MaxTopK})})

Enumerations ==
    LET all == Index(Texts) IN
    IF Live = {} THEN {{}} ELSE kSubset(Min({TopK, Cardinality(all)}), all)

(* blend: one result per id, the full-text leg's when both legs have it. *)
MergeLegs(fts, near) == fts \cup {h \in near : \A f \in fts : f[1] # h[1]}

(* The results a search may end with: all of the full-text leg if the other *)
(* is empty, else the best SearchLimit of both.                             *)
Blends(fts, near) ==
    IF near = {} THEN {fts}
    ELSE LET all == MergeLegs(fts, near) IN kSubset(Min({SearchLimit, Cardinality(all)}), all)

UpTo(n, S) == {T \in SUBSET S : Cardinality(T) <= n}

----------------------------------------------------------------------------
(* Moving a caller through its operation *)

Init ==
    /\ docs = [i \in Ids |-> NoDoc]
    /\ stale = {}
    /\ mu = Free
    /\ cancelled = FALSE
    /\ now = 0
    /\ pc = [p \in Procs |-> "idle"]
    /\ req = [p \in Procs |-> NoReq]
    /\ loc = [p \in Procs |-> NoLocals]
    /\ reply = [p \in Procs |-> NoReply]
    /\ raced = {}

At(p, label, op) == pc[p] = label /\ req[p].op = op

Goto(p, label) == pc' = [pc EXCEPT ![p] = label]

Finish(p, st, hits) ==
    /\ Goto(p, "done")
    /\ reply' = [reply EXCEPT ![p] = [st |-> st, hits |-> hits]]
    /\ loc' = [loc EXCEPT ![p] = NoLocals]
    /\ UNCHANGED req

Continue(p, label, l) ==
    /\ Goto(p, label)
    /\ loc' = [loc EXCEPT ![p] = l]
    /\ UNCHANGED <<req, reply>>

(* s.mu.Lock() returns. *)
Lock(p) ==
    /\ pc[p] \in {"wait", "wait2"}
    /\ mu = Free
    /\ mu' = p
    /\ Goto(p, IF pc[p] = "wait" THEN "locked" ELSE "locked2")
    /\ UNCHANGED <<store, env, req, loc, reply>>

Unlock == mu' = Free

(* zvec inserts or replaces a document, and its index entry with it. *)
Upsert(i, doc) ==
    /\ docs' = [docs EXCEPT ![i] = doc]
    /\ stale' = {e \in stale : e[1] # i}

(* A new call.  Every operation but Add returns at once when the context is *)
(* already cancelled; those that embed first start there, outside the lock. *)
Call(p) ==
    /\ pc[p] = "idle"
    /\ \E r \in Requests :
        /\ req' = [req EXCEPT ![p] = r]
        /\ IF cancelled /\ r.op # "add"
           THEN /\ Goto(p, "done")
                /\ reply' = [reply EXCEPT ![p] = [st |-> "err", hits |-> {}]]
                /\ UNCHANGED loc
           ELSE /\ Goto(p, IF r.op \in {"add", "search"} THEN "embed" ELSE "wait")
                /\ loc' = [loc EXCEPT ![p].at = IF r.op = "add" THEN now ELSE 0]
                /\ UNCHANGED reply
    /\ UNCHANGED <<store, mu, env>>

(* The caller takes its reply. *)
Return(p) ==
    /\ pc[p] = "done"
    /\ Goto(p, "idle")
    /\ req' = [req EXCEPT ![p] = NoReq]
    /\ reply' = [reply EXCEPT ![p] = NoReply]
    /\ UNCHANGED <<store, mu, env, loc>>

(* An early return that leaves the mutex locked. *)
EngineErrorLocked(p) ==
    /\ pc[p] = "locked" \/ At(p, "locked2", "status")
    /\ Finish(p, "err", {})
    /\ UNCHANGED <<store, mu, env>>

(* A zvec call fails before it changes anything: the operation returns the  *)
(* error.  The deferred Unlock runs on this path too.                       *)
EngineError(p) ==
    /\ pc[p] = "locked" \/ At(p, "locked2", "status")
    /\ Finish(p, "err", {})
    /\ Unlock
    /\ UNCHANGED <<store, env>>

----------------------------------------------------------------------------
(* Add, Get, Forget, List, Optimize *)

(* What Embed may return for a text: its vector, an error or no vector, or  *)
(* a vector of another dimension.  A cancelled context makes it fail.       *)
Embeddings(t) == IF cancelled THEN {NoVec} ELSE {t, NoVec, BadVec}

AnyVector(v) == TRUE
RightDim(v) == v # BadVec

AddEmbed(p) ==
    /\ At(p, "embed", "add")
    /\ \E v \in Embeddings(req[p].text) :
        IF RightDim(v) THEN Continue(p, "wait", [loc[p] EXCEPT !.vec = v])
                       ELSE Finish(p, "err", {})
    /\ UNCHANGED <<store, mu, env>>

(* Another Backfill holds, for this id, a text that is about to be replaced. *)
HeldElsewhere(i, t) ==
    \E q \in Procs : \E item \in loc[q].todo : item[1] = i /\ item[2] # t

(* An Add that keeps the vector already there when embedding fails. *)
KeepOldVector(p) ==
    LET i == req[p].id IN
    [text |-> req[p].text, at |-> loc[p].at,
     vec |-> IF loc[p].vec = NoVec /\ docs[i] # NoDoc THEN docs[i].vec ELSE loc[p].vec]

(* The whole document is replaced; without a vector it is pending again. *)
Added(p) == [text |-> req[p].text, at |-> loc[p].at, vec |-> loc[p].vec]

(* Upsert, then Flush: the Add may be reported failed although it is done. *)
AddWrite(p) ==
    /\ At(p, "locked", "add")
    /\ LET i == req[p].id IN
       /\ Upsert(i, Added(p))
       /\ raced' = IF HeldElsewhere(i, req[p].text) THEN raced \cup {i} ELSE raced \ {i}
    /\ \E st \in {"ok", "err"} : Finish(p, st, {})
    /\ Unlock
    /\ UNCHANGED env

GetWork(p) ==
    /\ At(p, "locked", "get")
    /\ LET i == req[p].id IN
       IF docs[i] = NoDoc THEN Finish(p, "notfound", {})
                          ELSE Finish(p, "ok", {Record(i)})
    /\ Unlock
    /\ UNCHANGED <<store, env>>

(* Delete, then Flush.  The index may keep the entry of what was deleted. *)
ForgetWork(p) ==
    /\ At(p, "locked", "forget")
    /\ LET i == req[p].id IN
       IF docs[i] = NoDoc
       THEN Finish(p, "notfound", {}) /\ UNCHANGED store
       ELSE /\ docs' = [docs EXCEPT ![i] = NoDoc]
            /\ stale' \in {stale, stale \cup {Record(i)}}
            /\ raced' = raced
            /\ \E st \in {"ok", "err"} : Finish(p, st, {})
    /\ Unlock
    /\ UNCHANGED env

ListWork(p) ==
    /\ At(p, "locked", "list")
    /\ \E entries \in Enumerations : Finish(p, "ok", Refetch(entries))
    /\ Unlock
    /\ UNCHANGED <<store, env>>

(* Merging index segments may drop entries of deleted documents. *)
OptimizeWork(p) ==
    /\ At(p, "locked", "optimize")
    /\ stale' \in SUBSET stale
    /\ Finish(p, "ok", {})
    /\ Unlock
    /\ UNCHANGED <<docs, raced, env>>

----------------------------------------------------------------------------
(* Search *)

SearchEmbed(p) ==
    /\ At(p, "embed", "search")
    /\ \E v \in {NoVec, QueryVec} :
        /\ cancelled => v = NoVec
        /\ Continue(p, "wait", [loc[p] EXCEPT !.vec = v])
    /\ UNCHANGED <<store, mu, env>>

(* With a filter and a query vector the vector leg is redone over all       *)
(* records, in a later critical section.                                    *)
AfterLegs(p) ==
    IF req[p].want # Texts /\ loc[p].vec = QueryVec THEN "wait2" ELSE "rank"

(* The full-text leg and, given a query vector, the vector leg, both with   *)
(* the filter and both re-fetched.                                          *)
SearchLegs(p) ==
    /\ At(p, "locked", "search")
    /\ LET want == req[p].want
           embedded == {e \in Index(want) : e[1] \notin Pending} IN
       \E fts \in UpTo(SearchLimit, Index(want)),
          near \in IF loc[p].vec = QueryVec THEN UpTo(SearchLimit, embedded) ELSE {{}} :
          Continue(p, AfterLegs(p),
                   [loc[p] EXCEPT !.fts = Refetch(fts), !.near = Refetch(near)])
    /\ Unlock
    /\ UNCHANGED <<store, env>>

(* searchFilteredByEmbedding keeps the listed records the filter selects. *)
Selected(records, want) == {h \in records : h[2] \in want}

SearchList(p) ==
    /\ At(p, "locked2", "search")
    /\ \E entries \in Enumerations :
        Continue(p, "rank",
            [loc[p] EXCEPT !.pool = Selected(Refetch(entries), req[p].want)])
    /\ Unlock
    /\ UNCHANGED <<store, env>>

(* List fails, or is not tried under a cancelled context: the first vector *)
(* leg stands.                                                             *)
SearchListFails(p) ==
    /\ \/ At(p, "locked2", "search") /\ Unlock
       \/ At(p, "wait2", "search") /\ cancelled /\ UNCHANGED mu
    /\ Continue(p, "rank", loc[p])
    /\ UNCHANGED <<store, env>>

(* Outside the lock: the listed records are embedded one by one, those that *)
(* cannot be are left out, the nearest replace the vector leg, if any, and  *)
(* the legs are blended.                                                    *)
SearchRank(p) ==
    /\ At(p, "rank", "search")
    /\ \E best \in UpTo(SearchLimit, loc[p].pool) :
        LET near == IF best = {} THEN loc[p].near ELSE best IN
        \E hits \in Blends(loc[p].fts, near) : Finish(p, "ok", hits)
    /\ UNCHANGED <<store, mu, env>>

----------------------------------------------------------------------------
(* Status and Backfill *)

(* Status reads the count and the number of pending documents under two     *)
(* holds of the mutex, then probes the embedder.                            *)
StatusCount(p) ==
    /\ At(p, "locked", "status")
    /\ Continue(p, "wait2", loc[p])
    /\ Unlock
    /\ UNCHANGED <<store, env>>

StatusPending(p) ==
    /\ At(p, "locked2", "status")
    /\ Continue(p, "probe", loc[p])
    /\ Unlock
    /\ UNCHANGED <<store, env>>

StatusProbe(p) ==
    /\ At(p, "probe", "status")
    /\ Finish(p, "ok", {})
    /\ UNCHANGED <<store, mu, env>>

StatusCancelled(p) ==
    /\ At(p, "wait2", "status")
    /\ cancelled
    /\ Finish(p, "err", {})
    /\ UNCHANGED <<store, mu, env>>

(* The documents among some enumeration that have no vector, and their texts. *)
BackfillSnapshot(p) ==
    /\ At(p, "locked", "backfill")
    /\ \E entries \in Enumerations :
        LET ids == {e[1] : e \in entries} \cap Pending IN
        Continue(p, "embed", [loc[p] EXCEPT !.todo = {Record(i) : i \in ids}])
    /\ Unlock
    /\ UNCHANGED <<store, env>>

(* The head of the loop: stop when nothing is left or the context is        *)
(* cancelled; else embed one item's text, and skip it if that fails.        *)
BackfillEmbed(p) ==
    /\ At(p, "embed", "backfill")
    /\ \/ /\ loc[p].todo = {} \/ cancelled
          /\ Finish(p, "ok", {})
       \/ \E item \in loc[p].todo :
            \/ Continue(p, "embed", [loc[p] EXCEPT !.todo = @ \ {item}])
            \/ /\ ~cancelled
               /\ Continue(p, "wait2", [loc[p] EXCEPT !.cur = item])
    /\ UNCHANGED <<store, mu, env>>

(* A loop that retries the item instead of leaving it. *)
SameItem(p) == Continue(p, "embed", [loc[p] EXCEPT !.cur = NoItem])

(* The next item, whatever became of this one. *)
NextItem(p) ==
    Continue(p, "embed", [loc[p] EXCEPT !.todo = @ \ {loc[p].cur}, !.cur = NoItem])

(* A Backfill that writes back the document it read in its snapshot. *)
FillSnapshot(item) ==
    Upsert(item[1], [text |-> item[2], at |-> 0, vec |-> item[2]])

(* The document is fetched again and written back with the vector of the   *)
(* text in the snapshot; a document forgotten meanwhile is left alone.     *)
Fill(item) ==
    IF docs[item[1]] = NoDoc THEN UNCHANGED <<docs, stale>>
    ELSE Upsert(item[1], [docs[item[1]] EXCEPT !.vec = item[2]])

BackfillFill(p) ==
    /\ At(p, "locked2", "backfill")
    /\ Fill(loc[p].cur)
    /\ NextItem(p)
    /\ Unlock
    /\ UNCHANGED <<raced, env>>

(* The fetch or the upsert fails: the item is skipped. *)
BackfillSkip(p) ==
    /\ At(p, "locked2", "backfill")
    /\ NextItem(p)
    /\ Unlock
    /\ UNCHANGED <<store, env>>

----------------------------------------------------------------------------

(* SIGTERM: the daemon's context is cancelled for good. *)
Cancel ==
    /\ ~cancelled
    /\ cancelled' = TRUE
    /\ UNCHANGED <<store, mu, now, pc, req, loc, reply>>

Tick ==
    /\ now < MaxNow
    /\ now' = now + 1
    /\ UNCHANGED <<store, mu, cancelled, pc, req, loc, reply>>

(* Steps taken holding the mutex; they wait for nothing. *)
Section(p) ==
    \/ AddWrite(p) \/ GetWork(p) \/ ForgetWork(p) \/ ListWork(p) \/ OptimizeWork(p)
    \/ SearchLegs(p) \/ SearchList(p)
    \/ StatusCount(p) \/ StatusPending(p)
    \/ BackfillSnapshot(p) \/ BackfillFill(p) \/ BackfillSkip(p)
    \/ EngineError(p) \/ SearchListFails(p)

(* Steps that wait for an embedder, outside the mutex. *)
Embedding(p) ==
    AddEmbed(p) \/ SearchEmbed(p) \/ SearchRank(p) \/ StatusProbe(p) \/ BackfillEmbed(p)

Next ==
    \/ \E p \in Procs :
        Call(p) \/ Return(p) \/ Lock(p) \/ Section(p) \/ Embedding(p) \/ StatusCancelled(p)
    \/ Cancel
    \/ Tick

Spec == Init /\ [][Next]_vars

(* Weak fairness of a step a goroutine can always take; strong fairness of  *)
(* Lock, because sync.Mutex hands a starving waiter the mutex.  Nothing is  *)
(* assumed of the embedder: an Embed may never return.                      *)
LockFairness == \A p \in Procs : SF_vars(Lock(p)) /\ WF_vars(Section(p) \/ Return(p))

LiveSpec == Spec /\ LockFairness

----------------------------------------------------------------------------
(* Properties *)

Labels == {"idle", "embed", "wait", "locked", "wait2", "locked2", "rank", "probe", "done"}

LocalsType == [at : Nat, vec : Vectors \cup {QueryVec}, todo : SUBSET Items,
               cur : Items \cup {NoItem}, fts : SUBSET Items, near : SUBSET Items,
               pool : SUBSET Items]

Replies == [st : {"none", "ok", "err", "notfound"}, hits : SUBSET Items]

(* Every stored vector has the store's dimension, every stored record one of *)
(* the texts it was added with, and the mutex is held by the one caller that *)
(* is inside a critical section (store.go:190, 196, 342, 648).               *)
TypeOK ==
    /\ docs \in [Ids -> Docs \cup {NoDoc}]
    /\ stale \subseteq Items
    /\ mu \in Procs \cup {Free}
    /\ cancelled \in BOOLEAN
    /\ now \in Nat
    /\ pc \in [Procs -> Labels]
    /\ req \in [Procs -> Requests \cup {NoReq}]
    /\ loc \in [Procs -> LocalsType]
    /\ reply \in [Procs -> Replies]
    /\ raced \subseteq Ids
    /\ \A p \in Procs : pc[p] \in {"locked", "locked2"} <=> mu = p

(* A document's vector is the embedding of its current text, or is pending; *)
(* the one exception is a document whose last Add was written while a       *)
(* Backfill already held another text of the same id (store.go:631-668).    *)
StaleVectorOnlyAfterRace ==
    \A i \in Live : docs[i].vec \notin {NoVec, docs[i].text} => i \in raced

(* List returns every record, and Backfill picks up every pending document, *)
(* as long as there are at most MaxTopK of them and the index holds no      *)
(* entry of a deleted one (store.go:450-456, 577-583, 620-640).             *)
EnumerationComplete ==
    [][\A p \in Procs :
        pc[p] = "locked" /\ stale = {} /\ Cardinality(Live) <= MaxTopK =>
            /\ req[p].op = "list" /\ reply'[p].st = "ok" => reply'[p].hits = Present(Texts)
            /\ req[p].op = "backfill" /\ pc'[p] = "embed" =>
                 loc'[p].todo = {Record(i) : i \in Pending}]_vars

(* The store is the map RecordMap describes: its operations are atomic,     *)
(* Backfill changes no record and brings none back, and a search reports    *)
(* only records that existed, inside the filter, at some instant of it.     *)
RM == INSTANCE RecordMap WITH
    NoRec <- NoDoc,
    recs <- [i \in Ids |-> IF docs[i] = NoDoc THEN NoDoc ELSE docs[i].text],
    phase <- [p \in Procs |-> IF pc[p] \in {"idle", "done"} THEN pc[p] ELSE "open"],
    seen <- [p \in Procs |-> loc[p].fts \cup loc[p].near \cup loc[p].pool]

StoreIsRecordMap == RM!Spec

(* An embedder that never answers holds up only the call that waits for it: *)
(* whoever wants the mutex gets it and leaves its critical section          *)
(* (store.go:187, 264, 501, 645).                                           *)
EmbedderBlocksNobody ==
    \A p \in Procs :
        pc[p] \in {"wait", "wait2"} ~> pc[p] \notin {"wait", "locked", "wait2", "locked2"}

(* If embedders do answer, as their timeout makes them, every call returns: *)
(* no early return keeps the mutex and Backfill's loop ends.                *)
CallsReturn ==
    (\A p \in Procs : WF_vars(Embedding(p)))
        => \A p \in Procs : pc[p] # "idle" ~> pc[p] = "idle"

(* docs/architecture.md: reindex "backfills embeddings for records with     *)
(* null vectors".  A Backfill write only touches a document without one.    *)
BackfillFillsOnlyNull ==
    [][\A p \in Procs, i \in Ids :
        At(p, "locked2", "backfill") /\ docs'[i] # docs[i] => docs[i].vec = NoVec]_vars
=============================================================================
