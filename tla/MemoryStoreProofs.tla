-------------------------- MODULE MemoryStoreProofs --------------------------
(***************************************************************************)
(* For every set of callers, ids and texts: MemoryStore keeps its types    *)
(* and its mutex, a stored vector is of another text than its record only  *)
(* after a race, a List below MaxTopK is whole, a Backfill beside which no *)
(* Add runs only fills in, and MemoryStore implements RecordMap and the    *)
(* store its readers assume.                                               *)
(***************************************************************************)
EXTENDS MemoryStore, FiniteSetTheorems, TLAPS

(* The inductive invariant: the types, and what an operation's local        *)
(* variables still say of the collection when their step is taken.          *)

(* An Add about to write holds its own text's vector, or none. *)
AddHoldsOwnVector ==
    \A p \in Procs : pc[p] \in {"wait", "locked"} /\ req[p].op = "add"
        => loc[p].vec \in {NoVec, req[p].text}

(* A Backfill about to write is at one of its items. *)
FillIsAtAnItem ==
    \A p \in Procs : pc[p] \in {"wait2", "locked2"} /\ req[p].op = "backfill"
        => loc[p].cur \in loc[p].todo

(* A text a Backfill holds is still the document's, unless an Add raced it. *)
HeldTextIsCurrent ==
    \A p \in Procs : \A item \in loc[p].todo :
        \/ docs[item[1]] = NoDoc
        \/ docs[item[1]].text = item[2]
        \/ item[1] \in raced

(* Index entries left behind are of documents that are gone. *)
StaleIsDead == \A e \in stale : docs[e[1]] = NoDoc

(* Only a search past its first critical section holds results, listed ones *)
(* only before it ranks them, and no leg has two results with one id.       *)
LegsInOrder ==
    \A p \in Procs :
        /\ loc[p].fts \cup loc[p].near # {} =>
             pc[p] \in {"wait2", "locked2", "rank"} /\ req[p].op = "search"
        /\ loc[p].pool # {} => pc[p] = "rank"
        /\ RM!OncePerId(loc[p].fts)
        /\ RM!OncePerId(loc[p].near)
        /\ RM!OncePerId(loc[p].pool)

Busy == \A p \in Procs : pc[p] # "idle" => req[p] \in Requests

(* TypeOK in two halves: what the store keeps, and what its callers keep. *)
StoreOK ==
    /\ docs \in [Ids -> Docs \cup {NoDoc}]
    /\ stale \subseteq Items
    /\ raced \subseteq Ids
    /\ cancelled \in BOOLEAN
    /\ now \in Nat

CallersOK ==
    /\ mu \in Procs \cup {Free}
    /\ pc \in [Procs -> Labels]
    /\ req \in [Procs -> Requests \cup {NoReq}]
    /\ loc \in [Procs -> LocalsType]
    /\ reply \in [Procs -> Replies]
    /\ \A p \in Procs : pc[p] \in {"locked", "locked2"} <=> mu = p
    /\ Busy
    /\ AddHoldsOwnVector
    /\ FillIsAtAnItem

RaceInv == StaleIsDead /\ HeldTextIsCurrent /\ StaleVectorOnlyAfterRace

IInv == StoreOK /\ CallersOK /\ RaceInv /\ LegsInOrder

----------------------------------------------------------------------------
(* Lemmas about data *)

(* What each kind of request carries. *)
LEMMA RequestFields ==
    ASSUME NEW r \in Requests
    PROVE  /\ r.op \in Ops
           /\ r.op = "add" => r.id \in Ids /\ r.text \in Texts
           /\ r.op \in {"get", "forget"} => r.id \in Ids
           /\ r.want \subseteq Texts
BY WantsAreTexts DEF Requests, Request

(* Hits fetched again are records of the collection, one per id. *)
LEMMA RefetchReads ==
    ASSUME NEW entries
    PROVE  /\ Refetch(entries) \subseteq {Record(i) : i \in Live}
           /\ RM!OncePerId(Refetch(entries))
BY DEF Refetch, Record, RM!OncePerId

(* With dead left-overs only, hits of a filtered query pass the filter once *)
(* they are fetched again.                                                  *)
LEMMA RefetchKeepsFilter ==
    ASSUME StaleIsDead, NEW want, NEW entries \in SUBSET Index(want)
    PROVE  Refetch(entries) \subseteq Present(want)
<1> SUFFICES ASSUME NEW i \in Live, NEW e \in entries, e[1] = i
             PROVE  Record(i) \in Present(want)
    BY DEF Refetch
<1>1. e \notin stale
    BY DEF StaleIsDead, Live
<1>2. PICK j \in Live : docs[j].text \in want /\ e = Record(j)
    BY <1>1 DEF Index, Present
<1>3. j = i
    BY <1>2 DEF Record
<1> QED
    BY <1>2, <1>3 DEF Present

LEMMA EnumerationsAreHits ==
    ASSUME NEW entries \in Enumerations
    PROVE  entries \subseteq Index(Texts)
BY DEF Enumerations, kSubset

(* Records of the collection are items. *)
LEMMA PresentItems ==
    ASSUME StoreOK, NEW want
    PROVE  /\ Present(want) \subseteq Items
           /\ {Record(i) : i \in Live} \subseteq Items
BY DEF StoreOK, Docs, Present, Record, Live, Items

(* A blend takes its results from the legs, one per id. *)
LEMMA BlendsOfLegs ==
    ASSUME NEW fts, NEW near, NEW hits \in Blends(fts, near),
           RM!OncePerId(fts), RM!OncePerId(near)
    PROVE  hits \subseteq fts \cup near /\ RM!OncePerId(hits)
<1>1. CASE near = {}
    BY <1>1 DEF Blends
<1>2. CASE near # {}
    <2>1. hits \subseteq MergeLegs(fts, near)
        BY <1>2 DEF Blends, kSubset
    <2>2. RM!OncePerId(MergeLegs(fts, near))
        BY DEF RM!OncePerId, MergeLegs
    <2> QED
        BY <2>1, <2>2 DEF RM!OncePerId, MergeLegs
<1> QED
    BY <1>1, <1>2

----------------------------------------------------------------------------
(* Types *)

(* The mutex is given up by a step that leaves a critical section, and left *)
(* alone by every other step but Lock.                                      *)
LeavesMutex(p) ==
    \/ pc[p] \in {"locked", "locked2"} /\ Unlock
    \/ pc[p] \notin {"locked", "locked2"} /\ UNCHANGED mu

LEMMA FinishKeepsCallers ==
    ASSUME CallersOK, NEW p \in Procs,
           NEW st \in {"ok", "err", "notfound"}, NEW hits \in SUBSET Items,
           Finish(p, st, hits), LeavesMutex(p), pc[p] # "idle"
    PROVE  CallersOK'
<1> USE DEF CallersOK, Finish, Goto
<1>1. NoLocals \in LocalsType
    BY DEF NoLocals, LocalsType, Vectors
<1>2. [st |-> st, hits |-> hits] \in Replies
    BY DEF Replies
<1>3. /\ pc' \in [Procs -> Labels]
      /\ req' \in [Procs -> Requests \cup {NoReq}]
      /\ loc' \in [Procs -> LocalsType]
      /\ reply' \in [Procs -> Replies]
    BY <1>1, <1>2 DEF Labels
<1>4. /\ mu' \in Procs \cup {Free}
      /\ \A q \in Procs : pc'[q] \in {"locked", "locked2"} <=> mu' = q
    BY FreeFresh DEF LeavesMutex, Unlock
<1>5. Busy'
    BY DEF Busy
<1>6. AddHoldsOwnVector' /\ FillIsAtAnItem'
    BY DEF AddHoldsOwnVector, FillIsAtAnItem
<1> QED
    BY <1>3, <1>4, <1>5, <1>6

LEMMA ContinueKeepsCallers ==
    ASSUME CallersOK, NEW p \in Procs,
           NEW label \in {"embed", "wait", "wait2", "rank", "probe"}, NEW l \in LocalsType,
           Continue(p, label, l), LeavesMutex(p), pc[p] # "idle",
           label = "wait" /\ req[p].op = "add" => l.vec \in {NoVec, req[p].text},
           label = "wait2" /\ req[p].op = "backfill" => l.cur \in l.todo
    PROVE  CallersOK'
<1> USE DEF CallersOK, Continue, Goto
<1>1. /\ pc' \in [Procs -> Labels]
      /\ req' \in [Procs -> Requests \cup {NoReq}]
      /\ loc' \in [Procs -> LocalsType]
      /\ reply' \in [Procs -> Replies]
    BY DEF Labels
<1>2. /\ mu' \in Procs \cup {Free}
      /\ \A q \in Procs : pc'[q] \in {"locked", "locked2"} <=> mu' = q
    BY FreeFresh DEF LeavesMutex, Unlock
<1>3. Busy'
    BY DEF Busy
<1>4. AddHoldsOwnVector'
    BY DEF AddHoldsOwnVector
<1>5. FillIsAtAnItem'
    BY DEF FillIsAtAnItem
<1> QED
    BY <1>1, <1>2, <1>3, <1>4, <1>5

(* A caller past its call has a request, with the fields its operation uses. *)
LEMMA BusyRequest ==
    ASSUME CallersOK, NEW p \in Procs, pc[p] # "idle"
    PROVE  /\ req[p] \in Requests
           /\ loc[p] \in LocalsType
           /\ req[p].op = "add" => req[p].id \in Ids /\ req[p].text \in Texts
           /\ req[p].op \in {"get", "forget"} => req[p].id \in Ids
           /\ req[p].want \subseteq Texts
<1>1. req[p] \in Requests
    BY DEF CallersOK, Busy
<1> QED
    BY <1>1, RequestFields DEF CallersOK

(* What Upsert stores is typed if the document is. *)
LEMMA UpsertKeepsStore ==
    ASSUME StoreOK, NEW i \in Ids, NEW doc \in Docs, Upsert(i, doc),
           raced' \subseteq Ids, UNCHANGED env
    PROVE  StoreOK'
BY DEF StoreOK, Upsert, env

LEMMA SameStore ==
    ASSUME StoreOK, UNCHANGED <<store, env>>
    PROVE  StoreOK'
BY DEF StoreOK, store, env

LEMMA TypesHoldInitially == Init => StoreOK /\ CallersOK
<1> SUFFICES ASSUME Init PROVE StoreOK /\ CallersOK
    OBVIOUS
<1> USE DEF Init
<1>1. StoreOK
    BY DEF StoreOK
<1>2. NoLocals \in LocalsType /\ NoReply \in Replies
    BY DEF NoLocals, LocalsType, Vectors, NoReply, Replies
<1>3. CallersOK
    BY <1>2, FreeFresh DEF CallersOK, Labels, Busy, AddHoldsOwnVector, FillIsAtAnItem
<1> QED
    BY <1>1, <1>3

(* Taking and asking for the mutex, and starting and ending a call. *)
LEMMA CallTypes ==
    ASSUME StoreOK, CallersOK, NEW p \in Procs, Call(p) \/ Return(p) \/ Lock(p)
    PROVE  StoreOK' /\ CallersOK'
<1> USE DEF CallersOK
<1>1. StoreOK'
    BY SameStore DEF Call, Return, Lock
<1>2. CASE Call(p)
    <2>1. PICK r \in Requests :
            /\ req' = [req EXCEPT ![p] = r]
            /\ \/ /\ Goto(p, "done")
                  /\ reply' = [reply EXCEPT ![p] = [st |-> "err", hits |-> {}]]
                  /\ UNCHANGED loc
               \/ /\ Goto(p, IF r.op \in {"add", "search"} THEN "embed" ELSE "wait")
                  /\ loc' = [loc EXCEPT ![p].at = IF r.op = "add" THEN now ELSE 0]
                  /\ UNCHANGED reply
        BY <1>2 DEF Call
    <2>2. pc[p] = "idle" /\ UNCHANGED mu
        BY <1>2 DEF Call
    <2>3. pc' \in [Procs -> Labels] /\ req' \in [Procs -> Requests \cup {NoReq}]
        BY <2>1 DEF Goto, Labels
    <2>4. loc' \in [Procs -> LocalsType]
        BY <2>1 DEF LocalsType, StoreOK
    <2>5. reply' \in [Procs -> Replies]
        BY <2>1 DEF Replies
    <2>6. Busy'
        BY <2>1 DEF Busy, Goto
    <2>7. AddHoldsOwnVector' /\ FillIsAtAnItem'
        <3>1. \A q \in Procs : q # p =>
                pc'[q] = pc[q] /\ req'[q] = req[q] /\ loc'[q] = loc[q]
            BY <2>1 DEF Goto
        <3>2. pc'[p] \in {"wait", "locked"} => req'[p].op # "add"
            BY <2>1 DEF Goto
        <3>3. pc'[p] \notin {"wait2", "locked2"}
            BY <2>1 DEF Goto
        <3> QED
            BY <3>1, <3>2, <3>3 DEF AddHoldsOwnVector, FillIsAtAnItem
    <2>8. \A q \in Procs : pc'[q] \in {"locked", "locked2"} <=> mu' = q
        BY <2>1, <2>2 DEF Goto
    <2> QED
        BY <1>1, <2>2, <2>3, <2>4, <2>5, <2>6, <2>7, <2>8
<1>3. CASE Return(p)
    <2>1. NoReply \in Replies
        BY DEF NoReply, Replies
    <2> QED
        BY <1>1, <1>3, <2>1
        DEF Return, Goto, Labels, Busy, AddHoldsOwnVector, FillIsAtAnItem
<1>4. CASE Lock(p)
    BY <1>1, <1>4, FreeFresh
    DEF Lock, Goto, Labels, Busy, AddHoldsOwnVector, FillIsAtAnItem
<1> QED
    BY <1>2, <1>3, <1>4

LEMMA SimpleSectionTypes ==
    ASSUME StoreOK, CallersOK, NEW p \in Procs,
           AddWrite(p) \/ GetWork(p) \/ ForgetWork(p) \/ ListWork(p) \/ OptimizeWork(p)
               \/ EngineError(p)
    PROVE  StoreOK' /\ CallersOK'
<1>0. {} \in SUBSET Items
    OBVIOUS
<1>1. CASE AddWrite(p)
    <2>1. pc[p] = "locked" /\ req[p].op = "add" /\ LeavesMutex(p)
        BY <1>1 DEF AddWrite, At, LeavesMutex
    <2>2. req[p].id \in Ids /\ req[p].text \in Texts /\ loc[p] \in LocalsType
        BY <2>1, BusyRequest
    <2>3. loc[p].vec \in Vectors
        BY <2>1, <2>2 DEF CallersOK, AddHoldsOwnVector, Vectors
    <2>4. Added(p) \in Docs
        BY <2>2, <2>3 DEF Added, Docs, LocalsType
    <2>5. StoreOK'
        BY <1>1, <2>2, <2>4, UpsertKeepsStore DEF AddWrite, StoreOK, env
    <2>6. CallersOK'
        BY <1>0, <1>1, <2>1, FinishKeepsCallers DEF AddWrite
    <2> QED
        BY <2>5, <2>6
<1>2. CASE GetWork(p)
    <2>1. pc[p] = "locked" /\ req[p].op = "get" /\ LeavesMutex(p)
        BY <1>2 DEF GetWork, At, LeavesMutex
    <2>2. req[p].id \in Ids
        BY <2>1, BusyRequest
    <2>3. docs[req[p].id] # NoDoc => {Record(req[p].id)} \in SUBSET Items
        BY <2>2, PresentItems DEF Live
    <2> QED
        BY <1>0, <1>2, <2>1, <2>3, FinishKeepsCallers, SameStore DEF GetWork
<1>3. CASE ForgetWork(p)
    <2>1. pc[p] = "locked" /\ req[p].op = "forget" /\ LeavesMutex(p)
        BY <1>3 DEF ForgetWork, At, LeavesMutex
    <2>2. req[p].id \in Ids
        BY <2>1, BusyRequest
    <2>3. CASE docs[req[p].id] = NoDoc
        BY <1>0, <1>3, <2>1, <2>3, FinishKeepsCallers, SameStore DEF ForgetWork
    <2>4. CASE docs[req[p].id] # NoDoc
        <3>1. Record(req[p].id) \in Items
            BY <2>2, <2>4, PresentItems DEF Live
        <3>2. StoreOK'
            BY <1>3, <2>2, <2>4, <3>1 DEF ForgetWork, StoreOK, env
        <3>3. CallersOK'
            BY <1>0, <1>3, <2>1, <2>4, FinishKeepsCallers DEF ForgetWork
        <3> QED
            BY <3>2, <3>3
    <2> QED
        BY <2>3, <2>4
<1>4. CASE ListWork(p)
    <2>1. pc[p] = "locked" /\ LeavesMutex(p)
        BY <1>4 DEF ListWork, At, LeavesMutex
    <2>2. PICK entries \in Enumerations : Finish(p, "ok", Refetch(entries))
        BY <1>4 DEF ListWork
    <2>3. Refetch(entries) \in SUBSET Items
        BY RefetchReads, PresentItems
    <2>4. StoreOK'
        BY <1>4, SameStore DEF ListWork
    <2> QED
        BY <2>1, <2>2, <2>3, <2>4, FinishKeepsCallers
<1>5. CASE OptimizeWork(p)
    <2>1. pc[p] = "locked" /\ LeavesMutex(p)
        BY <1>5 DEF OptimizeWork, At, LeavesMutex
    <2>2. StoreOK'
        BY <1>5 DEF OptimizeWork, StoreOK, env
    <2>3. CallersOK'
        BY <1>0, <1>5, <2>1, FinishKeepsCallers DEF OptimizeWork
    <2> QED
        BY <2>2, <2>3
<1>6. CASE EngineError(p)
    <2>1. pc[p] \in {"locked", "locked2"} /\ LeavesMutex(p)
        BY <1>6 DEF EngineError, At, LeavesMutex
    <2> QED
        BY <1>0, <1>6, <2>1, FinishKeepsCallers, SameStore DEF EngineError
<1> QED
    BY <1>1, <1>2, <1>3, <1>4, <1>5, <1>6

LEMMA SearchTypes ==
    ASSUME StoreOK, CallersOK, NEW p \in Procs,
           SearchEmbed(p) \/ SearchLegs(p) \/ SearchList(p) \/ SearchListFails(p)
               \/ SearchRank(p)
    PROVE  StoreOK' /\ CallersOK'
<1>0. StoreOK'
    BY SameStore DEF SearchEmbed, SearchLegs, SearchList, SearchListFails, SearchRank
<1>1. pc[p] # "idle" /\ req[p].op = "search"
    BY DEF SearchEmbed, SearchLegs, SearchList, SearchListFails, SearchRank, At
<1>2. loc[p] \in LocalsType
    BY DEF CallersOK
<1>3. CASE SearchEmbed(p)
    <2>1. LeavesMutex(p)
        BY <1>3 DEF SearchEmbed, At, LeavesMutex
    <2>2. PICK v \in {NoVec, QueryVec} : Continue(p, "wait", [loc[p] EXCEPT !.vec = v])
        BY <1>3 DEF SearchEmbed
    <2>3. [loc[p] EXCEPT !.vec = v] \in LocalsType
        BY <1>2 DEF LocalsType, Vectors
    <2> QED
        BY <1>0, <1>1, <2>1, <2>2, <2>3, ContinueKeepsCallers
<1>4. CASE SearchLegs(p)
    <2>1. LeavesMutex(p)
        BY <1>4 DEF SearchLegs, At, LeavesMutex
    <2>2. PICK fts, near :
            Continue(p, AfterLegs(p),
                     [loc[p] EXCEPT !.fts = Refetch(fts), !.near = Refetch(near)])
        BY <1>4 DEF SearchLegs
    <2>3. Refetch(fts) \in SUBSET Items /\ Refetch(near) \in SUBSET Items
        BY RefetchReads, PresentItems
    <2>4. [loc[p] EXCEPT !.fts = Refetch(fts), !.near = Refetch(near)] \in LocalsType
        BY <1>2, <2>3 DEF LocalsType
    <2>5. AfterLegs(p) \in {"wait2", "rank"}
        BY DEF AfterLegs
    <2> QED
        BY <1>0, <1>1, <2>1, <2>2, <2>4, <2>5, ContinueKeepsCallers
<1>5. CASE SearchList(p)
    <2>1. LeavesMutex(p)
        BY <1>5 DEF SearchList, At, LeavesMutex
    <2>2. PICK entries :
            Continue(p, "rank",
                     [loc[p] EXCEPT !.pool = Selected(Refetch(entries), req[p].want)])
        BY <1>5 DEF SearchList
    <2>3. Selected(Refetch(entries), req[p].want) \in SUBSET Items
        BY RefetchReads, PresentItems DEF Selected
    <2>4. [loc[p] EXCEPT !.pool = Selected(Refetch(entries), req[p].want)] \in LocalsType
        BY <1>2, <2>3 DEF LocalsType
    <2> QED
        BY <1>0, <1>1, <2>1, <2>2, <2>4, ContinueKeepsCallers
<1>6. CASE SearchListFails(p)
    <2>1. LeavesMutex(p) /\ Continue(p, "rank", loc[p])
        BY <1>6 DEF SearchListFails, At, LeavesMutex
    <2> QED
        BY <1>0, <1>1, <1>2, <2>1, ContinueKeepsCallers
<1>7. CASE SearchRank(p)
    <2>1. LeavesMutex(p)
        BY <1>7 DEF SearchRank, At, LeavesMutex
    <2>2. PICK best \in UpTo(SearchLimit, loc[p].pool) :
            \E hits \in Blends(loc[p].fts, IF best = {} THEN loc[p].near ELSE best) :
                Finish(p, "ok", hits)
        BY <1>7 DEF SearchRank
    <2>3. PICK hits \in Blends(loc[p].fts, IF best = {} THEN loc[p].near ELSE best) :
            Finish(p, "ok", hits)
        BY <2>2
    <2>4. hits \in SUBSET Items
        BY <1>2, <2>2, <2>3 DEF Blends, MergeLegs, kSubset, UpTo, LocalsType
    <2> QED
        BY <1>0, <1>1, <2>1, <2>3, <2>4, FinishKeepsCallers
<1> QED
    BY <1>3, <1>4, <1>5, <1>6, <1>7

LEMMA FillTypes ==
    ASSUME StoreOK, NEW item \in Items, Fill(item), UNCHANGED <<raced, env>>
    PROVE  StoreOK'
<1>1. item[1] \in Ids /\ item[2] \in Vectors
    BY DEF Items, Vectors
<1>2. CASE docs[item[1]] = NoDoc
    BY <1>2 DEF Fill, StoreOK, env
<1>3. CASE docs[item[1]] # NoDoc
    <2>1. [docs[item[1]] EXCEPT !.vec = item[2]] \in Docs
        BY <1>1, <1>3 DEF StoreOK, Docs
    <2> QED
        BY <1>1, <1>3, <2>1, UpsertKeepsStore DEF Fill, StoreOK
<1> QED
    BY <1>2, <1>3

LEMMA StatusTypes ==
    ASSUME StoreOK, CallersOK, NEW p \in Procs,
           StatusCount(p) \/ StatusPending(p) \/ StatusProbe(p) \/ StatusCancelled(p)
    PROVE  StoreOK' /\ CallersOK'
<1>0. StoreOK'
    BY SameStore DEF StatusCount, StatusPending, StatusProbe, StatusCancelled
<1>1. /\ pc[p] # "idle" /\ req[p].op = "status" /\ LeavesMutex(p)
      /\ loc[p] \in LocalsType
    BY DEF StatusCount, StatusPending, StatusProbe, StatusCancelled, At, LeavesMutex,
           CallersOK
<1>2. CASE StatusCount(p) \/ StatusPending(p)
    BY <1>0, <1>1, <1>2, ContinueKeepsCallers DEF StatusCount, StatusPending
<1>3. CASE StatusProbe(p) \/ StatusCancelled(p)
    <2>1. {} \in SUBSET Items
        OBVIOUS
    <2> QED
        BY <1>0, <1>1, <1>3, <2>1, FinishKeepsCallers DEF StatusProbe, StatusCancelled
<1> QED
    BY <1>2, <1>3

LEMMA BackfillTypes ==
    ASSUME StoreOK, CallersOK, NEW p \in Procs,
           BackfillSnapshot(p) \/ BackfillEmbed(p) \/ BackfillFill(p) \/ BackfillSkip(p)
    PROVE  StoreOK' /\ CallersOK'
<1>1. /\ pc[p] # "idle" /\ req[p].op = "backfill" /\ LeavesMutex(p)
      /\ loc[p] \in LocalsType
    BY DEF BackfillSnapshot, BackfillEmbed, BackfillFill, BackfillSkip, At, LeavesMutex,
           CallersOK
<1>2. NoItem \in Items \cup {NoItem} /\ loc[p].todo \in SUBSET Items
    BY <1>1 DEF LocalsType
<1>3. ASSUME NextItem(p) PROVE CallersOK'
    <2>1. [loc[p] EXCEPT !.todo = @ \ {loc[p].cur}, !.cur = NoItem] \in LocalsType
        BY <1>1 DEF LocalsType
    <2> QED
        BY <1>1, <1>3, <2>1, ContinueKeepsCallers DEF NextItem
<1>4. CASE BackfillSnapshot(p)
    <2>1. PICK entries \in Enumerations :
            Continue(p, "embed", [loc[p] EXCEPT !.todo =
                {Record(i) : i \in {e[1] : e \in entries} \cap Pending}])
        BY <1>4 DEF BackfillSnapshot
    <2>2. {Record(i) : i \in {e[1] : e \in entries} \cap Pending} \in SUBSET Items
        BY PresentItems DEF Pending
    <2>3. [loc[p] EXCEPT !.todo =
                {Record(i) : i \in {e[1] : e \in entries} \cap Pending}] \in LocalsType
        BY <1>1, <2>2 DEF LocalsType
    <2>4. CallersOK'
        BY <1>1, <2>1, <2>3, ContinueKeepsCallers
    <2> QED
        BY <1>4, <2>4, SameStore DEF BackfillSnapshot
<1>5. CASE BackfillEmbed(p)
    <2>0. StoreOK'
        BY <1>5, SameStore DEF BackfillEmbed
    <2>1. CASE Finish(p, "ok", {})
        <3>1. {} \in SUBSET Items
            OBVIOUS
        <3> QED
            BY <1>1, <2>0, <2>1, <3>1, FinishKeepsCallers
    <2>2. ASSUME NEW item \in loc[p].todo,
                 Continue(p, "embed", [loc[p] EXCEPT !.todo = @ \ {item}])
          PROVE  CallersOK'
        <3>1. [loc[p] EXCEPT !.todo = @ \ {item}] \in LocalsType
            BY <1>1 DEF LocalsType
        <3> QED
            BY <1>1, <2>2, <3>1, ContinueKeepsCallers
    <2>3. ASSUME NEW item \in loc[p].todo,
                 Continue(p, "wait2", [loc[p] EXCEPT !.cur = item])
          PROVE  CallersOK'
        <3>1. /\ [loc[p] EXCEPT !.cur = item] \in LocalsType
              /\ [loc[p] EXCEPT !.cur = item].cur \in [loc[p] EXCEPT !.cur = item].todo
            BY <1>1, <1>2 DEF LocalsType
        <3> QED
            BY <1>1, <2>3, <3>1, ContinueKeepsCallers
    <2> QED
        BY <1>5, <2>0, <2>1, <2>2, <2>3 DEF BackfillEmbed
<1>6. CASE BackfillFill(p)
    <2>1. loc[p].cur \in Items
        BY <1>2, <1>6 DEF BackfillFill, At, CallersOK, FillIsAtAnItem
    <2> QED
        BY <1>3, <1>6, <2>1, FillTypes DEF BackfillFill
<1>7. CASE BackfillSkip(p)
    BY <1>3, <1>7, SameStore DEF BackfillSkip
<1> QED
    BY <1>4, <1>5, <1>6, <1>7

LEMMA AddEmbedTypes ==
    ASSUME StoreOK, CallersOK, NEW p \in Procs, AddEmbed(p)
    PROVE  StoreOK' /\ CallersOK'
<1>0. StoreOK'
    BY SameStore DEF AddEmbed
<1>1. pc[p] = "embed" /\ req[p].op = "add" /\ LeavesMutex(p) /\ loc[p] \in LocalsType
    BY DEF AddEmbed, At, LeavesMutex, CallersOK
<1>2. req[p].text \in Texts
    BY <1>1, BusyRequest
<1>3. PICK v \in Embeddings(req[p].text) :
        IF RightDim(v) THEN Continue(p, "wait", [loc[p] EXCEPT !.vec = v])
                       ELSE Finish(p, "err", {})
    BY DEF AddEmbed
<1>4. CASE RightDim(v)
    <2>1. v \in {NoVec, req[p].text}
        BY <1>4 DEF Embeddings, RightDim
    <2>2. /\ [loc[p] EXCEPT !.vec = v] \in LocalsType
          /\ [loc[p] EXCEPT !.vec = v].vec = v
        BY <1>1, <1>2, <2>1 DEF LocalsType, Vectors
    <2> QED
        BY <1>0, <1>1, <1>3, <1>4, <2>1, <2>2, ContinueKeepsCallers
<1>5. CASE ~RightDim(v)
    <2>1. {} \in SUBSET Items
        OBVIOUS
    <2> QED
        BY <1>0, <1>1, <1>3, <1>5, <2>1, FinishKeepsCallers
<1> QED
    BY <1>4, <1>5

(* Every step keeps the types. *)
LEMMA TypesPreserved ==
    ASSUME StoreOK, CallersOK, [Next]_vars
    PROVE  StoreOK' /\ CallersOK'
<1>1. CASE Cancel \/ Tick
    <2>1. UNCHANGED <<docs, stale, raced, mu, pc, req, loc, reply>>
        BY <1>1 DEF Cancel, Tick, store
    <2>2. StoreOK'
        <3>1. cancelled' \in BOOLEAN
            BY <1>1 DEF Cancel, Tick, StoreOK
        <3>2. now' \in Nat
            BY <1>1 DEF Cancel, Tick, StoreOK
        <3> QED
            BY <2>1, <3>1, <3>2 DEF StoreOK
    <2>3. CallersOK'
        BY <2>1 DEF CallersOK, Busy, AddHoldsOwnVector, FillIsAtAnItem
    <2> QED
        BY <2>2, <2>3
<1>2. CASE UNCHANGED vars
    BY <1>2 DEF vars, StoreOK, CallersOK, Busy, AddHoldsOwnVector, FillIsAtAnItem
<1>3. ASSUME NEW p \in Procs,
             Call(p) \/ Return(p) \/ Lock(p) \/ Section(p) \/ Embedding(p)
                 \/ StatusCancelled(p)
      PROVE  StoreOK' /\ CallersOK'
    BY <1>3, CallTypes, SimpleSectionTypes, SearchTypes, StatusTypes, BackfillTypes,
       AddEmbedTypes DEF Section, Embedding
<1> QED
    BY <1>1, <1>2, <1>3 DEF Next

(* Every vector stored has the store's dimension, and exactly the caller in *)
(* a critical section holds the mutex.                                      *)
THEOREM TypeCorrect == Spec => []TypeOK
<1>1. Init => StoreOK /\ CallersOK
    BY TypesHoldInitially
<1>2. StoreOK /\ CallersOK /\ [Next]_vars => (StoreOK /\ CallersOK)'
    BY TypesPreserved
<1>3. StoreOK /\ CallersOK => TypeOK
    BY DEF StoreOK, CallersOK, TypeOK
<1> QED
    BY <1>1, <1>2, <1>3, PTL DEF Spec

----------------------------------------------------------------------------
(* Vectors and races *)

(* No Backfill picks up an item it did not hold. *)
NoNewItems == \A q \in Procs : loc'[q].todo \subseteq loc[q].todo

LEMMA FinishDropsItems ==
    ASSUME CallersOK, NEW p \in Procs, NEW st, NEW hits, Finish(p, st, hits)
    PROVE  NoNewItems
BY DEF CallersOK, Finish, NoLocals, NoNewItems

LEMMA ContinueKeepsItems ==
    ASSUME CallersOK, NEW p \in Procs, NEW label, NEW l,
           Continue(p, label, l), l.todo \subseteq loc[p].todo
    PROVE  NoNewItems
BY DEF CallersOK, Continue, NoNewItems

(* A step that leaves the collection alone cannot break a race invariant. *)
LEMMA QuietSteps ==
    ASSUME RaceInv, UNCHANGED store, NoNewItems
    PROVE  RaceInv'
BY DEF RaceInv, StaleIsDead, HeldTextIsCurrent, StaleVectorOnlyAfterRace, Live, store,
       NoNewItems

LEMMA QuietActions ==
    ASSUME CallersOK, NEW p \in Procs,
           \/ Call(p) \/ Return(p) \/ Lock(p) \/ EngineError(p)
           \/ AddEmbed(p) \/ GetWork(p) \/ ListWork(p)
           \/ SearchEmbed(p) \/ SearchLegs(p) \/ SearchList(p) \/ SearchListFails(p)
           \/ SearchRank(p)
           \/ StatusCount(p) \/ StatusPending(p) \/ StatusProbe(p) \/ StatusCancelled(p)
           \/ BackfillEmbed(p) \/ BackfillSkip(p)
    PROVE  UNCHANGED store /\ NoNewItems
<1>0. loc[p] \in LocalsType /\ loc[p].todo \subseteq loc[p].todo
    BY DEF CallersOK
<1>1. CASE Call(p) \/ Return(p) \/ Lock(p)
    <2>1. loc' = loc \/ \E t : loc' = [loc EXCEPT ![p].at = t]
        BY <1>1 DEF Call, Return, Lock
    <2>2. NoNewItems
        BY <1>0, <2>1 DEF CallersOK, NoNewItems, LocalsType
    <2> QED
        BY <1>1, <2>2 DEF Call, Return, Lock
<1>2. CASE \/ EngineError(p) \/ GetWork(p) \/ ListWork(p) \/ SearchRank(p)
           \/ StatusProbe(p) \/ StatusCancelled(p)
    BY <1>2, FinishDropsItems
    DEF EngineError, GetWork, ListWork, SearchRank, StatusProbe, StatusCancelled
<1>3. CASE SearchListFails(p) \/ StatusCount(p) \/ StatusPending(p)
    BY <1>0, <1>3, ContinueKeepsItems DEF SearchListFails, StatusCount, StatusPending
<1>4. CASE SearchEmbed(p) \/ SearchLegs(p) \/ SearchList(p)
    <2>1. PICK label, l : Continue(p, label, l) /\ l.todo = loc[p].todo
        <3>1. \A v : [loc[p] EXCEPT !.vec = v].todo = loc[p].todo
            BY <1>0 DEF LocalsType
        <3>2. \A f, n : [loc[p] EXCEPT !.fts = f, !.near = n].todo = loc[p].todo
            BY <1>0 DEF LocalsType
        <3>3. \A w : [loc[p] EXCEPT !.pool = w].todo = loc[p].todo
            BY <1>0 DEF LocalsType
        <3>4. CASE SearchEmbed(p)
            BY <3>1, <3>4 DEF SearchEmbed
        <3>5. CASE SearchLegs(p)
            <4>1. PICK f, n :
                    Continue(p, AfterLegs(p), [loc[p] EXCEPT !.fts = f, !.near = n])
                BY <3>5 DEF SearchLegs
            <4> QED
                BY <3>2, <4>1
        <3>6. CASE SearchList(p)
            <4>1. PICK w : Continue(p, "rank", [loc[p] EXCEPT !.pool = w])
                BY <3>6 DEF SearchList
            <4> QED
                BY <3>3, <4>1
        <3> QED
            BY <1>4, <3>4, <3>5, <3>6
    <2> QED
        BY <1>4, <2>1, ContinueKeepsItems DEF SearchEmbed, SearchLegs, SearchList
<1>5. CASE AddEmbed(p)
    <2>1. \A v : [loc[p] EXCEPT !.vec = v].todo = loc[p].todo
        BY <1>0 DEF LocalsType
    <2> QED
        BY <1>5, <2>1, FinishDropsItems, ContinueKeepsItems DEF AddEmbed
<1>6. CASE BackfillEmbed(p) \/ BackfillSkip(p)
    <2>1. /\ \A item : [loc[p] EXCEPT !.todo = @ \ {item}].todo \subseteq loc[p].todo
          /\ \A item : [loc[p] EXCEPT !.cur = item].todo = loc[p].todo
          /\ [loc[p] EXCEPT !.todo = @ \ {loc[p].cur}, !.cur = NoItem].todo
                \subseteq loc[p].todo
        BY <1>0 DEF LocalsType
    <2> QED
        BY <1>6, <2>1, FinishDropsItems, ContinueKeepsItems
        DEF BackfillEmbed, BackfillSkip, NextItem
<1> QED
    BY <1>1, <1>2, <1>3, <1>4, <1>5, <1>6

LEMMA AddWriteRace ==
    ASSUME StoreOK, CallersOK, RaceInv, NEW p \in Procs, AddWrite(p)
    PROVE  RaceInv'
<1> DEFINE i == req[p].id
           t == req[p].text
<1>1. pc[p] = "locked" /\ req[p].op = "add" /\ NoNewItems
    BY FinishDropsItems DEF AddWrite, At
<1>2. i \in Ids /\ t \in Texts /\ loc[p].vec \in {NoVec, t}
    BY <1>1, BusyRequest DEF CallersOK, AddHoldsOwnVector
<1>3. /\ docs' = [docs EXCEPT ![i] = Added(p)]
      /\ stale' = {e \in stale : e[1] # i}
      /\ raced' = IF HeldElsewhere(i, t) THEN raced \cup {i} ELSE raced \ {i}
      /\ Added(p).text = t /\ Added(p).vec \in {NoVec, t}
    BY <1>2 DEF AddWrite, Upsert, Added
<1>4. StaleIsDead'
    BY <1>3 DEF RaceInv, StaleIsDead, StoreOK
<1>5. HeldTextIsCurrent'
    <2> SUFFICES ASSUME NEW q \in Procs, NEW item \in loc'[q].todo
                 PROVE  \/ docs'[item[1]] = NoDoc
                        \/ docs'[item[1]].text = item[2]
                        \/ item[1] \in raced'
        BY DEF HeldTextIsCurrent
    <2>1. item \in loc[q].todo
        BY <1>1 DEF NoNewItems
    <2>2. CASE item[1] = i
        BY <1>2, <1>3, <2>1, <2>2 DEF HeldElsewhere, StoreOK
    <2>3. CASE item[1] # i
        <3>1. docs'[item[1]] = docs[item[1]]
            BY <1>3, <2>1, <2>3 DEF StoreOK, CallersOK, LocalsType, Items
        <3>2. item[1] \in raced => item[1] \in raced'
            BY <1>3, <2>3
        <3> QED
            BY <2>1, <3>1, <3>2 DEF RaceInv, HeldTextIsCurrent
    <2> QED
        BY <2>2, <2>3
<1>6. StaleVectorOnlyAfterRace'
    <2> SUFFICES ASSUME NEW j \in Ids, docs'[j] # NoDoc,
                        docs'[j].vec \notin {NoVec, docs'[j].text}
                 PROVE  j \in raced'
        BY DEF StaleVectorOnlyAfterRace, Live
    <2>1. j # i
        BY <1>2, <1>3 DEF StoreOK
    <2>2. docs'[j] = docs[j]
        BY <1>3, <2>1 DEF StoreOK
    <2> QED
        BY <1>3, <2>1, <2>2 DEF RaceInv, StaleVectorOnlyAfterRace, Live
<1> QED
    BY <1>4, <1>5, <1>6 DEF RaceInv

LEMMA ForgetRace ==
    ASSUME StoreOK, CallersOK, RaceInv, NEW p \in Procs, ForgetWork(p)
    PROVE  RaceInv'
<1> DEFINE i == req[p].id
<1>1. pc[p] = "locked" /\ req[p].op = "forget" /\ NoNewItems
    BY FinishDropsItems DEF ForgetWork, At
<1>2. i \in Ids
    BY <1>1, BusyRequest
<1>3. CASE docs[i] = NoDoc
    BY <1>1, <1>3, QuietSteps DEF ForgetWork
<1>4. CASE docs[i] # NoDoc
    <2>1. /\ docs' = [docs EXCEPT ![i] = NoDoc]
          /\ stale' \subseteq stale \cup {Record(i)}
          /\ raced' = raced
        BY <1>4 DEF ForgetWork
    <2>2. \A j \in Ids : docs'[j] = NoDoc \/ docs'[j] = docs[j]
        BY <2>1 DEF StoreOK
    <2>3. StaleIsDead'
        BY <1>2, <2>1 DEF RaceInv, StaleIsDead, Record, StoreOK, Items
    <2>4. HeldTextIsCurrent'
        BY <1>1, <2>1, <2>2
        DEF RaceInv, HeldTextIsCurrent, NoNewItems, CallersOK, LocalsType, Items
    <2>5. StaleVectorOnlyAfterRace'
        BY <2>1, <2>2 DEF RaceInv, StaleVectorOnlyAfterRace, Live
    <2> QED
        BY <2>3, <2>4, <2>5 DEF RaceInv
<1> QED
    BY <1>3, <1>4

LEMMA OptimizeRace ==
    ASSUME CallersOK, RaceInv, NEW p \in Procs, OptimizeWork(p)
    PROVE  RaceInv'
<1>1. NoNewItems
    BY FinishDropsItems DEF OptimizeWork
<1> QED
    BY <1>1 DEF OptimizeWork, RaceInv, StaleIsDead, HeldTextIsCurrent,
                StaleVectorOnlyAfterRace, Live, NoNewItems

LEMMA SnapshotRace ==
    ASSUME CallersOK, RaceInv, NEW p \in Procs, BackfillSnapshot(p)
    PROVE  RaceInv'
<1>1. PICK ids \in SUBSET Pending :
        Continue(p, "embed", [loc[p] EXCEPT !.todo = {Record(i) : i \in ids}])
    BY DEF BackfillSnapshot
<1>2. [loc[p] EXCEPT !.todo = {Record(i) : i \in ids}].todo = {Record(i) : i \in ids}
    BY DEF CallersOK, LocalsType
<1>3. \A q \in Procs : loc'[q].todo \subseteq loc[q].todo \cup {Record(i) : i \in Live}
    BY <1>1, <1>2 DEF Continue, CallersOK, Pending
<1>4. UNCHANGED store
    BY DEF BackfillSnapshot
<1>5. HeldTextIsCurrent'
    BY <1>3, <1>4 DEF RaceInv, HeldTextIsCurrent, Record, Live, store
<1> QED
    BY <1>4, <1>5 DEF RaceInv, StaleIsDead, StaleVectorOnlyAfterRace, Live, store

(* The vector written is of the text held, which is the document's own      *)
(* unless an Add raced: this is where HeldTextIsCurrent is needed.          *)
LEMMA FillRace ==
    ASSUME StoreOK, CallersOK, RaceInv, NEW p \in Procs, BackfillFill(p)
    PROVE  RaceInv'
<1> DEFINE item == loc[p].cur
           i == item[1]
<1>1. item \in loc[p].todo /\ loc[p] \in LocalsType
    BY DEF BackfillFill, At, CallersOK, FillIsAtAnItem
<1>2. i \in Ids /\ item[2] \in Texts
    BY <1>1 DEF LocalsType, Items
<1>3. NoNewItems
    <2>1. [loc[p] EXCEPT !.todo = @ \ {item}, !.cur = NoItem].todo \subseteq loc[p].todo
        BY <1>1 DEF LocalsType
    <2> QED
        BY <2>1, ContinueKeepsItems DEF BackfillFill, NextItem
<1>4. CASE docs[i] = NoDoc
    BY <1>3, <1>4, QuietSteps DEF BackfillFill, Fill, store
<1>5. CASE docs[i] # NoDoc
    <2>1. /\ docs' = [docs EXCEPT ![i] = [docs[i] EXCEPT !.vec = item[2]]]
          /\ stale' \subseteq stale
          /\ raced' = raced
        BY <1>5 DEF BackfillFill, Fill, Upsert
    <2>2. docs[i] \in Docs
        BY <1>2, <1>5 DEF StoreOK
    <2>3. /\ docs'[i] # NoDoc
          /\ docs'[i].text = docs[i].text
          /\ docs'[i].vec = item[2]
          /\ \A j \in Ids : j # i => docs'[j] = docs[j]
        BY <1>2, <2>1, <2>2, NoDocFresh DEF StoreOK, Docs, Vectors
    <2>4. StaleIsDead'
        BY <1>2, <1>5, <2>1, <2>3 DEF RaceInv, StaleIsDead, StoreOK, Items
    <2>5. HeldTextIsCurrent'
        BY <1>3, <1>5, <2>1, <2>3
        DEF RaceInv, HeldTextIsCurrent, NoNewItems, CallersOK, LocalsType, Items
    <2>6. StaleVectorOnlyAfterRace'
        <3>1. item[2] = docs[i].text \/ i \in raced
            BY <1>1, <1>5 DEF RaceInv, HeldTextIsCurrent
        <3>2. ASSUME NEW j \in Live', docs'[j].vec \notin {NoVec, docs'[j].text}
              PROVE  j \in raced'
            BY <2>1, <2>3, <3>1, <3>2 DEF RaceInv, StaleVectorOnlyAfterRace, Live
        <3> QED
            BY <3>2 DEF StaleVectorOnlyAfterRace
    <2> QED
        BY <2>4, <2>5, <2>6 DEF RaceInv
<1> QED
    BY <1>4, <1>5

LEMMA RacePreserved ==
    ASSUME StoreOK, CallersOK, RaceInv, [Next]_vars
    PROVE  RaceInv'
<1>1. CASE Cancel \/ Tick \/ UNCHANGED vars
    BY <1>1, QuietSteps DEF Cancel, Tick, vars, store, NoNewItems
<1>2. ASSUME NEW p \in Procs,
             Call(p) \/ Return(p) \/ Lock(p) \/ Section(p) \/ Embedding(p)
                 \/ StatusCancelled(p)
      PROVE  RaceInv'
    BY <1>2, QuietActions, QuietSteps, AddWriteRace, ForgetRace, OptimizeRace,
       SnapshotRace, FillRace DEF Section, Embedding
<1> QED
    BY <1>1, <1>2 DEF Next

(* A stored vector is the embedding of the document's own text, unless the  *)
(* last Add of that id was written while a Backfill held another text of it.*)
THEOREM VectorsTrustworthy == Spec => []StaleVectorOnlyAfterRace
<1>1. Init => StoreOK /\ CallersOK /\ RaceInv
    BY TypesHoldInitially
    DEF Init, RaceInv, StaleIsDead, HeldTextIsCurrent, StaleVectorOnlyAfterRace, Live,
        NoLocals
<1>2. StoreOK /\ CallersOK /\ RaceInv /\ [Next]_vars => (StoreOK /\ CallersOK /\ RaceInv)'
    BY TypesPreserved, RacePreserved
<1>3. RaceInv => StaleVectorOnlyAfterRace
    BY DEF RaceInv
<1> QED
    BY <1>1, <1>2, <1>3, PTL DEF Spec

----------------------------------------------------------------------------
(* The results a search holds *)

Legs(l) == <<l.fts, l.near, l.pool>>

LEMMA NoLegs ==
    RM!OncePerId({}) /\ Legs(NoLocals) = <<{}, {}, {}>>
BY DEF RM!OncePerId, Legs, NoLocals

(* A step that leaves every caller's results alone, or drops them. *)
LEMMA LegsQuiet ==
    ASSUME CallersOK, LegsInOrder, NEW p \in Procs,
           \A q \in Procs \ {p} :
               Legs(loc'[q]) = Legs(loc[q]) /\ pc'[q] = pc[q] /\ req'[q] = req[q],
           \/ Legs(loc'[p]) = <<{}, {}, {}>>
           \/ /\ Legs(loc'[p]) = Legs(loc[p])
              /\ req'[p] = req[p]
              /\ \/ pc'[p] = "rank"
                 \/ pc[p] = "wait2" /\ pc'[p] = "locked2"
                 \/ loc[p].fts = {} /\ loc[p].near = {} /\ loc[p].pool = {}
    PROVE  LegsInOrder'
<1> SUFFICES ASSUME NEW q \in Procs
             PROVE  /\ loc'[q].fts \cup loc'[q].near # {} =>
                         pc'[q] \in {"wait2", "locked2", "rank"} /\ req'[q].op = "search"
                    /\ loc'[q].pool # {} => pc'[q] = "rank"
                    /\ RM!OncePerId(loc'[q].fts)
                    /\ RM!OncePerId(loc'[q].near)
                    /\ RM!OncePerId(loc'[q].pool)
    BY DEF LegsInOrder, RM!OncePerId
<1>1. CASE q # p
    BY <1>1 DEF LegsInOrder, Legs
<1>2. CASE q = p
    <2>1. CASE Legs(loc'[p]) = <<{}, {}, {}>>
        BY <1>2, <2>1, NoLegs DEF Legs
    <2>2. CASE Legs(loc'[p]) = Legs(loc[p])
        BY <1>2, <2>1, <2>2 DEF LegsInOrder, Legs
    <2> QED
        BY <2>1, <2>2
<1> QED
    BY <1>1, <1>2

LEMMA FinishLegs ==
    ASSUME CallersOK, LegsInOrder, NEW p \in Procs, NEW st, NEW hits, Finish(p, st, hits)
    PROVE  LegsInOrder'
<1>1. Legs(loc'[p]) = <<{}, {}, {}>>
    BY NoLegs DEF Finish, CallersOK
<1>2. \A q \in Procs \ {p} :
        Legs(loc'[q]) = Legs(loc[q]) /\ pc'[q] = pc[q] /\ req'[q] = req[q]
    BY DEF Finish, Goto, CallersOK
<1> QED
    BY <1>1, <1>2, LegsQuiet

LEMMA ContinueLegs ==
    ASSUME CallersOK, LegsInOrder, NEW p \in Procs, NEW label, NEW l,
           Continue(p, label, l), Legs(l) = Legs(loc[p]),
           \/ label = "rank"
           \/ pc[p] \in {"embed", "wait", "locked"}
           \/ pc[p] = "locked2" /\ req[p].op # "search"
    PROVE  LegsInOrder'
<1>1. Legs(loc'[p]) = Legs(loc[p]) /\ req'[p] = req[p] /\ pc'[p] = label
    BY DEF Continue, Goto, CallersOK
<1>2. \/ pc'[p] = "rank"
      \/ loc[p].fts = {} /\ loc[p].near = {} /\ loc[p].pool = {}
    BY <1>1 DEF LegsInOrder
<1>3. \A q \in Procs \ {p} :
        Legs(loc'[q]) = Legs(loc[q]) /\ pc'[q] = pc[q] /\ req'[q] = req[q]
    BY DEF Continue, Goto, CallersOK
<1> QED
    BY <1>1, <1>2, <1>3, LegsQuiet

LEMMA SearchLegsLegs ==
    ASSUME CallersOK, LegsInOrder, NEW p \in Procs, SearchLegs(p) \/ SearchList(p)
    PROVE  LegsInOrder'
<1>1. req[p].op = "search" /\ loc[p] \in LocalsType
    BY DEF SearchLegs, SearchList, At, CallersOK
<1>2. PICK label, l :
        /\ label \in {"wait2", "rank"}
        /\ Continue(p, label, l)
        /\ RM!OncePerId(l.fts) /\ RM!OncePerId(l.near) /\ RM!OncePerId(l.pool)
        /\ l.pool # {} => label = "rank"
    <2>1. CASE SearchLegs(p)
        <3>1. PICK f, n : Continue(p, AfterLegs(p),
                [loc[p] EXCEPT !.fts = Refetch(f), !.near = Refetch(n)])
            BY <2>1 DEF SearchLegs
        <3> DEFINE l == [loc[p] EXCEPT !.fts = Refetch(f), !.near = Refetch(n)]
        <3>2. l.fts = Refetch(f) /\ l.near = Refetch(n) /\ l.pool = {}
            BY <1>1, <2>1 DEF LocalsType, LegsInOrder, SearchLegs, At
        <3>3. AfterLegs(p) \in {"wait2", "rank"}
            BY DEF AfterLegs
        <3>4. RM!OncePerId(l.fts) /\ RM!OncePerId(l.near) /\ RM!OncePerId(l.pool)
            BY <3>2, RefetchReads, NoLegs
        <3> HIDE DEF l
        <3>5. l.pool = {}
            BY <3>2
        <3>6. Continue(p, AfterLegs(p), l)
            BY <3>1 DEF l
        <3> QED
            BY <3>3, <3>4, <3>5, <3>6
    <2>2. CASE SearchList(p)
        <3>1. PICK e : Continue(p, "rank",
                [loc[p] EXCEPT !.pool = Selected(Refetch(e), req[p].want)])
            BY <2>2 DEF SearchList
        <3> DEFINE l == [loc[p] EXCEPT !.pool = Selected(Refetch(e), req[p].want)]
        <3>2. /\ l.fts = loc[p].fts /\ l.near = loc[p].near
              /\ l.pool = Selected(Refetch(e), req[p].want)
            BY <1>1 DEF LocalsType
        <3>3. RM!OncePerId(Selected(Refetch(e), req[p].want))
            BY RefetchReads DEF Selected, RM!OncePerId
        <3>4. RM!OncePerId(l.fts) /\ RM!OncePerId(l.near) /\ RM!OncePerId(l.pool)
            BY <3>2, <3>3 DEF LegsInOrder
        <3> HIDE DEF l
        <3>5. Continue(p, "rank", l)
            BY <3>1 DEF l
        <3> QED
            BY <3>4, <3>5
    <2> QED
        BY <2>1, <2>2
<1>3. loc'[p] = l /\ pc'[p] = label /\ req'[p] = req[p]
    BY <1>2 DEF Continue, Goto, CallersOK
<1>4. \A q \in Procs \ {p} : loc'[q] = loc[q] /\ pc'[q] = pc[q] /\ req'[q] = req[q]
    BY <1>2 DEF Continue, Goto, CallersOK
<1> SUFFICES ASSUME NEW q \in Procs
             PROVE  /\ loc'[q].fts \cup loc'[q].near # {} =>
                         pc'[q] \in {"wait2", "locked2", "rank"} /\ req'[q].op = "search"
                    /\ loc'[q].pool # {} => pc'[q] = "rank"
                    /\ RM!OncePerId(loc'[q].fts)
                    /\ RM!OncePerId(loc'[q].near)
                    /\ RM!OncePerId(loc'[q].pool)
    BY DEF LegsInOrder, RM!OncePerId
<1>5. CASE q = p
    BY <1>1, <1>2, <1>3, <1>5
<1>6. CASE q # p
    BY <1>4, <1>6 DEF LegsInOrder
<1> QED
    BY <1>5, <1>6

LEMMA LegsPreserved ==
    ASSUME CallersOK, LegsInOrder, [Next]_vars
    PROVE  LegsInOrder'
<1>1. CASE Cancel \/ Tick \/ UNCHANGED vars
    <2>1. UNCHANGED <<pc, req, loc>>
        BY <1>1 DEF Cancel, Tick, vars
    <2> QED
        BY <2>1 DEF LegsInOrder, RM!OncePerId
<1>2. ASSUME NEW p \in Procs, Call(p) \/ Return(p) \/ Lock(p)
      PROVE  LegsInOrder'
    <2>0. loc[p] \in LocalsType
        BY DEF CallersOK
    <2>1. \/ pc[p] \in {"idle", "done", "wait"}
          \/ pc[p] = "wait2" /\ pc'[p] = "locked2" /\ UNCHANGED req
        BY <1>2 DEF Call, Return, Lock, Goto, CallersOK
    <2>2. Legs(loc'[p]) = Legs(loc[p])
        <3>1. loc' = loc \/ \E t : loc' = [loc EXCEPT ![p].at = t]
            BY <1>2 DEF Call, Return, Lock
        <3> QED
            BY <2>0, <3>1 DEF CallersOK, Legs, LocalsType
    <2>3. \A q \in Procs \ {p} :
            Legs(loc'[q]) = Legs(loc[q]) /\ pc'[q] = pc[q] /\ req'[q] = req[q]
        BY <1>2 DEF Call, Return, Lock, Goto, CallersOK, Legs
    <2>4. CASE pc[p] \in {"idle", "done", "wait"}
        <3>1. loc[p].fts = {} /\ loc[p].near = {} /\ loc[p].pool = {}
            BY <2>4 DEF LegsInOrder
        <3> QED
            BY <2>2, <2>3, <3>1, LegsQuiet DEF Legs
    <2>5. CASE pc[p] = "wait2" /\ pc'[p] = "locked2" /\ UNCHANGED req
        BY <2>2, <2>3, <2>5, LegsQuiet
    <2> QED
        BY <2>1, <2>4, <2>5
<1>3. ASSUME NEW p \in Procs,
             \/ EngineError(p) \/ AddWrite(p) \/ GetWork(p) \/ ForgetWork(p) \/ ListWork(p)
             \/ OptimizeWork(p) \/ SearchRank(p) \/ StatusProbe(p) \/ StatusCancelled(p)
      PROVE  LegsInOrder'
    BY <1>3, FinishLegs
    DEF EngineError, AddWrite, GetWork, ForgetWork, ListWork, OptimizeWork, SearchRank,
        StatusProbe, StatusCancelled
<1>4. ASSUME NEW p \in Procs, AddEmbed(p) \/ SearchEmbed(p)
      PROVE  LegsInOrder'
    <2>1. pc[p] = "embed"
        BY <1>4 DEF AddEmbed, SearchEmbed, At
    <2>2. \A v : Legs([loc[p] EXCEPT !.vec = v]) = Legs(loc[p])
        BY DEF CallersOK, LocalsType, Legs
    <2> QED
        BY <1>4, <2>1, <2>2, FinishLegs, ContinueLegs DEF AddEmbed, SearchEmbed
<1>5. ASSUME NEW p \in Procs, SearchListFails(p) \/ StatusCount(p) \/ StatusPending(p)
      PROVE  LegsInOrder'
    BY <1>5, ContinueLegs DEF SearchListFails, StatusCount, StatusPending, At
<1>6. ASSUME NEW p \in Procs,
             BackfillSnapshot(p) \/ BackfillEmbed(p) \/ BackfillFill(p) \/ BackfillSkip(p)
      PROVE  LegsInOrder'
    <2>1. pc[p] \in {"locked", "embed", "locked2"} /\ req[p].op = "backfill"
        BY <1>6 DEF BackfillSnapshot, BackfillEmbed, BackfillFill, BackfillSkip, At
    <2>2. /\ \A T : Legs([loc[p] EXCEPT !.todo = T]) = Legs(loc[p])
          /\ \A item : Legs([loc[p] EXCEPT !.todo = @ \ {item}]) = Legs(loc[p])
          /\ \A item : Legs([loc[p] EXCEPT !.cur = item]) = Legs(loc[p])
          /\ Legs([loc[p] EXCEPT !.todo = @ \ {loc[p].cur}, !.cur = NoItem]) = Legs(loc[p])
        BY DEF CallersOK, LocalsType, Legs
    <2> QED
        BY <1>6, <2>1, <2>2, FinishLegs, ContinueLegs
        DEF BackfillSnapshot, BackfillEmbed, BackfillFill, BackfillSkip, NextItem
<1> QED
    BY <1>1, <1>2, <1>3, <1>4, <1>5, <1>6, SearchLegsLegs DEF Next, Section, Embedding

----------------------------------------------------------------------------
(* Enumerations *)

(* Whoever has no answer yet has no trace of an earlier one. *)
NoEarlyReply == \A p \in Procs : pc[p] # "done" => reply[p] = NoReply

(* However many calls there were, the collection is finite: each call adds  *)
(* one document at most.                                                    *)
Countable == IsFiniteSet(Live)

LEMMA RepliesPreserved ==
    ASSUME CallersOK, NoEarlyReply, [Next]_vars
    PROVE  NoEarlyReply'
<1> USE DEF CallersOK, NoEarlyReply
<1>1. CASE Cancel \/ Tick \/ UNCHANGED vars
    BY <1>1 DEF Cancel, Tick, vars
<1>2. ASSUME NEW p \in Procs, Call(p) \/ Return(p) \/ Lock(p)
      PROVE  NoEarlyReply'
    BY <1>2 DEF Call, Return, Lock, Goto
<1>3. ASSUME NEW p \in Procs, NEW st, NEW hits, Finish(p, st, hits)
      PROVE  NoEarlyReply'
    BY <1>3 DEF Finish, Goto
<1>4. ASSUME NEW p \in Procs, NEW label, NEW l, Continue(p, label, l), pc[p] # "done"
      PROVE  NoEarlyReply'
    BY <1>4 DEF Continue, Goto
<1>5. ASSUME NEW p \in Procs,
             \/ EngineError(p) \/ AddWrite(p) \/ GetWork(p) \/ ForgetWork(p) \/ ListWork(p)
             \/ OptimizeWork(p) \/ SearchRank(p) \/ StatusProbe(p) \/ StatusCancelled(p)
      PROVE  NoEarlyReply'
    BY <1>3, <1>5
    DEF EngineError, AddWrite, GetWork, ForgetWork, ListWork, OptimizeWork, SearchRank,
        StatusProbe, StatusCancelled
<1>6. ASSUME NEW p \in Procs,
             \/ AddEmbed(p) \/ SearchEmbed(p) \/ SearchLegs(p) \/ SearchList(p)
             \/ SearchListFails(p) \/ StatusCount(p) \/ StatusPending(p)
      PROVE  NoEarlyReply'
    BY <1>3, <1>4, <1>6
    DEF AddEmbed, SearchEmbed, SearchLegs, SearchList, SearchListFails, StatusCount,
        StatusPending, At
<1>7. ASSUME NEW p \in Procs,
             BackfillSnapshot(p) \/ BackfillEmbed(p) \/ BackfillFill(p) \/ BackfillSkip(p)
      PROVE  NoEarlyReply'
    BY <1>3, <1>4, <1>7
    DEF BackfillSnapshot, BackfillEmbed, BackfillFill, BackfillSkip, NextItem, At
<1> QED
    BY <1>1, <1>2, <1>5, <1>6, <1>7 DEF Next, Section, Embedding

LEMMA CountablePreserved ==
    ASSUME StoreOK, CallersOK, Countable, [Next]_vars
    PROVE  Countable'
<1>1. SUFFICES \E i : Live' \subseteq Live \cup {i}
    BY FS_AddElement, FS_Subset DEF Countable
<1>2. CASE Cancel \/ Tick \/ UNCHANGED vars
    BY <1>2 DEF Cancel, Tick, vars, store, Live
<1>3. ASSUME NEW p \in Procs, AddWrite(p)
      PROVE  \E i : Live' \subseteq Live \cup {i}
    BY <1>3 DEF AddWrite, Upsert, Live, StoreOK
<1>4. ASSUME NEW p \in Procs, ForgetWork(p)
      PROVE  \E i : Live' \subseteq Live \cup {i}
    BY <1>4 DEF ForgetWork, Live, StoreOK, store
<1>5. ASSUME NEW p \in Procs, BackfillFill(p)
      PROVE  \E i : Live' \subseteq Live \cup {i}
    BY <1>5 DEF BackfillFill, Fill, Upsert, Live, StoreOK
<1>6. ASSUME NEW p \in Procs, OptimizeWork(p) \/ BackfillSnapshot(p)
      PROVE  Live' = Live
    BY <1>6 DEF OptimizeWork, BackfillSnapshot, Live, store
<1>7. ASSUME UNCHANGED store
      PROVE  Live' = Live
    BY <1>7 DEF store, Live
<1> QED
    BY <1>2, <1>3, <1>4, <1>5, <1>6, <1>7, QuietActions DEF Next, Section, Embedding

(* The records of the collection are as many as its documents. *)
LEMMA PresentCount ==
    ASSUME StoreOK, Countable
    PROVE  /\ Present(Texts) = {Record(i) : i \in Live}
           /\ IsFiniteSet(Present(Texts))
           /\ Cardinality(Present(Texts)) = Cardinality(Live)
<1>1. Present(Texts) = {Record(i) : i \in Live}
    BY DEF StoreOK, Docs, Live, Present
<1> DEFINE f == [i \in Live |-> Record(i)]
<1>2. f \in Bijection(Live, Present(Texts))
    BY <1>1 DEF Record, Bijection, Injection, Surjection, IsInjective
<1>3. ExistsBijection(Live, Present(Texts))
    BY <1>2 DEF ExistsBijection
<1> QED
    BY <1>1, <1>3, FS_Bijection DEF Countable

(* Up to MaxTopK documents are asked for to the last. *)
LEMMA TopKIsAll ==
    ASSUME Countable, Live # {}, Cardinality(Live) <= MaxTopK
    PROVE  TopK = Cardinality(Live)
<1> DEFINE n == Cardinality(Live)
<1>1. n \in Nat \ {0} /\ MaxTopK \in Nat
    BY FS_CardinalityType, FS_EmptySet, BoundsNat DEF Countable
<1> HIDE DEF n
<1>2. Min({n, MaxTopK}) = n
    BY <1>1 DEF Min, n
<1>3. Max({1, n}) = n
    BY <1>1 DEF Max
<1> QED
    BY <1>2, <1>3 DEF TopK, n

(* Without left-overs the hits are then the records, each of them. *)
LEMMA EnumerationsAreWhole ==
    ASSUME StoreOK, Countable, stale = {}, Cardinality(Live) <= MaxTopK,
           NEW entries \in Enumerations
    PROVE  entries = Present(Texts)
<1>1. Index(Texts) = Present(Texts)
    BY DEF Index
<1>2. CASE Live = {}
    BY <1>2, PresentCount DEF Enumerations
<1>3. CASE Live # {}
    <2> DEFINE n == Cardinality(Live)
    <2>1. n \in Nat
        BY FS_CardinalityType DEF Countable
    <2>2. entries \in kSubset(Min({n, n}), Present(Texts))
        BY <1>1, <1>3, TopKIsAll, PresentCount DEF Enumerations
    <2>3. Min({n, n}) = n
        BY <2>1 DEF Min
    <2>4. entries \in SUBSET Present(Texts) /\ Cardinality(entries) = n
        BY <2>2, <2>3 DEF kSubset
    <2> QED
        BY <2>4, PresentCount, FS_Subset
<1> QED
    BY <1>2, <1>3

LEMMA WholeEnumeration ==
    ASSUME StoreOK, Countable, stale = {}, Cardinality(Live) <= MaxTopK,
           NEW entries \in Enumerations
    PROVE  /\ Refetch(entries) = Present(Texts)
           /\ {e[1] : e \in entries} \cap Pending = Pending
<1>1. entries = {Record(i) : i \in Live}
    BY EnumerationsAreWhole, PresentCount
<1>2. {e[1] : e \in entries} = Live
    <2>1. \A i : Record(i)[1] = i
        BY DEF Record
    <2> QED
        BY <1>1, <2>1
<1>3. Pending \subseteq Live
    BY DEF Pending
<1> QED
    BY <1>2, <1>3, PresentCount DEF Refetch

Completes(p) ==
    /\ req[p].op = "list" /\ reply'[p].st = "ok" => reply'[p].hits = Present(Texts)
    /\ req[p].op = "backfill" /\ pc'[p] = "embed" => loc'[p].todo = {Record(i) : i \in Pending}

LEMMA EnumerationStep ==
    ASSUME StoreOK, CallersOK, NoEarlyReply, Countable, [Next]_vars, NEW p \in Procs,
           pc[p] = "locked", stale = {}, Cardinality(Live) <= MaxTopK
    PROVE  Completes(p)
<1>1. reply[p] = NoReply
    BY DEF NoEarlyReply
<1>2. CASE pc'[p] = "locked" /\ reply'[p] = reply[p]
    BY <1>1, <1>2 DEF Completes, NoReply
<1>3. CASE Cancel \/ Tick \/ UNCHANGED vars
    BY <1>2, <1>3 DEF Cancel, Tick, vars
<1>4. ASSUME NEW q \in Procs \ {p},
             Call(q) \/ Return(q) \/ Lock(q) \/ Section(q) \/ Embedding(q)
                 \/ StatusCancelled(q)
      PROVE  pc'[p] = "locked" /\ reply'[p] = reply[p]
    BY <1>4
    DEF CallersOK, Call, Return, Lock, Section, Embedding, Goto, Finish, Continue,
        AddWrite, GetWork, ForgetWork, ListWork, OptimizeWork, SearchLegs, SearchList,
        StatusCount, StatusPending, BackfillSnapshot, BackfillFill, BackfillSkip, NextItem,
        EngineError, SearchListFails, AddEmbed, SearchEmbed, SearchRank, StatusProbe,
        BackfillEmbed, StatusCancelled
<1>5. CASE ListWork(p)
    <2>1. PICK entries \in Enumerations : Finish(p, "ok", Refetch(entries))
        BY <1>5 DEF ListWork
    <2>2. reply'[p].hits = Present(Texts) /\ req[p].op = "list"
        BY <1>5, <2>1, WholeEnumeration DEF ListWork, At, Finish, CallersOK
    <2> QED
        BY <2>2 DEF Completes
<1>6. CASE BackfillSnapshot(p)
    <2>1. PICK entries \in Enumerations :
            Continue(p, "embed",
                [loc[p] EXCEPT !.todo =
                    {Record(i) : i \in {e[1] : e \in entries} \cap Pending}])
        BY <1>6 DEF BackfillSnapshot
    <2>2. loc'[p].todo = {Record(i) : i \in Pending} /\ req[p].op = "backfill"
        BY <1>6, <2>1, WholeEnumeration
           DEF BackfillSnapshot, At, Continue, CallersOK, LocalsType
    <2> QED
        BY <2>2 DEF Completes
<1>7. CASE EngineError(p)
    BY <1>7 DEF EngineError, Finish, Goto, CallersOK, Completes
<1>8. CASE \/ AddWrite(p) \/ GetWork(p) \/ ForgetWork(p) \/ OptimizeWork(p) \/ SearchLegs(p)
           \/ StatusCount(p)
    BY <1>8 DEF AddWrite, GetWork, ForgetWork, OptimizeWork, SearchLegs, StatusCount, At,
                Completes
<1>9. ~ (Call(p) \/ Return(p) \/ Lock(p) \/ Embedding(p) \/ StatusCancelled(p)
           \/ SearchList(p) \/ StatusPending(p) \/ BackfillFill(p) \/ BackfillSkip(p)
           \/ SearchListFails(p))
    BY DEF Call, Return, Lock, Embedding, StatusCancelled, SearchList, StatusPending,
           BackfillFill, BackfillSkip, SearchListFails, AddEmbed, SearchEmbed, SearchRank,
           StatusProbe, BackfillEmbed, At
<1> QED
    BY <1>2, <1>3, <1>4, <1>5, <1>6, <1>7, <1>8, <1>9 DEF Next, Section

LEMMA Counts == Spec => [](StoreOK /\ CallersOK /\ NoEarlyReply /\ Countable)
<1>1. Init => StoreOK /\ CallersOK /\ NoEarlyReply /\ Countable
    <2>1. Init => Live = {} /\ NoEarlyReply
        BY DEF Init, Live, NoEarlyReply
    <2> QED
        BY <2>1, TypesHoldInitially, FS_EmptySet DEF Countable
<1>2. StoreOK /\ CallersOK /\ NoEarlyReply /\ Countable /\ [Next]_vars
        => (StoreOK /\ CallersOK /\ NoEarlyReply /\ Countable)'
    BY TypesPreserved, RepliesPreserved, CountablePreserved
<1> QED
    BY <1>1, <1>2, PTL DEF Spec

(* List answers with every record, and Backfill takes up every document     *)
(* without a vector, for any number of documents up to MaxTopK, as long as  *)
(* the index has nothing left over: asking for DocCount hits is asking for  *)
(* all of them (store.go:450-456, 577-583).                                 *)
THEOREM EnumerationsComplete == Spec => EnumerationComplete
<1>1. StoreOK /\ CallersOK /\ NoEarlyReply /\ Countable /\ [Next]_vars
        => [\A p \in Procs :
              pc[p] = "locked" /\ stale = {} /\ Cardinality(Live) <= MaxTopK =>
                /\ req[p].op = "list" /\ reply'[p].st = "ok" => reply'[p].hits = Present(Texts)
                /\ req[p].op = "backfill" /\ pc'[p] = "embed" =>
                     loc'[p].todo = {Record(i) : i \in Pending}]_vars
    BY EnumerationStep DEF Completes
<1> QED
    BY <1>1, Counts, PTL DEF Spec, EnumerationComplete

----------------------------------------------------------------------------
(* A Backfill alone *)

Underway(p, ops) == pc[p] \notin {"idle", "done"} /\ req[p].op \in ops

(* While a Backfill is under way, no Add is, and no other Backfill.  The    *)
(* code does not see to that: whoever runs `memoryd reindex` may.           *)
BackfillAlone ==
    \A p, q \in Procs :
        Underway(p, {"backfill"}) /\ Underway(q, {"add", "backfill"}) => p = q

(* Only a Backfill under way has items, one of each id at most, and their   *)
(* documents have no vector yet or are gone.                                *)
ItemsHeld == \A p \in Procs : loc[p].todo # {} => Underway(p, {"backfill"})

ItemsPending ==
    \A p \in Procs :
        /\ RM!OncePerId(loc[p].todo)
        /\ \A item \in loc[p].todo : docs[item[1]] = NoDoc \/ docs[item[1]].vec = NoVec

AloneInv == ItemsHeld /\ ItemsPending /\ raced = {}

LEMMA ItemsHeldPreserved ==
    ASSUME CallersOK, ItemsHeld, [Next]_vars
    PROVE  ItemsHeld'
<1> USE DEF CallersOK, ItemsHeld, Underway
<1>1. CASE Cancel \/ Tick \/ UNCHANGED vars
    BY <1>1 DEF Cancel, Tick, vars
<1>2. ASSUME NEW p \in Procs, Call(p) \/ Return(p) \/ Lock(p)
      PROVE  ItemsHeld'
    <2>1. loc' = loc \/ \E t : loc' = [loc EXCEPT ![p].at = t]
        BY <1>2 DEF Call, Return, Lock
    <2>2. \A q \in Procs : loc'[q].todo = loc[q].todo
        BY <2>1 DEF LocalsType
    <2>3. CASE Call(p) \/ Return(p)
        BY <2>2, <2>3 DEF Call, Return, Goto
    <2>4. CASE Lock(p)
        BY <2>2, <2>4 DEF Lock, Goto
    <2> QED
        BY <1>2, <2>3, <2>4
<1>3. ASSUME NEW p \in Procs, NEW st, NEW hits, Finish(p, st, hits)
      PROVE  ItemsHeld'
    BY <1>3 DEF Finish, Goto, NoLocals
<1>4. ASSUME NEW p \in Procs, NEW label, NEW l, Continue(p, label, l),
             label \notin {"idle", "done"},
             l.todo # {} => loc[p].todo # {} \/ Underway(p, {"backfill"})
      PROVE  ItemsHeld'
    BY <1>4 DEF Continue, Goto
<1>5. ASSUME NEW p \in Procs,
             \/ EngineError(p) \/ AddWrite(p) \/ GetWork(p) \/ ForgetWork(p) \/ ListWork(p)
             \/ OptimizeWork(p) \/ SearchRank(p) \/ StatusProbe(p) \/ StatusCancelled(p)
      PROVE  ItemsHeld'
    BY <1>3, <1>5
    DEF EngineError, AddWrite, GetWork, ForgetWork, ListWork, OptimizeWork, SearchRank,
        StatusProbe, StatusCancelled
<1>6. ASSUME NEW p \in Procs
      PROVE  /\ \A v : [loc[p] EXCEPT !.vec = v].todo = loc[p].todo
             /\ \A f, n : [loc[p] EXCEPT !.fts = f, !.near = n].todo = loc[p].todo
             /\ \A w : [loc[p] EXCEPT !.pool = w].todo = loc[p].todo
    BY DEF LocalsType
<1>7. ASSUME NEW p \in Procs, NEW label, NEW l, Continue(p, label, l),
             label \notin {"idle", "done"}, l.todo = loc[p].todo
      PROVE  ItemsHeld'
    BY <1>4, <1>7
<1>8. ASSUME NEW p \in Procs, AddEmbed(p) \/ SearchEmbed(p) \/ SearchLegs(p) \/ SearchList(p)
      PROVE  ItemsHeld'
    <2>1. CASE AddEmbed(p) \/ SearchEmbed(p)
        <3>1. CASE Finish(p, "err", {})
            BY <1>3, <3>1
        <3>2. CASE ~Finish(p, "err", {})
            <4>1. PICK v : Continue(p, "wait", [loc[p] EXCEPT !.vec = v])
                BY <2>1, <3>2 DEF AddEmbed, SearchEmbed
            <4> DEFINE l == [loc[p] EXCEPT !.vec = v]
            <4>2. Continue(p, "wait", l) /\ l.todo = loc[p].todo
                BY <1>6, <4>1
            <4> HIDE DEF l
            <4> QED
                BY <1>7, <4>2
        <3> QED
            BY <3>1, <3>2
    <2>2. CASE SearchLegs(p)
        <3>1. PICK f, n : Continue(p, AfterLegs(p), [loc[p] EXCEPT !.fts = f, !.near = n])
            BY <2>2 DEF SearchLegs
        <3> DEFINE l == [loc[p] EXCEPT !.fts = f, !.near = n]
        <3>2. Continue(p, AfterLegs(p), l) /\ l.todo = loc[p].todo
            BY <1>6, <3>1
        <3>3. AfterLegs(p) \notin {"idle", "done"}
            BY DEF AfterLegs
        <3> HIDE DEF l
        <3> QED
            BY <1>7, <3>2, <3>3
    <2>3. CASE SearchList(p)
        <3>1. PICK w : Continue(p, "rank", [loc[p] EXCEPT !.pool = w])
            BY <2>3 DEF SearchList
        <3> DEFINE l == [loc[p] EXCEPT !.pool = w]
        <3>2. Continue(p, "rank", l) /\ l.todo = loc[p].todo
            BY <1>6, <3>1
        <3> HIDE DEF l
        <3> QED
            BY <1>7, <3>2
    <2> QED
        BY <1>8, <2>1, <2>2, <2>3
<1>9. ASSUME NEW p \in Procs, SearchListFails(p) \/ StatusCount(p) \/ StatusPending(p)
      PROVE  ItemsHeld'
    BY <1>4, <1>9 DEF SearchListFails, StatusCount, StatusPending
<1>10. ASSUME NEW p \in Procs,
              BackfillSnapshot(p) \/ BackfillEmbed(p) \/ BackfillFill(p) \/ BackfillSkip(p)
       PROVE  ItemsHeld'
    <2>1. Underway(p, {"backfill"})
        BY <1>10 DEF BackfillSnapshot, BackfillEmbed, BackfillFill, BackfillSkip, At
    <2>2. (\E l : Continue(p, "embed", l) \/ Continue(p, "wait2", l)) \/ Finish(p, "ok", {})
        BY <1>10 DEF BackfillSnapshot, BackfillEmbed, BackfillFill, BackfillSkip, NextItem
    <2> QED
        BY <1>3, <1>4, <2>1, <2>2
<1> QED
    BY <1>1, <1>2, <1>5, <1>8, <1>9, <1>10 DEF Next, Section, Embedding

LEMMA AlonePreserved ==
    ASSUME StoreOK, CallersOK, AloneInv, BackfillAlone, [Next]_vars
    PROVE  AloneInv'
<1>0. ItemsHeld'
    BY ItemsHeldPreserved DEF AloneInv
<1>1. SUFFICES ItemsPending' /\ raced' = {}
    BY <1>0 DEF AloneInv
(* Nothing is picked up, and documents stay what they are or go. *)
<1>2. ASSUME NoNewItems, raced' = raced,
             \A i \in Ids : docs'[i] = docs[i] \/ docs'[i] = NoDoc
      PROVE  ItemsPending' /\ raced' = {}
    BY <1>2 DEF AloneInv, ItemsPending, RM!OncePerId, NoNewItems, CallersOK, LocalsType, Items
<1>3. CASE Cancel \/ Tick \/ UNCHANGED vars
    BY <1>2, <1>3 DEF Cancel, Tick, vars, store, NoNewItems
<1>4. ASSUME NEW p \in Procs, AddWrite(p)
      PROVE  ItemsPending' /\ raced' = {}
    <2>1. Underway(p, {"add"}) /\ req[p].op = "add"
        BY <1>4 DEF AddWrite, At, Underway
    <2>2. \A q \in Procs : loc[q].todo = {}
        BY <2>1 DEF AloneInv, ItemsHeld, BackfillAlone, Underway
    <2>3. NoNewItems
        BY <1>4, FinishDropsItems DEF AddWrite
    <2>4. \A q \in Procs : loc'[q].todo = {}
        BY <2>2, <2>3 DEF NoNewItems
    <2>5. raced' = {}
        BY <1>4, <2>2 DEF AddWrite, HeldElsewhere, AloneInv
    <2> QED
        BY <2>4, <2>5 DEF ItemsPending, RM!OncePerId
<1>5. ASSUME NEW p \in Procs, ForgetWork(p)
      PROVE  ItemsPending' /\ raced' = {}
    <2>1. NoNewItems
        BY <1>5, FinishDropsItems DEF ForgetWork
    <2>2. raced' = raced /\ \A i \in Ids : docs'[i] = docs[i] \/ docs'[i] = NoDoc
        BY <1>5 DEF ForgetWork, store, StoreOK
    <2> QED
        BY <1>2, <2>1, <2>2
<1>6. ASSUME NEW p \in Procs, OptimizeWork(p)
      PROVE  ItemsPending' /\ raced' = {}
    <2>1. NoNewItems
        BY <1>6, FinishDropsItems DEF OptimizeWork
    <2> QED
        BY <1>2, <1>6, <2>1 DEF OptimizeWork
<1>7. ASSUME NEW p \in Procs, BackfillSnapshot(p)
      PROVE  ItemsPending' /\ raced' = {}
    <2>1. PICK ids \in SUBSET Pending :
            Continue(p, "embed", [loc[p] EXCEPT !.todo = {Record(i) : i \in ids}])
        BY <1>7 DEF BackfillSnapshot
    <2>2. /\ loc'[p].todo = {Record(i) : i \in ids}
          /\ \A q \in Procs \ {p} : loc'[q].todo = loc[q].todo
        BY <2>1 DEF Continue, CallersOK, LocalsType
    <2>3. docs' = docs /\ raced' = raced
        BY <1>7 DEF BackfillSnapshot, store
    <2>4. ASSUME NEW item \in loc'[p].todo
          PROVE  docs[item[1]].vec = NoVec /\ item = Record(item[1])
        BY <2>2, <2>4 DEF Record, Pending
    <2>5. RM!OncePerId(loc'[p].todo)
        BY <2>4 DEF RM!OncePerId
    <2> QED
        BY <2>2, <2>3, <2>4, <2>5 DEF AloneInv, ItemsPending, RM!OncePerId
<1>8. ASSUME NEW p \in Procs, BackfillFill(p)
      PROVE  ItemsPending' /\ raced' = {}
    <2> DEFINE item == loc[p].cur
    <2>1. item \in loc[p].todo /\ loc[p] \in LocalsType
        BY <1>8 DEF BackfillFill, At, CallersOK, FillIsAtAnItem
    <2>2. item[1] \in Ids
        BY <2>1 DEF LocalsType, Items
    <2>3. /\ loc'[p].todo = loc[p].todo \ {item}
          /\ \A q \in Procs \ {p} : loc'[q].todo = loc[q].todo
        BY <1>8, <2>1 DEF BackfillFill, NextItem, Continue, CallersOK, LocalsType
    <2>4. \A q \in Procs \ {p} : loc[q].todo = {}
        BY <2>1 DEF AloneInv, ItemsHeld, BackfillAlone, Underway
    <2>5. \A j \in Ids : j # item[1] => docs'[j] = docs[j]
        BY <1>8 DEF BackfillFill, Fill, Upsert, StoreOK
    <2>6. \A other \in loc'[p].todo : other \in loc[p].todo /\ other[1] # item[1] /\ other[1] \in Ids
        BY <2>1, <2>3 DEF AloneInv, ItemsPending, RM!OncePerId, LocalsType, Items
    <2>7. raced' = raced
        BY <1>8 DEF BackfillFill
    <2>8. RM!OncePerId(loc'[p].todo)
        BY <2>6 DEF AloneInv, ItemsPending, RM!OncePerId
    <2>9. \A other \in loc'[p].todo : docs'[other[1]] = NoDoc \/ docs'[other[1]].vec = NoVec
        BY <2>5, <2>6 DEF AloneInv, ItemsPending
    <2> QED
        BY <2>3, <2>4, <2>7, <2>8, <2>9 DEF AloneInv, ItemsPending, RM!OncePerId
<1>9. ASSUME UNCHANGED store, NoNewItems
      PROVE  ItemsPending' /\ raced' = {}
    BY <1>2, <1>9 DEF store
<1> QED
    BY <1>3, <1>4, <1>5, <1>6, <1>7, <1>8, <1>9, QuietActions DEF Next, Section, Embedding

LEMMA AloneAlways == Spec /\ []BackfillAlone => [](StoreOK /\ CallersOK /\ AloneInv)
<1>1. Init => StoreOK /\ CallersOK /\ AloneInv
    BY TypesHoldInitially
    DEF Init, AloneInv, ItemsHeld, ItemsPending, NoLocals, RM!OncePerId
<1>2. StoreOK /\ CallersOK /\ AloneInv /\ BackfillAlone /\ [Next]_vars
        => (StoreOK /\ CallersOK /\ AloneInv)'
    BY TypesPreserved, AlonePreserved
<1> QED
    BY <1>1, <1>2, PTL DEF Spec

(* While a caller has the mutex, documents change by its own step only. *)
LEMMA WritesAreOwn ==
    ASSUME CallersOK, [Next]_vars, NEW p \in Procs, At(p, "locked2", "backfill")
    PROVE  docs' = docs \/ BackfillFill(p)
<1>1. CASE Cancel \/ Tick \/ UNCHANGED vars
    BY <1>1 DEF Cancel, Tick, vars, store
<1>2. ASSUME NEW q \in Procs, q # p
      PROVE  pc[q] \notin {"locked", "locked2"}
    BY <1>2 DEF CallersOK, At
<1>3. ASSUME NEW q \in Procs, AddWrite(q) \/ ForgetWork(q)
      PROVE  FALSE
    BY <1>2, <1>3 DEF AddWrite, ForgetWork, At
<1>4. ASSUME NEW q \in Procs, BackfillFill(q)
      PROVE  q = p
    BY <1>2, <1>4 DEF BackfillFill, At
<1>5. ASSUME NEW q \in Procs, OptimizeWork(q) \/ BackfillSnapshot(q)
      PROVE  docs' = docs
    BY <1>5 DEF OptimizeWork, BackfillSnapshot, store
<1> QED
    BY <1>1, <1>3, <1>4, <1>5, QuietActions DEF Next, Section, Embedding, store

(* What docs/architecture.md says of reindex holds of a Backfill beside     *)
(* which no Add and no other Backfill is under way, whatever else is: it    *)
(* writes to documents without a vector only (store.go:620-668).            *)
THEOREM BackfillAloneFillsOnlyNull == Spec /\ []BackfillAlone => BackfillFillsOnlyNull
<1>1. ASSUME StoreOK, CallersOK, AloneInv, [Next]_vars, NEW p \in Procs, NEW i \in Ids,
             At(p, "locked2", "backfill"), docs'[i] # docs[i]
      PROVE  docs[i].vec = NoVec
    <2>1. BackfillFill(p)
        BY <1>1, WritesAreOwn
    <2>2. loc[p].cur \in loc[p].todo
        BY <1>1, <2>1 DEF CallersOK, FillIsAtAnItem, At
    <2>3. docs[loc[p].cur[1]] # NoDoc /\ i = loc[p].cur[1]
        BY <1>1, <2>1 DEF BackfillFill, Fill, Upsert, StoreOK
    <2> QED
        BY <1>1, <2>2, <2>3 DEF AloneInv, ItemsPending
<1>2. StoreOK /\ CallersOK /\ AloneInv /\ [Next]_vars
        => [\A p \in Procs, i \in Ids :
              At(p, "locked2", "backfill") /\ docs'[i] # docs[i] => docs[i].vec = NoVec]_vars
    BY <1>1
<1> QED
    BY <1>2, AloneAlways, PTL DEF Spec, BackfillFillsOnlyNull

(* And then every vector is the embedding of its document's own text.       *)
THEOREM VectorsOwnWithoutRace ==
    Spec /\ []BackfillAlone => [](\A i \in Live : docs[i].vec \in {NoVec, docs[i].text})
<1>1. AloneInv /\ StaleVectorOnlyAfterRace => \A i \in Live : docs[i].vec \in {NoVec, docs[i].text}
    BY DEF AloneInv, StaleVectorOnlyAfterRace
<1> QED
    BY <1>1, AloneAlways, VectorsTrustworthy, PTL

----------------------------------------------------------------------------
(* The store implements RecordMap *)

(* The refinement mapping, written out. *)
AbsRecs == [i \in Ids |-> IF docs[i] = NoDoc THEN NoDoc ELSE docs[i].text]
AbsPhase == [p \in Procs |-> IF pc[p] \in {"idle", "done"} THEN pc[p] ELSE "open"]
AbsSeen == [p \in Procs |-> loc[p].fts \cup loc[p].near \cup loc[p].pool]

LEMMA FinishMaps ==
    ASSUME CallersOK, NEW p \in Procs, NEW st, NEW hits, Finish(p, st, hits)
    PROVE  RM!Finish(p, st, hits)
<1>1. AbsPhase' = [AbsPhase EXCEPT ![p] = "done"]
    BY DEF AbsPhase, Finish, Goto, CallersOK
<1>2. AbsSeen' = [AbsSeen EXCEPT ![p] = {}]
    BY DEF AbsSeen, Finish, NoLocals, CallersOK
<1> QED
    BY <1>1, <1>2 DEF Finish, RM!Finish, AbsPhase, AbsSeen

LEMMA ContinueMaps ==
    ASSUME CallersOK, NEW p \in Procs, NEW label, NEW l, Continue(p, label, l),
           pc[p] \notin {"idle", "done"}, label \notin {"idle", "done"}
    PROVE  /\ AbsPhase' = AbsPhase
           /\ UNCHANGED <<req, reply>>
           /\ AbsSeen' = [AbsSeen EXCEPT ![p] = l.fts \cup l.near \cup l.pool]
BY DEF AbsPhase, AbsSeen, Continue, Goto, CallersOK

LEMMA OpenMaps ==
    ASSUME NEW p \in Procs, NEW label, label \notin {"idle", "done"},
           NEW op, NEW ops, op \in ops,
           At(p, label, op)
    PROVE  RM!Open(p, ops)
BY DEF At, RM!Open

LEMMA StoreMaps ==
    ASSUME UNCHANGED docs
    PROVE  AbsRecs' = AbsRecs
BY DEF AbsRecs

LEMMA PresentMaps ==
    ASSUME NEW want \in SUBSET Texts
    PROVE  RM!Present(want) = Present(want)
<1>1. {j \in Ids : (IF docs[j] = NoDoc THEN NoDoc ELSE docs[j].text) \in want}
        = {j \in Live : docs[j].text \in want}
    BY NoDocNotText DEF Live
<1>2. RM!Present(want) = {<<i, AbsRecs[i]>> : i \in {j \in Live : docs[j].text \in want}}
    BY <1>1 DEF RM!Present, AbsRecs, Live
<1>3. \A i \in Live : <<i, AbsRecs[i]>> = Record(i)
    BY DEF AbsRecs, Live, Record
<1> QED
    BY <1>2, <1>3 DEF Present

LEMMA AddMaps ==
    ASSUME StoreOK, CallersOK, NEW p \in Procs, AddWrite(p)
    PROVE  RM!Put(p)
<1>1. req[p].id \in Ids /\ req[p].text \in Texts
    BY BusyRequest DEF AddWrite, At
<1>2. RM!Open(p, {"add"})
    BY OpenMaps DEF AddWrite
<1>3. AbsRecs' = [AbsRecs EXCEPT ![req[p].id] = req[p].text]
    <2>1. docs' = [docs EXCEPT ![req[p].id] = Added(p)] /\ Added(p).text = req[p].text
        BY DEF AddWrite, Upsert, Added
    <2>2. Added(p) # NoDoc
        <3>1. Added(p) \in Docs
            <4>1. loc[p].vec \in Vectors /\ loc[p].at \in Nat
                BY <1>1 DEF AddWrite, At, CallersOK, AddHoldsOwnVector, Vectors, LocalsType
            <4> QED
                BY <1>1, <4>1 DEF Added, Docs
        <3> QED
            BY <3>1, NoDocFresh DEF Docs, Vectors
    <2> QED
        BY <1>1, <2>1, <2>2 DEF AbsRecs, StoreOK
<1>4. \E st \in {"ok", "err"} : RM!Finish(p, st, {})
    BY FinishMaps DEF AddWrite
<1> QED
    BY <1>2, <1>3, <1>4 DEF RM!Put, AbsRecs

LEMMA GetMaps ==
    ASSUME StoreOK, CallersOK, NEW p \in Procs, GetWork(p)
    PROVE  RM!Lookup(p)
<1>1. req[p].id \in Ids
    BY BusyRequest DEF GetWork, At
<1>2. RM!Open(p, {"get"})
    BY OpenMaps DEF GetWork
<1>3. AbsRecs' = AbsRecs
    BY StoreMaps DEF GetWork, store
<1>4. docs[req[p].id] # NoDoc => docs[req[p].id].text # NoDoc
    BY <1>1, NoDocNotText DEF StoreOK, Docs
<1>5. CASE docs[req[p].id] = NoDoc
    <2>1. RM!Finish(p, "notfound", {})
        BY <1>5, FinishMaps DEF GetWork
    <2> QED
        BY <1>1, <1>2, <1>3, <1>5, <2>1 DEF RM!Lookup, AbsRecs
<1>6. CASE docs[req[p].id] # NoDoc
    <2>1. PICK hits : hits = {Record(req[p].id)} /\ Finish(p, "ok", hits)
        BY <1>6 DEF GetWork, Finish
    <2>2. RM!Finish(p, "ok", hits)
        BY <2>1, FinishMaps
    <2>3. hits = {<<req[p].id, AbsRecs[req[p].id]>>} /\ AbsRecs[req[p].id] # NoDoc
        BY <1>1, <1>4, <1>6, <2>1 DEF AbsRecs, Record
    <2> QED
        BY <1>2, <1>3, <2>2, <2>3 DEF RM!Lookup, RM!Finish, AbsRecs
<1> QED
    BY <1>5, <1>6

LEMMA ForgetMaps ==
    ASSUME StoreOK, CallersOK, NEW p \in Procs, ForgetWork(p)
    PROVE  RM!Delete(p)
<1>1. req[p].id \in Ids
    BY BusyRequest DEF ForgetWork, At
<1>2. RM!Open(p, {"forget"})
    BY OpenMaps DEF ForgetWork
<1>3. docs[req[p].id] # NoDoc => docs[req[p].id].text # NoDoc
    BY <1>1, NoDocNotText DEF StoreOK, Docs
<1>4. CASE docs[req[p].id] = NoDoc
    <2>1. RM!Finish(p, "notfound", {}) /\ AbsRecs' = AbsRecs
        BY <1>4, FinishMaps, StoreMaps DEF ForgetWork, store
    <2> QED
        BY <1>1, <1>2, <1>4, <2>1 DEF RM!Delete, AbsRecs
<1>5. CASE docs[req[p].id] # NoDoc
    <2>1. \E st \in {"ok", "err"} : RM!Finish(p, st, {})
        BY <1>5, FinishMaps DEF ForgetWork
    <2>2. AbsRecs' = [AbsRecs EXCEPT ![req[p].id] = NoDoc]
        BY <1>1, <1>5 DEF ForgetWork, AbsRecs, StoreOK
    <2> QED
        BY <1>1, <1>2, <1>3, <1>5, <2>1, <2>2 DEF RM!Delete, AbsRecs
<1> QED
    BY <1>4, <1>5

LEMMA ListMaps ==
    ASSUME StoreOK, CallersOK, RaceInv, NEW p \in Procs, ListWork(p)
    PROVE  RM!Enumerate(p)
<1>0. PICK entries \in Enumerations : Finish(p, "ok", Refetch(entries))
    BY DEF ListWork
<1>6. PICK hits : hits = Refetch(entries)
    OBVIOUS
<1>1. Finish(p, "ok", hits)
    BY <1>0, <1>6 DEF Finish
<1>2. hits \subseteq RM!Present(Texts)
    BY <1>6, EnumerationsAreHits, RefetchKeepsFilter, PresentMaps DEF RaceInv
<1>3. RM!Open(p, {"list"})
    BY OpenMaps DEF ListWork
<1>4. AbsRecs' = AbsRecs
    BY StoreMaps DEF ListWork, store
<1>5. RM!Finish(p, "ok", hits)
    BY <1>1, FinishMaps
<1> QED
    BY <1>2, <1>3, <1>4, <1>5 DEF RM!Enumerate, AbsRecs

(* A step that continues without new results is invisible. *)
LEMMA QuietMaps ==
    ASSUME CallersOK, NEW p \in Procs, NEW label, NEW l, Continue(p, label, l),
           pc[p] \notin {"idle", "done"}, label \notin {"idle", "done"},
           Legs(l) = Legs(loc[p]), AbsRecs' = AbsRecs
    PROVE  UNCHANGED RM!vars
<1>1. AbsSeen' = [AbsSeen EXCEPT ![p] = AbsSeen[p]]
    BY ContinueMaps DEF Legs, AbsSeen
<1>2. AbsSeen' = AbsSeen
    BY <1>1 DEF AbsSeen
<1> QED
    BY <1>2, ContinueMaps DEF RM!vars, AbsRecs, AbsPhase, AbsSeen

LEMMA SearchMaps ==
    ASSUME StoreOK, CallersOK, RaceInv, LegsInOrder, NEW p \in Procs,
           SearchLegs(p) \/ SearchList(p)
    PROVE  RM!Look(p)
<1>1. /\ pc[p] \in {"locked", "locked2"} /\ req[p].op = "search" /\ pc[p] # "idle"
      /\ RM!Open(p, {"search"}) /\ AbsRecs' = AbsRecs
    BY OpenMaps, StoreMaps DEF SearchLegs, SearchList, At, store
<1>2. loc[p] \in LocalsType /\ req[p].want \in SUBSET Texts
    BY <1>1, BusyRequest DEF CallersOK
<1>3. PICK label, l, some :
        /\ label \in {"wait2", "rank"}
        /\ Continue(p, label, l)
        /\ some \subseteq Present(req[p].want)
        /\ l.fts \cup l.near \cup l.pool = AbsSeen[p] \cup some
    <2>1. CASE SearchLegs(p)
        <3>1. PICK f \in SUBSET Index(req[p].want), n \in SUBSET Index(req[p].want) :
                Continue(p, AfterLegs(p),
                    [loc[p] EXCEPT !.fts = Refetch(f), !.near = Refetch(n)])
            <4>1. PICK f \in UpTo(SearchLimit, Index(req[p].want)),
                       n \in IF loc[p].vec = QueryVec
                             THEN UpTo(SearchLimit,
                                       {e \in Index(req[p].want) : e[1] \notin Pending})
                             ELSE {{}} :
                    Continue(p, AfterLegs(p),
                        [loc[p] EXCEPT !.fts = Refetch(f), !.near = Refetch(n)])
                BY <2>1 DEF SearchLegs
            <4>2. f \subseteq Index(req[p].want) /\ n \subseteq Index(req[p].want)
                BY DEF UpTo
            <4> QED
                BY <4>1, <4>2
        <3> DEFINE l == [loc[p] EXCEPT !.fts = Refetch(f), !.near = Refetch(n)]
        <3>2. l.fts = Refetch(f) /\ l.near = Refetch(n) /\ l.pool = {}
            BY <1>2, <2>1 DEF LocalsType, LegsInOrder, SearchLegs, At
        <3>3. AbsSeen[p] = {}
            BY <2>1 DEF LegsInOrder, SearchLegs, At, AbsSeen
        <3>4. Refetch(f) \cup Refetch(n) \subseteq Present(req[p].want)
            BY RefetchKeepsFilter DEF RaceInv
        <3>5. AfterLegs(p) \in {"wait2", "rank"}
            BY DEF AfterLegs
        <3> HIDE DEF l
        <3>6. Continue(p, AfterLegs(p), l)
            BY <3>1 DEF l
        <3>7. l.fts \cup l.near \cup l.pool = AbsSeen[p] \cup (Refetch(f) \cup Refetch(n))
            BY <3>2, <3>3
        <3>8. PICK label, some : label = AfterLegs(p) /\ some = Refetch(f) \cup Refetch(n)
            OBVIOUS
        <3> QED
            BY <3>4, <3>5, <3>6, <3>7, <3>8
    <2>2. CASE SearchList(p)
        <3>1. PICK e \in Enumerations : Continue(p, "rank",
                [loc[p] EXCEPT !.pool = Selected(Refetch(e), req[p].want)])
            BY <2>2 DEF SearchList
        <3> DEFINE l == [loc[p] EXCEPT !.pool = Selected(Refetch(e), req[p].want)]
                   some == Selected(Refetch(e), req[p].want)
        <3>2. l.fts = loc[p].fts /\ l.near = loc[p].near /\ l.pool = some
            BY <1>2 DEF LocalsType
        <3>3. loc[p].pool = {}
            BY <2>2 DEF LegsInOrder, SearchList, At
        <3>4. some \subseteq Present(req[p].want)
            BY RefetchReads DEF Selected, Present, Record
        <3> HIDE DEF l, some
        <3>5. Continue(p, "rank", l)
            BY <3>1 DEF l
        <3>6. l.fts \cup l.near \cup l.pool = AbsSeen[p] \cup some
            BY <3>2, <3>3 DEF AbsSeen
        <3> QED
            BY <3>4, <3>5, <3>6
    <2> QED
        BY <2>1, <2>2
<1>4. some \in SUBSET RM!Present(req[p].want)
    BY <1>2, <1>3, PresentMaps
<1>5. /\ AbsPhase' = AbsPhase /\ UNCHANGED <<req, reply>>
      /\ AbsSeen' = [AbsSeen EXCEPT ![p] = AbsSeen[p] \cup some]
    BY <1>1, <1>3, ContinueMaps
<1> QED
    BY <1>1, <1>4, <1>5 DEF RM!Look, AbsRecs, AbsPhase, AbsSeen

LEMMA RankMaps ==
    ASSUME StoreOK, CallersOK, LegsInOrder, NEW p \in Procs, SearchRank(p)
    PROVE  RM!Report(p)
<1>1. PICK best \in UpTo(SearchLimit, loc[p].pool) :
        \E hits \in Blends(loc[p].fts, IF best = {} THEN loc[p].near ELSE best) :
            Finish(p, "ok", hits)
    BY DEF SearchRank
<1>2. PICK near : near = IF best = {} THEN loc[p].near ELSE best
    OBVIOUS
<1>3. PICK hits \in Blends(loc[p].fts, near) : Finish(p, "ok", hits)
    BY <1>1, <1>2
<1>4. best \subseteq loc[p].pool
    BY DEF UpTo
<1>5. RM!OncePerId(loc[p].fts) /\ RM!OncePerId(near)
    BY <1>2, <1>4 DEF LegsInOrder, RM!OncePerId
<1>6. hits \subseteq AbsSeen[p] /\ RM!OncePerId(hits)
    BY <1>2, <1>4, <1>5, BlendsOfLegs DEF AbsSeen
<1>7. RM!Finish(p, "ok", hits)
    BY <1>3, FinishMaps
<1>8. RM!Open(p, {"search"}) /\ AbsRecs' = AbsRecs
    BY OpenMaps, StoreMaps DEF SearchRank, store
<1> QED
    BY <1>6, <1>7, <1>8 DEF RM!Report, AbsRecs, AbsSeen

LEMMA CallMaps ==
    ASSUME CallersOK, LegsInOrder, NEW p \in Procs, Call(p) \/ Return(p) \/ Lock(p)
    PROVE  RM!Ask(p) \/ RM!TurnAway(p) \/ RM!Leave(p) \/ UNCHANGED RM!vars
<1>0. loc[p] \in LocalsType /\ AbsRecs' = AbsRecs
    BY StoreMaps DEF CallersOK, Call, Return, Lock, store
<1>1. AbsSeen' = AbsSeen
    <2>1. loc' = loc \/ \E t : loc' = [loc EXCEPT ![p].at = t]
        BY DEF Call, Return, Lock
    <2>2. \A q \in Procs : /\ loc'[q].fts = loc[q].fts
                           /\ loc'[q].near = loc[q].near
                           /\ loc'[q].pool = loc[q].pool
        BY <1>0, <2>1 DEF CallersOK, LocalsType
    <2> QED
        BY <2>2 DEF AbsSeen
<1>2. CASE Call(p)
    <2>1. pc[p] = "idle" /\ AbsPhase[p] = "idle"
        BY <1>2 DEF Call, AbsPhase
    <2>2. PICK r \in Requests :
            /\ req' = [req EXCEPT ![p] = r]
            /\ \/ /\ Goto(p, "done")
                  /\ reply' = [reply EXCEPT ![p] = [st |-> "err", hits |-> {}]]
               \/ /\ \E label \in {"embed", "wait"} : Goto(p, label)
                  /\ UNCHANGED reply
        BY <1>2 DEF Call
    <2>3. CASE /\ Goto(p, "done")
               /\ reply' = [reply EXCEPT ![p] = [st |-> "err", hits |-> {}]]
        <3>1. AbsPhase' = [AbsPhase EXCEPT ![p] = "done"]
            BY <2>3 DEF AbsPhase, Goto, CallersOK
        <3> QED
            BY <1>0, <1>1, <2>1, <2>2, <2>3, <3>1
            DEF RM!TurnAway, AbsRecs, AbsPhase, AbsSeen
    <2>4. CASE (\E label \in {"embed", "wait"} : Goto(p, label)) /\ UNCHANGED reply
        <3>1. AbsPhase' = [AbsPhase EXCEPT ![p] = "open"]
            BY <2>4 DEF AbsPhase, Goto, CallersOK
        <3> QED
            BY <1>0, <1>1, <2>1, <2>2, <2>4, <3>1 DEF RM!Ask, AbsRecs, AbsPhase, AbsSeen
    <2> QED
        BY <2>2, <2>3, <2>4
<1>3. CASE Return(p)
    <2>1. AbsPhase[p] = "done" /\ AbsPhase' = [AbsPhase EXCEPT ![p] = "idle"]
        BY <1>3 DEF Return, AbsPhase, Goto, CallersOK
    <2>2. /\ req' = [req EXCEPT ![p] = NoReq]
          /\ reply' = [reply EXCEPT ![p] = RM!NoReply]
        BY <1>3 DEF Return, NoReply, RM!NoReply
    <2> QED
        BY <1>0, <1>1, <2>1, <2>2 DEF RM!Leave, AbsRecs, AbsPhase, AbsSeen
<1>4. CASE Lock(p)
    <2>1. AbsPhase' = AbsPhase
        BY <1>4 DEF Lock, AbsPhase, Goto, CallersOK
    <2> QED
        BY <1>0, <1>1, <1>4, <2>1 DEF RM!vars, Lock, AbsRecs, AbsPhase, AbsSeen
<1> QED
    BY <1>2, <1>3, <1>4

(* Steps that end a call without touching the map. *)
LEMMA RefuseMaps ==
    ASSUME CallersOK, NEW p \in Procs, pc[p] \notin {"idle", "done"},
           NEW st \in {"ok", "err"}, Finish(p, st, {}), AbsRecs' = AbsRecs,
           st = "ok" => req[p].op \in {"backfill", "optimize", "status"}
    PROVE  RM!Refuse(p) \/ RM!Maintain(p)
<1>1. RM!Finish(p, st, {})
    BY FinishMaps
<1>2. AbsPhase[p] = "open"
    BY DEF AbsPhase
<1>3. CASE st = "ok"
    BY <1>1, <1>2, <1>3 DEF RM!Maintain, RM!Open, AbsRecs, AbsPhase
<1>4. CASE st = "err"
    BY <1>1, <1>2, <1>4 DEF RM!Refuse, AbsRecs, AbsPhase
<1> QED
    BY <1>3, <1>4

LEMMA MaintenanceMaps ==
    ASSUME CallersOK, NEW p \in Procs,
           \/ EngineError(p) \/ OptimizeWork(p)
           \/ StatusCount(p) \/ StatusPending(p) \/ StatusProbe(p) \/ StatusCancelled(p)
    PROVE  RM!Refuse(p) \/ RM!Maintain(p) \/ UNCHANGED RM!vars
<1>1. pc[p] \notin {"idle", "done"} /\ AbsRecs' = AbsRecs
    BY StoreMaps
    DEF EngineError, OptimizeWork, StatusCount, StatusPending, StatusProbe,
        StatusCancelled, At, store
<1>2. CASE StatusCount(p) \/ StatusPending(p)
    BY <1>1, <1>2, QuietMaps DEF StatusCount, StatusPending
<1>3. CASE EngineError(p) \/ StatusCancelled(p)
    BY <1>1, <1>3, RefuseMaps DEF EngineError, StatusCancelled
<1>4. CASE OptimizeWork(p) \/ StatusProbe(p)
    BY <1>1, <1>4, RefuseMaps DEF OptimizeWork, StatusProbe, At
<1> QED
    BY <1>2, <1>3, <1>4

(* Backfill is invisible: it changes vectors only, and of live documents.   *)
LEMMA BackfillMaps ==
    ASSUME StoreOK, CallersOK, NEW p \in Procs,
           BackfillSnapshot(p) \/ BackfillEmbed(p) \/ BackfillFill(p) \/ BackfillSkip(p)
    PROVE  RM!Refuse(p) \/ RM!Maintain(p) \/ UNCHANGED RM!vars
<1>1. pc[p] \notin {"idle", "done"} /\ req[p].op = "backfill" /\ loc[p] \in LocalsType
    BY DEF BackfillSnapshot, BackfillEmbed, BackfillFill, BackfillSkip, At, CallersOK
<1>2. AbsRecs' = AbsRecs
    <2>1. CASE BackfillFill(p)
        <3> DEFINE i == loc[p].cur[1]
        <3>1. i \in Ids
            BY <2>1 DEF BackfillFill, At, CallersOK, FillIsAtAnItem, LocalsType, Items
        <3>2. CASE docs[i] = NoDoc
            BY <2>1, <3>2, StoreMaps DEF BackfillFill, Fill
        <3>3. CASE docs[i] # NoDoc
            <4>1. docs[i] \in Docs
                BY <3>1, <3>3 DEF StoreOK
            <4>2. docs' = [docs EXCEPT ![i] = [docs[i] EXCEPT !.vec = loc[p].cur[2]]]
                BY <2>1, <3>3 DEF BackfillFill, Fill, Upsert
            <4>3. loc[p].cur[2] \in Vectors
                BY <2>1 DEF BackfillFill, At, CallersOK, FillIsAtAnItem, LocalsType, Items,
                            Vectors
            <4>4. [docs[i] EXCEPT !.vec = loc[p].cur[2]] \in Docs
                BY <4>1, <4>3 DEF Docs
            <4>5. docs'[i] # NoDoc /\ docs'[i].text = docs[i].text
                BY <3>1, <4>1, <4>2, <4>4, NoDocFresh DEF StoreOK, Docs, Vectors
            <4>6. \A j \in Ids : j # i => docs'[j] = docs[j]
                BY <4>2 DEF StoreOK
            <4> QED
                BY <3>3, <4>5, <4>6 DEF AbsRecs
        <3> QED
            BY <3>2, <3>3
    <2>2. CASE ~BackfillFill(p)
        BY <2>2, StoreMaps DEF BackfillSnapshot, BackfillEmbed, BackfillSkip, store
    <2> QED
        BY <2>1, <2>2
<1>3. ASSUME NEW label \in {"embed", "wait2"}, NEW l, Continue(p, label, l),
             Legs(l) = Legs(loc[p])
      PROVE  UNCHANGED RM!vars
    BY <1>1, <1>2, <1>3, QuietMaps
<1>4. /\ \A T : Legs([loc[p] EXCEPT !.todo = T]) = Legs(loc[p])
      /\ \A item : Legs([loc[p] EXCEPT !.todo = @ \ {item}]) = Legs(loc[p])
      /\ \A item : Legs([loc[p] EXCEPT !.cur = item]) = Legs(loc[p])
      /\ Legs([loc[p] EXCEPT !.todo = @ \ {loc[p].cur}, !.cur = NoItem]) = Legs(loc[p])
    BY <1>1 DEF LocalsType, Legs
<1>5. CASE Finish(p, "ok", {})
    BY <1>1, <1>2, <1>5, RefuseMaps
<1>6. CASE ~Finish(p, "ok", {})
    BY <1>3, <1>4, <1>6 DEF BackfillSnapshot, BackfillEmbed, BackfillFill, BackfillSkip,
                            NextItem
<1> QED
    BY <1>5, <1>6

LEMMA EmbedMaps ==
    ASSUME CallersOK, NEW p \in Procs, AddEmbed(p) \/ SearchEmbed(p) \/ SearchListFails(p)
    PROVE  RM!Refuse(p) \/ RM!Maintain(p) \/ UNCHANGED RM!vars
<1>1. pc[p] \notin {"idle", "done"} /\ AbsRecs' = AbsRecs
    BY StoreMaps DEF AddEmbed, SearchEmbed, SearchListFails, At, store
<1>2. \A v : Legs([loc[p] EXCEPT !.vec = v]) = Legs(loc[p])
    BY DEF CallersOK, LocalsType, Legs
<1>3. CASE SearchEmbed(p) \/ SearchListFails(p)
    BY <1>1, <1>2, <1>3, QuietMaps DEF SearchEmbed, SearchListFails
<1>4. CASE AddEmbed(p)
    BY <1>1, <1>2, <1>4, QuietMaps, RefuseMaps DEF AddEmbed
<1> QED
    BY <1>3, <1>4

LEMMA InitMaps == Init => RM!Init
<1> SUFFICES ASSUME Init PROVE RM!Init
    OBVIOUS
<1>1. AbsRecs = [i \in Ids |-> NoDoc]
    BY DEF Init, AbsRecs
<1>2. AbsPhase = [p \in Procs |-> "idle"] /\ AbsSeen = [p \in Procs |-> {}]
    BY DEF Init, AbsPhase, AbsSeen, NoLocals
<1> QED
    BY <1>1, <1>2 DEF Init, RM!Init, AbsRecs, AbsPhase, AbsSeen, NoReply, RM!NoReply

(* A step of the store is a step of the map, or changes nothing of it. *)
LEMMA StepMaps ==
    ASSUME IInv, [Next]_vars
    PROVE  [RM!Next]_RM!vars
<1> USE DEF IInv
<1>1. CASE Cancel \/ Tick \/ UNCHANGED vars
    <2>1. UNCHANGED <<docs, pc, req, loc, reply>>
        BY <1>1 DEF Cancel, Tick, vars, store
    <2> QED
        BY <2>1 DEF RM!vars
<1>2. ASSUME NEW p \in Procs,
             Call(p) \/ Return(p) \/ Lock(p) \/ Section(p) \/ Embedding(p)
                 \/ StatusCancelled(p)
      PROVE  [RM!Next]_RM!vars
    <2>1. \/ RM!Ask(p) \/ RM!TurnAway(p) \/ RM!Leave(p)
          \/ RM!Put(p) \/ RM!Lookup(p) \/ RM!Delete(p) \/ RM!Enumerate(p)
          \/ RM!Look(p) \/ RM!Report(p) \/ RM!Maintain(p) \/ RM!Refuse(p)
          \/ UNCHANGED RM!vars
        BY <1>2, CallMaps, AddMaps, GetMaps, ForgetMaps, ListMaps, SearchMaps, RankMaps,
           MaintenanceMaps, BackfillMaps, EmbedMaps DEF Section, Embedding
    <2> QED
        BY <2>1 DEF RM!Next
<1> QED
    BY <1>1, <1>2 DEF Next

LEMMA StoreInvariant == Spec => []IInv
<1>1. Init => IInv
    <2>1. Init => LegsInOrder
        BY NoLegs DEF Init, LegsInOrder, Legs
    <2>2. Init => RaceInv
        BY DEF Init, RaceInv, StaleIsDead, HeldTextIsCurrent, StaleVectorOnlyAfterRace,
               Live, NoLocals
    <2> QED
        BY <2>1, <2>2, TypesHoldInitially DEF IInv
<1>2. IInv /\ [Next]_vars => IInv'
    BY TypesPreserved, RacePreserved, LegsPreserved DEF IInv
<1> QED
    BY <1>1, <1>2, PTL DEF Spec

(* Every history of the store is one of RecordMap: whatever the callers     *)
(* interleave, Add, Get, Forget and List are atomic, Backfill and Optimize  *)
(* invisible, and a search reports what was there while it ran.             *)
THEOREM StoreImplementsMap == Spec => StoreIsRecordMap
<1>1. IInv /\ [Next]_vars => [RM!Next]_RM!vars
    BY StepMaps
<1> QED
    BY <1>1, StoreInvariant, InitMaps, PTL DEF Spec, StoreIsRecordMap, RM!Spec

----------------------------------------------------------------------------
(* What its readers assume *)

(* LiveStore, the store as the explorer and the context tool see it between *)
(* two of their calls, of the records the collection holds.                 *)
LS == INSTANCE LiveStore WITH
    Memories <- Ids,
    Bodies <- Texts,
    Gone <- NoDoc,
    recs <- AbsRecs

StoreIsLiveStore == LS!LiveStoreInit /\ [][LS!OthersWrite]_AbsRecs

(* A step of the map is a write of LiveStore, or leaves the map as it is. *)
LEMMA MapStepIsWrite ==
    ASSUME StoreOK, CallersOK, [RM!Next]_RM!vars
    PROVE  [LS!OthersWrite]_AbsRecs
<1>1. CASE UNCHANGED RM!vars
    BY <1>1 DEF RM!vars, AbsRecs
<1>2. ASSUME NEW p \in Procs, RM!Put(p)
      PROVE  [LS!OthersWrite]_AbsRecs
    <2>1. req[p] \in Requests /\ req[p].op = "add"
        BY <1>2 DEF RM!Put, RM!Open, CallersOK, Busy
    <2>2. req[p].id \in Ids /\ req[p].text \in Texts
        BY <2>1, RequestFields
    <2>3. LS!OthersAdd(req[p].id, req[p].text)
        BY <1>2 DEF RM!Put, LS!OthersAdd, AbsRecs
    <2> QED
        BY <2>2, <2>3 DEF LS!OthersWrite
<1>3. ASSUME NEW p \in Procs, RM!Delete(p)
      PROVE  [LS!OthersWrite]_AbsRecs
    <2>1. req[p] \in Requests /\ req[p].op = "forget"
        BY <1>3 DEF RM!Delete, RM!Open, CallersOK, Busy
    <2>2. req[p].id \in Ids
        BY <2>1, RequestFields
    <2>3. AbsRecs' = AbsRecs \/ LS!OthersForget(req[p].id)
        BY <1>3 DEF RM!Delete, LS!OthersForget, AbsRecs
    <2> QED
        BY <2>2, <2>3 DEF LS!OthersWrite
<1>4. ASSUME NEW p \in Procs,
             \/ RM!Ask(p) \/ RM!TurnAway(p) \/ RM!Leave(p) \/ RM!Lookup(p)
             \/ RM!Enumerate(p) \/ RM!Look(p) \/ RM!Report(p) \/ RM!Maintain(p)
             \/ RM!Refuse(p)
      PROVE  AbsRecs' = AbsRecs
    BY <1>4 DEF RM!Ask, RM!TurnAway, RM!Leave, RM!Lookup, RM!Enumerate, RM!Look, RM!Report,
                RM!Maintain, RM!Refuse, AbsRecs
<1> QED
    BY <1>1, <1>2, <1>3, <1>4 DEF RM!Next

(* The environment that Explorer and ContextBuilder are checked and proved  *)
(* in is what this store does: nothing its callers interleave shows them a  *)
(* change other than an Add or a Forget of one record.                      *)
THEOREM StoreServesReaders == Spec => StoreIsLiveStore
<1>1. Init => LS!LiveStoreInit
    BY DEF Init, LS!LiveStoreInit, AbsRecs
<1>2. IInv /\ [Next]_vars => [LS!OthersWrite]_AbsRecs
    BY StepMaps, MapStepIsWrite DEF IInv
<1> QED
    BY <1>1, <1>2, StoreInvariant, PTL DEF Spec, StoreIsLiveStore
=============================================================================
