------------------------------ MODULE RecordMap ------------------------------
(***************************************************************************)
(* What the memory store promises the callers of memory.API                *)
(* (internal/memory/api.go): a map from ids to record texts on which every *)
(* Add, Get, Forget and List takes effect at one instant between its call  *)
(* and its reply.  A search promises less: it looks at the map at several  *)
(* instants and reports records it saw at one of them, each id once and    *)
(* every one inside the caller's project/kind filter.  Backfill, Optimize  *)
(* and Status promise not to touch the map at all.                         *)
(*                                                                         *)
(* Any call may also be refused with an error that changes nothing, and an *)
(* Add or Forget that did take effect may still be reported as failed.     *)
(***************************************************************************)
CONSTANTS
    Procs,      \* callers: RPC handler goroutines and the daemon's loop
    Requests,   \* what may be asked: records with fields op, id, text, want
    NoReq,      \* the request of a caller that has asked for nothing
    Ids, Texts,
    NoRec       \* the text of an id that has no record

VARIABLES
    recs,       \* the map
    phase,      \* "idle", "open" or "done", per caller
    req,        \* the request of a caller that is not idle
    seen,       \* the records an open search has seen so far
    reply       \* the reply of a caller that is done

vars == <<recs, phase, req, seen, reply>>

NoReply == [st |-> "none", hits |-> {}]

Init ==
    /\ recs = [i \in Ids |-> NoRec]
    /\ phase = [p \in Procs |-> "idle"]
    /\ req = [p \in Procs |-> NoReq]
    /\ seen = [p \in Procs |-> {}]
    /\ reply = [p \in Procs |-> NoReply]

(* The records of the map whose text is wanted. *)
Present(want) == {<<i, recs[i]>> : i \in {j \in Ids : recs[j] \in want}}

OncePerId(hits) == \A h1, h2 \in hits : h1[1] = h2[1] => h1 = h2

Open(p, ops) == phase[p] = "open" /\ req[p].op \in ops

Finish(p, st, hits) ==
    /\ phase' = [phase EXCEPT ![p] = "done"]
    /\ reply' = [reply EXCEPT ![p] = [st |-> st, hits |-> hits]]
    /\ seen' = [seen EXCEPT ![p] = {}]
    /\ UNCHANGED req

Ask(p) ==
    /\ phase[p] = "idle"
    /\ \E r \in Requests : req' = [req EXCEPT ![p] = r]
    /\ phase' = [phase EXCEPT ![p] = "open"]
    /\ UNCHANGED <<recs, seen, reply>>

(* Asked and refused at once. *)
TurnAway(p) ==
    /\ phase[p] = "idle"
    /\ \E r \in Requests : req' = [req EXCEPT ![p] = r]
    /\ phase' = [phase EXCEPT ![p] = "done"]
    /\ reply' = [reply EXCEPT ![p] = [st |-> "err", hits |-> {}]]
    /\ UNCHANGED <<recs, seen>>

Put(p) ==
    /\ Open(p, {"add"})
    /\ recs' = [recs EXCEPT ![req[p].id] = req[p].text]
    /\ \E st \in {"ok", "err"} : Finish(p, st, {})

Lookup(p) ==
    /\ Open(p, {"get"})
    /\ LET i == req[p].id IN
       IF recs[i] = NoRec THEN Finish(p, "notfound", {})
                          ELSE Finish(p, "ok", {<<i, recs[i]>>})
    /\ UNCHANGED recs

Delete(p) ==
    /\ Open(p, {"forget"})
    /\ LET i == req[p].id IN
       IF recs[i] = NoRec
       THEN Finish(p, "notfound", {}) /\ UNCHANGED recs
       ELSE /\ recs' = [recs EXCEPT ![i] = NoRec]
            /\ \E st \in {"ok", "err"} : Finish(p, st, {})

Enumerate(p) ==
    /\ Open(p, {"list"})
    /\ \E hits \in SUBSET Present(Texts) : Finish(p, "ok", hits)
    /\ UNCHANGED recs

Look(p) ==
    /\ Open(p, {"search"})
    /\ \E some \in SUBSET Present(req[p].want) :
           seen' = [seen EXCEPT ![p] = @ \cup some]
    /\ UNCHANGED <<recs, phase, req, reply>>

Report(p) ==
    /\ Open(p, {"search"})
    /\ \E hits \in SUBSET seen[p] : OncePerId(hits) /\ Finish(p, "ok", hits)
    /\ UNCHANGED recs

Maintain(p) ==
    /\ Open(p, {"backfill", "optimize", "status"})
    /\ Finish(p, "ok", {})
    /\ UNCHANGED recs

Refuse(p) == phase[p] = "open" /\ Finish(p, "err", {}) /\ UNCHANGED recs

Leave(p) ==
    /\ phase[p] = "done"
    /\ phase' = [phase EXCEPT ![p] = "idle"]
    /\ req' = [req EXCEPT ![p] = NoReq]
    /\ reply' = [reply EXCEPT ![p] = NoReply]
    /\ UNCHANGED <<recs, seen>>

Next ==
    \E p \in Procs :
        \/ Ask(p) \/ TurnAway(p) \/ Put(p) \/ Lookup(p) \/ Delete(p) \/ Enumerate(p)
        \/ Look(p) \/ Report(p) \/ Maintain(p) \/ Refuse(p) \/ Leave(p)

Spec == Init /\ [][Next]_vars
=============================================================================
