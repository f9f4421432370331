---------------------------- MODULE EventDelivery ----------------------------
(***************************************************************************)
(* What the spool promises about an event whose hook succeeded in writing   *)
(* it: it is kept until it is either delivered, after an attempt that       *)
(* stored every memory its summary has, or rejected, after MaxAttempts       *)
(* attempts failed.  Nothing is delivered or rejected twice.                *)
(***************************************************************************)
EXTENDS Naturals

CONSTANTS
    Events,
    MaxAttempts,    \* failures it takes to reject an event
    MaxTries        \* failures of an event are counted up to this number

VARIABLES
    outcome,    \* "none", "pending", "delivered" or "rejected"
    tries,      \* attempts on the event that failed
    whole       \* the events some attempt has stored in full

vars == <<outcome, tries, whole>>

Init ==
    /\ outcome = [e \in Events |-> "none"]
    /\ tries = [e \in Events |-> 0]
    /\ whole = {}

Settle(e, how) == outcome[e] = "pending" /\ outcome' = [outcome EXCEPT ![e] = how]

Submit(e) ==
    /\ outcome[e] = "none"
    /\ outcome' = [outcome EXCEPT ![e] = "pending"]
    /\ UNCHANGED <<tries, whole>>

(* An attempt fails; another may be under way, or be past success already. *)
Fail(e) ==
    /\ outcome[e] # "none"
    /\ tries' = [tries EXCEPT ![e] = IF @ < MaxTries THEN @ + 1 ELSE @]
    /\ UNCHANGED <<outcome, whole>>

StoreAll(e) ==
    /\ outcome[e] # "none"
    /\ whole' = whole \cup {e}
    /\ UNCHANGED <<outcome, tries>>

Deliver(e) ==
    /\ e \in whole
    /\ Settle(e, "delivered")
    /\ UNCHANGED <<tries, whole>>

Reject(e) ==
    /\ tries[e] >= MaxAttempts
    /\ Settle(e, "rejected")
    /\ UNCHANGED <<tries, whole>>

Next == \E e \in Events : Submit(e) \/ Fail(e) \/ StoreAll(e) \/ Deliver(e) \/ Reject(e)

Spec == Init /\ [][Next]_vars
=============================================================================
