------------------------------ MODULE LiveStore ------------------------------
(***************************************************************************)
(* The store as a program sees it that reads it in several calls: a map    *)
(* from ids to texts that other clients change between any two of them.   *)
(* What each call promises is in RecordMap.                                *)
(***************************************************************************)
EXTENDS Integers, Sequences, FiniteSets

CONSTANTS
    Memories,   \* ids; numbers, for they have an order
    Bodies,     \* what a record may say
    Gone        \* the text of an id without a record

ASSUME LiveKeysAssumption == Memories \subseteq Int /\ IsFiniteSet(Memories)
ASSUME LiveTextsAssumption == Gone \notin Bodies

VARIABLE recs

Live == {k \in Memories : recs[k] # Gone}

LiveStoreTypeOK == recs \in [Memories -> Bodies \cup {Gone}]

LiveStoreInit == recs = [k \in Memories |-> Gone]

(* An Add or a Forget of another client.                                   *)
OthersAdd(k, t) == recs' = [recs EXCEPT ![k] = t]
OthersForget(k) == recs[k] # Gone /\ recs' = [recs EXCEPT ![k] = Gone]

OthersWrite ==
    \E k \in Memories :
        \/ \E t \in Bodies : OthersAdd(k, t)
        \/ OthersForget(k)
=============================================================================
