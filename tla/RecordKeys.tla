------------------------------ MODULE RecordKeys ------------------------------
(***************************************************************************)
(* The key a record is stored under (internal/memory/store.go: sanitizePK, *)
(* called by Add and by recordToDoc): an id with every character zvec does *)
(* not accept replaced by "_", and shortened by a hash when it is too      *)
(* long.  Ids like a:b and a/b have one key.                               *)
(***************************************************************************)
CONSTANTS
    Ids,            \* ids as written by whoever made the record
    Keys,           \* primary keys zvec accepts
    PkOf            \* the key an id is stored under; not one to one

ASSUME KeysAssumption == PkOf \in [Ids -> Keys]

sanitizePK(id) == PkOf[id]
=============================================================================
