----------------------------- MODULE MCStoreTools -----------------------------
(* Instances of StoreTools and of StoreOpening for TLC: the ids that share  *)
(* a key, the files, the sizes.                                             *)
EXTENDS StoreTools, TLC

CONSTANTS a, b, c, k1, k2, b1, b2

(* Two ids with one key.                                                    *)
MCPkOf == (a :> k1) @@ (b :> k1) @@ (c :> k2)

(* Every file of at most three lines.                                       *)
MCLegacyFiles == UNION {[1..n -> Ids \cup {Broken}] : n \in 0..3}

JSONL(ls) == [format |-> "jsonl", items |-> ls]
Text(item) == [format |-> "text", items |-> <<item>>]
Other == [format |-> "unknown", items |-> <<NoId>>]
File(f) == [dir |-> FALSE, files |-> <<f>>]
Dir(files) == [dir |-> TRUE, files |-> files]

(* Records of one id, records of two ids with one key, and without an id.   *)
MCSources ==
    {File(JSONL(<<a, b, a>>)), File(JSONL(<<a, NoId, c>>)), File(JSONL(<<NoId, Blank, NoId>>)),
     File(JSONL(<<a, BadLine, NoId>>)), File(Text(NoId)), File(Text(Blank)), File(Other),
     Dir(<<>>), Dir(<<Other, Text(NoId), JSONL(<<NoId, a>>)>>),
     Dir(<<JSONL(<<a, b>>), JSONL(<<a, NoId>>)>>), Dir(<<JSONL(<<a, BadLine>>), Text(NoId)>>)}

(* The short body fits a share of most budgets, the long one does not.      *)
MCBodyLength == (b1 :> 2) @@ (b2 :> 7)
MCUpdatedAt == (b1 :> 1) @@ (b2 :> 2)
MCWeights == {<<2, 1>>}

(* Three items in: all of them, one or two rows, and a size not known yet.  *)
MCWindows == {<<0, 0>>, <<60, 8>>, <<100, 8>>}
=============================================================================
