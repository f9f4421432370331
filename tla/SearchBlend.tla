----------------------------- MODULE SearchBlend -----------------------------
(***************************************************************************)
(* How a search ranks what its two legs found                              *)
(* (internal/memory/search_blend.go).  A leg is a function from the ids it *)
(* found to their scores: relevance in the full-text leg, higher is        *)
(* better; distance in the vector leg, lower is better.  A normalized      *)
(* score is a fraction of the leg's span and is kept as its numerator;     *)
(* blended scores share the denominator Span(fts) * Span(vec).             *)
(***************************************************************************)
EXTENDS Integers, FiniteSets

Least(S) == CHOOSE x \in S : \A y \in S : x <= y
Greatest(S) == CHOOSE x \in S : \A y \in S : y <= x

ScoresOf(leg) == {leg[i] : i \in DOMAIN leg}
Flat(leg) == \A i, j \in DOMAIN leg : leg[i] = leg[j]
Span(leg) == IF Flat(leg) THEN 1 ELSE Greatest(ScoresOf(leg)) - Least(ScoresOf(leg))

(* Scores that are all the same count 1 each.                              *)
normalize(leg) ==
    [i \in DOMAIN leg |-> IF Flat(leg) THEN 1 ELSE leg[i] - Least(ScoresOf(leg))]

FarthestFirst(leg) == normalize(leg)        \* mutant: distances as scores
normalizeDistance(leg) == [i \in DOMAIN leg |-> Span(leg) - normalize(leg)[i]]

(* w is the pair of weights <<fts, vector>>.                               *)
Score(fts, vec, w, i) ==
    (IF i \in DOMAIN fts THEN w[1] * normalize(fts)[i] * Span(vec) ELSE 0)
  + (IF i \in DOMAIN vec THEN w[2] * normalizeDistance(vec)[i] * Span(fts) ELSE 0)

(* sortByScoreDesc: ties go by id.                                         *)
RanksBefore(fts, vec, w, i, j) ==
    \/ Score(fts, vec, w, i) > Score(fts, vec, w, j)
    \/ Score(fts, vec, w, i) = Score(fts, vec, w, j) /\ i < j

(* The first n of S in the order before.                                   *)
FirstOf(S, n, before(_, _)) ==
    {r \in [1..n -> S] :
        /\ \A x, y \in 1..n : x # y => r[x] # r[y]
        /\ \A x, y \in 1..n : x < y => before(r[x], r[y])
        /\ \A k \in S : (\A x \in 1..n : r[x] # k) => \A x \in 1..n : before(r[x], k)}

AtMost(n, S) == IF Cardinality(S) > n THEN n ELSE Cardinality(S)

(* The rankings a search may answer with; one, but for ties of the         *)
(* full-text scores when the vector leg found nothing and blend is not     *)
(* called.                                                                 *)
Rankings(fts, vec, w, limit) ==
    LET ids == (DOMAIN fts) \cup (DOMAIN vec) IN
    IF DOMAIN vec = {}
    THEN FirstOf(ids, AtMost(limit, ids), LAMBDA i, j : fts[i] >= fts[j])
    ELSE FirstOf(ids, AtMost(limit, ids), LAMBDA i, j : RanksBefore(fts, vec, w, i, j))
=============================================================================
