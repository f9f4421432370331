------------------------- MODULE ContextBuilderProofs -------------------------
(***************************************************************************)
(* Proofs about ContextBuilder and the ranking of SearchBlend, for any     *)
(* store, scores, weights, limits and budgets.                             *)
(***************************************************************************)
EXTENDS ContextBuilder, FiniteSetTheorems, SequenceTheorems, WellFoundedInduction, TLAPS

-----------------------------------------------------------------------------
(* Shares *)

LEMMA Division ==
    ASSUME NEW r \in Nat, NEW m \in Nat \ {0}
    PROVE  r \div m \in Nat /\ m * (r \div m) <= r /\ r < m * (r \div m) + m
OBVIOUS

(* If r is enough for m shares of s, an equal share of r is at least s...  *)
LEMMA ShareEnough ==
    ASSUME NEW r \in Nat, NEW m \in Nat \ {0}, NEW s \in Nat, m * s <= r
    PROVE  s <= r \div m
<1> DEFINE q == r \div m
<1>1. q \in Nat /\ r < m * q + m
    BY Division
<1> HIDE DEF q
<1> SUFFICES ASSUME q < s PROVE FALSE
    BY <1>1 DEF q
<1>2. m * (q + 1) <= m * s
    BY <1>1
<1>3. m * (q + 1) = m * q + m
    BY <1>1
<1> QED
    BY <1>1, <1>2, <1>3

(* ... and what is left of it is enough for the other m - 1.               *)
LEMMA RestEnough ==
    ASSUME NEW r \in Nat, NEW m \in Nat \ {0}, NEW s \in Nat, NEW l \in Nat,
           m * s <= r, l <= r \div m
    PROVE  r - l \in Nat /\ (m - 1) * s <= r - l
<1> DEFINE q == r \div m
<1>1. q \in Nat /\ m * q <= r /\ s <= q
    BY Division, ShareEnough
<1>2. l <= q
    OBVIOUS
<1> HIDE DEF q
<1>3. (m - 1) * s <= (m - 1) * q
    BY <1>1
<1>4. (m - 1) * q = m * q - q
    BY <1>1
<1>5. m * q \in Nat /\ (m - 1) * s \in Nat /\ (m - 1) * q \in Nat /\ q <= m * q
    BY <1>1
<1> QED
    BY <1>1, <1>2, <1>3, <1>4, <1>5

(* A body is kept whole or cut to exactly what it may have.                *)
LEMMA LimitedText ==
    ASSUME NEW n \in Nat, NEW max \in Nat
    PROVE  /\ limitText(n, max) \in Nat /\ limitText(n, max) <= max
           /\ limitText(n, max) = n \/ limitText(n, max) = max
BY DEF limitText, Marker

-----------------------------------------------------------------------------
(* Scores *)

LEMMA LeastIsLeast ==
    ASSUME NEW S \in SUBSET Nat, S # {}
    PROVE  Least(S) \in S /\ \A y \in S : Least(S) <= y
<1> DEFINE R == OpToRel(<, Nat)
<1>1. PICK x \in S : \A y \in S : ~ (<<y, x>> \in R)
    <2>1. IsWellFoundedOn(R, Nat)
        BY NatLessThanWellFounded
    <2> HIDE DEF R
    <2> QED
        BY <2>1, WFMin
<1>2. \A y \in S : x <= y
    <2> SUFFICES ASSUME NEW y \in S PROVE x <= y
        OBVIOUS
    <2>1. y < x => <<y, x>> \in R
        BY DEF OpToRel
    <2> HIDE DEF R
    <2> QED
        BY <1>1, <2>1
<1> QED
    BY <1>2 DEF Least

LEMMA GreatestIsGreatest ==
    ASSUME NEW top \in Nat, NEW S \in SUBSET (0..top), S # {}
    PROVE  Greatest(S) \in S /\ \A y \in S : y <= Greatest(S)
<1> DEFINE T == {top - y : y \in S}
<1>1. T \in SUBSET Nat
    OBVIOUS
<1>2. T # {}
    OBVIOUS
<1>3. Least(T) \in T /\ \A t \in T : Least(T) <= t
    <2> HIDE DEF T
    <2> QED
        BY <1>1, <1>2, LeastIsLeast
<1>4. PICK x \in S : Least(T) = top - x
    BY <1>3
<1>5. \A y \in S : y <= x
    <2> SUFFICES ASSUME NEW y \in S PROVE y <= x
        OBVIOUS
    <2>1. top - y \in T /\ y \in Int /\ x \in Int
        OBVIOUS
    <2> HIDE DEF T
    <2> QED
        BY <1>3, <1>4, <2>1
<1> QED
    BY <1>5 DEF Greatest

Leg(ids) == [ids -> 0..MaxScore]

LEMMA Normalized ==
    ASSUME NEW ids, NEW leg \in Leg(ids)
    PROVE  /\ Span(leg) \in Nat \ {0}
           /\ \A i \in ids : normalize(leg)[i] \in Nat /\ normalize(leg)[i] <= Span(leg)
           /\ \A i, j \in ids : leg[i] >= leg[j] => normalize(leg)[i] >= normalize(leg)[j]
           /\ \A i, j \in ids : leg[i] > leg[j] => normalize(leg)[i] > normalize(leg)[j]
<1>0. DOMAIN leg = ids /\ MaxScore \in Nat /\ \A i \in ids : leg[i] \in 0..MaxScore
    BY ContextAssumption DEF Leg
<1>1. CASE Flat(leg)
    <2>1. \A i, j \in ids : leg[i] = leg[j]
        BY <1>0, <1>1 DEF Flat
    <2>2. Span(leg) = 1 /\ \A i \in ids : normalize(leg)[i] = 1
        BY <1>0, <1>1 DEF Span, normalize
    <2> QED
        BY <1>0, <2>1, <2>2
<1>2. CASE ~ Flat(leg)
    <2>1. PICK p, q \in ids : leg[p] # leg[q]
        BY <1>0, <1>2 DEF Flat
    <2> DEFINE S == ScoresOf(leg)
    <2>2. S \in SUBSET (0..MaxScore) /\ S # {} /\ leg[p] \in S /\ leg[q] \in S
          /\ \A i \in ids : leg[i] \in S
        BY <1>0, <2>1 DEF ScoresOf
    <2> DEFINE lo == Least(S)
               hi == Greatest(S)
    <2>3. lo \in S /\ hi \in S /\ \A y \in S : lo <= y /\ y <= hi
        <3> HIDE DEF S
        <3>1. S \in SUBSET Nat /\ S \in SUBSET (0..MaxScore) /\ S # {}
            BY <2>2
        <3>2. Least(S) \in S /\ \A y \in S : Least(S) <= y
            BY <3>1, LeastIsLeast
        <3>3. Greatest(S) \in S /\ \A y \in S : y <= Greatest(S)
            BY <1>0, <3>1, GreatestIsGreatest
        <3> QED
            BY <3>2, <3>3
    <2>4. Span(leg) = hi - lo /\ \A i \in ids : normalize(leg)[i] = leg[i] - lo
        BY <1>0, <1>2 DEF Span, normalize
    <2> HIDE DEF S, lo, hi
    <2>5. lo \in 0..MaxScore /\ hi \in 0..MaxScore /\ lo <= leg[p] /\ leg[p] <= hi
          /\ lo <= leg[q] /\ leg[q] <= hi /\ leg[p] \in 0..MaxScore /\ leg[q] \in 0..MaxScore
        BY <2>2, <2>3
    <2>6. hi - lo \in Nat \ {0}
        BY <1>0, <2>1, <2>5
    <2>7. \A i \in ids : leg[i] \in 0..MaxScore /\ lo <= leg[i] /\ leg[i] <= hi
        BY <2>2, <2>3
    <2> QED
        BY <1>0, <2>4, <2>5, <2>6, <2>7
<1> QED
    BY <1>1, <1>2

(* For distances it is the other way round.                                *)
LEMMA NormalizedDistance ==
    ASSUME NEW ids, NEW leg \in Leg(ids)
    PROVE  /\ \A i \in ids : normalizeDistance(leg)[i] \in Nat
           /\ \A i, j \in ids : leg[i] <= leg[j] => normalizeDistance(leg)[i] >= normalizeDistance(leg)[j]
           /\ \A i, j \in ids : leg[i] < leg[j] => normalizeDistance(leg)[i] > normalizeDistance(leg)[j]
<1>1. DOMAIN leg = ids /\ \A i \in ids : leg[i] \in Int
    BY ContextAssumption DEF Leg
<1>2. \A i \in ids : normalizeDistance(leg)[i] = Span(leg) - normalize(leg)[i]
    BY <1>1 DEF normalizeDistance
<1> QED
    BY <1>1, <1>2, Normalized

LEMMA Products ==
    ASSUME NEW a \in Nat, NEW b \in Nat, NEW c \in Nat, NEW d \in Nat, b >= c
    PROVE  /\ a * b * d \in Nat /\ a * c * d \in Nat /\ a * b * d >= a * c * d
           /\ a > 0 /\ d > 0 /\ b > c => a * b * d > a * c * d
<1>1. a * b \in Nat /\ a * c \in Nat /\ a * b >= a * c
    OBVIOUS
<1>2. a > 0 /\ b > c => a * b > a * c
    OBVIOUS
<1> DEFINE x == a * b
           y == a * c
<1> HIDE DEF x, y
<1>3. x \in Nat /\ y \in Nat /\ x >= y /\ (a > 0 /\ b > c => x > y)
    BY <1>1, <1>2 DEF x, y
<1>4. x * d \in Nat /\ y * d \in Nat /\ x * d >= y * d
    BY <1>3
<1>5. d > 0 /\ x > y => x * d > y * d
    BY <1>3
<1> QED
    BY <1>3, <1>4, <1>5 DEF x, y

(* What each leg adds to a blended score.                                  *)
FtsPart(fts, vec, w, i) == IF i \in DOMAIN fts THEN w[1] * normalize(fts)[i] * Span(vec) ELSE 0
VecPart(fts, vec, w, i) == IF i \in DOMAIN vec THEN w[2] * normalizeDistance(vec)[i] * Span(fts) ELSE 0

LEMMA FtsPartGrows ==
    ASSUME NEW F, NEW V, NEW fts \in Leg(F), NEW vec \in Leg(V), NEW w \in Nat \X Nat,
           NEW i, NEW j, j \in F => i \in F /\ fts[i] >= fts[j]
    PROVE  /\ FtsPart(fts, vec, w, i) \in Nat /\ FtsPart(fts, vec, w, j) \in Nat
           /\ FtsPart(fts, vec, w, i) >= FtsPart(fts, vec, w, j)
           /\ j \in F /\ w[1] > 0 /\ fts[i] > fts[j] =>
                  FtsPart(fts, vec, w, i) > FtsPart(fts, vec, w, j)
<1>1. w[1] \in Nat /\ Span(vec) \in Nat \ {0} /\ DOMAIN fts = F
    BY Normalized DEF Leg
<1>2. \A k \in F : normalize(fts)[k] \in Nat
    BY Normalized
<1>3. CASE j \in F
    <2>1. /\ i \in F /\ normalize(fts)[i] >= normalize(fts)[j]
          /\ fts[i] > fts[j] => normalize(fts)[i] > normalize(fts)[j]
        BY <1>3, Normalized
    <2> DEFINE b == normalize(fts)[i]
               c == normalize(fts)[j]
               d == Span(vec)
               a == w[1]
    <2>2. FtsPart(fts, vec, w, i) = a * b * d /\ FtsPart(fts, vec, w, j) = a * c * d
        BY <1>1, <1>3, <2>1 DEF FtsPart
    <2>3. a \in Nat /\ b \in Nat /\ c \in Nat /\ d \in Nat \ {0} /\ b >= c
        BY <1>1, <1>2, <1>3, <2>1
    <2>4. /\ a * b * d \in Nat /\ a * c * d \in Nat /\ a * b * d >= a * c * d
          /\ a > 0 /\ d > 0 /\ b > c => a * b * d > a * c * d
        <3> HIDE DEF a, b, c, d
        <3> QED
            BY <2>3, Products
    <2> QED
        BY <2>1, <2>2, <2>3, <2>4
<1>4. CASE j \notin F
    <2>1. FtsPart(fts, vec, w, j) = 0
        BY <1>1, <1>4 DEF FtsPart
    <2>2. FtsPart(fts, vec, w, i) \in Nat
        <3>1. CASE i \in F
            <4> DEFINE b == normalize(fts)[i]
                       d == Span(vec)
                       a == w[1]
            <4>1. FtsPart(fts, vec, w, i) = a * b * d /\ a \in Nat /\ b \in Nat /\ d \in Nat
                BY <1>1, <1>2, <3>1 DEF FtsPart
            <4> HIDE DEF a, b, d
            <4> QED
                BY <4>1, Products
        <3>2. CASE i \notin F
            BY <1>1, <3>2 DEF FtsPart
        <3> QED
            BY <3>1, <3>2
    <2> QED
        BY <1>4, <2>1, <2>2
<1> QED
    BY <1>3, <1>4

LEMMA VecPartGrows ==
    ASSUME NEW F, NEW V, NEW fts \in Leg(F), NEW vec \in Leg(V), NEW w \in Nat \X Nat,
           NEW i, NEW j, j \in V => i \in V /\ vec[i] <= vec[j]
    PROVE  /\ VecPart(fts, vec, w, i) \in Nat /\ VecPart(fts, vec, w, j) \in Nat
           /\ VecPart(fts, vec, w, i) >= VecPart(fts, vec, w, j)
           /\ j \in V /\ w[2] > 0 /\ vec[i] < vec[j] =>
                  VecPart(fts, vec, w, i) > VecPart(fts, vec, w, j)
<1>1. w[2] \in Nat /\ Span(fts) \in Nat \ {0} /\ DOMAIN vec = V
    BY Normalized DEF Leg
<1>2. \A k \in V : normalizeDistance(vec)[k] \in Nat
    BY NormalizedDistance
<1>3. CASE j \in V
    <2>1. /\ i \in V /\ normalizeDistance(vec)[i] >= normalizeDistance(vec)[j]
          /\ vec[i] < vec[j] => normalizeDistance(vec)[i] > normalizeDistance(vec)[j]
        BY <1>3, NormalizedDistance
    <2> DEFINE b == normalizeDistance(vec)[i]
               c == normalizeDistance(vec)[j]
               d == Span(fts)
               a == w[2]
    <2>2. VecPart(fts, vec, w, i) = a * b * d /\ VecPart(fts, vec, w, j) = a * c * d
        BY <1>1, <1>3, <2>1 DEF VecPart
    <2>3. a \in Nat /\ b \in Nat /\ c \in Nat /\ d \in Nat \ {0} /\ b >= c
        BY <1>1, <1>2, <1>3, <2>1
    <2>4. /\ a * b * d \in Nat /\ a * c * d \in Nat /\ a * b * d >= a * c * d
          /\ a > 0 /\ d > 0 /\ b > c => a * b * d > a * c * d
        <3> HIDE DEF a, b, c, d
        <3> QED
            BY <2>3, Products
    <2> QED
        BY <2>1, <2>2, <2>3, <2>4
<1>4. CASE j \notin V
    <2>1. VecPart(fts, vec, w, j) = 0
        BY <1>1, <1>4 DEF VecPart
    <2>2. VecPart(fts, vec, w, i) \in Nat
        <3>1. CASE i \in V
            <4> DEFINE b == normalizeDistance(vec)[i]
                       d == Span(fts)
                       a == w[2]
            <4>1. VecPart(fts, vec, w, i) = a * b * d /\ a \in Nat /\ b \in Nat /\ d \in Nat
                BY <1>1, <1>2, <3>1 DEF VecPart
            <4> HIDE DEF a, b, d
            <4> QED
                BY <4>1, Products
        <3>2. CASE i \notin V
            BY <1>1, <3>2 DEF VecPart
        <3> QED
            BY <3>1, <3>2
    <2> QED
        BY <1>4, <2>1, <2>2
<1> QED
    BY <1>3, <1>4

(* The ranking of any two legs puts the better of two memories first.      *)
LEMMA RankedBestFirst ==
    ASSUME NEW F, NEW V, NEW fts \in Leg(F), NEW vec \in Leg(V), NEW w \in Nat \X Nat,
           NEW limit, NEW ranking \in Rankings(fts, vec, w, limit),
           AtMost(limit, F \cup V) \in Nat,
           NEW y \in DOMAIN ranking, NEW i \in F \cup V,
           ranking[y] \in F => i \in F /\ fts[i] >= fts[ranking[y]],
           ranking[y] \in V => i \in V /\ vec[i] <= vec[ranking[y]],
           \/ {i, ranking[y]} \subseteq F /\ w[1] > 0 /\ fts[i] > fts[ranking[y]]
           \/ {i, ranking[y]} \subseteq V /\ w[2] > 0 /\ vec[i] < vec[ranking[y]]
    PROVE  \E x \in 1..(y - 1) : ranking[x] = i
<1> DEFINE n == AtMost(limit, F \cup V)
           j == ranking[y]
<1>0. DOMAIN fts = F /\ DOMAIN vec = V
    BY DEF Leg
<1>1. CASE V = {}
    <2>1. /\ ranking \in [1..n -> F \cup V]
          /\ \A a, b \in 1..n : a < b => fts[ranking[a]] >= fts[ranking[b]]
          /\ \A k \in F \cup V :
                (\A x \in 1..n : ranking[x] # k) => \A x \in 1..n : fts[ranking[x]] >= fts[k]
        BY <1>0, <1>1 DEF Rankings, FirstOf
    <2>2. y \in 1..n /\ fts[i] > fts[j] /\ i \in F /\ j \in F
        BY <1>1, <2>1
    <2>3. ~ (fts[j] >= fts[i]) /\ i # j
        <3>1. fts[i] \in Int /\ fts[j] \in Int
            BY <2>2, ContextAssumption DEF Leg
        <3> QED
            BY <2>2, <3>1
    <2>4. PICK x \in 1..n : ranking[x] = i
        <3>1. (\A x \in 1..n : ranking[x] # i) => fts[ranking[y]] >= fts[i]
            BY <2>1, <2>2
        <3> QED
            BY <2>3, <3>1
    <2>5. y < x => fts[ranking[y]] >= fts[ranking[x]]
        BY <2>1, <2>2, <2>4
    <2>6. ~ (y < x) /\ x # y
        BY <2>3, <2>4, <2>5
    <2> QED
        BY <2>2, <2>4, <2>6
<1>2. CASE V # {}
    <2>1. /\ ranking \in [1..n -> F \cup V]
          /\ \A a, b \in 1..n : a < b => RanksBefore(fts, vec, w, ranking[a], ranking[b])
          /\ \A k \in F \cup V :
                (\A x \in 1..n : ranking[x] # k) =>
                    \A x \in 1..n : RanksBefore(fts, vec, w, ranking[x], k)
        BY <1>0, <1>2 DEF Rankings, FirstOf
    <2>2. y \in 1..n
        BY <2>1
    <2>3. /\ \A k : Score(fts, vec, w, k) = FtsPart(fts, vec, w, k) + VecPart(fts, vec, w, k)
        BY DEF Score, FtsPart, VecPart
    <2>4. /\ Score(fts, vec, w, i) \in Nat /\ Score(fts, vec, w, j) \in Nat
          /\ Score(fts, vec, w, i) > Score(fts, vec, w, j)
        <3>1. /\ FtsPart(fts, vec, w, i) \in Nat /\ FtsPart(fts, vec, w, j) \in Nat
              /\ FtsPart(fts, vec, w, i) >= FtsPart(fts, vec, w, j)
              /\ j \in F /\ w[1] > 0 /\ fts[i] > fts[j] =>
                     FtsPart(fts, vec, w, i) > FtsPart(fts, vec, w, j)
            <4> HIDE DEF j
            <4>1. j \in F => i \in F /\ fts[i] >= fts[j]
                BY DEF j
            <4> QED
                BY <4>1, FtsPartGrows
        <3>2. /\ VecPart(fts, vec, w, i) \in Nat /\ VecPart(fts, vec, w, j) \in Nat
              /\ VecPart(fts, vec, w, i) >= VecPart(fts, vec, w, j)
              /\ j \in V /\ w[2] > 0 /\ vec[i] < vec[j] =>
                     VecPart(fts, vec, w, i) > VecPart(fts, vec, w, j)
            <4> HIDE DEF j
            <4>1. j \in V => i \in V /\ vec[i] <= vec[j]
                BY DEF j
            <4> QED
                BY <4>1, VecPartGrows
        <3> QED
            BY <2>3, <3>1, <3>2
    <2>5. ~ RanksBefore(fts, vec, w, j, i)
        BY <2>4 DEF RanksBefore
    <2>6. PICK x \in 1..n : ranking[x] = i
        BY <2>1, <2>2, <2>5
    <2>7. x # y
        BY <2>4, <2>6
    <2>8. ~ (y < x)
        BY <2>1, <2>2, <2>5, <2>6
    <2> QED
        BY <2>2, <2>6, <2>7, <2>8
<1> QED
    BY <1>1, <1>2
-----------------------------------------------------------------------------
(* Steps *)

(* What is left is enough for an equal share of max_chars for each result  *)
(* that is left.                                                           *)
SharesLeft ==
    nextHit <= Len(hits) =>
        (Len(hits) - nextHit + 1) * (maxChars \div Len(hits)) <= remaining

Unasked == answering = "idle" => nextHit = 1 /\ entries = <<>>

ContextInv ==
    /\ LiveStoreTypeOK /\ ContextTypeOK
    /\ nextHit # 0
    /\ Unasked /\ SharesLeft /\ FairShare /\ BetterRanksFirst

LEMMA ContextInitHolds == LiveStoreInit /\ ContextInit => ContextInv
<1> SUFFICES ASSUME LiveStoreInit, ContextInit PROVE ContextInv
    OBVIOUS
<1>1. LiveStoreTypeOK /\ ContextTypeOK
    <2>1. hits \in Seq(Memories) /\ entries \in Seq(Entry)
        BY EmptySeq DEF ContextInit
    <2>2. maxChars \in 0..MaxChars /\ remaining \in 0..maxChars /\ nextHit \in Nat
        BY ContextAssumption DEF ContextInit
    <2>3. truncated \in BOOLEAN
        BY DEF ContextInit
    <2>4. answering \in {"idle", "found", "answered", "refused"}
        BY DEF ContextInit
    <2> QED
        BY <2>1, <2>2, <2>3, <2>4 DEF LiveStoreInit, LiveStoreTypeOK, ContextTypeOK
<1>2. Len(hits) = 0 /\ DOMAIN entries = {} /\ DOMAIN hits = {} /\ nextHit = 1 /\ entries = <<>>
    BY DEF ContextInit
<1> QED
    BY <1>1, <1>2 DEF ContextInv, Unasked, SharesLeft, FairShare, BetterRanksFirst

LEMMA FewMemories ==
    ASSUME NEW ids \in SUBSET Memories
    PROVE  Cardinality(ids) \in Nat
BY LiveKeysAssumption, FS_Subset, FS_CardinalityType

LEMMA LegsAreOfMemories ==
    ASSUME NEW limit, NEW leg \in Legs(limit)
    PROVE  \E ids \in SUBSET Memories : leg \in Leg(ids)
BY DEF Legs, Leg, Live

LEMMA RankingsAreSequences ==
    ASSUME NEW F \in SUBSET Memories, NEW V \in SUBSET Memories,
           NEW fts \in Leg(F), NEW vec \in Leg(V), NEW w, NEW limit \in Nat,
           NEW ranking \in Rankings(fts, vec, w, limit)
    PROVE  AtMost(limit, F \cup V) \in Nat /\ ranking \in Seq(Memories)
<1>1. AtMost(limit, F \cup V) \in Nat
    BY FewMemories DEF AtMost
<1>2. DOMAIN fts = F /\ DOMAIN vec = V
    BY DEF Leg
<1>3. ranking \in [1..AtMost(limit, F \cup V) -> F \cup V]
    BY <1>2 DEF Rankings, FirstOf
<1>4. ranking \in [1..AtMost(limit, F \cup V) -> Memories]
    BY <1>3
<1> QED
    BY <1>1, <1>4, SeqDef

LEMMA AskPreserves ==
    ASSUME ContextInv, recs' = recs, AskContext
    PROVE  ContextInv'
<1>1. PICK asked \in AskedChars : maxChars' = normalizeContextMaxChars(asked)
    BY DEF AskContext
<1>2. PICK wish \in AskedLimits :
          \E fts \in Legs(normalizeContextLimit(wish)), vec \in Legs(normalizeContextLimit(wish)),
             w \in Weights :
              /\ legs' = [fts |-> fts, vec |-> vec, w |-> w]
              /\ hits' \in Rankings(fts, vec, w, normalizeContextLimit(wish))
    BY DEF AskContext
<1> DEFINE limit == normalizeContextLimit(wish)
<1>3. PICK fts \in Legs(limit), vec \in Legs(limit), w \in Weights :
          /\ legs' = [fts |-> fts, vec |-> vec, w |-> w]
          /\ hits' \in Rankings(fts, vec, w, limit)
    BY <1>2
<1>4. maxChars' \in 0..MaxChars /\ maxChars' \in Nat /\ limit \in Nat
    BY <1>1, ContextAssumption DEF normalizeContextMaxChars, normalizeContextLimit
<1>5. PICK F \in SUBSET Memories : fts \in Leg(F)
    BY LegsAreOfMemories
<1>6. PICK V \in SUBSET Memories : vec \in Leg(V)
    BY LegsAreOfMemories
<1>7. w \in Nat \X Nat
    BY ContextAssumption
<1> HIDE DEF limit
<1>8. AtMost(limit, F \cup V) \in Nat /\ hits' \in Seq(Memories)
    BY <1>3, <1>4, <1>5, <1>6, RankingsAreSequences
<1>9. /\ answering' = "found" /\ remaining' = maxChars' /\ UNCHANGED <<nextHit, entries, truncated>>
      /\ nextHit = 1 /\ entries = <<>>
    BY DEF AskContext, ContextInv, Unasked
<1>10. ContextTypeOK'
    BY <1>4, <1>8, <1>9 DEF ContextInv, ContextTypeOK
<1>11. SharesLeft'
    <2> SUFFICES ASSUME Len(hits') >= 1
                 PROVE  Len(hits') * (maxChars' \div Len(hits')) <= maxChars'
        BY <1>8, <1>9 DEF SharesLeft
    <2> DEFINE n == Len(hits')
               c == maxChars'
    <2>1. n \in Nat \ {0} /\ c \in Nat
        BY <1>4, <1>8
    <2> HIDE DEF n, c
    <2>2. n * (c \div n) <= c
        BY <2>1, Division
    <2> QED
        BY <2>2 DEF n, c
<1>12. FairShare'
    <2>1. DOMAIN entries' = {}
        BY <1>9
    <2> QED
        BY <2>1 DEF FairShare
<1>13. BetterRanksFirst'
    <2> SUFFICES ASSUME NEW y \in DOMAIN hits', NEW i \in F \cup V,
                        NoWorse(i, hits[y])', Better(i, hits[y])'
                 PROVE  \E x \in 1..(y - 1) : hits'[x] = i
        BY <1>3, <1>5, <1>6 DEF BetterRanksFirst, Leg
    <2>1. legs'.fts = fts /\ legs'.vec = vec /\ legs'.w = w /\ DOMAIN fts = F /\ DOMAIN vec = V
        BY <1>3, <1>5, <1>6 DEF Leg
    <2> DEFINE r == hits'
    <2>2. /\ r[y] \in F => i \in F /\ fts[i] >= fts[r[y]]
          /\ r[y] \in V => i \in V /\ vec[i] <= vec[r[y]]
        BY <2>1 DEF NoWorse
    <2>3. \/ {i, r[y]} \subseteq F /\ w[1] > 0 /\ fts[i] > fts[r[y]]
          \/ {i, r[y]} \subseteq V /\ w[2] > 0 /\ vec[i] < vec[r[y]]
        BY <2>1 DEF Better
    <2>4. r \in Rankings(fts, vec, w, limit) /\ y \in DOMAIN r
        BY <1>3
    <2> HIDE DEF r
    <2>5. \E x \in 1..(y - 1) : r[x] = i
        BY <1>5, <1>6, <1>7, <1>8, <2>2, <2>3, <2>4, RankedBestFirst
    <2> QED
        BY <2>5 DEF r
<1> QED
    BY <1>9, <1>10, <1>11, <1>12, <1>13 DEF ContextInv, LiveStoreTypeOK, Unasked

LEMMA BudgetTyped ==
    ASSUME ContextInv, nextHit <= Len(hits)
    PROVE  EntryBudget \in Nat /\ 0 <= EntryBudget
<1> DEFINE m == Len(hits) - nextHit + 1
           q == remaining \div m
<1>1. m \in Nat \ {0} /\ remaining \in Nat
    BY ContextAssumption DEF ContextInv, ContextTypeOK
<1>2. EntryBudget = IF q = 0 THEN remaining ELSE q
    BY DEF EntryBudget
<1> HIDE DEF m
<1>3. q \in Nat
    BY <1>1, Division
<1> QED
    BY <1>1, <1>2, <1>3

(* What one result may have: its share, and the others keep theirs.        *)
LEMMA BudgetFair ==
    ASSUME ContextInv, nextHit <= Len(hits), NEW l \in Nat, l <= EntryBudget
    PROVE  /\ EntryBudget \in Nat /\ maxChars \div Len(hits) \in Nat
           /\ EntryBudget >= maxChars \div Len(hits)
           /\ remaining - l \in Nat
           /\ (Len(hits) - nextHit) * (maxChars \div Len(hits)) <= remaining - l
<1> DEFINE n == Len(hits)
           m == n - nextHit + 1
           s == maxChars \div n
           q == remaining \div m
<1>1. n \in Nat \ {0} /\ m \in Nat \ {0} /\ remaining \in Nat /\ maxChars \in Nat /\ n - nextHit = m - 1
    BY ContextAssumption DEF ContextInv, ContextTypeOK
<1>2. s \in Nat
    <2> HIDE DEF n
    <2> QED
        BY <1>1, Division
<1>3. m * s <= remaining
    BY DEF ContextInv, SharesLeft
<1>4. EntryBudget = IF q = 0 THEN remaining ELSE q
    BY DEF EntryBudget
<1> HIDE DEF n, m, s
<1>5. q \in Nat /\ s <= q /\ m * q <= remaining
    BY <1>1, <1>2, <1>3, Division, ShareEnough
<1>6. CASE q = 0
    <2>1. s = 0 /\ EntryBudget = remaining
        BY <1>2, <1>4, <1>5, <1>6
    <2>2. (m - 1) * s = 0
        BY <1>1, <2>1
    <2> QED
        BY <1>1, <2>1, <2>2 DEF n, m, s
<1>7. CASE q # 0
    <2>1. EntryBudget = q
        BY <1>4, <1>7
    <2>2. remaining - l \in Nat /\ (m - 1) * s <= remaining - l
        BY <1>1, <1>2, <1>3, <2>1, RestEnough
    <2> QED
        BY <1>1, <1>2, <1>5, <2>1, <2>2 DEF n, m, s
<1> QED
    BY <1>6, <1>7

LEMMA ExpandPreserves ==
    ASSUME ContextInv, recs' = recs, ExpandHit
    PROVE  ContextInv'
<1> DEFINE n == BodyLength[FoundBody]
           len == limitText(n, EntryBudget)
           e == [id |-> hits[nextHit], full |-> n, len |-> len]
<1>0. nextHit \in 1..Len(hits) /\ nextHit <= Len(hits) /\ hits[nextHit] \in Memories
    BY DEF ContextInv, ContextTypeOK, ExpandHit, Expanding
<1>1. n \in Nat
    <2>1. FoundBody \in Bodies
        BY <1>0 DEF ExpandHit, FoundBody, ContextInv, LiveStoreTypeOK
    <2> QED
        BY <2>1, BodyLengthAssumption
<1>2. EntryBudget \in Nat
    BY <1>0, BudgetTyped
<1> HIDE DEF n
<1>3. len \in Nat /\ len <= EntryBudget /\ (len = n \/ len = EntryBudget)
    BY <1>1, <1>2, LimitedText
<1> HIDE DEF len
<1>4. /\ EntryBudget >= maxChars \div Len(hits) /\ remaining - len \in Nat
      /\ (Len(hits) - nextHit) * (maxChars \div Len(hits)) <= remaining - len
    BY <1>0, <1>3, BudgetFair
<1>5. /\ entries' = Append(entries, e) /\ nextHit' = nextHit + 1
      /\ truncated' = (truncated \/ len < n)
      /\ remaining' = remaining - len
      /\ UNCHANGED <<answering, maxChars, hits>> /\ answering = "found" /\ legs' = NoLegs
    <2>1. remaining \in Nat
        BY ContextAssumption DEF ContextInv, ContextTypeOK
    <2> QED
        BY <1>3, <1>4, <2>1 DEF ExpandHit, Expanding, n, len
<1>6. e \in Entry
    BY <1>0, <1>1, <1>3 DEF Entry
<1>7. ContextTypeOK'
    <2>1. truncated' \in BOOLEAN
        BY <1>5 DEF ContextInv, ContextTypeOK
    <2>2. remaining' \in 0..maxChars
        BY <1>3, <1>4, <1>5, ContextAssumption DEF ContextInv, ContextTypeOK
    <2>3. entries' \in Seq(Entry)
        BY <1>5, <1>6 DEF ContextInv, ContextTypeOK
    <2> QED
        BY <1>5, <2>1, <2>2, <2>3 DEF ContextInv, ContextTypeOK
<1>8. SharesLeft'
    <2>1. Len(hits) - (nextHit + 1) + 1 = Len(hits) - nextHit
        BY <1>0
    <2> QED
        BY <1>4, <1>5, <2>1 DEF SharesLeft
<1>9. FairShare'
    <2> SUFFICES ASSUME NEW x \in DOMAIN entries'
                 PROVE  \/ entries'[x].len = entries'[x].full
                        \/ entries'[x].len >= maxChars \div Len(hits)
        BY <1>5 DEF FairShare
    <2>1. entries \in Seq(Entry)
        BY DEF ContextInv, ContextTypeOK
    <2>2. CASE x = Len(entries) + 1
        <3>1. entries'[x] = e
            BY <1>5, <2>1, <2>2
        <3>2. e.len = len /\ e.full = n
            OBVIOUS
        <3> QED
            BY <1>3, <1>4, <3>1, <3>2
    <2>3. CASE x # Len(entries) + 1
        <3>1. x \in DOMAIN entries /\ entries'[x] = entries[x]
            BY <1>5, <2>1, <2>3
        <3> QED
            BY <3>1 DEF ContextInv, FairShare
    <2> QED
        BY <2>2, <2>3
<1>10. BetterRanksFirst'
    BY <1>5 DEF BetterRanksFirst, NoLegs
<1>11. nextHit' # 0 /\ Unasked'
    BY <1>0, <1>5 DEF Unasked
<1> QED
    BY <1>7, <1>8, <1>9, <1>10, <1>11 DEF ContextInv, LiveStoreTypeOK

LEMMA PassPreserves ==
    ASSUME ContextInv, recs' = recs, PassForgotten
    PROVE  ContextInv'
<1>1. /\ nextHit' = nextHit + 1 /\ answering = "found" /\ legs' = NoLegs
      /\ UNCHANGED <<answering, maxChars, hits, remaining, entries, truncated>>
    BY DEF PassForgotten, Expanding
<1>2. nextHit \in Nat /\ nextHit <= Len(hits) /\ Len(hits) \in Nat /\ nextHit # 0
    BY DEF ContextInv, ContextTypeOK, PassForgotten, Expanding
<1>3. ContextTypeOK'
    BY <1>1, <1>2 DEF ContextInv, ContextTypeOK
<1>4. SharesLeft'
    <2>1. 0 <= EntryBudget /\ remaining \in Nat
        BY <1>2, BudgetTyped, ContextAssumption DEF ContextInv, ContextTypeOK
    <2>2. (Len(hits) - nextHit) * (maxChars \div Len(hits)) <= remaining - 0
        BY <1>2, <2>1, BudgetFair
    <2>3. Len(hits) - (nextHit + 1) + 1 = Len(hits) - nextHit /\ remaining - 0 = remaining
        BY <1>2, <2>1
    <2> QED
        BY <1>1, <2>2, <2>3 DEF SharesLeft
<1>5. FairShare'
    BY <1>1 DEF ContextInv, FairShare
<1>6. BetterRanksFirst'
    BY <1>1 DEF BetterRanksFirst, NoLegs
<1> QED
    BY <1>1, <1>2, <1>3, <1>4, <1>5, <1>6 DEF ContextInv, LiveStoreTypeOK, Unasked

(* Only answering changes, or nothing of the request.                      *)
LEMMA AnswerPreserves ==
    ASSUME ContextInv, recs' \in [Memories -> Bodies \cup {Gone}],
           answering' \in {answering, "answered", "refused"},
           UNCHANGED <<maxChars, legs, hits, nextHit, remaining, entries, truncated>>
    PROVE  ContextInv'
<1>1. ContextTypeOK' /\ LiveStoreTypeOK'
    BY DEF ContextInv, ContextTypeOK, LiveStoreTypeOK
<1>2. Unasked' /\ SharesLeft' /\ FairShare'
    BY DEF ContextInv, Unasked, SharesLeft, FairShare
<1>3. BetterRanksFirst'
    BY DEF ContextInv, BetterRanksFirst, NoWorse, Better
<1> QED
    BY <1>1, <1>2, <1>3 DEF ContextInv

LEMMA ContextStepPreserves == ContextInv /\ [ContextNext]_<<recs, contextVars>> => ContextInv'
<1> SUFFICES ASSUME ContextInv, [ContextNext]_<<recs, contextVars>> PROVE ContextInv'
    OBVIOUS
<1>1. recs \in [Memories -> Bodies \cup {Gone}]
    BY DEF ContextInv, LiveStoreTypeOK
<1>2. CASE ContextStep /\ recs' = recs
    <2>1. CASE AskContext
        BY <1>2, <2>1, AskPreserves
    <2>2. CASE ExpandHit
        BY <1>2, <2>2, ExpandPreserves
    <2>3. CASE PassForgotten
        BY <1>2, <2>3, PassPreserves
    <2>4. CASE SearchFails \/ ExpandFails \/ AnswerContext
        BY <1>1, <1>2, <2>4, AnswerPreserves DEF SearchFails, ExpandFails, AnswerContext
    <2> QED
        BY <1>2, <2>1, <2>2, <2>3, <2>4 DEF ContextStep
<1>3. CASE OthersWrite /\ UNCHANGED contextVars
    <2>1. recs' \in [Memories -> Bodies \cup {Gone}]
        BY <1>1, <1>3 DEF OthersWrite, OthersAdd, OthersForget
    <2> QED
        BY <1>3, <2>1, AnswerPreserves DEF contextVars
<1>4. CASE UNCHANGED <<recs, contextVars>>
    BY <1>1, <1>4, AnswerPreserves DEF contextVars
<1> QED
    BY <1>2, <1>3, <1>4 DEF ContextNext

LEMMA ContextAlways == ContextSpec => []ContextInv
BY ContextInitHolds, ContextStepPreserves, PTL DEF ContextSpec

-----------------------------------------------------------------------------
(* The budget *)

(* f adds up the first k lengths of es.                                    *)
AddsUp(f, es, k) == f[0] = 0 /\ \A n \in 1..k : f[n] = f[n - 1] + es[n].len

LEMMA SumsExist ==
    ASSUME NEW es \in Seq(Entry)
    PROVE  \E f \in [0..Len(es) -> Nat] : AddsUp(f, es, Len(es))
<1> DEFINE Has(k) == \E f \in [0..k -> Nat] : AddsUp(f, es, k)
           Missing == {k \in 0..Len(es) : ~Has(k)}
<1>1. Has(0)
    <2>1. [n \in 0..0 |-> 0] \in [0..0 -> Nat] /\ AddsUp([n \in 0..0 |-> 0], es, 0)
        BY DEF AddsUp
    <2> QED
        BY <2>1
<1>2. ASSUME NEW k \in 1..Len(es), Has(k - 1)
      PROVE  Has(k)
    <2>1. PICK f \in [0..(k - 1) -> Nat] : AddsUp(f, es, k - 1)
        BY <1>2
    <2> DEFINE g == [n \in 0..k |-> IF n = k THEN f[k - 1] + es[k].len ELSE f[n]]
    <2>2. es[k] \in Entry /\ es[k].len \in Nat
        <3>1. es[k] \in Entry
            OBVIOUS
        <3> QED
            BY <3>1 DEF Entry
    <2>3. g \in [0..k -> Nat]
        BY <2>2
    <2>4. g[0] = 0 /\ \A n \in 1..k : g[n] = g[n - 1] + es[n].len
        <3>1. f[0] = 0 /\ \A n \in 1..(k - 1) : f[n] = f[n - 1] + es[n].len
            BY <2>1 DEF AddsUp
        <3>2. g[0] = 0
            BY <3>1
        <3>3. g[k] = g[k - 1] + es[k].len
            OBVIOUS
        <3>4. \A n \in 1..(k - 1) : g[n] = f[n] /\ g[n - 1] = f[n - 1]
            OBVIOUS
        <3> HIDE DEF g
        <3> QED
            BY <3>1, <3>2, <3>3, <3>4
    <2> HIDE DEF g
    <2>5. AddsUp(g, es, k)
        BY <2>4 DEF AddsUp
    <2> QED
        BY <2>3, <2>5
<1>3. SUFFICES ASSUME Missing # {} PROVE FALSE
    <2>1. Len(es) \in 0..Len(es)
        OBVIOUS
    <2>2. Missing = {} => Has(Len(es))
        BY <2>1
    <2> QED
        BY <2>2
<1> HIDE DEF Has
<1>4. Missing \in SUBSET Nat
    OBVIOUS
<1> DEFINE m == Least(Missing)
<1>5. m \in Missing /\ \A k \in Missing : m <= k
    BY <1>3, <1>4, LeastIsLeast
<1> HIDE DEF m
<1>6. m \in 1..Len(es) /\ m - 1 \in 0..Len(es) /\ m - 1 \notin Missing
    BY <1>1, <1>5
<1> QED
    BY <1>2, <1>5, <1>6

(* Whatever adds up the lengths ends with their sum.                       *)
LEMMA UsedIsTheSum ==
    ASSUME NEW es \in Seq(Entry), NEW f \in [0..Len(es) -> Nat], AddsUp(f, es, Len(es))
    PROVE  Used(es) = f[Len(es)]
<1> DEFINE u == CHOOSE u : u = [n \in 0..Len(es) |-> IF n = 0 THEN 0 ELSE u[n - 1] + es[n].len]
<1>1. Used(es) = u[Len(es)]
    BY DEF Used
<1>2. f = [n \in 0..Len(es) |-> IF n = 0 THEN 0 ELSE f[n - 1] + es[n].len]
    BY DEF AddsUp
<1>3. u = [n \in 0..Len(es) |-> IF n = 0 THEN 0 ELSE u[n - 1] + es[n].len]
    BY <1>2
<1> HIDE DEF u
<1> DEFINE Differ == {n \in 0..Len(es) : u[n] # f[n]}
<1>4. SUFFICES ASSUME Differ # {} PROVE FALSE
    BY <1>1
<1> DEFINE m == Least(Differ)
<1>5. m \in Differ /\ \A n \in Differ : m <= n
    <2>1. Differ \in SUBSET Nat
        OBVIOUS
    <2> HIDE DEF Differ
    <2> QED
        BY <1>4, <2>1, LeastIsLeast
<1> HIDE DEF m
<1>6. u[0] = 0 /\ f[0] = 0
    BY <1>3 DEF AddsUp
<1>7. m \in 1..Len(es) /\ m - 1 \in 0..Len(es) /\ m - 1 \notin Differ
    BY <1>5, <1>6
<1>8. u[m] = u[m - 1] + es[m].len /\ f[m] = f[m - 1] + es[m].len
    BY <1>3, <1>7 DEF AddsUp
<1> QED
    BY <1>5, <1>7, <1>8

LEMMA UsedNothing == Used(<<>>) = 0
<1> DEFINE f == [n \in 0..0 |-> 0]
<1>1. <<>> \in Seq(Entry) /\ Len(<<>>) = 0
    BY EmptySeq
<1>2. f \in [0..0 -> Nat] /\ AddsUp(f, <<>>, 0) /\ f[0] = 0
    BY DEF AddsUp
<1> HIDE DEF f
<1> QED
    BY <1>1, <1>2, UsedIsTheSum

(* One entry more uses its own length more.                                *)
LEMMA UsedGrows ==
    ASSUME NEW es \in Seq(Entry), NEW e \in Entry
    PROVE  Used(es) \in Nat /\ Used(Append(es, e)) = Used(es) + e.len
<1> DEFINE more == Append(es, e)
           k == Len(es)
<1>1. more \in Seq(Entry) /\ Len(more) = k + 1 /\ k \in Nat
      /\ more[k + 1] = e /\ \A n \in 1..k : more[n] = es[n]
    OBVIOUS
<1>2. PICK f \in [0..k -> Nat] : AddsUp(f, es, k)
    BY SumsExist
<1>3. Used(es) = f[k] /\ f[k] \in Nat /\ e.len \in Nat
    <2>1. Used(es) = f[k]
        BY <1>2, UsedIsTheSum
    <2>2. e.len \in Nat
        BY DEF Entry
    <2> QED
        BY <1>1, <1>2, <2>1, <2>2
<1> DEFINE g == [n \in 0..(k + 1) |-> IF n = k + 1 THEN f[k] + e.len ELSE f[n]]
<1> HIDE DEF more, k
<1>4. g \in [0..(k + 1) -> Nat] /\ g[k + 1] = f[k] + e.len
    BY <1>1, <1>2, <1>3
<1>5. AddsUp(g, more, k + 1)
    <2>1. f[0] = 0 /\ \A n \in 1..k : f[n] = f[n - 1] + es[n].len
        BY <1>2 DEF AddsUp
    <2>2. g[0] = 0 /\ g[k + 1] = f[k] + e.len /\ \A n \in 0..k : g[n] = f[n]
        BY <1>1, <2>1
    <2> HIDE DEF g
    <2>3. \A n \in 1..(k + 1) : g[n] = g[n - 1] + more[n].len
        <3>1. g[k + 1] = g[(k + 1) - 1] + more[k + 1].len
            BY <1>1, <2>2
        <3>2. \A n \in 1..k : n \in 0..k /\ n - 1 \in 0..k
            BY <1>1
        <3>3. \A n \in 1..k : g[n] = g[n - 1] + more[n].len
            BY <1>1, <2>1, <2>2, <3>2
        <3>4. \A n \in 1..(k + 1) : n = k + 1 \/ n \in 1..k
            BY <1>1
        <3> QED
            BY <3>1, <3>3, <3>4
    <2> QED
        BY <2>2, <2>3 DEF AddsUp
<1> HIDE DEF g
<1>6. Used(more) = g[k + 1]
    BY <1>1, <1>4, <1>5, UsedIsTheSum
<1> QED
    BY <1>3, <1>4, <1>6 DEF more

LEMMA BudgetStep == ContextInv /\ WithinBudget /\ [ContextNext]_<<recs, contextVars>> => WithinBudget'
<1> SUFFICES ASSUME ContextInv, WithinBudget, [ContextNext]_<<recs, contextVars>> PROVE WithinBudget'
    OBVIOUS
<1>1. entries \in Seq(Entry) /\ remaining \in Nat /\ maxChars \in Nat
    BY ContextAssumption DEF ContextInv, ContextTypeOK
<1>2. CASE AskContext
    <2>1. entries' = <<>> /\ remaining' = maxChars' /\ ContextInv'
        BY <1>2, ContextStepPreserves DEF AskContext, ContextInv, Unasked
    <2>2. maxChars' \in Nat
        BY <2>1, ContextAssumption DEF ContextInv, ContextTypeOK
    <2> QED
        BY <2>1, <2>2, UsedNothing DEF WithinBudget
<1>3. CASE ExpandHit
    <2> DEFINE n == BodyLength[FoundBody]
               len == limitText(n, EntryBudget)
               e == [id |-> hits[nextHit], full |-> n, len |-> len]
    <2>1. nextHit \in 1..Len(hits) /\ hits[nextHit] \in Memories /\ FoundBody \in Bodies
        BY <1>3 DEF ExpandHit, Expanding, FoundBody, ContextInv, ContextTypeOK, LiveStoreTypeOK
    <2>2. n \in Nat /\ EntryBudget \in Nat
        BY <2>1, BodyLengthAssumption, BudgetTyped
    <2> HIDE DEF n
    <2>3. len \in Nat /\ len <= EntryBudget
        BY <2>2, LimitedText
    <2> HIDE DEF len
    <2>4. remaining - len \in Nat
        BY <2>1, <2>3, BudgetFair
    <2>5. entries' = Append(entries, e) /\ remaining' = remaining - len /\ maxChars' = maxChars
        BY <1>1, <1>3, <2>3, <2>4 DEF ExpandHit, n, len
    <2>6. e \in Entry /\ e.len = len
        BY <2>1, <2>2, <2>3 DEF Entry
    <2> HIDE DEF e
    <2>7. Used(entries') = Used(entries) + len /\ Used(entries) \in Nat
        BY <1>1, <2>5, <2>6, UsedGrows
    <2> QED
        BY <1>1, <2>3, <2>5, <2>7 DEF WithinBudget
<1>4. CASE UNCHANGED <<entries, remaining, maxChars>>
    BY <1>4 DEF WithinBudget
<1> QED
    BY <1>2, <1>3, <1>4
       DEF ContextNext, ContextStep, SearchFails, PassForgotten, ExpandFails, AnswerContext, contextVars

-----------------------------------------------------------------------------
(* Results *)

(* The types of a request: its budget is within MaxChars, and what is left *)
(* within the budget.                                                      *)
THEOREM ContextTypeCorrect == ContextSpec => []ContextTypeOK
BY ContextAlways, PTL DEF ContextInv

(* For any store, limits and budget each result gets its share.            *)
THEOREM SharesAreFair == ContextSpec => []FairShare
BY ContextAlways, PTL DEF ContextInv

(* For any bodies and budgets the bodies of an answer and what is left of  *)
(* max_chars add up to it.                                                 *)
THEOREM AnswersFitBudget == ContextSpec => []WithinBudget
<1>1. LiveStoreInit /\ ContextInit => WithinBudget
    BY UsedNothing DEF ContextInit, WithinBudget
<1> QED
    BY <1>1, BudgetStep, ContextAlways, PTL DEF ContextSpec

(* For any scores and weights the better of two memories ranks first.      *)
THEOREM BestRankFirst == ContextSpec => []BetterRanksFirst
BY ContextAlways, PTL DEF ContextInv
=============================================================================
