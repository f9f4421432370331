---------------------------- MODULE ContextBuilder ----------------------------
(***************************************************************************)
(* The MCP tool `context` (internal/app/mcp.go: buildMemoryContext): one   *)
(* search, then a Get for each result while other clients change the       *)
(* store, the bodies cut so that together they keep to max_chars.          *)
(* A body counts by its length, BodyLength.                                *)
(***************************************************************************)
EXTENDS LiveStore, SearchBlend

CONSTANTS
    BodyLength,         \* the number of characters of each body
    MaxScore,           \* the legs of a search give scores up to this
    Weights,            \* the weights configured: pairs <<fts, vector>>
    AskedLimits,        \* what a caller may ask for as limit
    AskedChars,         \* and as max_chars
    DefaultLimit, MaxLimit,
    DefaultChars, MaxChars

ASSUME BodyLengthAssumption == BodyLength \in [Bodies -> Nat \ {0}]
ASSUME ContextAssumption ==
    /\ MaxScore \in Nat /\ Weights \subseteq Nat \X Nat
    /\ AskedLimits \subseteq Int /\ AskedChars \subseteq Int
    /\ MaxLimit \in Nat /\ MaxChars \in Nat
    /\ DefaultLimit \in 1..MaxLimit /\ DefaultChars \in 1..MaxChars

VARIABLES
    answering,      \* "idle", "found" while it expands results, "answered", "refused"
    maxChars,       \* the budget of the request
    legs,           \* what the legs of the search found, until the first Get
    hits,           \* the ids the search answered with, best first
    nextHit,        \* the result to expand next
    remaining,      \* characters left
    entries,        \* the entries so far
    truncated

contextVars == <<answering, maxChars, legs, hits, nextHit, remaining, entries, truncated>>

NoLegs == [fts |-> <<>>, vec |-> <<>>, w |-> <<0, 0>>]
Entry == [id : Memories, full : Nat, len : Nat]

ContextTypeOK ==
    /\ answering \in {"idle", "found", "answered", "refused"}
    /\ maxChars \in 0..MaxChars
    /\ hits \in Seq(Memories)
    /\ nextHit \in Nat
    /\ remaining \in 0..maxChars
    /\ entries \in Seq(Entry)
    /\ truncated \in BOOLEAN

ContextInit ==
    /\ answering = "idle"
    /\ maxChars = 0
    /\ legs = NoLegs
    /\ hits = <<>>
    /\ nextHit = 1
    /\ remaining = 0
    /\ entries = <<>>
    /\ truncated = FALSE

normalizeContextLimit(n) == IF n <= 0 THEN DefaultLimit ELSE IF n > MaxLimit THEN MaxLimit ELSE n
UncappedMaxChars(n) == IF n <= 0 THEN DefaultChars ELSE n     \* mutant
normalizeContextMaxChars(n) == IF n <= 0 THEN DefaultChars ELSE IF n > MaxChars THEN MaxChars ELSE n

(* A leg finds some live records, at most limit of them.                   *)
Legs(limit) == UNION {[ids -> 0..MaxScore] : ids \in {s \in SUBSET Live : Cardinality(s) <= limit}}

AskContext ==
    /\ answering = "idle"
    /\ \E asked \in AskedChars : maxChars' = normalizeContextMaxChars(asked)
    /\ remaining' = maxChars'
    /\ \E asked \in AskedLimits :
         LET limit == normalizeContextLimit(asked) IN
         \E fts \in Legs(limit), vec \in Legs(limit), w \in Weights :
             /\ legs' = [fts |-> fts, vec |-> vec, w |-> w]
             /\ hits' \in Rankings(fts, vec, w, limit)
    /\ answering' = "found"
    /\ UNCHANGED <<nextHit, entries, truncated>>

SearchFails ==
    /\ answering = "idle"
    /\ answering' = "refused"
    /\ UNCHANGED <<maxChars, legs, hits, nextHit, remaining, entries, truncated>>

(* limitText: the length of what is left of a body of length n; it was cut *)
(* when that is less.  The marker "..." replaces the last characters when  *)
(* there is room for more than it.                                         *)
Marker == 3

(* Mutant: the marker comes on top of max characters.                      *)
MarkText(n, max) ==
    IF max <= 0 THEN 0 ELSE IF n <= max THEN n ELSE max + Marker

limitText(n, max) ==
    IF max <= 0 THEN 0
    ELSE IF n <= max THEN n
    ELSE IF max <= Marker THEN max
    ELSE (max - Marker) + Marker

(* An equal share of what is left for each result that is left; when that  *)
(* is less than a character, all that is left.                             *)
AllRemaining == remaining       \* mutant: first come, first served
EntryBudget ==
    LET share == remaining \div (Len(hits) - nextHit + 1) IN
    IF share = 0 THEN remaining ELSE share

Expanding == answering = "found" /\ nextHit <= Len(hits)
FoundBody == recs[hits[nextHit]]

ExpandHit ==
    /\ Expanding
    /\ FoundBody # Gone
    /\ LET n == BodyLength[FoundBody]
           len == limitText(n, EntryBudget)
       IN
       /\ entries' = Append(entries, [id |-> hits[nextHit], full |-> n, len |-> len])
       /\ truncated' = (truncated \/ len < n)
       /\ remaining' = IF len > remaining THEN 0 ELSE remaining - len
    /\ nextHit' = nextHit + 1
    /\ legs' = NoLegs
    /\ UNCHANGED <<answering, maxChars, hits>>

(* Get says not found: the memory was forgotten since the search.          *)
PassForgotten ==
    /\ Expanding
    /\ FoundBody = Gone
    /\ nextHit' = nextHit + 1
    /\ legs' = NoLegs
    /\ UNCHANGED <<answering, maxChars, hits, remaining, entries, truncated>>

ExpandFails ==
    /\ Expanding
    /\ answering' = "refused"
    /\ UNCHANGED <<maxChars, legs, hits, nextHit, remaining, entries, truncated>>

AnswerContext ==
    /\ answering = "found" /\ nextHit > Len(hits)
    /\ answering' = "answered"
    /\ UNCHANGED <<maxChars, legs, hits, nextHit, remaining, entries, truncated>>

ContextStep ==
    \/ AskContext \/ SearchFails
    \/ ExpandHit \/ PassForgotten \/ ExpandFails \/ AnswerContext

ContextNext ==
    \/ ContextStep /\ UNCHANGED recs
    \/ OthersWrite /\ UNCHANGED contextVars

ContextSpec == LiveStoreInit /\ ContextInit /\ [][ContextNext]_<<recs, contextVars>>

-----------------------------------------------------------------------------
Used(es) ==
    LET used[n \in 0..Len(es)] == IF n = 0 THEN 0 ELSE used[n - 1] + es[n].len
    IN  used[Len(es)]

(* The bodies of an answer are together no longer than max_chars, the      *)
(* marker included, and what is left is what they have not used (the       *)
(* bookkeeping of remaining in buildMemoryContext, docs/mcp.md).           *)
WithinBudget == Used(entries) + remaining = maxChars

(* No result starves those after it: each entry has its body, or the share *)
(* of max_chars it would have if all results were as long, whatever was    *)
(* forgotten between the search and the Gets.                              *)
FairShare ==
    \A x \in DOMAIN entries :
        \/ entries[x].len = entries[x].full
        \/ entries[x].len >= maxChars \div Len(hits)

(* A memory that is at least as good as another in each leg, and better in *)
(* one that counts, comes before it, also when the limit cuts the list.    *)
NoWorse(i, j) ==
    /\ j \in DOMAIN legs.fts => i \in DOMAIN legs.fts /\ legs.fts[i] >= legs.fts[j]
    /\ j \in DOMAIN legs.vec => i \in DOMAIN legs.vec /\ legs.vec[i] <= legs.vec[j]
Better(i, j) ==
    \/ {i, j} \subseteq DOMAIN legs.fts /\ legs.w[1] > 0 /\ legs.fts[i] > legs.fts[j]
    \/ {i, j} \subseteq DOMAIN legs.vec /\ legs.w[2] > 0 /\ legs.vec[i] < legs.vec[j]
BetterRanksFirst ==
    \A y \in DOMAIN hits :
        \A i \in (DOMAIN legs.fts) \cup (DOMAIN legs.vec) :
            NoWorse(i, hits[y]) /\ Better(i, hits[y]) => \E x \in 1..(y - 1) : hits[x] = i
=============================================================================
