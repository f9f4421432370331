--------------------------- MODULE IngestStateProofs ---------------------------
(***************************************************************************)
(* What the operators of IngestState return, for any fingerprints.          *)
(***************************************************************************)
EXTENDS IngestState, TLAPS

(* An input that has no attempt left for this fingerprint. *)
Exhausted(input, fp) == input.fp = fp /\ input.status = "quarantined"

LEMMA InputFields ==
    ASSUME NEW fps, NEW i \in Inputs(fps)
    PROVE  /\ i.fp \in fps \cup {NoFp}
           /\ i.status \in {"none", "processed", "failed", "quarantined"}
           /\ i.attempts \in 0 .. MaxAttempts
           /\ i.due \in BOOLEAN
           /\ i.status \in {"none", "processed"} <=> i.attempts = 0
           /\ i.status = "quarantined" <=> i.attempts = MaxAttempts
           /\ i.status # "none" => i.fp \in fps
<1>1. CASE i = NoInput
    BY <1>1, MaxAttemptsPositive DEF Input, NoInput
<1>2. CASE i # NoInput
    <2>1. /\ i \in [fp : fps, status : {"processed", "failed", "quarantined"},
                    attempts : 0 .. MaxAttempts, due : BOOLEAN]
          /\ i.status = "processed" => i.attempts = 0
          /\ i.status = "failed" => i.attempts \in 1 .. MaxAttempts - 1
          /\ i.status = "quarantined" => i.attempts = MaxAttempts
        BY <1>2 DEF Inputs
    <2> QED
        BY <2>1, MaxAttemptsPositive
<1> QED
    BY <1>1, <1>2

LEMMA NoInputTyped ==
    ASSUME NEW fps
    PROVE  /\ NoInput \in Inputs(fps)
           /\ NoInput.attempts = 0 /\ NoInput.status = "none" /\ NoInput.fp = NoFp
<1>1. NoInput \in Inputs(fps)
    BY DEF Inputs
<1> QED
    BY <1>1 DEF NoInput, Input

LEMMA ProcessedTyped ==
    ASSUME NEW fps, NEW f \in fps
    PROVE  /\ MarkProcessed(f) \in Inputs(fps)
           /\ MarkProcessed(f).attempts = 0
           /\ MarkProcessed(f).status = "processed" /\ MarkProcessed(f).fp = f
BY MaxAttemptsPositive DEF Inputs, MarkProcessed, Input

(* A failure counts one more, or one for a new fingerprint, and quarantines *)
(* at MaxAttempts.                                                          *)
LEMMA FailedTyped ==
    ASSUME NEW fps, NEW i \in Inputs(fps), NEW f \in fps, ~Exhausted(i, f)
    PROVE  /\ MarkFailed(i, f) \in Inputs(fps)
           /\ MarkFailed(i, f).attempts = IF i.fp = f THEN i.attempts + 1 ELSE 1
           /\ MarkFailed(i, f).fp = f
           /\ MarkFailed(i, f).status \in {"failed", "quarantined"}
<1> DEFINE n == AttemptsAfter(i, f)
<1>1. n \in 1 .. MaxAttempts /\ n = IF i.fp = f THEN i.attempts + 1 ELSE 1
    BY InputFields, MaxAttemptsPositive DEF AttemptsAfter, Exhausted
<1>2. CASE n >= MaxAttempts
    <2>1. n = MaxAttempts
        BY <1>1, <1>2, MaxAttemptsPositive
    <2>2. MarkFailed(i, f) = Input(f, "quarantined", MaxAttempts, TRUE)
        BY <1>2, <2>1 DEF MarkFailed
    <2> QED
        BY <1>1, <2>1, <2>2 DEF Inputs, Input
<1>3. CASE ~(n >= MaxAttempts)
    <2>1. MarkFailed(i, f) = Input(f, "failed", n, FALSE)
        BY <1>3 DEF MarkFailed
    <2>2. n \in 1 .. MaxAttempts - 1 /\ n \in 0 .. MaxAttempts
        BY <1>1, <1>3, MaxAttemptsPositive
    <2> HIDE DEF n
    <2> QED
        BY <1>1, <2>1, <2>2 DEF Inputs, Input
<1> QED
    BY <1>2, <1>3

(* The passing of time changes due alone. *)
LEMMA ElapsedTyped ==
    ASSUME NEW fps, NEW i \in Inputs(fps), NEW n
    PROVE  /\ Elapsed(i, n) \in Inputs(fps)
           /\ Elapsed(i, n).fp = i.fp
           /\ Elapsed(i, n).status = i.status
           /\ Elapsed(i, n).attempts = i.attempts
<1>1. CASE i.status = "failed" /\ i.attempts = n
    <2>1. Elapsed(i, n) = Input(i.fp, "failed", n, TRUE)
        BY <1>1 DEF Elapsed
    <2>2. i.fp \in fps /\ n \in 0 .. MaxAttempts /\ n \in 1 .. MaxAttempts - 1
        BY <1>1, InputFields, MaxAttemptsPositive
    <2> QED
        BY <1>1, <2>1, <2>2 DEF Inputs, Input
<1>2. CASE ~(i.status = "failed" /\ i.attempts = n)
    BY <1>2 DEF Elapsed
<1> QED
    BY <1>1, <1>2
=============================================================================
