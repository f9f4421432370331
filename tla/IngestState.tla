----------------------------- MODULE IngestState -----------------------------
(***************************************************************************)
(* What the ingest state (internal/ingeststate/state.go) remembers of one  *)
(* input, a git event or a transcript, and how an attempt changes it.       *)
(* A time is kept only as "has it passed": due is FALSE from a failure on   *)
(* until NextAttemptAt, which the users of this module let pass.            *)
(***************************************************************************)
EXTENDS Naturals

CONSTANTS
    MaxAttempts,    \* failures of one fingerprint before it is quarantined (3)
    NoFp            \* the fingerprint of no input

ASSUME MaxAttemptsPositive == MaxAttempts \in Nat \ {0}

Input(fp, status, attempts, due) ==
    [fp |-> fp, status |-> status, attempts |-> attempts, due |-> due]

(* A key that is not in the map. *)
NoInput == Input(NoFp, "none", 0, TRUE)

(* The records Load can return for inputs with these fingerprints: after    *)
(* MaxAttempts failures an input is quarantined, not failed.                *)
Inputs(fps) ==
    {NoInput} \cup
    {i \in [fp : fps, status : {"processed", "failed", "quarantined"},
            attempts : 0 .. MaxAttempts, due : BOOLEAN] :
        /\ i.status = "processed" => i.attempts = 0
        /\ i.status = "failed" => i.attempts \in 1 .. MaxAttempts - 1
        /\ i.status = "quarantined" => i.attempts = MaxAttempts}

(* A ShouldProcess that reads the retry time the wrong way round. *)
RetryEarly(input, fp) ==
    input.fp # fp \/ (input.status = "failed" /\ ~input.due)

ShouldProcess(input, fp) ==
    \/ input.fp # fp
    \/ input.status = "failed" /\ input.due

MarkProcessed(fp) == Input(fp, "processed", 0, TRUE)

(* Counting on for another fingerprint, and anew for the same. *)
AttemptsSwapped(input, fp) == IF input.fp # fp THEN input.attempts + 1 ELSE 1

(* Counting on, whatever the fingerprint. *)
AttemptsKept(input, fp) == input.attempts + 1

AttemptsAfter(input, fp) == IF input.fp = fp THEN input.attempts + 1 ELSE 1

(* One failure more, or one fewer, before the quarantine. *)
QuarantineLate(input, fp) ==
    LET n == AttemptsAfter(input, fp) IN
    IF n > MaxAttempts THEN Input(fp, "quarantined", n, TRUE)
                       ELSE Input(fp, "failed", n, FALSE)

QuarantineSoon(input, fp) ==
    LET n == AttemptsAfter(input, fp) IN
    IF n + 1 >= MaxAttempts THEN Input(fp, "quarantined", MaxAttempts, TRUE)
                            ELSE Input(fp, "failed", n, FALSE)

MarkFailed(input, fp) ==
    LET n == AttemptsAfter(input, fp) IN
    IF n >= MaxAttempts THEN Input(fp, "quarantined", n, TRUE)
                        ELSE Input(fp, "failed", n, FALSE)

(* Time goes by for the inputs that have failed n times. *)
Elapsed(input, n) ==
    IF input.status = "failed" /\ input.attempts = n THEN Input(input.fp, "failed", n, TRUE)
                                                     ELSE input
=============================================================================
