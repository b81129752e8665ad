--------------------------- MODULE WapRowCountDelta ---------------------------
(***************************************************************************)
(* RowCountDelta: __init__() and check(). A payload is abstracted to what  *)
(* it has under row_count_key; percentages are whole numbers.              *)
(***************************************************************************)
EXTENDS Integers

CONSTANTS
    None,
    NoCount,        \* the payload is no dict or lacks the key
    NotAnInt

ASSUME RowCountAssumption ==
    None \notin Int /\ NoCount \notin Int /\ NotAnInt \notin Int

(* The arguments the constructor accepts: exactly one threshold.           *)
IsConfig(c) ==
    /\ (c.max_absolute_delta = None) # (c.max_pct_delta = None)
    /\ c.max_absolute_delta # None => c.max_absolute_delta >= 0
    /\ c.max_pct_delta # None => c.max_pct_delta \in 0 .. 100

(* A mutant: the abs() is missing. *)
SignedDelta(staged, reference) == staged - reference

AbsoluteDelta(staged, reference) ==
    IF staged < reference THEN reference - staged ELSE staged - reference

(* absolute_delta / reference_count * 100 <= max_pct_delta: multiplying by *)
(* a negative count turns the comparison around.                           *)
WithinPercentage(c, staged, reference) ==
    LET delta == 100 * AbsoluteDelta(staged, reference)
        most  == c.max_pct_delta * reference
    IN  \/ reference = 0 /\ staged = 0
        \/ reference > 0 /\ delta <= most
        \/ reference < 0 /\ delta >= most

EmptyIsAllowed(c, staged) == staged = 0 => c.allow_empty

RowCountPasses(c, staged, reference) ==
    /\ {staged, reference} \cap {NoCount, NotAnInt} = {}
    /\ EmptyIsAllowed(c, staged)
    /\ IF c.max_absolute_delta # None
       THEN AbsoluteDelta(staged, reference) <= c.max_absolute_delta
       ELSE WithinPercentage(c, staged, reference)
===============================================================================
