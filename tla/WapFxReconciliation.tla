------------------------- MODULE WapFxReconciliation -------------------------
(***************************************************************************)
(* FxRateReconciliation.check(): the staged rates against the reference's, *)
(* field by field. A payload is a function from names to values.           *)
(***************************************************************************)
EXTENDS WapValues

CONSTANTS
    Tolerance,
    RequiredKeys,
    NotADict        \* any payload that is no dict

ASSUME FxAssumption == Tolerance \in Nat

Distance(a, b) == IF a < b THEN b - a ELSE a - b

(* A mutant: the abs() is missing. *)
DisagreeUpwards(a, b) ==
    \/ Text \in {a, b}
    \/ NaN \notin {a, b} /\ a - b > Tolerance

Disagree(a, b) ==
    \/ Text \in {a, b}
    \/ NaN \notin {a, b} /\ Distance(a, b) > Tolerance

Mismatches(staged, reference) ==
    {k \in DOMAIN staged \cap DOMAIN reference : Disagree(staged[k], reference[k])}

MissingInStaged(staged, reference) == DOMAIN reference \ DOMAIN staged
ExtraInStaged(staged, reference)   == DOMAIN staged \ DOMAIN reference
RequiredMissing(staged)            == RequiredKeys \ DOMAIN staged

(* A mutant: only the pairs both have are looked at. *)
FxPassesOnCommonPairs(staged, reference) ==
    /\ NotADict \notin {staged, reference}
    /\ Mismatches(staged, reference) = {}

FxPasses(staged, reference) ==
    /\ NotADict \notin {staged, reference}
    /\ Mismatches(staged, reference) \cup MissingInStaged(staged, reference)
         \cup ExtraInStaged(staged, reference) = {}

(* What a failed result shows the reviewer of two dicts.                   *)
FxEvidence(staged, reference) ==
    [mismatches       |-> Mismatches(staged, reference),
     missing          |-> MissingInStaged(staged, reference),
     extra            |-> ExtraInStaged(staged, reference),
     required_missing |-> RequiredMissing(staged)]
===============================================================================
