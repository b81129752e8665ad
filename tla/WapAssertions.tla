----------------------------- MODULE WapAssertions -----------------------------
(***************************************************************************)
(* The three assertions of the library on all pairs of small payloads, and *)
(* what happens to these payloads: a reviewer corrects rates from the      *)
(* evidence of a failed check, loads of rows follow each other, a sample   *)
(* arrives in another unit, negated or over another window.                *)
(***************************************************************************)
EXTENDS WapFxReconciliation, WapRowCountDelta, WapDistribution, FiniteSets

CONSTANTS
    Names, Rates,                       \* of the FX payloads
    Counts, Absolutes, Percentages,     \* of the row counts
    Samples, DriftConfigs, Factors      \* of the samples

Dicts == UNION {[names -> Rates \cup {NaN, Text}] : names \in SUBSET Names}

Values == Int \cup {NaN, Text}

(* The drifts are those the constructor of NumericDistributionCheck takes. *)
ASSUME AssertionsAssumption ==
    /\ Rates \subseteq Int /\ NotADict \notin Dicts
    /\ Counts \subseteq Int /\ Absolutes \subseteq Int /\ Percentages \subseteq Int
    /\ Samples \subseteq Seq(Values) \cup {NoList} /\ NoList \notin Seq(Values)
    /\ DriftConfigs \subseteq
          [max_mean_drift : Nat, max_stddev_drift : Nat, min_sample_size : Nat \ {0}]
    /\ Factors \subseteq Nat

VARIABLES
    check,      \* the assertion at work
    config,     \* its arguments
    staged, reference,
    corrected,  \* the rates a reviewer has put right
    change      \* what happened to the samples

vars == <<check, config, staged, reference, corrected, change>>

FxPayloads == Dicts \cup {NotADict}

CountPayloads == Counts \cup {NoCount, NotAnInt}

RowConfigs ==
    {c \in [max_absolute_delta : Absolutes \cup {None},
            max_pct_delta : Percentages \cup {None},
            allow_empty : BOOLEAN] : IsConfig(c)}

Init ==
    /\ corrected = {} /\ change = "none"
    /\ \/ /\ check = "fx" /\ config = "default"
          /\ staged \in FxPayloads /\ reference \in FxPayloads
       \/ /\ check = "rows" /\ config \in RowConfigs
          /\ staged \in CountPayloads /\ reference \in CountPayloads
       \/ /\ check = "distribution" /\ config \in DriftConfigs
          /\ staged \in Samples /\ reference \in Samples

-------------------------------------------------------------------------------
(* A reviewer corrects some of what the evidence names.                    *)

Evidence == FxEvidence(staged, reference)
Named == Evidence.mismatches \cup Evidence.missing \cup Evidence.extra

Corrected(names) ==
    [k \in (DOMAIN staged \ (Evidence.extra \cap names))
             \cup (Evidence.missing \cap names) |->
        IF k \in names THEN reference[k] ELSE staged[k]]

Correctable ==
    check = "fx" /\ NotADict \notin {staged, reference} /\ corrected = {}

Correction ==
    /\ Correctable
    /\ corrected' \in SUBSET Named \ {{}}
    /\ staged' = Corrected(corrected')
    /\ UNCHANGED <<check, config, reference, change>>

-------------------------------------------------------------------------------
(* The next load is compared with the last count that passed.              *)

RowsPass == RowCountPasses(config, staged, reference)

PublishRows ==
    /\ check = "rows" /\ RowsPass
    /\ reference' = staged
    /\ staged' \in CountPayloads
    /\ UNCHANGED <<check, config, corrected, change>>

RefuseRows ==
    /\ check = "rows" /\ ~RowsPass
    /\ staged' \in CountPayloads
    /\ UNCHANGED <<check, config, reference, corrected, change>>

-------------------------------------------------------------------------------
(* The data are the reference's in another unit, both samples are negated, *)
(* or the reference is of a window twice as long.                          *)

SamplePasses == DistributionPasses(config, staged, reference)

Plain(sample) == IsUsable(sample) /\ ~HasNaN(sample)

Changeable ==
    /\ check = "distribution" /\ change = "none"
    /\ Plain(staged) /\ Plain(reference)

Scaled(sample, by) == [i \in DOMAIN sample |-> by * sample[i]]

SwapUnit ==
    /\ Changeable
    /\ \E by \in Factors : staged' = Scaled(reference, by)
    /\ change' = "unit"
    /\ UNCHANGED <<check, config, reference, corrected>>

Negate ==
    /\ Changeable
    /\ staged' = Scaled(staged, -1)
    /\ reference' = Scaled(reference, -1)
    /\ change' = "sign"
    /\ UNCHANGED <<check, config, corrected>>

Repeat ==
    /\ Changeable
    /\ reference' = reference \o reference
    /\ change' = "window"
    /\ UNCHANGED <<check, config, staged, corrected>>

(* Nothing is left to change: the system may stop. *)
Done ==
    /\ check # "rows" /\ ~Changeable
    /\ Correctable => Named = {}
    /\ UNCHANGED vars

Next ==
    Correction \/ PublishRows \/ RefuseRows \/ SwapUnit \/ Negate \/ Repeat \/ Done

Spec == Init /\ [][Next]_vars
-------------------------------------------------------------------------------
(* Properties.                                                             *)

(* "On FAILED: evidence contains all mismatched, missing, and unexpected   *)
(* pairs so a reviewer has complete information" (fx_reconciliation.py:94):*)
(* putting right what it names makes the data pass, and anything less does *)
(* not. (A reference value that is no number cannot be met.)               *)
EvidenceIsExact ==
    [][ (corrected = {} /\ corrected' # {}
            /\ \A k \in DOMAIN reference : reference[k] # Text) =>
          (FxPasses(staged', reference) <=> corrected' = Named) ]_vars

(* With a percentage for threshold a dataset that has rows keeps some,     *)
(* however many loads each shrink it by what passes, and its count never   *)
(* becomes one that would pass anything after it. At 100 percent it is     *)
(* only the guard for empty loads that keeps it from being emptied.        *)
RowsRemain ==
    [][ ( /\ check = "rows"
          /\ config.max_pct_delta # None
          /\ config.max_pct_delta < 100 \/ ~config.allow_empty
          /\ reference \notin {NoCount, NotAnInt} /\ reference > 0 ) =>
          reference' \notin {NoCount, NotAnInt} /\ reference' > 0 ]_vars

(* The check "catches unit swaps, scale errors" (distribution_check.py:11):*)
(* data in another unit pass only where both their mean and their deviation*)
(* are at most 1e-10 in that unit, even if the mean, or the deviation, of  *)
(* the reference is zero and there is no relative drift.                   *)
UnitSwapIsCaught ==
    change = "unit" /\ SamplePasses =>
        MeanIsNothing(staged) /\ StddevIsNothing(staged)

(* Losses and gains are watched alike: the sign of a field is no matter.   *)
SignDoesNotMatter ==
    [][change' = "sign" => (SamplePasses <=> SamplePasses')]_vars

(* The deviation is the population's, not the sample's, so windows of      *)
(* different lengths compare (distribution_check.py:65).                   *)
WindowDoesNotMatter ==
    [][change' = "window" => (SamplePasses <=> SamplePasses')]_vars

-------------------------------------------------------------------------------
(* What the documentation says and the code does not do; see README.       *)

(* "These keys MUST be present in staged and reference. Absence raises     *)
(* FAILED regardless of tolerance" (fx_reconciliation.py:56-58).           *)
RequiredKeysArePresent ==
    check = "fx" /\ FxPasses(staged, reference) =>
        RequiredKeys \subseteq DOMAIN staged \cap DOMAIN reference
===============================================================================
