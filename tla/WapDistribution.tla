---------------------------- MODULE WapDistribution ----------------------------
(***************************************************************************)
(* NumericDistributionCheck.check(): mean and standard deviation of two    *)
(* samples. A payload is abstracted to the list under the field;           *)
(* tolerances are whole percentages. Ratios and roots are compared exactly,*)
(* by their products and squares; sums are exact, too.                     *)
(***************************************************************************)
EXTENDS WapValues, Sequences, Functions

CONSTANTS
    NoList,         \* the payload is no dict, lacks the key or has no list there
    Tiny            \* 1e-10, in the unit of the values

ASSUME TinyAssumption == Tiny \in Nat \ {0}

Size(n) == IF n < 0 THEN -n ELSE n

IsUsable(sample) == sample # NoList /\ sample # <<>> /\ Text \notin Range(sample)

HasNaN(sample) == NaN \in Range(sample)

(* What sum() has added up after each of m values. *)
Sums(values, m) ==
    LET sum[n \in 0 .. m] == IF n = 0 THEN 0 ELSE sum[n - 1] + values[n]
    IN  sum

Squares(sample) == [i \in DOMAIN sample |-> sample[i] * sample[i]]

Total(sample)       == Sums(sample, Len(sample))[Len(sample)]
SquareTotal(sample) == Sums(Squares(sample), Len(sample))[Len(sample)]

(* A mutant: the tolerance is a fraction of the signed reference. *)
WithinOfSigned(drift, max, reference) == 100 * drift <= max * reference

(* _relative_drift() against its maximum. *)
Within(drift, max, reference) == 100 * drift <= max * Size(reference)

(* Of a reference below 1e-10 the relative drift is None, and the staged   *)
(* value must be no more than that, either.                                *)
MeanIsNone(reference)  == Size(Total(reference)) < Tiny * Len(reference)
MeanIsNothing(staged)  == Size(Total(staged)) <= Tiny * Len(staged)

MeanWithin(c, staged, reference) ==
    \/ HasNaN(staged) \/ HasNaN(reference)
    \/ MeanIsNone(reference) /\ MeanIsNothing(staged)
    \/ LET s == Total(staged) * Len(reference)
           r == Total(reference) * Len(staged)
       IN  ~MeanIsNone(reference) /\ Within(Size(s - r), c.max_mean_drift, r)

(* A mutant: the sample deviation, with n - 1, as a square by n * n.       *)
SampleVariance(sample) ==
    IF Len(sample) < 2 THEN 0
    ELSE ((Len(sample) * SquareTotal(sample) - Total(sample) * Total(sample))
             * Len(sample)) \div (Len(sample) - 1)

(* The variance, times the square of the length. *)
Variance(sample) ==
    IF Len(sample) < 2 THEN 0
    ELSE Len(sample) * SquareTotal(sample) - Total(sample) * Total(sample)

(* One value has the deviation zero, whatever it is. *)
SpreadIsNaN(sample) == HasNaN(sample) /\ Len(sample) > 1

Squared(n) == n * n

StddevIsNone(reference) == Variance(reference) < Squared(Tiny * Len(reference))
StddevIsNothing(staged) == Variance(staged) <= Squared(Tiny * Len(staged))

(* A mutant: without a relative drift of the mean nothing is compared. *)
StddevUnlessCentred(c, staged, reference) ==
    \/ HasNaN(staged) \/ HasNaN(reference)
    \/ MeanIsNone(reference)
    \/ Variance(staged) <= 4 * Variance(reference)

StddevWithin(c, staged, reference) ==
    \/ SpreadIsNaN(staged) \/ SpreadIsNaN(reference)
    \/ StddevIsNone(reference) /\ StddevIsNothing(staged)
    \/ LET s == Variance(staged) * Squared(Len(reference))
           r == Variance(reference) * Squared(Len(staged))
           max == c.max_stddev_drift
       IN  /\ ~StddevIsNone(reference)
           /\ 10000 * s <= Squared(100 + max) * r
           /\ max < 100 => 10000 * s >= Squared(100 - max) * r

DistributionPasses(c, staged, reference) ==
    /\ IsUsable(staged) /\ IsUsable(reference)
    /\ Len(staged) >= c.min_sample_size
    /\ MeanWithin(c, staged, reference)
    /\ StddevWithin(c, staged, reference)
===============================================================================
