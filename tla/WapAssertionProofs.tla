-------------------------- MODULE WapAssertionProofs --------------------------
(***************************************************************************)
(* Theorems about the three assertions and about WapAssertions, for all    *)
(* payloads, tolerances and factors. The laws of Sums that the comparison  *)
(* of samples rests on are proved by induction on the number of summands.  *)
(***************************************************************************)
EXTENDS WapAssertions, WellFoundedInduction, TLAPS

(* Induction for a set of numbers: the least number that is not in it      *)
(* would have a predecessor that is.                                       *)
LEMMA Induction ==
  ASSUME NEW m \in Nat, NEW A, 0 \in A,
         \A n \in 0 .. m - 1 : n \in A => n + 1 \in A
  PROVE  \A n \in 0 .. m : n \in A
<1> DEFINE Rest == {n \in 0 .. m : n \notin A}
<1> SUFFICES ASSUME Rest # {} PROVE FALSE
  OBVIOUS
<1>1. Rest \subseteq Nat
  OBVIOUS
<1> HIDE DEF Rest
<1>2. PICK n \in Rest : \A k \in Rest : ~ (<<k, n>> \in OpToRel(<, Nat))
  BY <1>1, NatLessThanWellFounded, WFMin, Zenon
<1> USE DEF Rest
<1>3. n # 0 /\ n - 1 \in Nat /\ n - 1 \in 0 .. m - 1 /\ n \in Nat
  OBVIOUS
<1>4. n - 1 < n
  BY <1>3
<1>5. <<n - 1, n>> \in OpToRel(<, Nat)
  BY <1>3, <1>4, Zenon DEF OpToRel
<1>6. n - 1 \notin Rest
  BY <1>2, <1>5, Zenon
<1>. QED
  BY <1>3, <1>6

-------------------------------------------------------------------------------
(* The recursive function Sums exists, so it is what its equation says.    *)

AddsUp(sum, values, m) ==
    /\ sum \in [0 .. m -> Int]
    /\ sum[0] = 0
    /\ \A n \in 1 .. m : sum[n] = sum[n - 1] + values[n]

LEMMA OneMore ==
  ASSUME NEW m \in Nat, NEW values, values[m + 1] \in Int,
         NEW sum, AddsUp(sum, values, m)
  PROVE  \E more : AddsUp(more, values, m + 1)
<1> DEFINE more == [n \in 0 .. m + 1 |->
                      IF n = m + 1 THEN sum[m] + values[m + 1] ELSE sum[n]]
<1>1. more \in [0 .. m + 1 -> Int]
  BY DEF AddsUp
<1>2. more[0] = 0
  BY DEF AddsUp
<1>3. ASSUME NEW n \in 1 .. m + 1 PROVE more[n] = more[n - 1] + values[n]
  <2>1. CASE n = m + 1
    BY <2>1
  <2>2. CASE n # m + 1
    <3>1. n \in 1 .. m /\ n \in 0 .. m /\ n - 1 \in 0 .. m + 1 /\ n - 1 # m + 1
      BY <2>2
    <3>2. more[n] = sum[n] /\ more[n - 1] = sum[n - 1]
      BY <2>2, <3>1
    <3>. QED
      BY <3>1, <3>2 DEF AddsUp
  <2>. QED
    BY <2>1, <2>2
<1> HIDE DEF more
<1>. QED
  BY <1>1, <1>2, <1>3 DEF AddsUp

LEMMA SumsExist ==
  ASSUME NEW m \in Nat, NEW values, \A n \in 1 .. m : values[n] \in Int
  PROVE  \E sum : AddsUp(sum, values, m)
<1> DEFINE A == {n \in 0 .. m : \E sum : AddsUp(sum, values, n)}
<1>1. 0 \in A
  <2>1. AddsUp([n \in 0 .. 0 |-> 0], values, 0)
    BY DEF AddsUp
  <2>. QED
    BY <2>1
<1>2. ASSUME NEW n \in 0 .. m - 1, n \in A PROVE n + 1 \in A
  <2>1. n + 1 \in 1 .. m /\ n \in Nat
    OBVIOUS
  <2>2. \E more : AddsUp(more, values, n + 1)
    BY <1>2, <2>1, OneMore
  <2>. QED
    BY <2>1, <2>2
<1> HIDE DEF A
<1>3. m \in A
  BY <1>1, <1>2, Induction
<1>. QED
  BY <1>3 DEF A

LEMMA SumsType ==
  ASSUME NEW m \in Nat, NEW values, \A n \in 1 .. m : values[n] \in Int
  PROVE  AddsUp(Sums(values, m), values, m)
<1> DEFINE Equation(sum) ==
      sum = [n \in 0 .. m |-> IF n = 0 THEN 0 ELSE sum[n - 1] + values[n]]
<1>1. \E sum : Equation(sum)
  <2>1. PICK sum : AddsUp(sum, values, m)
    BY SumsExist
  <2>2. Equation(sum)
    BY <2>1 DEF AddsUp
  <2>. QED
    BY <2>2
<1>2. Equation(Sums(values, m))
  BY <1>1 DEF Sums
<1> DEFINE sum == Sums(values, m)
<1> HIDE DEF sum
<1>3. /\ sum = [n \in 0 .. m |-> sum[n]]
      /\ \A n \in 0 .. m : sum[n] = IF n = 0 THEN 0 ELSE sum[n - 1] + values[n]
  BY <1>2 DEF sum
<1>a. sum[0] = 0 /\ \A n \in 1 .. m : sum[n] = sum[n - 1] + values[n]
  <2>1. 0 \in 0 .. m
    OBVIOUS
  <2>2. sum[0] = 0
    BY <1>3, <2>1, Zenon
  <2>3. ASSUME NEW n \in 1 .. m PROVE sum[n] = sum[n - 1] + values[n]
    <3>1. n \in 0 .. m /\ n # 0
      OBVIOUS
    <3>. QED
      BY <1>3, <3>1, Zenon
  <2>. QED
    BY <2>2, <2>3
<1>4. \A n \in 0 .. m : sum[n] \in Int
  <2> DEFINE A == {n \in 0 .. m : sum[n] \in Int}
  <2>1. 0 \in A
    BY <1>a
  <2>2. ASSUME NEW n \in 0 .. m - 1, n \in A PROVE n + 1 \in A
    <3>1. n + 1 \in 0 .. m /\ n + 1 \in 1 .. m /\ n + 1 # 0 /\ (n + 1) - 1 = n
      OBVIOUS
    <3>2. sum[n + 1] = sum[n] + values[n + 1]
      BY <1>a, <3>1
    <3>. QED
      BY <2>2, <3>1, <3>2
  <2> HIDE DEF A
  <2>3. \A n \in 0 .. m : n \in A
    BY <2>1, <2>2, Induction
  <2>. QED
    BY <2>3 DEF A
<1>5. sum \in [0 .. m -> Int]
  BY <1>3, <1>4, Zenon
<1>. QED
  BY <1>a, <1>5 DEF AddsUp, sum

-------------------------------------------------------------------------------
(* The laws of sums.                                                       *)

Numbers(values, m) == \A n \in 1 .. m : values[n] \in Int

LEMMA Combine ==
  ASSUME NEW a \in Int, NEW b \in Int, NEW c \in Int, NEW k \in Int,
         NEW x \in Int, NEW y \in Int, NEW v \in Int, NEW w \in Int
  PROVE  (a * x + b * y + c * k) + (a * v + b * w + c)
            = a * (x + v) + b * (y + w) + c * (k + 1)
  OBVIOUS

(* Of a linear combination of two lists and a constant. *)
LEMMA SumOfCombination ==
  ASSUME NEW m \in Nat, NEW a \in Int, NEW b \in Int, NEW c \in Int,
         NEW f, NEW e, NEW h, Numbers(f, m), Numbers(e, m),
         \A n \in 1 .. m : h[n] = a * f[n] + b * e[n] + c
  PROVE  Sums(h, m)[m] = a * Sums(f, m)[m] + b * Sums(e, m)[m] + c * m
<1>1. Numbers(h, m)
  BY DEF Numbers
<1> DEFINE F == Sums(f, m)
           E == Sums(e, m)
           H == Sums(h, m)
<1>2. AddsUp(F, f, m) /\ AddsUp(E, e, m) /\ AddsUp(H, h, m)
  BY <1>1, SumsType DEF Numbers
<1> HIDE DEF F, E, H
<1> DEFINE A == {n \in 0 .. m : H[n] = a * F[n] + b * E[n] + c * n}
<1>3. 0 \in A
  BY <1>2 DEF AddsUp
<1>4. ASSUME NEW n \in 0 .. m - 1, n \in A PROVE n + 1 \in A
  <2>1. n + 1 \in 1 .. m /\ n + 1 \in 0 .. m /\ (n + 1) - 1 = n /\ n \in Int
    OBVIOUS
  <2>2. F[n] \in Int /\ E[n] \in Int /\ f[n + 1] \in Int /\ e[n + 1] \in Int
    BY <1>2, <2>1 DEF AddsUp, Numbers
  <2>3. /\ F[n + 1] = F[n] + f[n + 1] /\ E[n + 1] = E[n] + e[n + 1]
        /\ H[n + 1] = H[n] + h[n + 1]
    BY <1>2, <2>1 DEF AddsUp
  <2>4. h[n + 1] = a * f[n + 1] + b * e[n + 1] + c
    BY <2>1
  <2>5. H[n + 1] = a * (F[n] + f[n + 1]) + b * (E[n] + e[n + 1]) + c * (n + 1)
    BY <1>4, <2>1, <2>2, <2>3, <2>4, Combine
  <2>. QED
    BY <2>1, <2>3, <2>5
<1> HIDE DEF A
<1>5. m \in A
  BY <1>3, <1>4, Induction
<1>. QED
  BY <1>5 DEF A, F, E, H

(* Of a multiple of a list. *)
LEMMA SumOfMultiple ==
  ASSUME NEW m \in Nat, NEW a \in Int, NEW f, NEW h, Numbers(f, m),
         \A n \in 1 .. m : h[n] = a * f[n]
  PROVE  Sums(h, m)[m] = a * Sums(f, m)[m]
<1>1. PICK zero \in Int : zero = 0
  OBVIOUS
<1>2. \A n \in 1 .. m : h[n] = a * f[n] + zero * f[n] + zero
  BY <1>1 DEF Numbers
<1>3. Sums(h, m)[m] = a * Sums(f, m)[m] + zero * Sums(f, m)[m] + zero * m
  BY <1>2, SumOfCombination
<1>4. Sums(f, m)[m] \in Int
  BY SumsType DEF Numbers, AddsUp
<1>. QED
  BY <1>1, <1>3, <1>4

(* Of a list that is another one twice. *)
LEMMA SumOfRepetition ==
  ASSUME NEW m \in Nat, NEW f, NEW h, Numbers(f, m),
         \A n \in 1 .. m : h[n] = f[n] /\ h[m + n] = f[n]
  PROVE  Sums(h, m + m)[m + m] = 2 * Sums(f, m)[m]
<1>1. Numbers(h, m + m)
  <2> SUFFICES ASSUME NEW n \in 1 .. m + m PROVE h[n] \in Int
    BY DEF Numbers
  <2>1. CASE n \in 1 .. m
    BY <2>1 DEF Numbers
  <2>2. CASE n \notin 1 .. m
    <3>1. n - m \in 1 .. m /\ m + (n - m) = n
      BY <2>2
    <3>. QED
      BY <3>1 DEF Numbers
  <2>. QED
    BY <2>1, <2>2
<1> DEFINE F == Sums(f, m)
           H == Sums(h, m + m)
<1>2. AddsUp(F, f, m) /\ AddsUp(H, h, m + m)
  BY <1>1, SumsType DEF Numbers
<1> HIDE DEF F, H
<1> DEFINE A == {n \in 0 .. m : H[n] = F[n]}
           B == {n \in 0 .. m : H[m + n] = F[m] + F[n]}
<1>3. 0 \in A
  BY <1>2 DEF AddsUp
<1>4. ASSUME NEW n \in 0 .. m - 1, n \in A PROVE n + 1 \in A
  <2>1. n + 1 \in 1 .. m /\ n + 1 \in 0 .. m /\ n + 1 \in 1 .. m + m /\ (n + 1) - 1 = n
    OBVIOUS
  <2>2. F[n + 1] = F[n] + f[n + 1] /\ H[n + 1] = H[n] + h[n + 1]
    BY <1>2, <2>1 DEF AddsUp
  <2>3. h[n + 1] = f[n + 1]
    BY <2>1
  <2>. QED
    BY <1>4, <2>1, <2>2, <2>3
<1>5. m \in A
  <2> HIDE DEF A
  <2>. QED
    BY <1>3, <1>4, Induction
<1>6. 0 \in B
  BY <1>2, <1>5 DEF AddsUp
<1>7. ASSUME NEW n \in 0 .. m - 1, n \in B PROVE n + 1 \in B
  <2>1. /\ n + 1 \in 1 .. m /\ n + 1 \in 0 .. m /\ m + (n + 1) \in 1 .. m + m
        /\ (n + 1) - 1 = n /\ (m + (n + 1)) - 1 = m + n
    OBVIOUS
  <2>2. F[n + 1] = F[n] + f[n + 1] /\ H[m + (n + 1)] = H[m + n] + h[m + (n + 1)]
    BY <1>2, <2>1 DEF AddsUp
  <2>3. h[m + (n + 1)] = f[n + 1]
    BY <2>1
  <2>4. F[m] \in Int /\ F[n] \in Int /\ f[n + 1] \in Int
    BY <1>2, <2>1 DEF AddsUp, Numbers
  <2>. QED
    BY <1>7, <2>1, <2>2, <2>3, <2>4
<1>8. m \in B
  <2> HIDE DEF B
  <2>. QED
    BY <1>6, <1>7, Induction
<1>9. F[m] \in Int
  BY <1>2 DEF AddsUp
<1>. QED
  BY <1>8, <1>9 DEF F, H

(* Of a list without negative numbers: no less than any of them. *)
LEMMA SumOfNaturals ==
  ASSUME NEW m \in Nat, NEW f, \A n \in 1 .. m : f[n] \in Nat
  PROVE  Sums(f, m)[m] \in Nat /\ \A i \in 1 .. m : f[i] <= Sums(f, m)[m]
<1> DEFINE F == Sums(f, m)
<1>1. AddsUp(F, f, m)
  BY SumsType
<1> HIDE DEF F
<1> DEFINE A == {n \in 0 .. m : F[n] \in Nat /\ \A i \in 1 .. n : f[i] <= F[n]}
<1>2. 0 \in A
  BY <1>1 DEF AddsUp
<1>3. ASSUME NEW n \in 0 .. m - 1, n \in A PROVE n + 1 \in A
  <2>1. n + 1 \in 1 .. m /\ n + 1 \in 0 .. m /\ (n + 1) - 1 = n
    OBVIOUS
  <2>2. F[n + 1] = F[n] + f[n + 1] /\ f[n + 1] \in Nat /\ F[n] \in Nat
    BY <1>1, <1>3, <2>1 DEF AddsUp
  <2>3. ASSUME NEW i \in 1 .. n + 1 PROVE f[i] <= F[n + 1]
    <3>1. CASE i = n + 1
      BY <2>2, <3>1
    <3>2. CASE i # n + 1
      <4>1. i \in 1 .. n /\ i \in 1 .. m
        BY <3>2
      <4>2. f[i] <= F[n] /\ f[i] \in Nat
        BY <1>3, <4>1
      <4>. QED
        BY <2>2, <4>2
    <3>. QED
      BY <3>1, <3>2
  <2>. QED
    BY <2>1, <2>2, <2>3
<1> HIDE DEF A
<1>4. m \in A
  BY <1>2, <1>3, Induction
<1>. QED
  BY <1>4 DEF A, F

-------------------------------------------------------------------------------
(* The statistics of a sample.                                             *)

Sample(s) == s \in Seq(Int) /\ s # <<>>

LEMMA PlainIsSample ==
  ASSUME NEW s \in Seq(Values) \cup {NoList}, Plain(s)
  PROVE  Sample(s)
<1>1. s \in Seq(Values) /\ s # <<>>
  BY DEF Plain, IsUsable
<1>2. ASSUME NEW i \in 1 .. Len(s) PROVE s[i] \in Int
  <2>1. s[i] \in Values /\ s[i] \in Range(s)
    BY <1>1 DEF Range
  <2>. QED
    BY <2>1 DEF Plain, IsUsable, HasNaN, Values
<1>. QED
  BY <1>1, <1>2 DEF Sample

LEMMA SampleIsPlain ==
  ASSUME NEW s, Sample(s)
  PROVE  Plain(s) /\ IsUsable(s) /\ ~HasNaN(s) /\ ~SpreadIsNaN(s)
<1>1. \A x \in Range(s) : x \in Int
  BY DEF Sample, Range
<1>2. Text \notin Range(s) /\ NaN \notin Range(s)
  BY <1>1, ValuesAssumption
<1>3. s # NoList
  BY AssertionsAssumption DEF Sample, Values
<1>. QED
  BY <1>2, <1>3 DEF Sample, Plain, IsUsable, HasNaN, SpreadIsNaN

LEMMA SampleNumbers ==
  ASSUME NEW s, Sample(s)
  PROVE  /\ Len(s) \in Nat \ {0} /\ DOMAIN s = 1 .. Len(s)
         /\ Numbers(s, Len(s)) /\ Numbers(Squares(s), Len(s))
         /\ \A i \in 1 .. Len(s) : Squares(s)[i] = s[i] * s[i] /\ Squares(s)[i] \in Nat
<1>1. Len(s) \in Nat \ {0} /\ DOMAIN s = 1 .. Len(s)
  BY DEF Sample
<1>2. \A i \in 1 .. Len(s) : s[i] \in Int
  BY DEF Sample
<1>3. \A x \in Int : x * x \in Nat
  OBVIOUS
<1>4. \A i \in 1 .. Len(s) : Squares(s)[i] = s[i] * s[i]
  BY <1>1 DEF Squares
<1>. QED
  BY <1>1, <1>2, <1>3, <1>4 DEF Numbers

LEMMA StatisticsTypes ==
  ASSUME NEW s, Sample(s)
  PROVE  Total(s) \in Int /\ SquareTotal(s) \in Nat /\ Variance(s) \in Int
<1>1. Len(s) \in Nat \ {0}
  BY SampleNumbers
<1>2. Total(s) \in Int
  BY <1>1, SampleNumbers, SumsType DEF Total, AddsUp, Numbers
<1>3. SquareTotal(s) \in Nat
  BY <1>1, SampleNumbers, SumOfNaturals DEF SquareTotal
<1>4. Len(s) * SquareTotal(s) - Total(s) * Total(s) \in Int
  BY <1>1, <1>2, <1>3
<1>. QED
  BY <1>2, <1>3, <1>4 DEF Variance

(* What a unit does to them. *)
LEMMA ScaledStatistics ==
  ASSUME NEW s, Sample(s), NEW by \in Int
  PROVE  /\ Sample(Scaled(s, by)) /\ Len(Scaled(s, by)) = Len(s)
         /\ Total(Scaled(s, by)) = by * Total(s)
         /\ SquareTotal(Scaled(s, by)) = (by * by) * SquareTotal(s)
         /\ Variance(Scaled(s, by)) = (by * by) * Variance(s)
<1> DEFINE t == Scaled(s, by)
           n == Len(s)
<1>1. /\ n \in Nat \ {0} /\ DOMAIN s = 1 .. n
      /\ \A i \in 1 .. n : s[i] \in Int
      /\ Total(s) \in Int /\ SquareTotal(s) \in Int
  BY SampleNumbers, StatisticsTypes DEF Numbers
<1>2. t \in Seq(Int) /\ Len(t) = n /\ \A i \in 1 .. n : t[i] = by * s[i]
  BY <1>1 DEF Scaled
<1>3. Sample(t)
  BY <1>1, <1>2 DEF Sample
<1>4. Total(t) = by * Total(s)
  <2>1. Numbers(s, n) /\ n \in Nat
    BY SampleNumbers
  <2>2. Sums(t, n)[n] = by * Sums(s, n)[n]
    <3> HIDE DEF t, n
    <3>. QED
      BY <1>2, <2>1, SumOfMultiple
  <2>. QED
    BY <1>2, <2>2 DEF Total
<1>5. SquareTotal(t) = (by * by) * SquareTotal(s)
  <2>1. \A i \in 1 .. n : Squares(t)[i] = (by * s[i]) * (by * s[i])
    BY <1>2, <1>3, SampleNumbers
  <2>2. \A i \in 1 .. n : Squares(t)[i] = (by * by) * Squares(s)[i]
    BY <1>1, <2>1, SampleNumbers
  <2>3. Numbers(Squares(s), n) /\ n \in Nat /\ by * by \in Int
    BY SampleNumbers
  <2>4. Sums(Squares(t), n)[n] = (by * by) * Sums(Squares(s), n)[n]
    <3> HIDE DEF t, n
    <3>. QED
      BY <2>2, <2>3, SumOfMultiple
  <2>. QED
    BY <1>2, <2>4 DEF SquareTotal
<1>6. Variance(t) = (by * by) * Variance(s)
  <2>1. ASSUME NEW l \in Int, NEW q \in Int, NEW x \in Int
        PROVE  l * ((by * by) * q) - (by * x) * (by * x) = (by * by) * (l * q - x * x)
    OBVIOUS
  <2>. QED
    BY <1>1, <1>2, <1>4, <1>5, <2>1 DEF Variance
<1>. QED
  BY <1>2, <1>3, <1>4, <1>5, <1>6

(* What a window twice as long does to them. *)
LEMMA RepeatedStatistics ==
  ASSUME NEW s, Sample(s)
  PROVE  /\ Sample(s \o s) /\ Len(s \o s) = 2 * Len(s)
         /\ Total(s \o s) = 2 * Total(s)
         /\ Variance(s \o s) = 4 * Variance(s)
<1> DEFINE t == s \o s
           n == Len(s)
<1>1. /\ n \in Nat \ {0} /\ DOMAIN s = 1 .. n
      /\ \A i \in 1 .. n : s[i] \in Int
      /\ Total(s) \in Int /\ SquareTotal(s) \in Int
  BY SampleNumbers, StatisticsTypes DEF Numbers
<1>2. /\ t \in Seq(Int) /\ Len(t) = n + n
      /\ \A i \in 1 .. n : t[i] = s[i] /\ t[n + i] = s[i]
  BY <1>1 DEF Sample
<1>3. Sample(t)
  BY <1>1, <1>2 DEF Sample
<1>4. Total(t) = 2 * Total(s)
  <2>1. Numbers(s, n) /\ n \in Nat
    BY SampleNumbers
  <2>2. Sums(t, n + n)[n + n] = 2 * Sums(s, n)[n]
    <3> HIDE DEF t, n
    <3>. QED
      BY <1>2, <2>1, SumOfRepetition
  <2>. QED
    BY <1>2, <2>2 DEF Total
<1>5. SquareTotal(t) = 2 * SquareTotal(s)
  <2>1. \A i \in 1 .. n : i \in 1 .. n + n /\ n + i \in 1 .. n + n
    BY <1>1
  <2>2. \A i \in 1 .. n :
           Squares(t)[i] = Squares(s)[i] /\ Squares(t)[n + i] = Squares(s)[i]
    <3>1. /\ \A i \in 1 .. n : Squares(s)[i] = s[i] * s[i]
          /\ \A i \in 1 .. n + n : Squares(t)[i] = t[i] * t[i]
      BY <1>2, <1>3, SampleNumbers
    <3> HIDE DEF t, n
    <3>. QED
      BY <1>2, <2>1, <3>1
  <2>3. Sums(Squares(t), n + n)[n + n] = 2 * Sums(Squares(s), n)[n]
    BY <1>1, <2>2, SampleNumbers, SumOfRepetition
  <2>. QED
    BY <1>2, <2>3 DEF SquareTotal
<1>6. (n + n) * (2 * SquareTotal(s)) - (2 * Total(s)) * (2 * Total(s))
        = 4 * (n * SquareTotal(s) - Total(s) * Total(s))
  BY <1>1
<1>7. Variance(t) = 4 * (n * SquareTotal(s) - Total(s) * Total(s))
  BY <1>1, <1>2, <1>4, <1>5, <1>6 DEF Variance
<1>8. n < 2 => n * SquareTotal(s) - Total(s) * Total(s) = 0
  <2> SUFFICES ASSUME n = 1 PROVE SquareTotal(s) = Total(s) * Total(s)
    BY <1>1
  <2>1. AddsUp(Sums(s, 1), s, 1) /\ AddsUp(Sums(Squares(s), 1), Squares(s), 1)
    BY SampleNumbers, SumsType DEF Numbers
  <2>2. Sums(s, 1)[1] = s[1] /\ Sums(Squares(s), 1)[1] = Squares(s)[1]
    BY <2>1, SampleNumbers DEF AddsUp, Numbers
  <2>. QED
    BY <2>2, SampleNumbers DEF Total, SquareTotal
<1>. QED
  BY <1>1, <1>2, <1>3, <1>4, <1>7, <1>8 DEF Variance

(* Variance is what the code computes by another formula: _stddev() adds   *)
(* up the squared deviations from the mean, here in units of 1 / Len(s),   *)
(* and divides by the number of values.                                    *)
THEOREM VarianceIsOfDeviations ==
  ASSUME NEW s, Sample(s)
  PROVE  LET n == Len(s)
             deviation == [i \in DOMAIN s |-> n * s[i] - Total(s)]
         IN  Sums(Squares(deviation), n)[n] = n * Variance(s)
<1> DEFINE n == Len(s)
           T == Total(s)
           Q == SquareTotal(s)
           d == [i \in DOMAIN s |-> n * s[i] - T]
<1>1. /\ n \in Nat \ {0} /\ DOMAIN s = 1 .. n /\ T \in Int /\ Q \in Int
      /\ Numbers(s, n) /\ Numbers(Squares(s), n)
      /\ \A i \in 1 .. n : s[i] \in Int /\ Squares(s)[i] = s[i] * s[i]
  BY SampleNumbers, StatisticsTypes DEF Numbers
<1>2. PICK a \in Int, b \in Int, c \in Int :
         a = n * n /\ b = -2 * (n * T) /\ c = T * T
  BY <1>1
<1>3. \A i \in 1 .. n : Squares(d)[i] = a * Squares(s)[i] + b * s[i] + c
  <2> SUFFICES ASSUME NEW i \in 1 .. n
               PROVE  Squares(d)[i] = a * Squares(s)[i] + b * s[i] + c
    OBVIOUS
  <2>1. Squares(d)[i] = (n * s[i] - T) * (n * s[i] - T)
    BY <1>1 DEF Squares
  <2>2. \A x, y, z \in Int :
           (x * z - y) * (x * z - y) = (x * x) * (z * z) + (-2 * (x * y)) * z + y * y
    OBVIOUS
  <2>3. n \in Int /\ T \in Int /\ s[i] \in Int /\ Squares(s)[i] = s[i] * s[i]
    BY <1>1
  <2> HIDE DEF n, T, d
  <2>. QED
    BY <1>2, <2>1, <2>2, <2>3
<1>4. Sums(Squares(d), n)[n] = a * Sums(Squares(s), n)[n] + b * Sums(s, n)[n] + c * n
  <2>1. n \in Nat /\ Numbers(s, n) /\ Numbers(Squares(s), n)
    BY <1>1
  <2> HIDE DEF n, T, d
  <2>. QED
    BY <1>3, <2>1, SumOfCombination
<1>5. Sums(Squares(s), n)[n] = Q /\ Sums(s, n)[n] = T
  BY DEF Total, SquareTotal
<1>6. a * Q + b * T + c * n = n * (n * Q - T * T)
  <2>1. \A x, y, q \in Int :
           (x * x) * q + (-2 * (x * y)) * y + (y * y) * x = x * (x * q - y * y)
    OBVIOUS
  <2>2. n \in Int
    BY <1>1
  <2> HIDE DEF n, T, Q
  <2>. QED
    BY <1>1, <1>2, <2>1, <2>2
<1>7. n < 2 => n * Q - T * T = 0
  <2> SUFFICES ASSUME n = 1 PROVE Q = T * T
    BY <1>1
  <2>1. AddsUp(Sums(s, 1), s, 1) /\ AddsUp(Sums(Squares(s), 1), Squares(s), 1)
    BY <1>1, SumsType DEF Numbers
  <2>. QED
    BY <1>1, <2>1 DEF AddsUp, Total, SquareTotal
<1>8. n * Variance(s) = n * (n * Q - T * T)
  BY <1>7 DEF Variance
<1>. QED
  BY <1>4, <1>5, <1>6, <1>8

-------------------------------------------------------------------------------
(* What the comparison of two samples makes of a change to them.           *)

Drifts == [max_mean_drift : Nat, max_stddev_drift : Nat, min_sample_size : Nat \ {0}]

(* The comparison of two samples without NaN, in their totals s and r,     *)
(* their variances v and w, and their lengths m and n.                     *)
MeanMoved(c, s, r, m, n) ==
    IF Size(r) < Tiny * n THEN Size(s) <= Tiny * m
    ELSE Within(Size(s * n - r * m), c.max_mean_drift, r * m)

SpreadMoved(c, v, w, m, n) ==
    LET max == c.max_stddev_drift
    IN  IF w < (Tiny * n) * (Tiny * n) THEN v <= (Tiny * m) * (Tiny * m)
        ELSE /\ 10000 * (v * (n * n)) <= ((100 + max) * (100 + max)) * (w * (m * m))
             /\ max < 100 =>
                   10000 * (v * (n * n)) >= ((100 - max) * (100 - max)) * (w * (m * m))

LEMMA ComparisonOfSamples ==
  ASSUME NEW c, NEW s, NEW r, Sample(s), Sample(r)
  PROVE  DistributionPasses(c, s, r) <=>
            /\ Len(s) >= c.min_sample_size
            /\ MeanMoved(c, Total(s), Total(r), Len(s), Len(r))
            /\ SpreadMoved(c, Variance(s), Variance(r), Len(s), Len(r))
<1>1. IsUsable(s) /\ IsUsable(r)
  BY SampleIsPlain
<1>2. MeanWithin(c, s, r) <=> MeanMoved(c, Total(s), Total(r), Len(s), Len(r))
  BY SampleIsPlain DEF MeanWithin, MeanIsNone, MeanIsNothing, MeanMoved
<1>3. StddevWithin(c, s, r) <=> SpreadMoved(c, Variance(s), Variance(r), Len(s), Len(r))
  BY SampleIsPlain DEF StddevWithin, StddevIsNone, StddevIsNothing, Squared, SpreadMoved
<1>. QED
  BY <1>1, <1>2, <1>3 DEF DistributionPasses

LEMMA NegatedPasses ==
  ASSUME NEW c, NEW s, NEW r, Sample(s), Sample(r)
  PROVE  DistributionPasses(c, Scaled(s, -1), Scaled(r, -1))
            <=> DistributionPasses(c, s, r)
<1>1. /\ Total(s) \in Int /\ Total(r) \in Int /\ Variance(s) \in Int /\ Variance(r) \in Int
      /\ Len(s) \in Nat /\ Len(r) \in Nat
  BY SampleNumbers, StatisticsTypes
<1>2. ASSUME NEW t, Sample(t), Total(t) \in Int, Variance(t) \in Int
      PROVE  /\ Sample(Scaled(t, -1)) /\ Len(Scaled(t, -1)) = Len(t)
             /\ Total(Scaled(t, -1)) = -Total(t) /\ Variance(Scaled(t, -1)) = Variance(t)
  <2>1. PICK by \in Int : by = -1
    OBVIOUS
  <2>2. /\ Sample(Scaled(t, by)) /\ Len(Scaled(t, by)) = Len(t)
        /\ Total(Scaled(t, by)) = by * Total(t)
        /\ Variance(Scaled(t, by)) = (by * by) * Variance(t)
    BY <1>2, ScaledStatistics
  <2>. QED
    BY <1>2, <2>1, <2>2
<1>3. ASSUME NEW x \in Int, NEW y \in Int, NEW m \in Nat, NEW n \in Nat
      PROVE  MeanMoved(c, -x, -y, m, n) <=> MeanMoved(c, x, y, m, n)
  <2>1. (-y) * m = -(y * m) /\ (-x) * n - (-y) * m = -(x * n - y * m)
    OBVIOUS
  <2>2. \A z \in Int : Size(-z) = Size(z)
    BY DEF Size
  <2>3. x * n - y * m \in Int /\ y * m \in Int
    OBVIOUS
  <2>. QED
    BY <2>1, <2>2, <2>3 DEF MeanMoved, Within
<1> DEFINE t == Scaled(s, -1)
           q == Scaled(r, -1)
<1>4. /\ Sample(t) /\ Len(t) = Len(s)
      /\ Total(t) = -Total(s) /\ Variance(t) = Variance(s)
  BY <1>1, <1>2
<1>5. /\ Sample(q) /\ Len(q) = Len(r)
      /\ Total(q) = -Total(r) /\ Variance(q) = Variance(r)
  BY <1>1, <1>2
<1>6. MeanMoved(c, -Total(s), -Total(r), Len(s), Len(r))
        <=> MeanMoved(c, Total(s), Total(r), Len(s), Len(r))
  BY <1>1, <1>3
<1>. HIDE DEF t, q
<1>7. DistributionPasses(c, t, q) <=> DistributionPasses(c, s, r)
  BY <1>4, <1>5, <1>6, ComparisonOfSamples
<1>. QED
  BY <1>7 DEF t, q

LEMMA RepeatedPasses ==
  ASSUME NEW c \in Drifts, NEW s, NEW r, Sample(s), Sample(r)
  PROVE  DistributionPasses(c, s, r \o r) <=> DistributionPasses(c, s, r)
<1>1. /\ Total(s) \in Int /\ Total(r) \in Int /\ Variance(s) \in Int /\ Variance(r) \in Int
      /\ Len(s) \in Nat /\ Len(r) \in Nat
  BY SampleNumbers, StatisticsTypes
<1>2. /\ Sample(r \o r) /\ Len(r \o r) = 2 * Len(r)
      /\ Total(r \o r) = 2 * Total(r) /\ Variance(r \o r) = 4 * Variance(r)
  BY RepeatedStatistics
<1>3. ASSUME NEW x \in Int, NEW y \in Int, NEW m \in Nat, NEW n \in Nat
      PROVE  MeanMoved(c, x, 2 * y, m, 2 * n) <=> MeanMoved(c, x, y, m, n)
  <2>1. (2 * y) * m = 2 * (y * m) /\ x * (2 * n) - (2 * y) * m = 2 * (x * n - y * m)
    OBVIOUS
  <2>2. \A z \in Int : Size(2 * z) = 2 * Size(z) /\ Size(z) \in Int
    BY DEF Size
  <2>3. x * n - y * m \in Int /\ y * m \in Int
    OBVIOUS
  <2>4. \A d, z \in Int : 100 * (2 * d) <= c.max_mean_drift * (2 * z)
                             <=> 100 * d <= c.max_mean_drift * z
    <3>1. c.max_mean_drift \in Int
      BY DEF Drifts
    <3>. QED
      BY <3>1
  <2>5. Size(2 * y) < Tiny * (2 * n) <=> Size(y) < Tiny * n
    <3>1. Tiny * (2 * n) = 2 * (Tiny * n) /\ Tiny * n \in Int /\ Size(y) \in Int
      BY <2>2, TinyAssumption
    <3>. QED
      BY <2>2, <3>1
  <2>. QED
    BY <2>1, <2>2, <2>3, <2>4, <2>5 DEF MeanMoved, Within
<1>4. ASSUME NEW v \in Int, NEW w \in Int, NEW m \in Nat, NEW n \in Nat
      PROVE  SpreadMoved(c, v, 4 * w, m, 2 * n) <=> SpreadMoved(c, v, w, m, n)
  <2>1. /\ v * ((2 * n) * (2 * n)) = 4 * (v * (n * n))
        /\ (4 * w) * (m * m) = 4 * (w * (m * m))
    OBVIOUS
  <2>2. v * (n * n) \in Int /\ w * (m * m) \in Int
    OBVIOUS
  <2>3. \A k, x, y \in Int : /\ 10000 * (4 * x) <= k * (4 * y) <=> 10000 * x <= k * y
                             /\ 10000 * (4 * x) >= k * (4 * y) <=> 10000 * x >= k * y
    OBVIOUS
  <2>4. /\ (100 + c.max_stddev_drift) * (100 + c.max_stddev_drift) \in Int
        /\ (100 - c.max_stddev_drift) * (100 - c.max_stddev_drift) \in Int
    BY DEF Drifts
  <2>5. 4 * w < (Tiny * (2 * n)) * (Tiny * (2 * n)) <=> w < (Tiny * n) * (Tiny * n)
    <3>1. (Tiny * (2 * n)) * (Tiny * (2 * n)) = 4 * ((Tiny * n) * (Tiny * n))
      BY TinyAssumption
    <3>2. (Tiny * n) * (Tiny * n) \in Int
      BY TinyAssumption
    <3>. QED
      BY <3>1, <3>2
  <2>. QED
    BY <2>1, <2>2, <2>3, <2>4, <2>5 DEF SpreadMoved
<1>5. MeanMoved(c, Total(s), 2 * Total(r), Len(s), 2 * Len(r))
        <=> MeanMoved(c, Total(s), Total(r), Len(s), Len(r))
  BY <1>1, <1>3
<1>6. SpreadMoved(c, Variance(s), 4 * Variance(r), Len(s), 2 * Len(r))
        <=> SpreadMoved(c, Variance(s), Variance(r), Len(s), Len(r))
  BY <1>1, <1>4
<1> DEFINE q == r \o r
<1>. HIDE DEF q
<1>7. /\ Sample(q) /\ Len(q) = 2 * Len(r)
      /\ Total(q) = 2 * Total(r) /\ Variance(q) = 4 * Variance(r)
  BY <1>2 DEF q
<1>8. DistributionPasses(c, s, q) <=> DistributionPasses(c, s, r)
  BY <1>5, <1>6, <1>7, ComparisonOfSamples
<1>. QED
  BY <1>8 DEF q

(* A tolerance of max percent is exceeded by a factor beyond 1 + max / 100,*)
(* wherever there is a relative drift.                                     *)
LEMMA SwappedFails ==
  ASSUME NEW c \in Drifts, NEW r, Sample(r),
         NEW by \in Nat, c.max_mean_drift < 100 * (by - 1),
         c.max_stddev_drift < 100 * (by - 1),
         DistributionPasses(c, Scaled(r, by), r)
  PROVE  MeanIsNothing(Scaled(r, by)) /\ StddevIsNothing(Scaled(r, by))
<1> DEFINE T == Total(r)
           n == Len(r)
           V == Variance(r)
<1>1. /\ n \in Nat \ {0} /\ T \in Int /\ V \in Int /\ Tiny \in Nat \ {0}
      /\ c.max_mean_drift \in Nat /\ c.max_stddev_drift \in Nat
  BY SampleNumbers, StatisticsTypes, TinyAssumption DEF Drifts
<1>2. /\ Sample(Scaled(r, by)) /\ Len(Scaled(r, by)) = n
      /\ Total(Scaled(r, by)) = by * T /\ Variance(Scaled(r, by)) = (by * by) * V
  BY ScaledStatistics
<1>3. MeanMoved(c, by * T, T, n, n) /\ SpreadMoved(c, (by * by) * V, V, n, n)
  BY <1>2, ComparisonOfSamples
<1>4. MeanIsNothing(Scaled(r, by)) <=> Size(by * T) <= Tiny * n
  BY <1>2 DEF MeanIsNothing
<1>5. StddevIsNothing(Scaled(r, by)) <=> (by * by) * V <= (Tiny * n) * (Tiny * n)
  BY <1>2 DEF StddevIsNothing, Squared
<1> HIDE DEF T, n, V
<1>6. Tiny * n \in Nat /\ Tiny * n >= 1
  <2>1. \A x, y \in Nat : x >= 1 /\ y >= 1 => x * y \in Nat /\ x * y >= 1
    OBVIOUS
  <2>2. n \in Nat /\ n >= 1 /\ Tiny \in Nat /\ Tiny >= 1
    BY <1>1
  <2>. QED
    BY <2>1, <2>2
<1>7. ASSUME ~(Size(T) < Tiny * n) PROVE FALSE
  <2>1. ASSUME NEW x \in Int, x # 0, NEW b \in Nat, NEW max \in Nat,
               max < 100 * (b - 1), 100 * Size(b * x - x) <= max * Size(x)
        PROVE  FALSE
    <3>1. Size(b * x - x) = (b - 1) * Size(x) /\ Size(x) \in Nat /\ Size(x) >= 1
      <4>1. b >= 1
        BY <2>1
      <4>2. b * x - x = (b - 1) * x /\ (b - 1) * (-x) = -((b - 1) * x)
        OBVIOUS
      <4>3. x > 0 => (b - 1) * x >= 0
        BY <4>1
      <4>4. x < 0 => (b - 1) * (-x) >= 0
        BY <4>1
      <4>. QED
        BY <2>1, <4>2, <4>3, <4>4 DEF Size
    <3>2. ASSUME NEW k \in Nat, k >= 1, NEW p \in Nat, NEW q \in Int, p < q
          PROVE  p * k < q * k
      BY <3>2
    <3>3. max * Size(x) < (100 * (b - 1)) * Size(x)
      BY <2>1, <3>1, <3>2
    <3>. QED
      BY <2>1, <3>1, <3>3
  <2>2. T # 0
    BY <1>1, <1>6, <1>7 DEF Size
  <2>3. T * n \in Int /\ T * n # 0 /\ (by * T) * n - T * n = by * (T * n) - T * n
    BY <1>1, <2>2
  <2>4. 100 * Size(by * (T * n) - T * n) <= c.max_mean_drift * Size(T * n)
    BY <1>3, <1>7, <2>3 DEF MeanMoved, Within
  <2>. QED
    BY <1>1, <2>1, <2>3, <2>4
<1>8. ASSUME ~(V < (Tiny * n) * (Tiny * n)) PROVE FALSE
  <2>1. \A x, y \in Nat : x >= 1 /\ y >= 1 => x * y \in Nat /\ x * y >= 1
    OBVIOUS
  <2>2. V \in Nat /\ V >= 1
    <3>1. (Tiny * n) * (Tiny * n) \in Nat /\ (Tiny * n) * (Tiny * n) >= 1
      BY <1>6, <2>1
    <3>. QED
      BY <1>1, <1>8, <3>1
  <2>3. V * (n * n) \in Nat /\ V * (n * n) >= 1
    <3>1. n \in Nat /\ n >= 1
      BY <1>1
    <3>2. n * n \in Nat /\ n * n >= 1
      BY <2>1, <3>1
    <3>. QED
      BY <2>1, <2>2, <3>2
  <2>4. ASSUME NEW w \in Nat, w >= 1, NEW a \in Nat, NEW b \in Nat, a < b
        PROVE  (a * a) * w < (b * b) * w
    <3>1. a * a <= a * b /\ a * b < b * b
      BY <2>4
    <3>2. a * a < b * b /\ a * a \in Nat /\ b * b \in Nat
      BY <3>1
    <3>. QED
      BY <2>4, <3>2
  <2>5. ASSUME NEW max \in Nat, NEW w \in Nat, w >= 1, max < 100 * (by - 1)
        PROVE  ~(10000 * ((by * by) * w) <= ((100 + max) * (100 + max)) * w)
    <3>1. 100 + max \in Nat /\ 100 * by \in Nat /\ 100 + max < 100 * by
      BY <2>5
    <3>2. ((100 + max) * (100 + max)) * w < ((100 * by) * (100 * by)) * w
      BY <2>4, <2>5, <3>1
    <3>3. ((100 * by) * (100 * by)) * w = 10000 * ((by * by) * w)
      OBVIOUS
    <3>4. ((100 + max) * (100 + max)) * w \in Int /\ (by * by) * w \in Int
      OBVIOUS
    <3>. QED
      BY <3>2, <3>3, <3>4
  <2>6. ((by * by) * V) * (n * n) = (by * by) * (V * (n * n))
    BY <1>1
  <2>7. 10000 * (((by * by) * V) * (n * n))
          <= ((100 + c.max_stddev_drift) * (100 + c.max_stddev_drift)) * (V * (n * n))
    BY <1>3, <1>8 DEF SpreadMoved
  <2>. QED
    BY <1>1, <2>3, <2>5, <2>6, <2>7
<1>. QED
  BY <1>3, <1>4, <1>5, <1>7, <1>8 DEF MeanMoved, SpreadMoved

-------------------------------------------------------------------------------
(* The behaviours of WapAssertions. What is at stake is of the assertion   *)
(* at work; samples in another unit are the reference's.                   *)

AssertionsInv ==
    /\ change \in {"none", "unit", "sign", "window"}
    /\ change # "none" => check = "distribution"
    /\ check = "fx" => staged \in FxPayloads /\ reference \in FxPayloads
    /\ check = "rows" =>
          config \in RowConfigs /\ staged \in CountPayloads /\ reference \in CountPayloads
    /\ check = "distribution" =>
          /\ config \in DriftConfigs
          /\ staged \in Seq(Values) \cup {NoList}
          /\ reference \in Seq(Values) \cup {NoList}
    /\ change = "unit" =>
          Sample(reference) /\ \E by \in Factors : staged = Scaled(reference, by)

USE AssertionsAssumption, ValuesAssumption, FxAssumption, RowCountAssumption

LEMMA SampleIsPayload == ASSUME NEW s, Sample(s) PROVE s \in Seq(Values)
<1>1. s \in Seq(Int)
  BY DEF Sample
<1>2. \A i \in 1 .. Len(s) : s[i] \in Values
  BY <1>1 DEF Values
<1>. QED
  BY <1>1, <1>2

LEMMA AssertionsInit == Init => AssertionsInv
<1> SUFFICES ASSUME Init PROVE AssertionsInv
  OBVIOUS
<1>1. change = "none"
  BY DEF Init
<1>2. CASE check = "fx"
  BY <1>1, <1>2 DEF Init, AssertionsInv
<1>3. CASE check = "rows"
  BY <1>1, <1>3 DEF Init, AssertionsInv
<1>4. CASE check = "distribution"
  BY <1>1, <1>4 DEF Init, AssertionsInv
<1>. QED
  BY <1>2, <1>3, <1>4 DEF Init

(* What the reviewer corrects is again a payload. *)
LEMMA CorrectionIsPayload ==
  ASSUME AssertionsInv, Correction
  PROVE  /\ staged \in Dicts /\ reference \in Dicts /\ staged' \in Dicts
         /\ DOMAIN staged' = (DOMAIN staged \ (Evidence.extra \cap corrected'))
                                \cup (Evidence.missing \cap corrected')
         /\ \A k \in DOMAIN staged' :
               staged'[k] = IF k \in corrected' THEN reference[k] ELSE staged[k]
         /\ corrected' \subseteq Named
<1>1. staged \in Dicts /\ reference \in Dicts
  BY DEF AssertionsInv, Correction, Correctable, FxPayloads
<1>2. /\ corrected' \subseteq Named
      /\ staged' = Corrected(corrected')
  BY DEF Correction
<1>3. /\ DOMAIN staged' = (DOMAIN staged \ (Evidence.extra \cap corrected'))
                             \cup (Evidence.missing \cap corrected')
      /\ \A k \in DOMAIN staged' :
            staged'[k] = IF k \in corrected' THEN reference[k] ELSE staged[k]
      /\ staged' = [k \in DOMAIN staged' |-> staged'[k]]
  BY <1>2 DEF Corrected
<1>4. /\ Evidence.mismatches \subseteq DOMAIN staged \cap DOMAIN reference
      /\ Evidence.missing = DOMAIN reference \ DOMAIN staged
      /\ Evidence.extra = DOMAIN staged \ DOMAIN reference
  BY DEF Evidence, FxEvidence, Mismatches, MissingInStaged, ExtraInStaged
<1> DEFINE V == Rates \cup {NaN, Text}
<1>5. /\ DOMAIN staged \in SUBSET Names /\ \A k \in DOMAIN staged : staged[k] \in V
      /\ DOMAIN reference \in SUBSET Names /\ \A k \in DOMAIN reference : reference[k] \in V
  BY <1>1 DEF Dicts
<1>6. DOMAIN staged' \in SUBSET Names
  BY <1>3, <1>4, <1>5
<1>7. ASSUME NEW k \in DOMAIN staged' PROVE staged'[k] \in V
  <2>1. CASE k \in corrected'
    BY <1>2, <1>3, <1>4, <1>5, <1>7, <2>1 DEF Named
  <2>2. CASE k \notin corrected'
    BY <1>3, <1>4, <1>5, <1>7, <2>2
  <2>. QED
    BY <2>1, <2>2
<1>8. staged' \in [DOMAIN staged' -> V]
  BY <1>3, <1>7
<1>9. staged' \in Dicts
  BY <1>6, <1>8 DEF Dicts
<1>. QED
  BY <1>1, <1>2, <1>3, <1>9

LEMMA AssertionsStep == AssertionsInv /\ [Next]_vars => AssertionsInv'
<1> SUFFICES ASSUME AssertionsInv, [Next]_vars PROVE AssertionsInv'
  OBVIOUS
<1>1. CASE Correction
  <2>1. /\ check = "fx" /\ check' = check /\ change' = change /\ reference' = reference
        /\ change = "none"
    BY <1>1 DEF Correction, Correctable, AssertionsInv
  <2>2. staged' \in FxPayloads /\ reference' \in FxPayloads
    BY <1>1, <2>1, CorrectionIsPayload DEF FxPayloads
  <2>. QED
    BY <2>1, <2>2 DEF AssertionsInv
<1>2. CASE PublishRows \/ RefuseRows
  BY <1>2 DEF PublishRows, RefuseRows, AssertionsInv
<1>3. CASE SwapUnit \/ Negate \/ Repeat
  <2>1. /\ check = "distribution" /\ check' = check /\ config' = config
        /\ config \in DriftConfigs
        /\ Sample(staged) /\ Sample(reference)
    BY <1>3, PlainIsSample DEF SwapUnit, Negate, Repeat, Changeable, AssertionsInv
  <2>2. CASE SwapUnit
    <3>1. PICK by \in Factors : staged' = Scaled(reference, by)
      BY <2>2 DEF SwapUnit
    <3>2. by \in Int /\ reference' = reference /\ change' = "unit"
      BY <2>2 DEF SwapUnit
    <3>3. Sample(staged')
      BY <2>1, <3>1, <3>2, ScaledStatistics
    <3>4. Sample(reference') /\ \E f \in Factors : staged' = Scaled(reference', f)
      BY <2>1, <3>1, <3>2
    <3>. QED
      BY <2>1, <3>2, <3>3, <3>4, SampleIsPayload DEF AssertionsInv
  <2>3. CASE Negate
    <3>1. /\ staged' = Scaled(staged, -1) /\ reference' = Scaled(reference, -1)
          /\ change' = "sign"
      BY <2>3 DEF Negate
    <3>2. Sample(staged') /\ Sample(reference')
      BY <2>1, <3>1, ScaledStatistics
    <3>. QED
      BY <2>1, <3>1, <3>2, SampleIsPayload DEF AssertionsInv
  <2>4. CASE Repeat
    <3>1. reference' = reference \o reference /\ staged' = staged /\ change' = "window"
      BY <2>4 DEF Repeat
    <3>2. Sample(staged') /\ Sample(reference')
      BY <2>1, <3>1, RepeatedStatistics
    <3>. QED
      BY <2>1, <3>1, <3>2, SampleIsPayload DEF AssertionsInv
  <2>. QED
    BY <1>3, <2>2, <2>3, <2>4
<1>4. CASE UNCHANGED vars
  BY <1>4 DEF vars, AssertionsInv, Sample, Scaled
<1>. QED
  BY <1>1, <1>2, <1>3, <1>4 DEF Next, Done

LEMMA AssertionsInvariant == Spec => []AssertionsInv
  BY AssertionsInit, AssertionsStep, PTL DEF Spec

-------------------------------------------------------------------------------
(* The theorems.                                                           *)

(* Whoever corrects everything the evidence names makes the data pass, and *)
(* whoever leaves any of it out does not.                                  *)
THEOREM EvidenceTellsAll == Spec => EvidenceIsExact
<1>1. AssertionsInv /\ [Next]_vars =>
        ( (/\ corrected = {} /\ corrected' # {}
           /\ \A k \in DOMAIN reference : reference[k] # Text) =>
          (FxPasses(staged', reference) <=> corrected' = Named) )
  <2> SUFFICES ASSUME AssertionsInv, [Next]_vars, corrected = {}, corrected' # {},
                      \A k \in DOMAIN reference : reference[k] # Text
               PROVE  FxPasses(staged', reference) <=> corrected' = Named
    OBVIOUS
  <2>1. Correction
    BY DEF Next, PublishRows, RefuseRows, SwapUnit, Negate, Repeat, Done, vars
  <2>2. /\ staged \in Dicts /\ reference \in Dicts /\ staged' \in Dicts
        /\ DOMAIN staged' = (DOMAIN staged \ (Evidence.extra \cap corrected'))
                               \cup (Evidence.missing \cap corrected')
        /\ \A k \in DOMAIN staged' :
              staged'[k] = IF k \in corrected' THEN reference[k] ELSE staged[k]
        /\ corrected' \subseteq Named
    BY <2>1, CorrectionIsPayload
  <2>3. NotADict \notin {staged', reference}
    BY <2>2
  <2>4. /\ Evidence.mismatches =
             {k \in DOMAIN staged \cap DOMAIN reference : Disagree(staged[k], reference[k])}
        /\ Evidence.missing = DOMAIN reference \ DOMAIN staged
        /\ Evidence.extra = DOMAIN staged \ DOMAIN reference
    BY DEF Evidence, FxEvidence, Mismatches, MissingInStaged, ExtraInStaged
  <2>5. FxPasses(staged', reference) <=>
           /\ DOMAIN staged' = DOMAIN reference
           /\ \A k \in DOMAIN reference : ~Disagree(staged'[k], reference[k])
    BY <2>3 DEF FxPasses, Mismatches, MissingInStaged, ExtraInStaged
  <2>6. ASSUME NEW k \in DOMAIN reference PROVE ~Disagree(reference[k], reference[k])
    <3>1. reference[k] \in Int \cup {NaN}
      <4>1. reference[k] \in Rates \cup {NaN, Text}
        BY <2>2 DEF Dicts
      <4>. QED
        BY <4>1
    <3>2. CASE reference[k] \in Int
      BY <3>2 DEF Disagree, Distance
    <3>3. CASE reference[k] = NaN
      BY <3>3 DEF Disagree
    <3>. QED
      BY <3>1, <3>2, <3>3
  <2>7. ASSUME corrected' = Named PROVE FxPasses(staged', reference)
    <3>1. DOMAIN staged' = DOMAIN reference
      BY <2>2, <2>4, <2>7 DEF Named
    <3>2. ASSUME NEW k \in DOMAIN reference PROVE ~Disagree(staged'[k], reference[k])
      <4>1. CASE k \in corrected'
        BY <2>2, <2>6, <3>1, <4>1
      <4>2. CASE k \notin corrected'
        BY <2>2, <2>4, <2>7, <3>1, <4>2 DEF Named
      <4>. QED
        BY <4>1, <4>2
    <3>. QED
      BY <2>5, <3>1, <3>2
  <2>8. ASSUME FxPasses(staged', reference), NEW k \in Named, k \notin corrected'
        PROVE  FALSE
    <3>1. CASE k \in Evidence.mismatches
      <4>1. k \in DOMAIN staged' /\ staged'[k] = staged[k] /\ k \in DOMAIN reference
        BY <2>2, <2>4, <2>8, <3>1
      <4>2. Disagree(staged[k], reference[k])
        BY <2>4, <3>1
      <4>. QED
        BY <2>5, <2>8, <4>1, <4>2
    <3>2. CASE k \in Evidence.missing
      BY <2>2, <2>4, <2>5, <2>8, <3>2
    <3>3. CASE k \in Evidence.extra
      BY <2>2, <2>4, <2>5, <2>8, <3>3
    <3>. QED
      BY <2>8, <3>1, <3>2, <3>3 DEF Named
  <2>. QED
    BY <2>2, <2>7, <2>8
<1>. QED
  BY <1>1, AssertionsInvariant, PTL DEF Spec, EvidenceIsExact

(* Under a percentage a count that is positive stays positive over any     *)
(* number of loads, unless it is 100 percent and empty loads are allowed.  *)
THEOREM RowsAreKept == Spec => RowsRemain
<1>1. AssertionsInv /\ [Next]_vars =>
        ( (/\ check = "rows"
           /\ config.max_pct_delta # None
           /\ config.max_pct_delta < 100 \/ ~config.allow_empty
           /\ reference \notin {NoCount, NotAnInt} /\ reference > 0) =>
          (reference' \notin {NoCount, NotAnInt} /\ reference' > 0) )
  <2> SUFFICES ASSUME AssertionsInv, [Next]_vars, check = "rows",
                      config.max_pct_delta # None,
                      config.max_pct_delta < 100 \/ ~config.allow_empty,
                      reference \notin {NoCount, NotAnInt}, reference > 0
               PROVE  reference' \notin {NoCount, NotAnInt} /\ reference' > 0
    OBVIOUS
  <2>1. UNCHANGED reference \/ PublishRows
    BY DEF Next, Correction, Correctable, RefuseRows, SwapUnit, Negate, Repeat,
           Changeable, Done, vars
  <2>2. ASSUME PublishRows PROVE reference' \notin {NoCount, NotAnInt} /\ reference' > 0
    <3>1. reference' = staged /\ RowCountPasses(config, staged, reference)
      BY <2>2 DEF PublishRows, RowsPass
    <3>2. /\ IsConfig(config) /\ staged \in CountPayloads /\ reference \in CountPayloads
      BY DEF AssertionsInv, RowConfigs
    <3>3. staged \notin {NoCount, NotAnInt} /\ staged \in Int /\ reference \in Int
      BY <3>1, <3>2 DEF RowCountPasses, CountPayloads
    <3>4. config.max_absolute_delta = None /\ config.max_pct_delta \in 0 .. 100
      BY <3>2 DEF IsConfig
    <3>5. WithinPercentage(config, staged, reference)
      BY <3>1, <3>4 DEF RowCountPasses
    <3>6. 100 * AbsoluteDelta(staged, reference) <= config.max_pct_delta * reference
      BY <3>3, <3>5 DEF WithinPercentage
    <3>7. ASSUME NEW p \in Int, NEW r \in Int, NEW n \in Int, p <= 100, r > 0,
                 100 * AbsoluteDelta(n, r) <= p * r
          PROVE  n >= 0 /\ (p < 100 => n > 0)
      <4>1. (100 - p) * r >= 0 /\ (100 - p) * r = 100 * r - p * r /\ p * r \in Int
        BY <3>7
      <4>2. p < 100 => (100 - p) * r > 0
        BY <3>7
      <4>. QED
        BY <3>7, <4>1, <4>2 DEF AbsoluteDelta
    <3>8. config.max_pct_delta \in Int /\ config.max_pct_delta <= 100
      <4>1. \A p \in 0 .. 100 : p \in Int /\ p <= 100
        OBVIOUS
      <4>. QED
        BY <3>4, <4>1, Zenon
    <3>9. staged > 0
      <4>1. staged >= 0 /\ (config.max_pct_delta < 100 => staged > 0)
        BY <3>3, <3>6, <3>7, <3>8
      <4>2. ~config.allow_empty => staged # 0
        BY <3>1 DEF RowCountPasses, EmptyIsAllowed
      <4>. QED
        BY <3>3, <4>1, <4>2
    <3>. QED
      BY <3>1, <3>3, <3>9
  <2>. QED
    BY <2>1, <2>2
<1>. QED
  BY <1>1, AssertionsInvariant, PTL DEF Spec, RowsRemain

(* The factors that are beyond both tolerances. A smaller one is within    *)
(* what the configuration calls no drift.                                  *)
FactorsExceedDrifts ==
    \A c \in DriftConfigs, by \in Factors :
        /\ c.max_mean_drift < 100 * (by - 1)
        /\ c.max_stddev_drift < 100 * (by - 1)

(* Data in another unit pass only where mean and deviation are both at     *)
(* most 1e-10 in that unit: of a mean around zero the deviation tells, of  *)
(* a deviation of zero the mean.                                           *)
THEOREM UnitSwapsAreCaught == FactorsExceedDrifts => (Spec => []UnitSwapIsCaught)
<1> SUFFICES ASSUME FactorsExceedDrifts PROVE Spec => []UnitSwapIsCaught
  OBVIOUS
<1>1. AssertionsInv => UnitSwapIsCaught
  <2> SUFFICES ASSUME AssertionsInv, change = "unit", SamplePasses
               PROVE  MeanIsNothing(staged) /\ StddevIsNothing(staged)
    BY DEF UnitSwapIsCaught
  <2>1. Sample(reference) /\ config \in DriftConfigs
    BY DEF AssertionsInv
  <2>2. PICK by \in Factors : staged = Scaled(reference, by)
    BY DEF AssertionsInv
  <2>3. /\ config \in Drifts /\ by \in Nat
        /\ config.max_mean_drift < 100 * (by - 1)
        /\ config.max_stddev_drift < 100 * (by - 1)
    BY <2>1 DEF Drifts, FactorsExceedDrifts
  <2>. QED
    BY <2>1, <2>2, <2>3, SwappedFails DEF SamplePasses
<1>. QED
  BY <1>1, AssertionsInvariant, PTL

(* Losses and gains are compared alike. *)
THEOREM SignsAreAlike == Spec => SignDoesNotMatter
<1>1. AssertionsInv /\ [Next]_vars =>
        (change' = "sign" => (SamplePasses <=> SamplePasses')) \/ UNCHANGED vars
  <2> SUFFICES ASSUME AssertionsInv, [Next]_vars, change' = "sign", ~UNCHANGED vars
               PROVE  SamplePasses <=> SamplePasses'
    OBVIOUS
  <2>1. Negate
    BY DEF Next, Correction, Correctable, PublishRows, RefuseRows, SwapUnit, Repeat,
           Done, AssertionsInv
  <2>2. Sample(staged) /\ Sample(reference)
    BY <2>1, PlainIsSample DEF Negate, Changeable, AssertionsInv
  <2>3. /\ staged' = Scaled(staged, -1) /\ reference' = Scaled(reference, -1)
        /\ config' = config
    BY <2>1 DEF Negate
  <2>. QED
    BY <2>2, <2>3, NegatedPasses DEF SamplePasses
<1>. QED
  BY <1>1, AssertionsInvariant, PTL DEF Spec, SignDoesNotMatter

(* The length of the reference window does not enter the comparison, only  *)
(* what is in it.                                                          *)
THEOREM WindowsCompare == Spec => WindowDoesNotMatter
<1>1. AssertionsInv /\ [Next]_vars =>
        (change' = "window" => (SamplePasses <=> SamplePasses')) \/ UNCHANGED vars
  <2> SUFFICES ASSUME AssertionsInv, [Next]_vars, change' = "window", ~UNCHANGED vars
               PROVE  SamplePasses <=> SamplePasses'
    OBVIOUS
  <2>1. Repeat
    BY DEF Next, Correction, Correctable, PublishRows, RefuseRows, SwapUnit, Negate,
           Done, AssertionsInv
  <2>2. Sample(staged) /\ Sample(reference) /\ config \in Drifts
    BY <2>1, PlainIsSample DEF Repeat, Changeable, AssertionsInv, Drifts
  <2>3. /\ staged' = staged /\ reference' = reference \o reference
        /\ config' = config
    BY <2>1 DEF Repeat
  <2>. QED
    BY <2>2, <2>3, RepeatedPasses DEF SamplePasses
<1>. QED
  BY <1>1, AssertionsInvariant, PTL DEF Spec, WindowDoesNotMatter
===============================================================================
