---------------------------- MODULE WapFeedProofs ----------------------------
(***************************************************************************)
(* Theorems about WapFxReconciliation, for all payloads and tolerances,    *)
(* and about WapFeed, for any pairs, rates and number of runs.             *)
(***************************************************************************)
EXTENDS WapFeed, FiniteSetTheorems, TLAPS

(* FxRateReconciliation passes exactly the dicts that have the keys of the *)
(* reference, and that for each of them hold a number the comparison with  *)
(* the reference does not find too far away; one that finds nothing, as    *)
(* with NaN, counts as agreement (fx_reconciliation.py:108-138).           *)
THEOREM FxIsPointwise ==
  ASSUME NEW new, NEW old
  PROVE  FxPasses(new, old) <=>
           /\ new # NotADict /\ old # NotADict
           /\ DOMAIN new = DOMAIN old
           /\ \A k \in DOMAIN new : ~Disagree(new[k], old[k])
  BY DEF FxPasses, Mismatches, MissingInStaged, ExtraInStaged

LEMMA DistanceTriangle ==
  ASSUME NEW a \in Int, NEW b \in Int, NEW c \in Int
  PROVE  /\ Distance(a, b) \in Nat
         /\ Distance(a, a) = 0
         /\ Distance(a, c) <= Distance(a, b) + Distance(b, c)
  BY DEF Distance

LEMMA NumbersWithinTolerance ==
  ASSUME NEW a \in Int, NEW b \in Int, ~Disagree(a, b)
  PROVE  Distance(a, b) <= Tolerance
<1>1. NaN \notin {a, b}
  BY ValuesAssumption
<1>2. ~(Distance(a, b) > Tolerance)
  BY <1>1 DEF Disagree
<1>. QED
  BY <1>2, DistanceTriangle, FxAssumption

LEMMA ToleranceSteps ==
  ASSUME NEW j \in Nat \ {0}, NEW n \in Nat, j <= n
  PROVE  /\ n * Tolerance \in Nat /\ (j - 1) * Tolerance \in Nat
         /\ Tolerance + (j - 1) * Tolerance <= n * Tolerance
<1>. DEFINE T == Tolerance
<1>1. T \in Nat
  BY FxAssumption
<1>. HIDE DEF T
<1>2. T + (j - 1) * T = j * T
  BY <1>1
<1>3. PICK d \in Nat : n = j + d
  <2>1. n - j \in Nat /\ n = j + (n - j)
    OBVIOUS
  <2>. QED
    BY <2>1
<1>4. n * T = j * T + d * T /\ d * T \in Nat /\ j * T \in Nat
  BY <1>1, <1>3
<1>5. n * T \in Nat /\ (j - 1) * T \in Nat
  BY <1>1, <1>4
<1>. QED
  BY <1>2, <1>4, <1>5 DEF T

LEMMA PayloadValues ==
  ASSUME NEW p \in Payloads, NEW k \in DOMAIN p
  PROVE  p[k] \in Int
<1>0. PICK names \in SUBSET Pairs : \E rates \in [names -> Rates] : p = Payload(rates)
  BY DEF Payloads
<1>1. PICK rates \in [names -> Rates] : p = Payload(rates)
  BY <1>0
<1>2. Cardinality(names) \in Nat
  BY FeedAssumption, FS_Subset, FS_CardinalityType
<1>3. Unit * Cardinality(names) \in Int
  BY <1>2, FeedAssumption
<1>. QED
  BY <1>1, <1>3, FeedAssumption DEF Payload

-------------------------------------------------------------------------------
Active(r) == phase[r] \in {"staged", "passed"}

FeedTypeOK ==
    /\ published \in Seq(Payloads) /\ Len(published) \in Nat \ {0}
    /\ phase \in [Runs -> Phases]
    /\ staged \in [Runs -> Payloads]
    /\ reference \in [Runs -> Nat \ {0}]

(* Without overlap the latest publication is the last to be committed.     *)
LatestInv == latest \in 1 .. Len(published) /\ (~overlap => latest = Len(published))

(* A run that passed was compared with a publication; with the latest one, *)
(* if no other run can have published since.                               *)
RunCompared(r) ==
    /\ reference[r] <= Len(published)
    /\ phase[r] = "passed" =>
          /\ FxPasses(staged[r], published[reference[r]])
          /\ ~overlap => reference[r] = Len(published)

OneActive ==
    ~overlap => \A r, q \in Runs : Active(r) /\ Active(q) => r = q

FeedInv ==
    /\ FeedTypeOK
    /\ LatestInv
    /\ \A r \in Runs : RunCompared(r)
    /\ OneActive
    /\ SamePairsForever
    /\ DriftIsBounded
    /\ NeighboursAgree

LEMMA FeedInit == Init => FeedInv
<1> SUFFICES ASSUME Init PROVE FeedInv
  OBVIOUS
<1>1. PICK seed \in Payloads : published = <<seed>> /\ staged = [r \in Runs |-> seed]
  BY DEF Init
<1>2. FeedTypeOK
  BY <1>1 DEF Init, FeedTypeOK, Phases
<1>3. LatestInv /\ \A r \in Runs : RunCompared(r)
  BY <1>1 DEF Init, LatestInv, RunCompared
<1>4. OneActive
  BY DEF Init, OneActive, Active
<1>5. SamePairsForever
  BY <1>1 DEF SamePairsForever
<1>6. DriftIsBounded
  <2> SUFFICES ASSUME NEW k \in DOMAIN seed
               PROVE  Distance(seed[k], seed[k]) <= (1 - 1) * Tolerance
    BY <1>1 DEF DriftIsBounded
  <2>1. seed[k] \in Int
    BY PayloadValues
  <2>. QED
    BY <2>1, DistanceTriangle, FxAssumption
<1>7. NeighboursAgree
  BY <1>1 DEF NeighboursAgree
<1>. QED
  BY <1>2, <1>3, <1>4, <1>5, <1>6, <1>7 DEF FeedInv

(* Steps that publish nothing.                                             *)
LEMMA NothingPublished ==
  ASSUME FeedInv, overlap' = overlap, published' = published, latest' = latest, FeedTypeOK',
         \A r \in Runs : RunCompared(r)', OneActive'
  PROVE  FeedInv'
  BY DEF FeedInv, LatestInv, SamePairsForever, DriftIsBounded, NeighboursAgree

LEMMA FeedBegins ==
  ASSUME FeedInv, NEW r \in Runs, Load(r) \/ Restamp(r)
  PROVE  FeedInv'
<1>1. /\ MayBegin(r) /\ overlap' = overlap
      /\ published' = published /\ latest' = latest /\ reference' = reference
      /\ phase' = [phase EXCEPT ![r] = "staged"]
      /\ \E p \in Payloads : staged' = [staged EXCEPT ![r] = p]
  BY DEF Load, Restamp, FeedInv, FeedTypeOK, LatestInv
<1>2. FeedTypeOK'
  BY <1>1 DEF FeedInv, FeedTypeOK, Phases
<1>3. \A q \in Runs : RunCompared(q)'
  BY <1>1 DEF FeedInv, FeedTypeOK, RunCompared
<1>4. OneActive'
  BY <1>1 DEF FeedInv, FeedTypeOK, OneActive, Active, MayBegin
<1>. QED
  BY <1>1, <1>2, <1>3, <1>4, NothingPublished

LEMMA FeedChecks ==
  ASSUME FeedInv, NEW r \in Runs, Check(r)
  PROVE  FeedInv'
<1>1. /\ phase[r] = "staged" /\ overlap' = overlap /\ published' = published
      /\ latest' = latest /\ staged' = staged
      /\ reference' = [reference EXCEPT ![r] = latest]
      /\ \/ /\ phase' = [phase EXCEPT ![r] = "passed"]
            /\ FxPasses(staged[r], published[latest])
         \/ phase' = [phase EXCEPT ![r] = "queued"]
  BY DEF Check, AllAssertionsPass
<1>2. FeedTypeOK'
  BY <1>1 DEF FeedInv, FeedTypeOK, LatestInv, Phases
<1>3. \A q \in Runs : RunCompared(q)'
  BY <1>1 DEF FeedInv, FeedTypeOK, LatestInv, RunCompared
<1>4. OneActive'
  BY <1>1 DEF FeedInv, FeedTypeOK, OneActive, Active
<1>. QED
  BY <1>1, <1>2, <1>3, <1>4, NothingPublished

LEMMA FeedPublishes ==
  ASSUME FeedInv, NEW r \in Runs, Publish(r)
  PROVE  FeedInv'
<1>. DEFINE n == Len(published)
            j == reference[r]
            p == staged[r]
<1>1. /\ phase[r] = "passed" /\ overlap' = overlap /\ published' = Append(published, p)
      /\ phase' = [phase EXCEPT ![r] = "published"]
      /\ staged' = staged /\ reference' = reference /\ latest' \in NewLatest(r)
  BY DEF Publish
<1>2. /\ n \in Nat \ {0} /\ j \in 1 .. n /\ p \in Payloads
      /\ published \in Seq(Payloads)
      /\ FxPasses(p, published[j])
      /\ ~overlap => j = n
  BY <1>1 DEF FeedInv, FeedTypeOK, RunCompared
<1>3. /\ Len(published') = n + 1 /\ published'[n + 1] = p
      /\ \A i \in 1 .. n : published'[i] = published[i]
      /\ published' \in Seq(Payloads)
      /\ DOMAIN published = 1 .. n /\ DOMAIN published' = 1 .. (n + 1)
  BY <1>1, <1>2
<1>4. /\ DOMAIN p = DOMAIN published[j]
      /\ \A k \in DOMAIN p : ~Disagree(p[k], published[j][k])
  BY <1>2, FxIsPointwise
<1>. HIDE DEF n, j, p
<1>5. FeedTypeOK' /\ LatestInv'
  <2>1. FeedTypeOK'
    BY <1>1, <1>2, <1>3 DEF FeedInv, FeedTypeOK, Phases
  <2>2. /\ latest \in 1 .. n /\ (~overlap => latest = n)
        /\ latest' \in {n + 1} \cup ({latest} \ {j})
    BY <1>1 DEF FeedInv, LatestInv, NewLatest, n, j
  <2>. QED
    BY <1>1, <1>2, <1>3, <2>1, <2>2 DEF LatestInv
<1>6. \A q \in Runs : RunCompared(q)'
  <2> SUFFICES ASSUME NEW q \in Runs PROVE RunCompared(q)'
    OBVIOUS
  <2>1. RunCompared(q) /\ reference[q] \in Nat \ {0} /\ n = Len(published)
    BY DEF FeedInv, FeedTypeOK, n
  <2>2. reference[q] \in 1 .. n
    BY <1>2, <2>1 DEF RunCompared
  <2>3. phase'[q] = "passed" => phase[q] = "passed" /\ q # r
    BY <1>1 DEF FeedInv, FeedTypeOK
  <2>4. phase'[q] = "passed" => overlap'
    BY <1>1, <2>3 DEF FeedInv, OneActive, Active
  <2>5. /\ reference'[q] = reference[q] /\ staged'[q] = staged[q]
        /\ published'[reference[q]] = published[reference[q]]
    BY <1>1, <1>3, <2>2
  <2>6. reference'[q] <= Len(published')
    BY <1>2, <1>3, <2>2, <2>5
  <2>7. ASSUME phase'[q] = "passed"
        PROVE  FxPasses(staged'[q], published'[reference'[q]])
    BY <2>1, <2>3, <2>5, <2>7 DEF RunCompared
  <2>. QED
    BY <2>4, <2>6, <2>7 DEF RunCompared
<1>7. OneActive'
  BY <1>1 DEF FeedInv, FeedTypeOK, OneActive, Active
<1>8. SamePairsForever'
  BY <1>2, <1>3, <1>4 DEF FeedInv, SamePairsForever
<1>9. DriftIsBounded'
  <2>1. 1 \in 1 .. n /\ published'[1] = published[1]
    BY <1>2, <1>3
  <2>2. ASSUME NEW i \in 1 .. n, NEW k \in DOMAIN published'[i]
        PROVE  Distance(published'[i][k], published'[1][k]) <= (i - 1) * Tolerance
    BY <1>3, <2>1, <2>2 DEF FeedInv, DriftIsBounded
  <2>3. ASSUME NEW k \in DOMAIN p
        PROVE  Distance(p[k], published[1][k]) <= n * Tolerance
    <3>. DEFINE a == p[k]
                b == published[j][k]
                c == published[1][k]
    <3>1. /\ k \in DOMAIN published[j] /\ k \in DOMAIN published[1]
          /\ published[j] \in Payloads /\ published[1] \in Payloads
      BY <1>2, <1>3, <1>4, <2>1, <2>3 DEF FeedInv, SamePairsForever
    <3>2. a \in Int /\ b \in Int /\ c \in Int
      BY <1>2, <2>3, <3>1, PayloadValues
    <3>3. ~Disagree(a, b)
      BY <1>4, <2>3
    <3>4. Distance(b, c) <= (j - 1) * Tolerance
      BY <1>2, <1>3, <3>1 DEF FeedInv, DriftIsBounded
    <3>. HIDE DEF a, b, c
    <3>5. Distance(a, b) <= Tolerance
      BY <3>2, <3>3, NumbersWithinTolerance
    <3>6. /\ Distance(a, b) \in Nat /\ Distance(b, c) \in Nat /\ Distance(a, c) \in Nat
          /\ Distance(a, c) <= Distance(a, b) + Distance(b, c)
      BY <3>2, DistanceTriangle
    <3>7. /\ n * Tolerance \in Nat /\ (j - 1) * Tolerance \in Nat
          /\ Tolerance + (j - 1) * Tolerance <= n * Tolerance
      <4>1. j \in Nat \ {0} /\ n \in Nat /\ j <= n
        BY <1>2
      <4>. QED
        BY <4>1, ToleranceSteps
    <3>8. Distance(a, c) <= n * Tolerance
      BY <3>4, <3>5, <3>6, <3>7, FxAssumption
    <3>. QED
      BY <3>8 DEF a, c
  <2>4. ASSUME NEW i \in 1 .. (n + 1), NEW k \in DOMAIN published'[i]
        PROVE  Distance(published'[i][k], published'[1][k]) <= (i - 1) * Tolerance
    <3>1. CASE i \in 1 .. n
      BY <2>2, <2>4, <3>1
    <3>2. CASE i = n + 1
      <4>1. published'[i] = p /\ k \in DOMAIN p /\ i - 1 = n
        BY <1>2, <1>3, <2>4, <3>2
      <4>. QED
        BY <2>1, <2>3, <4>1
    <3>. QED
      BY <1>2, <3>1, <3>2
  <2>. QED
    BY <1>3, <2>4 DEF DriftIsBounded
<1>10. NeighboursAgree'
  <2> SUFFICES ASSUME ~overlap, NEW i \in 2 .. (n + 1)
               PROVE  FxPasses(published'[i], published'[i - 1])
    BY <1>1, <1>3 DEF NeighboursAgree
  <2>1. NeighboursAgree /\ j = n
    BY <1>2 DEF FeedInv
  <2>2. CASE i \in 2 .. n
    <3>1. i \in 1 .. n /\ i - 1 \in 1 .. n
      BY <1>2, <2>2
    <3>. QED
      BY <1>3, <2>1, <2>2, <3>1 DEF NeighboursAgree, n
  <2>3. CASE i = n + 1
    BY <1>2, <1>3, <2>1, <2>3
  <2>. QED
    BY <1>2, <2>2, <2>3
<1>. QED
  BY <1>5, <1>6, <1>7, <1>8, <1>9, <1>10 DEF FeedInv

LEMMA FeedStep == FeedInv /\ [Next]_vars => FeedInv'
<1> SUFFICES ASSUME FeedInv, [Next]_vars PROVE FeedInv'
  OBVIOUS
<1>1. CASE UNCHANGED vars
  BY <1>1 DEF vars, FeedInv, FeedTypeOK, LatestInv, RunCompared, OneActive, Active,
              SamePairsForever, DriftIsBounded, NeighboursAgree
<1>. QED
  BY <1>1, FeedBegins, FeedChecks, FeedPublishes DEF Next, AllEnded

LEMMA FeedInvariant == Spec => []FeedInv
  BY FeedInit, FeedStep, PTL DEF Spec

(* However many runs overlap and whatever upstream delivers: what is       *)
(* published always has the pairs of the first publication.                *)
THEOREM PairsNeverChange == Spec => []SamePairsForever
<1>1. FeedInv => SamePairsForever
  BY DEF FeedInv
<1>. QED
  BY <1>1, FeedInvariant, PTL

(* And no rate is further from its first value than a tolerance for each   *)
(* later publication: with a tolerance of 0 no rate ever changes.          *)
THEOREM RatesDriftSlowly == Spec => []DriftIsBounded
<1>1. FeedInv => DriftIsBounded
  BY DEF FeedInv
<1>. QED
  BY <1>1, FeedInvariant, PTL

(* Where runs do not overlap, each publication passed a comparison with    *)
(* the one right before it.                                                *)
THEOREM SerialRunsAgree == Spec => []NeighboursAgree
<1>1. FeedInv => NeighboursAgree
  BY DEF FeedInv
<1>. QED
  BY <1>1, FeedInvariant, PTL
===============================================================================
