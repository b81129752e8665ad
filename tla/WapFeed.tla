------------------------------- MODULE WapFeed -------------------------------
(***************************************************************************)
(* The pipeline of examples/fx_pipeline_demo.py, day after day: each run   *)
(* stages what an upstream job delivered, takes the latest publication for *)
(* its reference, and publishes if FxRateReconciliation and RowCountDelta  *)
(* pass. Runs may overlap. What WapPipeline says of errors, crashes and    *)
(* keys is left out: here it matters what the payloads hold.               *)
(***************************************************************************)
EXTENDS WapFxReconciliation, WapRowCountDelta, Sequences, FiniteSets

CONSTANTS
    Runs,
    Pairs,          \* the names of rates
    Rates,
    RowCountKey,
    Unit            \* the number 1, in the unit of rates and tolerance

ASSUME FeedAssumption ==
    /\ IsFiniteSet(Pairs) /\ Rates \subseteq Int
    /\ Unit \in Nat \ {0}
    /\ RowCountKey \notin Pairs

VARIABLES
    overlap,        \* does the schedule let runs begin before others end?
    published,      \* the payloads of published.records, in commit order
    latest,         \* the publication with the newest published_at
    phase, staged,
    reference,      \* the publication a run was compared with
    delivery        \* how its payload came about

vars == <<overlap, published, latest, phase, staged, reference, delivery>>

Phases == {"idle", "staged", "passed", "published", "queued"}

Payload(rates) ==
    [k \in DOMAIN rates \cup {RowCountKey} |->
        IF k = RowCountKey THEN Unit * Cardinality(DOMAIN rates) ELSE rates[k]]

Payloads == {Payload(rates) : rates \in UNION {[names -> Rates] : names \in SUBSET Pairs}}

(* RowCountDelta(max_absolute_delta=0) *)
NoRowsMore == [max_absolute_delta |-> 0, max_pct_delta |-> None, allow_empty |-> FALSE]

RowCount(payload) ==
    IF RowCountKey \in DOMAIN payload THEN payload[RowCountKey] \div Unit ELSE NoCount

AllAssertionsPass(payload, against) ==
    /\ FxPasses(payload, against)
    /\ RowCountPasses(NoRowsMore, RowCount(payload), RowCount(against))

(* Scene 1: the first publication is compared with itself.                 *)
Init ==
    /\ overlap \in BOOLEAN
    /\ \E seed \in Payloads :
          /\ RowCountPasses(NoRowsMore, RowCount(seed), RowCount(seed))
          /\ published = <<seed>>
          /\ staged = [r \in Runs |-> seed]
    /\ latest = 1
    /\ phase = [r \in Runs |-> "idle"]
    /\ reference = [r \in Runs |-> 1]
    /\ delivery = [r \in Runs |-> "refreshed"]

MayBegin(r) ==
    /\ phase[r] = "idle"
    /\ ~overlap => \A q \in Runs : phase[q] \in {"idle", "published", "queued"}

(* The upstream job delivers what it has read: rates that may have moved,  *)
(* for pairs that may be fewer or more than before.                        *)
Load(r) ==
    /\ MayBegin(r)
    /\ \E payload \in Payloads : staged' = [staged EXCEPT ![r] = payload]
    /\ phase' = [phase EXCEPT ![r] = "staged"]
    /\ delivery' = [delivery EXCEPT ![r] = "refreshed"]
    /\ UNCHANGED <<overlap, published, latest, reference>>

(* Scene 2: the job ran again and delivers, with a new timestamp, the      *)
(* rates it delivered before; the actual ones have moved on.               *)
Restamp(r) ==
    /\ MayBegin(r)
    /\ staged' = [staged EXCEPT ![r] = published[latest]]
    /\ phase' = [phase EXCEPT ![r] = "staged"]
    /\ delivery' = [delivery EXCEPT ![r] = "restamped"]
    /\ UNCHANGED <<overlap, published, latest, reference>>

(* SnapshotReferenceSource.resolve()                                       *)
Check(r) ==
    /\ phase[r] = "staged"
    /\ reference' = [reference EXCEPT ![r] = latest]
    /\ phase' = [phase EXCEPT ![r] =
          IF AllAssertionsPass(staged[r], published[latest]) THEN "passed" ELSE "queued"]
    /\ UNCHANGED <<overlap, published, latest, staged, delivery>>

(* A mutant: ORDER BY published_at without DESC. *)
StillLatest(r) == {latest}

(* A run stamps its publication after its check and before its commit: the *)
(* stamp is newer than that of its reference, and may be older than that   *)
(* of a publication committed since.                                       *)
NewLatest(r) == {Len(published) + 1} \cup ({latest} \ {reference[r]})

Publish(r) ==
    /\ phase[r] = "passed"
    /\ phase' = [phase EXCEPT ![r] = "published"]
    /\ published' = Append(published, staged[r])
    /\ latest' \in NewLatest(r)
    /\ UNCHANGED <<overlap, staged, reference, delivery>>

AllEnded ==
    /\ \A r \in Runs : phase[r] \in {"published", "queued"}
    /\ UNCHANGED vars

Next == (\E r \in Runs : Load(r) \/ Restamp(r) \/ Check(r) \/ Publish(r)) \/ AllEnded

Spec == Init /\ [][Next]_vars
-------------------------------------------------------------------------------
(* Properties.                                                             *)

(* No pair is ever lost from, or smuggled into, a published dataset, even  *)
(* by runs that were compared with a publication that is no longer the     *)
(* latest.                                                                 *)
SamePairsForever ==
    \A i \in DOMAIN published : DOMAIN published[i] = DOMAIN published[1]

(* Each publication may be a tolerance away from the one it was compared   *)
(* with, in any direction, so the rates may wander; but never further than *)
(* a tolerance per publication, however the runs overlap.                  *)
DriftIsBounded ==
    \A i \in DOMAIN published : \A k \in DOMAIN published[i] :
        Distance(published[i][k], published[1][k]) <= (i - 1) * Tolerance

(* The corrected data is "tomorrow's reference"                            *)
(* (fx_pipeline_demo.py:31-32, 150): each publication is within tolerance  *)
(* of the one before it. It takes runs that do not overlap: one that does  *)
(* may be compared with what is no longer the latest.                      *)
NeighboursAgree ==
    ~overlap => \A i \in 2 .. Len(published) : FxPasses(published[i], published[i - 1])

-------------------------------------------------------------------------------
(* What the documentation says and the code does not do; see README.       *)

(* "A re-stamped last_updated with stale values will produce a FAILED      *)
(* result", with a "prior published snapshot" for reference                *)
(* (fx_reconciliation.py:10-14).                                           *)
StaleIsRefused ==
    \A r \in Runs : phase[r] = "published" => delivery[r] # "restamped"
===============================================================================
