------------------------------ MODULE WapReport ------------------------------
(***************************************************************************)
(* The report of one run: what every assertion of the suite said about the *)
(* staged data (core/models.py, core/enums.py).  A report is a function    *)
(* from the assertions that ran to their statuses; names, messages,        *)
(* evidence and timestamps are left out.                                   *)
(***************************************************************************)
EXTENDS Integers

CONSTANTS
    Assertions,     \* the assertion objects callers may put in a suite
    SeverityOf      \* Assertion.severity, fixed when the object is built

Severities == {"critical", "warn", "info"}
Statuses   == {"passed", "failed", "errored"}

ASSUME SeverityAssumption == SeverityOf \in [Assertions -> Severities]

Reports == UNION {[suite -> Statuses] : suite \in SUBSET Assertions}

(* The report synthesized for a run that failed before its assertions ran. *)
EmptyReport == [a \in {} |-> "passed"]

(* A mutant: an assertion that crashed is not held against the run. *)
AllPassedUnlessFailed(report) == \A a \in DOMAIN report : report[a] # "failed"

AllPassed(report) == \A a \in DOMAIN report : report[a] = "passed"

(* A mutant: only "failed" counts when the triage lane is chosen. *)
FailedResultsOnlyFailed(report) == {a \in DOMAIN report : report[a] = "failed"}

FailedResults(report) == {a \in DOMAIN report : report[a] # "passed"}

(* Triage order: a smaller rank is more urgent. *)
Rank == [critical |-> 0, warn |-> 1, info |-> 2]

HighestFailedSeverity(report) ==
    LET failed == {SeverityOf[a] : a \in FailedResults(report)}
    IN  CHOOSE s \in failed : \A t \in failed : Rank[s] <= Rank[t]

(* The severity column of a queue entry, never NULL. *)
SeverityValue(report) ==
    IF FailedResults(report) = {} THEN "warn" ELSE HighestFailedSeverity(report)
===============================================================================
