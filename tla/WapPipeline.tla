------------------------------ MODULE WapPipeline ------------------------------
(***************************************************************************)
(* Concurrent invocations of ReconciliationPipeline.run() against one      *)
(* database: stage, read back, resolve the reference, run the assertions,  *)
(* then publish or route to review, with the failures each step can meet.  *)
(* A step ends where another process can interfere, that is at every SQL   *)
(* statement and at every commit.                                          *)
(***************************************************************************)
EXTENDS WapStore

CONSTANTS
    Calls,            \* arguments run() may be called with
    ValidKeys,        \* dataset keys PostgresStagingWriter accepts
    ValidRunIds,      \* run ids its constructor accepts (UUID() parses them)
    CanonicalRunIds,  \* those _STAGING_REF_PATTERN matches: 36 of [0-9a-f-]
    Jsonb,            \* a payload after a JSONB round trip, None if refused
    DictOf,           \* dict(payload), None where dict() raises
    Verdict,          \* what check(staged, reference) does, per assertion
    Snapshot,         \* stands for a SnapshotReferenceSource
    ExplicitRunIds,   \* may two calls pass the same run_id?
    CleanupEnabled,   \* does a staging clean-up job run?
    Faults,           \* the failures of this instance
    MaxClock          \* bound on the clock

Sources     == Payloads \cup {Snapshot}
CallRecord  == [key : Keys, data : Payloads, suite : SUBSET Assertions,
                source : Sources, run : RunIds]
FaultKinds  == {"psycopg", "other", "ackLost", "auditLost", "crash"}
Verdicts    == {"passed", "failed", "raises"}

ASSUME CallsAssumption == Calls \subseteq CallRecord

ASSUME IdentifiersAssumption ==
    /\ ValidKeys \subseteq Keys
    /\ ValidRunIds \subseteq RunIds
    /\ CanonicalRunIds \subseteq ValidRunIds

(* What a JSONB column returned is stored again unchanged. *)
ASSUME JsonbAssumption ==
    /\ Jsonb \in [Payloads -> Payloads \cup {None}]
    /\ \A p \in Payloads : Jsonb[p] # None => Jsonb[Jsonb[p]] = Jsonb[p]

ASSUME AssertionAssumption ==
    /\ DictOf \in [Payloads -> Payloads \cup {None}]
    /\ Verdict \in [Assertions \X Payloads \X Payloads -> Verdicts]
    /\ Snapshot \notin Payloads \cup {None}

ASSUME EnvironmentAssumption ==
    /\ ExplicitRunIds \in BOOLEAN
    /\ CleanupEnabled \in BOOLEAN
    /\ Faults \subseteq FaultKinds
    /\ MaxClock \in Nat

VARIABLES
    call,       \* the arguments of each invocation
    pc,         \* where each invocation is
    staged,     \* staged_data, the payload read back
    reference,  \* reference_data
    report,     \* the ReconciliationReport, empty until assertions ran
    at,         \* "now" of promote(): published_at of the row to insert
    payload,    \* the payload promote() read under its FOR SHARE lock
    error,      \* why the run was classified ERRORED
    result,     \* RunResult.status
    clock       \* the clients' clock

runVars == <<call, staged, reference, report, at, payload, error, result>>
vars    == <<call, pc, staged, reference, report, at, payload, error, result,
             clock, staging, published, queue, audit, pending>>

PublishSteps == {"lockStaged", "insertPublished", "auditPublished",
                 "commitPublished"}
RouteSteps   == {"insertQueue", "auditRouted", "commitRouted"}
Ended        == {"returned", "raised", "crashed"}
Steps        == {"begin", "write", "read", "resolve", "check", "promote",
                 "route", "errored"} \cup PublishSteps \cup RouteSteps \cup Ended

Errors == {"stagingWrite", "stagingRead", "reference", "notPassing",
           "stagedMissing", "alreadyPublished", "allPassing", "alreadyQueued"}

RunTypeOK ==
    /\ call \in [Invocations -> Calls]
    /\ pc \in [Invocations -> Steps]
    /\ staged \in [Invocations -> Payloads \cup {None}]
    /\ reference \in [Invocations -> Payloads \cup {None}]
    /\ report \in [Invocations -> Reports]
    /\ at \in [Invocations -> Nat]
    /\ payload \in [Invocations -> Payloads \cup {None}]
    /\ error \in [Invocations -> Errors \cup {None}]
    /\ result \in [Invocations -> RunStatuses \cup {None}]
    /\ clock \in Nat

TypeOK == StoreTypeOK /\ RunTypeOK

(* new_run_id() gives every run an id of its own; explicit ids need not.   *)
Init ==
    /\ StoreInit
    /\ call \in [Invocations -> Calls]
    /\ \/ ExplicitRunIds
       \/ \A i, j \in Invocations : call[i].run = call[j].run => i = j
    /\ pc = [i \in Invocations |-> "begin"]
    /\ staged = [i \in Invocations |-> None]
    /\ reference = [i \in Invocations |-> None]
    /\ report = [i \in Invocations |-> EmptyReport]
    /\ at = [i \in Invocations |-> 0]
    /\ payload = [i \in Invocations |-> None]
    /\ error = [i \in Invocations |-> None]
    /\ result = [i \in Invocations |-> None]
    /\ clock = 0

Ref(i) == <<call[i].key, call[i].run>>

Go(i, from, to) == pc[i] = from /\ pc' = [pc EXCEPT ![i] = to]

(* An expected failure: _errored() is called with the reason. *)
Fail(i, from, why) ==
    /\ Go(i, from, "errored")
    /\ error' = [error EXCEPT ![i] = why]
    /\ UNCHANGED <<call, staged, reference, report, at, payload, result, clock>>

Finish(i, from, status) ==
    /\ Go(i, from, "returned")
    /\ result' = [result EXCEPT ![i] = status]
    /\ UNCHANGED <<call, staged, reference, report, at, payload, error, clock>>

-------------------------------------------------------------------------------
(* run(), up to the writer: the two errors raised before any I/O.          *)

Begin(i) ==
    /\ call[i].suite # {} /\ call[i].run \in ValidRunIds
    /\ Go(i, "begin", "write")
    /\ UNCHANGED <<runVars, clock, storeVars>>

Misconfigured(i) ==
    /\ call[i].suite = {} \/ call[i].run \notin ValidRunIds
    /\ Go(i, "begin", "raised")
    /\ UNCHANGED <<runVars, clock, storeVars>>

-------------------------------------------------------------------------------
(* Step 1, PostgresStagingWriter.write(): the insert and its commit.       *)

(* A mutant: ON CONFLICT DO UPDATE in place of the unique violation. *)
StageableUpsert(i) ==
    /\ call[i].key \in ValidKeys
    /\ Jsonb[call[i].data] # None

Stageable(i) ==
    /\ call[i].key \in ValidKeys
    /\ Jsonb[call[i].data] # None
    /\ staging[Ref(i)] = None

InsertStaged(i) == staging' = [staging EXCEPT ![Ref(i)] = Jsonb[call[i].data]]

StageWrite(i) ==
    /\ Stageable(i)
    /\ Go(i, "write", "read")
    /\ InsertStaged(i)
    /\ UNCHANGED <<runVars, clock, published, queue, audit, pending>>

StageRefused(i) ==
    /\ ~Stageable(i)
    /\ Fail(i, "write", "stagingWrite")
    /\ UNCHANGED storeVars

(* The commit took effect but the connection died before its answer. *)
StageUnacknowledged(i) ==
    /\ "ackLost" \in Faults
    /\ Stageable(i)
    /\ Fail(i, "write", "stagingWrite")
    /\ InsertStaged(i)
    /\ UNCHANGED <<published, queue, audit, pending>>

-------------------------------------------------------------------------------
(* Step 2, PostgresStagingWriter.read().                                   *)

Readable(i) == call[i].run \in CanonicalRunIds /\ staging[Ref(i)] # None

ReadBack(i) ==
    /\ Readable(i)
    /\ Go(i, "read", "resolve")
    /\ staged' = [staged EXCEPT ![i] = staging[Ref(i)]]
    /\ UNCHANGED <<call, reference, report, at, payload, error, result, clock,
                   storeVars>>

ReadRefused(i) ==
    /\ ~Readable(i)
    /\ Fail(i, "read", "stagingRead")
    /\ UNCHANGED storeVars

-------------------------------------------------------------------------------
(* Step 3, reference_source.resolve(): the newest published snapshot of    *)
(* the dataset, or whatever a custom source holds.                         *)

(* A mutant: the view is read without WHERE dataset_key. *)
SnapshotsOfAnyKey(i) == UNION {LatestRows(k) : k \in Keys}

Snapshots(i) == LatestRows(call[i].key)

Resolve(i, ref) ==
    /\ Go(i, "resolve", "check")
    /\ reference' = [reference EXCEPT ![i] = ref]
    /\ UNCHANGED <<call, staged, report, at, payload, error, result, clock,
                   storeVars>>

ResolveSnapshot(i) ==
    /\ call[i].source = Snapshot
    /\ \E row \in Snapshots(i) :
          DictOf[row.payload] # None /\ Resolve(i, DictOf[row.payload])

(* dict(row["payload"]) raises on a list, and nothing converts that. *)
SnapshotNotADict(i) ==
    /\ call[i].source = Snapshot
    /\ \E row \in Snapshots(i) : DictOf[row.payload] = None
    /\ Go(i, "resolve", "raised")
    /\ UNCHANGED <<runVars, clock, storeVars>>

NoSnapshot(i) ==
    /\ call[i].source = Snapshot
    /\ Snapshots(i) = {}
    /\ Fail(i, "resolve", "reference")
    /\ UNCHANGED storeVars

ResolveCustom(i) ==
    /\ call[i].source # Snapshot
    /\ Resolve(i, call[i].source)

-------------------------------------------------------------------------------
(* Step 4: every assertion runs, whatever the others do.                   *)

(* A mutant: no handler turns an exception of check() into a result. *)
StatusUnconverted(a, data, ref) == Verdict[<<a, data, ref>>]

Status(a, data, ref) ==
    IF Verdict[<<a, data, ref>>] = "raises" THEN "errored"
    ELSE Verdict[<<a, data, ref>>]

(* A mutant: an assertion that raises is dropped from the report. *)
EvaluateDroppingCrashes(suite, data, ref) ==
    [a \in {b \in suite : Verdict[<<b, data, ref>>] # "raises"} |->
        Verdict[<<a, data, ref>>]]

Evaluate(suite, data, ref) == [a \in suite |-> Status(a, data, ref)]

RunAssertions(i) ==
    LET new == Evaluate(call[i].suite, staged[i], reference[i])
    IN  /\ Go(i, "check", IF AllPassed(new) THEN "promote" ELSE "route")
        /\ report' = [report EXCEPT ![i] = new]
        /\ UNCHANGED <<call, staged, reference, at, payload, error, result,
                       clock, storeVars>>

-------------------------------------------------------------------------------
(* Step 5a, Publisher.promote(): the gate, the timestamp, then one         *)
(* transaction of three statements and a commit.                           *)

Promote(i) ==
    IF AllPassed(report[i])
    THEN /\ Go(i, "promote", "lockStaged")
         /\ clock' \in {clock, clock + 1} /\ clock' <= MaxClock
         /\ at' = [at EXCEPT ![i] = clock']
         /\ UNCHANGED <<call, staged, reference, report, payload, error, result,
                        storeVars>>
    ELSE Fail(i, "promote", "notPassing") /\ UNCHANGED storeVars

(* SELECT ... FOR SHARE *)
LockStaged(i) ==
    /\ staging[Ref(i)] # None
    /\ Go(i, "lockStaged", "insertPublished")
    /\ payload' = [payload EXCEPT ![i] = staging[Ref(i)]]
    /\ UNCHANGED <<call, staged, reference, report, at, error, result, clock,
                   storeVars>>

StagedMissing(i) ==
    /\ staging[Ref(i)] = None
    /\ Fail(i, "lockStaged", "stagedMissing")
    /\ UNCHANGED storeVars

NewPublishedRow(i) ==
    [by |-> i, key |-> call[i].key, run |-> call[i].run,
     payload |-> Jsonb[payload[i]], at |-> at[i]]

(* A mutant: the insert runs on an autocommit connection. *)
InsertPublishedAutocommit(i) ==
    /\ ~AlreadyPublished(call[i].run) /\ ~PublishPending(i, call[i].run)
    /\ Go(i, "insertPublished", "auditPublished")
    /\ published' = published \cup {NewPublishedRow(i)}
    /\ UNCHANGED <<runVars, clock, staging, queue, audit, pending>>

InsertPublished(i) ==
    /\ ~AlreadyPublished(call[i].run) /\ ~PublishPending(i, call[i].run)
    /\ Go(i, "insertPublished", "auditPublished")
    /\ pending' = [pending EXCEPT ![i].published = {NewPublishedRow(i)}]
    /\ UNCHANGED <<runVars, clock, staging, published, queue, audit>>

(* UniqueViolation becomes PublishGateError. *)
PublishRefused(i) ==
    /\ AlreadyPublished(call[i].run)
    /\ Fail(i, "insertPublished", "alreadyPublished")
    /\ Rollback(i)
    /\ UNCHANGED staging

NewAuditRow(i, status) ==
    [by |-> i, key |-> call[i].key, run |-> call[i].run,
     status |-> status, report |-> report[i]]

AuditPublished(i) ==
    /\ Go(i, "auditPublished", "commitPublished")
    /\ pending' = [pending EXCEPT ![i].audit = {NewAuditRow(i, "published")}]
    /\ UNCHANGED <<runVars, clock, staging, published, queue, audit>>

CommitPublished(i) ==
    /\ Finish(i, "commitPublished", "published")
    /\ Commit(i)
    /\ UNCHANGED staging

-------------------------------------------------------------------------------
(* Step 5b, ReviewQueueRouter.route(): likewise, two statements.           *)

Route(i) ==
    IF ~AllPassed(report[i])
    THEN Go(i, "route", "insertQueue") /\ UNCHANGED <<runVars, clock, storeVars>>
    ELSE Fail(i, "route", "allPassing") /\ UNCHANGED storeVars

NewQueueRow(i) ==
    [by |-> i, key |-> call[i].key, run |-> call[i].run,
     severity |-> SeverityValue(report[i]), report |-> report[i]]

InsertQueue(i) ==
    /\ ~AlreadyQueued(call[i].run) /\ ~QueuePending(i, call[i].run)
    /\ Go(i, "insertQueue", "auditRouted")
    /\ pending' = [pending EXCEPT ![i].queue = {NewQueueRow(i)}]
    /\ UNCHANGED <<runVars, clock, staging, published, queue, audit>>

QueueRefused(i) ==
    /\ AlreadyQueued(call[i].run)
    /\ Fail(i, "insertQueue", "alreadyQueued")
    /\ Rollback(i)
    /\ UNCHANGED staging

(* A mutant: the audit row is written before, not with, the queue entry. *)
AuditRoutedAutocommit(i) ==
    /\ Go(i, "auditRouted", "commitRouted")
    /\ audit' = audit \cup {NewAuditRow(i, "routed_to_review")}
    /\ UNCHANGED <<runVars, clock, staging, published, queue, pending>>

AuditRouted(i) ==
    /\ Go(i, "auditRouted", "commitRouted")
    /\ pending' = [pending EXCEPT ![i].audit =
                                     {NewAuditRow(i, "routed_to_review")}]
    /\ UNCHANGED <<runVars, clock, staging, published, queue, audit>>

CommitRouted(i) ==
    /\ Finish(i, "commitRouted", "routed_to_review")
    /\ Commit(i)
    /\ UNCHANGED staging

-------------------------------------------------------------------------------
(* _errored(): the audit row of a refused run, best effort.                *)

(* A mutant: a run that failed before it had a report is not recorded. *)
WriteErroredAuditOfReport(i) ==
    /\ Finish(i, "errored", "errored")
    /\ IF report[i] = EmptyReport THEN UNCHANGED audit
       ELSE audit' = audit \cup {NewAuditRow(i, "errored")}
    /\ UNCHANGED <<staging, published, queue, pending>>

WriteErroredAudit(i) ==
    /\ Finish(i, "errored", "errored")
    /\ audit' = audit \cup {NewAuditRow(i, "errored")}
    /\ UNCHANGED <<staging, published, queue, pending>>

(* Whatever the audit insert of _errored() raises is logged and dropped.   *)
LoseErroredAudit(i) ==
    /\ "auditLost" \in Faults
    /\ Finish(i, "errored", "errored")
    /\ UNCHANGED storeVars

-------------------------------------------------------------------------------
(* Failures.  psycopg2.Error becomes an expected failure in the first      *)
(* three steps; promote() and route() re-raise it and run() lets it out.   *)

DatabaseError(i) ==
    /\ "psycopg" \in Faults
    /\ \/ Fail(i, "write", "stagingWrite")
       \/ Fail(i, "read", "stagingRead")
       \/ Fail(i, "resolve", "reference")
    /\ UNCHANGED storeVars

TransactionError(i) ==
    /\ "psycopg" \in Faults
    /\ \E step \in PublishSteps \cup RouteSteps : Go(i, step, "raised")
    /\ Rollback(i)
    /\ UNCHANGED <<runVars, clock, staging>>

(* ConnectionError or OSError from get_connection(), TypeError from Json.  *)
OtherError(i) ==
    /\ "other" \in Faults
    /\ \E step \in {"write", "read", "resolve", "lockStaged", "auditPublished",
                    "insertQueue"} : Go(i, step, "raised")
    /\ Rollback(i)
    /\ UNCHANGED <<runVars, clock, staging>>

(* A mutant: run() catches the lost answer of a commit and calls _errored(). *)
CommitUnacknowledgedAsErrored(i) ==
    /\ "ackLost" \in Faults
    /\ \E step \in {"commitPublished", "commitRouted"} :
          Fail(i, step, "stagedMissing")
    /\ Commit(i)
    /\ UNCHANGED staging

(* The commit took effect but raised OperationalError at the client. *)
CommitUnacknowledged(i) ==
    /\ "ackLost" \in Faults
    /\ \E step \in {"commitPublished", "commitRouted"} : Go(i, step, "raised")
    /\ Commit(i)
    /\ UNCHANGED <<runVars, clock, staging>>

Crash(i) ==
    /\ "crash" \in Faults
    /\ \E step \in Steps \ Ended : Go(i, step, "crashed")
    /\ Rollback(i)
    /\ UNCHANGED <<runVars, clock, staging>>

(* The scheduled truncation job publisher.py mentions. FOR SHARE keeps it  *)
(* from the row until the publishing transaction ends.                     *)
LocksStaged(i) == pc[i] \in PublishSteps \ {"lockStaged"}

Cleanup(ref) ==
    /\ CleanupEnabled
    /\ staging[ref] # None
    /\ \A i \in Invocations : Ref(i) = ref => ~LocksStaged(i)
    /\ staging' = [staging EXCEPT ![ref] = None]
    /\ UNCHANGED <<runVars, pc, clock, published, queue, audit, pending>>

-------------------------------------------------------------------------------
Progress(i) ==
    \/ StageWrite(i) \/ StageRefused(i)
    \/ ReadBack(i) \/ ReadRefused(i)
    \/ ResolveSnapshot(i) \/ SnapshotNotADict(i) \/ NoSnapshot(i)
    \/ ResolveCustom(i)
    \/ RunAssertions(i)
    \/ Promote(i) \/ LockStaged(i) \/ StagedMissing(i)
    \/ InsertPublished(i) \/ PublishRefused(i)
    \/ AuditPublished(i) \/ CommitPublished(i)
    \/ Route(i) \/ InsertQueue(i) \/ QueueRefused(i)
    \/ AuditRouted(i) \/ CommitRouted(i)
    \/ WriteErroredAudit(i)

Fault(i) ==
    \/ StageUnacknowledged(i) \/ LoseErroredAudit(i) \/ DatabaseError(i)
    \/ TransactionError(i) \/ OtherError(i) \/ CommitUnacknowledged(i)
    \/ Crash(i)

(* Every invocation has ended: the system may stop. *)
AllEnded ==
    /\ \A i \in Invocations : pc[i] \in Ended
    /\ UNCHANGED vars

Next ==
    \/ \E i \in Invocations :
          Begin(i) \/ Misconfigured(i) \/ Progress(i) \/ Fault(i)
    \/ \E ref \in Refs : Cleanup(ref)
    \/ AllEnded

Spec == Init /\ [][Next]_vars

(* A thread inside run() is scheduled and the database answers it.         *)
Fairness == \A i \in Invocations : WF_vars(Progress(i))

FairSpec == Spec /\ Fairness
-------------------------------------------------------------------------------
(* Properties.                                                             *)

(* Whatever sits in published.records is the very payload every assertion  *)
(* of its run passed on, against the reference that run resolved, although *)
(* promote() reads the payload again after the assertions ran              *)
(* (publisher.py invariant 4).                                             *)
PublishedWereChecked ==
    \A row \in published :
        /\ call[row.by].suite # {}
        /\ \A a \in call[row.by].suite :
              Verdict[<<a, row.payload, reference[row.by]>>] = "passed"

(* A run that used a SnapshotReferenceSource was compared with a row that  *)
(* another run had published for the same dataset: never with staged data, *)
(* another dataset, or itself.                                             *)
ReferenceWasPublished ==
    \A i \in Invocations :
        call[i].source = Snapshot /\ reference[i] # None =>
            \E row \in published :
                /\ row.key = call[i].key /\ row.by # i
                /\ DictOf[row.payload] = reference[i]

(* A published row and its audit row, and a queue entry and its audit row, *)
(* only ever exist together, and the audit row carries the report of that  *)
(* run (publisher.py invariant 1).                                         *)
LedgerAgrees ==
    /\ {<<r.by, r.key, r.run, report[r.by]>> : r \in published} =
       {<<a.by, a.key, a.run, a.report>> :
            a \in {e \in audit : e.status = "published"}}
    /\ {<<r.by, r.key, r.run, r.report>> : r \in queue} =
       {<<a.by, a.key, a.run, a.report>> :
            a \in {e \in audit : e.status = "routed_to_review"}}

(* What run() returned is what the tables say: PUBLISHED and               *)
(* ROUTED_TO_REVIEW have their row, ERRORED has neither, whatever refusals *)
(* and lost answers happened on the way.                                   *)
ResultIsTruthful ==
    \A i \in Invocations :
        /\ result[i] = "published" => \E r \in published : r.by = i
        /\ result[i] = "routed_to_review" => \E r \in queue : r.by = i
        /\ result[i] = "errored" =>
              \A r \in published \cup queue : r.by # i

(* No invocation leaves two audit rows, for instance the "published" row   *)
(* of its transaction and an "errored" row for the same run.               *)
OneAuditRowPerRun == \A a, b \in audit : a.by = b.by => a = b

(* Unless the audit insert of _errored() is lost, an invocation that       *)
(* returned has an audit row with the status it returned, whichever        *)
(* refusal or error of its steps came first (pipeline.py invariant 1).     *)
EveryReturnIsAudited ==
    \A i \in Invocations :
        pc[i] = "returned" =>
            \E a \in audit : a.by = i /\ a.status = result[i]

(* A queue entry sits in the lane of its most urgent assertion that did    *)
(* not pass, one that crashed included.                                    *)
QueuedInTheRightLane ==
    \A row \in queue :
        LET unmet == {a \in call[row.by].suite :
                         Status(a, staged[row.by], reference[row.by]) # "passed"}
        IN  /\ \E a \in unmet : SeverityOf[a] = row.severity
            /\ \A a \in unmet : Rank[row.severity] <= Rank[SeverityOf[a]]

(* One staged record is never both published and waiting for review.       *)
RefHasOneFate ==
    \A p \in published, q \in queue : <<p.key, p.run>> # <<q.key, q.run>>

(* A reader of staging.records who looks up the run of a published row     *)
(* finds the payload that was promoted (publisher.py invariant 5).         *)
StagingReplays ==
    \A row \in published : staging[<<row.key, row.run>>] = row.payload

(* The tables behave as the ledger promises, under every interleaving,     *)
(* refusal, lost answer and crash.                                         *)
Ledger == INSTANCE WapLedger
LedgerSpec == Ledger!Spec

(* A caller of run() sees the contract WapRun: what it is told agrees with *)
(* what the run left for good, and only a call that raised or died leaves  *)
(* its caller in doubt.                                                    *)
CallerState(i) == CASE pc[i] = "returned" -> result[i]
                    [] pc[i] \in {"raised", "crashed"} -> pc[i]
                    [] OTHER -> "running"
Record(i) == CASE \E r \in published : r.by = i -> "published"
               [] \E q \in queue : q.by = i -> "queued"
               [] OTHER -> "nothing"

Run == INSTANCE WapRun WITH
          Runs   <- Invocations,
          state  <- [i \in Invocations |-> CallerState(i)],
          record <- [i \in Invocations |-> Record(i)]
RunSpec == Run!Spec

(* Every invocation that got past its argument checks comes to an end,     *)
(* although it may wait for another transaction's unique key.              *)
EveryRunEnds ==
    \A i \in Invocations : pc[i] = "write" ~> pc[i] \in Ended

(* A run whose data does not pass one of its assertions, or crashes it, is *)
(* in the review queue in the end, by an entry of its own. Otherwise its   *)
(* caller has an exception, or no answer, to go by; or it is ERRORED, for  *)
(* the one reason that another invocation was queued under its run_id, and *)
(* its unmet report is in the audit log only.                              *)
UnmetRunsReachReview ==
    \A i \in Invocations :
        ( /\ pc[i] = "check"
          /\ \E a \in call[i].suite :
                Verdict[<<a, staged[i], reference[i]>>] # "passed" ) ~>
            ( \/ \E q \in queue : q.by = i
              \/ pc[i] \in {"raised", "crashed"}
              \/ /\ result[i] = "errored"
                 /\ \E q \in queue : q.run = call[i].run /\ q.by # i
                 /\ \E a \in audit : a.by = i /\ ~AllPassed(a.report) )

-------------------------------------------------------------------------------
(* What the documentation says and the code does not do; see README.       *)

(* "Every expected failure path is represented in the returned RunResult   *)
(* rather than raised": only a misconfigured call ends by an exception.    *)
FailuresAreReturned ==
    \A i \in Invocations :
        pc[i] = "raised" =>
            call[i].suite = {} \/ call[i].run \notin ValidRunIds
===============================================================================
