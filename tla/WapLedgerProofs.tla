---------------------------- MODULE WapLedgerProofs ----------------------------
(***************************************************************************)
(* Theorems about what WapPipeline records: its tables implement WapLedger *)
(* and every row tells what its run did, for every value of the constants  *)
(* and with every failure enabled.                                         *)
(***************************************************************************)
EXTENDS WapPipelineProofs

-------------------------------------------------------------------------------
(* The inductive invariant.  An open transaction holds the rows its pc     *)
(* says it inserted; no two transactions hold a row of one run_id, which   *)
(* is what the unique indexes are for; and a recorded run is at its end,   *)
(* so nothing it recorded can change or be recorded again.                 *)

Queued      == {"auditRouted", "commitRouted"}
AfterReport == {"promote", "route"} \cup PublishSteps \cup RouteSteps
Recorded    == {"returned", "raised"}

OwnTransaction(i) ==
    /\ pending[i].published = IF pc[i] \in Inserted THEN {NewPublishedRow(i)} ELSE {}
    /\ pending[i].queue = IF pc[i] \in Queued THEN {NewQueueRow(i)} ELSE {}
    /\ pending[i].audit = IF pc[i] = "commitPublished" THEN {NewAuditRow(i, "published")}
                          ELSE IF pc[i] = "commitRouted"
                          THEN {NewAuditRow(i, "routed_to_review")} ELSE {}

ReportOf(i) == Evaluate(call[i].suite, staged[i], reference[i])

OwnReport(i) ==
    /\ pc[i] \in AfterWrite \cup {"write"} => call[i].suite # {}
    /\ pc[i] \in AfterReport => report[i] = ReportOf(i)
    /\ pc[i] \in PublishSteps => AllPassed(report[i])
    /\ pc[i] \in RouteSteps => ~AllPassed(report[i])

OwnKeys(i) ==
    /\ pc[i] \in Inserted => ~AlreadyPublished(call[i].run)
    /\ pc[i] \in Queued => ~AlreadyQueued(call[i].run)

OwnResult(i) ==
    /\ result[i] # None => pc[i] = "returned"
    /\ result[i] = "published" => \E r \in published : r.by = i
    /\ result[i] = "routed_to_review" => \E r \in queue : r.by = i
    /\ result[i] = "errored" => \A r \in published \cup queue : r.by # i

Own(i) == OwnTransaction(i) /\ OwnReport(i) /\ OwnKeys(i) /\ OwnResult(i)

(* No two open transactions inserted the same unique key. *)
Apart(i, j) ==
    call[i].run = call[j].run =>
        ~(pc[i] \in Inserted /\ pc[j] \in Inserted) /\ ~(pc[i] \in Queued /\ pc[j] \in Queued)

EntryOf(row, status) ==
    [by |-> row.by, key |-> row.key, run |-> row.run,
     status |-> status, report |-> report[row.by]]

PublishedRecorded ==
    \A r \in published : pc[r.by] \in Recorded /\ EntryOf(r, "published") \in audit

QueueRecorded ==
    \A q \in queue :
        /\ pc[q.by] \in Recorded /\ EntryOf(q, "routed_to_review") \in audit
        /\ q.report = report[q.by] /\ q.report = ReportOf(q.by)
        /\ ~AllPassed(q.report) /\ q.severity = SeverityValue(q.report)

AuditRecorded ==
    \A a \in audit :
        /\ pc[a.by] \in Recorded
        /\ a.status = "published" =>
              \E r \in published : a = EntryOf(r, "published")
        /\ a.status = "routed_to_review" =>
              \E q \in queue : a = EntryOf(q, "routed_to_review")

LedgerInv ==
    /\ TypeInv
    /\ \A i \in Invocations : Own(i)
    /\ \A i, j \in Invocations : i # j => Apart(i, j)
    /\ PublishedRecorded /\ QueueRecorded /\ AuditRecorded
    /\ OneAuditRowPerRun

-------------------------------------------------------------------------------
(* What a step of invocation i leaves alone of the others. *)
OthersSame(i) ==
    /\ UNCHANGED call
    /\ \A j \in Invocations \ {i} :
          /\ pc'[j] = pc[j] /\ staged'[j] = staged[j] /\ reference'[j] = reference[j]
          /\ report'[j] = report[j] /\ at'[j] = at[j] /\ payload'[j] = payload[j]
          /\ result'[j] = result[j] /\ pending'[j] = pending[j]

(* What a committed row rests on. *)
SameRun(i) ==
    /\ staged'[i] = staged[i] /\ reference'[i] = reference[i] /\ report'[i] = report[i]

CommitStep(i) ==
    /\ pc[i] \in {"commitPublished", "commitRouted"} /\ pc'[i] \in Recorded
    /\ Commit(i) /\ SameRun(i)

ErroredStep(i) ==
    /\ pc[i] = "errored" /\ pc'[i] \in Recorded
    /\ audit' = audit \cup {NewAuditRow(i, "errored")}
    /\ UNCHANGED <<published, queue>>
    /\ SameRun(i)

(* Nothing in the tables belongs to an invocation that has not ended. *)
LEMMA NotYetRecorded ==
    ASSUME LedgerInv, NEW i \in Invocations, pc[i] \notin Recorded
    PROVE  \A row \in published \cup queue \cup audit : row.by # i /\ row.by \in Invocations
BY DEF LedgerInv, PublishedRecorded, QueueRecorded, AuditRecorded, TypeInv, TypeOK,
       StoreTypeOK, PublishedRow, QueueRow, AuditRow

(* The two commits, by what they add. *)
LEMMA CommitAdds ==
    ASSUME LedgerInv, NEW i \in Invocations, CommitStep(i)
    PROVE  \/ /\ pc[i] = "commitPublished"
              /\ published' = published \cup {NewPublishedRow(i)}
              /\ audit' = audit \cup {NewAuditRow(i, "published")}
              /\ UNCHANGED queue
           \/ /\ pc[i] = "commitRouted"
              /\ queue' = queue \cup {NewQueueRow(i)}
              /\ audit' = audit \cup {NewAuditRow(i, "routed_to_review")}
              /\ UNCHANGED published
<1>1. OwnTransaction(i)
  BY DEF LedgerInv, Own
<1>2. CASE pc[i] = "commitPublished"
  <2>1. /\ pending[i].published = {NewPublishedRow(i)} /\ pending[i].queue = {}
        /\ pending[i].audit = {NewAuditRow(i, "published")}
    BY <1>1, <1>2 DEF OwnTransaction, Inserted, Queued
  <2> QED BY <1>2, <2>1 DEF CommitStep, Commit
<1>3. CASE pc[i] = "commitRouted"
  <2>1. /\ pending[i].queue = {NewQueueRow(i)} /\ pending[i].published = {}
        /\ pending[i].audit = {NewAuditRow(i, "routed_to_review")}
    BY <1>1, <1>3 DEF OwnTransaction, Inserted, Queued
  <2> QED BY <1>3, <2>1 DEF CommitStep, Commit
<1> QED BY <1>2, <1>3 DEF CommitStep

(* The rows of the tables keep what they rest on. *)
LEMMA OldRows ==
    ASSUME LedgerInv, NEW i \in Invocations, OthersSame(i), pc[i] \notin Recorded,
           NEW row \in published \cup queue \cup audit
    PROVE  /\ row.by \in Invocations /\ pc'[row.by] = pc[row.by]
           /\ report'[row.by] = report[row.by] /\ ReportOf(row.by)' = ReportOf(row.by)
BY NotYetRecorded DEF OthersSame, ReportOf, Evaluate, Status

(* A step of one invocation keeps the others' part of the invariant. *)
LEMMA OthersOwn ==
    ASSUME LedgerInv, TypeInv', NEW i \in Invocations, OthersSame(i), pc[i] \notin Recorded,
           \/ UNCHANGED tables
           \/ CommitStep(i)
           \/ ErroredStep(i),
           NEW j \in Invocations \ {i}
    PROVE  Own(j)'
<1>1. Own(j)
  BY DEF LedgerInv
<1>2. OwnTransaction(j)' /\ OwnReport(j)'
  <2>1. /\ NewPublishedRow(j)' = NewPublishedRow(j) /\ NewQueueRow(j)' = NewQueueRow(j)
        /\ \A status \in RunStatuses : NewAuditRow(j, status)' = NewAuditRow(j, status)
    BY DEF OthersSame, NewPublishedRow, NewQueueRow, NewAuditRow
  <2>2. pc'[j] = pc[j] /\ pending'[j] = pending[j] /\ report'[j] = report[j]
    BY DEF OthersSame
  <2>3. OwnTransaction(j)'
    BY <1>1, <2>1, <2>2 DEF Own, OwnTransaction, RunStatuses
  <2>4. ReportOf(j)' = ReportOf(j)
    BY DEF OthersSame, ReportOf, Evaluate, Status
  <2>5. OwnReport(j)'
    BY <1>1, <2>2, <2>4 DEF Own, OwnReport, OthersSame
  <2> QED BY <2>3, <2>5
<1>3. \/ UNCHANGED <<published, queue>>
      \/ /\ pc[i] = "commitPublished" /\ published' = published \cup {NewPublishedRow(i)}
         /\ UNCHANGED queue
      \/ /\ pc[i] = "commitRouted" /\ queue' = queue \cup {NewQueueRow(i)}
         /\ UNCHANGED published
  BY CommitAdds DEF tables, ErroredStep
<1>4. Apart(i, j)
  BY DEF LedgerInv
<1>5. OwnKeys(j)'
  BY <1>1, <1>3, <1>4 DEF Own, OwnKeys, Apart, OthersSame, AlreadyPublished, AlreadyQueued,
     NewPublishedRow, NewQueueRow, Inserted, Queued
<1>6. OwnResult(j)'
  BY <1>1, <1>3 DEF Own, OwnResult, OthersSame, NewPublishedRow, NewQueueRow
<1> QED BY <1>2, <1>5, <1>6 DEF Own

(* The tables themselves: old rows rest on runs that ended, new ones on    *)
(* the run that just did.                                                  *)
LEMMA TablesRecorded ==
    ASSUME LedgerInv, TypeInv', NEW i \in Invocations, OthersSame(i), pc[i] \notin Recorded,
           \/ UNCHANGED tables
           \/ CommitStep(i)
           \/ ErroredStep(i)
    PROVE  /\ PublishedRecorded' /\ QueueRecorded' /\ AuditRecorded'
           /\ OneAuditRowPerRun'
<1>1. \A row \in published \cup queue \cup audit :
         /\ row.by # i /\ pc'[row.by] = pc[row.by]
         /\ report'[row.by] = report[row.by] /\ ReportOf(row.by)' = ReportOf(row.by)
  BY OldRows, NotYetRecorded
<1>2. /\ \A r \in published, status \in RunStatuses : EntryOf(r, status)' = EntryOf(r, status)
      /\ \A r \in queue, status \in RunStatuses : EntryOf(r, status)' = EntryOf(r, status)
  BY <1>1 DEF EntryOf
<1>3. /\ \A r \in published : pc'[r.by] \in Recorded /\ EntryOf(r, "published")' \in audit
      /\ \A q \in queue :
            /\ pc'[q.by] \in Recorded /\ EntryOf(q, "routed_to_review")' \in audit
            /\ q.report = report'[q.by] /\ q.report = ReportOf(q.by)'
            /\ ~AllPassed(q.report) /\ q.severity = SeverityValue(q.report)
      /\ \A a \in audit :
            /\ pc'[a.by] \in Recorded
            /\ a.status = "published" =>
                  \E r \in published : a = EntryOf(r, "published")'
            /\ a.status = "routed_to_review" =>
                  \E q \in queue : a = EntryOf(q, "routed_to_review")'
  BY <1>1, <1>2 DEF LedgerInv, PublishedRecorded, QueueRecorded, AuditRecorded, RunStatuses
<1>4. CASE UNCHANGED tables
  BY <1>3, <1>4 DEF tables, PublishedRecorded, QueueRecorded, AuditRecorded,
                    OneAuditRowPerRun, LedgerInv
<1>5. ASSUME NEW status \in RunStatuses, audit' = audit \cup {NewAuditRow(i, status)}
      PROVE  OneAuditRowPerRun'
  BY <1>1, <1>5 DEF NewAuditRow, OneAuditRowPerRun, LedgerInv
<1>6. CASE CommitStep(i) /\ pc[i] = "commitPublished"
  <2>1. /\ published' = published \cup {NewPublishedRow(i)}
        /\ audit' = audit \cup {NewAuditRow(i, "published")}
        /\ UNCHANGED queue
    BY <1>6, CommitAdds
  <2>2. ASSUME NEW row, row = NewPublishedRow(i)
        PROVE  /\ pc'[row.by] \in Recorded
               /\ EntryOf(row, "published")' = NewAuditRow(i, "published")
    BY <1>6, <2>2 DEF EntryOf, NewPublishedRow, NewAuditRow, CommitStep, SameRun, OthersSame
  <2>3. PublishedRecorded'
    BY <1>3, <2>1, <2>2 DEF PublishedRecorded
  <2>4. QueueRecorded'
    BY <1>3, <2>1 DEF QueueRecorded
  <2>5. AuditRecorded'
    <3>1. ASSUME NEW a \in audit
          PROVE  /\ pc'[a.by] \in Recorded
                 /\ a.status = "published" =>
                       \E r \in published' : a = EntryOf(r, "published")'
                 /\ a.status = "routed_to_review" =>
                       \E q \in queue' : a = EntryOf(q, "routed_to_review")'
      BY <1>3, <2>1
    <3>2. NewAuditRow(i, "published").by = i /\ NewAuditRow(i, "published").status = "published"
      BY DEF NewAuditRow
    <3>3. \E r \in published' : NewAuditRow(i, "published") = EntryOf(r, "published")'
      BY <2>1, <2>2
    <3> QED BY <1>6, <2>1, <3>1, <3>2, <3>3 DEF AuditRecorded, CommitStep
  <2>6. OneAuditRowPerRun'
    BY <1>5, <2>1 DEF RunStatuses
  <2> QED BY <2>3, <2>4, <2>5, <2>6
<1>7. CASE CommitStep(i) /\ pc[i] = "commitRouted"
  <2>1. /\ queue' = queue \cup {NewQueueRow(i)}
        /\ audit' = audit \cup {NewAuditRow(i, "routed_to_review")}
        /\ UNCHANGED published
    BY <1>7, CommitAdds
  <2>2. report[i] = ReportOf(i) /\ ~AllPassed(report[i])
    BY <1>7 DEF LedgerInv, Own, OwnReport, AfterReport, RouteSteps
  <2>3. ReportOf(i)' = ReportOf(i) /\ report'[i] = report[i]
    BY <1>7 DEF CommitStep, SameRun, OthersSame, ReportOf, Evaluate, Status
  <2>4. ASSUME NEW row, row = NewQueueRow(i)
        PROVE  /\ pc'[row.by] \in Recorded
               /\ EntryOf(row, "routed_to_review")' = NewAuditRow(i, "routed_to_review")
               /\ row.report = report'[row.by] /\ row.report = ReportOf(row.by)'
               /\ ~AllPassed(row.report) /\ row.severity = SeverityValue(row.report)
    <3>1. row.by = i /\ row.report = report[i] /\ row.severity = SeverityValue(report[i])
      BY <2>4 DEF NewQueueRow
    <3>2. EntryOf(row, "routed_to_review")' = NewAuditRow(i, "routed_to_review")
      BY <2>3, <2>4 DEF EntryOf, NewQueueRow, NewAuditRow
    <3> QED BY <1>7, <2>2, <2>3, <3>1, <3>2 DEF CommitStep
  <2>5. PublishedRecorded'
    BY <1>3, <2>1 DEF PublishedRecorded
  <2>6. QueueRecorded'
    BY <1>3, <2>1, <2>4 DEF QueueRecorded
  <2>7. AuditRecorded'
    <3>1. ASSUME NEW a \in audit
          PROVE  /\ pc'[a.by] \in Recorded
                 /\ a.status = "published" =>
                       \E r \in published' : a = EntryOf(r, "published")'
                 /\ a.status = "routed_to_review" =>
                       \E q \in queue' : a = EntryOf(q, "routed_to_review")'
      BY <1>3, <2>1
    <3>2. /\ NewAuditRow(i, "routed_to_review").by = i
          /\ NewAuditRow(i, "routed_to_review").status = "routed_to_review"
      BY DEF NewAuditRow
    <3>3. \E q \in queue' : NewAuditRow(i, "routed_to_review") = EntryOf(q, "routed_to_review")'
      BY <2>1, <2>4
    <3> QED BY <1>7, <2>1, <3>1, <3>2, <3>3 DEF AuditRecorded, CommitStep
  <2>8. OneAuditRowPerRun'
    BY <1>5, <2>1 DEF RunStatuses
  <2> QED BY <2>5, <2>6, <2>7, <2>8
<1>8. CASE ErroredStep(i)
  <2>1. PublishedRecorded' /\ QueueRecorded'
    BY <1>3, <1>8 DEF ErroredStep, PublishedRecorded, QueueRecorded
  <2>2. AuditRecorded'
    BY <1>3, <1>8 DEF ErroredStep, AuditRecorded, NewAuditRow
  <2>3. OneAuditRowPerRun'
    BY <1>5, <1>8 DEF ErroredStep, RunStatuses
  <2> QED BY <2>1, <2>2, <2>3
<1> QED BY <1>4, <1>6, <1>7, <1>8 DEF CommitStep

LEMMA LedgerFrame ==
    ASSUME LedgerInv, TypeInv', NEW i \in Invocations, OthersSame(i), pc[i] \notin Recorded,
           Own(i)', \A j \in Invocations \ {i} : Apart(i, j)',
           \/ UNCHANGED tables
           \/ CommitStep(i)
           \/ ErroredStep(i)
    PROVE  LedgerInv'
<1>1. \A j \in Invocations : Own(j)'
  BY OthersOwn
<1>2. ASSUME NEW j \in Invocations, NEW k \in Invocations, j # k PROVE Apart(j, k)'
  <2>1. CASE j = i \/ k = i
    BY <1>2, <2>1 DEF Apart
  <2>2. CASE j # i /\ k # i
    BY <1>2, <2>2 DEF Apart, OthersSame, LedgerInv
  <2> QED BY <2>1, <2>2
<1> QED BY <1>1, <1>2, TablesRecorded DEF LedgerInv

-------------------------------------------------------------------------------
(* The steps, by what they do to the transaction of their invocation.      *)

Open == Inserted \cup Queued

(* An invocation that has not returned has no result. *)
LEMMA NoResultYet ==
    ASSUME LedgerInv, NEW i \in Invocations, pc[i] # "returned"
    PROVE  result[i] = None
BY DEF LedgerInv, Own, OwnResult

LEMMA NoResultIsOwn ==
    ASSUME NEW i \in Invocations, result'[i] = None
    PROVE  OwnResult(i)'
BY NoneAssumption DEF OwnResult, RunStatuses

(* Outside its transaction, an invocation has inserted nothing. *)
LEMMA EmptyTransaction ==
    ASSUME LedgerInv, NEW i \in Invocations, pc[i] \notin Open
    PROVE  /\ pending[i].published = {} /\ pending[i].queue = {} /\ pending[i].audit = {}
<1>1. pc[i] \notin Inserted /\ pc[i] \notin Queued
  BY DEF Open
<1>2. pc[i] # "commitPublished" /\ pc[i] # "commitRouted"
  BY <1>1 DEF Inserted, Queued
<1> QED BY <1>1, <1>2 DEF LedgerInv, Own, OwnTransaction

(* Outside its transaction, a step has only its report to account for. *)
LEMMA QuietLedger ==
    ASSUME LedgerInv, TypeInv', NEW i \in Invocations,
           NEW from \in Steps \ (Ended \cup Open), NEW to \in Steps \ (Ended \cup Open),
           Go(i, from, to), OthersSame(i), UNCHANGED <<result, tables, pending>>,
           OwnReport(i)'
    PROVE  LedgerInv'
<1>1. pc[i] = from /\ pc'[i] = to
  BY DEF Go, LedgerInv, TypeInv, TypeOK, RunTypeOK
<1>2. pc[i] \notin Recorded /\ pc[i] # "returned"
  BY <1>1 DEF Recorded, Ended
<1>3. OwnTransaction(i)'
  BY <1>1 DEF LedgerInv, Own, OwnTransaction, Open, Inserted, Queued
<1>4. OwnKeys(i)' /\ \A j \in Invocations \ {i} : Apart(i, j)'
  BY <1>1 DEF OwnKeys, Apart, Open
<1>5. OwnResult(i)'
  BY <1>2, NoResultYet, NoResultIsOwn
<1> QED BY <1>2, <1>3, <1>4, <1>5, LedgerFrame DEF Own

(* Going to _errored(), or out of run() by an exception or a crash, with   *)
(* nothing committed.                                                      *)
LEMMA LeaveLedger ==
    ASSUME LedgerInv, TypeInv', NEW i \in Invocations, NEW from \in Steps \ Ended,
           NEW to \in {"errored", "raised", "crashed"},
           Go(i, from, to), OthersSame(i), UNCHANGED <<result, tables>>,
           \/ pending' = [pending EXCEPT ![i] = NoRows]
           \/ UNCHANGED pending /\ from \notin Open
    PROVE  LedgerInv'
<1>1. pc[i] = from /\ pc'[i] = to
  BY DEF Go, LedgerInv, TypeInv, TypeOK, RunTypeOK
<1>2. pc[i] \notin Recorded /\ pc[i] # "returned"
  BY <1>1 DEF Recorded, Ended
<1>3. OwnTransaction(i)'
  <2>1. /\ pending'[i].published = {} /\ pending'[i].queue = {} /\ pending'[i].audit = {}
    BY <1>1, EmptyTransaction DEF NoRows, LedgerInv, TypeInv, TypeOK, StoreTypeOK
  <2> QED BY <1>1, <2>1 DEF OwnTransaction, Inserted, Queued
<1>4. OwnReport(i)'
  BY <1>1 DEF OwnReport, AfterReport, AfterWrite, AfterRead, PublishSteps, RouteSteps
<1>5. OwnKeys(i)' /\ \A j \in Invocations \ {i} : Apart(i, j)'
  BY <1>1 DEF OwnKeys, Apart, Inserted, Queued
<1>6. OwnResult(i)'
  BY <1>2, NoResultYet, NoResultIsOwn
<1> QED BY <1>2, <1>3, <1>4, <1>5, <1>6, LedgerFrame DEF Own

LEMMA FailLedger ==
    ASSUME LedgerInv, TypeInv', NEW i \in Invocations, NEW from \in Steps \ Ended, NEW why,
           Fail(i, from, why), UNCHANGED tables,
           \/ pending' = [pending EXCEPT ![i] = NoRows]
           \/ UNCHANGED pending /\ from \notin Open
    PROVE  LedgerInv'
<1>1. OthersSame(i)
  BY DEF OthersSame, Fail, Go, LedgerInv, TypeInv, TypeOK, RunTypeOK, StoreTypeOK
<1> QED BY <1>1, LeaveLedger DEF Fail

(* The two ways a commit ends, and the end of _errored(). *)
LEMMA RecordedLedger ==
    ASSUME LedgerInv, TypeInv', NEW i \in Invocations, NEW from \in Steps \ Ended,
           NEW to \in Recorded, Go(i, from, to), OthersSame(i), OwnResult(i)',
           \/ CommitStep(i)
           \/ ErroredStep(i) /\ UNCHANGED pending
           \/ from = "errored" /\ UNCHANGED <<tables, pending>>
    PROVE  LedgerInv'
<1>1. pc[i] = from /\ pc'[i] = to
  BY DEF Go, LedgerInv, TypeInv, TypeOK, RunTypeOK
<1>2. pc[i] \notin Recorded
  BY <1>1 DEF Recorded, Ended
<1>3. OwnTransaction(i)'
  <2>1. /\ pending'[i].published = {} /\ pending'[i].queue = {} /\ pending'[i].audit = {}
    BY <1>1, EmptyTransaction DEF CommitStep, ErroredStep, Commit, Open, Inserted, Queued,
                                  NoRows, LedgerInv, TypeInv, TypeOK, StoreTypeOK
  <2> QED BY <1>1, <2>1 DEF OwnTransaction, Inserted, Queued, Recorded
<1>4. OwnReport(i)'
  BY <1>1 DEF OwnReport, AfterReport, AfterWrite, AfterRead, PublishSteps, RouteSteps, Recorded
<1>5. OwnKeys(i)' /\ \A j \in Invocations \ {i} : Apart(i, j)'
  BY <1>1 DEF OwnKeys, Apart, Inserted, Queued, Recorded
<1> QED BY <1>2, <1>3, <1>4, <1>5, LedgerFrame DEF Own

-------------------------------------------------------------------------------
(* The three steps inside a transaction. *)
LEMMA InsertPublishedLedger ==
    ASSUME LedgerInv, TypeInv', NEW i \in Invocations, InsertPublished(i)
    PROVE  LedgerInv'
<1>1. pc[i] = "insertPublished" /\ pc'[i] = "auditPublished"
  BY DEF InsertPublished, Go, LedgerInv, TypeInv, TypeOK, RunTypeOK
<1>2. OthersSame(i)
  BY DEF InsertPublished, OthersSame, Go, runVars, LedgerInv, TypeInv, TypeOK, RunTypeOK,
         StoreTypeOK
<1>3. OwnTransaction(i)'
  <2>1. /\ pending[i].queue = {} /\ pending[i].audit = {}
    BY <1>1, EmptyTransaction DEF Open, Inserted, Queued
  <2>2. /\ pending'[i].published = {NewPublishedRow(i)}
        /\ pending'[i].queue = {} /\ pending'[i].audit = {}
    BY <2>1 DEF InsertPublished, LedgerInv, TypeInv, TypeOK, StoreTypeOK, Transactions
  <2>3. NewPublishedRow(i)' = NewPublishedRow(i)
    BY DEF InsertPublished, runVars, NewPublishedRow
  <2> QED BY <1>1, <2>2, <2>3 DEF OwnTransaction, Inserted, Queued
<1>4. OwnReport(i)'
  BY <1>1 DEF LedgerInv, Own, OwnReport, ReportOf, Evaluate, Status, InsertPublished, runVars,
     AfterReport, AfterWrite, AfterRead, PublishSteps, RouteSteps
<1>5. OwnKeys(i)'
  BY <1>1 DEF OwnKeys, InsertPublished, runVars, AlreadyPublished, Inserted, Queued
<1>6. ASSUME NEW j \in Invocations \ {i} PROVE Apart(i, j)'
  <2>1. CASE pc[j] \in Inserted
    <3>1. NewPublishedRow(j) \in pending[j].published
      BY <2>1 DEF LedgerInv, Own, OwnTransaction
    <3>2. call[j].run # call[i].run
      BY <3>1 DEF InsertPublished, PublishPending, NewPublishedRow
    <3> QED BY <3>2 DEF Apart, InsertPublished, runVars
  <2>2. CASE pc[j] \notin Inserted
    BY <1>1, <1>2, <2>2 DEF Apart, OthersSame, Inserted, Queued
  <2> QED BY <2>1, <2>2
<1>7. OwnResult(i)'
  BY <1>1, NoResultYet, NoResultIsOwn DEF InsertPublished, runVars
<1> QED BY <1>1, <1>2, <1>3, <1>4, <1>5, <1>6, <1>7, LedgerFrame
        DEF Own, InsertPublished, tables, Recorded

LEMMA InsertQueueLedger ==
    ASSUME LedgerInv, TypeInv', NEW i \in Invocations, InsertQueue(i)
    PROVE  LedgerInv'
<1>1. pc[i] = "insertQueue" /\ pc'[i] = "auditRouted"
  BY DEF InsertQueue, Go, LedgerInv, TypeInv, TypeOK, RunTypeOK
<1>2. OthersSame(i)
  BY DEF InsertQueue, OthersSame, Go, runVars, LedgerInv, TypeInv, TypeOK, RunTypeOK,
         StoreTypeOK
<1>3. OwnTransaction(i)'
  <2>1. /\ pending[i].published = {} /\ pending[i].audit = {}
    BY <1>1, EmptyTransaction DEF Open, Inserted, Queued
  <2>2. /\ pending'[i].queue = {NewQueueRow(i)}
        /\ pending'[i].published = {} /\ pending'[i].audit = {}
    BY <2>1 DEF InsertQueue, LedgerInv, TypeInv, TypeOK, StoreTypeOK, Transactions
  <2>3. NewQueueRow(i)' = NewQueueRow(i)
    BY DEF InsertQueue, runVars, NewQueueRow
  <2> QED BY <1>1, <2>2, <2>3 DEF OwnTransaction, Inserted, Queued
<1>4. OwnReport(i)'
  BY <1>1 DEF LedgerInv, Own, OwnReport, ReportOf, Evaluate, Status, InsertQueue, runVars,
     AfterReport, AfterWrite, AfterRead, PublishSteps, RouteSteps
<1>5. OwnKeys(i)'
  BY <1>1 DEF OwnKeys, InsertQueue, runVars, AlreadyQueued, Inserted, Queued
<1>6. ASSUME NEW j \in Invocations \ {i} PROVE Apart(i, j)'
  <2>1. CASE pc[j] \in Queued
    <3>1. NewQueueRow(j) \in pending[j].queue
      BY <2>1 DEF LedgerInv, Own, OwnTransaction
    <3>2. call[j].run # call[i].run
      BY <3>1 DEF InsertQueue, QueuePending, NewQueueRow
    <3> QED BY <3>2 DEF Apart, InsertQueue, runVars
  <2>2. CASE pc[j] \notin Queued
    BY <1>1, <1>2, <2>2 DEF Apart, OthersSame, Inserted, Queued
  <2> QED BY <2>1, <2>2
<1>7. OwnResult(i)'
  BY <1>1, NoResultYet, NoResultIsOwn DEF InsertQueue, runVars
<1> QED BY <1>1, <1>2, <1>3, <1>4, <1>5, <1>6, <1>7, LedgerFrame
        DEF Own, InsertQueue, tables, Recorded

LEMMA AuditLedger ==
    ASSUME LedgerInv, TypeInv', NEW i \in Invocations, AuditPublished(i) \/ AuditRouted(i)
    PROVE  LedgerInv'
<1>1. \/ pc[i] = "auditPublished" /\ pc'[i] = "commitPublished"
      \/ pc[i] = "auditRouted" /\ pc'[i] = "commitRouted"
  BY DEF AuditPublished, AuditRouted, Go, LedgerInv, TypeInv, TypeOK, RunTypeOK
<1>2. OthersSame(i) /\ UNCHANGED <<runVars, tables>>
  BY DEF AuditPublished, AuditRouted, OthersSame, Go, runVars, tables, LedgerInv, TypeInv,
         TypeOK, RunTypeOK, StoreTypeOK
<1>3. OwnTransaction(i)'
  <2>1. OwnTransaction(i)
    BY DEF LedgerInv, Own
  <2>2. /\ pending'[i].published = pending[i].published
        /\ pending'[i].queue = pending[i].queue
    BY DEF AuditPublished, AuditRouted, LedgerInv, TypeInv, TypeOK, StoreTypeOK, Transactions
  <2>3. /\ pc'[i] = "commitPublished" => pending'[i].audit = {NewAuditRow(i, "published")}
        /\ pc'[i] = "commitRouted" => pending'[i].audit = {NewAuditRow(i, "routed_to_review")}
    BY <1>1 DEF AuditPublished, AuditRouted, Go, LedgerInv, TypeInv, TypeOK, StoreTypeOK,
                Transactions
  <2>4. /\ NewPublishedRow(i)' = NewPublishedRow(i) /\ NewQueueRow(i)' = NewQueueRow(i)
        /\ NewAuditRow(i, "published")' = NewAuditRow(i, "published")
        /\ NewAuditRow(i, "routed_to_review")' = NewAuditRow(i, "routed_to_review")
    BY <1>2 DEF runVars, NewPublishedRow, NewQueueRow, NewAuditRow
  <2> QED BY <1>1, <2>1, <2>2, <2>3, <2>4 DEF OwnTransaction, Inserted, Queued
<1>4. OwnReport(i)'
  BY <1>1, <1>2 DEF LedgerInv, Own, OwnReport, ReportOf, Evaluate, Status, runVars,
     AfterReport, AfterWrite, AfterRead, PublishSteps, RouteSteps
<1>5. OwnKeys(i)'
  BY <1>1, <1>2 DEF LedgerInv, Own, OwnKeys, runVars, tables, AlreadyPublished, AlreadyQueued,
     Inserted, Queued
<1>6. ASSUME NEW j \in Invocations \ {i} PROVE Apart(i, j)'
  <2>1. Apart(i, j)
    BY DEF LedgerInv
  <2> QED BY <1>1, <1>2, <2>1 DEF Apart, OthersSame, Inserted, Queued
<1>7. OwnResult(i)'
  BY <1>1, <1>2, NoResultYet, NoResultIsOwn DEF runVars
<1> QED BY <1>1, <1>2, <1>3, <1>4, <1>5, <1>6, <1>7, LedgerFrame DEF Own, Recorded

(* A commit, whether its answer arrives or not. *)
LEMMA CommitIsCommitStep ==
    ASSUME LedgerInv, NEW i \in Invocations,
           NEW from \in {"commitPublished", "commitRouted"}, NEW to \in Recorded,
           Go(i, from, to), Commit(i), UNCHANGED <<call, staged, reference, report, at, payload>>,
           \A j \in Invocations \ {i} : result'[j] = result[j]
    PROVE  CommitStep(i) /\ OthersSame(i)
BY DEF CommitStep, OthersSame, SameRun, Commit, Go, LedgerInv, TypeInv, TypeOK, RunTypeOK,
       StoreTypeOK

LEMMA CommitLedger ==
    ASSUME LedgerInv, TypeInv', NEW i \in Invocations,
           CommitPublished(i) \/ CommitRouted(i) \/ CommitUnacknowledged(i)
    PROVE  LedgerInv'
<1>1. PICK from \in {"commitPublished", "commitRouted"}, to \in Recorded :
          /\ Go(i, from, to) /\ Commit(i)
          /\ \/ UNCHANGED result /\ to = "raised"
             \/ /\ to = "returned"
                /\ result' = [result EXCEPT ![i] = IF from = "commitPublished" THEN "published"
                                                  ELSE "routed_to_review"]
  BY DEF CommitPublished, CommitRouted, CommitUnacknowledged, Finish, runVars, Recorded
<1>2. pc[i] = from /\ pc'[i] = to
  BY <1>1 DEF Go, LedgerInv, TypeInv, TypeOK, RunTypeOK
<1>3. UNCHANGED <<call, staged, reference, report, at, payload>>
  BY DEF CommitPublished, CommitRouted, CommitUnacknowledged, Finish, runVars
<1>4. \A j \in Invocations \ {i} : result'[j] = result[j]
  BY <1>1 DEF LedgerInv, TypeInv, TypeOK, RunTypeOK
<1>5. CommitStep(i) /\ OthersSame(i)
  BY <1>1, <1>3, <1>4, CommitIsCommitStep
<1>6. OwnResult(i)'
  <2>1. CASE UNCHANGED result
    BY <1>2, <2>1, NoResultYet, NoResultIsOwn
  <2>2. CASE to = "returned" /\ result'[i] = "published" /\ from = "commitPublished"
    <3>1. NewPublishedRow(i) \in published' /\ NewPublishedRow(i).by = i
      BY <1>2, <1>5, <2>2, CommitAdds DEF NewPublishedRow
    <3> QED BY <1>2, <2>2, <3>1 DEF OwnResult
  <2>3. CASE to = "returned" /\ result'[i] = "routed_to_review" /\ from = "commitRouted"
    <3>1. NewQueueRow(i) \in queue' /\ NewQueueRow(i).by = i
      BY <1>2, <1>5, <2>3, CommitAdds DEF NewQueueRow
    <3> QED BY <1>2, <2>3, <3>1 DEF OwnResult
  <2> QED BY <1>1, <2>1, <2>2, <2>3 DEF LedgerInv, TypeInv, TypeOK, RunTypeOK
<1> QED BY <1>1, <1>5, <1>6, RecordedLedger DEF Steps, Ended, PublishSteps, RouteSteps

(* The end of _errored(), with its audit row or without. *)
LEMMA ErroredLedger ==
    ASSUME LedgerInv, TypeInv', NEW i \in Invocations,
           WriteErroredAudit(i) \/ LoseErroredAudit(i)
    PROVE  LedgerInv'
<1>1. /\ Go(i, "errored", "returned") /\ result' = [result EXCEPT ![i] = "errored"]
      /\ UNCHANGED <<call, staged, reference, report, at, payload, published, queue, pending>>
      /\ UNCHANGED audit \/ audit' = audit \cup {NewAuditRow(i, "errored")}
  BY DEF WriteErroredAudit, LoseErroredAudit, Finish, storeVars
<1>2. pc[i] = "errored" /\ pc'[i] = "returned" /\ result'[i] = "errored"
  BY <1>1 DEF Go, LedgerInv, TypeInv, TypeOK, RunTypeOK
<1>3. OthersSame(i)
  BY <1>1 DEF OthersSame, Go, LedgerInv, TypeInv, TypeOK, RunTypeOK
<1>4. OwnResult(i)'
  BY <1>1, <1>2, NotYetRecorded DEF OwnResult, Recorded
<1> QED BY <1>1, <1>2, <1>3, <1>4, RecordedLedger
        DEF ErroredStep, SameRun, Recorded, Steps, Ended, tables

(* The steps of an invocation. *)
LEMMA ProgressLedger ==
    ASSUME LedgerInv, TypeInv', NEW i \in Invocations, Progress(i)
    PROVE  LedgerInv'
<1> USE DEF Steps, Ended, Open, Inserted, Queued, PublishSteps, RouteSteps
<1>1. CASE StageWrite(i)
  <2>1. OthersSame(i)
    BY <1>1 DEF StageWrite, OthersSame, Go, runVars, LedgerInv, TypeInv, TypeOK, RunTypeOK
  <2>2. OwnReport(i)'
    BY <1>1 DEF StageWrite, Go, runVars, LedgerInv, Own, OwnReport, AfterReport, AfterWrite,
       AfterRead, TypeInv, TypeOK, RunTypeOK
  <2> QED BY <1>1, <2>1, <2>2, QuietLedger DEF StageWrite, runVars, tables
<1>2. CASE \/ StageRefused(i) \/ ReadRefused(i) \/ NoSnapshot(i) \/ StagedMissing(i)
           \/ PublishRefused(i) \/ QueueRefused(i)
  BY <1>2, FailLedger DEF StageRefused, ReadRefused, NoSnapshot, StagedMissing,
     PublishRefused, QueueRefused, Rollback, storeVars, tables
<1>3. CASE ReadBack(i)
  <2>1. OthersSame(i)
    BY <1>3 DEF ReadBack, OthersSame, Go, storeVars, LedgerInv, TypeInv, TypeOK, RunTypeOK
  <2>2. OwnReport(i)'
    BY <1>3 DEF ReadBack, Go, LedgerInv, Own, OwnReport, AfterReport, AfterWrite,
       AfterRead, TypeInv, TypeOK, RunTypeOK
  <2> QED BY <1>3, <2>1, <2>2, QuietLedger DEF ReadBack, storeVars, tables
<1>4. ASSUME NEW ref, Resolve(i, ref) PROVE LedgerInv'
  <2>1. OthersSame(i)
    BY <1>4 DEF Resolve, OthersSame, Go, storeVars, LedgerInv, TypeInv, TypeOK, RunTypeOK
  <2>2. OwnReport(i)'
    BY <1>4 DEF Resolve, Go, LedgerInv, Own, OwnReport, AfterReport, AfterWrite,
       AfterRead, TypeInv, TypeOK, RunTypeOK
  <2> QED BY <1>4, <2>1, <2>2, QuietLedger DEF Resolve, storeVars, tables
<1>5. CASE SnapshotNotADict(i)
  <2>1. OthersSame(i)
    BY <1>5 DEF SnapshotNotADict, OthersSame, Go, runVars, storeVars, LedgerInv, TypeInv,
                TypeOK, RunTypeOK
  <2> QED BY <1>5, <2>1, LeaveLedger DEF SnapshotNotADict, runVars, storeVars, tables
<1>6. CASE RunAssertions(i)
  <2>1. PICK to \in {"promote", "route"} : Go(i, "check", to)
    BY <1>6 DEF RunAssertions
  <2>2. OthersSame(i)
    BY <1>6 DEF RunAssertions, OthersSame, Go, storeVars, LedgerInv, TypeInv, TypeOK, RunTypeOK
  <2>3. report'[i] = ReportOf(i) /\ ReportOf(i)' = ReportOf(i)
    BY <1>6 DEF RunAssertions, ReportOf, Evaluate, Status, LedgerInv, TypeInv, TypeOK, RunTypeOK
  <2>4. OwnReport(i)'
    BY <1>6, <2>1, <2>3 DEF RunAssertions, Go, LedgerInv, Own, OwnReport, AfterWrite, AfterRead,
       TypeInv, TypeOK, RunTypeOK
  <2> QED BY <1>6, <2>1, <2>2, <2>4, QuietLedger DEF RunAssertions, storeVars, tables
<1>7. CASE Promote(i)
  <2>1. CASE AllPassed(report[i])
    <3>1. OthersSame(i)
      BY <1>7, <2>1 DEF Promote, OthersSame, Go, storeVars, LedgerInv, TypeInv, TypeOK,
                        RunTypeOK
    <3>2. ReportOf(i)' = ReportOf(i)
      BY <1>7, <2>1 DEF Promote, ReportOf, Evaluate, Status
    <3>3. OwnReport(i)'
      BY <1>7, <2>1, <3>2 DEF Promote, Go, LedgerInv, Own, OwnReport, AfterReport, AfterWrite,
         AfterRead, TypeInv, TypeOK, RunTypeOK
    <3> QED BY <1>7, <2>1, <3>1, <3>3, QuietLedger DEF Promote, storeVars, tables
  <2>2. CASE ~AllPassed(report[i])
    BY <1>7, <2>2, FailLedger DEF Promote, storeVars, tables
  <2> QED BY <2>1, <2>2
<1>8. CASE LockStaged(i)
  <2>1. OthersSame(i)
    BY <1>8 DEF LockStaged, OthersSame, Go, storeVars, LedgerInv, TypeInv, TypeOK, RunTypeOK
  <2>2. ReportOf(i)' = ReportOf(i)
    BY <1>8 DEF LockStaged, ReportOf, Evaluate, Status
  <2>3. OwnReport(i)'
    BY <1>8, <2>2 DEF LockStaged, Go, LedgerInv, Own, OwnReport, AfterReport, AfterWrite,
       AfterRead, TypeInv, TypeOK, RunTypeOK
  <2> QED BY <1>8, <2>1, <2>3, QuietLedger DEF LockStaged, storeVars, tables
<1>9. CASE Route(i)
  <2>1. CASE ~AllPassed(report[i])
    <3>1. OthersSame(i)
      BY <1>9, <2>1 DEF Route, OthersSame, Go, runVars, storeVars, LedgerInv, TypeInv, TypeOK,
                        RunTypeOK
    <3>2. ReportOf(i)' = ReportOf(i)
      BY <1>9, <2>1 DEF Route, runVars, ReportOf, Evaluate, Status
    <3>3. OwnReport(i)'
      BY <1>9, <2>1, <3>2 DEF Route, Go, runVars, LedgerInv, Own, OwnReport, AfterReport,
         AfterWrite, AfterRead, TypeInv, TypeOK, RunTypeOK
    <3> QED BY <1>9, <2>1, <3>1, <3>3, QuietLedger DEF Route, runVars, storeVars, tables
  <2>2. CASE AllPassed(report[i])
    BY <1>9, <2>2, FailLedger DEF Route, storeVars, tables
  <2> QED BY <2>1, <2>2
<1>10. CASE CommitPublished(i) \/ CommitRouted(i)
  BY <1>10, CommitLedger
<1>11. CASE WriteErroredAudit(i)
  BY <1>11, ErroredLedger
<1> QED
  BY <1>1, <1>2, <1>3, <1>4, <1>5, <1>6, <1>7, <1>8, <1>9, <1>10, <1>11,
     InsertPublishedLedger, InsertQueueLedger, AuditLedger
     DEF Progress, ResolveSnapshot, ResolveCustom

LEMMA FaultLedger ==
    ASSUME LedgerInv, TypeInv', NEW i \in Invocations, Fault(i)
    PROVE  LedgerInv'
<1> USE DEF Steps, Ended, Open, Inserted, Queued, PublishSteps, RouteSteps
<1>1. CASE StageUnacknowledged(i)
  BY <1>1, FailLedger DEF StageUnacknowledged, tables
<1>2. CASE LoseErroredAudit(i)
  BY <1>2, ErroredLedger
<1>3. CASE DatabaseError(i)
  BY <1>3, FailLedger DEF DatabaseError, storeVars, tables
<1>4. CASE TransactionError(i) \/ OtherError(i) \/ Crash(i)
  <2>1. PICK step \in Steps \ Ended, to \in {"errored", "raised", "crashed"} :
            Go(i, step, to)
    BY <1>4 DEF TransactionError, OtherError, Crash
  <2>2. Rollback(i) /\ UNCHANGED runVars
    BY <1>4 DEF TransactionError, OtherError, Crash
  <2>3. OthersSame(i)
    BY <2>1, <2>2 DEF OthersSame, Rollback, Go, runVars, LedgerInv, TypeInv, TypeOK, RunTypeOK,
                      StoreTypeOK
  <2>4. UNCHANGED <<result, tables>> /\ pending' = [pending EXCEPT ![i] = NoRows]
    BY <2>2 DEF Rollback, runVars
  <2> HIDE DEF Steps, Ended, Open, Inserted, Queued, PublishSteps, RouteSteps
  <2> QED BY <2>1, <2>3, <2>4, LeaveLedger
<1>5. CASE CommitUnacknowledged(i)
  BY <1>5, CommitLedger
<1> QED BY <1>1, <1>2, <1>3, <1>4, <1>5 DEF Fault

LEMMA BeginLedger ==
    ASSUME LedgerInv, TypeInv', NEW i \in Invocations, Begin(i) \/ Misconfigured(i)
    PROVE  LedgerInv'
<1>1. OthersSame(i)
  BY DEF Begin, Misconfigured, OthersSame, Go, runVars, storeVars, LedgerInv, TypeInv, TypeOK,
         RunTypeOK
<1>2. CASE Begin(i)
  <2>1. OwnReport(i)'
    BY <1>2 DEF Begin, Go, runVars, OwnReport, AfterReport, PublishSteps, RouteSteps, LedgerInv,
       TypeInv, TypeOK, RunTypeOK
  <2> QED BY <1>1, <1>2, <2>1, QuietLedger
          DEF Begin, Steps, Ended, Open, Inserted, Queued, runVars, storeVars, tables
<1>3. CASE Misconfigured(i)
  BY <1>1, <1>3, LeaveLedger DEF Misconfigured, Steps, Ended, Open, Inserted, Queued, runVars,
                                 storeVars, tables
<1> QED BY <1>2, <1>3

(* The clean-up job touches nothing the invariant is about. *)
LEMMA UnchangedLedger ==
    ASSUME LedgerInv, TypeInv', UNCHANGED <<runVars, pc, tables, pending>>
    PROVE  LedgerInv'
<1>1. \A i \in Invocations : Own(i)'
  <2> SUFFICES ASSUME NEW i \in Invocations PROVE Own(i)'
    OBVIOUS
  <2>1. Own(i)
    BY DEF LedgerInv
  <2>2. OwnTransaction(i)'
    BY <2>1 DEF Own, OwnTransaction, NewPublishedRow, NewQueueRow, NewAuditRow, runVars
  <2>3. OwnReport(i)'
    BY <2>1 DEF Own, OwnReport, ReportOf, Evaluate, Status, runVars
  <2>4. OwnKeys(i)' /\ OwnResult(i)'
    BY <2>1 DEF Own, OwnKeys, OwnResult, AlreadyPublished, AlreadyQueued, runVars, tables
  <2> QED BY <2>2, <2>3, <2>4 DEF Own
<1>2. \A i, j \in Invocations : i # j => Apart(i, j)'
  BY DEF LedgerInv, Apart, runVars
<1>3. PublishedRecorded' /\ AuditRecorded'
  BY DEF LedgerInv, PublishedRecorded, AuditRecorded, EntryOf, runVars, tables
<1>4. QueueRecorded'
  BY DEF LedgerInv, QueueRecorded, EntryOf, ReportOf, Evaluate, Status, runVars, tables
<1>5. OneAuditRowPerRun'
  BY DEF LedgerInv, OneAuditRowPerRun, tables
<1> QED BY <1>1, <1>2, <1>3, <1>4, <1>5 DEF LedgerInv

LEMMA InitLedger == Init => LedgerInv
<1> SUFFICES ASSUME Init PROVE LedgerInv
  OBVIOUS
<1>1. TypeInv
  BY InitTypeInv
<1>2. ASSUME NEW i \in Invocations PROVE Own(i)
  <2>1. pc[i] = "begin" /\ result[i] = None /\ pending[i] = NoRows
    BY DEF Init, StoreInit
  <2>2. OwnTransaction(i) /\ OwnKeys(i)
    BY <2>1 DEF OwnTransaction, OwnKeys, NoRows, Inserted, Queued
  <2>3. OwnReport(i)
    BY <2>1 DEF OwnReport, AfterReport, AfterWrite, AfterRead, PublishSteps, RouteSteps
  <2>4. OwnResult(i)
    BY <2>1, NoneAssumption DEF OwnResult, RunStatuses
  <2> QED BY <2>2, <2>3, <2>4 DEF Own
<1>3. \A i, j \in Invocations : i # j => Apart(i, j)
  BY DEF Init, Apart, Inserted, Queued
<1>4. PublishedRecorded /\ QueueRecorded /\ AuditRecorded /\ OneAuditRowPerRun
  BY DEF Init, StoreInit, PublishedRecorded, QueueRecorded, AuditRecorded, OneAuditRowPerRun
<1> QED BY <1>1, <1>2, <1>3, <1>4 DEF LedgerInv

LEMMA NextLedger == LedgerInv /\ [Next]_vars => LedgerInv'
<1> SUFFICES ASSUME LedgerInv, [Next]_vars PROVE LedgerInv'
  OBVIOUS
<1>1. TypeInv'
  BY NextTypeInv DEF LedgerInv
<1>2. ASSUME NEW ref \in Refs, Cleanup(ref) PROVE LedgerInv'
  BY <1>1, <1>2, UnchangedLedger DEF Cleanup, tables
<1>3. CASE UNCHANGED vars
  BY <1>1, <1>3, UnchangedLedger DEF vars, runVars, tables
<1> QED
  BY <1>1, <1>2, <1>3, BeginLedger, ProgressLedger, FaultLedger DEF Next, AllEnded

LEMMA LedgerInvariant == Spec => []LedgerInv
BY InitLedger, NextLedger, PTL DEF Spec

-------------------------------------------------------------------------------
(* A run leaves at most one audit row, whatever fails and whoever else     *)
(* uses its run_id.                                                        *)
THEOREM OneAuditRow == Spec => []OneAuditRowPerRun
<1>1. LedgerInv => OneAuditRowPerRun
  BY DEF LedgerInv
<1> QED BY <1>1, LedgerInvariant, PTL

(* What run() returned is what the tables say. *)
THEOREM ResultsAreTruthful == Spec => []ResultIsTruthful
<1>1. LedgerInv => ResultIsTruthful
  BY DEF LedgerInv, Own, OwnResult, ResultIsTruthful
<1> QED BY <1>1, LedgerInvariant, PTL

(* Published rows and queue entries exist together with their audit rows,  *)
(* and the audit rows carry the report of their run.                       *)
THEOREM LedgerAlwaysAgrees == Spec => []LedgerAgrees
<1>1. LedgerInv => LedgerAgrees
  <2> SUFFICES ASSUME LedgerInv PROVE LedgerAgrees
    OBVIOUS
  <2> DEFINE Quad(r) == <<r.by, r.key, r.run, report[r.by]>>
  <2>1. ASSUME NEW r \in published
        PROVE  \E a \in audit : /\ a.status = "published"
                               /\ Quad(r) = <<a.by, a.key, a.run, a.report>>
    <3>1. EntryOf(r, "published") \in audit
      BY DEF LedgerInv, PublishedRecorded
    <3> QED BY <3>1 DEF EntryOf
  <2>2. ASSUME NEW a \in audit, a.status = "published"
        PROVE  \E r \in published : Quad(r) = <<a.by, a.key, a.run, a.report>>
    BY <2>2 DEF LedgerInv, AuditRecorded, EntryOf
  <2>3. ASSUME NEW q \in queue
        PROVE  \E a \in audit : /\ a.status = "routed_to_review"
                               /\ <<q.by, q.key, q.run, q.report>> =
                                  <<a.by, a.key, a.run, a.report>>
    <3>1. EntryOf(q, "routed_to_review") \in audit /\ q.report = report[q.by]
      BY DEF LedgerInv, QueueRecorded
    <3> QED BY <3>1 DEF EntryOf
  <2>4. ASSUME NEW a \in audit, a.status = "routed_to_review"
        PROVE  \E q \in queue : <<q.by, q.key, q.run, q.report>> =
                                <<a.by, a.key, a.run, a.report>>
    BY <2>4 DEF LedgerInv, AuditRecorded, QueueRecorded, EntryOf
  <2> QED BY <2>1, <2>2, <2>3, <2>4 DEF LedgerAgrees
<1> QED BY <1>1, LedgerInvariant, PTL

(* A queue entry sits in the lane of its most urgent unmet assertion. *)
THEOREM LaneIsRight == Spec => []QueuedInTheRightLane
<1>1. LedgerInv => QueuedInTheRightLane
  <2> SUFFICES ASSUME LedgerInv, NEW row \in queue
               PROVE  LET unmet == {a \in call[row.by].suite :
                                 Status(a, staged[row.by], reference[row.by]) # "passed"}
                      IN  /\ \E a \in unmet : SeverityOf[a] = row.severity
                          /\ \A a \in unmet : Rank[row.severity] <= Rank[SeverityOf[a]]
    BY DEF QueuedInTheRightLane
  <2>1. /\ row.report = ReportOf(row.by) /\ ~AllPassed(row.report)
        /\ row.severity = SeverityValue(row.report)
    BY DEF LedgerInv, QueueRecorded
  <2>2. row.report \in Reports
    BY DEF LedgerInv, TypeInv, TypeOK, StoreTypeOK, QueueRow
  <2>3. FailedResults(row.report) # {}
    BY <2>1 DEF AllPassed, FailedResults
  <2>4. /\ \E a \in FailedResults(row.report) : SeverityOf[a] = row.severity
        /\ \A a \in FailedResults(row.report) : Rank[row.severity] <= Rank[SeverityOf[a]]
    BY <2>1, <2>2, <2>3, HighestIsMostUrgent DEF SeverityValue
  <2>5. FailedResults(row.report) =
           {a \in call[row.by].suite :
               Status(a, staged[row.by], reference[row.by]) # "passed"}
    BY <2>1 DEF FailedResults, ReportOf, Evaluate
  <2> QED BY <2>4, <2>5
<1> QED BY <1>1, LedgerInvariant, PTL

-------------------------------------------------------------------------------
(* The pipeline implements the ledger.  Every step of an invocation leaves *)
(* the tables alone, but for the two commits, which publish or route, and  *)
(* the audit row of _errored().                                            *)

ErroredAudit(i) ==
    /\ pc[i] = "errored"
    /\ audit' = audit \cup {NewAuditRow(i, "errored")}
    /\ UNCHANGED <<published, queue>>

LEMMA WhatStepsRecord ==
    ASSUME LedgerInv, [Next]_vars
    PROVE  \/ UNCHANGED tables
           \/ \E i \in Invocations : CommitStep(i)
           \/ \E i \in Invocations : ErroredAudit(i)
<1>1. ASSUME NEW i \in Invocations, Progress(i)
      PROVE  UNCHANGED tables \/ CommitStep(i) \/ ErroredAudit(i)
  <2>1. CASE CommitPublished(i) \/ CommitRouted(i)
    <3>1. Go(i, pc[i], "returned") /\ pc[i] \in {"commitPublished", "commitRouted"}
          /\ Commit(i) /\ SameRun(i)
      BY <2>1 DEF CommitPublished, CommitRouted, Finish, Go, SameRun
    <3> QED BY <3>1 DEF CommitStep, Recorded, Go, LedgerInv, TypeInv, TypeOK, RunTypeOK
  <2>2. CASE WriteErroredAudit(i)
    BY <2>2 DEF WriteErroredAudit, ErroredAudit, Finish, Go
  <2>3. CASE ~(CommitPublished(i) \/ CommitRouted(i) \/ WriteErroredAudit(i))
    BY <1>1, <2>3 DEF Progress, StageWrite, StageRefused, ReadBack, ReadRefused,
       ResolveSnapshot, ResolveCustom, Resolve, SnapshotNotADict, NoSnapshot, RunAssertions,
       Promote, LockStaged, StagedMissing, InsertPublished, PublishRefused, AuditPublished,
       Route, InsertQueue, QueueRefused, AuditRouted, Rollback, storeVars, tables
  <2> QED BY <2>1, <2>2, <2>3
<1>2. ASSUME NEW i \in Invocations, Fault(i)
      PROVE  UNCHANGED tables \/ CommitStep(i)
  <2>1. CASE CommitUnacknowledged(i)
    <3>1. Go(i, pc[i], "raised") /\ pc[i] \in {"commitPublished", "commitRouted"}
          /\ Commit(i) /\ SameRun(i)
      BY <2>1 DEF CommitUnacknowledged, Go, SameRun, runVars
    <3> QED BY <3>1 DEF CommitStep, Recorded, Go, LedgerInv, TypeInv, TypeOK, RunTypeOK
  <2>2. CASE ~CommitUnacknowledged(i)
    BY <1>2, <2>2 DEF Fault, StageUnacknowledged, LoseErroredAudit, DatabaseError,
       TransactionError, OtherError, Crash, Rollback, storeVars, tables
  <2> QED BY <2>1, <2>2
<1>3. ASSUME NEW i \in Invocations, Begin(i) \/ Misconfigured(i) PROVE UNCHANGED tables
  BY <1>3 DEF Begin, Misconfigured, storeVars, tables
<1>4. ASSUME NEW ref \in Refs, Cleanup(ref) PROVE UNCHANGED tables
  BY <1>4 DEF Cleanup, tables
<1>5. CASE UNCHANGED vars
  BY <1>5 DEF vars, tables
<1> QED BY <1>1, <1>2, <1>3, <1>4, <1>5 DEF Next, AllEnded

LEMMA StepIsLedgerStep ==
    ASSUME LedgerInv, [Next]_vars
    PROVE  [Ledger!Next]_(Ledger!ledger)
<1>1. CASE UNCHANGED tables
  BY <1>1 DEF tables, Ledger!ledger
<1>2. ASSUME NEW i \in Invocations, CommitStep(i), pc[i] = "commitPublished"
      PROVE  Ledger!Publish
  <2> DEFINE row == NewPublishedRow(i)
             entry == NewAuditRow(i, "published")
  <2>1. /\ published' = published \cup {row} /\ audit' = audit \cup {entry}
        /\ UNCHANGED queue
    BY <1>2, CommitAdds
  <2>2. /\ \A r \in published \cup queue \cup audit : r.by # i
    BY <1>2, NotYetRecorded DEF Recorded
  <2>3. row.by = i /\ row.key = call[i].key /\ row.run = call[i].run
    BY DEF NewPublishedRow
  <2>4. entry = Ledger!Entry(row, "published", entry.report) /\ entry.by = i
    BY DEF NewPublishedRow, NewAuditRow, Ledger!Entry
  <2>5. Own(i)
    BY DEF LedgerInv
  <2>6. \A r \in published : r.run # row.run
    BY <1>2, <2>3, <2>5 DEF Own, OwnKeys, Inserted, AlreadyPublished
  <2>7. entry.report = report[i] /\ AllPassed(report[i]) /\ report[i] = ReportOf(i)
        /\ call[i].suite # {}
    BY <1>2, <2>5 DEF NewAuditRow, Own, OwnReport, AfterReport, AfterWrite, AfterRead,
                      PublishSteps
  <2>8. entry.report # EmptyReport
    <3>1. DOMAIN ReportOf(i) = call[i].suite /\ DOMAIN EmptyReport = {}
      BY DEF ReportOf, Evaluate, EmptyReport
    <3> QED BY <2>7, <3>1
  <2>9. row \in published' \ published /\ entry \in audit' \ audit
    BY <2>1, <2>2, <2>3, <2>4
  <2>10. Ledger!Unrecorded(row)
    BY <2>2, <2>3 DEF Ledger!Unrecorded
  <2>11. entry.report # Ledger!EmptyReport /\ Ledger!AllPassed(entry.report)
    BY <2>7, <2>8 DEF EmptyReport, Ledger!EmptyReport, AllPassed, Ledger!AllPassed
  <2> HIDE DEF row, entry
  <2> QED BY <2>1, <2>4, <2>6, <2>9, <2>10, <2>11 DEF Ledger!Publish
<1>3. ASSUME NEW i \in Invocations, CommitStep(i), pc[i] = "commitRouted"
      PROVE  Ledger!RouteToReview
  <2> DEFINE row == NewQueueRow(i)
             entry == NewAuditRow(i, "routed_to_review")
  <2>1. /\ queue' = queue \cup {row} /\ audit' = audit \cup {entry}
        /\ UNCHANGED published
    BY <1>3, CommitAdds
  <2>2. \A r \in published \cup queue \cup audit : r.by # i
    BY <1>3, NotYetRecorded DEF Recorded
  <2>3. row.by = i /\ row.run = call[i].run /\ row.report = report[i]
    BY DEF NewQueueRow
  <2>4. entry = Ledger!Entry(row, "routed_to_review", row.report) /\ entry.by = i
    BY DEF NewQueueRow, NewAuditRow, Ledger!Entry
  <2>5. Own(i)
    BY DEF LedgerInv
  <2>6. \A r \in queue : r.run # row.run
    BY <1>3, <2>3, <2>5 DEF Own, OwnKeys, Queued, AlreadyQueued
  <2>7. ~AllPassed(row.report)
    BY <1>3, <2>3, <2>5 DEF Own, OwnReport, RouteSteps
  <2>8. row \in queue' \ queue /\ entry \in audit' \ audit
    BY <2>1, <2>2, <2>3, <2>4
  <2>9. Ledger!Unrecorded(row)
    BY <2>2, <2>3 DEF Ledger!Unrecorded
  <2>10. ~Ledger!AllPassed(row.report)
    BY <2>7 DEF AllPassed, Ledger!AllPassed
  <2> HIDE DEF row, entry
  <2> QED BY <2>1, <2>4, <2>6, <2>8, <2>9, <2>10 DEF Ledger!RouteToReview
<1>4. ASSUME NEW i \in Invocations, ErroredAudit(i)
      PROVE  Ledger!RecordError
  <2> DEFINE entry == NewAuditRow(i, "errored")
  <2>1. \A a \in audit : a.by # i
    BY <1>4, NotYetRecorded DEF ErroredAudit, Recorded
  <2>2. entry.by = i /\ entry.status = "errored"
    BY DEF NewAuditRow
  <2>3. entry \in audit' \ audit /\ Ledger!Unrecorded(entry)
    BY <1>4, <2>1, <2>2 DEF ErroredAudit, Ledger!Unrecorded
  <2> HIDE DEF entry
  <2>4. audit' = audit \cup {entry} /\ UNCHANGED <<published, queue>>
    BY <1>4 DEF ErroredAudit, entry
  <2> QED BY <2>2, <2>3, <2>4 DEF Ledger!RecordError
<1> QED
  BY <1>1, <1>2, <1>3, <1>4, WhatStepsRecord DEF Ledger!Next, CommitStep

(* The four tables, under every interleaving, refusal, lost answer and     *)
(* crash, behave as WapLedger promises.                                    *)
THEOREM PipelineImplementsLedger == Spec => LedgerSpec
<1>1. Init => Ledger!Init
  BY DEF Init, StoreInit, Ledger!Init
<1>2. LedgerInv /\ [Next]_vars => [Ledger!Next]_(Ledger!ledger)
  BY StepIsLedgerStep
<1> QED BY <1>1, <1>2, LedgerInvariant, PTL DEF Spec, LedgerSpec, Ledger!Spec
===============================================================================
