--------------------------- MODULE WapPipelineProofs ---------------------------
(***************************************************************************)
(* Theorems about WapPipeline, for every value of its constants.           *)
(***************************************************************************)
EXTENDS WapPipeline, TLAPS

-------------------------------------------------------------------------------
(* The operators of the report.                                            *)

(* A report with an assertion that did not pass has a most urgent one:     *)
(* its severity is that of such an assertion and no other is more urgent.  *)
LEMMA HighestIsMostUrgent ==
    ASSUME NEW r \in Reports, FailedResults(r) # {}
    PROVE  /\ \E a \in FailedResults(r) : SeverityOf[a] = HighestFailedSeverity(r)
           /\ \A a \in FailedResults(r) :
                 Rank[HighestFailedSeverity(r)] <= Rank[SeverityOf[a]]
<1> DEFINE failed == {SeverityOf[a] : a \in FailedResults(r)}
<1>1. failed # {} /\ failed \subseteq Severities
  BY SeverityAssumption DEF Reports, FailedResults
<1>2. \E s \in failed : \A t \in failed : Rank[s] <= Rank[t]
  <2>1. CASE "critical" \in failed
    BY <1>1, <2>1 DEF Rank, Severities
  <2>2. CASE "critical" \notin failed /\ "warn" \in failed
    BY <1>1, <2>2 DEF Rank, Severities
  <2>3. CASE "critical" \notin failed /\ "warn" \notin failed
    BY <1>1, <2>3 DEF Rank, Severities
  <2> QED BY <2>1, <2>2, <2>3
<1>3. /\ HighestFailedSeverity(r) \in failed
      /\ \A t \in failed : Rank[HighestFailedSeverity(r)] <= Rank[t]
  BY <1>2 DEF HighestFailedSeverity
<1> QED BY <1>3

(* The severity column never holds anything but a severity. *)
LEMMA SeverityValueType ==
    ASSUME NEW r \in Reports
    PROVE  SeverityValue(r) \in Severities
<1>1. CASE FailedResults(r) = {}
  BY <1>1 DEF SeverityValue, Severities
<1>2. CASE FailedResults(r) # {}
  <2>1. PICK a \in FailedResults(r) : SeverityOf[a] = HighestFailedSeverity(r)
    BY <1>2, HighestIsMostUrgent
  <2>2. a \in Assertions
    BY DEF FailedResults, Reports
  <2> QED BY <1>2, <2>1, <2>2, SeverityAssumption DEF SeverityValue
<1> QED BY <1>1, <1>2

(* Running a suite on payloads yields a report. *)
LEMMA EvaluateType ==
    ASSUME NEW suite \in SUBSET Assertions,
           NEW data \in Payloads, NEW ref \in Payloads
    PROVE  Evaluate(suite, data, ref) \in Reports
<1>1. ASSUME NEW a \in suite PROVE Status(a, data, ref) \in Statuses
  <2>1. Verdict[<<a, data, ref>>] \in Verdicts
    BY AssertionAssumption
  <2> QED BY <2>1 DEF Status, Verdicts, Statuses
<1>2. Evaluate(suite, data, ref) \in [suite -> Statuses]
  BY <1>1 DEF Evaluate
<1> QED BY <1>2 DEF Reports

LEMMA EmptyReportType == EmptyReport \in Reports
<1>1. EmptyReport \in [{} -> Statuses]
  BY DEF EmptyReport
<1> QED BY <1>1 DEF Reports

-------------------------------------------------------------------------------
(* Type correctness.  TypeOK alone is not inductive: the type of a report  *)
(* or of a published payload rests on the values read before being there.  *)

AfterRead    == {"resolve", "check", "promote", "route"} \cup PublishSteps \cup RouteSteps
AfterResolve == AfterRead \ {"resolve"}
AfterLock    == PublishSteps \ {"lockStaged"}

(* What staging.records holds came out of a JSONB round trip. *)
StagedIsJsonb ==
    \A ref \in Refs : staging[ref] # None => Jsonb[staging[ref]] = staging[ref]

ReadsAreDone ==
    \A i \in Invocations :
        /\ pc[i] \in AfterRead => staged[i] # None
        /\ pc[i] \in AfterResolve => reference[i] # None
        /\ pc[i] \in AfterLock => payload[i] # None /\ Jsonb[payload[i]] = payload[i]

TypeInv == TypeOK /\ StagedIsJsonb /\ ReadsAreDone

LEMMA RefType == ASSUME TypeOK, NEW i \in Invocations PROVE Ref(i) \in Refs
BY CallsAssumption DEF TypeOK, RunTypeOK, CallRecord, Ref, Refs

(* The fields of a call have their types. *)
LEMMA CallType ==
    ASSUME TypeOK, NEW i \in Invocations
    PROVE  /\ call[i].key \in Keys /\ call[i].run \in RunIds
           /\ call[i].data \in Payloads /\ call[i].suite \in SUBSET Assertions
           /\ call[i].source \in Sources
BY CallsAssumption DEF TypeOK, RunTypeOK, CallRecord

LEMMA InitTypeInv == Init => TypeInv
<1> SUFFICES ASSUME Init PROVE TypeInv
  OBVIOUS
<1>1. StoreTypeOK
  BY DEF Init, StoreInit, StoreTypeOK, NoRows, Transactions
<1>2. RunTypeOK
  BY EmptyReportType DEF Init, RunTypeOK, Steps
<1>3. StagedIsJsonb
  BY DEF Init, StoreInit, StagedIsJsonb
<1>4. ReadsAreDone
  BY DEF Init, ReadsAreDone, AfterRead, AfterResolve, AfterLock, PublishSteps,
         RouteSteps
<1> QED BY <1>1, <1>2, <1>3, <1>4 DEF TypeInv, TypeOK

(* Committing and rolling back keep the types of the tables. *)
LEMMA CommitType ==
    ASSUME StoreTypeOK, NEW i \in Invocations, Commit(i), UNCHANGED staging
    PROVE  StoreTypeOK'
<1>1. /\ pending[i].published \subseteq PublishedRow
      /\ pending[i].queue \subseteq QueueRow
      /\ pending[i].audit \subseteq AuditRow
  BY DEF StoreTypeOK, Transactions
<1>2. NoRows \in Transactions
  BY DEF NoRows, Transactions
<1> QED BY <1>1, <1>2 DEF StoreTypeOK, Commit

LEMMA RollbackType ==
    ASSUME StoreTypeOK, NEW i \in Invocations, Rollback(i), UNCHANGED staging
    PROVE  StoreTypeOK'
<1>1. NoRows \in Transactions
  BY DEF NoRows, Transactions
<1> QED BY <1>1 DEF StoreTypeOK, Rollback, tables

LEMMA UnchangedStoreType ==
    ASSUME StoreTypeOK, UNCHANGED storeVars
    PROVE  StoreTypeOK'
BY DEF StoreTypeOK, storeVars

LEMMA UnchangedStagedIsJsonb ==
    ASSUME StagedIsJsonb, UNCHANGED staging
    PROVE  StagedIsJsonb'
BY DEF StagedIsJsonb

(* A step that only moves pc keeps the invariant if it does not enter the  *)
(* region behind a read without coming from it.                            *)
LEMMA GoInv ==
    ASSUME TypeInv, NEW i \in Invocations, NEW from, NEW to \in Steps,
           Go(i, from, to), UNCHANGED <<runVars, clock>>,
           to \in AfterRead => from \in AfterRead,
           to \in AfterResolve => from \in AfterResolve,
           to \in AfterLock => from \in AfterLock,
           StoreTypeOK', StagedIsJsonb'
    PROVE  TypeInv'
<1>1. RunTypeOK'
  BY DEF TypeInv, TypeOK, RunTypeOK, Go, runVars
<1>2. ReadsAreDone'
  BY DEF TypeInv, TypeOK, RunTypeOK, ReadsAreDone, Go, runVars
<1> QED BY <1>1, <1>2 DEF TypeInv, TypeOK

(* So does a step that ends in _errored(), or in a returned result. *)
LEMMA FailInv ==
    ASSUME TypeInv, NEW i \in Invocations, NEW from, NEW why \in Errors,
           Fail(i, from, why), StoreTypeOK', StagedIsJsonb'
    PROVE  TypeInv'
<1>1. RunTypeOK'
  BY DEF TypeInv, TypeOK, RunTypeOK, Fail, Go, Steps
<1>2. ReadsAreDone'
  BY DEF TypeInv, TypeOK, RunTypeOK, ReadsAreDone, Fail, Go, AfterRead,
         AfterResolve, AfterLock, PublishSteps, RouteSteps
<1> QED BY <1>1, <1>2 DEF TypeInv, TypeOK

LEMMA FinishInv ==
    ASSUME TypeInv, NEW i \in Invocations, NEW from, NEW status \in RunStatuses,
           Finish(i, from, status), StoreTypeOK', StagedIsJsonb'
    PROVE  TypeInv'
<1>1. RunTypeOK'
  BY DEF TypeInv, TypeOK, RunTypeOK, Finish, Go, Steps, Ended
<1>2. ReadsAreDone'
  BY DEF TypeInv, TypeOK, RunTypeOK, ReadsAreDone, Finish, Go, AfterRead,
         AfterResolve, AfterLock, PublishSteps, RouteSteps
<1> QED BY <1>1, <1>2 DEF TypeInv, TypeOK

(* Rows built from a call have the types of their tables. *)
LEMMA RowTypes ==
    ASSUME TypeInv, NEW i \in Invocations
    PROVE  /\ pc[i] \in AfterLock => NewPublishedRow(i) \in PublishedRow
           /\ NewQueueRow(i) \in QueueRow
           /\ \A status \in RunStatuses : NewAuditRow(i, status) \in AuditRow
<1>1. /\ call[i].key \in Keys /\ call[i].run \in RunIds
      /\ report[i] \in Reports /\ at[i] \in Nat /\ payload[i] \in Payloads \cup {None}
  BY CallType DEF TypeInv, TypeOK, RunTypeOK
<1>2. pc[i] \in AfterLock => Jsonb[payload[i]] \in Payloads
  BY <1>1 DEF TypeInv, ReadsAreDone
<1>3. SeverityValue(report[i]) \in Severities
  BY <1>1, SeverityValueType
<1> QED BY <1>1, <1>2, <1>3 DEF NewPublishedRow, PublishedRow, NewQueueRow, QueueRow,
                             NewAuditRow, AuditRow

(* A transaction that inserts rows of the right type stays well typed. *)
LEMMA InsertType ==
    ASSUME StoreTypeOK, NEW i \in Invocations,
           UNCHANGED <<staging, published, queue, audit>>,
           \/ \E row \in PublishedRow : pending' = [pending EXCEPT ![i].published = {row}]
           \/ \E row \in QueueRow : pending' = [pending EXCEPT ![i].queue = {row}]
           \/ \E row \in AuditRow : pending' = [pending EXCEPT ![i].audit = {row}]
    PROVE  StoreTypeOK'
<1>1. pending \in [Invocations -> Transactions]
  BY DEF StoreTypeOK
<1>2. pending' \in [Invocations -> Transactions]
  BY <1>1 DEF Transactions
<1> QED BY <1>2 DEF StoreTypeOK

(* The row write() inserts keeps staging.records typed and round-tripped. *)
LEMMA InsertStagedType ==
    ASSUME TypeInv, NEW i \in Invocations, Stageable(i), InsertStaged(i),
           UNCHANGED <<published, queue, audit, pending>>
    PROVE  StoreTypeOK' /\ StagedIsJsonb'
<1>1. Jsonb[call[i].data] \in Payloads
  BY CallType, JsonbAssumption DEF TypeInv, Stageable
<1>2. Jsonb[Jsonb[call[i].data]] = Jsonb[call[i].data]
  BY CallType, JsonbAssumption DEF TypeInv, Stageable
<1> QED BY <1>1, <1>2, RefType
        DEF TypeInv, TypeOK, StoreTypeOK, StagedIsJsonb, InsertStaged

(* A resolved reference is a payload, never the absence of one. *)
LEMMA ResolveInv ==
    ASSUME TypeInv, NEW i \in Invocations, NEW ref \in Payloads, Resolve(i, ref)
    PROVE  TypeInv'
<1>1. StoreTypeOK' /\ StagedIsJsonb'
  BY UnchangedStoreType, UnchangedStagedIsJsonb DEF TypeInv, TypeOK, Resolve, storeVars
<1>2. RunTypeOK'
  BY DEF TypeInv, TypeOK, RunTypeOK, Resolve, Go, Steps
<1>3. ReadsAreDone'
  BY NoneAssumption DEF TypeInv, TypeOK, RunTypeOK, ReadsAreDone, Resolve, Go, AfterRead,
         AfterResolve, AfterLock, PublishSteps, RouteSteps
<1> QED BY <1>1, <1>2, <1>3 DEF TypeInv, TypeOK

(* Every step keeps the invariant: the steps of an invocation first. *)
LEMMA ProgressTypeInv ==
    ASSUME TypeInv, NEW i \in Invocations, Progress(i)
    PROVE  TypeInv'
<1> DEFINE Unchanged == StoreTypeOK' /\ StagedIsJsonb'
<1>1. UNCHANGED storeVars => Unchanged
  BY UnchangedStoreType, UnchangedStagedIsJsonb DEF TypeInv, TypeOK, storeVars
<1>2. Commit(i) /\ UNCHANGED staging => Unchanged
  BY CommitType, UnchangedStagedIsJsonb DEF TypeInv, TypeOK
<1>3. Rollback(i) /\ UNCHANGED staging => Unchanged
  BY RollbackType, UnchangedStagedIsJsonb DEF TypeInv, TypeOK
<1> HIDE DEF Unchanged
<1>4. CASE StageWrite(i)
  <2>1. StoreTypeOK' /\ StagedIsJsonb'
    BY <1>4, InsertStagedType DEF StageWrite
  <2>2. Go(i, "write", "read") /\ UNCHANGED <<runVars, clock>>
    BY <1>4 DEF StageWrite
  <2> QED BY <2>1, <2>2, GoInv DEF Steps, AfterRead, AfterResolve, AfterLock,
                                   PublishSteps, RouteSteps
<1>5. CASE StageRefused(i)
  BY <1>1, <1>5, FailInv DEF Unchanged, StageRefused, Errors
<1>6. CASE ReadBack(i)
  <2>1. StoreTypeOK' /\ StagedIsJsonb'
    BY <1>1, <1>6 DEF Unchanged, ReadBack
  <2>2. staging[Ref(i)] \in Payloads
    BY <1>6, RefType DEF ReadBack, Readable, TypeInv, TypeOK, StoreTypeOK
  <2>3. RunTypeOK'
    BY <1>6, <2>2 DEF ReadBack, TypeInv, TypeOK, RunTypeOK, Go, Steps
  <2>4. ReadsAreDone'
    BY <1>6, <2>2, NoneAssumption DEF ReadBack, TypeInv, TypeOK, RunTypeOK,
       ReadsAreDone, Go, AfterRead, AfterResolve, AfterLock, PublishSteps, RouteSteps
  <2> QED BY <2>1, <2>3, <2>4 DEF TypeInv, TypeOK
<1>7. CASE ReadRefused(i)
  BY <1>1, <1>7, FailInv DEF Unchanged, ReadRefused, Errors
<1>8. CASE ResolveSnapshot(i)
  <2>1. PICK row \in Snapshots(i) : DictOf[row.payload] # None /\ Resolve(i, DictOf[row.payload])
    BY <1>8 DEF ResolveSnapshot
  <2>2. row.payload \in Payloads
    BY DEF Snapshots, LatestRows, TypeInv, TypeOK, StoreTypeOK, PublishedRow
  <2>3. DictOf[row.payload] \in Payloads
    BY <2>1, <2>2, AssertionAssumption
  <2> QED BY <2>1, <2>3, ResolveInv
<1>9. CASE SnapshotNotADict(i)
  <2>1. StoreTypeOK' /\ StagedIsJsonb'
    BY <1>1, <1>9 DEF Unchanged, SnapshotNotADict
  <2> QED BY <1>9, <2>1, GoInv DEF SnapshotNotADict, Steps, Ended, AfterRead,
             AfterResolve, AfterLock, PublishSteps, RouteSteps
<1>10. CASE NoSnapshot(i)
  BY <1>1, <1>10, FailInv DEF Unchanged, NoSnapshot, Errors
<1>11. CASE ResolveCustom(i)
  <2>1. call[i].source \in Payloads
    BY <1>11, CallType DEF ResolveCustom, Sources, TypeInv
  <2> QED BY <1>11, <2>1, ResolveInv DEF ResolveCustom
<1>12. CASE RunAssertions(i)
  <2> DEFINE new == Evaluate(call[i].suite, staged[i], reference[i])
  <2>1. StoreTypeOK' /\ StagedIsJsonb'
    BY <1>1, <1>12 DEF Unchanged, RunAssertions
  <2>2. pc[i] = "check" /\ staged[i] \in Payloads /\ reference[i] \in Payloads
    BY <1>12 DEF RunAssertions, Go, TypeInv, TypeOK, RunTypeOK, ReadsAreDone, AfterRead,
                 AfterResolve
  <2>3. new \in Reports
    BY <2>2, CallType, EvaluateType DEF TypeInv
  <2> HIDE DEF new
  <2>4. \E to \in {"promote", "route"} :
            /\ Go(i, "check", to)
            /\ report' = [report EXCEPT ![i] = new]
            /\ UNCHANGED <<call, staged, reference, at, payload, error, result, clock>>
    BY <1>12 DEF RunAssertions, new
  <2>5. RunTypeOK'
    BY <2>3, <2>4 DEF TypeInv, TypeOK, RunTypeOK, Go, Steps
  <2>6. ReadsAreDone'
    BY <2>2, <2>4 DEF TypeInv, TypeOK, RunTypeOK, ReadsAreDone, Go, AfterRead,
       AfterResolve, AfterLock, PublishSteps, RouteSteps
  <2> QED BY <2>1, <2>5, <2>6 DEF TypeInv, TypeOK
<1>13. CASE Promote(i)
  <2>1. StoreTypeOK' /\ StagedIsJsonb'
    BY <1>1, <1>13 DEF Unchanged, Promote
  <2>2. CASE AllPassed(report[i])
    <3>1. RunTypeOK'
      BY <1>13, <2>2 DEF Promote, TypeInv, TypeOK, RunTypeOK, Go, Steps, PublishSteps
    <3>2. ReadsAreDone'
      BY <1>13, <2>2 DEF Promote, TypeInv, TypeOK, RunTypeOK, ReadsAreDone, Go, AfterRead,
         AfterResolve, AfterLock, PublishSteps, RouteSteps
    <3> QED BY <2>1, <3>1, <3>2 DEF TypeInv, TypeOK
  <2>3. CASE ~AllPassed(report[i])
    BY <1>13, <2>1, <2>3, FailInv DEF Promote, Errors
  <2> QED BY <2>2, <2>3
<1>14. CASE LockStaged(i)
  <2>1. StoreTypeOK' /\ StagedIsJsonb'
    BY <1>1, <1>14 DEF Unchanged, LockStaged
  <2>2. staging[Ref(i)] \in Payloads /\ Jsonb[staging[Ref(i)]] = staging[Ref(i)]
    BY <1>14, RefType DEF LockStaged, TypeInv, TypeOK, StoreTypeOK, StagedIsJsonb
  <2>3. RunTypeOK'
    BY <1>14, <2>2 DEF LockStaged, TypeInv, TypeOK, RunTypeOK, Go, Steps, PublishSteps
  <2>4. ReadsAreDone'
    BY <1>14, <2>2, NoneAssumption DEF LockStaged, TypeInv, TypeOK, RunTypeOK,
       ReadsAreDone, Go, AfterRead, AfterResolve, AfterLock, PublishSteps, RouteSteps
  <2> QED BY <2>1, <2>3, <2>4 DEF TypeInv, TypeOK
<1>15. CASE StagedMissing(i)
  BY <1>1, <1>15, FailInv DEF Unchanged, StagedMissing, Errors
<1>16. CASE InsertPublished(i)
  <2>1. NewPublishedRow(i) \in PublishedRow
    BY <1>16, RowTypes DEF InsertPublished, Go, AfterLock, PublishSteps
  <2>2. StoreTypeOK'
    BY <1>16, <2>1, InsertType DEF InsertPublished, TypeInv, TypeOK
  <2>3. StagedIsJsonb'
    BY <1>16, UnchangedStagedIsJsonb DEF InsertPublished, TypeInv
  <2> QED BY <1>16, <2>2, <2>3, GoInv DEF InsertPublished, Steps, AfterRead,
             AfterResolve, AfterLock, PublishSteps, RouteSteps
<1>17. CASE PublishRefused(i)
  BY <1>3, <1>17, FailInv DEF Unchanged, PublishRefused, Errors
<1>18. CASE AuditPublished(i)
  <2>1. NewAuditRow(i, "published") \in AuditRow
    BY RowTypes DEF RunStatuses
  <2>2. StoreTypeOK'
    BY <1>18, <2>1, InsertType DEF AuditPublished, TypeInv, TypeOK
  <2>3. StagedIsJsonb'
    BY <1>18, UnchangedStagedIsJsonb DEF AuditPublished, TypeInv
  <2> QED BY <1>18, <2>2, <2>3, GoInv DEF AuditPublished, Steps, AfterRead,
             AfterResolve, AfterLock, PublishSteps, RouteSteps
<1>19. CASE CommitPublished(i)
  BY <1>2, <1>19, FinishInv DEF Unchanged, CommitPublished, RunStatuses
<1>20. CASE Route(i)
  <2>1. StoreTypeOK' /\ StagedIsJsonb'
    BY <1>1, <1>20 DEF Unchanged, Route
  <2>2. CASE ~AllPassed(report[i])
    BY <1>20, <2>1, <2>2, GoInv DEF Route, Steps, AfterRead,
       AfterResolve, AfterLock, PublishSteps, RouteSteps
  <2>3. CASE AllPassed(report[i])
    BY <1>20, <2>1, <2>3, FailInv DEF Route, Errors
  <2> QED BY <2>2, <2>3
<1>21. CASE InsertQueue(i)
  <2>1. NewQueueRow(i) \in QueueRow
    BY RowTypes
  <2>2. StoreTypeOK'
    BY <1>21, <2>1, InsertType DEF InsertQueue, TypeInv, TypeOK
  <2>3. StagedIsJsonb'
    BY <1>21, UnchangedStagedIsJsonb DEF InsertQueue, TypeInv
  <2> QED BY <1>21, <2>2, <2>3, GoInv DEF InsertQueue, Steps, AfterRead,
             AfterResolve, AfterLock, PublishSteps, RouteSteps
<1>22. CASE QueueRefused(i)
  BY <1>3, <1>22, FailInv DEF Unchanged, QueueRefused, Errors
<1>23. CASE AuditRouted(i)
  <2>1. NewAuditRow(i, "routed_to_review") \in AuditRow
    BY RowTypes DEF RunStatuses
  <2>2. StoreTypeOK'
    BY <1>23, <2>1, InsertType DEF AuditRouted, TypeInv, TypeOK
  <2>3. StagedIsJsonb'
    BY <1>23, UnchangedStagedIsJsonb DEF AuditRouted, TypeInv
  <2> QED BY <1>23, <2>2, <2>3, GoInv DEF AuditRouted, Steps, AfterRead,
             AfterResolve, AfterLock, PublishSteps, RouteSteps
<1>24. CASE CommitRouted(i)
  BY <1>2, <1>24, FinishInv DEF Unchanged, CommitRouted, RunStatuses
<1>25. CASE WriteErroredAudit(i)
  <2>1. NewAuditRow(i, "errored") \in AuditRow
    BY RowTypes DEF RunStatuses
  <2>2. StoreTypeOK'
    BY <1>25, <2>1 DEF WriteErroredAudit, TypeInv, TypeOK, StoreTypeOK
  <2>3. StagedIsJsonb'
    BY <1>25, UnchangedStagedIsJsonb DEF WriteErroredAudit, TypeInv
  <2> QED BY <1>25, <2>2, <2>3, FinishInv DEF WriteErroredAudit, RunStatuses
<1> QED
  BY <1>4, <1>5, <1>6, <1>7, <1>8, <1>9, <1>10, <1>11, <1>12, <1>13, <1>14, <1>15,
     <1>16, <1>17, <1>18, <1>19, <1>20, <1>21, <1>22, <1>23, <1>24, <1>25 DEF Progress

(* Then the failures: they end the run, or take it to _errored(). *)
LEMMA FaultTypeInv ==
    ASSUME TypeInv, NEW i \in Invocations, Fault(i)
    PROVE  TypeInv'
<1>1. UNCHANGED storeVars => StoreTypeOK' /\ StagedIsJsonb'
  BY UnchangedStoreType, UnchangedStagedIsJsonb DEF TypeInv, TypeOK, storeVars
<1>2. Commit(i) /\ UNCHANGED staging => StoreTypeOK' /\ StagedIsJsonb'
  BY CommitType, UnchangedStagedIsJsonb DEF TypeInv, TypeOK
<1>3. Rollback(i) /\ UNCHANGED staging => StoreTypeOK' /\ StagedIsJsonb'
  BY RollbackType, UnchangedStagedIsJsonb DEF TypeInv, TypeOK
<1>4. ASSUME NEW from, NEW to \in Ended, Go(i, from, to), UNCHANGED <<runVars, clock>>,
             StoreTypeOK', StagedIsJsonb'
      PROVE  TypeInv'
  <2>1. to \in Steps /\ to \notin AfterRead /\ to \notin AfterResolve /\ to \notin AfterLock
    BY DEF Steps, Ended, AfterRead, AfterResolve, AfterLock, PublishSteps, RouteSteps
  <2> QED BY <1>4, <2>1, GoInv
<1>5. CASE StageUnacknowledged(i)
  <2>1. StoreTypeOK' /\ StagedIsJsonb'
    BY <1>5, InsertStagedType DEF StageUnacknowledged
  <2> QED BY <1>5, <2>1, FailInv DEF StageUnacknowledged, Errors
<1>6. CASE LoseErroredAudit(i)
  BY <1>1, <1>6, FinishInv DEF LoseErroredAudit, RunStatuses
<1>7. CASE DatabaseError(i)
  <2>1. StoreTypeOK' /\ StagedIsJsonb'
    BY <1>1, <1>7 DEF DatabaseError
  <2>2. \/ Fail(i, "write", "stagingWrite")
        \/ Fail(i, "read", "stagingRead")
        \/ Fail(i, "resolve", "reference")
    BY <1>7 DEF DatabaseError
  <2> QED BY <2>1, <2>2, FailInv DEF Errors
<1>8. CASE TransactionError(i)
  BY <1>3, <1>4, <1>8 DEF TransactionError, Ended
<1>9. CASE OtherError(i)
  BY <1>3, <1>4, <1>9 DEF OtherError, Ended
<1>10. CASE CommitUnacknowledged(i)
  BY <1>2, <1>4, <1>10 DEF CommitUnacknowledged, Ended
<1>11. CASE Crash(i)
  <2>1. PICK step \in Steps \ Ended : Go(i, step, "crashed")
    BY <1>11 DEF Crash
  <2> QED BY <1>3, <1>4, <1>11, <2>1 DEF Crash, Ended
<1> QED
  BY <1>5, <1>6, <1>7, <1>8, <1>9, <1>10, <1>11 DEF Fault

LEMMA NextTypeInv == TypeInv /\ [Next]_vars => TypeInv'
<1> SUFFICES ASSUME TypeInv, [Next]_vars PROVE TypeInv'
  OBVIOUS
<1>1. ASSUME NEW i \in Invocations, Begin(i) \/ Misconfigured(i) PROVE TypeInv'
  <2>1. StoreTypeOK' /\ StagedIsJsonb'
    BY <1>1, UnchangedStoreType, UnchangedStagedIsJsonb
       DEF Begin, Misconfigured, TypeInv, TypeOK, storeVars
  <2> QED BY <1>1, <2>1, GoInv DEF Begin, Misconfigured, Steps, Ended, AfterRead,
             AfterResolve, AfterLock, PublishSteps, RouteSteps
<1>2. ASSUME NEW ref \in Refs, Cleanup(ref) PROVE TypeInv'
  <2>1. StoreTypeOK' /\ StagedIsJsonb'
    BY <1>2 DEF Cleanup, TypeInv, TypeOK, StoreTypeOK, StagedIsJsonb
  <2>2. RunTypeOK' /\ ReadsAreDone'
    BY <1>2 DEF Cleanup, TypeInv, TypeOK, RunTypeOK, ReadsAreDone, runVars
  <2> QED BY <2>1, <2>2 DEF TypeInv, TypeOK
<1>3. CASE UNCHANGED vars
  BY <1>3 DEF vars, TypeInv, TypeOK, StoreTypeOK, RunTypeOK, StagedIsJsonb, ReadsAreDone
<1> QED
  BY <1>1, <1>2, <1>3, ProgressTypeInv, FaultTypeInv DEF Next, AllEnded

(* Every variable has its type in every reachable state; in particular no  *)
(* table ever holds a row without a payload, a severity or a report.       *)
THEOREM TypeCorrect == Spec => []TypeOK
<1>1. TypeInv => TypeOK
  BY DEF TypeInv
<1> QED BY <1>1, InitTypeInv, NextTypeInv, PTL DEF Spec

-------------------------------------------------------------------------------
(* What is published was checked.  The argument follows one payload: while *)
(* an invocation is between its write and its commit, its staged record    *)
(* holds what it wrote, or nothing if the clean-up job ran, because either *)
(* no other invocation has its run_id or the record is never removed and   *)
(* so blocks a second write.  What it read back, what it locked and what   *)
(* its transaction inserted are then all the same payload.                 *)

AfterWrite == AfterRead \cup {"read"}
Passed     == PublishSteps \cup {"promote"}
Inserted   == {"auditPublished", "commitPublished"}

IdsAreSafe ==
    \/ ~CleanupEnabled
    \/ \A i, j \in Invocations : call[i].run = call[j].run => i = j

Checked(i, data) ==
    /\ call[i].suite # {}
    /\ \A a \in call[i].suite : Verdict[<<a, data, reference[i]>>] = "passed"

Written(i) == Jsonb[call[i].data]

OwnPayload(i) ==
    /\ pc[i] \in AfterWrite \cup {"write"} => call[i].suite # {}
    /\ pc[i] \in AfterWrite =>
          /\ Written(i) # None
          /\ staging[Ref(i)] # Written(i) => CleanupEnabled /\ staging[Ref(i)] = None
    /\ pc[i] \in AfterRead => staged[i] = Written(i)
    /\ pc[i] \in AfterLock => payload[i] = Written(i)
    /\ pc[i] \in Passed => Checked(i, Written(i))
    /\ \A row \in pending[i].published :
          pc[i] \in Inserted /\ row.by = i /\ row.payload = Written(i)

PublishedRowsAreFinal ==
    \A row \in published :
        pc[row.by] \in {"returned", "raised"} /\ Checked(row.by, row.payload)

CheckedInv ==
    /\ TypeInv
    /\ IdsAreSafe
    /\ \A i \in Invocations : OwnPayload(i)
    /\ PublishedRowsAreFinal

(* What a step of invocation i leaves alone. *)
OthersUntouched(i) ==
    /\ UNCHANGED call
    /\ \A j \in Invocations \ {i} :
          /\ pc'[j] = pc[j] /\ staged'[j] = staged[j] /\ payload'[j] = payload[j]
          /\ reference'[j] = reference[j] /\ pending'[j] = pending[j]
          /\ pc[j] \in AfterWrite => staging'[Ref(j)] = staging[Ref(j)]

(* A step of one invocation keeps the invariant if it keeps its own part   *)
(* and publishes at most what its transaction holds.                       *)
LEMMA StepFrame ==
    ASSUME CheckedInv, TypeInv', NEW i \in Invocations, pc[i] \notin Ended,
           OthersUntouched(i), OwnPayload(i)',
           \/ UNCHANGED published
           \/ /\ published' = published \cup pending[i].published
              /\ pc[i] \in Inserted
              /\ pc'[i] \in {"returned", "raised"}
              /\ reference'[i] = reference[i]
    PROVE  CheckedInv'
<1>1. IdsAreSafe'
  BY DEF CheckedInv, IdsAreSafe, OthersUntouched
<1>2. ASSUME NEW j \in Invocations PROVE OwnPayload(j)'
  <2>1. CASE j = i
    BY <2>1
  <2>2. CASE j # i
    BY <2>2 DEF CheckedInv, OwnPayload, OthersUntouched, Written, Checked, Ref
  <2> QED BY <2>1, <2>2
<1>3. ASSUME NEW row \in published
      PROVE  pc'[row.by] \in {"returned", "raised"} /\ Checked(row.by, row.payload)'
  <2>1. row.by \in Invocations
    BY DEF CheckedInv, TypeInv, TypeOK, StoreTypeOK, PublishedRow
  <2>2. row.by # i
    BY DEF CheckedInv, PublishedRowsAreFinal, Ended
  <2> QED BY <2>1, <2>2 DEF CheckedInv, PublishedRowsAreFinal, OthersUntouched, Checked
<1>4. ASSUME NEW row \in pending[i].published, pc[i] \in Inserted,
             pc'[i] \in {"returned", "raised"}, reference'[i] = reference[i]
      PROVE  pc'[row.by] \in {"returned", "raised"} /\ Checked(row.by, row.payload)'
  <2>1. row.by = i /\ row.payload = Written(i)
    BY DEF CheckedInv, OwnPayload
  <2>2. Checked(i, Written(i))
    BY <1>4 DEF CheckedInv, OwnPayload, Inserted, Passed, PublishSteps
  <2> QED BY <1>4, <2>1, <2>2 DEF OthersUntouched, Checked, Written
<1>5. PublishedRowsAreFinal'
  BY <1>3, <1>4 DEF PublishedRowsAreFinal
<1> QED BY <1>1, <1>2, <1>5 DEF CheckedInv

(* Leaving run() or falling into _errored() leaves nothing to keep but an  *)
(* empty transaction.                                                      *)
LEMMA LeaveOwnPayload ==
    ASSUME TypeOK, NEW i \in Invocations, NEW from, NEW to \in Ended \cup {"errored"},
           Go(i, from, to), pending'[i].published = {}
    PROVE  OwnPayload(i)'
<1>1. pc'[i] = to
  BY DEF Go, TypeOK, RunTypeOK
<1>2. /\ to \notin AfterWrite \cup {"write"} /\ to \notin AfterRead
      /\ to \notin AfterLock /\ to \notin Passed
  BY DEF Ended, AfterWrite, AfterRead, AfterLock, Passed, PublishSteps, RouteSteps
<1> QED BY <1>1, <1>2 DEF OwnPayload

(* Outside the window of the inserted row, a transaction publishes nothing. *)
LEMMA NothingPending ==
    ASSUME CheckedInv, NEW i \in Invocations, pc[i] \notin Inserted
    PROVE  pending[i].published = {}
BY DEF CheckedInv, OwnPayload

LEMMA FailChecked ==
    ASSUME CheckedInv, TypeInv', NEW i \in Invocations, NEW from, NEW why,
           Fail(i, from, why), from \notin Ended, from \notin Inserted,
           UNCHANGED <<staging, published>>,
           pending' = [pending EXCEPT ![i] = NoRows] \/ UNCHANGED pending
    PROVE  CheckedInv'
<1>1. pc[i] = from
  BY DEF Fail, Go
<1>2. pending'[i].published = {}
  BY <1>1, NothingPending DEF CheckedInv, TypeInv, TypeOK, StoreTypeOK, NoRows
<1>3. OwnPayload(i)'
  BY <1>2, LeaveOwnPayload DEF Fail, CheckedInv, TypeInv
<1>4. OthersUntouched(i)
  BY DEF Fail, Go, OthersUntouched, CheckedInv, TypeInv, TypeOK, RunTypeOK, StoreTypeOK
<1> QED BY <1>1, <1>3, <1>4, StepFrame

(* A run that ends, with its transaction committed or rolled back. *)
LEMMA EndChecked ==
    ASSUME CheckedInv, TypeInv', NEW i \in Invocations, NEW from \in Steps \ Ended,
           NEW to \in Ended, Go(i, from, to),
           UNCHANGED <<call, staged, reference, payload, staging>>,
           \/ Rollback(i)
           \/ Commit(i) /\ to \in {"returned", "raised"}
           \/ UNCHANGED <<published, pending>> /\ from \notin Inserted
    PROVE  CheckedInv'
<1>1. pc[i] = from /\ pc'[i] = to
  BY DEF Go, CheckedInv, TypeInv, TypeOK, RunTypeOK
<1>2. pending'[i].published = {}
  BY <1>1, NothingPending
     DEF Rollback, Commit, NoRows, CheckedInv, TypeInv, TypeOK, StoreTypeOK
<1>3. OwnPayload(i)'
  BY <1>2, LeaveOwnPayload DEF CheckedInv, TypeInv
<1>4. OthersUntouched(i)
  BY DEF Go, OthersUntouched, CheckedInv, TypeInv, TypeOK, RunTypeOK, StoreTypeOK,
         Rollback, Commit
<1>5. CASE UNCHANGED published
  BY <1>1, <1>3, <1>4, <1>5, StepFrame
<1>6. CASE Commit(i) /\ to \in {"returned", "raised"}
  <2>1. CASE pc[i] \in Inserted
    BY <1>1, <1>3, <1>4, <1>6, <2>1, StepFrame DEF Commit
  <2>2. CASE pc[i] \notin Inserted
    <3>1. UNCHANGED published
      BY <1>6, <2>2, NothingPending DEF Commit
    <3> QED BY <1>5, <3>1
  <2> QED BY <2>1, <2>2
<1> QED BY <1>5, <1>6 DEF Rollback, tables

(* A step inside a run that leaves the tables and its transaction alone:   *)
(* only what it newly claims has to be shown.                              *)
LEMMA InsideChecked ==
    ASSUME CheckedInv, TypeInv', NEW i \in Invocations, NEW from \in Steps \ Ended,
           NEW to \in Steps, Go(i, from, to),
           OthersUntouched(i), OwnPayload(i)', UNCHANGED published
    PROVE  CheckedInv'
<1>1. pc[i] \notin Ended
  BY DEF Go
<1> QED BY <1>1, StepFrame

LEMMA StageWriteChecked ==
    ASSUME CheckedInv, TypeInv', NEW i \in Invocations, StageWrite(i)
    PROVE  CheckedInv'
<1>1. Go(i, "write", "read") /\ InsertStaged(i) /\ Stageable(i)
      /\ UNCHANGED <<runVars, published, pending>>
  BY DEF StageWrite
<1>2. pc[i] = "write" /\ pc'[i] = "read"
  BY <1>1 DEF Go, CheckedInv, TypeInv, TypeOK, RunTypeOK
<1>3. Ref(i) \in Refs /\ staging'[Ref(i)] = Written(i) /\ Written(i) # None
  BY <1>1, RefType DEF InsertStaged, Stageable, Written, CheckedInv, TypeInv, TypeOK,
                       StoreTypeOK
<1>4. ASSUME NEW j \in Invocations \ {i}, pc[j] \in AfterWrite
      PROVE  staging'[Ref(j)] = staging[Ref(j)]
  <2>1. Ref(j) # Ref(i)
    <3>1. CASE ~CleanupEnabled
      <4>1. staging[Ref(j)] # None
        BY <1>4, <3>1 DEF CheckedInv, OwnPayload
      <4> QED BY <1>1, <4>1 DEF Stageable
    <3>2. CASE \A k, l \in Invocations : call[k].run = call[l].run => k = l
      BY <3>2 DEF Ref
    <3> QED BY <3>1, <3>2 DEF CheckedInv, IdsAreSafe
  <2> QED BY <1>1, <2>1 DEF InsertStaged, CheckedInv, TypeInv, TypeOK, StoreTypeOK
<1>5. OthersUntouched(i)
  BY <1>1, <1>4 DEF OthersUntouched, Go, runVars, CheckedInv, TypeInv, TypeOK, RunTypeOK
<1>6. call[i].suite # {} /\ pending[i].published = {}
  BY <1>2, NothingPending DEF CheckedInv, OwnPayload, Inserted
<1>7. OwnPayload(i)'
  <2>1. staging'[Ref(i)'] = Written(i)' /\ Written(i)' # None
    BY <1>1, <1>3 DEF Ref, Written, runVars
  <2> QED BY <1>1, <1>2, <1>6, <2>1
          DEF OwnPayload, runVars, AfterRead, AfterLock, Passed, PublishSteps, RouteSteps
<1> QED BY <1>1, <1>5, <1>7, InsideChecked DEF Steps, Ended

LEMMA StageUnacknowledgedChecked ==
    ASSUME CheckedInv, TypeInv', NEW i \in Invocations, StageUnacknowledged(i)
    PROVE  CheckedInv'
<1>1. Fail(i, "write", "stagingWrite") /\ InsertStaged(i) /\ Stageable(i)
      /\ UNCHANGED <<published, pending>>
  BY DEF StageUnacknowledged
<1>2. pc[i] = "write"
  BY <1>1 DEF Fail, Go
<1>3. ASSUME NEW j \in Invocations \ {i}, pc[j] \in AfterWrite
      PROVE  staging'[Ref(j)] = staging[Ref(j)]
  <2>1. Ref(j) # Ref(i)
    <3>1. CASE ~CleanupEnabled
      <4>1. staging[Ref(j)] # None
        BY <1>3, <3>1 DEF CheckedInv, OwnPayload
      <4> QED BY <1>1, <4>1 DEF Stageable
    <3>2. CASE \A k, l \in Invocations : call[k].run = call[l].run => k = l
      BY <3>2 DEF Ref
    <3> QED BY <3>1, <3>2 DEF CheckedInv, IdsAreSafe
  <2> QED BY <1>1, <2>1 DEF InsertStaged, CheckedInv, TypeInv, TypeOK, StoreTypeOK
<1>4. OthersUntouched(i)
  BY <1>1, <1>3 DEF OthersUntouched, Fail, Go, CheckedInv, TypeInv, TypeOK, RunTypeOK
<1>5. pending'[i].published = {}
  BY <1>1, <1>2, NothingPending DEF Inserted
<1>6. OwnPayload(i)'
  BY <1>1, <1>5, LeaveOwnPayload DEF Fail, CheckedInv, TypeInv
<1> QED BY <1>1, <1>2, <1>4, <1>6, StepFrame DEF Ended

(* The steps of an invocation. *)
LEMMA ProgressChecked ==
    ASSUME CheckedInv, TypeInv', NEW i \in Invocations, Progress(i)
    PROVE  CheckedInv'
<1> USE DEF Steps, Ended, Inserted, AfterWrite, AfterRead, AfterResolve, AfterLock, Passed,
            PublishSteps, RouteSteps
<1>1. CASE StageWrite(i)
  BY <1>1, StageWriteChecked
<1>2. CASE \/ StageRefused(i) \/ ReadRefused(i) \/ NoSnapshot(i) \/ StagedMissing(i)
           \/ PublishRefused(i) \/ QueueRefused(i)
  BY <1>2, FailChecked DEF StageRefused, ReadRefused, NoSnapshot, StagedMissing,
     PublishRefused, QueueRefused, Rollback, storeVars, tables
<1>3. CASE ReadBack(i)
  <2>1. OthersUntouched(i)
    BY <1>3 DEF ReadBack, storeVars, OwnPayload, OthersUntouched, CheckedInv, TypeInv, TypeOK, RunTypeOK, StoreTypeOK, Go
  <2>2. OwnPayload(i)'
    BY <1>3, NothingPending DEF ReadBack, Readable, Written, Ref, storeVars, OwnPayload, OthersUntouched, CheckedInv, TypeInv, TypeOK, RunTypeOK, StoreTypeOK, Go
  <2> QED BY <1>3, <2>1, <2>2, InsideChecked DEF ReadBack, storeVars
<1>4. ASSUME NEW ref, Resolve(i, ref) PROVE CheckedInv'
  <2>1. OthersUntouched(i)
    BY <1>4 DEF Resolve, storeVars, OwnPayload, OthersUntouched, CheckedInv, TypeInv, TypeOK, RunTypeOK, StoreTypeOK, Go
  <2>2. OwnPayload(i)'
    BY <1>4, NothingPending DEF Resolve, Written, Ref, storeVars, OwnPayload, OthersUntouched, CheckedInv, TypeInv, TypeOK, RunTypeOK, StoreTypeOK, Go
  <2> QED BY <1>4, <2>1, <2>2, InsideChecked DEF Resolve, storeVars
<1>5. CASE SnapshotNotADict(i)
  BY <1>5, EndChecked DEF SnapshotNotADict, runVars, storeVars
<1>6. CASE RunAssertions(i)
  <2> DEFINE new == Evaluate(call[i].suite, staged[i], reference[i])
  <2>1. PICK to \in {"promote", "route"} :
            /\ Go(i, "check", to)
            /\ to = "promote" => AllPassed(new)
            /\ UNCHANGED <<call, staged, reference, payload, storeVars>>
    BY <1>6 DEF RunAssertions
  <2>2. pc[i] = "check" /\ pc'[i] = to
    BY <2>1 DEF Go, CheckedInv, TypeInv, TypeOK, RunTypeOK
  <2>3. OthersUntouched(i)
    BY <2>1 DEF storeVars, OwnPayload, OthersUntouched, CheckedInv, TypeInv, TypeOK, RunTypeOK, StoreTypeOK, Go
  <2>4. staged[i] = Written(i) /\ call[i].suite # {} /\ pending[i].published = {}
    BY <2>2, NothingPending DEF CheckedInv, OwnPayload
  <2>5. AllPassed(new) => Checked(i, staged[i])
    BY <2>4 DEF AllPassed, Evaluate, Status, Checked
  <2>6. pc'[i] = "promote" => Checked(i, Written(i))'
    BY <2>1, <2>2, <2>4, <2>5 DEF Checked, Written
  <2>7. OwnPayload(i)'
    BY <2>1, <2>2, <2>4, <2>6 DEF OwnPayload, Written, Ref, storeVars, CheckedInv
  <2> QED BY <2>1, <2>3, <2>7, InsideChecked DEF storeVars
<1>7. CASE Promote(i)
  <2>1. CASE AllPassed(report[i])
    <3>1. OthersUntouched(i)
      BY <1>7, <2>1 DEF Promote, storeVars, OwnPayload, OthersUntouched, CheckedInv, TypeInv, TypeOK, RunTypeOK, StoreTypeOK, Go
    <3>2. OwnPayload(i)'
      BY <1>7, <2>1, NothingPending DEF Promote, Written, Checked, Ref, storeVars, OwnPayload, OthersUntouched, CheckedInv, TypeInv, TypeOK, RunTypeOK, StoreTypeOK, Go
    <3> QED BY <1>7, <2>1, <3>1, <3>2, InsideChecked DEF Promote, storeVars
  <2>2. CASE ~AllPassed(report[i])
    BY <1>7, <2>2, FailChecked DEF Promote, storeVars
  <2> QED BY <2>1, <2>2
<1>8. CASE LockStaged(i)
  <2>1. OthersUntouched(i)
    BY <1>8 DEF LockStaged, storeVars, OwnPayload, OthersUntouched, CheckedInv, TypeInv, TypeOK, RunTypeOK, StoreTypeOK, Go
  <2>2. OwnPayload(i)'
    BY <1>8, NothingPending DEF LockStaged, Written, Checked, Ref, storeVars, OwnPayload, OthersUntouched, CheckedInv, TypeInv, TypeOK, RunTypeOK, StoreTypeOK, Go
  <2> QED BY <1>8, <2>1, <2>2, InsideChecked DEF LockStaged, storeVars
<1>9. CASE InsertPublished(i)
  <2>1. OthersUntouched(i)
    BY <1>9 DEF InsertPublished, runVars, OwnPayload, OthersUntouched, CheckedInv, TypeInv, TypeOK, RunTypeOK, StoreTypeOK, Go
  <2>2. Jsonb[payload[i]] = Written(i) /\ pc[i] = "insertPublished"
    BY <1>9 DEF InsertPublished, CheckedInv, OwnPayload, TypeInv, ReadsAreDone, Go
  <2>3. pending'[i].published = {NewPublishedRow(i)}
    BY <1>9 DEF InsertPublished, CheckedInv, TypeInv, TypeOK, StoreTypeOK, Transactions
  <2>4. OwnPayload(i)'
    BY <1>9, <2>2, <2>3
       DEF InsertPublished, NewPublishedRow, Written, Checked, Ref, runVars, OwnPayload, OthersUntouched, CheckedInv, TypeInv, TypeOK, RunTypeOK, StoreTypeOK, Go
  <2> QED BY <1>9, <2>1, <2>4, InsideChecked DEF InsertPublished
<1>10. CASE AuditPublished(i)
  <2>1. OthersUntouched(i)
    BY <1>10 DEF AuditPublished, runVars, OwnPayload, OthersUntouched, CheckedInv, TypeInv, TypeOK, RunTypeOK, StoreTypeOK, Go
  <2>2. pending'[i].published = pending[i].published
    BY <1>10 DEF AuditPublished, CheckedInv, TypeInv, TypeOK, StoreTypeOK, Transactions
  <2>3. OwnPayload(i)'
    BY <1>10, <2>2 DEF AuditPublished, Written, Checked, Ref, runVars, OwnPayload, OthersUntouched, CheckedInv, TypeInv, TypeOK, RunTypeOK, StoreTypeOK, Go
  <2> QED BY <1>10, <2>1, <2>3, InsideChecked DEF AuditPublished
<1>11. CASE CommitPublished(i) \/ CommitRouted(i)
  BY <1>11, EndChecked DEF CommitPublished, CommitRouted, Finish
<1>12. CASE Route(i)
  <2>1. CASE ~AllPassed(report[i])
    <3>1. OthersUntouched(i)
      BY <1>12, <2>1 DEF Route, runVars, storeVars, OwnPayload, OthersUntouched, CheckedInv, TypeInv, TypeOK, RunTypeOK, StoreTypeOK, Go
    <3>2. OwnPayload(i)'
      BY <1>12, <2>1, NothingPending DEF Route, Written, Ref, runVars, storeVars, OwnPayload, OthersUntouched, CheckedInv, TypeInv, TypeOK, RunTypeOK, StoreTypeOK, Go
    <3> QED BY <1>12, <2>1, <3>1, <3>2, InsideChecked DEF Route, storeVars
  <2>2. CASE AllPassed(report[i])
    BY <1>12, <2>2, FailChecked DEF Route, storeVars
  <2> QED BY <2>1, <2>2
<1>13. CASE InsertQueue(i) \/ AuditRouted(i)
  <2>1. OthersUntouched(i)
    BY <1>13 DEF InsertQueue, AuditRouted, runVars, OwnPayload, OthersUntouched, CheckedInv, TypeInv, TypeOK, RunTypeOK, StoreTypeOK, Go
  <2>2. pending[i].published = {}
    BY <1>13, NothingPending DEF InsertQueue, AuditRouted, Go
  <2>3. pending'[i].published = {}
    BY <1>13, <2>2 DEF InsertQueue, AuditRouted, CheckedInv, TypeInv, TypeOK, StoreTypeOK,
                       Transactions
  <2>4. OwnPayload(i)'
    BY <1>13, <2>3 DEF InsertQueue, AuditRouted, Written, Ref, runVars, OwnPayload, OthersUntouched, CheckedInv, TypeInv, TypeOK, RunTypeOK, StoreTypeOK, Go
  <2> QED BY <1>13, <2>1, <2>4, InsideChecked DEF InsertQueue, AuditRouted
<1>14. CASE WriteErroredAudit(i)
  BY <1>14, EndChecked DEF WriteErroredAudit, Finish
<1> QED
  BY <1>1, <1>2, <1>3, <1>4, <1>5, <1>6, <1>7, <1>8, <1>9, <1>10, <1>11, <1>12, <1>13,
     <1>14 DEF Progress, ResolveSnapshot, ResolveCustom

LEMMA FaultChecked ==
    ASSUME CheckedInv, TypeInv', NEW i \in Invocations, Fault(i)
    PROVE  CheckedInv'
<1>1. CASE StageUnacknowledged(i)
  BY <1>1, StageUnacknowledgedChecked
<1>2. CASE LoseErroredAudit(i)
  BY <1>2, EndChecked DEF LoseErroredAudit, Finish, storeVars, Steps, Ended, Inserted
<1>3. CASE DatabaseError(i)
  BY <1>3, FailChecked DEF DatabaseError, storeVars, Ended, Inserted
<1>4. CASE TransactionError(i) \/ OtherError(i) \/ CommitUnacknowledged(i)
  <2>1. PICK step \in Steps \ Ended : Go(i, step, "raised")
    BY <1>4 DEF TransactionError, OtherError, CommitUnacknowledged, Steps, Ended,
                PublishSteps, RouteSteps
  <2> QED BY <1>4, <2>1, EndChecked
          DEF TransactionError, OtherError, CommitUnacknowledged, runVars, Ended
<1>5. CASE Crash(i)
  BY <1>5, EndChecked DEF Crash, runVars, Ended
<1> QED BY <1>1, <1>2, <1>3, <1>4, <1>5 DEF Fault

LEMMA NextChecked == CheckedInv /\ [Next]_vars => CheckedInv'
<1> SUFFICES ASSUME CheckedInv, [Next]_vars PROVE CheckedInv'
  OBVIOUS
<1>1. TypeInv'
  BY NextTypeInv DEF CheckedInv
<1>2. ASSUME NEW i \in Invocations, Begin(i) PROVE CheckedInv'
  <2>1. OthersUntouched(i)
    BY <1>2 DEF Begin, runVars, storeVars, OwnPayload, OthersUntouched, CheckedInv, TypeInv, TypeOK, RunTypeOK, StoreTypeOK, Go
  <2>2. OwnPayload(i)'
    BY <1>2, NothingPending DEF Begin, runVars, storeVars, AfterWrite, AfterRead, AfterLock,
       Passed, Inserted, PublishSteps, RouteSteps, OwnPayload, OthersUntouched, CheckedInv, TypeInv, TypeOK, RunTypeOK, StoreTypeOK, Go
  <2> QED BY <1>1, <1>2, <2>1, <2>2, InsideChecked DEF Begin, storeVars, Steps, Ended
<1>3. ASSUME NEW i \in Invocations, Misconfigured(i) PROVE CheckedInv'
  BY <1>1, <1>3, EndChecked DEF Misconfigured, runVars, storeVars, Steps, Ended, Inserted
<1>4. ASSUME NEW ref \in Refs, Cleanup(ref) PROVE CheckedInv'
  <2>1. \A i \in Invocations : staging'[Ref(i)] = staging[Ref(i)] \/ staging'[Ref(i)] = None
    BY <1>4 DEF Cleanup, CheckedInv, TypeInv, TypeOK, StoreTypeOK
  <2>2. CleanupEnabled /\ UNCHANGED <<runVars, pc, published, pending>>
    BY <1>4 DEF Cleanup
  <2>3. \A i \in Invocations : OwnPayload(i)'
    BY <2>1, <2>2 DEF CheckedInv, OwnPayload, Written, Checked, Ref, runVars
  <2>4. IdsAreSafe' /\ PublishedRowsAreFinal'
    BY <2>2 DEF CheckedInv, IdsAreSafe, PublishedRowsAreFinal, Checked, runVars
  <2> QED BY <1>1, <2>3, <2>4 DEF CheckedInv
<1>5. CASE UNCHANGED vars
  BY <1>1, <1>5 DEF vars, CheckedInv, IdsAreSafe, OwnPayload, Written, Checked, Ref,
                    PublishedRowsAreFinal
<1> QED
  BY <1>1, <1>2, <1>3, <1>4, <1>5, ProgressChecked, FaultChecked DEF Next, AllEnded

LEMMA InitChecked ==
    ASSUME ~ExplicitRunIds \/ ~CleanupEnabled
    PROVE  Init => CheckedInv
<1> SUFFICES ASSUME Init PROVE CheckedInv
  OBVIOUS
<1>1. TypeInv
  BY InitTypeInv
<1>2. IdsAreSafe
  BY DEF Init, IdsAreSafe
<1>3. \A i \in Invocations : OwnPayload(i)
  BY DEF Init, StoreInit, NoRows, OwnPayload, AfterWrite, AfterRead, AfterLock, Passed,
         PublishSteps, RouteSteps
<1>4. PublishedRowsAreFinal
  BY DEF Init, StoreInit, PublishedRowsAreFinal
<1> QED BY <1>1, <1>2, <1>3, <1>4 DEF CheckedInv

(* The payload the assertions of a run passed on is the payload in         *)
(* published.records, under every interleaving and failure, if run ids are *)
(* fresh or no clean-up job removes staged records.  Without this          *)
(* assumption it is false: see the run toctou.                             *)
THEOREM PublishedIsChecked ==
    ~ExplicitRunIds \/ ~CleanupEnabled => (Spec => []PublishedWereChecked)
<1> SUFFICES ASSUME ~ExplicitRunIds \/ ~CleanupEnabled
             PROVE  Spec => []PublishedWereChecked
  OBVIOUS
<1>1. Init => CheckedInv
  BY InitChecked
<1>2. CheckedInv => PublishedWereChecked
  BY DEF CheckedInv, PublishedRowsAreFinal, Checked, PublishedWereChecked
<1> QED BY <1>1, <1>2, NextChecked, PTL DEF Spec
===============================================================================
