----------------------------- MODULE WapRunProofs -----------------------------
(***************************************************************************)
(* WapPipeline implements WapRun, the contract its callers build on; and   *)
(* what joins its tables with one another and with the locals of a run:    *)
(* where a reference came from, who owns a staged record and what became   *)
(* of it, and the audit of what returned.                                  *)
(***************************************************************************)
EXTENDS WapLedgerProofs

(* The rows a step of invocation i adds for good. *)
Adds(i, left) ==
    \/ left = "nothing" /\ UNCHANGED <<published, queue>>
    \/ /\ left = "published" /\ published' = published \cup {NewPublishedRow(i)}
       /\ UNCHANGED queue
    \/ /\ left = "queued" /\ queue' = queue \cup {NewQueueRow(i)}
       /\ UNCHANGED published

Told == {<<"published", "published">>, <<"routed_to_review", "queued">>,
         <<"errored", "nothing">>}

(* A step of an invocation as its caller sees it. *)
Seen(i, left) ==
    /\ pc[i] \notin Ended
    /\ \A j \in Invocations \ {i} : pc'[j] = pc[j] /\ result'[j] = result[j]
    /\ Adds(i, left)
    /\ \/ pc'[i] \notin Ended /\ left = "nothing"
       \/ pc'[i] \in {"raised", "crashed"}
       \/ pc'[i] = "returned" /\ <<result'[i], left>> \in Told

Lefts == {"nothing", "published", "queued"}

(* Moving on, raising or crashing without a commit. *)
LEMMA QuietIsSeen ==
  ASSUME TypeOK, NEW i \in Invocations, NEW from \in Steps \ Ended,
         NEW to \in Steps \ {"returned"}, Go(i, from, to),
         UNCHANGED <<result, published, queue>>
  PROVE  Seen(i, "nothing")
<1>1. pc[i] \notin Ended /\ pc'[i] = to
  BY DEF Go, TypeOK, RunTypeOK
<1>2. \A j \in Invocations \ {i} : pc'[j] = pc[j] /\ result'[j] = result[j]
  BY DEF Go, TypeOK, RunTypeOK
<1>3. Adds(i, "nothing")
  BY DEF Adds
<1> QED BY <1>1, <1>2, <1>3 DEF Seen, Ended, Steps

LEMMA FailIsSeen ==
  ASSUME TypeOK, NEW i \in Invocations, NEW why,
         \E from \in Steps \ Ended : Fail(i, from, why),
         UNCHANGED <<published, queue>>
  PROVE  Seen(i, "nothing")
  BY QuietIsSeen DEF Fail, Steps, Ended

LEMMA EndsAsTold ==
  ASSUME TypeOK, NEW i \in Invocations, NEW from \in Steps \ Ended,
         NEW status, Finish(i, from, status), NEW left, Adds(i, left),
         <<status, left>> \in Told
  PROVE  Seen(i, left)
<1>1. /\ pc[i] \notin Ended /\ pc'[i] = "returned" /\ result'[i] = status
      /\ \A j \in Invocations \ {i} : pc'[j] = pc[j] /\ result'[j] = result[j]
  BY DEF Finish, Go, TypeOK, RunTypeOK
<1> QED BY <1>1 DEF Seen

LEMMA ProgressIsSeen ==
  ASSUME LedgerInv, NEW i \in Invocations, Progress(i)
  PROVE  \E left \in Lefts : Seen(i, left)
<1>0. TypeOK /\ OwnTransaction(i)
  BY DEF LedgerInv, TypeInv, Own
<1>1. CASE CommitPublished(i)
  <2>1. pending[i].published = {NewPublishedRow(i)} /\ pending[i].queue = {}
    BY <1>0, <1>1 DEF CommitPublished, Finish, Go, OwnTransaction, Inserted, Queued
  <2>2. Adds(i, "published")
    BY <1>1, <2>1 DEF CommitPublished, Commit, Adds
  <2> QED BY <1>0, <1>1, <2>2, EndsAsTold
          DEF CommitPublished, Steps, PublishSteps, Ended, Told, Lefts
<1>2. CASE CommitRouted(i)
  <2>1. pending[i].queue = {NewQueueRow(i)} /\ pending[i].published = {}
    BY <1>0, <1>2 DEF CommitRouted, Finish, Go, OwnTransaction, Inserted, Queued
  <2>2. Adds(i, "queued")
    BY <1>2, <2>1 DEF CommitRouted, Commit, Adds
  <2> QED BY <1>0, <1>2, <2>2, EndsAsTold
          DEF CommitRouted, Steps, RouteSteps, Ended, Told, Lefts
<1>3. CASE WriteErroredAudit(i)
  <2>1. Adds(i, "nothing")
    BY <1>3 DEF WriteErroredAudit, Adds
  <2> QED BY <1>0, <1>3, <2>1, EndsAsTold
          DEF WriteErroredAudit, Steps, Ended, Told, Lefts
<1>4. CASE \/ StageRefused(i) \/ ReadRefused(i) \/ NoSnapshot(i) \/ StagedMissing(i)
           \/ PublishRefused(i) \/ QueueRefused(i)
  <2>1. UNCHANGED <<published, queue>>
    BY <1>4 DEF StageRefused, ReadRefused, NoSnapshot, StagedMissing, PublishRefused,
       QueueRefused, Rollback, storeVars, tables
  <2>2. \E from \in Steps \ Ended, why \in Errors : Fail(i, from, why)
    BY <1>4 DEF StageRefused, ReadRefused, NoSnapshot, StagedMissing, PublishRefused,
       QueueRefused, Steps, PublishSteps, RouteSteps, Ended, Errors
  <2> QED BY <1>0, <2>1, <2>2, FailIsSeen DEF Lefts
<1>5. CASE \/ StageWrite(i) \/ ReadBack(i) \/ ResolveSnapshot(i) \/ SnapshotNotADict(i)
           \/ ResolveCustom(i) \/ RunAssertions(i) \/ LockStaged(i)
           \/ InsertPublished(i) \/ AuditPublished(i) \/ InsertQueue(i) \/ AuditRouted(i)
  <2>1. UNCHANGED <<result, published, queue>>
    BY <1>5 DEF StageWrite, ReadBack, ResolveSnapshot, Resolve, SnapshotNotADict,
       ResolveCustom, RunAssertions, LockStaged, InsertPublished, AuditPublished,
       InsertQueue, AuditRouted, storeVars, runVars
  <2>2. \E from \in Steps \ Ended, to \in Steps \ {"returned"} : Go(i, from, to)
    BY <1>5 DEF StageWrite, ReadBack, ResolveSnapshot, Resolve, SnapshotNotADict,
       ResolveCustom, RunAssertions, LockStaged, InsertPublished, AuditPublished,
       InsertQueue, AuditRouted, Steps, PublishSteps, RouteSteps, Ended
  <2> QED BY <1>0, <2>1, <2>2, QuietIsSeen DEF Lefts
<1>6. CASE Promote(i) \/ Route(i)
  <2>1. UNCHANGED <<result, published, queue>>
    BY <1>6 DEF Promote, Route, Fail, storeVars, runVars
  <2>2. \E from \in Steps \ Ended, to \in Steps \ {"returned"} : Go(i, from, to)
    BY <1>6 DEF Promote, Route, Fail, Steps, PublishSteps, RouteSteps, Ended
  <2> QED BY <1>0, <2>1, <2>2, QuietIsSeen DEF Lefts
<1> QED BY <1>1, <1>2, <1>3, <1>4, <1>5, <1>6 DEF Progress

LEMMA FaultIsSeen ==
  ASSUME LedgerInv, NEW i \in Invocations,
         Fault(i) \/ Begin(i) \/ Misconfigured(i)
  PROVE  \E left \in Lefts : Seen(i, left)
<1>0. TypeOK /\ OwnTransaction(i)
  BY DEF LedgerInv, TypeInv, Own
<1>1. CASE CommitUnacknowledged(i)
  <2>1. PICK from \in {"commitPublished", "commitRouted"} : Go(i, from, "raised")
    BY <1>1 DEF CommitUnacknowledged
  <2>2. PICK left \in Lefts : Adds(i, left)
    <3>1. CASE from = "commitPublished"
      BY <1>0, <1>1, <2>1, <3>1 DEF CommitUnacknowledged, Go, OwnTransaction, Inserted,
         Queued, Commit, Adds, Lefts
    <3>2. CASE from = "commitRouted"
      BY <1>0, <1>1, <2>1, <3>2 DEF CommitUnacknowledged, Go, OwnTransaction, Inserted,
         Queued, Commit, Adds, Lefts
    <3> QED BY <3>1, <3>2
  <2>3. /\ pc[i] \notin Ended /\ pc'[i] = "raised"
        /\ \A j \in Invocations \ {i} : pc'[j] = pc[j] /\ result'[j] = result[j]
    BY <1>0, <1>1, <2>1 DEF Go, CommitUnacknowledged, runVars, Ended, TypeOK, RunTypeOK
  <2> QED BY <2>2, <2>3 DEF Seen
<1>2. CASE LoseErroredAudit(i)
  <2>1. Adds(i, "nothing")
    BY <1>2 DEF LoseErroredAudit, Adds, storeVars
  <2> QED BY <1>0, <1>2, <2>1, EndsAsTold
          DEF LoseErroredAudit, Steps, Ended, Told, Lefts
<1>3. CASE StageUnacknowledged(i) \/ DatabaseError(i)
  <2>1. UNCHANGED <<published, queue>>
    BY <1>3 DEF StageUnacknowledged, DatabaseError, storeVars
  <2>2. \E from \in Steps \ Ended, why \in Errors : Fail(i, from, why)
    BY <1>3 DEF StageUnacknowledged, DatabaseError, Steps, Ended, Errors
  <2> QED BY <1>0, <2>1, <2>2, FailIsSeen DEF Lefts
<1>4. CASE TransactionError(i) \/ OtherError(i) \/ Crash(i)
  <2>1. UNCHANGED <<result, published, queue>>
    BY <1>4 DEF TransactionError, OtherError, Crash, Rollback, runVars, tables
  <2>2. \E from \in Steps \ Ended, to \in Steps \ {"returned"} : Go(i, from, to)
    BY <1>4 DEF TransactionError, OtherError, Crash, Steps, PublishSteps, RouteSteps, Ended
  <2> QED BY <1>0, <2>1, <2>2, QuietIsSeen DEF Lefts
<1>5. CASE Begin(i) \/ Misconfigured(i)
  <2>1. UNCHANGED <<result, published, queue>>
    BY <1>5 DEF Begin, Misconfigured, runVars, storeVars
  <2>2. \E from \in Steps \ Ended, to \in Steps \ {"returned"} : Go(i, from, to)
    BY <1>5 DEF Begin, Misconfigured, Steps, Ended
  <2> QED BY <1>0, <2>1, <2>2, QuietIsSeen DEF Lefts
<1> QED BY <1>1, <1>2, <1>3, <1>4, <1>5 DEF Fault

-------------------------------------------------------------------------------
(* The mapped variables in such a step. *)

LEMMA OthersRecord ==
  ASSUME NEW i \in Invocations, NEW left, Adds(i, left), NEW j \in Invocations \ {i}
  PROVE  Record(j)' = Record(j)
<1>1. (\E r \in published' : r.by = j) <=> (\E r \in published : r.by = j)
  BY DEF Adds, NewPublishedRow
<1>2. (\E q \in queue' : q.by = j) <=> (\E q \in queue : q.by = j)
  BY DEF Adds, NewQueueRow
<1> QED BY <1>1, <1>2 DEF Record

LEMMA OwnRecord ==
  ASSUME LedgerInv, NEW i \in Invocations, pc[i] \notin Ended,
         NEW left, Adds(i, left)
  PROVE  Record(i) = "nothing" /\ Record(i)' = left
<1>1. \A r \in published \cup queue : r.by # i
  BY NotYetRecorded DEF Recorded, Ended
<1>2. CASE left = "nothing"
  BY <1>1, <1>2 DEF Adds, Record
<1>3. CASE left = "published"
  <2>1. NewPublishedRow(i) \in published' /\ NewPublishedRow(i).by = i
    BY <1>3 DEF Adds, NewPublishedRow
  <2>2. (\E r \in published' : r.by = i) /\ ~(\E q \in queue' : q.by = i)
    BY <1>1, <1>3, <2>1 DEF Adds
  <2>3. Record(i)' = "published"
    BY <2>2 DEF Record
  <2>4. Record(i) = "nothing"
    BY <1>1 DEF Record
  <2> QED BY <1>3, <2>3, <2>4
<1>4. CASE left = "queued"
  <2>1. NewQueueRow(i) \in queue' /\ NewQueueRow(i).by = i
    BY <1>4 DEF Adds, NewQueueRow
  <2>2. UNCHANGED published
    BY <1>4 DEF Adds
  <2> QED BY <1>1, <1>4, <2>1, <2>2 DEF Record
<1> QED BY <1>2, <1>3, <1>4 DEF Adds

LEMMA SeenIsRunStep ==
  ASSUME LedgerInv, NEW i \in Invocations, NEW left \in Lefts, Seen(i, left)
  PROVE  [Run!Next]_(Run!runVars)
<1> DEFINE state  == [j \in Invocations |-> CallerState(j)]
           record == [j \in Invocations |-> Record(j)]
<1>1. \A j \in Invocations \ {i} : CallerState(j)' = CallerState(j) /\ Record(j)' = Record(j)
  BY OthersRecord DEF Seen, CallerState
<1>2. Record(i) = "nothing" /\ Record(i)' = left /\ CallerState(i) = "running"
  BY OwnRecord DEF Seen, Ended, CallerState
<1>3. CASE pc'[i] \notin Ended /\ left = "nothing"
  <2>1. CallerState(i)' = "running"
    BY <1>3 DEF CallerState, Ended
  <2>2. \A j \in Invocations : CallerState(j)' = CallerState(j) /\ Record(j)' = Record(j)
    BY <1>1, <1>2, <1>3, <2>1
  <2> QED BY <2>2 DEF Run!runVars
<1>4. ASSUME NEW how, CallerState(i)' = how PROVE Run!End(i, how, left)
  <2>1. state' = [state EXCEPT ![i] = how]
    BY <1>1, <1>4
  <2>2. record' = [record EXCEPT ![i] = left]
    BY <1>1, <1>2
  <2> QED BY <1>2, <2>1, <2>2 DEF Run!End
<1>5. CASE pc'[i] \in {"raised", "crashed"}
  <2>1. CallerState(i)' \in Run!Silent
    BY <1>5 DEF CallerState, Run!Silent
  <2> QED BY <1>4, <2>1 DEF Run!Next, Run!NoAnswer, Run!Records, Lefts
<1>6. CASE pc'[i] = "returned" /\ <<result'[i], left>> \in Told
  <2>1. CallerState(i)' = result'[i]
    BY <1>6 DEF CallerState
  <2> QED BY <1>4, <1>6, <2>1 DEF Told, Run!Next, Run!Publish, Run!RouteToReview, Run!Refuse
<1> QED BY <1>3, <1>5, <1>6 DEF Seen

LEMMA StepIsRunStep ==
  ASSUME LedgerInv, [Next]_vars PROVE [Run!Next]_(Run!runVars)
<1>1. ASSUME NEW i \in Invocations, Begin(i) \/ Misconfigured(i) \/ Progress(i) \/ Fault(i)
      PROVE  [Run!Next]_(Run!runVars)
  BY <1>1, ProgressIsSeen, FaultIsSeen, SeenIsRunStep
<1>2. CASE UNCHANGED <<pc, result, published, queue>>
  BY <1>2 DEF Run!runVars, CallerState, Record
<1>3. ASSUME NEW ref \in Refs, Cleanup(ref) PROVE UNCHANGED <<pc, result, published, queue>>
  BY <1>3 DEF Cleanup, runVars
<1> QED BY <1>1, <1>2, <1>3 DEF Next, AllEnded, vars

(* Whoever calls run() can build on WapRun: the status it is told is what  *)
(* the tables hold for good, under every interleaving and failure.         *)
THEOREM PipelineImplementsRun == Spec => RunSpec
<1>1. Init => Run!Init
  BY DEF Init, StoreInit, Run!Init, CallerState, Record
<1>2. LedgerInv /\ [Next]_vars => [Run!Next]_(Run!runVars)
  BY StepIsRunStep
<1> QED BY <1>1, <1>2, LedgerInvariant, PTL DEF Spec, RunSpec, Run!Spec

-------------------------------------------------------------------------------
(* What one step can do to the rows, the references and the staged records *)

(* Rows are never removed, and a new row is that of the commit which adds  *)
(* it.                                                                     *)
LEMMA TablesGrow ==
    ASSUME LedgerInv, [Next]_vars
    PROVE  /\ published \subseteq published' /\ queue \subseteq queue'
           /\ audit \subseteq audit'
           /\ \A r \in published' \ published : \E i \in Invocations :
                 pc[i] = "commitPublished" /\ r = NewPublishedRow(i)
           /\ \A r \in queue' \ queue : \E i \in Invocations :
                 pc[i] = "commitRouted" /\ r = NewQueueRow(i)
<1>1. CASE UNCHANGED tables
  BY <1>1 DEF tables
<1>2. CASE \E i \in Invocations : CommitStep(i)
  BY <1>2, CommitAdds
<1>3. CASE \E i \in Invocations : ErroredAudit(i)
  BY <1>3 DEF ErroredAudit
<1> QED BY <1>1, <1>2, <1>3, WhatStepsRecord

(* A reference changes only by resolve(). *)
LEMMA OnlyResolveRefers ==
    ASSUME LedgerInv, [Next]_vars
    PROVE  /\ UNCHANGED call
           /\ \/ UNCHANGED reference
              \/ \E i \in Invocations : ResolveSnapshot(i) \/ ResolveCustom(i)
<1>1. ASSUME NEW i \in Invocations, Progress(i), ~ResolveSnapshot(i), ~ResolveCustom(i)
      PROVE  UNCHANGED <<call, reference>>
  BY <1>1 DEF Progress, StageWrite, StageRefused, ReadBack, ReadRefused, SnapshotNotADict,
     NoSnapshot, RunAssertions, Promote, LockStaged, StagedMissing, InsertPublished,
     PublishRefused, AuditPublished, CommitPublished, Route, InsertQueue, QueueRefused,
     AuditRouted, CommitRouted, WriteErroredAudit, Fail, Finish, runVars
<1>2. ASSUME NEW i \in Invocations, ResolveSnapshot(i) \/ ResolveCustom(i)
      PROVE  UNCHANGED call
  BY <1>2 DEF ResolveSnapshot, ResolveCustom, Resolve
<1>3. ASSUME NEW i \in Invocations, Fault(i) \/ Begin(i) \/ Misconfigured(i)
      PROVE  UNCHANGED <<call, reference>>
  BY <1>3 DEF Fault, Begin, Misconfigured, StageUnacknowledged, LoseErroredAudit,
     DatabaseError, TransactionError, OtherError, CommitUnacknowledged, Crash, Fail,
     Finish, runVars
<1>4. ASSUME NEW ref \in Refs, Cleanup(ref) PROVE UNCHANGED <<call, reference>>
  BY <1>4 DEF Cleanup, runVars
<1> QED BY <1>1, <1>2, <1>3, <1>4 DEF Next, AllEnded, vars

(* A staged record is overwritten by nobody, and only the clean-up job     *)
(* removes one; only a run that finds its key free gets to read it back.   *)
OnlyWritersStage ==
    /\ UNCHANGED call
    /\ \A ref \in Refs : staging[ref] # None /\ ~CleanupEnabled =>
          staging'[ref] = staging[ref]
    /\ \A i \in Invocations : pc'[i] \in AfterWrite /\ pc[i] \notin AfterWrite =>
          /\ staging[Ref(i)] = None /\ staging'[Ref(i)] # None
          /\ \A j \in Invocations \ {i} : pc'[j] = pc[j]

LEMMA QuietStep ==
    ASSUME TypeOK, NEW i \in Invocations, NEW from, NEW to, Go(i, from, to),
           from \in AfterWrite \/ to \notin AfterWrite, UNCHANGED <<call, staging>>
    PROVE  OnlyWritersStage
BY DEF Go, OnlyWritersStage, TypeOK, RunTypeOK

LEMMA InsertStep ==
    ASSUME TypeOK, NEW i \in Invocations, NEW to, Go(i, "write", to), Stageable(i),
           InsertStaged(i), UNCHANGED call
    PROVE  OnlyWritersStage
<1>1. Ref(i) \in Refs /\ staging \in [Refs -> Payloads \cup {None}]
  BY RefType DEF TypeOK, StoreTypeOK
<1>2. staging[Ref(i)] = None /\ staging'[Ref(i)] # None
      /\ \A ref \in Refs : staging[ref] # None => staging'[ref] = staging[ref]
  BY <1>1, Zenon DEF Stageable, InsertStaged
<1>3. \A j \in Invocations : j # i => pc'[j] = pc[j]
  BY DEF Go, TypeOK, RunTypeOK
<1> QED BY <1>2, <1>3 DEF OnlyWritersStage

LEMMA StepStages ==
    ASSUME TypeOK, [Next]_vars
    PROVE  OnlyWritersStage
<1> USE DEF AfterWrite, AfterRead, PublishSteps, RouteSteps
<1>1. ASSUME NEW i \in Invocations, StageWrite(i) \/ StageUnacknowledged(i)
      PROVE  OnlyWritersStage
  <2>1. UNCHANGED call
    BY <1>1 DEF StageWrite, StageUnacknowledged, Fail, runVars
  <2> QED BY <1>1, <2>1, InsertStep DEF StageWrite, StageUnacknowledged, Fail
<1>2. ASSUME NEW i \in Invocations,
             \/ Begin(i) \/ Misconfigured(i) \/ StageRefused(i) \/ ReadBack(i)
             \/ ReadRefused(i) \/ ResolveSnapshot(i) \/ SnapshotNotADict(i)
             \/ NoSnapshot(i) \/ ResolveCustom(i) \/ RunAssertions(i)
      PROVE  OnlyWritersStage
  <2>1. UNCHANGED <<call, staging>>
    BY <1>2 DEF Begin, Misconfigured, StageRefused, ReadBack, ReadRefused, ResolveSnapshot,
       Resolve, SnapshotNotADict, NoSnapshot, ResolveCustom, RunAssertions, Fail, runVars,
       storeVars
  <2>2. \E from \in Steps, to \in Steps :
           Go(i, from, to) /\ (from \in AfterWrite \/ to \notin AfterWrite)
    BY <1>2 DEF Begin, Misconfigured, StageRefused, ReadBack, ReadRefused, ResolveSnapshot,
       Resolve, SnapshotNotADict, NoSnapshot, ResolveCustom, RunAssertions, Fail, Steps,
       Ended
  <2> QED BY <2>1, <2>2, QuietStep
<1>3. ASSUME NEW i \in Invocations,
             \/ Promote(i) \/ LockStaged(i) \/ StagedMissing(i) \/ InsertPublished(i)
             \/ PublishRefused(i) \/ AuditPublished(i) \/ CommitPublished(i) \/ Route(i)
             \/ InsertQueue(i) \/ QueueRefused(i) \/ AuditRouted(i) \/ CommitRouted(i)
             \/ WriteErroredAudit(i)
      PROVE  OnlyWritersStage
  <2>1. UNCHANGED <<call, staging>>
    BY <1>3 DEF Promote, LockStaged, StagedMissing, InsertPublished, PublishRefused,
       AuditPublished, CommitPublished, Route, InsertQueue, QueueRefused, AuditRouted,
       CommitRouted, WriteErroredAudit, Fail, Finish, runVars, storeVars
  <2>2. \E from \in Steps, to \in Steps :
           Go(i, from, to) /\ (from \in AfterWrite \/ to \notin AfterWrite)
    BY <1>3 DEF Promote, LockStaged, StagedMissing, InsertPublished, PublishRefused,
       AuditPublished, CommitPublished, Route, InsertQueue, QueueRefused, AuditRouted,
       CommitRouted, WriteErroredAudit, Fail, Finish, Steps, Ended
  <2> QED BY <2>1, <2>2, QuietStep
<1>4. ASSUME NEW i \in Invocations,
             \/ LoseErroredAudit(i) \/ DatabaseError(i) \/ TransactionError(i)
             \/ OtherError(i) \/ CommitUnacknowledged(i) \/ Crash(i)
      PROVE  OnlyWritersStage
  <2>1. UNCHANGED <<call, staging>>
    BY <1>4 DEF LoseErroredAudit, DatabaseError, TransactionError, OtherError,
       CommitUnacknowledged, Crash, Fail, Finish, runVars, storeVars
  <2>2. \E from \in Steps, to \in Steps : Go(i, from, to) /\ to \notin AfterWrite
    BY <1>4 DEF LoseErroredAudit, DatabaseError, TransactionError, OtherError,
       CommitUnacknowledged, Crash, Fail, Finish, Steps, Ended
  <2> QED BY <2>1, <2>2, QuietStep
<1>5. ASSUME NEW ref \in Refs, Cleanup(ref) PROVE OnlyWritersStage
  BY <1>5 DEF Cleanup, runVars, OnlyWritersStage
<1>6. CASE UNCHANGED vars
  BY <1>6 DEF vars, OnlyWritersStage
<1> QED BY <1>1, <1>2, <1>3, <1>4, <1>5, <1>6 DEF Next, AllEnded, Progress, Fault

-------------------------------------------------------------------------------
(* The reference.  It is taken from a row that another run has committed,  *)
(* and rows stay: the property is inductive once a run that is still       *)
(* resolving is known to own no row.                                       *)

(* A run that was compared with the published snapshot was compared with a *)
(* row another run had published for its dataset, for any number of runs,  *)
(* under every failure, whoever shares a run_id.                           *)
THEOREM ReferencesArePublished == Spec => []ReferenceWasPublished
<1>1. Init => ReferenceWasPublished
  BY DEF Init, ReferenceWasPublished
<1>2. LedgerInv /\ ReferenceWasPublished /\ [Next]_vars => ReferenceWasPublished'
  <2> SUFFICES ASSUME LedgerInv, ReferenceWasPublished, [Next]_vars,
                      NEW i \in Invocations, call'[i].source = Snapshot, reference'[i] # None
               PROVE  \E row \in published' : /\ row.key = call'[i].key /\ row.by # i
                                              /\ DictOf[row.payload] = reference'[i]
    BY DEF ReferenceWasPublished
  <2>1. UNCHANGED call /\ published \subseteq published'
    BY OnlyResolveRefers, TablesGrow
  <2>2. CASE reference'[i] = reference[i]
    BY <2>1, <2>2 DEF ReferenceWasPublished
  <2>3. CASE reference'[i] # reference[i]
    <3>1. PICK j \in Invocations : ResolveSnapshot(j) \/ ResolveCustom(j)
      BY <2>3, OnlyResolveRefers
    <3>2. reference \in [Invocations -> Payloads \cup {None}]
      BY DEF LedgerInv, TypeInv, TypeOK, RunTypeOK
    <3>3. j = i
      BY <2>3, <3>1, <3>2 DEF ResolveSnapshot, ResolveCustom, Resolve
    <3>4. ResolveSnapshot(i)
      BY <2>1, <3>1, <3>3 DEF ResolveCustom
    <3>5. PICK row \in Snapshots(i) : Resolve(i, DictOf[row.payload])
      BY <3>4 DEF ResolveSnapshot
    <3>6. reference'[i] = DictOf[row.payload]
      BY <3>2, <3>5 DEF Resolve
    <3>7. row \in published /\ row.key = call[i].key
      BY DEF Snapshots, LatestRows
    <3>8. pc[i] \notin Recorded
      BY <3>5 DEF Resolve, Go, Recorded
    <3>9. row.by # i
      BY <3>7, <3>8, NotYetRecorded
    <3> QED BY <2>1, <3>6, <3>7, <3>9
  <2> QED BY <2>2, <2>3
<1> QED BY <1>1, <1>2, LedgerInvariant, PTL DEF Spec

-------------------------------------------------------------------------------
(* The owner of a staged record.  A run owns its record from its write on  *)
(* until it fails, and for good if it was published or queued.  Two owners *)
(* of one record there are never: either no two runs share a run_id, or    *)
(* the record of the first stays and refuses the second.                   *)

Owns(i) ==
    \/ pc[i] \in AfterWrite
    \/ \E row \in published \cup queue : row.by = i

RowsNameTheirRun ==
    \A row \in published \cup queue : row.by \in Invocations /\ <<row.key, row.run>> = Ref(row.by)

OwnersAreStaged ==
    ~CleanupEnabled => \A i \in Invocations : Owns(i) => staging[Ref(i)] # None

OneOwner ==
    \A i, j \in Invocations : Ref(i) = Ref(j) /\ Owns(i) /\ Owns(j) => i = j

OwnerInv == RowsNameTheirRun /\ OwnersAreStaged /\ OneOwner

(* Nobody comes to own a record but the writer that found its key free. *)
LEMMA OwnersStep ==
    ASSUME LedgerInv, [Next]_vars, NEW i \in Invocations, Owns(i)'
    PROVE  Owns(i) \/ (pc'[i] \in AfterWrite /\ pc[i] \notin AfterWrite)
<1>1. CASE pc'[i] \in AfterWrite
  BY <1>1 DEF Owns
<1>2. ASSUME NEW row \in published' \cup queue', row.by = i
      PROVE  Owns(i)
  <2>1. CASE row \in published \cup queue
    BY <1>2, <2>1 DEF Owns
  <2>2. CASE row \notin published \cup queue
    <3>1. \E j \in Invocations : pc[j] \in {"commitPublished", "commitRouted"} /\ row.by = j
      BY <2>2, TablesGrow DEF NewPublishedRow, NewQueueRow
    <3> QED BY <1>2, <3>1 DEF Owns, AfterWrite, AfterRead, PublishSteps, RouteSteps
  <2> QED BY <2>1, <2>2
<1> QED BY <1>1, <1>2 DEF Owns

LEMMA NextOwner ==
    ASSUME LedgerInv, IdsAreSafe, OwnerInv, [Next]_vars
    PROVE  OwnerInv'
<1>0. TypeOK /\ OnlyWritersStage /\ UNCHANGED call
  BY StepStages DEF LedgerInv, TypeInv, OnlyWritersStage
<1>1. \A i \in Invocations : Ref(i)' = Ref(i) /\ Ref(i) \in Refs
  BY <1>0, RefType DEF Ref
<1>2. RowsNameTheirRun'
  <2> SUFFICES ASSUME NEW row \in published' \cup queue'
               PROVE  row.by \in Invocations /\ <<row.key, row.run>> = Ref(row.by)'
    BY DEF RowsNameTheirRun
  <2>1. CASE row \in published \cup queue
    BY <1>1, <2>1 DEF OwnerInv, RowsNameTheirRun
  <2>2. CASE row \notin published \cup queue
    <3>1. \E i \in Invocations : row.by = i /\ row.key = call[i].key /\ row.run = call[i].run
      BY <2>2, TablesGrow DEF NewPublishedRow, NewQueueRow
    <3> QED BY <1>1, <3>1 DEF Ref
  <2> QED BY <2>1, <2>2
<1>3. OwnersAreStaged'
  <2> SUFFICES ASSUME ~CleanupEnabled, NEW i \in Invocations, Owns(i)'
               PROVE  staging'[Ref(i)] # None
    BY <1>1 DEF OwnersAreStaged
  <2>1. CASE Owns(i)
    BY <1>0, <1>1, <2>1 DEF OwnerInv, OwnersAreStaged, OnlyWritersStage
  <2>2. CASE ~Owns(i)
    BY <1>0, <2>2, OwnersStep DEF OnlyWritersStage
  <2> QED BY <2>1, <2>2
<1>4. OneOwner'
  <2> SUFFICES ASSUME NEW i \in Invocations, NEW j \in Invocations, i # j,
                      Ref(i) = Ref(j), Owns(i)', Owns(j)'
               PROVE  FALSE
    BY <1>1 DEF OneOwner
  <2>1. ~CleanupEnabled
    BY DEF IdsAreSafe, Ref
  <2>2. ASSUME NEW k \in Invocations, NEW l \in Invocations, k # l, Ref(k) = Ref(l),
               ~Owns(k), Owns(k)', Owns(l)'
        PROVE  FALSE
    <3>1. /\ staging[Ref(k)] = None
          /\ \A m \in Invocations \ {k} : pc'[m] = pc[m]
      BY <1>0, <2>2, OwnersStep DEF OnlyWritersStage
    <3>2. Owns(l)
      BY <2>2, <3>1, OwnersStep
    <3> QED BY <2>1, <2>2, <3>1, <3>2 DEF OwnerInv, OwnersAreStaged
  <2>3. Owns(i) /\ Owns(j)
    BY <2>2
  <2> QED BY <2>3 DEF OwnerInv, OneOwner
<1> QED BY <1>2, <1>3, <1>4 DEF OwnerInv

LEMMA InitOwner == Init => OwnerInv
<1> SUFFICES ASSUME Init PROVE OwnerInv
  OBVIOUS
<1>1. published \cup queue = {} /\ \A i \in Invocations : pc[i] = "begin"
  BY DEF Init, StoreInit
<1>2. \A i \in Invocations : ~Owns(i)
  BY <1>1 DEF Owns, AfterWrite, AfterRead, PublishSteps, RouteSteps
<1> QED BY <1>1, <1>2 DEF OwnerInv, RowsNameTheirRun, OwnersAreStaged, OneOwner

LEMMA OwnerInvariant ==
    ASSUME ~ExplicitRunIds \/ ~CleanupEnabled
    PROVE  Spec => [](CheckedInv /\ LedgerInv /\ OwnerInv)
<1>1. Init => CheckedInv /\ OwnerInv
  BY InitChecked, InitOwner
<1>2. CheckedInv /\ LedgerInv /\ OwnerInv /\ [Next]_vars => OwnerInv'
  BY NextOwner DEF CheckedInv
<1> QED BY <1>1, <1>2, NextChecked, LedgerInvariant, PTL DEF Spec

(* One staged record is never both published and waiting for review, if    *)
(* run ids are fresh or no clean-up job runs.                              *)
THEOREM OneFate ==
    ~ExplicitRunIds \/ ~CleanupEnabled => (Spec => []RefHasOneFate)
<1> SUFFICES ASSUME ~ExplicitRunIds \/ ~CleanupEnabled PROVE Spec => []RefHasOneFate
  OBVIOUS
<1>1. LedgerInv /\ OwnerInv => RefHasOneFate
  <2> SUFFICES ASSUME LedgerInv, OwnerInv, NEW p \in published, NEW q \in queue,
                      <<p.key, p.run>> = <<q.key, q.run>>
               PROVE  FALSE
    BY DEF RefHasOneFate
  <2>1. p.by = q.by /\ p.by \in Invocations
    BY DEF OwnerInv, RowsNameTheirRun, OneOwner, Owns
  <2>2. /\ EntryOf(p, "published") \in audit
        /\ EntryOf(q, "routed_to_review") \in audit
    BY DEF LedgerInv, PublishedRecorded, QueueRecorded
  <2>3. EntryOf(p, "published") = EntryOf(q, "routed_to_review")
    BY <2>1, <2>2 DEF LedgerInv, OneAuditRowPerRun, EntryOf
  <2> QED BY <2>3 DEF EntryOf
<1> QED BY <1>1, OwnerInvariant, PTL

-------------------------------------------------------------------------------
(* Replaying.  The row is the payload its run wrote, and the staged record *)
(* of that run, which is never overwritten, still holds it.                *)

(* Where no clean-up job removes staged records, staging holds, under the  *)
(* run of every published row, the payload that was promoted.              *)
THEOREM StagingIsReplayable ==
    ~CleanupEnabled => (Spec => []StagingReplays)
<1> SUFFICES ASSUME ~CleanupEnabled PROVE Spec => []StagingReplays
  OBVIOUS
<1>1. Init => StagingReplays
  BY DEF Init, StoreInit, StagingReplays
<1>2. CheckedInv /\ LedgerInv /\ OwnerInv /\ StagingReplays /\ [Next]_vars => StagingReplays'
  <2> SUFFICES ASSUME CheckedInv, LedgerInv, OwnerInv, StagingReplays, [Next]_vars,
                      NEW row \in published'
               PROVE  staging'[<<row.key, row.run>>] = row.payload
    BY DEF StagingReplays
  <2>0. TypeOK /\ OnlyWritersStage
    BY StepStages DEF LedgerInv, TypeInv
  <2>1. ASSUME <<row.key, row.run>> \in Refs, row.payload # None,
               staging[<<row.key, row.run>>] = row.payload
        PROVE  staging'[<<row.key, row.run>>] = row.payload
    BY <2>0, <2>1 DEF OnlyWritersStage
  <2>2. CASE row \in published
    <3>1. row \in PublishedRow
      BY <2>0, <2>2 DEF TypeOK, StoreTypeOK
    <3> QED BY <2>1, <2>2, <3>1, NoneAssumption DEF PublishedRow, Refs, StagingReplays
  <2>3. CASE row \notin published
    <3>1. PICK i \in Invocations : pc[i] = "commitPublished" /\ row = NewPublishedRow(i)
      BY <2>3, TablesGrow
    <3>2. OwnPayload(i) /\ Own(i)
      BY DEF CheckedInv, LedgerInv
    <3>3. row \in pending[i].published
      BY <3>1, <3>2 DEF Own, OwnTransaction, Inserted
    <3>4. row.payload = Written(i) /\ Written(i) # None /\ staging[Ref(i)] = Written(i)
      BY <3>1, <3>2, <3>3 DEF OwnPayload, AfterWrite, AfterRead, PublishSteps
    <3>5. <<row.key, row.run>> = Ref(i) /\ Ref(i) \in Refs
      BY <2>0, <3>1, RefType DEF NewPublishedRow, Ref
    <3> QED BY <2>1, <3>4, <3>5
  <2> QED BY <2>2, <2>3
<1> QED BY <1>1, <1>2, OwnerInvariant, PTL DEF Spec

-------------------------------------------------------------------------------
(* The audit of what returned.  A published or queued run has its audit    *)
(* row from its commit; what is left are the errored ones.                 *)

ReturnsAreOver ==
    \A i \in Invocations : pc[i] = "returned" =>
        /\ result[i] \in RunStatuses
        /\ result[i] = "errored" => \E a \in audit : a.by = i /\ a.status = "errored"

(* A step that lets an invocation return is one of three. *)
LEMMA WhoReturns ==
    ASSUME LedgerInv, "auditLost" \notin Faults, [Next]_vars,
           NEW i \in Invocations, pc'[i] = "returned"
    PROVE  \/ pc[i] = "returned" /\ result'[i] = result[i]
           \/ CommitPublished(i) \/ CommitRouted(i) \/ WriteErroredAudit(i)
<1>0. TypeOK
  BY DEF LedgerInv, TypeInv
<1>1. ASSUME NEW j \in Invocations \ {i},
             Begin(j) \/ Misconfigured(j) \/ Progress(j) \/ Fault(j)
      PROVE  pc[i] = "returned" /\ result'[i] = result[i]
  BY <1>1, ProgressIsSeen, FaultIsSeen DEF Seen
<1>2. ASSUME Progress(i),
             ~CommitPublished(i), ~CommitRouted(i), ~WriteErroredAudit(i)
      PROVE  FALSE
  <2>1. PICK from \in Steps, to \in Steps \ {"returned"} : Go(i, from, to)
    BY <1>2 DEF Progress, StageWrite, StageRefused, ReadBack, ReadRefused, ResolveSnapshot,
       Resolve, SnapshotNotADict, NoSnapshot, ResolveCustom, RunAssertions, Promote,
       LockStaged, StagedMissing, InsertPublished, PublishRefused, AuditPublished, Route,
       InsertQueue, QueueRefused, AuditRouted, Fail, Steps, PublishSteps, RouteSteps, Ended
  <2> QED BY <1>0, <2>1 DEF Go, TypeOK, RunTypeOK
<1>3. ASSUME Begin(i) \/ Misconfigured(i) \/ Fault(i)
      PROVE  FALSE
  <2>1. PICK from \in Steps, to \in Steps \ {"returned"} : Go(i, from, to)
    BY <1>3 DEF Begin, Misconfigured, Fault, StageUnacknowledged, LoseErroredAudit,
       DatabaseError, TransactionError, OtherError, CommitUnacknowledged, Crash, Fail,
       Steps, PublishSteps, RouteSteps, Ended
  <2> QED BY <1>0, <2>1 DEF Go, TypeOK, RunTypeOK
<1>4. CASE UNCHANGED <<pc, result>>
  BY <1>4
<1>5. ASSUME NEW ref \in Refs, Cleanup(ref) PROVE UNCHANGED <<pc, result>>
  BY <1>5 DEF Cleanup, runVars
<1> QED BY <1>1, <1>2, <1>3, <1>4, <1>5 DEF Next, AllEnded, vars

(* Whatever fails but the audit insert of _errored(), errors of the        *)
(* database in every other step included: an invocation that returned has  *)
(* an audit row with the status it returned.                               *)
THEOREM ReturnsAreAudited ==
    "auditLost" \notin Faults => (Spec => []EveryReturnIsAudited)
<1> SUFFICES ASSUME "auditLost" \notin Faults
             PROVE  Spec => []EveryReturnIsAudited
  OBVIOUS
<1>1. Init => ReturnsAreOver
  BY DEF Init, ReturnsAreOver
<1>2. LedgerInv /\ ReturnsAreOver /\ [Next]_vars => ReturnsAreOver'
  <2> SUFFICES ASSUME LedgerInv, ReturnsAreOver, [Next]_vars,
                      NEW i \in Invocations, pc'[i] = "returned"
               PROVE  /\ result'[i] \in RunStatuses
                      /\ result'[i] = "errored" =>
                            \E a \in audit' : a.by = i /\ a.status = "errored"
    BY DEF ReturnsAreOver
  <2>0. result \in [Invocations -> RunStatuses \cup {None}]
    BY DEF LedgerInv, TypeInv, TypeOK, RunTypeOK
  <2>1. CASE pc[i] = "returned" /\ result'[i] = result[i]
    BY <2>1, TablesGrow DEF ReturnsAreOver
  <2>2. CASE CommitPublished(i) \/ CommitRouted(i)
    <3>1. result'[i] \in {"published", "routed_to_review"}
      BY <2>0, <2>2 DEF CommitPublished, CommitRouted, Finish
    <3> QED BY <3>1 DEF RunStatuses
  <2>3. CASE WriteErroredAudit(i)
    <3>1. result'[i] = "errored" /\ NewAuditRow(i, "errored") \in audit'
      BY <2>0, <2>3 DEF WriteErroredAudit, Finish
    <3> QED BY <3>1 DEF RunStatuses, NewAuditRow
  <2> QED BY <2>1, <2>2, <2>3, WhoReturns
<1>3. LedgerInv /\ ReturnsAreOver => EveryReturnIsAudited
  <2> SUFFICES ASSUME LedgerInv, ReturnsAreOver, NEW i \in Invocations, pc[i] = "returned"
               PROVE  \E a \in audit : a.by = i /\ a.status = result[i]
    BY DEF EveryReturnIsAudited
  <2>1. CASE result[i] = "published"
    <3>1. PICK r \in published : r.by = i
      BY <2>1 DEF LedgerInv, Own, OwnResult
    <3>2. EntryOf(r, "published") \in audit
      BY DEF LedgerInv, PublishedRecorded
    <3> QED BY <2>1, <3>1, <3>2 DEF EntryOf
  <2>2. CASE result[i] = "routed_to_review"
    <3>1. PICK q \in queue : q.by = i
      BY <2>2 DEF LedgerInv, Own, OwnResult
    <3>2. EntryOf(q, "routed_to_review") \in audit
      BY DEF LedgerInv, QueueRecorded
    <3> QED BY <2>2, <3>1, <3>2 DEF EntryOf
  <2>3. CASE result[i] = "errored"
    BY <2>3 DEF ReturnsAreOver
  <2> QED BY <2>1, <2>2, <2>3 DEF ReturnsAreOver, RunStatuses
<1> QED BY <1>1, <1>2, <1>3, LedgerInvariant, PTL DEF Spec
===============================================================================
