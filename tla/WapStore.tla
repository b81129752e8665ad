------------------------------- MODULE WapStore -------------------------------
(***************************************************************************)
(* The four tables of db/migrations/001 and 002 and the transactions that  *)
(* write them.  What PostgreSQL itself does (READ COMMITTED visibility,    *)
(* unique indexes, commit and rollback) is external: it is modelled as far *)
(* as core/publisher.py and core/review_queue.py rely on it.               *)
(*                                                                         *)
(* Rows carry a ghost field "by", the invocation that inserted them, so    *)
(* that properties can tell two runs with the same run_id apart.  BIGSERIAL*)
(* ids and the other timestamps are left out.                              *)
(***************************************************************************)
EXTENDS WapReport

CONSTANTS
    Invocations,    \* the calls of ReconciliationPipeline.run()
    Keys,           \* dataset keys
    RunIds,         \* run ids
    Payloads,       \* payloads: what callers pass and what the columns hold
    None            \* no row, no value

VARIABLES
    staging,    \* staging.records, by staging_ref
    published,  \* published.records
    queue,      \* wap_review_queue
    audit,      \* wap_audit_log
    pending     \* rows an open transaction inserted and has not committed

storeVars == <<staging, published, queue, audit, pending>>
tables    == <<published, queue, audit>>

(* staging://{dataset_key}/{run_id}, injective: neither part holds a "/". *)
Refs == Keys \X RunIds

RunStatuses == {"published", "routed_to_review", "errored"}

ASSUME NoneAssumption == None \notin Payloads \cup RunStatuses

PublishedRow == [by : Invocations, key : Keys, run : RunIds,
                 payload : Payloads, at : Nat]
QueueRow     == [by : Invocations, key : Keys, run : RunIds,
                 severity : Severities, report : Reports]
AuditRow     == [by : Invocations, key : Keys, run : RunIds,
                 status : RunStatuses, report : Reports]

Transactions == [published : SUBSET PublishedRow,
                 queue     : SUBSET QueueRow,
                 audit     : SUBSET AuditRow]

NoRows == [published |-> {}, queue |-> {}, audit |-> {}]

StoreTypeOK ==
    /\ staging \in [Refs -> Payloads \cup {None}]
    /\ published \in SUBSET PublishedRow
    /\ queue \in SUBSET QueueRow
    /\ audit \in SUBSET AuditRow
    /\ pending \in [Invocations -> Transactions]

StoreInit ==
    /\ staging = [ref \in Refs |-> None]
    /\ published = {}
    /\ queue = {}
    /\ audit = {}
    /\ pending = [i \in Invocations |-> NoRows]

(* uq_published_records_run is on run_id alone. A second insert of the     *)
(* run_id of an open transaction waits for that transaction to end.        *)
AlreadyPublished(run)   == \E r \in published : r.run = run
PublishPending(i, run)  == \E j \in Invocations \ {i} :
                               \E r \in pending[j].published : r.run = run

(* wap_review_queue.run_id is UNIQUE as well. *)
AlreadyQueued(run)      == \E r \in queue : r.run = run
QueuePending(i, run)    == \E j \in Invocations \ {i} :
                               \E r \in pending[j].queue : r.run = run

(* published.latest_by_dataset: DISTINCT ON keeps any one of the rows that *)
(* tie for the newest published_at.                                        *)
LatestRows(key) ==
    {r \in published : /\ r.key = key
                       /\ \A q \in published : q.key = key => q.at <= r.at}

Commit(i) ==
    /\ published' = published \cup pending[i].published
    /\ queue' = queue \cup pending[i].queue
    /\ audit' = audit \cup pending[i].audit
    /\ pending' = [pending EXCEPT ![i] = NoRows]

(* A mutant: the connection goes back to the pool with its transaction open. *)
RollbackForgotten(i) == UNCHANGED <<pending, tables>>

(* putconn() rolls back a transaction that is still open. *)
Rollback(i) ==
    /\ pending' = [pending EXCEPT ![i] = NoRows]
    /\ UNCHANGED tables
===============================================================================
