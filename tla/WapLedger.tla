------------------------------- MODULE WapLedger -------------------------------
(***************************************************************************)
(* What the framework promises about its three durable tables, with no     *)
(* steps, locks or transactions: a run leaves at most one audit row, the   *)
(* row of a published or queued run appears together with that audit row,  *)
(* a run_id is published at most once and queued at most once, and nothing *)
(* recorded is changed afterwards (publisher.py invariants 1 to 3,         *)
(* review_queue.py, pipeline.py invariant 1).                              *)
(***************************************************************************)
EXTENDS WapReport

VARIABLES published, queue, audit

ledger == <<published, queue, audit>>

Init == published = {} /\ queue = {} /\ audit = {}

Entry(row, status, report) ==
    [by |-> row.by, key |-> row.key, run |-> row.run,
     status |-> status, report |-> report]

Unrecorded(row) == \A entry \in audit : entry.by # row.by

Publish ==
    \E row \in published' \ published, entry \in audit' \ audit :
        /\ Unrecorded(row)
        /\ \A r \in published : r.run # row.run
        /\ entry = Entry(row, "published", entry.report)
        /\ entry.report # EmptyReport /\ AllPassed(entry.report)
        /\ published' = published \cup {row}
        /\ audit' = audit \cup {entry}
        /\ UNCHANGED queue

RouteToReview ==
    \E row \in queue' \ queue, entry \in audit' \ audit :
        /\ Unrecorded(row)
        /\ \A r \in queue : r.run # row.run
        /\ entry = Entry(row, "routed_to_review", row.report)
        /\ ~AllPassed(row.report)
        /\ queue' = queue \cup {row}
        /\ audit' = audit \cup {entry}
        /\ UNCHANGED published

RecordError ==
    \E entry \in audit' \ audit :
        /\ Unrecorded(entry)
        /\ entry.status = "errored"
        /\ audit' = audit \cup {entry}
        /\ UNCHANGED <<published, queue>>

Next == Publish \/ RouteToReview \/ RecordError

Spec == Init /\ [][Next]_ledger
===============================================================================
