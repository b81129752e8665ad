-------------------------------- MODULE WapRun --------------------------------
(***************************************************************************)
(* What a caller of ReconciliationPipeline.run() can rely on: the status   *)
(* it is told and what that run left behind for good, with none of the     *)
(* steps in between. A result tells the truth about the tables; a call     *)
(* that gave no result may have left anything.                             *)
(***************************************************************************)
CONSTANT Runs

VARIABLES
    state,  \* what the caller knows about each run
    record  \* what the run left in published.records or wap_review_queue

runVars == <<state, record>>

Answers == {"published", "routed_to_review", "errored"}
Silent  == {"raised", "crashed"}
States  == {"running"} \cup Answers \cup Silent
Records == {"nothing", "published", "queued"}

RunTypeOK ==
    /\ state \in [Runs -> States]
    /\ record \in [Runs -> Records]

Init ==
    /\ state = [r \in Runs |-> "running"]
    /\ record = [r \in Runs |-> "nothing"]

End(r, how, left) ==
    /\ state[r] = "running"
    /\ state' = [state EXCEPT ![r] = how]
    /\ record' = [record EXCEPT ![r] = left]

Publish(r)       == End(r, "published", "published")
RouteToReview(r) == End(r, "routed_to_review", "queued")
Refuse(r)        == End(r, "errored", "nothing")

NoAnswer(r) == \E how \in Silent, left \in Records : End(r, how, left)

Next ==
    \E r \in Runs : Publish(r) \/ RouteToReview(r) \/ Refuse(r) \/ NoAnswer(r)

Spec == Init /\ [][Next]_runVars
===============================================================================
