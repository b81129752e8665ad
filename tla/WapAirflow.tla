------------------------------ MODULE WapAirflow ------------------------------
(***************************************************************************)
(* WAPReconciliationOperator.execute() under Airflow's task retries. Each  *)
(* try of a task makes one call of run(), with a run_id of its own, and    *)
(* run() does what WapRun promises. Airflow is external: it runs the tries *)
(* of a task one after the other, starts each one with its XCom cleared,   *)
(* retries a try that raised or died while tries are left, and calls the   *)
(* task successful when execute() returns.                                 *)
(***************************************************************************)
EXTENDS Integers

CONSTANTS
    Tasks,              \* task instances
    MaxTries,           \* the task's "retries", plus one
    FailOnReviewRoute,  \* the operator argument of each task
    HasTaskInstance,    \* does its context carry "ti" or "task_instance"?
    Faults              \* what can fail around run()

FaultKinds == {"arguments", "run", "push", "killed"}

ASSUME OperatorAssumption ==
    /\ MaxTries \in Nat \ {0}
    /\ FailOnReviewRoute \in [Tasks -> BOOLEAN]
    /\ HasTaskInstance \in [Tasks -> BOOLEAN]
    /\ Faults \subseteq FaultKinds

Tries == Tasks \X (1 .. MaxTries)

VARIABLES
    phase,      \* where each task is
    try,        \* the number of its current try
    pushed,     \* how many of the five XCom keys this try has pushed
    failure,    \* why each try failed, "none" while it has not
    state, record

vars == <<phase, try, pushed, failure, state, record>>

Run == INSTANCE WapRun WITH Runs <- Tries

Phases == {"resolving", "running", "pushing", "deciding", "upForRetry",
           "success", "failed"}

(* run_id, status, staging_ref, published_ref, error: in this order.       *)
EvidenceKeys == 5

TypeOK ==
    /\ phase \in [Tasks -> Phases]
    /\ try \in [Tasks -> 1 .. MaxTries]
    /\ pushed \in [Tasks -> 0 .. EvidenceKeys]
    /\ failure \in [Tries -> FaultKinds \cup {"none", "outcome"}]
    /\ Run!RunTypeOK

Init ==
    /\ phase = [t \in Tasks |-> "resolving"]
    /\ try = [t \in Tasks |-> 1]
    /\ pushed = [t \in Tasks |-> 0]
    /\ failure = [r \in Tries |-> "none"]
    /\ Run!Init

Try(t) == <<t, try[t]>>

Go(t, from, to) == phase[t] = from /\ phase' = [phase EXCEPT ![t] = to]

(* The try is over without success; the last one fails the task.           *)
FailTry(t, from, why) ==
    /\ Go(t, from, IF try[t] < MaxTries THEN "upForRetry" ELSE "failed")
    /\ failure' = [failure EXCEPT ![Try(t)] = why]

(* The arguments are literals or callables, which may raise.               *)
Resolve(t) ==
    /\ Go(t, "resolving", "running")
    /\ UNCHANGED <<try, pushed, failure, state, record>>

ResolveRaises(t) ==
    /\ "arguments" \in Faults
    /\ FailTry(t, "resolving", "arguments")
    /\ UNCHANGED <<try, pushed, state, record>>

RunReturns(t) ==
    /\ Go(t, "running", "pushing")
    /\ \/ Run!Publish(Try(t)) \/ Run!RouteToReview(Try(t)) \/ Run!Refuse(Try(t))
    /\ UNCHANGED <<try, pushed, failure>>

(* run() raises, or the worker dies in it: _push_evidence() is skipped.    *)
RunGivesNoAnswer(t) ==
    /\ "run" \in Faults
    /\ FailTry(t, "running", "run")
    /\ Run!NoAnswer(Try(t))
    /\ UNCHANGED <<try, pushed>>

(* A mutant: one key too many. *)
PushOneMore(t) ==
    /\ HasTaskInstance[t]
    /\ Go(t, "pushing", IF pushed[t] = EvidenceKeys THEN "deciding" ELSE "pushing")
    /\ pushed' = [pushed EXCEPT ![t] = @ + 1]
    /\ UNCHANGED <<try, failure, state, record>>

PushKey(t) ==
    /\ HasTaskInstance[t]
    /\ Go(t, "pushing", IF pushed[t] + 1 = EvidenceKeys THEN "deciding" ELSE "pushing")
    /\ pushed' = [pushed EXCEPT ![t] = @ + 1]
    /\ UNCHANGED <<try, failure, state, record>>

SkipPush(t) ==
    /\ ~HasTaskInstance[t]
    /\ Go(t, "pushing", "deciding")
    /\ UNCHANGED <<try, pushed, failure, state, record>>

(* A mutant: what xcom_push() raises is caught and all is pushed again. *)
PushAgain(t) ==
    /\ "push" \in Faults /\ HasTaskInstance[t]
    /\ phase[t] = "pushing" /\ pushed[t] > 0
    /\ pushed' = [pushed EXCEPT ![t] = 0]
    /\ UNCHANGED <<phase, try, failure, state, record>>

PushRaises(t) ==
    /\ "push" \in Faults /\ HasTaskInstance[t]
    /\ FailTry(t, "pushing", "push")
    /\ UNCHANGED <<try, pushed, state, record>>

(* A mutant: anything but a review route raises WAPReconciliationError. *)
FailsUnlessRouted(t, status) ==
    status # "routed_to_review" \/ FailOnReviewRoute[t]

(* A mutant: fail_on_review_route is not looked at. *)
FailsOnError(t, status) == status = "errored"

Fails(t, status) ==
    \/ status = "errored"
    \/ status = "routed_to_review" /\ FailOnReviewRoute[t]

(* A mutant: the evidence is pushed after the two raise statements. *)
RaiseBeforePush(t) ==
    /\ Fails(t, state[Try(t)])
    /\ FailTry(t, "pushing", "outcome")
    /\ UNCHANGED <<try, pushed, state, record>>

(* WAPReconciliationError or WAPReviewRequiredException.                   *)
Raise(t) ==
    /\ Fails(t, state[Try(t)])
    /\ FailTry(t, "deciding", "outcome")
    /\ UNCHANGED <<try, pushed, state, record>>

ReturnSummary(t) ==
    /\ ~Fails(t, state[Try(t)])
    /\ Go(t, "deciding", "success")
    /\ UNCHANGED <<try, pushed, failure, state, record>>

Killed(t) ==
    /\ "killed" \in Faults
    /\ \E from \in {"resolving", "pushing", "deciding"} :
          FailTry(t, from, "killed")
    /\ UNCHANGED <<try, pushed, state, record>>

(* Both exceptions are AirflowExceptions, so each failed try is repeated.  *)
Retry(t) ==
    /\ Go(t, "upForRetry", "resolving")
    /\ try' = [try EXCEPT ![t] = @ + 1]
    /\ pushed' = [pushed EXCEPT ![t] = 0]
    /\ UNCHANGED <<failure, state, record>>

TaskStep(t) ==
    \/ Resolve(t) \/ ResolveRaises(t)
    \/ RunReturns(t) \/ RunGivesNoAnswer(t)
    \/ PushKey(t) \/ SkipPush(t) \/ PushRaises(t)
    \/ Raise(t) \/ ReturnSummary(t) \/ Killed(t) \/ Retry(t)

AllEnded ==
    /\ \A t \in Tasks : phase[t] \in {"success", "failed"}
    /\ UNCHANGED vars

Next == (\E t \in Tasks : TaskStep(t)) \/ AllEnded

Spec == Init /\ [][Next]_vars

(* The scheduler runs each try, and run() ends (WapPipeline!EveryRunEnds). *)
FairSpec == Spec /\ \A t \in Tasks : WF_vars(TaskStep(t))
-------------------------------------------------------------------------------
(* Properties.                                                             *)

(* What follows a successful task may consume: this try published, or      *)
(* fail_on_review_route is off and it left a queue entry, and XCom holds   *)
(* the whole evidence to branch on (airflow_operator.py:25-35).            *)
SuccessIsTruthful ==
    \A t \in Tasks :
        phase[t] = "success" =>
            /\ \/ record[Try(t)] = "published"
               \/ record[Try(t)] = "queued" /\ ~FailOnReviewRoute[t]
            /\ HasTaskInstance[t] => pushed[t] = EvidenceKeys

(* A try that failed for what run() returned left its whole evidence, and  *)
(* published nothing, so that repeating it repeats no publish.             *)
FailedOutcomeIsOnRecord ==
    \A t \in Tasks :
        phase[t] \in {"upForRetry", "failed"} /\ failure[Try(t)] = "outcome" =>
            /\ HasTaskInstance[t] => pushed[t] = EvidenceKeys
            /\ record[Try(t)] # "published"

(* A task publishes a second time only where the answer of run(), or the   *)
(* evidence or the worker of the try that published first, was lost.       *)
OnlyLossRepeatsAPublish ==
    \A t \in Tasks : \A m, n \in 1 .. MaxTries :
        m < n /\ record[<<t, m>>] = "published" /\ record[<<t, n>>] = "published"
            => failure[<<t, m>>] \in {"run", "push", "killed"}

(* Every task ends in success or failure, whatever its tries meet.         *)
EveryTaskEnds == \A t \in Tasks : <>(phase[t] \in {"success", "failed"})
===============================================================================
