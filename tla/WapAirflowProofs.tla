--------------------------- MODULE WapAirflowProofs ---------------------------
(***************************************************************************)
(* Theorems about WapAirflow, for any number of tasks and retries, either  *)
(* value of fail_on_review_route, and all faults.                          *)
(***************************************************************************)
EXTENDS WapAirflow, TLAPS

(* What is known of the current try of a task at each phase.               *)
CurrentTry(t) ==
    /\ phase[t] \in {"resolving", "running"} =>
          state[Try(t)] = "running" /\ record[Try(t)] = "nothing"
    /\ phase[t] \in {"pushing", "deciding", "success"} =>
          \/ state[Try(t)] = "published" /\ record[Try(t)] = "published"
          \/ state[Try(t)] = "routed_to_review" /\ record[Try(t)] = "queued"
          \/ state[Try(t)] = "errored" /\ record[Try(t)] = "nothing"
    /\ phase[t] \in {"deciding", "success"} /\ HasTaskInstance[t] =>
          pushed[t] = EvidenceKeys
    /\ phase[t] \in {"resolving", "running", "pushing"} => pushed[t] < EvidenceKeys
    /\ phase[t] = "success" => ~Fails(t, state[Try(t)])
    /\ phase[t] \in {"upForRetry", "failed"} <=> failure[Try(t)] # "none"
    /\ phase[t] = "upForRetry" => try[t] < MaxTries
    /\ failure[Try(t)] = "outcome" /\ HasTaskInstance[t] => pushed[t] = EvidenceKeys

(* Earlier tries failed, and later ones have not begun.                    *)
OtherTries(t) ==
    \A n \in 1 .. MaxTries :
        /\ n < try[t] => failure[<<t, n>>] # "none"
        /\ n > try[t] => /\ failure[<<t, n>>] = "none"
                         /\ state[<<t, n>>] = "running"
                         /\ record[<<t, n>>] = "nothing"

(* A try that published fails only by a loss.                              *)
PublishLost ==
    \A r \in Tries : record[r] = "published" =>
        failure[r] \in {"none", "run", "push", "killed"}

TaskInv ==
    /\ TypeOK
    /\ \A t \in Tasks : CurrentTry(t) /\ OtherTries(t)
    /\ PublishLost

USE OperatorAssumption

LEMMA TaskInit == Init => TaskInv
  BY DEF Init, TaskInv, TypeOK, CurrentTry, OtherTries, PublishLost, Try, Tries,
         Phases, FaultKinds, EvidenceKeys, Run!Init, Run!RunTypeOK, Run!States,
         Run!Records, Run!Answers, Run!Silent

(* A step of one task: the variables of the others, and of other tries,    *)
(* stay; so it is enough to look at the current try.                       *)
Others(t) ==
    /\ \A u \in Tasks : u # t =>
          phase'[u] = phase[u] /\ try'[u] = try[u] /\ pushed'[u] = pushed[u]
    /\ \A r \in Tries : r # Try(t) =>
          failure'[r] = failure[r] /\ state'[r] = state[r] /\ record'[r] = record[r]

LEMMA TaskFrame ==
  ASSUME TaskInv, TypeOK', NEW t \in Tasks, Others(t), CurrentTry(t)',
         \/ try'[t] = try[t]
         \/ try'[t] = try[t] + 1 /\ failure'[Try(t)] # "none",
         record'[Try(t)] = "published" =>
            failure'[Try(t)] \in {"none", "run", "push", "killed"}
  PROVE  TaskInv'
<1>1. \A u \in Tasks : Try(u) \in Tries
  BY DEF Try, Tries, TaskInv, TypeOK
<1>2. ASSUME NEW u \in Tasks, u # t PROVE CurrentTry(u)' /\ OtherTries(u)'
  <2>1. CurrentTry(u) /\ OtherTries(u)
    BY DEF TaskInv
  <2>2. Try(u)' = Try(u) /\ Try(u) # Try(t)
    BY <1>2 DEF Others, Try
  <2>3. failure'[Try(u)] = failure[Try(u)] /\ state'[Try(u)] = state[Try(u)]
        /\ record'[Try(u)] = record[Try(u)]
    BY <1>1, <2>2 DEF Others
  <2>4. phase'[u] = phase[u] /\ try'[u] = try[u] /\ pushed'[u] = pushed[u]
    BY <1>2 DEF Others
  <2>5. CurrentTry(u)'
    BY <2>1, <2>2, <2>3, <2>4 DEF CurrentTry, Fails
  <2>6. \A n \in 1 .. MaxTries : <<u, n>> \in Tries /\ <<u, n>> # Try(t)
    BY <1>2 DEF Tries, Try
  <2>7. OtherTries(u)'
    BY <2>1, <2>4, <2>6 DEF OtherTries, Others
  <2>8. QED
    BY <2>5, <2>7
<1>3. OtherTries(t)'
  <2>1. OtherTries(t) /\ try[t] \in 1 .. MaxTries /\ try'[t] \in 1 .. MaxTries
    BY DEF TaskInv, TypeOK
  <2>2. \A n \in 1 .. MaxTries : <<t, n>> \in Tries
    BY DEF Tries
  <2>3. \A n \in 1 .. MaxTries : n # try[t] =>
          /\ failure'[<<t, n>>] = failure[<<t, n>>]
          /\ state'[<<t, n>>] = state[<<t, n>>]
          /\ record'[<<t, n>>] = record[<<t, n>>]
    BY <2>2 DEF Others, Try
  <2>4. CASE try'[t] = try[t]
    BY <2>1, <2>3, <2>4 DEF OtherTries
  <2>5. CASE try'[t] = try[t] + 1 /\ failure'[<<t, try[t]>>] # "none"
    BY <2>1, <2>3, <2>5 DEF OtherTries
  <2>6. QED
    BY <2>4, <2>5 DEF Try
<1>4. PublishLost'
  BY DEF PublishLost, Others, TaskInv
<1>5. QED
  BY <1>2, <1>3, <1>4 DEF TaskInv

LEMMA TryIsTry == ASSUME TaskInv, NEW t \in Tasks PROVE Try(t) \in Tries
  BY DEF TaskInv, TypeOK, Try, Tries

(* The steps that leave the run alone.                                     *)
LEMMA QuietStep ==
  ASSUME TaskInv, NEW t \in Tasks,
         \/ Resolve(t) \/ PushKey(t) \/ SkipPush(t) \/ ReturnSummary(t)
  PROVE  TaskInv'
<1> USE TryIsTry DEF Go, Try
<1>1. TypeOK' /\ Others(t) /\ try'[t] = try[t] /\ UNCHANGED <<failure, state, record>>
  BY DEF TaskInv, TypeOK, Others, Resolve, PushKey, SkipPush, ReturnSummary,
         Phases, EvidenceKeys, CurrentTry, Run!RunTypeOK
<1>2. CurrentTry(t)'
  BY DEF TaskInv, TypeOK, CurrentTry, Resolve, PushKey, SkipPush, ReturnSummary,
         EvidenceKeys, Fails
<1>3. QED
  BY <1>1, <1>2, TaskFrame DEF TaskInv, PublishLost

LEMMA RunStep ==
  ASSUME TaskInv, NEW t \in Tasks, RunReturns(t) PROVE TaskInv'
<1> USE TryIsTry DEF Go
<1>1. Others(t) /\ try'[t] = try[t] /\ UNCHANGED <<try, failure, pushed>>
  BY DEF RunReturns, Others, TaskInv, TypeOK, Run!Publish, Run!RouteToReview,
         Run!Refuse, Run!End, Run!RunTypeOK
<1>2. TypeOK'
  BY DEF TaskInv, TypeOK, RunReturns, Run!Publish, Run!RouteToReview, Run!Refuse,
         Run!End, Run!RunTypeOK, Run!States, Run!Answers, Run!Records, Phases
<1>3. CurrentTry(t)'
  BY DEF RunReturns, TaskInv, TypeOK, CurrentTry, Try, Run!Publish,
         Run!RouteToReview, Run!Refuse, Run!End, Run!RunTypeOK, Phases
<1>4. failure'[Try(t)] = "none"
  BY DEF RunReturns, TaskInv, CurrentTry
<1>5. QED
  BY <1>1, <1>2, <1>3, <1>4, TaskFrame

(* The ways a try fails.                                                   *)
LEMMA FailStep ==
  ASSUME TaskInv, NEW t \in Tasks, NEW why \in FaultKinds \cup {"outcome"},
         NEW from \in {"resolving", "running", "pushing", "deciding"},
         FailTry(t, from, why),
         UNCHANGED <<try, pushed>>,
         TypeOK', \A r \in Tries : r # Try(t) =>
            state'[r] = state[r] /\ record'[r] = record[r],
         why = "outcome" => from = "deciding",
         record'[Try(t)] = "published" => why \in {"run", "push", "killed"}
  PROVE  TaskInv'
<1> USE TryIsTry DEF Go
<1>1. failure' = [failure EXCEPT ![Try(t)] = why] /\ failure'[Try(t)] = why
  BY DEF FailTry, TaskInv, TypeOK
<1>2. Others(t) /\ try'[t] = try[t]
  BY <1>1 DEF FailTry, Others, TaskInv, TypeOK
<1>3. Try(t)' = Try(t)
  BY <1>2 DEF Try
<1>4. phase'[t] = IF try[t] < MaxTries THEN "upForRetry" ELSE "failed"
  BY DEF FailTry, TaskInv, TypeOK
<1>5. why # "none"
  BY DEF FaultKinds
<1>6. why = "outcome" /\ HasTaskInstance[t] => pushed'[t] = EvidenceKeys
  BY DEF FailTry, TaskInv, CurrentTry
<1>7. CurrentTry(t)'
  BY <1>1, <1>2, <1>3, <1>4, <1>5, <1>6 DEF CurrentTry
<1>8. QED
  BY <1>1, <1>2, <1>7, TaskFrame

LEMMA FailSteps ==
  ASSUME TaskInv, NEW t \in Tasks,
         \/ ResolveRaises(t) \/ RunGivesNoAnswer(t) \/ PushRaises(t)
         \/ Raise(t) \/ Killed(t)
  PROVE  TaskInv'
<1> USE TryIsTry
<1>0. ASSUME NEW from, NEW why \in FaultKinds \cup {"outcome"},
             FailTry(t, from, why), UNCHANGED <<try, pushed, state, record>>
      PROVE  TypeOK'
  BY <1>0 DEF FailTry, Go, TaskInv, TypeOK, Phases, Run!RunTypeOK
<1>1. CASE ResolveRaises(t)
  <2>1. record[Try(t)] = "nothing"
    BY <1>1 DEF ResolveRaises, FailTry, Go, TaskInv, CurrentTry
  <2>2. QED
    BY <1>0, <1>1, <2>1, FailStep DEF ResolveRaises, FaultKinds
<1>2. CASE RunGivesNoAnswer(t)
  <2>1. PICK how \in Run!Silent, left \in Run!Records : Run!End(Try(t), how, left)
    BY <1>2 DEF RunGivesNoAnswer, Run!NoAnswer
  <2>2. \A r \in Tries : r # Try(t) => state'[r] = state[r] /\ record'[r] = record[r]
    BY <2>1 DEF Run!End, TaskInv, TypeOK, Run!RunTypeOK
  <2>3. TypeOK'
    BY <1>2, <2>1 DEF RunGivesNoAnswer, FailTry, Go, TaskInv, TypeOK, Run!End,
       Run!RunTypeOK, Run!States, Phases, FaultKinds
  <2>4. QED
    BY <1>2, <2>2, <2>3, FailStep DEF RunGivesNoAnswer, FaultKinds
<1>3. CASE PushRaises(t)
  BY <1>0, <1>3, FailStep DEF PushRaises, FaultKinds
<1>4. CASE Raise(t)
  <2>1. record[Try(t)] # "published"
    BY <1>4 DEF Raise, Fails, FailTry, Go, TaskInv, CurrentTry
  <2>2. QED
    BY <1>0, <1>4, <2>1, FailStep DEF Raise
<1>5. CASE Killed(t)
  BY <1>0, <1>5, FailStep DEF Killed, FaultKinds
<1>6. QED
  BY <1>1, <1>2, <1>3, <1>4, <1>5

LEMMA RetryStep == ASSUME TaskInv, NEW t \in Tasks, Retry(t) PROVE TaskInv'
<1> USE TryIsTry DEF Go
<1>1. try[t] < MaxTries /\ failure[Try(t)] # "none"
  BY DEF Retry, TaskInv, CurrentTry
<1>2. Others(t) /\ try'[t] = try[t] + 1 /\ phase'[t] = "resolving" /\ pushed'[t] = 0
      /\ UNCHANGED <<failure, state, record>>
  BY DEF Retry, Others, TaskInv, TypeOK
<1>3. TypeOK'
  BY <1>1 DEF Retry, TaskInv, TypeOK, Phases, EvidenceKeys, Run!RunTypeOK
<1>4. /\ Try(t)' = <<t, try[t] + 1>>
      /\ failure[<<t, try[t] + 1>>] = "none" /\ state[<<t, try[t] + 1>>] = "running"
      /\ record[<<t, try[t] + 1>>] = "nothing"
  BY <1>1, <1>2 DEF Try, TaskInv, TypeOK, OtherTries
<1>5. CurrentTry(t)'
  BY <1>2, <1>4 DEF CurrentTry, EvidenceKeys
<1>6. QED
  BY <1>1, <1>2, <1>3, <1>5, TaskFrame DEF TaskInv, PublishLost

LEMMA TaskInvariant == Spec => []TaskInv
<1>1. TaskInv /\ [Next]_vars => TaskInv'
  <2> SUFFICES ASSUME TaskInv, [Next]_vars PROVE TaskInv'
    OBVIOUS
  <2>1. ASSUME NEW t \in Tasks, TaskStep(t) PROVE TaskInv'
    BY <2>1, QuietStep, RunStep, FailSteps, RetryStep DEF TaskStep
  <2>2. CASE UNCHANGED vars
    BY <2>2 DEF vars, TaskInv, TypeOK, CurrentTry, OtherTries, PublishLost, Try,
       Run!RunTypeOK
  <2>3. QED
    BY <2>1, <2>2 DEF Next, AllEnded
<1>2. QED
  BY TaskInit, <1>1, PTL DEF Spec

(* Every variable of the tasks and of their runs has its type.             *)
THEOREM TaskTypes == Spec => []TypeOK
<1>1. TaskInv => TypeOK
  BY DEF TaskInv
<1>2. QED
  BY TaskInvariant, <1>1, PTL

(* Whoever follows a successful task finds its data published, or chose    *)
(* the soft path, and finds the whole evidence in XCom.                    *)
THEOREM SuccessTellsTheTruth == Spec => []SuccessIsTruthful
<1>1. TaskInv => SuccessIsTruthful
  BY DEF TaskInv, SuccessIsTruthful, CurrentTry, Fails
<1>2. QED
  BY TaskInvariant, <1>1, PTL

(* A try that fails for what run() returned left its whole evidence and    *)
(* published nothing.                                                      *)
THEOREM FailuresAreOnRecord == Spec => []FailedOutcomeIsOnRecord
<1>1. TaskInv => FailedOutcomeIsOnRecord
  BY TryIsTry DEF TaskInv, FailedOutcomeIsOnRecord, CurrentTry, PublishLost
<1>2. QED
  BY TaskInvariant, <1>1, PTL

(* A publish is repeated by a later try only if its own try was lost.      *)
THEOREM RepeatsOnlyAfterLoss == Spec => []OnlyLossRepeatsAPublish
<1>1. TaskInv => OnlyLossRepeatsAPublish
  <2> SUFFICES ASSUME TaskInv, NEW t \in Tasks, NEW m \in 1 .. MaxTries,
                      NEW n \in 1 .. MaxTries, m < n,
                      record[<<t, m>>] = "published", record[<<t, n>>] = "published"
               PROVE  failure[<<t, m>>] \in {"run", "push", "killed"}
    BY DEF OnlyLossRepeatsAPublish
  <2>1. n <= try[t] /\ try[t] \in 1 .. MaxTries
    BY DEF TaskInv, TypeOK, OtherTries
  <2>2. failure[<<t, m>>] # "none"
    BY <2>1 DEF TaskInv, OtherTries
  <2>3. QED
    BY <2>2 DEF TaskInv, PublishLost, Tries
<1>2. QED
  BY TaskInvariant, <1>1, PTL
===============================================================================
