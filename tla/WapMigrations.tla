---------------------------- MODULE WapMigrations ----------------------------
(***************************************************************************)
(* Runners of db/migrations/run_migrations.py against one database: each   *)
(* container start runs the files of its own deployment, in filename       *)
(* order, each in a transaction of its own that also records it.           *)
(*                                                                         *)
(* PostgreSQL is external. A statement that changes the catalog waits for  *)
(* an open transaction that makes the same change: once that one commits   *)
(* it fails, even with IF NOT EXISTS, which looks only at what was there   *)
(* before. An insert waits for an open transaction with the same key.      *)
(***************************************************************************)
EXTENDS Integers, FiniteSets

CONSTANTS
    Runners,
    Files,          \* file names, as numbers in filename order
    Deployments,    \* the sets of files a directory may hold
    SqlKind,        \* what running the SQL of a file again does
    MaxRounds,      \* bound on the starts of one runner
    Faults

(* guarded: nothing (IF NOT EXISTS); strict: it fails; repeats: it has its *)
(* effect again (an INSERT or UPDATE without a guard).                     *)
SqlKinds == {"guarded", "strict", "repeats"}

FaultKinds == {"error", "ackLost", "crash"}

ASSUME MigrationsAssumption ==
    /\ IsFiniteSet(Runners)
    /\ Files \subseteq Nat
    /\ Deployments \subseteq SUBSET Files
    /\ SqlKind \in [Files -> SqlKinds]
    /\ MaxRounds \in Nat
    /\ Faults \subseteq FaultKinds

VARIABLES
    table,      \* does wap_migrations exist?
    recorded,   \* its rows
    effects,    \* how often the SQL of a file has taken effect for good
    pc, round,
    dir,        \* migration_files
    left,       \* those the loop has still to look at
    cur,        \* the file of the loop body
    did         \* whether the open transaction changes something

vars == <<table, recorded, effects, pc, round, dir, left, cur, did>>
database == <<table, recorded, effects>>

Ended == {"done", "failed", "crashed"}
Steps == {"idle", "create", "createWaits", "created", "next", "apply",
          "applyWaits", "record", "commit"} \cup Ended

TypeOK ==
    /\ table \in BOOLEAN
    /\ recorded \subseteq Files
    /\ effects \in [Files -> Nat]
    /\ pc \in [Runners -> Steps]
    /\ round \in [Runners -> 0 .. MaxRounds]
    /\ dir \in [Runners -> SUBSET Files]
    /\ left \in [Runners -> SUBSET Files]
    /\ cur \in [Runners -> Nat]
    /\ \A r \in Runners : pc[r] \in {"apply", "applyWaits", "record", "commit"} =>
          cur[r] \in left[r]
    /\ did \in [Runners -> BOOLEAN]

Init ==
    /\ table = FALSE
    /\ recorded = {}
    /\ effects = [f \in Files |-> 0]
    /\ pc = [r \in Runners |-> "idle"]
    /\ round = [r \in Runners |-> 0]
    /\ dir = [r \in Runners |-> {}]
    /\ left = [r \in Runners |-> {}]
    /\ cur = [r \in Runners |-> 0]
    /\ did = [r \in Runners |-> FALSE]

Go(r, from, to) == pc[r] = from /\ pc' = [pc EXCEPT ![r] = to]

(* A directory that does not exist, or that holds no migrations, is left   *)
(* before any connection.                                                  *)
Start(r) ==
    /\ pc[r] \in {"idle"} \cup Ended
    /\ round[r] < MaxRounds
    /\ round' = [round EXCEPT ![r] = @ + 1]
    /\ \/ /\ pc' = [pc EXCEPT ![r] = "failed"]
          /\ UNCHANGED <<dir, left>>
       \/ \E files \in Deployments :
             /\ pc' = [pc EXCEPT ![r] = IF files = {} THEN "done" ELSE "create"]
             /\ dir' = [dir EXCEPT ![r] = files]
             /\ left' = [left EXCEPT ![r] = files]
    /\ UNCHANGED <<database, cur, did>>

-------------------------------------------------------------------------------
(* CREATE TABLE IF NOT EXISTS wap_migrations, and its commit.              *)

SomeoneCreates == \E q \in Runners : pc[q] = "created"

CreateTable(r) ==
    /\ Go(r, "create", IF table THEN "next"
                       ELSE IF SomeoneCreates THEN "createWaits" ELSE "created")
    /\ UNCHANGED <<database, round, dir, left, cur, did>>

WaitedForTable(r) ==
    /\ ~SomeoneCreates
    /\ Go(r, "createWaits", IF table THEN "failed" ELSE "created")
    /\ UNCHANGED <<database, round, dir, left, cur, did>>

CommitTable(r) ==
    /\ Go(r, "created", "next")
    /\ table' = TRUE
    /\ UNCHANGED <<recorded, effects, round, dir, left, cur, did>>

-------------------------------------------------------------------------------
(* One turn of the loop.                                                   *)

(* A mutant: the files come in the order of the directory. *)
AnyOf(files, f) == f \in files

FirstOf(files, f) == f \in files /\ \A g \in files : f <= g

(* A mutant: the continue is missing. *)
SkipFallsThrough(r) ==
    /\ Go(r, "next", "apply")
    /\ \E f \in recorded :
          /\ FirstOf(left[r], f)
          /\ left' = [left EXCEPT ![r] = @ \ {f}]
          /\ cur' = [cur EXCEPT ![r] = f]
    /\ UNCHANGED <<database, round, dir, did>>

Skip(r) ==
    /\ Go(r, "next", "next")
    /\ \E f \in recorded :
          FirstOf(left[r], f) /\ left' = [left EXCEPT ![r] = @ \ {f}]
    /\ UNCHANGED <<database, round, dir, cur, did>>

(* A mutant: the SELECT is not asked. *)
FindUnchecked(r) ==
    /\ Go(r, "next", "apply")
    /\ \E f \in left[r] :
          FirstOf(left[r], f) /\ cur' = [cur EXCEPT ![r] = f]
    /\ UNCHANGED <<database, round, dir, left, did>>

Find(r) ==
    /\ Go(r, "next", "apply")
    /\ \E f \in left[r] \ recorded :
          FirstOf(left[r], f) /\ cur' = [cur EXCEPT ![r] = f]
    /\ UNCHANGED <<database, round, dir, left, did>>

Finish(r) ==
    /\ left[r] = {}
    /\ Go(r, "next", "done")
    /\ UNCHANGED <<database, round, dir, left, cur, did>>

SomeoneApplies(f) ==
    \E q \in Runners : pc[q] \in {"record", "commit"} /\ cur[q] = f /\ did[q]

(* cur.execute(sql) *)
Apply(r) ==
    LET f == cur[r]
        again == effects[f] > 0
    IN  /\ pc[r] = "apply"
        /\ \/ /\ SqlKind[f] = "repeats"
              /\ Go(r, "apply", "record")
              /\ did' = [did EXCEPT ![r] = TRUE]
           \/ /\ SqlKind[f] # "repeats" /\ SomeoneApplies(f)
              /\ Go(r, "apply", "applyWaits")
              /\ UNCHANGED did
           \/ /\ SqlKind[f] # "repeats" /\ ~SomeoneApplies(f)
              /\ Go(r, "apply", IF again /\ SqlKind[f] = "strict" THEN "failed"
                                ELSE "record")
              /\ did' = [did EXCEPT ![r] = ~again]
        /\ UNCHANGED <<database, round, dir, left, cur>>

WaitedForApply(r) ==
    LET f == cur[r]
    IN  /\ ~SomeoneApplies(f)
        /\ Go(r, "applyWaits", IF effects[f] > 0 THEN "failed" ELSE "record")
        /\ did' = [did EXCEPT ![r] = TRUE]
        /\ UNCHANGED <<database, round, dir, left, cur>>

(* INSERT ... ON CONFLICT (filename) DO NOTHING *)
RecordApplied(r) ==
    /\ cur[r] \in recorded \/ \A q \in Runners : pc[q] = "commit" => cur[q] # cur[r]
    /\ Go(r, "record", "commit")
    /\ UNCHANGED <<database, round, dir, left, cur, did>>

TakeEffect(r) ==
    effects' = [effects EXCEPT ![cur[r]] = IF did[r] THEN @ + 1 ELSE @]

(* A mutant: the SQL is committed before the file is recorded. *)
CommitSqlOnly(r) ==
    /\ TakeEffect(r)
    /\ UNCHANGED <<table, recorded>>

Commit(r) ==
    /\ recorded' = recorded \cup {cur[r]}
    /\ TakeEffect(r)
    /\ UNCHANGED table

CommitMigration(r) ==
    /\ Go(r, "commit", "next")
    /\ Commit(r)
    /\ left' = [left EXCEPT ![r] = @ \ {cur[r]}]
    /\ UNCHANGED <<round, dir, cur, did>>

-------------------------------------------------------------------------------
(* Failures. Whatever the transaction did is rolled back.                  *)

(* A mutant: the except clause tries the same file again. *)
MigrationRetriedOnError(r) ==
    /\ "error" \in Faults
    /\ \E step \in {"apply", "applyWaits", "record", "commit"} : Go(r, step, "next")
    /\ UNCHANGED <<database, round, dir, left, cur, did>>

DatabaseError(r) ==
    /\ "error" \in Faults
    /\ \E step \in Steps \ (Ended \cup {"idle"}) : Go(r, step, "failed")
    /\ UNCHANGED <<database, round, dir, left, cur, did>>

(* The commit took effect but raised at the client.                        *)
CommitUnacknowledged(r) ==
    /\ "ackLost" \in Faults
    /\ Go(r, "commit", "failed")
    /\ Commit(r)
    /\ UNCHANGED <<round, dir, left, cur, did>>

Crash(r) ==
    /\ "crash" \in Faults
    /\ \E step \in Steps \ (Ended \cup {"idle"}) : Go(r, step, "crashed")
    /\ UNCHANGED <<database, round, dir, left, cur, did>>

Progress(r) ==
    \/ CreateTable(r) \/ WaitedForTable(r) \/ CommitTable(r)
    \/ Skip(r) \/ Find(r) \/ Finish(r)
    \/ Apply(r) \/ WaitedForApply(r) \/ RecordApplied(r) \/ CommitMigration(r)

Fault(r) == DatabaseError(r) \/ CommitUnacknowledged(r) \/ Crash(r)

AllEnded ==
    /\ \A r \in Runners : pc[r] \in Ended
    /\ UNCHANGED vars

Next == (\E r \in Runners : Start(r) \/ Progress(r) \/ Fault(r)) \/ AllEnded

Spec == Init /\ [][Next]_vars

(* A runner is scheduled, and the database answers or lets it wait.        *)
FairSpec == Spec /\ \A r \in Runners : WF_vars(Progress(r))
-------------------------------------------------------------------------------
(* Properties.                                                             *)

(* A migration is recorded if and only if its SQL took effect, through     *)
(* errors, crashes and lost answers (run_migrations.py:26-28).             *)
RecordedIsApplied == \A f \in Files : f \in recorded <=> effects[f] > 0

(* Before a runner applies a file, all files of its directory that come    *)
(* earlier are in effect, and when it returns all of them are, whoever     *)
(* applied them (run_migrations.py:24-25).                                 *)
AppliedInOrder ==
    \A r \in Runners :
        /\ pc[r] \in {"record", "commit"} =>
              \A g \in dir[r] : g < cur[r] => effects[g] > 0
        /\ pc[r] = "done" => \A g \in dir[r] : effects[g] > 0

(* "Already-applied migrations are skipped, not re-applied"                *)
(* (run_migrations.py:22-23): no start applies again what an earlier one   *)
(* applied, whatever happened to that one. Only runners that overlap may   *)
(* each apply SQL that repeats its effect, and each of them only once.     *)
AppliedOnce ==
    \A f \in Files :
        effects[f] <= IF SqlKind[f] = "repeats" THEN Cardinality(Runners) ELSE 1

(* Every runner that starts comes to an end: waiting for another's         *)
(* transaction never becomes a deadlock.                                   *)
EveryRunnerEnds == \A r \in Runners : pc[r] = "create" ~> pc[r] \in Ended
===============================================================================
