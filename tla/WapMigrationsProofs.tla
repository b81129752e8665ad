------------------------- MODULE WapMigrationsProofs -------------------------
(***************************************************************************)
(* Theorems about WapMigrations, for any number of runners and starts, any *)
(* files, deployments and kinds of SQL, and all faults.                    *)
(***************************************************************************)
EXTENDS WapMigrations, FiniteSetTheorems, TLAPS

(* What holds for one runner between its steps: the files it is through    *)
(* with are recorded, the one it is at is the first of the others, and its *)
(* open transaction, once the SQL has run, makes the file be in effect.    *)
RunnerInv(r) ==
    /\ dir[r] \ left[r] \subseteq recorded
    /\ pc[r] \in {"apply", "applyWaits", "record", "commit"} =>
          \A g \in left[r] : cur[r] <= g
    /\ pc[r] \in {"record", "commit"} => did[r] \/ effects[cur[r]] > 0
    /\ pc[r] = "done" => left[r] = {}

MigrationInv ==
    /\ TypeOK
    /\ RecordedIsApplied
    /\ \A r \in Runners : RunnerInv(r)

USE MigrationsAssumption

LEMMA MigrationInit == Init => MigrationInv
<1> SUFFICES ASSUME Init PROVE MigrationInv
  OBVIOUS
<1>1. TypeOK
  <2>1. table \in BOOLEAN /\ recorded \subseteq Files /\ effects \in [Files -> Nat]
    BY DEF Init
  <2>2. pc \in [Runners -> Steps] /\ round \in [Runners -> 0 .. MaxRounds]
    BY DEF Init, Steps
  <2>3. /\ dir \in [Runners -> SUBSET Files] /\ left \in [Runners -> SUBSET Files]
        /\ cur \in [Runners -> Nat] /\ did \in [Runners -> BOOLEAN]
    BY DEF Init
  <2>4. \A r \in Runners : pc[r] = "idle"
    BY DEF Init
  <2>. QED
    BY <2>1, <2>2, <2>3, <2>4 DEF TypeOK
<1>2. RecordedIsApplied
  BY DEF Init, RecordedIsApplied
<1>3. \A r \in Runners : RunnerInv(r)
  BY DEF Init, RunnerInv
<1>. QED
  BY <1>1, <1>2, <1>3 DEF MigrationInv

(* A step of one runner leaves the variables of the others alone, and      *)
(* neither unrecords a file nor undoes one: only its own part is at stake. *)
Others(r) ==
    /\ \A q \in Runners : q # r =>
          /\ pc'[q] = pc[q] /\ dir'[q] = dir[q] /\ left'[q] = left[q]
          /\ cur'[q] = cur[q] /\ did'[q] = did[q]
    /\ recorded \subseteq recorded'
    /\ \A f \in Files : effects[f] > 0 => effects'[f] > 0

LEMMA MigrationFrame ==
  ASSUME MigrationInv, TypeOK', RecordedIsApplied', NEW r \in Runners,
         Others(r), RunnerInv(r)'
  PROVE  MigrationInv'
<1>1. ASSUME NEW q \in Runners, q # r PROVE RunnerInv(q)'
  <2>1. RunnerInv(q) /\ TypeOK
    BY DEF MigrationInv
  <2>2. pc[q] \in {"record", "commit"} => cur[q] \in Files
    BY <2>1 DEF TypeOK
  <2>. QED
    BY <1>1, <2>1, <2>2 DEF RunnerInv, Others
<1>. QED
  BY <1>1 DEF MigrationInv

(* The steps that leave the rows and the effects alone.                    *)
LEMMA DatabaseUntouched ==
  ASSUME MigrationInv, NEW r \in Runners,
         recorded' = recorded, effects' = effects, TypeOK', RunnerInv(r)',
         \A q \in Runners : q # r =>
            /\ pc'[q] = pc[q] /\ dir'[q] = dir[q] /\ left'[q] = left[q]
            /\ cur'[q] = cur[q] /\ did'[q] = did[q]
  PROVE  MigrationInv'
<1>1. Others(r)
  BY DEF Others
<1>2. RecordedIsApplied'
  BY DEF MigrationInv, RecordedIsApplied
<1>. QED
  BY <1>1, <1>2, MigrationFrame

(* The commit of a migration, acknowledged or not.                         *)
LEMMA CommitEffect ==
  ASSUME MigrationInv, NEW r \in Runners, pc[r] = "commit", Commit(r)
  PROVE  /\ cur[r] \in left[r] /\ left[r] \subseteq Files
         /\ effects' \in [Files -> Nat]
         /\ recorded' = recorded \cup {cur[r]} /\ recorded' \subseteq Files
         /\ table' = table
         /\ \A f \in Files : effects[f] > 0 => effects'[f] > 0
         /\ RecordedIsApplied'
<1>1. TypeOK /\ RecordedIsApplied /\ RunnerInv(r)
  BY DEF MigrationInv
<1>2. cur[r] \in left[r] /\ left[r] \subseteq Files
  BY <1>1 DEF TypeOK
<1>3. effects' = [effects EXCEPT ![cur[r]] = IF did[r] THEN @ + 1 ELSE @]
      /\ recorded' = recorded \cup {cur[r]} /\ table' = table
  BY DEF Commit, TakeEffect
<1>4. did[r] \/ effects[cur[r]] > 0
  BY <1>1 DEF RunnerInv
<1>5. effects' \in [Files -> Nat] /\ recorded' \subseteq Files
  <2>1. effects \in [Files -> Nat] /\ recorded \subseteq Files /\ cur[r] \in Files
    BY <1>1, <1>2 DEF TypeOK
  <2>2. (IF did[r] THEN effects[cur[r]] + 1 ELSE effects[cur[r]]) \in Nat
    <3>1. effects[cur[r]] \in Nat
      BY <2>1, Zenon
    <3>2. effects[cur[r]] + 1 \in Nat
      BY <3>1
    <3>. QED
      BY <3>1, <3>2, Zenon
  <2>. QED
    BY <1>3, <2>1, <2>2
<1>6. effects'[cur[r]] > 0
  BY <1>1, <1>2, <1>3, <1>4 DEF TypeOK
<1>7. \A f \in Files : f # cur[r] => effects'[f] = effects[f]
  BY <1>1, <1>3 DEF TypeOK
<1>8. RecordedIsApplied'
  BY <1>1, <1>3, <1>6, <1>7 DEF RecordedIsApplied
<1>. QED
  BY <1>2, <1>3, <1>5, <1>6, <1>7, <1>8

LEMMA MigrationStep == MigrationInv /\ [Next]_vars => MigrationInv'
<1> SUFFICES ASSUME MigrationInv, [Next]_vars PROVE MigrationInv'
  OBVIOUS
<1>0. TypeOK /\ RecordedIsApplied /\ \A q \in Runners : RunnerInv(q)
  BY DEF MigrationInv
<1>1. CASE vars' = vars
  BY <1>0, <1>1 DEF MigrationInv, TypeOK, RecordedIsApplied, RunnerInv, vars
<1>2. CASE AllEnded
  BY <1>0, <1>2 DEF AllEnded, MigrationInv, TypeOK, RecordedIsApplied,
                    RunnerInv, vars
<1>3. ASSUME NEW r \in Runners, Start(r) PROVE MigrationInv'
  <2>1. TypeOK'
    <3>1. /\ round[r] + 1 \in 0 .. MaxRounds
          /\ round' = [round EXCEPT ![r] = round[r] + 1]
      BY <1>0, <1>3 DEF Start, TypeOK
    <3>2. \E step \in {"failed", "done", "create"} : pc' = [pc EXCEPT ![r] = step]
      BY <1>3 DEF Start
    <3>3. dir' \in [Runners -> SUBSET Files] /\ left' \in [Runners -> SUBSET Files]
      <4>1. \/ UNCHANGED <<dir, left>>
            \/ \E files \in Deployments :
                  /\ dir' = [dir EXCEPT ![r] = files]
                  /\ left' = [left EXCEPT ![r] = files]
        BY <1>3 DEF Start
      <4>2. dir \in [Runners -> SUBSET Files] /\ left \in [Runners -> SUBSET Files]
        BY <1>0 DEF TypeOK
      <4>3. \A files \in Deployments : files \in SUBSET Files
        BY MigrationsAssumption
      <4>. QED
        BY <4>1, <4>2, <4>3
    <3>4. /\ UNCHANGED <<table, recorded, effects, cur, did>>
          /\ \A q \in Runners : q # r => left'[q] = left[q]
      BY <1>0, <1>3 DEF Start, TypeOK, database
    <3>. QED
      BY <1>0, <3>1, <3>2, <3>3, <3>4 DEF TypeOK, Steps, Ended
  <2>2. RunnerInv(r)'
    BY <1>0, <1>3 DEF Start, TypeOK, RunnerInv, database
  <2>. QED
    BY <1>0, <1>3, <2>1, <2>2, DatabaseUntouched DEF Start, TypeOK, database
<1>4. ASSUME NEW r \in Runners,
             CreateTable(r) \/ WaitedForTable(r) \/ CommitTable(r) \/ Finish(r)
      PROVE  MigrationInv'
  <2>1. /\ recorded' = recorded /\ effects' = effects /\ table' \in BOOLEAN
        /\ round' = round /\ dir' = dir /\ left' = left /\ cur' = cur /\ did' = did
        /\ \E step \in {"next", "createWaits", "created", "failed", "done"} :
              /\ pc' = [pc EXCEPT ![r] = step]
              /\ step = "done" => left[r] = {}
    BY <1>0, <1>4 DEF CreateTable, WaitedForTable, CommitTable, Finish, Go,
                      database, TypeOK
  <2>2. TypeOK'
    BY <1>0, <2>1 DEF TypeOK, Steps, Ended
  <2>3. RunnerInv(r)'
    BY <1>0, <2>1 DEF TypeOK, RunnerInv
  <2>. QED
    BY <1>0, <2>1, <2>2, <2>3, DatabaseUntouched DEF TypeOK
<1>5. ASSUME NEW r \in Runners, Skip(r) PROVE MigrationInv'
  <2>1. TypeOK'
    BY <1>0, <1>5 DEF Skip, Go, TypeOK, database, Steps, Ended
  <2>2. RunnerInv(r)'
    BY <1>0, <1>5 DEF Skip, Go, TypeOK, RunnerInv, database
  <2>. QED
    BY <1>0, <1>5, <2>1, <2>2, DatabaseUntouched DEF Skip, Go, TypeOK, database
<1>6. ASSUME NEW r \in Runners, Find(r) PROVE MigrationInv'
  <2>1. PICK f \in left[r] \ recorded :
           FirstOf(left[r], f) /\ cur' = [cur EXCEPT ![r] = f]
    BY <1>6 DEF Find
  <2>2. f \in Files /\ f \in Nat
    BY <1>0 DEF TypeOK
  <2>3. TypeOK'
    BY <1>0, <1>6, <2>1, <2>2 DEF Find, Go, TypeOK, database, Steps, Ended
  <2>4. RunnerInv(r)'
    BY <1>0, <1>6, <2>1, <2>2 DEF Find, Go, FirstOf, TypeOK, RunnerInv, database
  <2>. QED
    BY <1>0, <1>6, <2>1, <2>3, <2>4, DatabaseUntouched DEF Find, Go, TypeOK, database
<1>7. ASSUME NEW r \in Runners, Apply(r) PROVE MigrationInv'
  <2>1. cur[r] \in left[r] /\ cur[r] \in Files /\ pc[r] = "apply"
    BY <1>0, <1>7 DEF Apply, TypeOK
  <2>2. TypeOK'
    BY <1>0, <1>7, <2>1 DEF Apply, Go, TypeOK, database, Steps, Ended
  <2>3. RunnerInv(r)'
    BY <1>0, <1>7, <2>1 DEF Apply, Go, TypeOK, RunnerInv, database
  <2>. QED
    BY <1>0, <1>7, <2>2, <2>3, DatabaseUntouched DEF Apply, Go, TypeOK, database
<1>8. ASSUME NEW r \in Runners, WaitedForApply(r) PROVE MigrationInv'
  <2>1. pc[r] = "applyWaits" /\ cur[r] \in left[r]
    BY <1>0, <1>8 DEF WaitedForApply, Go, TypeOK
  <2>2. TypeOK'
    BY <1>0, <1>8, <2>1 DEF WaitedForApply, Go, TypeOK, database, Steps, Ended
  <2>3. RunnerInv(r)'
    BY <1>0, <1>8, <2>1 DEF WaitedForApply, Go, TypeOK, RunnerInv, database
  <2>. QED
    BY <1>0, <1>8, <2>2, <2>3, DatabaseUntouched
       DEF WaitedForApply, Go, TypeOK, database
<1>9. ASSUME NEW r \in Runners, RecordApplied(r) PROVE MigrationInv'
  <2>1. TypeOK'
    BY <1>0, <1>9 DEF RecordApplied, Go, TypeOK, database, Steps, Ended
  <2>2. RunnerInv(r)'
    BY <1>0, <1>9 DEF RecordApplied, Go, TypeOK, RunnerInv, database
  <2>. QED
    BY <1>0, <1>9, <2>1, <2>2, DatabaseUntouched
       DEF RecordApplied, Go, TypeOK, database
<1>10. ASSUME NEW r \in Runners, DatabaseError(r) \/ Crash(r) PROVE MigrationInv'
  <2>1. /\ recorded' = recorded /\ effects' = effects /\ table' = table
        /\ round' = round /\ dir' = dir /\ left' = left /\ cur' = cur /\ did' = did
        /\ \E end \in {"failed", "crashed"} : pc' = [pc EXCEPT ![r] = end]
    BY <1>10 DEF DatabaseError, Crash, Go, database
  <2>2. TypeOK'
    BY <1>0, <2>1 DEF TypeOK, Steps, Ended
  <2>3. RunnerInv(r)'
    BY <1>0, <2>1 DEF TypeOK, RunnerInv
  <2>. QED
    BY <1>0, <2>1, <2>2, <2>3, DatabaseUntouched DEF TypeOK
<1>11. ASSUME NEW r \in Runners, CommitMigration(r) \/ CommitUnacknowledged(r)
       PROVE  MigrationInv'
  <2>1. pc[r] = "commit" /\ Commit(r)
    BY <1>11 DEF CommitMigration, CommitUnacknowledged, Go
  <2>2. /\ round' = round /\ dir' = dir /\ cur' = cur /\ did' = did
        /\ \E step \in {"next", "failed"} : pc' = [pc EXCEPT ![r] = step]
        /\ \/ left' = left
           \/ left' = [left EXCEPT ![r] = @ \ {cur[r]}]
    BY <1>11 DEF CommitMigration, CommitUnacknowledged, Go
  <2>3. TypeOK'
    BY <1>0, <2>1, <2>2, CommitEffect DEF TypeOK, Steps, Ended
  <2>4. RunnerInv(r)'
    BY <1>0, <2>1, <2>2, CommitEffect DEF TypeOK, RunnerInv
  <2>5. Others(r)
    BY <1>0, <2>1, <2>2, CommitEffect DEF TypeOK, Others
  <2>. QED
    BY <2>1, <2>3, <2>4, <2>5, CommitEffect, MigrationFrame
<1>. QED
  BY <1>1, <1>2, <1>3, <1>4, <1>5, <1>6, <1>7, <1>8, <1>9, <1>10, <1>11
     DEF Next, Progress, Fault

LEMMA MigrationInvariant == Spec => []MigrationInv
  BY MigrationInit, MigrationStep, PTL DEF Spec

(* Every variable of the database and of the runners has its type; a       *)
(* runner within the loop body is at a file it still has to look at.       *)
THEOREM MigrationTypes == Spec => []TypeOK
<1>1. MigrationInv => TypeOK
  BY DEF MigrationInv
<1>. QED
  BY <1>1, MigrationInvariant, PTL

(* Whatever errors, crashes and lost answers do, and however the runners   *)
(* interleave, a row of wap_migrations stands for a file whose SQL is in   *)
(* effect, and for each file that is there is a row.                       *)
THEOREM RowsTellTheSchema == Spec => []RecordedIsApplied
<1>1. MigrationInv => RecordedIsApplied
  BY DEF MigrationInv
<1>. QED
  BY <1>1, MigrationInvariant, PTL

(* No runner goes past a file before the files in front of it are applied, *)
(* and none returns before all of them are.                                *)
THEOREM MigrationsAreOrdered == Spec => []AppliedInOrder
<1>1. MigrationInv => AppliedInOrder
  <2> SUFFICES ASSUME MigrationInv, NEW r \in Runners, NEW g \in dir[r]
               PROVE  /\ pc[r] \in {"record", "commit"} =>
                            (g < cur[r] => effects[g] > 0)
                      /\ pc[r] = "done" => effects[g] > 0
    BY DEF AppliedInOrder
  <2>1. TypeOK /\ RecordedIsApplied /\ RunnerInv(r)
    BY DEF MigrationInv
  <2>2. g \in Files /\ g \in Nat /\ cur[r] \in Nat
    BY <2>1 DEF TypeOK
  <2>3. g \notin left[r] => effects[g] > 0
    BY <2>1, <2>2 DEF RunnerInv, RecordedIsApplied
  <2>. QED
    BY <2>1, <2>2, <2>3 DEF RunnerInv
<1>. QED
  BY <1>1, MigrationInvariant, PTL

-------------------------------------------------------------------------------
(* Applied once. The runners at a recorded file are those that found it    *)
(* unrecorded before; each may still add one effect, and none comes to it. *)
(* Of SQL that cannot repeat its effect one open transaction at most has   *)
(* an effect, and only as long as there is none yet.                       *)

LoopBody == {"apply", "applyWaits", "record", "commit"}

At(f) == {r \in Runners : pc[r] \in LoopBody /\ cur[r] = f}

Changes(r) == pc[r] \in {"record", "commit"} /\ did[r]

CountInv == \A f \in recorded :
               effects[f] + Cardinality(At(f)) <= Cardinality(Runners)

OneChange(f) ==
    /\ effects[f] <= 1
    /\ \A r \in Runners : Changes(r) /\ cur[r] = f =>
          /\ effects[f] = 0
          /\ \A q \in Runners : Changes(q) /\ cur[q] = f => q = r

OnceInv ==
    CountInv /\ \A f \in Files : SqlKind[f] # "repeats" => OneChange(f)

(* At most all runners are at one file. *)
LEMMA AtIsCounted ==
  ASSUME NEW f
  PROVE  /\ At(f) \subseteq Runners /\ IsFiniteSet(At(f))
         /\ Cardinality(At(f)) \in Nat
         /\ Cardinality(At(f)) <= Cardinality(Runners)
         /\ Cardinality(Runners) \in Nat
<1>1. At(f) \subseteq Runners
  BY DEF At
<1>. QED
  BY <1>1, FS_Subset, FS_CardinalityType

LEMMA OnceInit == Init => OnceInv
  BY DEF Init, OnceInv, CountInv, OneChange, Changes

Commits(r) == CommitMigration(r) \/ CommitUnacknowledged(r)

(* Only a commit changes rows or effects, and no other step brings a       *)
(* runner to a recorded file.                                              *)
LEMMA NobodyComes ==
  ASSUME MigrationInv, NEW r \in Runners,
         Start(r) \/ Progress(r) \/ Fault(r), ~Commits(r)
  PROVE  /\ recorded' = recorded /\ effects' = effects
         /\ \A f \in recorded : At(f)' \subseteq At(f)
<1>0. TypeOK
  BY DEF MigrationInv
<1>1. recorded' = recorded /\ effects' = effects
  BY DEF Start, Progress, Fault, Commits, CreateTable, WaitedForTable, CommitTable,
         Skip, Find, Finish, Apply, WaitedForApply, RecordApplied, DatabaseError,
         Crash, database
<1>2. \A q \in Runners : q # r => pc'[q] = pc[q] /\ cur'[q] = cur[q]
  BY <1>0 DEF TypeOK, Start, Progress, Fault, Commits, CreateTable, WaitedForTable,
         CommitTable, Skip, Find, Finish, Apply, WaitedForApply, RecordApplied,
         DatabaseError, Crash, Go
<1>3. \/ pc'[r] \notin LoopBody
      \/ pc[r] \in LoopBody /\ cur'[r] = cur[r]
      \/ cur'[r] \notin recorded
  <2>1. CASE Find(r)
    BY <1>0, <2>1 DEF TypeOK, Find
  <2>2. CASE Apply(r) \/ WaitedForApply(r) \/ RecordApplied(r)
    BY <1>0, <2>2 DEF TypeOK, Apply, WaitedForApply, RecordApplied, Go, LoopBody
  <2>3. CASE Start(r)
    BY <1>0, <2>3 DEF TypeOK, Start, LoopBody
  <2>4. CASE \/ CreateTable(r) \/ WaitedForTable(r) \/ CommitTable(r) \/ Skip(r)
             \/ Finish(r) \/ DatabaseError(r) \/ Crash(r)
    BY <1>0, <2>4 DEF TypeOK, CreateTable, WaitedForTable, CommitTable, Skip, Finish,
       DatabaseError, Crash, Go, LoopBody, Ended
  <2>. QED
    BY <2>1, <2>2, <2>3, <2>4 DEF Progress, Fault, Commits
<1>. QED
  BY <1>1, <1>2, <1>3 DEF At

(* A transaction comes to change something only where no other one does,   *)
(* and nothing is in effect yet, unless the SQL repeats its effect.        *)
LEMMA OneChanges ==
  ASSUME MigrationInv, NEW r \in Runners,
         Start(r) \/ Progress(r) \/ Fault(r), ~Commits(r)
  PROVE  /\ \A q \in Runners : q # r =>
               (Changes(q)' <=> Changes(q)) /\ cur'[q] = cur[q]
         /\ \/ ~Changes(r)'
            \/ Changes(r) /\ cur'[r] = cur[r]
            \/ /\ cur[r] \in Files /\ cur'[r] = cur[r]
               /\ SqlKind[cur[r]] = "repeats"
            \/ /\ cur[r] \in Files /\ cur'[r] = cur[r]
               /\ ~SomeoneApplies(cur[r]) /\ effects[cur[r]] = 0
<1>0. TypeOK
  BY DEF MigrationInv
<1>1. \A q \in Runners : q # r => pc'[q] = pc[q] /\ cur'[q] = cur[q] /\ did'[q] = did[q]
  BY <1>0 DEF TypeOK, Start, Progress, Fault, Commits, CreateTable, WaitedForTable,
         CommitTable, Skip, Find, Finish, Apply, WaitedForApply, RecordApplied,
         DatabaseError, Crash, Go
<1>2. \/ ~Changes(r)'
      \/ Changes(r) /\ cur'[r] = cur[r]
      \/ /\ cur[r] \in Files /\ cur'[r] = cur[r]
         /\ SqlKind[cur[r]] = "repeats"
      \/ /\ cur[r] \in Files /\ cur'[r] = cur[r]
         /\ ~SomeoneApplies(cur[r]) /\ effects[cur[r]] = 0
  <2>1. CASE Apply(r)
    <3>1. cur[r] \in Files /\ cur'[r] = cur[r] /\ effects[cur[r]] \in Nat
      BY <1>0, <2>1 DEF TypeOK, Apply
    <3>2. CASE SqlKind[cur[r]] = "repeats"
      BY <3>1, <3>2
    <3>3. CASE SomeoneApplies(cur[r]) /\ SqlKind[cur[r]] # "repeats"
      BY <1>0, <2>1, <3>3 DEF Apply, Go, TypeOK, Changes
    <3>4. CASE ~SomeoneApplies(cur[r]) /\ SqlKind[cur[r]] # "repeats"
      <4>1. did' = [did EXCEPT ![r] = ~(effects[cur[r]] > 0)]
        BY <2>1, <3>4 DEF Apply
      <4>2. Changes(r)' => ~(effects[cur[r]] > 0)
        BY <1>0, <4>1 DEF TypeOK, Changes
      <4>. QED
        BY <3>1, <3>4, <4>2
    <3>. QED
      BY <3>2, <3>3, <3>4
  <2>2. CASE WaitedForApply(r)
    BY <1>0, <2>2 DEF TypeOK, WaitedForApply, Go, Changes
  <2>3. CASE RecordApplied(r)
    BY <1>0, <2>3 DEF TypeOK, RecordApplied, Go, Changes
  <2>4. CASE Start(r)
    BY <1>0, <2>4 DEF TypeOK, Start, Changes
  <2>5. CASE \/ CreateTable(r) \/ WaitedForTable(r) \/ CommitTable(r) \/ Skip(r)
             \/ Find(r) \/ Finish(r) \/ DatabaseError(r) \/ Crash(r)
    BY <1>0, <2>5 DEF TypeOK, CreateTable, WaitedForTable, CommitTable, Skip, Find,
       Finish, DatabaseError, Crash, Go, Changes, Ended
  <2>. QED
    BY <2>1, <2>2, <2>3, <2>4, <2>5 DEF Progress, Fault, Commits
<1>. QED
  BY <1>1, <1>2 DEF Changes

(* A commit adds the effect of its runner, which leaves the file.          *)
LEMMA CommitOnce ==
  ASSUME MigrationInv, OnceInv, NEW r \in Runners, Commits(r)
  PROVE  OnceInv'
<1>0. TypeOK /\ RecordedIsApplied
  BY DEF MigrationInv
<1>1. PICK f \in Files : cur[r] = f /\ pc[r] = "commit" /\ Commit(r)
  BY <1>0 DEF Commits, CommitMigration, CommitUnacknowledged, Go, TypeOK
<1>2. /\ recorded' = recorded \cup {f}
      /\ \A g \in Files : g # f => effects'[g] = effects[g]
      /\ effects'[f] = IF did[r] THEN effects[f] + 1 ELSE effects[f]
      /\ effects \in [Files -> Nat] /\ recorded \subseteq Files
  BY <1>0, <1>1 DEF Commit, TakeEffect, TypeOK
<1>3. /\ pc'[r] \notin LoopBody
      /\ \A q \in Runners : q # r => pc'[q] = pc[q]
      /\ cur' = cur /\ did' = did
  BY <1>0 DEF Commits, CommitMigration, CommitUnacknowledged, Go, TypeOK, LoopBody
<1>4. At(f)' = At(f) \ {r} /\ r \in At(f) /\ \A g : g # f => At(g)' = At(g)
  BY <1>0, <1>1, <1>3 DEF At, LoopBody
<1>5. CountInv'
  <2> SUFFICES ASSUME NEW g \in recorded'
               PROVE  effects'[g] + Cardinality(At(g)') <= Cardinality(Runners)
    BY DEF CountInv
  <2>1. CASE g # f
    BY <1>2, <1>4, <2>1 DEF OnceInv, CountInv
  <2>2. CASE g = f
    <3>1. Cardinality(At(f)') = Cardinality(At(f)) - 1
      BY <1>4, AtIsCounted, FS_RemoveElement
    <3>2. effects'[f] <= effects[f] + 1 /\ effects[f] \in Nat /\ effects'[f] \in Nat
      BY <1>1, <1>2
    <3>3. effects[f] + Cardinality(At(f)) <= Cardinality(Runners)
      <4>1. CASE f \in recorded
        BY <4>1 DEF OnceInv, CountInv
      <4>2. CASE f \notin recorded
        <5>1. effects[f] = 0
          BY <1>0, <1>1, <3>2, <4>2 DEF RecordedIsApplied
        <5>. QED
          BY <5>1, AtIsCounted
      <4>. QED
        BY <4>1, <4>2
    <3>. QED
      BY <2>2, <3>1, <3>2, <3>3, AtIsCounted
  <2>. QED
    BY <2>1, <2>2
<1>6. ASSUME NEW g \in Files, SqlKind[g] # "repeats" PROVE OneChange(g)'
  <2>1. OneChange(g)
    BY <1>6 DEF OnceInv
  <2>2. \A q \in Runners : Changes(q)' => Changes(q) /\ q # r
    BY <1>3 DEF Changes, LoopBody
  <2>3. CASE g # f
    BY <1>2, <1>3, <2>1, <2>2, <2>3 DEF OneChange
  <2>4. CASE g = f /\ did[r]
    <3>1. Changes(r) /\ effects[g] = 0
      BY <1>1, <2>1, <2>4 DEF OneChange, Changes
    <3>2. effects'[g] = 1
      BY <1>2, <2>4, <3>1
    <3>3. \A q \in Runners : cur'[q] = g => ~Changes(q)'
      BY <1>1, <1>3, <2>1, <2>2, <2>4, <3>1 DEF OneChange
    <3>. QED
      BY <3>2, <3>3 DEF OneChange
  <2>5. CASE g = f /\ ~did[r]
    BY <1>2, <1>3, <2>1, <2>2, <2>5 DEF OneChange
  <2>. QED
    BY <2>3, <2>4, <2>5
<1>. QED
  BY <1>5, <1>6 DEF OnceInv

LEMMA OnceStep == MigrationInv /\ OnceInv /\ [Next]_vars => OnceInv'
<1> SUFFICES ASSUME MigrationInv, OnceInv, [Next]_vars PROVE OnceInv'
  OBVIOUS
<1>1. CASE vars' = vars \/ AllEnded
  BY <1>1 DEF AllEnded, vars, OnceInv, CountInv, OneChange, Changes, At
<1>2. ASSUME NEW r \in Runners, Start(r) \/ Progress(r) \/ Fault(r), ~Commits(r)
      PROVE  OnceInv'
  <2>1. recorded' = recorded /\ effects' = effects
    BY <1>2, NobodyComes
  <2>2. CountInv'
    <3> SUFFICES ASSUME NEW f \in recorded
                 PROVE  effects[f] + Cardinality(At(f)') <= Cardinality(Runners)
      BY <2>1 DEF CountInv
    <3>1. At(f)' \subseteq At(f)
      BY <1>2, NobodyComes
    <3>2. Cardinality(At(f)') <= Cardinality(At(f)) /\ Cardinality(At(f)') \in Nat
      BY <3>1, AtIsCounted, FS_Subset, FS_CardinalityType
    <3>3. effects[f] \in Nat
      BY DEF MigrationInv, TypeOK
    <3>4. effects[f] + Cardinality(At(f)) <= Cardinality(Runners)
      BY DEF OnceInv, CountInv
    <3>. QED
      BY <3>2, <3>3, <3>4, AtIsCounted
  <2>3. ASSUME NEW f \in Files, SqlKind[f] # "repeats" PROVE OneChange(f)'
    <3>1. OneChange(f)
      BY <2>3 DEF OnceInv
    <3>2. \A q \in Runners : q # r => (Changes(q)' <=> Changes(q)) /\ cur'[q] = cur[q]
      BY <1>2, OneChanges
    <3>3. CASE ~Changes(r)' \/ (Changes(r) /\ cur'[r] = cur[r]) \/ cur'[r] # f
      BY <2>1, <3>1, <3>2, <3>3 DEF OneChange
    <3>4. CASE cur'[r] = f /\ cur[r] = f /\ ~SomeoneApplies(f) /\ effects[f] = 0
      <4>1. \A q \in Runners : q # r => ~(Changes(q)' /\ cur'[q] = f)
        BY <3>2, <3>4 DEF SomeoneApplies, Changes
      <4>. QED
        BY <2>1, <3>4, <4>1 DEF OneChange
    <3>. QED
      BY <1>2, <2>3, <3>3, <3>4, OneChanges
  <2>. QED
    BY <2>2, <2>3 DEF OnceInv
<1>. QED
  BY <1>1, <1>2, CommitOnce DEF Next, Commits

(* However the runners overlap, fail and start again: SQL that guards      *)
(* itself takes effect once, other SQL at most once for each runner.       *)
THEOREM NoneAppliedAgain == Spec => []AppliedOnce
<1>1. MigrationInv /\ OnceInv => AppliedOnce
  <2> SUFFICES ASSUME MigrationInv, OnceInv, NEW f \in Files
               PROVE  effects[f] <= IF SqlKind[f] = "repeats"
                                    THEN Cardinality(Runners) ELSE 1
    BY DEF AppliedOnce
  <2>1. effects[f] \in Nat /\ (f \notin recorded => effects[f] = 0)
    BY DEF MigrationInv, TypeOK, RecordedIsApplied
  <2>2. effects[f] <= Cardinality(Runners)
    BY <2>1, AtIsCounted DEF OnceInv, CountInv
  <2>3. SqlKind[f] # "repeats" => effects[f] <= 1
    BY DEF OnceInv, OneChange
  <2>. QED
    BY <2>2, <2>3
<1>. QED
  BY <1>1, OnceInit, OnceStep, MigrationInvariant, PTL DEF Spec
===============================================================================
