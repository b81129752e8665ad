# Verification of wap-reconcile

TLA+ models of the write-audit-publish framework in `src/`, TLC runs over small
instances, and theorems checked by TLAPS. This file says what the system is,
which module stands for which part of it, what each run and each proof shows, and
what is left out.

## 1. The system

| Part | State it keeps | Operations | Interacts with |
|---|---|---|---|
| Run model (`core/models.py`, `core/enums.py`, `core/assertions.py`) | none: immutable values | `all_passed`, `failed_results`, `highest_failed_severity`, `new_run_id` | every other part |
| Schema (`db/migrations/001`, `002`) | `staging.records`, `published.records`, `wap_audit_log`, `wap_review_queue` | unique keys, `latest_by_dataset` | writer, publisher, router, reference source |
| Pipeline (`core/pipeline.py`) | local variables of one `run()` | `run`, `_publish`, `_route_to_review`, `_run_one_assertion`, `_errored` | calls writer, source, assertions, publisher, router in that order; writes the audit row of an ERRORED run |
| Staging writer (`backends/postgres/staging_writer.py`) | a run_id | `write`, `read` | `staging.records` |
| Reference source (`core/reference_source.py`) | none | `resolve` | reads `latest_by_dataset` |
| Publisher (`core/publisher.py`) | none | `promote` | one transaction over staging, published, audit |
| Review router (`core/review_queue.py`) | none | `route` | one transaction over queue, audit |
| Connection pool (`backends/postgres/connection.py`) | `_pool`, `_pool_lock` | `_get_pool`, `get_connection`, `close_pool`, `reset_pool` | all database code |
| Migration runner (`db/migrations/run_migrations.py`) | `wap_migrations` | `run_migrations` | the schema, at every container start |
| Assertion library (`assertions_library/`) | parameters | `check` of three classes | called by the pipeline |
| Airflow operator (`adapters/airflow_operator.py`) | arguments | `execute` | calls `run()`, pushes XCom; the scheduler retries it |
| Example pipeline (`examples/fx_pipeline_demo.py`) | none | three scenes | a day of the whole system |

Several processes and threads call `run()` at the same time against one database;
the only lock of the program is the pool's, so all other coordination is the
database's: a unique key on (dataset_key, run_id) in staging, on run_id in published and
in the queue, `FOR SHARE` on the staged row, and one transaction per publish or route. What is hard:

* **Interleaving.** Other runs, and a job that cleans staging, act between any two
  statements. `promote()` reads the payload a second time. `_get_pool()` reads `_pool` outside its lock.
* **Failure.** Every statement may raise, a commit may succeed without its answer
  arriving, the process may die. Exceptions are translated by three different
  layers, and each knows only some types. Airflow and the container start repeat what failed.
* **Ordering.** `published_at` is stamped before the transaction; reference and
  publication of concurrent runs overlap.
* **Identity.** A caller may pass its own run_id, and the three unique keys disagree
  about what it identifies.
* **Numbers.** Zero, negative, NaN and missing values on either side of a comparison;
  many comparisons that each pass.

Correct means: published data is exactly what passed every assertion against
a published (or custom) reference; tables, audit log and returned result tell one story;
each returned run is audited once; unmet assertions reach a human in the right lane; every run ends;
repeating a run, a task or a container start repeats no effect that is not lost to its caller; and what the
assertions let through, day after day, stays within what they promise.

## 2. Modules

| Module | Stands for |
|---|---|
| `WapReport` | Reports and the operators of `core/models.py` on them |
| `WapStore` | The four tables, open transactions, commit and rollback |
| `WapPipeline` | All concurrent `run()` invocations with writer, source, publisher and router, the failures and the clean-up job |
| `WapLedger` | Abstract specification: what the three durable tables promise |
| `WapRun` | Abstract specification: what a caller of `run()` can rely on |
| `WapConnectionPool` | Threads in `get_connection()` and `close_pool()`, psycopg2's pool below them |
| `WapAirflow` | `execute()` under task retries, over the `run()` of `WapRun` |
| `WapMigrations` | Concurrent and repeated starts of the migration runner |
| `WapValues`, `WapFxReconciliation`, `WapRowCountDelta`, `WapDistribution` | The values of payloads and the three `check()`s, as operators |
| `WapAssertions` | What payloads undergo between two comparisons: corrections, further loads, another unit, sign or window |
| `WapFeed` | The example pipeline day after day: what the assertions let through |
| `Wap...Proofs` | Theorems (section 4) |
| `MC...` | Values of the constants for TLC |

How they compose: `WapPipeline` EXTENDS `WapStore` EXTENDS `WapReport`. `WapPipeline` instantiates `WapLedger` on its tables, and
`WapRun` under a refinement mapping (`CallerState`, `Record`); both are checked and proved. `WapAirflow` is built on the same `WapRun`, so what it shows of
`execute()` holds with the pipeline below it. `WapFeed` uses the operators of the assertions. `WapConnectionPool` is where the
fault `"psycopg"` of `WapPipeline` (`PoolError` of an exhausted or closed pool) and part of `"other"` (`ConnectionError`, `AttributeError`) come from.

### WapPipeline

An invocation is a call of `run()` with arguments `call[i]` (dataset, data, suite,
source, run id). `pc[i]` is the place in the code; the other variables are the locals
`staged_data`, `reference_data`, `report`, `now` of `promote()`, the payload it locked,
the error and the status of the result. One action stands for the code between two
points where another process can interfere, that is, one SQL statement or one commit:

| Code | Actions |
|---|---|
| argument checks, writer constructor (`pipeline.py:145-161`) | `Begin`, `Misconfigured` |
| `write()` | `StageWrite`, `StageRefused`, `StageUnacknowledged` |
| `read()` | `ReadBack`, `ReadRefused` |
| `resolve()` | `ResolveSnapshot`, `SnapshotNotADict`, `NoSnapshot`, `ResolveCustom` |
| assertions and the branch on `all_passed` | `RunAssertions` |
| `promote()` | `Promote` (gate, stamp), `LockStaged`, `StagedMissing`, `InsertPublished`, `PublishRefused`, `AuditPublished`, `CommitPublished` |
| `route()` | `Route` (gate), `InsertQueue`, `QueueRefused`, `AuditRouted`, `CommitRouted` |
| `_errored()` | `Fail` (in the refusing action), `WriteErroredAudit`, `LoseErroredAudit` |
| exceptions by type | `DatabaseError`, `TransactionError`, `OtherError`, `CommitUnacknowledged` |
| environment | `Crash`, `Cleanup` |

Failures are chosen by the constant `Faults`: `"psycopg"` (psycopg2.Error),
`"other"` (ConnectionError, OSError, TypeError of `Json`), `"ackLost"` (a commit took
effect and something raised, be it the commit or the `putconn()` after it, on a pool closed meanwhile),
`"auditLost"` (the audit insert of `_errored()` raises, be it for the database or for an argument its columns refuse), `"crash"`.
`"raised"` is the state of an invocation that left `run()` by an exception.

* Payloads are atoms; `Jsonb` is what a JSONB round trip makes of one (`None`: refused, by
  `_validate_payload` or by the column), assumed stable on what a column returned.
  `DictOf` is Python's `dict()`, `None` where it raises. `Verdict` is what an assertion does on
  a pair of payloads, raising included. A suite is a set: order and repetition of assertions do not matter to the report's use.
* A staging_ref is the pair (dataset_key, run_id). Run ids are assumed not to be two spellings of
  one UUID. `CanonicalRunIds` are those whose ref `read()` can parse.
* Rows carry the ghost field `by`. The audit log is a set of rows, so two rows of one
  invocation are told apart by status or report; ids and other timestamps are left out.
* The clients share one clock that never goes back. This favours the program: skewed clocks only add disorder.
* A crash between a commit and the next statement is a crash at the next step; a crash that
  loses the answer of a commit leaves the tables as `CommitUnacknowledged` does.
* PostgreSQL (visibility, unique keys, waiting for a transaction that holds a conflicting key, row
  locks) is external and modelled as documented for READ COMMITTED.
* An `Assertion` that returns something other than an AssertionResult, or has an empty name, breaks its contract and is left out.

### WapConnectionPool

A pool is named by the call that built it; `made`, `closed`, `idle`, `used` are psycopg2's state of each pool, `pool` and `lock` the
globals `_pool` and `_pool_lock`. `Peek` is the test outside the lock, `Lock`/`ReturnLocked`/`Build`/`BuildFails`/`Unlock` the locked section, `Return` the
return statement that reads `_pool` again, `GetConn`/`GetConnFails`, `Body`, `PutConn`/`PutConnRaises` the with statement, `StartClose`/`CloseAll`/`Reset` `close_pool()`.
`getconn()`, `putconn()` and `closeall()` are external and one step each, because psycopg2's pool has a lock of its own.
What a body does with its connection is one choice of `Body`: it commits, ends with its transaction open (as `read()` and `resolve()` do), raises, or loses the connection.
`putconn()` rolls an open transaction back where it keeps the connection, before it frees the slot: `RollbackFails` is a rollback that raises.

### WapAirflow

`phase[t]` follows `execute()`: `Resolve`/`ResolveRaises` (callable arguments), `RunReturns`/`RunGivesNoAnswer` (a step of `WapRun`), `PushKey`, five times, or
`SkipPush` without a task instance, `PushRaises`, then `Raise` or `ReturnSummary`; `Killed` and `Retry` are Airflow's. `failure` is a history of why each try failed.

### WapMigrations

`table`, `recorded`, `effects` are the database; `dir`, `left`, `cur` the loop of `run_migrations()`; `did` whether the open transaction changes anything. `SqlKind` says
what running a file again does; the two files of the repository are `"guarded"`, any that will be added may be `"strict"` or `"repeats"`.
A start may find no directory, an empty one, or one of `Deployments`.

### The assertions and WapFeed

Each `check()` is one operator that says for which pairs of payloads the result passes (`FxPasses`, `RowCountPasses`, `DistributionPasses`), built from the steps
of the code; `FxEvidence` is the evidence of a failed comparison. Numbers are integers, tolerances whole percentages, ratios and roots compared by their products and squares;
messages, rounding and infinities are left out. `Tiny` is the 1e-10 below which `_relative_drift()` has no result, in the unit of the samples. `Sums` is what `sum()` has added up after each value, a recursive function, so that the sums can be reasoned about.
`WapAssertions` lets a reviewer correct what the evidence names (`Correction`), further loads arrive and be published or refused (`PublishRows`, `RefuseRows`), and samples
change unit, sign or window (`SwapUnit`, `Negate`, `Repeat`); its properties relate the verdicts before and after.
`WapFeed` puts them into the suite of the example: `Load` and `Restamp` are what upstream delivers, `Check` resolves the publication that is `latest` by `published_at` and runs the suite, `Publish` appends. The stamp is taken between check and commit, so
a new publication is later than its reference, and earlier or later than any that was committed since (`NewLatest`); equal stamps are among the latter.
Errors, keys and crashes are `WapPipeline`'s matter. The frozen variable `overlap` says whether runs may overlap.

## 3. Runs

| Run | Question | Instance | Distinct states |
|---|---|---|---|
| `fresh` | Does every safety property of the pipeline hold with fresh run ids, a clean-up job and all failures? | 3 invocations, 6 calls on 2 datasets | 1 million, with symmetry |
| `reuse` | Do the unique keys alone keep runs apart when run ids are shared? Is each return audited, does each run end, does unmet data reach review? Does the pipeline implement `WapLedger` and `WapRun`? | 2 invocations, 11 calls with every refusal, database errors, lost answers, crashes | 51 000 |
| `pool` | One open pool, bounded connections, no slot lost by a body, whoever closes it meanwhile? | 3 calls, 1 closer, 1 to 2 connections | 257 000 |
| `task` | Do success and failure of a task tell the truth, and what can retries repeat? | 2 tasks, 2 tries each | 311 000 |
| `migrate` | Do records and effects agree, in order and once, over restarts and overlapping runners? | 2 runners, 2 starts each, 3 files | 88 000 |
| `assertions` | What do the three checks let through as data are corrected, shrink, change unit, sign or window? | all pairs of small payloads | 254 000 |
| `feed` | What do many passing comparisons let through? | 3 runs, 2 pairs, 4 rates | 2 million, with symmetry |

The `violation` runs show where a statement of the sources does not hold:

| Run | Statement | What happens |
|---|---|---|
| `toctou` | publisher.py:34-35, the payload asserted on is the one promoted | a reused run_id and a clean-up job between assertions and promotion replace the staged record |
| `escape` | pipeline.py:137-139 and publisher.py:220-221, failures are classified, not raised | psycopg2.Error of `promote()`/`route()` leaves `run()` |
| `pool_exhausted` | connection.py:147, exhaustion is a ConnectionError | psycopg2 raises PoolError, and line 154 is unreachable |
| `fx_required` | fx_reconciliation.py:56-58, absence of a required key fails | a key absent from both payloads is not looked at |
| `feed_stale` | fx_reconciliation.py:10-14, stale values fail against a prior snapshot | they are equal to it |

**Bounds.**

* Pipeline: the payloads have one case for each thing a property can tell apart: two that agree, one that
  does not, one that JSONB changes, a list, one that is refused. Conflicts on a key are between two transactions,
  so two invocations show them; `fresh` has three so that one run's reference can be published while two others overlap.
  `MaxClock = 1` is the least bound under which stamps can be equal or differ.
* Pool: three calls and two connections exhaust it, and let one wait for the lock while another holds a connection of a pool that is being closed; one closer
  meets every place where `_pool` may vanish.
* Task: two tries are the least that can repeat something; the two tasks take every branch of the two options.
* Migrations: two starts of two runners cover a restart after each failure beside a runner of another deployment; three files give one of each `SqlKind`, and one an older deployment lacks.
* Assertions: rates of 0 to 2 and a tolerance of 1 contain equal, within and beyond; the counts straddle each threshold; samples have length 0 to 3 with zero, negative and equal values, and `Tiny = 2` has values, means and deviations on both sides.
* Feed: four rates and a tolerance of 1 let three runs drift beyond one tolerance and meet the bound.

Symmetry over invocations or runs is used only in safety runs: calls are chosen freely for each, so they are interchangeable.

**Fairness.** Weak fairness throughout, of what the code itself does next:
`WapPipeline` of each invocation's `Progress` (a thread inside `run()` is scheduled, and the database answers or lets it wait for another transaction);
`WapConnectionPool` of each thread (a body ends; the lock is taken finitely often, so it is free for good in the end);
`WapAirflow` of each task (the scheduler runs each try, and `run()` ends by `EveryRunEnds`);
`WapMigrations` of each runner's `Progress`. Starting a call or a container, failures, crashes and the clean-up job are not fair, with
two exceptions that constrain nothing: in the pool and task models a fault is one of the steps a fair thread may take, so fairness asks for some step, never for a fault.
Deadlock is checked in every run; `AllEnded` (`Done` in `WapAssertions`) is the one kind of state where stopping is right.

## 4. Proofs

The theorems hold for every value of the constants, any number of invocations, threads, tasks, runners, files, pairs and payloads, every `Verdict` and every set of `Faults`,
from the named assumptions of the modules.

**WapPipelineProofs**

* `TypeCorrect`: `TypeOK`. It is not inductive, for instance a report is well typed only because staged data and reference are
  there before the assertions run. `TypeInv` adds `ReadsAreDone` and that staging holds only round-tripped payloads.
* `PublishedIsChecked`: `PublishedWereChecked` if run ids are fresh or no clean-up job runs, the very assumption whose absence `toctou` refutes.
  `CheckedInv` follows the payload of one invocation: the staged record is what it wrote, or gone (`OwnPayload`), because another writer of the same
  record would need the same run_id, which does not exist, or a free key, which is never freed. Hence what was read back, asserted on, locked and inserted
  is one payload; published rows belong to ended invocations and so are final. `StepFrame` reduces each step to what it changes for the invocation that takes it.

**WapLedgerProofs** rests on `LedgerInv` and needs no assumption on run ids or the clean-up job:

* `PipelineImplementsLedger`: `Spec => LedgerSpec`. The commits map to `Publish` and `RouteToReview`, the audit insert of `_errored()` to
  `RecordError`, all else to a stutter (`WhatStepsRecord`, `StepIsLedgerStep`).
* `OneAuditRow`, `ResultsAreTruthful`, `LedgerAlwaysAgrees`, `LaneIsRight`: the safety properties of the same names.

`LedgerInv` says three things the properties do not. The open transaction of an invocation holds the rows its `pc` says it inserted (`OwnTransaction`),
with a report that is the evaluation of its data (`OwnReport`). No two open transactions hold a row of one run_id, and no table holds a row of a run_id that
an open transaction inserted (`Apart`, `OwnKeys`): this is where waiting on a unique key matters, since a commit would otherwise publish a run_id
twice. And every row belongs to an invocation that has returned or raised (`PublishedRecorded`, `QueueRecorded`, `AuditRecorded`), so nothing
it rests on changes later, and it records nothing more. `LedgerFrame` reduces a step to the part of the invocation that takes it; `QuietLedger`,
`LeaveLedger` and `RecordedLedger` are its three shapes.

**WapRunProofs**: `PipelineImplementsRun`, `Spec => RunSpec`. `Seen` describes a step by what its caller sees and what rows it adds;
each action is shown to be one, and each such step to be a step of `WapRun` or a stutter.
The module also holds what joins the tables with one another and with the locals of a run, from the two invariants above:

* `ReferencesArePublished`: `ReferenceWasPublished`, since rows stay and a run that is still resolving owns none (`NotYetRecorded`).
* `OneFate` (`RefHasOneFate`, if run ids are fresh or no clean-up job runs): `OwnerInv` says that a run owns its staged record from its write on, and for good if it is
  published or queued; that a record has one owner; and that an owned record is there, so that a second writer is refused.
* `StagingIsReplayable` (`StagingReplays`, if no clean-up job runs): a staged record is never overwritten, and the row holds what its run wrote.
* `ReturnsAreAudited` (`EveryReturnIsAudited`, without the fault `"auditLost"`, with all others): a run returns only from a commit that holds its audit row, or from the audit insert of `_errored()`.

**WapConnectionPoolProofs**: `PoolInv` says who holds the lock (`LockInv`), that a pool is built once, under it (`BuiltInv`), that the singleton is closed only while it is about to be
reset (`CloseInv`), and who holds which connection (`UseInv`: who is in the with statement, or the call whose rollback in `putconn()` raised). From it `PoolTypes` (`TypeOK`), `OnePool` (`OpenPoolIsTheSingleton`), `NoLeaks` (`NoConnectionLeaks`), with `BoundInv`
`BoundedConnections` (`ConnectionsAreBounded`), the action property `NothingOpenAfterClose`, and with `CalmInv` `FirstAccessIsSafe` (`OnlyClosingDisturbs`).

**WapAirflowProofs**: `TaskInv` says what the current try has pushed and left at each phase, that later tries have not begun, and that a try which published fails only by a loss.
`TaskTypes` (`TypeOK`), `SuccessTellsTheTruth`, `FailuresAreOnRecord` (`FailedOutcomeIsOnRecord`) and `RepeatsOnlyAfterLoss` (`OnlyLossRepeatsAPublish`) follow; they rest on what `WapRun`
allows `run()` to answer.

**WapMigrationsProofs**: `RunnerInv` says that the files a runner is through with are recorded, the one it is at is the first of the rest, and its transaction, if
committed, leaves the file in effect. `MigrationTypes` (`TypeOK`), `RowsTellTheSchema` (`RecordedIsApplied`) and `MigrationsAreOrdered` (`AppliedInOrder`).
`NoneAppliedAgain` (`AppliedOnce`) needs more, `OnceInv`. A runner may pass the look at `wap_migrations` and be overtaken, so what bounds the effects of a recorded file is that they and the
runners still at it are together no more than the runners (`CountInv`): a commit turns one of the latter into one of the former, and nobody comes to a file that is recorded (`NobodyComes`).
Of SQL that cannot take effect twice, at most one open transaction changes anything, and only while nothing is in effect (`OneChange`). The count is why `Runners` is assumed finite.

**WapFeedProofs**: `FxIsPointwise` states `FxPasses` without its three sets. `FeedInv` says that a run which passed is within tolerance of the publication it was compared with,
which without overlap is the last one committed, and still the latest (`LatestInv`); `PairsNeverChange`, `RatesDriftSlowly` and `SerialRunsAgree`.

**WapAssertionProofs** proves every property of `WapAssertions`, for all dicts, counts, samples of any length, tolerances and factors.

* `Induction`: a set of numbers that contains 0 and, with each number, the next one contains all, because the least number outside it would have a predecessor inside.
  Stated of a set, it needs no operator as a parameter. With it `SumsExist` (the recursive function has a value and unfolds), and the laws of sums: `SumOfCombination` (linear
  combinations), `SumOfMultiple`, `SumOfRepetition` (a list twice), `SumOfNaturals` (no summand exceeds the sum).
* `VarianceIsOfDeviations`: `Variance`, which is computed from the sum of squares, is the sum of squared deviations from the mean, which is how `_stddev()` computes it.
* `EvidenceTellsAll` (`EvidenceIsExact`) and `RowsAreKept` (`RowsRemain`): steps of the two other checks.
* `UnitSwapsAreCaught` (`UnitSwapIsCaught`): where the reference has a relative drift of the mean or of the deviation, a factor takes it too far; where it has none, the staged value is compared with `Tiny`. It supposes
  `FactorsExceedDrifts`, a factor further from 1 than both tolerances: a smaller one is within what the configuration calls no drift.
* `SignsAreAlike` (`SignDoesNotMatter`), `WindowsCompare` (`WindowDoesNotMatter`): negation changes the sign of the total alone, repetition doubles length and sums.

`AssertionsInv` gives the payloads the types of the assertion at work, and says that a sample in another unit is a multiple of the reference.

Only model-checked: liveness, which is out of the prover's reach (`EveryRunEnds`, `UnmetRunsReachReview`, `EveryCallEnds`, `EveryTaskEnds`, `EveryRunnerEnds`). Every other property
of a passing run is proved. The refinements of the pipeline are checked by `reuse`, too; `WapAirflow` meets `WapPipeline` only through `WapRun`, no run composes them.

## 5. Divergences

What the code does against its own words, besides the five `violation` runs. None has a run of its own: each is one more instance of a run above, lies in a message
or in an external part, or would hold of the words only under a reading the code does not offer.

* reference_source.py:55-56 asks `resolve()` for ReferenceResolutionError. A list that was published becomes the next reference, and `dict()` at line 131 raises what it
  raises; it leaves `run()` (`SnapshotNotADict`, one more way to violate `FailuresAreReturned`).
* publisher.py:213-214: the key is on run_id alone, so the message of a refusal may name a dataset that was never published under it.
* 001_staging_published.sql:51-52, "whatever was last published": `published_at` is stamped before the transaction (publisher.py:186), so a run that stamps first
  and commits last is not the reference. Of two overlapping runs, the second was not compared with the first (pipeline.py:196).
* connection.py:97-98 calls `_get_pool()` thread-safe. It is under concurrent first access (`FirstAccessIsSafe`); with a concurrent `close_pool()` line 102 may return None, and
  `getconn()` or `putconn()` may meet a closed pool.
* connection.py:142-143, "returned to the pool on exit regardless": if the server is lost between the last statement of a body and the rollback inside `putconn()`, the rollback
  raises and psycopg2 keeps the slot as used until the pool is closed (`RollbackFails`); after WAP_POOL_MAX_CONN of them the pool is exhausted for good.
* connection.py:162, "the underlying TCP connection stays alive": only up to WAP_POOL_MIN_CONN idle connections are kept, any other one is closed.
* airflow_operator.py:36-38, "every outcome": if `run()` itself raises, `_push_evidence()` is not reached.
* review_queue.py:210-211, "already present in the review queue for dataset_key": the key is on run_id alone (002_audit_review.sql:48), so of two datasets that share a run_id only the first to fail is queued; the other run is ERRORED
  with its unmet report in the audit log, and its data never reach review (the last disjunct of `UnmetRunsReachReview`).
* README.md:28-30, "never silently retried": WAPReviewRequiredException is an AirflowException, so a task with retries runs the refused load again, with one queue entry per try.
* run_migrations.py:22-23, "safe to call on every container start": a runner whose CREATE TABLE, or guarded SQL, waited for that of another one fails; SQL without a guard is
  applied by both if they overlap (`AppliedOnce` says how often).
* row_count_delta.py:271: with a negative reference count the percentage is negative and passes any threshold. `RowsRemain` shows that such a count is not reached from a positive one below 100 %.
* distribution_check.py:11, unit swaps are caught: not where mean and deviation stay within 1e-10 in the new unit (`UnitSwapIsCaught` says exactly that), as of ten values 1e-12 that become 1e-11.
* distribution_check.py:23-27, "non-numeric field values" are caught: NaN is a float, compares as false and passes.
  A unit change by the factor -1 around a mean of zero is invisible to mean and deviation alike.
* fx_pipeline_demo.py:29-31, "today's actual rates. All assertions pass": only if they have moved by no more than the tolerance since the last publication.

## 6. Not modelled

* The test suite and the CI configuration are no part of the running system.
* Logging, wording of messages, evidence other than `FxEvidence`, rounding to four digits, infinities.
* `reset_pool()` is `close_pool()` by another name. `Publisher` and `ReviewQueueRouter` keep no state of their own.
* Nothing in `src/` resolves a review queue entry or deletes a staged record; the latter is modelled as the environment's because publisher.py mentions it.
* Other databases, and isolation levels stricter than READ COMMITTED.
