# QROS: a TLA+ model of the SaaS research pipeline and its stores

QROS (`researchos/`) is a research platform for financial data with a multi-tenant
SaaS in front of it (`researchos/saas/`, `supabase/migrations/`). Most of the
repository is deterministic computation on one dataset at a time. The parts where
processes or threads meet, where calls fail half-way and where records have to survive
a crash are the SaaS layer, the SQLite repository with its evidence graph, and the
parallel executor. They are what this project is about.

## 1. Inventory

| Component | State it keeps | Operations | What makes it hard |
|---|---|---|---|
| Research job store (`store.py`, `supabase_job_store.py`, `claim/renew/finish/record_*` SQL) | `research_run` row: status, attempt_count, lease token and expiry, error_code; `research_run_result` | create_idempotent, claim, renew, record_result, finish | leases that expire while their holder works, lost answers, the attempt budget |
| Research worker (`worker.py`, `worker_runtime.py`, `research_executor.py`) | local variables of the loop, one heartbeat thread | receive, claim, execute, record, finish, ack, renew | crash between any two calls, redelivery, a thread that outlives its `join` |
| Research queue (`queue.py`, pgmq) | messages with a visibility timeout | enqueue, receive, ack | at-least-once delivery, ack of a message that is gone |
| Run submission (`api.py: create_research_run`) | the run, the idempotency record | check quota, check concurrency, create, enqueue | check-then-act across transactions, failure after the commit |
| Retention deletion (`retention*.py`) | `retention_deletion_operation`, audit log | execute_deletion, require/complete reconciliation | three systems and no common transaction |
| Workspace deletion (`persistence/supabase.py`) | the same operation table, workspace tombstone | soft_delete_workspace | retries of a finished or a flagged operation |
| Claims and plan lock (`claim_api.py`, `claims/claim.py`, the governed-run SQL) | claim rows, runs bound to a claim and a plan | create, lock, create a governed run | read, modify, upsert without a version check |
| Validation and findings (`validation*.py`, `finding*.py`, their SQL) | one validation and one finding per run | post a validation, post a finding | what is written was read in an earlier call |
| Billing, entitlements (`billing.py`, `process_billing_event`) | billing events, subscription, entitlement | webhook deliveries | duplicates and reordering |
| Dataset upload (`api.py`, `datasets.py`, the `dataset_version` triggers) | dataset and version rows, stored objects | upload, new version, cleanup | content-addressed objects shared by uploads; cleanup after a lost answer |
| Repository (`storage/repository.py`) | SQLite tables (objects, cycles, audit_logs), one connection, one lock | save, delete, close, verify | threads share a connection; busy commits; a commit outside the lock |
| Evidence graph (`evidence/repository.py`) | evidence and lineage tables of the same file | append an artifact, add an edge | several statements that must commit together |
| Parallel executor (`orchestration/parallel.py`) | futures of the current wave | run | completion order, failure while siblings run |
| Rate limit, onboarding, auth, audit, reports | various rows | reads and single writes | little or no interleaving |
| Research core, quant engines, data engine, macro, risk, decision | none between calls | pure computation | numerical, not concurrent |

How they meet: the API inserts a run and then sends a queue message that names it
(two calls, no common transaction). A worker receives the message, claims the run
in the store, and holds it with a lease that its heartbeat thread renews. The
message stays invisible for `QUEUE_VISIBILITY_TIMEOUT_SECONDS` and comes back
unless it is acked. `count_active` and `count_monthly` read the rows the workers
change. The deletion operations share one table and one transition rule. A billing
event changes the entitlement that uploads are admitted under. A result is what a
validation names, a validation what a finding names, and both copy the claim and the
plan of the run. The evidence graph lives in the file and the transactions of the
repository.

`PROJECT.json` lists the hazards found in this code at their lines. The properties
below are aimed at that list.

## 2. Modules

| Module | Models |
|---|---|
| `ResearchRunStore` | the row of one run and the transactions on it, as operators from row to row |
| `ResearchWorkers` | API insert and send, queue, workers, heartbeats, clock, faults; extends `ResearchRunStore` |
| `RunLifecycle` | the abstract lifecycle of a run as an API client sees it; `ResearchWorkers` implements it |
| `ResearchSubmission` | concurrent `POST /v1/research-runs` of one workspace |
| `DeletionOperations` | `execute_deletion`, `soft_delete_workspace`, the operation store and the operator |
| `DeletionLedger` | what the operation records promise an auditor; `DeletionOperations` implements it |
| `ResearchLineage` | claim, plan lock, governed runs, results, validations, findings of one workspace |
| `BillingEvents` | webhook deliveries and what `process_billing_event` makes of them |
| `DatasetUploads` | uploads call by call, their cleanup, lost calls and crashes |
| `WorkspaceQuota` | the two composed: the entitlement is the limit of uploads |
| `ResearchRepository` | the threads of one process on the SQLite repository and its evidence graph |
| `ResearchHistory` | the append-only tables as a reader of the file sees them; `ResearchRepository` implements it |
| `ParallelWaves` | the caller and the pool threads of `ParallelResearchExecutor.run` |
| `*Proofs` | the theorems about the module of that name |
| `ResearchLeaseProofs` | the theorems about `ResearchWorkers` that need its timing constants |
| `MC*` | values of the constants for TLC |

An operator whose comment starts with
"Mutant:" is a deliberately wrong variant of the definition that follows it. No
specification uses them. They show that each property can fail.

### 2.1 ResearchRunStore and ResearchWorkers

One action is one remote call together with everything the process does with its
answer. A call ends in one of three ways (`Ends`): `ok`; `lost`, it never ran and the
caller sees an exception; `cut`, it ran and the caller sees an exception. `Crash`
ends a process between two calls and its heartbeat threads with it. `MaxFaults` bounds
`lost`, `cut` and `Crash` together.

| Action | Code |
|---|---|
| `CreateRun`, `Enqueue` | `create_research_run_idempotent`, then `enqueue_research_run` |
| `Receive` | `run_forever`'s `receive`; an exception there ends the process |
| `Claim` | `store.claim` and the start of the heartbeat; a refused claim raises |
| `Execute` | `GovernedResearchExecutor.execute`: some result or an exception |
| `Record` | `store.record_result`; a refusal or an exception leads to a finish as failed with `provenance_error` |
| `Finish` | `store.finish` with the target status, then `stop.set()` and `join(1.0)` |
| `Handle` | the `except` branch of `run_forever`: read the run, ack it if it is terminal |
| `Ack` | `queue.ack`; a message that is no longer there raises and ends the process |
| `Renew` | one turn of `_heartbeat`; any exception ends the thread |
| `Tick` | one unit of time for leases, visibility timeouts and heartbeats |

Abstractions: a lease token is the number of the attempt that drew it (the code draws
a fresh uuid exactly when it counts an attempt), a timestamp is the number of ticks
left, a result is its status and a stand-in for the rest of its manifest.
`RowDecodes` says whether the client can decode the rows that claim and renew return.
It is TRUE for the in-memory store. It is FALSE for the Supabase store at this commit
(finding 2), and the runs with TRUE describe the Supabase store once that is mended.
`pace` is a history variable: `late` once a tick has passed an overdue heartbeat. A fleet is
`Undisturbed` as long as no fault has happened and `pace` is `punctual`.

Rows are never deleted here, the `cancelled` status has no writer in the code, and a
record's mismatch of the source hash looks to the worker like a `lost` call.

### 2.2 ResearchSubmission

The handler's four calls that touch shared state are four actions: `CheckQuota`,
`CheckConcurrency`, `Create` (one SQL function: reserve the key and insert, or replay,
or refuse) and `Enqueue`. All other refusals are `Refuse`. A request inserts at most
one run, so a run has the name of its request. `RunEnds` stands for everything
`ResearchWorkers` does to a delivered run. `KeyExpires` is the 24 hour expiry of the
idempotency record, `MonthBegins` the start of a new month. A key reused with another
body is a 409 with the in-memory store, which raises `ValueError`. The Supabase store
lets a database error through, which the handler does not translate, so `Conflict` has
both codes.

### 2.3 DeletionOperations

A call is one execution of `execute_deletion` (a member of `Executors`) or of
`soft_delete_workspace` (`Requests`). `Reserve`, `Gates`, `Approve`, `Attempt`,
`Delete`, `Audit`, `Complete`, `Flag`, `FlagAudit` and `Repeat` are the steps of the
two functions in their order. `Allowed` is the transition table, the same in Python
and in SQL. The delete callback is external (`Destroy`). The operator is external too
and follows `docs/saas/RETENTION_DELETION_RECOVERY_RUNBOOK.md`: `Verify`,
`AppendMissing`, then the code's `CompleteReconciliation`. `RequireReconciliation` may
happen at any time.

### 2.4 ResearchLineage

A row is written by one database call. The requests that read first (plan lock,
validation, finding) are two steps of a client, with what was read kept in `req`, and
`Return` ends a request at any point, which also stands for lost calls and refused
writes. Every write of a claim is an upsert (`SaveClaim`). `CreateGovernedRun` is the
SQL function as it is written: its replay branch does not return, so the run is
inserted in any case. `UuidClaims` are the claim ids `record_result` accepts; the ids of
the claim endpoint are no UUIDs. Rows are not deleted here and keys do not lapse.

### 2.5 BillingEvents, DatasetUploads and WorkspaceQuota

A delivery is one step, because the function is one transaction that locks the
workspace's subscription. A message may carry no time, as `p_event_created_at` may be
null. `applied` is a history variable: the event whose projection the rows hold.

An upload is one action per remote call (`UploadDataset`, `CountDatasets`, `Probe`,
`Put`, `CreateDataset`, `CreateVersion`, `DeleteDataset`, `Remove`). `Answered` lets an
answer get lost after the call took effect, `Fault` fails a call before it does,
`Crash` ends the request. `Raised` is where an exception leads, by the `try` blocks of
the two functions. `Insertable` joins what the database checks at the insert: the
foreign key, the allocated number, the canonical path and the unique constraints.
`DeleteDataset` takes all versions of the dataset with it, whoever added them: the rows
cascade (`202609170001_saas_core.sql:43`), and since
`202609231000_dataset_storage_registry_hardening.sql:82-85` the immutability trigger
fires before an update only. `drawn` holds the uuids already drawn for datasets.
`orphans` is a history variable: the objects whose version went with its dataset.

### 2.6 ResearchRepository

`db` is what the shared connection sees, `disk` what is committed. One action is one
SQL statement or one operation on the lock. A transaction is `Enter`, its statements,
then `Commit`, `CommitBusy` with `CommitAgain`, `CommitClosed` or `Rollback`, the
branches of `_TransactionContext.__exit__`. `delete_object` is two actions outside the
lock. `save_cycle` and `save_audit_entry` go on with a second transaction (`After`).
A locked database shows in one of two places: at a writing statement, whose exception
rolls the transaction back and reaches the caller (`StatementLocked`; in WAL mode this is
where contention usually surfaces), or at the commit, which `__exit__` handles itself
(`CommitBusy`). `RefuseOverwrite` is the immutable conflict of `append_artifact`.
`save_object` accepts any object, an `AuditEntry` too: `Plain` may share ids with every
other set. `save_cycle` is an INSERT OR REPLACE, so `ResearchHistory` is append-only for
cycles in their ids, not in their contents. `Crash` drops what was not committed and
opens the file again. An audit row's hash is named by the row's id. `stored` and `split`
are history variables: rows whose transaction ended without an exception, and artifacts
that `delete_object` committed half-written.

### 2.7 ParallelWaves

`Start` and `Finish` are the pool (`concurrent.futures`, external): queued futures start
in order on at most `MaxWorkers` threads. The caller submits, takes futures as they
finish, cancels after a failure, and shuts the pool down (`Drain`, then `Joined`). An
exception that is no `Exception` leaves the loop without cancelling. The value of a
branch is the branch itself, so `DeclaredOrder` can compare the result with the plan.

## 3. Runs

| Run | Expect | Instance | Shows |
|---|---|---|---|
| `workers` | pass | 1 run, 2 workers, 3 results, 2 attempts, lease 2, visibility 3, 2 faults, fair | fencing, ack discipline, budget, recorded results; implements `RunLifecycle`; while undisturbed, no worker works under an expired lease and no run is attempted twice; every delivered run ends, the queue drains |
| `workers_stale_finish` | violation | 1 run, 1 worker | finding 1 |
| `workers_supabase_claim` | violation | 1 run, 1 worker, `RowDecodes = FALSE` | finding 2 |
| `submission` | pass | 4 requests, 2 keys, 2 bodies, limits 2 and 3, 2 faults | one run per reservation, consistent answers, no silent undelivered run, bounded overshoot of both limits |
| `deletion` | pass | 2 executors under one operation id of a dataset, 2 requests for one workspace, 2 faults | the record, the audit log, the resource and the answers agree, a settled operation is not retried; implements `DeletionLedger` |
| `lineage` | pass | 2 clients, 2 claims (1 with a UUID), 2 plans, 2 runs, 2 digests | lineage of findings, answers |
| `lineage_plan_lock` | violation | same | finding 3 |
| `quota` | pass | 2 clients, 3 datasets, 2 contents, 2 versions, 3 events, 1 fault | newest event wins, replays are inert, bounded overshoot, versions keep their numbers, clean uploads |
| `uploads_kept` | violation | same, no fault | finding 4 |
| `repository` | pass | 2 threads, 3 calls, 2 entries, 1 cycle, 2 artifacts, 2 tries, 2 faults, fair | audit chain, evidence graph; implements `ResearchHistory`; calls return |
| `repository_saved` | violation | same, 2 calls, 1 fault | finding 5 |
| `waves` | pass | waves of 4 and 3 branches, 2 threads, fair | barrier, declared order, `run` ends |

Bounds. Two attempts are enough for an expired holder and its successor, and for the
exhausting claim after both. Two faults are enough to lose an answer and then crash,
or to lose a delete and then the flag that should report it. The lease is shorter than
the visibility timeout, as in the code (900 s and 1200 s), and longer than the
heartbeat. Three requests on one key cover the winner, a replay and a conflict. In
`deletion` two callers race on one operation of each kind, and the two faults may hit
either. Two clients are enough for every race of one request with another in
`lineage` and `quota`; three datasets let both clients pass the limit of one. One fault
loses the answer of a version insert. In `repository` three calls cover two appenders
with a deletion or a close around them, and a cycle needs both of its transactions; two
tries let a commit be retried once and then give up; one id is both an artifact and a
plain object, so that the mirror can meet a conflict, and one audit entry is also saved
with `save_object`. In `waves` each wave has more
branches than threads. With limits of two and three, four requests can exceed the
concurrency limit by two and the monthly limit by one. `CHECK_DEADLOCK FALSE` is set everywhere because all of these systems come
to rest once their inputs are used up.

`LimitsUnlessRaced` is an implication between two temporal formulas: if at no time more
than n requests are between a check and the insert, then the limit is at no time exceeded
by more than n - 1. An invariant could only say this of the number of racers at the
moment, and the excess outlives the race that caused it.

Fairness. In `workers`, weak fairness of each worker's next step, of the heartbeat
threads and of the clock: calls return, executions end, threads are scheduled. Nothing
is assumed of clients. `Restart` has no fairness, because nothing in the repository
says who restarts a worker. The liveness properties therefore except the case that all
workers are and stay down. In `repository` (`CallsReturn`) each thread runs on until its
call returns; no fairness makes calls, busy commits or crashes happen, and `MaxFaults`
is what keeps the database from being busy for ever. The lock is free again and again
only as long as nobody leaks it, so weak fairness suffices for the two threads and the
bounded calls. In `waves` (`Returns`) the pool and the caller go on when they can, and
every branch ends; a branch that hangs blocks `run`, as in the code.

### Findings

1. `finish` compares the lease token and not the expiry, so an expired holder closes
   the run; `docs/saas/API_CONTRACT_V1.md:155` says a stale lease token cannot.
2. The Supabase `claim` raises `KeyError` on every granted claim: the SQL function does
   not return `source_dataset_sha256`, which `_row_to_job` reads. The attempt is spent.
3. A locked plan is not kept. A repeated POST of the claim stores it unlocked again, and
   of two racing lock requests the later one replaces the plan of the first.
   `claims/claim.py:210` says "exactly once", `:214` "cannot be replaced",
   `docs/saas/API_CONTRACT_V1.md:117` "immutable", and `test_claim_api.py:287` is a test of
   it. The theorem `LockLostToRaceHolds` says that these are the only two ways.
4. A stored version is not kept. When an upload creates a dataset and its version is
   refused because another client has already added version 1, the cleanup deletes the
   dataset and the other's version with it; the object stays without a row. The cleanup
   of a failed upload can also remove an object that another version refers to.
   `docs/saas/DATABASE_SCHEMA.md:188` says that the trigger rejects a delete, `:204` that a
   version remains readable and its object is not deleted.
5. After a commit that finds the database locked the repository rolls back and then
   commits nothing, and the call returns normally. `test_institutional.py:81` and `:110`
   expect every entry whose `save_audit_entry` returned; `repository.py:857` says that
   `audit_logs` and `objects` match both ways, and here the mirror is stored without its row.

Other behaviour met while modelling. No run states it as an error; a property or a
theorem says what remains true:

- A run whose send failed is answered 202 when the client repeats the request, but no
  message will ever name it, and it counts against the concurrency limit. A request that
  inserted a run no message names has answered an error (`UndeliveredRunsWereReported`),
  and until a first lost call every run named by a 202 is in the queue or about to be
  sent (`AcceptedIsEnqueuedUntilFault`).
- The limits on runs and the dataset limit are checked before and outside the
  transaction that inserts; `LimitsUnlessRaced` and `QuotaOvershoot` bound the excess.
- `complete_reconciliation` also closes a DELETE_ATTEMPTED operation, although its
  docstring speaks of RECONCILIATION_REQUIRED only; `CompletedMeansDeleted` holds all
  the same when the operator follows the runbook.
- A replayed governed run is inserted again, and a run governed by a claim of the API
  cannot record its result.
- A transaction on a closed repository keeps the lock (`CallsReturn` and the theorem `LockHasOwnerHolds` except it);
  `delete_object` commits another thread's open transaction (`split` in
  `EvidenceClosed`); `add_lineage_edge` accepts an edge that is no declared parent,
  which `verify_evidence` then rejects.

## 4. Proofs

TLAPS proves the following for every value of the constants that satisfies the named
assumptions (`ResultsAssumption`, `BudgetAssumption`, `FleetAssumption`,
`CallsAssumption`, `SubmissionAssumption`, `LineageAssumption`, `BillingAssumption`,
`UploadAssumption`, `QuotaAssumption`, `RepositoryAssumption`, `PlanAssumption`), which TLC
evaluates in the runs of the modules that state them.

`ResearchWorkersProofs`: `InvariantHolds` (`Spec => []IInv`), and from it `TypeHolds`,
`SucceededHasResultHolds`, `AckedRunIsFinalHolds`, `OneLeaseHolderHolds`,
`ExhaustedHolds`, the action property `SucceedsOnOwnResultHolds` and the refinement
`LifecycleImplemented`. `RowDecodes` is arbitrary in these proofs.

The argument. None of the properties is inductive alone. `SucceededHasResult` needs to
know that a worker about to finish without an error has its own result recorded
(`WorkerInv`), and that a recorded result never changes (`RecordRow`). That knowledge
survives the steps of other workers because the row only moves forward: attempts never
decrease, a result is written once, a terminal status stays (`RowsStep`).
`OneLeaseHolder` needs `TokensUnique`: no two workers have the same token of one run,
because a token is new when it is drawn and a worker's token never exceeds the
attempts already counted. The proof has one lemma per store operation, one per kind of
local step, and combines them per action.

`ResearchLeaseProofs`: what holds of leases and time. The hypothesis is
`BeatsBeforeExpiry` (`HeartbeatTicks < LeaseTicks`), which is true of the code for
every `lease_seconds` but 1: the interval is `max(1.0, lease_seconds / 3)`
(`worker.py:53`). That no call was lost or cut, no process died and every due heartbeat
was served before the clock moved on (`Undisturbed`) is part of the properties.
`LeaseHeldWhileWorkingHolds` says that then no worker works under an expired lease. The inductive invariant is `LeaseInv`: a working worker has
a heartbeat of its own that is due before the lease ends (`Covered`), and a heartbeat
that nobody stopped belongs to a working worker (`Attached`). A tick shortens both times
by one and cannot happen when the heartbeat is due, a renewal sets both, and nobody else
can take the run, since it is claimable only when its lease has ended. A fault breaks it
for good: a heartbeat whose renewal failed ends, and the worker goes on without.
`AttemptedOnceHolds` adds (`OnceInv`) that a running run is in a worker's hands, so that
a message delivered again finds nothing to claim; it needs `RowDecodes`, without which
an attempt is lost to nobody. `UndisturbedFinishIsNotStale` and
`DecodedClaimHandsOutLease` say when the sentences that findings 1 and 2 refute are
true: the first of an undisturbed fleet, the second without faults where the row decodes.

`DeletionOperationsProofs`: `InvariantHolds` and from it
`CompletedMeansDeletedHolds`, `DeletionIsOnRecordHolds`, `CompletedIsAuditedHolds`,
`AnswersHoldHolds`, and the action property `SettledIsNotRetriedHolds`. Here the
strengthening is `CallInv`: what a call knows at each step of its own program. It is
stable because resources stay gone, audit events stay logged, and an operation that
has begun never looks unbegun again (`Advance`).

`LedgerImplemented` is the refinement of `DeletionLedger`, whose variables are three of
the model's own. An abstract step has its condition in the ledger alone: destroy only
under a record that says so, log a completion and close an operation only when the
resource is gone. The concrete step has it in the caller's program counter, in the
operator's `verified` and in the answers that calls got, and the invariant carries it
from the one to the other.

`ResearchSubmissionProofs`: `OneRunPerKeyHolds`, `AnswersAgreeHolds` and
`UndeliveredRunsWereReportedHolds`. The strengthening says what a reservation names (a
row inserted by a request with its key and body) and what a request past its insert
knows of its own row.
`OvershootBounded` proves the bound on both limits for every n, and
`LimitsUnlessRacedHolds` the two instances that TLC checks. The argument is a sum: runs
that count and requests past the check together stay at most limit - 1 + n (`Room`). A
run comes into being only as a request past the check disappears, and a request passes
the check only when the runs are below the limit and the racers at most n. `Requests`
may be infinite: the sets of the sum start empty and change by one.
`AcceptedIsEnqueuedUntilFault` says that only after a lost call can a 202 name a run
that no message will name (section 3).

`ResearchLineageProofs`: `FindingLineageHolds`, `AnswersAreStoredHolds`
and the action property `LockLostToRaceHolds`, which is stated there because it is what
remains of the property finding 3 refutes. The invariant adds
what a request between its read and its write holds (`ReadsHold`: a lock request read an
open claim or its own plan, a finding request a VALIDATED validation). The rest the database compares again at the write, and it
stays true because results, validations and findings are written once.

`WorkspaceQuotaProofs`: `NewestEventWinsHolds` and `ReplayIsInertHolds` rest on
`LastIsNewest` (no recorded event is later than `last_billing_event_at`).
`VersionsNumberedHolds` and `CleanUploadsHolds` rest on what an upload knows at each call
(`Held`) and on who owns a dataset or an object without a version (`DatasetsOwned`,
`ObjectsOwned`; the objects in `orphans` nobody owns). They hold although another
client's cleanup may take the dataset away between any two calls. `QuotaOvershootHolds` is a counting argument: datasets and uploads past
the count (`Admitted`) together stay below some limit seen plus the number of clients.

`ResearchRepositoryProofs`: `AuditChainIntactHolds`, `EvidenceClosedHolds`,
`StoredUntilFault` and `LockHasOwnerHolds`. `Control` says
that a thread inside a transaction has the lock and nobody else is inside. `ChainInv`
adds that the row read by `SelectLast` is still the last one, `GraphInv` that `db` is
closed but for the artifact being appended, `StoreInv` that the append-only tables of
`db` contain those of `disk` and, until a first fault, that what was told stored is on
disk and what a thread past its writes wrote is in `db`. `StoredUntilFault` is what
remains of the property finding 5 refutes. All of them have to hold of `db` and of `disk`, since
`delete_object` may commit at any point.

`HistoryImplemented` is the refinement of `ResearchHistory`. It needs one more invariant,
`Pending`: at any time what the connection sees differs from the file by the record of
one call (`OneRecord`: an audit row, a cycle, an edge, or an artifact with some of its
edges), and by nothing when no thread is past its first write. The lock is one half of
the reason, and the rollback in every branch that releases it without a commit the
other. So a commit by anybody, `delete_object` included, is one step of the
history, and none of them can lose, rewrite or reorder a row.

`ParallelWavesProofs`: `WaveBarrierHolds` and `DeclaredOrderHolds`, from an invariant on
which futures of earlier, current and later waves may be in which state and on what
`values` holds for the branches seen.

Only model-checked: liveness (`EveryRunEnds`, `QueueDrains`, `CallsReturn`, `Returns`),
which rests on fairness and is out of the prover's reach. Every other property of a
passing run is a theorem.

## 5. Not modelled

- The computation itself (research core, quant engines, data engine, macro, risk,
  decision engine, intelligence): by far the larger part of the 150,000 lines of the
  implementation. It is numerical floating-point code, one input at a time, without
  state between calls: TLC cannot enumerate its inputs and a model of it would repeat
  it line by line. `Execute` and the branches of `ParallelWaves` are any result or an
  exception. For this reason the modules cover a small share of the repository's lines.
- pgmq, Postgres, SQLite, object storage and `concurrent.futures`: external; one SQL
  function or statement is one atomic step.
- Several processes on one SQLite file: `ResearchRepository` is one process. Two would
  race between `SELECT entry_hash` and `INSERT` (a deferred transaction begins at the
  insert), which is outside what the lock of the repository can order.
- An append that raised although `delete_object` had already committed its row: the model
  has the behaviour, and no property rules it out, since nothing in the repository says
  what an exception from an append means for the file.
- Malformed messages, a hanging executor, rows deleted under a worker, the purge of a
  workspace: see the hazards.
- Rate limiting, authentication, membership, sessions, reports, metrics: single calls
  that nothing interleaves with.

## 6. Plan

Done: all modules of section 2 and their proofs.

Open, in this order:

1. `WorkspaceLifecycle`: tombstones and purge composed with the worker pipeline, so that
   rows disappear under a worker.
2. Two processes on one repository file (deferred SQLite transactions).
3. An abstract executor that `ParallelWaves` implements, with its proof.
4. The pipeline repositories built on `ResearchRepository`.
