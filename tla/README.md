# dpone: verification of the governed load paths

dpone is a Python data-loading runtime. This directory holds TLA+ models of the
parts of it where several processes, several database sessions and failures meet:
the resumable, chunked *backfill campaign* that publishes into SQL Server through a
shadow table, with thread lanes or process lanes; the *target transaction
governance* that applies every load to a SQL Server target exactly once; the
*xmin handoff* from a backfill to incremental replication; the PostgreSQL ledger
that *mapped pods* share; the lock and state files of *orchestrated local runs*;
and *rolling windows* that replace parts of a ClickHouse table. The models are
checked with TLC on small instances. Every safety property and both refinements are
also proved with TLAPS for every value of the constants.

Source paths below are relative to `src/src/dpone/`; docs are under `src/docs/`.

## 1. Inventory

### Parts of the system that are modelled

**Campaign ledger** (`backfill/state.py`, `backfill/sql_state_mssql_*.py`).
State: an append-only revision chain of the campaign row (status, publication
phase, `lock_owner`) and of one row per chunk (status, owner, lease expiry,
attempts). Operations: acquire, renew, release and cancel the campaign; recover
stale chunks; acquire, renew and complete a chunk; save the publication phase.
Every mutation is one SERIALIZABLE transaction that first locks the campaign
row. Hard: mutations of an invocation that has lost the campaign but not
noticed; a commit whose acknowledgement is lost. Correct if: a chunk once
committed stays committed, and a lease is honoured until it expires or the
campaign changes hands.

**Campaign lease** (`backfill/campaign_lease.py`,
`backfill/sql_state_mssql_campaign.py`, `backfill/sql_locks.py`). State: a session application lock, held on a dedicated
connection; a local index of held campaigns; `lock_owner` in the ledger. The three
are changed by different calls on different connections, so each of them can
be stale. Correct if: the cutover is made by the only invocation that all three
name.

**Chunk executor** (`backfill/parallel_execution.py`,
`backfill/runtime_chunk_execution.py`, `runtime/_backfill_admission.py`,
`backfill/lease_heartbeat.py`). State: a
FIFO of pending chunks, an admission gate, per-chunk lanes, a heartbeat thread
per running chunk. Interactions: lanes call the ledger and the chunk runner (the
ETL processor); the coordinator renews the campaign lease; a heartbeat that
fails only sets a flag, the runner is not interrupted. Hard: a zombie lane
commits rows after its chunk was given to somebody else. Correct if: no row is
appended twice and every invocation ends.

**Backfill orchestrator and shadow publication**
(`runtime/etl/backfill_orchestrator.py`, `runtime/sinks/mssql_backfill_publication.py`,
`runtime/sinks/mssql_backfill_cutover.py`). State: the position of the run; the
shadow table; the open cutover transaction. Operations: admission, recovery,
preparation, execution, completeness decision, fence, rename, persist, commit,
release. Correct if: what is published is complete and exact, and a cancelled
campaign is not published.

**Target transaction governance** (`runtime/state/mssql_generic_*.py`). State:
per target a fence row (current generation and attempt), per invocation an
attempt row, per operation an operation row (owner, owner epoch, lease expiry)
and a receipt. Operations: probe for replay, allocate a generation, claim or
reclaim an operation, renew, assert current, insert the receipt, probe a lost
outcome on a fresh session. Correct if: receipt and effect agree, and a
superseded invocation writes nothing.

**Operation heartbeat, transactional finalizer, ETL processor**
(`runtime/etl/mssql_operation_lease.py`,
`runtime/sinks/strategies/mssql/mssql_transaction_finalizer.py`,
`runtime/etl/processor.py`). State: the admitted operation, the heartbeat
thread, the open transaction. Hard: DML that outlasts its lease; a COMMIT with
an unknown outcome; a renewal that is a claim and can reopen a lost operation.
Correct if: a reported failure has written nothing, and every load ends.

**Process-lane executor** (`backfill/process_lane_*.py`,
`backfill/process_chunk_execution.py`). State: the parent's queue, its claims in
the ledger (prepared, sent, running), a latched control error per lane, a pipe and
a process tree per lane. Operations: claim a batch, re-prove it, defer or send it,
serve frames (receipt probe, registration, success, failure), resolve an ambiguous
result, drain, abort. Hard: a lane dies after its commit; a send that raised was
delivered; a tree survives its kill; the parent is interrupted between a claim and
its send. Correct if: ledger and target agree on every chunk, a claim is given up
only when nobody can still commit it, no claim is left behind, and a hanging lane
does not hang the parent.

**Xmin handoff and checkpoints** (`backfill/xmin_handoff.py`,
`runtime/state/mssql_xmin_handoff.py`, `runtime/state/mssql_checkpoint_cas.py`,
`runtime/xmin/manager.py`, the PostgreSQL snapshot extractor). State: the anchor in
the campaign ledger, the checkpoint row with its revision, one receipt per load.
Operations: capture and save the anchor, load chunks, publish, seed, read the
checkpoint, extract a snapshot, reconcile, compare-and-set. Hard: transaction ids
commit out of order and wrap; the campaign dies anywhere; a COMMIT is in doubt.
Correct if: no source change falls between the backfill and the runs, an
incremental commit is exactly its snapshot, and never an older one than the last.

**PostgreSQL ledger under mapped pods** (`backfill/sql_state_base.py`,
`backfill/runtime_results.py`, `runtime/etl/backfill_mapped_campaign.py`). State:
two append-only journals, advisory locks, the attempt of each pod. Operations:
initialize, recover expired leases, select, claim, prove, renew, complete, report,
cancel. Hard: every statement commits by itself, and a save writes rows it read
earlier. Correct if: a pod works on a whole plan, and a reported success is loaded;
leases and committed rows are safe as far as saves do not overtake.

**Orchestrated local runs** (`orchestration/run.py`, `locks.py`, `resume.py`,
`state.py`). State: a lock file, a job state file. Operations: decide, acquire with
removal of a stale lock, execute, mark, release. Hard: every call on the lock file
goes by name; a worker dies with the lock, or between creating it and writing it; the
state is read before the lock is taken. Correct if: no lock is left behind, and the
lock of a worker that died does not block a job that may be retried for good.

**Bounded windows** (`runtime/bounded_window_*.py`,
`runtime/sinks/clickhouse_window_target.py`, the SQLite window store). State: the
lease with its fence, the journal of a run and its chunks, staging tables, the
prepared generation, the pending marker, evidence and source state. Operations:
acquire, stage and verify chunks in threads, prepare, exchange, settle, evidence,
advance, release. Hard: a superseded execution goes on; the reply of EXCHANGE is
lost; a second exchange undoes the first; parts of an attempt survive a crash.
Correct if: nothing published is undone, only whole chunks are published, source
state follows publication, and retries finish a published run.

### How they interact

The orchestrator takes the campaign, the executor's lanes claim chunks in the
ledger and call the processor for each; the processor's finalizer commits the
chunk's rows together with a receipt in one transaction; the lane then writes
the chunk's terminal status; when all chunks are committed the orchestrator
renames the shadow table and advances the ledger in one transaction.
`BackfillCampaign!Append` is the place where the two models meet: a chunk's rows
appear at most once whatever the number of attempts. That is what
`TargetOperation` establishes (`ReceiptMeansEffect`, `KeepsContract`). A COMMIT
whose outcome is unknown when the runner returns may still become visible later;
the campaign model has it appear before the runner raises. The difference cannot
be observed: the shadow table is read only by the cutover, and a chunk becomes
SUCCESS only through a later delivery of the same operation, which waits for the
locks of the undecided transaction before it finds the receipt.

### Parts that are not modelled

`PROJECT.json` lists all of them with the reason. CDC apply and checkpoint, Kafka
offsets, publication generations and their migration, cache retention, the native
delivery journal, semantic refresh and the dbt workspace keep state of their own
and are left for later modules. Of the modelled parts these are left out: the file
and ClickHouse ledgers (documented for one process), the campaign lock of the
PostgreSQL ledger, the xmin `save_state` route without a transaction, the
freeze-horizon check, repair authority and legacy publication binding. Planning,
manifest and type handling, reports, rendering and the command line have no state
that outlives a call. Source connectors and DML generation are I/O; the models keep
their outcomes (success, failure before commit, failure after). The repository
holds more than 700 000 lines, most of them such code, tests, tools and
generated matrices: the models cover the stateful core, a small share of the lines.

## 2. Plan

| order | module | question | status |
|---|---|---|---|
| 1 | `LedgerTransitions` | the transition policy as operators, with lemmas | done |
| 2 | `BackfillCampaign` implementing `BackfillContract` | invocations, lanes, faults, publication | done, proved |
| 3 | `TargetOperation` implementing `TransactionContract` | exactly-once application of a load | done, proved |
| 4 | `ProcessLanes` (on `LedgerTransitions`) | parent, lane processes, pipes, promotion of a chunk from its receipt | done, proved |
| 5 | `XminHandoff` | publication, seeding, incremental runs, checkpoint compare-and-set | done, proved |
| 6 | `PortableLedger` | mapped pods on the PostgreSQL ledger against the promises of docs/backfill.md | done, proved |
| 7 | `OrchestratedRun` | lock files, stale removal, resume decisions | done, proved |
| 8 | `BoundedWindow` | leases, staged chunks, exchange, evidence, retries | done, proved |
| 9 | one `...Proofs` module for each of 1 to 8 | every safety property of a passing run, for every value of the constants | done |
| 10 | CDC apply/checkpoint, Kafka offsets, cache leases, native delivery journal | one module each | later |

Abstract specifications: `BackfillContract` and `TransactionContract`. Composition:
`ProcessLanes` and `BackfillCampaign` use the same ledger transitions;
`BackfillCampaign` uses what `TargetOperation` establishes (section 1).

Every invariant, action property and refinement that a passing run checks is also a
theorem (section 5). What is left for the prover are contracts of their own for
`XminHandoff` and `BoundedWindow`, with the proofs that the detailed specifications
implement them. No module declares a recursive operator.

## 3. The modules and the code

### LedgerTransitions

Pure operators over a ledger record, one guard (`...OK`) and one update per
transition of `MSSQLLedgerTransitionPolicy`. The revision numbers of
the append-only rows are left out: the model keeps the latest committed revision,
the only one the readers use. `lock_expires_at` of the campaign is left out too:
the SQL Server policy writes it and never reads it, because the session lock
stands for liveness.

### BackfillCampaign

| variable | in the code |
|---|---|
| `ledger` | latest campaign and chunk revisions |
| `appLock` | the session owning `sp_getapplock` |
| `rowLock` | the open cutover transaction, which holds the campaign row |
| `held[r]` | `_held_recoverable_campaigns` of run r's store |
| `pc[r]` | position of `BackfillOrchestrator.run` |
| `queue[r]`, `admission[r]`, `errors[r]` | executor queue, `_ChunkAdmission`, recorded errors |
| `worker[r][c]`, `record[r][c]` | position of `_run_one`, attempts in the record it carries |
| `shadow[c]` | copies of chunk c in the shadow table |
| `now`, `faults` | clock and fault budget |

One action is one ledger mutation, one lock call or one return of the chunk
runner, with everything the code does locally around it. The choices made:

- The owner of a chunk is its run. The code makes a fresh identifier per attempt;
  an invocation attempts each chunk at most once, so the run identifies it.
- A chunk claim does not check the campaign owner, in the code and here. A
  zombie invocation can therefore claim, and the model lets it.
- Renewing the campaign reads the session lock and then the ledger; the two are
  one step. `acquire_campaign_lock` is two steps, since nothing reads the session
  lock again (see "Other behaviours" in section 4).
- A lost acknowledgement that the coordinator recovers is an ordinary success.
  One it cannot recover is `AcquireLedgerLost`, `ClaimLost` or `CompleteLost`,
  each with and without the commit. `StepRaises` and `HeartbeatRaises` are
  database errors elsewhere. The cutover recovers a lost acknowledgement from its
  receipt, so `CutoverLost` publishes nothing.
- The cutover aborts if the tick after it fails; this ends in `release` like
  every other exit.
- `Lanes = 1` is the configuration that target-atomic publication runs with;
  several lanes are the thread composition that the orchestrator's constructor
  permits.

Left out: portable scope binding, two invocations creating the ledger at once,
`retry_policy: failed_only` and the timeout of the publication gate. Process lanes,
the xmin handoff and mapped pods are modules of their own.

### TargetOperation

| variable | in the code |
|---|---|
| `fence`, `attempts`, `operations`, `receipts` | the four governance tables |
| `effects[o]` | how often the DML of o is in the target |
| `pc[w]`, `carried[w]` | position of the processor run, and the operation it carries |
| `heartbeat[w]` | the lease heartbeat thread |
| `tx[w]` | the finalizer's transaction as the server sees it |
| `newest`, `wrote` | auxiliary: generation of the last effect; whose transaction committed |

A worker is one processor run; several workers with the same attempt and scope are
retries or reclaims. Admission batches are SERIALIZABLE and atomic. The
finalizer's transaction spans several steps; between them it holds a shared
lock on the fence (`NoFenceReader`), an update lock on its operation row
(`OperationFree`, against its own heartbeat too) and the application locks
(`MutationLocksFree`). Choices:

- The expiry a claim asks for is what is left of the chunk lease: any time from
  now to `now + LeaseTTL`.
- A receipt found when the transaction opens is for the same input or for another
  one; both outcomes are possible.
- After a commit that raised, the server may still commit or abort, before or
  after the fresh-session probe.
- The errors LEASE_MODE_MISMATCH and IDENTITY_COLLISION need two callers that
  disagree about what a key means; the key determines both here.
- Schema and catalog revalidation are among the reasons of `LoadFails` and
  `Rollback`.
- The assertion of the heartbeat after the load does not turn a committed load
  into a failure (`processor.py`), so a lost heartbeat matters only up to
  `Extracted`.

### ProcessLanes

| variable | in the code |
|---|---|
| `phase`, `stop`, `resolving` | position of `run_process_chunk_lanes`, `stop_dispatch`, the lane being quiesced |
| `queue`, `batch`, `prepared`, `fresh` | pending chunks; the dispatch in progress, claimed and re-proved lanes |
| `running`, `control`, `registered`, `authorized` | what the parent holds per lane: dispatch, latched error, target operation, authorised probe |
| `tree`, `job`, `task`, `up`, `reply` | a lane's process tree, its position and chunk, its pipe |
| `ledger`, `receipt` | campaign ledger; receipts in the target |
| `verdict`, `trouble` | auxiliary: what the parent recorded, which system calls about a claim failed |

One iteration of the parent's loop may find any subset of heartbeats, ticks and
frames due, so "serve" leaves their order open. Leases have no clock here: the
ledger's expiry is in `BackfillCampaign`, and a takeover is what takes a claim away.
Killing a process tree has its two outcomes, proved dead or not. Process groups,
signal numbers and the identity checks on messages are left out.

### XminHandoff

| variable | in the code |
|---|---|
| `nextXid`, `latest`, `active`, `history` | the PostgreSQL source (external): ids, open transactions, table contents after every commit |
| `step`, `captured`, `record`, `loaded`, `shadow`, `published` | the campaign's process and its ledger |
| `target`, `checkpoint`, `receipts`, `txn` | the SQL Server side and its open transaction |
| `pc`, `prev`, `snap` | the incremental runs |

A version of a row is the id that wrote it. What a row shows of it is the id modulo
`EpochSize`, and the window test of `build_incremental_query` is on that. The target
lock leaves one transaction open at a time, which is `txn`; a COMMIT that raised
leaves it to the server. The campaign loads each key as a chunk in a snapshot of its
own, which is why the published table is a mixture of moments.

### PortableLedger

| variable | in the code |
|---|---|
| `campaign`, `rows` | latest rows of the two journals |
| `initLock`, `chunkLock` | initialization lock and advisory chunk locks |
| `seen`, `save` | the ledger a process has read, and the one it is appending |
| `todo`, `task`, `held`, `healthy`, `errors` | a pod's item, its transition, lease, heartbeat and errors |
| `loads` | pods whose run of a chunk is in the target |
| `torn` | auxiliary: a save has overwritten a row that had changed since it was read |

Every INSERT is a step. Consecutive SELECTs of one process are one step, for the
reason given in the module. The owner of a chunk is its pod, which attempts a chunk
once. The command line's cancellation is a process of its own.

### OrchestratedRun

`file` is the lock file (creator, payload written, older than its time to live),
`job` the job state file, `pc[p]` the attempt of worker p. Every call on the lock
file is a step; replacing the job state is atomic (`os.replace`). A crashed
attempt's file belongs to nobody, because its token dies with it. Age is a Boolean:
nothing depends on how old a lock is beyond its time to live. An exception anywhere
under the lock (`RunRaises`) leaves the job state as it is and releases the lock.

### BoundedWindow

| variable | in the code |
|---|---|
| `lease` | `window_leases`: last fence, unexpired or not |
| `held` | the execution inside `ExclusiveWindowWriterGuard.hold` (external) |
| `run`, `pc`, `cancelled`, `threads` | executions, by fence: main thread, events, chunk threads |
| `plans`, `phase`, `chunks` | invocation registry and journal |
| `attempts`, `target`, `gen`, `genMeta`, `pending` | ClickHouse tables, metadata file, pending marker |
| `evidenced`, `advanced` | effects of the evidence and state callbacks (external) |
| `exchanged`, `settled` | auxiliary: runs whose EXCHANGE was executed, and observed |

Choices: a journal write checks lease and revision in one SQLite transaction, and
only the lease holder writes, so the revision is not represented. A lease may expire
at any step of its holder. The guard is exclusive and joins the writers of an
execution whose lease is gone. Receipt, metadata and marker are saved without a
lease check, so they are steps of their own. The transient UNKNOWN outcome of an
exchange and the inspection that follows are one step. `LastAttempt` is 2 in the code.
A chunk whose rows or read-back break their contract is journalled as failed for good
(`RejectChunk`); an error nobody classified leaves it to the next execution
(`BreakChunk`). The `_check` before `publish` ends the execution, a lease check inside
it is reconciled (`Refuse`). Windows are disjoint: two runs replace the same window or
windows that do not meet, never overlapping ones.

### BackfillContract, TransactionContract

The promises without mechanisms. The first: rows of a chunk are appended once,
never after publication; only loaded chunks are committed; a campaign is
cancelled or completely published, never both. The second: an operation has at
most one effect, and a delivery reports success only for an effect that is there.

## 4. Runs

| run | instance | checks | states |
|---|---|---|---|
| `campaign` | 2 invocations, 2 chunks, 2 lanes, lease 2, 2 ticks, 1 fault | `TypeOK`, `PublishedIsComplete`, `CutoverIsExclusive`, `QuietCampaignIsPublished`, `SuccessIsFinal`, `LeaseIsRespected`, `KeepsContract` | 911k |
| `campaign_liveness` | 2 invocations, 2 chunks, 2 lanes, 1 fault, fair | `EveryRunEnds` | 252k |
| `operation` | 2 retries of one attempt, 1 worker of a later attempt, leased scope, 1 tick, fair | `TypeOK`, `LocksKeepOwner`, `ReceiptMeansEffect`, `FailureMeansNotWritten`, `SupersededNeverWrites`, `KeepsContract`, `EveryLoadEnds` | 418k |
| `lanes` | 3 chunks, 2 lanes, another invocation that goes for 1 of the chunks, 1 fault, fair parent | `TypeOK`, `FailedClaimsAreQuiescent`, `VerdictsFollowReceipts`, `NoClaimLeaks`, `StopDrains` | 693k |
| `xmin` | 2 keys, 2 runs, 2 source transactions on either side of an epoch's end, 2 faults, fair | `TypeOK`, `NoChangeIsLost`, `OutcomeIsHonest`, `RunsCommitTheirSnapshot`, `TargetNeverGoesBack`, `HandoffCompletes` | 1.6M |
| `ledger` | 2 pods, 2 chunks, lease 2, clock 2, a cancellation, 1 death | `TypeOK`, `PlanIsComplete`, `ReportIsHonest`, `LeasesProtectWork` | 2.3M |
| `ledger_committed` | 3 pods, 2 chunks, lease 1, clock 1, 1 death | `CommittedIsFinal` violated (finding 1) | |
| `run` | 3 workers with the 3 policies, 2 deaths, fair | `TypeOK`, `NoLockIsLeaked`, `OrphanLockIsReplaced` | 148k |
| `run_holder` | 2 workers, no faults, no ageing | `OneHolder` violated (finding 2) | |
| `window_publish` | 2 runs with a window each, 1 chunk, 2 attempts, 3 fences, 2 faults | `TypeOK`, `StateFollowsPublication`, `ChunksAreWholeAndLoadedOnce`, `NoPublicationIsUndone`, `NoExchangeIsBypassed` | 1.4M |
| `window_liveness` | 1 run, 2 chunks in 2 threads, 3 attempts, 3 fences, 1 fault, fair | `ExecutionsEnd`, `PublishedRunsComplete` | 15k |
| `window_recover` | 2 runs, 1 fault | `PublishedIsRecoverable` violated (finding 3) | |

Why these bounds are enough for the cases that matter. Two invocations are a
holder and an intruder. Two chunks separate "this chunk" from "the campaign" and let
two lanes overlap. A lease of two units and two ticks let a heartbeat extend a lease,
or let it expire when no heartbeat comes. In `operation` a claim may ask for what is
left of a chunk's lease, down to nothing, so one tick lets a reclaimed lease expire
again, which is when a renewal can take an operation back. In `lanes`
the third chunk is what makes a batch wait for a peer's news, so that a claim is
deferred; the other invocation goes for one chunk, which is one the parent has
claimed, sent or finished. In `xmin` the two ids are the last of one epoch and the
first of the next, and the larger may commit first; with the two runs this gives a
window across the epoch's end and two runs with the same safe xmin; two faults are a seed in doubt and a
crash. In `ledger` a second attempt of the same task recovers, claims and saves
beside the first. In `run` three workers are a holder, one who removes the lock
and one who creates it anew. In `window_publish` two runs are needed for a
generation that was built from an older target, three fences for a superseded
execution, its successor and a third, two faults for a lost reply followed by a crash.
Retries need more fences than there are faults, or the last retry may not happen:
`window_liveness` has three fences for one fault. The fault budget bounds crashes,
session losses, lost replies and errors of a single call only; failing runners
and refusals are free, and so are cancellations (in `lanes` they count as faults).

Symmetry is used in `campaign` and `ledger`, which check no liveness. Deadlock is
checked in the campaign and operation runs, whose models end in `Finished` and
`Done`. The other models have a scheduler or a bound on ids, fences or time that
may stop everything, so there it is not.

### Fairness

`EveryRunEnds` assumes weak fairness of each invocation's own steps, of each
lane's steps, and of SQL Server retiring the session of a process that has
ended. These are a running Python process and a running server. No fairness is
assumed of faults, of the clock or of the operator. `EveryLoadEnds` assumes weak
fairness of each worker, of the server deciding a commit that was sent, and of
the client driver returning from a commit, with an error if need be. `StopDrains`
assumes weak fairness of the parent's loop only: lanes may hang for ever.
`HandoffCompletes` assumes that the server ends what is sent to it, that a live
campaign goes on and that one which is down is started again (it is a scheduled
job). `OrphanLockIsReplaced` assumes that time passes and that each worker's
scheduler repeats its attempts. `ExecutionsEnd` and `PublishedRunsComplete` assume
scheduled threads, the expiry of a dead holder's lease, and a scheduler that
repeats a run which has not succeeded.

### Findings

1. `CommittedIsFinal`. `SQLBackfillStateStore.save` appends the rows of all chunks
   as they were read, without the chunks' locks. A chunk committed in between goes
   back, and a re-run loads it again. `docs/backfill.md:381` and `:795` say that
   committed chunks are skipped. `LeasesProtectWork`, proved for every instance, shows
   that such a save is the only way to lose a committed chunk or an exclusive lease.
2. `OneHolder`. A lock file whose payload is not written yet counts as stale and is
   removed: two attempts that start together can both hold the lock that
   `docs/orchestration.md:119` calls atomic. `NoLockIsLeaked` shows that this leaves
   no lock behind.
3. `PublishedIsRecoverable`. The pending marker is removed when the exchange is
   proven, before evidence and state. Once another run of the table has published,
   a retry of the first finds an UNKNOWN pair of UUIDs and fails for good, while
   `docs/rolling-window.md:193` says to retry it. With one run per table retries
   succeed (`PublishedRunsComplete`).
4. `LocksKeepOwner`. The finalizer's second `assert_current` does not ask for an
   unexpired lease. The locks keep owner and epoch, so a transaction that outlived its
   lease commits; nobody can reclaim the operation before. The comment above the call
   (`mssql_transaction_finalizer.py:209-211`) says that it "rolls back instead of
   committing as a stale owner". `tlc -config MCOperationExpired.cfg MCTargetOperation`
   checks that sentence (`ExpiredRollsBack`) and shows the commit, 8 states long. The
   target is safe either way (`ReceiptMeansEffect`, `SupersededNeverWrites`).
5. `mark_blocked` writes "blocked", which is resumable, over any state, and the state
   is read before the lock is taken. A committed run id is executed again by the policy
   resume after one refused attempt, and under any policy by an attempt that read the
   state before the commit. `docs/orchestration.md` lets a committed state end (line
   80), calls running and committed not resumable (lines 88-89) and asks for a new run
   id or a restart (line 115). `tlc -config MCRunCommitted.cfg MCOrchestratedRun` checks
   that rule (`CommittedIsKept`) and shows a default-policy worker whose second attempt
   overwrites its own commit. `OrphanLockIsReplaced` does not depend on this: it speaks
   of the states in which the documents allow a retry, and holds as well if
   `mark_blocked` spares running and committed states.

Other behaviours the models contain and no property excludes, because the code
lets them happen:

- `acquire_campaign_lock` commits the ledger claim without proving its session lock
  again (`AcquireLedger`): a run that lost its session takes the campaign row from
  the session that holds the lock. It is stopped at its next tick and publishes
  nothing (`CutoverIsExclusive`, `PublishedIsComplete`).
- When the reload after a durable claim raises (`ReloadLost`), the failure is
  written with the record read before the claim, and the counted attempt disappears.
- On the PostgreSQL ledger a chunk transition appends the campaign row it has read
  (`AppendCampaign`), and an acknowledged cancellation in between is lost.

## 5. Proofs

`LedgerTransitionsProofs` shows of each ledger transition that it keeps the type,
keeps committed chunks and says what it does to owner, phase and cancellation. These
lemmas keep ledger records out of the larger proofs.

**BackfillCampaignProofs** assumes `NoOwnerAssumption`, `ChunksAssumption`,
`BoundsAssumption` and, for the last theorem only, `OwnersAssumption` (somebody
starts an invocation): runs and chunks may be infinite sets, and the bounds are
arbitrary. The inductive invariant adds to `TypeOK`:

- `LoadedOnce`: a chunk is in the shadow table at most once; a SUCCESS chunk, and
  a chunk whose lane is about to report success, is there. Without the second
  half the terminal write could commit a chunk nobody loaded.
- `CompleteWhenPublishing`: from the completeness decision to the commit, every
  chunk is committed. The decision and the commit are many steps apart, with
  zombies in between; it survives because SUCCESS is final.
- `CutoverOwned`: the campaign row is locked by r exactly while r's cutover is
  between fence and commit; the ledger then names r and is not cancelled. It is
  preserved because every ledger mutation waits for that row.
- `OneOutcome`: published and cancelled exclude each other.
- `NotYetOwner`: the ledger does not name a run that has not made its own claim,
  so a takeover always changes the owner.

Theorems: `TypeCorrect`, `PublicationComplete`, `CutoverExclusive`,
`CommittedChunksFinal`, `LeasesAreRespected`, and `Refinement`: `BackfillCampaign`
implements `BackfillContract`.

`QuietIsPublished` needs a second invariant, `QuietInv`, which says what is true as
long as there was no fault, error, cancellation or publication: the first invocation
to get the session lock keeps it and works alone (`OneAtWork`), no lane starts before
the load (`LanesIdle`), and every chunk is on its way from PENDING over RUNNING to
SUCCESS (`RowsProgress`). If every invocation had ended unpublished, the lock would
belong to an ended invocation, which `OneAtWork` excludes. Trouble never goes away
(`QuietBefore`), so the invariant has to be kept by untroubled steps only.

**TargetOperationProofs** assumes `WorkersAssumption` only. The inductive
invariant adds to `TypeOK`: `Positions` (which transaction state goes with which
program position), `OneTransaction` (open transactions are of different
operations), `LocksKeepOwner` and `ReceiptMeansEffect` as they are checked, and
`SuccessHasReceipt` (a reported success has a receipt). `LocksKeepOwner` is what
makes the receipt insert safe: the fence and row locks freeze exactly the values
`assert_current` compared. Theorems: `OperationTypeCorrect`,
`ExactlyOnceEffect`, `OpenOwnerIsStable`, `HonestFailure`,
`CurrentGenerationWrites`, and `TransactionRefinement`: `TargetOperation`
implements `TransactionContract`.

**ProcessLanesProofs** assumes `LanesAssumption`: any finite set of lanes, any chunks,
a list of work that names each pending chunk once (the ledger's chunk identities are
unique), any number of faults. The invariant follows a chunk: it is in the queue, in one prepared
cell, in one running cell or finished, and no process knows it before it is sent
(`DispatchInv`). `LaneOK` says what a pipe may hold for each position of the lane
process; from this the parent may conclude from a frame what the lane has done. Without
"a registration precedes the commit" a dead lane's receipt would not be looked for, and
`VerdictsFollowReceipts` would fail. `ControlInv` says where the parent has proved process trees dead, `ClaimInv`
that a claim in the ledger is in one of the parent's cells unless its write raised.
Theorems: `TypeCorrect`, `FailedIsQuiescent`, `VerdictsAreTrue`, `ClaimsAreGivenBack`.

**XminHandoffProofs** assumes `XminAssumption`: finitely many runs, which differ from
the seed's load, an arbitrary epoch size and arbitrary bounds on ids and faults. The
argument has one idea. An id u is *passed* when no transaction below u is open or will
be opened; every anchor, safe xmin and checkpoint is passed from the moment it is
read. A table that agreed with the source then agrees with it for ever, but for rows
with ids from u on, which the next run reads (`Covers`). `CampaignInv`, `RunInv`,
`TxnInv` and `StoreInv` carry this from the anchor to the shadow table, the seed, the
snapshots, the open transaction and the checkpoint; `SnapshotInv` compares a
snapshot with the target only while the checkpoint is the one its run has read, which
is what the compare-and-set tests. The revision counts the receipts, so each load
commits once. Theorems: `TypeCorrect`, `ChangesAreKept`, `OutcomesAreTrue`,
`SnapshotsAreCommitted`, `TargetAdvances`.

**PortableLedgerProofs** assumes `LedgerAssumption`. Every statement commits by itself,
so the invariant relates what a process has read and is about to append (`seen`,
`save`, `task`) with what the journals hold now. `JournalInv`: nobody works before the
plan is complete, and a SUCCESS row stands for loaded rows. `SaverInv`: a save differs
from what it read only in rows that were untouched or whose lease had expired.
`PodInv`: what a pod has at hand at each position. `WorkInv`: unless a save was torn,
the row of a chunk somebody works on is that worker's lease, and whoever is about to
append a chunk's row replaces neither a success nor another's work. Theorems:
`TypeCorrect`, `PlansAreComplete`, `ReportsAreHonest` (both without any condition on
saves) and `LeasesProtect`.

**OrchestratedRunProofs** assumes `RunAssumption`. `OwnedFile`: a lock file bears the
token of an attempt that is between its creation and its removal, or somebody has
died. It is needed because removals go by name: an attempt may remove another's file,
never leave its own. Theorems: `TypeCorrect`, `LocksAreGivenBack`.

**BoundedWindowProofs** assumes `WindowAssumption`. A superseded execution goes on until
a fenced step refuses it, so each part of the invariant says what the lease fences,
what the guard's hold protects and what neither does. `LeaseInv` and `HoldInv`: fences
are handed out in order, and whoever is inside a call on the target holds the guard
alone. `JournalInv` and `ThreadInv`: nothing is staged for an attempt that is not
journalled, and the execution with the lease works on the journalled one. `TableInv`
and `GenerationInv`: tables have different UUIDs and whole rows, and a generation
stands where it was built until its exchange and where the target was from then on;
this is why two UUIDs tell the outcome of a lost EXCHANGE. `MarkerInv`: an exchange
nobody has read back is in the pending marker. `EffectInv`: evidence and state follow
the exchange. Theorems: `TypeCorrect`, `StateFollows`, `ChunksAreWhole`,
`PublicationsStand`, `ExchangesAreRead`.

Every inductive invariant was checked by TLC on the instances of section 4 before
it was proved.

Only model-checked: the liveness properties (`EveryRunEnds`, `EveryLoadEnds`,
`StopDrains`, `HandoffCompletes`, `OrphanLockIsReplaced`, `ExecutionsEnd`,
`PublishedRunsComplete`), because fairness and ENABLED are out of the prover's reach.
