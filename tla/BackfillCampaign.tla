-------------------------- MODULE BackfillCampaign --------------------------
(***************************************************************************)
(* A chunked backfill campaign on the SQL Server ledger.                   *)
(*                                                                         *)
(* Several orchestrator invocations (BackfillOrchestrator.run) may be      *)
(* started for the same campaign, by an operator or by a scheduler retry.  *)
(* Each one takes the session application lock, writes itself into the     *)
(* ledger, runs chunks on its lanes (BackfillChunkExecutor), publishes the *)
(* shadow table when every chunk is committed, and releases.  Invocations  *)
(* may crash, their lock session may be lost while the process lives on,   *)
(* a commit acknowledgement may be lost, a chunk runner may fail, leases   *)
(* expire, and an operator may cancel at any moment.                       *)
(*                                                                         *)
(* A ledger mutation is one SERIALIZABLE transaction that starts by        *)
(* locking the campaign row (MSSQLLedgerMutationCoordinator.run), so it is *)
(* one atomic step, enabled only while no publication transaction holds    *)
(* that row (rowLock).                                                     *)
(***************************************************************************)
EXTENDS LedgerTransitions, FiniteSets

CONSTANTS
    Lanes,      \* parallel_workers
    LeaseTTL,   \* length of a chunk lease, in clock units
    MaxNow,     \* bound on the clock
    MaxFaults   \* bound on crashes, session losses and lost acknowledgements

ASSUME ChunksAssumption == Chunks \subseteq Nat

(* At least one invocation is started. *)
ASSUME OwnersAssumption == Owners # {}

ASSUME BoundsAssumption ==
    /\ Lanes \in Nat \ {0}
    /\ LeaseTTL \in Nat \ {0}
    /\ MaxNow \in Nat
    /\ MaxFaults \in Nat

Runs == Owners
None == NoOwner

VARIABLES
    now,        \* the database clock
    ledger,     \* the latest committed campaign and chunk revisions
    appLock,    \* the run whose SQL session owns the application lock
    rowLock,    \* the run whose publication transaction is open
    held,       \* held[r]: r is in its store's _held_recoverable_campaigns
    pc,         \* where BackfillOrchestrator.run stands
    queue,      \* queue[r]: pending chunks not yet taken by a lane
    admission,  \* admission[r]: _ChunkAdmission is open
    errors,     \* errors[r]: the executor has recorded an error
    worker,     \* worker[r][c]: where _run_one stands for chunk c
    record,     \* record[r][c]: attempts in the chunk record loaded by r
    shadow,     \* shadow[c]: how many times chunk c is in the shadow table
    faults      \* faults injected so far

campaignVars == <<appLock, rowLock, held, pc>>
laneVars == <<queue, admission, errors, worker, record>>
vars == <<now, ledger, appLock, rowLock, held, pc, queue, admission, errors,
          worker, record, shadow, faults>>

RunState == {"new", "admitted", "recover", "load", "prepare", "save", "fence",
             "chunks", "settle", "publish", "validate", "renamed",
             "committing", "release", "unlock", "done", "crashed"}

WorkerState == {"idle", "claimed", "running", "lost", "ok", "raised", "done"}

(* States in which a lane is executing the chunk. *)
Active == {"claimed", "running", "lost", "ok", "raised"}

Ended(r) == pc[r] \in {"done", "crashed"}

Busy(r) == {c \in Chunks : worker[r][c] \in Active}

Init ==
    /\ now = 0
    /\ ledger = InitialLedger
    /\ appLock = None
    /\ rowLock = None
    /\ held = [r \in Runs |-> FALSE]
    /\ pc = [r \in Runs |-> "new"]
    /\ queue = [r \in Runs |-> {}]
    /\ admission = [r \in Runs |-> TRUE]
    /\ errors = [r \in Runs |-> FALSE]
    /\ worker = [r \in Runs |-> [c \in Chunks |-> "idle"]]
    /\ record = [r \in Runs |-> [c \in Chunks |-> 0]]
    /\ shadow = [c \in Chunks |-> 0]
    /\ faults = 0

-----------------------------------------------------------------------------
(* Campaign lease *)

Goto(r, label) == pc' = [pc EXCEPT ![r] = label]

(* renew_campaign_lock: the local index, the session lock and the ledger   *)
(* row must all still name this run.                                       *)
Owns(r) == held[r] /\ appLock = r /\ RenewCampaignOK(ledger, r)

(* A renewal that finds the session lock gone forgets the local ownership. *)
Forget(r) == held' = [held EXCEPT ![r] = @ /\ appLock = r]

(* tick(force=True): continue under a proved lease or abandon the run. *)
TickTo(r, next) ==
    /\ rowLock = None
    /\ Forget(r)
    /\ Goto(r, IF Owns(r) THEN next ELSE "release")

(* A campaign cancelled before publication is reported without any lock. *)
StartCancelled(r) ==
    /\ pc[r] = "new"
    /\ Cancelled(ledger) /\ ~Published(ledger)
    /\ Goto(r, "done")
    /\ UNCHANGED <<now, ledger, appLock, rowLock, held, laneVars, shadow, faults>>

(* sp_getapplock with a zero timeout on the dedicated session. *)
AcquireSession(r) ==
    /\ pc[r] = "new"
    /\ Cancelled(ledger) => Published(ledger)
    /\ IF appLock = None
       THEN appLock' = r /\ Goto(r, "admitted")
       ELSE UNCHANGED appLock /\ Goto(r, "done")
    /\ UNCHANGED <<now, ledger, rowLock, held, laneVars, shadow, faults>>

(* Mutant of AcquireLedger: a takeover does not wait at the publication    *)
(* gate of an open cutover transaction.                                    *)
AcquireLedgerUngated(r) ==
    /\ pc[r] = "admitted"
    /\ IF AcquireCampaignOK(ledger)
       THEN /\ ledger' = AcquireCampaign(ledger, r)
            /\ held' = [held EXCEPT ![r] = TRUE]
            /\ Goto(r, "recover")
            /\ UNCHANGED appLock
       ELSE /\ appLock' = IF appLock = r THEN None ELSE appLock
            /\ Goto(r, "done")
            /\ UNCHANGED <<ledger, held>>
    /\ UNCHANGED <<now, rowLock, laneVars, shadow, faults>>

(* The ledger half of acquire_campaign_lock, on another connection: the    *)
(* session lock is not read again.  A refusal releases the session lock.   *)
AcquireLedger(r) ==
    /\ pc[r] = "admitted"
    /\ rowLock = None
    /\ IF AcquireCampaignOK(ledger)
       THEN /\ ledger' = AcquireCampaign(ledger, r)
            /\ held' = [held EXCEPT ![r] = TRUE]
            /\ Goto(r, "recover")
            /\ UNCHANGED appLock
       ELSE /\ appLock' = IF appLock = r THEN None ELSE appLock
            /\ Goto(r, "done")
            /\ UNCHANGED <<ledger, held>>
    /\ UNCHANGED <<now, rowLock, laneVars, shadow, faults>>

RecoverStaleRunning(r) ==
    /\ pc[r] = "recover"
    /\ rowLock = None
    /\ ledger' = RecoverChunks(ledger, now)
    /\ Goto(r, "load")
    /\ UNCHANGED <<now, appLock, rowLock, held, laneVars, shadow, faults>>

(* The chunk records of the ledger just loaded. *)
Remember(r) ==
    record' = [record EXCEPT ![r] =
                 [c \in Chunks |-> ledger.chunks[c].attempts]]

(* Mutant of LoadLedger: only FAILED chunks are selected. *)
LoadOnlyFailed(r) ==
    /\ pc[r] = "load"
    /\ queue' = [queue EXCEPT ![r] =
                   {c \in Chunks : ledger.chunks[c].status = "failed"}]
    /\ Remember(r)
    /\ Goto(r, "prepare")
    /\ UNCHANGED <<now, ledger, appLock, rowLock, held, admission, errors,
                   worker, shadow, faults>>

(* The load that fixes the pending chunks and the records lanes start from. *)
LoadLedger(r) ==
    /\ pc[r] = "load"
    /\ queue' = [queue EXCEPT ![r] = Chunks \ Committed(ledger)]
    /\ Remember(r)
    /\ Goto(r, "prepare")
    /\ UNCHANGED <<now, ledger, appLock, rowLock, held, admission, errors,
                   worker, shadow, faults>>

(* run_fenced(before_chunks): a tick, the durable preparation, a tick. *)
PrepareTick(r) ==
    /\ pc[r] = "prepare"
    /\ TickTo(r, "save")
    /\ UNCHANGED <<now, ledger, appLock, rowLock, laneVars, shadow, faults>>

(* A published campaign with an uncommitted chunk is refused. *)
PrepareSave(r) ==
    /\ pc[r] = "save"
    /\ rowLock = None
    /\ IF Published(ledger) /\ ~AllCommitted(ledger)
       THEN Goto(r, "release") /\ UNCHANGED ledger
       ELSE Goto(r, "fence") /\ ledger' = SavePhase(ledger, "prepared")
    /\ UNCHANGED <<now, appLock, rowLock, held, laneVars, shadow, faults>>

PrepareFence(r) ==
    /\ pc[r] = "fence"
    /\ TickTo(r, "chunks")
    /\ UNCHANGED <<now, ledger, appLock, rowLock, laneVars, shadow, faults>>

-----------------------------------------------------------------------------
(* Chunk lanes: BackfillChunkExecutionMixin._run_one *)

SetWorker(r, c, state) == worker' = [worker EXCEPT ![r][c] = state]

(* An error in a lane closes admission for the whole invocation. *)
FailLane(r) ==
    /\ errors' = [errors EXCEPT ![r] = TRUE]
    /\ admission' = [admission EXCEPT ![r] = FALSE]

(* len(pending) at the start of the executor. *)
Selected(r) == queue[r] \cup {c \in Chunks : worker[r][c] # "idle"}

(* One lane, or one chunk, runs without the thread pool. *)
Sequential(r) == Lanes = 1 \/ Cardinality(Selected(r)) <= 1

(* A lane without a chunk takes the next one of the FIFO queue. *)
Takes(r, c) ==
    /\ pc[r] = "chunks"
    /\ admission[r]
    /\ Cardinality(Busy(r)) < Lanes
    /\ c \in queue[r]
    /\ \A d \in queue[r] : c <= d
    /\ queue' = [queue EXCEPT ![r] = @ \ {c}]

(* The durable claim, made inside the admission gate, and the reload of    *)
(* the claimed record.                                                     *)
Claim(r, c) ==
    /\ rowLock = None
    /\ AcquireChunkOK(ledger, c, now)
    /\ Takes(r, c)
    /\ ledger' = AcquireChunk(ledger, c, r, now + LeaseTTL)
    /\ record' = [record EXCEPT ![r][c] = ledger.chunks[c].attempts + 1]
    /\ SetWorker(r, c, "claimed")
    /\ UNCHANGED <<now, campaignVars, admission, errors, shadow, faults>>

(* Mutant of ClaimRefused: a refused chunk goes back to the queue. *)
ClaimRequeued(r, c) ==
    /\ rowLock = None
    /\ ~AcquireChunkOK(ledger, c, now)
    /\ pc[r] = "chunks" /\ admission[r] /\ c \in queue[r]
    /\ UNCHANGED vars

(* A refused claim closes admission; it is an error unless a peer has      *)
(* already committed the chunk.                                            *)
ClaimRefused(r, c) ==
    /\ rowLock = None
    /\ ~AcquireChunkOK(ledger, c, now)
    /\ Takes(r, c)
    /\ admission' = [admission EXCEPT ![r] = FALSE]
    /\ errors' = [errors EXCEPT ![r] =
                    @ \/ Cancelled(ledger) \/ c \notin Committed(ledger)]
    /\ SetWorker(r, c, "done")
    /\ UNCHANGED <<now, ledger, campaignVars, record, shadow, faults>>

(* The sequential executor also ticks the campaign lease on a renewal; a   *)
(* failing tick fails the heartbeat.                                       *)
HeartbeatFails(r, c) ==
    \/ ~RenewChunkOK(ledger, c, r, now)
    \/ Sequential(r) /\ ~Owns(r)

Renewed(r, c) ==
    IF RenewChunkOK(ledger, c, r, now)
    THEN RenewChunk(ledger, c, now + LeaseTTL) ELSE ledger

(* prove_ownership before the runner starts. *)
ProveOwnership(r, c) ==
    /\ worker[r][c] = "claimed"
    /\ rowLock = None
    /\ RenewChunkOK(ledger, c, r, now)
    /\ ledger' = Renewed(r, c)
    /\ SetWorker(r, c, "running")
    /\ UNCHANGED <<now, campaignVars, queue, admission, errors, record,
                   shadow, faults>>

ProveOwnershipFails(r, c) ==
    /\ worker[r][c] = "claimed"
    /\ rowLock = None
    /\ HeartbeatFails(r, c)
    /\ ledger' = Renewed(r, c)
    /\ SetWorker(r, c, "raised")
    /\ FailLane(r)
    /\ UNCHANGED <<now, campaignVars, queue, record, shadow, faults>>

(* A renewal by the daemon thread while the runner works. *)
Heartbeat(r, c) ==
    /\ worker[r][c] = "running"
    /\ rowLock = None
    /\ RenewChunkOK(ledger, c, r, now)
    /\ ledger.chunks[c].expires < now + LeaseTTL
    /\ ledger' = Renewed(r, c)
    /\ UNCHANGED <<now, campaignVars, laneVars, shadow, faults>>

(* A failed renewal only sets a flag: the runner is not interrupted. *)
HeartbeatLost(r, c) ==
    /\ worker[r][c] = "running"
    /\ rowLock = None
    /\ HeartbeatFails(r, c)
    /\ ledger' = Renewed(r, c)
    /\ SetWorker(r, c, "lost")
    /\ UNCHANGED <<now, campaignVars, queue, admission, errors, record,
                   shadow, faults>>

(* The chunk's target transaction: the append and its receipt are atomic   *)
(* and an existing receipt suppresses the append (module TargetOperation). *)
Append(c) == shadow' = [shadow EXCEPT ![c] = IF @ = 0 THEN 1 ELSE @]

(* The runner returns; assert_healthy turns a lost heartbeat into a        *)
(* failure although the target transaction is committed.                   *)
RunnerReturns(r, c) ==
    /\ worker[r][c] \in {"running", "lost"}
    /\ Append(c)
    /\ IF worker[r][c] = "running"
       THEN SetWorker(r, c, "ok") /\ UNCHANGED <<admission, errors>>
       ELSE SetWorker(r, c, "raised") /\ FailLane(r)
    /\ UNCHANGED <<now, ledger, campaignVars, queue, record, faults>>

(* The runner raises, before or after its target transaction committed. *)
RunnerRaises(r, c) ==
    /\ worker[r][c] \in {"running", "lost"}
    /\ Append(c) \/ UNCHANGED shadow
    /\ SetWorker(r, c, "raised")
    /\ FailLane(r)
    /\ UNCHANGED <<now, ledger, campaignVars, queue, record, faults>>

CompleteSuccess(r, c) ==
    /\ worker[r][c] = "ok"
    /\ rowLock = None
    /\ SetWorker(r, c, "done")
    /\ IF CompleteChunkOK(ledger, c, r)
       THEN /\ ledger' = CompleteChunk(ledger, c, "success", record[r][c])
            /\ UNCHANGED <<admission, errors>>
       ELSE FailLane(r) /\ UNCHANGED ledger
    /\ UNCHANGED <<now, campaignVars, queue, record, shadow, faults>>

CompleteFailed(r, c) ==
    /\ worker[r][c] = "raised"
    /\ rowLock = None
    /\ SetWorker(r, c, "done")
    /\ ledger' = IF CompleteChunkOK(ledger, c, r)
                 THEN CompleteChunk(ledger, c, "failed", record[r][c])
                 ELSE ledger
    /\ UNCHANGED <<now, campaignVars, queue, admission, errors, record,
                   shadow, faults>>

(* The thread coordinator's tick fails: no new claim, peers may finish. *)
CoordinatorLost(r) ==
    /\ pc[r] = "chunks"
    /\ ~Sequential(r)
    /\ rowLock = None
    /\ ~Owns(r)
    /\ admission[r] \/ ~errors[r]
    /\ FailLane(r)
    /\ Forget(r)
    /\ UNCHANGED <<now, ledger, appLock, rowLock, pc, queue, worker, record,
                   shadow, faults>>

(* Every lane has drained; the run re-proves its lease. *)
LanesDone(r) ==
    /\ pc[r] = "chunks"
    /\ Busy(r) = {}
    /\ queue[r] = {} \/ ~admission[r]
    /\ TickTo(r, "settle")
    /\ UNCHANGED <<now, ledger, appLock, rowLock, laneVars, shadow, faults>>

-----------------------------------------------------------------------------
(* Publication *)

(* Mutant of CampaignCompleted: an executor without errors is enough. *)
LanesCompleted(r) == ~errors[r] /\ ~Cancelled(ledger)

(* campaign_completed on the reloaded ledger. *)
CampaignCompleted(r) ==
    ~errors[r] /\ ~Cancelled(ledger) /\ AllCommitted(ledger)

Settle(r) ==
    /\ pc[r] = "settle"
    /\ Goto(r, IF CampaignCompleted(r) /\ ~Published(ledger)
               THEN "publish" ELSE "release")
    /\ UNCHANGED <<now, ledger, appLock, rowLock, held, laneVars, shadow, faults>>

PublishTick(r) ==
    /\ pc[r] = "publish"
    /\ TickTo(r, "validate")
    /\ UNCHANGED <<now, ledger, appLock, rowLock, laneVars, shadow, faults>>

(* Row count and duplicate-key evidence: every chunk is there exactly once. *)
ShadowExact == \A c \in Chunks : shadow[c] = 1

(* fence_publication_in_transaction: gate, session lock, campaign row. *)
FenceOK(r) ==
    /\ held[r] /\ appLock = r
    /\ RenewCampaignOK(ledger, r)

(* The cutover transaction opens, proves its authority and its candidate   *)
(* and renames the tables, all uncommitted.                                *)
CutoverFence(r) ==
    /\ pc[r] = "validate"
    /\ rowLock = None
    /\ IF FenceOK(r) /\ ~Published(ledger) /\ ShadowExact
       THEN rowLock' = r /\ Goto(r, "renamed")
       ELSE UNCHANGED rowLock /\ Goto(r, "release")
    /\ UNCHANGED <<now, ledger, appLock, held, laneVars, shadow, faults>>

(* persist_campaign_in_transaction proves the session lock once more. *)
CutoverPersist(r) ==
    /\ pc[r] = "renamed"
    /\ IF held[r] /\ appLock = r
       THEN UNCHANGED rowLock /\ Goto(r, "committing")
       ELSE rowLock' = None /\ Goto(r, "release")
    /\ UNCHANGED <<now, ledger, appLock, held, laneVars, shadow, faults>>

CutoverCommit(r) ==
    /\ pc[r] = "committing"
    /\ ledger' = [ledger EXCEPT !.phase = "published"]
    /\ rowLock' = None
    /\ Goto(r, "release")
    /\ UNCHANGED <<now, appLock, held, laneVars, shadow, faults>>

-----------------------------------------------------------------------------
(* Release *)

(* release_campaign_lock.  When the ledger names another owner the call    *)
(* returns early and the session lock stays with this session.             *)
ReleaseLedger(r) ==
    /\ pc[r] = "release"
    /\ IF held[r] /\ appLock = r
       THEN /\ rowLock = None
            /\ IF ReleaseCampaignOK(ledger, r)
               THEN /\ ledger' = ReleaseCampaign(ledger)
                    /\ held' = [held EXCEPT ![r] = FALSE]
                    /\ Goto(r, "unlock")
               ELSE UNCHANGED <<ledger, held>> /\ Goto(r, "done")
       ELSE /\ held' = [held EXCEPT ![r] = FALSE]
            /\ Goto(r, "done")
            /\ UNCHANGED ledger
    /\ UNCHANGED <<now, appLock, rowLock, laneVars, shadow, faults>>

ReleaseSession(r) ==
    /\ pc[r] = "unlock"
    /\ appLock' = IF appLock = r THEN None ELSE appLock
    /\ Goto(r, "done")
    /\ UNCHANGED <<now, ledger, rowLock, held, laneVars, shadow, faults>>

(* The process has ended and SQL Server retires its session. *)
SessionClose(r) ==
    /\ Ended(r)
    /\ appLock = r
    /\ appLock' = None
    /\ UNCHANGED <<now, ledger, rowLock, held, pc, laneVars, shadow, faults>>

-----------------------------------------------------------------------------
(* Environment: clock, operator, faults *)

Tick ==
    /\ now < MaxNow
    /\ now' = now + 1
    /\ UNCHANGED <<ledger, campaignVars, laneVars, shadow, faults>>

RequestCancel ==
    /\ rowLock = None
    /\ CancelOK(ledger)
    /\ ledger' = Cancel(ledger)
    /\ UNCHANGED <<now, campaignVars, laneVars, shadow, faults>>

Fault == faults < MaxFaults /\ faults' = faults + 1

(* The process dies: its lanes stop and its open transaction rolls back. *)
Crash(r) ==
    /\ pc[r] # "new" /\ ~Ended(r)
    /\ Fault
    /\ Goto(r, "crashed")
    /\ rowLock' = IF rowLock = r THEN None ELSE rowLock
    /\ worker' = [worker EXCEPT ![r] =
                    [c \in Chunks |-> IF @[c] \in Active THEN "done" ELSE @[c]]]
    /\ UNCHANGED <<now, ledger, appLock, held, queue, admission, errors,
                   record, shadow>>

(* The lock session is lost while the process goes on. *)
SessionLoss(r) ==
    /\ appLock = r /\ ~Ended(r)
    /\ Fault
    /\ appLock' = None
    /\ UNCHANGED <<now, ledger, rowLock, held, pc, laneVars, shadow>>

(* A database error raised by a step of the orchestrator: the finally      *)
(* clause releases, and an error of the release itself ends the run.       *)
StepRaises(r) ==
    /\ pc[r] \in {"recover", "load", "prepare", "save", "fence", "settle",
                 "publish", "validate", "release", "unlock"}
    /\ Fault
    /\ Goto(r, IF pc[r] \in {"release", "unlock"} THEN "done" ELSE "release")
    /\ UNCHANGED <<now, ledger, appLock, rowLock, held, laneVars, shadow>>

(* _renew_once takes a database error for a lost lease. *)
HeartbeatRaises(r, c) ==
    /\ worker[r][c] \in {"claimed", "running"}
    /\ Fault
    /\ IF worker[r][c] = "running"
       THEN SetWorker(r, c, "lost") /\ UNCHANGED <<admission, errors>>
       ELSE SetWorker(r, c, "raised") /\ FailLane(r)
    /\ UNCHANGED <<now, ledger, campaignVars, queue, record, shadow>>

(* commit_outcome_unknown on the campaign claim: the revision may be there *)
(* but the run gives up and releases its session lock.                     *)
AcquireLedgerLost(r) ==
    /\ pc[r] = "admitted"
    /\ rowLock = None
    /\ AcquireCampaignOK(ledger)
    /\ Fault
    /\ ledger' = AcquireCampaign(ledger, r) \/ UNCHANGED ledger
    /\ appLock' = IF appLock = r THEN None ELSE appLock
    /\ Goto(r, "done")
    /\ UNCHANGED <<now, rowLock, held, laneVars, shadow>>

(* An exceptional claim does not prove whether a lease was persisted. *)
ClaimLost(r, c) ==
    /\ rowLock = None
    /\ AcquireChunkOK(ledger, c, now)
    /\ Takes(r, c)
    /\ Fault
    /\ \/ ledger' = AcquireChunk(ledger, c, r, now + LeaseTTL)
       \/ UNCHANGED ledger
    /\ SetWorker(r, c, "done")
    /\ FailLane(r)
    /\ UNCHANGED <<now, campaignVars, record, shadow>>

(* The reload after a durable claim raises: the lane reports a failure     *)
(* with the record it started from.                                        *)
ReloadLost(r, c) ==
    /\ rowLock = None
    /\ AcquireChunkOK(ledger, c, now)
    /\ Takes(r, c)
    /\ Fault
    /\ ledger' = AcquireChunk(ledger, c, r, now + LeaseTTL)
    /\ SetWorker(r, c, "raised")
    /\ FailLane(r)
    /\ UNCHANGED <<now, campaignVars, record, shadow>>

(* A terminal write raises, committed or not. *)
CompleteLost(r, c) ==
    /\ worker[r][c] \in {"ok", "raised"}
    /\ rowLock = None
    /\ CompleteChunkOK(ledger, c, r)
    /\ Fault
    /\ \/ ledger' = CompleteChunk(ledger, c,
                        IF worker[r][c] = "ok" THEN "success" ELSE "failed",
                        record[r][c])
       \/ UNCHANGED ledger
    /\ SetWorker(r, c, "done")
    /\ FailLane(r)
    /\ UNCHANGED <<now, campaignVars, queue, record, shadow>>

(* The cutover transaction fails and nothing is published. *)
CutoverLost(r) ==
    /\ pc[r] \in {"renamed", "committing"}
    /\ Fault
    /\ rowLock' = None
    /\ Goto(r, "release")
    /\ UNCHANGED <<now, ledger, appLock, held, laneVars, shadow>>

(* Nothing is left to do: every invocation has ended. *)
Finished ==
    /\ \A r \in Runs : Ended(r)
    /\ UNCHANGED vars

-----------------------------------------------------------------------------
RunStep(r) ==
    \/ StartCancelled(r) \/ AcquireSession(r) \/ AcquireLedger(r)
    \/ RecoverStaleRunning(r) \/ LoadLedger(r) \/ PrepareTick(r) \/ PrepareSave(r)
    \/ PrepareFence(r) \/ CoordinatorLost(r) \/ LanesDone(r) \/ Settle(r)
    \/ PublishTick(r) \/ CutoverFence(r) \/ CutoverPersist(r)
    \/ CutoverCommit(r) \/ ReleaseLedger(r) \/ ReleaseSession(r)

ChunkStep(r, c) ==
    \/ Claim(r, c) \/ ClaimRefused(r, c)
    \/ ProveOwnership(r, c) \/ ProveOwnershipFails(r, c)
    \/ Heartbeat(r, c) \/ HeartbeatLost(r, c)
    \/ RunnerReturns(r, c) \/ RunnerRaises(r, c)
    \/ CompleteSuccess(r, c) \/ CompleteFailed(r, c)

FaultStep(r) ==
    \/ Crash(r) \/ SessionLoss(r) \/ StepRaises(r) \/ AcquireLedgerLost(r)
    \/ CutoverLost(r)
    \/ \E c \in Chunks :
          \/ HeartbeatRaises(r, c) \/ ClaimLost(r, c) \/ ReloadLost(r, c)
          \/ CompleteLost(r, c)

Next ==
    \/ \E r \in Runs : RunStep(r) \/ SessionClose(r) \/ FaultStep(r)
    \/ \E r \in Runs, c \in Chunks : ChunkStep(r, c)
    \/ Tick \/ RequestCancel \/ Finished

Spec == Init /\ [][Next]_vars

(* Every step of a live process is eventually taken and SQL Server         *)
(* eventually retires the session of an ended process.  Faults, the        *)
(* operator's cancellation and the clock are not scheduled.                *)
Fairness ==
    /\ \A r \in Runs : WF_vars(RunStep(r)) /\ WF_vars(SessionClose(r))
    /\ \A r \in Runs, c \in Chunks : WF_vars(ChunkStep(r, c))

FairSpec == Spec /\ Fairness

-----------------------------------------------------------------------------
(* The type invariant: the ledger has the shape of BackfillLedger, and the *)
(* invocation-local state stays within the orchestrator's and the lanes'   *)
(* control points.                                                         *)
TypeOK ==
    /\ now \in 0 .. MaxNow
    /\ ledger \in Ledger
    /\ appLock \in Runs \cup {None}
    /\ rowLock \in Runs \cup {None}
    /\ held \in [Runs -> BOOLEAN]
    /\ pc \in [Runs -> RunState]
    /\ queue \in [Runs -> SUBSET Chunks]
    /\ admission \in [Runs -> BOOLEAN]
    /\ errors \in [Runs -> BOOLEAN]
    /\ worker \in [Runs -> [Chunks -> WorkerState]]
    /\ record \in [Runs -> [Chunks -> Nat]]
    /\ shadow \in [Chunks -> Nat]
    /\ faults \in 0 .. MaxFaults

(* A published campaign has every chunk durably committed and in the       *)
(* published table exactly once, whatever crashed, expired, was orphaned   *)
(* or was retried on the way (after_chunks, MssqlBackfillCutover.publish). *)
PublishedIsComplete ==
    Published(ledger) => AllCommitted(ledger) /\ ShadowExact

(* While a cutover transaction is open no other invocation has been        *)
(* granted the campaign, even when the publisher's lock session is lost    *)
(* in mid-transaction: takeover waits at the publication gate.             *)
CutoverIsExclusive ==
    \A r \in Runs :
        rowLock = r =>
            /\ ledger.lockOwner = r
            /\ \A q \in Runs \ {r} : ~Owns(q)

(* A chunk recorded SUCCESS keeps its record for ever: neither takeover,   *)
(* nor stale recovery, nor a zombie lane of an earlier invocation undoes   *)
(* or repeats it.                                                          *)
SuccessIsFinal ==
    [][\A c \in Committed(ledger) : ledger'.chunks[c] = ledger.chunks[c]]_vars

(* A chunk leased to a lane leaves its hands only by that lane's own       *)
(* terminal write, by the expiry of its lease or by a new campaign owner:  *)
(* a zombie lane that lost the chunk earlier cannot fail or complete it    *)
(* under its new owner (complete_chunk_if_owned, acquire_chunk_lease).     *)
LeaseIsRespected ==
    [][\A c \in Chunks :
          LET old == ledger.chunks[c]
              new == ledger'.chunks[c]
          IN  (/\ old.status = "running"
               /\ <<new.status, new.owner>> # <<old.status, old.owner>>)
              => \/ worker[old.owner][c] # worker'[old.owner][c]
                 \/ Expired(old, now)
                 \/ ledger'.lockOwner # ledger.lockOwner]_vars

(* How the campaign row reads as an outcome of the contract. *)
Outcome ==
    CASE Published(ledger) /\ Cancelled(ledger) -> "both"
      [] Published(ledger) /\ ~Cancelled(ledger) -> "published"
      [] ~Published(ledger) /\ Cancelled(ledger) -> "cancelled"
      [] ~Published(ledger) /\ ~Cancelled(ledger) -> "open"

(* The shadow table and the ledger, read as the state of the contract. *)
Contract ==
    INSTANCE BackfillContract WITH
        copies <- shadow,
        committed <- Committed(ledger),
        outcome <- Outcome

(* The campaign keeps the promises of BackfillContract: rows are appended  *)
(* once and never after the swap, only loaded chunks are committed, and a  *)
(* campaign is cancelled or completely published, never both.              *)
KeepsContract == Contract!Spec

(* A campaign that met no fault, no cancellation and no chunk error is     *)
(* published by the time its invocations have ended.                       *)
QuietCampaignIsPublished ==
    (/\ \A r \in Runs : pc[r] = "done" /\ ~errors[r]
     /\ faults = 0
     /\ ~Cancelled(ledger))
    => Published(ledger)

(* Every invocation comes to an end: no lane, fence or row lock keeps      *)
(* BackfillOrchestrator.run waiting for ever.                              *)
EveryRunEnds == \A r \in Runs : <>Ended(r)
=============================================================================
