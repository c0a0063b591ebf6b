----------------------- MODULE BackfillCampaignProofs -----------------------
(***************************************************************************)
(* Safety of BackfillCampaign for every number of invocations, chunks,     *)
(* lanes, faults and clock values.  The inductive invariant IInv relates   *)
(* the orchestrator's position, the open cutover transaction, the lanes'   *)
(* results, the shadow table and the ledger; the safety properties that    *)
(* TLC checks follow from it.  QuietInv, at the end, adds what is true as  *)
(* long as nothing has gone wrong.                                         *)
(***************************************************************************)
EXTENDS BackfillCampaign, LedgerTransitionsProofs

(* A committed chunk is in the shadow table, and so is the chunk of a lane *)
(* that is about to report success.                                        *)
LoadedOnce ==
    /\ \A c \in Chunks : shadow[c] \in {0, 1}
    /\ \A c \in Chunks : ledger.chunks[c].status = "success" => shadow[c] = 1
    /\ \A r \in Runs, c \in Chunks : worker[r][c] = "ok" => shadow[c] = 1

Publishing == {"publish", "validate", "renamed", "committing"}
InCutover == {"renamed", "committing"}

(* From campaign_completed on, every chunk is committed. *)
CompleteWhenPublishing ==
    /\ \A r \in Runs : pc[r] \in Publishing => AllCommitted(ledger)
    /\ Published(ledger) => AllCommitted(ledger)

(* The open cutover transaction belongs to the ledger's owner, and no      *)
(* cancellation has been recorded.                                         *)
CutoverOwned ==
    /\ \A r \in Runs : rowLock = r <=> pc[r] \in InCutover
    /\ \A r \in Runs : rowLock = r =>
                         ledger.lockOwner = r /\ ~Cancelled(ledger)

(* Publication and cancellation exclude each other. *)
OneOutcome == ~(Published(ledger) /\ Cancelled(ledger))

(* An invocation is named in the ledger only after its own acquisition. *)
NotYetOwner ==
    \A r \in Runs : pc[r] \in {"new", "admitted"} => ledger.lockOwner # r

IInv ==
    /\ TypeOK
    /\ LoadedOnce
    /\ CompleteWhenPublishing
    /\ CutoverOwned
    /\ OneOutcome
    /\ NotYetOwner


-----------------------------------------------------------------------------
(* The target append leaves exactly one copy of its chunk. *)
LEMMA AppendFacts ==
    ASSUME TypeOK, LoadedOnce, NEW c \in Chunks, Append(c)
    PROVE  /\ shadow' \in [Chunks -> Nat]
           /\ shadow'[c] = 1
           /\ \A d \in Chunks \ {c} : shadow'[d] = shadow[d]
BY DEF TypeOK, LoadedOnce, Append

(* A lane's position changes for one chunk only. *)
LEMMA SetWorkerFacts ==
    ASSUME TypeOK, NEW r \in Runs, NEW c \in Chunks,
           NEW state \in WorkerState, SetWorker(r, c, state)
    PROVE  /\ worker' \in [Runs -> [Chunks -> WorkerState]]
           /\ worker'[r][c] = state
           /\ \A q \in Runs, d \in Chunks :
                q # r \/ d # c => worker'[q][d] = worker[q][d]
BY DEF TypeOK, SetWorker

(* Steps that rewrite chunk rows, with no cutover open, keep the           *)
(* invariant: what they may commit is already in the shadow table.         *)
LEMMA ChunkRowsStep ==
    ASSUME IInv, TypeOK', UNCHANGED <<rowLock, pc, shadow>>,
           SameCampaign(ledger, ledger'),
           NEW S, Advance(ledger, ledger', S),
           \A c \in Chunks : c \in S => shadow[c] = 1,
           \A r \in Runs, c \in Chunks :
               worker'[r][c] = "ok" => worker[r][c] = "ok"
    PROVE  IInv'
<1>1. AllCommitted(ledger) => AllCommitted(ledger)'
  BY AdvanceKeepsAll
<1>2. LoadedOnce'
  BY DEF IInv, LoadedOnce, Advance
<1>3. /\ Cancelled(ledger)' <=> Cancelled(ledger)
      /\ Published(ledger)' <=> Published(ledger)
      /\ ledger'.lockOwner = ledger.lockOwner
  BY DEF SameCampaign, Cancelled, Published
<1>4. CompleteWhenPublishing' /\ CutoverOwned' /\ OneOutcome' /\ NotYetOwner'
  BY <1>1, <1>3 DEF IInv, CompleteWhenPublishing, CutoverOwned, OneOutcome,
                    NotYetOwner
<1>5. QED
  BY <1>2, <1>4 DEF IInv

-----------------------------------------------------------------------------
(* The fresh campaign satisfies the invariant. *)
LEMMA InitIInv == Init => IInv
<1> SUFFICES ASSUME Init PROVE IInv
  OBVIOUS
<1>1. TypeOK
  BY InitialLedgerFacts, BoundsAssumption
  DEF Init, TypeOK, Runs, None, RunState, WorkerState
<1>2. QED
  BY <1>1, InitialLedgerFacts, NoOwnerAssumption
  DEF Init, IInv, LoadedOnce, CompleteWhenPublishing, CutoverOwned,
      OneOutcome, NotYetOwner, Publishing, Runs, None, InCutover

(* Steps of the orchestrator that leave the ledger alone. *)
LEMMA OrchestratorStep ==
    ASSUME IInv, NEW r \in Runs,
           \/ StartCancelled(r) \/ AcquireSession(r) \/ LoadLedger(r)
           \/ PrepareTick(r)
           \/ PrepareFence(r) \/ CoordinatorLost(r) \/ LanesDone(r)
           \/ Settle(r) \/ PublishTick(r) \/ CutoverFence(r)
           \/ CutoverPersist(r) \/ ReleaseSession(r) \/ SessionClose(r)
    PROVE  IInv'
<1> USE NoOwnerAssumption
    DEF IInv, TypeOK, LoadedOnce, CompleteWhenPublishing, CutoverOwned,
        OneOutcome, NotYetOwner, Publishing, InCutover, Runs, None, RunState,
        Goto, TickTo, Forget, laneVars
<1>StartCancelled. CASE StartCancelled(r)
  BY <1>StartCancelled DEF StartCancelled
<1>AcquireSession. CASE AcquireSession(r)
  <2>1. CASE appLock = None
    BY <1>AcquireSession, <2>1 DEF AcquireSession
  <2>2. CASE appLock # None
    BY <1>AcquireSession, <2>2 DEF AcquireSession
  <2> QED
    BY <2>1, <2>2
<1>LoadLedger. CASE LoadLedger(r)
  <2>1. \A c \in Chunks : ledger.chunks[c].attempts \in Nat
    BY DEF Ledger, ChunkRecord
  <2>2. TypeOK'
    BY <1>LoadLedger, <2>1 DEF LoadLedger, Remember, Committed
  <2> QED
    BY <1>LoadLedger, <2>2 DEF LoadLedger
<1>PrepareTick. CASE PrepareTick(r)
  BY <1>PrepareTick DEF PrepareTick
<1>PrepareFence. CASE PrepareFence(r)
  BY <1>PrepareFence DEF PrepareFence
<1>CoordinatorLost. CASE CoordinatorLost(r)
  BY <1>CoordinatorLost DEF CoordinatorLost, FailLane
<1>LanesDone. CASE LanesDone(r)
  BY <1>LanesDone DEF LanesDone
<1>Settle. CASE Settle(r)
  BY <1>Settle DEF Settle, CampaignCompleted
<1>PublishTick. CASE PublishTick(r)
  BY <1>PublishTick DEF PublishTick
<1>CutoverFence. CASE CutoverFence(r)
  <2>1. rowLock = None /\ AllCommitted(ledger)
    BY <1>CutoverFence DEF CutoverFence
  <2>2. CASE rowLock' = r
    <3>1. /\ pc' = [pc EXCEPT ![r] = "renamed"]
          /\ ledger.lockOwner = r /\ ~Cancelled(ledger)
          /\ UNCHANGED <<now, ledger, appLock, held, laneVars, shadow, faults>>
      BY <1>CutoverFence, <2>1, <2>2
      DEF CutoverFence, FenceOK, RenewCampaignOK
    <3> QED
      BY <2>1, <2>2, <3>1
  <2>3. CASE rowLock' # r
    BY <1>CutoverFence, <2>1, <2>3 DEF CutoverFence
  <2> QED
    BY <2>2, <2>3
<1>ReleaseSession. CASE ReleaseSession(r)
  BY <1>ReleaseSession DEF ReleaseSession
<1>SessionClose. CASE SessionClose(r)
  BY <1>SessionClose DEF SessionClose
<1>CutoverPersist. CASE CutoverPersist(r)
  <2>1. rowLock = r /\ AllCommitted(ledger)
    BY <1>CutoverPersist DEF CutoverPersist
  <2>2. CASE held[r] /\ appLock = r
    BY <1>CutoverPersist, <2>1, <2>2 DEF CutoverPersist
  <2>3. CASE ~(held[r] /\ appLock = r)
    BY <1>CutoverPersist, <2>1, <2>3 DEF CutoverPersist
  <2> QED
    BY <2>2, <2>3
<1> QED
  BY <1>StartCancelled, <1>AcquireSession, <1>LoadLedger, <1>PrepareTick, <1>PrepareFence, <1>CoordinatorLost, <1>LanesDone, <1>Settle, <1>PublishTick, <1>CutoverFence, <1>ReleaseSession, <1>SessionClose, <1>CutoverPersist

(* Steps of the orchestrator that commit a campaign revision. *)
LEMMA RevisionStep ==
    ASSUME IInv, NEW r \in Runs,
           \/ AcquireLedger(r) \/ AcquireLedgerLost(r)
           \/ RecoverStaleRunning(r) \/ PrepareSave(r) \/ CutoverCommit(r)
           \/ ReleaseLedger(r)
    PROVE  IInv'
<1>0. ledger \in Ledger
  BY DEF IInv, TypeOK
<1>Takeover. ASSUME ledger' = AcquireCampaign(ledger, r)
             PROVE  /\ ledger' \in Ledger
                    /\ ~Cancelled(ledger)'
                    /\ Published(ledger)' <=> Published(ledger)
                    /\ ledger'.lockOwner = r
                    /\ AllCommitted(ledger) => AllCommitted(ledger)'
                    /\ \A c \in Chunks : ledger'.chunks[c].status = "success"
                         => ledger.chunks[c].status = "success"
  <2>1. Advance(ledger, ledger', {})
    BY <1>0, <1>Takeover, AcquireCampaignFacts DEF Runs
  <2>2. AllCommitted(ledger) => AllCommitted(ledger)'
    BY <2>1, AdvanceKeepsAll
  <2>3. ledger'.status = "active" /\ ledger'.lockOwner = r
        /\ ledger'.phase = ledger.phase
    BY <1>0, <1>Takeover, AcquireCampaignFacts DEF Runs
  <2> QED
    BY <2>1, <2>2, <2>3 DEF Advance, Cancelled, Published
<1>AcquireLedger. CASE AcquireLedger(r)
  <2>1. CASE AcquireCampaignOK(ledger)
    <3>1. ledger' = AcquireCampaign(ledger, r)
      BY <1>AcquireLedger, <2>1 DEF AcquireLedger
    <3>2. TypeOK'
      BY <1>AcquireLedger, <2>1, <3>1, <1>Takeover
      DEF AcquireLedger, IInv, TypeOK, Goto, RunState, laneVars
    <3>3. LoadedOnce'
      BY <1>AcquireLedger, <3>1, <1>Takeover
      DEF AcquireLedger, IInv, LoadedOnce, laneVars
    <3>4. QED
      BY <1>AcquireLedger, <2>1, <3>1, <3>2, <3>3, <1>Takeover,
         NoOwnerAssumption
      DEF AcquireLedger, IInv, TypeOK, CompleteWhenPublishing, CutoverOwned,
          OneOutcome, NotYetOwner, Publishing, InCutover, Runs, None, Goto
  <2>2. CASE ~AcquireCampaignOK(ledger)
    BY <1>AcquireLedger, <2>2, NoOwnerAssumption
    DEF AcquireLedger, IInv, TypeOK, LoadedOnce, CompleteWhenPublishing,
        CutoverOwned, OneOutcome, NotYetOwner, Publishing, InCutover, Runs,
        None, Goto, RunState, laneVars
  <2> QED
    BY <2>1, <2>2
<1>AcquireLedgerLost. CASE AcquireLedgerLost(r)
  <2>1. CASE ledger' = AcquireCampaign(ledger, r)
    <3>1. TypeOK'
      BY <1>AcquireLedgerLost, <2>1, <1>Takeover, BoundsAssumption
      DEF AcquireLedgerLost, IInv, TypeOK, Goto, RunState, laneVars, Fault
    <3>2. LoadedOnce'
      BY <1>AcquireLedgerLost, <2>1, <1>Takeover
      DEF AcquireLedgerLost, IInv, LoadedOnce, laneVars
    <3> QED
      BY <1>AcquireLedgerLost, <2>1, <3>1, <3>2, <1>Takeover,
         NoOwnerAssumption
      DEF AcquireLedgerLost, IInv, TypeOK, CompleteWhenPublishing,
          CutoverOwned, OneOutcome, NotYetOwner, Publishing, InCutover, Runs,
          None, Goto
  <2>2. CASE UNCHANGED ledger
    <3>1. TypeOK'
      BY <1>AcquireLedgerLost, <2>2, BoundsAssumption
      DEF AcquireLedgerLost, IInv, TypeOK, Goto, RunState, laneVars, Fault
    <3> QED
      BY <1>AcquireLedgerLost, <2>2, <3>1, NoOwnerAssumption
      DEF AcquireLedgerLost, IInv, TypeOK, LoadedOnce,
          CompleteWhenPublishing, CutoverOwned, OneOutcome, NotYetOwner,
          Publishing, InCutover, Runs, None, Goto, laneVars
  <2> QED
    BY <1>AcquireLedgerLost, <2>1, <2>2 DEF AcquireLedgerLost
<1>RecoverStaleRunning. CASE RecoverStaleRunning(r)
  <2>1. Advance(ledger, ledger', {}) /\ SameCampaign(ledger, ledger')
    <3>1. now \in Nat
      BY BoundsAssumption DEF IInv, TypeOK
    <3> QED
      BY <1>RecoverStaleRunning, <1>0, <3>1, RecoverChunksFacts
      DEF RecoverStaleRunning
  <2>2. AllCommitted(ledger) => AllCommitted(ledger)'
    BY <2>1, AdvanceKeepsAll
  <2>3. TypeOK'
    BY <1>RecoverStaleRunning, <2>1
    DEF RecoverStaleRunning, IInv, TypeOK, Goto, RunState, laneVars, Advance
  <2>4. LoadedOnce'
    BY <1>RecoverStaleRunning, <2>1
    DEF RecoverStaleRunning, IInv, LoadedOnce, laneVars, Advance
  <2> QED
    BY <1>RecoverStaleRunning, <2>1, <2>2, <2>3, <2>4, NoOwnerAssumption
    DEF RecoverStaleRunning, IInv, TypeOK, CompleteWhenPublishing,
        CutoverOwned, OneOutcome, NotYetOwner, Publishing, InCutover, Runs,
        None, Goto, SameCampaign, Cancelled, Published
<1>PrepareSave. CASE PrepareSave(r)
  <2>1. /\ ledger' \in Ledger
        /\ ledger'.status = ledger.status
        /\ Published(ledger)' <=> Published(ledger)
        /\ ledger'.lockOwner = ledger.lockOwner
        /\ ledger'.chunks = ledger.chunks
    BY <1>PrepareSave, <1>0, CampaignRowFacts DEF PrepareSave
  <2>2. AllCommitted(ledger)' <=> AllCommitted(ledger)
    BY <2>1 DEF AllCommitted
  <2>4. TypeOK'
    BY <1>PrepareSave, <2>1
    DEF PrepareSave, IInv, TypeOK, Goto, RunState, laneVars
  <2>5. LoadedOnce'
    BY <1>PrepareSave, <2>1 DEF PrepareSave, IInv, LoadedOnce, laneVars
  <2> QED
    BY <1>PrepareSave, <2>1, <2>2, <2>4, <2>5, NoOwnerAssumption
    DEF PrepareSave, IInv, TypeOK, CompleteWhenPublishing, CutoverOwned,
        OneOutcome, NotYetOwner, Publishing, InCutover, Runs, None, Goto,
        Cancelled
<1>CutoverCommit. CASE CutoverCommit(r)
  <2>1. /\ ledger' \in Ledger
        /\ ledger'.chunks = ledger.chunks
        /\ ledger'.lockOwner = ledger.lockOwner
        /\ Cancelled(ledger)' <=> Cancelled(ledger)
    BY <1>CutoverCommit, <1>0 DEF CutoverCommit, Ledger, Phase, Cancelled
  <2>2. AllCommitted(ledger)' <=> AllCommitted(ledger)
    BY <2>1 DEF AllCommitted
  <2>3. rowLock = r /\ AllCommitted(ledger) /\ ~Cancelled(ledger)
    BY <1>CutoverCommit
    DEF CutoverCommit, IInv, CompleteWhenPublishing, CutoverOwned,
        Publishing, InCutover
  <2>4. TypeOK' /\ LoadedOnce'
    BY <1>CutoverCommit, <2>1
    DEF CutoverCommit, IInv, TypeOK, LoadedOnce, Goto, RunState, laneVars
  <2> QED
    BY <1>CutoverCommit, <2>1, <2>2, <2>3, <2>4, NoOwnerAssumption
    DEF CutoverCommit, IInv, TypeOK, CompleteWhenPublishing, CutoverOwned,
        OneOutcome, NotYetOwner, Publishing, InCutover, Runs, None, Goto
<1>ReleaseLedger. CASE ReleaseLedger(r)
  <2>1. CASE UNCHANGED ledger
    <3>1. TypeOK'
      BY <1>ReleaseLedger, <2>1
      DEF ReleaseLedger, IInv, TypeOK, Goto, RunState, laneVars
    <3>2. LoadedOnce' /\ OneOutcome'
      BY <1>ReleaseLedger, <2>1
      DEF ReleaseLedger, IInv, LoadedOnce, OneOutcome, laneVars
    <3> QED
      BY <1>ReleaseLedger, <2>1, <3>1, <3>2
      DEF ReleaseLedger, IInv, TypeOK, CompleteWhenPublishing, CutoverOwned,
          NotYetOwner, Publishing, InCutover, Goto
  <2>2. CASE rowLock = None /\ ledger' = ReleaseCampaign(ledger)
    <3>1. /\ ledger' \in Ledger
          /\ ledger'.status = ledger.status
          /\ ledger'.phase = ledger.phase
          /\ ledger'.lockOwner = NoOwner
          /\ ledger'.chunks = ledger.chunks
      BY <1>0, <2>2, CampaignRowFacts
    <3>2. AllCommitted(ledger)' <=> AllCommitted(ledger)
      BY <3>1 DEF AllCommitted
    <3>3. TypeOK' /\ LoadedOnce'
      BY <1>ReleaseLedger, <3>1
      DEF ReleaseLedger, IInv, TypeOK, LoadedOnce, Goto, RunState, laneVars
    <3> QED
      BY <1>ReleaseLedger, <2>2, <3>1, <3>2, <3>3, NoOwnerAssumption
      DEF ReleaseLedger, IInv, TypeOK, CompleteWhenPublishing, CutoverOwned,
          OneOutcome, NotYetOwner, Publishing, InCutover, Runs, None, Goto,
          Cancelled, Published
  <2> QED
    BY <1>ReleaseLedger, <2>1, <2>2 DEF ReleaseLedger
<1> QED
  BY <1>AcquireLedger, <1>AcquireLedgerLost, <1>RecoverStaleRunning,
     <1>PrepareSave, <1>CutoverCommit, <1>ReleaseLedger

(* Lane steps that leave the ledger alone. *)
LEMMA LaneStep ==
    ASSUME IInv, NEW r \in Runs, NEW c \in Chunks,
           \/ ClaimRefused(r, c) \/ RunnerReturns(r, c) \/ RunnerRaises(r, c)
           \/ HeartbeatRaises(r, c)
    PROVE  IInv'
<1>0. TypeOK /\ LoadedOnce
  BY DEF IInv
<1>ClaimRefused. CASE ClaimRefused(r, c)
  BY <1>ClaimRefused
  DEF ClaimRefused, Takes, SetWorker, campaignVars, IInv, TypeOK, LoadedOnce,
      CompleteWhenPublishing, CutoverOwned, OneOutcome, NotYetOwner, Runs,
      WorkerState
<1>Runner. CASE RunnerReturns(r, c) \/ RunnerRaises(r, c)
  <2>1. PICK state \in {"ok", "raised"} : SetWorker(r, c, state)
    BY <1>Runner DEF RunnerReturns, RunnerRaises
  <2>2. /\ worker' \in [Runs -> [Chunks -> WorkerState]]
        /\ worker'[r][c] = state
        /\ \A q \in Runs, d \in Chunks :
             q # r \/ d # c => worker'[q][d] = worker[q][d]
    BY <1>0, <2>1, SetWorkerFacts DEF WorkerState
  <2>3. /\ shadow' \in [Chunks -> Nat]
        /\ shadow'[c] = 1 \/ shadow'[c] = shadow[c]
        /\ \A d \in Chunks \ {c} : shadow'[d] = shadow[d]
    BY <1>0, <1>Runner, AppendFacts DEF RunnerReturns, RunnerRaises, TypeOK
  <2>4. worker'[r][c] = "ok" => shadow'[c] = 1
    <3>1. CASE RunnerReturns(r, c)
      BY <1>0, <3>1, AppendFacts DEF RunnerReturns
    <3>2. CASE RunnerRaises(r, c)
      <4>1. SetWorker(r, c, "raised")
        BY <3>2 DEF RunnerRaises
      <4>2. worker'[r][c] = "raised"
        BY <1>0, <4>1, SetWorkerFacts DEF WorkerState
      <4> QED
        BY <4>2
    <3> QED
      BY <1>Runner, <3>1, <3>2
  <2>5. /\ admission' \in [Runs -> BOOLEAN]
        /\ errors' \in [Runs -> BOOLEAN]
    BY <1>Runner, <1>0 DEF RunnerReturns, RunnerRaises, FailLane, TypeOK
  <2>6. UNCHANGED <<now, ledger, appLock, rowLock, held, pc, queue, record,
                    faults>>
    BY <1>Runner DEF RunnerReturns, RunnerRaises, campaignVars
  <2>7. TypeOK'
    BY <1>0, <2>2, <2>3, <2>5, <2>6 DEF TypeOK
  <2>8. \A d \in Chunks : shadow'[d] = 1 \/ shadow'[d] = shadow[d]
    BY <2>3
  <2>9. LoadedOnce'
    BY <1>0, <2>2, <2>4, <2>6, <2>8 DEF LoadedOnce
  <2> QED
    BY <2>6, <2>7, <2>9
    DEF IInv, CompleteWhenPublishing, CutoverOwned, OneOutcome, NotYetOwner
<1>HeartbeatRaises. CASE HeartbeatRaises(r, c)
  <2>1. /\ UNCHANGED <<now, ledger, campaignVars, queue, record, shadow>>
        /\ UNCHANGED <<admission, errors>> \/ FailLane(r)
        /\ Fault
    BY <1>HeartbeatRaises DEF HeartbeatRaises
  <2>2. PICK state \in {"lost", "raised"} : SetWorker(r, c, state)
    BY <1>HeartbeatRaises DEF HeartbeatRaises
  <2>3. /\ worker' \in [Runs -> [Chunks -> WorkerState]]
        /\ \A q \in Runs, d \in Chunks :
             worker'[q][d] = "ok" => worker[q][d] = "ok"
    BY <1>0, <2>2, SetWorkerFacts DEF WorkerState
  <2>4. faults' \in 0 .. MaxFaults
    BY <1>0, <2>1, BoundsAssumption DEF TypeOK, Fault
  <2>5. /\ admission' \in [Runs -> BOOLEAN]
        /\ errors' \in [Runs -> BOOLEAN]
    BY <1>0, <2>1 DEF TypeOK, FailLane
  <2>6. TypeOK'
    BY <1>0, <2>1, <2>3, <2>4, <2>5 DEF TypeOK, campaignVars
  <2>7. LoadedOnce'
    BY <1>0, <2>1, <2>3 DEF LoadedOnce
  <2> QED
    BY <2>1, <2>6, <2>7
    DEF IInv, CompleteWhenPublishing, CutoverOwned, OneOutcome, NotYetOwner,
        campaignVars
<1> QED
  BY <1>ClaimRefused, <1>Runner, <1>HeartbeatRaises

(* Lane steps that commit a chunk revision, a lost acknowledgement         *)
(* included.                                                               *)
ChunkRevision(r, c) ==
    \/ Claim(r, c) \/ ClaimLost(r, c) \/ ReloadLost(r, c)
    \/ ProveOwnership(r, c) \/ ProveOwnershipFails(r, c)
    \/ Heartbeat(r, c) \/ HeartbeatLost(r, c)
    \/ CompleteSuccess(r, c) \/ CompleteFailed(r, c) \/ CompleteLost(r, c)

(* Such a step commits at most its own chunk, which is running and whose   *)
(* rows are already in the shadow table.                                   *)
LEMMA ChunkRevisionFacts ==
    ASSUME IInv, NEW r \in Runs, NEW c \in Chunks, ChunkRevision(r, c)
    PROVE  /\ UNCHANGED <<now, appLock, rowLock, held, pc, shadow>>
           /\ SameCampaign(ledger, ledger')
           /\ \E S \in SUBSET {c} :
                /\ Advance(ledger, ledger', S)
                /\ c \in S => /\ shadow[c] = 1
                              /\ ledger.chunks[c].status = "running"
<1>0. /\ TypeOK /\ LoadedOnce /\ ledger \in Ledger /\ r \in Owners
      /\ now + LeaseTTL \in Nat
      /\ record[r][c] \in Nat
  <2>1. TypeOK /\ LoadedOnce /\ ledger \in Ledger /\ r \in Owners
    BY DEF IInv, TypeOK, Runs
  <2>2. now + LeaseTTL \in Nat /\ record[r][c] \in Nat
    BY BoundsAssumption DEF IInv, TypeOK
  <2> QED
    BY <2>1, <2>2
<1>1. UNCHANGED <<now, appLock, rowLock, held, pc, shadow>>
  BY DEF ChunkRevision, Claim, ClaimLost, ReloadLost, ProveOwnership,
         ProveOwnershipFails, Heartbeat, HeartbeatLost, CompleteSuccess,
         CompleteFailed, CompleteLost, campaignVars
<1>2. ASSUME Advance(ledger, ledger', {})
      PROVE  \E S \in SUBSET {c} :
                /\ Advance(ledger, ledger', S)
                /\ c \in S => /\ shadow[c] = 1
                              /\ ledger.chunks[c].status = "running"
  BY <1>2
<1>Claims. CASE Claim(r, c) \/ ClaimLost(r, c) \/ ReloadLost(r, c)
  <2>1. /\ \/ ledger' = AcquireChunk(ledger, c, r, now + LeaseTTL)
           \/ UNCHANGED ledger
        /\ ledger.chunks[c].status # "success"
    BY <1>Claims DEF Claim, ClaimLost, ReloadLost, AcquireChunkOK
  <2>2. Advance(ledger, ledger', {}) /\ SameCampaign(ledger, ledger')
    <3>1. CASE UNCHANGED ledger
      BY <1>0, <3>1 DEF Advance, SameCampaign
    <3>2. CASE ledger' = AcquireChunk(ledger, c, r, now + LeaseTTL)
      BY <1>0, <2>1, <3>2, AcquireChunkFacts
    <3> QED
      BY <2>1, <3>1, <3>2
  <2> QED
    BY <1>1, <1>2, <2>2
<1>Renewals. CASE \/ ProveOwnership(r, c) \/ ProveOwnershipFails(r, c)
                  \/ Heartbeat(r, c) \/ HeartbeatLost(r, c)
  <2>1. ledger' = Renewed(r, c)
    BY <1>Renewals
    DEF ProveOwnership, ProveOwnershipFails, Heartbeat, HeartbeatLost
  <2>2. Advance(ledger, ledger', {}) /\ SameCampaign(ledger, ledger')
    <3>1. CASE RenewChunkOK(ledger, c, r, now)
      BY <1>0, <2>1, <3>1, RenewChunkFacts DEF Renewed, RenewChunkOK
    <3>2. CASE ~RenewChunkOK(ledger, c, r, now)
      BY <1>0, <2>1, <3>2 DEF Renewed, Advance, SameCampaign
    <3> QED
      BY <3>1, <3>2
  <2> QED
    BY <1>1, <1>2, <2>2
<1>Completions. CASE \/ CompleteSuccess(r, c) \/ CompleteFailed(r, c)
                     \/ CompleteLost(r, c)
  <2>1. \/ UNCHANGED ledger
        \/ \E status \in {"success", "failed"} :
             /\ ledger' = CompleteChunk(ledger, c, status, record[r][c])
             /\ CompleteChunkOK(ledger, c, r)
             /\ status = "success" => worker[r][c] = "ok"
    BY <1>Completions DEF CompleteSuccess, CompleteFailed, CompleteLost
  <2>2. CASE UNCHANGED ledger
    <3>1. Advance(ledger, ledger', {}) /\ SameCampaign(ledger, ledger')
      BY <1>0, <2>2 DEF Advance, SameCampaign
    <3> QED
      BY <1>1, <1>2, <3>1
  <2>3. ASSUME NEW status \in {"success", "failed"},
               ledger' = CompleteChunk(ledger, c, status, record[r][c]),
               CompleteChunkOK(ledger, c, r),
               status = "success" => worker[r][c] = "ok"
        PROVE  /\ SameCampaign(ledger, ledger')
               /\ \E S \in SUBSET {c} :
                    /\ Advance(ledger, ledger', S)
                    /\ c \in S => /\ shadow[c] = 1
                                  /\ ledger.chunks[c].status = "running"
    <3>1. /\ SameCampaign(ledger, ledger')
          /\ Advance(ledger, ledger', IF status = "success" THEN {c} ELSE {})
      BY <1>0, <2>3, CompleteChunkFacts DEF CompleteChunkOK
    <3>2. status = "success" => shadow[c] = 1
      BY <1>0, <2>3 DEF LoadedOnce
    <3>3. CASE status = "success"
      BY <2>3, <3>1, <3>2, <3>3 DEF CompleteChunkOK
    <3>4. CASE status # "success"
      BY <3>1, <3>4
    <3> QED
      BY <3>3, <3>4
  <2> QED
    BY <1>1, <2>1, <2>2, <2>3
<1> QED
  BY <1>Claims, <1>Renewals, <1>Completions DEF ChunkRevision

(* Lane steps and faults that commit a chunk revision keep the invariant. *)
LEMMA ChunkRevisionStep ==
    ASSUME IInv, NEW r \in Runs, NEW c \in Chunks, ChunkRevision(r, c)
    PROVE  IInv'
<1>0. TypeOK /\ LoadedOnce
  BY DEF IInv
<1>1. UNCHANGED <<now, appLock, rowLock, held, pc, shadow>>
  BY ChunkRevisionFacts
<1>2. SameCampaign(ledger, ledger')
  BY ChunkRevisionFacts
<1>3. PICK S \in SUBSET {c} :
             Advance(ledger, ledger', S) /\ (c \in S => shadow[c] = 1)
  BY ChunkRevisionFacts
<1>4. \/ UNCHANGED worker
      \/ \E state \in WorkerState \ {"ok"} : SetWorker(r, c, state)
  BY DEF ChunkRevision, Claim, ClaimLost, ReloadLost, ProveOwnership,
         ProveOwnershipFails, Heartbeat, HeartbeatLost, CompleteSuccess,
         CompleteFailed, CompleteLost, laneVars, WorkerState
<1>5. /\ worker' \in [Runs -> [Chunks -> WorkerState]]
      /\ \A q \in Runs, d \in Chunks :
           worker'[q][d] = "ok" => worker[q][d] = "ok"
  <2>1. CASE UNCHANGED worker
    BY <1>0, <2>1 DEF TypeOK
  <2>2. ASSUME NEW state \in WorkerState \ {"ok"}, SetWorker(r, c, state)
        PROVE  /\ worker' \in [Runs -> [Chunks -> WorkerState]]
               /\ \A q \in Runs, d \in Chunks :
                    worker'[q][d] = "ok" => worker[q][d] = "ok"
    BY <1>0, <2>2, SetWorkerFacts
  <2> QED
    BY <1>4, <2>1, <2>2
<1>6. queue' \in [Runs -> SUBSET Chunks]
  BY <1>0
  DEF TypeOK, ChunkRevision, Claim, ClaimLost, ReloadLost, ProveOwnership,
      ProveOwnershipFails, Heartbeat, HeartbeatLost, CompleteSuccess,
      CompleteFailed, CompleteLost, laneVars, Takes
<1>7. admission' \in [Runs -> BOOLEAN] /\ errors' \in [Runs -> BOOLEAN]
  <2>1. UNCHANGED <<admission, errors>> \/ FailLane(r)
    BY DEF ChunkRevision, Claim, ClaimLost, ReloadLost, ProveOwnership,
           ProveOwnershipFails, Heartbeat, HeartbeatLost, CompleteSuccess,
           CompleteFailed, CompleteLost, laneVars
  <2> QED
    BY <1>0, <2>1 DEF TypeOK, FailLane
<1>8. record' \in [Runs -> [Chunks -> Nat]]
  <2>1. \/ UNCHANGED record
        \/ record' = [record EXCEPT ![r][c] = ledger.chunks[c].attempts + 1]
    BY DEF ChunkRevision, Claim, ClaimLost, ReloadLost, ProveOwnership,
           ProveOwnershipFails, Heartbeat, HeartbeatLost, CompleteSuccess,
           CompleteFailed, CompleteLost, laneVars
  <2>2. ledger.chunks[c].attempts + 1 \in Nat
    BY <1>0 DEF TypeOK, Ledger, ChunkRecord
  <2>3. CASE UNCHANGED record
    BY <1>0, <2>3 DEF TypeOK
  <2>4. CASE record' = [record EXCEPT ![r][c] = ledger.chunks[c].attempts + 1]
    BY <1>0, <2>2, <2>4 DEF TypeOK
  <2> QED
    BY <2>1, <2>3, <2>4
<1>9. faults' \in 0 .. MaxFaults
  <2>1. UNCHANGED faults \/ Fault
    BY DEF ChunkRevision, Claim, ClaimLost, ReloadLost, ProveOwnership,
           ProveOwnershipFails, Heartbeat, HeartbeatLost, CompleteSuccess,
           CompleteFailed, CompleteLost
  <2> QED
    BY <1>0, <2>1, BoundsAssumption DEF TypeOK, Fault
<1>10. TypeOK'
  BY <1>0, <1>1, <1>3, <1>5, <1>6, <1>7, <1>8, <1>9 DEF TypeOK, Advance
<1> QED
  BY <1>1, <1>2, <1>3, <1>5, <1>10, ChunkRowsStep

(* Crashes, lost sessions, database errors and a failed cutover. *)
LEMMA FaultsStep ==
    ASSUME IInv, NEW r \in Runs,
           Crash(r) \/ SessionLoss(r) \/ StepRaises(r) \/ CutoverLost(r)
    PROVE  IInv'
<1>0. TypeOK'
  <2>1. faults' \in 0 .. MaxFaults
    BY BoundsAssumption
    DEF Crash, SessionLoss, StepRaises, CutoverLost, IInv, TypeOK, Fault
  <2>2. CASE Crash(r)
    BY <2>1, <2>2 DEF Crash, IInv, TypeOK, Goto, RunState, WorkerState
  <2>3. CASE SessionLoss(r) \/ StepRaises(r) \/ CutoverLost(r)
    BY <2>1, <2>3
    DEF SessionLoss, StepRaises, CutoverLost, IInv, TypeOK, Goto, RunState, laneVars
  <2> QED
    BY <2>2, <2>3
<1>1. LoadedOnce'
  <2>1. UNCHANGED <<ledger, shadow>>
    BY DEF Crash, SessionLoss, StepRaises, CutoverLost
  <2>2. \A q \in Runs, c \in Chunks : worker'[q][c] = "ok" => worker[q][c] = "ok"
    <3>1. CASE Crash(r)
      BY <3>1 DEF Crash, IInv, TypeOK
    <3>2. CASE SessionLoss(r) \/ StepRaises(r) \/ CutoverLost(r)
      BY <3>2 DEF SessionLoss, StepRaises, CutoverLost, laneVars
    <3> QED
      BY <3>1, <3>2
  <2> QED
    BY <2>1, <2>2 DEF IInv, LoadedOnce
<1>2. pc'[r] \notin Publishing \cup {"new", "admitted"} \/ UNCHANGED pc
  BY DEF Crash, SessionLoss, StepRaises, CutoverLost, IInv, TypeOK, Goto,
         Publishing
<1>3. \A q \in Runs \ {r} : pc'[q] = pc[q]
  BY DEF Crash, SessionLoss, StepRaises, CutoverLost, IInv, TypeOK, Goto
<1>4. UNCHANGED ledger
  BY DEF Crash, SessionLoss, StepRaises, CutoverLost
<1>5. \/ UNCHANGED <<pc, rowLock>>
      \/ /\ rowLock = r => rowLock' = None
         /\ rowLock # r => rowLock' = rowLock
         /\ pc'[r] \notin InCutover
  BY DEF Crash, SessionLoss, StepRaises, CutoverLost, IInv, TypeOK,
         CutoverOwned, Goto, InCutover
<1>6. CutoverOwned'
  BY <1>3, <1>4, <1>5, NoOwnerAssumption
  DEF IInv, CutoverOwned, Runs, None
<1> QED
  BY <1>0, <1>1, <1>2, <1>3, <1>4, <1>6
  DEF IInv, CompleteWhenPublishing, OneOutcome, NotYetOwner, Publishing

(* The clock and the operator's cancellation. *)
LEMMA EnvironmentStep ==
    ASSUME IInv, Tick \/ RequestCancel
    PROVE  IInv'
<1>Tick. CASE Tick
  BY <1>Tick, BoundsAssumption
  DEF Tick, IInv, TypeOK, LoadedOnce, CompleteWhenPublishing, CutoverOwned,
      OneOutcome, NotYetOwner, campaignVars, laneVars
<1>RequestCancel. CASE RequestCancel
  <2>1. /\ ledger' \in Ledger
        /\ ledger'.phase = ledger.phase
        /\ ledger'.lockOwner = ledger.lockOwner
        /\ ledger'.chunks = ledger.chunks
    BY <1>RequestCancel, CampaignRowFacts DEF RequestCancel, IInv, TypeOK
  <2>2. /\ AllCommitted(ledger)' <=> AllCommitted(ledger)
        /\ Published(ledger)' <=> Published(ledger)
    BY <2>1 DEF AllCommitted, Published
  <2>3. UNCHANGED <<now, campaignVars, laneVars, shadow, faults>>
    BY <1>RequestCancel DEF RequestCancel
  <2>4. TypeOK' /\ LoadedOnce'
    BY <2>1, <2>3 DEF IInv, TypeOK, LoadedOnce, campaignVars, laneVars
  <2>5. rowLock = None /\ ~Published(ledger)
    BY <1>RequestCancel DEF RequestCancel, CancelOK
  <2> QED
    BY <2>1, <2>2, <2>3, <2>4, <2>5, NoOwnerAssumption
    DEF IInv, CompleteWhenPublishing, CutoverOwned, OneOutcome, NotYetOwner,
        campaignVars, Runs, None
<1> QED
  BY <1>Tick, <1>RequestCancel

(* Every step of every invocation, of the operator, of the clock and of   *)
(* the faults preserves the invariant.                                     *)
LEMMA InductiveStep == IInv /\ [Next]_vars => IInv'
<1> SUFFICES ASSUME IInv, [Next]_vars PROVE IInv'
  OBVIOUS
<1>1. ASSUME NEW r \in Runs, RunStep(r) \/ SessionClose(r) PROVE IInv'
  BY <1>1, OrchestratorStep, RevisionStep DEF RunStep
<1>2. ASSUME NEW r \in Runs, FaultStep(r) PROVE IInv'
  BY <1>2, FaultsStep, RevisionStep, LaneStep, ChunkRevisionStep
  DEF FaultStep, ChunkRevision
<1>3. ASSUME NEW r \in Runs, NEW c \in Chunks, ChunkStep(r, c) PROVE IInv'
  BY <1>3, LaneStep, ChunkRevisionStep DEF ChunkStep, ChunkRevision
<1>4. CASE UNCHANGED vars
  BY <1>4 DEF vars, IInv, TypeOK, LoadedOnce, CompleteWhenPublishing,
              CutoverOwned, OneOutcome, NotYetOwner
<1> QED
  BY <1>1, <1>2, <1>3, <1>4, EnvironmentStep DEF Next, Finished

(* The strengthened invariant holds throughout. *)
THEOREM Invariance == Spec => []IInv
BY InitIInv, InductiveStep, PTL DEF Spec

-----------------------------------------------------------------------------
(* Every state the campaign reaches has the shape of BackfillLedger and of *)
(* the orchestrator's control points, for every plan, every number of      *)
(* invocations and every bound.                                            *)
THEOREM TypeCorrect == Spec => []TypeOK
<1>1. IInv => TypeOK
  BY DEF IInv
<1> QED
  BY <1>1, Invariance, PTL

(* MssqlBackfillCutover.publish: whatever crashed, expired, was orphaned   *)
(* or retried, a published campaign has every chunk committed and in the   *)
(* published table exactly once.                                           *)
THEOREM PublicationComplete == Spec => []PublishedIsComplete
<1>1. IInv => PublishedIsComplete
  BY DEF IInv, LoadedOnce, CompleteWhenPublishing, PublishedIsComplete,
         AllCommitted, ShadowExact
<1> QED
  BY <1>1, Invariance, PTL

(* fence_publication_in_transaction: an open cutover excludes every other  *)
(* invocation, even after the publisher has lost its lock session.         *)
THEOREM CutoverExclusive == Spec => []CutoverIsExclusive
<1>1. IInv => CutoverIsExclusive
  BY DEF IInv, CutoverOwned, CutoverIsExclusive, Owns, RenewCampaignOK
<1> QED
  BY <1>1, Invariance, PTL

-----------------------------------------------------------------------------
(* Orchestrator steps that commit a campaign revision. *)
Revision(r) ==
    \/ AcquireLedger(r) \/ AcquireLedgerLost(r) \/ RecoverStaleRunning(r)
    \/ PrepareSave(r) \/ CutoverCommit(r) \/ ReleaseLedger(r)

(* Such a step commits no chunk, never reopens or cancels a campaign, and  *)
(* publishes it only when it is complete and not cancelled.                *)
LEMMA RevisionFacts ==
    ASSUME IInv, NEW r \in Runs, Revision(r)
    PROVE  /\ UNCHANGED shadow
           /\ Advance(ledger, ledger', {})
           /\ Cancelled(ledger)' <=> Cancelled(ledger)
           /\ \/ Published(ledger)' <=> Published(ledger)
              \/ /\ Published(ledger)' /\ ~Published(ledger)
                 /\ ~Cancelled(ledger) /\ AllCommitted(ledger)
<1>0. ledger \in Ledger
  BY DEF IInv, TypeOK
<1>1. UNCHANGED shadow
  BY DEF Revision, AcquireLedger, AcquireLedgerLost, RecoverStaleRunning,
         PrepareSave, CutoverCommit, ReleaseLedger
<1>Same. CASE UNCHANGED ledger
  BY <1>0, <1>1, <1>Same DEF Advance
<1>Takeover. CASE /\ AcquireCampaignOK(ledger)
                  /\ ledger' = AcquireCampaign(ledger, r)
  <2>1. /\ Advance(ledger, ledger', {})
        /\ ledger'.status = "active" /\ ledger'.phase = ledger.phase
    BY <1>0, <1>Takeover, AcquireCampaignFacts DEF Runs
  <2>2. ~Cancelled(ledger)
    BY <1>Takeover DEF AcquireCampaignOK, IInv, OneOutcome
  <2> QED
    BY <1>1, <2>1, <2>2 DEF Cancelled, Published
<1>Recover. CASE ledger' = RecoverChunks(ledger, now)
  <2>1. now \in Nat
    BY BoundsAssumption DEF IInv, TypeOK
  <2>2. Advance(ledger, ledger', {}) /\ SameCampaign(ledger, ledger')
    BY <1>0, <1>Recover, <2>1, RecoverChunksFacts
  <2> QED
    BY <1>1, <2>2 DEF SameCampaign, Cancelled, Published
<1>Row. CASE \/ ledger' = SavePhase(ledger, "prepared")
             \/ ledger' = ReleaseCampaign(ledger)
  <2>1. /\ ledger' \in Ledger
        /\ ledger'.status = ledger.status
        /\ Published(ledger') <=> Published(ledger)
        /\ ledger'.chunks = ledger.chunks
    <3>1. CASE ledger' = SavePhase(ledger, "prepared")
      BY <1>0, <3>1, CampaignRowFacts
    <3>2. CASE ledger' = ReleaseCampaign(ledger)
      BY <1>0, <3>2, CampaignRowFacts DEF Published
    <3> QED
      BY <1>Row, <3>1, <3>2
  <2> QED
    BY <1>1, <2>1 DEF Advance, Cancelled
<1>Cutover. CASE CutoverCommit(r)
  <2>1. /\ ledger' \in Ledger
        /\ ledger'.status = ledger.status
        /\ ledger'.phase = "published"
        /\ ledger'.chunks = ledger.chunks
    BY <1>0, <1>Cutover DEF CutoverCommit, Ledger, Phase
  <2>2. AllCommitted(ledger) /\ ~Cancelled(ledger)
    BY <1>Cutover
    DEF CutoverCommit, IInv, CompleteWhenPublishing, CutoverOwned,
        Publishing, InCutover
  <2> QED
    BY <1>1, <2>1, <2>2 DEF Advance, Cancelled, Published
<1> QED
  BY <1>Same, <1>Takeover, <1>Recover, <1>Row, <1>Cutover
  DEF Revision, AcquireLedger, AcquireLedgerLost, RecoverStaleRunning,
      PrepareSave, ReleaseLedger

(* The remaining steps move neither the ledger nor the shadow table,       *)
(* except the target append of a runner and the operator's cancellation.   *)
LEMMA StepKinds ==
    ASSUME IInv, [Next]_vars
    PROVE  \/ \E r \in Runs : Revision(r)
           \/ \E r \in Runs, c \in Chunks : ChunkRevision(r, c)
           \/ UNCHANGED ledger /\ (UNCHANGED shadow \/ \E c \in Chunks : Append(c))
           \/ RequestCancel
<1>1. ASSUME NEW r \in Runs, RunStep(r) \/ SessionClose(r) \/ FaultStep(r)
      PROVE  \/ Revision(r)
             \/ \E c \in Chunks : ChunkRevision(r, c)
             \/ UNCHANGED <<ledger, shadow>>
  BY <1>1
  DEF RunStep, SessionClose, FaultStep, Revision, ChunkRevision,
      StartCancelled, AcquireSession, LoadLedger, PrepareTick, PrepareFence,
      CoordinatorLost, LanesDone, Settle, PublishTick, CutoverFence,
      CutoverPersist, ReleaseSession, Crash, SessionLoss, StepRaises,
      HeartbeatRaises, CutoverLost
<1>2. ASSUME NEW r \in Runs, NEW c \in Chunks, ChunkStep(r, c)
      PROVE  \/ ChunkRevision(r, c)
             \/ UNCHANGED ledger /\ (UNCHANGED shadow \/ Append(c))
  BY <1>2
  DEF ChunkStep, ChunkRevision, ClaimRefused, RunnerReturns, RunnerRaises
<1>3. CASE Tick \/ Finished \/ UNCHANGED vars
  BY <1>3 DEF Tick, Finished, vars
<1> QED
  BY <1>1, <1>2, <1>3 DEF Next

(* What every step does to the ledger and the shadow table. *)
LEMMA LedgerAdvances ==
    ASSUME IInv, [Next]_vars
    PROVE  \E S \in SUBSET Chunks : Advance(ledger, ledger', S)
<1>1. ASSUME NEW r \in Runs, Revision(r)
      PROVE  Advance(ledger, ledger', {})
  BY <1>1, RevisionFacts
<1>2. ASSUME NEW r \in Runs, NEW c \in Chunks, ChunkRevision(r, c)
      PROVE  \E S \in SUBSET {c} : Advance(ledger, ledger', S)
  BY <1>2, ChunkRevisionFacts
<1>3. CASE UNCHANGED ledger
  <2>1. Advance(ledger, ledger', {})
    BY <1>3 DEF Advance, IInv, TypeOK
  <2> QED
    BY <2>1
<1>4. CASE RequestCancel
  <2>1. Advance(ledger, ledger', {})
    BY <1>4, CampaignRowFacts DEF RequestCancel, Advance, IInv, TypeOK
  <2> QED
    BY <2>1
<1> QED
  BY <1>1, <1>2, <1>3, <1>4, StepKinds

(* complete_chunk, acquire_campaign and recover_chunks: no step of any     *)
(* invocation, zombie lanes included, rewrites a SUCCESS row.              *)
THEOREM CommittedChunksFinal == Spec => SuccessIsFinal
<1>1. IInv /\ [Next]_vars =>
        [\A c \in Committed(ledger) :
            ledger'.chunks[c] = ledger.chunks[c]]_vars
  BY LedgerAdvances DEF Advance, Committed
<1> QED
  BY <1>1, Invariance, PTL DEF Spec, SuccessIsFinal

-----------------------------------------------------------------------------
(* Every step of the campaign is a step of the contract or leaves what the *)
(* contract sees alone.                                                    *)
LEMMA ContractStep ==
    ASSUME IInv, [Next]_vars
    PROVE  [Contract!Next]_(Contract!contractVars)
<1> USE DEF Contract!Next, Contract!contractVars
<1>0. ledger \in Ledger /\ shadow \in [Chunks -> Nat] /\ LoadedOnce
  BY DEF IInv, TypeOK
<1>1. ASSUME NEW r \in Runs, Revision(r)
      PROVE  [Contract!Next]_(Contract!contractVars)
  <2>1. /\ UNCHANGED shadow
        /\ Committed(ledger)' = Committed(ledger)
        /\ Cancelled(ledger)' <=> Cancelled(ledger)
    BY <1>1, RevisionFacts DEF Advance, Committed
  <2>2. CASE Published(ledger)' <=> Published(ledger)
    BY <2>1, <2>2 DEF Outcome
  <2>3. CASE /\ Published(ledger)' /\ ~Published(ledger)
             /\ ~Cancelled(ledger) /\ AllCommitted(ledger)
    <3>1. Contract!Publish
      BY <2>1, <2>3 DEF Contract!Publish, Outcome, AllCommitted, Committed
    <3> QED
      BY <3>1
  <2> QED
    BY <1>1, <2>2, <2>3, RevisionFacts
<1>2. ASSUME NEW r \in Runs, NEW c \in Chunks, ChunkRevision(r, c)
      PROVE  [Contract!Next]_(Contract!contractVars)
  <2>1. UNCHANGED shadow /\ Outcome' = Outcome
    BY <1>2, ChunkRevisionFacts DEF SameCampaign, Outcome, Cancelled, Published
  <2>2. PICK S \in SUBSET {c} :
               /\ Advance(ledger, ledger', S)
               /\ c \in S => /\ shadow[c] = 1
                             /\ ledger.chunks[c].status = "running"
    BY <1>2, ChunkRevisionFacts
  <2>3. \/ Committed(ledger)' = Committed(ledger)
        \/ c \in S /\ Committed(ledger)' = Committed(ledger) \cup {c}
    BY <2>2 DEF Advance, Committed
  <2>4. CASE Committed(ledger)' = Committed(ledger)
    BY <2>1, <2>4
  <2>5. CASE c \in S /\ Committed(ledger)' = Committed(ledger) \cup {c}
    <3>1. ~Published(ledger)
      BY <2>2, <2>5 DEF IInv, CompleteWhenPublishing, AllCommitted
    <3>2. Contract!Commit(c)
      BY <2>1, <2>2, <2>5, <3>1 DEF Contract!Commit, Outcome
    <3> QED
      BY <3>2
  <2> QED
    BY <2>3, <2>4, <2>5
<1>3. CASE UNCHANGED <<ledger, shadow>>
  BY <1>3 DEF Outcome
<1>4. ASSUME UNCHANGED ledger, NEW c \in Chunks, Append(c)
      PROVE  [Contract!Next]_(Contract!contractVars)
  <2>1. UNCHANGED <<Committed(ledger), Outcome>>
    BY <1>4 DEF Outcome
  <2>2. CASE shadow[c] = 0
    <3>1. ~Published(ledger)
      BY <1>0, <2>2 DEF IInv, CompleteWhenPublishing, LoadedOnce, AllCommitted
    <3>2. Contract!Load(c)
      BY <1>0, <1>4, <2>1, <2>2, <3>1 DEF Contract!Load, Append, Outcome
    <3> QED
      BY <3>2
  <2>3. CASE shadow[c] # 0
    <3>1. shadow' = shadow
      BY <1>0, <1>4, <2>3 DEF Append
    <3> QED
      BY <2>1, <3>1
  <2> QED
    BY <2>2, <2>3
<1>5. CASE RequestCancel
  <2>1. /\ UNCHANGED <<shadow, Committed(ledger)>>
        /\ ~Published(ledger) /\ ~Cancelled(ledger)
        /\ ~Published(ledger)' /\ Cancelled(ledger)'
    BY <1>0, <1>5, CampaignRowFacts
    DEF RequestCancel, CancelOK, Committed, Published
  <2>2. Contract!Cancel
    BY <2>1 DEF Contract!Cancel, Outcome
  <2> QED
    BY <2>2
<1> QED
  BY <1>1, <1>2, <1>3, <1>4, <1>5, StepKinds

(* The campaign implements BackfillContract for every plan and every       *)
(* number of invocations: rows are appended once and only before the swap, *)
(* only loaded chunks are committed, and the campaign is cancelled or      *)
(* completely published, never both.                                       *)
THEOREM Refinement == Spec => KeepsContract
<1>1. Init => Contract!Init
  BY InitialLedgerFacts DEF Init, Contract!Init, Committed, Outcome
<1>2. IInv /\ [Next]_vars => [Contract!Next]_(Contract!contractVars)
  BY ContractStep
<1> QED
  BY <1>1, <1>2, Invariance, PTL DEF Spec, KeepsContract, Contract!Spec

-----------------------------------------------------------------------------
(* complete_chunk_if_owned, acquire_chunk_lease and recover_chunks compare *)
(* the owner or the expiry: for every schedule of lanes, zombies included, *)
(* a RUNNING row changes hands only by its owner's terminal write, by the  *)
(* expiry of its lease or with the campaign's owner.                       *)
THEOREM LeasesAreRespected == Spec => LeaseIsRespected
<1> DEFINE Handed(c) ==
      /\ ledger.chunks[c].status = "running"
      /\ \/ ledger'.chunks[c].status # ledger.chunks[c].status
         \/ ledger'.chunks[c].owner # ledger.chunks[c].owner
<1> DEFINE Excused(c) ==
      \/ worker[ledger.chunks[c].owner][c] # worker'[ledger.chunks[c].owner][c]
      \/ Expired(ledger.chunks[c], now)
      \/ ledger'.lockOwner # ledger.lockOwner
<1>1. ASSUME IInv, [Next]_vars, NEW c \in Chunks, Handed(c)
      PROVE  Excused(c)
  <2>0. ledger \in Ledger /\ now \in Nat /\ TypeOK
    <3>1. TypeOK
      BY <1>1 DEF IInv
    <3>2. ledger \in Ledger /\ now \in 0 .. MaxNow
      BY <3>1 DEF TypeOK
    <3>3. now \in Nat
      BY <3>2, BoundsAssumption
    <3> QED
      BY <3>1, <3>2, <3>3
  <2>1. ASSUME NEW r \in Runs, Revision(r) PROVE Excused(c)
    <3>1. CASE ledger'.chunks = ledger.chunks
      BY <1>1, <3>1
    <3>2. CASE /\ pc[r] = "admitted"
               /\ ledger' = AcquireCampaign(ledger, r)
      <4>1. ledger'.lockOwner = r
        BY <2>0, <3>2, AcquireCampaignFacts DEF Runs
      <4>2. ledger.lockOwner # r
        BY <1>1, <3>2 DEF IInv, NotYetOwner
      <4> QED
        BY <4>1, <4>2
    <3>3. CASE ledger' = RecoverChunks(ledger, now)
      BY <1>1, <2>0, <3>3, RecoverChunksFacts
    <3>4. \/ ledger'.chunks = ledger.chunks
          \/ pc[r] = "admitted" /\ ledger' = AcquireCampaign(ledger, r)
          \/ ledger' = RecoverChunks(ledger, now)
      <4>1. CASE CutoverCommit(r)
        BY <2>0, <4>1 DEF CutoverCommit, Ledger
      <4>2. CASE PrepareSave(r) \/ ReleaseLedger(r)
        BY <2>0, <4>2, CampaignRowFacts DEF PrepareSave, ReleaseLedger
      <4>3. CASE AcquireLedger(r) \/ AcquireLedgerLost(r)
        BY <4>3 DEF AcquireLedger, AcquireLedgerLost
      <4>4. CASE RecoverStaleRunning(r)
        BY <4>4 DEF RecoverStaleRunning
      <4> QED
        BY <2>1, <4>1, <4>2, <4>3, <4>4 DEF Revision
    <3> QED
      BY <3>1, <3>2, <3>3, <3>4
  <2>2. ASSUME NEW r \in Runs, NEW d \in Chunks, ChunkRevision(r, d) PROVE Excused(c)
    <3>1. CASE UNCHANGED ledger
      BY <1>1, <3>1
    <3>2. CASE /\ AcquireChunkOK(ledger, d, now)
               /\ ledger' = AcquireChunk(ledger, d, r, now + LeaseTTL)
      <4>1. now + LeaseTTL \in Nat /\ r \in Owners
        BY <2>0, BoundsAssumption DEF Runs
      <4>2. c = d
        BY <1>1, <2>0, <3>2, <4>1, AcquireChunkFacts
      <4> QED
        BY <1>1, <3>2, <4>2 DEF AcquireChunkOK
    <3>3. CASE ledger' = Renewed(r, d)
      <4>1. now + LeaseTTL \in Nat
        BY <2>0, BoundsAssumption
      <4>2. CASE ledger' = RenewChunk(ledger, d, now + LeaseTTL)
        BY <1>1, <2>0, <4>1, <4>2, RenewChunkFacts
      <4> QED
        BY <3>1, <3>3, <4>2 DEF Renewed
    <3>4. ASSUME CompleteChunkOK(ledger, d, r), SetWorker(r, d, "done"), worker[r][d] # "done",
                 NEW status \in {"success", "failed"},
                 ledger' = CompleteChunk(ledger, d, status, record[r][d])
          PROVE  Excused(c)
      <4>1. record[r][d] \in Nat
        BY <2>0 DEF TypeOK
      <4>0. \A b \in Chunks \ {d} : ledger'.chunks[b] = ledger.chunks[b]
        BY <2>0, <3>4 DEF CompleteChunk, Ledger
      <4>2. c = d
        BY <1>1, <4>0
      <4>3. worker'[r][d] = "done"
        BY <2>0, <3>4, SetWorkerFacts DEF WorkerState
      <4> QED
        BY <3>4, <4>2, <4>3 DEF CompleteChunkOK
    <3>5. CASE Claim(r, d) \/ ClaimLost(r, d) \/ ReloadLost(r, d)
      BY <3>1, <3>2, <3>5 DEF Claim, ClaimLost, ReloadLost
    <3>6. CASE \/ ProveOwnership(r, d) \/ ProveOwnershipFails(r, d)
               \/ Heartbeat(r, d) \/ HeartbeatLost(r, d)
      BY <3>3, <3>6 DEF ProveOwnership, ProveOwnershipFails, Heartbeat, HeartbeatLost
    <3>7. CASE CompleteSuccess(r, d) \/ CompleteFailed(r, d) \/ CompleteLost(r, d)
      <4>1. \/ UNCHANGED ledger
            \/ \E status \in {"success", "failed"} :
                  /\ CompleteChunkOK(ledger, d, r) /\ SetWorker(r, d, "done")
                  /\ worker[r][d] # "done"
                  /\ ledger' = CompleteChunk(ledger, d, status, record[r][d])
        BY <3>7 DEF CompleteSuccess, CompleteFailed, CompleteLost
      <4> QED
        BY <3>1, <3>4, <4>1
    <3> QED
      BY <2>2, <3>5, <3>6, <3>7 DEF ChunkRevision
  <2>3. CASE UNCHANGED ledger
    BY <1>1, <2>3
  <2>4. CASE RequestCancel
    BY <1>1, <2>0, <2>4, CampaignRowFacts DEF RequestCancel
  <2> QED
    BY <1>1, <2>1, <2>2, <2>3, <2>4, StepKinds
<1>2. IInv /\ [Next]_vars =>
        [\A c \in Chunks :
            LET old == ledger.chunks[c]
                new == ledger'.chunks[c]
            IN  (/\ old.status = "running"
                 /\ <<new.status, new.owner>> # <<old.status, old.owner>>)
                => \/ worker[old.owner][c] # worker'[old.owner][c]
                   \/ Expired(old, now)
                   \/ ledger'.lockOwner # ledger.lockOwner]_vars
  BY <1>1
<1> QED
  BY <1>2, Invariance, PTL DEF Spec, LeaseIsRespected

-----------------------------------------------------------------------------
(* A campaign that has met no trouble and is not yet published. *)
Quiet ==
    /\ faults = 0
    /\ \A r \in Runs : ~errors[r]
    /\ ~Cancelled(ledger) /\ ~Published(ledger)

Waiting == {"new", "done"}
Early == {"admitted", "recover", "load"}
Loaded == {"prepare", "save", "fence", "chunks"}
Completed == {"settle", "publish", "validate", "renamed", "committing"}

(* Where a chunk of the only working invocation stands. *)
ChunkOnItsWay(r, c) ==
    \/ /\ c \in queue[r] /\ worker[r][c] = "idle"
       /\ ledger.chunks[c].status = "pending"
    \/ /\ c \notin queue[r] /\ worker[r][c] \in {"claimed", "running", "lost", "ok"}
       /\ ledger.chunks[c].status = "running" /\ ledger.chunks[c].owner = r
    \/ /\ c \notin queue[r] /\ worker[r][c] = "done"
       /\ ledger.chunks[c].status = "success"

(* The holder of the session lock is the one invocation at work, and the   *)
(* ledger names it from its acquisition on.                                *)
OneAtWork ==
    /\ \A r \in Runs :
          \/ pc[r] \in Waiting /\ appLock # r
          \/ pc[r] \in Early \cup Loaded \cup Completed /\ appLock = r
    /\ \A r \in Runs : pc[r] = "done" => appLock # None
    /\ \A r \in Runs : pc[r] \in {"recover", "load"} \cup Loaded \cup Completed
                          => held[r] /\ ledger.lockOwner = r

(* No lane has started before the load. *)
LanesIdle ==
    /\ \A r \in Runs : admission[r]
    /\ \A r \in Runs, c \in Chunks :
          pc[r] \in Waiting \cup Early => worker[r][c] = "idle"

(* No chunk leaves its way from PENDING over RUNNING to SUCCESS. *)
RowsProgress ==
    /\ (\A r \in Runs : pc[r] \in Waiting \cup Early) =>
          \A c \in Chunks : ledger.chunks[c].status = "pending"
    /\ \A r \in Runs, c \in Chunks : pc[r] \in Loaded => ChunkOnItsWay(r, c)
    /\ \A r \in Runs : pc[r] \in Completed => AllCommitted(ledger)

(* While all is quiet the first invocation to get the session lock works   *)
(* alone, keeps the lock, and every chunk makes progress.                  *)
WorksAlone == OneAtWork /\ LanesIdle /\ RowsProgress

QuietInv == Quiet => WorksAlone

(* A fault is remembered. *)
LEMMA FaultFacts ==
    ASSUME TypeOK, Fault
    PROVE  faults' # 0
BY BoundsAssumption DEF TypeOK, Fault

(* An error once recorded stays recorded. *)
LEMMA ErrorsStay ==
    ASSUME TypeOK, NEW q \in Runs, errors[q],
           UNCHANGED errors \/ (\E r \in Runs : FailLane(r))
           \/ \E r \in Runs, c \in Chunks : ClaimRefused(r, c)
    PROVE  errors'[q]
<1>0. errors \in [Runs -> BOOLEAN]
  BY DEF TypeOK
<1>1. CASE UNCHANGED errors
  BY <1>1
<1>2. ASSUME NEW r \in Runs, FailLane(r) PROVE errors'[q]
  BY <1>0, <1>2 DEF FailLane
<1>3. ASSUME NEW r \in Runs, NEW c \in Chunks, ClaimRefused(r, c) PROVE errors'[q]
  BY <1>0, <1>3 DEF ClaimRefused
<1> QED
  BY <1>1, <1>2, <1>3

(* What a step may do to the fault counter and the recorded errors. *)
LEMMA TroubleKinds ==
    ASSUME [Next]_vars
    PROVE  /\ UNCHANGED faults \/ Fault
           /\ UNCHANGED errors \/ (\E r \in Runs : FailLane(r))
              \/ \E r \in Runs, c \in Chunks : ClaimRefused(r, c)
<1> USE DEF laneVars
<1>1. ASSUME NEW r \in Runs, RunStep(r) \/ SessionClose(r)
      PROVE  UNCHANGED faults /\ (UNCHANGED errors \/ FailLane(r))
  BY <1>1
  DEF RunStep, SessionClose, StartCancelled, AcquireSession, AcquireLedger,
      RecoverStaleRunning, LoadLedger, PrepareTick, PrepareSave, PrepareFence,
      CoordinatorLost, LanesDone, Settle, PublishTick, CutoverFence,
      CutoverPersist, CutoverCommit, ReleaseLedger, ReleaseSession
<1>2. ASSUME NEW r \in Runs, FaultStep(r)
      PROVE  Fault /\ (UNCHANGED errors \/ FailLane(r))
  BY <1>2
  DEF FaultStep, Crash, SessionLoss, StepRaises, AcquireLedgerLost, CutoverLost,
      HeartbeatRaises, ClaimLost, ReloadLost, CompleteLost
<1>3. ASSUME NEW r \in Runs, NEW c \in Chunks, ChunkStep(r, c)
      PROVE  UNCHANGED faults /\ (UNCHANGED errors \/ FailLane(r) \/ ClaimRefused(r, c))
  <2>1. UNCHANGED faults
    BY <1>3
    DEF ChunkStep, Claim, ClaimRefused, ProveOwnership, ProveOwnershipFails,
        Heartbeat, HeartbeatLost, RunnerReturns, RunnerRaises,
        CompleteSuccess, CompleteFailed
  <2>2. CASE \/ Claim(r, c) \/ ProveOwnership(r, c) \/ ProveOwnershipFails(r, c)
             \/ Heartbeat(r, c) \/ HeartbeatLost(r, c)
    BY <2>2
    DEF Claim, ProveOwnership, ProveOwnershipFails, Heartbeat, HeartbeatLost
  <2>3. CASE \/ RunnerReturns(r, c) \/ RunnerRaises(r, c)
             \/ CompleteSuccess(r, c) \/ CompleteFailed(r, c)
    BY <2>3 DEF RunnerReturns, RunnerRaises, CompleteSuccess, CompleteFailed
  <2> QED
    BY <1>3, <2>1, <2>2, <2>3 DEF ChunkStep
<1>4. CASE Tick \/ RequestCancel \/ Finished \/ UNCHANGED vars
  BY <1>4 DEF Tick, RequestCancel, Finished, vars
<1> QED
  BY <1>1, <1>2, <1>3, <1>4 DEF Next

(* Trouble does not go away: a quiet campaign was quiet before the step. *)
LEMMA QuietBefore ==
    ASSUME IInv, [Next]_vars, Quiet'
    PROVE  Quiet
<1>0. TypeOK /\ ledger \in Ledger
  BY DEF IInv, TypeOK
<1>1. faults = 0
  <2>1. faults' = 0
    BY DEF Quiet
  <2> QED
    BY <1>0, <2>1, TroubleKinds, FaultFacts
<1>2. \A q \in Runs : ~errors[q]
  <2>1. \A q \in Runs : ~errors'[q]
    BY DEF Quiet
  <2>2. UNCHANGED errors \/ (\E r \in Runs : FailLane(r))
        \/ \E r \in Runs, c \in Chunks : ClaimRefused(r, c)
    BY TroubleKinds
  <2> QED
    BY <1>0, <2>1, <2>2, ErrorsStay
<1>3. ~Cancelled(ledger) /\ ~Published(ledger)
  <2>0. ~Cancelled(ledger)' /\ ~Published(ledger)'
    BY DEF Quiet
  <2>1. ASSUME NEW r \in Runs, Revision(r)
        PROVE  ~Cancelled(ledger) /\ ~Published(ledger)
    BY <2>0, <2>1, RevisionFacts
  <2>2. ASSUME NEW r \in Runs, NEW c \in Chunks, ChunkRevision(r, c)
        PROVE  ~Cancelled(ledger) /\ ~Published(ledger)
    <3>1. SameCampaign(ledger, ledger')
      BY <2>2, ChunkRevisionFacts
    <3> QED
      BY <2>0, <3>1 DEF SameCampaign, Cancelled, Published
  <2>3. CASE UNCHANGED ledger
    BY <2>0, <2>3
  <2>4. CASE RequestCancel
    BY <1>0, <2>0, <2>4, CampaignRowFacts DEF RequestCancel, Cancelled
  <2> QED
    BY <2>1, <2>2, <2>3, <2>4, StepKinds
<1> QED
  BY <1>1, <1>2, <1>3 DEF Quiet

(* A step of the orchestrator that keeps the session lock, under the       *)
(* obligations of the state it goes to.                                    *)
LEMMA QuietMove ==
    ASSUME TypeOK, WorksAlone, NEW r \in Runs,
           NEW s \in Early \cup Loaded \cup Completed,
           pc[r] \in Early \cup Loaded \cup Completed,
           Goto(r, s), UNCHANGED <<appLock, admission, worker>>,
           s # "admitted" => held'[r] /\ ledger'.lockOwner = r,
           s \in Early => /\ pc[r] \in Early
                          /\ \A c \in Chunks : ledger'.chunks[c].status = "pending",
           s \in Loaded => \A c \in Chunks : ChunkOnItsWay(r, c)',
           s \in Completed => AllCommitted(ledger)'
    PROVE  WorksAlone'
<1>0. appLock = r
  BY DEF WorksAlone, OneAtWork, Waiting, Early, Loaded, Completed
<1>1. \A q \in Runs \ {r} : pc[q] \in Waiting /\ pc'[q] = pc[q]
  BY <1>0 DEF WorksAlone, OneAtWork, TypeOK, Goto
<1>2. pc'[r] = s
  BY DEF TypeOK, Goto
<1>3. OneAtWork'
  BY <1>0, <1>1, <1>2 DEF WorksAlone, OneAtWork, Waiting, Early, Loaded, Completed
<1>4. LanesIdle'
  BY <1>1, <1>2 DEF WorksAlone, LanesIdle, Waiting, Early, Loaded, Completed
<1>5. RowsProgress'
  <2>1. ASSUME \A q \in Runs : pc'[q] \in Waiting \cup Early, NEW c \in Chunks
        PROVE  ledger'.chunks[c].status = "pending"
    BY <1>2, <2>1 DEF Waiting, Early, Loaded, Completed
  <2>2. ASSUME NEW q \in Runs, NEW c \in Chunks, pc'[q] \in Loaded
        PROVE  ChunkOnItsWay(q, c)'
    BY <1>1, <1>2, <2>2 DEF Waiting, Loaded
  <2>3. ASSUME NEW q \in Runs, pc'[q] \in Completed
        PROVE  AllCommitted(ledger)'
    BY <1>1, <1>2, <2>3 DEF Waiting, Completed
  <2> QED
    BY <2>1, <2>2, <2>3 DEF RowsProgress
<1> QED
  BY <1>3, <1>4, <1>5 DEF WorksAlone

(* A step of a lane that keeps its chunk on the way. *)
LEMMA QuietLane ==
    ASSUME TypeOK, WorksAlone, NEW r \in Runs, NEW c \in Chunks,
           pc[r] \in Loaded \cup Completed,
           UNCHANGED <<pc, appLock, held, admission>>,
           ledger'.lockOwner = ledger.lockOwner,
           \A q \in Runs \ {r}, d \in Chunks : worker'[q][d] = worker[q][d],
           pc[r] \in Loaded =>
              /\ ChunkOnItsWay(r, c)'
              /\ \A d \in Chunks \ {c} :
                    /\ worker'[r][d] = worker[r][d]
                    /\ d \in queue'[r] <=> d \in queue[r]
                    /\ ledger'.chunks[d] = ledger.chunks[d],
           AllCommitted(ledger) => AllCommitted(ledger)'
    PROVE  WorksAlone'
<1>0. appLock = r
  BY DEF WorksAlone, OneAtWork, Waiting, Loaded, Completed
<1>1. \A q \in Runs \ {r} : pc[q] \in Waiting
  BY <1>0 DEF WorksAlone, OneAtWork
<1>2. OneAtWork'
  BY DEF WorksAlone, OneAtWork
<1>3. LanesIdle'
  BY DEF WorksAlone, LanesIdle, Waiting, Early, Loaded, Completed
<1>4. RowsProgress'
  <2>1. ~(\A q \in Runs : pc'[q] \in Waiting \cup Early)
    BY DEF Waiting, Early, Loaded, Completed
  <2>2. ASSUME NEW q \in Runs, NEW d \in Chunks, pc'[q] \in Loaded
        PROVE  ChunkOnItsWay(q, d)'
    <3>1. q = r
      BY <1>1, <2>2 DEF Waiting, Loaded
    <3>2. CASE d = c
      BY <2>2, <3>1, <3>2
    <3>3. CASE d # c
      <4>1. ChunkOnItsWay(r, d)
        BY <2>2, <3>1 DEF WorksAlone, RowsProgress
      <4> QED
        BY <2>2, <3>1, <3>3, <4>1 DEF ChunkOnItsWay
    <3> QED
      BY <3>2, <3>3
  <2>3. ASSUME NEW q \in Runs, pc'[q] \in Completed
        PROVE  AllCommitted(ledger)'
    BY <2>3 DEF WorksAlone, RowsProgress
  <2> QED
    BY <2>1, <2>2, <2>3 DEF RowsProgress
<1> QED
  BY <1>2, <1>3, <1>4 DEF WorksAlone

(* The steps of the lanes of a quiet campaign. *)
LEMMA QuietChunkStep ==
    ASSUME IInv, Quiet, WorksAlone, Quiet',
           NEW r \in Runs, NEW c \in Chunks, ChunkStep(r, c)
    PROVE  WorksAlone'
<1>0. TypeOK /\ ledger \in Ledger
  BY DEF IInv, TypeOK
<1>1. \A q \in Runs : ~errors'[q]
  BY DEF Quiet
<1>2. ~FailLane(r)
  <2>1. FailLane(r) => errors'[r]
    BY <1>0 DEF TypeOK, FailLane
  <2> QED
    BY <1>1, <2>1
<1>3. pc[r] \in Loaded \cup Completed
  <2>1. pc[r] = "chunks" \/ worker[r][c] # "idle"
    BY DEF ChunkStep, Claim, ClaimRefused, Takes, ProveOwnership,
           ProveOwnershipFails, Heartbeat, HeartbeatLost, RunnerReturns,
           RunnerRaises, CompleteSuccess, CompleteFailed
  <2> QED
    BY <2>1 DEF WorksAlone, OneAtWork, LanesIdle, Loaded
<1>4. pc[r] = "chunks" => ChunkOnItsWay(r, c)
  BY DEF WorksAlone, RowsProgress, Loaded
<1>5. pc[r] \in Loaded => ChunkOnItsWay(r, c)
  BY DEF WorksAlone, RowsProgress
<1>6. ~ClaimRefused(r, c)
  <2>1. SUFFICES ASSUME ClaimRefused(r, c) PROVE FALSE
    OBVIOUS
  <2>2. ledger.chunks[c].status = "pending"
    BY <1>4, <2>1 DEF ClaimRefused, Takes, ChunkOnItsWay
  <2> QED
    BY <2>1, <2>2 DEF ClaimRefused, AcquireChunkOK, Quiet
<1>7. CASE RunnerReturns(r, c)
  <2>1. /\ worker[r][c] = "running" /\ SetWorker(r, c, "ok")
        /\ UNCHANGED <<ledger, campaignVars, queue, admission>>
    BY <1>2, <1>7 DEF RunnerReturns
  <2>2. /\ worker'[r][c] = "ok"
        /\ \A q \in Runs, d \in Chunks :
             q # r \/ d # c => worker'[q][d] = worker[q][d]
    BY <1>0, <2>1, SetWorkerFacts DEF WorkerState
  <2>3. pc[r] \in Loaded => ChunkOnItsWay(r, c)'
    BY <1>5, <2>1, <2>2 DEF ChunkOnItsWay
  <2> QED
    BY <1>0, <1>3, <2>1, <2>2, <2>3, QuietLane DEF campaignVars
<1>8. ASSUME ChunkRevision(r, c),
             \E state \in WorkerState : SetWorker(r, c, state) \/ UNCHANGED worker,
             UNCHANGED admission,
             \A d \in Chunks \ {c} : /\ d \in queue'[r] <=> d \in queue[r]
                                     /\ ledger'.chunks[d] = ledger.chunks[d],
             pc[r] \in Loaded => ChunkOnItsWay(r, c)'
      PROVE  WorksAlone'
  <2>1. /\ UNCHANGED <<pc, appLock, held>>
        /\ SameCampaign(ledger, ledger')
        /\ \E S \in SUBSET {c} : Advance(ledger, ledger', S)
    BY <1>8, ChunkRevisionFacts
  <2>2. AllCommitted(ledger) => AllCommitted(ledger)'
    BY <2>1, AdvanceKeepsAll
  <2>3. ledger'.lockOwner = ledger.lockOwner
    BY <2>1 DEF SameCampaign
  <2>4. \A q \in Runs, d \in Chunks : q # r \/ d # c => worker'[q][d] = worker[q][d]
    BY <1>0, <1>8, SetWorkerFacts
  <2> QED
    BY <1>0, <1>3, <1>8, <2>1, <2>2, <2>3, <2>4, QuietLane
<1>9. CASE Claim(r, c)
  <2>1. /\ ledger' = AcquireChunk(ledger, c, r, now + LeaseTTL)
        /\ SetWorker(r, c, "claimed") /\ UNCHANGED admission
        /\ queue' = [queue EXCEPT ![r] = @ \ {c}]
    BY <1>9 DEF Claim, Takes
  <2>2. /\ ledger'.chunks[c].status = "running" /\ ledger'.chunks[c].owner = r
        /\ \A d \in Chunks \ {c} : ledger'.chunks[d] = ledger.chunks[d]
    BY <1>0, <2>1 DEF AcquireChunk, Ledger
  <2>3. worker'[r][c] = "claimed"
    BY <1>0, <2>1, SetWorkerFacts DEF WorkerState
  <2>4. /\ c \notin queue'[r]
        /\ \A d \in Chunks \ {c} : d \in queue'[r] <=> d \in queue[r]
    BY <1>0, <2>1 DEF TypeOK
  <2>5. ChunkOnItsWay(r, c)'
    BY <2>2, <2>3, <2>4 DEF ChunkOnItsWay
  <2> QED
    BY <1>8, <1>9, <2>1, <2>2, <2>4, <2>5 DEF ChunkRevision, WorkerState
<1>10. CASE ProveOwnership(r, c) \/ Heartbeat(r, c) \/ HeartbeatLost(r, c)
  <2>1. /\ ledger' = Renewed(r, c) /\ UNCHANGED <<queue, admission>>
        /\ worker[r][c] \in {"claimed", "running"}
        /\ \/ SetWorker(r, c, "running") \/ SetWorker(r, c, "lost")
           \/ UNCHANGED worker
    BY <1>10 DEF ProveOwnership, Heartbeat, HeartbeatLost, laneVars
  <2>2. /\ \A d \in Chunks : ledger'.chunks[d].status = ledger.chunks[d].status
        /\ \A d \in Chunks : ledger'.chunks[d].owner = ledger.chunks[d].owner
        /\ \A d \in Chunks \ {c} : ledger'.chunks[d] = ledger.chunks[d]
    BY <1>0, <2>1 DEF Renewed, RenewChunk, Ledger, ChunkRecord
  <2>3. worker'[r][c] \in {"claimed", "running", "lost"}
    BY <1>0, <2>1, SetWorkerFacts DEF WorkerState
  <2>4. pc[r] \in Loaded => ChunkOnItsWay(r, c)'
    BY <1>5, <2>1, <2>2, <2>3 DEF ChunkOnItsWay
  <2> QED
    BY <1>8, <1>10, <2>1, <2>2, <2>4 DEF ChunkRevision, WorkerState
<1>11. CASE CompleteSuccess(r, c)
  <2>1. /\ ledger' = CompleteChunk(ledger, c, "success", record[r][c])
        /\ SetWorker(r, c, "done") /\ UNCHANGED <<queue, admission>>
        /\ worker[r][c] = "ok"
    BY <1>2, <1>11 DEF CompleteSuccess
  <2>2. /\ ledger'.chunks[c].status = "success"
        /\ \A d \in Chunks \ {c} : ledger'.chunks[d] = ledger.chunks[d]
    BY <1>0, <2>1 DEF CompleteChunk, Ledger
  <2>3. worker'[r][c] = "done"
    BY <1>0, <2>1, SetWorkerFacts DEF WorkerState
  <2>4. pc[r] \in Loaded => ChunkOnItsWay(r, c)'
    BY <1>5, <2>1, <2>2, <2>3 DEF ChunkOnItsWay
  <2> QED
    BY <1>8, <1>11, <2>1, <2>2, <2>4 DEF ChunkRevision, WorkerState
<1>12. CASE CompleteFailed(r, c)
  <2>1. /\ SetWorker(r, c, "done") /\ UNCHANGED <<queue, admission>>
        /\ worker[r][c] = "raised"
        /\ \/ UNCHANGED ledger
           \/ ledger' = CompleteChunk(ledger, c, "failed", record[r][c])
    BY <1>12 DEF CompleteFailed
  <2>2. \A d \in Chunks \ {c} : ledger'.chunks[d] = ledger.chunks[d]
    BY <1>0, <2>1 DEF CompleteChunk, Ledger
  <2>3. pc[r] \notin Loaded
    BY <1>5, <2>1 DEF ChunkOnItsWay
  <2> QED
    BY <1>8, <1>12, <2>1, <2>2, <2>3 DEF ChunkRevision, WorkerState
<1>13. ~RunnerRaises(r, c) /\ ~ProveOwnershipFails(r, c)
  BY <1>2 DEF RunnerRaises, ProveOwnershipFails
<1> QED
  BY <1>6, <1>7, <1>9, <1>10, <1>11, <1>12, <1>13 DEF ChunkStep

(* The steps of the orchestrators of a quiet campaign. *)
LEMMA QuietRunStep ==
    ASSUME IInv, Quiet, WorksAlone, Quiet',
           NEW r \in Runs, RunStep(r) \/ SessionClose(r)
    PROVE  WorksAlone'
<1>0. TypeOK /\ ledger \in Ledger /\ r \in Owners /\ r # None
  BY NoOwnerAssumption DEF IInv, TypeOK, Runs, None
<1>1. /\ ~Cancelled(ledger) /\ ~Published(ledger) /\ ~errors[r]
      /\ ~Published(ledger)' /\ ~errors'[r]
  BY DEF Quiet
<1>2. ASSUME pc[r] \in Early, NEW c \in Chunks
      PROVE  /\ ledger.chunks[c].status = "pending"
             /\ worker[r][c] = "idle"
  <2>1. appLock = r
    BY <1>2 DEF WorksAlone, OneAtWork, Early, Waiting
  <2>2. \A q \in Runs : pc[q] \in Waiting \cup Early
    BY <1>2, <2>1 DEF WorksAlone, OneAtWork
  <2> QED
    BY <2>2 DEF WorksAlone, RowsProgress, LanesIdle
<1>3. ASSUME pc[r] \in {"recover", "load"} \cup Loaded \cup Completed
      PROVE  held[r] /\ appLock = r /\ ledger.lockOwner = r /\ Owns(r)
  BY <1>1, <1>3
  DEF WorksAlone, OneAtWork, Waiting, Early, Loaded, Completed, Owns,
      RenewCampaignOK
<1>AcquireSession. CASE AcquireSession(r)
  <2>0. /\ pc[r] = "new" /\ appLock # r
        /\ UNCHANGED <<ledger, held, queue, admission, worker>>
    BY <1>AcquireSession
    DEF AcquireSession, laneVars, WorksAlone, OneAtWork, Early, Loaded, Completed
  <2>1. CASE appLock = None
    <3>1. appLock' = r /\ pc' = [pc EXCEPT ![r] = "admitted"]
      BY <1>AcquireSession, <2>1 DEF AcquireSession, Goto
    <3>2. \A q \in Runs : pc[q] = "new"
      BY <1>0, <2>1, NoOwnerAssumption DEF WorksAlone, OneAtWork, Waiting, Runs, None
    <3>3. pc'[r] = "admitted" /\ \A q \in Runs \ {r} : pc'[q] = "new"
      BY <1>0, <3>1, <3>2 DEF TypeOK
    <3>4. OneAtWork'
      BY <1>0, <3>1, <3>3 DEF OneAtWork, Waiting, Early, Loaded, Completed
    <3>5. LanesIdle'
      BY <2>0, <3>2 DEF WorksAlone, LanesIdle, Waiting
    <3>6. \A c \in Chunks : ledger.chunks[c].status = "pending"
      BY <3>2 DEF WorksAlone, RowsProgress, Waiting
    <3>7. RowsProgress'
      BY <2>0, <3>3, <3>6 DEF RowsProgress, Loaded, Completed
    <3> QED
      BY <3>4, <3>5, <3>7 DEF WorksAlone
  <2>2. CASE appLock # None
    <3>1. appLock' = appLock /\ pc' = [pc EXCEPT ![r] = "done"]
      BY <1>AcquireSession, <2>2 DEF AcquireSession, Goto
    <3>2. pc'[r] = "done" /\ \A q \in Runs \ {r} : pc'[q] = pc[q]
      BY <1>0, <3>1 DEF TypeOK
    <3>3. OneAtWork'
      BY <2>0, <2>2, <3>1, <3>2 DEF WorksAlone, OneAtWork, Waiting, Loaded, Completed
    <3>4. LanesIdle'
      BY <2>0, <3>2 DEF WorksAlone, LanesIdle, Waiting
    <3>5. \A q \in Runs : pc'[q] \in Waiting \cup Early => pc[q] \in Waiting \cup Early
      BY <2>0, <3>2 DEF Waiting
    <3>6. \A q \in Runs : pc'[q] \in Loaded \cup Completed => pc'[q] = pc[q]
      BY <3>2 DEF Loaded, Completed
    <3>7. RowsProgress'
      BY <2>0, <3>5, <3>6 DEF WorksAlone, RowsProgress, ChunkOnItsWay
    <3> QED
      BY <3>3, <3>4, <3>7 DEF WorksAlone
  <2> QED
    BY <2>1, <2>2
<1>AcquireLedger. CASE AcquireLedger(r)
  <2>1. /\ pc[r] = "admitted" /\ ledger' = AcquireCampaign(ledger, r)
        /\ held' = [held EXCEPT ![r] = TRUE] /\ Goto(r, "recover")
        /\ UNCHANGED <<appLock, admission, worker>>
    BY <1>1, <1>AcquireLedger DEF AcquireLedger, AcquireCampaignOK, laneVars
  <2>2. ledger'.lockOwner = r /\ held'[r]
    BY <1>0, <2>1, AcquireCampaignFacts DEF TypeOK
  <2>3. \A c \in Chunks : ledger'.chunks[c].status = "pending"
    BY <1>0, <1>2, <2>1, AcquireCampaignFacts DEF Early
  <2> QED
    BY <1>0, <2>1, <2>2, <2>3, QuietMove DEF Early, Loaded, Completed
<1>RecoverStaleRunning. CASE RecoverStaleRunning(r)
  <2>1. /\ pc[r] = "recover" /\ ledger' = RecoverChunks(ledger, now)
        /\ Goto(r, "load") /\ UNCHANGED <<appLock, held, admission, worker>>
    BY <1>RecoverStaleRunning DEF RecoverStaleRunning, laneVars
  <2>2. now \in Nat
    BY BoundsAssumption DEF IInv, TypeOK
  <2>3. /\ ledger'.lockOwner = ledger.lockOwner
        /\ \A c \in Chunks : \/ ledger'.chunks[c] = ledger.chunks[c]
                             \/ ledger.chunks[c].status = "running"
    BY <1>0, <2>1, <2>2, RecoverChunksFacts DEF SameCampaign
  <2>4. \A c \in Chunks : ledger'.chunks[c].status = "pending"
    BY <1>2, <2>1, <2>3 DEF Early
  <2> QED
    BY <1>0, <1>3, <2>1, <2>3, <2>4, QuietMove DEF Early, Loaded, Completed
<1>LoadLedger. CASE LoadLedger(r)
  <2>1. /\ pc[r] = "load" /\ queue' = [queue EXCEPT ![r] = Chunks \ Committed(ledger)]
        /\ Goto(r, "prepare") /\ UNCHANGED <<ledger, appLock, held, admission, worker>>
    BY <1>LoadLedger DEF LoadLedger
  <2>2. \A c \in Chunks : c \in queue'[r]
    BY <1>0, <1>2, <2>1 DEF TypeOK, Committed, Early
  <2>3. \A c \in Chunks : ChunkOnItsWay(r, c)'
    BY <1>2, <2>1, <2>2 DEF ChunkOnItsWay, Early
  <2> QED
    BY <1>0, <1>3, <2>1, <2>3, QuietMove DEF Early, Loaded, Completed
<1>4. ASSUME NEW s \in Loaded \cup Completed, TickTo(r, s),
             pc[r] \in Loaded \cup Completed,
             UNCHANGED <<ledger, appLock, queue, admission, worker>>,
             s \in Loaded => pc[r] \in Loaded,
             s \in Completed => AllCommitted(ledger)
      PROVE  WorksAlone'
  <2>1. held[r] /\ appLock = r /\ ledger.lockOwner = r /\ Owns(r)
    BY <1>3, <1>4
  <2>2. Goto(r, s) /\ held'[r]
    BY <1>0, <1>4, <2>1 DEF TickTo, Forget, TypeOK
  <2>3. s \in Loaded => \A c \in Chunks : ChunkOnItsWay(r, c)'
    BY <1>4 DEF WorksAlone, RowsProgress, ChunkOnItsWay
  <2>4. s # "admitted" /\ s \notin Early
    BY DEF Early, Loaded, Completed
  <2> QED
    BY <1>0, <1>4, <2>1, <2>2, <2>3, <2>4, QuietMove
<1>Ticks. CASE PrepareTick(r) \/ PrepareFence(r)
  BY <1>4, <1>Ticks DEF PrepareTick, PrepareFence, laneVars, Loaded, Completed
<1>PublishTick. CASE PublishTick(r)
  <2>1. AllCommitted(ledger)
    BY <1>PublishTick DEF PublishTick, WorksAlone, RowsProgress, Completed
  <2> QED
    BY <1>4, <1>PublishTick, <2>1 DEF PublishTick, laneVars, Loaded, Completed
<1>LanesDone. CASE LanesDone(r)
  <2>1. /\ pc[r] = "chunks" /\ Busy(r) = {} /\ queue[r] = {}
        /\ TickTo(r, "settle")
        /\ UNCHANGED <<ledger, appLock, queue, admission, worker>>
    BY <1>LanesDone DEF LanesDone, WorksAlone, LanesIdle, laneVars
  <2>2. ASSUME NEW c \in Chunks PROVE ledger.chunks[c].status = "success"
    <3>1. ChunkOnItsWay(r, c)
      BY <2>1 DEF WorksAlone, RowsProgress, Loaded
    <3>2. worker[r][c] \notin Active
      BY <2>1 DEF Busy
    <3> QED
      BY <2>1, <3>1, <3>2 DEF ChunkOnItsWay, Active
  <2>3. AllCommitted(ledger)
    BY <2>2 DEF AllCommitted
  <2> QED
    BY <1>4, <2>1, <2>3 DEF Loaded, Completed
<1>PrepareSave. CASE PrepareSave(r)
  <2>1. /\ pc[r] = "save" /\ ledger' = SavePhase(ledger, "prepared")
        /\ Goto(r, "fence") /\ UNCHANGED <<appLock, held, queue, admission, worker>>
    BY <1>1, <1>PrepareSave DEF PrepareSave, laneVars
  <2>2. ledger'.lockOwner = ledger.lockOwner /\ ledger'.chunks = ledger.chunks
    BY <1>0, <2>1, CampaignRowFacts
  <2>3. \A c \in Chunks : ChunkOnItsWay(r, c)'
    BY <2>1, <2>2 DEF WorksAlone, RowsProgress, ChunkOnItsWay, Loaded
  <2> QED
    BY <1>0, <1>3, <2>1, <2>2, <2>3, QuietMove DEF Early, Loaded, Completed
<1>Publication. CASE Settle(r) \/ CutoverFence(r) \/ CutoverPersist(r)
  <2>1. /\ pc[r] \in Completed
        /\ UNCHANGED <<ledger, appLock, held, admission, worker>>
    BY <1>Publication DEF Settle, CutoverFence, CutoverPersist, laneVars, Completed
  <2>2. AllCommitted(ledger) /\ Owns(r)
    BY <1>3, <2>1 DEF WorksAlone, RowsProgress
  <2>3. ShadowExact
    BY <2>2 DEF IInv, LoadedOnce, AllCommitted, ShadowExact
  <2>4. \E s \in Completed : Goto(r, s)
    <3>1. CASE Settle(r)
      BY <1>1, <2>2, <3>1 DEF Settle, CampaignCompleted, Completed
    <3>2. CASE CutoverFence(r)
      BY <1>1, <2>2, <2>3, <3>2 DEF CutoverFence, FenceOK, Owns, Completed
    <3>3. CASE CutoverPersist(r)
      BY <2>2, <3>3 DEF CutoverPersist, Owns, Completed
    <3> QED
      BY <1>Publication, <3>1, <3>2, <3>3
  <2>5. PICK s \in Completed : Goto(r, s)
    BY <2>4
  <2>6. s # "admitted" /\ s \notin Early /\ s \notin Loaded
    BY DEF Early, Loaded, Completed
  <2> QED
    BY <1>0, <1>3, <2>1, <2>2, <2>5, <2>6, QuietMove
<1>Impossible. /\ ~StartCancelled(r) /\ ~CoordinatorLost(r) /\ ~CutoverCommit(r)
               /\ ~ReleaseLedger(r) /\ ~ReleaseSession(r) /\ ~SessionClose(r)
  <2>1. ~StartCancelled(r)
    BY <1>1 DEF StartCancelled
  <2>2. ~CoordinatorLost(r)
    BY <1>0, <1>1 DEF CoordinatorLost, FailLane, TypeOK
  <2>3. ~CutoverCommit(r)
    BY <1>0, <1>1 DEF CutoverCommit, Ledger, Published
  <2>4. ~ReleaseLedger(r) /\ ~ReleaseSession(r)
    BY DEF ReleaseLedger, ReleaseSession, WorksAlone, OneAtWork, Waiting, Early,
           Loaded, Completed
  <2>5. ~SessionClose(r)
    BY DEF SessionClose, Ended, WorksAlone, OneAtWork, Waiting, Early, Loaded,
           Completed
  <2> QED
    BY <2>1, <2>2, <2>3, <2>4, <2>5
<1> QED
  BY <1>AcquireSession, <1>AcquireLedger, <1>RecoverStaleRunning, <1>LoadLedger,
     <1>Ticks, <1>PublishTick, <1>LanesDone, <1>PrepareSave, <1>Publication,
     <1>Impossible
  DEF RunStep

(* QuietInv is inductive relative to IInv. *)
LEMMA QuietStep ==
    ASSUME IInv, QuietInv, [Next]_vars
    PROVE  QuietInv'
<1> SUFFICES ASSUME Quiet' PROVE WorksAlone'
  BY DEF QuietInv
<1>0. Quiet /\ WorksAlone
  BY QuietBefore DEF QuietInv
<1>1. ASSUME NEW r \in Runs, RunStep(r) \/ SessionClose(r) PROVE WorksAlone'
  BY <1>0, <1>1, QuietRunStep
<1>2. ASSUME NEW r \in Runs, NEW c \in Chunks, ChunkStep(r, c) PROVE WorksAlone'
  BY <1>0, <1>2, QuietChunkStep
<1>3. ASSUME NEW r \in Runs, FaultStep(r) PROVE FALSE
  <2>1. Fault
    BY <1>3
    DEF FaultStep, Crash, SessionLoss, StepRaises, AcquireLedgerLost,
        CutoverLost, HeartbeatRaises, ClaimLost, ReloadLost, CompleteLost
  <2>2. TypeOK /\ faults' = 0
    BY DEF IInv, Quiet
  <2> QED
    BY <2>1, <2>2, FaultFacts
<1>4. ~RequestCancel
  <2>1. ledger \in Ledger /\ ~Cancelled(ledger)'
    BY DEF IInv, TypeOK, Quiet
  <2> QED
    BY <2>1, CampaignRowFacts DEF RequestCancel, Cancelled
<1>5. CASE Tick \/ Finished \/ UNCHANGED vars
  <2>1. UNCHANGED <<ledger, appLock, held, pc, queue, admission, worker>>
    BY <1>5 DEF Tick, Finished, vars, campaignVars, laneVars
  <2> QED
    BY <1>0, <2>1
    DEF WorksAlone, OneAtWork, LanesIdle, RowsProgress, ChunkOnItsWay
<1> QED
  BY <1>1, <1>2, <1>3, <1>4, <1>5 DEF Next

(* For every number of invocations, chunks and lanes, a campaign without a *)
(* fault, a cancellation or a chunk error is published once its            *)
(* invocations have ended: neither refusals at the session lock nor the    *)
(* clock, which may run freely past the leases, keep it from publishing.   *)
THEOREM QuietIsPublished == Spec => []QuietCampaignIsPublished
<1>1. Init => QuietInv
  <2> SUFFICES ASSUME Init PROVE WorksAlone
    BY DEF QuietInv
  <2>1. \A c \in Chunks : ledger.chunks[c].status = "pending"
    BY DEF Init, InitialLedger
  <2>2. \A r \in Runs : pc[r] = "new" /\ appLock # r /\ admission[r]
    BY NoOwnerAssumption DEF Init, Runs, None
  <2>3. \A r \in Runs, c \in Chunks : worker[r][c] = "idle"
    BY DEF Init
  <2> QED
    BY <2>1, <2>2, <2>3
    DEF WorksAlone, OneAtWork, LanesIdle, RowsProgress, Waiting, Loaded, Completed
<1>2. IInv /\ QuietInv /\ [Next]_vars => QuietInv'
  BY QuietStep
<1>3. IInv /\ QuietInv => QuietCampaignIsPublished
  <2> SUFFICES ASSUME IInv, QuietInv,
                      \A r \in Runs : pc[r] = "done" /\ ~errors[r],
                      faults = 0, ~Cancelled(ledger), ~Published(ledger)
               PROVE  FALSE
    BY DEF QuietCampaignIsPublished
  <2>1. OneAtWork
    BY DEF Quiet, QuietInv, WorksAlone
  <2>2. PICK r \in Runs : TRUE
    BY OwnersAssumption DEF Runs
  <2>3. appLock # None /\ appLock \in Runs \cup {None}
    BY <2>1, <2>2 DEF OneAtWork, IInv, TypeOK
  <2> QED
    BY <2>1, <2>3 DEF OneAtWork, Early, Loaded, Completed
<1> QED
  BY <1>1, <1>2, <1>3, Invariance, PTL DEF Spec
=============================================================================
