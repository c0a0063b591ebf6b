---------------------------- MODULE ProcessLanes ----------------------------
(***************************************************************************)
(* The process-lane executor of a backfill: run_process_chunk_lanes, a     *)
(* single-threaded parent that owns the campaign ledger, and one spawned   *)
(* process tree per lane that does the target work and talks to the parent *)
(* over a pipe.                                                            *)
(*                                                                         *)
(* The parent claims chunks in the ledger, re-proves them, hands each to a *)
(* lane, and records a result only from a validated message or from the    *)
(* target's own receipt.  When a result is ambiguous (a crash, a failure   *)
(* message, a lost lease, a broken pipe) it first proves the lane's whole  *)
(* process tree dead, then asks the target for a receipt and only then     *)
(* fails the claim.                                                        *)
(*                                                                         *)
(* Around it: lanes crash, leave native descendants behind or hang; trees  *)
(* survive SIGKILL; ledger writes and receipt probes raise; the parent is  *)
(* interrupted; an operator cancels; another invocation takes the campaign *)
(* over and works on the same chunks.                                      *)
(*                                                                         *)
(* Every iteration of the parent's loop may or may not find a heartbeat, a *)
(* tick or a renewal due, so "serve" leaves their order open; it drains    *)
(* the pipes between any two of them, as drain_lane_events does.           *)
(* lane.stopping is set only together with stop_dispatch, which already    *)
(* ends every dispatch, so stop stands for both.  A successful heartbeat,  *)
(* renewal or status exchange changes nothing below and is not a step.     *)
(***************************************************************************)
EXTENDS LedgerTransitions, FiniteSets, Sequences

CONSTANTS
    Parent,     \* the invocation that runs the lanes
    Rival,      \* an invocation that takes the campaign over
    Lanes,      \* worker ids
    None,       \* no chunk, no lane
    Work,       \* the pending chunks, each once, in dispatch order
    Replayable, \* chunks an earlier run may have committed unrecorded
    Contested,  \* bound: the chunks that invocation goes for; none, and it
                \* and the operator stay away
    MaxFaults   \* bound on crashes, outages, interrupts and takeovers

ASSUME LanesAssumption ==
    /\ Parent \in Owners /\ Rival \in Owners /\ Parent # Rival
    /\ Lanes \subseteq Nat /\ IsFiniteSet(Lanes)
    /\ None \notin Lanes \cup Chunks
    /\ Work \in Seq(Chunks)
    /\ \A i, j \in 1 .. Len(Work) : Work[i] = Work[j] => i = j
    /\ Replayable \subseteq Chunks
    /\ Contested \subseteq Chunks
    /\ MaxFaults \in Nat

VARIABLES
    phase,      \* where run_process_chunk_lanes stands
    queue,      \* chunks not yet claimed
    batch,      \* lanes the current dispatch still has to claim for
    prepared,   \* prepared[l]: claimed for lane l and not yet sent to it
    fresh,      \* prepared lanes whose claim was renewed and proved
    running,    \* running[l]: the dispatch the parent holds for lane l
    control,    \* control[l]: a control_error is latched on lane l
    registered, \* registered[l]: the target operation of the dispatch
    authorized, \* authorized[l]: a receipt probe was authorised for it
    stop,       \* stop_dispatch
    resolving,  \* the lane whose tree is being quiesced
    tree,       \* tree[l]: the lane's process and its native descendants
    job,        \* job[l]: where the lane's process stands
    task,       \* task[l]: the chunk the lane's process works on
    up,         \* up[l]: frames on the way to the parent
    reply,      \* reply[l]: the parent's answer to the lane's request
    ledger,     \* the campaign ledger
    receipt,    \* receipt[c]: whose commit receipt the target holds
    verdict,    \* verdict[c]: what the parent durably recorded
    trouble,    \* trouble[c]: failed system calls about the parent's claim
    faults      \* faults injected so far

dispatchVars == <<queue, batch, prepared, fresh>>
laneVars == <<running, control, registered, authorized>>
childVars == <<tree, job, task, up, reply>>
recordVars == <<ledger, receipt, verdict, trouble>>
vars == <<phase, queue, batch, prepared, fresh, running, control, registered,
          authorized, stop, resolving, tree, job, task, up, reply, ledger,
          receipt, verdict, trouble, faults>>

Phases == {"start", "serve", "prepare", "refresh", "send", "collect",
           "closing", "abort", "cleanup", "ended", "raised"}

(* A claim's lease, which no clock ends here: a takeover orphans it. *)
Lease == 1

Running == {l \in Lanes : running[l] # None}
Prepared == {l \in Lanes : prepared[l] # None}
Exited(l) == tree[l] # "live"
Ready(l) == job[l] # "boot"
First(S) == CHOOSE l \in S : \A k \in S : l <= k
Candidates == {l \in Lanes : running[l] = None /\ Ready(l)}

(* Lanes with a frame or an exit the parent has not served. *)
Pending == {l \in Running : up[l] # <<>> \/ Exited(l)}

Fault == faults < MaxFaults /\ faults' = faults + 1

Init ==
    /\ phase = "start"
    /\ queue = Work
    /\ batch = {} /\ fresh = {}
    /\ prepared = [l \in Lanes |-> None]
    /\ running = [l \in Lanes |-> None]
    /\ control = [l \in Lanes |-> FALSE]
    /\ registered = [l \in Lanes |-> FALSE]
    /\ authorized = [l \in Lanes |-> FALSE]
    /\ stop = FALSE
    /\ resolving = None
    /\ tree = [l \in Lanes |-> "live"]
    /\ job = [l \in Lanes |-> "boot"]
    /\ task = [l \in Lanes |-> None]
    /\ up = [l \in Lanes |-> <<>>]
    /\ reply = [l \in Lanes |-> "none"]
    /\ ledger = [InitialLedger EXCEPT !.lockOwner = Parent,
                                      !.phase = "prepared"]
    /\ \E earlier \in SUBSET Replayable :
          receipt = [c \in Chunks |-> IF c \in earlier THEN "other"
                                                      ELSE "none"]
    /\ verdict = [c \in Chunks |-> "none"]
    /\ trouble = [c \in Chunks |-> {}]
    /\ faults = 0

-----------------------------------------------------------------------------
(* Ledger writes of the parent *)

(* _fail_owned_claim for a set of claims: FAILED by owner compare-and-set, *)
(* nothing when the chunk is SUCCESS or has another owner.                 *)
FailedBy(S) == {c \in S : CompleteChunkOK(ledger, c, Parent)}

Terminal(c, status) ==
    CompleteChunk(ledger, c, status, ledger.chunks[c].attempts).chunks[c]

FailClaims(S, raising) ==
    LET written == FailedBy(S \ raising) IN
    /\ ledger' = [ledger EXCEPT !.chunks = [c \in Chunks |->
                     IF c \in written THEN Terminal(c, "failed") ELSE @[c]]]
    /\ verdict' = [c \in Chunks |->
                     IF c \in written THEN "failed" ELSE verdict[c]]
    /\ trouble' = [c \in Chunks |->
                     IF c \in raising THEN trouble[c] \cup {"ledger"}
                                      ELSE trouble[c]]

(* Mutant of Promotable: a lane with a latched control error is not recovered. *)
PromotableHealthy(l, c) ==
    /\ registered[l] /\ ~control[l]
    /\ receipt[c] = "ours"
    /\ CompleteChunkOK(ledger, c, Parent)

(* promote_owned: the target holds the receipt of exactly this operation,  *)
(* and the chunk is already SUCCESS or still RUNNING under this owner.     *)
Promotable(l, c) ==
    /\ registered[l]
    /\ receipt[c] = "ours"
    /\ \/ ledger.chunks[c].status = "success"
       \/ CompleteChunkOK(ledger, c, Parent)

Succeed(c) ==
    /\ ledger' = IF CompleteChunkOK(ledger, c, Parent)
                 THEN [ledger EXCEPT !.chunks[c] = Terminal(c, "success")]
                 ELSE ledger
    /\ verdict' = [verdict EXCEPT ![c] = "success"]

(* Recovery first, FAILED only when it found no receipt. *)
Settle(l) ==
    LET c == running[l] IN
    \E bad \in SUBSET {"recovery", "ledger"} :
        /\ IF bad = {} THEN UNCHANGED faults ELSE Fault
        /\ "recovery" \in bad => registered[l]
        /\ IF "recovery" \notin bad /\ Promotable(l, c)
           THEN /\ bad = {}
                /\ Succeed(c)
                /\ UNCHANGED trouble
           ELSE /\ LET written == IF "ledger" \in bad THEN {}
                                  ELSE FailedBy({c})
                   IN /\ ledger' = [ledger EXCEPT !.chunks[c] =
                             IF c \in written THEN Terminal(c, "failed")
                                              ELSE @]
                      /\ verdict' = [verdict EXCEPT ![c] =
                             IF c \in written THEN "failed" ELSE @]
                /\ trouble' = [trouble EXCEPT ![c] = @ \cup bad]

ClearLane(l) ==
    /\ running' = [running EXCEPT ![l] = None]
    /\ control' = [control EXCEPT ![l] = FALSE]
    /\ registered' = [registered EXCEPT ![l] = FALSE]
    /\ authorized' = [authorized EXCEPT ![l] = FALSE]

LatchAll ==
    control' = [l \in Lanes |-> control[l] \/ running[l] # None]

-----------------------------------------------------------------------------
(* Startup *)

(* start_lanes and await_ready: every lane opens its runtime, or fails to  *)
(* start or answer in time, which forbids every dispatch.                  *)
Startup ==
    /\ phase = "start"
    /\ \E up1 \in SUBSET Lanes, lost \in SUBSET Lanes :
        /\ lost \subseteq Lanes \ up1
        /\ job' = [l \in Lanes |-> IF l \in up1 THEN "idle" ELSE "boot"]
        /\ tree' = [l \in Lanes |-> IF l \in lost THEN "gone" ELSE "live"]
        /\ stop' = (up1 # Lanes)
    /\ phase' = "serve"
    /\ UNCHANGED <<dispatchVars, laneVars, resolving, task, up, reply,
                   recordVars, faults>>

-----------------------------------------------------------------------------
(* Dispatch: claim, re-prove, gate, send *)

CanDispatch ==
    /\ ~stop
    /\ Prepared # {} \/ (queue # <<>> /\ Candidates # {})

Quiet == resolving = None

(* handle_idle_native_exits: a dead idle lane ends dispatching. *)
IdleExit ==
    /\ phase = "serve" /\ Quiet /\ ~stop
    /\ \E l \in Candidates : Exited(l)
    /\ stop' = TRUE
    /\ \/ /\ tree' = [l \in Lanes |-> IF l \in Candidates /\ Exited(l)
                                      THEN "gone" ELSE tree[l]]
          /\ UNCHANGED faults
       \/ UNCHANGED tree /\ Fault
    /\ UNCHANGED <<phase, dispatchVars, laneVars, resolving, job, task, up,
                   reply, recordVars>>

(* A retained batch is re-proved; otherwise one lane is claimed for while  *)
(* peers run, and every idle lane when none does.                          *)
BeginDispatch ==
    /\ phase = "serve" /\ Quiet /\ CanDispatch
    /\ \A l \in Candidates : ~Exited(l)
    /\ IF Prepared # {}
       THEN phase' = "refresh" /\ batch' = {}
       ELSE /\ phase' = "prepare"
            /\ batch' = IF Running # {} THEN {First(Candidates)}
                                        ELSE Candidates
    /\ fresh' = {}
    /\ UNCHANGED <<queue, prepared, laneVars, stop, resolving, childVars,
                   recordVars, faults>>

(* claim_chunk: the chunk leaves the queue; a refused lease, or a failure  *)
(* after the lease was taken ends the dispatch.  The latter fails the      *)
(* claim, unless that write raises too.                                    *)
Claim ==
    /\ phase = "prepare" /\ Quiet /\ ~stop
    /\ batch # {} /\ queue # <<>>
    /\ LET l == First(batch)
           c == Head(queue)
           claimed == AcquireChunk(ledger, c, Parent, Lease).chunks[c]
       IN \/ /\ Exited(l)
             /\ stop' = TRUE
             /\ UNCHANGED <<queue, batch, prepared, ledger, verdict, trouble,
                            faults>>
          \/ /\ ~Exited(l)
             /\ queue' = Tail(queue)
             /\ \/ /\ AcquireChunkOK(ledger, c, 0)
                   /\ ledger' = [ledger EXCEPT !.chunks[c] = claimed]
                   /\ prepared' = [prepared EXCEPT ![l] = c]
                   /\ batch' = batch \ {l}
                   /\ UNCHANGED <<verdict, stop, trouble, faults>>
                \/ /\ AcquireChunkOK(ledger, c, 0)
                   /\ ledger' = [ledger EXCEPT !.chunks[c] =
                         [claimed EXCEPT !.status = "failed",
                                         !.owner = NoOwner, !.expires = 0]]
                   /\ verdict' = [verdict EXCEPT ![c] = "failed"]
                   /\ stop' = TRUE
                   /\ UNCHANGED <<batch, prepared, trouble, faults>>
                \/ /\ AcquireChunkOK(ledger, c, 0)
                   /\ Fault
                   /\ ledger' = [ledger EXCEPT !.chunks[c] = claimed]
                   /\ trouble' = [trouble EXCEPT ![c] = @ \cup {"ledger"}]
                   /\ stop' = TRUE
                   /\ UNCHANGED <<batch, prepared, verdict>>
                \/ /\ ~AcquireChunkOK(ledger, c, 0)
                   /\ stop' = TRUE
                   /\ UNCHANGED <<batch, prepared, ledger, verdict, trouble,
                                  faults>>
    /\ UNCHANGED <<phase, fresh, laneVars, resolving, childVars, receipt>>

ClaimsDone ==
    /\ phase = "prepare" /\ Quiet /\ ~stop
    /\ batch = {} \/ queue = <<>>
    /\ phase' = IF Prepared = {} THEN "serve" ELSE "refresh"
    /\ batch' = {}
    /\ UNCHANGED <<queue, prepared, fresh, laneVars, stop, resolving,
                   childVars, recordVars, faults>>

(* refresh_dispatch and prove_dispatch: the lease is renewed and re-proved *)
(* under the exact owner, or the batch is abandoned.                       *)
Refresh ==
    /\ phase = "refresh" /\ Quiet /\ ~stop
    /\ Prepared \ fresh # {}
    /\ LET l == First(Prepared \ fresh) IN
          \/ /\ RenewChunkOK(ledger, prepared[l], Parent, 0)
             /\ fresh' = fresh \cup {l}
             /\ UNCHANGED stop
          \/ /\ stop' = TRUE
             /\ UNCHANGED fresh
    /\ UNCHANGED <<phase, queue, batch, prepared, laneVars, resolving,
                   childVars, recordVars, faults>>

(* coordinator_reprove, then gate_dispatch_control, which may only look: a *)
(* peer with news defers the batch, a dead prepared lane abandons it.      *)
FinalGate ==
    /\ phase = "refresh" /\ Quiet /\ ~stop
    /\ Prepared \ fresh = {}
    /\ \/ /\ stop' = TRUE
          /\ LatchAll
          /\ UNCHANGED phase
       \/ /\ RenewCampaignOK(ledger, Parent)
          /\ UNCHANGED control
          /\ IF Pending # {}
             THEN phase' = "serve" /\ UNCHANGED stop
             ELSE IF \E l \in Prepared : Exited(l)
             THEN stop' = TRUE /\ UNCHANGED phase
             ELSE phase' = "send" /\ UNCHANGED stop
    /\ UNCHANGED <<dispatchVars, running, registered, authorized, resolving,
                   childVars, recordVars, faults>>

(* Mutant of Send: ownership is published after the frame was written. *)
SendThenOwn ==
    /\ phase = "send" /\ ~stop /\ Prepared # {}
    /\ LET l == First(Prepared) IN
       /\ ~Exited(l)
       /\ stop' \in BOOLEAN
       /\ prepared' = [prepared EXCEPT ![l] = IF stop' THEN @ ELSE None]
       /\ running' = [running EXCEPT ![l] = IF stop' THEN @ ELSE prepared[l]]
       /\ control' = [control EXCEPT ![l] = FALSE]
       /\ job' = [job EXCEPT ![l] = "sent"]
       /\ task' = [task EXCEPT ![l] = prepared[l]]
       /\ reply' = [reply EXCEPT ![l] = "none"]
    /\ UNCHANGED <<phase, queue, batch, fresh, registered, authorized,
                   resolving, tree, up, recordVars, faults>>

(* The parent owns the dispatch before the frame is written: a failed send *)
(* may or may not have delivered it.                                       *)
Send ==
    /\ phase = "send" /\ ~stop /\ Prepared # {}
    /\ LET l == First(Prepared) IN
       \/ /\ Exited(l)
          /\ stop' = TRUE
          /\ UNCHANGED <<prepared, running, control, job, task, reply>>
       \/ /\ ~Exited(l)
          /\ prepared' = [prepared EXCEPT ![l] = None]
          /\ running' = [running EXCEPT ![l] = prepared[l]]
          /\ \E raised, delivered \in BOOLEAN :
                /\ raised \/ delivered
                /\ stop' = raised
                /\ control' = [control EXCEPT ![l] = raised]
                /\ IF delivered
                   THEN /\ job' = [job EXCEPT ![l] = "sent"]
                        /\ task' = [task EXCEPT ![l] = prepared[l]]
                        /\ reply' = [reply EXCEPT ![l] = "none"]
                   ELSE UNCHANGED <<job, task, reply>>
    /\ UNCHANGED <<phase, queue, batch, fresh, registered, authorized,
                   resolving, tree, up, recordVars, faults>>

BatchPublished ==
    /\ phase = "send" /\ ~stop /\ Prepared = {}
    /\ phase' = "serve"
    /\ UNCHANGED <<dispatchVars, laneVars, stop, resolving, childVars,
                   recordVars, faults>>

(* Every early exit of the dispatch: claims never sent are failed through  *)
(* their exact owner; one whose write raises stays in the ownership cell.  *)
AbandonPrepared ==
    /\ phase \in {"prepare", "refresh", "send"} /\ Quiet /\ stop
    /\ \E raising \in SUBSET Prepared :
        /\ IF raising = {} THEN UNCHANGED faults ELSE Fault
        /\ FailClaims({prepared[l] : l \in Prepared},
                      {prepared[l] : l \in raising})
        /\ prepared' = [l \in Lanes |-> IF l \in raising THEN prepared[l]
                                                         ELSE None]
    /\ phase' = "serve"
    /\ batch' = {} /\ fresh' = {}
    /\ UNCHANGED <<queue, laneVars, stop, resolving, childVars, receipt>>

-----------------------------------------------------------------------------
(* The parent's control loop: frames, exits, leases *)

Serving == phase \in {"serve", "prepare", "refresh"} /\ Quiet

(* resolve_ambiguous_failure starts: the tree is signalled, the lane's     *)
(* processes run on until they are seen dead.                              *)
BeginResolve(l) ==
    /\ resolving' = l
    /\ stop' = TRUE
    /\ UNCHANGED <<phase, dispatchVars, laneVars, tree, job, task, reply,
                   recordVars, faults>>

(* handle_native_exits, or a frame that cannot be received. *)
HandleExit(l) ==
    /\ Serving /\ running[l] # None
    /\ Exited(l)
    /\ BeginResolve(l)
    /\ UNCHANGED up

ReceiveFails(l) ==
    /\ Serving /\ running[l] # None
    /\ up[l] # <<>>
    /\ Fault
    /\ up' = [up EXCEPT ![l] = Tail(@)]
    /\ resolving' = l
    /\ stop' = TRUE
    /\ UNCHANGED <<phase, dispatchVars, laneVars, tree, job, task, reply,
                   recordVars>>

Frame(l, kind) ==
    /\ Serving /\ running[l] # None
    /\ up[l] # <<>>
    /\ Head(up[l]) = kind
    /\ up' = [up EXCEPT ![l] = Tail(@)]

(* A reply that cannot be delivered, and a refusal, end dispatching. *)
Answer(l, yes) ==
    /\ reply' = [reply EXCEPT ![l] = IF Exited(l) THEN @
                                     ELSE IF yes THEN "yes" ELSE "no"]
    /\ stop' = (stop \/ ~yes \/ Exited(l))

(* ParentReceiptReplayCoordinator.handle *)
HandleProbeRequest(l) ==
    /\ Frame(l, "probe")
    /\ \E yes \in BOOLEAN :
        /\ yes => ~control[l]
        /\ Answer(l, yes)
        /\ authorized' = [authorized EXCEPT ![l] = @ \/ yes]
    /\ UNCHANGED <<phase, dispatchVars, running, control, registered,
                   resolving, tree, job, task, recordVars, faults>>

(* ParentOperationLeaseCoordinator.handle: one renewal, then registered. *)
HandleRegister(l) ==
    /\ Frame(l, "register")
    /\ \E yes \in BOOLEAN :
        /\ yes => ~control[l]
        /\ Answer(l, yes)
        /\ registered' = [registered EXCEPT ![l] = @ \/ yes]
    /\ UNCHANGED <<phase, dispatchVars, running, control, authorized,
                   resolving, tree, job, task, recordVars, faults>>

(* validate_success: a registered operation, or an authorised receipt that *)
(* the parent reads again itself.                                          *)
Validated(l) ==
    registered[l] \/ (authorized[l] /\ receipt[running[l]] # "none")

(* ProcessLaneSucceeded under a latched control error, or one the parent   *)
(* cannot validate or record, is ambiguous; a raised completion may have   *)
(* been written.  A claim that lost its owner only stops the lane.         *)
HandleSucceeded(l) ==
    /\ Frame(l, "succeeded")
    /\ LET c == running[l] IN
       \/ /\ ~control[l] /\ Validated(l)
          /\ IF CompleteChunkOK(ledger, c, Parent)
             THEN Succeed(c) /\ UNCHANGED stop
             ELSE stop' = TRUE /\ UNCHANGED <<ledger, verdict>>
          /\ ClearLane(l)
          /\ UNCHANGED <<resolving, trouble, faults>>
       \/ /\ ~control[l] /\ Validated(l)
          /\ Fault
          /\ \/ CompleteChunkOK(ledger, c, Parent) /\ Succeed(c)
             \/ UNCHANGED <<ledger, verdict>>
          /\ resolving' = l
          /\ stop' = TRUE
          /\ UNCHANGED <<laneVars, trouble>>
       \/ /\ control[l] \/ ~registered[l]
          /\ resolving' = l
          /\ stop' = TRUE
          /\ UNCHANGED <<laneVars, ledger, verdict, trouble, faults>>
    /\ UNCHANGED <<phase, dispatchVars, tree, job, task, reply, receipt>>

HandleFailed(l) ==
    /\ Frame(l, "failed")
    /\ BeginResolve(l)

(* coordinator_tick fails: the campaign is lost or cannot be proved. *)
CoordinatorLost ==
    /\ Serving
    /\ LatchAll
    /\ stop' = TRUE
    /\ UNCHANGED <<phase, dispatchVars, running, registered, authorized,
                   resolving, childVars, recordVars, faults>>

(* _heartbeat_running and operation_coordinator.tick latch the exact lane. *)
LatchLane(l) ==
    /\ Serving /\ running[l] # None /\ ~control[l]
    /\ control' = [control EXCEPT ![l] = TRUE]
    /\ stop' = TRUE
    /\ UNCHANGED <<phase, dispatchVars, running, registered, authorized,
                   resolving, childVars, recordVars, faults>>

HeartbeatLost(l) == phase = "serve" /\ LatchLane(l)

OperationLeaseLost(l) == phase = "serve" /\ registered[l] /\ LatchLane(l)

-----------------------------------------------------------------------------
(* Ambiguous results *)

(* The tree is proved dead, then the claim is settled. *)
Quiesced(l) ==
    /\ resolving = l
    /\ tree' = [tree EXCEPT ![l] = "gone"]
    /\ Settle(l)
    /\ ClearLane(l)
    /\ resolving' = None
    /\ UNCHANGED <<phase, dispatchVars, stop, job, task, up, reply, receipt>>

(* A tree that survives SIGKILL: the ledger is left alone. *)
NotQuiesced(l) ==
    /\ resolving = l /\ tree[l] # "gone"
    /\ Fault
    /\ trouble' = [trouble EXCEPT ![running[l]] = @ \cup {"tree"}]
    /\ ClearLane(l)
    /\ resolving' = None
    /\ UNCHANGED <<phase, dispatchVars, stop, childVars, ledger, receipt,
                   verdict>>

(* Mutant of PeerDrainTimeout: only lanes known to be in trouble count. *)
PeerDrainTimeoutLatched ==
    /\ phase = "serve" /\ Quiet /\ stop /\ Running # {}
    /\ \A l \in Running : control[l]
    /\ phase' = "collect"
    /\ tree' = [l \in Lanes |-> IF l \in Running THEN "gone" ELSE tree[l]]
    /\ UNCHANGED <<dispatchVars, laneVars, stop, resolving, job, task, up,
                   reply, recordVars, faults>>

(* terminate_running_lanes once the failure deadline has passed: all trees *)
(* are proved dead before the first claim is settled, or the parent aborts.*)
PeerDrainTimeout ==
    /\ phase = "serve" /\ Quiet /\ stop /\ Running # {}
    /\ \/ /\ phase' = "collect"
          /\ tree' = [l \in Lanes |-> IF l \in Running THEN "gone"
                                                       ELSE tree[l]]
          /\ UNCHANGED faults
       \/ /\ phase' = "abort"
          /\ Fault
          /\ UNCHANGED tree
    /\ UNCHANGED <<dispatchVars, laneVars, stop, resolving, job, task, up,
                   reply, recordVars>>

(* resolve_failure of a lane whose tree is already proved dead. *)
Collect(l) ==
    /\ phase \in {"collect", "cleanup"}
    /\ running[l] # None
    /\ phase = "cleanup" => Prepared = {}
    /\ Settle(l)
    /\ ClearLane(l)
    /\ UNCHANGED <<phase, dispatchVars, stop, resolving, childVars, receipt>>

Collected ==
    /\ phase = "collect" /\ Running = {}
    /\ phase' = "serve"
    /\ UNCHANGED <<dispatchVars, laneVars, stop, resolving, childVars,
                   recordVars, faults>>

-----------------------------------------------------------------------------
(* The end of the run *)

(* Mutant of EndLoop: retained claims are forgotten. *)
EndLoopForgetful ==
    /\ phase = "serve" /\ Quiet /\ Running = {}
    /\ ~CanDispatch
    /\ phase' = "closing"
    /\ prepared' = [l \in Lanes |-> None]
    /\ UNCHANGED <<queue, batch, fresh, laneVars, stop, resolving, childVars,
                   recordVars, faults>>

(* The loop ends; abandon_deferred fails the claims still in its cell. *)
EndLoop ==
    /\ phase = "serve" /\ Quiet /\ Running = {}
    /\ ~CanDispatch
    /\ phase' = "closing"
    /\ \E raising \in SUBSET Prepared :
        /\ IF raising = {} THEN UNCHANGED faults ELSE Fault
        /\ FailClaims({prepared[l] : l \in Prepared},
                      {prepared[l] : l \in raising})
        /\ prepared' = [l \in Lanes |-> IF raising = {} THEN None
                                                        ELSE prepared[l]]
    /\ UNCHANGED <<queue, batch, fresh, laneVars, stop, resolving, childVars,
                   receipt>>

(* shutdown_lanes: every tree is gone, or the parent takes its abort path. *)
Shutdown ==
    /\ phase = "closing"
    /\ \/ /\ phase' = "ended"
          /\ tree' = [l \in Lanes |-> "gone"]
          /\ UNCHANGED faults
       \/ /\ phase' = "abort"
          /\ Fault
          /\ UNCHANGED tree
    /\ UNCHANGED <<dispatchVars, laneVars, stop, resolving, job, task, up,
                   reply, recordVars>>

(* A process-control signal in the parent, wherever it stands. *)
Interrupt ==
    /\ phase \in {"start", "serve", "prepare", "refresh", "send", "collect",
                  "closing"}
    /\ Fault
    /\ phase' = "abort"
    /\ resolving' = None
    /\ UNCHANGED <<dispatchVars, laneVars, stop, childVars, recordVars>>

(* terminate_lane_trees_before: all trees die within one deadline and the  *)
(* parent goes on to its claims, or it touches no claim at all.            *)
AbortBarrier ==
    /\ phase = "abort"
    /\ \/ /\ phase' = "cleanup"
          /\ tree' = [l \in Lanes |-> "gone"]
          /\ UNCHANGED <<trouble, faults>>
       \/ /\ phase' = "raised"
          /\ Fault
          /\ \E left \in SUBSET Lanes :
                tree' = [l \in Lanes |-> IF l \in left THEN tree[l]
                                                       ELSE "gone"]
          /\ trouble' = [c \in Chunks |-> trouble[c] \cup {"tree"}]
    /\ UNCHANGED <<dispatchVars, laneVars, stop, resolving, job, task, up,
                   reply, ledger, receipt, verdict>>

(* cleanup_parent_abort: unsent claims first, then (Collect) the running.  *)
AbandonDeferred ==
    /\ phase = "cleanup" /\ Prepared # {}
    /\ \E raising \in SUBSET Prepared :
        /\ IF raising = {} THEN UNCHANGED faults ELSE Fault
        /\ FailClaims({prepared[l] : l \in Prepared},
                      {prepared[l] : l \in raising})
    /\ prepared' = [l \in Lanes |-> None]
    /\ UNCHANGED <<phase, queue, batch, fresh, laneVars, stop, resolving,
                   childVars, receipt>>

Reraise ==
    /\ phase = "cleanup" /\ Prepared = {} /\ Running = {}
    /\ phase' = "raised"
    /\ UNCHANGED <<dispatchVars, laneVars, stop, resolving, childVars,
                   recordVars, faults>>

-----------------------------------------------------------------------------
(* The lane process: run_process_lane *)

parentVars == <<phase, dispatchVars, laneVars, stop, resolving>>

Live(l, state) == tree[l] = "live" /\ job[l] = state

(* A request, or a result, goes up the pipe. *)
Tell(l, kind, next) ==
    /\ up' = [up EXCEPT ![l] = Append(@, kind)]
    /\ job' = [job EXCEPT ![l] = next]
    /\ UNCHANGED <<parentVars, tree, recordVars, faults>>

(* authorize_receipt_probe *)
AskProbe(l) ==
    /\ Live(l, "sent")
    /\ Tell(l, "probe", "probing")
    /\ UNCHANGED <<task, reply>>

(* No receipt yet: the operation is admitted and registered. *)
AskRegister(l) ==
    /\ Live(l, "probing") /\ reply[l] = "yes"
    /\ receipt[task[l]] = "none"
    /\ reply' = [reply EXCEPT ![l] = "none"]
    /\ Tell(l, "register", "asking")
    /\ UNCHANGED task

(* The receipt of an earlier attempt is replayed without an operation. *)
Replay(l) ==
    /\ Live(l, "probing") /\ reply[l] = "yes"
    /\ receipt[task[l]] # "none"
    /\ task' = [task EXCEPT ![l] = None]
    /\ Tell(l, "succeeded", "idle")
    /\ UNCHANGED reply

StartWork(l) ==
    /\ Live(l, "asking") /\ reply[l] = "yes"
    /\ job' = [job EXCEPT ![l] = "working"]
    /\ UNCHANGED <<parentVars, tree, task, up, reply, recordVars, faults>>

(* The target transaction and its receipt, by the process or by a native   *)
(* descendant it left behind.                                              *)
Commit(l) ==
    /\ tree[l] # "gone" /\ job[l] = "working"
    /\ receipt[task[l]] = "none"
    /\ receipt' = [receipt EXCEPT ![task[l]] = "ours"]
    /\ job' = [job EXCEPT ![l] = "committed"]
    /\ UNCHANGED <<parentVars, tree, task, up, reply, ledger, verdict,
                   trouble, faults>>

Report(l) ==
    /\ Live(l, "committed")
    /\ task' = [task EXCEPT ![l] = None]
    /\ Tell(l, "succeeded", "idle")
    /\ UNCHANGED reply

(* An exception in run_chunk, before or after the commit: a refusal, an    *)
(* answer that did not come in time, a fenced commit.                      *)
ReportFailure(l) ==
    /\ \E state \in {"sent", "probing", "asking", "working", "committed"} :
          Live(l, state)
    /\ task' = [task EXCEPT ![l] = None]
    /\ Tell(l, "failed", "idle")
    /\ UNCHANGED reply

(* The process dies, alone or with its descendants. *)
Crash(l) ==
    /\ tree[l] = "live" /\ phase # "start"
    /\ Fault
    /\ \E rest \in {"orphaned", "gone"} : tree' = [tree EXCEPT ![l] = rest]
    /\ UNCHANGED <<parentVars, job, task, up, reply, recordVars>>

(* Descendants left behind end on their own. *)
OrphansEnd(l) ==
    /\ tree[l] = "orphaned"
    /\ tree' = [tree EXCEPT ![l] = "gone"]
    /\ UNCHANGED <<parentVars, job, task, up, reply, recordVars, faults>>

-----------------------------------------------------------------------------
(* Everyone else on the ledger *)

CancelRequested ==
    /\ Contested # {}
    /\ CancelOK(ledger)
    /\ Fault
    /\ ledger' = Cancel(ledger)
    /\ UNCHANGED <<parentVars, childVars, receipt, verdict, trouble>>

(* acquire_campaign orphans every claim of the parent. *)
TakeOver ==
    /\ Contested # {}
    /\ ledger.lockOwner = Parent
    /\ AcquireCampaignOK(ledger)
    /\ Fault
    /\ ledger' = AcquireCampaign(ledger, Rival)
    /\ UNCHANGED <<parentVars, childVars, receipt, verdict, trouble>>

RivalClaim(c) ==
    /\ c \in Contested
    /\ ledger.lockOwner = Rival
    /\ ledger.chunks[c].attempts < 2
    /\ AcquireChunkOK(ledger, c, 0)
    /\ ledger' = AcquireChunk(ledger, c, Rival, Lease)
    /\ UNCHANGED <<parentVars, childVars, receipt, verdict, trouble, faults>>

RivalFinish(c) ==
    /\ CompleteChunkOK(ledger, c, Rival)
    /\ \/ /\ ledger' = [ledger EXCEPT !.chunks[c] = Terminal(c, "success")]
          /\ receipt' = [receipt EXCEPT ![c] = IF @ = "none" THEN "other"
                                                             ELSE @]
       \/ /\ ledger' = [ledger EXCEPT !.chunks[c] = Terminal(c, "failed")]
          /\ UNCHANGED receipt
    /\ UNCHANGED <<parentVars, childVars, verdict, trouble, faults>>

-----------------------------------------------------------------------------
ParentStep ==
    \/ Startup
    \/ IdleExit
    \/ BeginDispatch
    \/ Claim
    \/ ClaimsDone
    \/ Refresh
    \/ FinalGate
    \/ Send
    \/ BatchPublished
    \/ AbandonPrepared
    \/ \E l \in Lanes :
          \/ HandleExit(l)
          \/ HandleProbeRequest(l)
          \/ HandleRegister(l)
          \/ HandleSucceeded(l)
          \/ HandleFailed(l)
          \/ Quiesced(l)
          \/ Collect(l)
    \/ PeerDrainTimeout
    \/ Collected
    \/ EndLoop
    \/ Shutdown
    \/ AbortBarrier
    \/ AbandonDeferred
    \/ Reraise

(* Outcomes of the parent's calls that nothing forces. *)
ParentTrouble ==
    \/ CoordinatorLost
    \/ Interrupt
    \/ \E l \in Lanes :
          \/ HeartbeatLost(l)
          \/ OperationLeaseLost(l)
          \/ ReceiveFails(l)
          \/ NotQuiesced(l)

LaneStep(l) ==
    \/ AskProbe(l)
    \/ AskRegister(l)
    \/ Replay(l)
    \/ StartWork(l)
    \/ Commit(l)
    \/ Report(l)
    \/ ReportFailure(l)
    \/ Crash(l)
    \/ OrphansEnd(l)

Environment ==
    \/ CancelRequested
    \/ TakeOver
    \/ \E c \in Chunks : RivalClaim(c) \/ RivalFinish(c)

Next ==
    \/ ParentStep
    \/ ParentTrouble
    \/ \E l \in Lanes : LaneStep(l)
    \/ Environment

(* The parent runs on; the lanes are promised nothing. *)
Spec == Init /\ [][Next]_vars /\ WF_vars(ParentStep)

-----------------------------------------------------------------------------
(* Properties *)

(* The type invariant of the parent, the lanes and the ledger. *)
TypeOK ==
    /\ phase \in Phases
    /\ queue \in Seq(Chunks)
    /\ batch \subseteq Lanes /\ fresh \subseteq Lanes
    /\ prepared \in [Lanes -> Chunks \cup {None}]
    /\ running \in [Lanes -> Chunks \cup {None}]
    /\ control \in [Lanes -> BOOLEAN]
    /\ registered \in [Lanes -> BOOLEAN]
    /\ authorized \in [Lanes -> BOOLEAN]
    /\ stop \in BOOLEAN
    /\ resolving \in Lanes \cup {None}
    /\ tree \in [Lanes -> {"live", "orphaned", "gone"}]
    /\ job \in [Lanes -> {"boot", "idle", "sent", "probing", "asking",
                          "working", "committed"}]
    /\ task \in [Lanes -> Chunks \cup {None}]
    /\ up \in [Lanes -> Seq({"probe", "register", "succeeded", "failed"})]
    /\ reply \in [Lanes -> {"none", "yes", "no"}]
    /\ ledger \in Ledger
    /\ receipt \in [Chunks -> {"none", "ours", "other"}]
    /\ verdict \in [Chunks -> {"none", "success", "failed"}]
    /\ trouble \in [Chunks -> SUBSET {"recovery", "ledger", "tree"}]
    /\ faults \in 0 .. MaxFaults

(* resolve_ambiguous_failure and cleanup_parent_abort: a claim the parent  *)
(* has recorded FAILED has no process left that could still commit it, so  *)
(* whoever claims it next does not race the abandoned lane.                *)
FailedClaimsAreQuiescent ==
    \A c \in Chunks : verdict[c] = "failed" =>
        \A l \in Lanes : task[l] = c => tree[l] = "gone"

(* validate_success, promote_owned and recover_committed_receipt: however  *)
(* a lane ended, the ledger and the target agree.  SUCCESS is recorded     *)
(* only for a chunk whose receipt the target holds, and a chunk this run   *)
(* committed is never recorded FAILED unless the recovery itself raised.   *)
VerdictsFollowReceipts ==
    \A c \in Chunks :
        /\ verdict[c] = "success" => receipt[c] # "none"
        /\ verdict[c] = "failed" /\ receipt[c] = "ours"
              => "recovery" \in trouble[c]

(* DispatchInterruptionHandoff and the abort barrier: when the run is over *)
(* no claim of the parent is left RUNNING, whether it was sent, deferred   *)
(* or interrupted between the two, unless a ledger write raised or a       *)
(* process tree could not be proved dead.                                  *)
NoClaimLeaks ==
    phase \in {"ended", "raised"} =>
        \A c \in Chunks : CompleteChunkOK(ledger, c, Parent)
                              => trouble[c] \cap {"ledger", "tree"} # {}

(* failure_deadline and _PEER_DRAIN_ERROR: after the first failure the run *)
(* comes to an end even if a lane hangs and never answers again.           *)
StopDrains == stop ~> phase \in {"ended", "raised"}
=============================================================================
