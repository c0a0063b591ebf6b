--------------------------- MODULE PortableLedger ---------------------------
(***************************************************************************)
(* The PostgreSQL campaign ledger (SQLBackfillStateStore,                  *)
(* PostgresBackfillStateStore) under the mapped pods of one campaign       *)
(* (run_mapped_backfill) and a cancellation from the command line.         *)
(*                                                                         *)
(* The ledger is two append-only journals whose latest rows are the state: *)
(* one row for the campaign, one for every chunk.  Each SELECT and each    *)
(* INSERT is a statement of its own.  A chunk transition holds the chunk's *)
(* advisory lock, reads, decides, appends the campaign row it has just     *)
(* read and then the chunk's row.  A save (creation, recovery of expired   *)
(* leases, cancellation) holds no chunk lock and appends the campaign row  *)
(* and the rows of all chunks as it has read them.                         *)
(*                                                                         *)
(* Reads of one process that follow one another are one step: a save       *)
(* appends the campaign row first, so what lies between two reads of a     *)
(* transition is also seen by a process that makes both of them later.     *)
(***************************************************************************)
EXTENDS Naturals, FiniteSets

CONSTANTS
    Pods,       \* attempts of mapped tasks, each with owner ids of its own
    N,          \* chunks of the plan
    Selection,  \* Selection[p]: the chunks of p's mapping item
    TTL,        \* the lease of a chunk, in clock ticks
    MaxClock,   \* bound on the clock
    MaxFaults,  \* bound on pods that die
    Cancels     \* somebody may cancel the campaign

Chunks == 1 .. N
CLI == "cli"            \* the process of "dpone backfill cancel"
Procs == Pods \cup {CLI}
Nobody == "nobody"

ASSUME LedgerAssumption ==
    /\ N \in Nat \ {0} /\ TTL \in Nat \ {0}
    /\ MaxClock \in Nat /\ MaxFaults \in Nat
    /\ Selection \in [Pods -> SUBSET Chunks]
    /\ CLI \notin Pods /\ Nobody \notin Procs
    /\ Cancels \in BOOLEAN

VARIABLES
    campaign,   \* status in the latest campaign row, "none" before the first
    rows,       \* the latest row of every chunk
    initLock,   \* holder of the initialization lock
    chunkLock,  \* chunkLock[c]: holder of the chunk's advisory lock
    pc,         \* pc[p]: where process p stands
    seen,       \* seen[p]: the ledger as p has read it
    save,       \* save[p]: the ledger p is appending, and the chunks to come
    todo,       \* todo[p]: chunks p has still to run, the current one first
    task,       \* task[p]: the transition p is in
    held,       \* held[p]: the end of the lease p was granted last
    healthy,    \* healthy[p]: no heartbeat of p has failed
    errors,     \* errors[p]: p has an error to report
    loads,      \* loads[c]: pods whose run of c is in the target
    torn,       \* a save has overwritten a row that had changed since it read
    clock,
    faults

ledgerVars == <<campaign, rows>>
lockVars == <<initLock, chunkLock>>
podVars == <<todo, task, held, healthy, errors>>
worldVars == <<loads, torn, clock, faults>>
vars == <<campaign, rows, initLock, chunkLock, pc, seen, save, todo, task,
          held, healthy, errors, loads, torn, clock, faults>>

Row(status, owner, until) ==
    [status |-> status, owner |-> owner, until |-> until]
NoRow == Row("none", Nobody, 0)
NoLedger == [status |-> "none", rows |-> [c \in Chunks |-> NoRow]]
NoSave == [ledger |-> NoLedger, left |-> {}, then |-> "none"]
NoTask == [kind |-> "none", until |-> 0, status |-> "none", row |-> NoRow]

Init ==
    /\ campaign = "none" /\ rows = NoLedger.rows
    /\ initLock = Nobody /\ chunkLock = [c \in Chunks |-> Nobody]
    /\ pc = [p \in Procs |-> "start"]
    /\ seen = [p \in Procs |-> NoLedger]
    /\ save = [p \in Procs |-> NoSave]
    /\ todo = [p \in Pods |-> {}]
    /\ task = [p \in Pods |-> NoTask]
    /\ held = [p \in Pods |-> 0]
    /\ healthy = [p \in Pods |-> TRUE]
    /\ errors = [p \in Pods |-> FALSE]
    /\ loads = [c \in Chunks |-> {}]
    /\ torn = FALSE
    /\ clock = 0 /\ faults = 0

Goto(p, to) == pc' = [pc EXCEPT ![p] = to]
Moves(p, from, to) == pc[p] = from /\ Goto(p, to)
Ledger == [status |-> campaign, rows |-> rows]
Expired(row) == row.until <= clock
Committed == {c \in Chunks : rows[c].status = "SUCCESS"}
First(S) == CHOOSE c \in S : \A d \in S : c <= d
Current(p) == First(todo[p])

-----------------------------------------------------------------------------
(* save: the campaign row, then the row of every chunk *)

(* p has read the ledger and is going to append this version of it. *)
BeginSave(p, ledger, then) ==
    /\ Goto(p, "save")
    /\ seen' = [seen EXCEPT ![p] = Ledger]
    /\ save' = [save EXCEPT ![p] =
                  [ledger |-> ledger, then |-> then,
                   left |-> {c \in Chunks : ledger.rows[c] # NoRow}]]

(* After its last row p forgets what it has read. *)
SaveGoesOn(p, left) ==
    IF left = {}
    THEN /\ Goto(p, save[p].then)
         /\ save' = [save EXCEPT ![p] = NoSave]
         /\ seen' = [seen EXCEPT ![p] = NoLedger]
    ELSE /\ Goto(p, "saving")
         /\ save' = [save EXCEPT ![p].left = left]
         /\ UNCHANGED seen

SaveCampaign(p) ==
    /\ pc[p] = "save"
    /\ campaign' = save[p].ledger.status
    /\ SaveGoesOn(p, save[p].left)
    /\ UNCHANGED <<rows, lockVars, podVars, worldVars>>

SaveChunk(p) ==
    LET c == First(save[p].left) IN
    /\ pc[p] = "saving"
    /\ rows' = [rows EXCEPT ![c] = save[p].ledger.rows[c]]
    /\ SaveGoesOn(p, save[p].left \ {c})
    /\ torn' = (torn \/ rows[c] # seen[p].rows[c])
    /\ UNCHANGED <<campaign, lockVars, podVars, loads, clock, faults>>

-----------------------------------------------------------------------------
(* A mapped pod: initialization *)

(* The initialization lock is tried once. *)
AcquireInit(p) ==
    /\ \/ /\ initLock = Nobody
          /\ Moves(p, "start", "init")
          /\ initLock' = p
       \/ /\ initLock # Nobody
          /\ Moves(p, "start", "busy")
          /\ UNCHANGED initLock
    /\ UNCHANGED <<ledgerVars, chunkLock, seen, save, podVars, worldVars>>

(* Mutant of Complete: any campaign row makes a campaign. *)
CompleteByCampaign == campaign # "none"

(* The campaign row is there, and the rows of all chunks. *)
Complete == campaign # "none" /\ \A c \in Chunks : rows[c] # NoRow

Created == [status |-> "active",
            rows |-> [c \in Chunks |-> Row("PENDING", Nobody, 0)]]

(* load_or_create_backfill_ledger *)
LoadOrCreate(p) ==
    /\ pc[p] = "init"
    /\ \/ Complete /\ Goto(p, "recover") /\ UNCHANGED <<seen, save>>
       \/ ~Complete /\ BeginSave(p, Created, "recover")
    /\ UNCHANGED <<ledgerVars, lockVars, podVars, worldVars>>

Stale(row) == row.status = "RUNNING" /\ Expired(row)

(* Mutant of Recovered: the lease is left in the row. *)
RecoveredHeld(row) ==
    IF Stale(row) THEN [row EXCEPT !.status = "FAILED"] ELSE row

Recovered(row) == IF Stale(row) THEN Row("FAILED", Nobody, 0) ELSE row

(* recover_stale_running saves only if a lease has expired. *)
RecoverStaleRunning(p) ==
    LET stale == {c \in Chunks : Stale(rows[c])}
        recovered == [c \in Chunks |-> Recovered(rows[c])] IN
    /\ pc[p] = "recover"
    /\ \/ stale = {} /\ Goto(p, "release") /\ UNCHANGED <<seen, save>>
       \/ /\ stale # {}
          /\ BeginSave(p, [Ledger EXCEPT !.rows = recovered], "release")
    /\ UNCHANGED <<ledgerVars, lockVars, podVars, worldVars>>

ReleaseInit(p) ==
    /\ Moves(p, "release", "select")
    /\ initLock' = Nobody
    /\ UNCHANGED <<ledgerVars, chunkLock, seen, save, podVars, worldVars>>

(* The ledger is read again; a cancelled campaign is left alone. *)
SelectPending(p) ==
    /\ \/ /\ campaign = "cancel_requested"
          /\ Moves(p, "select", "cancelled")
          /\ UNCHANGED todo
       \/ /\ campaign # "cancel_requested"
          /\ Moves(p, "select", "bind")
          /\ todo' = [todo EXCEPT ![p] = Selection[p] \ Committed]
    /\ UNCHANGED <<ledgerVars, lockVars, seen, save, task, held, healthy,
                   errors, worldVars>>

(* MappedCampaignExecutor needs the initialization lock once more. *)
Bind(p) ==
    /\ \/ initLock = Nobody /\ Moves(p, "bind", "next")
       \/ initLock # Nobody /\ Moves(p, "bind", "busy")
    /\ UNCHANGED <<ledgerVars, lockVars, seen, save, podVars, worldVars>>

-----------------------------------------------------------------------------
(* Chunk transitions: lock, decide, append the campaign, append the chunk  *)

Kinds == {"claim", "prove", "beat", "success", "failure"}

(* Where _run_one goes on when the store answers True, and when False. *)
AfterGrant == [claim |-> "prove", prove |-> "run", beat |-> "run",
               success |-> "next", failure |-> "report"]
AfterRefusal == [claim |-> "refused", prove |-> "fail", beat |-> "run",
                 success |-> "report", failure |-> "report"]

Granted(p, kind) ==
    /\ Goto(p, AfterGrant[kind])
    /\ task' = [task EXCEPT ![p] = NoTask]
    /\ todo' = IF kind = "success"
               THEN [todo EXCEPT ![p] = @ \ {Current(p)}] ELSE todo
    /\ UNCHANGED <<healthy, errors>>

Refused(p, kind) ==
    /\ Goto(p, AfterRefusal[kind])
    /\ task' = [task EXCEPT ![p] = NoTask]
    /\ healthy' = [healthy EXCEPT ![p] = @ /\ kind # "beat"]
    /\ errors' = [errors EXCEPT ![p] = @ \/ kind \in {"prove", "success",
                                                      "failure"}]
    /\ UNCHANGED todo

(* Mutant of LockFree: the advisory lock excludes nobody. *)
LockIgnored(c) == TRUE

(* pg_try_advisory_lock *)
LockFree(c) == chunkLock[c] = Nobody

(* run_chunk_transition; the first thing read is the campaign's status. *)
Begin(p, kind) ==
    LET c == Current(p) IN
    /\ \/ /\ LockFree(c)
          /\ chunkLock' = [chunkLock EXCEPT ![c] = p]
          /\ task' = [task EXCEPT ![p] = [NoTask EXCEPT !.kind = kind,
                                            !.until = clock + TTL,
                                            !.status = campaign]]
          /\ Goto(p, "decide")
          /\ UNCHANGED <<todo, healthy, errors>>
       \/ /\ ~LockFree(c)
          /\ Refused(p, kind)
          /\ UNCHANGED chunkLock
    /\ UNCHANGED <<ledgerVars, initLock, seen, save, held, worldVars>>

(* acquire_chunk_lease, renew_chunk_lease, complete_chunk_if_owned *)
MayClaim(p, row) ==
    /\ task[p].status # "cancel_requested"
    /\ row.status # "SUCCESS" /\ ~(row.status = "RUNNING" /\ ~Expired(row))
MayRenew(p, row) ==
    /\ row.status = "RUNNING" /\ row.owner = p /\ ~Expired(row)
    /\ task[p].until > clock
MayComplete(p, row) == row.status = "RUNNING" /\ row.owner = p

Allowed(p, row) ==
    CASE task[p].kind = "claim" -> MayClaim(p, row)
      [] task[p].kind \in {"prove", "beat"} -> MayRenew(p, row)
      [] OTHER -> MayComplete(p, row)

NewRow(p) ==
    CASE task[p].kind = "success" -> Row("SUCCESS", Nobody, 0)
      [] task[p].kind = "failure" -> Row("FAILED", Nobody, 0)
      [] OTHER -> Row("RUNNING", p, task[p].until)

(* A renewal that would not prolong the lease is granted without a write.  *)
(* Otherwise update_chunk reads the campaign again before it writes.       *)
Decide(p) ==
    LET c == Current(p)
        short == /\ task[p].kind \in {"prove", "beat"}
                 /\ task[p].until <= rows[c].until
        unlock == chunkLock' = [chunkLock EXCEPT ![c] = Nobody] IN
    /\ pc[p] = "decide"
    /\ \/ ~Allowed(p, rows[c]) /\ Refused(p, task[p].kind) /\ unlock
       \/ Allowed(p, rows[c]) /\ short /\ Granted(p, task[p].kind) /\ unlock
       \/ /\ Allowed(p, rows[c]) /\ ~short
          /\ task' = [task EXCEPT ![p].row = NewRow(p), ![p].status = campaign]
          /\ Goto(p, "campaign")
          /\ UNCHANGED <<chunkLock, todo, healthy, errors>>
    /\ UNCHANGED <<ledgerVars, initLock, seen, save, held, worldVars>>

AppendCampaign(p) ==
    /\ Moves(p, "campaign", "chunk")
    /\ campaign' = task[p].status
    /\ UNCHANGED <<rows, lockVars, seen, save, podVars, worldVars>>

AppendChunk(p) ==
    LET c == Current(p) IN
    /\ pc[p] = "chunk"
    /\ rows' = [rows EXCEPT ![c] = task[p].row]
    /\ chunkLock' = [chunkLock EXCEPT ![c] = Nobody]
    /\ held' = [held EXCEPT ![p] = task[p].row.until]
    /\ Granted(p, task[p].kind)
    /\ UNCHANGED <<campaign, initLock, seen, save, worldVars>>

-----------------------------------------------------------------------------
(* A mapped pod: its chunks, one after the other *)

Claim(p) == pc[p] = "next" /\ todo[p] # {} /\ Begin(p, "claim")
ProveOwnership(p) == pc[p] = "prove" /\ Begin(p, "prove")

(* The heartbeat thread, as long as it can prolong the lease. *)
Heartbeat(p) ==
    /\ pc[p] = "run" /\ healthy[p] /\ held[p] < clock + TTL
    /\ Begin(p, "beat")

(* The ledger is read once more: a chunk someone else has committed is no  *)
(* error, but the pod stops all the same.                                  *)
ClaimRefused(p) ==
    /\ Moves(p, "refused", "report")
    /\ errors' = [errors EXCEPT ![p] = \/ campaign = "cancel_requested"
                                       \/ Current(p) \notin Committed]
    /\ UNCHANGED <<ledgerVars, lockVars, seen, save, todo, task, held,
                   healthy, worldVars>>

(* The runner's transaction in the target. *)
RunnerLoads(p) ==
    /\ pc[p] = "run" /\ p \notin loads[Current(p)]
    /\ loads' = [loads EXCEPT ![Current(p)] = @ \cup {p}]
    /\ UNCHANGED <<ledgerVars, lockVars, pc, seen, save, podVars, torn, clock,
                   faults>>

CompleteSuccess(p) ==
    /\ pc[p] = "run" /\ p \in loads[Current(p)] /\ healthy[p]
    /\ Begin(p, "success")

(* The runner or assert_healthy raises. *)
RunnerRaises(p) ==
    /\ Moves(p, "run", "fail")
    /\ errors' = [errors EXCEPT ![p] = TRUE]
    /\ UNCHANGED <<ledgerVars, lockVars, seen, save, todo, task, held,
                   healthy, worldVars>>

CompleteFailed(p) == pc[p] = "fail" /\ Begin(p, "failure")

(* The process ends, and what it had in memory is gone. *)
Gone(p) ==
    /\ todo' = [todo EXCEPT ![p] = {}]
    /\ task' = [task EXCEPT ![p] = NoTask]
    /\ held' = [held EXCEPT ![p] = 0]
    /\ healthy' = [healthy EXCEPT ![p] = TRUE]
    /\ errors' = [errors EXCEPT ![p] = FALSE]

(* Mutant of ItemComplete: nothing went wrong. *)
ItemWithoutErrors(p) == ~errors[p]

(* build_backfill_result: every chunk of the item, and no error. *)
ItemComplete(p) == Selection[p] \subseteq Committed /\ ~errors[p]

Report(p) ==
    /\ pc[p] = "report" \/ (pc[p] = "next" /\ todo[p] = {})
    /\ \/ campaign = "cancel_requested" /\ Goto(p, "cancelled")
       \/ campaign # "cancel_requested" /\ ItemComplete(p)
          /\ Goto(p, "success")
       \/ campaign # "cancel_requested" /\ ~ItemComplete(p)
          /\ Goto(p, "error")
    /\ Gone(p)
    /\ UNCHANGED <<ledgerVars, lockVars, seen, save, worldVars>>

-----------------------------------------------------------------------------
(* The environment *)

Ended == {"busy", "cancelled", "success", "error", "dead"}

(* A pod dies, and its session with all advisory locks. *)
Crash(p) ==
    /\ pc[p] \notin Ended \cup {"start"} /\ faults < MaxFaults
    /\ faults' = faults + 1
    /\ Goto(p, "dead")
    /\ initLock' = IF initLock = p THEN Nobody ELSE initLock
    /\ chunkLock' = [c \in Chunks |-> IF chunkLock[c] = p THEN Nobody
                                      ELSE chunkLock[c]]
    /\ seen' = [seen EXCEPT ![p] = NoLedger]
    /\ save' = [save EXCEPT ![p] = NoSave]
    /\ Gone(p)
    /\ UNCHANGED <<ledgerVars, loads, torn, clock>>

(* request_cancel, from the command line *)
RequestCancel ==
    /\ Cancels /\ pc[CLI] = "start" /\ campaign # "none"
    /\ BeginSave(CLI, [Ledger EXCEPT !.status = "cancel_requested"],
                 "acknowledged")
    /\ UNCHANGED <<ledgerVars, lockVars, podVars, worldVars>>

Tick ==
    /\ clock < MaxClock
    /\ clock' = clock + 1
    /\ UNCHANGED <<ledgerVars, lockVars, pc, seen, save, podVars, loads, torn,
                   faults>>

PodStep(p) ==
    \/ AcquireInit(p) \/ LoadOrCreate(p) \/ RecoverStaleRunning(p)
    \/ ReleaseInit(p) \/ SelectPending(p) \/ Bind(p)
    \/ Claim(p) \/ ClaimRefused(p) \/ ProveOwnership(p) \/ Heartbeat(p)
    \/ RunnerLoads(p) \/ RunnerRaises(p)
    \/ CompleteSuccess(p) \/ CompleteFailed(p)
    \/ Decide(p) \/ AppendCampaign(p) \/ AppendChunk(p)
    \/ Report(p) \/ Crash(p)

Next ==
    \/ \E p \in Pods : PodStep(p)
    \/ \E p \in Procs : SaveCampaign(p) \/ SaveChunk(p)
    \/ RequestCancel
    \/ Tick

Spec == Init /\ [][Next]_vars

-----------------------------------------------------------------------------
(* Properties *)

Times == 0 .. MaxClock + TTL
RowType == {NoRow} \cup {Row(s, Nobody, 0) : s \in {"PENDING", "SUCCESS", "FAILED"}}
           \cup {Row("RUNNING", p, t) : p \in Pods, t \in Times}
LedgerType == [status : {"none", "active", "cancel_requested"},
               rows : [Chunks -> RowType]]

(* The type invariant: rows in the journals and in what a process has read *)
(* are rows the code writes; only a RUNNING row has an owner and a lease.  *)
TypeOK ==
    /\ Ledger \in LedgerType
    /\ initLock \in Pods \cup {Nobody}
    /\ chunkLock \in [Chunks -> Pods \cup {Nobody}]
    /\ DOMAIN pc = Procs
    /\ seen \in [Procs -> LedgerType]
    /\ \A p \in Procs : /\ save[p].ledger \in LedgerType
                        /\ save[p].left \subseteq Chunks
    /\ todo \in [Pods -> SUBSET Chunks]
    /\ \A p \in Pods : task[p].kind \in Kinds \cup {"none"}
    /\ held \in [Pods -> Times]
    /\ healthy \in [Pods -> BOOLEAN] /\ errors \in [Pods -> BOOLEAN]
    /\ loads \in [Chunks -> SUBSET Pods]
    /\ torn \in BOOLEAN
    /\ clock \in 0 .. MaxClock /\ faults \in 0 .. MaxFaults

(* Creation may stop after any of its statements; a pod that has left      *)
(* initialization behind works on a complete plan all the same.            *)
PlanIsComplete ==
    \A p \in Pods :
        pc[p] \in {"select", "bind", "next", "decide", "campaign", "chunk",
                   "prove", "run", "fail", "refused", "report"} =>
            \A c \in Chunks : rows[c] # NoRow

(* p believes that it has the lease of c and works on c. *)
Working(p, c) ==
    /\ \/ pc[p] \in {"prove", "run"}
       \/ pc[p] = "decide" /\ task[p].kind \in {"prove", "beat"}
    /\ Current(p) = c
    /\ held[p] > clock

(* "Campaign and chunk leases prevent two workers from starting the same   *)
(* work concurrently."  recover_stale_running of a third pod, whose save   *)
(* overtakes a fresh claim, puts the chunk back on offer.                  *)
LeaseIsExclusive ==
    \A p, q \in Pods, c \in Chunks :
        Working(p, c) /\ Working(q, c) => p = q

(* The advisory lock and the owner check: as long as no save has           *)
(* overwritten a row it had not read, two pods never work on one chunk at  *)
(* the same time, and a committed chunk stays committed.                   *)
LeasesProtectWork ==
    /\ [](~torn => LeaseIsExclusive)
    /\ [][\A c \in Chunks : rows[c].status = "SUCCESS" /\ ~torn' =>
              rows'[c].status = "SUCCESS"]_vars

(* Without any condition: a pod reports success only when every chunk of   *)
(* its item has really been loaded, by itself or by another attempt.       *)
ReportIsHonest ==
    \A p \in Pods : pc[p] = "success" =>
        \A c \in Selection[p] : loads[c] # {}

(* "Committed chunks are skipped on re-run": a row that says so may be     *)
(* replaced by an older one.                                               *)
CommittedIsFinal ==
    [][\A c \in Chunks : rows[c].status = "SUCCESS" =>
           rows'[c].status = "SUCCESS"]_vars
=============================================================================
