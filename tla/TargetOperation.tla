--------------------------- MODULE TargetOperation --------------------------
(***************************************************************************)
(* Generic SQL Server transaction governance: how one load is applied to a *)
(* target exactly once.                                                    *)
(*                                                                         *)
(* A worker is one processor run.  It delivers one scope (a backfill chunk *)
(* or the whole target) of one invocation; several workers deliver the     *)
(* same operation when a scheduler retries or a chunk is reclaimed.        *)
(* Admission probes the receipt, allocates the invocation's generation in  *)
(* the target fence and claims the operation's owner epoch.  Extraction    *)
(* then runs under a heartbeat, and the finalizer proves generation, epoch *)
(* and lease inside the transaction that holds the business DML and the    *)
(* receipt.                                                                *)
(*                                                                         *)
(* Admission batches are SERIALIZABLE transactions and are atomic here.    *)
(* The finalizer's transaction is not: from assert_current to its end it   *)
(* holds a shared lock on the fence row and an update lock on the          *)
(* operation row, which the guards NoFenceReader and OperationFree stand   *)
(* for.                                                                    *)
(***************************************************************************)
EXTENDS Naturals

CONSTANTS
    Workers,
    Attempts,   \* invocations
    Scopes,
    AttemptOf,  \* AttemptOf[w]: the invocation worker w runs for
    ScopeOf,    \* ScopeOf[w]: the scope worker w delivers
    Leased,     \* scopes claimed with a finite lease: backfill chunks
    Shadow,     \* scopes appended to a shadow table: no target lock
    Nobody,     \* no owner, no attempt
    Forever,    \* the NULL lease expiry of a target-wide operation
    LeaseTTL,   \* longest lease a claim or a renewal asks for
    MaxNow      \* bound on the clock

ASSUME WorkersAssumption ==
    /\ AttemptOf \in [Workers -> Attempts]
    /\ ScopeOf \in [Workers -> Scopes]
    /\ Nobody \notin Workers \cup Attempts
    /\ Forever \notin Nat
    /\ Workers \cap Attempts = {}
    /\ LeaseTTL \in Nat \ {0}
    /\ MaxNow \in Nat

Operations == Attempts \X Scopes

VARIABLES
    now,        \* SYSUTCDATETIME()
    fence,      \* the target fence row: current generation and attempt
    attempts,   \* attempts[a]: the generation in a's row, 0 without a row
    operations, \* operations[o]: the operation row, epoch 0 without a row
    receipts,   \* receipts[o]: who committed o, with which epoch
    effects,    \* effects[o]: how often o's DML is in the target
    newest,     \* generation of the last effect in the target (auxiliary)
    pc,         \* where the worker stands
    carried,    \* carried[w]: generation and epoch of the admitted operation
    heartbeat,  \* the lease heartbeat thread
    tx,         \* the finalizer's transaction as the server sees it
    wrote       \* wrote[w]: w's own transaction has committed (auxiliary)

catalog == <<fence, attempts, operations>>
target == <<receipts, effects, newest, wrote>>
vars == <<now, fence, attempts, operations, receipts, effects, newest, pc,
          carried, heartbeat, tx, wrote>>

Op(w) == <<AttemptOf[w], ScopeOf[w]>>

(* A chunk is owned by its worker; a target-wide operation is owned by the *)
(* invocation, so every retry of the invocation is the same owner.         *)
Owner(w) == IF ScopeOf[w] \in Leased THEN w ELSE AttemptOf[w]

NoReceipt == [writer |-> Nobody, epoch |-> 0]

Committed(o) == receipts[o] # NoReceipt

WorkerState == {"new", "probed", "allocating", "allocated", "superseded",
                "claiming", "extracting", "staged", "open", "committing",
                "doubt", "replayed", "committed", "failed", "unknown",
                "crashed"}

Final == {"replayed", "committed", "failed", "unknown", "crashed"}

Init ==
    /\ now = 0
    /\ fence = [generation |-> 0, attempt |-> Nobody]
    /\ attempts = [a \in Attempts |-> 0]
    /\ operations = [o \in Operations |->
                       [epoch |-> 0, owner |-> Nobody, expires |-> 0]]
    /\ receipts = [o \in Operations |-> NoReceipt]
    /\ effects = [o \in Operations |-> 0]
    /\ newest = 0
    /\ pc = [w \in Workers |-> "new"]
    /\ carried = [w \in Workers |-> [generation |-> 0, epoch |-> 0]]
    /\ heartbeat = [w \in Workers |-> "off"]
    /\ tx = [w \in Workers |-> "none"]
    /\ wrote = [w \in Workers |-> FALSE]

Goto(w, label) == pc' = [pc EXCEPT ![w] = label]

(* No open finalizer holds a shared lock on the fence row. *)
NoFenceReader == \A v \in Workers : tx[v] = "none"

(* No open finalizer holds an update lock on the operation row. *)
OperationFree(o) == \A v \in Workers : tx[v] # "none" => Op(v) # o

-----------------------------------------------------------------------------
(* Admission *)

(* replay_if_committed: the receipt is probed before any state is touched. *)
ReplayProbe(w) ==
    /\ pc[w] = "new"
    /\ Goto(w, IF Committed(Op(w)) THEN "replayed" ELSE "probed")
    /\ UNCHANGED <<now, catalog, target, carried, heartbeat, tx>>

(* Mutant of Allocation: the fence is advanced under a running finalizer. *)
AllocationUngated(w) ==
    LET a == AttemptOf[w] IN
    IF attempts[a] # 0
    THEN UNCHANGED <<fence, attempts>>
    ELSE /\ attempts' = [attempts EXCEPT ![a] = fence.generation + 1]
         /\ fence' = [generation |-> fence.generation + 1, attempt |-> a]

(* allocation_sql: an invocation keeps the generation it already has; a    *)
(* new one takes the next generation and becomes the current attempt.      *)
Allocation(w) ==
    LET a == AttemptOf[w] IN
    IF attempts[a] # 0
    THEN UNCHANGED <<fence, attempts>>
    ELSE /\ NoFenceReader
         /\ attempts' = [attempts EXCEPT ![a] = fence.generation + 1]
         /\ fence' = [generation |-> fence.generation + 1, attempt |-> a]

(* The attempt row as admission reads it back: is it still current? *)
Allocated(w, f, rows) ==
    /\ carried' = [carried EXCEPT ![w] =
                     [generation |-> rows[AttemptOf[w]], epoch |-> 0]]
    /\ Goto(w, IF f.attempt = AttemptOf[w] THEN "allocated" ELSE "superseded")

Allocate(w) ==
    /\ pc[w] = "probed"
    /\ Allocation(w)
    /\ Allocated(w, fence', attempts')
    /\ UNCHANGED <<now, operations, target, heartbeat, tx>>

(* The allocation's acknowledgement is lost, with or without its commit. *)
AllocateLost(w) ==
    /\ pc[w] = "probed"
    /\ Allocation(w) \/ UNCHANGED <<fence, attempts>>
    /\ Goto(w, "allocating")
    /\ UNCHANGED <<now, operations, target, carried, heartbeat, tx>>

(* probe_fresh *)
AllocateProbe(w) ==
    /\ pc[w] = "allocating"
    /\ IF attempts[AttemptOf[w]] = 0
       THEN Goto(w, "failed") /\ UNCHANGED carried
       ELSE Allocated(w, fence, attempts)
    /\ UNCHANGED <<now, catalog, target, heartbeat, tx>>

(* A superseded invocation may only replay what it has committed. *)
SupersededProbe(w) ==
    /\ pc[w] = "superseded"
    /\ Goto(w, IF Committed(Op(w)) THEN "replayed" ELSE "failed")
    /\ UNCHANGED <<now, catalog, target, carried, heartbeat, tx>>

Unexpired(expires) == expires # Forever => expires > now

(* The claim's requested expiry: what is left of the chunk lease. *)
Requests(w) ==
    IF ScopeOf[w] \in Leased THEN now .. (now + LeaseTTL) ELSE {Forever}

CurrentGeneration(w) ==
    /\ fence.attempt = AttemptOf[w]
    /\ fence.generation = carried[w].generation
    /\ attempts[AttemptOf[w]] = carried[w].generation

(* The THROWs of claim_operation_sql. *)
ClaimRejected(w, expires) ==
    LET row == operations[Op(w)] IN
    \/ ~Unexpired(expires)
    \/ ~CurrentGeneration(w)
    \/ /\ row.epoch # 0
       /\ ~Committed(Op(w))
       /\ IF row.owner = Owner(w)
          THEN ~Unexpired(row.expires) ELSE Unexpired(row.expires)

(* The operation row after an accepted claim. *)
ClaimedRow(w, expires) ==
    LET row == operations[Op(w)] IN
    IF row.epoch = 0
    THEN [epoch |-> 1, owner |-> Owner(w), expires |-> expires]
    ELSE IF Committed(Op(w)) THEN row
    ELSE IF row.owner = Owner(w)
    THEN [epoch |-> row.epoch, owner |-> row.owner,
          expires |-> IF row.expires # Forever /\ expires > row.expires
                      THEN expires ELSE row.expires]
    ELSE [epoch |-> row.epoch + 1, owner |-> Owner(w), expires |-> expires]

(* The admitted operation, and the heartbeat of a finite lease. *)
Admit(w, epoch) ==
    /\ carried' = [carried EXCEPT ![w] =
                     [generation |-> carried[w].generation, epoch |-> epoch]]
    /\ heartbeat' = [heartbeat EXCEPT ![w] =
                       IF ScopeOf[w] \in Leased THEN "on" ELSE "off"]
    /\ Goto(w, "extracting")

(* claim_or_replay *)
Claim(w) ==
    /\ pc[w] = "allocated"
    /\ OperationFree(Op(w))
    /\ \E expires \in Requests(w) :
         IF ClaimRejected(w, expires)
         THEN Goto(w, "failed") /\ UNCHANGED <<operations, carried, heartbeat>>
         ELSE /\ operations' = [operations EXCEPT ![Op(w)] = ClaimedRow(w, expires)]
              /\ IF Committed(Op(w))
                 THEN Goto(w, "replayed") /\ UNCHANGED <<carried, heartbeat>>
                 ELSE Admit(w, ClaimedRow(w, expires).epoch)
    /\ UNCHANGED <<now, fence, attempts, target, tx>>

(* The claim's acknowledgement is lost, with or without its commit. *)
ClaimLost(w) ==
    /\ pc[w] = "allocated"
    /\ OperationFree(Op(w))
    /\ \E expires \in Requests(w) :
         /\ ~ClaimRejected(w, expires)
         /\ \/ operations' = [operations EXCEPT ![Op(w)] = ClaimedRow(w, expires)]
            \/ UNCHANGED operations
    /\ Goto(w, "claiming")
    /\ UNCHANGED <<now, fence, attempts, target, carried, heartbeat, tx>>

(* probe_claim_outcome_fresh: the receipt, else the row if it names this   *)
(* owner; a heartbeat is not started on a lease that is over.              *)
ClaimProbe(w) ==
    LET row == operations[Op(w)] IN
    /\ pc[w] = "claiming"
    /\ IF Committed(Op(w))
       THEN Goto(w, "replayed") /\ UNCHANGED <<carried, heartbeat>>
       ELSE IF row.epoch # 0 /\ row.owner = Owner(w) /\ Unexpired(row.expires)
       THEN Admit(w, row.epoch)
       ELSE Goto(w, "failed") /\ UNCHANGED <<carried, heartbeat>>
    /\ UNCHANGED <<now, catalog, target, tx>>

-----------------------------------------------------------------------------
(* Heartbeat and extraction *)

SetHeartbeat(w, state) == heartbeat' = [heartbeat EXCEPT ![w] = state]

(* renew_operation_lease is a claim by the same owner.  When a later owner *)
(* has let the lease run out, the claim takes the operation over again,    *)
(* and only then is the changed epoch noticed.                             *)
Renew(w) ==
    /\ heartbeat[w] = "on"
    /\ OperationFree(Op(w))
    /\ \E expires \in (now + 1) .. (now + LeaseTTL) :
         IF ClaimRejected(w, expires)
         THEN SetHeartbeat(w, "lost") /\ UNCHANGED operations
         ELSE /\ operations' = [operations EXCEPT ![Op(w)] = ClaimedRow(w, expires)]
              /\ SetHeartbeat(w,
                   IF Committed(Op(w)) THEN "off"
                   ELSE IF ClaimedRow(w, expires).epoch = carried[w].epoch
                   THEN "on" ELSE "lost")
    /\ UNCHANGED <<now, fence, attempts, target, pc, carried, tx>>

HeartbeatError(w) ==
    /\ heartbeat[w] = "on"
    /\ SetHeartbeat(w, "lost")
    /\ UNCHANGED <<now, catalog, target, pc, carried, tx>>

(* The processor stops the heartbeat when it is done. *)
StopHeartbeat(w) ==
    /\ pc[w] \in Final
    /\ heartbeat[w] = "on"
    /\ SetHeartbeat(w, "off")
    /\ UNCHANGED <<now, catalog, target, pc, carried, tx>>

(* Mutant of Extracted: the processor waits for a healthy heartbeat. *)
ExtractedHealthy(w) ==
    /\ pc[w] = "extracting"
    /\ heartbeat[w] # "lost"
    /\ Goto(w, "staged")
    /\ UNCHANGED <<now, catalog, target, carried, heartbeat, tx>>

(* assert_healthy after extraction. *)
Extracted(w) ==
    /\ pc[w] = "extracting"
    /\ Goto(w, IF heartbeat[w] = "lost" THEN "failed" ELSE "staged")
    /\ UNCHANGED <<now, catalog, target, carried, heartbeat, tx>>

(* A probe, the source, staging or a lock wait fails before the target     *)
(* changes.                                                                *)
LoadFails(w) ==
    /\ pc[w] \in {"new", "probed", "allocating", "allocated", "superseded",
                  "claiming", "extracting", "staged"}
    /\ Goto(w, "failed")
    /\ UNCHANGED <<now, catalog, target, carried, heartbeat, tx>>

-----------------------------------------------------------------------------
(* Finalizer *)

(* Mutant of AssertCurrent: only the owner is compared. *)
AssertOwner(w) == operations[Op(w)].owner = Owner(w)

AssertCurrent(w) ==
    /\ CurrentGeneration(w)
    /\ operations[Op(w)].epoch = carried[w].epoch
    /\ operations[Op(w)].owner = Owner(w)

(* The exclusive application locks of acquire_mutation_locks. *)
MutationLocksFree(w) ==
    \A v \in Workers :
        tx[v] # "none" =>
            Op(v) # Op(w) /\ (ScopeOf[v] \in Shadow \/ ScopeOf[w] \in Shadow)

(* begin, the locks, assert_current and the receipt probe. *)
Open(w) ==
    /\ pc[w] = "staged"
    /\ MutationLocksFree(w)
    /\ AssertCurrent(w)
    /\ Unexpired(operations[Op(w)].expires)
    /\ ~Committed(Op(w))
    /\ Goto(w, "open")
    /\ tx' = [tx EXCEPT ![w] = "open"]
    /\ UNCHANGED <<now, catalog, target, carried, heartbeat>>

(* A stale or expired owner is refused.  A receipt of the same operation   *)
(* is replayed if it is for the same input and refused otherwise.          *)
OpenRefused(w) ==
    /\ pc[w] = "staged"
    /\ MutationLocksFree(w)
    /\ IF AssertCurrent(w) /\ Unexpired(operations[Op(w)].expires)
       THEN Committed(Op(w)) /\ (Goto(w, "replayed") \/ Goto(w, "failed"))
       ELSE Goto(w, "failed")
    /\ UNCHANGED <<now, catalog, target, carried, heartbeat, tx>>

(* The business DML, assert_current without the lease, the receipt and the *)
(* commit request.  The receipt is unique and refers to the owner epoch.   *)
SendCommit(w) ==
    /\ pc[w] = "open"
    /\ tx[w] = "open"
    /\ AssertCurrent(w)
    /\ ~Committed(Op(w))
    /\ Goto(w, "committing")
    /\ tx' = [tx EXCEPT ![w] = "sent"]
    /\ UNCHANGED <<now, catalog, target, carried, heartbeat>>

(* Mutant of Rollback: an error that dooms the transaction is not rolled   *)
(* back, so its locks stay.                                                *)
RollbackForgotten(w) ==
    /\ pc[w] = "open"
    /\ Goto(w, "failed")
    /\ tx' = [tx EXCEPT ![w] = "doomed"]
    /\ UNCHANGED <<now, catalog, target, carried, heartbeat>>

(* Anything raised between assert_current and the commit rolls back. *)
Rollback(w) ==
    /\ pc[w] = "open"
    /\ Goto(w, "failed")
    /\ tx' = [tx EXCEPT ![w] = "none"]
    /\ UNCHANGED <<now, catalog, target, carried, heartbeat>>

(* Mutant of ServerCommits: the receipt is not in the DML's transaction. *)
ServerCommitsDML(w) ==
    /\ tx[w] = "sent"
    /\ tx' = [tx EXCEPT ![w] = "none"]
    /\ effects' = [effects EXCEPT ![Op(w)] = @ + 1]
    /\ newest' = carried[w].generation
    /\ wrote' = [wrote EXCEPT ![w] = TRUE]
    /\ UNCHANGED <<now, catalog, receipts, pc, carried, heartbeat>>

(* The server makes the DML and the receipt durable together. *)
ServerCommits(w) ==
    /\ tx[w] = "sent"
    /\ tx' = [tx EXCEPT ![w] = "none"]
    /\ effects' = [effects EXCEPT ![Op(w)] = @ + 1]
    /\ newest' = carried[w].generation
    /\ receipts' = [receipts EXCEPT ![Op(w)] =
                      [writer |-> w, epoch |-> carried[w].epoch]]
    /\ wrote' = [wrote EXCEPT ![w] = TRUE]
    /\ UNCHANGED <<now, catalog, pc, carried, heartbeat>>

(* The server discards a transaction whose commit fails or whose client    *)
(* has gone.                                                               *)
ServerAborts(w) ==
    /\ tx[w] # "none"
    /\ tx[w] = "sent" \/ pc[w] = "crashed"
    /\ tx' = [tx EXCEPT ![w] = "none"]
    /\ UNCHANGED <<now, catalog, target, pc, carried, heartbeat>>

CommitAcknowledged(w) ==
    /\ pc[w] = "committing"
    /\ wrote[w]
    /\ Goto(w, "committed")
    /\ UNCHANGED <<now, catalog, target, carried, heartbeat, tx>>

(* Mutant of CommitRaises: a commit error is taken for a rollback. *)
CommitRaisesFailed(w) ==
    /\ pc[w] = "committing"
    /\ Goto(w, "failed")
    /\ UNCHANGED <<now, catalog, target, carried, heartbeat, tx>>

(* commit_transaction raises: refused, or the acknowledgement is lost. *)
CommitRaises(w) ==
    /\ pc[w] = "committing"
    /\ Goto(w, "doubt")
    /\ UNCHANGED <<now, catalog, target, carried, heartbeat, tx>>

(* Mutant of ReceiptProbe: an absent receipt is taken for a commit. *)
ReceiptProbeTrusting(w) ==
    /\ pc[w] = "doubt"
    /\ Goto(w, "committed") \/ Goto(w, "unknown")
    /\ UNCHANGED <<now, catalog, target, carried, heartbeat, tx>>

(* probe_receipt_fresh with the exact owner epoch, then the exact input; a *)
(* close or a probe that fails also leaves the outcome unknown.            *)
ReceiptProbe(w) ==
    /\ pc[w] = "doubt"
    /\ \/ /\ Committed(Op(w))
          /\ receipts[Op(w)].epoch = carried[w].epoch
          /\ Owner(receipts[Op(w)].writer) = Owner(w)
          /\ Goto(w, "committed")
       \/ Goto(w, "unknown")
    /\ UNCHANGED <<now, catalog, target, carried, heartbeat, tx>>

-----------------------------------------------------------------------------
(* Environment *)

Crash(w) ==
    /\ pc[w] \notin Final
    /\ Goto(w, "crashed")
    /\ SetHeartbeat(w, "off")
    /\ UNCHANGED <<now, catalog, target, carried, tx>>

Tick ==
    /\ now < MaxNow
    /\ now' = now + 1
    /\ UNCHANGED <<catalog, target, pc, carried, heartbeat, tx>>

WorkerStep(w) ==
    \/ ReplayProbe(w)
    \/ Allocate(w)
    \/ AllocateProbe(w)
    \/ SupersededProbe(w)
    \/ Claim(w)
    \/ ClaimProbe(w)
    \/ Extracted(w)
    \/ Open(w)
    \/ OpenRefused(w)
    \/ SendCommit(w)
    \/ CommitAcknowledged(w)
    \/ ReceiptProbe(w)
    \/ StopHeartbeat(w)

ServerStep(w) == ServerCommits(w) \/ ServerAborts(w)

Fault(w) ==
    \/ AllocateLost(w)
    \/ ClaimLost(w)
    \/ HeartbeatError(w)
    \/ LoadFails(w)
    \/ Rollback(w)
    \/ CommitRaises(w)
    \/ Crash(w)

Done ==
    /\ \A w \in Workers :
         pc[w] \in Final /\ tx[w] = "none" /\ heartbeat[w] # "on"
    /\ now = MaxNow
    /\ UNCHANGED vars

Next ==
    \/ \E w \in Workers : WorkerStep(w) \/ ServerStep(w) \/ Fault(w) \/ Renew(w)
    \/ Tick
    \/ Done

Spec == Init /\ [][Next]_vars

(* A live worker and the server keep going.  A refused commit is reported  *)
(* to the client, so a worker never waits for its acknowledgement forever. *)
FairSpec ==
    /\ Spec
    /\ \A w \in Workers :
         /\ WF_vars(WorkerStep(w))
         /\ WF_vars(ServerStep(w))
         /\ WF_vars(CommitRaises(w))

-----------------------------------------------------------------------------
(* Properties *)

Owners == Workers \cup Attempts \cup {Nobody}

(* The type invariant: catalog rows, transactions and workers stay within  *)
(* the shapes of the governance tables and the finalizer's control points. *)
TypeOK ==
    /\ now \in Nat
    /\ fence \in [generation : Nat, attempt : Attempts \cup {Nobody}]
    /\ attempts \in [Attempts -> Nat]
    /\ operations \in [Operations -> [epoch : Nat, owner : Owners,
                                      expires : Nat \cup {Forever}]]
    /\ receipts \in [Operations -> [writer : Workers \cup {Nobody}, epoch : Nat]]
    /\ effects \in [Operations -> Nat]
    /\ newest \in Nat
    /\ pc \in [Workers -> WorkerState]
    /\ carried \in [Workers -> [generation : Nat, epoch : Nat]]
    /\ heartbeat \in [Workers -> {"off", "on", "lost"}]
    /\ tx \in [Workers -> {"none", "open", "sent"}]
    /\ wrote \in [Workers -> BOOLEAN]

(* The DML of an operation is in the target exactly when its receipt is in *)
(* the catalog, and then exactly once, whatever was lost or retried.       *)
ReceiptMeansEffect ==
    \A o \in Operations : effects[o] = IF Committed(o) THEN 1 ELSE 0

(* An open transaction freezes generation, epoch and owner: neither a new  *)
(* invocation nor a reclaim gets past its locks, also when the lease has   *)
(* run out during the DML.  So the second assert_current of the finalizer, *)
(* which does not ask for an unexpired lease, accepts every transaction    *)
(* that was opened, and one that outlived its lease commits, as the owner  *)
(* it still is.  The comment above that call says it rolls back.           *)
LocksKeepOwner ==
    \A w \in Workers :
        tx[w] # "none" => AssertCurrent(w) /\ ~Committed(Op(w))

(* mssql_transaction_finalizer.py, "A chunk that outlived its TTL rolls    *)
(* back instead of committing": no expired lease when COMMIT is sent.      *)
ExpiredRollsBack ==
    [][\A w \in Workers : SendCommit(w) => Unexpired(operations[Op(w)].expires)]_vars

(* A worker that reports a failure or a replay has not written: an error   *)
(* of COMMIT is never passed on as an ordinary failure.                    *)
FailureMeansNotWritten ==
    \A w \in Workers :
        pc[w] \in {"failed", "replayed"} => ~wrote[w] /\ tx[w] = "none"

(* An invocation that has been superseded in the target fence writes       *)
(* nothing any more, however late its transaction reaches the server.      *)
SupersededNeverWrites ==
    [][wrote' # wrote => newest' = fence.generation]_vars

(* A processor run is a delivery; a commit or a replay is its success. *)
Contract == INSTANCE TransactionContract WITH
    Deliveries <- Workers,
    Delivers <- [w \in Workers |-> Op(w)],
    success <- {w \in Workers : pc[w] \in {"replayed", "committed"}}

(* Loads are applied at most once and success is reported only for an      *)
(* effect that is in the target.                                           *)
KeepsContract == Contract!Spec

(* Every processor run ends, whatever the server and the lease do. *)
EveryLoadEnds == \A w \in Workers : <>(pc[w] \in Final)
=============================================================================
