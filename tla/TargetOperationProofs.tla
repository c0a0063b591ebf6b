------------------------ MODULE TargetOperationProofs -----------------------
(***************************************************************************)
(* Exactly-once application for every number of deliveries, invocations,   *)
(* scopes and clock values.  The inductive invariant ties the server's     *)
(* view of a finalizer transaction (tx, wrote) to the position of its      *)
(* worker, and the locks of open transactions to the catalog rows they     *)
(* protect.                                                                *)
(***************************************************************************)
EXTENDS TargetOperation, TLAPS

(* Where a worker stands while its transaction is open, sent or committed. *)
Positions ==
    \A w \in Workers :
        /\ tx[w] = "open" => pc[w] \in {"open", "crashed"}
        /\ tx[w] = "sent" => pc[w] \in {"committing", "doubt", "unknown",
                                        "committed", "crashed"}
        /\ pc[w] = "open" => ~wrote[w]
        /\ wrote[w] => /\ tx[w] = "none"
                       /\ pc[w] \in {"committing", "doubt", "unknown",
                                     "committed", "crashed"}

(* The application lock of an operation is exclusive. *)
OneTransaction ==
    \A v, w \in Workers :
        tx[v] # "none" /\ tx[w] # "none" /\ Op(v) = Op(w) => v = w

(* Success is reported, and a commit acknowledged, for a receipted         *)
(* operation only.                                                         *)
SuccessHasReceipt ==
    \A w \in Workers :
        wrote[w] \/ pc[w] \in {"replayed", "committed"} => Committed(Op(w))

IInv ==
    /\ TypeOK
    /\ Positions
    /\ OneTransaction
    /\ LocksKeepOwner
    /\ ReceiptMeansEffect
    /\ SuccessHasReceipt

-----------------------------------------------------------------------------
(* A worker delivers an operation of the catalog. *)
LEMMA OpType == \A w \in Workers : Op(w) \in Operations /\ Owner(w) \in Owners
BY WorkersAssumption DEF Op, Operations, Owner, Owners

(* claim_operation_sql leaves a well-formed operation row. *)
LEMMA ClaimedRowType ==
    ASSUME TypeOK, NEW w \in Workers, NEW expires \in Nat \cup {Forever}
    PROVE  ClaimedRow(w, expires) \in
              [epoch : Nat, owner : Owners, expires : Nat \cup {Forever}]
<1>1. operations[Op(w)] \in
         [epoch : Nat, owner : Owners, expires : Nat \cup {Forever}]
  BY OpType DEF TypeOK
<1> QED
  BY <1>1, OpType DEF ClaimedRow

(* The operation table after a claim. *)
LEMMA ClaimedOperations ==
    ASSUME TypeOK, NEW w \in Workers, NEW expires \in Nat \cup {Forever},
           operations' = [operations EXCEPT ![Op(w)] = ClaimedRow(w, expires)]
    PROVE  operations' \in [Operations -> [epoch : Nat, owner : Owners,
                                          expires : Nat \cup {Forever}]]
BY ClaimedRowType, OpType DEF TypeOK

(* The allocated generation, as admission reads it back. *)
LEMMA AllocatedType ==
    ASSUME TypeOK, NEW w \in Workers, NEW f, NEW rows \in [Attempts -> Nat],
           Allocated(w, f, rows)
    PROVE  /\ carried' \in [Workers -> [generation : Nat, epoch : Nat]]
           /\ pc' \in [Workers -> WorkerState]
<1>1. rows[AttemptOf[w]] \in Nat
  BY WorkersAssumption
<1>2. [generation |-> rows[AttemptOf[w]], epoch |-> 0] \in
         [generation : Nat, epoch : Nat]
  BY <1>1
<1> QED
  BY <1>2 DEF TypeOK, Allocated, Goto, WorkerState

(* The admitted operation and its heartbeat. *)
LEMMA AdmitType ==
    ASSUME TypeOK, NEW w \in Workers, NEW epoch \in Nat, Admit(w, epoch)
    PROVE  /\ carried' \in [Workers -> [generation : Nat, epoch : Nat]]
           /\ pc' \in [Workers -> WorkerState]
           /\ heartbeat' \in [Workers -> {"off", "on", "lost"}]
<1>1. [generation |-> carried[w].generation, epoch |-> epoch] \in
         [generation : Nat, epoch : Nat]
  BY DEF TypeOK
<1> QED
  BY <1>1 DEF TypeOK, Admit, Goto, WorkerState

(* What a claim or a renewal may ask for. *)
LEMMA RequestType ==
    ASSUME TypeOK, NEW w \in Workers
    PROVE  /\ Requests(w) \subseteq Nat \cup {Forever}
           /\ (now + 1) .. (now + LeaseTTL) \subseteq Nat \cup {Forever}
BY WorkersAssumption DEF TypeOK, Requests

(* The empty catalog satisfies the invariant. *)
LEMMA InitIInv == Init => IInv
<1> SUFFICES ASSUME Init PROVE IInv
  OBVIOUS
<1>1. TypeOK
  BY DEF Init, TypeOK, WorkerState, Owners, NoReceipt
<1>2. \A w \in Workers : ~Committed(Op(w)) /\ pc[w] = "new"
                         /\ tx[w] = "none" /\ ~wrote[w]
  BY OpType DEF Init, Committed
<1>3. ReceiptMeansEffect
  BY DEF Init, ReceiptMeansEffect, Committed
<1> QED
  BY <1>1, <1>2, <1>3
  DEF IInv, Positions, OneTransaction, LocksKeepOwner, SuccessHasReceipt

-----------------------------------------------------------------------------
(* Every action of a worker keeps the state well formed. *)
LEMMA TypeStep ==
    ASSUME TypeOK, [Next]_vars
    PROVE  TypeOK'
<1> USE DEF TypeOK, WorkerState, Goto, catalog, target, SetHeartbeat
<1>1. ASSUME NEW w \in Workers, WorkerStep(w) PROVE TypeOK'
  <2>1. CASE ReplayProbe(w)
    BY <2>1 DEF ReplayProbe
  <2>2. CASE Allocate(w)
    <3>1. Allocation(w) /\ Allocated(w, fence', attempts')
          /\ UNCHANGED <<now, operations, target, heartbeat, tx>>
      BY <2>2 DEF Allocate
    <3>2. /\ fence' \in [generation : Nat, attempt : Attempts \cup {Nobody}]
          /\ attempts' \in [Attempts -> Nat]
      BY <3>1, WorkersAssumption DEF Allocation
    <3>3. /\ carried' \in [Workers -> [generation : Nat, epoch : Nat]]
          /\ pc' \in [Workers -> WorkerState]
      BY <3>1, <3>2, AllocatedType
    <3> QED
      BY <3>1, <3>2, <3>3
  <2>3. CASE AllocateProbe(w)
    <3>1. CASE attempts[AttemptOf[w]] = 0
      BY <2>3, <3>1 DEF AllocateProbe
    <3>2. CASE attempts[AttemptOf[w]] # 0
      <4>1. /\ carried' \in [Workers -> [generation : Nat, epoch : Nat]]
            /\ pc' \in [Workers -> WorkerState]
        BY <2>3, <3>2, AllocatedType DEF AllocateProbe
      <4> QED
        BY <2>3, <4>1 DEF AllocateProbe
    <3> QED
      BY <3>1, <3>2
  <2>4. CASE SupersededProbe(w)
    BY <2>4 DEF SupersededProbe
  <2>5. CASE Claim(w)
    <3>1. PICK expires \in Requests(w) :
            IF ClaimRejected(w, expires)
            THEN Goto(w, "failed") /\ UNCHANGED <<operations, carried, heartbeat>>
            ELSE /\ operations' = [operations EXCEPT ![Op(w)] = ClaimedRow(w, expires)]
                 /\ IF Committed(Op(w))
                    THEN Goto(w, "replayed") /\ UNCHANGED <<carried, heartbeat>>
                    ELSE Admit(w, ClaimedRow(w, expires).epoch)
      BY <2>5 DEF Claim
    <3>2. ClaimedRow(w, expires) \in
            [epoch : Nat, owner : Owners, expires : Nat \cup {Forever}]
      BY ClaimedRowType, RequestType
    <3>3. operations' \in [Operations -> [epoch : Nat, owner : Owners,
                                          expires : Nat \cup {Forever}]]
      BY <3>1, ClaimedOperations, RequestType
    <3>4. CASE Goto(w, "failed") /\ UNCHANGED <<carried, heartbeat>>
      BY <2>5, <3>3, <3>4 DEF Claim
    <3>5. CASE Goto(w, "replayed") /\ UNCHANGED <<carried, heartbeat>>
      BY <2>5, <3>3, <3>5 DEF Claim
    <3>6. CASE Admit(w, ClaimedRow(w, expires).epoch)
      <4>1. ClaimedRow(w, expires).epoch \in Nat
        BY <3>2
      <4>2. /\ carried' \in [Workers -> [generation : Nat, epoch : Nat]]
            /\ pc' \in [Workers -> WorkerState]
            /\ heartbeat' \in [Workers -> {"off", "on", "lost"}]
        BY <3>6, <4>1, AdmitType
      <4> QED
        BY <2>5, <3>3, <4>2 DEF Claim
    <3> QED
      BY <3>1, <3>4, <3>5, <3>6
  <2>6. CASE ClaimProbe(w)
    <3>1. operations[Op(w)].epoch \in Nat
      BY OpType
    <3>2. CASE Admit(w, operations[Op(w)].epoch)
      <4>1. /\ carried' \in [Workers -> [generation : Nat, epoch : Nat]]
            /\ pc' \in [Workers -> WorkerState]
            /\ heartbeat' \in [Workers -> {"off", "on", "lost"}]
        BY <3>1, <3>2, AdmitType
      <4> QED
        BY <2>6, <4>1 DEF ClaimProbe
    <3>3. CASE UNCHANGED <<carried, heartbeat>>
               /\ (Goto(w, "replayed") \/ Goto(w, "failed"))
      BY <2>6, <3>3 DEF ClaimProbe
    <3> QED
      BY <2>6, <3>2, <3>3 DEF ClaimProbe
  <2>7. CASE Extracted(w)
    BY <2>7 DEF Extracted
  <2>8. CASE Open(w)
    BY <2>8 DEF Open
  <2>9. CASE OpenRefused(w)
    BY <2>9 DEF OpenRefused
  <2>10. CASE SendCommit(w)
    BY <2>10 DEF SendCommit
  <2>11. CASE CommitAcknowledged(w)
    BY <2>11 DEF CommitAcknowledged
  <2>12. CASE ReceiptProbe(w)
    BY <2>12 DEF ReceiptProbe
  <2>13. CASE StopHeartbeat(w)
    BY <2>13 DEF StopHeartbeat
  <2> QED
    BY <1>1, <2>1, <2>2, <2>3, <2>4, <2>5, <2>6, <2>7, <2>8, <2>9, <2>10,
       <2>11, <2>12, <2>13 DEF WorkerStep
<1>2. ASSUME NEW w \in Workers, ServerStep(w) PROVE TypeOK'
  <2>1. CASE ServerCommits(w)
    BY <2>1, OpType DEF ServerCommits
  <2>2. CASE ServerAborts(w)
    BY <2>2 DEF ServerAborts
  <2> QED
    BY <1>2, <2>1, <2>2 DEF ServerStep
<1>3. ASSUME NEW w \in Workers, Fault(w) PROVE TypeOK'
  <2>1. CASE AllocateLost(w)
    <3>1. Allocation(w) \/ UNCHANGED <<fence, attempts>>
      BY <2>1 DEF AllocateLost
    <3>2. /\ fence' \in [generation : Nat, attempt : Attempts \cup {Nobody}]
          /\ attempts' \in [Attempts -> Nat]
      BY <3>1, WorkersAssumption DEF Allocation
    <3> QED
      BY <2>1, <3>2 DEF AllocateLost
  <2>2. CASE ClaimLost(w)
    <3>1. PICK expires \in Requests(w) :
            \/ operations' = [operations EXCEPT ![Op(w)] = ClaimedRow(w, expires)]
            \/ UNCHANGED operations
      BY <2>2 DEF ClaimLost
    <3>2. operations' \in [Operations -> [epoch : Nat, owner : Owners,
                                          expires : Nat \cup {Forever}]]
      BY <3>1, ClaimedOperations, RequestType
    <3> QED
      BY <2>2, <3>2 DEF ClaimLost
  <2>3. CASE HeartbeatError(w) \/ LoadFails(w) \/ CommitRaises(w)
    BY <2>3 DEF HeartbeatError, LoadFails, CommitRaises
  <2>4. CASE Rollback(w) \/ Crash(w)
    BY <2>4 DEF Rollback, Crash
  <2> QED
    BY <1>3, <2>1, <2>2, <2>3, <2>4 DEF Fault
<1>4. ASSUME NEW w \in Workers, Renew(w) PROVE TypeOK'
  <2>1. PICK expires \in (now + 1) .. (now + LeaseTTL) :
          IF ClaimRejected(w, expires)
          THEN SetHeartbeat(w, "lost") /\ UNCHANGED operations
          ELSE /\ operations' = [operations EXCEPT ![Op(w)] = ClaimedRow(w, expires)]
               /\ SetHeartbeat(w,
                    IF Committed(Op(w)) THEN "off"
                    ELSE IF ClaimedRow(w, expires).epoch = carried[w].epoch
                    THEN "on" ELSE "lost")
    BY <1>4 DEF Renew
  <2>2. operations' \in [Operations -> [epoch : Nat, owner : Owners,
                                        expires : Nat \cup {Forever}]]
    BY <2>1, ClaimedOperations, RequestType
  <2>3. heartbeat' \in [Workers -> {"off", "on", "lost"}]
    BY <2>1
  <2> QED
    BY <1>4, <2>2, <2>3 DEF Renew
<1>5. CASE Tick
  BY <1>5 DEF Tick
<1>6. CASE UNCHANGED vars
  BY <1>6 DEF vars
<1> QED
  BY <1>1, <1>2, <1>3, <1>4, <1>5, <1>6 DEF Next, Done

-----------------------------------------------------------------------------
(* Steps outside the server: no transaction begins, ends or commits, and   *)
(* the rows locked by open transactions stay as they are.                  *)
LEMMA QuietStep ==
    ASSUME IInv, TypeOK', Positions',
           UNCHANGED <<receipts, effects, tx, wrote>>,
           \A v \in Workers : tx[v] # "none" =>
               /\ fence' = fence /\ attempts' = attempts
               /\ operations'[Op(v)] = operations[Op(v)]
               /\ carried'[v] = carried[v],
           \A v \in Workers :
               pc'[v] \in {"replayed", "committed"} =>
                   Committed(Op(v)) \/ pc'[v] = pc[v]
    PROVE  IInv'
<1>1. \A o : Committed(o)' <=> Committed(o)
  BY DEF Committed
<1>2. LocksKeepOwner'
  BY <1>1 DEF IInv, LocksKeepOwner, AssertCurrent, CurrentGeneration
<1>3. OneTransaction' /\ ReceiptMeansEffect' /\ SuccessHasReceipt'
  BY <1>1 DEF IInv, OneTransaction, ReceiptMeansEffect, SuccessHasReceipt
<1> QED
  BY <1>2, <1>3 DEF IInv

(* A worker that moves without a transaction of its own. *)
LEMMA MoveStep ==
    ASSUME IInv, TypeOK', NEW w \in Workers, NEW label \in WorkerState,
           Goto(w, label), tx[w] = "none", ~wrote[w], label # "open",
           label \in {"replayed", "committed"} => Committed(Op(w)),
           UNCHANGED <<receipts, effects, tx, wrote>>,
           \A v \in Workers : v # w => carried'[v] = carried[v],
           \A v \in Workers : tx[v] # "none" =>
               /\ fence' = fence /\ attempts' = attempts
               /\ operations'[Op(v)] = operations[Op(v)]
    PROVE  IInv'
<1>1. \A v \in Workers : pc'[v] = IF v = w THEN label ELSE pc[v]
  BY DEF IInv, TypeOK, Goto
<1>2. Positions'
  BY <1>1 DEF IInv, Positions
<1>3. \A v \in Workers : tx[v] # "none" => carried'[v] = carried[v]
  OBVIOUS
<1> QED
  BY <1>1, <1>2, <1>3, QuietStep

(* A claim rewrites only an operation row no open transaction has locked. *)
LEMMA FreeClaim ==
    ASSUME TypeOK, NEW w \in Workers, OperationFree(Op(w)), NEW row,
           operations' = [operations EXCEPT ![Op(w)] = row]
    PROVE  \A v \in Workers : tx[v] # "none" =>
               operations'[Op(v)] = operations[Op(v)]
BY OpType DEF TypeOK, OperationFree

(* An allocation moves the fence only when no finalizer reads it. *)
LEMMA GatedAllocation ==
    ASSUME NEW w \in Workers, Allocation(w) \/ UNCHANGED <<fence, attempts>>
    PROVE  \A v \in Workers : tx[v] # "none" =>
               fence' = fence /\ attempts' = attempts
BY DEF Allocation, NoFenceReader

(* Admission: no transaction of this worker exists yet. *)
LEMMA AdmissionStep ==
    ASSUME IInv, TypeOK', NEW w \in Workers,
           \/ ReplayProbe(w) \/ Allocate(w) \/ AllocateLost(w)
           \/ AllocateProbe(w) \/ SupersededProbe(w) \/ Claim(w)
           \/ ClaimLost(w) \/ ClaimProbe(w) \/ Extracted(w)
           \/ OpenRefused(w) \/ LoadFails(w)
    PROVE  IInv'
<1> DEFINE Early == {"new", "probed", "allocating", "allocated", "superseded",
                     "claiming", "extracting", "staged"}
<1>1. pc[w] \in Early
  BY DEF ReplayProbe, Allocate, AllocateLost, AllocateProbe, SupersededProbe,
         Claim, ClaimLost, ClaimProbe, Extracted, OpenRefused, LoadFails
<1>2. tx[w] = "none" /\ ~wrote[w]
  BY <1>1 DEF IInv, TypeOK, Positions
<1>3. UNCHANGED <<receipts, effects, tx, wrote>>
  BY DEF ReplayProbe, Allocate, AllocateLost, AllocateProbe, SupersededProbe,
         Claim, ClaimLost, ClaimProbe, Extracted, OpenRefused, LoadFails,
         target
<1>4. \A v \in Workers : tx[v] # "none" => fence' = fence /\ attempts' = attempts
  <2>1. CASE Allocate(w) \/ AllocateLost(w)
    BY <2>1, GatedAllocation DEF Allocate, AllocateLost
  <2>2. CASE UNCHANGED <<fence, attempts>>
    BY <2>2
  <2> QED
    BY <2>1, <2>2 DEF ReplayProbe, AllocateProbe, SupersededProbe, Claim,
         ClaimLost, ClaimProbe, Extracted, OpenRefused, LoadFails, catalog
<1>5. \A v \in Workers : tx[v] # "none" => operations'[Op(v)] = operations[Op(v)]
  <2>1. CASE Claim(w) \/ ClaimLost(w)
    <3>1. OperationFree(Op(w))
          /\ \/ UNCHANGED operations
             \/ \E row : operations' = [operations EXCEPT ![Op(w)] = row]
      BY <2>1 DEF Claim, ClaimLost
    <3> QED
      BY <3>1, FreeClaim DEF IInv
  <2>2. CASE UNCHANGED operations
    BY <2>2
  <2> QED
    BY <2>1, <2>2 DEF ReplayProbe, Allocate, AllocateLost, AllocateProbe,
         SupersededProbe, ClaimProbe, Extracted, OpenRefused, LoadFails, catalog
<1>6. \A v \in Workers : v # w => carried'[v] = carried[v]
  BY DEF IInv, TypeOK, ReplayProbe, Allocate, AllocateLost, AllocateProbe,
         SupersededProbe, Claim, ClaimLost, ClaimProbe, Extracted,
         OpenRefused, LoadFails, Allocated, Admit
<1>7. \E label \in WorkerState \ {"open", "committed"} :
         /\ Goto(w, label)
         /\ label = "replayed" => Committed(Op(w))
  BY DEF ReplayProbe, Allocate, AllocateLost, AllocateProbe,
         SupersededProbe, Claim, ClaimLost, ClaimProbe, Extracted,
         OpenRefused, LoadFails, Allocated, Admit, WorkerState
<1> QED
  BY <1>2, <1>3, <1>4, <1>5, <1>6, <1>7, MoveStep

(* The heartbeat thread, alive or stopping, works beside its worker. *)
LEMMA HeartbeatStep ==
    ASSUME IInv, TypeOK', NEW w \in Workers,
           Renew(w) \/ HeartbeatError(w) \/ StopHeartbeat(w)
    PROVE  IInv'
<1>1. UNCHANGED <<receipts, effects, tx, wrote, fence, attempts, pc, carried>>
  BY DEF Renew, HeartbeatError, StopHeartbeat, target, catalog
<1>2. \A v \in Workers : tx[v] # "none" => operations'[Op(v)] = operations[Op(v)]
  <2>1. CASE Renew(w)
    <3>1. OperationFree(Op(w))
          /\ \/ UNCHANGED operations
             \/ \E row : operations' = [operations EXCEPT ![Op(w)] = row]
      BY <2>1 DEF Renew
    <3> QED
      BY <3>1, FreeClaim DEF IInv
  <2>2. CASE UNCHANGED operations
    BY <2>2
  <2> QED
    BY <2>1, <2>2 DEF HeartbeatError, StopHeartbeat, catalog
<1>3. Positions'
  BY <1>1 DEF IInv, Positions
<1> QED
  BY <1>1, <1>2, <1>3, QuietStep

(* The worker learns, or fails to learn, how its commit ended. *)
LEMMA OutcomeStep ==
    ASSUME IInv, TypeOK', NEW w \in Workers,
           \/ CommitAcknowledged(w) \/ CommitRaises(w) \/ ReceiptProbe(w)
           \/ Crash(w)
    PROVE  IInv'
<1>1. UNCHANGED <<receipts, effects, tx, wrote, fence, attempts, operations,
                  carried>>
  BY DEF CommitAcknowledged, CommitRaises, ReceiptProbe, Crash, target, catalog
<1>2. \E label \in {"committed", "doubt", "unknown", "crashed"} :
         /\ Goto(w, label)
         /\ label = "committed" => Committed(Op(w))
         /\ label = "crashed" \/ pc[w] \in {"committing", "doubt"}
  BY DEF IInv, SuccessHasReceipt, CommitAcknowledged, CommitRaises,
         ReceiptProbe, Crash
<1>3. PICK label \in {"committed", "doubt", "unknown", "crashed"} :
         /\ \A v \in Workers : pc'[v] = IF v = w THEN label ELSE pc[v]
         /\ label = "committed" => Committed(Op(w))
         /\ label = "crashed" \/ pc[w] \in {"committing", "doubt"}
  BY <1>2 DEF IInv, TypeOK, Goto
<1>4. Positions'
  BY <1>1, <1>3 DEF IInv, Positions
<1> QED
  BY <1>1, <1>3, <1>4, QuietStep

(* The finalizer's transaction begins under its locks. *)
LEMMA OpenStep ==
    ASSUME IInv, TypeOK', NEW w \in Workers, Open(w)
    PROVE  IInv'
<1>1. /\ \A v \in Workers : pc'[v] = IF v = w THEN "open" ELSE pc[v]
      /\ \A v \in Workers : tx'[v] = IF v = w THEN "open" ELSE tx[v]
      /\ UNCHANGED <<receipts, effects, wrote, fence, attempts, operations,
                     carried>>
      /\ pc[w] = "staged" /\ AssertCurrent(w) /\ ~Committed(Op(w))
      /\ \A v \in Workers : tx[v] # "none" => Op(v) # Op(w)
  BY DEF IInv, TypeOK, Open, Goto, catalog, target, MutationLocksFree
<1>2. \A o : Committed(o)' <=> Committed(o)
  BY <1>1 DEF Committed
<1>3. Positions' /\ OneTransaction'
  BY <1>1 DEF IInv, Positions, OneTransaction
<1>4. LocksKeepOwner'
  BY <1>1, <1>2 DEF IInv, LocksKeepOwner, AssertCurrent, CurrentGeneration
<1>5. ReceiptMeansEffect' /\ SuccessHasReceipt'
  BY <1>1, <1>2 DEF IInv, ReceiptMeansEffect, SuccessHasReceipt
<1> QED
  BY <1>3, <1>4, <1>5 DEF IInv

(* The transaction goes on or ends without a commit. *)
LEMMA TransactionStep ==
    ASSUME IInv, TypeOK', NEW w \in Workers,
           SendCommit(w) \/ Rollback(w) \/ ServerAborts(w)
    PROVE  IInv'
<1>1. /\ UNCHANGED <<receipts, effects, wrote, fence, attempts, operations,
                     carried>>
      /\ \A v \in Workers : v # w => pc'[v] = pc[v] /\ tx'[v] = tx[v]
      /\ \/ /\ pc[w] = "open" /\ tx[w] = "open"
            /\ pc'[w] = "committing" /\ tx'[w] = "sent"
         \/ pc[w] = "open" /\ pc'[w] = "failed" /\ tx'[w] = "none"
         \/ pc'[w] = pc[w] /\ tx'[w] = "none" /\ tx[w] # "none"
            /\ (tx[w] = "sent" \/ pc[w] = "crashed")
  BY DEF IInv, TypeOK, SendCommit, Rollback, ServerAborts, Goto, catalog,
         target
<1>2. \A o : Committed(o)' <=> Committed(o)
  BY <1>1 DEF Committed
<1>3. Positions' /\ OneTransaction'
  BY <1>1 DEF IInv, Positions, OneTransaction
<1>4. LocksKeepOwner'
  BY <1>1, <1>2 DEF IInv, LocksKeepOwner, AssertCurrent, CurrentGeneration
<1>5. ReceiptMeansEffect' /\ SuccessHasReceipt'
  BY <1>1, <1>2 DEF IInv, ReceiptMeansEffect, SuccessHasReceipt
<1> QED
  BY <1>3, <1>4, <1>5 DEF IInv

(* The commit: the one step that changes the target. *)
LEMMA CommitStep ==
    ASSUME IInv, TypeOK', NEW w \in Workers, ServerCommits(w)
    PROVE  /\ IInv'
           /\ effects[Op(w)] = 0
           /\ effects' = [effects EXCEPT ![Op(w)] = 1]
           /\ newest' = fence.generation
<1>1. /\ tx[w] = "sent" /\ tx'[w] = "none" /\ wrote'[w]
      /\ \A v \in Workers : v # w => tx'[v] = tx[v] /\ wrote'[v] = wrote[v]
      /\ UNCHANGED <<fence, attempts, operations, carried, pc>>
      /\ newest' = carried[w].generation
      /\ effects' = [effects EXCEPT ![Op(w)] = effects[Op(w)] + 1]
      /\ receipts' = [receipts EXCEPT ![Op(w)] =
                         [writer |-> w, epoch |-> carried[w].epoch]]
  BY DEF IInv, TypeOK, ServerCommits, catalog
<1>2. /\ ~Committed(Op(w)) /\ AssertCurrent(w)
      /\ effects[Op(w)] = 0
      /\ carried[w].generation = fence.generation
  BY <1>1, OpType DEF IInv, LocksKeepOwner, ReceiptMeansEffect, AssertCurrent,
                      CurrentGeneration
<1>3. \A o \in Operations : Committed(o)' <=> (Committed(o) \/ o = Op(w))
  BY <1>1, OpType, WorkersAssumption DEF IInv, TypeOK, Committed, NoReceipt
<1>4. Positions' /\ OneTransaction'
  BY <1>1 DEF IInv, Positions, OneTransaction
<1>5. LocksKeepOwner'
  BY <1>1, <1>3, OpType
  DEF IInv, LocksKeepOwner, AssertCurrent, CurrentGeneration, OneTransaction
<1>6. ReceiptMeansEffect'
  BY <1>1, <1>2, <1>3, OpType DEF IInv, TypeOK, ReceiptMeansEffect
<1>7. SuccessHasReceipt'
  BY <1>1, <1>3, OpType DEF IInv, SuccessHasReceipt
<1> QED
  BY <1>1, <1>2, <1>4, <1>5, <1>6, <1>7 DEF IInv

(* Steps of the clock, and stuttering. *)
LEMMA IdleStep ==
    ASSUME IInv, TypeOK', Tick \/ UNCHANGED vars
    PROVE  IInv'
<1>1. UNCHANGED <<receipts, effects, tx, wrote, fence, attempts, operations,
                  carried, pc>>
  BY DEF Tick, vars, catalog, target
<1>2. Positions'
  BY <1>1 DEF IInv, Positions
<1> QED
  BY <1>1, <1>2, QuietStep

(* Every step keeps the invariant. *)
LEMMA StepIInv ==
    ASSUME IInv, [Next]_vars
    PROVE  IInv'
<1>1. TypeOK'
  BY TypeStep DEF IInv
<1>2. ASSUME NEW w \in Workers, WorkerStep(w) PROVE IInv'
  BY <1>1, <1>2, AdmissionStep, OpenStep, TransactionStep, OutcomeStep,
     HeartbeatStep DEF WorkerStep
<1>3. ASSUME NEW w \in Workers, ServerStep(w) PROVE IInv'
  BY <1>1, <1>3, CommitStep, TransactionStep DEF ServerStep
<1>4. ASSUME NEW w \in Workers, Fault(w) PROVE IInv'
  BY <1>1, <1>4, AdmissionStep, HeartbeatStep, TransactionStep, OutcomeStep
  DEF Fault
<1>5. ASSUME NEW w \in Workers, Renew(w) PROVE IInv'
  BY <1>1, <1>5, HeartbeatStep
<1> QED
  BY <1>1, <1>2, <1>3, <1>4, <1>5, IdleStep DEF Next, Done

(* The inductive invariant holds of every reachable state. *)
THEOREM OperationInvariance == Spec => []IInv
<1>1. IInv /\ [Next]_vars => IInv'
  BY StepIInv
<1> QED
  BY <1>1, InitIInv, PTL DEF Spec

(* The catalog and the workers' state are well typed. *)
THEOREM OperationTypeCorrect == Spec => []TypeOK
<1>1. IInv => TypeOK
  BY DEF IInv
<1> QED
  BY <1>1, OperationInvariance, PTL

(* finalize: the DML of an operation is in the target exactly when its     *)
(* receipt is, and exactly once, for every interleaving of retries, lost   *)
(* acknowledgements and crashes.                                           *)
THEOREM ExactlyOnceEffect == Spec => []ReceiptMeansEffect
<1>1. IInv => ReceiptMeansEffect
  BY DEF IInv
<1> QED
  BY <1>1, OperationInvariance, PTL

(* The locks of assert_current: an open finalizer keeps its generation,    *)
(* epoch and owner until its transaction ends, whether or not its lease    *)
(* runs out meanwhile; the second check of the finalizer, which ignores    *)
(* the expiry, accepts it.                                                 *)
THEOREM OpenOwnerIsStable == Spec => []LocksKeepOwner
<1>1. IInv => LocksKeepOwner
  BY DEF IInv
<1> QED
  BY <1>1, OperationInvariance, PTL

(* The except branch of finalize: a failure that is reported as such has   *)
(* left nothing in the target and nothing under way on the server.         *)
THEOREM HonestFailure == Spec => []FailureMeansNotWritten
<1>1. IInv => FailureMeansNotWritten
  BY DEF IInv, TypeOK, Positions, FailureMeansNotWritten
<1> QED
  BY <1>1, OperationInvariance, PTL

-----------------------------------------------------------------------------
(* What a step that is not a commit leaves alone. *)
LEMMA NonCommitStep ==
    ASSUME IInv, [Next]_vars, ~\E w \in Workers : ServerCommits(w)
    PROVE  /\ UNCHANGED <<effects, newest, wrote>>
           /\ \/ UNCHANGED pc
              \/ \E w \in Workers, label \in WorkerState :
                   pc' = [pc EXCEPT ![w] = label]
                   /\ pc[w] \notin {"replayed", "committed"}
<1> USE DEF Goto, target, catalog, WorkerState
<1>1. ASSUME NEW w \in Workers, WorkerStep(w) PROVE
        /\ UNCHANGED <<effects, newest, wrote>>
        /\ UNCHANGED pc \/ \E label \in WorkerState :
             pc' = [pc EXCEPT ![w] = label]
             /\ pc[w] \notin {"replayed", "committed"}
  <2>1. CASE ReplayProbe(w) \/ Allocate(w) \/ AllocateProbe(w)
             \/ SupersededProbe(w) \/ Claim(w) \/ ClaimProbe(w)
    BY <2>1 DEF ReplayProbe, Allocate, AllocateProbe, SupersededProbe, Claim,
                ClaimProbe, Allocated, Admit
  <2>2. CASE Extracted(w) \/ Open(w) \/ OpenRefused(w) \/ SendCommit(w)
             \/ CommitAcknowledged(w) \/ ReceiptProbe(w) \/ StopHeartbeat(w)
    BY <2>2 DEF Extracted, Open, OpenRefused, SendCommit, CommitAcknowledged,
                ReceiptProbe, StopHeartbeat
  <2> QED
    BY <1>1, <2>1, <2>2 DEF WorkerStep
<1>2. ASSUME NEW w \in Workers, Fault(w) PROVE
        /\ UNCHANGED <<effects, newest, wrote>>
        /\ UNCHANGED pc \/ \E label \in WorkerState :
             pc' = [pc EXCEPT ![w] = label]
             /\ pc[w] \notin {"replayed", "committed"}
  BY <1>2 DEF Fault, AllocateLost, ClaimLost, HeartbeatError, LoadFails,
              Rollback, CommitRaises, Crash, Final
<1>3. ASSUME NEW w \in Workers, ServerAborts(w) \/ Renew(w)
      PROVE  UNCHANGED <<effects, newest, wrote, pc>>
  BY <1>3 DEF ServerAborts, Renew
<1>4. CASE Tick \/ UNCHANGED vars
  BY <1>4 DEF Tick, vars
<1> QED
  BY <1>1, <1>2, <1>3, <1>4 DEF Next, Done, ServerStep

(* The target fence: at the moment a transaction becomes durable its       *)
(* invocation is the current generation.                                   *)
THEOREM CurrentGenerationWrites == Spec => SupersededNeverWrites
<1>1. IInv /\ [Next]_vars => [wrote' # wrote => newest' = fence.generation]_vars
  <2> SUFFICES ASSUME IInv, [Next]_vars, wrote' # wrote
               PROVE  newest' = fence.generation
    OBVIOUS
  <2>1. PICK w \in Workers : ServerCommits(w)
    BY NonCommitStep
  <2> QED
    BY <2>1, TypeStep, CommitStep DEF IInv
<1> QED
  BY <1>1, OperationInvariance, PTL DEF Spec, SupersededNeverWrites

(* A commit applies an operation; another step reports at most one.        *)
LEMMA TransactionContractStep ==
    ASSUME IInv, [Next]_vars
    PROVE  [Contract!Next]_(Contract!vars)
<1> USE DEF Contract!Next, Contract!vars
<1> DEFINE Success == {"replayed", "committed"}
<1>0. IInv' /\ TypeOK'
  BY StepIInv DEF IInv
<1>1. ASSUME NEW w \in Workers, ServerCommits(w)
      PROVE  Contract!Apply(Op(w))
  <2>1. UNCHANGED pc
    BY <1>1 DEF ServerCommits
  <2> QED
    BY <1>0, <1>1, <2>1, CommitStep DEF Contract!Apply
<1>2. CASE UNCHANGED <<effects, pc>>
  BY <1>2
<1>3. ASSUME UNCHANGED effects, NEW w \in Workers, NEW label \in WorkerState,
             pc' = [pc EXCEPT ![w] = label], pc[w] \notin Success
      PROVE  [Contract!Next]_(Contract!vars)
  <2>1. \A v \in Workers : pc'[v] = IF v = w THEN label ELSE pc[v]
    BY <1>3 DEF IInv, TypeOK
  <2>2. CASE label \notin Success
    <3>1. \A v \in Workers : pc'[v] \in Success <=> pc[v] \in Success
      BY <1>3, <2>1, <2>2
    <3>2. {v \in Workers : pc'[v] \in Success} = {v \in Workers : pc[v] \in Success}
      BY <3>1
    <3> QED
      BY <1>3, <3>2
  <2>3. CASE label \in Success
    <3>1. effects[Op(w)] = 1
      BY <1>0, <1>3, <2>1, <2>3, OpType
      DEF IInv, SuccessHasReceipt, ReceiptMeansEffect
    <3>2. {v \in Workers : pc'[v] \in Success} =
             {v \in Workers : pc[v] \in Success} \cup {w}
      BY <1>3, <2>1, <2>3
    <3>3. Contract!Report(w)
      BY <1>3, <3>1, <3>2 DEF Contract!Report
    <3> QED
      BY <3>3
  <2> QED
    BY <2>2, <2>3
<1> QED
  BY <1>1, <1>2, <1>3, NonCommitStep, OpType

(* The transaction governance implements TransactionContract: every        *)
(* operation is applied at most once, and success is reported only for an  *)
(* operation that has been applied.                                        *)
THEOREM TransactionRefinement == Spec => KeepsContract
<1>1. Init => Contract!Init
  BY DEF Init, Contract!Init
<1>2. IInv /\ [Next]_vars => [Contract!Next]_(Contract!vars)
  BY TransactionContractStep
<1> QED
  BY <1>1, <1>2, OperationInvariance, PTL DEF Spec, KeepsContract, Contract!Spec
=============================================================================
