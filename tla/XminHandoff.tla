----------------------------- MODULE XminHandoff -----------------------------
(***************************************************************************)
(* Replication of one PostgreSQL table into one SQL Server target by row   *)
(* transaction ids: an initial backfill campaign that hands over to        *)
(* incremental runs (PostgresXminInitialHandoffLifecycle,                  *)
(* MssqlXminHandoffCommitter), the incremental runs themselves             *)
(* (PostgresSnapshotEnvelopeExtractor, MssqlSnapshotTransaction) and the   *)
(* checkpoint row with its revision and receipts                           *)
(* (checkpoint_cas_sql).                                                   *)
(*                                                                         *)
(* A transaction id is assigned when a source transaction starts to write  *)
(* and says nothing about when it commits: a row may be overwritten by a   *)
(* smaller id.  What a snapshot gives is U, below which every transaction  *)
(* has ended, and H, above which none is visible.  The checkpoint is a U.  *)
(*                                                                         *)
(* One key is one chunk of the campaign.  A version of a row is the id     *)
(* that wrote it; 0 is no row, in the target a soft-deleted one.  The      *)
(* target lock, held from the start of a transaction to its end, leaves at *)
(* most one transaction open on the target, and that one is txn.           *)
(***************************************************************************)
EXTENDS Naturals, Sequences, FiniteSets

CONSTANTS
    Keys,       \* primary keys of the table
    Runs,       \* incremental runs, each with its own load_id
    FirstXid,   \* the id of the first source transaction
    MaxXid,     \* bound: the last one
    EpochSize,  \* ids of one epoch (2^32): a row shows its id modulo this
    MaxFaults   \* bound on crashes and lost acknowledgements

Seed == "seed"
NoTxn == [load |-> "none"]

ASSUME XminAssumption ==
    /\ IsFiniteSet(Runs) /\ Seed \notin Runs /\ NoTxn.load \notin Runs
    /\ FirstXid \in Nat \ {0, 1}
    /\ MaxXid \in Nat /\ FirstXid <= MaxXid + 1
    /\ EpochSize \in Nat \ {0}
    /\ MaxFaults \in Nat

VARIABLES
    nextXid,    \* the next transaction id of the source
    latest,     \* the largest id of an ended transaction
    active,     \* ids of open source transactions
    history,    \* the committed contents of the table, commit by commit
    step,       \* where the campaign's process stands
    captured,   \* its anchor, not yet saved
    record,     \* the ledger's BackfillXminHandoffRecord
    loaded,     \* chunks the ledger has as SUCCESS
    shadow,     \* the shadow table
    published,  \* the publication phase is "published"
    target,     \* the target table
    checkpoint, \* the checkpoint row
    receipts,   \* load_id -> candidate_xmin of the committed receipt
    txn,        \* the transaction open on the target
    pc,         \* pc[r]: where run r stands
    prev,       \* prev[r]: the checkpoint r has read
    snap,       \* snap[r]: r's repeatable-read snapshot
    faults      \* faults injected so far

sourceVars == <<nextXid, latest, active, history>>
ledgerVars == <<record, loaded, published>>
runVars == <<pc, prev, snap>>
storeVars == <<target, checkpoint, receipts, txn>>
vars == <<nextXid, latest, active, history, step, captured, record, loaded,
          shadow, published, target, checkpoint, receipts, txn, pc, prev,
          snap, faults>>

NoRow == [k \in Keys |-> 0]
NoCheckpoint == [xmin |-> 0, revision |-> 0]
NoSnapshot == [at |-> 0, u |-> 0, h |-> 0]

Rows == history[Len(history)]
Fault == faults < MaxFaults /\ faults' = faults + 1

Init ==
    /\ nextXid = FirstXid /\ latest = FirstXid - 1
    /\ active = {}
    /\ \E full \in SUBSET Keys :
          history = << [k \in Keys |-> IF k \in full THEN FirstXid - 1
                                                     ELSE 0] >>
    /\ step = "down" /\ captured = 0
    /\ record = [status |-> "none", anchor |-> 0]
    /\ loaded = {} /\ published = FALSE
    /\ shadow = NoRow /\ target = NoRow
    /\ checkpoint = NoCheckpoint
    /\ receipts = [l \in Runs \cup {Seed} |-> 0]
    /\ txn = NoTxn
    /\ pc = [r \in Runs |-> "idle"]
    /\ prev = [r \in Runs |-> NoCheckpoint]
    /\ snap = [r \in Runs |-> NoSnapshot]
    /\ faults = 0

-----------------------------------------------------------------------------
(* The source database *)

Least(S) == CHOOSE x \in S : \A y \in S : x <= y

(* Mutant of VisibleHorizon: one id too far. *)
VisibleHorizonBeyond == latest + 2

(* txid_snapshot_xmax and txid_snapshot_xmin of a snapshot taken now. *)
VisibleHorizon == latest + 1
SnapshotXmin ==
    Least({x \in active : x < VisibleHorizon} \cup {VisibleHorizon})

BeginWrite ==
    /\ nextXid <= MaxXid
    /\ active' = active \cup {nextXid}
    /\ nextXid' = nextXid + 1
    /\ UNCHANGED <<latest, history, step, captured, ledgerVars, shadow,
                   storeVars, runVars, faults>>

(* A transaction commits one row version, a deletion, or rolls back. *)
EndWrite(x) ==
    /\ x \in active
    /\ active' = active \ {x}
    /\ latest' = IF x > latest THEN x ELSE latest
    /\ \/ \E k \in Keys, v \in {x, 0} :
             /\ Rows[k] # v
             /\ history' = Append(history, [Rows EXCEPT ![k] = v])
       \/ UNCHANGED history
    /\ UNCHANGED <<nextXid, step, captured, ledgerVars, shadow, storeVars,
                   runVars, faults>>

-----------------------------------------------------------------------------
(* The campaign: anchor, chunks, publication, seed *)

CampaignMoves(from, to) == step = from /\ step' = to

(* An operator or a scheduler starts the campaign, again if need be. *)
Start ==
    /\ CampaignMoves("down", "prepare")
    /\ UNCHANGED <<sourceVars, captured, ledgerVars, shadow, storeVars,
                   runVars, faults>>

(* before_chunks without a record: the anchor is captured... *)
CaptureAnchor ==
    /\ CampaignMoves("prepare", "save")
    /\ record.status = "none"
    /\ captured' = SnapshotXmin
    /\ UNCHANGED <<sourceVars, ledgerVars, shadow, storeVars, runVars, faults>>

(* Mutant of Seeded: a checkpoint that has moved on is a conflict. *)
SeededExactly ==
    /\ receipts[Seed] # 0
    /\ checkpoint.xmin = record.anchor /\ receipts[Seed] = record.anchor

(* probe_seed finds the receipt of exactly this anchor, and a checkpoint   *)
(* that has not fallen behind it.                                          *)
Seeded ==
    /\ receipts[Seed] # 0
    /\ receipts[Seed] = record.anchor
    /\ checkpoint.xmin >= record.anchor

Unseeded == receipts[Seed] = 0 /\ checkpoint = NoCheckpoint

(* ... and saved before any chunk is selected, if nothing is seeded yet. *)
SaveAnchor ==
    /\ CampaignMoves("save", "load")
    /\ Unseeded
    /\ record' = [status |-> "anchored", anchor |-> captured]
    /\ captured' = 0
    /\ UNCHANGED <<sourceVars, loaded, published, shadow, storeVars, runVars,
                   faults>>

(* Mutant of Resume: an unfinished campaign is anchored anew. *)
ResumeAnew ==
    /\ CampaignMoves("prepare", "load")
    /\ record.status # "none"
    /\ record' = IF Seeded THEN [record EXCEPT !.status = "committed"]
                 ELSE [record EXCEPT !.anchor = SnapshotXmin]
    /\ UNCHANGED <<sourceVars, captured, loaded, published, shadow, storeVars,
                   runVars, faults>>

(* before_chunks with a record: the saved anchor stays; a seed committed   *)
(* by an earlier invocation is adopted.                                    *)
Resume ==
    /\ CampaignMoves("prepare", "load")
    /\ record.status # "none"
    /\ \/ Seeded /\ record' = [record EXCEPT !.status = "committed"]
       \/ Unseeded /\ record.status # "committed" /\ UNCHANGED record
    /\ UNCHANGED <<sourceVars, captured, loaded, published, shadow, storeVars,
                   runVars, faults>>

(* A chunk reads its rows in a snapshot of its own. *)
LoadChunk(k) ==
    /\ step = "load" /\ k \notin loaded
    /\ shadow' = [shadow EXCEPT ![k] = Rows[k]]
    /\ loaded' = loaded \cup {k}
    /\ UNCHANGED <<sourceVars, step, captured, record, published, storeVars,
                   runVars, faults>>

(* The swap, the first time: the shadow table becomes the target. *)
Publish ==
    /\ CampaignMoves("load", "after")
    /\ loaded = Keys
    /\ published' = TRUE
    /\ IF published THEN UNCHANGED <<target, shadow>>
                    ELSE target' = shadow /\ shadow' = NoRow
    /\ UNCHANGED <<sourceVars, captured, record, loaded, checkpoint, receipts,
                   txn, runVars, faults>>

(* after_chunks: the seed is there, or "committing" is saved first. *)
AfterChunks ==
    /\ published
    /\ \/ /\ Seeded
          /\ CampaignMoves("after", "done")
          /\ record' = [record EXCEPT !.status = "committed"]
       \/ /\ Unseeded
          /\ CampaignMoves("after", "seed")
          /\ record' = [record EXCEPT !.status = "committing"]
    /\ UNCHANGED <<sourceVars, captured, loaded, published, shadow, storeVars,
                   runVars, faults>>

(* commit_seed probes once more, now that the first write is saved. *)
SeedProbe ==
    /\ \/ Seeded /\ CampaignMoves("seed", "finish")
       \/ Unseeded /\ CampaignMoves("seed", "lock")
    /\ UNCHANGED <<sourceVars, captured, ledgerVars, shadow, storeVars,
                   runVars, faults>>

(* Under the target lock the row is inserted only where there is none: a   *)
(* seed in doubt that has committed in the meantime makes this one fail.   *)
SeedOpen ==
    /\ txn = NoTxn
    /\ \/ /\ Unseeded
          /\ CampaignMoves("lock", "sent")
          /\ txn' = [load |-> Seed, xmin |-> record.anchor, revision |-> 1,
                     rows |-> target]
       \/ /\ ~Unseeded
          /\ CampaignMoves("lock", "down")
          /\ UNCHANGED txn
    /\ UNCHANGED <<sourceVars, captured, ledgerVars, shadow, target,
                   checkpoint, receipts, runVars, faults>>

SeedAcknowledged ==
    /\ CampaignMoves("sent", "finish")
    /\ txn.load # Seed /\ receipts[Seed] # 0
    /\ UNCHANGED <<sourceVars, captured, ledgerVars, shadow, storeVars,
                   runVars, faults>>

(* COMMIT raises: because the transaction is gone, or with its outcome     *)
(* still open.  A fresh session looks for the receipt.                     *)
SeedRaises ==
    /\ step = "sent"
    /\ IF txn.load # Seed /\ receipts[Seed] = 0 THEN UNCHANGED faults
                                                ELSE Fault
    /\ step' = IF Seeded THEN "finish" ELSE "down"
    /\ UNCHANGED <<sourceVars, captured, ledgerVars, shadow, storeVars,
                   runVars>>

Finish ==
    /\ CampaignMoves("finish", "done")
    /\ record' = [record EXCEPT !.status = "committed"]
    /\ UNCHANGED <<sourceVars, captured, loaded, published, shadow, storeVars,
                   runVars, faults>>

(* The process dies; a transaction it had open is left to the server. *)
Crash ==
    /\ step \notin {"down", "done"}
    /\ Fault
    /\ step' = "down" /\ captured' = 0
    /\ UNCHANGED <<sourceVars, ledgerVars, shadow, storeVars, runVars>>

-----------------------------------------------------------------------------
(* The incremental runs *)

RunMoves(r, from, to) == pc[r] = from /\ pc' = [pc EXCEPT ![r] = to]

(* The run's process ends and what it had read is gone. *)
RunEnds(r, from, to) ==
    /\ RunMoves(r, from, to)
    /\ prev' = [prev EXCEPT ![r] = NoCheckpoint]
    /\ snap' = [snap EXCEPT ![r] = NoSnapshot]

(* get_state: require_committed_xmin_handoff admits a run only behind the  *)
(* seed's receipt.                                                         *)
GetState(r) ==
    /\ RunMoves(r, "idle", "admitted")
    /\ receipts[Seed] # 0
    /\ checkpoint.revision >= 1 /\ checkpoint.xmin >= receipts[Seed]
    /\ prev' = [prev EXCEPT ![r] = checkpoint]
    /\ UNCHANGED <<sourceVars, step, captured, ledgerVars, shadow, storeVars,
                   snap, faults>>

Epoch(x) == x \div EpochSize
Low(x) == x % EpochSize

(* One repeatable-read snapshot gives U, H, the delta and the keys.  A U   *)
(* in another epoch than the checkpoint is refused, and so is everything   *)
(* the horizon and amplification checks find.                              *)
Extract(r) ==
    /\ \/ /\ RunMoves(r, "admitted", "extracted")
          /\ Epoch(SnapshotXmin) = Epoch(prev[r].xmin)
          /\ snap' = [snap EXCEPT ![r] = [at |-> Len(history),
                                          u |-> SnapshotXmin,
                                          h |-> VisibleHorizon]]
          /\ UNCHANGED prev
       \/ RunEnds(r, "admitted", "failed")
    /\ UNCHANGED <<sourceVars, step, captured, ledgerVars, shadow, storeVars,
                   faults>>

(* Mutant of InWindow: the horizon's epoch is not considered. *)
InWindowOneEpoch(v, from, to) == Low(v) >= Low(from) /\ Low(v) < Low(to)

(* build_incremental_query on what the row shows of its id. *)
InWindow(v, from, to) ==
    CASE Epoch(to) = Epoch(from) -> Low(v) >= Low(from) /\ Low(v) < Low(to)
      [] Epoch(to) = Epoch(from) + 1 -> Low(v) >= Low(from) \/ Low(v) < Low(to)
      [] OTHER -> TRUE

(* Upsert of the delta, soft delete of every key the snapshot lacks. *)
Reconciled(r) ==
    LET rows == history[snap[r].at] IN
    [k \in Keys |-> IF rows[k] = 0 THEN 0
                    ELSE IF InWindow(rows[k], prev[r].xmin, snap[r].h)
                    THEN rows[k]
                    ELSE target[k]]

(* Mutant of CompareAndSet: equal checkpoints count as unchanged. *)
CompareXmin(r) == prev[r].xmin = checkpoint.xmin

(* checkpoint_cas_sql *)
CompareAndSet(r) ==
    /\ prev[r] = checkpoint
    /\ snap[r].u >= checkpoint.xmin

(* assert_key_parity: the target has exactly the snapshot's keys. *)
KeyParity(r) ==
    \A k \in Keys : (Reconciled(r)[k] = 0) = (history[snap[r].at][k] = 0)

(* MssqlSnapshotTransaction.finalize up to COMMIT; any failure rolls back. *)
Finalize(r) ==
    /\ txn = NoTxn
    /\ \/ /\ RunMoves(r, "extracted", "sent")
          /\ CompareAndSet(r) /\ KeyParity(r)
          /\ txn' = [load |-> r, xmin |-> snap[r].u,
                     revision |-> prev[r].revision + 1,
                     rows |-> Reconciled(r)]
          /\ UNCHANGED <<prev, snap>>
       \/ /\ RunEnds(r, "extracted", "failed")
          /\ UNCHANGED txn
    /\ UNCHANGED <<sourceVars, step, captured, ledgerVars, shadow, target,
                   checkpoint, receipts, faults>>

Acknowledged(r) ==
    /\ RunEnds(r, "sent", "done")
    /\ txn.load # r /\ receipts[r] # 0
    /\ UNCHANGED <<sourceVars, step, captured, ledgerVars, shadow, storeVars,
                   faults>>

(* Mutant of CommitRaises: a failed COMMIT is reported as a failure. *)
CommitRaisesFailed(r) ==
    /\ IF txn.load # r /\ receipts[r] = 0 THEN UNCHANGED faults ELSE Fault
    /\ RunEnds(r, "sent", "failed")
    /\ UNCHANGED <<sourceVars, step, captured, ledgerVars, shadow, storeVars>>

(* _probe_commit: the exact receipt, or the outcome is unknown. *)
CommitRaises(r) ==
    /\ IF txn.load # r /\ receipts[r] = 0 THEN UNCHANGED faults ELSE Fault
    /\ RunEnds(r, "sent", IF receipts[r] = snap[r].u THEN "done"
                                                     ELSE "unknown")
    /\ UNCHANGED <<sourceVars, step, captured, ledgerVars, shadow, storeVars>>

-----------------------------------------------------------------------------
(* SQL Server: rows, checkpoint and receipt become durable together *)

ServerCommits ==
    /\ txn # NoTxn
    /\ target' = txn.rows
    /\ checkpoint' = [xmin |-> txn.xmin, revision |-> txn.revision]
    /\ receipts' = [receipts EXCEPT ![txn.load] = txn.xmin]
    /\ txn' = NoTxn
    /\ UNCHANGED <<sourceVars, step, captured, ledgerVars, shadow, runVars,
                   faults>>

ServerAborts ==
    /\ txn # NoTxn
    /\ Fault
    /\ txn' = NoTxn
    /\ UNCHANGED <<sourceVars, step, captured, ledgerVars, shadow, target,
                   checkpoint, receipts, runVars>>

-----------------------------------------------------------------------------
Source == BeginWrite \/ \E x \in active : EndWrite(x)

CampaignStep ==
    \/ CaptureAnchor \/ SaveAnchor \/ Resume
    \/ \E k \in Keys : LoadChunk(k)
    \/ Publish \/ AfterChunks
    \/ SeedProbe \/ SeedOpen \/ SeedAcknowledged \/ SeedRaises \/ Finish

RunStep(r) ==
    \/ GetState(r) \/ Extract(r) \/ Finalize(r)
    \/ Acknowledged(r) \/ CommitRaises(r)

Next ==
    \/ Source
    \/ Start \/ CampaignStep \/ Crash
    \/ \E r \in Runs : RunStep(r)
    \/ ServerCommits \/ ServerAborts

(* The server ends what is sent to it, the campaign's process goes on      *)
(* unless it crashes, and somebody starts a campaign that is down again.   *)
Fairness == WF_vars(ServerCommits) /\ WF_vars(CampaignStep) /\ WF_vars(Start)

Spec == Init /\ [][Next]_vars /\ Fairness

-----------------------------------------------------------------------------
(* Properties *)

Xids == 0 .. MaxXid + 1
Checkpoints == [xmin : Xids, revision : 0 .. Cardinality(Runs) + 1]

(* The type invariant; no id above the source's last one is ever recorded. *)
TypeOK ==
    /\ nextXid \in Xids /\ latest \in Xids
    /\ active \subseteq Xids
    /\ history \in Seq([Keys -> Xids])
    /\ step \in {"down", "prepare", "save", "load", "after", "seed", "lock",
                 "sent", "finish", "done"}
    /\ captured \in Xids
    /\ record \in [status : {"none", "anchored", "committing", "committed"},
                   anchor : Xids]
    /\ loaded \subseteq Keys /\ published \in BOOLEAN
    /\ shadow \in [Keys -> Xids] /\ target \in [Keys -> Xids]
    /\ checkpoint \in Checkpoints
    /\ receipts \in [Runs \cup {Seed} -> Xids]
    /\ txn = NoTxn \/ txn \in [load : Runs \cup {Seed}, xmin : Xids,
                               revision : 1 .. Cardinality(Runs) + 1,
                               rows : [Keys -> Xids]]
    /\ pc \in [Runs -> {"idle", "admitted", "extracted", "sent", "done",
                        "failed", "unknown"}]
    /\ prev \in [Runs -> Checkpoints]
    /\ snap \in [Runs -> [at : Nat, u : Xids, h : Xids]]
    /\ faults \in 0 .. MaxFaults

(* Anchor before chunks, and U rather than H as checkpoint: once seeded,   *)
(* every row of the source is in the target in its current version, or its *)
(* id is one the next run will read.  No committed change falls between    *)
(* the backfill and the runs, or between two runs, also when a transaction *)
(* with a small id commits late.                                           *)
NoChangeIsLost ==
    checkpoint.revision > 0 =>
        \A k \in Keys : \/ Rows[k] = 0
                        \/ target[k] = Rows[k]
                        \/ Rows[k] >= checkpoint.xmin

(* Delta and complete key image come from one snapshot, and what the delta *)
(* leaves out is already in the target: what an incremental run commits is *)
(* the source table of its snapshot, row by row, although the backfill     *)
(* before it was a mixture of many moments, rows show only the low part of *)
(* their ids, and ids commit out of order.                                 *)
RunsCommitTheirSnapshot ==
    \A r \in Runs :
        pc[r] = "sent" /\ txn.load = r => txn.rows = history[snap[r].at]

(* The revision in the compare-and-set: a run with an older snapshot never *)
(* overwrites the rows of a newer one, not even when both saw the same     *)
(* safe xmin.                                                              *)
TargetNeverGoesBack ==
    [][checkpoint.revision > 1 /\ target' # target =>
          \E i, j \in 1 .. Len(history) :
              i <= j /\ target = history[i] /\ target' = history[j]]_vars

(* commit_attempted: a run that reports failure has committed nothing and  *)
(* never will; one that reports success has its receipt.                   *)
OutcomeIsHonest ==
    \A r \in Runs :
        /\ pc[r] = "failed" => receipts[r] = 0 /\ txn.load # r
        /\ pc[r] = "done" => receipts[r] # 0

(* An anchored campaign that is started again whenever it went down is     *)
(* seeded and recorded in the end, although the seed's commit may be in    *)
(* doubt and runs may have moved the checkpoint on in between.             *)
HandoffCompletes == record.status = "anchored" ~> record.status = "committed"
=============================================================================
