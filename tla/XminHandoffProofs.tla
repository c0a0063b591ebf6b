------------------------- MODULE XminHandoffProofs -------------------------
(***************************************************************************)
(* Proofs about the handoff from the initial backfill to the incremental   *)
(* runs, for every number of keys, runs, transactions and faults and every *)
(* epoch size.                                                             *)
(*                                                                         *)
(* The argument has one idea.  A transaction id u is passed when no source *)
(* transaction below u is open and none will be opened.  Every anchor,     *)
(* every safe xmin and every checkpoint is passed from the moment it is    *)
(* read, so whatever is committed later has a larger id.  A table image    *)
(* that agreed with the source when u was read therefore agrees with it    *)
(* for ever, except for rows with ids from u on, which the next run reads. *)
(***************************************************************************)
EXTENDS XminHandoff, FiniteSetTheorems, WellFoundedInduction,
        SequenceTheorems, TLAPS

(* No id below u is open, and none will be handed out. *)
Passed(u) ==
    /\ u \in 1 .. nextXid
    /\ \A x \in active : x >= u

(* rows agrees with the source on every key of S, but for ids from u on. *)
Covers(rows, S, u) ==
    \A k \in S : Rows[k] = 0 \/ rows[k] = Rows[k] \/ Rows[k] >= u

(* Ids are handed out in order, and only ended transactions are visible. *)
SourceInv ==
    /\ nextXid >= FirstXid
    /\ latest + 1 \in FirstXid .. nextXid
    /\ active \subseteq FirstXid .. (nextXid - 1)
    /\ history # <<>>
    /\ \A k \in Keys : Rows[k] <= latest

(* The campaign: the anchor is saved before a chunk is loaded, and nothing *)
(* is published or seeded before every chunk is.                           *)
CampaignInv ==
    /\ step = "save" => record.status = "none" /\ Passed(captured)
    /\ step \in {"load", "after", "seed", "lock", "sent", "finish", "done"}
          => record.status # "none"
    /\ step \in {"after", "seed", "lock", "sent", "finish", "done"}
          => published
    /\ record.status = "none" => loaded = {} /\ ~published
    /\ record.status # "none" => Passed(record.anchor)
    /\ ~published => /\ checkpoint = NoCheckpoint /\ txn = NoTxn
                     /\ Covers(shadow, loaded, record.anchor)
    /\ published /\ checkpoint.revision = 0
          => Covers(target, Keys, record.anchor)

(* The runs: what each has read and what it may commit. *)
RunInv ==
    \A r \in Runs :
        /\ pc[r] \in {"idle", "admitted", "extracted", "failed"}
              => receipts[r] = 0 /\ txn.load # r
        /\ pc[r] = "done" => receipts[r] # 0
        /\ pc[r] \in {"admitted", "extracted"}
              => prev[r].revision \in 1 .. checkpoint.revision
        /\ pc[r] \in {"extracted", "sent"} =>
              /\ snap[r].at \in 1 .. Len(history)
              /\ Passed(snap[r].u)
              /\ Covers(history[snap[r].at], Keys, snap[r].u)
              /\ \A k \in Keys : history[snap[r].at][k] < snap[r].h

(* A snapshot is compared with the target only as long as the checkpoint   *)
(* is the one its run has read: then the target lacks nothing that is      *)
(* below the checkpoint, and shows an earlier snapshot, if any.            *)
SnapshotInv ==
    \A r \in Runs : pc[r] = "extracted" /\ prev[r] = checkpoint =>
        /\ \A k \in Keys : \/ history[snap[r].at][k] = 0
                           \/ target[k] = history[snap[r].at][k]
                           \/ history[snap[r].at][k] >= checkpoint.xmin
        /\ checkpoint.revision > 1 =>
              \E i \in 1 .. snap[r].at : target = history[i]

(* The transaction open on the target is the only one that can change it.  *)
TxnInv ==
    txn # NoTxn =>
        /\ receipts[txn.load] = 0
        /\ txn.revision = checkpoint.revision + 1
        /\ Passed(txn.xmin)
        /\ Covers(txn.rows, Keys, txn.xmin)
        /\ txn.load = Seed => checkpoint.revision = 0 /\ txn.rows = target
        /\ txn.load \in Runs => \E j \in 1 .. Len(history) :
              /\ txn.rows = history[j]
              /\ pc[txn.load] = "sent" => j = snap[txn.load].at
              /\ checkpoint.revision > 1 =>
                    \E i \in 1 .. j : target = history[i]

(* The load_ids whose receipt is committed. *)
Receipted == {l \in Runs \cup {Seed} : receipts[l] # 0}

(* The checkpoint row counts the receipts and has lost no change. *)
StoreInv ==
    /\ checkpoint.revision = Cardinality(Receipted)
    /\ checkpoint.revision > 0 =>
          Passed(checkpoint.xmin) /\ Covers(target, Keys, checkpoint.xmin)
    /\ checkpoint.revision > 1 =>
          \E i \in 1 .. Len(history) : target = history[i]

Inv == /\ TypeOK /\ SourceInv /\ CampaignInv /\ RunInv /\ SnapshotInv
       /\ TxnInv /\ StoreInv
-----------------------------------------------------------------------------
(* Lemmas about the operators *)

(* Every set of ids but the empty one has a least member. *)
LEMMA LeastIs ==
    ASSUME NEW S \in SUBSET Nat, S # {}
    PROVE  Least(S) \in S /\ \A y \in S : Least(S) <= y
<1>1. PICK x \in S : \A y \in S : ~(<<y, x>> \in OpToRel(<, Nat))
  BY NatLessThanWellFounded, WFMin
<1>2. \A y \in S : ~(y < x)
  BY <1>1, Zenon DEF OpToRel
<1>3. \E m \in S : \A y \in S : m <= y
  BY <1>2, SMT
<1> QED BY <1>3 DEF Least

(* Epochs and low parts of ids, as division with remainder. *)
LEMMA EpochFacts ==
    ASSUME NEW x \in Nat
    PROVE  /\ Epoch(x) \in Nat /\ Low(x) \in 0 .. EpochSize - 1
           /\ x = EpochSize * Epoch(x) + Low(x)
BY XminAssumption DEF Epoch, Low

LEMMA EpochMonotonic ==
    ASSUME NEW x \in Nat, NEW y \in Nat, x <= y
    PROVE  /\ Epoch(x) <= Epoch(y)
           /\ Epoch(x) = Epoch(y) => Low(x) <= Low(y)
           /\ Epoch(x) = Epoch(y) /\ x < y => Low(x) < Low(y)
<1> DEFINE E == EpochSize  a == Epoch(x)  b == Epoch(y)
<1>1. /\ E \in Nat \ {0} /\ a \in Nat /\ b \in Nat
      /\ Low(x) \in 0 .. E - 1 /\ Low(y) \in 0 .. E - 1
      /\ x = E * a + Low(x) /\ y = E * b + Low(y)
  BY EpochFacts, XminAssumption
<1>2. a <= b
  <2> SUFFICES ASSUME b + 1 <= a PROVE FALSE
    BY <1>1
  <2>1. E * (b + 1) <= E * a
    BY <1>1
  <2>2. E * (b + 1) = E * b + E
    BY <1>1
  <2> QED BY <1>1, <2>1, <2>2
<1> QED BY <1>1, <1>2

(* build_incremental_query leaves out no row whose id lies between the     *)
(* checkpoint and the horizon, although it sees only the low parts.        *)
LEMMA WindowIsComplete ==
    ASSUME NEW v \in Nat, NEW from \in Nat, NEW to \in Nat,
           from <= v, v < to
    PROVE  InWindow(v, from, to)
<1>1. /\ Epoch(from) \in Nat /\ Epoch(v) \in Nat /\ Epoch(to) \in Nat
      /\ Low(from) \in Nat /\ Low(v) \in Nat /\ Low(to) \in Nat
  BY EpochFacts, XminAssumption
<1>2. Epoch(from) <= Epoch(v) /\ Epoch(v) <= Epoch(to)
  BY EpochMonotonic
<1>3. Epoch(from) = Epoch(v) => Low(from) <= Low(v)
  BY EpochMonotonic
<1>4. Epoch(v) = Epoch(to) => Low(v) < Low(to)
  BY EpochMonotonic
<1> QED BY <1>1, <1>2, <1>3, <1>4 DEF InWindow

(* A snapshot's safe xmin is passed, and no visible version is above its   *)
(* horizon.                                                                *)
LEMMA SnapshotFacts ==
    ASSUME TypeOK, SourceInv
    PROVE  /\ VisibleHorizon \in Xids /\ SnapshotXmin \in Xids
           /\ Passed(SnapshotXmin)
           /\ \A k \in Keys : Rows[k] < VisibleHorizon
<1> DEFINE S == {x \in active : x < VisibleHorizon} \cup {VisibleHorizon}
<1>1. /\ latest \in Nat /\ nextXid \in Nat /\ MaxXid \in Nat
      /\ FirstXid \in Nat \ {0, 1} /\ nextXid <= MaxXid + 1
  BY XminAssumption DEF TypeOK, Xids
<1>2. VisibleHorizon \in FirstXid .. nextXid
  BY <1>1 DEF SourceInv, VisibleHorizon
<1>3. active \subseteq FirstXid .. (nextXid - 1)
  BY DEF SourceInv
<1>4. S \subseteq FirstXid .. nextXid /\ S \in SUBSET Nat /\ S # {}
  <2>1. ASSUME NEW x \in S PROVE x \in FirstXid .. nextXid /\ x \in Nat
    BY <1>1, <1>2, <1>3
  <2>2. VisibleHorizon \in S
    OBVIOUS
  <2> QED BY <2>1, <2>2
<1>5. SnapshotXmin \in S /\ \A y \in S : SnapshotXmin <= y
  BY <1>4, LeastIs DEF SnapshotXmin
<1>6. Passed(SnapshotXmin)
  <2>1. SnapshotXmin \in 1 .. nextXid /\ SnapshotXmin <= VisibleHorizon
    BY <1>1, <1>4, <1>5
  <2>2. ASSUME NEW x \in active PROVE x >= SnapshotXmin
    BY <1>1, <1>2, <1>3, <1>5, <2>1
  <2> QED BY <2>1, <2>2 DEF Passed
<1>7. \A k \in Keys : Rows[k] < VisibleHorizon
  <2>1. history # <<>> /\ history \in Seq([Keys -> Xids])
    BY DEF SourceInv, TypeOK
  <2>2. Rows \in [Keys -> Xids]
    BY <2>1, EmptySeq, ElementOfSeq DEF Rows
  <2> QED BY <1>1, <2>2 DEF SourceInv, VisibleHorizon, Xids
<1> QED BY <1>1, <1>2, <1>4, <1>5, <1>6, <1>7 DEF Xids
(* What the history holds. *)
LEMMA HistoryFacts ==
    ASSUME TypeOK, SourceInv
    PROVE  /\ Len(history) \in Nat \ {0}
           /\ \A i \in 1 .. Len(history) : history[i] \in [Keys -> Xids]
           /\ Rows \in [Keys -> Xids]
<1>1. history # <<>> /\ history \in Seq([Keys -> Xids])
  BY DEF SourceInv, TypeOK
<1> QED BY <1>1, EmptySeq, ElementOfSeq DEF Rows

(* Receipts are counted: while one is missing, there is room for another. *)
LEMMA CountBound ==
    ASSUME NEW l \in Runs \cup {Seed}, receipts[l] = 0
    PROVE  /\ IsFiniteSet(Receipted) /\ Cardinality(Receipted) \in Nat
           /\ Cardinality(Runs) \in Nat
           /\ Cardinality(Receipted) <= Cardinality(Runs)
<1> DEFINE U == Runs \cup {Seed}
<1>1. IsFiniteSet(Runs) /\ Seed \notin Runs
  BY XminAssumption
<1>2. IsFiniteSet(U) /\ Cardinality(U) = Cardinality(Runs) + 1
  BY <1>1, FS_AddElement
<1>3. Cardinality(Runs) \in Nat
  BY <1>1, FS_CardinalityType
<1>4. IsFiniteSet(U \ {l}) /\ Cardinality(U \ {l}) = Cardinality(U) - 1
  BY <1>2, FS_RemoveElement
<1>5. Receipted \in SUBSET (U \ {l})
  BY DEF Receipted
<1>6. IsFiniteSet(Receipted) /\ Cardinality(Receipted) <= Cardinality(U \ {l})
  BY <1>4, <1>5, FS_Subset
<1>7. Cardinality(Receipted) \in Nat
  BY <1>6, FS_CardinalityType
<1> QED BY <1>2, <1>3, <1>4, <1>6, <1>7

-----------------------------------------------------------------------------
(* Type correctness *)

LEMMA SourceType ==
    ASSUME Inv, Source
    PROVE  TypeOK'
<1> USE DEF sourceVars, ledgerVars, runVars, storeVars
<1>1. CASE BeginWrite
  BY <1>1, XminAssumption DEF Inv, TypeOK, BeginWrite, Xids
<1>2. ASSUME NEW x \in active, EndWrite(x) PROVE TypeOK'
  <2>1. x \in Xids
    BY DEF Inv, TypeOK
  <2>2. history' \in Seq([Keys -> Xids])
    <3>1. CASE UNCHANGED history
      BY <3>1 DEF Inv, TypeOK
    <3>2. ASSUME NEW k \in Keys, NEW v \in {x, 0},
                 history' = Append(history, [Rows EXCEPT ![k] = v])
          PROVE  history' \in Seq([Keys -> Xids])
      <4>1. Rows \in [Keys -> Xids] /\ 0 \in Xids
        BY HistoryFacts, XminAssumption DEF Inv, Xids
      <4>2. [Rows EXCEPT ![k] = v] \in [Keys -> Xids]
        BY <2>1, <4>1
      <4> QED BY <3>2, <4>2, AppendProperties DEF Inv, TypeOK
    <3> QED BY <1>2, <3>1, <3>2 DEF EndWrite
  <2>3. latest' \in Xids /\ active' \subseteq Xids
    BY <1>2, <2>1 DEF Inv, TypeOK, EndWrite
  <2> QED BY <1>2, <2>2, <2>3 DEF Inv, TypeOK, EndWrite, Checkpoints
<1> QED BY <1>1, <1>2 DEF Source

LEMMA CampaignType ==
    ASSUME Inv, Start \/ CampaignStep \/ Crash
    PROVE  TypeOK'
<1> USE DEF sourceVars, ledgerVars, runVars, storeVars, CampaignMoves, Inv,
            TypeOK, Fault
<1>1. CASE Start
  BY <1>1 DEF Start
<1>2. CASE CaptureAnchor
  BY <1>2, SnapshotFacts DEF CaptureAnchor
<1>3. CASE SaveAnchor
  <2>1. 0 \in Xids
    BY XminAssumption DEF Xids
  <2> QED BY <1>3, <2>1 DEF SaveAnchor
<1>4. CASE Resume
  BY <1>4 DEF Resume
<1>5. ASSUME NEW k \in Keys, LoadChunk(k) PROVE TypeOK'
  BY <1>5, HistoryFacts DEF LoadChunk
<1>6. CASE Publish
  <2>1. NoRow \in [Keys -> Xids]
    BY XminAssumption DEF NoRow, Xids
  <2> QED BY <1>6, <2>1 DEF Publish
<1>7. CASE AfterChunks
  BY <1>7 DEF AfterChunks
<1>8. CASE SeedProbe
  BY <1>8 DEF SeedProbe
<1>9. CASE SeedOpen
  <2>1. Cardinality(Runs) \in Nat
    BY XminAssumption, FS_CardinalityType
  <2>2. [load |-> Seed, xmin |-> record.anchor, revision |-> 1, rows |-> target]
          \in [load : Runs \cup {Seed}, xmin : Xids,
               revision : 1 .. Cardinality(Runs) + 1, rows : [Keys -> Xids]]
    BY <2>1
  <2> QED BY <1>9, <2>2 DEF SeedOpen
<1>10. CASE SeedAcknowledged
  BY <1>10 DEF SeedAcknowledged
<1>11. CASE SeedRaises
  BY <1>11, XminAssumption DEF SeedRaises
<1>12. CASE Finish
  BY <1>12 DEF Finish
<1>13. CASE Crash
  <2>1. 0 \in Xids
    BY XminAssumption DEF Xids
  <2> QED BY <1>13, <2>1, XminAssumption DEF Crash
<1> QED BY <1>1, <1>2, <1>3, <1>4, <1>5, <1>6, <1>7, <1>8, <1>9, <1>10, <1>11,
           <1>12, <1>13 DEF CampaignStep

(* What a run would write is a table image. *)
LEMMA ReconciledType ==
    ASSUME Inv, NEW r \in Runs, pc[r] = "extracted"
    PROVE  Reconciled(r) \in [Keys -> Xids]
<1>1. history[snap[r].at] \in [Keys -> Xids]
  BY HistoryFacts DEF Inv, RunInv
<1>2. target \in [Keys -> Xids] /\ 0 \in Xids
  BY XminAssumption DEF Inv, TypeOK, Xids
<1> QED BY <1>1, <1>2 DEF Reconciled

LEMMA RunType ==
    ASSUME Inv, NEW r \in Runs, RunStep(r)
    PROVE  TypeOK'
<1> USE DEF sourceVars, ledgerVars, runVars, storeVars, RunMoves, Inv,
            TypeOK, Fault
<1>1. NoCheckpoint \in Checkpoints /\ NoSnapshot \in [at : Nat, u : Xids, h : Xids]
  <2>1. Cardinality(Runs) \in Nat /\ 0 \in Xids
    BY XminAssumption, FS_CardinalityType DEF Xids
  <2> QED BY <2>1 DEF NoCheckpoint, NoSnapshot, Checkpoints
<1>2. CASE GetState(r)
  BY <1>2 DEF GetState
<1>3. CASE Extract(r)
  <2>1. [at |-> Len(history), u |-> SnapshotXmin, h |-> VisibleHorizon]
          \in [at : Nat, u : Xids, h : Xids]
    BY HistoryFacts, SnapshotFacts
  <2>2. CASE /\ RunMoves(r, "admitted", "extracted") /\ UNCHANGED prev
             /\ snap' = [snap EXCEPT ![r] = [at |-> Len(history),
                                             u |-> SnapshotXmin,
                                             h |-> VisibleHorizon]]
    BY <1>3, <2>1, <2>2 DEF Extract
  <2>3. CASE RunEnds(r, "admitted", "failed")
    BY <1>1, <1>3, <2>3 DEF Extract, RunEnds
  <2> QED BY <1>3, <2>2, <2>3 DEF Extract
<1>4. CASE Finalize(r)
  <2>1. CASE RunEnds(r, "extracted", "failed") /\ UNCHANGED txn
    BY <1>1, <1>4, <2>1 DEF Finalize, RunEnds
  <2>2. CASE /\ RunMoves(r, "extracted", "sent")
             /\ CompareAndSet(r) /\ KeyParity(r)
             /\ txn' = [load |-> r, xmin |-> snap[r].u,
                        revision |-> prev[r].revision + 1,
                        rows |-> Reconciled(r)]
             /\ UNCHANGED <<prev, snap>>
    <3>1. receipts[r] = 0 /\ pc[r] = "extracted" /\ prev[r] = checkpoint
      BY <2>2 DEF RunInv, CompareAndSet
    <3>2. prev[r].revision + 1 \in 1 .. Cardinality(Runs) + 1
      BY <3>1, CountBound DEF StoreInv
    <3>3. txn' \in [load : Runs \cup {Seed}, xmin : Xids,
                    revision : 1 .. Cardinality(Runs) + 1,
                    rows : [Keys -> Xids]]
      BY <2>2, <3>1, <3>2, ReconciledType
    <3> QED BY <1>4, <2>2, <3>3 DEF Finalize
  <2> QED BY <1>4, <2>1, <2>2 DEF Finalize
<1>5. CASE Acknowledged(r)
  BY <1>1, <1>5 DEF Acknowledged, RunEnds
<1>6. CASE CommitRaises(r)
  BY <1>1, <1>6, XminAssumption DEF CommitRaises, RunEnds
<1> QED BY <1>2, <1>3, <1>4, <1>5, <1>6 DEF RunStep

LEMMA ServerType ==
    ASSUME Inv, ServerCommits \/ ServerAborts
    PROVE  TypeOK'
<1> USE DEF sourceVars, ledgerVars, runVars, storeVars, Inv, TypeOK, Fault
<1>1. CASE ServerCommits
  <2>1. txn \in [load : Runs \cup {Seed}, xmin : Xids,
                 revision : 1 .. Cardinality(Runs) + 1, rows : [Keys -> Xids]]
    BY <1>1 DEF ServerCommits
  <2>2. Cardinality(Runs) \in Nat
    BY XminAssumption, FS_CardinalityType
  <2>3. [xmin |-> txn.xmin, revision |-> txn.revision] \in Checkpoints
    BY <2>1, <2>2 DEF Checkpoints
  <2> QED BY <1>1, <2>1, <2>3 DEF ServerCommits
<1>2. CASE ServerAborts
  BY <1>2, XminAssumption DEF ServerAborts
<1> QED BY <1>1, <1>2

LEMMA TypeStep == Inv /\ [Next]_vars => TypeOK'
<1> SUFFICES ASSUME Inv, [Next]_vars PROVE TypeOK'
  OBVIOUS
<1>1. CASE UNCHANGED vars
  BY <1>1 DEF vars, Inv, TypeOK
<1> QED BY <1>1, SourceType, CampaignType, RunType, ServerType DEF Next

-----------------------------------------------------------------------------
(* The source moves on *)

(* A step of the source appends to the history, with an id that was open;  *)
(* ids that are passed stay passed.                                        *)
LEMMA SourceFacts ==
    ASSUME Inv, Source
    PROVE  /\ Len(history') \in Nat /\ Len(history') >= Len(history)
           /\ \A i \in 1 .. Len(history) : history'[i] = history[i]
           /\ \A k \in Keys : Rows'[k] \in {Rows[k], 0} \cup active
           /\ nextXid' \in Nat /\ nextXid' >= nextXid
           /\ active' \subseteq active \cup {nextXid}
           /\ SourceInv'
<1>0. /\ Len(history) \in Nat \ {0} /\ Rows \in [Keys -> Xids]
      /\ history \in Seq([Keys -> Xids]) /\ nextXid \in Nat /\ latest \in Nat
      /\ FirstXid \in Nat
  BY HistoryFacts, XminAssumption DEF Inv, TypeOK, Xids
<1>1. CASE BeginWrite
  <2>1. Rows' = Rows
    BY <1>1 DEF BeginWrite, Rows
  <2>2. SourceInv'
    BY <1>0, <1>1, <2>1 DEF BeginWrite, Inv, SourceInv
  <2> QED BY <1>0, <1>1, <2>1, <2>2 DEF BeginWrite
<1>2. ASSUME NEW x \in active, EndWrite(x)
      PROVE  /\ Len(history') \in Nat /\ Len(history') >= Len(history)
             /\ \A i \in 1 .. Len(history) : history'[i] = history[i]
             /\ \A k \in Keys : Rows'[k] \in {Rows[k], 0} \cup active
             /\ nextXid' \in Nat /\ nextXid' >= nextXid
             /\ active' \subseteq active \cup {nextXid}
             /\ SourceInv'
  <2>0. x \in FirstXid .. (nextXid - 1) /\ x \in Xids
    BY DEF Inv, SourceInv, TypeOK
  <2>1. CASE UNCHANGED history
    <3>1. Rows' = Rows
      BY <2>1 DEF Rows
    <3>2. latest' \in Nat /\ latest' >= latest /\ latest' < nextXid
      BY <1>0, <1>2, <2>0 DEF EndWrite, Inv, SourceInv
    <3>3. \A k \in Keys : Rows'[k] <= latest'
      BY <1>0, <3>1, <3>2 DEF Inv, SourceInv, Xids
    <3>4. SourceInv'
      BY <1>0, <1>2, <2>1, <3>2, <3>3 DEF EndWrite, Inv, SourceInv
    <3> QED BY <1>0, <1>2, <2>1, <3>1, <3>4 DEF EndWrite
  <2>2. ASSUME NEW k \in Keys, NEW v \in {x, 0},
               history' = Append(history, [Rows EXCEPT ![k] = v])
        PROVE  /\ Len(history') = Len(history) + 1
               /\ \A i \in 1 .. Len(history) : history'[i] = history[i]
               /\ \A j \in Keys : Rows'[j] \in {Rows[j], 0} \cup active
               /\ SourceInv'
    <3>1. [Rows EXCEPT ![k] = v] \in [Keys -> Xids]
      BY <1>0, <2>0, XminAssumption DEF Xids
    <3>2. /\ Len(history') = Len(history) + 1
          /\ \A i \in 1 .. Len(history) : history'[i] = history[i]
          /\ Rows' = [Rows EXCEPT ![k] = v]
          /\ history' # <<>>
      BY <1>0, <2>2, <3>1, AppendProperties DEF Rows
    <3>3. \A j \in Keys : Rows'[j] \in {Rows[j], 0, x}
      BY <1>0, <3>2
    <3>4. latest' \in Nat /\ latest' >= latest /\ latest' < nextXid
          /\ x <= latest'
      BY <1>0, <1>2, <2>0 DEF EndWrite, Inv, SourceInv
    <3>5. ASSUME NEW j \in Keys PROVE Rows'[j] <= latest'
      <4>1. Rows[j] \in Nat /\ Rows[j] <= latest
        BY <1>0 DEF Inv, SourceInv, Xids
      <4>2. Rows'[j] \in {Rows[j], 0, x}
        BY <3>3
      <4> QED BY <1>0, <3>4, <4>1, <4>2
    <3>6. SourceInv'
      BY <1>0, <1>2, <3>2, <3>4, <3>5 DEF EndWrite, Inv, SourceInv
    <3> QED BY <3>2, <3>3, <3>6
  <2>3. nextXid' = nextXid /\ active' \subseteq active
    BY <1>2 DEF EndWrite
  <2>4. CASE \E k \in Keys, v \in {x, 0} :
               history' = Append(history, [Rows EXCEPT ![k] = v])
    <3>1. PICK k \in Keys, v \in {x, 0} :
            history' = Append(history, [Rows EXCEPT ![k] = v])
      BY <2>4
    <3>2. /\ Len(history') = Len(history) + 1
          /\ \A i \in 1 .. Len(history) : history'[i] = history[i]
          /\ \A j \in Keys : Rows'[j] \in {Rows[j], 0} \cup active
          /\ SourceInv'
      BY <2>2, <3>1
    <3> QED BY <1>0, <2>3, <3>2
  <2> QED BY <1>2, <2>1, <2>4 DEF EndWrite
<1> QED BY <1>1, <1>2 DEF Source

(* Ids that are passed stay passed ... *)
LEMMA PassedStays ==
    ASSUME Inv, Source, NEW u, Passed(u)
    PROVE  Passed(u)'
<1>1. nextXid \in Nat /\ active \subseteq Nat
  BY DEF Inv, TypeOK, Xids
<1>2. /\ u \in 1 .. nextXid /\ \A x \in active : x >= u
      /\ nextXid' \in Nat /\ nextXid' >= nextXid
      /\ active' \subseteq active \cup {nextXid}
  BY SourceFacts DEF Passed
<1>3. u \in 1 .. nextXid'
  BY <1>1, <1>2
<1>4. ASSUME NEW x \in active' PROVE x >= u
  BY <1>1, <1>2
<1> QED BY <1>3, <1>4 DEF Passed

(* ... and what agreed with the source still does, from that id down. *)
LEMMA CoversStays ==
    ASSUME Inv, Source, NEW u, Passed(u), NEW S \in SUBSET Keys, NEW rows,
           Covers(rows, S, u)
    PROVE  Covers(rows, S, u)'
BY SourceFacts DEF Passed, Covers

LEMMA SourceKeeps ==
    ASSUME Inv, Source
    PROVE  Inv'
<1>0. TypeOK' /\ SourceInv'
  BY SourceType, SourceFacts
<1>1. UNCHANGED <<step, captured, record, loaded, published, shadow, target,
                  checkpoint, receipts, txn, pc, prev, snap>>
  BY DEF Source, BeginWrite, EndWrite, ledgerVars, storeVars, runVars
<1>2. CampaignInv'
  <2>1. step = "save" => Passed(captured)'
    BY <1>1, PassedStays DEF Inv, CampaignInv, Passed
  <2>2. record.status # "none" => Passed(record.anchor)'
    BY <1>1, PassedStays DEF Inv, CampaignInv, Passed
  <2>3. ~published => Covers(shadow, loaded, record.anchor)'
    <3>1. CASE record.status = "none"
      BY <1>1, <3>1 DEF Inv, CampaignInv, Covers
    <3>2. CASE record.status # "none"
      BY <1>1, <3>2, CoversStays DEF Inv, CampaignInv, TypeOK, Covers
    <3> QED BY <3>1, <3>2
  <2>4. published /\ checkpoint.revision = 0
          => Covers(target, Keys, record.anchor)'
    BY <1>1, CoversStays DEF Inv, CampaignInv, Covers
  <2> QED BY <1>1, <2>1, <2>2, <2>3, <2>4 DEF Inv, CampaignInv
<1>3. RunInv'
  <2> SUFFICES ASSUME NEW r \in Runs, pc[r] \in {"extracted", "sent"}
               PROVE  /\ snap[r].at \in 1 .. Len(history')
                      /\ Passed(snap[r].u)'
                      /\ Covers(history[snap[r].at], Keys, snap[r].u)'
                      /\ \A k \in Keys : history'[snap[r].at][k] < snap[r].h
    BY <1>1 DEF Inv, RunInv
  <2>1. /\ snap[r].at \in 1 .. Len(history) /\ Passed(snap[r].u)
        /\ Covers(history[snap[r].at], Keys, snap[r].u)
        /\ \A k \in Keys : history[snap[r].at][k] < snap[r].h
    BY DEF Inv, RunInv
  <2>2. history'[snap[r].at] = history[snap[r].at]
        /\ snap[r].at \in 1 .. Len(history')
    BY <2>1, SourceFacts, HistoryFacts DEF Inv
  <2>3. Passed(snap[r].u)'
    BY <1>1, <2>1, PassedStays DEF Passed
  <2>4. Covers(history[snap[r].at], Keys, snap[r].u)'
    BY <1>1, <2>1, <2>2, CoversStays DEF Covers
  <2> QED BY <2>1, <2>2, <2>3, <2>4
<1>4. SnapshotInv'
  <2> SUFFICES ASSUME NEW r \in Runs, pc[r] = "extracted", prev[r] = checkpoint
               PROVE  /\ \A k \in Keys :
                           \/ history'[snap[r].at][k] = 0
                           \/ target[k] = history'[snap[r].at][k]
                           \/ history'[snap[r].at][k] >= checkpoint.xmin
                      /\ checkpoint.revision > 1 =>
                           \E i \in 1 .. snap[r].at : target = history'[i]
    BY <1>1 DEF SnapshotInv
  <2>1. snap[r].at \in 1 .. Len(history)
    BY DEF Inv, RunInv
  <2>2. \A i \in 1 .. snap[r].at : history'[i] = history[i]
    BY <2>1, SourceFacts, HistoryFacts DEF Inv
  <2> QED BY <2>1, <2>2 DEF Inv, SnapshotInv
<1>5. TxnInv'
  <2> SUFFICES ASSUME txn # NoTxn
               PROVE  /\ Passed(txn.xmin)' /\ Covers(txn.rows, Keys, txn.xmin)'
                      /\ txn.load \in Runs => \E j \in 1 .. Len(history') :
                            /\ txn.rows = history'[j]
                            /\ pc[txn.load] = "sent" => j = snap[txn.load].at
                            /\ checkpoint.revision > 1 =>
                                  \E i \in 1 .. j : target = history'[i]
    BY <1>1 DEF Inv, TxnInv
  <2>1. Passed(txn.xmin)' /\ Covers(txn.rows, Keys, txn.xmin)'
    BY <1>1, PassedStays, CoversStays DEF Inv, TxnInv, Passed, Covers
  <2>2. ASSUME txn.load \in Runs
        PROVE  \E j \in 1 .. Len(history') :
                  /\ txn.rows = history'[j]
                  /\ pc[txn.load] = "sent" => j = snap[txn.load].at
                  /\ checkpoint.revision > 1 =>
                        \E i \in 1 .. j : target = history'[i]
    <3>1. PICK j \in 1 .. Len(history) :
              /\ txn.rows = history[j]
              /\ pc[txn.load] = "sent" => j = snap[txn.load].at
              /\ checkpoint.revision > 1 =>
                    \E i \in 1 .. j : target = history[i]
      BY <2>2 DEF Inv, TxnInv
    <3>2. /\ j \in 1 .. Len(history')
          /\ \A i \in 1 .. j : history'[i] = history[i]
      BY SourceFacts, HistoryFacts DEF Inv
    <3> QED BY <3>1, <3>2
  <2> QED BY <2>1, <2>2
<1>6. StoreInv'
  <2>1. Receipted' = Receipted
    BY <1>1 DEF Receipted
  <2>2. checkpoint.revision > 0 =>
           Passed(checkpoint.xmin)' /\ Covers(target, Keys, checkpoint.xmin)'
    BY <1>1, PassedStays, CoversStays DEF Inv, StoreInv, Passed, Covers
  <2>3. checkpoint.revision > 1 =>
           \E i \in 1 .. Len(history') : target = history'[i]
    BY SourceFacts, HistoryFacts DEF Inv, StoreInv
  <2> QED BY <1>1, <2>1, <2>2, <2>3 DEF Inv, StoreInv
<1> QED BY <1>0, <1>2, <1>3, <1>4, <1>5, <1>6 DEF Inv

-----------------------------------------------------------------------------
(* The campaign *)

(* A step that touches neither source nor target nor runs concerns the     *)
(* campaign alone.                                                         *)
LEMMA CampaignFrame ==
    ASSUME Inv, UNCHANGED <<sourceVars, storeVars, runVars>>
    PROVE  SourceInv' /\ RunInv' /\ SnapshotInv' /\ TxnInv' /\ StoreInv'
<1> USE DEF sourceVars, storeVars, runVars, Inv
<1>1. Rows' = Rows /\ Receipted' = Receipted
  BY DEF Rows, Receipted
<1>2. SourceInv'
  BY <1>1 DEF SourceInv
<1>3. RunInv'
  BY <1>1 DEF RunInv, Passed, Covers
<1>4. SnapshotInv'
  BY DEF SnapshotInv
<1>5. TxnInv'
  BY <1>1 DEF TxnInv, Passed, Covers
<1>6. StoreInv'
  BY <1>1 DEF StoreInv, Passed, Covers
<1> QED BY <1>2, <1>3, <1>4, <1>5, <1>6

(* Loading a chunk reads the source as it is. *)
LEMMA LoadChunkKeeps ==
    ASSUME Inv, NEW k \in Keys, LoadChunk(k)
    PROVE  CampaignInv'
<1> USE DEF sourceVars, storeVars, runVars, Inv
<1>1. Rows' = Rows /\ Rows \in [Keys -> Xids] /\ shadow \in [Keys -> Xids]
      /\ loaded \subseteq Keys
  BY HistoryFacts DEF LoadChunk, Rows, TypeOK
<1>2. step = "load" /\ record.status # "none"
  BY DEF LoadChunk, CampaignInv
<1>3. /\ shadow' = [shadow EXCEPT ![k] = Rows[k]] /\ loaded' = loaded \cup {k}
      /\ UNCHANGED <<step, captured, record, published, nextXid, active,
                     target, checkpoint, txn>>
  BY DEF LoadChunk
<1>4. ~published => Covers(shadow, loaded, record.anchor)'
  BY <1>1, <1>3 DEF CampaignInv, Covers
<1> QED BY <1>1, <1>2, <1>3, <1>4 DEF CampaignInv, Covers, Passed

LEMMA CampaignKeeps ==
    ASSUME Inv, Start \/ CampaignStep \/ Crash, ~Publish, ~SeedOpen
    PROVE  Inv'
<1> USE DEF sourceVars, storeVars, runVars, ledgerVars, Inv, CampaignMoves
<1>0. TypeOK'
  BY CampaignType
<1>1. UNCHANGED <<sourceVars, storeVars, runVars>>
  BY DEF Start, CampaignStep, Crash, CaptureAnchor, SaveAnchor, Resume,
         LoadChunk, AfterChunks, SeedProbe, SeedAcknowledged, SeedRaises, Finish
<1>2. Rows' = Rows /\ \A u : Passed(u)' <=> Passed(u)
  BY <1>1 DEF Rows, Passed
<1>3. CampaignInv'
  <2> USE <1>1, <1>2 DEF CampaignInv, Covers
  <2>1. CASE Start
    BY <2>1 DEF Start, Passed
  <2>2. CASE CaptureAnchor
    BY <2>2, SnapshotFacts DEF CaptureAnchor, Passed
  <2>3. CASE SaveAnchor
    BY <2>3 DEF SaveAnchor, Passed
  <2>4. CASE Resume
    BY <2>4 DEF Resume, Passed, TypeOK
  <2>5. ASSUME NEW k \in Keys, LoadChunk(k) PROVE CampaignInv'
    BY <2>5, LoadChunkKeeps
  <2>6. CASE AfterChunks
    BY <2>6 DEF AfterChunks, Passed, TypeOK
  <2>7. CASE SeedProbe
    BY <2>7 DEF SeedProbe, Passed
  <2>8. CASE SeedAcknowledged
    BY <2>8 DEF SeedAcknowledged, Passed
  <2>9. CASE SeedRaises
    BY <2>9 DEF SeedRaises, Passed
  <2>10. CASE Finish
    BY <2>10 DEF Finish, Passed, TypeOK
  <2>11. CASE Crash
    BY <2>11 DEF Crash, Passed
  <2> QED BY <2>1, <2>2, <2>3, <2>4, <2>5, <2>6, <2>7, <2>8, <2>9, <2>10,
             <2>11 DEF CampaignStep
<1> QED BY <1>0, <1>1, <1>3, CampaignFrame

(* The swap: every chunk is loaded, so the new target covers every key.    *)
LEMMA PublishKeeps ==
    ASSUME Inv, Publish
    PROVE  Inv'
<1> USE DEF sourceVars, storeVars, runVars, Inv, CampaignMoves
<1>0. TypeOK'
  BY CampaignType DEF CampaignStep
<1>1. CASE published
  <2>1. UNCHANGED <<sourceVars, storeVars, runVars, record, loaded, shadow,
                    captured, published>>
        /\ step = "load" /\ step' = "after"
    BY <1>1 DEF Publish, TypeOK
  <2>2. CampaignInv'
    BY <1>1, <2>1 DEF CampaignInv, Covers, Passed, Rows
  <2> QED BY <1>0, <2>1, <2>2, CampaignFrame
<1>2. CASE ~published
  <2>1. /\ target' = shadow /\ published' = TRUE /\ loaded = Keys
        /\ step = "load" /\ step' = "after"
        /\ UNCHANGED <<sourceVars, captured, record, loaded, checkpoint,
                       receipts, txn, runVars>>
    BY <1>2 DEF Publish
  <2>2. /\ checkpoint.revision = 0 /\ txn = NoTxn /\ record.status # "none"
        /\ Covers(shadow, Keys, record.anchor)
    BY <1>2, <2>1 DEF CampaignInv, NoCheckpoint
  <2>3. Rows' = Rows /\ Receipted' = Receipted
    BY <2>1 DEF Rows, Receipted
  <2>4. CampaignInv'
    BY <2>1, <2>2, <2>3 DEF CampaignInv, Covers, Passed
  <2>5. RunInv'
    BY <2>1, <2>3 DEF RunInv, Covers, Passed
  <2>6. SnapshotInv'
    BY <2>1, <2>2 DEF SnapshotInv, RunInv
  <2>7. SourceInv' /\ TxnInv'
    BY <2>1, <2>2, <2>3 DEF SourceInv, TxnInv
  <2>8. StoreInv'
    <3>1. checkpoint'.revision = 0 /\ checkpoint.revision = Cardinality(Receipted)
      BY <2>1, <2>2 DEF StoreInv
    <3>2. checkpoint'.revision = Cardinality(Receipted)'
      BY <2>1, <2>3, <3>1
    <3> QED BY <3>1, <3>2 DEF StoreInv
  <2> QED BY <1>0, <2>4, <2>5, <2>6, <2>7, <2>8
<1> QED BY <1>1, <1>2

(* The seed carries the anchor and leaves the rows as they are. *)
LEMMA SeedOpenKeeps ==
    ASSUME Inv, SeedOpen
    PROVE  Inv'
<1> USE DEF sourceVars, storeVars, runVars, ledgerVars, Inv, CampaignMoves
<1>0. TypeOK'
  BY CampaignType DEF CampaignStep
<1>1. CASE UNCHANGED txn
  <2>1. UNCHANGED <<sourceVars, storeVars, runVars, record, loaded, shadow,
                    captured, published>>
        /\ step = "lock" /\ step' \in {"sent", "down"}
    BY <1>1 DEF SeedOpen
  <2>2. CampaignInv'
    BY <2>1 DEF CampaignInv, Covers, Passed, Rows
  <2> QED BY <1>0, <2>1, <2>2, CampaignFrame
<1>2. CASE txn' = [load |-> Seed, xmin |-> record.anchor, revision |-> 1,
                   rows |-> target] /\ Unseeded /\ step' = "sent"
  <2>1. /\ step = "lock" /\ txn = NoTxn
        /\ UNCHANGED <<sourceVars, captured, record, loaded, published, shadow,
                       target, checkpoint, receipts, runVars>>
        /\ receipts[Seed] = 0 /\ checkpoint.revision = 0
    BY <1>2 DEF SeedOpen, Unseeded, NoCheckpoint
  <2>2. /\ record.status # "none" /\ published /\ Passed(record.anchor)
        /\ Covers(target, Keys, record.anchor)
    BY <2>1 DEF CampaignInv
  <2>3. Rows' = Rows /\ Receipted' = Receipted
    BY <2>1 DEF Rows, Receipted
  <2>4. /\ txn'.load = Seed /\ txn'.xmin = record.anchor
        /\ txn'.revision = 1 /\ txn'.rows = target
    BY <1>2
  <2>5. TxnInv'
    BY <2>1, <2>2, <2>3, <2>4, XminAssumption DEF TxnInv, Covers, Passed
  <2>6. CampaignInv'
    BY <1>2, <2>1, <2>2, <2>3 DEF CampaignInv, Covers, Passed
  <2>7. RunInv'
    BY <2>1, <2>3, <2>4, XminAssumption DEF RunInv, Covers, Passed
  <2>8. SnapshotInv' /\ SourceInv' /\ StoreInv'
    BY <2>1, <2>3 DEF SnapshotInv, SourceInv, StoreInv, Covers, Passed
  <2> QED BY <1>0, <2>5, <2>6, <2>7, <2>8
<1> QED BY <1>1, <1>2 DEF SeedOpen

-----------------------------------------------------------------------------
(* The incremental runs *)

(* Delta and key image of one snapshot make exactly that snapshot, if the  *)
(* checkpoint has not moved since it was read.                             *)
LEMMA ReconciledIsSnapshot ==
    ASSUME Inv, NEW r \in Runs, pc[r] = "extracted", prev[r] = checkpoint
    PROVE  Reconciled(r) = history[snap[r].at]
<1> DEFINE rows == history[snap[r].at]
<1>1. rows \in [Keys -> Xids] /\ snap[r].h \in Nat /\ checkpoint.xmin \in Nat
  <2>1. rows \in [Keys -> Xids]
    BY HistoryFacts DEF Inv, RunInv
  <2>2. snap[r].h \in Xids /\ checkpoint.xmin \in Xids
    BY DEF Inv, TypeOK, Checkpoints
  <2> QED BY <2>1, <2>2 DEF Xids
<1>2. ASSUME NEW k \in Keys
      PROVE  Reconciled(r)[k] = rows[k]
  <2>1. rows[k] \in Nat /\ rows[k] < snap[r].h
    BY <1>1 DEF Inv, RunInv, Xids
  <2>2. rows[k] = 0 \/ target[k] = rows[k] \/ rows[k] >= checkpoint.xmin
    BY DEF Inv, SnapshotInv
  <2>3. ~InWindow(rows[k], prev[r].xmin, snap[r].h) => ~(checkpoint.xmin <= rows[k])
    BY <1>1, <2>1, WindowIsComplete
  <2>4. Reconciled(r)[k] = IF rows[k] = 0 THEN 0
                           ELSE IF InWindow(rows[k], prev[r].xmin, snap[r].h)
                           THEN rows[k] ELSE target[k]
    BY DEF Reconciled
  <2> QED BY <1>1, <2>1, <2>2, <2>3, <2>4
<1>3. Reconciled(r) = [k \in Keys |-> Reconciled(r)[k]]
  BY DEF Reconciled
<1>4. rows = [k \in Keys |-> rows[k]]
  BY <1>1
<1> QED BY <1>2, <1>3, <1>4

(* A run that does not open a transaction concerns itself alone. *)
LEMMA RunFrame ==
    ASSUME Inv, NEW r \in Runs,
           UNCHANGED <<sourceVars, step, captured, ledgerVars, shadow, storeVars>>
    PROVE  SourceInv' /\ CampaignInv' /\ StoreInv'
<1> USE DEF sourceVars, ledgerVars, storeVars, Inv
<1>1. Rows' = Rows /\ Receipted' = Receipted
  BY DEF Rows, Receipted
<1> QED BY <1>1 DEF SourceInv, CampaignInv, StoreInv, Passed, Covers

(* A run that ends, or is admitted, leaves nothing to prove but its        *)
(* outcome.                                                                *)
LEMMA RunLeaves ==
    ASSUME Inv, NEW r \in Runs, NEW to \in {"done", "failed", "unknown"},
           UNCHANGED <<sourceVars, step, captured, ledgerVars, shadow, storeVars>>,
           NEW from, RunEnds(r, from, to), TypeOK',
           to = "failed" => receipts[r] = 0 /\ txn.load # r,
           to = "done" => receipts[r] # 0
    PROVE  Inv'
<1> USE DEF sourceVars, ledgerVars, storeVars, Inv, RunEnds, RunMoves
<1>1. Rows' = Rows /\ pc'[r] = to /\ \A q \in Runs \ {r} :
        pc'[q] = pc[q] /\ prev'[q] = prev[q] /\ snap'[q] = snap[q]
  BY DEF Rows, TypeOK
<1>2. RunInv'
  <2> SUFFICES ASSUME NEW q \in Runs, q # r
               PROVE  /\ pc[q] \in {"idle", "admitted", "extracted", "failed"}
                            => receipts[q] = 0 /\ txn.load # q
                      /\ pc[q] = "done" => receipts[q] # 0
                      /\ pc[q] \in {"admitted", "extracted"}
                            => prev[q].revision \in 1 .. checkpoint.revision
                      /\ pc[q] \in {"extracted", "sent"} =>
                            /\ snap[q].at \in 1 .. Len(history)
                            /\ Passed(snap[q].u)
                            /\ Covers(history[snap[q].at], Keys, snap[q].u)
                            /\ \A k \in Keys : history[snap[q].at][k] < snap[q].h
    BY <1>1 DEF RunInv, Passed, Covers
  <2> QED BY DEF RunInv
<1>3. SnapshotInv'
  BY <1>1 DEF SnapshotInv
<1>4. TxnInv'
  BY <1>1 DEF TxnInv, Passed, Covers
<1> QED BY <1>2, <1>3, <1>4, RunFrame

LEMMA GetStateKeeps ==
    ASSUME Inv, NEW r \in Runs, GetState(r)
    PROVE  Inv'
<1> USE DEF sourceVars, ledgerVars, storeVars, Inv, RunMoves
<1>0. TypeOK' /\ SourceInv' /\ CampaignInv' /\ StoreInv'
  BY RunType, RunFrame DEF RunStep, GetState
<1>1. /\ Rows' = Rows /\ pc'[r] = "admitted" /\ prev'[r] = checkpoint
      /\ UNCHANGED <<sourceVars, storeVars, snap>>
      /\ checkpoint.revision >= 1 /\ pc[r] = "idle"
      /\ \A q \in Runs \ {r} : pc'[q] = pc[q] /\ prev'[q] = prev[q]
  BY DEF Rows, TypeOK, GetState
<1>2. checkpoint.revision \in Nat
  BY XminAssumption, FS_CardinalityType DEF TypeOK, Checkpoints
<1>3. RunInv'
  <2> SUFFICES ASSUME NEW q \in Runs
               PROVE  /\ pc'[q] \in {"idle", "admitted", "extracted", "failed"}
                            => receipts[q] = 0 /\ txn.load # q
                      /\ pc'[q] = "done" => receipts[q] # 0
                      /\ pc'[q] \in {"admitted", "extracted"}
                            => prev'[q].revision \in 1 .. checkpoint.revision
                      /\ pc'[q] \in {"extracted", "sent"} =>
                            /\ snap[q].at \in 1 .. Len(history)
                            /\ Passed(snap[q].u)
                            /\ Covers(history[snap[q].at], Keys, snap[q].u)
                            /\ \A k \in Keys : history[snap[q].at][k] < snap[q].h
    BY <1>1 DEF RunInv, Passed, Covers
  <2>1. CASE q = r
    BY <1>1, <1>2, <2>1 DEF RunInv
  <2>2. CASE q # r
    BY <1>1, <2>2 DEF RunInv
  <2> QED BY <2>1, <2>2
<1>4. SnapshotInv'
  BY <1>1 DEF SnapshotInv
<1>5. TxnInv'
  BY <1>1 DEF TxnInv, Passed, Covers
<1> QED BY <1>0, <1>3, <1>4, <1>5

(* The snapshot of a run is current when it is taken: with an unmoved      *)
(* checkpoint the target has everything below it, and is no newer.         *)
LEMMA ExtractKeeps ==
    ASSUME Inv, NEW r \in Runs, Extract(r)
    PROVE  Inv'
<1> USE DEF sourceVars, ledgerVars, storeVars, Inv
<1>0. TypeOK' /\ SourceInv' /\ CampaignInv' /\ StoreInv'
  BY RunType, RunFrame DEF RunStep, Extract
<1>1. CASE RunEnds(r, "admitted", "failed")
  <2>1. receipts[r] = 0 /\ txn.load # r
    BY <1>1 DEF RunEnds, RunMoves, RunInv
  <2> QED BY <1>0, <1>1, <2>1, RunLeaves DEF Extract
<1>2. CASE /\ RunMoves(r, "admitted", "extracted") /\ UNCHANGED prev
           /\ snap' = [snap EXCEPT ![r] = [at |-> Len(history),
                                           u |-> SnapshotXmin,
                                           h |-> VisibleHorizon]]
  <2>1. /\ Rows' = Rows /\ pc'[r] = "extracted" /\ pc[r] = "admitted"
        /\ snap'[r] = [at |-> Len(history), u |-> SnapshotXmin,
                       h |-> VisibleHorizon]
        /\ UNCHANGED <<sourceVars, storeVars, prev>>
        /\ \A q \in Runs \ {r} : pc'[q] = pc[q] /\ snap'[q] = snap[q]
    BY <1>2 DEF Rows, TypeOK, Extract, RunMoves
  <2>2. /\ snap'[r].at = Len(history) /\ snap'[r].u = SnapshotXmin
        /\ snap'[r].h = VisibleHorizon
        /\ Len(history) \in Nat \ {0} /\ history[snap'[r].at] = Rows
        /\ Passed(SnapshotXmin) /\ \A k \in Keys : Rows[k] < VisibleHorizon
        /\ receipts[r] = 0 /\ txn.load # r
        /\ prev[r].revision \in 1 .. checkpoint.revision
    BY <2>1, HistoryFacts, SnapshotFacts DEF Rows, RunInv
  <2>3. RunInv'
    <3> SUFFICES ASSUME NEW q \in Runs
                 PROVE  /\ pc'[q] \in {"idle", "admitted", "extracted", "failed"}
                              => receipts[q] = 0 /\ txn.load # q
                        /\ pc'[q] = "done" => receipts[q] # 0
                        /\ pc'[q] \in {"admitted", "extracted"}
                              => prev[q].revision \in 1 .. checkpoint.revision
                        /\ pc'[q] \in {"extracted", "sent"} =>
                              /\ snap'[q].at \in 1 .. Len(history)
                              /\ Passed(snap'[q].u)
                              /\ Covers(history[snap'[q].at], Keys, snap'[q].u)
                              /\ \A k \in Keys :
                                    history[snap'[q].at][k] < snap'[q].h
      BY <2>1 DEF RunInv, Passed, Covers
    <3>1. CASE q = r
      BY <2>1, <2>2, <3>1 DEF Covers
    <3>2. CASE q # r
      BY <2>1, <3>2 DEF RunInv
    <3> QED BY <3>1, <3>2
  <2>4. SnapshotInv'
    <3> SUFFICES ASSUME NEW q \in Runs, pc'[q] = "extracted",
                        prev[q] = checkpoint
                 PROVE  /\ \A k \in Keys :
                             \/ history[snap'[q].at][k] = 0
                             \/ target[k] = history[snap'[q].at][k]
                             \/ history[snap'[q].at][k] >= checkpoint.xmin
                        /\ checkpoint.revision > 1 =>
                             \E i \in 1 .. snap'[q].at : target = history[i]
      BY <2>1 DEF SnapshotInv
    <3>1. CASE q = r
      <4>1. checkpoint.revision > 0
        BY <2>2, <3>1, XminAssumption, FS_CardinalityType DEF TypeOK, Checkpoints
      <4> QED BY <2>2, <3>1, <4>1 DEF StoreInv, Covers
    <3>2. CASE q # r
      BY <2>1, <3>2 DEF SnapshotInv
    <3> QED BY <3>1, <3>2
  <2>5. TxnInv'
    BY <2>1, <2>2 DEF TxnInv, Passed, Covers
  <2> QED BY <1>0, <2>3, <2>4, <2>5
<1> QED BY <1>1, <1>2 DEF Extract

(* What a run sends to the server is the table of its snapshot. *)
LEMMA FinalizeKeeps ==
    ASSUME Inv, NEW r \in Runs, Finalize(r)
    PROVE  Inv'
<1> USE DEF sourceVars, ledgerVars, storeVars, Inv
<1>0. TypeOK'
  BY RunType DEF RunStep
<1>1. CASE RunEnds(r, "extracted", "failed") /\ UNCHANGED txn
  <2>1. receipts[r] = 0 /\ txn.load # r
    BY <1>1 DEF RunEnds, RunMoves, RunInv
  <2> QED BY <1>0, <1>1, <2>1, RunLeaves DEF Finalize
<1>2. CASE /\ RunMoves(r, "extracted", "sent") /\ CompareAndSet(r)
           /\ txn' = [load |-> r, xmin |-> snap[r].u,
                      revision |-> prev[r].revision + 1, rows |-> Reconciled(r)]
           /\ UNCHANGED <<prev, snap>>
  <2>1. /\ Rows' = Rows /\ Receipted' = Receipted
        /\ pc'[r] = "sent" /\ pc[r] = "extracted"
        /\ UNCHANGED <<sourceVars, ledgerVars, step, captured, shadow, target,
                       checkpoint, receipts, prev, snap>>
        /\ \A q \in Runs \ {r} : pc'[q] = pc[q]
        /\ txn = NoTxn /\ prev[r] = checkpoint
    BY <1>2 DEF Rows, Receipted, TypeOK, Finalize, RunMoves, CompareAndSet
  <2>2. /\ txn'.load = r /\ txn'.xmin = snap[r].u
        /\ txn'.revision = checkpoint.revision + 1
        /\ txn'.rows = history[snap[r].at]
    BY <1>2, <2>1, ReconciledIsSnapshot
  <2>3. /\ receipts[r] = 0 /\ snap[r].at \in 1 .. Len(history)
        /\ Passed(snap[r].u) /\ Covers(history[snap[r].at], Keys, snap[r].u)
        /\ checkpoint.revision > 1 =>
              \E i \in 1 .. snap[r].at : target = history[i]
        /\ checkpoint.revision \in 1 .. checkpoint.revision
    BY <2>1 DEF RunInv, SnapshotInv
  <2>4. TxnInv'
    <3>1. r # Seed /\ Passed(snap[r].u)'
          /\ Covers(history[snap[r].at], Keys, snap[r].u)'
      BY <2>1, <2>3, XminAssumption DEF Passed, Covers
    <3> QED BY <2>1, <2>2, <2>3, <3>1 DEF TxnInv, Passed, Covers
  <2>5. RunInv'
    <3> SUFFICES ASSUME NEW q \in Runs
                 PROVE  /\ pc'[q] \in {"idle", "admitted", "extracted", "failed"}
                              => receipts[q] = 0 /\ r # q
                        /\ pc'[q] = "done" => receipts[q] # 0
                        /\ pc'[q] \in {"admitted", "extracted"}
                              => prev[q].revision \in 1 .. checkpoint.revision
                        /\ pc'[q] \in {"extracted", "sent"} =>
                              /\ snap[q].at \in 1 .. Len(history)
                              /\ Passed(snap[q].u)
                              /\ Covers(history[snap[q].at], Keys, snap[q].u)
                              /\ \A k \in Keys : history[snap[q].at][k] < snap[q].h
      BY <2>1, <2>2 DEF RunInv, Passed, Covers
    <3>1. CASE q = r
      BY <2>1, <3>1 DEF RunInv
    <3>2. CASE q # r
      BY <2>1, <3>2 DEF RunInv
    <3> QED BY <3>1, <3>2
  <2>6. SnapshotInv'
    BY <2>1 DEF SnapshotInv
  <2>7. published
    <3>1. checkpoint # NoCheckpoint
      BY <2>3, XminAssumption, FS_CardinalityType
      DEF NoCheckpoint, TypeOK, Checkpoints
    <3> QED BY <3>1 DEF CampaignInv
  <2>8. SourceInv' /\ CampaignInv' /\ StoreInv'
    BY <2>1, <2>7 DEF SourceInv, CampaignInv, StoreInv, Passed, Covers
  <2> QED BY <1>0, <2>4, <2>5, <2>6, <2>8
<1> QED BY <1>1, <1>2 DEF Finalize

LEMMA RunKeeps ==
    ASSUME Inv, NEW r \in Runs, RunStep(r)
    PROVE  Inv'
<1>0. TypeOK'
  BY RunType
<1>1. CASE Acknowledged(r)
  BY <1>0, <1>1, RunLeaves DEF Acknowledged
<1>2. CASE CommitRaises(r)
  <2>1. pc[r] = "sent" /\ snap[r].u # 0
    BY <1>2 DEF CommitRaises, RunEnds, RunMoves, Inv, RunInv, Passed
  <2>2. CASE receipts[r] = snap[r].u
    BY <1>0, <1>2, <2>1, <2>2, RunLeaves DEF CommitRaises
  <2>3. CASE receipts[r] # snap[r].u
    BY <1>0, <1>2, <2>1, <2>3, RunLeaves DEF CommitRaises
  <2> QED BY <2>2, <2>3
<1> QED BY <1>1, <1>2, GetStateKeeps, ExtractKeeps, FinalizeKeeps DEF RunStep

-----------------------------------------------------------------------------
(* The server *)

(* The open transaction is one whose receipt is missing; its commit adds   *)
(* that receipt and outdates every other checkpoint that was read.         *)
LEMMA ServerCommitsKeeps ==
    ASSUME Inv, ServerCommits
    PROVE  Inv'
<1> USE DEF sourceVars, ledgerVars, runVars, storeVars, Inv
<1>0. TypeOK'
  BY ServerType
<1>1. /\ txn # NoTxn /\ txn' = NoTxn /\ target' = txn.rows
      /\ checkpoint' = [xmin |-> txn.xmin, revision |-> txn.revision]
      /\ receipts' = [receipts EXCEPT ![txn.load] = txn.xmin]
      /\ UNCHANGED <<sourceVars, step, captured, ledgerVars, shadow, runVars>>
      /\ Rows' = Rows
  BY DEF ServerCommits, Rows
<1>2. /\ txn.load \in Runs \cup {Seed} /\ receipts \in [Runs \cup {Seed} -> Xids]
      /\ checkpoint.revision \in Nat
      /\ txn.xmin \in Nat \ {0}
  <2>1. Cardinality(Runs) \in Nat
    BY XminAssumption, FS_CardinalityType
  <2>2. txn.xmin \in 1 .. nextXid /\ nextXid \in Nat
    BY <1>1 DEF TxnInv, Passed, TypeOK, Xids
  <2> QED BY <1>1, <2>1, <2>2 DEF TypeOK, Checkpoints
<1>3. /\ receipts[txn.load] = 0 /\ checkpoint'.revision = checkpoint.revision + 1
      /\ checkpoint'.xmin = txn.xmin
      /\ Passed(txn.xmin) /\ Covers(txn.rows, Keys, txn.xmin)
  BY <1>1 DEF TxnInv
<1>4. SourceInv' /\ TxnInv'
  BY <1>1 DEF SourceInv, TxnInv
<1>5. CampaignInv'
  <2>1. published
    BY <1>1 DEF CampaignInv
  <2> QED BY <1>1, <1>2, <1>3, <2>1 DEF CampaignInv, Passed, Covers
<1>6. RunInv'
  <2> SUFFICES ASSUME NEW r \in Runs
               PROVE  /\ pc[r] \in {"idle", "admitted", "extracted", "failed"}
                            => receipts'[r] = 0 /\ NoTxn.load # r
                      /\ pc[r] = "done" => receipts'[r] # 0
                      /\ pc[r] \in {"admitted", "extracted"}
                            => prev[r].revision \in 1 .. checkpoint'.revision
    BY <1>1 DEF RunInv, Passed, Covers
  <2>1. NoTxn.load # r
    BY XminAssumption
  <2>2. receipts'[r] = IF r = txn.load THEN txn.xmin ELSE receipts[r]
    BY <1>1, <1>2
  <2>3. pc[r] \in {"admitted", "extracted"}
          => prev[r].revision \in 1 .. checkpoint'.revision
    BY <1>2, <1>3 DEF RunInv
  <2> QED BY <1>2, <1>3, <2>1, <2>2, <2>3 DEF RunInv
<1>7. SnapshotInv'
  <2>1. ASSUME NEW r \in Runs, pc[r] = "extracted" PROVE prev[r] # checkpoint'
    <3>1. prev[r].revision \in 1 .. checkpoint.revision
      BY <2>1 DEF RunInv
    <3>2. prev[r].revision # checkpoint'.revision
      BY <1>2, <1>3, <3>1
    <3> QED BY <3>2
  <2> QED BY <1>1, <2>1 DEF SnapshotInv
<1>8. StoreInv'
  <2>1. Receipted' = Receipted \cup {txn.load} /\ txn.load \notin Receipted
    BY <1>1, <1>2, <1>3 DEF Receipted
  <2>2. Cardinality(Receipted)' = Cardinality(Receipted) + 1
    <3>1. IsFiniteSet(Receipted)
      BY <1>2, <1>3, CountBound
    <3> QED BY <2>1, <3>1, FS_AddElement
  <2>3. Passed(checkpoint.xmin)' /\ Covers(target, Keys, checkpoint.xmin)'
    BY <1>1, <1>3 DEF Passed, Covers
  <2>4. checkpoint'.revision > 1 =>
           \E i \in 1 .. Len(history') : target' = history'[i]
    <3>1. checkpoint'.revision > 1 => txn.load \in Runs
      BY <1>1, <1>2, <1>3 DEF TxnInv
    <3> QED BY <1>1, <3>1 DEF TxnInv
  <2> QED BY <1>3, <2>2, <2>3, <2>4 DEF StoreInv
<1> QED BY <1>0, <1>4, <1>5, <1>6, <1>7, <1>8

LEMMA ServerAbortsKeeps ==
    ASSUME Inv, ServerAborts
    PROVE  Inv'
<1> USE DEF sourceVars, ledgerVars, runVars, storeVars, Inv
<1>0. TypeOK'
  BY ServerType
<1>1. /\ txn' = NoTxn /\ Rows' = Rows /\ Receipted' = Receipted
      /\ UNCHANGED <<sourceVars, step, captured, ledgerVars, shadow, target,
                     checkpoint, receipts, runVars>>
  BY DEF ServerAborts, Rows, Receipted
<1>2. \A r \in Runs : NoTxn.load # r
  BY XminAssumption
<1>3. RunInv'
  BY <1>1, <1>2 DEF RunInv, Passed, Covers
<1>4. SourceInv' /\ CampaignInv' /\ SnapshotInv' /\ TxnInv'
  BY <1>1 DEF SourceInv, CampaignInv, SnapshotInv, TxnInv, Passed, Covers
<1>5. StoreInv'
  BY <1>1 DEF StoreInv, Passed, Covers
<1> QED BY <1>0, <1>3, <1>4, <1>5

-----------------------------------------------------------------------------
(* The theorems *)

LEMMA InvInit == Init => Inv
<1> SUFFICES ASSUME Init PROVE Inv
  OBVIOUS
<1>0. /\ Cardinality(Runs) \in Nat /\ 0 \in Xids /\ FirstXid \in Xids
      /\ FirstXid - 1 \in Xids
  BY XminAssumption, FS_CardinalityType DEF Xids
<1>1. PICK full \in SUBSET Keys :
        history = << [k \in Keys |-> IF k \in full THEN FirstXid - 1 ELSE 0] >>
  BY DEF Init
<1>2. /\ history \in Seq([Keys -> Xids]) /\ Len(history) = 1 /\ history # <<>>
      /\ Rows = [k \in Keys |-> IF k \in full THEN FirstXid - 1 ELSE 0]
  BY <1>0, <1>1 DEF Rows
<1>3. TypeOK
  <2>1. /\ NoCheckpoint \in Checkpoints
        /\ NoSnapshot \in [at : Nat, u : Xids, h : Xids]
        /\ NoRow \in [Keys -> Xids]
        /\ record \in [status : {"none", "anchored", "committing", "committed"},
                       anchor : Xids]
    BY <1>0 DEF Init, NoRow, NoCheckpoint, NoSnapshot, Checkpoints
  <2>2. /\ prev \in [Runs -> Checkpoints]
        /\ snap \in [Runs -> [at : Nat, u : Xids, h : Xids]]
        /\ pc \in [Runs -> {"idle", "admitted", "extracted", "sent", "done",
                            "failed", "unknown"}]
        /\ receipts \in [Runs \cup {Seed} -> Xids]
    BY <1>0, <2>1 DEF Init
  <2>3. /\ nextXid \in Xids /\ latest \in Xids /\ captured \in Xids
        /\ active \subseteq Xids /\ loaded \subseteq Keys
        /\ shadow \in [Keys -> Xids] /\ target \in [Keys -> Xids]
        /\ checkpoint \in Checkpoints /\ txn = NoTxn
    BY <1>0, <2>1 DEF Init
  <2>4. step \in {"down", "prepare", "save", "load", "after", "seed", "lock",
                  "sent", "finish", "done"}
    BY DEF Init
  <2>5. faults \in 0 .. MaxFaults /\ published \in BOOLEAN
    <3>1. faults = 0 /\ published = FALSE
      BY DEF Init
    <3>2. faults \in 0 .. MaxFaults
      BY <3>1, XminAssumption
    <3>3. published \in BOOLEAN
      BY <3>1, Zenon
    <3> QED BY <3>2, <3>3
  <2> QED BY <1>2, <2>1, <2>2, <2>3, <2>4, <2>5 DEF TypeOK
<1>4. SourceInv
  BY <1>2, XminAssumption DEF Init, SourceInv
<1>5. Receipted = {} /\ Cardinality(Receipted) = 0
  BY FS_EmptySet DEF Init, Receipted
<1>6. CampaignInv /\ StoreInv
  BY <1>5 DEF Init, CampaignInv, StoreInv, NoCheckpoint, Covers
<1>7. RunInv /\ SnapshotInv /\ TxnInv
  BY XminAssumption DEF Init, RunInv, SnapshotInv, TxnInv
<1> QED BY <1>3, <1>4, <1>6, <1>7 DEF Inv

LEMMA InvNext == Inv /\ [Next]_vars => Inv'
<1> SUFFICES ASSUME Inv, [Next]_vars PROVE Inv'
  OBVIOUS
<1>1. CASE UNCHANGED vars
  <2>1. UNCHANGED <<sourceVars, storeVars, runVars>> /\ Rows' = Rows
    BY <1>1 DEF vars, sourceVars, storeVars, runVars, Rows
  <2>2. TypeOK'
    BY <1>1, TypeStep
  <2>3. CampaignInv'
    BY <1>1, <2>1 DEF vars, Inv, CampaignInv, Passed, Covers
  <2> QED BY <2>1, <2>2, <2>3, CampaignFrame DEF Inv
<1>2. CASE Start \/ CampaignStep \/ Crash
  BY <1>2, CampaignKeeps, PublishKeeps, SeedOpenKeeps
<1> QED BY <1>1, <1>2, SourceKeeps, RunKeeps, ServerCommitsKeeps,
           ServerAbortsKeeps DEF Next

LEMMA InvAlways == Spec => []Inv
BY InvInit, InvNext, PTL DEF Spec

(* For every table, set of runs and bound: no recorded id is beyond the    *)
(* source's last one, and the revision of the checkpoint row never exceeds *)
(* the number of loads.                                                    *)
THEOREM TypeCorrect == Spec => []TypeOK
<1>1. Inv => TypeOK
  BY DEF Inv
<1> QED BY <1>1, InvAlways, PTL

(* Anchor before chunks, and the safe xmin as checkpoint, lose no change,  *)
(* however transactions of the source interleave with chunks, publication, *)
(* seed, runs and their crashes.                                           *)
THEOREM ChangesAreKept == Spec => []NoChangeIsLost
<1>1. Inv => NoChangeIsLost
  BY DEF Inv, StoreInv, NoChangeIsLost, Covers
<1> QED BY <1>1, InvAlways, PTL

(* commit_attempted and _probe_commit: "failed" is said only of a run that *)
(* has not committed and will not, "done" only of one that has.            *)
THEOREM OutcomesAreTrue == Spec => []OutcomeIsHonest
<1>1. Inv => OutcomeIsHonest
  BY DEF Inv, RunInv, OutcomeIsHonest
<1> QED BY <1>1, InvAlways, PTL

(* An incremental run commits the source table of its snapshot, for every  *)
(* epoch size and every order in which ids end.                            *)
THEOREM SnapshotsAreCommitted == Spec => []RunsCommitTheirSnapshot
<1>1. Inv => RunsCommitTheirSnapshot
  <2> SUFFICES ASSUME Inv, NEW r \in Runs, pc[r] = "sent", txn.load = r
               PROVE  txn.rows = history[snap[r].at]
    BY DEF RunsCommitTheirSnapshot
  <2>1. txn # NoTxn
    BY XminAssumption
  <2> QED BY <2>1 DEF Inv, TxnInv
<1> QED BY <1>1, InvAlways, PTL

(* checkpoint_cas_sql with the revision: the target moves from one         *)
(* snapshot of the source to a later one, never back.                      *)
THEOREM TargetAdvances == Spec => TargetNeverGoesBack
<1> DEFINE Forward == checkpoint.revision > 1 /\ target' # target =>
                        \E i, j \in 1 .. Len(history) :
                            i <= j /\ target = history[i] /\ target' = history[j]
<1>1. ASSUME Inv, Next PROVE Forward
  <2> SUFFICES ASSUME checkpoint.revision > 1, target' # target
               PROVE  \E i, j \in 1 .. Len(history) :
                        i <= j /\ target = history[i] /\ target' = history[j]
    OBVIOUS
  <2>1. published
    BY <1>1 DEF Inv, CampaignInv, NoCheckpoint
  <2>2. ServerCommits
    BY <1>1, <2>1 DEF Next, Source, BeginWrite, EndWrite, Start, CampaignStep, Crash,
       CaptureAnchor, SaveAnchor, Resume, LoadChunk, Publish, AfterChunks,
       SeedProbe, SeedOpen, SeedAcknowledged, SeedRaises, Finish, RunStep,
       GetState, Extract, Finalize, Acknowledged, CommitRaises, ServerAborts,
       storeVars
  <2>3. txn # NoTxn /\ target' = txn.rows /\ txn.load \in Runs
    BY <1>1, <2>2 DEF ServerCommits, Inv, TypeOK, TxnInv
  <2>4. PICK j \in 1 .. Len(history) : /\ txn.rows = history[j]
                                       /\ \E i \in 1 .. j : target = history[i]
    BY <1>1, <2>3 DEF Inv, TxnInv
  <2>5. PICK i \in 1 .. j : target = history[i]
    BY <2>4
  <2>6. i \in 1 .. Len(history) /\ i <= j
    BY <1>1, HistoryFacts DEF Inv
  <2> QED BY <2>3, <2>4, <2>5, <2>6
<1>2. Inv /\ [Next]_vars => [Forward]_vars
  BY <1>1 DEF vars
<1> QED BY <1>2, InvAlways, PTL DEF Spec, TargetNeverGoesBack
=============================================================================
