----------------------- MODULE PortableLedgerProofs -----------------------
(***************************************************************************)
(* Proofs about the PostgreSQL ledger under mapped pods and a cancelling   *)
(* command line, for every number of pods and chunks.                      *)
(*                                                                         *)
(* The two journals are written without a transaction over a read, so the  *)
(* invariant relates what a process has read and is going to append (seen, *)
(* save, task) with what the journals hold now.  As long as no save is     *)
(* torn, the row of a chunk somebody works on is exactly the lease of that *)
(* worker, which is what makes the lease exclusive.                        *)
(***************************************************************************)
EXTENDS PortableLedger, WellFoundedInduction, TLAPS

Statuses == {"none", "active", "cancel_requested"}
InTransition == {"decide", "campaign", "chunk"}
InChunk == InTransition \cup {"prove", "run", "fail", "refused"}
Planned == InChunk \cup {"select", "bind", "next", "report"}
Saving == {"save", "saving"}
PCs == Planned \cup Saving \cup Ended
       \cup {"start", "init", "recover", "release", "acknowledged"}

(* TypeOK with the positions, the saves and the tasks in full. *)
TypeInv ==
    /\ campaign \in Statuses
    /\ rows \in [Chunks -> RowType]
    /\ initLock \in Pods \cup {Nobody}
    /\ chunkLock \in [Chunks -> Pods \cup {Nobody}]
    /\ pc \in [Procs -> PCs]
    /\ seen \in [Procs -> LedgerType]
    /\ save \in [Procs -> [ledger : LedgerType, left : SUBSET Chunks,
                           then : {"none", "recover", "release", "acknowledged"}]]
    /\ todo \in [Pods -> SUBSET Chunks]
    /\ task \in [Pods -> [kind : Kinds \cup {"none"}, until : Times,
                          status : Statuses, row : RowType]]
    /\ held \in [Pods -> Times]
    /\ healthy \in [Pods -> BOOLEAN] /\ errors \in [Pods -> BOOLEAN]
    /\ loads \in [Chunks -> SUBSET Pods]
    /\ torn \in BOOLEAN
    /\ clock \in 0 .. MaxClock /\ faults \in 0 .. MaxFaults

Untouched == {"none", "PENDING"}

(* Chunks get their first row from a creation, which a campaign row        *)
(* precedes; before the plan is complete nobody has begun to work; and a   *)
(* recorded SUCCESS stands for loaded rows.                                *)
JournalInv ==
    /\ \A c \in Chunks : rows[c] # NoRow => campaign # "none"
    /\ (\E c \in Chunks : rows[c] = NoRow) =>
          \A c \in Chunks : rows[c].status \in Untouched
    /\ \A c \in Chunks : rows[c].status = "SUCCESS" => loads[c] # {}

(* What q is going to append: real rows, of which those that differ from   *)
(* what q has read belong to nobody, or to a lease that has expired.       *)
SaverInv(q) ==
    /\ \A c \in Chunks :
          save[q].ledger.rows[c].status = "SUCCESS" => loads[c] # {}
    /\ (\E c \in Chunks : rows[c] = NoRow) =>
          \A c \in Chunks : save[q].ledger.rows[c].status \in Untouched
    /\ pc[q] = "saving" => campaign # "none" /\ save[q].left # {}
    /\ pc[q] = "save" => save[q].ledger.status # "none"
    /\ pc[q] \in Saving =>
          /\ save[q].then # "none"
          /\ \A c \in save[q].left : save[q].ledger.rows[c] # NoRow
          /\ \A c \in Chunks :
                \/ save[q].ledger.rows[c] = seen[q].rows[c]
                \/ /\ save[q].ledger.rows[c].status # "SUCCESS"
                   /\ \/ seen[q].rows[c].status \in Untouched
                      \/ /\ seen[q].rows[c].status = "RUNNING"
                         /\ seen[q].rows[c].until <= clock

(* Where pod q stands and what it must have at hand there. *)
PodInv(q) ==
    /\ pc[q] \in Saving => \A c \in Chunks \ save[q].left : rows[c] # NoRow
    /\ pc[q] \in Planned \cup {"recover", "release"} =>
          \A c \in Chunks : rows[c] # NoRow
    /\ pc[q] \in InChunk => todo[q] # {}
    /\ pc[q] \in InTransition =>
          /\ task[q].kind \in Kinds
          /\ chunkLock[Current(q)] = q
          /\ task[q].kind = "success" => loads[Current(q)] # {}
    /\ pc[q] \in {"campaign", "chunk"} =>
          task[q].row = NewRow(q) /\ task[q].status # "none"
    /\ pc[q] = "success" => \A c \in Selection[q] : loads[c] # {}

(* q has decided and is going to append the row of c. *)
Writing(q, c) == pc[q] \in {"campaign", "chunk"} /\ Current(q) = c

(* While no save is torn: the lease of a chunk somebody works on is in the *)
(* journal, and who is about to write a chunk's row overwrites neither     *)
(* another's work nor a success.                                           *)
WorkInv ==
    ~torn =>
        /\ \A q \in Pods, c \in Chunks : Working(q, c) =>
              rows[c] = Row("RUNNING", q, held[q])
        /\ \A q \in Pods, c \in Chunks : Writing(q, c) =>
              /\ rows[c].status # "SUCCESS"
              /\ \A r \in Pods \ {q} : ~Working(r, c)

Inv == /\ TypeInv /\ JournalInv /\ WorkInv
       /\ \A q \in Procs : SaverInv(q)
       /\ \A q \in Pods : PodInv(q)

-----------------------------------------------------------------------------
(* Rows, and the chunk a pod is at *)

(* A set of chunks that is not empty has a first one, which is one of them: *)
(* the chunk a pod runs and the row a save appends are chunks of the plan.  *)
LEMMA FirstIs ==
    ASSUME NEW S \in SUBSET Chunks, S # {}
    PROVE  First(S) \in S /\ First(S) \in Chunks
  <1>1. S \in SUBSET Nat
    BY LedgerAssumption DEF Chunks
  <1>2. PICK c \in S : \A d \in S : ~(<<d, c>> \in OpToRel(<, Nat))
    BY <1>1, NatLessThanWellFounded, WFMin
  <1>3. \A d \in S : ~(d < c)
    BY <1>1, <1>2, Zenon DEF OpToRel
  <1>4. \A d \in S : c <= d
    BY <1>1, <1>3
  <1> QED
    BY <1>4 DEF First

(* The rows the code writes, told apart by their status. *)
LEMMA RowsAre ==
    /\ NoRow \in RowType /\ NoRow.status = "none"
    /\ \A s \in {"PENDING", "SUCCESS", "FAILED"} :
          /\ Row(s, Nobody, 0) \in RowType
          /\ Row(s, Nobody, 0).status = s
          /\ Row(s, Nobody, 0).until = 0
    /\ \A q \in Pods, t \in Times :
          /\ Row("RUNNING", q, t) \in RowType
          /\ Row("RUNNING", q, t).status = "RUNNING"
          /\ Row("RUNNING", q, t).owner = q
          /\ Row("RUNNING", q, t).until = t
  <1>1. /\ NoRow \in RowType
        /\ \A s \in {"PENDING", "SUCCESS", "FAILED"} : Row(s, Nobody, 0) \in RowType
        /\ \A q \in Pods, t \in Times : Row("RUNNING", q, t) \in RowType
    BY DEF RowType
  <1>2. \A s, o, t : /\ Row(s, o, t).status = s /\ Row(s, o, t).owner = o
                     /\ Row(s, o, t).until = t
    BY DEF Row
  <1>3. NoRow.status = "none"
    BY <1>2 DEF NoRow
  <1> QED
    BY <1>1, <1>2, <1>3

LEMMA RowCases ==
    ASSUME NEW r \in RowType
    PROVE  /\ r.status \in {"none", "PENDING", "SUCCESS", "FAILED", "RUNNING"}
           /\ (r = NoRow) <=> (r.status = "none")
           /\ r.until \in Times
           /\ r.status = "RUNNING" =>
                 r.owner \in Pods /\ r = Row("RUNNING", r.owner, r.until)
  <1>1. 0 \in Times
    BY LedgerAssumption DEF Times
  <1>2. CASE r = NoRow
    BY <1>1, <1>2 DEF NoRow, Row
  <1>3. CASE \E s \in {"PENDING", "SUCCESS", "FAILED"} : r = Row(s, Nobody, 0)
    BY <1>1, <1>3 DEF NoRow, Row
  <1>4. CASE \E q \in Pods, t \in Times : r = Row("RUNNING", q, t)
    BY <1>4 DEF NoRow, Row
  <1> QED
    BY <1>2, <1>3, <1>4 DEF RowType

LEMMA TimesAre ==
    /\ Times \subseteq Nat /\ 0 \in Times
    /\ \A t \in 0 .. MaxClock : t + TTL \in Times /\ t \in Nat
  BY LedgerAssumption DEF Times

LEMMA LedgersAre ==
    /\ NoLedger \in LedgerType
    /\ NoLedger.rows = [c \in Chunks |-> NoRow]
    /\ \A s \in Statuses, f \in [Chunks -> RowType] :
          /\ [status |-> s, rows |-> f] \in LedgerType
          /\ [status |-> s, rows |-> f].status = s
          /\ [status |-> s, rows |-> f].rows = f
    /\ \A l \in LedgerType :
          l.status \in Statuses /\ l.rows \in [Chunks -> RowType]
  BY RowsAre DEF NoLedger, LedgerType, Statuses

(* Pods are processes, the command line is one that is no pod. *)
LEMMA ProcsAre ==
    /\ \A q \in Pods : q \in Procs /\ q # CLI
    /\ CLI \in Procs /\ CLI \notin Pods /\ Nobody \notin Pods
  BY LedgerAssumption DEF Procs

LEMMA CurrentIs ==
    ASSUME TypeInv, NEW q \in Pods, todo[q] # {}
    PROVE  Current(q) \in todo[q] /\ Current(q) \in Chunks
  BY FirstIs DEF TypeInv, Current

-----------------------------------------------------------------------------
(* Steps of one process seen by the others *)

(* The journals never lose a row, a load or the campaign; time goes on. *)
Grows ==
    /\ campaign # "none" => campaign' # "none"
    /\ \A c \in Chunks : rows[c] # NoRow => rows'[c] # NoRow
    /\ \A c \in Chunks : loads[c] \subseteq loads'[c]
    /\ clock <= clock'

SameSave(q) == pc'[q] = pc[q] /\ seen'[q] = seen[q] /\ save'[q] = save[q]
SamePod(q) == todo'[q] = todo[q] /\ task'[q] = task[q] /\ held'[q] = held[q]

LEMMA SaverIsStable ==
    ASSUME TypeInv, NEW q \in Procs, Grows, SameSave(q), SaverInv(q),
           clock' \in 0 .. MaxClock
    PROVE  SaverInv(q)'
  <1>1. /\ seen[q] \in LedgerType /\ clock \in Nat /\ clock' \in Nat
        /\ \A c \in Chunks : seen[q].rows[c].until \in Nat
    <2>1. seen[q] \in LedgerType
      BY DEF TypeInv
    <2>2. \A c \in Chunks : seen[q].rows[c] \in RowType
      BY <2>1, LedgersAre
    <2> QED
      BY <2>1, <2>2, RowCases, TimesAre DEF TypeInv
  <1>2. \A t \in Nat : t <= clock => t <= clock'
    BY <1>1 DEF Grows
  <1> QED
    BY <1>1, <1>2 DEF SaverInv, Grows, SameSave

LEMMA PodIsStable ==
    ASSUME TypeInv, NEW q \in Pods, Grows, SameSave(q), SamePod(q), PodInv(q),
           pc[q] \in InTransition => chunkLock'[Current(q)] = q
    PROVE  PodInv(q)'
  <1>1. Current(q)' = Current(q) /\ NewRow(q)' = NewRow(q)
    BY DEF Current, NewRow, SamePod
  <1>2. pc[q] \in InTransition => Current(q) \in Chunks
    BY CurrentIs DEF PodInv, InChunk
  <1>3. \A c \in Chunks : loads[c] # {} => loads'[c] # {}
    BY DEF Grows
  <1>4. Selection[q] \subseteq Chunks
    BY LedgerAssumption
  <1> QED
    BY <1>1, <1>2, <1>3, <1>4 DEF PodInv, Grows, SameSave, SamePod

(* A step that leaves the rows alone and makes nobody work or write. *)
LEMMA WorkIsStable ==
    ASSUME TypeInv, WorkInv, NEW p \in Procs, rows' = rows, torn' = torn,
           clock <= clock', clock' \in 0 .. MaxClock,
           \A q \in Pods \ {p} : pc'[q] = pc[q] /\ SamePod(q),
           p \in Pods =>
              /\ \A c \in Chunks : Working(p, c)' =>
                    Working(p, c) /\ held'[p] = held[p]
              /\ \A c \in Chunks : Writing(p, c)' => Writing(p, c)
    PROVE  WorkInv'
  <1>0. \A q \in Pods \ {p} : held[q] \in Nat
    BY TimesAre DEF TypeInv
  <1>1. clock \in Nat /\ clock' \in Nat
    BY TimesAre DEF TypeInv
  <1>2. \A q \in Pods, c \in Chunks : Working(q, c)' =>
            Working(q, c) /\ held'[q] = held[q]
    <2> SUFFICES ASSUME NEW q \in Pods, NEW c \in Chunks, Working(q, c)', q # p
                 PROVE  Working(q, c) /\ held'[q] = held[q]
      OBVIOUS
    <2>1. held[q] > clock' => held[q] > clock
      BY <1>0, <1>1
    <2> QED
      BY <2>1 DEF Working, Current, SamePod
  <1>3. \A q \in Pods, c \in Chunks : Writing(q, c)' => Writing(q, c)
    BY DEF Writing, Current, SamePod
  <1> QED
    BY <1>2, <1>3, Zenon DEF WorkInv

-----------------------------------------------------------------------------
(* Tables and case distinctions of the transitions *)

LEMMA AfterIs ==
    /\ AfterGrant["claim"] = "prove" /\ AfterGrant["prove"] = "run"
    /\ AfterGrant["beat"] = "run" /\ AfterGrant["success"] = "next"
    /\ AfterGrant["failure"] = "report"
    /\ AfterRefusal["claim"] = "refused" /\ AfterRefusal["prove"] = "fail"
    /\ AfterRefusal["beat"] = "run" /\ AfterRefusal["success"] = "report"
    /\ AfterRefusal["failure"] = "report"
  BY DEF AfterGrant, AfterRefusal

LEMMA NewRowIs ==
    ASSUME TypeInv, NEW q \in Pods, task[q].kind \in Kinds
    PROVE  /\ NewRow(q) \in RowType /\ NewRow(q) # NoRow
           /\ task[q].kind = "success" => NewRow(q) = Row("SUCCESS", Nobody, 0)
           /\ task[q].kind = "failure" => NewRow(q) = Row("FAILED", Nobody, 0)
           /\ task[q].kind \in {"claim", "prove", "beat"} =>
                 NewRow(q) = Row("RUNNING", q, task[q].until)
  <1>1. task[q].kind \in {"claim", "prove", "beat"} =>
            task[q].kind # "success" /\ task[q].kind # "failure"
    OBVIOUS
  <1>2. /\ task[q].kind = "success" => NewRow(q) = Row("SUCCESS", Nobody, 0)
        /\ task[q].kind = "failure" => NewRow(q) = Row("FAILED", Nobody, 0)
        /\ task[q].kind \in {"claim", "prove", "beat"} =>
                 NewRow(q) = Row("RUNNING", q, task[q].until)
    BY <1>1, Zenon DEF NewRow
  <1>3. task[q].until \in Times
    BY DEF TypeInv
  <1>4. \/ task[q].kind = "success" \/ task[q].kind = "failure"
        \/ task[q].kind \in {"claim", "prove", "beat"}
    BY DEF Kinds
  <1> QED
    BY <1>2, <1>3, <1>4, RowsAre

LEMMA AllowedIs ==
    ASSUME NEW q \in Pods, NEW row, task[q].kind \in Kinds, Allowed(q, row)
    PROVE  /\ task[q].kind = "claim" => MayClaim(q, row)
           /\ task[q].kind \in {"prove", "beat"} => MayRenew(q, row)
           /\ task[q].kind \in {"success", "failure"} => MayComplete(q, row)
  <1>1. task[q].kind \in {"success", "failure"} =>
            task[q].kind # "claim" /\ task[q].kind \notin {"prove", "beat"}
    OBVIOUS
  <1>2. task[q].kind \in {"prove", "beat"} => task[q].kind # "claim"
    OBVIOUS
  <1> QED
    BY <1>1, <1>2, Zenon DEF Allowed

-----------------------------------------------------------------------------
(* Steps that leave the journals alone *)

(* Such a step of p keeps the invariant if p is where it may be after it,  *)
(* takes nobody's lock and starts neither to work nor to write.            *)
LEMMA QuietStep ==
    ASSUME Inv, NEW p \in Procs, TypeInv',
           UNCHANGED <<campaign, rows, loads, torn, clock>>,
           \A q \in Procs \ {p} : SameSave(q),
           \A q \in Pods \ {p} : SamePod(q) /\
              (pc[q] \in InTransition => chunkLock'[Current(q)] = q),
           SaverInv(p)', p \in Pods => PodInv(p)',
           p \in Pods => \A c \in Chunks :
              /\ Working(p, c)' => Working(p, c) /\ held'[p] = held[p]
              /\ Writing(p, c)' => Writing(p, c)
    PROVE  Inv'
  <1>1. Grows /\ clock' \in 0 .. MaxClock /\ clock <= clock'
    BY DEF Grows, Inv, TypeInv
  <1>2. JournalInv'
    BY DEF JournalInv, Inv
  <1>3. WorkInv'
    <2>1. \A q \in Pods \ {p} : pc'[q] = pc[q] /\ SamePod(q)
      BY ProcsAre DEF SameSave
    <2> QED
      BY <1>1, <2>1, WorkIsStable DEF Inv
  <1>4. \A q \in Procs : SaverInv(q)'
    BY <1>1, SaverIsStable DEF Inv
  <1>5. \A q \in Pods : PodInv(q)'
    BY <1>1, ProcsAre, PodIsStable DEF Inv
  <1> QED
    BY <1>2, <1>3, <1>4, <1>5 DEF Inv

(* A process that is not about to save needs nothing of what it saved. *)
LEMMA NoSaver ==
    ASSUME Inv, NEW p \in Procs, UNCHANGED <<rows, loads>>,
           save'[p] \in {save[p], NoSave}, pc'[p] \notin Saving
    PROVE  SaverInv(p)'
  <1>1. \A c \in Chunks : NoSave.ledger.rows[c].status = "none"
    BY LedgersAre, RowsAre DEF NoSave
  <1> QED
    BY <1>1 DEF SaverInv, Inv, Saving, Untouched

LEMMA AcquireInitStep ==
    ASSUME Inv, NEW p \in Pods, AcquireInit(p)
    PROVE  Inv'
  <1> USE DEF AcquireInit, Moves, Goto, ledgerVars, podVars, worldVars
  <1>0. p \in Procs /\ pc[p] = "start" /\ pc'[p] \in {"init", "busy"}
    BY ProcsAre DEF Inv, TypeInv
  <1>1. TypeInv'
    BY <1>0 DEF Inv, TypeInv, PCs, Ended
  <1>2. SaverInv(p)'
    BY <1>0, NoSaver DEF Saving
  <1>3. PodInv(p)'
    BY <1>0 DEF PodInv, Saving, Planned, InChunk, InTransition
  <1>4. /\ \A q \in Procs \ {p} : SameSave(q)
        /\ \A q \in Pods \ {p} : SamePod(q) /\
              (pc[q] \in InTransition => chunkLock'[Current(q)] = q)
    BY DEF SameSave, SamePod, Inv, TypeInv, PodInv
  <1>5. \A c \in Chunks : ~Working(p, c)' /\ ~Writing(p, c)'
    BY <1>0 DEF Working, Writing
  <1> QED
    BY <1>0, <1>1, <1>2, <1>3, <1>4, <1>5, QuietStep

LEMMA ReleaseInitStep ==
    ASSUME Inv, NEW p \in Pods, ReleaseInit(p)
    PROVE  Inv'
  <1> USE DEF ReleaseInit, Moves, Goto, ledgerVars, podVars, worldVars
  <1>0. p \in Procs /\ pc[p] = "release" /\ pc'[p] = "select"
    BY ProcsAre DEF Inv, TypeInv
  <1>1. TypeInv'
    BY <1>0 DEF Inv, TypeInv, PCs, Planned
  <1>2. SaverInv(p)'
    BY <1>0, NoSaver DEF Saving
  <1>3. PodInv(p)'
    BY <1>0 DEF PodInv, Saving, Planned, InChunk, InTransition, Inv
  <1>4. /\ \A q \in Procs \ {p} : SameSave(q)
        /\ \A q \in Pods \ {p} : SamePod(q) /\
              (pc[q] \in InTransition => chunkLock'[Current(q)] = q)
    BY DEF SameSave, SamePod, Inv, TypeInv, PodInv
  <1>5. \A c \in Chunks : ~Working(p, c)' /\ ~Writing(p, c)'
    BY <1>0 DEF Working, Writing
  <1> QED
    BY <1>0, <1>1, <1>2, <1>3, <1>4, <1>5, QuietStep

LEMMA SelectPendingStep ==
    ASSUME Inv, NEW p \in Pods, SelectPending(p)
    PROVE  Inv'
  <1> USE DEF SelectPending, Moves, Goto, ledgerVars, lockVars, worldVars
  <1>0. p \in Procs /\ pc[p] = "select" /\ pc'[p] \in {"cancelled", "bind"}
    BY ProcsAre DEF Inv, TypeInv
  <1>1. TypeInv'
    <2>1. Selection[p] \ Committed \in SUBSET Chunks
      BY LedgerAssumption
    <2>2. pc' \in [Procs -> PCs]
      BY <1>0 DEF Inv, TypeInv, PCs, Planned, Ended
    <2>3. todo' \in [Pods -> SUBSET Chunks]
      BY <2>1 DEF Inv, TypeInv
    <2> QED
      BY <2>2, <2>3 DEF Inv, TypeInv
  <1>2. SaverInv(p)'
    BY <1>0, NoSaver DEF Saving
  <1>3. PodInv(p)'
    BY <1>0 DEF PodInv, Saving, Planned, InChunk, InTransition, Inv
  <1>4. /\ \A q \in Procs \ {p} : SameSave(q)
        /\ \A q \in Pods \ {p} : SamePod(q) /\
              (pc[q] \in InTransition => chunkLock'[Current(q)] = q)
    BY DEF SameSave, SamePod, Inv, TypeInv, PodInv
  <1>5. \A c \in Chunks : ~Working(p, c)' /\ ~Writing(p, c)'
    BY <1>0 DEF Working, Writing
  <1> QED
    BY <1>0, <1>1, <1>2, <1>3, <1>4, <1>5, QuietStep

LEMMA BindStep ==
    ASSUME Inv, NEW p \in Pods, Bind(p)
    PROVE  Inv'
  <1> USE DEF Bind, Moves, Goto, ledgerVars, lockVars, podVars, worldVars
  <1>0. p \in Procs /\ pc[p] = "bind" /\ pc'[p] \in {"next", "busy"}
    BY ProcsAre DEF Inv, TypeInv
  <1>1. TypeInv'
    BY <1>0 DEF Inv, TypeInv, PCs, Planned, Ended
  <1>2. SaverInv(p)'
    BY <1>0, NoSaver DEF Saving
  <1>3. PodInv(p)'
    BY <1>0 DEF PodInv, Saving, Planned, InChunk, InTransition, Inv
  <1>4. /\ \A q \in Procs \ {p} : SameSave(q)
        /\ \A q \in Pods \ {p} : SamePod(q) /\
              (pc[q] \in InTransition => chunkLock'[Current(q)] = q)
    BY DEF SameSave, SamePod, Inv, TypeInv, PodInv
  <1>5. \A c \in Chunks : ~Working(p, c)' /\ ~Writing(p, c)'
    BY <1>0 DEF Working, Writing
  <1> QED
    BY <1>0, <1>1, <1>2, <1>3, <1>4, <1>5, QuietStep

LEMMA ClaimRefusedStep ==
    ASSUME Inv, NEW p \in Pods, ClaimRefused(p)
    PROVE  Inv'
  <1> USE DEF ClaimRefused, Moves, Goto, ledgerVars, lockVars, worldVars
  <1>0. p \in Procs /\ pc[p] = "refused" /\ pc'[p] = "report"
    BY ProcsAre DEF Inv, TypeInv
  <1>1. TypeInv'
    <2>1. (campaign = "cancel_requested" \/ Current(p) \notin Committed) \in BOOLEAN
      BY Zenon
    <2>2. errors' \in [Pods -> BOOLEAN]
      BY <2>1, Zenon DEF Inv, TypeInv
    <2>3. pc' \in [Procs -> PCs]
      BY <1>0 DEF Inv, TypeInv, PCs, Planned
    <2> QED
      BY <2>2, <2>3, Zenon DEF Inv, TypeInv
  <1>2. SaverInv(p)'
    BY <1>0, NoSaver DEF Saving
  <1>3. PodInv(p)'
    BY <1>0 DEF PodInv, Saving, Planned, InChunk, InTransition, Inv
  <1>4. /\ \A q \in Procs \ {p} : SameSave(q)
        /\ \A q \in Pods \ {p} : SamePod(q) /\
              (pc[q] \in InTransition => chunkLock'[Current(q)] = q)
    BY DEF SameSave, SamePod, Inv, TypeInv, PodInv
  <1>5. \A c \in Chunks : ~Working(p, c)' /\ ~Writing(p, c)'
    BY <1>0 DEF Working, Writing
  <1> QED
    BY <1>0, <1>1, <1>2, <1>3, <1>4, <1>5, QuietStep

LEMMA RunnerRaisesStep ==
    ASSUME Inv, NEW p \in Pods, RunnerRaises(p)
    PROVE  Inv'
  <1> USE DEF RunnerRaises, Moves, Goto, ledgerVars, lockVars, worldVars
  <1>0. p \in Procs /\ pc[p] = "run" /\ pc'[p] = "fail"
    BY ProcsAre DEF Inv, TypeInv
  <1>1. TypeInv'
    <2>1. errors' \in [Pods -> BOOLEAN]
      BY Zenon DEF Inv, TypeInv
    <2>2. pc' \in [Procs -> PCs]
      BY <1>0 DEF Inv, TypeInv, PCs, Planned, InChunk
    <2> QED
      BY <2>1, <2>2, Zenon DEF Inv, TypeInv
  <1>2. SaverInv(p)'
    BY <1>0, NoSaver DEF Saving
  <1>3. PodInv(p)'
    BY <1>0 DEF PodInv, Saving, Planned, InChunk, InTransition, Inv
  <1>4. /\ \A q \in Procs \ {p} : SameSave(q)
        /\ \A q \in Pods \ {p} : SamePod(q) /\
              (pc[q] \in InTransition => chunkLock'[Current(q)] = q)
    BY DEF SameSave, SamePod, Inv, TypeInv, PodInv
  <1>5. \A c \in Chunks : ~Working(p, c)' /\ ~Writing(p, c)'
    BY <1>0 DEF Working, Writing
  <1> QED
    BY <1>0, <1>1, <1>2, <1>3, <1>4, <1>5, QuietStep

(* The report: a pod says success only when the journal says SUCCESS of    *)
(* every chunk of its item, and that the journal says only of loaded rows. *)
LEMMA ReportStep ==
    ASSUME Inv, NEW p \in Pods, Report(p)
    PROVE  Inv'
  <1> USE DEF Report, Goto, Gone, ledgerVars, lockVars, worldVars
  <1>0. p \in Procs /\ pc'[p] \in {"cancelled", "success", "error"}
    BY ProcsAre DEF Inv, TypeInv
  <1>1. TypeInv'
    <2>1. errors' \in [Pods -> BOOLEAN] /\ healthy' \in [Pods -> BOOLEAN]
      BY Zenon DEF Inv, TypeInv
    <2>2. pc' \in [Procs -> PCs]
      BY <1>0 DEF Inv, TypeInv, PCs, Ended
    <2>3. todo' \in [Pods -> SUBSET Chunks] /\ held' \in [Pods -> Times]
      BY TimesAre DEF Inv, TypeInv
    <2>4. task' \in [Pods -> [kind : Kinds \cup {"none"}, until : Times,
                              status : Statuses, row : RowType]]
      BY TimesAre, RowsAre DEF Inv, TypeInv, NoTask, Statuses
    <2> QED
      BY <2>1, <2>2, <2>3, <2>4, Zenon DEF Inv, TypeInv
  <1>2. SaverInv(p)'
    BY <1>0, NoSaver DEF Saving
  <1>3. PodInv(p)'
    <2>1. pc'[p] = "success" => \A c \in Selection[p] : loads[c] # {}
      <3>1. pc'[p] = "success" => Selection[p] \subseteq Committed
        BY DEF ItemComplete, Inv, TypeInv, Procs
      <3> QED
        BY <3>1 DEF Committed, Inv, JournalInv
    <2> QED
      BY <1>0, <2>1 DEF PodInv, Saving, Planned, InChunk, InTransition
  <1>4. /\ \A q \in Procs \ {p} : SameSave(q)
        /\ \A q \in Pods \ {p} : SamePod(q) /\
              (pc[q] \in InTransition => chunkLock'[Current(q)] = q)
    BY DEF SameSave, SamePod, Inv, TypeInv, PodInv
  <1>5. \A c \in Chunks : ~Working(p, c)' /\ ~Writing(p, c)'
    BY <1>0 DEF Working, Writing
  <1> QED
    BY <1>0, <1>1, <1>2, <1>3, <1>4, <1>5, QuietStep

(* A pod dies and its session gives every lock back: its own only. *)
LEMMA CrashStep ==
    ASSUME Inv, NEW p \in Pods, Crash(p)
    PROVE  Inv'
  <1> USE DEF Crash, Goto, Gone, ledgerVars
  <1>0. p \in Procs /\ pc'[p] = "dead" /\ save'[p] = NoSave
    BY ProcsAre DEF Inv, TypeInv
  <1>1. TypeInv'
    <2>1. errors' \in [Pods -> BOOLEAN] /\ healthy' \in [Pods -> BOOLEAN]
      BY Zenon DEF Inv, TypeInv
    <2>2. pc' \in [Procs -> PCs]
      BY <1>0 DEF Inv, TypeInv, PCs, Ended
    <2>3. todo' \in [Pods -> SUBSET Chunks] /\ held' \in [Pods -> Times]
      BY TimesAre DEF Inv, TypeInv
    <2>4. task' \in [Pods -> [kind : Kinds \cup {"none"}, until : Times,
                              status : Statuses, row : RowType]]
      BY TimesAre, RowsAre DEF Inv, TypeInv, NoTask, Statuses
    <2>5. seen' \in [Procs -> LedgerType]
      BY LedgersAre DEF Inv, TypeInv
    <2>6. save' \in [Procs -> [ledger : LedgerType, left : SUBSET Chunks,
                           then : {"none", "recover", "release", "acknowledged"}]]
      BY LedgersAre DEF Inv, TypeInv, NoSave
    <2>7. /\ initLock' \in Pods \cup {Nobody}
          /\ chunkLock' \in [Chunks -> Pods \cup {Nobody}]
      BY DEF Inv, TypeInv
    <2>8. faults' \in 0 .. MaxFaults
      BY LedgerAssumption DEF Inv, TypeInv
    <2> QED
      BY <2>1, <2>2, <2>3, <2>4, <2>5, <2>6, <2>7, <2>8, Zenon DEF Inv, TypeInv
  <1>2. SaverInv(p)'
    BY <1>0, NoSaver DEF Saving
  <1>3. PodInv(p)'
    BY <1>0 DEF PodInv, Saving, Planned, InChunk, InTransition
  <1>4. /\ \A q \in Procs \ {p} : SameSave(q)
        /\ \A q \in Pods \ {p} : SamePod(q)
    BY DEF SameSave, SamePod, Inv, TypeInv
  <1>5. \A q \in Pods \ {p} :
            pc[q] \in InTransition => chunkLock'[Current(q)] = q
    <2> SUFFICES ASSUME NEW q \in Pods \ {p}, pc[q] \in InTransition
                 PROVE  chunkLock'[Current(q)] = q
      OBVIOUS
    <2>1. chunkLock[Current(q)] = q /\ todo[q] # {}
      BY DEF Inv, PodInv, InChunk
    <2>2. Current(q) \in Chunks
      BY <2>1, CurrentIs DEF Inv
    <2> QED
      BY <2>1, <2>2
  <1>6. \A c \in Chunks : ~Working(p, c)' /\ ~Writing(p, c)'
    BY <1>0 DEF Working, Writing
  <1> QED
    BY <1>0, <1>1, <1>2, <1>3, <1>4, <1>5, <1>6, QuietStep

LEMMA TickStep ==
    ASSUME Inv, Tick
    PROVE  Inv'
  <1> USE DEF Tick, ledgerVars, lockVars, podVars
  <1>1. clock' \in 0 .. MaxClock /\ clock <= clock'
    BY LedgerAssumption DEF Inv, TypeInv
  <1>2. TypeInv'
    BY <1>1 DEF Inv, TypeInv
  <1>3. Grows
    BY <1>1 DEF Grows
  <1>4. \A q \in Procs : SameSave(q)
    BY DEF SameSave
  <1>5. \A q \in Pods : SamePod(q)
    BY DEF SamePod
  <1>6. JournalInv'
    BY DEF Inv, JournalInv
  <1>7. \A q \in Procs : SaverInv(q)'
    BY <1>1, <1>3, <1>4, SaverIsStable DEF Inv
  <1>8. \A q \in Pods : PodInv(q)'
    <2>1. \A q \in Pods : pc[q] \in InTransition => chunkLock'[Current(q)] = q
      BY DEF Inv, PodInv
    <2> QED
      BY <1>3, <1>4, <1>5, <2>1, ProcsAre, PodIsStable DEF Inv
  <1>9. WorkInv'
    <2>1. \A q \in Pods \ {CLI} : pc'[q] = pc[q] /\ SamePod(q)
      BY <1>5
    <2> QED
      BY <1>1, <2>1, ProcsAre, WorkIsStable DEF Inv, worldVars
  <1> QED
    BY <1>2, <1>6, <1>7, <1>8, <1>9 DEF Inv

LEMMA RunnerLoadsStep ==
    ASSUME Inv, NEW p \in Pods, RunnerLoads(p)
    PROVE  Inv'
  <1> USE DEF RunnerLoads, ledgerVars, lockVars, podVars
  <1>0. Current(p) \in Chunks
    BY CurrentIs DEF Inv, PodInv, InChunk
  <1>1. /\ loads' \in [Chunks -> SUBSET Pods]
        /\ \A c \in Chunks : loads[c] \subseteq loads'[c]
    BY <1>0 DEF Inv, TypeInv
  <1>2. TypeInv'
    BY <1>1 DEF Inv, TypeInv
  <1>3. Grows /\ clock' \in 0 .. MaxClock /\ clock <= clock'
    BY <1>1 DEF Grows, Inv, TypeInv
  <1>4. \A q \in Procs : SameSave(q)
    BY DEF SameSave
  <1>5. \A q \in Pods : SamePod(q)
    BY DEF SamePod
  <1>6. JournalInv'
    <2>1. \A c \in Chunks : loads[c] # {} => loads'[c] # {}
      BY <1>1
    <2> QED
      BY <2>1 DEF Inv, JournalInv
  <1>7. \A q \in Procs : SaverInv(q)'
    BY <1>3, <1>4, SaverIsStable DEF Inv
  <1>8. \A q \in Pods : PodInv(q)'
    <2>1. \A q \in Pods : pc[q] \in InTransition => chunkLock'[Current(q)] = q
      BY DEF Inv, PodInv
    <2> QED
      BY <1>3, <1>4, <1>5, <2>1, ProcsAre, PodIsStable DEF Inv
  <1>9. WorkInv'
    <2>1. \A q \in Pods \ {CLI} : pc'[q] = pc[q] /\ SamePod(q)
      BY <1>5
    <2> QED
      BY <1>3, <2>1, ProcsAre, WorkIsStable DEF Inv, worldVars
  <1> QED
    BY <1>2, <1>6, <1>7, <1>8, <1>9 DEF Inv

-----------------------------------------------------------------------------
(* Transitions: lock and decide *)

(* The lock is granted only when nobody has it, so no other transition     *)
(* loses its own; a refused one makes nobody work who did not before.      *)
LEMMA BeginStep ==
    ASSUME Inv, NEW p \in Pods, NEW kind \in Kinds, Begin(p, kind),
           todo[p] # {}, pc[p] \in {"next", "prove", "run", "fail"},
           kind = "prove" => pc[p] = "prove", kind = "beat" => pc[p] = "run",
           kind = "success" => loads[Current(p)] # {}
    PROVE  Inv'
  <1> DEFINE c == Current(p)
             new == [kind |-> kind, until |-> clock + TTL, status |-> campaign,
                     row |-> NoRow]
  <1> USE DEF ledgerVars, worldVars
  <1>0. p \in Procs /\ c \in Chunks /\ c \in todo[p]
    BY ProcsAre, CurrentIs DEF Inv
  <1>1. /\ UNCHANGED <<campaign, rows, loads, torn, clock, seen, save, held>>
        /\ UNCHANGED <<initLock, todo, faults>>
    BY DEF Begin, Refused
  <1>2. \A d \in Chunks : rows[d] # NoRow
    BY DEF Inv, PodInv, Planned, InChunk
  <1>3. \A q \in Pods \ {p} : pc[q] \in InTransition =>
            chunkLock[Current(q)] = q /\ Current(q) \in Chunks /\ q # Nobody
    BY CurrentIs, ProcsAre DEF Inv, PodInv, InChunk
  <1>4. CASE LockFree(c) /\ chunkLock' = [chunkLock EXCEPT ![c] = p]
             /\ task' = [task EXCEPT ![p] = new] /\ Goto(p, "decide")
             /\ UNCHANGED <<healthy, errors>>
    <2>1. TypeInv'
      <3>1. pc' \in [Procs -> PCs]
        BY <1>0, <1>4 DEF Goto, Inv, TypeInv, PCs, Planned, InChunk, InTransition
      <3>2. new \in [kind : Kinds \cup {"none"}, until : Times,
                     status : Statuses, row : RowType]
        BY TimesAre, RowsAre DEF Inv, TypeInv
      <3>3. /\ task' \in [Pods -> [kind : Kinds \cup {"none"}, until : Times,
                                   status : Statuses, row : RowType]]
            /\ chunkLock' \in [Chunks -> Pods \cup {Nobody}]
        BY <1>0, <1>4, <3>2 DEF Inv, TypeInv
      <3> QED
        BY <1>1, <1>4, <3>1, <3>3, Zenon DEF Inv, TypeInv
    <2>2. pc'[p] = "decide" /\ task'[p].kind = kind /\ chunkLock'[c] = p
      BY <1>0, <1>4 DEF Goto, Inv, TypeInv
    <2>3. SaverInv(p)'
      BY <1>0, <1>1, <2>2, NoSaver DEF Saving
    <2>4. PodInv(p)'
      <3>1. Current(p)' = c
        BY <1>1 DEF Current
      <3> QED
        BY <1>1, <1>2, <2>2, <3>1 DEF PodInv, Saving, InChunk, InTransition
    <2>5. \A q \in Procs \ {p} : SameSave(q)
      BY <1>1, <1>4 DEF SameSave, Goto, Inv, TypeInv
    <2>6. \A q \in Pods \ {p} : SamePod(q) /\
              (pc[q] \in InTransition => chunkLock'[Current(q)] = q)
      BY <1>0, <1>1, <1>3, <1>4 DEF SamePod, LockFree, Inv, TypeInv
    <2>7. \A d \in Chunks :
              /\ Working(p, d)' => Working(p, d) /\ held'[p] = held[p]
              /\ ~Writing(p, d)'
      BY <1>1, <2>2 DEF Working, Writing, Current, Kinds
    <2> QED
      BY <1>0, <1>1, <2>1, <2>3, <2>4, <2>5, <2>6, <2>7, QuietStep
  <1>5. CASE Refused(p, kind) /\ UNCHANGED chunkLock
    <2>2. /\ pc'[p] = AfterRefusal[kind] /\ task'[p] = NoTask
          /\ pc'[p] \in {"refused", "fail", "run", "report"}
          /\ pc'[p] = "run" => pc[p] = "run"
      BY <1>0, <1>5, AfterIs DEF Refused, Goto, Inv, TypeInv, Kinds
    <2>1. TypeInv'
      <3>1. pc' \in [Procs -> PCs]
        BY <1>0, <1>5, <2>2
           DEF Refused, Goto, Inv, TypeInv, PCs, Planned, InChunk
      <3>2. NoTask \in [kind : Kinds \cup {"none"}, until : Times,
                        status : Statuses, row : RowType]
        BY TimesAre, RowsAre DEF NoTask, Statuses
      <3>3. task' \in [Pods -> [kind : Kinds \cup {"none"}, until : Times,
                                status : Statuses, row : RowType]]
        BY <1>5, <3>2 DEF Refused, Inv, TypeInv
      <3>4. healthy' \in [Pods -> BOOLEAN] /\ errors' \in [Pods -> BOOLEAN]
        BY <1>5, Zenon DEF Refused, Inv, TypeInv
      <3> QED
        BY <1>1, <1>5, <3>1, <3>3, <3>4, Zenon DEF Inv, TypeInv
    <2>3. SaverInv(p)'
      BY <1>0, <1>1, <2>2, NoSaver DEF Saving
    <2>4. PodInv(p)'
      BY <1>1, <1>2, <2>2 DEF PodInv, Saving, InChunk, InTransition
    <2>5. \A q \in Procs \ {p} : SameSave(q)
      BY <1>1, <1>5 DEF SameSave, Refused, Goto, Inv, TypeInv
    <2>6. \A q \in Pods \ {p} : SamePod(q) /\
              (pc[q] \in InTransition => chunkLock'[Current(q)] = q)
      BY <1>0, <1>1, <1>3, <1>5 DEF SamePod, Refused, Inv, TypeInv
    <2>7. \A d \in Chunks :
              /\ Working(p, d)' => Working(p, d) /\ held'[p] = held[p]
              /\ ~Writing(p, d)'
      BY <1>1, <2>2 DEF Working, Writing, Current
    <2> QED
      BY <1>0, <1>1, <2>1, <2>3, <2>4, <2>5, <2>6, <2>7, QuietStep
  <1> QED
    BY <1>4, <1>5 DEF Begin, NoTask

(* The decision under the lock.  A pod that is let through to write may    *)
(* do so because the row is not a SUCCESS and is nobody else's lease.      *)
LEMMA DecideStep ==
    ASSUME Inv, NEW p \in Pods, Decide(p)
    PROVE  Inv'
  <1> DEFINE c == Current(p)
             kind == task[p].kind
             unlock == chunkLock' = [chunkLock EXCEPT ![c] = Nobody]
             short == kind \in {"prove", "beat"} /\ task[p].until <= rows[c].until
             on == [task[p] EXCEPT !.row = NewRow(p), !.status = campaign]
             Tasks == [kind : Kinds \cup {"none"}, until : Times,
                       status : Statuses, row : RowType]
  <1> USE DEF ledgerVars, worldVars
  <1>0. /\ p \in Procs /\ pc[p] = "decide" /\ kind \in Kinds /\ chunkLock[c] = p
        /\ todo[p] # {} /\ c \in Chunks
        /\ kind = "success" => loads[c] # {}
    BY ProcsAre, CurrentIs DEF Decide, Inv, PodInv, InChunk, InTransition
  <1>1. /\ UNCHANGED <<campaign, rows, loads, torn, clock, seen, save, held>>
        /\ UNCHANGED <<initLock, faults>>
    BY DEF Decide
  <1>2. /\ \A d \in Chunks : rows[d] # NoRow
        /\ campaign # "none"
    BY <1>0 DEF Inv, PodInv, Planned, InChunk, InTransition, JournalInv
  <1>3. \A q \in Pods \ {p} : pc[q] \in InTransition =>
            chunkLock[Current(q)] = q /\ Current(q) \in Chunks /\ Current(q) # c
    BY <1>0, CurrentIs, ProcsAre DEF Inv, PodInv, InChunk
  <1>4. NoTask \in Tasks
    BY TimesAre, RowsAre DEF NoTask, Statuses
  <1>5. CASE unlock /\ UNCHANGED todo /\ task' = [task EXCEPT ![p] = NoTask]
             /\ healthy' \in [Pods -> BOOLEAN] /\ errors' \in [Pods -> BOOLEAN]
             /\ \E to \in {"refused", "fail", "run", "report"} :
                   /\ Goto(p, to)
                   /\ to = "run" => kind \in {"prove", "beat"}
    <2>1. PICK to \in {"refused", "fail", "run", "report"} :
              Goto(p, to) /\ (to = "run" => kind \in {"prove", "beat"})
      BY <1>5
    <2>2. pc'[p] = to /\ \A q \in Procs \ {p} : pc'[q] = pc[q]
      BY <1>0, <2>1 DEF Goto, Inv, TypeInv
    <2>3. TypeInv'
      <3>1. pc' \in [Procs -> PCs]
        BY <2>1 DEF Goto, Inv, TypeInv, PCs, Planned, InChunk
      <3>2. task' \in [Pods -> Tasks]
        BY <1>4, <1>5 DEF Inv, TypeInv
      <3>3. chunkLock' \in [Chunks -> Pods \cup {Nobody}]
        BY <1>5 DEF Inv, TypeInv
      <3> QED
        BY <1>1, <1>5, <3>1, <3>2, <3>3, Zenon DEF Inv, TypeInv
    <2>4. SaverInv(p)'
      BY <1>0, <1>1, <2>2, NoSaver DEF Saving
    <2>5. PodInv(p)'
      BY <1>0, <1>1, <1>2, <1>5, <2>2 DEF PodInv, Saving, InChunk, InTransition
    <2>6. \A q \in Procs \ {p} : SameSave(q)
      BY <1>1, <2>2 DEF SameSave
    <2>7. \A q \in Pods \ {p} : SamePod(q) /\
              (pc[q] \in InTransition => chunkLock'[Current(q)] = q)
      BY <1>0, <1>1, <1>3, <1>5 DEF SamePod, Inv, TypeInv
    <2>8. \A d \in Chunks :
              /\ Working(p, d)' => Working(p, d) /\ held'[p] = held[p]
              /\ ~Writing(p, d)'
      BY <1>0, <1>1, <1>5, <2>1, <2>2 DEF Working, Writing, Current
    <2> QED
      BY <1>0, <1>1, <2>3, <2>4, <2>5, <2>6, <2>7, <2>8, QuietStep
  <1>6. CASE Refused(p, kind) /\ unlock
    <2>1. healthy' \in [Pods -> BOOLEAN] /\ errors' \in [Pods -> BOOLEAN]
      BY <1>6, Zenon DEF Refused, Inv, TypeInv
    <2>2. /\ AfterRefusal[kind] \in {"refused", "fail", "run", "report"}
          /\ AfterRefusal[kind] = "run" => kind \in {"prove", "beat"}
      BY <1>0, AfterIs DEF Kinds
    <2>3. Goto(p, AfterRefusal[kind])
      BY <1>6 DEF Refused
    <2> QED
      BY <1>5, <1>6, <2>1, <2>2, <2>3 DEF Refused
  <1>7. CASE short /\ Granted(p, kind) /\ unlock
    <2>1. AfterGrant[kind] = "run" /\ kind # "success"
      BY <1>7, AfterIs
    <2>2. Goto(p, "run") /\ UNCHANGED <<todo, healthy, errors>>
          /\ task' = [task EXCEPT ![p] = NoTask]
      BY <1>7, <2>1 DEF Granted
    <2>3. healthy' \in [Pods -> BOOLEAN] /\ errors' \in [Pods -> BOOLEAN]
      BY <2>2, Zenon DEF Inv, TypeInv
    <2> QED
      BY <1>5, <1>7, <2>2, <2>3
  <1>8. CASE Allowed(p, rows[c]) /\ task' = [task EXCEPT ![p] = on]
             /\ Goto(p, "campaign") /\ UNCHANGED <<chunkLock, todo, healthy, errors>>
    <2>1. /\ task[p] \in Tasks /\ on \in Tasks
          /\ on.kind = kind /\ on.row = NewRow(p) /\ on.status = campaign
          /\ on.until = task[p].until
      BY <1>0, NewRowIs DEF Inv, TypeInv
    <2>2. pc'[p] = "campaign" /\ \A q \in Procs \ {p} : pc'[q] = pc[q]
      BY <1>0, <1>8 DEF Goto, Inv, TypeInv
    <2>3. task'[p] = on /\ \A q \in Pods \ {p} : task'[q] = task[q]
      BY <1>8 DEF Inv, TypeInv
    <2>4. TypeInv'
      <3>1. pc' \in [Procs -> PCs]
        BY <1>8 DEF Goto, Inv, TypeInv, PCs, Planned, InChunk, InTransition
      <3>2. task' \in [Pods -> Tasks]
        BY <1>8, <2>1 DEF Inv, TypeInv
      <3> QED
        BY <1>1, <1>8, <3>1, <3>2, Zenon DEF Inv, TypeInv
    <2>5. SaverInv(p)'
      BY <1>0, <1>1, <2>2, NoSaver DEF Saving
    <2>6. PodInv(p)'
      <3>1. Current(p)' = c
        BY <1>8 DEF Current
      <3>2. NewRow(p)' = NewRow(p)
        BY <2>1, <2>3, Zenon DEF NewRow
      <3> QED
        BY <1>0, <1>1, <1>2, <1>8, <2>1, <2>2, <2>3, <3>1, <3>2
           DEF PodInv, Saving, InChunk, InTransition
    <2>7. \A q \in Procs \ {p} : SameSave(q)
      BY <1>1, <2>2 DEF SameSave
    <2>8. \A q \in Pods \ {p} : SamePod(q) /\
              (pc[q] \in InTransition => chunkLock'[Current(q)] = q)
      BY <1>1, <1>3, <1>8, <2>3 DEF SamePod
    <2>9. JournalInv' /\ Grows /\ clock' \in 0 .. MaxClock
      BY <1>1 DEF Inv, TypeInv, JournalInv, Grows
    <2>10. \A q \in Procs : SaverInv(q)'
      BY <2>5, <2>7, <2>9, SaverIsStable DEF Inv
    <2>11. \A q \in Pods : PodInv(q)'
      BY <2>6, <2>7, <2>8, <2>9, ProcsAre, PodIsStable DEF Inv
    <2>12. WorkInv'
      <3>1. \A q \in Pods, d \in Chunks : Working(q, d)' =>
                Working(q, d) /\ q # p /\ held'[q] = held[q]
        BY <1>1, <1>8, <2>2, <2>3, ProcsAre DEF Working, Current
      <3>2. \A q \in Pods \ {p}, d \in Chunks : Writing(q, d)' => Writing(q, d)
        BY <1>8, <2>2, ProcsAre DEF Writing, Current
      <3>3. \A d \in Chunks : Writing(p, d)' => d = c
        BY <1>8 DEF Writing, Current
      <3>4. ASSUME ~torn
            PROVE  /\ rows[c].status # "SUCCESS"
                   /\ \A r \in Pods \ {p} : ~Working(r, c)
        <4>1. \A r \in Pods : Working(r, c) =>
                 /\ rows[c].status = "RUNNING" /\ rows[c].owner = r
                 /\ rows[c].until > clock
          BY <1>0, <3>4, RowsAre DEF Inv, TypeInv, WorkInv, Working
        <4>2. clock \in Nat /\ rows[c].until \in Nat
          BY <1>0, RowCases, TimesAre DEF Inv, TypeInv
        <4>3. CASE kind = "claim"
          BY <1>0, <1>8, <4>1, <4>2, <4>3, AllowedIs DEF MayClaim, Expired
        <4>4. CASE kind # "claim"
          <5>1. rows[c].status = "RUNNING" /\ rows[c].owner = p
            BY <1>0, <1>8, <4>4, AllowedIs DEF Kinds, MayRenew, MayComplete
          <5> QED
            BY <4>1, <5>1
        <4> QED
          BY <4>3, <4>4
      <3>5. (\A q \in Pods, d \in Chunks : Working(q, d) =>
               rows[d] = Row("RUNNING", q, held[q])) =>
            \A q \in Pods, d \in Chunks : Working(q, d)' =>
               rows'[d] = Row("RUNNING", q, held'[q])
        BY <1>1, <3>1
      <3>6. ASSUME ~torn, NEW q \in Pods, NEW d \in Chunks, Writing(q, d)'
            PROVE  /\ rows[d].status # "SUCCESS"
                   /\ \A r \in Pods \ {q} : ~Working(r, d)'
        <4>1. CASE q = p
          BY <3>1, <3>3, <3>4, <3>6, <4>1
        <4>2. CASE q # p
          BY <3>1, <3>2, <3>6, <4>2 DEF Inv, WorkInv
        <4> QED
          BY <4>1, <4>2
      <3> QED
        BY <1>1, <3>5, <3>6 DEF Inv, WorkInv
    <2> QED
      BY <2>4, <2>9, <2>10, <2>11, <2>12 DEF Inv
  <1> QED
    BY <1>0, <1>6, <1>7, <1>8 DEF Decide, Inv, TypeInv

-----------------------------------------------------------------------------
(* Transitions: append *)

LEMMA AppendCampaignStep ==
    ASSUME Inv, NEW p \in Pods, AppendCampaign(p)
    PROVE  Inv'
  <1> USE DEF AppendCampaign, Moves, Goto, lockVars, podVars, worldVars
  <1>0. /\ p \in Procs /\ pc[p] = "campaign" /\ pc'[p] = "chunk"
        /\ \A q \in Procs \ {p} : pc'[q] = pc[q]
        /\ campaign' # "none" /\ campaign' \in Statuses
    BY ProcsAre DEF Inv, TypeInv, PodInv
  <1>1. TypeInv'
    <2>1. pc' \in [Procs -> PCs]
      BY DEF Inv, TypeInv, PCs, Planned, InChunk, InTransition
    <2> QED
      BY <1>0, <2>1, Zenon DEF Inv, TypeInv
  <1>2. Grows /\ clock' \in 0 .. MaxClock /\ clock <= clock'
    BY <1>0 DEF Grows, Inv, TypeInv
  <1>3. /\ \A q \in Procs \ {p} : SameSave(q)
        /\ \A q \in Pods : SamePod(q)
        /\ \A q \in Pods : pc[q] \in InTransition => chunkLock'[Current(q)] = q
    BY <1>0 DEF SameSave, SamePod, Inv, PodInv
  <1>4. JournalInv'
    BY <1>0 DEF Inv, JournalInv
  <1>5. \A q \in Procs : SaverInv(q)'
    <2>1. SaverInv(p)'
      BY <1>0, NoSaver DEF Saving
    <2> QED
      BY <1>2, <1>3, <2>1, SaverIsStable DEF Inv
  <1>6. \A q \in Pods : PodInv(q)'
    <2>1. Current(p)' = Current(p) /\ NewRow(p)' = NewRow(p)
      BY Zenon DEF Current, NewRow
    <2>2. PodInv(p)'
      BY <1>0, <2>1 DEF PodInv, Saving, Planned, InChunk, InTransition, Inv
    <2> QED
      BY <1>2, <1>3, <2>2, ProcsAre, PodIsStable DEF Inv
  <1>7. WorkInv'
    <2>1. \A q \in Pods \ {p} : pc'[q] = pc[q] /\ SamePod(q)
      BY <1>0, <1>3, ProcsAre
    <2>2. \A c \in Chunks : /\ ~Working(p, c)'
                            /\ Writing(p, c)' => Writing(p, c)
      BY <1>0 DEF Working, Writing, Current
    <2> QED
      BY <1>0, <1>2, <2>1, <2>2, WorkIsStable DEF Inv
  <1> QED
    BY <1>1, <1>4, <1>5, <1>6, <1>7 DEF Inv

(* The row of the chunk.  The writer holds the chunk's lock and nobody     *)
(* else works on the chunk, so the writer's own lease is all that changes. *)
LEMMA AppendChunkStep ==
    ASSUME Inv, NEW p \in Pods, AppendChunk(p)
    PROVE  Inv'
  <1> DEFINE c == Current(p)
             kind == task[p].kind
             Tasks == [kind : Kinds \cup {"none"}, until : Times,
                       status : Statuses, row : RowType]
  <1>0. /\ p \in Procs /\ pc[p] = "chunk" /\ kind \in Kinds /\ chunkLock[c] = p
        /\ todo[p] # {} /\ c \in Chunks
        /\ kind = "success" => loads[c] # {}
        /\ task[p].row = NewRow(p)
    BY ProcsAre, CurrentIs DEF AppendChunk, Inv, PodInv, InChunk, InTransition
  <1>1. /\ UNCHANGED <<campaign, loads, torn, clock, seen, save, initLock>>
        /\ UNCHANGED <<faults, healthy, errors>>
        /\ rows' = [rows EXCEPT ![c] = NewRow(p)]
        /\ chunkLock' = [chunkLock EXCEPT ![c] = Nobody]
        /\ held' = [held EXCEPT ![p] = NewRow(p).until]
        /\ task' = [task EXCEPT ![p] = NoTask]
        /\ pc' = [pc EXCEPT ![p] = AfterGrant[kind]]
        /\ todo' = IF kind = "success" THEN [todo EXCEPT ![p] = @ \ {c}] ELSE todo
    BY <1>0 DEF AppendChunk, Granted, Goto, worldVars
  <1>2. /\ NewRow(p) \in RowType /\ NewRow(p) # NoRow
        /\ NewRow(p).status = "SUCCESS" => kind = "success"
        /\ NewRow(p).until \in Times
        /\ kind \in {"claim", "prove", "beat"} =>
              NewRow(p) = Row("RUNNING", p, NewRow(p).until)
    <2>1. task[p].until \in Times
      BY DEF Inv, TypeInv
    <2> QED
      BY <1>0, <2>1, NewRowIs, RowsAre, RowCases DEF Kinds, Inv
  <1>3. /\ \A d \in Chunks : rows[d] # NoRow
        /\ campaign # "none"
    BY <1>0 DEF Inv, PodInv, Planned, InChunk, InTransition, JournalInv
  <1>4. /\ rows'[c] = NewRow(p) /\ \A d \in Chunks \ {c} : rows'[d] = rows[d]
        /\ held'[p] = NewRow(p).until /\ task'[p] = NoTask
        /\ pc'[p] = AfterGrant[kind]
        /\ \A q \in Procs \ {p} : pc'[q] = pc[q]
        /\ \A q \in Pods \ {p} : SamePod(q)
    BY <1>0, <1>1 DEF Inv, TypeInv, SamePod
  <1>5. /\ pc'[p] \in {"prove", "run", "next", "report"}
        /\ pc'[p] \in {"prove", "run"} =>
              kind \in {"claim", "prove", "beat"} /\ todo' = todo
    BY <1>0, <1>1, <1>4, AfterIs DEF Kinds
  <1>6. TypeInv'
    <2>1. NoTask \in Tasks
      BY TimesAre, RowsAre DEF NoTask, Statuses
    <2>2. rows' \in [Chunks -> RowType] /\ task' \in [Pods -> Tasks]
          /\ held' \in [Pods -> Times]
      BY <1>1, <1>2, <2>1 DEF Inv, TypeInv
    <2>3. chunkLock' \in [Chunks -> Pods \cup {Nobody}]
          /\ todo' \in [Pods -> SUBSET Chunks]
      BY <1>1 DEF Inv, TypeInv
    <2>4. pc' \in [Procs -> PCs]
      BY <1>1, <1>4, <1>5, <1>0 DEF Inv, TypeInv, PCs, Planned, InChunk
    <2> QED
      BY <1>1, <2>2, <2>3, <2>4, Zenon DEF Inv, TypeInv
  <1>7. /\ Grows /\ clock' \in 0 .. MaxClock
        /\ \A d \in Chunks : rows'[d] # NoRow
    BY <1>1, <1>2, <1>3, <1>4 DEF Grows, Inv, TypeInv
  <1>8. JournalInv'
    BY <1>0, <1>1, <1>2, <1>3, <1>4, <1>7 DEF Inv, JournalInv
  <1>9. \A q \in Procs : SaverInv(q)'
    <2>1. SaverInv(p)'
      BY <1>0, <1>1, <1>5, <1>7 DEF SaverInv, Inv, Saving
    <2>2. \A q \in Procs \ {p} : SameSave(q)
      BY <1>1, <1>4 DEF SameSave
    <2> QED
      BY <1>7, <2>1, <2>2, SaverIsStable DEF Inv
  <1>10. \A q \in Pods : PodInv(q)'
    <2>1. PodInv(p)'
      BY <1>0, <1>5, <1>7 DEF PodInv, Saving, InChunk, InTransition
    <2>2. \A q \in Pods \ {p} :
             pc[q] \in InTransition => chunkLock'[Current(q)] = q
      <3> SUFFICES ASSUME NEW q \in Pods \ {p}, pc[q] \in InTransition
                   PROVE  chunkLock'[Current(q)] = q
        OBVIOUS
      <3>1. chunkLock[Current(q)] = q /\ Current(q) \in Chunks
        BY CurrentIs DEF Inv, PodInv, InChunk
      <3> QED
        BY <1>0, <1>1, <3>1 DEF Inv, TypeInv
    <2>3. \A q \in Pods \ {p} : SameSave(q)
      BY <1>1, <1>4, ProcsAre DEF SameSave
    <2> QED
      BY <1>4, <1>7, <2>1, <2>2, <2>3, PodIsStable DEF Inv
  <1>11. WorkInv'
    <2> SUFFICES ASSUME ~torn
                 PROVE  WorkInv'
      BY <1>1 DEF WorkInv
    <2>1. \A q \in Pods \ {p}, d \in Chunks :
             Working(q, d)' => Working(q, d) /\ held'[q] = held[q] /\ d # c
      <3>1. \A q \in Pods \ {p} : ~Working(q, c)
        BY <1>0 DEF Inv, WorkInv, Writing
      <3> QED
        BY <1>1, <1>4, <3>1, ProcsAre DEF Working, Current, SamePod
    <2>2. \A d \in Chunks : Working(p, d)' => d = c /\ pc'[p] \in {"prove", "run"}
      BY <1>4, <1>5 DEF Working, Current, NoTask
    <2>3. \A q \in Pods, d \in Chunks :
             Writing(q, d)' => q # p /\ Writing(q, d) /\ d # c
      <3>1. \A q \in Pods \ {p}, d \in Chunks : Writing(q, d) => d # c
        BY <1>0 DEF Inv, PodInv, Writing, InTransition
      <3> QED
        BY <1>4, <1>5, <3>1, ProcsAre DEF Writing, Current, SamePod
    <2>4. \A q \in Pods, d \in Chunks : Working(q, d)' =>
             rows'[d] = Row("RUNNING", q, held'[q])
      <3>1. \A d \in Chunks : Working(p, d)' =>
               rows'[d] = Row("RUNNING", p, held'[p])
        BY <1>2, <1>4, <1>5, <2>2
      <3> QED
        BY <1>4, <2>1, <3>1 DEF Inv, WorkInv
    <2>5. ASSUME NEW q \in Pods, NEW d \in Chunks, Writing(q, d)'
          PROVE  /\ rows'[d].status # "SUCCESS"
                 /\ \A r \in Pods \ {q} : ~Working(r, d)'
      BY <1>4, <2>1, <2>2, <2>3, <2>5 DEF Inv, WorkInv
    <2> QED
      BY <2>4, <2>5 DEF WorkInv
  <1> QED
    BY <1>6, <1>8, <1>9, <1>10, <1>11 DEF Inv

-----------------------------------------------------------------------------
(* Saves *)

(* A save begins: what is going to be appended has been derived from the   *)
(* journals as they are now.                                               *)
LEMMA BeginSaveStep ==
    ASSUME Inv, NEW p \in Procs, NEW ledger \in LedgerType,
           NEW then \in {"recover", "release", "acknowledged"},
           BeginSave(p, ledger, then),
           UNCHANGED <<ledgerVars, lockVars, podVars, worldVars>>,
           ledger.status # "none",
           \A c \in Chunks : ledger.rows[c].status = "SUCCESS" => loads[c] # {},
           (\E c \in Chunks : rows[c] = NoRow) =>
              \A c \in Chunks : ledger.rows[c].status \in Untouched,
           \A c \in Chunks :
              \/ ledger.rows[c] = rows[c]
              \/ /\ ledger.rows[c].status # "SUCCESS"
                 /\ \/ rows[c].status \in Untouched
                    \/ rows[c].status = "RUNNING" /\ rows[c].until <= clock,
           p \in Pods => \A c \in Chunks : ledger.rows[c] # NoRow
    PROVE  Inv'
  <1> DEFINE left == {c \in Chunks : ledger.rows[c] # NoRow}
             new == [ledger |-> ledger, then |-> then, left |-> left]
  <1> USE DEF ledgerVars, lockVars, podVars, worldVars
  <1>0. /\ pc'[p] = "save" /\ seen'[p] = Ledger /\ save'[p] = new
        /\ \A q \in Procs \ {p} : SameSave(q)
    BY DEF BeginSave, Goto, SameSave, Inv, TypeInv
  <1>1. /\ new.ledger = ledger /\ new.then = then /\ new.left = left
        /\ Ledger.rows = rows
    BY DEF Ledger
  <1>2. TypeInv'
    <2>1. pc' \in [Procs -> PCs]
      BY DEF BeginSave, Goto, Inv, TypeInv, PCs, Saving
    <2>2. Ledger \in LedgerType
      BY LedgersAre DEF Ledger, Inv, TypeInv
    <2>3. seen' \in [Procs -> LedgerType]
      BY <2>2 DEF BeginSave, Inv, TypeInv
    <2>4. new \in [ledger : LedgerType, left : SUBSET Chunks,
                   then : {"none", "recover", "release", "acknowledged"}]
      OBVIOUS
    <2>5. save' \in [Procs -> [ledger : LedgerType, left : SUBSET Chunks,
                     then : {"none", "recover", "release", "acknowledged"}]]
      BY <2>4 DEF BeginSave, Inv, TypeInv
    <2> QED
      BY <2>1, <2>3, <2>5, Zenon DEF Inv, TypeInv
  <1>3. SaverInv(p)'
    BY <1>0, <1>1 DEF SaverInv, Saving
  <1>4. p \in Pods => PodInv(p)'
    BY <1>0, <1>1 DEF PodInv, Planned, InChunk, InTransition
  <1>5. \A q \in Pods \ {p} : SamePod(q) /\
              (pc[q] \in InTransition => chunkLock'[Current(q)] = q)
    BY DEF SamePod, Inv, PodInv
  <1>6. \A c \in Chunks : ~Working(p, c)' /\ ~Writing(p, c)'
    BY <1>0 DEF Working, Writing
  <1> QED
    BY <1>0, <1>2, <1>3, <1>4, <1>5, <1>6, QuietStep

(* load_or_create: a plan that is not complete is created again.  No row   *)
(* of it has been worked on.                                               *)
LEMMA LoadOrCreateStep ==
    ASSUME Inv, NEW p \in Pods, LoadOrCreate(p)
    PROVE  Inv'
  <1> USE DEF ledgerVars, lockVars, podVars, worldVars
  <1>0. /\ p \in Procs /\ pc[p] = "init"
        /\ UNCHANGED <<ledgerVars, lockVars, podVars, worldVars>>
    BY ProcsAre DEF LoadOrCreate
  <1>1. CASE Complete /\ Goto(p, "recover") /\ UNCHANGED <<seen, save>>
    <2>0. /\ pc'[p] = "recover" /\ \A q \in Procs \ {p} : SameSave(q)
          /\ \A c \in Chunks : rows[c] # NoRow
      BY <1>0, <1>1 DEF Goto, SameSave, Complete, Inv, TypeInv
    <2>1. TypeInv'
      <3>1. pc' \in [Procs -> PCs]
        BY <1>1 DEF Goto, Inv, TypeInv, PCs
      <3> QED
        BY <1>0, <1>1, <3>1, Zenon DEF Inv, TypeInv
    <2>2. SaverInv(p)'
      BY <1>0, <1>1, <2>0, NoSaver DEF Saving
    <2>3. PodInv(p)'
      BY <1>0, <2>0 DEF PodInv, Saving, Planned, InChunk, InTransition
    <2>4. \A q \in Pods \ {p} : SamePod(q) /\
              (pc[q] \in InTransition => chunkLock'[Current(q)] = q)
      BY <1>0 DEF SamePod, Inv, PodInv
    <2>5. \A c \in Chunks : ~Working(p, c)' /\ ~Writing(p, c)'
      BY <2>0 DEF Working, Writing
    <2> QED
      BY <1>0, <2>0, <2>1, <2>2, <2>3, <2>4, <2>5, QuietStep
  <1>2. CASE ~Complete /\ BeginSave(p, Created, "recover")
    <2>1. Row("PENDING", Nobody, 0) \in RowType
          /\ Row("PENDING", Nobody, 0).status = "PENDING"
          /\ Row("PENDING", Nobody, 0) # NoRow
      BY RowsAre
    <2>2. /\ Created \in LedgerType /\ Created.status = "active"
          /\ \A c \in Chunks : Created.rows[c] = Row("PENDING", Nobody, 0)
      <3>1. [c \in Chunks |-> Row("PENDING", Nobody, 0)] \in [Chunks -> RowType]
        BY <2>1
      <3> QED
        BY <3>1, LedgersAre DEF Created, Statuses
    <2>3. \A c \in Chunks : rows[c].status \in Untouched
      <3>1. CASE campaign = "none"
        BY <3>1, RowsAre DEF Inv, JournalInv, Untouched
      <3>2. CASE campaign # "none"
        BY <1>2, <3>2 DEF Complete, Inv, JournalInv
      <3> QED
        BY <3>1, <3>2
    <2>4. \A c \in Chunks : /\ Created.rows[c].status = "PENDING"
                            /\ Created.rows[c] # NoRow
      BY <2>1, <2>2
    <2> QED
      BY <1>0, <1>2, <2>2, <2>3, <2>4, BeginSaveStep DEF Untouched
  <1> QED
    BY <1>1, <1>2 DEF LoadOrCreate

(* recover_stale_running changes only the rows of expired leases. *)
LEMMA RecoverStaleRunningStep ==
    ASSUME Inv, NEW p \in Pods, RecoverStaleRunning(p)
    PROVE  Inv'
  <1> DEFINE recovered == [c \in Chunks |-> Recovered(rows[c])]
             ledger == [Ledger EXCEPT !.rows = recovered]
  <1> USE DEF ledgerVars, lockVars, podVars, worldVars
  <1>0. /\ p \in Procs /\ pc[p] = "recover"
        /\ UNCHANGED <<ledgerVars, lockVars, podVars, worldVars>>
        /\ \A c \in Chunks : rows[c] # NoRow
    BY ProcsAre DEF RecoverStaleRunning, Inv, PodInv
  <1>1. CASE Goto(p, "release") /\ UNCHANGED <<seen, save>>
    <2>0. /\ pc'[p] = "release" /\ \A q \in Procs \ {p} : SameSave(q)
      BY <1>0, <1>1 DEF Goto, SameSave, Inv, TypeInv
    <2>1. TypeInv'
      <3>1. pc' \in [Procs -> PCs]
        BY <1>1 DEF Goto, Inv, TypeInv, PCs
      <3> QED
        BY <1>0, <1>1, <3>1, Zenon DEF Inv, TypeInv
    <2>2. SaverInv(p)'
      BY <1>0, <1>1, <2>0, NoSaver DEF Saving
    <2>3. PodInv(p)'
      BY <1>0, <2>0 DEF PodInv, Saving, Planned, InChunk, InTransition
    <2>4. \A q \in Pods \ {p} : SamePod(q) /\
              (pc[q] \in InTransition => chunkLock'[Current(q)] = q)
      BY <1>0 DEF SamePod, Inv, PodInv
    <2>5. \A c \in Chunks : ~Working(p, c)' /\ ~Writing(p, c)'
      BY <2>0 DEF Working, Writing
    <2> QED
      BY <1>0, <2>0, <2>1, <2>2, <2>3, <2>4, <2>5, QuietStep
  <1>2. CASE BeginSave(p, ledger, "release")
    <2>1. \A c \in Chunks :
             /\ recovered[c] \in RowType /\ recovered[c] # NoRow
             /\ \/ recovered[c] = rows[c]
                \/ /\ recovered[c].status = "FAILED"
                   /\ rows[c].status = "RUNNING" /\ rows[c].until <= clock
      BY <1>0, RowsAre DEF Recovered, Stale, Expired, Inv, TypeInv
    <2>2. recovered \in [Chunks -> RowType]
      BY <2>1
    <2>3. ledger = [status |-> campaign, rows |-> recovered]
      BY DEF Ledger
    <2>4. /\ ledger \in LedgerType /\ ledger.rows = recovered
          /\ ledger.status = campaign
      BY <2>2, <2>3, LedgersAre DEF Inv, TypeInv
    <2>5. 1 \in Chunks
      BY LedgerAssumption DEF Chunks
    <2>6. campaign # "none"
      BY <1>0, <2>5 DEF Inv, JournalInv
    <2>7. \A c \in Chunks : recovered[c].status = "SUCCESS" => loads[c] # {}
      BY <2>1 DEF Inv, JournalInv
    <2>8. \A c \in Chunks :
              \/ recovered[c] = rows[c]
              \/ /\ recovered[c].status # "SUCCESS"
                 /\ rows[c].status = "RUNNING" /\ rows[c].until <= clock
      BY <2>1
    <2> HIDE DEF ledger, recovered
    <2> QED
      BY <1>0, <1>2, <2>1, <2>4, <2>6, <2>7, <2>8, BeginSaveStep
  <1> QED
    BY <1>1, <1>2 DEF RecoverStaleRunning

(* request_cancel appends every chunk as it has read it. *)
LEMMA RequestCancelStep ==
    ASSUME Inv, RequestCancel
    PROVE  Inv'
  <1> DEFINE ledger == [Ledger EXCEPT !.status = "cancel_requested"]
  <1>1. ledger = [status |-> "cancel_requested", rows |-> rows]
    BY DEF Ledger
  <1>2. /\ ledger \in LedgerType /\ ledger.rows = rows
        /\ ledger.status = "cancel_requested"
    BY <1>1, LedgersAre DEF Inv, TypeInv, Statuses
  <1>3. CLI \in Procs /\ CLI \notin Pods
    BY ProcsAre
  <1>4. /\ BeginSave(CLI, ledger, "acknowledged")
        /\ UNCHANGED <<ledgerVars, lockVars, podVars, worldVars>>
    BY DEF RequestCancel
  <1>5. /\ \A c \in Chunks : rows[c].status = "SUCCESS" => loads[c] # {}
        /\ (\E c \in Chunks : rows[c] = NoRow) =>
              \A c \in Chunks : rows[c].status \in Untouched
    BY DEF Inv, JournalInv
  <1> HIDE DEF ledger
  <1> QED
    BY <1>2, <1>3, <1>4, <1>5, BeginSaveStep

(* What SaveGoesOn leaves behind, when every chunk that is not to come has *)
(* a row.                                                                  *)
LEMMA SaveGoesOnStep ==
    ASSUME Inv, NEW p \in Procs, pc[p] \in Saving,
           NEW left \in SUBSET save[p].left, SaveGoesOn(p, left), Grows,
           UNCHANGED <<initLock, chunkLock, todo, task, held, loads, clock>>,
           UNCHANGED <<healthy, errors, faults>>,
           campaign' # "none", campaign' \in Statuses,
           rows' \in [Chunks -> RowType], torn' \in BOOLEAN,
           p \in Pods => \A c \in Chunks \ left : rows'[c] # NoRow
    PROVE  /\ TypeInv'
           /\ \A q \in Procs : SaverInv(q)'
           /\ \A q \in Pods : PodInv(q)'
           /\ \A q \in Procs \ {p} : pc'[q] = pc[q]
           /\ pc'[p] \in {"saving", "recover", "release", "acknowledged"}
  <1> DEFINE Saves == [ledger : LedgerType, left : SUBSET Chunks,
                       then : {"none", "recover", "release", "acknowledged"}]
  <1>1. /\ save[p] \in Saves /\ save[p].then # "none" /\ save[p].left \subseteq Chunks
        /\ save[p].then \in {"recover", "release", "acknowledged"}
    BY DEF Inv, TypeInv, SaverInv
  <1>2. /\ Grows /\ clock' \in 0 .. MaxClock
    BY DEF Inv, TypeInv
  <1>3. /\ \A q \in Procs \ {p} : SameSave(q)
        /\ \A q \in Pods : SamePod(q)
        /\ \A q \in Pods : pc[q] \in InTransition => chunkLock'[Current(q)] = q
    BY DEF SaveGoesOn, Goto, SameSave, SamePod, Inv, TypeInv, PodInv
  <1>4. SUFFICES TypeInv' /\ SaverInv(p)' /\ (p \in Pods => PodInv(p)')
                 /\ pc'[p] \in {"saving", "recover", "release", "acknowledged"}
    BY <1>2, <1>3, ProcsAre, SaverIsStable, PodIsStable DEF Inv, SameSave
  <1>5. CASE left = {}
    <2>1. /\ pc' = [pc EXCEPT ![p] = save[p].then]
          /\ save' = [save EXCEPT ![p] = NoSave]
          /\ seen' = [seen EXCEPT ![p] = NoLedger]
      BY <1>5 DEF SaveGoesOn, Goto
    <2>2. pc'[p] = save[p].then /\ save'[p] = NoSave
      BY <2>1 DEF Inv, TypeInv
    <2>3. NoSave \in Saves
      BY LedgersAre DEF NoSave
    <2>4. pc' \in [Procs -> PCs] /\ save' \in [Procs -> Saves]
          /\ seen' \in [Procs -> LedgerType]
      BY <1>1, <2>1, <2>3, LedgersAre DEF Inv, TypeInv, PCs
    <2>5. TypeInv'
      BY <2>4, Zenon DEF Inv, TypeInv
    <2>6. SaverInv(p)'
      <3>1. \A c \in Chunks : NoSave.ledger.rows[c].status = "none"
        BY LedgersAre, RowsAre DEF NoSave
      <3> QED
        BY <1>1, <2>2, <3>1 DEF SaverInv, Saving, Untouched
    <2>7. p \in Pods => PodInv(p)'
      BY <1>1, <1>5, <2>2 DEF PodInv, Saving, Planned, InChunk, InTransition
    <2> QED
      BY <1>1, <2>2, <2>5, <2>6, <2>7
  <1>6. CASE left # {}
    <2>1. /\ pc' = [pc EXCEPT ![p] = "saving"]
          /\ save' = [save EXCEPT ![p].left = left]
          /\ seen' = seen
      BY <1>6 DEF SaveGoesOn, Goto
    <2>2. /\ pc'[p] = "saving" /\ save'[p] = [save[p] EXCEPT !.left = left]
          /\ seen'[p] = seen[p]
      BY <2>1 DEF Inv, TypeInv
    <2>3. /\ save'[p].ledger = save[p].ledger /\ save'[p].then = save[p].then
          /\ save'[p].left = left /\ save'[p] \in Saves
      BY <1>1, <2>2
    <2>4. pc' \in [Procs -> PCs] /\ save' \in [Procs -> Saves]
          /\ seen' \in [Procs -> LedgerType]
      BY <1>1, <2>1, <2>2, <2>3 DEF Inv, TypeInv, PCs, Saving
    <2>5. TypeInv'
      BY <2>4, Zenon DEF Inv, TypeInv
    <2>6. SaverInv(p)'
      <3>1. SaverInv(p)
        BY DEF Inv
      <3>2. (\E c \in Chunks : rows'[c] = NoRow) => \E c \in Chunks : rows[c] = NoRow
        BY DEF Grows
      <3> QED
        BY <1>1, <1>6, <2>2, <2>3, <3>1, <3>2 DEF SaverInv, Saving
    <2>7. p \in Pods => PodInv(p)'
      BY <2>2, <2>3 DEF PodInv, Saving, Planned, InChunk, InTransition
    <2> QED
      BY <2>2, <2>5, <2>6, <2>7
  <1> QED
    BY <1>5, <1>6

LEMMA SaveCampaignStep ==
    ASSUME Inv, NEW p \in Procs, SaveCampaign(p)
    PROVE  Inv'
  <1> USE DEF lockVars, podVars, worldVars
  <1>1. /\ pc[p] = "save" /\ campaign' = save[p].ledger.status
        /\ SaveGoesOn(p, save[p].left)
        /\ UNCHANGED <<rows, lockVars, podVars, worldVars>>
    BY DEF SaveCampaign
  <1>2. campaign' # "none" /\ campaign' \in Statuses
    <2>1. save[p].ledger \in LedgerType /\ save[p].ledger.status # "none"
      BY <1>1 DEF Inv, TypeInv, SaverInv
    <2> QED
      BY <1>1, <2>1, LedgersAre
  <1>3. /\ Grows /\ rows' \in [Chunks -> RowType] /\ clock' \in 0 .. MaxClock
        /\ clock <= clock'
    BY <1>1, <1>2 DEF Grows, Inv, TypeInv
  <1>4. torn' \in BOOLEAN
    BY <1>1, Zenon DEF Inv, TypeInv
  <1>5. p \in Pods => \A c \in Chunks \ save[p].left : rows'[c] # NoRow
    BY <1>1 DEF Inv, PodInv, Saving
  <1>6. /\ TypeInv'
        /\ \A q \in Procs : SaverInv(q)'
        /\ \A q \in Pods : PodInv(q)'
        /\ \A q \in Procs \ {p} : pc'[q] = pc[q]
        /\ pc'[p] \in {"saving", "recover", "release", "acknowledged"}
    BY <1>1, <1>2, <1>3, <1>4, <1>5, SaveGoesOnStep DEF Saving
  <1>7. JournalInv'
    BY <1>1, <1>2 DEF Inv, JournalInv
  <1>8. WorkInv'
    <2>1. \A q \in Pods \ {p} : pc'[q] = pc[q] /\ SamePod(q)
      BY <1>1, <1>6, ProcsAre DEF SamePod
    <2>2. \A c \in Chunks : ~Working(p, c)' /\ ~Writing(p, c)'
      BY <1>6 DEF Working, Writing
    <2> QED
      BY <1>1, <1>3, <2>1, <2>2, WorkIsStable DEF Inv
  <1> QED
    BY <1>6, <1>7, <1>8 DEF Inv

(* A row of a save.  If the save is not torn the row was read as it is     *)
(* now, so a lease that is still running is written back as it was.        *)
LEMMA SaveChunkStep ==
    ASSUME Inv, NEW p \in Procs, SaveChunk(p)
    PROVE  Inv'
  <1> DEFINE c == First(save[p].left)
             row == save[p].ledger.rows[c]
  <1> USE DEF lockVars, podVars
  <1>1. /\ pc[p] = "saving" /\ rows' = [rows EXCEPT ![c] = row]
        /\ SaveGoesOn(p, save[p].left \ {c})
        /\ torn' = (torn \/ rows[c] # seen[p].rows[c])
        /\ UNCHANGED <<campaign, lockVars, podVars, loads, clock, faults>>
    BY DEF SaveChunk
  <1>2. c \in save[p].left /\ c \in Chunks /\ SaverInv(p)
    BY <1>1, FirstIs DEF Inv, TypeInv, SaverInv
  <1>3. row \in RowType /\ row # NoRow /\ campaign # "none"
    <2>1. save[p].ledger \in LedgerType
      BY DEF Inv, TypeInv
    <2> QED
      BY <1>1, <1>2, <2>1, LedgersAre DEF SaverInv, Saving
  <1>4. /\ rows'[c] = row /\ \A d \in Chunks \ {c} : rows'[d] = rows[d]
        /\ rows' \in [Chunks -> RowType]
    BY <1>1, <1>2, <1>3 DEF Inv, TypeInv
  <1>5. /\ Grows /\ campaign' # "none" /\ campaign' \in Statuses
        /\ clock' \in 0 .. MaxClock
    BY <1>1, <1>3, <1>4 DEF Grows, Inv, TypeInv
  <1>6. torn' \in BOOLEAN
    BY <1>1, Zenon DEF Inv, TypeInv
  <1>7. p \in Pods => \A d \in Chunks \ (save[p].left \ {c}) : rows'[d] # NoRow
    BY <1>1, <1>3, <1>4 DEF Inv, PodInv, Saving
  <1>8. /\ TypeInv'
        /\ \A q \in Procs : SaverInv(q)'
        /\ \A q \in Pods : PodInv(q)'
        /\ \A q \in Procs \ {p} : pc'[q] = pc[q]
        /\ pc'[p] \in {"saving", "recover", "release", "acknowledged"}
    <2>1. save[p].left \ {c} \in SUBSET save[p].left
      OBVIOUS
    <2> QED
      BY <1>1, <1>4, <1>5, <1>6, <1>7, <2>1, SaveGoesOnStep DEF Saving
  <1>9. JournalInv'
    <2>1. \A d \in Chunks : rows'[d].status = "SUCCESS" => loads'[d] # {}
      BY <1>1, <1>2, <1>4 DEF Inv, JournalInv, SaverInv
    <2>2. (\E d \in Chunks : rows'[d] = NoRow) =>
              \A d \in Chunks : rows'[d].status \in Untouched
      BY <1>2, <1>3, <1>4 DEF Inv, JournalInv, SaverInv
    <2> QED
      BY <1>5, <2>1, <2>2 DEF JournalInv
  <1>10. WorkInv'
    <2> SUFFICES ASSUME ~torn'
                 PROVE  WorkInv'
      BY DEF WorkInv
    <2>0. ~torn /\ rows[c] = seen[p].rows[c]
      BY <1>1
    <2>1. \/ row = rows[c]
          \/ /\ row.status # "SUCCESS"
             /\ \/ rows[c].status \in Untouched
                \/ rows[c].status = "RUNNING" /\ rows[c].until <= clock
      BY <1>1, <1>2, <2>0 DEF SaverInv, Saving
    <2>2. \A q \in Pods, d \in Chunks :
             /\ Working(q, d)' => Working(q, d) /\ held'[q] = held[q]
             /\ Writing(q, d)' => Writing(q, d)
      BY <1>1, <1>8, ProcsAre DEF Working, Writing, Current
    <2>3. \A q \in Pods : Working(q, c) => row = rows[c]
      <3>1. \A q \in Pods : Working(q, c) =>
               /\ rows[c].status = "RUNNING" /\ ~(rows[c].until <= clock)
        <4>1. \A q \in Pods : held[q] \in Times /\ clock \in Nat /\ held[q] \in Nat
          BY TimesAre DEF Inv, TypeInv
        <4>2. \A q \in Pods : Working(q, c) => rows[c] = Row("RUNNING", q, held[q])
          BY <1>2, <2>0 DEF Inv, WorkInv
        <4> QED
          BY <4>1, <4>2, RowsAre DEF Working
      <3> QED
        BY <2>1, <3>1 DEF Untouched
    <2>4. \A q \in Pods, d \in Chunks : Working(q, d)' =>
             rows'[d] = Row("RUNNING", q, held'[q])
      BY <1>4, <2>0, <2>2, <2>3 DEF Inv, WorkInv
    <2>5. ASSUME NEW q \in Pods, NEW d \in Chunks, Writing(q, d)'
          PROVE  /\ rows'[d].status # "SUCCESS"
                 /\ \A r \in Pods \ {q} : ~Working(r, d)'
      BY <1>4, <2>0, <2>1, <2>2, <2>5 DEF Inv, WorkInv
    <2> QED
      BY <2>4, <2>5 DEF WorkInv
  <1> QED
    BY <1>8, <1>9, <1>10 DEF Inv

-----------------------------------------------------------------------------
(* The theorems *)

LEMMA InitInv == Init => Inv
  <1> SUFFICES ASSUME Init
               PROVE  Inv
    OBVIOUS
  <1> USE DEF Init
  <1>1. TypeInv
    <2>1. rows \in [Chunks -> RowType] /\ campaign \in Statuses
      BY LedgersAre, RowsAre DEF Statuses
    <2>2. initLock \in Pods \cup {Nobody} /\ chunkLock \in [Chunks -> Pods \cup {Nobody}]
      OBVIOUS
    <2>3. pc \in [Procs -> PCs] /\ seen \in [Procs -> LedgerType]
      BY LedgersAre DEF PCs
    <2>4. NoSave \in [ledger : LedgerType, left : SUBSET Chunks,
                      then : {"none", "recover", "release", "acknowledged"}]
      BY LedgersAre DEF NoSave
    <2>5. NoTask \in [kind : Kinds \cup {"none"}, until : Times,
                      status : Statuses, row : RowType]
      BY TimesAre, RowsAre DEF NoTask, Statuses
    <2>6. todo \in [Pods -> SUBSET Chunks] /\ held \in [Pods -> Times]
          /\ loads \in [Chunks -> SUBSET Pods]
      BY TimesAre
    <2>7. healthy \in [Pods -> BOOLEAN] /\ errors \in [Pods -> BOOLEAN]
          /\ torn \in BOOLEAN
      OBVIOUS
    <2>8. clock \in 0 .. MaxClock /\ faults \in 0 .. MaxFaults
      BY LedgerAssumption
    <2>9. /\ save \in [Procs -> [ledger : LedgerType, left : SUBSET Chunks,
                           then : {"none", "recover", "release", "acknowledged"}]]
          /\ task \in [Pods -> [kind : Kinds \cup {"none"}, until : Times,
                          status : Statuses, row : RowType]]
      BY <2>4, <2>5
    <2> QED
      BY <2>1, <2>2, <2>3, <2>6, <2>7, <2>8, <2>9, Zenon DEF TypeInv
  <1>2. \A c \in Chunks : rows[c] = NoRow /\ rows[c].status = "none"
    BY LedgersAre, RowsAre
  <1>3. JournalInv
    BY <1>2 DEF JournalInv, Untouched
  <1>4. \A q \in Procs : SaverInv(q)
    <2>1. \A c \in Chunks : NoSave.ledger.rows[c].status = "none"
      BY LedgersAre, RowsAre DEF NoSave
    <2> QED
      BY <2>1 DEF SaverInv, Saving, Untouched
  <1>5. \A q \in Pods : PodInv(q)
    BY ProcsAre DEF PodInv, Saving, Planned, InChunk, InTransition
  <1>6. WorkInv
    BY ProcsAre DEF WorkInv, Working, Writing
  <1> QED
    BY <1>1, <1>3, <1>4, <1>5, <1>6 DEF Inv

LEMMA NextInv == Inv /\ [Next]_vars => Inv'
  <1> SUFFICES ASSUME Inv, [Next]_vars
               PROVE  Inv'
    OBVIOUS
  <1>1. ASSUME NEW p \in Pods, PodStep(p)
        PROVE  Inv'
    <2>1. CASE Claim(p)
      BY <2>1, BeginStep DEF Claim, Kinds
    <2>2. CASE ProveOwnership(p)
      BY <2>2, BeginStep DEF ProveOwnership, Kinds, Inv, PodInv, InChunk
    <2>3. CASE Heartbeat(p)
      BY <2>3, BeginStep DEF Heartbeat, Kinds, Inv, PodInv, InChunk
    <2>4. CASE CompleteSuccess(p)
      BY <2>4, BeginStep DEF CompleteSuccess, Kinds, Inv, PodInv, InChunk
    <2>5. CASE CompleteFailed(p)
      BY <2>5, BeginStep DEF CompleteFailed, Kinds, Inv, PodInv, InChunk
    <2> QED
      BY <1>1, <2>1, <2>2, <2>3, <2>4, <2>5, AcquireInitStep, LoadOrCreateStep,
         RecoverStaleRunningStep, ReleaseInitStep, SelectPendingStep, BindStep,
         ClaimRefusedStep, RunnerLoadsStep, RunnerRaisesStep, DecideStep,
         AppendCampaignStep, AppendChunkStep, ReportStep, CrashStep
         DEF PodStep
  <1>2. CASE UNCHANGED vars
    <2> USE <1>2 DEF vars
    <2>1. TypeInv' /\ JournalInv'
      BY DEF Inv, TypeInv, JournalInv
    <2>2. WorkInv'
      BY DEF Inv, WorkInv, Working, Writing, Current
    <2>3. \A q \in Procs : SaverInv(q)'
      BY DEF Inv, SaverInv
    <2>4. \A q \in Pods : PodInv(q)'
      <3>1. \A q \in Pods : NewRow(q)' = NewRow(q) /\ Current(q)' = Current(q)
        BY Zenon DEF NewRow, Current
      <3> QED
        BY <3>1 DEF Inv, PodInv
    <2> QED
      BY <2>1, <2>2, <2>3, <2>4 DEF Inv
  <1> QED
    BY <1>1, <1>2, SaveCampaignStep, SaveChunkStep, RequestCancelStep, TickStep
       DEF Next

LEMMA AlwaysInv == Spec => []Inv
  BY InitInv, NextInv, PTL DEF Spec

(* The type invariant of the ledger under any number of pods: every row in *)
(* the journals and in what a process has read of them is one the code     *)
(* writes, and only a RUNNING row names an owner and a lease.              *)
THEOREM TypeCorrect == Spec => []TypeOK
  <1>1. Inv => TypeOK
    <2> SUFFICES ASSUME Inv
                 PROVE  TypeOK
      OBVIOUS
    <2>1. Ledger \in LedgerType
      BY LedgersAre DEF Ledger, Inv, TypeInv
    <2>2. \A q \in Procs : save[q].ledger \in LedgerType /\ save[q].left \subseteq Chunks
      BY DEF Inv, TypeInv
    <2>3. \A q \in Pods : task[q].kind \in Kinds \cup {"none"}
      BY DEF Inv, TypeInv
    <2>4. DOMAIN pc = Procs
      BY DEF Inv, TypeInv
    <2> QED
      BY <2>1, <2>2, <2>3, <2>4, Zenon DEF Inv, TypeInv, TypeOK
  <1> QED
    BY <1>1, AlwaysInv, PTL

(* A creation that stops halfway leaves a plan with gaps, but no pod that  *)
(* has left initialization behind ever works on one.                       *)
THEOREM PlansAreComplete == Spec => []PlanIsComplete
  <1>1. Inv => PlanIsComplete
    BY DEF Inv, PodInv, PlanIsComplete, Planned, InChunk, InTransition
  <1> QED
    BY <1>1, AlwaysInv, PTL

(* Whatever saves overwrite, a pod that reports success reports chunks     *)
(* that have been loaded.                                                  *)
THEOREM ReportsAreHonest == Spec => []ReportIsHonest
  <1>1. Inv => ReportIsHonest
    BY DEF Inv, PodInv, ReportIsHonest
  <1> QED
    BY <1>1, AlwaysInv, PTL

(* While no save has overwritten a row it had not read, leases exclude and *)
(* a committed chunk stays committed.                                      *)
THEOREM LeasesProtect == Spec => LeasesProtectWork
  <1>1. Inv => (~torn => LeaseIsExclusive)
    <2> SUFFICES ASSUME Inv, ~torn, NEW p \in Pods, NEW q \in Pods,
                        NEW c \in Chunks, Working(p, c), Working(q, c)
                 PROVE  p = q
      BY DEF LeaseIsExclusive
    <2>1. /\ rows[c] = Row("RUNNING", p, held[p])
          /\ rows[c] = Row("RUNNING", q, held[q])
      BY DEF Inv, WorkInv
    <2>2. held[p] \in Times /\ held[q] \in Times
      BY DEF Inv, TypeInv
    <2> QED
      BY <2>1, <2>2, RowsAre
  <1>2. Inv /\ [Next]_vars =>
            [\A c \in Chunks : rows[c].status = "SUCCESS" /\ ~torn' =>
                 rows'[c].status = "SUCCESS"]_vars
    <2> SUFFICES ASSUME Inv, Next, NEW c \in Chunks,
                        rows[c].status = "SUCCESS", ~torn'
                 PROVE  rows'[c].status = "SUCCESS"
      OBVIOUS
    <2>1. ASSUME NEW p \in Procs, SaveChunk(p)
          PROVE  rows'[c].status = "SUCCESS"
      <3> DEFINE d == First(save[p].left)
      <3>1. SaverInv(p) /\ pc[p] = "saving" /\ d \in Chunks
        BY <2>1, FirstIs DEF SaveChunk, Inv, TypeInv, SaverInv
      <3>2. rows' = [rows EXCEPT ![d] = save[p].ledger.rows[d]]
            /\ rows[d] = seen[p].rows[d]
        BY <2>1 DEF SaveChunk
      <3>3. rows[d].status = "SUCCESS" => save[p].ledger.rows[d] = rows[d]
        BY <3>1, <3>2 DEF SaverInv, Saving, Untouched
      <3> QED
        BY <3>1, <3>2, <3>3 DEF Inv, TypeInv
    <2>2. ASSUME NEW p \in Pods, AppendChunk(p)
          PROVE  rows'[c].status = "SUCCESS"
      <3>1. /\ rows' = [rows EXCEPT ![Current(p)] = task[p].row]
            /\ ~torn /\ pc[p] = "chunk"
        BY <2>2 DEF AppendChunk, worldVars
      <3>2. Writing(p, Current(p)) /\ Current(p) \in Chunks
        BY <3>1, CurrentIs DEF Writing, Inv, PodInv, InChunk, InTransition
      <3>3. rows[Current(p)].status # "SUCCESS"
        BY <3>1, <3>2 DEF Inv, WorkInv
      <3> QED
        BY <3>1, <3>3 DEF Inv, TypeInv
    <2>3. ASSUME NEW p \in Pods, PodStep(p), ~AppendChunk(p)
          PROVE  rows' = rows
      BY <2>3 DEF PodStep, AcquireInit, LoadOrCreate, RecoverStaleRunning,
         ReleaseInit, SelectPending, Bind, Claim, ClaimRefused, ProveOwnership,
         Heartbeat, RunnerLoads, RunnerRaises, CompleteSuccess, CompleteFailed,
         Begin, Decide, AppendCampaign, Report, Crash, ledgerVars
    <2>4. ASSUME \/ \E p \in Procs : SaveCampaign(p)
                 \/ RequestCancel \/ Tick
          PROVE  rows' = rows
      BY <2>4 DEF SaveCampaign, RequestCancel, Tick, ledgerVars
    <2> QED
      BY <2>1, <2>2, <2>3, <2>4 DEF Next
  <1> QED
    BY <1>1, <1>2, AlwaysInv, PTL DEF Spec, LeasesProtectWork
=============================================================================
