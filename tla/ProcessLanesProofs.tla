------------------------- MODULE ProcessLanesProofs -------------------------
(***************************************************************************)
(* Proofs about the process-lane executor, for every number of lanes,      *)
(* chunks and faults.                                                      *)
(*                                                                         *)
(* A chunk passes once through the queue, the prepared claims and the      *)
(* running lanes, and a lane process works on the chunk its parent holds   *)
(* for it or on one the parent has given up.  What the parent may conclude *)
(* from a frame follows from the order in which a lane writes its frames.  *)
(***************************************************************************)
EXTENDS ProcessLanes, LedgerTransitionsProofs, SequenceTheorems,
        NaturalsInduction, WellFoundedInduction, TLAPS

Dispatching == {"start", "serve", "prepare", "refresh", "send"}
Results == {"succeeded", "failed"}
Frames == {"probe", "register", "succeeded", "failed"}
Jobs == {"boot", "idle", "sent", "probing", "asking", "working", "committed"}

Queued(c) == \E i \in 1 .. Len(queue) : queue[i] = c
Owned(c) == CompleteChunkOK(ledger, c, Parent)
Troubled(c) == trouble[c] \cap {"ledger", "tree"} # {}

(* A chunk is in one place, and nobody has worked on one not yet sent. *)
DispatchInv ==
    /\ \A i, j \in 1 .. Len(queue) : queue[i] = queue[j] => i = j
    /\ \A c \in Chunks : Queued(c) =>
          /\ verdict[c] = "none" /\ receipt[c] # "ours"
          /\ \A l \in Lanes : prepared[l] # c /\ running[l] # c /\ task[l] # c
    /\ \A l \in Lanes : prepared[l] # None =>
          /\ running[l] = None /\ l \notin batch
          /\ receipt[prepared[l]] # "ours"
          /\ phase \in Dispatching \cup {"collect"} => verdict[prepared[l]] = "none"
          /\ \A k \in Lanes : /\ task[k] # prepared[l] /\ running[k] # prepared[l]
                              /\ prepared[k] = prepared[l] => k = l
    /\ \A l \in Lanes : running[l] # None =>
          /\ l \notin batch
          /\ \A k \in Lanes \ {l} : running[k] # running[l] /\ task[k] # running[l]

(* The frames on the way tell how far the process got with the dispatch. *)
DispatchedOK(l) ==
    /\ task[l] \in {None, running[l]}
    /\ job[l] \in {"sent", "working", "committed"} => up[l] = <<>>
    /\ job[l] = "probing" =>
          up[l] = <<>> \/ (up[l] = <<"probe">> /\ reply[l] = "none")
    /\ job[l] = "asking" =>
          up[l] = <<>> \/ (up[l] = <<"register">> /\ reply[l] = "none")
    /\ job[l] = "asking" /\ reply[l] = "yes" => registered[l]
    /\ job[l] \in {"working", "committed"} => registered[l]
    /\ receipt[running[l]] = "ours" => registered[l]
    /\ \A i \in 1 .. Len(up[l]) :
          up[l][i] = "succeeded" => receipt[running[l]] # "none"

LaneOK(l) ==
    /\ job[l] \in {"boot", "idle"} <=> task[l] = None
    /\ ~stop /\ phase \in Dispatching /\ running[l] = None =>
          task[l] = None /\ up[l] = <<>>
    /\ job[l] = "sent" => reply[l] = "none"
    /\ \A i \in 1 .. Len(up[l]) :
          up[l][i] \in Results => i = Len(up[l]) /\ task[l] = None
    /\ job[l] = "committed" => receipt[task[l]] # "none"
    /\ running[l] # None => DispatchedOK(l)

LaneInv == \A l \in Lanes : LaneOK(l)

(* Where the parent has proved trees dead. *)
ControlInv ==
    /\ resolving # None =>
          running[resolving] # None /\ stop /\ phase \in {"serve", "prepare", "refresh"}
    /\ phase = "collect" =>
          stop /\ \A l \in Lanes : running[l] # None => tree[l] = "gone"
    /\ phase = "cleanup" => \A l \in Lanes : tree[l] = "gone"
    /\ phase \in {"closing", "ended"} => \A l \in Lanes : running[l] = None
    /\ phase = "start" =>
          ~stop /\ \A l \in Lanes : task[l] = None /\ running[l] = None

(* A claim of the parent is in one of its two cells. *)
ClaimInv ==
    /\ \A c \in Chunks : Owned(c) /\ ~Troubled(c) =>
          \E l \in Lanes : prepared[l] = c \/ running[l] = c
    /\ phase \in {"closing", "ended"} =>
          \A l \in Lanes : prepared[l] # None /\ Owned(prepared[l]) => Troubled(prepared[l])
    /\ phase = "raised" => \A c \in Chunks : Owned(c) => Troubled(c)

Inv == /\ TypeOK /\ DispatchInv /\ LaneInv /\ ControlInv /\ ClaimInv
       /\ FailedClaimsAreQuiescent /\ VerdictsFollowReceipts

-----------------------------------------------------------------------------
(* Constants, sequences and rows *)

LEMMA FirstIs ==
    ASSUME NEW S \in SUBSET Lanes, S # {}
    PROVE  First(S) \in S
  <1>1. S \in SUBSET Nat
    BY LanesAssumption
  <1>2. PICK l \in S : \A k \in S : ~(<<k, l>> \in OpToRel(<, Nat))
    BY <1>1, NatLessThanWellFounded, WFMin
  <1>3. \A k \in S : ~(k < l)
    BY <1>1, <1>2, Zenon DEF OpToRel
  <1>4. \A k \in S : l <= k
    BY <1>1, <1>3
  <1> QED
    BY <1>4 DEF First

LEMMA NoneIs == None \notin Lanes /\ None \notin Chunks
  BY LanesAssumption

(* What is left of a queue or a pipe once its head is taken. *)
LEMMA TailIs ==
    ASSUME NEW S, NEW s \in Seq(S), s # <<>>
    PROVE  /\ Tail(s) \in Seq(S) /\ Head(s) = s[1] /\ 1 \in 1 .. Len(s)
           /\ Len(s) \in Nat
           /\ Len(Tail(s)) = Len(s) - 1
           /\ \A i \in 1 .. Len(Tail(s)) : i + 1 \in 1 .. Len(s) /\ Tail(s)[i] = s[i + 1]
           /\ Len(s) = 1 => Tail(s) = <<>>
  <1>1. Len(s) \in Nat /\ Len(s) > 0
    BY EmptySeq
  <1>2. /\ Tail(s) \in Seq(S) /\ Len(Tail(s)) = Len(s) - 1
        /\ \A i \in 1 .. Len(Tail(s)) : Tail(s)[i] = s[i + 1]
    BY HeadTailProperties, Zenon
  <1>3. Head(s) = s[1]
    OBVIOUS
  <1>4. Len(s) = 1 => Tail(s) = <<>>
    <2>1. Tail(s) # <<>> => Len(Tail(s)) \in Nat \ {0}
      BY <1>2, EmptySeq, Zenon
    <2> QED
      BY <1>2, <2>1
  <1> QED
    BY <1>1, <1>2, <1>3, <1>4

LEMMA RowUpdate ==
    ASSUME NEW l \in Ledger, NEW c \in Chunks, NEW rec \in ChunkRecord
    PROVE  LET m == [l EXCEPT !.chunks[c] = rec] IN
           /\ m \in Ledger /\ m.chunks[c] = rec
           /\ \A d \in Chunks \ {c} : m.chunks[d] = l.chunks[d]
  BY DEF Ledger

LEMMA TerminalIs ==
    ASSUME TypeOK, NEW c \in Chunks, NEW status \in {"success", "failed"}
    PROVE  Terminal(c, status) \in ChunkRecord /\ Terminal(c, status).status = status
  <1>1. ledger \in Ledger /\ ledger.chunks[c].attempts \in Nat
    BY DEF TypeOK, Ledger, ChunkRecord
  <1>2. Terminal(c, status) = [status |-> status, owner |-> NoOwner, expires |-> 0,
                               attempts |-> ledger.chunks[c].attempts]
    BY <1>1 DEF Terminal, CompleteChunk, Ledger
  <1> QED
    BY <1>1, <1>2 DEF ChunkRecord, ChunkStatus

-----------------------------------------------------------------------------
(* What a step leaves alone *)

(* Dispatching is not taken up again. *)
StillRefuses ==
    ~stop' /\ phase' \in Dispatching => ~stop /\ phase \in Dispatching

(* Receipts of the target stay. *)
ReceiptsStay == \A c \in Chunks : receipt[c] # "none" => receipt'[c] # "none"

LEMMA LaneUnmoved ==
    ASSUME TypeOK, NEW l \in Lanes, LaneOK(l), StillRefuses, ReceiptsStay,
           job'[l] = job[l], task'[l] = task[l], reply'[l] = reply[l], up'[l] = up[l],
           running'[l] = running[l], registered'[l] = registered[l],
           running[l] # None /\ receipt'[running[l]] = "ours" => receipt[running[l]] = "ours"
    PROVE  LaneOK(l)'
  <1>1. /\ task[l] \in Chunks \cup {None} /\ running[l] \in Chunks \cup {None}
        /\ job[l] = "committed" => task[l] \in Chunks
    BY DEF TypeOK, LaneOK
  <1>2. job[l] = "committed" => receipt'[task[l]] # "none"
    BY <1>1 DEF LaneOK, ReceiptsStay
  <1>3. running[l] # None => DispatchedOK(l)'
    <2> SUFFICES ASSUME running[l] # None PROVE DispatchedOK(l)'
      OBVIOUS
    <2>1. running[l] \in Chunks /\ DispatchedOK(l)
      BY <1>1 DEF LaneOK
    <2> QED
      BY <2>1 DEF DispatchedOK, ReceiptsStay
  <1> QED
    BY <1>2, <1>3 DEF LaneOK, StillRefuses

(* The parent takes a frame of a running lane off its pipe. *)
LEMMA PipePopped ==
    ASSUME TypeOK, NEW l \in Lanes, up[l] # <<>>
    PROVE  /\ up[l] \in Seq(Frames) /\ Tail(up[l]) \in Seq(Frames)
           /\ Head(up[l]) = up[l][1]
           /\ 1 \in 1 .. Len(up[l])
           /\ \A i \in 1 .. Len(Tail(up[l])) :
                 i + 1 \in 1 .. Len(up[l]) /\ Tail(up[l])[i] = up[l][i + 1]
           /\ \A i \in 1 .. Len(Tail(up[l])) :
                 i + 1 = Len(up[l]) => i = Len(Tail(up[l]))
           /\ Len(up[l]) = 1 => Tail(up[l]) = <<>>
           /\ \A x : up[l] = <<x>> => Tail(up[l]) = <<>>
  <1>1. up[l] \in Seq(Frames)
    BY DEF TypeOK, Frames
  <1>2. /\ Tail(up[l]) \in Seq(Frames) /\ Head(up[l]) = up[l][1] /\ 1 \in 1 .. Len(up[l])
        /\ Len(up[l]) \in Nat
        /\ Len(Tail(up[l])) = Len(up[l]) - 1
        /\ \A i \in 1 .. Len(Tail(up[l])) :
              i + 1 \in 1 .. Len(up[l]) /\ Tail(up[l])[i] = up[l][i + 1]
        /\ Len(up[l]) = 1 => Tail(up[l]) = <<>>
    BY <1>1, TailIs
  <1>3. \A x : up[l] = <<x>> => Len(up[l]) = 1
    OBVIOUS
  <1>4. \A i \in 1 .. Len(Tail(up[l])) : i + 1 = Len(up[l]) => i = Len(Tail(up[l]))
    BY <1>2
  <1> QED
    BY <1>1, <1>2, <1>3, <1>4

LEMMA LanePopped ==
    ASSUME TypeOK, NEW l \in Lanes, LaneOK(l), StillRefuses, running[l] # None,
           up[l] # <<>>, up'[l] = Tail(up[l]), receipt' = receipt,
           job'[l] = job[l], task'[l] = task[l],
           running'[l] = running[l], registered[l] => registered'[l],
           job[l] = "asking" /\ reply'[l] = "yes" => registered'[l]
    PROVE  LaneOK(l)'
  <1>1. /\ \A i \in 1 .. Len(Tail(up[l])) :
              i + 1 \in 1 .. Len(up[l]) /\ Tail(up[l])[i] = up[l][i + 1]
        /\ \A i \in 1 .. Len(Tail(up[l])) : i + 1 = Len(up[l]) => i = Len(Tail(up[l]))
        /\ \A x : up[l] = <<x>> => Tail(up[l]) = <<>>
    BY PipePopped
  <1>2. \A i \in 1 .. Len(up'[l]) :
           up'[l][i] \in Results => i = Len(up'[l]) /\ task[l] = None
    BY <1>1 DEF LaneOK
  <1>3. DispatchedOK(l)'
    <2>1. DispatchedOK(l)
      BY DEF LaneOK
    <2>2. \A i \in 1 .. Len(up'[l]) : up'[l][i] = "succeeded" => receipt'[running'[l]] # "none"
      BY <1>1, <2>1 DEF DispatchedOK
    <2>3. /\ job[l] \in {"probing", "asking"} => up'[l] = <<>>
          /\ job[l] \notin {"sent", "working", "committed"}
      BY <1>1, <2>1 DEF DispatchedOK
    <2> QED
      BY <2>1, <2>2, <2>3 DEF DispatchedOK
  <1>4. job[l] # "sent"
    BY DEF LaneOK, DispatchedOK
  <1> QED
    BY <1>2, <1>3, <1>4 DEF LaneOK

(* The parent moves on without touching a claim, a record or a lane's work. *)
LEMMA ParentMoves ==
    ASSUME Inv, TypeOK', LaneInv', ControlInv',
           UNCHANGED <<queue, prepared, running, task, ledger, receipt, verdict>>,
           \A l \in batch' : prepared[l] = None /\ running[l] = None,
           phase' \in Dispatching \cup {"collect"} => phase \in Dispatching \cup {"collect"},
           \A l \in Lanes : task[l] # None /\ tree[l] = "gone" => tree'[l] = "gone",
           \A c \in Chunks : trouble[c] \subseteq trouble'[c],
           phase' \in {"closing", "ended"} => phase \in {"closing", "ended"},
           phase' = "raised" =>
              \/ phase = "raised"
              \/ \A l \in Lanes : prepared[l] = None /\ running[l] = None
              \/ \A c \in Chunks : "tree" \in trouble'[c]
    PROVE  Inv'
  <1>1. /\ \A c \in Chunks : Queued(c)' = Queued(c) /\ Owned(c)' = Owned(c)
        /\ \A c \in Chunks : Troubled(c) => Troubled(c)'
        /\ \A l \in Lanes : prepared[l] # None => prepared[l] \in Chunks
    BY DEF Queued, Owned, Troubled, Inv, TypeOK
  <1>2. DispatchInv'
    <2>1. \A l \in Lanes : prepared[l] # None \/ running[l] # None => l \notin batch'
      OBVIOUS
    <2> QED
      BY <1>1, <2>1 DEF Inv, DispatchInv
  <1>3. ClaimInv'
    <2>1. phase' \in {"closing", "ended"} =>
             \A l \in Lanes : prepared[l] # None /\ Owned(prepared[l])' => Troubled(prepared[l])'
      BY <1>1 DEF Inv, ClaimInv
    <2>2. phase' = "raised" => \A c \in Chunks : Owned(c)' => Troubled(c)'
      <3>1. CASE phase = "raised"
        BY <1>1, <3>1 DEF Inv, ClaimInv
      <3>2. CASE \A l \in Lanes : prepared[l] = None /\ running[l] = None
        BY <1>1, <3>2, NoneIs DEF Inv, ClaimInv
      <3>3. CASE \A c \in Chunks : "tree" \in trouble'[c]
        BY <3>3 DEF Troubled
      <3> QED
        BY <3>1, <3>2, <3>3
    <2> QED
      BY <1>1, <2>1, <2>2 DEF Inv, ClaimInv
  <1>4. FailedClaimsAreQuiescent'
    BY NoneIs DEF Inv, FailedClaimsAreQuiescent
  <1>5. VerdictsFollowReceipts'
    BY DEF Inv, VerdictsFollowReceipts
  <1> QED
    BY <1>2, <1>3, <1>4, <1>5 DEF Inv

LEMMA QuietParent ==
    ASSUME Inv, TypeOK', ControlInv', StillRefuses,
           UNCHANGED <<queue, prepared, running, registered, job, task, up, reply,
                       ledger, receipt, verdict>>,
           \A l \in batch' : prepared[l] = None /\ running[l] = None,
           phase' \in Dispatching \cup {"collect"} => phase \in Dispatching \cup {"collect"},
           \A l \in Lanes : tree[l] = "gone" => tree'[l] = "gone",
           \A c \in Chunks : trouble[c] \subseteq trouble'[c],
           phase' \in {"closing", "ended"} => phase \in {"closing", "ended"},
           phase' = "raised" =>
              \/ phase = "raised"
              \/ \A l \in Lanes : prepared[l] = None /\ running[l] = None
              \/ \A c \in Chunks : "tree" \in trouble'[c]
    PROVE  Inv'
  <1>1. LaneInv'
    BY LaneUnmoved DEF Inv, LaneInv, ReceiptsStay
  <1> QED
    BY <1>1, ParentMoves

LEMMA BatchIsIdle ==
    ASSUME Inv
    PROVE  \A l \in batch : prepared[l] = None /\ running[l] = None
  BY DEF Inv, TypeOK, DispatchInv

LEMMA FaultIs ==
    ASSUME Inv, faults' = faults \/ Fault
    PROVE  faults' \in 0 .. MaxFaults
  BY LanesAssumption DEF Inv, TypeOK, Fault

(* A failed call is remembered. *)
LEMMA TroubleGrows ==
    ASSUME TypeOK, NEW c \in Chunks, NEW bad \in SUBSET {"recovery", "ledger", "tree"},
           trouble' = trouble \/ trouble' = [trouble EXCEPT ![c] = @ \cup bad]
    PROVE  /\ trouble' \in [Chunks -> SUBSET {"recovery", "ledger", "tree"}]
           /\ trouble' # trouble => trouble'[c] = trouble[c] \cup bad
           /\ trouble[c] \subseteq trouble'[c]
           /\ \A d \in Chunks \ {c} : trouble'[d] = trouble[d]
           /\ [trouble EXCEPT ![c] = @ \cup bad][c] = trouble[c] \cup bad
  <1>1. trouble \in [Chunks -> SUBSET {"recovery", "ledger", "tree"}]
    BY DEF TypeOK
  <1>2. trouble[c] \cup bad \in SUBSET {"recovery", "ledger", "tree"}
    BY <1>1
  <1>3. [trouble EXCEPT ![c] = @ \cup bad][c] = trouble[c] \cup bad
    BY <1>1
  <1>4. CASE trouble' = trouble
    BY <1>1, <1>3, <1>4
  <1>5. CASE trouble' = [trouble EXCEPT ![c] = @ \cup bad]
    <2>1. trouble' \in [Chunks -> SUBSET {"recovery", "ledger", "tree"}]
      BY <1>1, <1>2, <1>5
    <2>2. trouble'[c] = trouble[c] \cup bad /\ \A d \in Chunks \ {c} : trouble'[d] = trouble[d]
      BY <1>1, <1>5
    <2> QED
      BY <1>3, <2>1, <2>2
  <1> QED
    BY <1>4, <1>5

LEMMA IdleExitStep ==
    ASSUME Inv, IdleExit
    PROVE  Inv'
  <1>1. /\ phase = "serve" /\ resolving = None /\ stop' = TRUE
        /\ tree' = tree \/ tree' = [l \in Lanes |-> IF l \in Candidates /\ Exited(l)
                                                    THEN "gone" ELSE tree[l]]
        /\ faults' = faults \/ Fault
        /\ UNCHANGED <<phase, dispatchVars, laneVars, resolving, job, task, up, reply, recordVars>>
    BY DEF IdleExit, Quiet
  <1>2. UNCHANGED <<queue, batch, prepared, fresh, running, control, registered, authorized,
                    ledger, receipt, verdict, trouble>>
    BY <1>1 DEF dispatchVars, laneVars, recordVars
  <1>3. /\ tree' \in [Lanes -> {"live", "orphaned", "gone"}]
        /\ \A l \in Lanes : tree[l] = "gone" => tree'[l] = "gone"
    BY <1>1 DEF Inv, TypeOK
  <1>4. TypeOK'
    <2>1. faults' \in 0 .. MaxFaults
      BY <1>1, FaultIs
    <2>2. stop' \in BOOLEAN
      BY <1>1
    <2> QED
      BY <1>1, <1>2, <1>3, <2>1, <2>2, Zenon DEF Inv, TypeOK
  <1>5. ControlInv'
    BY <1>1 DEF ControlInv
  <1> QED
    BY <1>1, <1>2, <1>3, <1>4, <1>5, BatchIsIdle, QuietParent DEF StillRefuses, Dispatching

(* Steps within the dispatch that keep every claim where it is. *)
LEMMA WithinDispatch ==
    ASSUME Inv, BeginDispatch \/ ClaimsDone \/ Refresh \/ FinalGate \/ BatchPublished
    PROVE  Inv'
  <1>1. /\ phase \in {"serve", "prepare", "refresh", "send"} /\ ~stop
        /\ phase' \in {"serve", "prepare", "refresh", "send"}
        /\ stop' \in BOOLEAN /\ resolving' = resolving
        /\ UNCHANGED <<queue, prepared, running, registered, authorized, tree, job, task, up, reply,
                       recordVars, faults>>
    <2>1. stop \in BOOLEAN
      BY DEF Inv, TypeOK
    <2>2. CASE BeginDispatch
      BY <2>1, <2>2 DEF BeginDispatch, CanDispatch, laneVars, childVars
    <2>3. CASE ClaimsDone
      BY <2>1, <2>3 DEF ClaimsDone, laneVars, childVars
    <2>4. CASE Refresh
      BY <2>1, <2>4 DEF Refresh, laneVars, childVars
    <2>5. CASE FinalGate
      BY <2>1, <2>5 DEF FinalGate, dispatchVars, childVars
    <2>6. CASE BatchPublished
      BY <2>1, <2>6 DEF BatchPublished, dispatchVars, laneVars, childVars
    <2> QED
      BY <2>2, <2>3, <2>4, <2>5, <2>6
  <1>2. UNCHANGED <<ledger, receipt, verdict, trouble>>
    BY <1>1 DEF recordVars
  <1>3. batch' \subseteq Lanes /\ \A l \in batch' : prepared[l] = None /\ running[l] = None
    <2>1. batch' = batch \/ batch' = {} \/ (Prepared = {} /\ batch' \subseteq Candidates)
      <3>1. CASE BeginDispatch
        <4>1. Prepared = {} => batch' = {First(Candidates)} \/ batch' = Candidates
          BY <3>1 DEF BeginDispatch
        <4>2. Prepared = {} => First(Candidates) \in Candidates
          <5>1. Prepared = {} => Candidates # {}
            BY <3>1 DEF BeginDispatch, CanDispatch
          <5>2. Candidates \in SUBSET Lanes
            BY DEF Candidates
          <5> QED
            BY <5>1, <5>2, FirstIs
        <4> QED
          BY <3>1, <4>1, <4>2 DEF BeginDispatch
      <3> QED
        BY <3>1 DEF ClaimsDone, Refresh, FinalGate, BatchPublished, dispatchVars
    <2> QED
      BY <2>1, BatchIsIdle DEF Candidates, Prepared, Inv, TypeOK
  <1>4. fresh' \subseteq Lanes
    <2>1. CASE Refresh
      <3>1. Prepared \ fresh \in SUBSET Lanes
        BY DEF Prepared
      <3>2. First(Prepared \ fresh) \in Lanes
        BY <2>1, <3>1, FirstIs DEF Refresh
      <3> QED
        BY <2>1, <3>2 DEF Refresh, Inv, TypeOK
    <2> QED
      BY <2>1 DEF BeginDispatch, ClaimsDone, FinalGate, BatchPublished, dispatchVars, Inv, TypeOK
  <1>5. control' \in [Lanes -> BOOLEAN]
    BY DEF BeginDispatch, ClaimsDone, Refresh, FinalGate, BatchPublished, LatchAll, laneVars,
           Inv, TypeOK
  <1>6. TypeOK'
    <2>1. phase' \in Phases
      BY <1>1 DEF Phases
    <2> QED
      BY <1>1, <1>2, <1>3, <1>4, <1>5, <2>1, Zenon DEF Inv, TypeOK
  <1>7. ControlInv'
    BY <1>1 DEF Inv, ControlInv
  <1>8. StillRefuses /\ phase \in Dispatching
    BY <1>1 DEF StillRefuses, Dispatching
  <1> QED
    BY <1>1, <1>2, <1>3, <1>6, <1>7, <1>8, QuietParent

(* The tree of a running lane is going to be quiesced. *)
LEMMA ResolveStep ==
    ASSUME Inv, NEW l \in Lanes, HandleExit(l) \/ HandleFailed(l) \/ ReceiveFails(l)
    PROVE  Inv'
  <1>1. /\ phase \in {"serve", "prepare", "refresh"} /\ running[l] # None
        /\ resolving' = l /\ stop' = TRUE
        /\ up' = up \/ (up[l] # <<>> /\ up' = [up EXCEPT ![l] = Tail(@)])
        /\ faults' = faults \/ Fault
        /\ UNCHANGED <<phase, dispatchVars, laneVars, tree, job, task, reply, recordVars>>
    BY DEF HandleExit, HandleFailed, ReceiveFails, BeginResolve, Frame, Serving
  <1>2. UNCHANGED <<queue, batch, prepared, fresh, running, control, registered, authorized,
                    ledger, receipt, verdict, trouble>>
    BY <1>1 DEF dispatchVars, laneVars, recordVars
  <1>3. /\ up' \in [Lanes -> Seq(Frames)]
        /\ \A k \in Lanes : k # l => up'[k] = up[k]
        /\ up'[l] = up[l] \/ (up[l] # <<>> /\ up'[l] = Tail(up[l]))
    <2>1. up \in [Lanes -> Seq(Frames)]
      BY DEF Inv, TypeOK, Frames
    <2>2. up[l] # <<>> => Tail(up[l]) \in Seq(Frames)
      BY PipePopped DEF Inv
    <2> QED
      BY <1>1, <2>1, <2>2
  <1>4. TypeOK'
    <2>1. faults' \in 0 .. MaxFaults
      BY <1>1, FaultIs
    <2>2. stop' \in BOOLEAN /\ resolving' \in Lanes \cup {None}
      BY <1>1
    <2> QED
      BY <1>1, <1>2, <1>3, <2>1, <2>2, Zenon DEF Inv, TypeOK, Frames
  <1>5. StillRefuses /\ ReceiptsStay
    BY <1>1, <1>2 DEF StillRefuses, ReceiptsStay
  <1>6. LaneInv'
    <2>1. \A k \in Lanes : k # l => LaneOK(k)'
      BY <1>1, <1>2, <1>3, <1>5, LaneUnmoved DEF Inv, LaneInv
    <2>2. LaneOK(l) /\ (job[l] = "asking" /\ reply[l] = "yes" => registered[l])
      BY <1>1 DEF Inv, LaneInv, LaneOK, DispatchedOK
    <2>3. CASE up'[l] = up[l]
      <3>1. LaneOK(l)'
        BY <1>1, <1>2, <1>5, <2>2, <2>3, LaneUnmoved DEF Inv
      <3> QED
        BY <2>1, <3>1 DEF LaneInv
    <2>4. CASE up[l] # <<>> /\ up'[l] = Tail(up[l])
      <3>1. LaneOK(l)'
        BY <1>1, <1>2, <1>5, <2>2, <2>4, LanePopped DEF Inv
      <3> QED
        BY <2>1, <3>1 DEF LaneInv
    <2> QED
      BY <1>3, <2>3, <2>4
  <1>7. ControlInv'
    BY <1>1, <1>2 DEF ControlInv
  <1> QED
    BY <1>1, <1>2, <1>4, <1>6, <1>7, BatchIsIdle, ParentMoves DEF Dispatching

(* A control error is latched. *)
LEMMA LatchStep ==
    ASSUME Inv, CoordinatorLost \/ \E l \in Lanes : HeartbeatLost(l) \/ OperationLeaseLost(l)
    PROVE  Inv'
  <1>1. /\ phase \in {"serve", "prepare", "refresh"} /\ stop' = TRUE
        /\ control' \in [Lanes -> BOOLEAN]
        /\ UNCHANGED <<phase, dispatchVars, running, registered, authorized, resolving,
                       childVars, recordVars, faults>>
    <2>1. CASE CoordinatorLost
      BY <2>1 DEF CoordinatorLost, LatchAll, Serving
    <2>2. CASE \E l \in Lanes : LatchLane(l)
      BY <2>2 DEF LatchLane, Serving, Inv, TypeOK
    <2> QED
      BY <2>1, <2>2 DEF HeartbeatLost, OperationLeaseLost
  <1>2. UNCHANGED <<queue, batch, prepared, fresh, tree, job, task, up, reply,
                    ledger, receipt, verdict, trouble>>
    BY <1>1 DEF dispatchVars, childVars, recordVars
  <1>3. TypeOK'
    <2>1. stop' \in BOOLEAN
      BY <1>1
    <2> QED
      BY <1>1, <1>2, <2>1, Zenon DEF Inv, TypeOK
  <1>4. ControlInv'
    BY <1>1, <1>2 DEF Inv, ControlInv
  <1> QED
    BY <1>1, <1>2, <1>3, <1>4, BatchIsIdle, QuietParent DEF StillRefuses, Dispatching

(* Trees are proved dead, or the parent takes its abort path. *)
LEMMA PeerDrainStep ==
    ASSUME Inv, PeerDrainTimeout
    PROVE  Inv'
  <1>1. /\ phase = "serve" /\ resolving = None /\ stop = TRUE
        /\ \/ /\ phase' = "collect"
              /\ tree' = [l \in Lanes |-> IF l \in Running THEN "gone" ELSE tree[l]]
           \/ phase' = "abort" /\ tree' = tree
        /\ faults' = faults \/ Fault
        /\ UNCHANGED <<dispatchVars, laneVars, stop, resolving, job, task, up, reply, recordVars>>
    BY DEF PeerDrainTimeout, Quiet, Inv, TypeOK
  <1>2. UNCHANGED <<queue, batch, prepared, fresh, running, control, registered, authorized,
                    ledger, receipt, verdict, trouble>>
    BY <1>1 DEF dispatchVars, laneVars, recordVars
  <1>3. /\ tree' \in [Lanes -> {"live", "orphaned", "gone"}]
        /\ \A l \in Lanes : tree[l] = "gone" => tree'[l] = "gone"
        /\ phase' = "collect" => \A l \in Lanes : running[l] # None => tree'[l] = "gone"
    BY <1>1 DEF Inv, TypeOK, Running
  <1>4. TypeOK'
    <2>1. faults' \in 0 .. MaxFaults
      BY <1>1, FaultIs
    <2>2. phase' \in Phases
      BY <1>1 DEF Phases
    <2> QED
      BY <1>1, <1>2, <1>3, <2>1, <2>2, Zenon DEF Inv, TypeOK
  <1>5. ControlInv'
    BY <1>1, <1>2, <1>3 DEF ControlInv
  <1> QED
    BY <1>1, <1>2, <1>3, <1>4, <1>5, BatchIsIdle, QuietParent DEF StillRefuses, Dispatching

LEMMA CollectedStep ==
    ASSUME Inv, Collected \/ Reraise
    PROVE  Inv'
  <1>1. /\ \/ phase = "collect" /\ phase' = "serve" /\ stop
           \/ /\ phase = "cleanup" /\ phase' = "raised"
              /\ \A l \in Lanes : prepared[l] = None /\ running[l] = None
        /\ UNCHANGED <<dispatchVars, laneVars, stop, resolving, childVars, recordVars, faults>>
    BY DEF Collected, Reraise, Prepared, Running, Inv, ControlInv
  <1>2. UNCHANGED <<queue, batch, prepared, fresh, running, control, registered, authorized,
                    tree, job, task, up, reply, ledger, receipt, verdict, trouble>>
    BY <1>1 DEF dispatchVars, laneVars, childVars, recordVars
  <1>3. TypeOK'
    <2>1. phase' \in Phases
      BY <1>1 DEF Phases
    <2> QED
      BY <1>1, <1>2, <2>1, Zenon DEF Inv, TypeOK
  <1>4. ControlInv'
    BY <1>1, <1>2 DEF Inv, ControlInv
  <1> QED
    BY <1>1, <1>2, <1>3, <1>4, BatchIsIdle, QuietParent DEF StillRefuses, Dispatching

LEMMA ShutdownStep ==
    ASSUME Inv, Shutdown
    PROVE  Inv'
  <1>1. /\ phase = "closing"
        /\ \/ phase' = "ended" /\ tree' = [l \in Lanes |-> "gone"]
           \/ phase' = "abort" /\ tree' = tree
        /\ faults' = faults \/ Fault
        /\ UNCHANGED <<dispatchVars, laneVars, stop, resolving, job, task, up, reply, recordVars>>
    BY DEF Shutdown
  <1>2. UNCHANGED <<queue, batch, prepared, fresh, running, control, registered, authorized,
                    ledger, receipt, verdict, trouble>>
    BY <1>1 DEF dispatchVars, laneVars, recordVars
  <1>3. /\ tree' \in [Lanes -> {"live", "orphaned", "gone"}]
        /\ \A l \in Lanes : tree[l] = "gone" => tree'[l] = "gone"
    BY <1>1 DEF Inv, TypeOK
  <1>4. TypeOK'
    <2>1. faults' \in 0 .. MaxFaults
      BY <1>1, FaultIs
    <2>2. phase' \in Phases
      BY <1>1 DEF Phases
    <2> QED
      BY <1>1, <1>2, <1>3, <2>1, <2>2, Zenon DEF Inv, TypeOK
  <1>5. ControlInv'
    BY <1>1, <1>2 DEF Inv, ControlInv
  <1> QED
    BY <1>1, <1>2, <1>3, <1>4, <1>5, BatchIsIdle, QuietParent DEF StillRefuses, Dispatching

LEMMA InterruptStep ==
    ASSUME Inv, Interrupt
    PROVE  Inv'
  <1>1. /\ phase' = "abort" /\ resolving' = None /\ Fault
        /\ UNCHANGED <<dispatchVars, laneVars, stop, childVars, recordVars>>
    BY DEF Interrupt
  <1>2. UNCHANGED <<queue, batch, prepared, fresh, running, control, registered, authorized,
                    tree, job, task, up, reply, ledger, receipt, verdict, trouble>>
    BY <1>1 DEF dispatchVars, laneVars, childVars, recordVars
  <1>3. TypeOK'
    <2>1. faults' \in 0 .. MaxFaults
      BY <1>1, FaultIs
    <2>2. phase' \in Phases /\ resolving' \in Lanes \cup {None}
      BY <1>1 DEF Phases
    <2> QED
      BY <1>1, <1>2, <2>1, <2>2, Zenon DEF Inv, TypeOK
  <1>4. ControlInv'
    BY <1>1 DEF ControlInv
  <1> QED
    BY <1>1, <1>2, <1>3, <1>4, BatchIsIdle, QuietParent DEF StillRefuses, Dispatching

LEMMA AbortBarrierStep ==
    ASSUME Inv, AbortBarrier
    PROVE  Inv'
  <1>1. /\ phase = "abort"
        /\ faults' = faults \/ Fault
        /\ \/ phase' = "cleanup" /\ tree' = [l \in Lanes |-> "gone"] /\ trouble' = trouble
           \/ /\ phase' = "raised"
              /\ \E left \in SUBSET Lanes :
                    tree' = [l \in Lanes |-> IF l \in left THEN tree[l] ELSE "gone"]
              /\ trouble' = [c \in Chunks |-> trouble[c] \cup {"tree"}]
        /\ UNCHANGED <<dispatchVars, laneVars, stop, resolving, job, task, up, reply,
                       ledger, receipt, verdict>>
    BY DEF AbortBarrier
  <1>2. UNCHANGED <<queue, batch, prepared, fresh, running, control, registered, authorized>>
    BY <1>1 DEF dispatchVars, laneVars
  <1>3. /\ tree' \in [Lanes -> {"live", "orphaned", "gone"}]
        /\ \A l \in Lanes : tree[l] = "gone" => tree'[l] = "gone"
        /\ phase' = "cleanup" => \A l \in Lanes : tree'[l] = "gone"
    BY <1>1 DEF Inv, TypeOK
  <1>4. /\ trouble' \in [Chunks -> SUBSET {"recovery", "ledger", "tree"}]
        /\ \A c \in Chunks : trouble[c] \subseteq trouble'[c]
        /\ phase' = "raised" => \A c \in Chunks : "tree" \in trouble'[c]
    BY <1>1 DEF Inv, TypeOK
  <1>5. TypeOK'
    <2>1. faults' \in 0 .. MaxFaults
      BY <1>1, FaultIs
    <2>2. phase' \in Phases
      BY <1>1 DEF Phases
    <2> QED
      BY <1>1, <1>2, <1>3, <1>4, <2>1, <2>2, Zenon DEF Inv, TypeOK
  <1>6. ControlInv'
    BY <1>1, <1>3 DEF Inv, ControlInv
  <1> QED
    BY <1>1, <1>2, <1>3, <1>4, <1>5, <1>6, BatchIsIdle, QuietParent DEF StillRefuses, Dispatching

LEMMA StartupStep ==
    ASSUME Inv, Startup
    PROVE  Inv'
  <1>1. PICK up1 \in SUBSET Lanes, lost \in SUBSET Lanes :
           /\ job' = [l \in Lanes |-> IF l \in up1 THEN "idle" ELSE "boot"]
           /\ tree' = [l \in Lanes |-> IF l \in lost THEN "gone" ELSE "live"]
           /\ stop' = (up1 # Lanes)
    BY DEF Startup
  <1>2. /\ phase = "start" /\ phase' = "serve"
        /\ UNCHANGED <<dispatchVars, laneVars, resolving, task, up, reply, recordVars, faults>>
    BY DEF Startup
  <1>3. UNCHANGED <<queue, batch, prepared, fresh, running, control, registered, authorized,
                    ledger, receipt, verdict, trouble>>
    BY <1>2 DEF dispatchVars, laneVars, recordVars
  <1>4. /\ ~stop /\ resolving = None
        /\ \A l \in Lanes : task[l] = None /\ running[l] = None
    BY <1>2 DEF Inv, ControlInv
  <1>5. TypeOK'
    <2>1. /\ phase' \in Phases /\ stop' \in BOOLEAN
          /\ tree' \in [Lanes -> {"live", "orphaned", "gone"}]
          /\ job' \in [Lanes -> {"boot", "idle", "sent", "probing", "asking", "working",
                                 "committed"}]
      BY <1>1, <1>2 DEF Phases
    <2> QED
      BY <1>2, <1>3, <2>1, Zenon DEF Inv, TypeOK
  <1>6. LaneInv'
    <2> SUFFICES ASSUME NEW l \in Lanes PROVE LaneOK(l)'
      BY DEF LaneInv
    <2>1. /\ job'[l] \in {"boot", "idle"} /\ task'[l] = None /\ running'[l] = None
          /\ up'[l] = up[l]
      BY <1>1, <1>2, <1>3, <1>4
    <2>2. up[l] = <<>>
      BY <1>2, <1>4 DEF Inv, LaneInv, LaneOK, Dispatching
    <2>3. \A i \in 1 .. Len(up'[l]) : FALSE
      BY <2>1, <2>2
    <2> QED
      BY <2>1, <2>2, <2>3 DEF LaneOK
  <1>7. ControlInv'
    BY <1>2, <1>4 DEF ControlInv
  <1> QED
    BY <1>2, <1>3, <1>4, <1>5, <1>6, <1>7, BatchIsIdle, ParentMoves DEF Dispatching

(* The first chunk of the queue is claimed, or given up, or refused. *)
LEMMA ClaimStep ==
    ASSUME Inv, Claim
    PROVE  Inv'
  <1>1. /\ phase = "prepare" /\ resolving = None /\ ~stop /\ batch # {} /\ queue # <<>>
        /\ UNCHANGED <<phase, fresh, laneVars, resolving, childVars, receipt>>
    BY DEF Claim, Quiet
  <1>2. UNCHANGED <<running, control, registered, authorized, tree, job, task, up, reply>>
    BY <1>1 DEF laneVars, childVars
  <1>3. PICK l \in Lanes :
           l = First(batch) /\ l \in batch /\ prepared[l] = None /\ running[l] = None
    <2>1. batch \in SUBSET Lanes
      BY DEF Inv, TypeOK
    <2> QED
      BY <1>1, <2>1, FirstIs, BatchIsIdle
  <1>4. PICK c \in Chunks :
           /\ queue \in Seq(Chunks) /\ Tail(queue) \in Seq(Chunks) /\ c = Head(queue)
           /\ c = queue[1] /\ 1 \in 1 .. Len(queue) /\ Len(queue) \in Nat
           /\ Tail(queue) # queue
           /\ \A i \in 1 .. Len(Tail(queue)) :
                 i + 1 \in 1 .. Len(queue) /\ Tail(queue)[i] = queue[i + 1]
    <2>1. queue \in Seq(Chunks)
      BY DEF Inv, TypeOK
    <2>2. /\ Tail(queue) \in Seq(Chunks) /\ Head(queue) = queue[1] /\ 1 \in 1 .. Len(queue)
          /\ Len(queue) \in Nat
          /\ Len(Tail(queue)) = Len(queue) - 1
          /\ \A i \in 1 .. Len(Tail(queue)) :
                i + 1 \in 1 .. Len(queue) /\ Tail(queue)[i] = queue[i + 1]
      BY <1>1, <2>1, TailIs
    <2>3. \A n \in Nat : n - 1 # n
      OBVIOUS
    <2>4. Tail(queue) # queue
      BY <2>2, <2>3, Zenon
    <2>5. Head(queue) \in Chunks
      BY <1>1, <2>1, HeadTailProperties, Zenon
    <2> QED
      BY <2>2, <2>1, <2>4, <2>5, Zenon
  <1>5. Queued(c)
    BY <1>4 DEF Queued
  <1>6. PICK claimed \in ChunkRecord, given \in ChunkRecord :
           /\ claimed = AcquireChunk(ledger, c, Parent, Lease).chunks[c]
           /\ given = [claimed EXCEPT !.status = "failed", !.owner = NoOwner, !.expires = 0]
           /\ given.status = "failed"
    <2>1. ledger \in Ledger /\ Parent \in Owners /\ Lease \in Nat
      BY LanesAssumption DEF Inv, TypeOK, Lease
    <2>2. AcquireChunk(ledger, c, Parent, Lease) \in Ledger
      BY <2>1, AcquireChunkFacts
    <2>3. AcquireChunk(ledger, c, Parent, Lease).chunks[c] \in ChunkRecord
      BY <2>2 DEF Ledger
    <2>4. \A r \in ChunkRecord :
             LET g == [r EXCEPT !.status = "failed", !.owner = NoOwner, !.expires = 0]
             IN  g \in ChunkRecord /\ g.status = "failed"
      BY DEF ChunkRecord, ChunkStatus
    <2> QED
      BY <2>3, <2>4
  <1>7. \/ Exited(l) /\ stop' = TRUE
           /\ UNCHANGED <<queue, batch, prepared, ledger, verdict, trouble, faults>>
        \/ queue' = Tail(queue)
           /\ \/ /\ ledger' = [ledger EXCEPT !.chunks[c] = claimed]
                 /\ prepared' = [prepared EXCEPT ![l] = c]
                 /\ batch' = batch \ {l}
                 /\ UNCHANGED <<verdict, stop, trouble, faults>>
              \/ /\ ledger' = [ledger EXCEPT !.chunks[c] = given]
                 /\ verdict' = [verdict EXCEPT ![c] = "failed"]
                 /\ stop' = TRUE
                 /\ UNCHANGED <<batch, prepared, trouble, faults>>
              \/ /\ Fault
                 /\ ledger' = [ledger EXCEPT !.chunks[c] = claimed]
                 /\ trouble' = [trouble EXCEPT ![c] = @ \cup {"ledger"}]
                 /\ stop' = TRUE
                 /\ UNCHANGED <<batch, prepared, verdict>>
              \/ /\ stop' = TRUE
                 /\ UNCHANGED <<batch, prepared, ledger, verdict, trouble, faults>>
    BY <1>3, <1>4, <1>6 DEF Claim
  <1>8. /\ ledger' \in Ledger
        /\ verdict' \in [Chunks -> {"none", "success", "failed"}]
        /\ trouble' \in [Chunks -> SUBSET {"recovery", "ledger", "tree"}]
        /\ \A d \in Chunks \ {c} : /\ ledger'.chunks[d] = ledger.chunks[d]
                                   /\ verdict'[d] = verdict[d]
                                   /\ trouble'[d] = trouble[d]
        /\ verdict'[c] \in {verdict[c], "failed"}
        /\ trouble[c] \subseteq trouble'[c]
    <2>1. /\ [ledger EXCEPT !.chunks[c] = claimed] \in Ledger
          /\ \A d \in Chunks \ {c} :
                [ledger EXCEPT !.chunks[c] = claimed].chunks[d] = ledger.chunks[d]
      <3>1. ledger \in Ledger /\ claimed \in ChunkRecord
        BY DEF Inv, TypeOK
      <3> QED
        BY <3>1, RowUpdate
    <2>2. /\ [ledger EXCEPT !.chunks[c] = given] \in Ledger
          /\ \A d \in Chunks \ {c} :
                [ledger EXCEPT !.chunks[c] = given].chunks[d] = ledger.chunks[d]
      <3>1. ledger \in Ledger /\ given \in ChunkRecord
        BY DEF Inv, TypeOK
      <3> QED
        BY <3>1, RowUpdate
    <2>3. /\ ledger' \in Ledger
          /\ \A d \in Chunks \ {c} : ledger'.chunks[d] = ledger.chunks[d]
      BY <1>7, <2>1, <2>2 DEF Inv, TypeOK
    <2>4. /\ verdict' \in [Chunks -> {"none", "success", "failed"}]
          /\ \A d \in Chunks \ {c} : verdict'[d] = verdict[d]
          /\ verdict'[c] \in {verdict[c], "failed"}
      <3>1. verdict' = verdict \/ verdict' = [verdict EXCEPT ![c] = "failed"]
        BY <1>7
      <3> QED
        BY <3>1 DEF Inv, TypeOK
    <2>5. /\ trouble' \in [Chunks -> SUBSET {"recovery", "ledger", "tree"}]
          /\ \A d \in Chunks \ {c} : trouble'[d] = trouble[d]
          /\ trouble[c] \subseteq trouble'[c]
      <3>1. trouble' = trouble \/ trouble' = [trouble EXCEPT ![c] = @ \cup {"ledger"}]
        BY <1>7
      <3> QED
        BY <3>1, TroubleGrows DEF Inv
    <2> QED
      BY <2>3, <2>4, <2>5
  <1>9. /\ stop' \in BOOLEAN /\ faults' \in 0 .. MaxFaults
        /\ queue' \in Seq(Chunks)
        /\ batch' \subseteq batch
        /\ prepared' \in [Lanes -> Chunks \cup {None}]
        /\ \A k \in Lanes : k # l => prepared'[k] = prepared[k]
        /\ \/ prepared'[l] = None
           \/ prepared'[l] = c /\ l \notin batch' /\ queue' = Tail(queue) /\ verdict' = verdict
        /\ \/ queue' = queue /\ verdict' = verdict
           \/ queue' = Tail(queue)
    <2>1. faults' = faults \/ Fault
      BY <1>7
    <2>2. faults' \in 0 .. MaxFaults
      BY <2>1, FaultIs
    <2>3. stop' \in BOOLEAN
      BY <1>7 DEF Inv, TypeOK
    <2>4. queue \in Seq(Chunks) /\ prepared \in [Lanes -> Chunks \cup {None}]
      BY DEF Inv, TypeOK
    <2>5. \/ prepared' = prepared /\ batch' = batch /\ queue' = queue /\ verdict' = verdict
          \/ prepared' = prepared /\ batch' = batch /\ queue' = Tail(queue)
          \/ /\ prepared' = [prepared EXCEPT ![l] = c] /\ batch' = batch \ {l}
             /\ queue' = Tail(queue) /\ verdict' = verdict
      BY <1>7
    <2> QED
      BY <1>3, <1>4, <2>2, <2>3, <2>4, <2>5
  <1>10. TypeOK'
    <2>1. batch' \subseteq Lanes
      BY <1>9 DEF Inv, TypeOK
    <2> QED
      BY <1>1, <1>2, <1>8, <1>9, <2>1, Zenon DEF Inv, TypeOK
  <1>11. StillRefuses /\ ReceiptsStay
    BY <1>1 DEF StillRefuses, ReceiptsStay, Dispatching
  <1>12. LaneInv'
    BY <1>1, <1>2, <1>11, LaneUnmoved DEF Inv, LaneInv
  <1>13. ControlInv'
    BY <1>1 DEF ControlInv
  <1>14. /\ verdict[c] = "none" /\ receipt[c] # "ours"
         /\ \A k \in Lanes : prepared[k] # c /\ running[k] # c /\ task[k] # c
    BY <1>4, <1>5 DEF Inv, DispatchInv
  <1>15. \A d \in Chunks : Queued(d)' => Queued(d) /\ (d = c => queue' = queue)
    <2>1. CASE queue' = queue
      BY <2>1 DEF Queued
    <2>2. CASE queue' = Tail(queue)
      <3> SUFFICES ASSUME NEW d \in Chunks, NEW i \in 1 .. Len(Tail(queue)), Tail(queue)[i] = d
                   PROVE  Queued(d) /\ d # c
        BY <2>2 DEF Queued
      <3>1. i + 1 \in 1 .. Len(queue) /\ queue[i + 1] = d
        BY <1>4
      <3>2. i + 1 # 1 /\ i \in Nat
        BY <1>4
      <3>3. d # c
        BY <1>4, <3>1, <3>2 DEF Inv, DispatchInv
      <3> QED
        BY <3>1, <3>3 DEF Queued
    <2> QED
      BY <1>9, <2>1, <2>2
  <1>16. DispatchInv'
    <2>1. \A i, j \in 1 .. Len(queue') : queue'[i] = queue'[j] => i = j
      <3>1. CASE queue' = queue
        BY <3>1 DEF Inv, DispatchInv
      <3>2. CASE queue' = Tail(queue)
        <4> SUFFICES ASSUME NEW i \in 1 .. Len(Tail(queue)), NEW j \in 1 .. Len(Tail(queue)),
                            Tail(queue)[i] = Tail(queue)[j]
                     PROVE  i = j
          BY <3>2
        <4>1. /\ i + 1 \in 1 .. Len(queue) /\ j + 1 \in 1 .. Len(queue)
              /\ queue[i + 1] = queue[j + 1]
          BY <1>4
        <4>2. i + 1 = j + 1
          BY <4>1 DEF Inv, DispatchInv
        <4> QED
          BY <4>2
      <3> QED
        BY <1>9, <3>1, <3>2
    <2>2. \A d \in Chunks : Queued(d)' =>
             /\ verdict'[d] = "none" /\ receipt'[d] # "ours"
             /\ \A k \in Lanes : prepared'[k] # d /\ running'[k] # d /\ task'[k] # d
      <3> SUFFICES ASSUME NEW d \in Chunks, Queued(d)'
                   PROVE  /\ verdict'[d] = "none" /\ receipt'[d] # "ours"
                          /\ \A k \in Lanes : prepared'[k] # d /\ running'[k] # d /\ task'[k] # d
        OBVIOUS
      <3>1. /\ verdict[d] = "none" /\ receipt[d] # "ours"
            /\ \A k \in Lanes : prepared[k] # d /\ running[k] # d /\ task[k] # d
        BY <1>15 DEF Inv, DispatchInv
      <3>2. verdict'[d] = "none"
        <4>1. CASE d = c
          <5>1. queue' = queue
            BY <1>15, <4>1
          <5> QED
            BY <1>4, <1>9, <3>1, <5>1
        <4> QED
          BY <1>8, <3>1, <4>1
      <3>3. prepared'[l] # d
        <4>1. CASE prepared'[l] = None
          BY <4>1, NoneIs
        <4>2. CASE prepared'[l] = c /\ queue' = Tail(queue)
          BY <1>4, <1>15, <4>2
        <4> QED
          BY <1>9, <4>1, <4>2
      <3> QED
        BY <1>1, <1>2, <1>9, <3>1, <3>2, <3>3
    <2>3. \A k \in Lanes : prepared'[k] # None =>
             /\ running'[k] = None /\ k \notin batch'
             /\ receipt'[prepared'[k]] # "ours"
             /\ verdict'[prepared'[k]] = "none"
             /\ \A j \in Lanes : /\ task'[j] # prepared'[k] /\ running'[j] # prepared'[k]
                                 /\ prepared'[j] = prepared'[k] => j = k
      <3> SUFFICES ASSUME NEW k \in Lanes, prepared'[k] # None
                   PROVE  /\ running'[k] = None /\ k \notin batch'
                          /\ receipt'[prepared'[k]] # "ours"
                          /\ verdict'[prepared'[k]] = "none"
                          /\ \A j \in Lanes :
                                /\ task'[j] # prepared'[k] /\ running'[j] # prepared'[k]
                                /\ prepared'[j] = prepared'[k] => j = k
        OBVIOUS
      <3>1. CASE k = l
        BY <1>1, <1>2, <1>3, <1>9, <1>14, <3>1
      <3>2. CASE k # l
        <4>1. prepared'[k] = prepared[k] /\ prepared[k] # c /\ prepared[k] \in Chunks
          BY <1>9, <1>14, <3>2 DEF Inv, TypeOK
        <4>2. /\ running[k] = None /\ k \notin batch
              /\ receipt[prepared[k]] # "ours"
              /\ verdict[prepared[k]] = "none"
              /\ \A j \in Lanes : /\ task[j] # prepared[k] /\ running[j] # prepared[k]
                                  /\ prepared[j] = prepared[k] => j = k
          BY <1>1, <4>1 DEF Inv, DispatchInv, Dispatching
        <4> QED
          BY <1>1, <1>2, <1>8, <1>9, <4>1, <4>2
      <3> QED
        BY <3>1, <3>2
    <2>4. \A k \in Lanes : running'[k] # None =>
             /\ k \notin batch'
             /\ \A j \in Lanes \ {k} : running'[j] # running'[k] /\ task'[j] # running'[k]
      BY <1>2, <1>9 DEF Inv, DispatchInv
    <2> QED
      BY <2>1, <2>2, <2>3, <2>4 DEF DispatchInv
  <1>17. ClaimInv'
    <2>1. ASSUME NEW d \in Chunks, Owned(d)', ~Troubled(d)'
          PROVE  \E k \in Lanes : prepared'[k] = d \/ running'[k] = d
      <3>1. CASE d # c
        <4>1. Owned(d) /\ ~Troubled(d)
          BY <1>8, <2>1, <3>1 DEF Owned, CompleteChunkOK, Troubled
        <4>2. PICK k \in Lanes : prepared[k] = d \/ running[k] = d
          BY <4>1 DEF Inv, ClaimInv
        <4> QED
          BY <1>2, <1>3, <1>9, <4>2, NoneIs
      <3>2. CASE d = c
        <4>1. ~Owned(c)
          <5>1. Owned(c) => Troubled(c)
            BY <1>4, <1>14 DEF Inv, ClaimInv
          <5>2. Troubled(c) => Troubled(c)'
            BY <1>8 DEF Troubled
          <5> QED
            BY <2>1, <3>2, <5>1, <5>2
        <4>2. ledger' # ledger
          BY <2>1, <3>2, <4>1 DEF Owned
        <4>3. prepared' # [prepared EXCEPT ![l] = c] =>
                 \/ ledger' = [ledger EXCEPT !.chunks[c] = given]
                 \/ trouble' = [trouble EXCEPT ![c] = @ \cup {"ledger"}]
          BY <1>7, <4>2
        <4>4. ledger' # [ledger EXCEPT !.chunks[c] = given]
          <5>1. [ledger EXCEPT !.chunks[c] = given].chunks[c] = given
            <6>1. ledger \in Ledger /\ given \in ChunkRecord
              BY DEF Inv, TypeOK
            <6> QED
              BY <6>1 DEF Ledger
          <5> QED
            BY <1>6, <2>1, <3>2, <5>1 DEF Owned, CompleteChunkOK
        <4>5. trouble' # [trouble EXCEPT ![c] = @ \cup {"ledger"}]
          BY <2>1, <3>2, TroubleGrows DEF Troubled, Inv
        <4>6. prepared'[l] = c
          BY <1>3, <4>3, <4>4, <4>5 DEF Inv, TypeOK
        <4> QED
          BY <1>3, <3>2, <4>6
      <3> QED
        BY <3>1, <3>2
    <2> QED
      BY <1>1, <2>1 DEF ClaimInv
  <1>18. FailedClaimsAreQuiescent'
    <2> SUFFICES ASSUME NEW d \in Chunks, verdict'[d] = "failed", NEW k \in Lanes, task[k] = d
                 PROVE  tree[k] = "gone"
      BY <1>2 DEF FailedClaimsAreQuiescent
    <2>1. d # c
      BY <1>14
    <2> QED
      BY <1>8, <2>1 DEF Inv, FailedClaimsAreQuiescent
  <1>19. VerdictsFollowReceipts'
    <2> SUFFICES ASSUME NEW d \in Chunks
                 PROVE  /\ verdict'[d] = "success" => receipt[d] # "none"
                        /\ verdict'[d] = "failed" /\ receipt[d] = "ours" => "recovery" \in trouble'[d]
      BY <1>1 DEF VerdictsFollowReceipts
    <2>1. CASE d = c
      BY <1>8, <1>14, <2>1
    <2>2. CASE d # c
      BY <1>8, <2>2 DEF Inv, VerdictsFollowReceipts
    <2> QED
      BY <2>1, <2>2
  <1> QED
    BY <1>10, <1>12, <1>13, <1>16, <1>17, <1>18, <1>19 DEF Inv

(* A lane with nothing in its pipe is sent its claim. *)
LEMMA SendStep ==
    ASSUME Inv, Send
    PROVE  Inv'
  <1>1. /\ phase = "send" /\ ~stop /\ Prepared # {}
        /\ UNCHANGED <<phase, queue, batch, fresh, registered, authorized, resolving, tree, up,
                       recordVars, faults>>
    BY DEF Send
  <1>2. UNCHANGED <<ledger, receipt, verdict, trouble>>
    BY <1>1 DEF recordVars
  <1>3. PICK l \in Lanes : l = First(Prepared) /\ prepared[l] # None
    <2>1. Prepared \in SUBSET Lanes
      BY DEF Prepared
    <2>2. First(Prepared) \in Prepared
      BY <1>1, <2>1, FirstIs
    <2> QED
      BY <2>2 DEF Prepared
  <1>4. PICK c \in Chunks : c = prepared[l]
    BY <1>3 DEF Inv, TypeOK
  <1>5. /\ running[l] = None /\ l \notin batch /\ receipt[c] # "ours" /\ verdict[c] = "none"
        /\ \A k \in Lanes : task[k] # c /\ running[k] # c /\ (prepared[k] = c => k = l)
    BY <1>1, <1>3, <1>4 DEF Inv, DispatchInv, Dispatching
  <1>6. task[l] = None /\ up[l] = <<>> /\ job[l] \in {"boot", "idle"}
    BY <1>1, <1>5 DEF Inv, LaneInv, LaneOK, Dispatching
  <1>7. resolving = None
    BY <1>1 DEF Inv, ControlInv
  <1>8. CASE Exited(l) /\ stop' = TRUE /\ UNCHANGED <<prepared, running, control, job, task, reply>>
    <2>1. TypeOK'
      <3>1. stop' \in BOOLEAN
        BY <1>8
      <3> QED
        BY <1>1, <1>2, <1>8, <3>1, Zenon DEF Inv, TypeOK
    <2>2. ControlInv'
      BY <1>1, <1>7 DEF ControlInv
    <2> QED
      BY <1>1, <1>2, <1>8, <2>1, <2>2, BatchIsIdle, QuietParent DEF StillRefuses, Dispatching
  <1>9. CASE ~(Exited(l) /\ stop' = TRUE
               /\ UNCHANGED <<prepared, running, control, job, task, reply>>)
    <2>1. /\ prepared' = [prepared EXCEPT ![l] = None]
          /\ running' = [running EXCEPT ![l] = c]
          /\ stop' \in BOOLEAN
          /\ \E raised \in BOOLEAN : control' = [control EXCEPT ![l] = raised]
          /\ \/ /\ job' = [job EXCEPT ![l] = "sent"]
                /\ task' = [task EXCEPT ![l] = c]
                /\ reply' = [reply EXCEPT ![l] = "none"]
             \/ UNCHANGED <<job, task, reply>>
      BY <1>3, <1>4, <1>9 DEF Send
    <2>2. /\ prepared' \in [Lanes -> Chunks \cup {None}]
          /\ running' \in [Lanes -> Chunks \cup {None}]
          /\ control' \in [Lanes -> BOOLEAN]
          /\ job' \in [Lanes -> Jobs]
          /\ task' \in [Lanes -> Chunks \cup {None}]
          /\ reply' \in [Lanes -> {"none", "yes", "no"}]
      <3>1. /\ prepared \in [Lanes -> Chunks \cup {None}]
            /\ running \in [Lanes -> Chunks \cup {None}]
            /\ control \in [Lanes -> BOOLEAN]
            /\ job \in [Lanes -> Jobs]
            /\ task \in [Lanes -> Chunks \cup {None}]
            /\ reply \in [Lanes -> {"none", "yes", "no"}]
        BY DEF Inv, TypeOK, Jobs
      <3>2. "sent" \in Jobs
        BY DEF Jobs
      <3>3. control' \in [Lanes -> BOOLEAN]
        BY <2>1, <3>1
      <3>4. prepared' \in [Lanes -> Chunks \cup {None}] /\ running' \in [Lanes -> Chunks \cup {None}]
        BY <2>1, <3>1
      <3>5. /\ job' \in [Lanes -> Jobs] /\ task' \in [Lanes -> Chunks \cup {None}]
            /\ reply' \in [Lanes -> {"none", "yes", "no"}]
        BY <2>1, <3>1, <3>2
      <3> QED
        BY <3>3, <3>4, <3>5
    <2>3. /\ prepared'[l] = None /\ running'[l] = c
          /\ \/ job'[l] = "sent" /\ task'[l] = c /\ reply'[l] = "none"
             \/ job'[l] = job[l] /\ task'[l] = None
          /\ \A k \in Lanes : k # l =>
                /\ prepared'[k] = prepared[k] /\ running'[k] = running[k]
                /\ job'[k] = job[k] /\ task'[k] = task[k] /\ reply'[k] = reply[k]
      BY <1>6, <2>1 DEF Inv, TypeOK
    <2>4. TypeOK'
      BY <1>1, <1>2, <2>1, <2>2, Zenon DEF Inv, TypeOK, Jobs
    <2>5. DispatchInv'
      <3>1. \A i, j \in 1 .. Len(queue') : queue'[i] = queue'[j] => i = j
        BY <1>1 DEF Inv, DispatchInv
      <3>2. ASSUME NEW d \in Chunks, Queued(d)'
            PROVE  /\ verdict'[d] = "none" /\ receipt'[d] # "ours"
                   /\ \A k \in Lanes : prepared'[k] # d /\ running'[k] # d /\ task'[k] # d
        <4>1. Queued(d)
          BY <1>1, <3>2 DEF Queued
        <4>2. /\ verdict[d] = "none" /\ receipt[d] # "ours"
              /\ \A k \in Lanes : prepared[k] # d /\ running[k] # d /\ task[k] # d
          BY <4>1 DEF Inv, DispatchInv
        <4> QED
          BY <1>2, <1>4, <2>3, <4>2, NoneIs
      <3>3. ASSUME NEW k \in Lanes, prepared'[k] # None
            PROVE  /\ running'[k] = None /\ k \notin batch'
                   /\ receipt'[prepared'[k]] # "ours"
                   /\ verdict'[prepared'[k]] = "none"
                   /\ \A j \in Lanes : /\ task'[j] # prepared'[k] /\ running'[j] # prepared'[k]
                                       /\ prepared'[j] = prepared'[k] => j = k
        <4>1. k # l /\ prepared'[k] = prepared[k]
          BY <2>3, <3>3
        <4>2. /\ running[k] = None /\ k \notin batch
              /\ receipt[prepared[k]] # "ours"
              /\ verdict[prepared[k]] = "none"
              /\ \A j \in Lanes : /\ task[j] # prepared[k] /\ running[j] # prepared[k]
                                  /\ prepared[j] = prepared[k] => j = k
          BY <1>1, <3>3, <4>1 DEF Inv, DispatchInv, Dispatching
        <4>3. prepared[k] # c
          BY <1>5, <4>1
        <4> QED
          BY <1>1, <1>2, <2>3, <3>3, <4>1, <4>2, <4>3
      <3>4. ASSUME NEW k \in Lanes, running'[k] # None
            PROVE  /\ k \notin batch'
                   /\ \A j \in Lanes \ {k} : running'[j] # running'[k] /\ task'[j] # running'[k]
        <4>1. CASE k = l
          BY <1>1, <1>5, <2>3, <4>1
        <4>2. CASE k # l
          <5>1. /\ k \notin batch /\ running[k] # c
                /\ \A j \in Lanes \ {k} : running[j] # running[k] /\ task[j] # running[k]
            BY <1>5, <2>3, <3>4, <4>2 DEF Inv, DispatchInv
          <5> QED
            BY <1>1, <2>3, <3>4, <4>2, <5>1
        <4> QED
          BY <4>1, <4>2
      <3> QED
        BY <3>1, <3>2, <3>3, <3>4 DEF DispatchInv
    <2>6. LaneInv'
      <3>1. StillRefuses /\ ReceiptsStay
        BY <1>1, <1>2 DEF StillRefuses, ReceiptsStay, Dispatching
      <3>2. ASSUME NEW k \in Lanes, k # l PROVE LaneOK(k)'
        BY <1>1, <1>2, <2>3, <3>1, <3>2, LaneUnmoved DEF Inv, LaneInv
      <3>3. LaneOK(l)'
        <4>1. up'[l] = <<>> /\ \A i \in 1 .. Len(up'[l]) : FALSE
          BY <1>1, <1>6
        <4>2. running'[l] # None /\ receipt'[c] # "ours"
          BY <1>2, <1>5, <2>3, NoneIs
        <4>3. DispatchedOK(l)'
          BY <1>6, <2>3, <4>1, <4>2 DEF DispatchedOK
        <4> QED
          BY <1>6, <2>3, <4>1, <4>2, <4>3, NoneIs DEF LaneOK
      <3> QED
        BY <3>2, <3>3 DEF LaneInv
    <2>7. ControlInv'
      BY <1>1, <1>7 DEF ControlInv
    <2>8. ClaimInv'
      <3>1. ASSUME NEW d \in Chunks, Owned(d)', ~Troubled(d)'
            PROVE  \E k \in Lanes : prepared'[k] = d \/ running'[k] = d
        <4>1. Owned(d) /\ ~Troubled(d)
          BY <1>2, <3>1 DEF Owned, Troubled
        <4>2. PICK k \in Lanes : prepared[k] = d \/ running[k] = d
          BY <4>1 DEF Inv, ClaimInv
        <4> QED
          BY <1>4, <1>5, <2>3, <4>2, NoneIs
      <3> QED
        BY <1>1, <3>1 DEF ClaimInv
    <2>9. FailedClaimsAreQuiescent'
      BY <1>1, <1>2, <1>5, <2>3, NoneIs DEF Inv, FailedClaimsAreQuiescent
    <2>10. VerdictsFollowReceipts'
      BY <1>2 DEF Inv, VerdictsFollowReceipts
    <2> QED
      BY <2>4, <2>5, <2>6, <2>7, <2>8, <2>9, <2>10 DEF Inv
  <1> QED
    BY <1>8, <1>9

-----------------------------------------------------------------------------
(* Claims that were never sent are failed *)

LEMMA FailClaimsFacts ==
    ASSUME Inv, NEW raising \in SUBSET Prepared,
           FailClaims({prepared[l] : l \in Prepared}, {prepared[l] : l \in raising})
    PROVE  /\ ledger' \in Ledger
           /\ verdict' \in [Chunks -> {"none", "success", "failed"}]
           /\ trouble' \in [Chunks -> SUBSET {"recovery", "ledger", "tree"}]
           /\ \A c \in Chunks :
                 /\ verdict'[c] \in {verdict[c], "failed"}
                 /\ verdict'[c] # verdict[c] => \E l \in Prepared \ raising : prepared[l] = c
                 /\ trouble[c] \subseteq trouble'[c]
                 /\ Owned(c)' => Owned(c)
           /\ \A l \in Prepared, c \in Chunks : prepared[l] = c /\ Owned(c)' => "ledger" \in trouble'[c]
           /\ \A l \in raising : verdict'[prepared[l]] = verdict[prepared[l]]
  <1> DEFINE P == {prepared[l] : l \in Prepared}
             R == {prepared[l] : l \in raising}
             W == FailedBy(P \ R)
  <1>1. /\ ledger' = [ledger EXCEPT !.chunks = [c \in Chunks |->
                         IF c \in W THEN Terminal(c, "failed") ELSE @[c]]]
        /\ verdict' = [c \in Chunks |-> IF c \in W THEN "failed" ELSE verdict[c]]
        /\ trouble' = [c \in Chunks |-> IF c \in R THEN trouble[c] \cup {"ledger"} ELSE trouble[c]]
    BY DEF FailClaims
  <1>2. /\ P \subseteq Chunks /\ R \subseteq P
        /\ \A c \in W : c \in P /\ c \notin R
        /\ \A c \in P : c \notin R /\ Owned(c) => c \in W
    BY DEF Inv, TypeOK, Prepared, FailedBy, Owned
  <1>3. /\ \A l \in Prepared : prepared[l] \in P
        /\ \A l \in raising : prepared[l] \in R
        /\ \A c \in P \ R : \E l \in Prepared \ raising : prepared[l] = c
    OBVIOUS
  <1> HIDE DEF P, R, W
  <1>4. \A c \in Chunks : Terminal(c, "failed") \in ChunkRecord
                          /\ Terminal(c, "failed").status = "failed"
    BY TerminalIs DEF Inv
  <1>5. /\ ledger' \in Ledger
        /\ \A c \in Chunks : ledger'.chunks[c] = IF c \in W THEN Terminal(c, "failed")
                                                 ELSE ledger.chunks[c]
    <2>1. ledger \in Ledger /\ ledger.chunks \in [Chunks -> ChunkRecord]
      BY DEF Inv, TypeOK, Ledger
    <2> HIDE DEF Inv
    <2>2. ledger'.chunks = [c \in Chunks |-> IF c \in W THEN Terminal(c, "failed")
                                             ELSE ledger.chunks[c]]
      BY <1>1, <2>1 DEF Ledger
    <2>3. ledger'.chunks \in [Chunks -> ChunkRecord]
      BY <1>4, <2>1, <2>2
    <2> QED
      BY <1>1, <2>1, <2>2, <2>3 DEF Ledger
  <1>6. \A c \in Chunks : /\ Owned(c)' => Owned(c) /\ c \notin W
                          /\ Owned(c)' /\ c \in P => c \in R
    BY <1>2, <1>4, <1>5 DEF Owned, CompleteChunkOK
  <1>7. verdict' \in [Chunks -> {"none", "success", "failed"}]
    BY <1>1 DEF Inv, TypeOK
  <1>8. trouble' \in [Chunks -> SUBSET {"recovery", "ledger", "tree"}]
    <2>1. trouble \in [Chunks -> SUBSET {"recovery", "ledger", "tree"}]
      BY DEF Inv, TypeOK
    <2>2. \A c \in Chunks : trouble[c] \cup {"ledger"} \in SUBSET {"recovery", "ledger", "tree"}
      BY <2>1
    <2> QED
      BY <1>1, <2>1, <2>2
  <1>9. \A c \in Chunks :
           /\ verdict'[c] \in {verdict[c], "failed"}
           /\ verdict'[c] # verdict[c] => \E l \in Prepared \ raising : prepared[l] = c
           /\ trouble[c] \subseteq trouble'[c]
           /\ c \in R => "ledger" \in trouble'[c] /\ verdict'[c] = verdict[c]
    BY <1>1, <1>2, <1>3
  <1> QED
    BY <1>2, <1>3, <1>5, <1>6, <1>7, <1>8, <1>9

(* Abandoning claims keeps the parent's promises about them. *)
LEMMA ClaimsFailed ==
    ASSUME Inv, TypeOK', ControlInv', StillRefuses,
           NEW raising \in SUBSET Prepared,
           FailClaims({prepared[l] : l \in Prepared}, {prepared[l] : l \in raising}),
           UNCHANGED <<queue, running, registered, tree, job, task, up, reply, receipt>>,
           batch' \subseteq batch,
           phase' # "raised",
           \A l \in Lanes : prepared'[l] \in {None, prepared[l]},
           phase' \in Dispatching \cup {"collect"} =>
              /\ phase \in Dispatching \cup {"collect"}
              /\ \A l \in Lanes : prepared'[l] # None => l \in raising
    PROVE  Inv'
  <1>1. /\ \A c \in Chunks :
              /\ verdict'[c] \in {verdict[c], "failed"}
              /\ verdict'[c] # verdict[c] => \E l \in Prepared \ raising : prepared[l] = c
              /\ trouble[c] \subseteq trouble'[c]
              /\ Owned(c)' => Owned(c)
        /\ \A l \in Prepared, c \in Chunks : prepared[l] = c /\ Owned(c)' => "ledger" \in trouble'[c]
        /\ \A l \in raising : verdict'[prepared[l]] = verdict[prepared[l]]
    BY FailClaimsFacts
  <1>2. \A l \in Lanes : prepared[l] # None => prepared[l] \in Chunks /\ l \in Prepared
    BY DEF Inv, TypeOK, Prepared
  <1>3. \A c \in Chunks : Troubled(c) => Troubled(c)'
    BY <1>1 DEF Troubled
  <1>4. \A c \in Chunks : "ledger" \in trouble'[c] => Troubled(c)'
    BY DEF Troubled
  <1>5. DispatchInv'
    <2>1. \A i, j \in 1 .. Len(queue') : queue'[i] = queue'[j] => i = j
      BY DEF Inv, DispatchInv
    <2>2. ASSUME NEW d \in Chunks, Queued(d)'
          PROVE  /\ verdict'[d] = "none" /\ receipt'[d] # "ours"
                 /\ \A k \in Lanes : prepared'[k] # d /\ running'[k] # d /\ task'[k] # d
      <3>1. Queued(d)
        BY <2>2 DEF Queued
      <3>2. /\ verdict[d] = "none" /\ receipt[d] # "ours"
            /\ \A k \in Lanes : prepared[k] # d /\ running[k] # d /\ task[k] # d
        BY <3>1 DEF Inv, DispatchInv
      <3>3. verdict'[d] = verdict[d]
        BY <1>1, <3>2 DEF Prepared
      <3> QED
        BY <3>2, <3>3, NoneIs
    <2>3. ASSUME NEW k \in Lanes, prepared'[k] # None
          PROVE  /\ running'[k] = None /\ k \notin batch'
                 /\ receipt'[prepared'[k]] # "ours"
                 /\ phase' \in Dispatching \cup {"collect"} => verdict'[prepared'[k]] = "none"
                 /\ \A j \in Lanes : /\ task'[j] # prepared'[k] /\ running'[j] # prepared'[k]
                                     /\ prepared'[j] = prepared'[k] => j = k
      <3>1. prepared'[k] = prepared[k] /\ prepared[k] # None
        BY <2>3
      <3>2. /\ running[k] = None /\ k \notin batch
            /\ receipt[prepared[k]] # "ours"
            /\ phase \in Dispatching \cup {"collect"} => verdict[prepared[k]] = "none"
            /\ \A j \in Lanes : /\ task[j] # prepared[k] /\ running[j] # prepared[k]
                                /\ prepared[j] = prepared[k] => j = k
        BY <3>1 DEF Inv, DispatchInv
      <3>3. phase' \in Dispatching \cup {"collect"} => verdict'[prepared'[k]] = "none"
        BY <1>1, <2>3, <3>1, <3>2
      <3>4. \A j \in Lanes : prepared'[j] = prepared'[k] => j = k
        BY <3>1, <3>2
      <3> QED
        BY <3>1, <3>2, <3>3, <3>4
    <2>4. ASSUME NEW k \in Lanes, running'[k] # None
          PROVE  /\ k \notin batch'
                 /\ \A j \in Lanes \ {k} : running'[j] # running'[k] /\ task'[j] # running'[k]
      BY <2>4 DEF Inv, DispatchInv
    <2> QED
      BY <2>1, <2>2, <2>3, <2>4 DEF DispatchInv
  <1>6. LaneInv'
    BY LaneUnmoved DEF Inv, LaneInv, ReceiptsStay
  <1>7. ClaimInv'
    <2>1. ASSUME NEW d \in Chunks, Owned(d)', ~Troubled(d)'
          PROVE  \E k \in Lanes : prepared'[k] = d \/ running'[k] = d
      <3>1. Owned(d) /\ ~Troubled(d)
        BY <1>1, <1>3, <2>1
      <3>2. PICK k \in Lanes : prepared[k] = d \/ running[k] = d
        BY <3>1 DEF Inv, ClaimInv
      <3>3. prepared[k] # d
        BY <1>1, <1>2, <1>4, <2>1, NoneIs
      <3> QED
        BY <3>2, <3>3
    <2>2. ASSUME NEW k \in Lanes, prepared'[k] # None, Owned(prepared[k])'
          PROVE  Troubled(prepared[k])'
      <3>1. prepared'[k] = prepared[k] /\ prepared[k] # None /\ k \in Prepared
        BY <1>2, <2>2
      <3>2. PICK c \in Chunks : c = prepared[k] /\ c = prepared'[k]
        BY <1>2, <3>1
      <3>3. Owned(c)'
        BY <2>2, <3>2 DEF Owned
      <3>4. Troubled(c)'
        BY <1>1, <1>4, <3>1, <3>2, <3>3
      <3> QED
        BY <3>2, <3>4 DEF Troubled
    <2> QED
      BY <2>1, <2>2 DEF ClaimInv
  <1>8. FailedClaimsAreQuiescent'
    <2> SUFFICES ASSUME NEW d \in Chunks, verdict'[d] = "failed", NEW k \in Lanes, task[k] = d
                 PROVE  tree[k] = "gone"
      BY DEF FailedClaimsAreQuiescent
    <2>1. verdict'[d] = verdict[d]
      BY <1>1 DEF Inv, DispatchInv, Prepared
    <2> QED
      BY <2>1 DEF Inv, FailedClaimsAreQuiescent
  <1>9. VerdictsFollowReceipts'
    <2> SUFFICES ASSUME NEW d \in Chunks
                 PROVE  /\ verdict'[d] = "success" => receipt[d] # "none"
                        /\ verdict'[d] = "failed" /\ receipt[d] = "ours" => "recovery" \in trouble'[d]
      BY DEF VerdictsFollowReceipts
    <2>1. CASE verdict'[d] = verdict[d]
      BY <1>1, <2>1 DEF Inv, VerdictsFollowReceipts
    <2>2. CASE verdict'[d] # verdict[d]
      BY <1>1, <2>2 DEF Inv, DispatchInv, Prepared
    <2> QED
      BY <2>1, <2>2
  <1> QED
    BY <1>5, <1>6, <1>7, <1>8, <1>9 DEF Inv

LEMMA AbandonPreparedStep ==
    ASSUME Inv, AbandonPrepared
    PROVE  Inv'
  <1>1. PICK raising \in SUBSET Prepared :
           /\ faults' = faults \/ Fault
           /\ FailClaims({prepared[l] : l \in Prepared}, {prepared[l] : l \in raising})
           /\ prepared' = [l \in Lanes |-> IF l \in raising THEN prepared[l] ELSE None]
    BY DEF AbandonPrepared
  <1>2. /\ phase \in {"prepare", "refresh", "send"} /\ resolving = None /\ stop
        /\ phase' = "serve" /\ batch' = {} /\ fresh' = {}
        /\ UNCHANGED <<queue, laneVars, stop, resolving, childVars, receipt>>
    BY DEF AbandonPrepared, Quiet
  <1>3. UNCHANGED <<running, control, registered, authorized, tree, job, task, up, reply>>
    BY <1>2 DEF laneVars, childVars
  <1>4. TypeOK'
    <2>1. /\ ledger' \in Ledger
          /\ verdict' \in [Chunks -> {"none", "success", "failed"}]
          /\ trouble' \in [Chunks -> SUBSET {"recovery", "ledger", "tree"}]
      BY <1>1, FailClaimsFacts
    <2>2. faults' \in 0 .. MaxFaults
      BY <1>1, FaultIs
    <2>3. /\ prepared' \in [Lanes -> Chunks \cup {None}] /\ phase' \in Phases
          /\ batch' \subseteq Lanes /\ fresh' \subseteq Lanes
      BY <1>1, <1>2 DEF Inv, TypeOK, Phases
    <2> QED
      BY <1>2, <1>3, <2>1, <2>2, <2>3, Zenon DEF Inv, TypeOK
  <1>5. ControlInv'
    BY <1>2 DEF ControlInv
  <1>6. \A l \in Lanes : prepared'[l] \in {None, prepared[l]} /\ (prepared'[l] # None => l \in raising)
    BY <1>1
  <1> QED
    BY <1>1, <1>2, <1>3, <1>4, <1>5, <1>6, ClaimsFailed DEF StillRefuses, Dispatching

LEMMA EndLoopStep ==
    ASSUME Inv, EndLoop
    PROVE  Inv'
  <1>1. PICK raising \in SUBSET Prepared :
           /\ faults' = faults \/ Fault
           /\ FailClaims({prepared[l] : l \in Prepared}, {prepared[l] : l \in raising})
           /\ prepared' = [l \in Lanes |-> IF raising = {} THEN None ELSE prepared[l]]
    BY DEF EndLoop
  <1>2. /\ phase = "serve" /\ resolving = None /\ \A l \in Lanes : running[l] = None
        /\ phase' = "closing"
        /\ UNCHANGED <<queue, batch, fresh, laneVars, stop, resolving, childVars, receipt>>
    BY DEF EndLoop, Quiet, Running
  <1>3. UNCHANGED <<running, control, registered, authorized, tree, job, task, up, reply>>
    BY <1>2 DEF laneVars, childVars
  <1>4. TypeOK'
    <2>1. /\ ledger' \in Ledger
          /\ verdict' \in [Chunks -> {"none", "success", "failed"}]
          /\ trouble' \in [Chunks -> SUBSET {"recovery", "ledger", "tree"}]
      BY <1>1, FailClaimsFacts
    <2>2. faults' \in 0 .. MaxFaults
      BY <1>1, FaultIs
    <2>3. prepared' \in [Lanes -> Chunks \cup {None}] /\ phase' \in Phases
      BY <1>1, <1>2 DEF Inv, TypeOK, Phases
    <2> QED
      BY <1>2, <1>3, <2>1, <2>2, <2>3, Zenon DEF Inv, TypeOK
  <1>5. ControlInv'
    BY <1>2, <1>3 DEF ControlInv
  <1>6. \A l \in Lanes : prepared'[l] \in {None, prepared[l]}
    BY <1>1
  <1> QED
    BY <1>1, <1>2, <1>3, <1>4, <1>5, <1>6, ClaimsFailed DEF StillRefuses, Dispatching

LEMMA AbandonDeferredStep ==
    ASSUME Inv, AbandonDeferred
    PROVE  Inv'
  <1>1. PICK raising \in SUBSET Prepared :
           /\ faults' = faults \/ Fault
           /\ FailClaims({prepared[l] : l \in Prepared}, {prepared[l] : l \in raising})
    BY DEF AbandonDeferred
  <1>2. /\ phase = "cleanup" /\ prepared' = [l \in Lanes |-> None]
        /\ UNCHANGED <<phase, queue, batch, fresh, laneVars, stop, resolving, childVars, receipt>>
    BY DEF AbandonDeferred
  <1>3. UNCHANGED <<running, control, registered, authorized, tree, job, task, up, reply>>
    BY <1>2 DEF laneVars, childVars
  <1>4. TypeOK'
    <2>1. /\ ledger' \in Ledger
          /\ verdict' \in [Chunks -> {"none", "success", "failed"}]
          /\ trouble' \in [Chunks -> SUBSET {"recovery", "ledger", "tree"}]
      BY <1>1, FailClaimsFacts
    <2>2. faults' \in 0 .. MaxFaults
      BY <1>1, FaultIs
    <2>3. prepared' \in [Lanes -> Chunks \cup {None}]
      BY <1>2
    <2> QED
      BY <1>2, <1>3, <2>1, <2>2, <2>3, Zenon DEF Inv, TypeOK
  <1>5. ControlInv'
    BY <1>2, <1>3 DEF Inv, ControlInv
  <1>6. \A l \in Lanes : prepared'[l] \in {None, prepared[l]}
    BY <1>2
  <1> QED
    BY <1>1, <1>2, <1>3, <1>4, <1>5, <1>6, ClaimsFailed DEF StillRefuses, Dispatching

-----------------------------------------------------------------------------
(* Frames of a running lane *)

(* A request is answered; a registration is answered yes once recorded. *)
LEMMA AnswerStep ==
    ASSUME Inv, NEW l \in Lanes, HandleProbeRequest(l) \/ HandleRegister(l)
    PROVE  Inv'
  <1>1. PICK yes \in BOOLEAN, kind \in {"probe", "register"} :
           /\ phase \in {"serve", "prepare", "refresh"} /\ resolving = None
           /\ running[l] # None /\ up[l] # <<>> /\ Head(up[l]) = kind
           /\ up' = [up EXCEPT ![l] = Tail(@)]
           /\ Answer(l, yes)
           /\ \/ kind = "probe" /\ registered' = registered
                 /\ authorized' = [authorized EXCEPT ![l] = @ \/ yes]
              \/ kind = "register" /\ authorized' = authorized
                 /\ registered' = [registered EXCEPT ![l] = @ \/ yes]
           /\ UNCHANGED <<phase, dispatchVars, running, control, resolving, tree, job, task,
                          recordVars, faults>>
    <2>1. CASE HandleProbeRequest(l)
      <3>1. PICK yes \in BOOLEAN : Answer(l, yes)
                                   /\ authorized' = [authorized EXCEPT ![l] = @ \/ yes]
        BY <2>1 DEF HandleProbeRequest
      <3>2. /\ Frame(l, "probe") /\ registered' = registered
            /\ UNCHANGED <<phase, dispatchVars, running, control, resolving, tree, job, task,
                           recordVars, faults>>
        BY <2>1 DEF HandleProbeRequest
      <3> QED
        BY <3>1, <3>2, Zenon DEF Frame, Serving, Quiet
    <2>2. CASE HandleRegister(l)
      <3>1. PICK yes \in BOOLEAN : Answer(l, yes)
                                   /\ registered' = [registered EXCEPT ![l] = @ \/ yes]
        BY <2>2 DEF HandleRegister
      <3>2. /\ Frame(l, "register") /\ authorized' = authorized
            /\ UNCHANGED <<phase, dispatchVars, running, control, resolving, tree, job, task,
                           recordVars, faults>>
        BY <2>2 DEF HandleRegister
      <3> QED
        BY <3>1, <3>2, Zenon DEF Frame, Serving, Quiet
    <2> QED
      BY <2>1, <2>2
  <1>2. UNCHANGED <<queue, batch, prepared, fresh, ledger, receipt, verdict, trouble>>
    BY <1>1 DEF dispatchVars, recordVars
  <1>3. /\ up' \in [Lanes -> Seq(Frames)]
        /\ up'[l] = Tail(up[l]) /\ \A k \in Lanes : k # l => up'[k] = up[k]
    <2>1. up \in [Lanes -> Seq(Frames)] /\ Tail(up[l]) \in Seq(Frames)
      BY <1>1, PipePopped DEF Inv, TypeOK, Frames
    <2> QED
      BY <1>1, <2>1
  <1>4. /\ reply' \in [Lanes -> {"none", "yes", "no"}]
        /\ \A k \in Lanes : k # l => reply'[k] = reply[k]
        /\ reply'[l] = reply[l] \/ (reply'[l] = "yes" /\ yes) \/ reply'[l] = "no"
    <2>1. reply' = [reply EXCEPT ![l] = IF Exited(l) THEN @ ELSE IF yes THEN "yes" ELSE "no"]
      BY <1>1 DEF Answer
    <2>2. reply \in [Lanes -> {"none", "yes", "no"}]
      BY DEF Inv, TypeOK
    <2> QED
      BY <2>1, <2>2
  <1>5. stop' \in BOOLEAN /\ (stop => stop')
    BY <1>1 DEF Answer
  <1>6. /\ registered' \in [Lanes -> BOOLEAN] /\ authorized' \in [Lanes -> BOOLEAN]
        /\ \A k \in Lanes : k # l => registered'[k] = registered[k]
        /\ registered[l] => registered'[l]
        /\ kind = "register" /\ yes => registered'[l]
    BY <1>1 DEF Inv, TypeOK
  <1>7. TypeOK'
    BY <1>1, <1>2, <1>3, <1>4, <1>5, <1>6, Zenon DEF Inv, TypeOK, Frames
  <1>8. StillRefuses /\ ReceiptsStay
    BY <1>1, <1>2, <1>5 DEF StillRefuses, ReceiptsStay
  <1>9. LaneInv'
    <2>1. \A k \in Lanes : k # l => LaneOK(k)'
      BY <1>1, <1>2, <1>3, <1>4, <1>6, <1>8, LaneUnmoved DEF Inv, LaneInv
    <2>2. LaneOK(l)'
      <3>1. LaneOK(l) /\ DispatchedOK(l) /\ TypeOK
        BY <1>1 DEF Inv, LaneInv, LaneOK
      <3>2. job[l] = "asking" => up[l] = <<"register">> /\ reply[l] = "none"
        BY <1>1, <3>1 DEF DispatchedOK
      <3>3. job[l] = "asking" => kind = "register"
        BY <1>1, <3>2
      <3>4. job[l] = "asking" /\ reply'[l] = "yes" => registered'[l]
        BY <1>4, <1>6, <3>2, <3>3
      <3> QED
        BY <1>1, <1>2, <1>3, <1>6, <1>8, <3>1, <3>4, LanePopped
    <2> QED
      BY <2>1, <2>2 DEF LaneInv
  <1>10. ControlInv'
    BY <1>1 DEF ControlInv
  <1> QED
    BY <1>1, <1>2, <1>7, <1>9, <1>10, BatchIsIdle, ParentMoves DEF Dispatching

-----------------------------------------------------------------------------
(* A dispatch is over *)

(* What a completion or a settlement of chunk c may have written. *)
SettledOK(c) ==
    /\ \A d \in Chunks \ {c} : /\ ledger'.chunks[d] = ledger.chunks[d]
                               /\ verdict'[d] = verdict[d]
                               /\ trouble'[d] = trouble[d]
    /\ trouble[c] \subseteq trouble'[c]
    /\ verdict'[c] = "success" => receipt[c] # "none"
    /\ verdict'[c] = "failed" /\ receipt[c] = "ours" => "recovery" \in trouble'[c]

LEMMA LaneCleared ==
    ASSUME Inv, TypeOK', ControlInv', StillRefuses,
           NEW l \in Lanes, NEW c \in Chunks, running[l] = c,
           phase \notin {"closing", "ended", "raised"},
           running'[l] \in {None, c},
           \A k \in Lanes : k # l => /\ running'[k] = running[k] /\ registered'[k] = registered[k]
                                    /\ up'[k] = up[k],
           UNCHANGED <<phase, queue, batch, prepared, job, task, reply, receipt>>,
           LaneOK(l)',
           \A k \in Lanes : tree[k] = "gone" => tree'[k] = "gone",
           SettledOK(c),
           Owned(c)' => Troubled(c)' \/ running'[l] = c,
           verdict'[c] = "failed" => verdict[c] = "failed" \/ tree'[l] = "gone"
    PROVE  Inv'
  <1>1. \A k \in Lanes : running'[k] # running[k] => k = l /\ running'[k] = None
    OBVIOUS
  <1>2. /\ \A k \in Lanes : prepared[k] # c
        /\ ~Queued(c)
        /\ \A k \in Lanes \ {l} : running[k] # c /\ task[k] # c
    <2>1. running[l] # None
      BY NoneIs
    <2> QED
      BY <2>1 DEF Inv, DispatchInv
  <1>3. DispatchInv'
    <2>1. \A i, j \in 1 .. Len(queue') : queue'[i] = queue'[j] => i = j
      BY DEF Inv, DispatchInv
    <2>2. ASSUME NEW d \in Chunks, Queued(d)'
          PROVE  /\ verdict'[d] = "none" /\ receipt'[d] # "ours"
                 /\ \A k \in Lanes : prepared'[k] # d /\ running'[k] # d /\ task'[k] # d
      <3>1. Queued(d)
        BY <2>2 DEF Queued
      <3>2. d # c
        BY <1>2, <3>1
      <3>3. verdict[d] = "none" /\ receipt[d] # "ours"
            /\ \A k \in Lanes : prepared[k] # d /\ running[k] # d /\ task[k] # d
        BY <3>1 DEF Inv, DispatchInv
      <3> QED
        BY <1>1, <3>2, <3>3, NoneIs DEF SettledOK
    <2>3. ASSUME NEW k \in Lanes, prepared'[k] # None
          PROVE  /\ running'[k] = None /\ k \notin batch'
                 /\ receipt'[prepared'[k]] # "ours"
                 /\ phase' \in Dispatching \cup {"collect"} => verdict'[prepared'[k]] = "none"
                 /\ \A j \in Lanes : /\ task'[j] # prepared'[k] /\ running'[j] # prepared'[k]
                                     /\ prepared'[j] = prepared'[k] => j = k
      <3>1. prepared[k] # None /\ prepared[k] \in Chunks /\ prepared[k] # c
        BY <1>2, <2>3 DEF Inv, TypeOK
      <3>2. /\ running[k] = None /\ k \notin batch
            /\ receipt[prepared[k]] # "ours"
            /\ phase \in Dispatching \cup {"collect"} => verdict[prepared[k]] = "none"
            /\ \A j \in Lanes : /\ task[j] # prepared[k] /\ running[j] # prepared[k]
                                /\ prepared[j] = prepared[k] => j = k
        BY <3>1 DEF Inv, DispatchInv
      <3>3. verdict'[prepared[k]] = verdict[prepared[k]]
        BY <3>1 DEF SettledOK
      <3> QED
        BY <1>1, <3>1, <3>2, <3>3
    <2>4. ASSUME NEW k \in Lanes, running'[k] # None
          PROVE  /\ k \notin batch'
                 /\ \A j \in Lanes \ {k} : running'[j] # running'[k] /\ task'[j] # running'[k]
      <3>1. running'[k] = running[k]
        BY <1>1, <2>4
      <3> QED
        BY <1>1, <2>4, <3>1 DEF Inv, DispatchInv
    <2> QED
      BY <2>1, <2>2, <2>3, <2>4 DEF DispatchInv
  <1>4. LaneInv'
    <2>1. ReceiptsStay
      BY DEF ReceiptsStay
    <2>2. \A k \in Lanes : k # l => LaneOK(k)'
      BY <1>1, <2>1, LaneUnmoved DEF Inv, LaneInv
    <2> QED
      BY <2>2 DEF LaneInv
  <1>5. ClaimInv'
    <2>1. \A d \in Chunks \ {c} : Owned(d)' = Owned(d) /\ Troubled(d)' = Troubled(d)
      BY DEF SettledOK, Owned, CompleteChunkOK, Troubled
    <2>2. ASSUME NEW d \in Chunks, Owned(d)', ~Troubled(d)'
          PROVE  \E k \in Lanes : prepared'[k] = d \/ running'[k] = d
      <3>1. CASE d = c
        BY <2>2, <3>1
      <3>2. CASE d # c
        <4>1. PICK k \in Lanes : prepared[k] = d \/ running[k] = d
          BY <2>1, <2>2, <3>2 DEF Inv, ClaimInv
        <4> QED
          BY <1>1, <3>2, <4>1
      <3> QED
        BY <3>1, <3>2
    <2> QED
      BY <2>2 DEF ClaimInv
  <1>6. FailedClaimsAreQuiescent'
    <2> SUFFICES ASSUME NEW d \in Chunks, verdict'[d] = "failed", NEW k \in Lanes, task[k] = d
                 PROVE  tree'[k] = "gone"
      BY DEF FailedClaimsAreQuiescent
    <2>1. CASE d = c
      BY <1>2, <2>1 DEF Inv, FailedClaimsAreQuiescent
    <2>2. CASE d # c
      BY <2>2 DEF SettledOK, Inv, FailedClaimsAreQuiescent
    <2> QED
      BY <2>1, <2>2
  <1>7. VerdictsFollowReceipts'
    <2> SUFFICES ASSUME NEW d \in Chunks
                 PROVE  /\ verdict'[d] = "success" => receipt[d] # "none"
                        /\ verdict'[d] = "failed" /\ receipt[d] = "ours" => "recovery" \in trouble'[d]
      BY DEF VerdictsFollowReceipts
    <2>1. CASE d = c
      BY <2>1 DEF SettledOK
    <2>2. CASE d # c
      BY <2>2 DEF SettledOK, Inv, VerdictsFollowReceipts
    <2> QED
      BY <2>1, <2>2
  <1> QED
    BY <1>3, <1>4, <1>5, <1>6, <1>7 DEF Inv

LEMMA ClearedTypes ==
    ASSUME TypeOK, NEW l \in Lanes, ClearLane(l)
    PROVE  /\ running' \in [Lanes -> Chunks \cup {None}]
           /\ control' \in [Lanes -> BOOLEAN]
           /\ registered' \in [Lanes -> BOOLEAN]
           /\ authorized' \in [Lanes -> BOOLEAN]
           /\ running' = [running EXCEPT ![l] = None]
           /\ running'[l] = None
           /\ \A k \in Lanes : k # l => running'[k] = running[k] /\ registered'[k] = registered[k]
           /\ \A k \in Lanes : running'[k] # None => running[k] # None
  BY DEF TypeOK, ClearLane

(* The lane of a given-up dispatch promises nothing but its own shape. *)
LEMMA LaneForgotten ==
    ASSUME TypeOK, NEW l \in Lanes, LaneOK(l), running'[l] = None,
           ~(~stop' /\ phase' \in Dispatching),
           UNCHANGED <<job, task, reply, up, receipt>>
    PROVE  LaneOK(l)'
  BY DEF LaneOK

(* A row of the parent completed with its receipt. *)
LEMMA SucceedFacts ==
    ASSUME TypeOK, NEW c \in Chunks, Succeed(c)
    PROVE  /\ ledger' \in Ledger
           /\ verdict' \in [Chunks -> {"none", "success", "failed"}]
           /\ verdict'[c] = "success"
           /\ \A d \in Chunks \ {c} : ledger'.chunks[d] = ledger.chunks[d] /\ verdict'[d] = verdict[d]
           /\ ~Owned(c)'
  <1>1. /\ Terminal(c, "success") \in ChunkRecord /\ Terminal(c, "success").status = "success"
        /\ ledger \in Ledger
    BY TerminalIs DEF TypeOK
  <1>2. LET m == [ledger EXCEPT !.chunks[c] = Terminal(c, "success")] IN
        /\ m \in Ledger /\ m.chunks[c] = Terminal(c, "success")
        /\ \A d \in Chunks \ {c} : m.chunks[d] = ledger.chunks[d]
    BY <1>1, RowUpdate
  <1>3. \/ /\ Owned(c)
           /\ ledger' = [ledger EXCEPT !.chunks[c] = Terminal(c, "success")]
        \/ ~Owned(c) /\ ledger' = ledger
    BY DEF Succeed, Owned
  <1>4. ledger' \in Ledger /\ (\A d \in Chunks \ {c} : ledger'.chunks[d] = ledger.chunks[d])
        /\ ~Owned(c)'
    BY <1>1, <1>2, <1>3 DEF Owned, CompleteChunkOK
  <1> QED
    BY <1>4 DEF Succeed, TypeOK

(* Settle records FAILED only where no receipt of this dispatch was found. *)
LEMMA SettleFacts ==
    ASSUME Inv, NEW l \in Lanes, NEW c \in Chunks, running[l] = c, Settle(l)
    PROVE  /\ ledger' \in Ledger
           /\ verdict' \in [Chunks -> {"none", "success", "failed"}]
           /\ trouble' \in [Chunks -> SUBSET {"recovery", "ledger", "tree"}]
           /\ faults' \in 0 .. MaxFaults
           /\ SettledOK(c)
           /\ Owned(c)' => Troubled(c)'
  <1>1. PICK bad \in SUBSET {"recovery", "ledger"} :
           /\ IF bad = {} THEN UNCHANGED faults ELSE Fault
           /\ IF "recovery" \notin bad /\ Promotable(l, c)
              THEN bad = {} /\ Succeed(c) /\ UNCHANGED trouble
              ELSE /\ LET written == IF "ledger" \in bad THEN {} ELSE FailedBy({c})
                      IN /\ ledger' = [ledger EXCEPT !.chunks[c] =
                                IF c \in written THEN Terminal(c, "failed") ELSE @]
                         /\ verdict' = [verdict EXCEPT ![c] =
                                IF c \in written THEN "failed" ELSE @]
                   /\ trouble' = [trouble EXCEPT ![c] = @ \cup bad]
    BY DEF Settle
  <1>2. faults' \in 0 .. MaxFaults
    BY <1>1, FaultIs
  <1>3. /\ verdict[c] = "success" => receipt[c] # "none"
        /\ verdict[c] = "failed" /\ receipt[c] = "ours" => "recovery" \in trouble[c]
    BY DEF Inv, VerdictsFollowReceipts
  <1>4. receipt[c] = "ours" => registered[l]
    BY NoneIs DEF Inv, LaneInv, LaneOK, DispatchedOK
  <1>5. CASE "recovery" \notin bad /\ Promotable(l, c)
    <2>1. Succeed(c) /\ trouble' = trouble /\ receipt[c] = "ours"
      BY <1>1, <1>5 DEF Promotable
    <2>2. /\ ledger' \in Ledger
          /\ verdict' \in [Chunks -> {"none", "success", "failed"}]
          /\ verdict'[c] = "success"
          /\ \A d \in Chunks \ {c} : ledger'.chunks[d] = ledger.chunks[d] /\ verdict'[d] = verdict[d]
          /\ ~Owned(c)'
      BY <2>1, SucceedFacts DEF Inv
    <2>3. trouble' \in [Chunks -> SUBSET {"recovery", "ledger", "tree"}]
      BY <2>1 DEF Inv, TypeOK
    <2> QED
      BY <1>2, <2>1, <2>2, <2>3 DEF SettledOK
  <1>6. CASE ~("recovery" \notin bad /\ Promotable(l, c))
    <2>1. /\ trouble' \in [Chunks -> SUBSET {"recovery", "ledger", "tree"}]
          /\ trouble'[c] = trouble[c] \cup bad
          /\ \A d \in Chunks \ {c} : trouble'[d] = trouble[d]
      <3>1. trouble' = [trouble EXCEPT ![c] = @ \cup bad]
        BY <1>1, <1>6
      <3>2. bad \in SUBSET {"recovery", "ledger", "tree"}
        OBVIOUS
      <3>3. TypeOK
        BY DEF Inv
      <3> QED
        BY <3>1, <3>2, <3>3, TroubleGrows
    <2>2. \/ "ledger" \in bad /\ ledger' = ledger /\ verdict' = verdict
          \/ ~Owned(c) /\ ledger' = ledger /\ verdict' = verdict
          \/ /\ Owned(c)
             /\ ledger' = [ledger EXCEPT !.chunks[c] = Terminal(c, "failed")]
             /\ verdict' = [verdict EXCEPT ![c] = "failed"]
      <3>1. FailedBy({c}) = IF Owned(c) THEN {c} ELSE {}
        BY DEF FailedBy, Owned
      <3>2. ledger \in Ledger /\ verdict \in [Chunks -> {"none", "success", "failed"}]
        BY DEF Inv, TypeOK
      <3>3. /\ [ledger EXCEPT !.chunks[c] = ledger.chunks[c]] = ledger
            /\ [verdict EXCEPT ![c] = verdict[c]] = verdict
        BY <3>2 DEF Ledger
      <3>4. CASE "ledger" \in bad \/ ~Owned(c)
        BY <1>1, <1>6, <3>1, <3>3, <3>4
      <3>5. CASE "ledger" \notin bad /\ Owned(c)
        BY <1>1, <1>6, <3>1, <3>5
      <3> QED
        BY <3>4, <3>5
    <2>3. CASE ledger' = ledger /\ verdict' = verdict /\ ("ledger" \in bad \/ ~Owned(c))
      <3>1. Owned(c)' => Troubled(c)'
        BY <2>1, <2>3 DEF Owned, Troubled
      <3>2. ledger' \in Ledger /\ verdict' \in [Chunks -> {"none", "success", "failed"}]
        BY <2>3 DEF Inv, TypeOK
      <3>3. SettledOK(c)
        BY <1>3, <2>1, <2>3 DEF SettledOK
      <3> QED
        BY <1>2, <2>1, <3>1, <3>2, <3>3
    <2>4. CASE /\ Owned(c)
               /\ ledger' = [ledger EXCEPT !.chunks[c] = Terminal(c, "failed")]
               /\ verdict' = [verdict EXCEPT ![c] = "failed"]
      <3>1. /\ Terminal(c, "failed") \in ChunkRecord /\ Terminal(c, "failed").status = "failed"
            /\ ledger \in Ledger /\ verdict \in [Chunks -> {"none", "success", "failed"}]
        BY TerminalIs DEF Inv, TypeOK
      <3>2. LET m == [ledger EXCEPT !.chunks[c] = Terminal(c, "failed")] IN
            /\ m \in Ledger /\ m.chunks[c] = Terminal(c, "failed")
            /\ \A d \in Chunks \ {c} : m.chunks[d] = ledger.chunks[d]
        BY <3>1, RowUpdate
      <3>3. /\ ledger' \in Ledger /\ ~Owned(c)'
            /\ \A d \in Chunks \ {c} : ledger'.chunks[d] = ledger.chunks[d]
        BY <2>4, <3>1, <3>2 DEF Owned, CompleteChunkOK
      <3>4. /\ verdict' \in [Chunks -> {"none", "success", "failed"}] /\ verdict'[c] = "failed"
            /\ \A d \in Chunks \ {c} : verdict'[d] = verdict[d]
        BY <2>4, <3>1
      <3>5. receipt[c] = "ours" => "recovery" \in bad
        BY <1>4, <1>6, <2>4 DEF Promotable, Owned
      <3> QED
        BY <1>2, <2>1, <3>3, <3>4, <3>5 DEF SettledOK
    <2> QED
      BY <2>2, <2>3, <2>4
  <1> QED
    BY <1>5, <1>6

LEMMA QuiescedStep ==
    ASSUME Inv, NEW l \in Lanes, Quiesced(l) \/ Collect(l)
    PROVE  Inv'
  <1>1. /\ Settle(l) /\ ClearLane(l)
        /\ UNCHANGED <<phase, dispatchVars, stop, job, task, up, reply, receipt>>
    BY DEF Quiesced, Collect, childVars
  <1>2. UNCHANGED <<queue, batch, prepared, fresh>>
    BY <1>1 DEF dispatchVars
  <1>3. /\ \/ /\ resolving = l /\ resolving' = None
              /\ tree' = [tree EXCEPT ![l] = "gone"]
           \/ /\ phase \in {"collect", "cleanup"} /\ resolving' = resolving
              /\ tree' = tree
        /\ running[l] # None
    <2>1. CASE Quiesced(l)
      BY <2>1, NoneIs DEF Quiesced, Inv, ControlInv
    <2>2. CASE Collect(l)
      BY <2>2 DEF Collect, childVars
    <2> QED
      BY <2>1, <2>2
  <1>4. /\ tree' \in [Lanes -> {"live", "orphaned", "gone"}]
        /\ tree'[l] = "gone"
        /\ \A k \in Lanes : tree[k] = "gone" => tree'[k] = "gone"
    BY <1>3 DEF Inv, TypeOK, ControlInv
  <1>5. PICK c \in Chunks : running[l] = c
    BY <1>3 DEF Inv, TypeOK
  <1>6. /\ ledger' \in Ledger
        /\ verdict' \in [Chunks -> {"none", "success", "failed"}]
        /\ trouble' \in [Chunks -> SUBSET {"recovery", "ledger", "tree"}]
        /\ faults' \in 0 .. MaxFaults
        /\ SettledOK(c)
        /\ Owned(c)' => Troubled(c)'
    BY <1>1, <1>5, SettleFacts
  <1>7. /\ running' \in [Lanes -> Chunks \cup {None}]
        /\ control' \in [Lanes -> BOOLEAN]
        /\ registered' \in [Lanes -> BOOLEAN]
        /\ authorized' \in [Lanes -> BOOLEAN]
        /\ running' = [running EXCEPT ![l] = None] /\ running'[l] = None
        /\ \A k \in Lanes : k # l => running'[k] = running[k] /\ registered'[k] = registered[k]
        /\ \A k \in Lanes : running'[k] # None => running[k] # None
    BY <1>1, ClearedTypes DEF Inv
  <1>8. TypeOK'
    <2>1. resolving' \in Lanes \cup {None}
      BY <1>3 DEF Inv, TypeOK
    <2> QED
      BY <1>1, <1>2, <1>4, <1>6, <1>7, <2>1, Zenon DEF Inv, TypeOK
  <1>9. ~(~stop' /\ phase' \in Dispatching) /\ StillRefuses
    BY <1>1, <1>3, NoneIs DEF Inv, ControlInv, Dispatching, StillRefuses
  <1>10. LaneOK(l)'
    BY <1>1, <1>7, <1>9, LaneForgotten DEF Inv, LaneInv
  <1>11. ControlInv'
    <2>1. resolving' = None
      BY <1>3 DEF Inv, ControlInv
    <2>2. phase \in {"closing", "ended", "start"} => FALSE
      BY <1>3, NoneIs DEF Inv, ControlInv
    <2> QED
      BY <1>1, <1>4, <1>7, <2>1, <2>2 DEF Inv, ControlInv
  <1>12. phase \notin {"closing", "ended", "raised"}
    BY <1>3, NoneIs DEF Inv, ControlInv
  <1> QED
    BY <1>1, <1>2, <1>4, <1>5, <1>6, <1>7, <1>8, <1>9, <1>10, <1>11, <1>12, LaneCleared

LEMMA NotQuiescedStep ==
    ASSUME Inv, NEW l \in Lanes, NotQuiesced(l)
    PROVE  Inv'
  <1>1. /\ resolving = l /\ Fault /\ ClearLane(l) /\ resolving' = None
        /\ trouble' = [trouble EXCEPT ![running[l]] = @ \cup {"tree"}]
        /\ UNCHANGED <<phase, dispatchVars, stop, childVars, ledger, receipt, verdict>>
    BY DEF NotQuiesced
  <1>2. UNCHANGED <<queue, batch, prepared, fresh, tree, job, task, up, reply>>
    BY <1>1 DEF dispatchVars, childVars
  <1>3. running[l] # None /\ stop /\ phase \in {"serve", "prepare", "refresh"}
    BY <1>1, NoneIs DEF Inv, ControlInv
  <1>4. PICK c \in Chunks : running[l] = c
    BY <1>3 DEF Inv, TypeOK
  <1>5. /\ trouble' \in [Chunks -> SUBSET {"recovery", "ledger", "tree"}]
        /\ trouble'[c] = trouble[c] \cup {"tree"}
        /\ \A d \in Chunks \ {c} : trouble'[d] = trouble[d]
    <2>1. trouble' = [trouble EXCEPT ![c] = @ \cup {"tree"}]
      BY <1>1, <1>4
    <2>2. TypeOK
      BY DEF Inv
    <2> QED
      BY <2>1, <2>2, TroubleGrows
  <1>6. SettledOK(c) /\ Troubled(c)'
    BY <1>1, <1>5 DEF SettledOK, Troubled, Inv, VerdictsFollowReceipts
  <1>7. /\ running' \in [Lanes -> Chunks \cup {None}]
        /\ control' \in [Lanes -> BOOLEAN]
        /\ registered' \in [Lanes -> BOOLEAN]
        /\ authorized' \in [Lanes -> BOOLEAN]
        /\ running' = [running EXCEPT ![l] = None] /\ running'[l] = None
        /\ \A k \in Lanes : k # l => running'[k] = running[k] /\ registered'[k] = registered[k]
        /\ \A k \in Lanes : running'[k] # None => running[k] # None
    BY <1>1, ClearedTypes DEF Inv
  <1>8. TypeOK'
    <2>1. resolving' \in Lanes \cup {None} /\ faults' \in 0 .. MaxFaults
      BY <1>1, FaultIs
    <2> QED
      BY <1>1, <1>2, <1>5, <1>7, <2>1, Zenon DEF Inv, TypeOK
  <1>9. ~(~stop' /\ phase' \in Dispatching) /\ StillRefuses
    BY <1>1, <1>3 DEF StillRefuses
  <1>10. LaneOK(l)'
    BY <1>1, <1>2, <1>7, <1>9, LaneForgotten DEF Inv, LaneInv
  <1>11. ControlInv'
    BY <1>1, <1>3 DEF ControlInv
  <1> QED
    BY <1>1, <1>2, <1>3, <1>4, <1>6, <1>7, <1>8, <1>9, <1>10, <1>11, LaneCleared

(* A result the parent takes, cannot record, or cannot trust. *)
LEMMA HandleSucceededStep ==
    ASSUME Inv, NEW l \in Lanes, HandleSucceeded(l)
    PROVE  Inv'
  <1>1. /\ phase \in {"serve", "prepare", "refresh"} /\ resolving = None
        /\ running[l] # None /\ up[l] # <<>> /\ Head(up[l]) = "succeeded"
        /\ up' = [up EXCEPT ![l] = Tail(@)]
        /\ UNCHANGED <<phase, dispatchVars, tree, job, task, reply, receipt>>
    BY DEF HandleSucceeded, Frame, Serving, Quiet
  <1>2. UNCHANGED <<queue, batch, prepared, fresh>>
    BY <1>1 DEF dispatchVars
  <1>3. PICK c \in Chunks : running[l] = c
    BY <1>1 DEF Inv, TypeOK
  <1>4. /\ up' \in [Lanes -> Seq(Frames)]
        /\ up'[l] = Tail(up[l]) /\ \A k \in Lanes : k # l => up'[k] = up[k]
    <2>1. up \in [Lanes -> Seq(Frames)] /\ Tail(up[l]) \in Seq(Frames)
      BY <1>1, PipePopped DEF Inv, TypeOK, Frames
    <2> QED
      BY <1>1, <2>1
  <1>5. task[l] = None /\ Tail(up[l]) = <<>> /\ receipt[c] # "none" /\ LaneOK(l)
    <2>1. /\ Head(up[l]) = up[l][1] /\ 1 \in 1 .. Len(up[l])
          /\ Len(up[l]) = 1 => Tail(up[l]) = <<>>
      BY <1>1, PipePopped DEF Inv
    <2>2. LaneOK(l) /\ DispatchedOK(l)
      BY <1>1 DEF Inv, LaneInv, LaneOK
    <2>3. 1 = Len(up[l]) /\ task[l] = None
      BY <1>1, <2>1, <2>2 DEF LaneOK, Results
    <2>4. receipt[c] # "none"
      BY <1>1, <1>3, <2>1, <2>2 DEF DispatchedOK
    <2> QED
      BY <2>1, <2>2, <2>3, <2>4
  <1>6. \/ /\ IF Owned(c) THEN Succeed(c) /\ UNCHANGED stop
                          ELSE stop' = TRUE /\ UNCHANGED <<ledger, verdict>>
           /\ ClearLane(l)
           /\ UNCHANGED <<resolving, trouble, faults>>
        \/ /\ faults' = faults \/ Fault
           /\ (Owned(c) /\ Succeed(c)) \/ UNCHANGED <<ledger, verdict>>
           /\ resolving' = l /\ stop' = TRUE
           /\ UNCHANGED <<laneVars, trouble>>
    BY <1>3 DEF HandleSucceeded, Owned
  <1>7. Succeed(c) =>
           /\ ledger' \in Ledger
           /\ verdict' \in [Chunks -> {"none", "success", "failed"}]
           /\ verdict'[c] = "success"
           /\ \A d \in Chunks \ {c} : ledger'.chunks[d] = ledger.chunks[d] /\ verdict'[d] = verdict[d]
           /\ ~Owned(c)'
    BY SucceedFacts DEF Inv
  <1>8. /\ trouble' = trouble
        /\ Succeed(c) \/ UNCHANGED <<ledger, verdict>>
    BY <1>6
  <1>9. /\ ledger' \in Ledger
        /\ verdict' \in [Chunks -> {"none", "success", "failed"}]
        /\ SettledOK(c)
        /\ verdict'[c] = "failed" => verdict[c] = "failed"
    <2>1. CASE Succeed(c)
      BY <1>5, <1>7, <1>8, <2>1 DEF SettledOK
    <2>2. CASE UNCHANGED <<ledger, verdict>>
      BY <1>8, <2>2 DEF SettledOK, Inv, TypeOK, VerdictsFollowReceipts
    <2> QED
      BY <1>8, <2>1, <2>2
  <1>10. CASE /\ IF Owned(c) THEN Succeed(c) /\ UNCHANGED stop
                             ELSE stop' = TRUE /\ UNCHANGED <<ledger, verdict>>
              /\ ClearLane(l)
              /\ UNCHANGED <<resolving, trouble, faults>>
    <2>1. /\ running' \in [Lanes -> Chunks \cup {None}]
          /\ control' \in [Lanes -> BOOLEAN]
          /\ registered' \in [Lanes -> BOOLEAN]
          /\ authorized' \in [Lanes -> BOOLEAN]
          /\ running'[l] = None
          /\ \A k \in Lanes : k # l => running'[k] = running[k] /\ registered'[k] = registered[k]
      BY <1>10, ClearedTypes DEF Inv
    <2>2. /\ stop' \in BOOLEAN /\ (stop => stop')
      BY <1>10 DEF Inv, TypeOK
    <2>3. ~Owned(c)'
      BY <1>7, <1>10 DEF Owned
    <2>4. TypeOK'
      BY <1>1, <1>2, <1>4, <1>8, <1>9, <1>10, <2>1, <2>2, Zenon DEF Inv, TypeOK, Frames
    <2>5. LaneOK(l)'
      <3>1. \A i \in 1 .. Len(up'[l]) : FALSE
        BY <1>4, <1>5
      <3> QED
        BY <1>1, <1>4, <1>5, <2>1, <3>1, NoneIs DEF LaneOK
    <2>6. ControlInv'
      BY <1>1, <1>10 DEF ControlInv
    <2>7. StillRefuses
      BY <1>1, <2>2 DEF StillRefuses
    <2> QED
      BY <1>1, <1>2, <1>3, <1>4, <1>9, <2>1, <2>3, <2>4, <2>5, <2>6, <2>7, LaneCleared
  <1>11. CASE /\ faults' = faults \/ Fault
              /\ (Owned(c) /\ Succeed(c)) \/ UNCHANGED <<ledger, verdict>>
              /\ resolving' = l /\ stop' = TRUE
              /\ UNCHANGED <<laneVars, trouble>>
    <2>1. UNCHANGED <<running, control, registered, authorized>>
      BY <1>11 DEF laneVars
    <2>2. TypeOK'
      <3>1. stop' \in BOOLEAN /\ resolving' \in Lanes \cup {None}
        BY <1>11
      <3>2. faults' \in 0 .. MaxFaults
        BY <1>11, FaultIs
      <3> QED
        BY <1>1, <1>2, <1>4, <1>8, <1>9, <2>1, <3>1, <3>2, Zenon DEF Inv, TypeOK, Frames
    <2>3. StillRefuses
      BY <1>11 DEF StillRefuses
    <2>4. LaneOK(l)'
      <3>1. job[l] = "asking" => FALSE
        BY <1>5 DEF LaneOK
      <3> QED
        BY <1>1, <1>4, <1>5, <2>1, <2>3, <3>1, LanePopped DEF Inv
    <2>5. ControlInv'
      BY <1>1, <1>11, <2>1 DEF ControlInv
    <2> QED
      BY <1>1, <1>2, <1>3, <1>4, <1>9, <2>1, <2>2, <2>3, <2>4, <2>5, LaneCleared
  <1> QED
    BY <1>6, <1>10, <1>11

-----------------------------------------------------------------------------
(* Steps of a lane process *)

(* One lane moves; at most it lets go of its task. *)
LEMMA LaneMoves ==
    ASSUME Inv, TypeOK', NEW l \in Lanes,
           UNCHANGED <<phase, queue, batch, prepared, running, registered, stop, resolving,
                       ledger, verdict, trouble>>,
           \A k \in Lanes : tree[k] = "gone" => tree'[k] = "gone",
           \A k \in Lanes : k # l =>
              /\ job'[k] = job[k] /\ task'[k] = task[k]
              /\ up'[k] = up[k] /\ reply'[k] = reply[k],
           task'[l] \in {None, task[l]},
           \A c \in Chunks : receipt'[c] # receipt[c] =>
              c = task[l] /\ tree[l] # "gone" /\ receipt[c] = "none",
           LaneOK(l)'
    PROVE  Inv'
  <1>1. \A k \in Lanes : task'[k] \in {None, task[k]}
    OBVIOUS
  <1>2. DispatchInv'
    <2>1. \A i, j \in 1 .. Len(queue') : queue'[i] = queue'[j] => i = j
      BY DEF Inv, DispatchInv
    <2>2. ASSUME NEW d \in Chunks, Queued(d)'
          PROVE  /\ verdict'[d] = "none" /\ receipt'[d] # "ours"
                 /\ \A k \in Lanes : prepared'[k] # d /\ running'[k] # d /\ task'[k] # d
      <3>1. Queued(d)
        BY <2>2 DEF Queued
      <3>2. verdict[d] = "none" /\ receipt[d] # "ours"
            /\ \A k \in Lanes : prepared[k] # d /\ running[k] # d /\ task[k] # d
        BY <3>1 DEF Inv, DispatchInv
      <3> QED
        BY <1>1, <3>2, NoneIs
    <2>3. ASSUME NEW k \in Lanes, prepared'[k] # None
          PROVE  /\ running'[k] = None /\ k \notin batch'
                 /\ receipt'[prepared'[k]] # "ours"
                 /\ phase' \in Dispatching \cup {"collect"} => verdict'[prepared'[k]] = "none"
                 /\ \A j \in Lanes : /\ task'[j] # prepared'[k] /\ running'[j] # prepared'[k]
                                     /\ prepared'[j] = prepared'[k] => j = k
      <3>1. prepared[k] # None /\ prepared[k] \in Chunks
        BY <2>3 DEF Inv, TypeOK
      <3>2. /\ running[k] = None /\ k \notin batch
            /\ receipt[prepared[k]] # "ours"
            /\ phase \in Dispatching \cup {"collect"} => verdict[prepared[k]] = "none"
            /\ \A j \in Lanes : /\ task[j] # prepared[k] /\ running[j] # prepared[k]
                                /\ prepared[j] = prepared[k] => j = k
        BY <3>1 DEF Inv, DispatchInv
      <3>3. receipt'[prepared[k]] = receipt[prepared[k]]
        BY <3>1, <3>2
      <3> QED
        BY <1>1, <3>1, <3>2, <3>3
    <2>4. ASSUME NEW k \in Lanes, running'[k] # None
          PROVE  /\ k \notin batch'
                 /\ \A j \in Lanes \ {k} : running'[j] # running'[k] /\ task'[j] # running'[k]
      BY <1>1, <2>4 DEF Inv, DispatchInv
    <2> QED
      BY <2>1, <2>2, <2>3, <2>4 DEF DispatchInv
  <1>3. StillRefuses /\ ReceiptsStay
    BY DEF StillRefuses, ReceiptsStay
  <1>4. LaneInv'
    <2>1. ASSUME NEW k \in Lanes, k # l PROVE LaneOK(k)'
      <3>1. running[k] # None => running[k] \in Chunks /\ task[l] # running[k]
        BY <2>1 DEF Inv, TypeOK, DispatchInv
      <3>2. running[k] # None /\ receipt'[running[k]] = "ours" => receipt[running[k]] = "ours"
        BY <3>1
      <3>3. TypeOK /\ LaneOK(k)
        BY DEF Inv, LaneInv
      <3> QED
        BY <1>3, <2>1, <3>2, <3>3, LaneUnmoved
    <2> QED
      BY <2>1 DEF LaneInv
  <1>5. ControlInv'
    BY <1>1 DEF Inv, ControlInv
  <1>6. ClaimInv'
    BY DEF Inv, ClaimInv, Owned, Troubled
  <1>7. FailedClaimsAreQuiescent'
    BY <1>1, NoneIs DEF Inv, FailedClaimsAreQuiescent
  <1>8. VerdictsFollowReceipts'
    <2> SUFFICES ASSUME NEW d \in Chunks
                 PROVE  /\ verdict[d] = "success" => receipt'[d] # "none"
                        /\ verdict[d] = "failed" /\ receipt'[d] = "ours" => "recovery" \in trouble[d]
      BY DEF VerdictsFollowReceipts
    <2>1. CASE receipt'[d] = receipt[d]
      BY <2>1 DEF Inv, VerdictsFollowReceipts
    <2>2. CASE receipt'[d] # receipt[d]
      BY <2>2 DEF Inv, VerdictsFollowReceipts, FailedClaimsAreQuiescent
    <2> QED
      BY <2>1, <2>2
  <1> QED
    BY <1>2, <1>4, <1>5, <1>6, <1>7, <1>8 DEF Inv

(* A frame is written behind what is already in the pipe. *)
LEMMA PipeAppended ==
    ASSUME TypeOK, NEW l \in Lanes, NEW kind \in Frames,
           up' = [up EXCEPT ![l] = Append(@, kind)]
    PROVE  /\ up' \in [Lanes -> Seq(Frames)]
           /\ \A k \in Lanes : k # l => up'[k] = up[k]
           /\ \A i \in 1 .. Len(up'[l]) :
                 \/ i \in 1 .. Len(up[l]) /\ up'[l][i] = up[l][i]
                 \/ i = Len(up'[l]) /\ up'[l][i] = kind
           /\ up[l] = <<>> => up'[l] = <<kind>>
  <1>1. up \in [Lanes -> Seq(Frames)] /\ up[l] \in Seq(Frames)
    BY DEF TypeOK, Frames
  <1>2. up'[l] = Append(up[l], kind) /\ \A k \in Lanes : k # l => up'[k] = up[k]
    BY <1>1
  <1>3. /\ Append(up[l], kind) \in Seq(Frames)
        /\ Len(Append(up[l], kind)) = Len(up[l]) + 1
        /\ \A i \in 1 .. Len(up[l]) : Append(up[l], kind)[i] = up[l][i]
        /\ Append(up[l], kind)[Len(up[l]) + 1] = kind
    BY <1>1, AppendProperties
  <1>4. Len(up[l]) \in Nat
    BY <1>1
  <1>5. up' \in [Lanes -> Seq(Frames)]
    BY <1>1, <1>3
  <1>6. up[l] = <<>> => up'[l] = <<kind>>
    BY <1>2
  <1>7. \A i \in 1 .. Len(up'[l]) : i \in 1 .. Len(up[l]) \/ i = Len(up[l]) + 1
    BY <1>2, <1>3, <1>4
  <1> QED
    BY <1>2, <1>3, <1>5, <1>6, <1>7

(* The lane writes a request, or its result. *)
LEMMA LaneTells ==
    ASSUME Inv, NEW l \in Lanes,
           AskProbe(l) \/ AskRegister(l) \/ Replay(l) \/ Report(l) \/ ReportFailure(l)
    PROVE  Inv'
  <1>1. PICK kind \in Frames, next \in {"idle", "probing", "asking"} :
           /\ Tell(l, kind, next)
           /\ job[l] \in {"sent", "probing", "asking", "working", "committed"}
           /\ \/ /\ kind \in Results /\ next = "idle"
                 /\ task' = [task EXCEPT ![l] = None] /\ reply' = reply
                 /\ kind = "succeeded" =>
                       \/ job[l] = "probing" /\ reply[l] = "yes" /\ receipt[task[l]] # "none"
                       \/ job[l] = "committed"
              \/ /\ kind = "probe" /\ next = "probing" /\ job[l] = "sent"
                 /\ task' = task /\ reply' = reply
              \/ /\ kind = "register" /\ next = "asking" /\ job[l] = "probing" /\ reply[l] = "yes"
                 /\ task' = task /\ reply' = [reply EXCEPT ![l] = "none"]
    <2>1. CASE AskProbe(l)
      BY <2>1 DEF AskProbe, Live, Frames
    <2>2. CASE AskRegister(l)
      BY <2>2 DEF AskRegister, Live, Frames
    <2>3. CASE Replay(l)
      BY <2>3 DEF Replay, Live, Frames, Results
    <2>4. CASE Report(l)
      BY <2>4 DEF Report, Live, Frames, Results
    <2>5. CASE ReportFailure(l)
      BY <2>5 DEF ReportFailure, Live, Frames, Results
    <2> QED
      BY <2>1, <2>2, <2>3, <2>4, <2>5
  <1>2. /\ up' = [up EXCEPT ![l] = Append(@, kind)]
        /\ job' = [job EXCEPT ![l] = next]
        /\ UNCHANGED <<phase, queue, batch, prepared, fresh, running, control, registered,
                       authorized, stop, resolving, tree, ledger, receipt, verdict, trouble, faults>>
    BY <1>1 DEF Tell, parentVars, dispatchVars, laneVars, recordVars
  <1>3. /\ up' \in [Lanes -> Seq(Frames)]
        /\ \A k \in Lanes : k # l => up'[k] = up[k]
        /\ \A i \in 1 .. Len(up'[l]) :
              \/ i \in 1 .. Len(up[l]) /\ up'[l][i] = up[l][i]
              \/ i = Len(up'[l]) /\ up'[l][i] = kind
        /\ up[l] = <<>> => up'[l] = <<kind>>
    BY <1>2, PipeAppended DEF Inv
  <1>4. /\ job' \in [Lanes -> Jobs] /\ job'[l] = next
        /\ task' \in [Lanes -> Chunks \cup {None}]
        /\ task'[l] = IF kind \in Results THEN None ELSE task[l]
        /\ reply' \in [Lanes -> {"none", "yes", "no"}]
        /\ reply'[l] = IF kind = "register" THEN "none" ELSE reply[l]
        /\ \A k \in Lanes : k # l => job'[k] = job[k] /\ task'[k] = task[k] /\ reply'[k] = reply[k]
    <2>1. /\ job \in [Lanes -> Jobs] /\ task \in [Lanes -> Chunks \cup {None}]
          /\ reply \in [Lanes -> {"none", "yes", "no"}] /\ next \in Jobs
      BY DEF Inv, TypeOK, Jobs
    <2>2. job' \in [Lanes -> Jobs] /\ job'[l] = next /\ \A k \in Lanes : k # l => job'[k] = job[k]
      BY <1>2, <2>1
    <2>3. /\ task' \in [Lanes -> Chunks \cup {None}]
          /\ task'[l] = IF kind \in Results THEN None ELSE task[l]
          /\ \A k \in Lanes : k # l => task'[k] = task[k]
      BY <1>1, <2>1 DEF Results
    <2>4. /\ reply' \in [Lanes -> {"none", "yes", "no"}]
          /\ reply'[l] = IF kind = "register" THEN "none" ELSE reply[l]
          /\ \A k \in Lanes : k # l => reply'[k] = reply[k]
      BY <1>1, <2>1 DEF Results
    <2> QED
      BY <2>2, <2>3, <2>4
  <1>5. TypeOK'
    BY <1>2, <1>3, <1>4, Zenon DEF Inv, TypeOK, Frames, Jobs
  <1>6. LaneOK(l) /\ task[l] # None
    BY <1>1 DEF Inv, LaneInv, LaneOK
  <1>7. running[l] # None =>
           /\ DispatchedOK(l) /\ task[l] = running[l]
           /\ kind # "failed" => up[l] = <<>>
           /\ kind = "probe" => reply[l] = "none"
    BY <1>1, <1>6 DEF LaneOK, DispatchedOK, Results
  <1>8. LaneOK(l)'
    <2>1. \A i \in 1 .. Len(up'[l]) :
             up'[l][i] \in Results => i = Len(up'[l]) /\ kind \in Results
      BY <1>3, <1>6 DEF LaneOK
    <2>2. job'[l] \in {"boot", "idle"} <=> task'[l] = None
      BY <1>1, <1>4, <1>6 DEF Results
    <2>3. ~(~stop' /\ phase' \in Dispatching /\ running'[l] = None)
      BY <1>2, <1>6 DEF LaneOK
    <2>4. running'[l] # None => DispatchedOK(l)'
      <3> SUFFICES ASSUME running[l] # None PROVE DispatchedOK(l)'
        BY <1>2
      <3>1. \A i \in 1 .. Len(up'[l]) : up'[l][i] = "succeeded" => receipt'[running'[l]] # "none"
        <4>1. kind = "succeeded" => receipt[running[l]] # "none"
          BY <1>1, <1>6, <1>7 DEF LaneOK
        <4>2. DispatchedOK(l)
          BY <1>7
        <4> QED
          BY <1>2, <1>3, <4>1, <4>2 DEF DispatchedOK
      <3>2. receipt'[running'[l]] = "ours" => registered'[l]
        BY <1>2, <1>7 DEF DispatchedOK
      <3>3. task'[l] \in {None, running'[l]}
        BY <1>2, <1>4, <1>7
      <3>4. CASE kind \in Results
        BY <1>1, <1>4, <3>1, <3>2, <3>3, <3>4 DEF DispatchedOK, Results
      <3>5. CASE kind = "probe"
        <4>1. job'[l] = "probing" /\ up'[l] = <<"probe">> /\ reply'[l] = "none"
          BY <1>1, <1>3, <1>4, <1>7, <3>5 DEF Results
        <4> QED
          BY <3>1, <3>2, <3>3, <4>1 DEF DispatchedOK
      <3>6. CASE kind = "register"
        <4>1. job'[l] = "asking" /\ up'[l] = <<"register">> /\ reply'[l] = "none"
          BY <1>1, <1>3, <1>4, <1>7, <3>6 DEF Results
        <4> QED
          BY <3>1, <3>2, <3>3, <4>1 DEF DispatchedOK
      <3> QED
        BY <3>4, <3>5, <3>6 DEF Frames, Results
    <2>5. job'[l] # "sent" /\ job'[l] # "committed"
      BY <1>4
    <2>6. kind \in Results => task'[l] = None
      BY <1>4
    <2> QED
      BY <2>1, <2>2, <2>3, <2>4, <2>5, <2>6 DEF LaneOK
  <1>9. task'[l] \in {None, task[l]}
    BY <1>4
  <1> QED
    BY <1>2, <1>3, <1>4, <1>5, <1>8, <1>9, LaneMoves

(* Admitted work starts, and commits with its receipt. *)
LEMMA LaneWorks ==
    ASSUME Inv, NEW l \in Lanes, StartWork(l) \/ Commit(l)
    PROVE  Inv'
  <1>1. /\ UNCHANGED <<parentVars, tree, task, up, reply, ledger, verdict, trouble, faults>>
        /\ \/ /\ job[l] = "asking" /\ reply[l] = "yes"
              /\ job' = [job EXCEPT ![l] = "working"] /\ receipt' = receipt
           \/ /\ tree[l] # "gone" /\ job[l] = "working" /\ receipt[task[l]] = "none"
              /\ receipt' = [receipt EXCEPT ![task[l]] = "ours"]
              /\ job' = [job EXCEPT ![l] = "committed"]
    BY DEF StartWork, Commit, Live, recordVars
  <1>2. UNCHANGED <<phase, queue, batch, prepared, fresh, running, control, registered,
                    authorized, stop, resolving>>
    BY <1>1 DEF parentVars, dispatchVars, laneVars
  <1>3. PICK c \in Chunks : task[l] = c
    <2>1. job[l] \in {"asking", "working"}
      BY <1>1
    <2>2. task[l] # None
      BY <2>1 DEF Inv, LaneInv, LaneOK
    <2> QED
      BY <2>2 DEF Inv, TypeOK
  <1>4. /\ job' \in [Lanes -> Jobs] /\ job'[l] \in {"working", "committed"}
        /\ \A k \in Lanes : k # l => job'[k] = job[k]
    <2>1. job \in [Lanes -> Jobs] /\ "working" \in Jobs /\ "committed" \in Jobs
      BY DEF Inv, TypeOK, Jobs
    <2> QED
      BY <1>1, <2>1
  <1>5. /\ receipt' \in [Chunks -> {"none", "ours", "other"}]
        /\ \A d \in Chunks : receipt'[d] # receipt[d] =>
              d = task[l] /\ tree[l] # "gone" /\ receipt[d] = "none"
        /\ job'[l] = "committed" => receipt'[c] # "none"
    <2>1. receipt \in [Chunks -> {"none", "ours", "other"}] /\ job \in [Lanes -> Jobs]
      BY DEF Inv, TypeOK, Jobs
    <2> QED
      BY <1>1, <1>3, <2>1
  <1>6. TypeOK'
    BY <1>1, <1>2, <1>4, <1>5, Zenon DEF Inv, TypeOK, Jobs
  <1>7. LaneOK(l) /\ c # None
    BY <1>3, NoneIs DEF Inv, LaneInv
  <1>8. running[l] # None => /\ DispatchedOK(l) /\ running[l] = c
                             /\ up[l] = <<>> /\ registered[l]
    BY <1>1, <1>3, <1>7 DEF LaneOK, DispatchedOK
  <1>9. LaneOK(l)'
    <2>1. \A i \in 1 .. Len(up'[l]) : up'[l][i] \notin Results
      BY <1>1, <1>3, <1>7 DEF LaneOK
    <2>2. ~(~stop' /\ phase' \in Dispatching /\ running'[l] = None)
      BY <1>2, <1>3, <1>7 DEF LaneOK
    <2>3. running'[l] # None => DispatchedOK(l)'
      <3> SUFFICES ASSUME running[l] # None PROVE DispatchedOK(l)'
        BY <1>2
      <3>1. \A i \in 1 .. Len(up'[l]) : up'[l][i] # "succeeded"
        BY <2>1 DEF Results
      <3>2. task'[l] = running'[l] /\ up'[l] = <<>> /\ registered'[l]
        BY <1>1, <1>2, <1>3, <1>8
      <3> QED
        BY <1>4, <3>1, <3>2 DEF DispatchedOK
    <2>4. task'[l] = c
      BY <1>1, <1>3
    <2> QED
      BY <1>4, <1>5, <1>7, <2>1, <2>2, <2>3, <2>4 DEF LaneOK
  <1> QED
    BY <1>1, <1>2, <1>4, <1>5, <1>6, <1>9, LaneMoves

LEMMA LaneDies ==
    ASSUME Inv, NEW l \in Lanes, Crash(l) \/ OrphansEnd(l)
    PROVE  Inv'
  <1>1. /\ UNCHANGED <<parentVars, job, task, up, reply, recordVars>>
        /\ faults' = faults \/ Fault
        /\ tree[l] # "gone"
        /\ \E rest \in {"orphaned", "gone"} : tree' = [tree EXCEPT ![l] = rest]
    BY DEF Crash, OrphansEnd
  <1>2. UNCHANGED <<phase, queue, batch, prepared, fresh, running, control, registered,
                    authorized, stop, resolving, ledger, receipt, verdict, trouble>>
    BY <1>1 DEF parentVars, dispatchVars, laneVars, recordVars
  <1>3. /\ tree' \in [Lanes -> {"live", "orphaned", "gone"}]
        /\ \A k \in Lanes : tree[k] = "gone" => tree'[k] = "gone"
    BY <1>1 DEF Inv, TypeOK
  <1>4. TypeOK'
    <2>1. faults' \in 0 .. MaxFaults
      BY <1>1, FaultIs
    <2> QED
      BY <1>1, <1>2, <1>3, <2>1, Zenon DEF Inv, TypeOK
  <1>5. LaneOK(l)'
    <2>1. StillRefuses /\ ReceiptsStay
      BY <1>2 DEF StillRefuses, ReceiptsStay
    <2> QED
      BY <1>1, <1>2, <2>1, LaneUnmoved DEF Inv, LaneInv
  <1> QED
    BY <1>1, <1>2, <1>3, <1>4, <1>5, LaneMoves

-----------------------------------------------------------------------------
(* Everyone else *)

(* Nobody else gives the parent a claim, or the target a receipt of it. *)
LEMMA OthersMove ==
    ASSUME Inv, TypeOK',
           UNCHANGED <<parentVars, childVars, verdict, trouble>>,
           \A c \in Chunks : Owned(c)' => Owned(c),
           \A c \in Chunks : receipt'[c] # receipt[c] => receipt[c] = "none" /\ receipt'[c] = "other"
    PROVE  Inv'
  <1>1. UNCHANGED <<phase, queue, batch, prepared, fresh, running, control, registered,
                    authorized, stop, resolving, tree, job, task, up, reply>>
    BY DEF parentVars, dispatchVars, laneVars, childVars
  <1>2. /\ \A c \in Chunks : receipt'[c] = "ours" => receipt[c] = "ours"
        /\ \A c \in Chunks : Queued(c)' = Queued(c) /\ Troubled(c)' = Troubled(c)
        /\ \A l \in Lanes : prepared[l] # None => prepared[l] \in Chunks
        /\ \A l \in Lanes : running[l] # None => running[l] \in Chunks
    BY <1>1 DEF Inv, TypeOK, Queued, Troubled
  <1>3. StillRefuses /\ ReceiptsStay
    BY <1>1 DEF StillRefuses, ReceiptsStay
  <1>4. DispatchInv'
    <2>1. \A l \in Lanes : prepared[l] # None => receipt'[prepared[l]] # "ours"
      BY <1>2 DEF Inv, DispatchInv
    <2> QED
      BY <1>1, <1>2, <2>1 DEF Inv, DispatchInv
  <1>5. LaneInv'
    <2>1. \A l \in Lanes : running[l] # None /\ receipt'[running[l]] = "ours"
                              => receipt[running[l]] = "ours"
      BY <1>2
    <2> QED
      BY <1>1, <1>3, <2>1, LaneUnmoved DEF Inv, LaneInv
  <1>6. ControlInv'
    BY <1>1 DEF Inv, ControlInv
  <1>7. ClaimInv'
    <2>1. \A l \in Lanes, c \in Chunks :
             /\ phase \in {"closing", "ended"} /\ prepared[l] = c /\ Owned(c)'
             => Troubled(c)'
      BY <1>2, NoneIs DEF Inv, ClaimInv
    <2>2. ASSUME phase' \in {"closing", "ended"}, NEW l \in Lanes, prepared'[l] # None,
                 Owned(prepared[l])'
          PROVE  Troubled(prepared[l])'
      <3>1. PICK c \in Chunks : c = prepared[l] /\ c = prepared'[l]
        BY <1>1, <1>2, <2>2
      <3>2. Owned(c)'
        BY <2>2, <3>1 DEF Owned
      <3>3. Troubled(c)'
        BY <1>1, <2>1, <2>2, <3>1, <3>2
      <3> QED
        BY <3>1, <3>3 DEF Troubled
    <2>3. \A c \in Chunks : Owned(c)' /\ ~Troubled(c)' =>
             \E l \in Lanes : prepared'[l] = c \/ running'[l] = c
      BY <1>1, <1>2 DEF Inv, ClaimInv
    <2>4. phase' = "raised" => \A c \in Chunks : Owned(c)' => Troubled(c)'
      BY <1>1, <1>2 DEF Inv, ClaimInv
    <2> QED
      BY <2>2, <2>3, <2>4 DEF ClaimInv
  <1>8. FailedClaimsAreQuiescent'
    BY <1>1 DEF Inv, FailedClaimsAreQuiescent
  <1>9. VerdictsFollowReceipts'
    BY <1>2, <1>3 DEF Inv, VerdictsFollowReceipts, ReceiptsStay
  <1> QED
    BY <1>4, <1>5, <1>6, <1>7, <1>8, <1>9 DEF Inv

LEMMA EnvironmentStep ==
    ASSUME Inv, Environment
    PROVE  Inv'
  <1>1. ledger \in Ledger /\ ledger.chunks \in [Chunks -> ChunkRecord]
    BY DEF Inv, TypeOK, Ledger
  <1>2. Parent \in Owners /\ Rival \in Owners /\ Parent # Rival /\ Lease \in Nat
    BY LanesAssumption DEF Lease
  <1>3. UNCHANGED <<parentVars, childVars, verdict, trouble>> /\ (faults' = faults \/ Fault)
    BY DEF Environment, CancelRequested, TakeOver, RivalClaim, RivalFinish
  <1>4. /\ ledger' \in Ledger
        /\ \A c \in Chunks : Owned(c)' => Owned(c)
        /\ receipt' \in [Chunks -> {"none", "ours", "other"}]
        /\ \A c \in Chunks : receipt'[c] # receipt[c] => receipt[c] = "none" /\ receipt'[c] = "other"
    <2>0. receipt \in [Chunks -> {"none", "ours", "other"}]
      BY DEF Inv, TypeOK
    <2>1. CASE CancelRequested
      <3>1. Cancel(ledger) \in Ledger /\ Cancel(ledger).chunks = ledger.chunks
        BY <1>1, CampaignRowFacts
      <3> QED
        BY <2>0, <2>1, <3>1 DEF CancelRequested, Owned, CompleteChunkOK
    <2>2. CASE TakeOver
      <3>1. LET m == AcquireCampaign(ledger, Rival) IN
            /\ Advance(ledger, m, {})
            /\ \A c \in Chunks : m.chunks[c] = ledger.chunks[c] \/ m.chunks[c].status = "failed"
        BY <1>1, <1>2, AcquireCampaignFacts
      <3> QED
        BY <2>0, <2>2, <3>1 DEF TakeOver, Owned, CompleteChunkOK, Advance
    <2>3. ASSUME NEW c \in Chunks, RivalClaim(c)
          PROVE  /\ ledger' \in Ledger
                 /\ \A d \in Chunks : Owned(d)' => Owned(d)
                 /\ receipt' = receipt
      <3>1. LET m == AcquireChunk(ledger, c, Rival, Lease) IN
            /\ m \in Ledger
            /\ \A d \in Chunks \ {c} : m.chunks[d] = ledger.chunks[d]
        BY <1>1, <1>2, AcquireChunkFacts
      <3>2. AcquireChunk(ledger, c, Rival, Lease).chunks[c].owner = Rival
        BY <1>1 DEF AcquireChunk, Ledger
      <3> QED
        BY <1>2, <2>3, <3>1, <3>2 DEF RivalClaim, Owned, CompleteChunkOK
    <2>4. ASSUME NEW c \in Chunks, RivalFinish(c)
          PROVE  /\ ledger' \in Ledger
                 /\ \A d \in Chunks : Owned(d)' => Owned(d)
                 /\ receipt' \in [Chunks -> {"none", "ours", "other"}]
                 /\ \A d \in Chunks : receipt'[d] # receipt[d] =>
                       receipt[d] = "none" /\ receipt'[d] = "other"
      <3>1. PICK status \in {"success", "failed"} :
               /\ ledger' = [ledger EXCEPT !.chunks[c] = Terminal(c, status)]
               /\ \/ receipt' = receipt
                  \/ receipt' = [receipt EXCEPT ![c] = IF @ = "none" THEN "other" ELSE @]
        BY <2>4 DEF RivalFinish
      <3>2. Terminal(c, status) \in ChunkRecord /\ Terminal(c, status).status = status
        BY TerminalIs DEF Inv
      <3>3. LET m == [ledger EXCEPT !.chunks[c] = Terminal(c, status)] IN
            /\ m \in Ledger /\ m.chunks[c] = Terminal(c, status)
            /\ \A d \in Chunks \ {c} : m.chunks[d] = ledger.chunks[d]
        BY <1>1, <3>2, RowUpdate
      <3>4. ledger' \in Ledger /\ \A d \in Chunks : Owned(d)' => Owned(d)
        BY <3>1, <3>2, <3>3 DEF Owned, CompleteChunkOK
      <3>5. /\ receipt' \in [Chunks -> {"none", "ours", "other"}]
            /\ \A d \in Chunks : receipt'[d] # receipt[d] =>
                  receipt[d] = "none" /\ receipt'[d] = "other"
        BY <2>0, <3>1
      <3> QED
        BY <3>4, <3>5
    <2> QED
      BY <2>0, <2>1, <2>2, <2>3, <2>4 DEF Environment
  <1>5. TypeOK'
    <2>1. faults' \in 0 .. MaxFaults
      BY <1>3, FaultIs
    <2>2. UNCHANGED <<phase, queue, batch, prepared, fresh, running, control, registered,
                      authorized, stop, resolving, tree, job, task, up, reply>>
      BY <1>3 DEF parentVars, dispatchVars, laneVars, childVars
    <2> QED
      BY <1>3, <1>4, <2>1, <2>2, Zenon DEF Inv, TypeOK
  <1> QED
    BY <1>3, <1>4, <1>5, OthersMove

-----------------------------------------------------------------------------
(* The invariant *)

LEMMA InitInv == Init => Inv
  <1> SUFFICES ASSUME Init PROVE Inv
    OBVIOUS
  <1>1. /\ ledger \in Ledger
        /\ \A c \in Chunks : ledger.chunks[c].status = "pending"
    <2>1. InitialLedger \in Ledger /\ \A c \in Chunks : InitialLedger.chunks[c].status = "pending"
      BY InitialLedgerFacts
    <2>2. ledger = [InitialLedger EXCEPT !.lockOwner = Parent, !.phase = "prepared"]
      BY DEF Init
    <2> QED
      BY <2>1, <2>2, LanesAssumption DEF Ledger, Phase
  <1>2. PICK earlier \in SUBSET Replayable :
           receipt = [c \in Chunks |-> IF c \in earlier THEN "other" ELSE "none"]
    BY DEF Init
  <1>3. receipt \in [Chunks -> {"none", "ours", "other"}] /\ \A c \in Chunks : receipt[c] # "ours"
    BY <1>2
  <1>4. \A l \in Lanes : /\ prepared[l] = None /\ running[l] = None /\ task[l] = None
                         /\ up[l] = <<>> /\ job[l] = "boot"
    BY DEF Init
  <1>5. TypeOK
    <2>1. queue \in Seq(Chunks) /\ faults \in 0 .. MaxFaults
      BY LanesAssumption DEF Init
    <2>2. up \in [Lanes -> Seq({"probe", "register", "succeeded", "failed"})]
      BY DEF Init
    <2>3. /\ phase \in Phases /\ resolving \in Lanes \cup {None} /\ stop \in BOOLEAN
          /\ batch \subseteq Lanes /\ fresh \subseteq Lanes
      BY DEF Init, Phases
    <2>4. /\ prepared \in [Lanes -> Chunks \cup {None}] /\ running \in [Lanes -> Chunks \cup {None}]
          /\ task \in [Lanes -> Chunks \cup {None}]
      BY DEF Init
    <2>5. /\ control \in [Lanes -> BOOLEAN] /\ registered \in [Lanes -> BOOLEAN]
          /\ authorized \in [Lanes -> BOOLEAN]
      BY DEF Init
    <2>6. /\ tree \in [Lanes -> {"live", "orphaned", "gone"}]
          /\ job \in [Lanes -> {"boot", "idle", "sent", "probing", "asking", "working", "committed"}]
          /\ reply \in [Lanes -> {"none", "yes", "no"}]
      BY DEF Init
    <2>7. /\ verdict \in [Chunks -> {"none", "success", "failed"}]
          /\ trouble \in [Chunks -> SUBSET {"recovery", "ledger", "tree"}]
      BY DEF Init
    <2> QED
      BY <1>1, <1>3, <2>1, <2>2, <2>3, <2>4, <2>5, <2>6, <2>7, Zenon DEF TypeOK
  <1>6. DispatchInv
    <2>1. \A i, j \in 1 .. Len(queue) : queue[i] = queue[j] => i = j
      BY LanesAssumption DEF Init
    <2>2. \A c \in Chunks : verdict[c] = "none"
      BY DEF Init
    <2> QED
      BY <1>3, <1>4, <2>1, <2>2, NoneIs DEF DispatchInv
  <1>7. LaneInv
    <2> SUFFICES ASSUME NEW l \in Lanes PROVE LaneOK(l)
      BY DEF LaneInv
    <2>1. \A i \in 1 .. Len(up[l]) : FALSE
      BY <1>4
    <2> QED
      BY <1>4, <2>1 DEF LaneOK
  <1>8. ControlInv
    BY <1>4 DEF ControlInv, Init
  <1>9. ClaimInv
    BY <1>1 DEF ClaimInv, Owned, CompleteChunkOK, Init
  <1>10. FailedClaimsAreQuiescent /\ VerdictsFollowReceipts
    BY DEF FailedClaimsAreQuiescent, VerdictsFollowReceipts, Init
  <1> QED
    BY <1>5, <1>6, <1>7, <1>8, <1>9, <1>10 DEF Inv

LEMMA NextInv == Inv /\ [Next]_vars => Inv'
  <1> SUFFICES ASSUME Inv, [Next]_vars PROVE Inv'
    OBVIOUS
  <1>1. CASE ParentStep
    <2>1. CASE Startup
      BY <2>1, StartupStep
    <2>2. CASE IdleExit
      BY <2>2, IdleExitStep
    <2>3. CASE BeginDispatch \/ ClaimsDone \/ Refresh \/ FinalGate \/ BatchPublished
      BY <2>3, WithinDispatch
    <2>4. CASE Claim
      BY <2>4, ClaimStep
    <2>5. CASE Send
      BY <2>5, SendStep
    <2>6. CASE AbandonPrepared
      BY <2>6, AbandonPreparedStep
    <2>7. CASE \E l \in Lanes : HandleExit(l) \/ HandleFailed(l)
      BY <2>7, ResolveStep
    <2>8. CASE \E l \in Lanes : HandleProbeRequest(l) \/ HandleRegister(l)
      BY <2>8, AnswerStep
    <2>9. CASE \E l \in Lanes : HandleSucceeded(l)
      BY <2>9, HandleSucceededStep
    <2>10. CASE \E l \in Lanes : Quiesced(l) \/ Collect(l)
      BY <2>10, QuiescedStep
    <2>11. CASE PeerDrainTimeout
      BY <2>11, PeerDrainStep
    <2>12. CASE Collected \/ Reraise
      BY <2>12, CollectedStep
    <2>13. CASE EndLoop
      BY <2>13, EndLoopStep
    <2>14. CASE Shutdown
      BY <2>14, ShutdownStep
    <2>15. CASE AbortBarrier
      BY <2>15, AbortBarrierStep
    <2>16. CASE AbandonDeferred
      BY <2>16, AbandonDeferredStep
    <2> QED
      BY <1>1, <2>1, <2>2, <2>3, <2>4, <2>5, <2>6, <2>7, <2>8, <2>9, <2>10, <2>11, <2>12,
         <2>13, <2>14, <2>15, <2>16 DEF ParentStep
  <1>2. CASE ParentTrouble
    <2>1. CASE CoordinatorLost \/ \E l \in Lanes : HeartbeatLost(l) \/ OperationLeaseLost(l)
      BY <2>1, LatchStep
    <2>2. CASE Interrupt
      BY <2>2, InterruptStep
    <2>3. CASE \E l \in Lanes : ReceiveFails(l)
      BY <2>3, ResolveStep
    <2>4. CASE \E l \in Lanes : NotQuiesced(l)
      BY <2>4, NotQuiescedStep
    <2> QED
      BY <1>2, <2>1, <2>2, <2>3, <2>4 DEF ParentTrouble
  <1>3. ASSUME NEW l \in Lanes, LaneStep(l) PROVE Inv'
    BY <1>3, LaneTells, LaneWorks, LaneDies DEF LaneStep
  <1>4. CASE Environment
    BY <1>4, EnvironmentStep
  <1>5. CASE UNCHANGED vars
    <2>1. UNCHANGED <<phase, queue, batch, prepared, fresh, running, control, registered,
                      authorized, stop, resolving, tree, job, task, up, reply, ledger,
                      receipt, verdict, trouble, faults>>
      BY <1>5 DEF vars
    <2>2. TypeOK'
      BY <2>1, Zenon DEF Inv, TypeOK
    <2>3. ControlInv' /\ StillRefuses
      BY <2>1 DEF Inv, ControlInv, StillRefuses
    <2> QED
      BY <2>1, <2>2, <2>3, BatchIsIdle, QuietParent
  <1> QED
    BY <1>1, <1>2, <1>3, <1>4, <1>5 DEF Next

LEMMA AlwaysInv == Spec => []Inv
  BY InitInv, NextInv, PTL DEF Spec

(* The parent, its lanes and the ledger keep their types, whatever crashes,  *)
(* outages and takeovers meet run_process_chunk_lanes.                       *)
THEOREM TypeCorrect == Spec => []TypeOK
  <1>1. Inv => TypeOK
    BY DEF Inv
  <1> QED
    BY <1>1, AlwaysInv, PTL

(* resolve_ambiguous_failure and cleanup_parent_abort never record FAILED    *)
(* for a claim that some process could still commit.                         *)
THEOREM FailedIsQuiescent == Spec => []FailedClaimsAreQuiescent
  <1>1. Inv => FailedClaimsAreQuiescent
    BY DEF Inv
  <1> QED
    BY <1>1, AlwaysInv, PTL

(* validate_success, promote_owned and recover_committed_receipt: SUCCESS    *)
(* needs a receipt, and FAILED excludes one of this run unless the recovery  *)
(* itself raised.                                                            *)
THEOREM VerdictsAreTrue == Spec => []VerdictsFollowReceipts
  <1>1. Inv => VerdictsFollowReceipts
    BY DEF Inv
  <1> QED
    BY <1>1, AlwaysInv, PTL

(* A run that is over leaves no RUNNING claim of its own behind, unless a    *)
(* ledger write raised or a tree could not be proved dead.                   *)
THEOREM ClaimsAreGivenBack == Spec => []NoClaimLeaks
  <1>1. Inv => NoClaimLeaks
    <2> SUFFICES ASSUME Inv, phase \in {"ended", "raised"}, NEW c \in Chunks, Owned(c)
                 PROVE  Troubled(c)
      BY DEF NoClaimLeaks, Owned, Troubled
    <2>1. CASE phase = "raised"
      BY <2>1 DEF Inv, ClaimInv
    <2>2. CASE phase = "ended"
      BY <2>2, NoneIs DEF Inv, ClaimInv, ControlInv
    <2> QED
      BY <2>1, <2>2
  <1> QED
    BY <1>1, AlwaysInv, PTL
=============================================================================
