---------------------- MODULE LedgerTransitionsProofs ----------------------
(***************************************************************************)
(* What each transition of MSSQLLedgerTransitionPolicy does to a ledger:   *)
(* the shape is kept, and which fields and which chunk rows may differ.    *)
(* The campaign proofs cite these lemmas and never expand a transition.    *)
(***************************************************************************)
EXTENDS LedgerTransitions, TLAPS

(* The campaign row, without its chunks. *)
SameCampaign(l, m) ==
    m.status = l.status /\ m.lockOwner = l.lockOwner /\ m.phase = l.phase

(* m is a well-formed revision after l: a SUCCESS row is never rewritten,  *)
(* and only chunks of S become SUCCESS.                                    *)
Advance(l, m, S) ==
    /\ m \in Ledger
    /\ \A c \in Chunks :
          /\ l.chunks[c].status = "success" => m.chunks[c] = l.chunks[c]
          /\ m.chunks[c].status = "success" =>
               l.chunks[c].status = "success" \/ c \in S

(* A completely committed ledger stays so. *)
LEMMA AdvanceKeepsAll ==
    ASSUME NEW l, NEW m, NEW S, Advance(l, m, S), AllCommitted(l)
    PROVE  AllCommitted(m)
BY DEF Advance, AllCommitted

(* load_or_create_backfill_ledger builds a well-formed ledger that is      *)
(* neither cancelled nor published and has nothing running.                *)
LEMMA InitialLedgerFacts ==
    /\ InitialLedger \in Ledger
    /\ ~Cancelled(InitialLedger) /\ ~Published(InitialLedger)
    /\ InitialLedger.lockOwner = NoOwner
    /\ \A c \in Chunks : InitialLedger.chunks[c].status = "pending"
BY DEF InitialLedger, Ledger, ChunkRecord, ChunkStatus, CampaignStatus, Phase,
       Cancelled, Published

(* acquire_chunk rewrites one chunk row and nothing else. *)
LEMMA AcquireChunkFacts ==
    ASSUME NEW l \in Ledger, NEW c \in Chunks, NEW o \in Owners,
           NEW expiry \in Nat
    PROVE  LET m == AcquireChunk(l, c, o, expiry) IN
           /\ m \in Ledger
           /\ SameCampaign(l, m)
           /\ m.chunks[c].status = "running"
           /\ \A d \in Chunks \ {c} : m.chunks[d] = l.chunks[d]
           /\ l.chunks[c].status # "success" => Advance(l, m, {})
<1>1. LET m == AcquireChunk(l, c, o, expiry) IN
      /\ m \in Ledger
      /\ SameCampaign(l, m)
      /\ m.chunks[c].status = "running"
      /\ \A d \in Chunks \ {c} : m.chunks[d] = l.chunks[d]
  BY DEF AcquireChunk, Ledger, ChunkRecord, ChunkStatus, SameCampaign
<1>2. QED
  BY <1>1 DEF Advance

(* renew_chunk keeps every status and owner. *)
LEMMA RenewChunkFacts ==
    ASSUME NEW l \in Ledger, NEW c \in Chunks, NEW expiry \in Nat
    PROVE  LET m == RenewChunk(l, c, expiry) IN
           /\ m \in Ledger
           /\ SameCampaign(l, m)
           /\ \A d \in Chunks \ {c} : m.chunks[d] = l.chunks[d]
           /\ m.chunks[c].status = l.chunks[c].status
           /\ m.chunks[c].owner = l.chunks[c].owner
           /\ l.chunks[c].status # "success" => Advance(l, m, {})
<1>1. LET m == RenewChunk(l, c, expiry) IN
      /\ m \in Ledger
      /\ SameCampaign(l, m)
      /\ \A d \in Chunks \ {c} : m.chunks[d] = l.chunks[d]
      /\ m.chunks[c].status = l.chunks[c].status
      /\ m.chunks[c].owner = l.chunks[c].owner
  BY DEF RenewChunk, Ledger, ChunkRecord, SameCampaign
<1>2. QED
  BY <1>1 DEF Advance

(* complete_chunk rewrites one chunk row with the terminal status. *)
LEMMA CompleteChunkFacts ==
    ASSUME NEW l \in Ledger, NEW c \in Chunks,
           NEW status \in {"success", "failed"}, NEW attempts \in Nat
    PROVE  LET m == CompleteChunk(l, c, status, attempts) IN
           /\ m \in Ledger
           /\ SameCampaign(l, m)
           /\ m.chunks[c].status = status
           /\ \A d \in Chunks \ {c} : m.chunks[d] = l.chunks[d]
           /\ l.chunks[c].status # "success" =>
                Advance(l, m, IF status = "success" THEN {c} ELSE {})
<1>1. LET m == CompleteChunk(l, c, status, attempts) IN
      /\ m \in Ledger
      /\ SameCampaign(l, m)
      /\ m.chunks[c].status = status
      /\ \A d \in Chunks \ {c} : m.chunks[d] = l.chunks[d]
  BY DEF CompleteChunk, Ledger, ChunkRecord, ChunkStatus, SameCampaign
<1>2. QED
  BY <1>1 DEF Advance

(* An orphaned row is a well-formed FAILED row. *)
LEMMA OrphanFacts ==
    ASSUME NEW rec \in ChunkRecord
    PROVE  Orphan(rec) \in ChunkRecord /\ Orphan(rec).status = "failed"
BY DEF Orphan, ChunkRecord, ChunkStatus

(* recover_chunks touches only RUNNING rows whose lease has expired. *)
LEMMA RecoverChunksFacts ==
    ASSUME NEW l \in Ledger, NEW now \in Nat
    PROVE  LET m == RecoverChunks(l, now) IN
           /\ Advance(l, m, {})
           /\ SameCampaign(l, m)
           /\ \A c \in Chunks :
                \/ m.chunks[c] = l.chunks[c]
                \/ /\ l.chunks[c].status = "running"
                   /\ Expired(l.chunks[c], now)
                   /\ m.chunks[c].status = "failed"
<1>1. l.chunks \in [Chunks -> ChunkRecord]
  BY DEF Ledger
<1>2. \A c \in Chunks : Orphan(l.chunks[c]) \in ChunkRecord
                        /\ Orphan(l.chunks[c]).status = "failed"
  BY <1>1, OrphanFacts
<1>3. QED
  BY <1>1, <1>2 DEF RecoverChunks, Ledger, SameCampaign, Advance

(* acquire_campaign names the new owner, reactivates the campaign and      *)
(* touches only RUNNING rows.                                              *)
LEMMA AcquireCampaignFacts ==
    ASSUME NEW l \in Ledger, NEW o \in Owners
    PROVE  LET m == AcquireCampaign(l, o) IN
           /\ Advance(l, m, {})
           /\ m.status = "active" /\ m.lockOwner = o /\ m.phase = l.phase
           /\ \A c \in Chunks :
                \/ m.chunks[c] = l.chunks[c]
                \/ /\ l.chunks[c].status = "running"
                   /\ m.chunks[c].status = "failed"
<1>1. l.chunks \in [Chunks -> ChunkRecord]
  BY DEF Ledger
<1>2. \A c \in Chunks : Orphan(l.chunks[c]) \in ChunkRecord
                        /\ Orphan(l.chunks[c]).status = "failed"
  BY <1>1, OrphanFacts
<1>3. QED
  BY <1>1, <1>2 DEF AcquireCampaign, Ledger, CampaignStatus, Advance

(* release_campaign, cancel and save leave every chunk row alone. *)
LEMMA CampaignRowFacts ==
    ASSUME NEW l \in Ledger
    PROVE  /\ ReleaseCampaign(l) \in Ledger
           /\ ReleaseCampaign(l).status = l.status
           /\ ReleaseCampaign(l).phase = l.phase
           /\ ReleaseCampaign(l).lockOwner = NoOwner
           /\ ReleaseCampaign(l).chunks = l.chunks
           /\ Cancel(l) \in Ledger
           /\ Cancelled(Cancel(l))
           /\ Cancel(l).phase = l.phase
           /\ Cancel(l).lockOwner = l.lockOwner
           /\ Cancel(l).chunks = l.chunks
           /\ SavePhase(l, "prepared") \in Ledger
           /\ SavePhase(l, "prepared").status = l.status
           /\ Published(SavePhase(l, "prepared")) <=> Published(l)
           /\ SavePhase(l, "prepared").lockOwner = l.lockOwner
           /\ SavePhase(l, "prepared").chunks = l.chunks
BY DEF ReleaseCampaign, Cancel, SavePhase, Rank, Ledger, CampaignStatus,
       Phase, Cancelled, Published
=============================================================================
