------------------------- MODULE LedgerTransitions -------------------------
(***************************************************************************)
(* The campaign ledger of a chunked backfill and the pure transitions that *)
(* MSSQLLedgerTransitionPolicy derives from the latest committed revision. *)
(* Every transition comes as a pair: XxxOK is the condition under which    *)
(* the policy returns a new revision (otherwise it returns                 *)
(* MSSQLLedgerMutation.unchanged(False) and the ledger stays as it is),    *)
(* and Xxx is that revision.                                               *)
(*                                                                         *)
(* A lease time is a natural number; 0 stands for an absent timestamp.     *)
(* Timestamps, error texts, row counts and the campaign's informational    *)
(* lock_expires_at are left out: no transition of the SQL Server policy    *)
(* reads them.                                                             *)
(***************************************************************************)
EXTENDS Naturals

CONSTANTS
    Chunks,     \* the immutable chunk indexes of the campaign plan
    Owners,     \* one identity per orchestrator invocation (a fresh uuid)
    NoOwner     \* an absent lease_owner or lock_owner

ASSUME NoOwnerAssumption == NoOwner \notin Owners

ChunkStatus == {"pending", "running", "success", "failed"}
CampaignStatus == {"active", "cancel_requested"}
Phase == {"planned", "prepared", "published"}

ChunkRecord ==
    [status: ChunkStatus, owner: Owners \cup {NoOwner},
     expires: Nat, attempts: Nat]

Ledger ==
    [status: CampaignStatus, lockOwner: Owners \cup {NoOwner},
     phase: Phase, chunks: [Chunks -> ChunkRecord]]

(* load_or_create_backfill_ledger persists this shape on the first run. *)
InitialLedger ==
    [status |-> "active", lockOwner |-> NoOwner, phase |-> "planned",
     chunks |-> [c \in Chunks |->
                   [status |-> "pending", owner |-> NoOwner,
                    expires |-> 0, attempts |-> 0]]]

Committed(l) == {c \in Chunks : l.chunks[c].status = "success"}
AllCommitted(l) == \A c \in Chunks : l.chunks[c].status = "success"
Cancelled(l) == l.status = "cancel_requested"
Published(l) == l.phase = "published"

(* expired_iso: an absent or elapsed lease. *)
Expired(rec, now) == rec.expires <= now

(* Mutant of Orphan: the error code is written into the status column. *)
OrphanMiswritten(rec) ==
    [rec EXCEPT !.status = "lease_expired", !.owner = NoOwner, !.expires = 0]

(* A leased chunk that returns to FAILED without its owner's consent. *)
Orphan(rec) ==
    [rec EXCEPT !.status = "failed", !.owner = NoOwner, !.expires = 0]

-----------------------------------------------------------------------------
(* Chunk leases *)

(* Mutant of AcquireChunkOK: a committed chunk may be claimed again. *)
AcquireChunkAnyStatus(l, c, now) ==
    /\ ~Cancelled(l)
    /\ l.chunks[c].status = "running" => Expired(l.chunks[c], now)

AcquireChunkOK(l, c, now) ==
    /\ ~Cancelled(l)
    /\ l.chunks[c].status # "success"
    /\ l.chunks[c].status = "running" => Expired(l.chunks[c], now)

AcquireChunk(l, c, o, expiry) ==
    [l EXCEPT !.chunks[c] =
        [status |-> "running", owner |-> o, expires |-> expiry,
         attempts |-> @.attempts + 1]]

RenewChunkOK(l, c, o, now) ==
    /\ ~Cancelled(l)
    /\ l.chunks[c].status = "running"
    /\ l.chunks[c].owner = o
    /\ ~Expired(l.chunks[c], now)

(* iso_later: a renewal never shortens the lease. *)
RenewChunk(l, c, expiry) ==
    [l EXCEPT !.chunks[c].expires = IF expiry > @ THEN expiry ELSE @]

(* Mutant of CompleteChunkOK: the terminal write does not compare owners. *)
CompleteChunkAnyOwner(l, c, o) == l.chunks[c].status = "running"

(* The owner compare-and-set of complete_chunk; expiry is not consulted. *)
CompleteChunkOK(l, c, o) ==
    /\ l.chunks[c].status = "running"
    /\ l.chunks[c].owner = o

(* The caller's record replaces the row, its attempt counter included. *)
CompleteChunk(l, c, status, attempts) ==
    [l EXCEPT !.chunks[c] =
        [status |-> status, owner |-> NoOwner, expires |-> 0,
         attempts |-> attempts]]

RecoverChunks(l, now) ==
    [l EXCEPT !.chunks = [c \in Chunks |->
        IF @[c].status = "running" /\ Expired(@[c], now)
        THEN Orphan(@[c]) ELSE @[c]]]

-----------------------------------------------------------------------------
(* Campaign ownership, cancellation and publication *)

(* Mutant of CancelOK: cancellation stays open after publication. *)
CancelAnyPhase(l) == ~Cancelled(l)

CancelOK(l) == ~Cancelled(l) /\ ~Published(l)

Cancel(l) == [l EXCEPT !.status = "cancel_requested"]

AcquireCampaignOK(l) == Cancelled(l) => Published(l)

(* The new session owner orphans every RUNNING chunk, expired or not. *)
AcquireCampaign(l, o) ==
    [l EXCEPT !.status = "active",
              !.lockOwner = o,
              !.chunks = [c \in Chunks |->
                  IF @[c].status = "running" THEN Orphan(@[c]) ELSE @[c]]]

RenewCampaignOK(l, o) == ~Cancelled(l) /\ l.lockOwner = o

ReleaseCampaignOK(l, o) == l.lockOwner = o

ReleaseCampaign(l) == [l EXCEPT !.lockOwner = NoOwner]

Rank(phase) == CASE phase = "planned" -> 0
                 [] phase = "prepared" -> 1
                 [] phase = "published" -> 2

(* save: merge_publication never lowers the phase, a recorded cancellation *)
(* is never undone and chunk rows are not rewritten.                       *)
SavePhase(l, phase) ==
    [l EXCEPT !.phase = IF Rank(phase) < Rank(@) THEN @ ELSE phase]
=============================================================================
