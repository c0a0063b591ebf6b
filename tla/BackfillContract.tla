-------------------------- MODULE BackfillContract --------------------------
(***************************************************************************)
(* What a chunked backfill promises its users, without invocations,        *)
(* leases, locks or faults: rows of a chunk are appended once, a chunk is  *)
(* committed only after its rows are in the target, and the campaign ends  *)
(* cancelled or published, never both, published only when every chunk is  *)
(* committed.  docs/backfill.md describes these promises; BackfillCampaign *)
(* is shown to keep them.                                                  *)
(***************************************************************************)
EXTENDS Naturals

CONSTANT Chunks

VARIABLES
    copies,     \* copies[c]: how many times the rows of c are in the target
    committed,  \* the chunks recorded SUCCESS
    outcome     \* "open", "cancelled" or "published"

contractVars == <<copies, committed, outcome>>

Init ==
    /\ copies = [c \in Chunks |-> 0]
    /\ committed = {}
    /\ outcome = "open"

Load(c) ==
    /\ outcome # "published"
    /\ copies[c] = 0
    /\ copies' = [copies EXCEPT ![c] = 1]
    /\ UNCHANGED <<committed, outcome>>

(* A chunk that was already running may still commit after a cancellation. *)
Commit(c) ==
    /\ outcome # "published"
    /\ copies[c] = 1
    /\ committed' = committed \cup {c}
    /\ UNCHANGED <<copies, outcome>>

Cancel ==
    /\ outcome = "open"
    /\ outcome' = "cancelled"
    /\ UNCHANGED <<copies, committed>>

Publish ==
    /\ outcome = "open"
    /\ committed = Chunks
    /\ outcome' = "published"
    /\ UNCHANGED <<copies, committed>>

Next ==
    \/ \E c \in Chunks : Load(c) \/ Commit(c)
    \/ Cancel
    \/ Publish

Spec == Init /\ [][Next]_contractVars
=============================================================================
