------------------------ MODULE MCBackfillCampaign ------------------------
(* Instances of BackfillCampaign for TLC. *)
EXTENDS BackfillCampaign, TLC

(* Invocations are interchangeable: their identities are fresh uuids. *)
Symmetry == Permutations(Owners)
============================================================================
