-------------------------- MODULE MCOrchestratedRun --------------------------
(* Instances of OrchestratedRun: two or three workers and their policies. *)
EXTENDS OrchestratedRun

CONSTANTS w1, w2, w3

(* One worker per policy. *)
MixedPolicies ==
    [p \in Workers |-> CASE p = w1 -> "fail"
                         [] p = w2 -> "resume"
                         [] OTHER -> "restart"]
=============================================================================
