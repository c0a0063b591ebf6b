---------------------------- MODULE MCXminHandoff ----------------------------
(* Instances of XminHandoff: two keys, two runs, ids across an epoch's end. *)
EXTENDS XminHandoff, TLC

RunSymmetry == Permutations(Keys) \cup Permutations(Runs)
=============================================================================
