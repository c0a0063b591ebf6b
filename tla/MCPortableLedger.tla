-------------------------- MODULE MCPortableLedger --------------------------
(* Instances of PortableLedger: two or three attempts on two chunks. *)
EXTENDS PortableLedger, TLC

CONSTANTS p1, p2, p3

(* Two attempts of one task. *)
SameItem == [p \in Pods |-> Chunks]

PodSymmetry == Permutations(Pods)
=============================================================================
