------------------------- MODULE MCTargetOperation --------------------------
(* Deliveries for model checking. *)
EXTENDS TargetOperation

CONSTANTS w1, w2, w3, a1, a2, s1, s2

(* Retries of one operation, and w3 running for a later invocation. *)
RetryAttempts == [w \in Workers |-> IF w = w3 THEN a2 ELSE a1]
OneScope == [w \in Workers |-> s1]
=============================================================================
