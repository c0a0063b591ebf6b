------------------------ MODULE TransactionContract -------------------------
(***************************************************************************)
(* What the generic SQL Server transaction governance promises its         *)
(* callers.  The business effect of an operation happens at most once, and *)
(* a delivery of the operation reports success only for an effect that is  *)
(* in the target.  An effect may appear after a delivery has reported      *)
(* anything else but success: a retry or a late commit.                    *)
(***************************************************************************)
EXTENDS Naturals

CONSTANTS
    Operations,  \* operation keys
    Deliveries,  \* processor runs
    Delivers     \* Delivers[d]: the operation d delivers

VARIABLES
    effects,   \* effects[o]: how often o's business DML is in the target
    success    \* the deliveries that reported their operation as committed

vars == <<effects, success>>

Init ==
    /\ effects = [o \in Operations |-> 0]
    /\ success = {}

Apply(o) ==
    /\ effects[o] = 0
    /\ effects' = [effects EXCEPT ![o] = 1]
    /\ UNCHANGED success

Report(d) ==
    /\ d \notin success
    /\ effects[Delivers[d]] = 1
    /\ success' = success \cup {d}
    /\ UNCHANGED effects

Next ==
    \/ \E o \in Operations : Apply(o)
    \/ \E d \in Deliveries : Report(d)

Spec == Init /\ [][Next]_vars
=============================================================================
