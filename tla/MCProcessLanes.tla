--------------------------- MODULE MCProcessLanes ---------------------------
(* Instances of ProcessLanes: two lanes share two or three chunks. *)
EXTENDS ProcessLanes

CONSTANTS ChunkCount, LaneCount

MCChunks == 1 .. ChunkCount
MCLanes == 1 .. LaneCount
MCWork == [i \in 1 .. ChunkCount |-> i]
=============================================================================
