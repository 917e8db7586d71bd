---- MODULE MCPthreadBarrier ----
(* Instances of PthreadBarrier: three threads, a phase of one bit. *)
EXTENDS PthreadBarrier

CONSTANTS r1, r2, r3

MCRanks == {r1, r2, r3}
====
