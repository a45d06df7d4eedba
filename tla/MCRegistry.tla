------------------------------ MODULE MCRegistry ------------------------------
(* A small instance of Registry. *)
EXTENDS Registry, TLC

CONSTANTS i1, i2, r1, r2

McInstances == {i1, i2}
McRequests == {r1, r2}
==============================================================================
