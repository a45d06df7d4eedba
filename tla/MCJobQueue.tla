------------------------------ MODULE MCJobQueue ------------------------------
(* A small instance of JobQueue: jobs and workers are model values. *)
EXTENDS JobQueue

CONSTANTS a1, a2, c1, w1, w2
==============================================================================
