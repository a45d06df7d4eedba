---------------------------- MODULE MCIndexPipeline ----------------------------
(* Small instances of IndexPipeline: jobs are model values. *)
EXTENDS IndexPipeline, TLC

CONSTANTS a1, a2, c1
==============================================================================
