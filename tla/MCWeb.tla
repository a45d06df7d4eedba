--------------------------------- MODULE MCWeb ---------------------------------
(* A small instance of Web. *)
EXTENDS Web, TLC

CONSTANTS r1, r2

McSlots == {r1, r2}
==============================================================================
