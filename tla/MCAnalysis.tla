------------------------------ MODULE MCAnalysis ------------------------------
(***************************************************************************)
(* Transfers for Analysis: groups that reach the thresholds of the scores, *)
(* of the heuristics and of the volume limits, in pairs.                   *)
(***************************************************************************)
EXTENDS Analysis, TLC

Group(hash, dir, peer, value, m) == [hash |-> hash, dir |-> dir, peer |-> peer, value |-> value, m |-> m]

Groups == <<
    Group("a", "in", "dao", "whole", 4),
    Group("b", "out", "dao", "whole", 21),
    Group("c", "out", "governance", "zero", 6),
    Group("d", "out", "protocol", "zero", 1),
    Group("d", "in", "person", "whole", 1),      \* a swap: both ways in one transaction
    Group("e", "self", "self", "whole", 5),
    Group("f", "in", "many", "whole", 20),
    Group("g", "out", "many", "zero", 1001),
    Group("h", "in", "router", "whole", 1),
    Group("i", "in", "person", "fraction", 1),
    Group("j", "out", "governance", "zero", 1),
    Group("k", "self", "self", "whole", 1),      \* a batch of two payments, in some order
    Group("k", "out", "dao", "whole", 1)>>

McChains == {<<>>} \cup
    {<<Groups[p[1]], Groups[p[2]]>> :
        p \in {<<1, 3>>, <<2, 6>>, <<2, 7>>, <<3, 8>>, <<4, 5>>, <<9, 1>>, <<9, 11>>, <<10, 4>>}}
    \cup {<<Groups[6], Groups[p[1]], Groups[p[2]]>> : p \in {<<12, 13>>, <<13, 12>>}}

McRevoked == {"active-voter", "dao-contributor"}
==============================================================================
