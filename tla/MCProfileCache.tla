---------------------------- MODULE MCProfileCache ----------------------------
(* Small instances of ProfileCache: requests and slugs are model values. *)
EXTENDS ProfileCache, TLC

CONSTANTS p1, p2, j1, j2, r1, r2, s1, s2

\* Reads are interchangeable.
Symmetric == Permutations(Readers)
==============================================================================
