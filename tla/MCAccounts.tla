------------------------------ MODULE MCAccounts ------------------------------
(* A small instance of Accounts: four addresses on one chain. *)
EXTENDS Accounts, TLC

CONSTANTS a1, a2, a3, a4, c1, n1, h1, h2

McAddresses == {a1, a2, a3, a4}
McChains == {c1}
McNonces == {n1}
McHandlers == {h1, h2}
Symmetric == Permutations(McAddresses) \cup Permutations(McHandlers)
==============================================================================
