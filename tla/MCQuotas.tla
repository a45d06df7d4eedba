------------------------------- MODULE MCQuotas -------------------------------
(* A small instance of Quotas. *)
EXTENDS Quotas, TLC

CONSTANTS h1, h2, w1, w2

McHandlers == {h1, h2}
McWallets == {w1, w2}
==============================================================================
