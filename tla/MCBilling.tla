------------------------------ MODULE MCBilling ------------------------------
(* A small instance of Billing. *)
EXTENDS Billing, TLC

CONSTANTS h1, h2

McHandlers == {h1, h2}
==============================================================================
