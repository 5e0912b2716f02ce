----------------------------- MODULE MCDelivery -----------------------------
(***************************************************************************)
(* Instances of Delivery for TLC: the accounts are model values.           *)
(***************************************************************************)
EXTENDS Delivery

CONSTANT u1
=============================================================================
