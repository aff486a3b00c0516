----------------------------- MODULE MCHeldSale -----------------------------
(* Instances of HeldSale: one sale, to a customer the cloud may not know.  *)
EXTENDS HeldSale

CONSTANTS o1
=============================================================================
