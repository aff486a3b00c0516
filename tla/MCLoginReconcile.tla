-------------------------- MODULE MCLoginReconcile --------------------------
(* An owner with one business, or with two as in the incident, a Shopper    *)
(* who may found or join one, and a login the Admin API refuses to delete.  *)
EXTENDS LoginReconcile, TLC
CONSTANTS u1, u2, b1, b2, c1, c2
MCFirstOwners == {[b \in Businesses |-> IF b \in own THEN u1 ELSE NoLogin] : own \in {{b1}, {b1, b2}}}
=============================================================================
