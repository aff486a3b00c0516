---------------------------- MODULE MCPlayBilling ----------------------------
(* One shop that buys a plan and switches once, another shop of the same    *)
(* owner whose phone posts the same tokens.                                 *)
EXTENDS PlayBilling, TLC
CONSTANTS b1, b2, t1, t2, c1, c2
MCAccount == [t \in Tokens |-> b1]
MCLink == [t \in Tokens |-> IF t = t2 THEN t1 ELSE NoToken]
MCGrants == {<<b1, "premium", 2>>}
MCSymmetry == Permutations(Calls)
==============================================================================
