---------------------------- MODULE MCSyncOutbox ----------------------------
(* Instances of SyncOutbox: an order line (child) and its order (parent).  *)
EXTENDS SyncOutbox, TLC

CONSTANTS order, line, r1, r2, r3, r4, dAuto, dManual, tOrders, tLines

MCTableOf == [k \in Keys |-> IF k = order THEN tOrders ELSE tLines]
MCOneTable == [k \in Keys |-> tOrders]
MCParent == [k \in Keys |-> IF k = line THEN order ELSE NoKey]
MCNoParent == [k \in Keys |-> NoKey]
MCPriority == [t \in Tables |-> IF t = tOrders THEN 1 ELSE 2]

MCSymmetry == Permutations(Rows)
=============================================================================
