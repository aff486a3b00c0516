--------------------------- MODULE MCReversalRace ---------------------------
(* Instances of ReversalRace: phone A cancels the sale or returns one unit *)
(* of two, phone B cancels it or returns two.                              *)
EXTENDS ReversalRace, TLC

CONSTANTS pA, pB, cancelA, cancelB, returnA, returnB

MCBy == [r \in Reversals |-> IF r \in {cancelA, returnA} THEN pA ELSE pB]
MCUnits == [r \in Reversals |-> IF r = returnA THEN 1 ELSE 2]
=============================================================================
