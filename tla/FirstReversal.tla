--------------------------- MODULE FirstReversal ---------------------------
(***************************************************************************)
(* What the cloud promises about the reversals of one sale (ADR 0032, ADR  *)
(* 0035): full cancels and part returns made by any number of phones.  A   *)
(* reversal is accepted or withdrawn, never both; only an accepted one     *)
(* lands; a full cancel excludes every other reversal; part returns never  *)
(* add up to more than was sold.                                           *)
(***************************************************************************)
EXTENDS Naturals

CONSTANTS Reversals, Cancels, Units, Sold

VARIABLES
  accepted,  \* reversals whose claim the cloud accepted
  returned,  \* units the accepted part returns take back
  landed,    \* reversals whose rows are in the cloud
  withdrawn  \* reversals the phone that made them has undone

vars == <<accepted, returned, landed, withdrawn>>

Init ==
  /\ accepted = {} /\ returned = 0
  /\ landed = {} /\ withdrawn = {}

AcceptCancel(r) ==
  /\ r \in Cancels \ withdrawn
  /\ accepted = {}
  /\ accepted' = {r}
  /\ UNCHANGED <<returned, landed, withdrawn>>

AcceptReturn(r) ==
  /\ r \in Reversals \ (Cancels \cup accepted \cup withdrawn)
  /\ accepted \cap Cancels = {}
  /\ returned + Units[r] <= Sold
  /\ accepted' = accepted \cup {r}
  /\ returned' = returned + Units[r]
  /\ UNCHANGED <<landed, withdrawn>>

Land(r) ==
  /\ r \in accepted \ landed
  /\ landed' = landed \cup {r}
  /\ UNCHANGED <<accepted, returned, withdrawn>>

Withdraw(r) ==
  /\ r \in Reversals \ (accepted \cup withdrawn)
  /\ withdrawn' = withdrawn \cup {r}
  /\ UNCHANGED <<accepted, returned, landed>>

Next ==
  \E r \in Reversals : AcceptCancel(r) \/ AcceptReturn(r) \/ Land(r) \/ Withdraw(r)

Spec == Init /\ [][Next]_vars

=============================================================================
