---------------------------- MODULE ReversalRace ----------------------------
(***************************************************************************)
(* Several phones reverse one completed sale: full cancels                 *)
(* (OrdersDao.markCancelled behind returnCompletedSale) and part returns   *)
(* (returnPartOfSale).  Every row a reversal queues is held behind a claim *)
(* envelope that the cloud accepts or refuses under a lock of the order    *)
(* (pos_claim_order_reversal, pos_claim_sale_adjustment); a refused        *)
(* reversal is undone on the phone that made it.                           *)
(*                                                                         *)
(* Abstractions                                                            *)
(*  - One sale with one line of Sold units.  The rows with fresh ids a     *)
(*    reversal writes (stock, money, crates, cost layers) are one row,     *)
(*    rows[r]; the order header, which other changes of the order write    *)
(*    too, is header[p] on phone p.                                        *)
(*  - Uploading a row that is not held is one step, and so is a pull; the  *)
(*    windows inside them are the subject of SyncOutbox and PullRestore.   *)
(*  - Edits of a sale, which also add goods, are left out: a reversal only *)
(*    takes units back.                                                    *)
(*  - One drain at a time has a claim in hand, as in HeldSale.             *)
(***************************************************************************)
EXTENDS Naturals, FiniteSetsExt

CONSTANTS
  Phones,
  Reversals,    \* reversal ids, each made at most once
  Cancels,      \* those that reverse the whole sale
  By,           \* By[r]: the phone r is made on
  Units,        \* Units[r]: units a part return takes back
  Sold,         \* units of the sale
  Seller,       \* the phone that rang the sale
  OrderLanded,  \* whether the order is in the cloud at the start
  NoHeader,     \* no pending header
  NoReversal,   \* not held
  FkCap, AutoCap,
  MaxFaults,    \* bound: lost answers, kills, failed undos, odd refusals
  MaxTouches,   \* bound: other changes of the order
  MaxRetries,   \* bound: Retry button
  MaxDiscards   \* bound: Discard button

ASSUME ConstantsAssumption ==
  /\ Seller \in Phones
  /\ Cancels \subseteq Reversals
  /\ By \in [Reversals -> Phones]
  /\ Units \in [Reversals -> Nat \ {0}]
  /\ Sold \in Nat
  /\ NoReversal \notin Reversals
  /\ OrderLanded \in BOOLEAN
  /\ FkCap \in Nat \ {0} /\ AutoCap \in Nat
  /\ MaxFaults \in Nat /\ MaxTouches \in Nat
  /\ MaxRetries \in Nat /\ MaxDiscards \in Nat

ClaimStates == {"none", "queued", "syncing", "done", "orphan", "gone"}
Calls == {"idle", "called", "accepted", "refused", "fk", "undone", "release"}
RowStates == {"none", "held", "queued", "landed", "withdrawn"}
Status == {"absent", "completed", "cancelled"}
Header == [status : Status, held : Reversals \cup {NoReversal}]
Bounds == {"fault", "touch", "retry", "discard"}

ASSUME NoHeaderAssumption == NoHeader \notin Header

VARIABLES
  claim,       \* the claim envelope in sync_queue or the orphans
  tries, auto, \* its attempts (saturating) and autoRetryCount
  why,         \* why it was orphaned
  call,        \* how far _pushDomainItems is with it
  detail,      \* the cloud status carried in a refusal's DETAIL
  rows,        \* the other rows of the reversal
  header,      \* header[p]: the pending `orders:upsert` of phone p
  local,       \* local[p]: the order's status on phone p
  known,       \* known[p]: reversals whose rows are in p's database
  status,      \* the order's status in the cloud
  claims,      \* order_reversals and sale_adjustment_claims
  returned,    \* units in sale_adjustment_claims (the SQL sums them)
  budget

envelope == <<claim, tries, auto, why>>
phone == <<header, local, known>>
cloud == <<status, claims, returned>>
vars == <<envelope, call, detail, rows, phone, cloud, budget>>

Init ==
  /\ claim = [r \in Reversals |-> "none"]
  /\ tries = [r \in Reversals |-> 0]
  /\ auto = [r \in Reversals |-> 0]
  /\ why = [r \in Reversals |-> "none"]
  /\ call = [r \in Reversals |-> "idle"]
  /\ detail = [r \in Reversals |-> "absent"]
  /\ rows = [r \in Reversals |-> "none"]
  /\ header = [p \in Phones |->
       IF p = Seller /\ ~OrderLanded
         THEN [status |-> "completed", held |-> NoReversal] ELSE NoHeader]
  /\ local = [p \in Phones |->
       IF p = Seller \/ OrderLanded THEN "completed" ELSE "absent"]
  /\ known = [p \in Phones |-> {}]
  /\ status = IF OrderLanded THEN "completed" ELSE "absent"
  /\ claims = {}
  /\ returned = 0
  /\ budget = [fault |-> MaxFaults, touch |-> MaxTouches,
               retry |-> MaxRetries, discard |-> MaxDiscards]

Spend(b) == budget[b] > 0 /\ budget' = [budget EXCEPT ![b] = @ - 1]

Bump(n) == IF n < FkCap THEN n + 1 ELSE n

-----------------------------------------------------------------------------
(* The phone *)

(* enqueueUpsert of the order header with status s, held by h if it is a   *)
(* new row: a pending row is refreshed in place and keeps its hold.        *)
HeaderRow(p, s, h) ==
  IF header[p] = NoHeader THEN [status |-> s, held |-> h]
  ELSE [header[p] EXCEPT !.status = s]

(* What both kinds of reversal queue: the claim, and the rows behind it.   *)
Guarded(r) ==
  /\ claim[r] = "none"
  /\ claim' = [claim EXCEPT ![r] = "queued"]
  /\ rows' = [rows EXCEPT ![r] = "held"]
  /\ known' = [known EXCEPT ![By[r]] = @ \cup {r}]

(* returnCompletedSale, markCancelled: refused unless the sale is still    *)
(* completed here and has no adjustment.                                   *)
Cancel(r) ==
  /\ r \in Cancels
  /\ local[By[r]] = "completed"
  /\ known[By[r]] \subseteq Cancels
  /\ Guarded(r)
  /\ local' = [local EXCEPT ![By[r]] = "cancelled"]
  /\ header' = [header EXCEPT ![By[r]] = HeaderRow(By[r], "cancelled", r)]
  /\ UNCHANGED <<tries, auto, why, call, detail, cloud, budget>>

KnownReturned(p) == MapThenSumSet(LAMBDA r : Units[r], known[p] \ Cancels)

(* planPartReturn, returnPartOfSale: refused unless the sale is completed  *)
(* here and the units are still returnable as far as this phone knows.     *)
Return(r) ==
  /\ r \in Reversals \ Cancels
  /\ local[By[r]] = "completed"
  /\ KnownReturned(By[r]) + Units[r] <= Sold
  /\ Guarded(r)
  /\ UNCHANGED <<tries, auto, why, call, detail, header, local, cloud, budget>>

(* Another change of the order (mark as paid, a rider ...): its header is  *)
(* queued as it stands.                                                    *)
TouchOrder(p) ==
  /\ Spend("touch")
  /\ local[p] # "absent"
  /\ header' = [header EXCEPT ![p] = HeaderRow(p, local[p], NoReversal)]
  /\ UNCHANGED <<envelope, call, detail, rows, local, known, cloud>>

(* A pull takes the cloud's header unless a change is queued here.         *)
Pull(p) ==
  /\ status # "absent"
  /\ local' = [local EXCEPT ![p] = IF header[p] = NoHeader THEN status ELSE @]
  /\ known' = [known EXCEPT ![p] = @ \cup {r \in Reversals : rows[r] = "landed"}]
  /\ UNCHANGED <<envelope, call, detail, rows, header, cloud, budget>>

-----------------------------------------------------------------------------
(* The cloud *)

CancelClaimed == claims \cap Cancels # {}

(* Reversed by a build that makes no claim: cancelled, with return rows.   *)
ReversedUnclaimed ==
  status = "cancelled" /\ \E r \in Cancels : rows[r] = "landed"

(* Variants: 0227's body, which knew no part returns; a sum that leaves    *)
(* the units being claimed out.                                            *)
RefusesBefore0247(r) ==
  IF r \in Cancels THEN CancelClaimed \/ ReversedUnclaimed
  ELSE \/ status # "completed" \/ CancelClaimed
       \/ returned + Units[r] > Sold

RefusesLate(r) ==
  IF r \in Cancels THEN claims # {} \/ ReversedUnclaimed
  ELSE status # "completed" \/ CancelClaimed \/ returned > Sold

Refuses(r) ==
  IF r \in Cancels THEN claims # {} \/ ReversedUnclaimed
  ELSE \/ status # "completed" \/ CancelClaimed
       \/ returned + Units[r] > Sold

Answer(r, a) == call' = [call EXCEPT ![r] = a]

(* pos_claim_order_reversal and pos_claim_sale_adjustment, each under      *)
(* FOR UPDATE of the order: deferred while the order has not landed, a     *)
(* replay of an accepted claim succeeds, a refusal carries the header.     *)
Deferred(r) ==
  /\ status = "absent"
  /\ Answer(r, "fk")
  /\ UNCHANGED <<cloud, detail>>

Replayed(r) ==
  /\ r \in claims
  /\ Answer(r, "accepted")
  /\ UNCHANGED <<cloud, detail>>

Refused(r) ==
  /\ status # "absent" /\ r \notin claims /\ Refuses(r)
  /\ Answer(r, "refused")
  /\ detail' = [detail EXCEPT ![r] = status]
  /\ UNCHANGED cloud

Accepted(r) ==
  /\ status # "absent" /\ r \notin claims /\ ~Refuses(r)
  /\ Answer(r, "accepted")
  /\ claims' = claims \cup {r}
  /\ IF r \in Cancels THEN status' = "cancelled" /\ UNCHANGED returned
     ELSE returned' = returned + Units[r] /\ UNCHANGED status
  /\ UNCHANGED detail

(* Variant: a retried claim is judged again.                               *)
CloudJudgesAgain(r) ==
  /\ call[r] = "called"
  /\ \/ Deferred(r)
     \/ /\ status # "absent" /\ Refuses(r)
        /\ Answer(r, "refused")
        /\ detail' = [detail EXCEPT ![r] = status]
        /\ UNCHANGED cloud
     \/ /\ status # "absent" /\ ~Refuses(r)
        /\ Answer(r, "accepted")
        /\ claims' = claims \cup {r}
        /\ IF r \in Cancels THEN status' = "cancelled" /\ UNCHANGED returned
           ELSE returned' = returned + Units[r] /\ UNCHANGED status
        /\ UNCHANGED detail
  /\ UNCHANGED <<envelope, rows, phone, budget>>

CloudClaims(r) ==
  /\ call[r] = "called"
  /\ Deferred(r) \/ Replayed(r) \/ Refused(r) \/ Accepted(r)
  /\ UNCHANGED <<envelope, rows, phone, budget>>

(* _orders_reversal_sticky: a cancelled header is never flipped back.      *)
Sticky(s) == IF CancelClaimed \/ status = "cancelled" THEN "cancelled" ELSE s

UploadHeader(p) ==
  /\ header[p] # NoHeader /\ header[p].held = NoReversal
  /\ status' = Sticky(header[p].status)
  /\ header' = [header EXCEPT ![p] = NoHeader]
  /\ UNCHANGED <<envelope, call, detail, rows, local, known, claims, returned, budget>>

UploadRows(r) ==
  /\ rows[r] = "queued" /\ status # "absent"
  /\ rows' = [rows EXCEPT ![r] = "landed"]
  /\ UNCHANGED <<envelope, call, detail, phone, cloud, budget>>

-----------------------------------------------------------------------------
(* The claim in the drain: _pushDomainItems *)

SendClaim(r) ==
  /\ claim[r] = "queued" /\ call[r] = "idle"
  /\ claim' = [claim EXCEPT ![r] = "syncing"]
  /\ Answer(r, "called")
  /\ UNCHANGED <<tries, auto, why, detail, rows, phone, cloud, budget>>

(* markFailed without `permanent`: the claim waits for another try.        *)
AnswerLost(r) ==
  /\ Spend("fault")
  /\ call[r] \in {"called", "accepted", "refused", "fk"}
  /\ claim' = [claim EXCEPT ![r] = "queued"]
  /\ tries' = [tries EXCEPT ![r] = Bump(@)]
  /\ Answer(r, "idle")
  /\ UNCHANGED <<auto, why, detail, rows, phone, cloud>>

MarkDone(r) ==
  /\ call[r] = "accepted"
  /\ claim' = [claim EXCEPT ![r] = "done"]
  /\ Answer(r, "release")
  /\ UNCHANGED <<tries, auto, why, detail, rows, phone, cloud, budget>>

(* releaseHeldByOrder(r)                                                   *)
ReleaseRows(r) ==
  /\ rows' = [rows EXCEPT ![r] = IF @ = "held" THEN "queued" ELSE @]
  /\ header' = [p \in Phones |->
       IF header[p] # NoHeader /\ header[p].held = r
         THEN [header[p] EXCEPT !.held = NoReversal] ELSE header[p]]

Release(r) ==
  /\ call[r] = "release"
  /\ Answer(r, "idle")
  /\ ReleaseRows(r)
  /\ UNCHANGED <<envelope, detail, local, known, cloud, budget>>

(* Variant: the undo discards the held rows but not their local copies.    *)
UndoKeepsCopies(r) ==
  /\ call[r] = "refused"
  /\ Answer(r, "undone")
  /\ rows' = [rows EXCEPT ![r] = IF @ = "held" THEN "withdrawn" ELSE @]
  /\ header' = [p \in Phones |->
       IF header[p] # NoHeader /\ header[p].held = r THEN NoHeader ELSE header[p]]
  /\ UNCHANGED <<envelope, detail, local, known, cloud, budget>>

(* undoRejectedReversal, before the claim is orphaned.  Nothing to do when *)
(* no row is held any more; a part return never touched the header.        *)
Undo(r) ==
  /\ call[r] = "refused"
  /\ Answer(r, "undone")
  /\ IF rows[r] # "held" THEN UNCHANGED <<rows, phone>>
     ELSE /\ rows' = [rows EXCEPT ![r] = "withdrawn"]
          /\ known' = [known EXCEPT ![By[r]] = @ \ {r}]
          /\ local' = IF r \in Cancels
                        THEN [local EXCEPT ![By[r]] = detail[r]] ELSE local
          /\ header' = [p \in Phones |->
               IF header[p] # NoHeader /\ header[p].held = r
                 THEN NoHeader ELSE header[p]]
  /\ UNCHANGED <<envelope, detail, cloud, budget>>

(* The undo throws: it is logged and the drain goes on.                    *)
UndoFails(r) ==
  /\ Spend("fault")
  /\ call[r] = "refused"
  /\ Answer(r, "undone")
  /\ UNCHANGED <<envelope, detail, rows, phone, cloud>>

(* Variant: the claim stays in the queue as 'failed'.                      *)
FailClaim(r, w) ==
  /\ claim' = [claim EXCEPT ![r] = "failed"]
  /\ why' = [why EXCEPT ![r] = w]
  /\ Answer(r, "idle")

OrphanClaim(r, w) ==
  /\ claim' = [claim EXCEPT ![r] = "orphan"]
  /\ why' = [why EXCEPT ![r] = w]
  /\ Answer(r, "idle")

(* markFailed(permanent)                                                   *)
Orphan(r) ==
  /\ call[r] = "undone"
  /\ OrphanClaim(r, "refused")
  /\ UNCHANGED <<tries, auto, detail, rows, phone, cloud, budget>>

(* Refused for another reason (the signed-in user, a missing right): the   *)
(* claim is orphaned with its rows still held.                             *)
OddRefusal(r) ==
  /\ Spend("fault")
  /\ call[r] = "called"
  /\ OrphanClaim(r, "other")
  /\ UNCHANGED <<tries, auto, detail, rows, phone, cloud>>

FkDeferred(r) ==
  /\ call[r] = "fk"
  /\ tries' = [tries EXCEPT ![r] = Bump(@)]
  /\ IF tries[r] + 1 >= FkCap THEN OrphanClaim(r, "fk")
     ELSE /\ claim' = [claim EXCEPT ![r] = "queued"]
          /\ Answer(r, "idle")
          /\ UNCHANGED why
  /\ UNCHANGED <<auto, detail, rows, phone, cloud, budget>>

-----------------------------------------------------------------------------
(* Recovery *)

AppKill(p) ==
  /\ Spend("fault")
  /\ \E r \in Reversals : By[r] = p /\ call[r] # "idle"
  /\ call' = [r \in Reversals |-> IF By[r] = p THEN "idle" ELSE call[r]]
  /\ UNCHANGED <<envelope, detail, rows, phone, cloud>>

ResetStuck(r) ==
  /\ claim[r] = "syncing" /\ call[r] = "idle"
  /\ claim' = [claim EXCEPT ![r] = "queued"]
  /\ UNCHANGED <<tries, auto, why, call, detail, rows, phone, cloud, budget>>

HoldsRows(r) ==
  rows[r] = "held" \/ \E p \in Phones : header[p] # NoHeader /\ header[p].held = r

(* Variants: an orphaned claim releases its rows; a synced claim keeps     *)
(* them held, as the sale envelope does.                                   *)
ReconcileOrphanToo(r) ==
  /\ \A q \in Reversals : By[q] = By[r] => call[q] = "idle"
  /\ HoldsRows(r)
  /\ claim[r] \in {"done", "gone", "orphan"}
  /\ ReleaseRows(r)
  /\ UNCHANGED <<envelope, call, detail, local, known, cloud, budget>>

ReconcileGoneOnly(r) ==
  /\ \A q \in Reversals : By[q] = By[r] => call[q] = "idle"
  /\ HoldsRows(r)
  /\ claim[r] = "gone"
  /\ ReleaseRows(r)
  /\ UNCHANGED <<envelope, call, detail, local, known, cloud, budget>>

(* reconcileHeldRows on a tick that finds no drain running: an un-synced   *)
(* or orphaned claim keeps its rows held, any other releases them.         *)
Reconcile(r) ==
  /\ \A q \in Reversals : By[q] = By[r] => call[q] = "idle"
  /\ HoldsRows(r)
  /\ claim[r] \in {"done", "gone"}
  /\ ReleaseRows(r)
  /\ UNCHANGED <<envelope, call, detail, local, known, cloud, budget>>

Reenqueue(r, n) ==
  /\ claim[r] = "orphan"
  /\ claim' = [claim EXCEPT ![r] = "queued"]
  /\ tries' = [tries EXCEPT ![r] = 0]
  /\ auto' = [auto EXCEPT ![r] = n]
  /\ why' = [why EXCEPT ![r] = "none"]
  /\ UNCHANGED <<call, detail, rows, phone, cloud>>

AutoRecover(r) ==
  /\ why[r] = "fk" /\ auto[r] < AutoCap
  /\ Reenqueue(r, auto[r] + 1)
  /\ UNCHANGED budget

RetryOrphan(r) == Spend("retry") /\ Reenqueue(r, 0)

(* Sync Issues: discardQueueItem, discardOrphan.                           *)
DiscardClaim(r) ==
  /\ Spend("discard")
  /\ claim[r] \in {"queued", "orphan"} /\ call[r] = "idle"
  /\ claim' = [claim EXCEPT ![r] = "gone"]
  /\ UNCHANGED <<tries, auto, why, call, detail, rows, phone, cloud>>

-----------------------------------------------------------------------------
ClaimStep(r) ==
  \/ SendClaim(r) \/ CloudClaims(r) \/ MarkDone(r) \/ Release(r)
  \/ Undo(r) \/ Orphan(r) \/ FkDeferred(r)

Sweep(r) == ResetStuck(r) \/ Reconcile(r) \/ AutoRecover(r)

Next ==
  \/ \E r \in Reversals :
       \/ Cancel(r) \/ Return(r)
       \/ ClaimStep(r) \/ UploadRows(r) \/ Sweep(r)
       \/ AnswerLost(r) \/ UndoFails(r) \/ OddRefusal(r)
       \/ RetryOrphan(r) \/ DiscardClaim(r)
  \/ \E p \in Phones :
       TouchOrder(p) \/ UploadHeader(p) \/ Pull(p) \/ AppKill(p)

Spec == Init /\ [][Next]_vars

(* Drains run on, the periodic tick sweeps and pulls.                      *)
Fairness ==
  /\ \A r \in Reversals :
       /\ WF_vars(ClaimStep(r)) /\ WF_vars(UploadRows(r))
       /\ WF_vars(ResetStuck(r)) /\ WF_vars(Reconcile(r))
       /\ WF_vars(AutoRecover(r))
  /\ \A p \in Phones : WF_vars(UploadHeader(p)) /\ WF_vars(Pull(p))

FairSpec == Spec /\ Fairness

-----------------------------------------------------------------------------
(* Type invariant. *)
TypeOK ==
  /\ claim \in [Reversals -> ClaimStates]
  /\ tries \in [Reversals -> Nat] /\ auto \in [Reversals -> Nat]
  /\ why \in [Reversals -> {"none", "refused", "fk", "other"}]
  /\ call \in [Reversals -> Calls]
  /\ detail \in [Reversals -> Status]
  /\ rows \in [Reversals -> RowStates]
  /\ header \in [Phones -> Header \cup {NoHeader}]
  /\ local \in [Phones -> Status]
  /\ known \in [Phones -> SUBSET Reversals]
  /\ status \in Status
  /\ claims \subseteq Reversals
  /\ returned \in Nat
  /\ budget \in [Bounds -> Nat]

(* The refund of a unit is accepted once: a full cancel excludes every     *)
(* other claim, and the part returns never exceed what was sold.           *)
NoUnitRefundedTwice ==
  /\ \A r \in claims \cap Cancels : claims = {r}
  /\ returned <= Sold

RefundedUnits == UNION {{r} \X (1 .. Units[r]) : r \in claims \ Cancels}

(* What the cloud adds up to judge the next part return is the units of    *)
(* the accepted ones, each counted once, however often a claim is sent.    *)
UnitsAddUp == returned = Cardinality(RefundedUnits)

(* No row of a reversal reaches the cloud before the cloud has accepted    *)
(* its claim: the rows of a refused reversal never upload.  The exception  *)
(* is a claim the user discarded in Sync Issues: reconcileHeldRows finds   *)
(* it in neither table and lets its rows go.                               *)
ClaimedBeforeLanding ==
  \A r \in Reversals : rows[r] = "landed" => r \in claims \/ claim[r] = "gone"

(* An accepted reversal is never undone on the phone, whatever answers are *)
(* lost and however often the claim is retried: an undone one is refused   *)
(* for ever.                                                               *)
WinnerKeepsRows == \A r \in claims : rows[r] # "withdrawn"

(* A claim that was orphaned with its rows held waits in Sync Issues.      *)
Parked(r) == claim[r] = "orphan" /\ rows[r] = "held"

(* Every reversal is settled: its rows upload, or they are withdrawn, or   *)
(* it is parked in Sync Issues.                                            *)
ReversalsSettle ==
  \A r \in Reversals :
    (rows[r] = "held") ~> (rows[r] \in {"landed", "withdrawn"} \/ Parked(r))

Agrees(p) ==
  \/ /\ local[p] = status
     /\ known[p] = {r \in Reversals : rows[r] = "landed"}
  \/ \E r \in Reversals : By[r] = p /\ Parked(r)

(* A phone with nothing parked ends up agreeing with the cloud on the      *)
(* sale: on its status and on the reversals that stand.                    *)
PhonesAgree == \A p \in Phones : <>[]Agrees(p)

First == INSTANCE FirstReversal WITH
  accepted <- claims,
  landed <- {r \in Reversals : rows[r] = "landed" /\ claim[r] # "gone"},
  withdrawn <- {r \in Reversals : rows[r] = "withdrawn"}

(* The race implements what FirstReversal promises, for the reversals      *)
(* whose claim the user has not discarded.                                 *)
ImplementsFirstReversal == First!Spec

=============================================================================
