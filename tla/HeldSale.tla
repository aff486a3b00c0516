------------------------------ MODULE HeldSale ------------------------------
(***************************************************************************)
(* The guarded path of a sale on one till: createOrder queues one          *)
(* `domain:pos_record_sale_v2` envelope and holds the other rows the sale  *)
(* added to the outbox until the cloud confirms or refuses the envelope    *)
(* (SyncDao.holdRowsByOrder, releaseHeldByOrder, discardHeldByOrder,       *)
(* reconcileHeldRows; SupabaseSyncService._pushDomainItems).               *)
(*                                                                         *)
(* Abstractions                                                            *)
(*  - Every sale sells one unit of one product; the cloud's stock is a     *)
(*    number, which other tills and receipts also change.                  *)
(*  - The rows with fresh ids a sale adds (wallet legs, crate lines ...)   *)
(*    are one row, ledger[o].  header[o] is the pending `orders:upsert` of *)
(*    a later change of the order.  `shared` is the pending upsert of a    *)
(*    row that outlives the sale (a cost layer, the product): the sale     *)
(*    that holds it, NoSale if none does, NoRow if nothing is pending.     *)
(*  - Uploading a row that is not held is one step; the windows of that    *)
(*    step are the subject of SyncOutbox, and so are backoffs.             *)
(*  - The parent of the envelope's foreign keys (a new customer) is one    *)
(*    cloud row, present or not; the other sales have none of their own.   *)
(*  - One drain at a time has an envelope in hand: a second pushPending    *)
(*    that read it before the first one marked it is left out.  callRpc    *)
(*    has no client timeout: an answer is lost before or after the cloud   *)
(*    has judged the envelope, and nothing is judged later than that.      *)
(***************************************************************************)
EXTENDS Naturals, FiniteSets

CONSTANTS
  Sales,       \* order ids
  NoSale,      \* not held
  NoRow,       \* no row in the outbox
  FkCap,       \* _fkDeferredRetryCap
  AutoCap,     \* autoRecoverCap
  Stock,       \* units in the cloud at the start
  Dependent,   \* sales whose envelope refers to the parent
  MaxRestock,  \* bound: receipts of other tills
  MaxLost,     \* bound: lost answers
  MaxKills,    \* bound: app kills
  MaxUnsent,   \* bound: envelopes a drain gives up without sending them
  MaxUser      \* bound: Retry and Discard buttons pressed

ASSUME ConstantsAssumption ==
  /\ NoSale \notin Sales /\ NoRow \notin Sales \cup {NoSale}
  /\ Dependent \subseteq Sales
  /\ FkCap \in Nat \ {0} /\ AutoCap \in Nat /\ Stock \in Nat
  /\ {MaxRestock, MaxLost, MaxKills, MaxUnsent, MaxUser} \subseteq Nat

EnvStates == {"none", "pending", "syncing", "done", "orphan", "gone"}
RowStates == {"none", "held", "queued", "landed", "discarded"}
Steps == {"idle", "called", "accepted", "refused", "fk", "release", "discard"}
Shares == Sales \cup {NoSale, NoRow}

VARIABLES
  env,         \* env[o]: the envelope's row in sync_queue or the orphans
  tries,       \* attempts of the envelope, saturating at FkCap
  auto,        \* autoRetryCount of the envelope
  why,         \* why the envelope was orphaned
  step,        \* how far _pushDomainItems is with the envelope
  ledger, header, shared,
  cloudSales,  \* orders the cloud has recorded
  stock,       \* units the cloud has
  others,      \* history: units other tills have sold
  parent,      \* whether the parent row is in the cloud
  putBack,     \* history: envelopes put back when their rows were given up
  budget       \* what is left of each bound

outbox == <<env, tries, auto, why, ledger, header, shared>>
cloud == <<cloudSales, stock, others, parent>>
vars == <<outbox, step, cloud, putBack, budget>>

Init ==
  /\ env = [o \in Sales |-> "none"]
  /\ tries = [o \in Sales |-> 0]
  /\ auto = [o \in Sales |-> 0]
  /\ why = [o \in Sales |-> "none"]
  /\ step = [o \in Sales |-> "idle"]
  /\ ledger = [o \in Sales |-> "none"]
  /\ header = [o \in Sales |-> "none"]
  /\ shared = NoRow
  /\ cloudSales = {}
  /\ stock = Stock
  /\ others = 0
  /\ parent = (Dependent = {})
  /\ putBack = {}
  /\ budget = [restock |-> MaxRestock, lost |-> MaxLost, kills |-> MaxKills,
               unsent |-> MaxUnsent, user |-> MaxUser]

Spend(b) == budget[b] > 0 /\ budget' = [budget EXCEPT ![b] = @ - 1]

-----------------------------------------------------------------------------
(* Writes of the app *)

(* enqueueUpsert of the shared row, held by h if the row is new: a pending *)
(* row is refreshed in place and keeps its hold.                           *)
WriteShared(h) == shared' = IF shared = NoRow THEN h ELSE shared

(* createOrder on the v2 path, one transaction: the rows that were not in  *)
(* the outbox before the child writes are held by the order.               *)
Sell(o) ==
  /\ env[o] = "none"
  /\ WriteShared(o)
  /\ ledger' = [ledger EXCEPT ![o] = "held"]
  /\ env' = [env EXCEPT ![o] = "pending"]
  /\ UNCHANGED <<tries, auto, why, header, step, cloud, putBack, budget>>

(* Any other write of the row: a price, a receipt of goods.                *)
EditShared ==
  /\ WriteShared(NoSale)
  /\ UNCHANGED <<env, tries, auto, why, ledger, header, step, cloud, putBack, budget>>

(* Variant: the header is queued whatever the envelope's state.            *)
ChangeOrderUnheld(o) ==
  /\ env[o] # "none" /\ header[o] # "queued"
  /\ header' = [header EXCEPT ![o] = "queued"]
  /\ UNCHANGED <<env, tries, auto, why, ledger, shared, step, cloud, putBack, budget>>

(* saleEnvelopeState, then _enqueueFullOrder: nothing for a refused sale,  *)
(* held while the envelope is un-synced, otherwise an ordinary upsert,     *)
(* which leaves the hold of a pending row as it is.                        *)
ChangeOrder(o) ==
  /\ env[o] # "none" /\ env[o] # "orphan"
  /\ header' = [header EXCEPT ![o] =
       IF env[o] \in {"pending", "syncing"} THEN "held"
       ELSE IF @ = "held" THEN "held" ELSE "queued"]
  /\ header' # header
  /\ UNCHANGED <<env, tries, auto, why, ledger, shared, step, cloud, putBack, budget>>

-----------------------------------------------------------------------------
(* The drain *)

(* Rows that are not held go up as ordinary upserts.                       *)
UploadLedger(o) ==
  /\ ledger[o] = "queued"
  /\ ledger' = [ledger EXCEPT ![o] = "landed"]
  /\ UNCHANGED <<env, tries, auto, why, header, shared, step, cloud, putBack, budget>>

UploadHeader(o) ==
  /\ header[o] = "queued"
  /\ header' = [header EXCEPT ![o] = "landed"]
  /\ UNCHANGED <<env, tries, auto, why, ledger, shared, step, cloud, putBack, budget>>

UploadShared ==
  /\ shared = NoSale
  /\ shared' = NoRow
  /\ UNCHANGED <<env, tries, auto, why, ledger, header, step, cloud, putBack, budget>>

Bump(n) == IF n < FkCap THEN n + 1 ELSE n

SendEnvelope(o) ==
  /\ env[o] = "pending" /\ step[o] = "idle"
  /\ env' = [env EXCEPT ![o] = "syncing"]
  /\ step' = [step EXCEPT ![o] = "called"]
  /\ UNCHANGED <<tries, auto, why, ledger, header, shared, cloud, putBack, budget>>

(* The drain gives the envelope up without calling the cloud, as it does   *)
(* with one that another login has queued (auth_user_mismatch); nothing is *)
(* said of an earlier sending whose answer was lost.  Its rows stay held.  *)
OrphanUnsent(o) ==
  /\ Spend("unsent")
  /\ env[o] = "pending" /\ step[o] = "idle"
  /\ env' = [env EXCEPT ![o] = "orphan"]
  /\ why' = [why EXCEPT ![o] = "unsent"]
  /\ UNCHANGED <<tries, auto, ledger, header, shared, step, cloud, putBack>>

(* Variant: a replay is judged as a new sale.                              *)
CloudJudgesAgain(o) ==
  /\ step[o] = "called"
  /\ IF o \in Dependent /\ ~parent THEN step' = [step EXCEPT ![o] = "fk"] /\ UNCHANGED cloud
     ELSE IF stock = 0
       THEN step' = [step EXCEPT ![o] = "refused"] /\ UNCHANGED cloud
     ELSE /\ step' = [step EXCEPT ![o] = "accepted"]
          /\ cloudSales' = cloudSales \cup {o}
          /\ stock' = stock - 1
          /\ UNCHANGED <<others, parent>>
  /\ UNCHANGED <<outbox, putBack, budget>>

(* pos_record_sale_v2: a replay of a recorded order succeeds; otherwise    *)
(* the unit is taken under a row lock, or the sale is refused whole.       *)
CloudRecords(o) ==
  /\ step[o] = "called"
  /\ IF o \in cloudSales
       THEN /\ step' = [step EXCEPT ![o] = "accepted"]
            /\ UNCHANGED cloud
     ELSE IF o \in Dependent /\ ~parent
       THEN /\ step' = [step EXCEPT ![o] = "fk"]
            /\ UNCHANGED cloud
     ELSE IF stock = 0
       THEN /\ step' = [step EXCEPT ![o] = "refused"]
            /\ UNCHANGED cloud
     ELSE /\ step' = [step EXCEPT ![o] = "accepted"]
          /\ cloudSales' = cloudSales \cup {o}
          /\ stock' = stock - 1
          /\ UNCHANGED <<others, parent>>
  /\ UNCHANGED <<outbox, putBack, budget>>

(* The answer is lost: a transient failure, retried.                       *)
AnswerLost(o) ==
  /\ Spend("lost")
  /\ step[o] \in {"called", "accepted", "refused", "fk"}
  /\ step' = [step EXCEPT ![o] = "idle"]
  /\ env' = [env EXCEPT ![o] = "pending"]
  /\ tries' = [tries EXCEPT ![o] = Bump(@)]
  /\ UNCHANGED <<auto, why, ledger, header, shared, cloud, putBack>>

MarkDone(o) ==
  /\ step[o] = "accepted"
  /\ step' = [step EXCEPT ![o] = "release"]
  /\ env' = [env EXCEPT ![o] = "done"]
  /\ UNCHANGED <<tries, auto, why, ledger, header, shared, cloud, putBack, budget>>

(* Variant: the header is left held.                                       *)
DiscardLedgerOnly(o) ==
  /\ ledger' = [ledger EXCEPT ![o] = IF @ = "held" THEN "discarded" ELSE @]
  /\ UNCHANGED <<header, shared>>

(* What releaseHeldByOrder and discardHeldByOrder do to the rows.          *)
ReleaseRows(o) ==
  /\ ledger' = [ledger EXCEPT ![o] = IF @ = "held" THEN "queued" ELSE @]
  /\ header' = [header EXCEPT ![o] = IF @ = "held" THEN "queued" ELSE @]
  /\ shared' = IF shared = o THEN NoSale ELSE shared

DiscardRows(o) ==
  /\ ledger' = [ledger EXCEPT ![o] = IF @ = "held" THEN "discarded" ELSE @]
  /\ header' = [header EXCEPT ![o] = IF @ = "held" THEN "discarded" ELSE @]
  /\ shared' = IF shared = o THEN NoRow ELSE shared

Release(o) ==
  /\ step[o] = "release"
  /\ step' = [step EXCEPT ![o] = "idle"]
  /\ ReleaseRows(o)
  /\ UNCHANGED <<env, tries, auto, why, cloud, putBack, budget>>

(* Variant: the oversold envelope stays in the queue as 'failed'.          *)
FailEnvelope(o) ==
  /\ step[o] = "refused"
  /\ step' = [step EXCEPT ![o] = "discard"]
  /\ env' = [env EXCEPT ![o] = "failed"]
  /\ why' = [why EXCEPT ![o] = "refused"]
  /\ UNCHANGED <<tries, auto, ledger, header, shared, cloud, putBack, budget>>

(* markFailed(permanent): the oversold envelope moves to the orphans.      *)
Orphan(o) ==
  /\ step[o] = "refused"
  /\ step' = [step EXCEPT ![o] = "discard"]
  /\ env' = [env EXCEPT ![o] = "orphan"]
  /\ why' = [why EXCEPT ![o] = "refused"]
  /\ UNCHANGED <<tries, auto, ledger, header, shared, cloud, putBack, budget>>

DiscardHeld(o) ==
  /\ step[o] = "discard"
  /\ step' = [step EXCEPT ![o] = "idle"]
  /\ DiscardRows(o)
  /\ UNCHANGED <<env, tries, auto, why, cloud, putBack, budget>>

(* 23503: markFailed(fkDeferred), permanent at the cap.  Not `isPermanent` *)
(* for the caller, so nothing is discarded here.                           *)
FkDeferred(o) ==
  /\ step[o] = "fk"
  /\ step' = [step EXCEPT ![o] = "idle"]
  /\ tries' = [tries EXCEPT ![o] = Bump(@)]
  /\ IF tries[o] + 1 >= FkCap
       THEN /\ env' = [env EXCEPT ![o] = "orphan"]
            /\ why' = [why EXCEPT ![o] = "fk"]
       ELSE /\ env' = [env EXCEPT ![o] = "pending"]
            /\ UNCHANGED why
  /\ UNCHANGED <<auto, ledger, header, shared, cloud, putBack, budget>>

-----------------------------------------------------------------------------
(* Recovery *)

AppKill ==
  /\ Spend("kills")
  /\ \E o \in Sales : step[o] # "idle"
  /\ step' = [o \in Sales |-> "idle"]
  /\ UNCHANGED <<outbox, cloud, putBack>>

ResetStuck(o) ==
  /\ env[o] = "syncing" /\ step[o] = "idle"
  /\ env' = [env EXCEPT ![o] = "pending"]
  /\ UNCHANGED <<tries, auto, why, ledger, header, shared, step, cloud, putBack, budget>>

HasHeldRows(o) == ledger[o] = "held" \/ header[o] = "held" \/ shared = o

(* reconcileHeldRows on a tick that finds no drain running.  An envelope   *)
(* still in sync_queue, even a completed one, keeps its rows held.         *)
Reconcile(o) ==
  /\ \A p \in Sales : step[p] = "idle"
  /\ HasHeldRows(o)
  /\ \/ env[o] = "orphan" /\ DiscardRows(o)
     \/ env[o] = "gone" /\ ReleaseRows(o)
  /\ UNCHANGED <<env, tries, auto, why, step, cloud, putBack, budget>>

Reenqueued(o, n) ==
  /\ env[o] = "orphan"
  /\ env' = [env EXCEPT ![o] = "pending"]
  /\ tries' = [tries EXCEPT ![o] = 0]
  /\ auto' = [auto EXCEPT ![o] = n]
  /\ why' = [why EXCEPT ![o] = "none"]
  /\ putBack' = IF ledger[o] = "discarded" \/ step[o] = "discard"
                THEN putBack \cup {o} ELSE putBack
  /\ UNCHANGED <<ledger, header, shared, step, cloud>>

(* autoRecoverDueOrphans, on the same tick, after reconcileHeldRows.       *)
AutoRecover(o) ==
  /\ why[o] = "fk" /\ auto[o] < AutoCap
  /\ ~HasHeldRows(o)
  /\ Reenqueued(o, auto[o] + 1)
  /\ UNCHANGED budget

(* Sync Issues.                                                            *)
RetryOrphan(o) == Spend("user") /\ Reenqueued(o, 0)

DiscardEnvelope(o) ==
  /\ Spend("user")
  /\ env[o] \in {"pending", "orphan"} /\ step[o] = "idle"
  /\ env' = [env EXCEPT ![o] = "gone"]
  /\ UNCHANGED <<tries, auto, why, ledger, header, shared, step, cloud, putBack>>

-----------------------------------------------------------------------------
(* The rest of the business: other tills sell and receive, and the parent  *)
(* row reaches the cloud.                                                  *)
OtherTillSells ==
  /\ stock > 0
  /\ stock' = stock - 1
  /\ others' = others + 1
  /\ UNCHANGED <<outbox, step, cloudSales, parent, putBack, budget>>

Restock ==
  /\ Spend("restock")
  /\ stock' = stock + 1
  /\ UNCHANGED <<outbox, step, cloudSales, others, parent, putBack>>

ParentLands ==
  /\ ~parent
  /\ parent' = TRUE
  /\ UNCHANGED <<outbox, step, cloudSales, stock, others,
                 putBack, budget>>

AppStep ==
  \/ \E o \in Sales : Sell(o) \/ ChangeOrder(o)
  \/ EditShared

EnvelopeStep(o) ==
  \/ SendEnvelope(o) \/ CloudRecords(o) \/ MarkDone(o) \/ Release(o)
  \/ Orphan(o) \/ DiscardHeld(o) \/ FkDeferred(o)

SweepStep(o) == ResetStuck(o) \/ Reconcile(o) \/ AutoRecover(o)

UserStep(o) == RetryOrphan(o) \/ DiscardEnvelope(o)

Elsewhere == OtherTillSells \/ Restock \/ ParentLands

Next ==
  \/ AppStep
  \/ \E o \in Sales : \/ UploadLedger(o) \/ UploadHeader(o)
                      \/ EnvelopeStep(o) \/ OrphanUnsent(o) \/ AnswerLost(o)
                      \/ SweepStep(o) \/ UserStep(o)
  \/ UploadShared
  \/ AppKill
  \/ Elsewhere

Spec == Init /\ [][Next]_vars

(* Drains run to their end and the periodic tick comes again.  Nothing is  *)
(* assumed of the app, the user, the link or the other tills, nor is that  *)
(* the other rows of the outbox get through.                               *)
Fairness == \A o \in Sales : WF_vars(EnvelopeStep(o)) /\ WF_vars(SweepStep(o))

FairSpec == Spec /\ Fairness

-----------------------------------------------------------------------------
(* Type invariant. *)
TypeOK ==
  /\ env \in [Sales -> EnvStates]
  /\ tries \in [Sales -> Nat] /\ auto \in [Sales -> Nat]
  /\ why \in [Sales -> {"none", "refused", "fk", "unsent"}]
  /\ step \in [Sales -> Steps]
  /\ ledger \in [Sales -> RowStates] /\ header \in [Sales -> RowStates]
  /\ shared \in Shares
  /\ cloudSales \subseteq Sales
  /\ stock \in Nat /\ others \in Nat /\ parent \in BOOLEAN
  /\ putBack \subseteq Sales
  /\ budget \in [{"restock", "lost", "kills", "unsent", "user"} -> Nat]

(* No ledger row and no order header reaches the cloud unless the cloud    *)
(* has recorded the sale: a refused sale leaves nothing behind (#121) and  *)
(* its header is never resurrected (#149), however its envelope is retried *)
(* or recovered.  Only an envelope discarded by hand, which has no verdict,*)
(* lets its rows go.                                                       *)
NothingBeforeTheSale ==
  \A o \in Sales : "landed" \in {ledger[o], header[o]} => o \in cloudSales \/ env[o] = "gone"

(* A sale the cloud has recorded keeps its ledger rows: they are waiting,  *)
(* queued or uploaded, never thrown away with the held rows, however       *)
(* answers are lost, envelopes sent again and the app killed.  There are   *)
(* two exceptions.  The envelope was orphaned without being sent: the      *)
(* sweep takes every orphan for a refused sale, and an earlier sending had *)
(* recorded this one.  Or it was put back from the orphans after its rows  *)
(* had been given up, and recorded then.                                   *)
RecordedSaleKeepsItsRows ==
  \A o \in cloudSales : ledger[o] = "discarded" => why[o] = "unsent" \/ o \in putBack

(* Every recorded sale took its unit from the cloud's stock, once, however *)
(* often its envelope was sent: what is left and what all tills sold add   *)
(* up to what came in.  As the stock is never negative, nothing is sold    *)
(* that was not there.                                                     *)
EveryUnitOnce ==
  stock + others + Cardinality(cloudSales)
    = Stock + (MaxRestock - budget.restock)

(* The rows of a sale whose envelope was given up do not stay held behind  *)
(* it, also when the app is killed between the refusal and the discard, or *)
(* nothing was ever said of the envelope: they are thrown away or let go,  *)
(* unless it is put back and confirmed before (then see the next property).*)
OrphanRowsSettled ==
  \A o \in Sales : (env[o] = "orphan") ~> (~HasHeldRows(o) \/ env[o] = "done")

(* The rows of a sale whose envelope was confirmed do not stay held: a     *)
(* crash before their release is recovered by reconcileHeldRows, as its    *)
(* doc comment and those of its callers say.                               *)
ConfirmedRowsReleased == \A o \in Sales : (env[o] = "done") ~> ~HasHeldRows(o)

=============================================================================
