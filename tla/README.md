# Verification of Reebaplus POS

Reebaplus POS is an offline-first point of sale: a Flutter app on every phone of a
business, with a local SQLite database (Drift), and a Supabase (PostgreSQL) cloud that
the phones share. Every sale, return and edit is written to the local database first and
reaches the cloud later, through an *outbox*; beside the database the cloud runs a handful
of *edge functions* that talk to Google Play, to Firebase, to a mail service and to the
storage buckets. This directory holds TLA+ models of the sync core and of the edge
functions, TLC configurations that check them on small instances, and TLAPS proofs of what
matters most for instances of every size. Paths below are relative to `src/`; the most
used files are abbreviated

| | |
|---|---|
| DAO | `lib/core/database/daos_sync_diagnostics.dart` (`SyncDao`) |
| SVC | `lib/core/services/supabase_sync_service.dart` (`SupabaseSyncService`) |
| ORD | `lib/core/database/daos_orders.dart` (`OrdersDao`) |
| ADJ | `lib/core/database/daos_sale_adjustments.dart` |
| UI  | `lib/features/sync/screens/sync_issues_screen.dart` |
| FN  | `supabase/functions/` |
| SQL | `supabase/migrations/` |

## 1. Inventory

### 1.1 Components of the core

**Outbox of a phone** (DAO, SVC `pushPending`, UI).
*State*: table `sync_queue` (action, payload, status, attempts, `next_attempt_at`,
`held_by_order`, `is_synced`, `auto_retry_count`), table `sync_queue_orphans`, the flag
`_pushing`, and what each running call of `pushPending` holds in memory: the rows it has
read, the group it has marked `syncing`, the chunk it has sent.
*Operations*: `enqueueUpsert` (refreshes a pending row of the same key in place),
`enqueueDelete` (completes pending upserts, queues a tombstone), `pushPending` (read due
rows, group them by action in foreign-key order, mark a group in progress, push it in
chunks), `markDoneBatch`, `markFailed` (backoff, orphan on a permanent error or on the
foreign-key cap), `resetStuckInProgress`, `clearFailureBackoff`, `autoRecoverDueOrphans`,
and the Retry and Discard buttons.
*Hard*: `pushPending` can run more than once at a time (only the automatic path looks at
`_pushing`); edits arrive between any two awaits of a drain; a call that times out is not
cancelled and may land later; the app can be killed anywhere; a partial unique index makes
flips back to `pending` throw.
*Correct when*: the last edit of a row is uploaded or visibly accounted for; there is at
most one pending row per key and action; no row waits for ever.

**Guarded sales** (ORD `createOrder` and `_enqueueFullOrder`, DAO holds, SVC
`_pushDomainItems`, SQL `pos_record_sale_v2`).
*State*: one domain envelope per sale in the outbox, the sale's other rows held behind it
(`held_by_order`), the cloud's stock and recorded orders.
*Operations*: sell (envelope plus held rows), change an order, send the envelope, the
cloud's verdict (record, replay, oversold, missing parent), mark done, release or discard
the held rows, `reconcileHeldRows` on the periodic tick, Retry and Discard.
*Hard*: the answer may be lost after the sale was recorded; the verdict and the
release are two transactions; the envelope can be orphaned, also unsent, and recovered.
*Correct when*: nothing of a refused sale reaches the cloud, nothing of a recorded one is
thrown away, the tills never sell more than there is, and held rows are settled.

**Reversals of a sale** (ORD `markCancelled`, ADJ `returnPartOfSale`, the SQL functions
`pos_claim_order_reversal` and `pos_claim_sale_adjustment`, DAO `undoRejectedReversal`).
*State*: on a phone the claim envelope, the rows held behind it, the pending order header,
the local order; in the cloud the header, `order_reversals` and `sale_adjustment_claims`.
*Operations*: cancel, return units, change the order otherwise, send the claim, the
judgement under the order's row lock, release, undo, sweep, pull.
*Hard*: phones reverse the same sale offline; a claim is sent again after its answer is
lost or the phone is killed half way through an undo.
*Correct when*: the first reversal wins (ADR 0032), a unit is refunded once, the loser
withdraws whole, the winner never does.

**Play subscriptions** (FN `play-billing-verify`, SQL 0234 and 0235).
*State*: the purchases at Google, the notifications Pub/Sub still delivers, the purchases
queued on a phone, `play_subscription_purchases`, the plan, end date and billing issue of a
business, the stamp of what Play last wrote, and what each invocation has fetched and read.
*Operations*: the app's verify call, a real-time notification, binding a replacement token,
acknowledging, the upsert, marking the replaced token, `apply_play_purchase`; at Google the
purchase, the switch (at once, pending, deferred), renewal, hold, cancel and refund; an
admin's grant.
*Hard*: five awaits between Google's answer and the plan, no version on an answer, one
purchase replacing another while both are being notified, deliveries repeated and failed.
*Correct when*: a shop has the plan it pays for and no other, only the shop a purchase was
made for gets it, an admin's grant is not taken away, and what is paid is acknowledged.

**Shared barcode photo** (FN `share-barcode-photo`, SQL 0182, ADR 0029).
*State*: products with their photos, requests, one barcode's objects in the bucket, its row,
the block list, the operator's place in the runbook, the invocations.
*Operations*: saving and dropping products, the trigger, the walk over the candidates
(upload, adopt, clear, insert, verify, remove a stray copy), the runbook's four steps.
*Hard*: two invocations for two shops, storage and database without a common transaction,
invocations that die half-way, an operator who works beside them.
*Correct when*: the row always has the photo it names, a blocked photo is never shared, one
photo wins and nothing else is left.

**Removal of a login** (FN `reconcile-account-deletions`, SQL 0125 and 0229).
*State*: logins, who owns and who works in which business, deletion events, posted
requests, the invocations.
*Operations*: deleting a business or a Shopper account, founding and joining one, the
single-event call, the batch of the cron job, two lookups, `deleteUser`, the stamps.
*Hard*: a login is looked up and deleted in three awaits while its owner may found, join or
own another business; the trigger's call and the cron's meet on one event.
*Correct when*: a login somebody uses stays, one nobody uses goes, every event is settled.

**Push and mail** (FN `send-push`, `send-email`, `send-invite-email`, the phones'
`device_registry_service.dart`, SQL 0159, 0200, 0218).
*State*: who uses which phone and as what, its token, the `devices` table, writes under way,
the alerts and the invocation of each.
*Operations*: sign in and out, token refresh, reconnection, writes that land late or never,
raising an alert (push or mail), reading tokens, sending, pruning, stamping.
*Hard*: the phones' writes are not awaited, ordered or repeated; phones change hands; a
token is known to be dead only after a message was spent on it.
*Correct when*: an alert reaches the person who holds the phone and nobody else.

### 1.2 How they interact

Every DAO of the app writes its local rows and calls the outbox in one transaction. Sales
and reversals are clients of the outbox that put an envelope in it and hold their other
rows; the drain pushes envelopes before rows and settles the holds by the cloud's answer.
The periodic tick (30 s, SVC `_periodicSafetyNetTick`) sweeps stuck rows, reconciles held
rows, recovers orphans, starts a drain and pulls. Pull and realtime write cloud rows into
the local database and consult the outbox (`pendingRowIds`) so that they do not overwrite
what still has to be uploaded.

The edge functions share no state with the outbox. `apply_play_purchase` writes the plan
that the phones pull; `delete_business` removes a business and leaves its owner's login to
the removal function; a shared photo is requested by a trigger of the `products` that the
outbox uploads; alerts are posted by triggers of the tables that the console, the shops and
the Shoppers write.

### 1.3 Other parts

| Part | Where | State of the work |
|---|---|---|
| Pull, realtime restore, cursor, hard-delete reconcile | SVC `pullChanges`, `_restoreTableData` | planned, first |
| FIFO draw-down and cost layers | `lib/core/costing/`, `daos_costing.dart` | planned |
| Allocation of a return over the sale's lines | `lib/core/orders/sale_return_allocation.dart` | planned with it |
| Online orders: answer against cancel | `lib/core/online_orders/`, `daos_online_orders.dart` | planned |
| Sign-in, teardown, business wipe | `auth_service.dart`, `device_teardown.dart` | planned |
| Van trips, crates, payroll | `daos_van_sales.dart`, `daos_crates.dart`, `daos_payroll*.dart` | later |
| Inventory, credit ledger, stores, day close | the DAOs of those names | not modelled: single-phone record keeping whose delivery is the outbox's |
| Catalogue, suppliers, expenses, reports, permissions | the DAOs of those names | not modelled: no protocol of their own |
| Cart and checkout view state | `lib/shared/services/` | not modelled: single-threaded |
| Photos on the phone, barcode lookups, printing, widgets | `lib/features/`, `lib/shared/` | not modelled: input and output |

`PROJECT.json` lists every part with the files it stands for, and every hazard with its
line and the properties that cover it.

## 2. Plan

The order is by importance to the user's data. Each module is parameterised by CONSTANTS
with named assumptions, has one action per operation and no RECURSIVE operator, so that it
can be proved about.

1. `SyncOutbox`: the outbox, its drains and faults. **Done.**
2. `HeldSale`: guarded sales over the outbox. **Done.**
3. `FirstReversal`, `ReversalRace`: the abstract promise and its implementation by phones,
   drains and SQL functions. **Done.**
4. `PlayBilling`, `SharePhoto`, `LoginReconcile`, `PushDelivery`: the edge functions.
   **Done.**
5. `SyncOutboxProofs`, `HeldSaleProofs`, `ReversalRaceProofs`, `PlayBillingProofs`,
   `PlayPlanProofs`, `SharePhotoProofs`, `LoginReconcileProofs`, `PushDeliveryProofs`.
   **Done**: every invariant the passing runs check is a theorem (section 6).
6. `PullRestore`: pull, realtime and the last-writer-wins guard against concurrent edits of
   the phone (safety), and what the pull cursor makes of rows that change in the cloud
   while a pull runs (convergence).
7. `CostLayers`: draw-down and return allocation as folds, checked against a reference
   definition over bounded inputs; sales, returns and receipts over one product's layers.
8. `OnlineOrder`: the shop's answer against the shopper's cancel. `WipeGate`: a business
   wipe against an outbox with un-pushed rows.
9. Proofs of the modules 6 to 8 as they are written. Of `NoFreePlan`, a shop that switches
   more than once: section 6 says what stands in the way.

## 3. The modules and the code

### 3.1 `SyncOutbox`

| TLA+ | Code |
|---|---|
| `queue`, `orphans` | tables `sync_queue`, `sync_queue_orphans` |
| `drain[d]` | locals of one call of `pushPending`: rows read (`todo`), rest of the group marked in progress (`cur`), chunk sent (`chunk`), where it awaits (`phase`) |
| `late` | chunks given up on a timeout or a kill that are still under way |
| `latest`, `deleted` | the local rows |
| `cloud` | the cloud rows |
| `confirmed`, `dropped`, `exposed` | history: edits the cloud applied, edits the user discarded, keys that went through a loss window |
| `Edit`, `Delete` | `enqueueUpsert`, `enqueueDelete` (DAO 883-1103) |
| `DrainStart`, `MarkGroup`, `SendChunk`, `ChunkDone`, `DrainEnd` | `pushPending` (SVC 829-1310), cut at its awaits |
| `CloudApplies`, `LateLanding` | the upsert or delete statement in PostgreSQL, external |
| `ChunkTimeout`, `ChunkError`, `ChunkFkRejected`, `ChunkRefused`, `FailChunk` | its handlers and `markFailed` (DAO 323-401) |
| `ResetStuck(cut)` | `resetStuckInProgress` (DAO 473-545); `cut` is the age cutoff |
| `AutoRecover`, `RetryOrphan`, `Reenqueue`, `DiscardOrphan`, `DiscardRow`, `RetryRow`, `BackoffOver` | orphan recovery, Sync Issues, backoff |

The interleaving is that of the code: a drain works on what it read earlier, by row id,
whatever the rows have become. A `markFailed` that meets the unique index raises out of
`pushPending`: `FailChunk` handles an arbitrary part of the rows whose flip succeeds and
ends the drain. Abstracted: payloads are edit numbers; a chunk is any non-empty subset of
the group (the adaptive size only chooses which); backoff is the flag `due`; the answers
that differ only in wording are one action each (a decode error is `ChunkError`, a row of
another user or business is `ChunkRefused`). A key is not edited after its delete: the DAOs
mint a new UUID for a new row. Held rows and domain envelopes are in `HeldSale`.

### 3.2 `HeldSale`

`env[o]` is the envelope's place in the outbox, `step[o]` how far `_pushDomainItems` is
with it, `ledger[o]`, `header[o]` and `shared` are the rows held or queued, `cloudSales`
and `stock` the cloud. `Sell` is `createOrder` on the v2 path, `ChangeOrder` is
`saleEnvelopeState` followed by `_enqueueFullOrder`, `CloudRecords` is
`pos_record_sale_v2`, `OrphanUnsent` the guards before its call (SVC 1478-1516: an envelope
another login has queued is orphaned without asking the cloud), `Release` and `DiscardHeld`
are the two settlements, `Reconcile` is `reconcileHeldRows`, `AutoRecover` is
`autoRecoverDueOrphans` on the same tick after it. Each sale sells one unit of one product;
prices, wallets and crates are in the payload. `Dependent` are the sales whose envelope
refers to a row (a new customer) that the cloud may not have yet. `shared` is a row that
outlives the sale and that other edits coalesce with (a cost layer): it is held only if the
sale inserted it, and the model keeps who holds it, not what it carries. `others` and
`putBack` are history: units sold elsewhere, and envelopes put back from the orphans after
their rows had been given up. One drain at a time has an envelope in hand: that a
second `pushPending` (the Sync Issues buttons start one) read it before the first marked it is
left out, here and in `ReversalRace`. `callRpc` has no client timeout, unlike the upserts of a
chunk, so an answer is lost before or after the cloud's judgement (`AnswerLost`, `AppKill`)
and no judgement comes later than that; a row a kill left behind waits five minutes.

### 3.3 `FirstReversal` and `ReversalRace`

`FirstReversal` states the promise of ADR 0032 and ADR 0035 with four sets: accepted,
landed and withdrawn reversals and the units returned. `ReversalRace` is the protocol:
`claim[r]`, `call[r]` and `rows[r]` are the claim envelope, the drain's progress with it
and the rows held behind it; `header[p]`, `local[p]`, `known[p]` are phone p's pending
header, its order and the reversals in its database; `status`, `claims`, `returned` are the
cloud. `Cancel` and `Return` are the two ways to reverse with the checks made on the phone,
`CloudClaims` the two SQL functions under the order's lock, `Sticky` the trigger that keeps
a cancelled header cancelled, `Undo` is `undoRejectedReversal` with the cloud's status from
the refusal's DETAIL, `Reconcile` the sweep (which treats a claim differently from a sale
envelope). `Pull` and the upload of a row that is not held are one step each.

### 3.4 `PlayBilling`

| TLA+ | Code |
|---|---|
| `google`, `rtdn`, `queued` | external: Play's purchases, Pub/Sub, the purchase queue Play keeps on the phone |
| `rows`, `biz`, `stamp` | `play_subscription_purchases`, `businesses`, `play_applied_entitlements` |
| `calls[c]` | locals of one invocation: Google's answer `v`, the row read before (`prior`) |
| `ParseSubscriptionV2`, `DecideApply`, `EarlyLapse`, `NeedsAcknowledge`, ... | the pure functions of `play.ts` |
| `BeginVerify`, `BeginRtdn`, `FetchPurchase`, `BindUnknownToken` | `handleAppVerify`, `handleRtdn` up to the binding of the token |
| `AcknowledgeAndReadPrior`, `UpsertRow`, `SupersedeOld`, `ApplyAndAnswer` | the awaits of `acknowledge` and `persistAndApply` |
| `ApplyPlayPurchase`, `Applied`, `ManualGrant`, `OtherEntitled` | `apply_play_purchase` and its helpers (SQL 0235), one transaction |
| `Lookup` | a lookup whose error the code ignores (`index.ts` 195, 237, 252) |
| `CallFails`, and `lost` in `ApplyAndAnswer` | a throw, a time-out or a dead instance; a lost answer |
| `Purchase`, `SwitchTo`, `PendingSettles`, `PeriodEnds`, `Cancel`, `Revoke`, `Tick` | external: what Google may do with a purchase |

`seen`, `crossed` and `granted` are history. `crossed` becomes true when an invocation
writes or applies an answer that was overtaken: a newer one was written or dropped since it
was fetched, the row is another shop's by now (an untagged purchase that two shops of one
phone post), or a replacement of the purchase, at once or by way of others (`Later`), was
recorded without its knowing. The code has nothing to tell such an answer by, and what
follows from it is not promised by anybody. `crossed` also records a dropped notification.
Most awaits that fail end in a 500 and a redelivery, but three lookups take `data` and ignore
`error`, so that a failed one reads as no row (`Lookup`, paid from the faults): a token that is
in use passes as free, and a notification of a recorded purchase, or of the replacement of
one, is answered 200 as of an unknown token and never comes again.

### 3.5 `SharePhoto`

Each await of `shareFirstUnblocked` is an action named for it; `calls[c].phase` says which
one is next. `objects` is the bucket, by content type (one object name per type), `row` the
barcode's row, `BlockPhoto`, `DeleteRow`, `DeleteObject`, `Promote` the runbook's steps, of
which the third may be forgotten. `RemoveShared` removes by name, whatever is there.
`known`, `asked`, `overlap` and `unserved` are history: what was blocked when a request
began, for whom it was, whether an object was removed from under somebody, and whose request
was lost.

### 3.6 `LoginReconcile`

`logins` is `auth.users`, `owner` and `member` are what refers to a login, `events` the
table `account_deletion_events`. `StartSingle` and `StartBatch` are the two entries of the
function, the actions from `LookUpBusinesses` to `Stamp` the awaits of `processEvent`,
`StepFails`, `lost` and `CallDies` its failures. `DeleteLogin` cascades to what the foreign
keys of the login cascade to. `cut` (history) collects logins that were removed although
somebody used them, unless the use began after the invocation's lookups (`unseen`): that
window is the code's, between two calls of different services.

### 3.7 `PushDelivery`

`session` and `serial` are the phones, `rows` the `devices` table under its two kinds of
name (phone and business, phone and Shopper), `writes` the phones' writes under way.
`Written` is what the table and its triggers make of a write (one row per token, the server
stamps the login). `Raise` is the trigger's choice between push and mail, `ReadTokens`,
`Send`, `SendFails`, `Prune`, `PruneFails` and `Stamp` the awaits of `send-push`,
`MailUpdate` and `MailInvite` the two mail functions. `landed`, `pruned`, `steady` and
`known` are history: which writes of the present session have landed, which tokens were
found dead, which phones stayed registered since an alert was raised.

The `MC...` modules give the constants of the instances.

## 4. Runs

All runs say CHECK_DEADLOCK FALSE: with nothing queued, no fault left and no one editing,
the modelled system is at rest, and that is its normal state.

| Run | Question | Result |
|---|---|---|
| `outbox_safe` | one key, two drains at once, three edits, deletes or re-enqueues, one fault | `TypeOK`, `OnePendingPerKey`, `EditAccounted` hold |
| `outbox_live` | an order and its line behind a foreign key, one drain, two edits, one fault | `RowsResolve` holds, and `EditAccounted` on the foreign-key path |
| `outbox_lost_edit` | is the outbox sacred as Invariant 12 says? | `OutboxSacred` violated |
| `held` | one sale, one unit, a parent that arrives late, two restocks, two lost answers, a kill, an envelope given up unsent, two buttons | `TypeOK`, `NothingBeforeTheSale`, `RecordedSaleKeepsItsRows`, `EveryUnitOnce`, `OrphanRowsSettled` hold |
| `held_stranded` | are the rows of a confirmed sale released, also after a crash? | `ConfirmedRowsReleased` violated |
| `reversal_safe` | two phones, two cancels, two part returns, one fault, one other change of the order, one retry, one discard | `TypeOK`, `NoUnitRefundedTwice`, `UnitsAddUp`, `ClaimedBeforeLanding`, `WinnerKeepsRows`, `ImplementsFirstReversal` hold |
| `reversal_live` | two cancels and a part return of an order that is not in the cloud yet | `ReversalsSettle`, `PhonesAgree` hold |
| `billing` | a purchase and a switch, two invocations, three events of Google, the admin or the clock, one failure of a call or a lookup | `TypeOK`, `PaidIsAcknowledged`, `BoundToAccount`, `PaidPlanStands`, `NoFreePlan`, `GrantKept` hold |
| `billing_early_lapse` | does a shop that has paid for a switch keep a plan? | `EarlyLapseHeld` violated |
| `share` | three products of one barcode, photos of two types, two invocations, two failures, one removal | `TypeOK`, `RowHasItsPhoto`, `BlockedNeverShared`, `SharedInTheEnd`, `NoStrayCopy` hold |
| `login` | an owner of one or two businesses, a Shopper, two invocations, one fault, a login that cannot be deleted | `TypeOK`, `LoginInUseKept`, `DeletedMeansGone`, `OrphanedLoginRemoved`, `EventsResolve` hold |
| `push` | two phones, one person of each of two businesses, three moves, two writes under way, up to two alerts, one fault | `TypeOK`, `RoutesToHolder`, `AlertArrives`, `MailAfterDeadToken` hold |

### What the properties say

*Outbox.* `EditAccounted`: the last edit of every row was applied by the cloud, discarded by
the user, shown as an orphan, or is carried by a row that still drains, except for keys in
`exposed`, which records the two ways the code loses an edit: an edit coalesced into a row a
drain already has in memory (or into a pending row flagged as synced), and a sweep of stuck
rows that keeps an older payload (a re-enqueued orphan has a new date and an old payload).
That there is no third way is what the run shows. `OnePendingPerKey`: the sweep and the
enqueues never make a second pending row, which the unique index would turn into an
exception. `RowsResolve`: no failure, kill or twin leaves a row stuck.

*Guarded sales.* `NothingBeforeTheSale` (a refused sale leaves nothing behind and its header
is not resurrected; the exception is an envelope the user discarded). `RecordedSaleKeepsItsRows`:
a sale the cloud has recorded loses its rows in two windows only. The drain orphans an envelope
of another login unsent, and the sweep takes every orphan for a refused sale, although an
earlier sending was recorded and its answer lost; or an orphaned envelope is put back into the
queue, by the tick or by Retry, after its rows were given up, and is recorded then (`putBack`).
`EveryUnitOnce`: stock left and units sold add up to what came in: no oversell, and a replay
takes no stock. `OrphanRowsSettled`: nothing stays held behind an envelope that was given up,
also when the app is killed between the orphan move and the discard. That nothing stays held
behind a confirmed one, `ConfirmedRowsReleased`, is what the doc comments promise, and false.

*Reversals.* `NoUnitRefundedTwice`, `UnitsAddUp` (the units counted as
returned are those of the accepted part returns, each once: a repeated claim adds nothing),
`ClaimedBeforeLanding`, `WinnerKeepsRows` (however often answers are lost, an accepted
reversal is never undone), `ReversalsSettle`, `PhonesAgree`, and that the whole race
implements `FirstReversal`, under the mapping that takes a reversal as landed when its rows
are in the cloud and its claim was not discarded by the user.

*Billing.* `PaidPlanStands` and `NoFreePlan` compare the plan with Google when all is quiet:
whatever two invocations, repeated deliveries and dead instances did, a shop that pays has
its plan, end date and billing issue, and one that does not has none; the exceptions are an
admin's grant, an overtaken answer or a dropped notification (`crossed`) and, for the issue alone, the answer about a
switch whose payment came to nothing, which clears it (`IssueCleared`). `PaidPlanStands`
speaks of shops whose purchases replaced one another (`OneLine`), `NoFreePlan` of those that
tried one switch at most (`OneSwitch`): every shop of the run is one, and section 7 says what
the code does with others. `BoundToAccount`: no path binds a purchase to another shop. `PaidIsAcknowledged`: Google takes a purchase back after three days
otherwise; where an answer was overtaken or a notification dropped it speaks only of purchases whose row says they run. `GrantKept`: a lapse never takes an admin's plan away.

*Shared photo.* `RowHasItsPhoto`: the row's hash, which the removal blocks, is that of the
photo people see. `BlockedNeverShared`: a photo blocked before a request began is not shared
by it, by upload or by adoption. `SharedInTheEnd`: when all is quiet and the barcode has
no photo, no product has one that could be shared, but for those whose request was lost or
whose call died or gave way (`unserved`). `NoStrayCopy`: without failures no object is left
but the row's.

*Logins.* `LoginInUseKept` (the incident the function was rewritten for), `DeletedMeansGone`,
and two liveness properties: an orphaned login does not linger, and every event that can be
settled is.

*Push.* `RoutesToHolder`: whatever was written by whom before, a phone whose session has
registered is found by that session's alerts and by nobody else's. `AlertArrives`: an
invocation without a fault has shown its alert on every such phone. `MailAfterDeadToken`: a
dead token costs a Shopper one update at most.

### Bounds, and why they are enough

*Outbox.* `MaxClock` = 3 lets one key be edited while an earlier edit is in a drain's memory
and again while that one is queued, or be deleted, or be re-enqueued from an orphan: the
longest chains in which a pending row, a stuck row and a row in memory of one key meet.
Three queue slots hold those three; slots of completed rows are reused. Two drains is what
it takes for one to complete or fail what the other holds. One fault (a timeout, an error, a
refusal, a kill, a tap) is enough to leave a row stuck, late or orphaned; orphaning on the
foreign-key cap and discards need no fault. `outbox_live` has the two keys a foreign key
needs. `FkCap` = 3 and `AutoCap` = 1 are reached in it.

*Guarded sales.* One unit, which the sale competes for with the other tills: they may take it
before or between two sendings, and a restock makes a refused sale win on a retry. The parent
is missing at first, so that the envelope is refused for it until the cap (`FkCap` = 3),
orphaned, swept and put back, twice (`AutoCap` = 2). Two lost answers allow a recorded sale to
be sent again and again to be lost; one of them, an envelope given up unsent and a sweep are
the first window of `RecordedSaleKeepsItsRows`. A kill falls between any two steps, and two
buttons retry and then discard. The run has one sale, since a sale's rows depend on its own
envelope and meet the others only in the stock and in the shared row; the theorems have any
number, and the second sale is the other till of this run. `held_stranded` needs none of the
faults but the kill.

*Reversals.* Two cancels and part returns of one and two units out of two give every
conflict: cancel against cancel, cancel against return, returns that fit and returns that
exceed. One fault lets one claim be repeated or half undone; one retry and one discard each
let the user interfere once.

*Billing.* Two tokens, the second replacing the first, are what a switch needs, and two
invocations what an interleaving needs. Three events reach a purchase, its switch and a
refund, a renewal, a hold, a grant or the passing of the end date; a period is one tick. A
second shop on the same phone posts the same tokens.

*Shared photo.* Three products with photos of two object names, one without a usable address
and one photo that is too large: collisions on one name, races of two names, skips. Three
saves or drops, two failures (one may be the forgotten step of the runbook) and one removal
leave an orphan, block it and race for it again.

*Logins.* One or two businesses of one owner, a Shopper who may found or join, three events
(one of them old, without a login), a batch of two: fewer permanently failing events than
the batch takes, which `EventsResolve` needs (section 7).

*Push.* One Android phone and one iPhone, which get different channels; three moves let a
phone be signed out, taken over and refreshed; two writes under way can land in either
order; the scripts are an update after an update, an update after a broadcast that prunes, a
targeted alert and an invitation.

Symmetry is used for queue slots and invocations, only in runs without liveness
properties.

## 5. Fairness

Fairness is stated only of the program: a drain that runs goes on (its awaits return or time
out, SVC 1194), the watcher, the 30 s timer and the connectivity listener start drains
(SVC 4140-4278), time passes so that backoffs run out and stuck rows grow older than the
cutoff, the tick sweeps, recovers and pulls. All of it is weak fairness. In `HeldSale` it is
only that of a sale's drain (`EnvelopeStep`) and of the tick (`SweepStep`), and not that the
other rows get through. Nothing is assumed
of edits, buttons, lost answers, kills, the other tills or the parent's arrival; the number
of faults is bounded, which says that the link and the app are eventually up for long
enough. In `SyncOutbox` only the automatic drain is forced to start.

Of the edge functions only `LoginReconcile` is asked what must happen. The runtime finishes
the invocations it has started (`WF_vars(Step(c))`) and the cron job comes again
(`WF_vars(StartBatch)`, the schedule of every 15 minutes); nothing is assumed of the
trigger's request, which pg_net posts once, or of the owners. `PlayBilling` states what
Pub/Sub and the runtime guarantee; its passing run asks for safety only, and its
counterexample is a single step that undoes the plan, not a behaviour that stops.
`SharePhoto` and `PushDelivery` state no fairness: nothing in them is repeated.

## 6. Proofs

`tlapm` checks the eight proof modules from nothing. The constants need only
`ConstantsAssumption` of the module (kinds and non-emptiness; the caps at least one) and,
in `SyncOutbox` and `ReversalRace`, that the value standing for an empty slot is no row (`NoRowAssumption`,
`NoHeaderAssumption`). The number of keys, rows, drains, phones, reversals, units, tokens,
photos, logins and invocations and all bounds are arbitrary.

**`SyncOutboxProofs`.** `TypeCorrect` is `Spec => []TypeOK`. `NoPendingTwins` is
`Spec => []OnePendingPerKey`. That property is not inductive: a drain that fails a chunk
flips several rows at once, and the model's guard only compares each with the rows that are
pending already; two rows of one chunk with the same key would become twins. So `Inv` adds
that a drain never holds two rows of one key and action (`OneItemPerKey`), which holds
because it read them while they were pending, and stays true because what it holds still
names the rows it read (`ItemsMatch`: slots are not reused while a drain holds them). The
sweep keeps of several stuck rows the newest, which is one row only if creation times differ
(`AtsDiffer`). A delete may meet no pending delete of its key (`DeletesKnown`: delete rows
are only of deleted keys, and those are not deleted again). `FlipsSafe` is the core: flipping
a set of rows is safe when none has a pending twin and no two are twins of each other; one
lemma per kind of step brings each action under it.

`EditsAreAccounted` is `Spec => []EditAccounted`, that there is no third way to lose an edit.
`AccInv` adds what it rests on: what a drain sends of a row is what the row still carries,
unless its key is in `exposed` (`ItemVersions`); a row that is completed, or whose chunk was
applied, has its edit in `confirmed` (`AppliedConfirmed`); and nothing carries an edit later
than the last (`VersionsBounded`). The sweep is the hard step: it may drop the row with the
last edit, but then a row of that key is left that is pending or the newest of the stuck ones,
and either carries the last edit or the key is exposed. That there is a newest row is a fact
about finite sets of numbers that wants induction; `HasGreatest` gets it from the pigeonhole
theorem of the library instead.

**`HeldSaleProofs`.** `TypeCorrect`, `NothingLandsEarly` (`NothingBeforeTheSale`),
`RecordedKeepsRows` (`RecordedSaleKeepsItsRows`) and `UnitsAreCounted` (`EveryUnitOnce`), for
any number of sales, caps, lost answers, kills, unsent envelopes and buttons. Neither of the
first two safety properties is inductive, because rows follow a verdict that was given several
awaits ago. `Inv` follows the envelope: while it is being judged its row is `syncing`
(`StageOK`); a confirmation means that the cloud has the sale, and a refusal that it has not;
nor has it the sale of an orphan, unless it was orphaned unsent (`VerdictTrue`: an orphan's
sale cannot be recorded behind its back, since one drain at a time has the envelope). Rows go
free behind a confirmed or a discarded envelope (`RowsFollowVerdict`) and are thrown away
behind an orphan, which stays one unless it is put back (`DiscardFollowsOrphan`).

**`ReversalRaceProofs`.** `RefundedOnce`, `LandedWasClaimed`, `WinnerIsKept` and
`FirstReversalWins` (`Spec => First!Spec`) rest on one inductive invariant: a claim in the
drain is marked so in the queue (`InFlight`), a phone believes a claim won only when the
cloud holds it (`AcceptedStanding`), rows leave their hold only behind a confirmed or
discarded claim (`RowsFollowClaim`), and a reversal that is being undone was refused *and
would be refused again* (`RefusedForGood`). The last is the heart: without it a lost answer
and a retry could accept a reversal whose phone has undone it. It holds because the cloud's
claims, returned units and cancelled status only grow (`CloudOnlyGrows`), hence a refusal is
final (`RefusalIsFinal`); that in turn needs that no queued header can make a landed order
absent (`HeadersPresent`). `RefundsAddUp` is `UnitsAddUp`: an accepted claim is never accepted
again, so the sum grows by exactly its units, a set disjoint from those counted before.

**`LoginReconcileProofs`.** `TypeCorrect`, `UsedLoginKept` (`LoginInUseKept`) and
`DeletedIsGone` (`DeletedMeansGone`). The invariant says what an invocation may still rely
on between its awaits (`CallOK`): after the first lookup whatever the login owns is its own
workplace, which the second lookup sees; after the second nobody it could have known of uses
the login; after the deletion the login is gone. Every step of another actor either takes
things away (`Shrinks`, under which all of that survives) or founds or joins a business,
which marks the invocation as not having seen it.

**`SharePhotoProofs`.** `TypeCorrect`, `BlockedStaysOut` (`BlockedNeverShared`) and
`RowIsSound` (`RowHasItsPhoto`). That the row has its photo is not inductive: it needs what
every call saw in the bucket to be there still (`CallSafe`). Between the operator's removals
and as long as none has met a call at work (`Calm`), nobody touches an object but to upload
where there is none, to remove a blocked one, or to remove one that is not the row's
(`Gentle`), and no such step disturbs what another call relies on. Blocking a photo ends the
calm, and it returns only if no call was at work and no photo had been promoted when the
object was deleted. `BlockedNeverShared` needs none of this: hashes are only ever added to
the block list, so what a call judges later includes what was blocked when it began.

`NoStrays` (`NoStrayCopy`) and `OneIsShared` (`SharedInTheEnd`) speak of quiet states, so their
invariants say who is still at work. `StrayInv`: without failures every object is the row's,
or is about to be removed by the operator, or belongs to a call that has uploaded it and has
yet to compare it with the row. `ServedInv`: while the barcode has no row and nothing was
removed from under a call, every product whose photo may be shared is asked for by a waiting
request or carried by a call, which has it still to look at or has in hand a photo that
it will share unless the row is taken.

**`PlayBillingProofs`.** `TypeCorrect`, `BoundToShop` (`BoundToAccount`) and `GrantIsKept`
(`GrantKept`). The invariant has the shapes of the line items of a purchase (one item, or
the holder of a deferred switch and the plan to come), from which every answer parses; that
every row, and every invocation that is past Google's answer, names the shop of the
purchase's tag if it has one (`Bound`); and that a grant is not of the free plan. `GrantKept` then follows from the one step that writes a plan
(`OnlyApplyWrites`) and the branches of `apply_play_purchase` (`ApplyKeepsGrant`).
`RunningIsAcknowledged` (`PaidIsAcknowledged`) has an invariant of its own, `AckInv`: a call
that has passed the acknowledgement, and a row that says the purchase runs, are of a purchase
that is acknowledged (`AckCall`, `AckRows`); and unless an answer was overtaken, a running
purchase that is not (`Due`) will be heard of: a notification waits, or a call will fetch or
has fetched its present version, or it has no row and its last notification was dropped
(`Heard`). When all is quiet only the last is left, and then the server does not know it.

**`PlayPlanProofs`.** `PaidPlanIsKept` (`PaidPlanStands`) and `NothingForFree`
(`NoFreePlan`): the plan follows what is paid for, for any number of shops, purchases and
invocations. Both properties speak of quiet states only, so their invariants say what is still
on its way while it is not quiet. The proofs first sum the system up: `Moved` is all that
Google may do to a purchase (`GoogleMoves`), the `...Effect` operators what each step of an
invocation does, and `StepIs` that there is nothing else. `LineInv`: a replacement is bought
while the purchase it replaces runs and ends it when it runs itself, and nothing is bought
along a circle of links. `TrueInv` is the common ground: calls and rows hold only what Google
once said, and the newest version of a purchase is written, waits in a notification, in a
phone's queue or in a call, or was dropped (`Awaited`, `SeenTrue`). `StampInv`: a plan that
is no admin's is what Play stamped last.

`PaidPlanStands` then rests on `StandsInv`: a running purchase is awaited or shown by its
shop. The step that applies an answer is the hard one: an answer about an earlier purchase of
the line counts as overtaken, one about a later purchase can only be of a failed switch, and
the newest one about the purchase itself is neither held (`NewestApplies`) nor taken for
weaker than a grant.

`NoFreePlan` rests on `FreeInv`: while a shop has a plan, the last purchase of its line that
was paid for (`Head`) is awaited or runs to the very end date of the plan, or, if Google has
ended it, its replacement is unknown to the server or its lapse is on the way *and will not
be held* (`WillLapse`). That nothing holds it is the heart, since an early lapse is held by
comparing dates. It takes how an end comes about (`OriginInv`): with its time, when every
answer the server can still hold is over too (`BoundInv`: no answer dates past the purchase);
by a refund, whose notification says so; or by a switch. And the shop keeps its plan for the
sake of another purchase only if that one still entitles it: not if it was replaced, since its
row is marked before the replacement is applied (`MarkInv`).

**`PushDeliveryProofs`.** `TypeCorrect`, `RoutedToHolder` (`RoutesToHolder`), `AlertsArrive`
(`AlertArrives`) and `MailAfterPrune` (`MailAfterDeadToken`). The table names a token once, on
a row of the phone it was issued to, and never one that was found dead (`TableOK`); what has
landed of the present session of a phone is still on its row (`PhoneOK`), because a write of
an earlier session carries an older token or another login, and can take nothing from the row
but what the present session has yet to write; and an invocation has read, tried or shown
what every phone that stayed registered is owed (`AlertOK`). Only an outdated token is ever
found dead, and it is never issued again, which makes the pruning safe against a refresh that
overtakes it.

**Model-checked only.** All liveness (`RowsResolve`, `OrphanRowsSettled`, `ReversalsSettle`, `PhonesAgree`, `OrphanedLoginRemoved`,
`EventsResolve`), which is out of the prover's reach, and nothing else: every invariant and
action property of a passing run is a theorem.

Looking for the invariants of `PlayPlanProofs` corrected the statement of the two properties,
which the run's instance could not tell apart from weaker ones: with three purchases in a
chain, with purchases that are not linked and with an untagged purchase posted by two shops,
TLC finds states of the code in which they fail. `crossed` now also records an answer
overtaken by a later replacement or by another shop, `OneLine` and `OneSwitch` name the shops
spoken of, and `IssueCleared`, which had let any other purchase clear the issue, is down to
the failed switch. Beyond one switch a stronger invariant does not help: `NoFreePlan` is
false there, of the code as of the model (section 7).

## 7. Findings

Each is a run that ends in a counterexample; `PROJECT.json` quotes the line it contradicts.

1. `outbox_lost_edit`: an edit made after a drain read its key's row and before the drain
   marks the row coalesces into that row; the drain uploads the old payload and completes
   the row by id. The edit is never uploaded.
2. `billing_early_lapse`: the lapse of a replaced token is held by comparing it with the
   stored row, but the row is overwritten by the very call that holds it. A second
   notification of the old token, before the replacement is recorded, finds the lapse as
   the prior state and applies it: a shop that has paid for a switch falls to free.
3. `held_stranded`: `reconcileHeldRows` skips envelopes that are in `sync_queue`, in any
   status, and a completed envelope stays there (nothing calls `purgeOldDoneItems`). A kill
   between `markDone` and `releaseHeldByOrder` leaves the rows of a recorded sale held for
   ever, on every later tick and sign-in. Three comments say that the sweep recovers them
   (DAO 149, SVC 1539 and 4209).

Observed while modelling, part of the models, and excluded by a history variable or by the
bounds of a run where they would violate a property:

- an upsert already `syncing` when its key is deleted is not completed by `enqueueDelete`;
  after a failure it is pushed again, behind the tombstone;
- an orphan or a stuck row re-pushed later puts the cloud row back to an older edit (rows
  carry no version); the foreign-key cap counts failures of every kind;
- the sweep takes every orphaned envelope for a refused sale (DAO 183). One orphaned on the
  foreign-key cap, or refused, loses its held rows to it; auto-recovered or retried it may then
  be recorded, without its ledger rows. One that another login had queued is orphaned unsent
  (SVC 1508); if an earlier sending was recorded and only its answer lost, the rows of a
  recorded sale are discarded and its envelope stays among the orphans;
- a cancel made while the order's header is already pending coalesces into that row, which
  is not held: the order is cancelled in the cloud although the claim is refused;
- discarding an envelope or a claim in Sync Issues lets the rows behind it go without a
  verdict; a row shared with an earlier change carries a sale's effect to the cloud early,
  and an unrelated edit of a row a sale holds is discarded with the sale (read off the code:
  the model keeps who holds the shared row, not what it carries);
- an answer of Google fetched before a renewal, a refund or a switch can be written and
  applied after the newer one; a notification of a token whose verify call is still under
  way is answered 200 and dropped;
- `handleRtdn` ignores the error of its two lookups (`index.ts` 237 and 252): when one fails, a
  notification of a recorded purchase, or of a switch away from one, is answered 200 as of an
  unknown token, where every other failure is answered 500 and redelivered. A renewal lost so
  leaves a paying shop without its plan, a refund leaves a plan nobody pays for, until Google
  has something else to say. `handleAppVerify` ignores the errors of its lookups too: a failed
  one of the owner is a 403 (192), a failed one of the token lets a verify call of a token in
  use go on (196);
- two drains that both read a sale's envelope send it twice: if the first is refused, so that the
  held rows are discarded, and stock arrives before the second is judged, the sale is recorded
  without its rows (not in the model, which has one drain per envelope);
- a purchase the verify call met on hold, whose recovery was notified before its row was
  written, stays unacknowledged: the notification is dropped as unknown;
- an answer about another token of the shop that entitles to nothing, such as a switch whose
  payment was cancelled, clears the billing issue of the purchase in its grace period
  (`0235_business_billing_issue.sql:239-253`);
- after a switch of a switch a shop can keep a plan nothing pays for, until the end date the
  first purchase had: an invocation about the second dies between its upsert and the marking of
  the first, the end of the third keeps the plan for the sake of the first, still entitled in
  its row, and the retry that marks it at last may not apply, being replaced itself;
- two paid purchases of one shop that do not replace each other overwrite each other's plan,
  and an untagged purchase that two shops of one phone post moves from one to the other and
  leaves the first with the plan;
- the second upload of `share-barcode-photo` that meets an object answers `already_shared`
  without asking for a row: if the call that put the object there then dies, nobody shares;
- two calls that clear one blocked orphan, and a late stray removal, remove by name and can
  take away the photo another call has just shared; so can the runbook's third step when a
  photo of the same name was promoted meanwhile;
- deletion events that fail for ever stay at the head of the batch: as many of them as the
  batch takes starve every later event;
- a business founded or joined between the last lookup and `deleteUser` goes with the login.

## 8. Reproducing

From this directory, `tlc -config outbox_safe.cfg MCSyncOutbox` and likewise for the other
runs (`outbox_*` with `MCSyncOutbox`, `held*` with `MCHeldSale`, `reversal_*` with
`MCReversalRace`, `billing*` with `MCPlayBilling`, `share` with `MCSharePhoto`, `login` with
`MCLoginReconcile`, `push` with `MCPushDelivery`), and `tlapm` on each `...Proofs.tla`.

`PROJECT.json` also names, for each property of each passing run, a variant of a mapped
definition that breaks it. The variants stand before the definitions they vary, each marked
as such and used nowhere in the specification.
