----------------------------- MODULE PlayBilling -----------------------------
(***************************************************************************)
(* Google Play subscriptions on the server: the edge function              *)
(* play-billing-verify (the app's verify call and Play's real-time         *)
(* notifications, RTDN), the rows of play_subscription_purchases and the   *)
(* plan that apply_play_purchase writes on the business.                   *)
(*                                                                         *)
(* Every await of the function is a step of its own, so that two calls, of *)
(* one token or of a token and its replacement, interleave at each of      *)
(* them.  Google is external: purchases, switches, renewals and refunds    *)
(* follow what the function and its comments expect of it.                 *)
(*                                                                         *)
(* Simplifications.  One base plan (monthly / yearly is not told apart).   *)
(* The columns nothing reads back (acknowledged, order, raw) are left out. *)
(* `active' is a plan other than "free".  Time is a small counter, 0 is    *)
(* the null date.  Requests that are refused before they read anything     *)
(* (no JWT, not the owner, malformed body, other notifications) have no    *)
(* effect and are left out.                                                *)
(***************************************************************************)
EXTENDS Naturals, FiniteSets

CONSTANTS
    Businesses,     \* shops
    Tokens,         \* purchase tokens
    Calls,          \* invocations of the function that can be in flight
    NoBusiness, NoToken,
    Account,        \* the business a purchase is tagged with, or NoBusiness
    Link,           \* the token a purchase replaces (plan switch), or NoToken
    FirstPlans,     \* plans that are bought first
    Period,         \* ticks a purchase pays for
    Grants,         \* bound: what an admin may give, <<shop, plan, end>> (end 0: none)
    MaxNow, MaxEvents, MaxFaults

Products == {"basic", "premium"}

ASSUME ConstantsAssumption ==
    /\ NoBusiness \notin Businesses /\ NoToken \notin Tokens
    /\ Account \in [Tokens -> Businesses \cup {NoBusiness}]
    /\ Link \in [Tokens -> Tokens \cup {NoToken}]
    /\ \A t \in Tokens : Link[t] # t
    /\ FirstPlans \subseteq Products
    /\ Period \in Nat \ {0} /\ Grants \subseteq Businesses \X Products \X (0..MaxNow)
    /\ MaxNow \in Nat \ {0} /\ {MaxEvents, MaxFaults} \subseteq Nat

VARIABLES
    google,     \* the purchases as Play knows them
    rtdn,       \* notifications Pub/Sub has still to get a 200 for
    queued,     \* purchases Play keeps queued on the phone, not being posted
    rows,       \* play_subscription_purchases, by token
    biz,        \* plan, end date and billing issue of each business
    stamp,      \* play_applied_entitlements: what Play last wrote
    calls,      \* the invocations in flight
    now,
    used,       \* how much of each bound is used up
    seen,       \* history: newest version of a token written or dropped
    crossed,    \* history: an overtaken answer was written or applied, or a
                \* notification of a recorded purchase was dropped
    granted     \* history: the plan was last set by an admin

vars == <<google, rtdn, queued, rows, biz, stamp, calls, now, used, seen, crossed, granted>>

\* Left out: PAUSED and UNSPECIFIED.  They entitle to nothing and raise no
\* issue, and no purchase of this model gets there.
PlayStates == {"PENDING", "ACTIVE", "IN_GRACE_PERIOD", "ON_HOLD", "CANCELED",
               "EXPIRED", "PENDING_PURCHASE_CANCELED"}
Time == 0..(MaxNow + 2 * Period)
LineItem == [product : Products, expiry : Time, owned : BOOLEAN, deferred : BOOLEAN]

\* Of the notification types the code tells only REVOKED (12) apart.  Two
\* waiting notifications of one token and type count as one.
RTDN_REVOKED == "revoked"
Types == {RTDN_REVOKED, "other"}
Told(t, type) == {[token |-> t, type |-> type]}
Notification == [token : Tokens, type : Types]

NoRow == [business |-> NoBusiness]
NoAnswer == [state |-> "none"]
NoPrior == [state |-> "none"]
NoStamp == [plan |-> "none"]
Idle == [phase |-> "idle"]

-----------------------------------------------------------------------------
(* play.ts *)

Latest(items) == CHOOSE i \in items : \A j \in items : j.expiry <= i.expiry

\* The item the shop owns now: the holder of a deferred switch, else an owned
\* one, else whatever is there.
ParseSubscriptionV2(p) ==
    LET holders == {i \in p.items : i.deferred}
        owned == {i \in p.items : i.owned}
        item == Latest(IF holders # {} THEN holders
                       ELSE IF owned # {} THEN owned ELSE p.items)
    IN  IF p.items = {} THEN NoAnswer
        ELSE [product |-> item.product, state |-> p.state, expiry |-> item.expiry]

\* Variant: a purchase first seen in its grace period is not acknowledged.
NeedsAcknowledgeActive(v, acked) == ~acked /\ v.state = "ACTIVE"

Acknowledgeable == {"ACTIVE", "IN_GRACE_PERIOD"}
NeedsAcknowledge(v, acked) == ~acked /\ v.state \in Acknowledgeable

IsEntitled(state, expiry) ==
    \/ state \in {"ACTIVE", "IN_GRACE_PERIOD"}
    \/ state = "CANCELED" /\ expiry > now

BillingIssueForState(state) ==
    CASE state = "IN_GRACE_PERIOD" -> "grace"
      [] state = "ON_HOLD" -> "hold"
      [] OTHER -> "none"

EarlyLapse(v, prior, type) ==
    /\ v.state = "EXPIRED" /\ type # RTDN_REVOKED
    /\ prior # NoPrior
    /\ prior.expiry > now
    /\ IsEntitled(prior.state, prior.expiry)

\* Variant: a refund is held like any other early lapse.
DecideHoldsRevokes(v, prior, type) ==
    /\ prior # NoPrior => prior.replacedBy = NoToken
    /\ ~EarlyLapse(v, prior, "none")

\* May a verified purchase change the plan?
DecideApply(v, prior, type) ==
    /\ prior # NoPrior => prior.replacedBy = NoToken
    /\ ~EarlyLapse(v, prior, type)

ReplacedToken(t) == Link[t]

BusinessForUnknownToken(t, linkedRow) ==
    IF linkedRow = NoRow \/ Account[t] \notin {NoBusiness, linkedRow.business}
    THEN NoBusiness ELSE linkedRow.business

-----------------------------------------------------------------------------
(* apply_play_purchase, one transaction under the lock of the business *)

RowsOf(b) == {t \in Tokens : rows[t] # NoRow /\ rows[t].business = b}

PlayWritten(b) ==
    \/ stamp[b] = [plan |-> biz[b].plan, end |-> biz[b].end]
    \/ \E t \in RowsOf(b) : /\ rows[t].expiry # 0 /\ rows[t].expiry = biz[b].end
                            /\ rows[t].product = biz[b].plan

ManualGrant(b) ==
    /\ biz[b].plan # "free"
    /\ biz[b].end = 0 \/ biz[b].end > now
    /\ ~PlayWritten(b)

\* Another purchase still entitles the business (a replaced one does not).
OtherEntitled(b, v) ==
    \E t \in RowsOf(b) :
        /\ rows[t].expiry > now
        /\ rows[t].state \in {"ACTIVE", "IN_GRACE_PERIOD", "CANCELED"}
        /\ rows[t].replacedBy = NoToken
        /\ ~(rows[t].product = v.product /\ rows[t].state = v.state
              /\ rows[t].expiry = v.expiry)

KeptOverCanceled(b, v) ==
    /\ v.state = "CANCELED" /\ ManualGrant(b)
    /\ biz[b].end = 0 \/ biz[b].end >= v.expiry
    /\ biz[b].plan = "premium" \/ v.product = "basic"

\* Variant: an admin's grant is not looked at (before 0232).
AppliedOverGrant(b, v) ==
    IF IsEntitled(v.state, v.expiry)
    THEN [plan |-> v.product, end |-> v.expiry,
          issue |-> IF v.state = "IN_GRACE_PERIOD" THEN "grace" ELSE "none"]
    ELSE IF v.state = "PENDING" THEN biz[b]
    ELSE IF OtherEntitled(b, v) THEN [biz[b] EXCEPT !.issue = "none"]
    ELSE [plan |-> "free", end |-> v.expiry,
          issue |-> IF v.state = "ON_HOLD" THEN "hold" ELSE "none"]

\* The row of businesses after the call.
Applied(b, v) ==
    IF IsEntitled(v.state, v.expiry)
    THEN IF KeptOverCanceled(b, v) THEN [biz[b] EXCEPT !.issue = "none"]
         ELSE [plan |-> v.product, end |-> v.expiry,
               issue |-> IF v.state = "IN_GRACE_PERIOD" THEN "grace" ELSE "none"]
    ELSE IF v.state = "PENDING" THEN biz[b]
    ELSE IF OtherEntitled(b, v) \/ ManualGrant(b) THEN [biz[b] EXCEPT !.issue = "none"]
    ELSE [plan |-> "free", end |-> v.expiry,
          issue |-> IF v.state = "ON_HOLD" THEN "hold" ELSE "none"]

Stamps(b, v) == IsEntitled(v.state, v.expiry) /\ ~KeptOverCanceled(b, v)

ApplyPlayPurchase(b, v) ==
    /\ biz' = [biz EXCEPT ![b] = Applied(b, v)]
    /\ stamp' = IF Stamps(b, v)
                THEN [stamp EXCEPT ![b] = [plan |-> v.product, end |-> v.expiry]]
                ELSE stamp
    /\ granted' = [granted EXCEPT ![b] =
                     @ /\ Applied(b, v).plan = biz[b].plan /\ ~Stamps(b, v)]

\* business_effective_plan: an end date in the past is "free".
EffectivePlan(b) ==
    IF biz[b].end = 0 \/ biz[b].end > now THEN biz[b].plan ELSE "free"

-----------------------------------------------------------------------------
Init ==
    /\ google = [t \in Tokens |-> [state |-> "none", items |-> {}, acked |-> FALSE, ver |-> 0]]
    /\ rtdn = {}
    /\ queued = {}
    /\ rows = [t \in Tokens |-> NoRow]
    /\ biz = [b \in Businesses |-> [plan |-> "free", end |-> 0, issue |-> "none"]]
    /\ stamp = [b \in Businesses |-> NoStamp]
    /\ calls = [c \in Calls |-> Idle]
    /\ now = 1
    /\ used = [events |-> 0, faults |-> 0]
    /\ seen = [t \in Tokens |-> 0]
    /\ crossed = FALSE
    /\ granted = [b \in Businesses |-> FALSE]

-----------------------------------------------------------------------------
(* Google Play, external *)

ExpiryOf(t) == ParseSubscriptionV2(google[t]).expiry
Running(t) == google[t].state \in {"ACTIVE", "IN_GRACE_PERIOD", "CANCELED"}
PeriodOver(t) == Running(t) /\ ExpiryOf(t) <= now

Owned(p, e) == [product |-> p, expiry |-> e, owned |-> TRUE, deferred |-> FALSE]
NotOwned(p, e) == [product |-> p, expiry |-> e, owned |-> FALSE, deferred |-> FALSE]
Holder(p, e) == [product |-> p, expiry |-> e, owned |-> TRUE, deferred |-> TRUE]

Event == /\ used.events < MaxEvents
         /\ used' = [used EXCEPT !.events = @ + 1]
         /\ UNCHANGED <<rows, biz, stamp, calls, now, seen, crossed, granted>>

Becomes(t, state, items) ==
    [google[t] EXCEPT !.state = state, !.items = items, !.ver = @ + 1]

\* The purchase t replaces, if any, ends at once.
Ended(t) == [google EXCEPT ![t] = Becomes(t, "EXPIRED", {Owned(ParseSubscriptionV2(@).product, now)})]

Purchase(t, p) ==
    /\ google[t].state = "none" /\ Link[t] = NoToken
    /\ Event
    /\ google' = [google EXCEPT ![t] = Becomes(t, "ACTIVE", {Owned(p, now + Period)})]
    /\ rtdn' = rtdn \cup Told(t, "other")
    /\ queued' = queued \cup {t}

\* A switch: an upgrade (of tier or cycle) at once, its payment perhaps pending,
\* or a downgrade, deferred to the end of the period that is paid.
SwitchTo(t, how) ==
    LET o == Link[t]
        p == ParseSubscriptionV2(google[o]).product
    IN  /\ google[t].state = "none" /\ o # NoToken
        /\ google[o].state = "ACTIVE" /\ ~PeriodOver(o)
        /\ Event
        /\ google' = [(IF how = "pending" THEN google ELSE Ended(o)) EXCEPT ![t] =
             CASE how = "pending" -> Becomes(t, "PENDING", {NotOwned("premium", 0)})
               [] how = "now" -> Becomes(t, "ACTIVE", {Owned("premium", now + Period)})
               [] how = "deferred" -> Becomes(t, "ACTIVE",
                     {Holder(p, ExpiryOf(o)), NotOwned("basic", ExpiryOf(o) + Period)})]
        /\ rtdn' = IF how = "pending" THEN rtdn
                   ELSE rtdn \cup Told(t, "other") \cup Told(o, "other")
        /\ queued' = IF how = "pending" THEN queued ELSE queued \cup {t}

PendingSettles(t, paid) ==
    LET o == Link[t]
        p == Latest(google[t].items).product
    IN  /\ google[t].state = "PENDING"
        /\ Event
        /\ IF ~paid
           THEN /\ google' = [google EXCEPT ![t] =
                                Becomes(t, "PENDING_PURCHASE_CANCELED", {NotOwned(p, 0)})]
                /\ rtdn' = rtdn \cup Told(t, "other")
                /\ UNCHANGED queued
           ELSE LET live == o # NoToken /\ (Running(o) \/ google[o].state = "ON_HOLD")
                IN  /\ google' = [(IF live THEN Ended(o) ELSE google) EXCEPT ![t] =
                                    Becomes(t, "ACTIVE", {Owned(p, now + Period)})]
                    /\ rtdn' = rtdn \cup Told(t, "other")
                                    \cup (IF live THEN Told(o, "other") ELSE {})
                    /\ queued' = queued \cup {t}

\* A period is over: renewed (a deferred switch takes place), payment refused
\* (grace if the plan has one, hold, the end), or a cancelled one ends.
Following == [ACTIVE |-> {"ACTIVE", "IN_GRACE_PERIOD", "ON_HOLD"},
              IN_GRACE_PERIOD |-> {"ACTIVE", "ON_HOLD"},
              ON_HOLD |-> {"ACTIVE", "EXPIRED"},
              CANCELED |-> {"EXPIRED"}]

PeriodEnds(t, state) ==
    LET p == Latest(google[t].items).product
    IN  /\ PeriodOver(t) \/ google[t].state = "ON_HOLD"
        /\ state \in Following[google[t].state]
        /\ Event
        /\ google' = [google EXCEPT ![t] = Becomes(t, state,
             {Owned(p, CASE state = "ACTIVE" -> now + Period
                         [] state = "IN_GRACE_PERIOD" -> now + 1
                         [] OTHER -> now)})]
        /\ rtdn' = rtdn \cup Told(t, "other")
        /\ UNCHANGED queued

Cancel(t) ==
    /\ google[t].state = "ACTIVE" /\ ~PeriodOver(t)
    /\ Event
    /\ google' = [google EXCEPT ![t] = Becomes(t, "CANCELED", @.items)]
    /\ rtdn' = rtdn \cup Told(t, "other")
    /\ UNCHANGED queued

Revoke(t) ==
    /\ Running(t) /\ ~PeriodOver(t)
    /\ Event
    /\ google' = Ended(t)
    /\ rtdn' = rtdn \cup Told(t, RTDN_REVOKED)
    /\ UNCHANGED queued

\* Play settles a period before time moves past its end.
Tick ==
    /\ now < MaxNow /\ used.events < MaxEvents
    /\ used' = [used EXCEPT !.events = @ + 1]
    /\ ~\E t \in Tokens : PeriodOver(t)
    /\ now' = now + 1
    /\ UNCHANGED <<google, rtdn, queued, rows, biz, stamp, calls, seen, crossed, granted>>

\* An admin gives a plan by hand; the guard clears the billing issue unless the
\* values are the ones Play wrote.
AdminGrants(b, p, e) ==
    /\ used.events < MaxEvents
    /\ e = 0 \/ e > now
    /\ used' = [used EXCEPT !.events = @ + 1]
    /\ biz' = [biz EXCEPT ![b] = [plan |-> p, end |-> e, issue |->
                 IF /\ <<p, e>> # <<biz[b].plan, biz[b].end>>
                    /\ stamp[b] # [plan |-> p, end |-> e]
                 THEN "none" ELSE biz[b].issue]]
    /\ granted' = [granted EXCEPT ![b] = TRUE]
    /\ UNCHANGED <<google, rtdn, queued, rows, stamp, calls, now, seen, crossed>>

-----------------------------------------------------------------------------
(* The invocations of play-billing-verify *)

Finish(c) == calls' = [calls EXCEPT ![c] = Idle]
Newest(t, ver) == [seen EXCEPT ![t] = IF ver > @ THEN ver ELSE @]
UnchangedStore == UNCHANGED <<rows, biz, stamp, seen, crossed, granted>>

\* The lookups of the two handlers take the data and leave the error: one that
\* fails finds no row.
Lookup(read) ==
    /\ read \/ used.faults < MaxFaults
    /\ used' = [used EXCEPT !.faults = IF read THEN @ ELSE @ + 1]

\* handleAppVerify: the phone posts a purchase Play has queued on it, for the
\* business it is signed in to.  A token bound to another business is refused
\* here, if its lookup succeeds.  Any answer but ok leaves the purchase in Play's
\* queue.
TokenInUse(b, t) == rows[t] # NoRow /\ rows[t].business # b

BeginVerify(c, b, t) ==
    /\ calls[c] = Idle
    /\ t \in queued
    /\ Lookup(~TokenInUse(b, t))
    /\ queued' = queued \ {t}
    /\ calls' = [calls EXCEPT ![c] =
                   [phase |-> "fetch", kind |-> "verify", token |-> t, business |-> b, type |-> "none"]]
    /\ UnchangedStore /\ UNCHANGED <<google, rtdn, now>>

\* handleRtdn: Pub/Sub delivers a notification; the row is looked up first.
BeginRtdn(c, n, read) ==
    /\ calls[c] = Idle /\ n \in rtdn
    /\ ~read => rows[n.token] # NoRow
    /\ Lookup(read)
    /\ rtdn' = rtdn \ {n}
    /\ calls' = [calls EXCEPT ![c] =
                   [phase |-> "fetch", kind |-> "rtdn", token |-> n.token, type |-> n.type,
                    business |-> IF ~read \/ rows[n.token] = NoRow THEN NoBusiness
                                 ELSE rows[n.token].business]]
    /\ UnchangedStore /\ UNCHANGED <<google, queued, now>>

\* Variant: the account tag of the purchase is not compared.
AcceptAnyAccount(b, t) == FALSE

AccountMismatch(b, t) == Account[t] \notin {NoBusiness, b}

\* Variant: the row is written although no business is known.
PhaseAlwaysPrior(k) == "prior"

PhaseOnceFetched(k) == IF k.business = NoBusiness THEN "bind" ELSE "prior"

Notified(k) == IF k.kind = "rtdn" THEN Told(k.token, k.type) ELSE {}
Posted(k) == IF k.kind = "verify" THEN {k.token} ELSE {}

\* A notification of an unknown token that is nobody's replacement is answered
\* 200 and forgotten: the app's verify call is authoritative.  So is one of a
\* recorded token, if its lookup failed or its row was written since.
Forget(k) ==
    /\ seen' = Newest(k.token, k.ver)
    /\ crossed' = (crossed \/ rows[k.token] # NoRow)

\* The access token and subscriptionsv2.get: Play's answer of this moment.
FetchPurchase(c) ==
    LET k == calls[c]
        v == ParseSubscriptionV2(google[k.token])
        unbound == k.business = NoBusiness
        refused == v = NoAnswer \/ (k.kind = "verify" /\ AccountMismatch(k.business, k.token))
        forgotten == ~refused /\ unbound /\ Link[k.token] = NoToken
    IN  /\ k.phase = "fetch"
        /\ IF refused \/ forgotten THEN Finish(c)
           ELSE calls' = [calls EXCEPT ![c] =
                  [phase |-> PhaseOnceFetched(k),
                   kind |-> k.kind, token |-> k.token, business |-> k.business,
                   type |-> k.type, v |-> v, ver |-> google[k.token].ver]]
        /\ IF forgotten THEN Forget([token |-> k.token, ver |-> google[k.token].ver])
           ELSE UNCHANGED <<seen, crossed>>
        /\ queued' = IF refused THEN queued \cup Posted(k) ELSE queued
        /\ UNCHANGED <<google, rtdn, rows, biz, stamp, now, used, granted>>

\* The replacement of a known token is bound to the business of that token; it
\* is forgotten too if the lookup of that token fails.
BindUnknownToken(c, read) ==
    LET k == calls[c]
        b == BusinessForUnknownToken(k.token, IF read THEN rows[Link[k.token]] ELSE NoRow)
    IN  /\ k.phase = "bind"
        /\ ~read => rows[Link[k.token]] # NoRow
        /\ Lookup(read)
        /\ IF b = NoBusiness THEN Finish(c) /\ Forget(k)
           ELSE /\ calls' = [calls EXCEPT ![c].business = b, ![c].phase = "prior"]
                /\ UNCHANGED <<seen, crossed>>
        /\ UNCHANGED <<google, rtdn, queued, rows, biz, stamp, now, granted>>

\* Acknowledge when Play waits for it (a refusal is logged and the call goes
\* on), and persistAndApply's first await: the row as it was before this update.
\* Two awaits in one step: nothing else reads the acknowledgement.
AcknowledgeAndReadPrior(c, ok) ==
    LET k == calls[c]
        r == rows[k.token]
        asks == NeedsAcknowledge(k.v, google[k.token].acked)
    IN  /\ k.phase = "prior"
        /\ ok => asks
        /\ asks /\ ~ok => used.faults < MaxFaults
        /\ used' = [used EXCEPT !.faults = IF asks /\ ~ok THEN @ + 1 ELSE @]
        /\ google' = IF ok THEN [google EXCEPT ![k.token].acked = TRUE] ELSE google
        /\ calls' = [calls EXCEPT ![c] =
             [phase |-> "upsert", kind |-> k.kind, token |-> k.token, business |-> k.business,
              type |-> k.type, v |-> k.v, ver |-> k.ver,
              prior |-> IF r = NoRow THEN NoPrior
                        ELSE [state |-> r.state, expiry |-> r.expiry,
                              replacedBy |-> r.replacedBy]]]
        /\ UnchangedStore /\ UNCHANGED <<rtdn, queued, now>>

\* Second await: the upsert on the token; replaced_by_token is not written.
Upserted(c) ==
    LET k == calls[c]
    IN  [business |-> k.business, product |-> k.v.product, state |-> k.v.state,
         expiry |-> k.v.expiry,
         replacedBy |-> IF rows[k.token] = NoRow THEN NoToken ELSE rows[k.token].replacedBy]

\* Variant: a switch whose payment came to nothing replaces the old token too.
SupersedesPendingToo(k) == ReplacedToken(k.token) # NoToken

Supersedes(k) ==
    /\ ReplacedToken(k.token) # NoToken
    /\ k.v.state \notin {"PENDING", "PENDING_PURCHASE_CANCELED"}

\* The purchases that replace t, at once or by way of others.
Later(t) ==
    {u \in Tokens \ {t} :
        \A S \in SUBSET Tokens :
            (t \in S /\ \A x \in Tokens : Link[x] \in S => x \in S) => u \in S}

\* A newer answer of the token was written, or dropped as unknown, since this
\* call fetched; or its row is another shop's by now; or a replacement of it is
\* recorded, and the call does not know: it read the row before it was marked, or
\* the row did not exist when it was to be marked.
Overtaken(k) ==
    \/ k.ver < seen[k.token]
    \/ rows[k.token] # NoRow /\ rows[k.token].business # k.business
    \/ /\ k.prior = NoPrior \/ k.prior.replacedBy = NoToken
       /\ \E u \in Later(k.token) :
             rows[u] # NoRow /\ rows[u].state \notin {"PENDING", "PENDING_PURCHASE_CANCELED"}

UpsertRow(c) ==
    LET k == calls[c]
    IN  /\ k.phase = "upsert"
        /\ rows' = [rows EXCEPT ![k.token] = Upserted(c)]
        /\ calls' = [calls EXCEPT ![c].phase = IF Supersedes(k) THEN "supersede" ELSE "apply"]
        /\ crossed' = (crossed \/ Overtaken(k))
        /\ seen' = Newest(k.token, k.ver)
        /\ UNCHANGED <<google, rtdn, queued, biz, stamp, now, used, granted>>

\* Third await: the replaced token must never change the plan again.
SupersedeOld(c) ==
    LET k == calls[c]
        o == ReplacedToken(k.token)
        hit == rows[o] # NoRow /\ rows[o].business = k.business /\ rows[o].replacedBy = NoToken
    IN  /\ k.phase = "supersede"
        /\ rows' = IF hit THEN [rows EXCEPT ![o].replacedBy = k.token] ELSE rows
        /\ calls' = [calls EXCEPT ![c].phase = "apply"]
        /\ UNCHANGED <<google, rtdn, queued, biz, stamp, now, used, seen, crossed, granted>>

\* Last await: decideApply and apply_play_purchase.  When the answer is lost
\* Pub/Sub delivers the notification again, and the purchase stays queued.
ApplyAndAnswer(c, lost) ==
    LET k == calls[c]
    IN  /\ k.phase = "apply"
        /\ lost => used.faults < MaxFaults
        /\ used' = [used EXCEPT !.faults = IF lost THEN @ + 1 ELSE @]
        /\ rtdn' = IF lost THEN rtdn \cup Notified(k) ELSE rtdn
        /\ IF DecideApply(k.v, k.prior, k.type)
           THEN /\ ApplyPlayPurchase(k.business, k.v)
                /\ crossed' = (crossed \/ Overtaken(k))
           ELSE UNCHANGED <<biz, stamp, granted, crossed>>
        /\ Finish(c)
        /\ queued' = IF lost THEN queued \cup Posted(k) ELSE queued
        /\ UNCHANGED <<google, rows, now, seen>>

\* Every await but the lookups above throws when it fails, or the instance may
\* die: 500, and Pub/Sub delivers the notification again.  Before the upsert
\* nothing has been written and the call is one that has not begun yet.
CallFails(c) ==
    LET k == calls[c]
    IN  /\ k.phase \in {"supersede", "apply"} /\ used.faults < MaxFaults
        /\ used' = [used EXCEPT !.faults = @ + 1]
        /\ rtdn' = rtdn \cup Notified(k)
        /\ queued' = queued \cup Posted(k)
        /\ Finish(c)
        /\ UnchangedStore /\ UNCHANGED <<google, now>>

-----------------------------------------------------------------------------
GoogleStep ==
    \E t \in Tokens :
        \/ \E p \in FirstPlans : Purchase(t, p)
        \/ \E how \in {"now", "pending", "deferred"} : SwitchTo(t, how)
        \/ \E paid \in BOOLEAN : PendingSettles(t, paid)
        \/ \E state \in PlayStates : PeriodEnds(t, state)
        \/ Cancel(t)
        \/ Revoke(t)

Step(c) ==
    \/ FetchPurchase(c)
    \/ \E read \in BOOLEAN : BindUnknownToken(c, read)
    \/ \E ok \in BOOLEAN : AcknowledgeAndReadPrior(c, ok)
    \/ UpsertRow(c) \/ SupersedeOld(c)
    \/ \E lost \in BOOLEAN : ApplyAndAnswer(c, lost)

Next ==
    \/ GoogleStep \/ Tick
    \/ \E g \in Grants : AdminGrants(g[1], g[2], g[3])
    \/ \E c \in Calls :
        \/ \E b \in Businesses, t \in Tokens : BeginVerify(c, b, t)
        \/ \E n \in rtdn, read \in BOOLEAN : BeginRtdn(c, n, read)
        \/ Step(c)
        \/ CallFails(c)

\* The runtime finishes the calls it has started, and Pub/Sub delivers until it
\* gets a 200.  Nothing makes Google, the admin or the owner act.
Fairness ==
    /\ \A c \in Calls : WF_vars(Step(c))
    /\ WF_vars(\E c \in Calls, n \in rtdn, read \in BOOLEAN : BeginRtdn(c, n, read))

Spec == Init /\ [][Next]_vars /\ Fairness

-----------------------------------------------------------------------------
Answer == [product : Products, state : PlayStates, expiry : Time]
Prior == [state : PlayStates, expiry : Time, replacedBy : Tokens \cup {NoToken}]

\* Types of the rows, the plan and the calls.
TypeOK ==
    /\ rtdn \subseteq Notification /\ queued \subseteq Tokens
    /\ \A t \in Tokens : google[t].state # "none" =>
          google[t] \in [state : PlayStates, items : SUBSET LineItem, acked : BOOLEAN, ver : Nat]
    /\ \A t \in Tokens : rows[t] # NoRow =>
          rows[t] \in [business : Businesses, product : Products, state : PlayStates,
                       expiry : Time, replacedBy : Tokens \cup {NoToken}]
    /\ biz \in [Businesses -> [plan : Products \cup {"free"}, end : Time,
                               issue : {"none", "grace", "hold"}]]
    /\ \A c \in Calls : calls[c].phase \in {"prior", "upsert", "supersede", "apply"} =>
          calls[c].business \in Businesses /\ calls[c].v \in Answer
    /\ \A c \in Calls : calls[c].phase \in {"upsert", "supersede", "apply"} =>
          calls[c].prior = NoPrior \/ calls[c].prior \in Prior

\* A purchase is only ever bound to the business it was bought for, by whichever
\* path: the verify call of any shop of the phone, or the link of a switch.
BoundToAccount ==
    \A t \in Tokens :
        rows[t] # NoRow /\ Account[t] # NoBusiness => rows[t].business = Account[t]

\* No notification waits for its 200, no call is in flight and no phone has a
\* purchase left to verify.
Quiet == rtdn = {} /\ queued = {} /\ \A c \in Calls : calls[c] = Idle

PaidAt(t) == Running(t) /\ ExpiryOf(t) > now

\* The answer for a switch away from t whose payment came to nothing takes a
\* grace period's issue along.
IssueCleared(b, t) ==
    /\ biz[b].issue = "none"
    /\ \E u \in RowsOf(b) \cap Later(t) : rows[u].state = "PENDING_PURCHASE_CANCELED"

\* The shop's purchases replaced one another (two that did not are told apart by
\* nothing).
OneLine(b) == \A t, u \in RowsOf(b) : u = t \/ u \in Later(t) \/ t \in Later(u)

\* The shop has switched once at most, and no other shop has its switch.
OneSwitch(b) ==
    \A t \in RowsOf(b) :
        /\ \A u \in RowsOf(b) : u = t \/ Link[u] = t \/ Link[t] = u
        /\ \A u \in Tokens : Link[u] = t /\ rows[u] # NoRow => u \in RowsOf(b)

\* When all is quiet, a business whose paid purchase the server knows has that
\* plan, its end date and (but see above) its billing issue, unless an admin's
\* grant stands, an overtaken answer was applied, or a notification of a recorded
\* purchase was dropped: answered 200 as of an unknown token, because its lookup
\* failed or its row was not yet written when it was looked up (`crossed').
PaidPlanStands ==
    Quiet /\ ~crossed =>
        \A b \in Businesses : \A t \in RowsOf(b) :
            PaidAt(t) /\ ~granted[b] /\ OneLine(b) =>
                /\ biz[b].plan = ParseSubscriptionV2(google[t]).product
                /\ biz[b].end = ExpiryOf(t)
                /\ biz[b].issue = BillingIssueForState(google[t].state) \/ IssueCleared(b, t)

\* When all is quiet and the server knows every purchase, a business none of
\* whose purchases is paid for any more has no paid plan, unless an admin gave it,
\* an overtaken answer was applied or a notification of a recorded purchase was
\* dropped (`crossed', as above).
NoFreePlan ==
    Quiet /\ ~crossed /\ (\A t \in Tokens : google[t].state # "none" => rows[t] # NoRow) =>
        \A b \in Businesses :
            ~granted[b] /\ OneSwitch(b) /\ (\A t \in RowsOf(b) : ~PaidAt(t))
                => EffectivePlan(b) = "free"

\* When all is quiet and nothing went wrong on the way, every running purchase
\* the server knows is acknowledged (Play takes the others back after 3 days),
\* but for one: the verify call met it on hold, and the notification of its
\* recovery was dropped as unknown before the row was written (`crossed').
PaidIsAcknowledged ==
    Quiet /\ used.faults = 0 =>
        \A t \in Tokens :
            /\ rows[t] # NoRow /\ google[t].state \in Acknowledgeable
            /\ crossed => rows[t].state \in Acknowledgeable
            => google[t].acked

\* A running grant of an admin is never taken away by a lapse: only a purchase
\* that entitles the business replaces it.
GrantKept ==
    [][\A b \in Businesses :
          granted[b] /\ (biz[b].end = 0 \/ biz[b].end > now) /\ biz'[b].plan = "free"
            => PlayWritten(b)]_vars

\* A shop that has switched its plan and paid never falls to "free" before the
\* end date it has: the early lapse of the replaced token is held (play.ts:125).
EarlyLapseHeld ==
    [][\A b \in Businesses : \A t \in RowsOf(b), u \in Tokens :
          Link[u] = t /\ PaidAt(u) /\ biz[b].plan # "free" /\ biz[b].end > now
            => biz'[b].plan # "free"]_vars
==============================================================================
