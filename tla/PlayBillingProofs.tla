------------------------- MODULE PlayBillingProofs --------------------------
(***************************************************************************)
(* Proofs about PlayBilling, for any shops, tokens, invocations, periods   *)
(* and bounds.  The inductive invariant is Inv: the purchases at Google    *)
(* have the line items a purchase can have (Shape), so that parsing them   *)
(* gives an answer of the right type; every row and every call that has    *)
(* got past Google's answer names the shop the purchase was made for       *)
(* (Bound); and a grant of an admin is not of the free plan.  AckInv, at   *)
(* the end, follows a purchase that waits for its acknowledgement.         *)
(***************************************************************************)
EXTENDS PlayBilling, TLAPS

(* One item, or the holder of a deferred switch and the plan to come.      *)
Shape(items) ==
  \/ items = {}
  \/ \E i \in LineItem : items = {i} /\ i.expiry <= MaxNow + Period
  \/ \E h, n \in LineItem : /\ items = {h, n} /\ h.deferred /\ ~n.deferred
                            /\ h.expiry <= MaxNow + Period

PurchaseType == [state : PlayStates \cup {"none"}, items : SUBSET LineItem,
                 acked : BOOLEAN, ver : Nat]
PurchaseOK(p) ==
  /\ p \in PurchaseType /\ Shape(p.items)
  /\ p.state = "none" <=> p.items = {}

RowType == [business : Businesses, product : Products, state : PlayStates,
            expiry : Time, replacedBy : Tokens \cup {NoToken}]
Bound(t, b) == Account[t] \in {NoBusiness, b}
RowOK(t, r) == r = NoRow \/ (r \in RowType /\ Bound(t, r.business))

(* A call in hand.                                                         *)
Answered == {"bind", "prior", "upsert", "supersede", "apply"}
WithBusiness == Answered \ {"bind"}
WithPrior == WithBusiness \ {"prior"}
AnswerFields(k) ==
  k = [phase |-> k.phase, kind |-> k.kind, token |-> k.token, business |-> k.business,
       type |-> k.type, v |-> k.v, ver |-> k.ver]
PriorFields(k) ==
  k = [phase |-> k.phase, kind |-> k.kind, token |-> k.token, business |-> k.business,
       type |-> k.type, v |-> k.v, ver |-> k.ver, prior |-> k.prior]
CallOK(k) ==
  k = Idle \/
    /\ k.phase \in {"fetch"} \cup Answered /\ k.token \in Tokens
    /\ k.kind \in {"verify", "rtdn"} /\ (k.kind = "rtdn" => k.type \in Types)
    /\ k.phase = "fetch" /\ k.kind = "verify" => k.business \in Businesses
    /\ k.phase = "fetch" /\ k.kind = "rtdn" =>
         k.business = NoBusiness \/ (k.business \in Businesses /\ Bound(k.token, k.business))
    /\ k.phase = "bind" => Link[k.token] \in Tokens
    /\ k.phase \in Answered => k.v \in Answer
    /\ k.phase \in WithBusiness => k.business \in Businesses /\ Bound(k.token, k.business)
    /\ k.phase \in WithPrior => k.prior = NoPrior \/ k.prior \in Prior
    /\ k.phase \in {"bind", "prior"} => AnswerFields(k)
    /\ k.phase \in WithPrior => PriorFields(k)

BizType == [plan : Products \cup {"free"}, end : Time, issue : {"none", "grace", "hold"}]

Inv ==
  /\ google \in [Tokens -> {google[t] : t \in Tokens}]
  /\ \A t \in Tokens : PurchaseOK(google[t])
  /\ rtdn \subseteq Notification /\ queued \subseteq Tokens
  /\ rows \in [Tokens -> {rows[t] : t \in Tokens}]
  /\ \A t \in Tokens : RowOK(t, rows[t])
  /\ biz \in [Businesses -> BizType]
  /\ calls \in [Calls -> {calls[c] : c \in Calls}]
  /\ \A c \in Calls : CallOK(calls[c])
  /\ now \in 0..MaxNow
  /\ granted \in [Businesses -> BOOLEAN]
  /\ \A b \in Businesses : granted[b] => biz[b].plan # "free"

LEMMA InvTyped == ASSUME Inv PROVE TypeOK
<1>1. \A t \in Tokens : google[t].state # "none" =>
        google[t] \in [state : PlayStates, items : SUBSET LineItem, acked : BOOLEAN, ver : Nat]
  BY DEF Inv, PurchaseOK, PurchaseType
<1>2. \A c \in Calls : calls[c].phase \in {"prior", "upsert", "supersede", "apply"} =>
        calls[c].business \in Businesses /\ calls[c].v \in Answer
  BY DEF Inv, CallOK, Idle, Answered, WithBusiness
<1>3. \A c \in Calls : calls[c].phase \in {"upsert", "supersede", "apply"} =>
        calls[c].prior = NoPrior \/ calls[c].prior \in Prior
  BY DEF Inv, CallOK, Idle, Answered, WithBusiness, WithPrior
<1> QED  BY <1>1, <1>2, <1>3 DEF Inv, TypeOK, RowOK, RowType, BizType

LEMMA InvBound == ASSUME Inv PROVE BoundToAccount
BY DEF Inv, BoundToAccount, RowOK, Bound

LEMMA InitInv == ASSUME ConstantsAssumption, Init PROVE Inv
BY DEF ConstantsAssumption, Init, Inv, PurchaseOK, PurchaseType, Shape, RowOK, BizType,
       CallOK, Time

-----------------------------------------------------------------------------
(* What Google answers.                                                    *)
LEMMA LatestOfOne ==
  ASSUME NEW i \in LineItem PROVE Latest({i}) = i
BY DEF Latest, LineItem, Time

LEMMA LatestIn ==
  ASSUME NEW s, Shape(s), s # {}
  PROVE  Latest(s) \in s
<1>1. CASE \E i \in LineItem : s = {i}
  BY <1>1, LatestOfOne
<1>2. CASE \E h, n \in LineItem : s = {h, n}
  <2>1. PICK h, n \in LineItem : s = {h, n}
    BY <1>2
  <2>2. h.expiry \in Nat /\ n.expiry \in Nat
    BY DEF LineItem, Time
  <2>3. \E i \in s : \A j \in s : j.expiry <= i.expiry
    <3>1. CASE h.expiry <= n.expiry
      BY <2>1, <2>2, <3>1
    <3>2. CASE ~(h.expiry <= n.expiry)
      BY <2>1, <2>2, <3>2
    <3> QED  BY <3>1, <3>2
  <2> QED  BY <2>3 DEF Latest
<1> QED  BY <1>1, <1>2 DEF Shape

LEMMA ParseTyped ==
  ASSUME NEW p, PurchaseOK(p), p.items # {}
  PROVE  /\ ParseSubscriptionV2(p) \in Answer
         /\ ParseSubscriptionV2(p).expiry <= MaxNow + Period
<1> DEFINE holders == {i \in p.items : i.deferred}
           owned == {i \in p.items : i.owned}
           item == Latest(IF holders # {} THEN holders
                          ELSE IF owned # {} THEN owned ELSE p.items)
<1>1. item \in LineItem /\ item.expiry <= MaxNow + Period
  <2>1. CASE \E i \in LineItem : p.items = {i} /\ i.expiry <= MaxNow + Period
    <3>1. PICK i \in LineItem : p.items = {i} /\ i.expiry <= MaxNow + Period
      BY <2>1
    <3>2. holders \in {{}, {i}} /\ owned \in {{}, {i}}
      BY <3>1
    <3>3. item = i
      BY <3>1, <3>2, LatestOfOne
    <3> QED  BY <3>1, <3>3
  <2>2. CASE \E h, n \in LineItem : /\ p.items = {h, n} /\ h.deferred /\ ~n.deferred
                                    /\ h.expiry <= MaxNow + Period
    <3>1. PICK h, n \in LineItem : /\ p.items = {h, n} /\ h.deferred /\ ~n.deferred
                                   /\ h.expiry <= MaxNow + Period
      BY <2>2
    <3>2. holders = {h}
      BY <3>1
    <3>3. item = h
      BY <3>2, LatestOfOne
    <3> QED  BY <3>1, <3>3
  <2> QED  BY <2>1, <2>2 DEF PurchaseOK, Shape
<1>2. p.state \in PlayStates
  BY DEF PurchaseOK, PurchaseType
<1>3. ParseSubscriptionV2(p) = [product |-> item.product, state |-> p.state,
                                expiry |-> item.expiry]
  BY DEF ParseSubscriptionV2
<1> HIDE DEF item
<1> QED  BY <1>1, <1>2, <1>3 DEF Answer, LineItem

-----------------------------------------------------------------------------
(* Google's purchases.                                                     *)
LEMMA TimesTyped ==
  ASSUME ConstantsAssumption, Inv
  PROVE  /\ now \in Nat /\ now <= MaxNow /\ MaxNow \in Nat /\ Period \in Nat /\ Period >= 1
         /\ now \in Time /\ now + Period \in Time /\ now + 1 \in Time /\ 0 \in Time
<1>1. MaxNow \in Nat /\ Period \in Nat /\ Period # 0
  BY DEF ConstantsAssumption
<1>2. now \in 0..MaxNow
  BY DEF Inv
<1> QED  BY <1>1, <1>2 DEF Time

LEMMA OneItem ==
  ASSUME ConstantsAssumption, NEW p \in Products, NEW e \in Nat, e <= MaxNow + Period
  PROVE  /\ {Owned(p, e)} \in SUBSET LineItem /\ Shape({Owned(p, e)})
         /\ {NotOwned(p, e)} \in SUBSET LineItem /\ Shape({NotOwned(p, e)})
<1>1. e \in Time
  BY DEF ConstantsAssumption, Time
<1>2. PICK i, n : i = Owned(p, e) /\ n = NotOwned(p, e)
  OBVIOUS
<1>3. i \in LineItem /\ i.expiry = e /\ n \in LineItem /\ n.expiry = e
  BY <1>1, <1>2 DEF Owned, NotOwned, LineItem
<1> QED  BY <1>2, <1>3 DEF Shape

LEMMA BecomesOK ==
  ASSUME Inv, NEW t \in Tokens, NEW state \in PlayStates,
         NEW items \in SUBSET LineItem, Shape(items), items # {}
  PROVE  PurchaseOK(Becomes(t, state, items))
<1>1. google[t] \in PurchaseType /\ state # "none"
  BY DEF Inv, PurchaseOK, PlayStates
<1>2. PICK g \in PurchaseType : g = google[t]
  BY <1>1
<1>3. PICK p : p = [g EXCEPT !.state = state, !.items = items, !.ver = g.ver + 1]
  OBVIOUS
<1>4. p \in PurchaseType /\ p.state = state /\ p.items = items
  <2>1. /\ g = [state |-> g.state, items |-> g.items, acked |-> g.acked, ver |-> g.ver]
        /\ g.acked \in BOOLEAN /\ g.ver \in Nat
    BY DEF PurchaseType
  <2>2. p = [state |-> state, items |-> items, acked |-> g.acked, ver |-> g.ver + 1]
    BY <1>3, <2>1
  <2>3. g.ver + 1 \in Nat
    BY <2>1
  <2> QED  BY <2>1, <2>2, <2>3 DEF PurchaseType
<1>5. Becomes(t, state, items) = p
  BY <1>2, <1>3 DEF Becomes
<1> QED  BY <1>1, <1>4, <1>5 DEF PurchaseOK

LEMMA LiveParsed ==
  ASSUME ConstantsAssumption, Inv, NEW t \in Tokens, google[t].state # "none"
  PROVE  /\ ParseSubscriptionV2(google[t]) \in Answer
         /\ ParseSubscriptionV2(google[t]).product \in Products
         /\ ExpiryOf(t) \in Nat /\ ExpiryOf(t) <= MaxNow + Period
         /\ Latest(google[t].items).product \in Products
<1>1. PurchaseOK(google[t]) /\ google[t].items # {}
  BY DEF Inv, PurchaseOK
<1>2. Latest(google[t].items) \in LineItem
  BY <1>1, LatestIn DEF PurchaseOK, PurchaseType
<1> QED  BY <1>1, <1>2, ParseTyped DEF Answer, ExpiryOf, LineItem, Time

LEMMA EndedOK ==
  ASSUME ConstantsAssumption, Inv, NEW t \in Tokens, google[t].state # "none"
  PROVE  /\ Ended(t) \in [Tokens -> {Ended(t)[u] : u \in Tokens}]
         /\ \A u \in Tokens : PurchaseOK(Ended(t)[u])
<1> DEFINE items == {Owned(ParseSubscriptionV2(google[t]).product, now)}
           p == Becomes(t, "EXPIRED", items)
<1>1. items \in SUBSET LineItem /\ Shape(items) /\ items # {}
  <2>1. now \in Nat /\ now <= MaxNow + Period
    BY TimesTyped
  <2>2. ParseSubscriptionV2(google[t]).product \in Products
    BY LiveParsed
  <2> QED  BY <2>1, <2>2, OneItem
<1>2. "EXPIRED" \in PlayStates
  BY DEF PlayStates
<1> HIDE DEF items
<1>3. PurchaseOK(p)
  BY <1>1, <1>2, BecomesOK
<1>4. Ended(t) = [google EXCEPT ![t] = p]
  BY DEF Ended, items
<1> HIDE DEF p
<1> QED  BY <1>3, <1>4 DEF Inv

(* The steps of Google leave everything of the server's as it is.          *)
LEMMA GoogleKeeps ==
  ASSUME ConstantsAssumption, Inv, UNCHANGED <<rows, biz, calls, now, granted>>,
         google' \in [Tokens -> {google'[u] : u \in Tokens}],
         \A u \in Tokens : PurchaseOK(google'[u]),
         rtdn' \subseteq Notification, queued' \subseteq Tokens
  PROVE  Inv'
<1>1. /\ rows' \in [Tokens -> {rows'[u] : u \in Tokens}]
      /\ \A u \in Tokens : RowOK(u, rows[u])'
  BY DEF Inv, RowOK, Bound
<1>2. /\ calls' \in [Calls -> {calls'[c] : c \in Calls}]
      /\ \A c \in Calls : CallOK(calls[c])'
  BY DEF Inv, CallOK, Bound
<1>3. \A u \in Tokens : PurchaseOK(google[u])'
  BY DEF PurchaseOK, Shape
<1> QED  BY <1>1, <1>2, <1>3 DEF Inv

(* One purchase changes, perhaps along with the one it replaces.           *)
LEMMA BecomesKeeps ==
  ASSUME ConstantsAssumption, Inv, UNCHANGED <<rows, biz, calls, now, granted>>,
         NEW g, g \in [Tokens -> {g[u] : u \in Tokens}], \A u \in Tokens : PurchaseOK(g[u]),
         NEW t \in Tokens, NEW state \in PlayStates,
         NEW items \in SUBSET LineItem, Shape(items), items # {},
         google' = [g EXCEPT ![t] = Becomes(t, state, items)],
         rtdn' \subseteq Notification, queued' \subseteq Tokens
  PROVE  Inv'
<1>1. PICK p : p = Becomes(t, state, items) /\ PurchaseOK(p)
  BY BecomesOK
<1>2. google' \in [Tokens -> {google'[u] : u \in Tokens}]
      /\ \A u \in Tokens : google'[u] = g[u] \/ google'[u] = p
  BY <1>1
<1>3. \A u \in Tokens : PurchaseOK(google'[u])
  BY <1>1, <1>2
<1> QED  BY <1>2, <1>3, GoogleKeeps

LEMMA NotificationsTyped ==
  ASSUME NEW t \in Tokens, NEW type \in Types
  PROVE  Told(t, type) \subseteq Notification
BY DEF Told, Notification

LEMMA ToldTyped ==
  ASSUME Inv, NEW t \in Tokens, NEW type \in Types
  PROVE  rtdn \cup Told(t, type) \subseteq Notification /\ queued \cup {t} \subseteq Tokens
BY NotificationsTyped DEF Inv

LEMMA PurchaseKeeps ==
  ASSUME ConstantsAssumption, Inv, NEW t \in Tokens, NEW p \in Products, Purchase(t, p)
  PROVE  Inv'
<1> DEFINE items == {Owned(p, now + Period)}
<1>1. items \in SUBSET LineItem /\ Shape(items) /\ items # {}
  <2>1. now + Period \in Nat /\ now + Period <= MaxNow + Period
    BY TimesTyped
  <2> QED  BY <2>1, OneItem
<1>2. "ACTIVE" \in PlayStates /\ "other" \in Types
  BY DEF PlayStates, Types
<1>3. google' = [google EXCEPT ![t] = Becomes(t, "ACTIVE", items)]
  BY DEF Purchase
<1>4. /\ UNCHANGED <<rows, biz, calls, now, granted>>
      /\ rtdn' \subseteq Notification /\ queued' \subseteq Tokens
  BY <1>2, ToldTyped DEF Purchase, Event
<1>5. google \in [Tokens -> {google[u] : u \in Tokens}] /\ \A u \in Tokens : PurchaseOK(google[u])
  BY DEF Inv
<1> HIDE DEF items
<1> QED  BY <1>1, <1>2, <1>3, <1>4, <1>5, BecomesKeeps

LEMMA DeferredItems ==
  ASSUME ConstantsAssumption, NEW p \in Products, NEW e \in Nat, e <= MaxNow + Period
  PROVE  LET items == {Holder(p, e), NotOwned("basic", e + Period)}
         IN  items \in SUBSET LineItem /\ Shape(items) /\ items # {}
<1>1. e \in Time /\ e + Period \in Time
  BY DEF ConstantsAssumption, Time
<1>2. PICK h, n : h = Holder(p, e) /\ n = NotOwned("basic", e + Period)
  OBVIOUS
<1>3. h \in LineItem /\ h.deferred /\ h.expiry = e /\ n \in LineItem /\ ~n.deferred
  BY <1>1, <1>2 DEF Holder, NotOwned, LineItem, Products
<1> QED  BY <1>2, <1>3 DEF Shape

LEMMA SwitchKeeps ==
  ASSUME ConstantsAssumption, Inv, NEW t \in Tokens, NEW how \in {"now", "pending", "deferred"},
         SwitchTo(t, how)
  PROVE  Inv'
<1> DEFINE o == Link[t]
           g == IF how = "pending" THEN google ELSE Ended(o)
           state == IF how = "pending" THEN "PENDING" ELSE "ACTIVE"
           items == CASE how = "pending" -> {NotOwned("premium", 0)}
                      [] how = "now" -> {Owned("premium", now + Period)}
                      [] how = "deferred" ->
                           {Holder(ParseSubscriptionV2(google[o]).product, ExpiryOf(o)),
                            NotOwned("basic", ExpiryOf(o) + Period)}
<1>1. o \in Tokens /\ google[o].state # "none"
  BY DEF SwitchTo, ConstantsAssumption
<1>2. items \in SUBSET LineItem /\ Shape(items) /\ items # {}
  <2>1. /\ now + Period \in Nat /\ now + Period <= MaxNow + Period
        /\ 0 \in Nat /\ 0 <= MaxNow + Period
    BY TimesTyped
  <2>2. "premium" \in Products
    BY DEF Products
  <2>3. CASE how = "pending"
    BY <2>1, <2>2, <2>3, OneItem
  <2>4. CASE how = "now"
    BY <2>1, <2>2, <2>4, OneItem
  <2>5. CASE how = "deferred"
    <3>1. /\ ExpiryOf(o) \in Nat /\ ExpiryOf(o) <= MaxNow + Period
          /\ ParseSubscriptionV2(google[o]).product \in Products
      BY <1>1, LiveParsed
    <3>2. items = {Holder(ParseSubscriptionV2(google[o]).product, ExpiryOf(o)),
                   NotOwned("basic", ExpiryOf(o) + Period)}
      BY <2>5
    <3> HIDE DEF items
    <3> QED  BY <3>1, <3>2, DeferredItems
  <2> QED  BY <2>3, <2>4, <2>5
<1>3. g \in [Tokens -> {g[u] : u \in Tokens}] /\ \A u \in Tokens : PurchaseOK(g[u])
  <2>1. CASE how = "pending"
    BY <2>1 DEF Inv
  <2>2. CASE how # "pending"
    <3>1. g = Ended(o)
      BY <2>2
    <3> HIDE DEF g
    <3> QED  BY <1>1, <3>1, EndedOK
  <2> QED  BY <2>1, <2>2
<1>4. state \in PlayStates
  BY DEF PlayStates
<1>5. google' = [g EXCEPT ![t] = Becomes(t, state, items)]
  BY DEF SwitchTo
<1>6. /\ UNCHANGED <<rows, biz, calls, now, granted>>
      /\ rtdn' \subseteq Notification /\ queued' \subseteq Tokens
  <2>1. "other" \in Types
    BY DEF Types
  <2>2. /\ rtdn \subseteq Notification /\ queued \subseteq Tokens
        /\ Told(t, "other") \subseteq Notification /\ Told(o, "other") \subseteq Notification
    BY <1>1, <2>1, NotificationsTyped DEF Inv
  <2> QED  BY <2>2 DEF SwitchTo, Event
<1> HIDE DEF g, state, items
<1> QED  BY <1>2, <1>3, <1>4, <1>5, <1>6, BecomesKeeps

LEMMA SettleKeeps ==
  ASSUME ConstantsAssumption, Inv, NEW t \in Tokens, NEW paid \in BOOLEAN, PendingSettles(t, paid)
  PROVE  Inv'
<1> DEFINE o == Link[t]
           p == Latest(google[t].items).product
           live == paid /\ o # NoToken /\ (Running(o) \/ google[o].state = "ON_HOLD")
           g == IF live THEN Ended(o) ELSE google
           state == IF paid THEN "ACTIVE" ELSE "PENDING_PURCHASE_CANCELED"
           items == IF paid THEN {Owned(p, now + Period)} ELSE {NotOwned(p, 0)}
<1>1. google[t].state # "none"
  BY DEF PendingSettles
<1>2. items \in SUBSET LineItem /\ Shape(items) /\ items # {}
  <2>1. /\ now + Period \in Nat /\ now + Period <= MaxNow + Period
        /\ 0 \in Nat /\ 0 <= MaxNow + Period
    BY TimesTyped
  <2>2. p \in Products
    BY <1>1, LiveParsed
  <2> HIDE DEF p
  <2> QED  BY <2>1, <2>2, OneItem
<1>3. live => o \in Tokens /\ google[o].state # "none"
  BY DEF Running, ConstantsAssumption
<1>4. g \in [Tokens -> {g[u] : u \in Tokens}] /\ \A u \in Tokens : PurchaseOK(g[u])
  <2>1. CASE ~live
    BY <2>1 DEF Inv
  <2>2. CASE live
    <3>1. g = Ended(o) /\ o \in Tokens /\ google[o].state # "none"
      BY <1>3, <2>2
    <3> HIDE DEF g
    <3> QED  BY <3>1, EndedOK
  <2> QED  BY <2>1, <2>2
<1>5. state \in PlayStates
  BY DEF PlayStates
<1>6. google' = [g EXCEPT ![t] = Becomes(t, state, items)]
  BY DEF PendingSettles
<1>7. /\ UNCHANGED <<rows, biz, calls, now, granted>>
      /\ rtdn' \subseteq Notification /\ queued' \subseteq Tokens
  <2>1. "other" \in Types
    BY DEF Types
  <2>2. /\ rtdn \subseteq Notification /\ queued \subseteq Tokens
        /\ Told(t, "other") \subseteq Notification
        /\ live => Told(o, "other") \subseteq Notification
    BY <1>3, <2>1, NotificationsTyped DEF Inv
  <2> QED  BY <2>2 DEF PendingSettles, Event
<1> HIDE DEF g, state, items
<1> QED  BY <1>2, <1>4, <1>5, <1>6, <1>7, BecomesKeeps

LEMMA PeriodKeeps ==
  ASSUME ConstantsAssumption, Inv, NEW t \in Tokens, NEW state \in PlayStates, PeriodEnds(t, state)
  PROVE  Inv'
<1> DEFINE p == Latest(google[t].items).product
           e == CASE state = "ACTIVE" -> now + Period
                  [] state = "IN_GRACE_PERIOD" -> now + 1
                  [] OTHER -> now
           items == {Owned(p, e)}
<1>1. google[t].state # "none"
  BY DEF PeriodEnds, PeriodOver, Running
<1>2. p \in Products /\ e \in Nat /\ e <= MaxNow + Period
  <2>1. p \in Products
    BY <1>1, LiveParsed
  <2> HIDE DEF p
  <2> QED  BY <2>1, TimesTyped
<1>3. items \in SUBSET LineItem /\ Shape(items) /\ items # {}
  <2> HIDE DEF p, e
  <2> QED  BY <1>2, OneItem
<1>4. google' = [google EXCEPT ![t] = Becomes(t, state, items)]
  BY DEF PeriodEnds
<1>5. /\ UNCHANGED <<rows, biz, calls, now, granted>>
      /\ rtdn' \subseteq Notification /\ queued' \subseteq Tokens
  <2>1. "other" \in Types
    BY DEF Types
  <2> QED  BY <2>1, ToldTyped DEF Inv, PeriodEnds, Event
<1>6. google \in [Tokens -> {google[u] : u \in Tokens}] /\ \A u \in Tokens : PurchaseOK(google[u])
  BY DEF Inv
<1> HIDE DEF items
<1> QED  BY <1>3, <1>4, <1>5, <1>6, BecomesKeeps

LEMMA CancelKeeps ==
  ASSUME ConstantsAssumption, Inv, NEW t \in Tokens, Cancel(t)
  PROVE  Inv'
<1>1. PICK items : items = google[t].items
  OBVIOUS
<1>2. items \in SUBSET LineItem /\ Shape(items) /\ items # {}
  BY <1>1 DEF Inv, PurchaseOK, PurchaseType, Cancel
<1>3. google' = [google EXCEPT ![t] = Becomes(t, "CANCELED", items)]
  BY <1>1 DEF Cancel
<1>4. /\ UNCHANGED <<rows, biz, calls, now, granted>>
      /\ rtdn' \subseteq Notification /\ queued' \subseteq Tokens
  <2>1. "other" \in Types
    BY DEF Types
  <2> QED  BY <2>1, ToldTyped DEF Inv, Cancel, Event
<1>5. google \in [Tokens -> {google[u] : u \in Tokens}] /\ \A u \in Tokens : PurchaseOK(google[u])
  BY DEF Inv
<1>6. "CANCELED" \in PlayStates
  BY DEF PlayStates
<1> QED  BY <1>2, <1>3, <1>4, <1>5, <1>6, BecomesKeeps

LEMMA RevokeKeeps ==
  ASSUME ConstantsAssumption, Inv, NEW t \in Tokens, Revoke(t)
  PROVE  Inv'
<1>1. google[t].state # "none" /\ google' = Ended(t)
  BY DEF Revoke, Running
<1>2. PICK g : g = Ended(t) /\ g \in [Tokens -> {g[u] : u \in Tokens}]
                            /\ \A u \in Tokens : PurchaseOK(g[u])
  BY <1>1, EndedOK
<1>3. google' = g
  BY <1>1, <1>2
<1>4. google' \in [Tokens -> {google'[u] : u \in Tokens}] /\ \A u \in Tokens : PurchaseOK(google'[u])
  BY <1>2, <1>3
<1>5. /\ UNCHANGED <<rows, biz, calls, now, granted>>
      /\ rtdn' \subseteq Notification /\ queued' \subseteq Tokens
  <2>1. RTDN_REVOKED \in Types
    BY DEF Types
  <2> QED  BY <2>1, ToldTyped DEF Inv, Revoke, Event
<1> QED  BY <1>4, <1>5, GoogleKeeps

LEMMA GoogleStepKeeps == ASSUME ConstantsAssumption, Inv, GoogleStep PROVE Inv'
<1>1. FirstPlans \subseteq Products
  BY DEF ConstantsAssumption
<1> QED
  BY <1>1, PurchaseKeeps, SwitchKeeps, SettleKeeps, PeriodKeeps, CancelKeeps, RevokeKeeps
  DEF GoogleStep

-----------------------------------------------------------------------------
(* The clock and the admin.                                                *)
LEMMA GoogleSame ==
  ASSUME Inv, google' = google
  PROVE  /\ google' \in [Tokens -> {google'[u] : u \in Tokens}]
         /\ \A u \in Tokens : PurchaseOK(google[u])'
<1>1. google' \in [Tokens -> {google'[u] : u \in Tokens}] /\ \A u \in Tokens : PurchaseOK(google'[u])
  BY DEF Inv
<1> QED  BY <1>1 DEF PurchaseOK, Shape

LEMMA TickKeeps == ASSUME ConstantsAssumption, Inv, Tick PROVE Inv'
<1>1. now' \in 0..MaxNow
  BY TimesTyped DEF Tick
<1>2. /\ rows' \in [Tokens -> {rows'[u] : u \in Tokens}]
      /\ \A u \in Tokens : RowOK(u, rows[u])'
  BY DEF Inv, RowOK, Bound, Tick
<1>3. /\ calls' \in [Calls -> {calls'[c] : c \in Calls}]
      /\ \A c \in Calls : CallOK(calls[c])'
  BY DEF Inv, CallOK, Bound, Tick
<1>4. /\ google' \in [Tokens -> {google'[u] : u \in Tokens}]
      /\ \A u \in Tokens : PurchaseOK(google[u])'
  BY GoogleSame DEF Tick
<1> QED  BY <1>1, <1>2, <1>3, <1>4 DEF Inv, Tick

LEMMA AdminKeeps ==
  ASSUME ConstantsAssumption, Inv, NEW g \in Grants, AdminGrants(g[1], g[2], g[3])
  PROVE  Inv'
<1>1. PICK b, p, e : b = g[1] /\ p = g[2] /\ e = g[3]
  OBVIOUS
<1>2. b \in Businesses /\ p \in Products /\ e \in Time
  <2>1. g \in Businesses \X Products \X (0..MaxNow)
    BY DEF ConstantsAssumption
  <2>2. b \in Businesses /\ p \in Products /\ e \in 0..MaxNow
    BY <1>1, <2>1
  <2> QED  BY <2>2 DEF Time, ConstantsAssumption
<1>3. AdminGrants(b, p, e)
  BY <1>1
<1>4. PICK i : i = IF /\ <<p, e>> # <<biz[b].plan, biz[b].end>>
                      /\ stamp[b] # [plan |-> p, end |-> e]
                   THEN "none" ELSE biz[b].issue
  OBVIOUS
<1>5. i \in {"none", "grace", "hold"} /\ p # "free"
  BY <1>2, <1>4 DEF Inv, BizType, Products
<1>6. PICK r : r = [plan |-> p, end |-> e, issue |-> i]
  OBVIOUS
<1>7. biz' = [biz EXCEPT ![b] = r] /\ granted' = [granted EXCEPT ![b] = TRUE]
  BY <1>3, <1>4, <1>6 DEF AdminGrants
<1>8. /\ biz' \in [Businesses -> BizType] /\ granted' \in [Businesses -> BOOLEAN]
      /\ \A x \in Businesses : granted'[x] => biz'[x].plan # "free"
  <2>1. r.plan # "free"
    BY <1>5, <1>6
  <2>2. r \in BizType
    BY <1>2, <1>5, <1>6 DEF BizType
  <2> QED  BY <1>2, <1>7, <2>1, <2>2 DEF Inv
<1>9. /\ rows' \in [Tokens -> {rows'[u] : u \in Tokens}]
      /\ \A u \in Tokens : RowOK(u, rows[u])'
  BY <1>3 DEF Inv, RowOK, Bound, AdminGrants
<1>10. /\ calls' \in [Calls -> {calls'[c] : c \in Calls}]
       /\ \A c \in Calls : CallOK(calls[c])'
  BY <1>3 DEF Inv, CallOK, Bound, AdminGrants
<1>11. /\ google' \in [Tokens -> {google'[u] : u \in Tokens}]
       /\ \A u \in Tokens : PurchaseOK(google[u])'
  BY <1>3, GoogleSame DEF AdminGrants
<1> QED  BY <1>3, <1>8, <1>9, <1>10, <1>11 DEF Inv, AdminGrants

-----------------------------------------------------------------------------
(* The invocations.                                                        *)
LEMMA CallMoves ==
  ASSUME Inv, NEW c \in Calls, NEW j, CallOK(j), calls' = [calls EXCEPT ![c] = j]
  PROVE  /\ calls' \in [Calls -> {calls'[x] : x \in Calls}]
         /\ \A x \in Calls : CallOK(calls'[x])
BY DEF Inv

LEMMA FinishMoves ==
  ASSUME Inv, NEW c \in Calls, Finish(c)
  PROVE  /\ calls' \in [Calls -> {calls'[x] : x \in Calls}]
         /\ \A x \in Calls : CallOK(calls'[x])
<1>1. CallOK(Idle)
  BY DEF CallOK
<1> QED  BY <1>1, CallMoves DEF Finish

(* A step of a call, which leaves the clock alone.                         *)
LEMMA CallKeeps ==
  ASSUME Inv, now' = now,
         calls' \in [Calls -> {calls'[x] : x \in Calls}], \A x \in Calls : CallOK(calls'[x]),
         google' = google \/ (/\ google' \in [Tokens -> {google'[u] : u \in Tokens}]
                              /\ \A u \in Tokens : PurchaseOK(google'[u])),
         rows' = rows \/ (/\ rows' \in [Tokens -> {rows'[u] : u \in Tokens}]
                          /\ \A u \in Tokens : RowOK(u, rows'[u])),
         UNCHANGED <<biz, granted>> \/
           (/\ biz' \in [Businesses -> BizType] /\ granted' \in [Businesses -> BOOLEAN]
            /\ \A b \in Businesses : granted'[b] => biz'[b].plan # "free"),
         rtdn' \subseteq Notification, queued' \subseteq Tokens
  PROVE  Inv'
<1>1. \A x \in Calls : CallOK(calls[x])'
  BY DEF CallOK, Bound
<1>2. /\ google' \in [Tokens -> {google'[u] : u \in Tokens}]
      /\ \A u \in Tokens : PurchaseOK(google'[u])
  BY DEF Inv
<1>3. \A u \in Tokens : PurchaseOK(google[u])'
  BY <1>2 DEF PurchaseOK, Shape
<1>4. /\ rows' \in [Tokens -> {rows'[u] : u \in Tokens}]
      /\ \A u \in Tokens : RowOK(u, rows'[u])
  BY DEF Inv
<1>5. \A u \in Tokens : RowOK(u, rows[u])'
  BY <1>4 DEF RowOK, Bound
<1>6. /\ biz' \in [Businesses -> BizType] /\ granted' \in [Businesses -> BOOLEAN]
      /\ \A b \in Businesses : granted'[b] => biz'[b].plan # "free"
  BY DEF Inv
<1> QED  BY <1>1, <1>2, <1>3, <1>4, <1>5, <1>6 DEF Inv

LEMMA PostedTyped ==
  ASSUME NEW k, CallOK(k), k # Idle
  PROVE  Notified(k) \subseteq Notification /\ Posted(k) \subseteq Tokens
BY DEF CallOK, Notified, Posted, Told, Notification

LEMMA BeginVerifyKeeps ==
  ASSUME Inv, NEW c \in Calls, NEW b \in Businesses, NEW t \in Tokens, BeginVerify(c, b, t)
  PROVE  Inv'
<1>1. PICK j : j = [phase |-> "fetch", kind |-> "verify", token |-> t, business |-> b,
                    type |-> "none"]
  OBVIOUS
<1>2. CallOK(j)
  BY <1>1 DEF CallOK, Answered, WithBusiness, WithPrior
<1>3. calls' = [calls EXCEPT ![c] = j]
  BY <1>1 DEF BeginVerify
<1>4. /\ now' = now /\ google' = google /\ rows' = rows /\ UNCHANGED <<biz, granted>>
      /\ rtdn' \subseteq Notification /\ queued' \subseteq Tokens
  BY DEF BeginVerify, UnchangedStore, Inv
<1> QED  BY <1>2, <1>3, <1>4, CallMoves, CallKeeps

LEMMA BeginRtdnKeeps ==
  ASSUME Inv, NEW c \in Calls, NEW n \in rtdn, NEW read \in BOOLEAN, BeginRtdn(c, n, read)
  PROVE  Inv'
<1>1. n \in Notification
  BY DEF Inv
<1>2. n.token \in Tokens /\ n.type \in Types
  BY <1>1 DEF Notification
<1>3. PICK b : b = IF ~read \/ rows[n.token] = NoRow THEN NoBusiness ELSE rows[n.token].business
  OBVIOUS
<1>4. b = NoBusiness \/ (b \in Businesses /\ Bound(n.token, b))
  BY <1>2, <1>3 DEF Inv, RowOK, RowType
<1>5. PICK j : j = [phase |-> "fetch", kind |-> "rtdn", token |-> n.token, type |-> n.type,
                    business |-> b]
  OBVIOUS
<1>6. CallOK(j)
  BY <1>2, <1>4, <1>5 DEF CallOK, Answered, WithBusiness, WithPrior
<1>7. calls' = [calls EXCEPT ![c] = j]
  BY <1>3, <1>5 DEF BeginRtdn
<1>8. /\ now' = now /\ google' = google /\ rows' = rows /\ UNCHANGED <<biz, granted>>
      /\ rtdn' \subseteq Notification /\ queued' \subseteq Tokens
  BY DEF BeginRtdn, UnchangedStore, Inv
<1> QED  BY <1>6, <1>7, <1>8, CallMoves, CallKeeps

LEMMA FetchKeeps ==
  ASSUME ConstantsAssumption, Inv, NEW c \in Calls, FetchPurchase(c)
  PROVE  Inv'
<1>1. PICK k : k = calls[c]
  OBVIOUS
<1>2. CallOK(k) /\ k.phase = "fetch"
  BY <1>1 DEF Inv, FetchPurchase
<1>3. k # Idle /\ k.token \in Tokens
  BY <1>2 DEF CallOK, Idle
<1>4. PICK v : v = ParseSubscriptionV2(google[k.token])
  OBVIOUS
<1> DEFINE unbound == k.business = NoBusiness
           refused == v = NoAnswer \/ (k.kind = "verify" /\ AccountMismatch(k.business, k.token))
           forgotten == ~refused /\ unbound /\ Link[k.token] = NoToken
<1>5. calls' \in [Calls -> {calls'[x] : x \in Calls}] /\ \A x \in Calls : CallOK(calls'[x])
  <2>1. CASE refused \/ forgotten
    <3>1. Finish(c)
      BY <1>1, <1>4, <2>1 DEF FetchPurchase
    <3> QED  BY <3>1, FinishMoves
  <2>2. CASE ~(refused \/ forgotten)
    <3>1. PICK j : j = [phase |-> PhaseOnceFetched(k),
                        kind |-> k.kind, token |-> k.token, business |-> k.business,
                        type |-> k.type, v |-> v, ver |-> google[k.token].ver]
      OBVIOUS
    <3>2. calls' = [calls EXCEPT ![c] = j]
      BY <1>1, <1>4, <2>2, <3>1 DEF FetchPurchase
    <3>3. v \in Answer
      <4>1. PurchaseOK(google[k.token])
        BY <1>3 DEF Inv
      <4>2. google[k.token].items # {}
        BY <1>4, <2>2 DEF ParseSubscriptionV2
      <4> QED  BY <1>4, <4>1, <4>2, ParseTyped
    <3>4. unbound => Link[k.token] \in Tokens
      BY <1>3, <2>2 DEF ConstantsAssumption
    <3>5. ~unbound => k.business \in Businesses /\ Bound(k.token, k.business)
      BY <1>2, <1>3, <2>2 DEF CallOK, AccountMismatch, Bound
    <3>6. /\ j.phase = (IF unbound THEN "bind" ELSE "prior")
          /\ j.kind = k.kind /\ j.token = k.token /\ j.business = k.business
          /\ j.type = k.type /\ j.v = v
      BY <3>1 DEF PhaseOnceFetched
    <3>7. k.kind \in {"verify", "rtdn"} /\ (k.kind = "rtdn" => k.type \in Types)
      BY <1>2, <1>3 DEF CallOK
    <3>8. AnswerFields(j)
      BY <3>1 DEF AnswerFields
    <3>9. CallOK(j)
      <4>1. CASE unbound
        BY <1>3, <3>3, <3>4, <3>6, <3>7, <3>8, <4>1 DEF CallOK, Answered, WithBusiness, WithPrior
      <4>2. CASE ~unbound
        BY <1>3, <3>3, <3>5, <3>6, <3>7, <3>8, <4>2 DEF CallOK, Answered, WithBusiness, WithPrior
      <4> QED  BY <4>1, <4>2
    <3> QED  BY <3>2, <3>9, CallMoves
  <2> QED  BY <2>1, <2>2
<1>6. /\ now' = now /\ google' = google /\ rows' = rows /\ UNCHANGED <<biz, granted>>
      /\ rtdn' \subseteq Notification /\ queued' \subseteq Tokens
  <2>1. Posted(k) \subseteq Tokens
    BY <1>2, <1>3, PostedTyped
  <2> QED  BY <1>1, <2>1 DEF FetchPurchase, Inv
<1> QED  BY <1>5, <1>6, CallKeeps

(* The next stage of a call: its phase moves on, the rest stays.           *)
LEMMA PhaseMoves ==
  ASSUME Inv, NEW c \in Calls, calls[c].phase \in WithPrior,
         NEW phase \in WithPrior, calls' = [calls EXCEPT ![c].phase = phase]
  PROVE  /\ calls' \in [Calls -> {calls'[x] : x \in Calls}]
         /\ \A x \in Calls : CallOK(calls'[x])
<1>1. PICK k : k = calls[c]
  OBVIOUS
<1>2. PICK j : j = [k EXCEPT !.phase = phase]
  OBVIOUS
<1>3. CallOK(k) /\ k # Idle
  BY <1>1 DEF Inv, Idle, WithPrior, WithBusiness, Answered
<1>4. calls' = [calls EXCEPT ![c] = j]
  BY <1>1, <1>2
<1>5. k = [phase |-> k.phase, kind |-> k.kind, token |-> k.token, business |-> k.business,
           type |-> k.type, v |-> k.v, ver |-> k.ver, prior |-> k.prior]
  BY <1>1, <1>3 DEF CallOK, PriorFields
<1>6. j = [phase |-> phase, kind |-> k.kind, token |-> k.token, business |-> k.business,
           type |-> k.type, v |-> k.v, ver |-> k.ver, prior |-> k.prior]
  BY <1>2, <1>5
<1>7. /\ j.phase = phase /\ j.kind = k.kind /\ j.token = k.token /\ j.business = k.business
      /\ j.type = k.type /\ j.v = k.v /\ j.ver = k.ver /\ j.prior = k.prior
  BY <1>6
<1>8. PriorFields(j)
  BY <1>6, <1>7 DEF PriorFields
<1>9. phase \notin {"fetch", "bind", "prior"} /\ phase \in Answered /\ phase \in WithBusiness
  BY DEF WithPrior, WithBusiness, Answered
<1>10. /\ k.token \in Tokens /\ k.kind \in {"verify", "rtdn"} /\ (k.kind = "rtdn" => k.type \in Types)
       /\ k.business \in Businesses /\ Bound(k.token, k.business) /\ k.v \in Answer
       /\ k.prior = NoPrior \/ k.prior \in Prior
  BY <1>1, <1>3 DEF CallOK, WithPrior, WithBusiness
<1>11. CallOK(j)
  BY <1>7, <1>8, <1>9, <1>10 DEF CallOK
<1> QED  BY <1>4, <1>11, CallMoves

LEMMA BindKeeps ==
  ASSUME ConstantsAssumption, Inv, NEW c \in Calls, NEW read \in BOOLEAN,
         BindUnknownToken(c, read)
  PROVE  Inv'
<1>1. PICK k : k = calls[c]
  OBVIOUS
<1>2. CallOK(k) /\ k.phase = "bind"
  BY <1>1 DEF Inv, BindUnknownToken
<1>3. k # Idle
  BY <1>2 DEF Idle
<1>4. /\ k.token \in Tokens /\ Link[k.token] \in Tokens /\ k.v \in Answer
      /\ k.kind \in {"verify", "rtdn"} /\ (k.kind = "rtdn" => k.type \in Types)
      /\ AnswerFields(k)
  BY <1>2, <1>3 DEF CallOK, Answered
<1>5. PICK b : b = BusinessForUnknownToken(k.token, IF read THEN rows[Link[k.token]] ELSE NoRow)
  OBVIOUS
<1>6. calls' \in [Calls -> {calls'[x] : x \in Calls}] /\ \A x \in Calls : CallOK(calls'[x])
  <2>1. CASE b = NoBusiness
    <3>1. Finish(c)
      BY <1>1, <1>5, <2>1 DEF BindUnknownToken
    <3> QED  BY <3>1, FinishMoves
  <2>2. CASE b # NoBusiness
    <3>1. b \in Businesses /\ Bound(k.token, b)
      BY <1>4, <1>5, <2>2 DEF BusinessForUnknownToken, Inv, RowOK, RowType, Bound
    <3>2. PICK j : j = [k EXCEPT !.business = b, !.phase = "prior"]
      OBVIOUS
    <3>3. calls' = [calls EXCEPT ![c] = j]
      BY <1>1, <1>5, <2>2, <3>2 DEF BindUnknownToken
    <3>4. j = [phase |-> "prior", kind |-> k.kind, token |-> k.token, business |-> b,
               type |-> k.type, v |-> k.v, ver |-> k.ver]
      BY <1>4, <3>2 DEF AnswerFields
    <3>5. /\ j.phase = "prior" /\ j.kind = k.kind /\ j.token = k.token /\ j.business = b
          /\ j.type = k.type /\ j.v = k.v /\ j.ver = k.ver
      BY <3>4
    <3>6. AnswerFields(j)
      BY <3>4, <3>5 DEF AnswerFields
    <3>7. CallOK(j)
      BY <1>4, <3>1, <3>5, <3>6 DEF CallOK, Answered, WithBusiness, WithPrior
    <3> QED  BY <3>3, <3>7, CallMoves
  <2> QED  BY <2>1, <2>2
<1>7. /\ now' = now /\ google' = google /\ rows' = rows /\ UNCHANGED <<biz, granted>>
      /\ rtdn' \subseteq Notification /\ queued' \subseteq Tokens
  BY DEF BindUnknownToken, Inv
<1> QED  BY <1>6, <1>7, CallKeeps

LEMMA PriorKeeps ==
  ASSUME Inv, NEW c \in Calls, NEW ok \in BOOLEAN, AcknowledgeAndReadPrior(c, ok)
  PROVE  Inv'
<1>1. PICK k : k = calls[c]
  OBVIOUS
<1>2. CallOK(k) /\ k.phase = "prior"
  BY <1>1 DEF Inv, AcknowledgeAndReadPrior
<1>3. k # Idle
  BY <1>2 DEF Idle
<1>4. /\ k.token \in Tokens /\ k.v \in Answer
      /\ k.kind \in {"verify", "rtdn"} /\ (k.kind = "rtdn" => k.type \in Types)
      /\ k.business \in Businesses /\ Bound(k.token, k.business)
  BY <1>2, <1>3 DEF CallOK, Answered, WithBusiness
<1>5. PICK r : r = rows[k.token]
  OBVIOUS
<1>6. PICK prior : prior = IF r = NoRow THEN NoPrior
                           ELSE [state |-> r.state, expiry |-> r.expiry,
                                 replacedBy |-> r.replacedBy]
  OBVIOUS
<1>7. prior = NoPrior \/ prior \in Prior
  BY <1>4, <1>5, <1>6 DEF Inv, RowOK, RowType, Prior
<1>8. PICK j : j = [phase |-> "upsert", kind |-> k.kind, token |-> k.token,
                    business |-> k.business, type |-> k.type, v |-> k.v, ver |-> k.ver,
                    prior |-> prior]
  OBVIOUS
<1>9. CallOK(j)
  <2>1. /\ j.phase = "upsert" /\ j.kind = k.kind /\ j.token = k.token /\ j.business = k.business
        /\ j.type = k.type /\ j.v = k.v /\ j.ver = k.ver /\ j.prior = prior
    BY <1>8
  <2>2. PriorFields(j)
    BY <1>8, <2>1 DEF PriorFields
  <2> QED  BY <1>4, <1>7, <2>1, <2>2 DEF CallOK, Answered, WithBusiness, WithPrior
<1>10. calls' = [calls EXCEPT ![c] = j]
  BY <1>1, <1>5, <1>6, <1>8 DEF AcknowledgeAndReadPrior
<1>11. google' = google \/ (/\ google' \in [Tokens -> {google'[u] : u \in Tokens}]
                            /\ \A u \in Tokens : PurchaseOK(google'[u]))
  <2>1. CASE ~ok
    BY <2>1 DEF AcknowledgeAndReadPrior
  <2>2. CASE ok
    <3>1. PICK g : g = google[k.token] /\ g \in PurchaseType /\ PurchaseOK(g)
      BY <1>4 DEF Inv, PurchaseOK
    <3>2. PICK p : p = [g EXCEPT !.acked = TRUE]
      OBVIOUS
    <3>3. p \in PurchaseType /\ p.items = g.items /\ p.state = g.state
      BY <3>1, <3>2 DEF PurchaseType
    <3>4. PurchaseOK(p)
      BY <3>1, <3>3 DEF PurchaseOK
    <3>5. google' = [google EXCEPT ![k.token] = p]
      BY <1>1, <2>2, <3>1, <3>2 DEF AcknowledgeAndReadPrior
    <3> QED  BY <3>4, <3>5 DEF Inv
  <2> QED  BY <2>1, <2>2
<1>12. /\ now' = now /\ rows' = rows /\ UNCHANGED <<biz, granted>>
       /\ rtdn' \subseteq Notification /\ queued' \subseteq Tokens
  BY DEF AcknowledgeAndReadPrior, UnchangedStore, Inv
<1>13. calls' \in [Calls -> {calls'[x] : x \in Calls}] /\ \A x \in Calls : CallOK(calls'[x])
  BY <1>9, <1>10, CallMoves
<1> QED  BY <1>11, <1>12, <1>13, CallKeeps

LEMMA UpsertKeeps ==
  ASSUME ConstantsAssumption, Inv, NEW c \in Calls, UpsertRow(c)
  PROVE  Inv'
<1>1. PICK k : k = calls[c]
  OBVIOUS
<1>2. CallOK(k) /\ k.phase = "upsert"
  BY <1>1 DEF Inv, UpsertRow
<1>3. k # Idle
  BY <1>2 DEF Idle
<1>4. /\ k.token \in Tokens /\ k.v \in Answer
      /\ k.business \in Businesses /\ Bound(k.token, k.business)
  BY <1>2, <1>3 DEF CallOK, Answered, WithBusiness
<1>5. PICK r : r = Upserted(c)
  OBVIOUS
<1>6. r \in RowType /\ r.business = k.business
  <2>1. PICK x : x = IF rows[k.token] = NoRow THEN NoToken ELSE rows[k.token].replacedBy
    OBVIOUS
  <2>2. x \in Tokens \cup {NoToken}
    BY <1>4, <2>1 DEF Inv, RowOK, RowType
  <2>3. r = [business |-> k.business, product |-> k.v.product, state |-> k.v.state,
             expiry |-> k.v.expiry, replacedBy |-> x]
    BY <1>1, <1>5, <2>1 DEF Upserted
  <2> QED  BY <1>4, <2>2, <2>3 DEF RowType, Answer
<1>7. rows' = [rows EXCEPT ![k.token] = r]
  BY <1>1, <1>5 DEF UpsertRow
<1>8. rows' \in [Tokens -> {rows'[u] : u \in Tokens}] /\ \A u \in Tokens : RowOK(u, rows'[u])
  <2>1. RowOK(k.token, r)
    BY <1>4, <1>6 DEF RowOK
  <2> QED  BY <1>7, <2>1 DEF Inv
<1>9. calls' \in [Calls -> {calls'[x] : x \in Calls}] /\ \A x \in Calls : CallOK(calls'[x])
  <2>1. PICK phase \in WithPrior : calls' = [calls EXCEPT ![c].phase = phase]
    BY DEF UpsertRow, WithPrior, WithBusiness, Answered
  <2>2. calls[c].phase \in WithPrior
    BY <1>1, <1>2 DEF WithPrior, WithBusiness, Answered
  <2> QED  BY <2>1, <2>2, PhaseMoves
<1>10. /\ now' = now /\ google' = google /\ UNCHANGED <<biz, granted>>
       /\ rtdn' \subseteq Notification /\ queued' \subseteq Tokens
  BY DEF UpsertRow, Inv
<1> QED  BY <1>8, <1>9, <1>10, CallKeeps

LEMMA SupersedeKeeps ==
  ASSUME Inv, NEW c \in Calls, SupersedeOld(c)
  PROVE  Inv'
<1>1. PICK k : k = calls[c]
  OBVIOUS
<1>2. CallOK(k) /\ k # Idle
  BY <1>1 DEF Inv, SupersedeOld, Idle
<1>3. k.token \in Tokens
  BY <1>2 DEF CallOK
<1>4. PICK o : o = ReplacedToken(k.token)
  OBVIOUS
<1>5. rows' = rows \/ (/\ rows' \in [Tokens -> {rows'[u] : u \in Tokens}]
                       /\ \A u \in Tokens : RowOK(u, rows'[u]))
  <2>1. CASE rows[o] # NoRow /\ o \in Tokens /\ rows' = [rows EXCEPT ![o].replacedBy = k.token]
    <3>1. PICK r : r = rows[o] /\ r \in RowType /\ Bound(o, r.business)
      BY <2>1 DEF Inv, RowOK
    <3>2. PICK n : n = [r EXCEPT !.replacedBy = k.token]
      OBVIOUS
    <3>3. n \in RowType /\ n.business = r.business
      BY <1>3, <3>1, <3>2 DEF RowType
    <3>4. RowOK(o, n)
      BY <3>1, <3>3 DEF RowOK
    <3>5. rows' = [rows EXCEPT ![o] = n]
      BY <2>1, <3>1, <3>2
    <3> QED  BY <3>4, <3>5 DEF Inv
  <2>2. CASE rows' = rows
    BY <2>2
  <2>3. CASE o \notin Tokens /\ rows' = [rows EXCEPT ![o].replacedBy = k.token]
    BY <2>3 DEF Inv
  <2> QED  BY <1>1, <1>4, <2>1, <2>2, <2>3 DEF SupersedeOld
<1>6. calls' \in [Calls -> {calls'[x] : x \in Calls}] /\ \A x \in Calls : CallOK(calls'[x])
  <2>1. calls' = [calls EXCEPT ![c].phase = "apply"]
    BY DEF SupersedeOld
  <2>2. calls[c].phase \in WithPrior /\ "apply" \in WithPrior
    BY DEF SupersedeOld, WithPrior, WithBusiness, Answered
  <2> QED  BY <2>1, <2>2, PhaseMoves
<1>7. /\ now' = now /\ google' = google /\ UNCHANGED <<biz, granted>>
      /\ rtdn' \subseteq Notification /\ queued' \subseteq Tokens
  BY DEF SupersedeOld, Inv
<1> QED  BY <1>5, <1>6, <1>7, CallKeeps

LEMMA AppliedTyped ==
  ASSUME Inv, NEW b \in Businesses, NEW v \in Answer
  PROVE  Applied(b, v) \in BizType
<1>1. PICK r \in BizType : r = biz[b]
  BY DEF Inv
<1>2. [r EXCEPT !.issue = "none"] \in BizType
  BY DEF BizType
<1>3. \A i \in {"none", "grace", "hold"} :
        /\ [plan |-> v.product, end |-> v.expiry, issue |-> i] \in BizType
        /\ [plan |-> "free", end |-> v.expiry, issue |-> i] \in BizType
  BY DEF BizType, Answer
<1> QED  BY <1>1, <1>2, <1>3 DEF Applied

(* A grant that is still one after the call has its plan untouched.        *)
LEMMA ApplyStore ==
  ASSUME Inv, NEW b \in Businesses, NEW v \in Answer, ApplyPlayPurchase(b, v)
  PROVE  /\ biz' \in [Businesses -> BizType] /\ granted' \in [Businesses -> BOOLEAN]
         /\ \A x \in Businesses : granted'[x] => biz'[x].plan # "free"
<1>1. PICK r : r = Applied(b, v) /\ r \in BizType
  BY AppliedTyped
<1>2. biz' = [biz EXCEPT ![b] = r]
  BY <1>1 DEF ApplyPlayPurchase
<1>3. PICK g \in BOOLEAN : /\ g = (granted[b] /\ r.plan = biz[b].plan /\ ~Stamps(b, v))
                           /\ granted' = [granted EXCEPT ![b] = g]
  <2>1. PICK g : g = (granted[b] /\ r.plan = biz[b].plan /\ ~Stamps(b, v))
    OBVIOUS
  <2>2. g \in BOOLEAN
    BY <2>1
  <2>3. granted' = [granted EXCEPT ![b] = g]
    BY <1>1, <2>1 DEF ApplyPlayPurchase
  <2> QED  BY <2>1, <2>2, <2>3
<1>4. g => r.plan # "free"
  BY <1>3 DEF Inv
<1> QED  BY <1>1, <1>2, <1>3, <1>4 DEF Inv

LEMMA ApplyKeeps ==
  ASSUME Inv, NEW c \in Calls, NEW lost \in BOOLEAN, ApplyAndAnswer(c, lost)
  PROVE  Inv'
<1>1. PICK k : k = calls[c]
  OBVIOUS
<1>2. CallOK(k) /\ k.phase = "apply" /\ k # Idle
  BY <1>1 DEF Inv, ApplyAndAnswer, Idle
<1>3. k.business \in Businesses /\ k.v \in Answer
  BY <1>2 DEF CallOK, Answered, WithBusiness
<1>4. UNCHANGED <<biz, granted>> \/ ApplyPlayPurchase(k.business, k.v)
  BY <1>1 DEF ApplyAndAnswer
<1>5. UNCHANGED <<biz, granted>> \/
        (/\ biz' \in [Businesses -> BizType] /\ granted' \in [Businesses -> BOOLEAN]
         /\ \A b \in Businesses : granted'[b] => biz'[b].plan # "free")
  BY <1>3, <1>4, ApplyStore
<1>6. calls' \in [Calls -> {calls'[x] : x \in Calls}] /\ \A x \in Calls : CallOK(calls'[x])
  BY FinishMoves DEF ApplyAndAnswer
<1>7. /\ now' = now /\ google' = google /\ rows' = rows
      /\ rtdn' \subseteq Notification /\ queued' \subseteq Tokens
  BY <1>1, <1>2, PostedTyped DEF ApplyAndAnswer, Inv
<1> QED  BY <1>5, <1>6, <1>7, CallKeeps

LEMMA FailKeeps ==
  ASSUME Inv, NEW c \in Calls, CallFails(c)
  PROVE  Inv'
<1>1. PICK k : k = calls[c]
  OBVIOUS
<1>2. CallOK(k) /\ k # Idle
  BY <1>1 DEF Inv, CallFails, Idle
<1>3. calls' \in [Calls -> {calls'[x] : x \in Calls}] /\ \A x \in Calls : CallOK(calls'[x])
  BY FinishMoves DEF CallFails
<1>4. /\ now' = now /\ google' = google /\ rows' = rows /\ UNCHANGED <<biz, granted>>
      /\ rtdn' \subseteq Notification /\ queued' \subseteq Tokens
  BY <1>1, <1>2, PostedTyped DEF CallFails, UnchangedStore, Inv
<1> QED  BY <1>3, <1>4, CallKeeps

LEMMA StutterKeeps == ASSUME Inv, UNCHANGED vars PROVE Inv'
BY CallKeeps DEF vars, Inv

LEMMA NextKeeps == ASSUME ConstantsAssumption, Inv, [Next]_vars PROVE Inv'
<1>1. CASE GoogleStep
  BY <1>1, GoogleStepKeeps
<1>2. CASE Tick
  BY <1>2, TickKeeps
<1>3. CASE \E g \in Grants : AdminGrants(g[1], g[2], g[3])
  BY <1>3, AdminKeeps
<1>4. CASE \E c \in Calls : \/ \E b \in Businesses, t \in Tokens : BeginVerify(c, b, t)
                            \/ \E n \in rtdn, read \in BOOLEAN : BeginRtdn(c, n, read)
                            \/ CallFails(c)
  BY <1>4, BeginVerifyKeeps, BeginRtdnKeeps, FailKeeps
<1>5. CASE \E c \in Calls : Step(c)
  BY <1>5, FetchKeeps, BindKeeps, PriorKeeps, UpsertKeeps, SupersedeKeeps, ApplyKeeps DEF Step
<1>6. CASE UNCHANGED vars
  BY <1>6, StutterKeeps
<1> QED  BY <1>1, <1>2, <1>3, <1>4, <1>5, <1>6 DEF Next

LEMMA InvHolds == Spec => []Inv
<1>1. Init => Inv
  BY ConstantsAssumption, InitInv
<1>2. Inv /\ [Next]_vars => Inv'
  BY ConstantsAssumption, NextKeeps
<1> QED  BY <1>1, <1>2, PTL DEF Spec

-----------------------------------------------------------------------------
(* The types of the purchases, the rows, the plan and the calls.  Google's *)
(* answers always parse to a product, a state and an end date, whatever    *)
(* switches, renewals and refunds a purchase goes through (play.ts).       *)
THEOREM TypeCorrect == Spec => []TypeOK
<1>1. Inv => TypeOK
  BY InvTyped
<1> QED  BY <1>1, InvHolds, PTL

(* A purchase that carries the tag of a shop is only ever recorded for that *)
(* shop, by the verify call of any shop and by the link of a plan switch    *)
(* (index.ts: the account check of handleAppVerify, businessForUnknownToken *)
(* of play.ts), however many invocations interleave.                        *)
THEOREM BoundToShop == Spec => []BoundToAccount
<1>1. Inv => BoundToAccount
  BY InvBound
<1> QED  BY <1>1, InvHolds, PTL

(* Only the last step of an invocation writes the plan of a business, or an *)
(* admin does.                                                              *)
LEMMA OnlyApplyWrites ==
  ASSUME ConstantsAssumption, Inv, [Next]_vars, biz' # biz
  PROVE  \/ \E g \in Grants : AdminGrants(g[1], g[2], g[3])
         \/ \E b \in Businesses, v \in Answer : ApplyPlayPurchase(b, v)
<1>1. CASE GoogleStep
  BY <1>1 DEF GoogleStep, Purchase, SwitchTo, PendingSettles, PeriodEnds, Cancel, Revoke, Event
<1>2. CASE Tick
  BY <1>2 DEF Tick
<1>3. ASSUME NEW c \in Calls,
             \/ \E b \in Businesses, t \in Tokens : BeginVerify(c, b, t)
             \/ \E n \in rtdn, read \in BOOLEAN : BeginRtdn(c, n, read)
             \/ CallFails(c)
      PROVE  biz' = biz
  BY <1>3 DEF BeginVerify, BeginRtdn, CallFails, UnchangedStore
<1>4. ASSUME NEW c \in Calls, Step(c)
      PROVE  \E b \in Businesses, v \in Answer : ApplyPlayPurchase(b, v)
  <2>1. /\ ~(FetchPurchase(c) \/ UpsertRow(c) \/ SupersedeOld(c))
        /\ \A read \in BOOLEAN : ~BindUnknownToken(c, read)
    BY DEF FetchPurchase, BindUnknownToken, UpsertRow, SupersedeOld
  <2>2. \A ok \in BOOLEAN : ~AcknowledgeAndReadPrior(c, ok)
    BY DEF AcknowledgeAndReadPrior, UnchangedStore
  <2>3. PICK lost \in BOOLEAN : ApplyAndAnswer(c, lost)
    BY <1>4, <2>1, <2>2 DEF Step
  <2>4. PICK k : k = calls[c]
    OBVIOUS
  <2>5. CallOK(k) /\ k.phase = "apply" /\ k # Idle
    BY <2>3, <2>4 DEF Inv, ApplyAndAnswer, Idle
  <2>6. k.business \in Businesses /\ k.v \in Answer
    BY <2>5 DEF CallOK, Answered, WithBusiness
  <2>7. ApplyPlayPurchase(k.business, k.v)
    BY <2>3, <2>4 DEF ApplyAndAnswer
  <2> QED  BY <2>6, <2>7
<1>5. ~UNCHANGED vars
  BY DEF vars
<1> QED  BY <1>1, <1>2, <1>3, <1>4, <1>5 DEF Next

(* What Play writes over a running grant of an admin is never the free      *)
(* plan: apply_play_purchase keeps it through every lapse (0232).           *)
LEMMA ApplyKeepsGrant ==
  ASSUME Inv, NEW b \in Businesses, NEW v \in Answer, ApplyPlayPurchase(b, v),
         NEW x \in Businesses, granted[x], biz[x].end = 0 \/ biz[x].end > now,
         biz'[x].plan = "free"
  PROVE  PlayWritten(x)
<1>1. biz[x].plan # "free"
  BY DEF Inv
<1>2. biz' = [biz EXCEPT ![b] = Applied(b, v)]
  BY DEF ApplyPlayPurchase
<1>3. x = b
  BY <1>1, <1>2 DEF Inv
<1>4. Applied(b, v).plan = "free"
  BY <1>2, <1>3 DEF Inv
<1>5. SUFFICES ASSUME ~PlayWritten(b) PROVE FALSE
  BY <1>3
<1>6. ManualGrant(b)
  BY <1>1, <1>3, <1>5 DEF ManualGrant
<1>7. PICK r \in BizType : r = biz[b]
  BY DEF Inv
<1>8. [r EXCEPT !.issue = "none"].plan = r.plan
  BY <1>7 DEF BizType
<1>9. v.product # "free"
  BY DEF Answer, Products
<1>10. \A i : [plan |-> v.product, end |-> v.expiry, issue |-> i].plan = v.product
  OBVIOUS
<1>11. r.plan # "free"
  BY <1>1, <1>3, <1>7
<1> QED  BY <1>4, <1>6, <1>7, <1>8, <1>9, <1>10, <1>11 DEF Applied

(* A plan an admin has given, and which has not run out, is never taken to  *)
(* "free" by a notification or a verify call, whatever their order; only    *)
(* one whose values Play itself had written can lapse with the purchase.    *)
THEOREM GrantIsKept == Spec => GrantKept
<1>1. Inv /\ [Next]_vars =>
        [\A b \in Businesses :
           granted[b] /\ (biz[b].end = 0 \/ biz[b].end > now) /\ biz'[b].plan = "free"
             => PlayWritten(b)]_vars
  <2>1. SUFFICES ASSUME Inv, [Next]_vars, NEW x \in Businesses,
                        granted[x], biz[x].end = 0 \/ biz[x].end > now, biz'[x].plan = "free"
                 PROVE  PlayWritten(x)
    OBVIOUS
  <2>2. biz' # biz
    BY <2>1 DEF Inv
  <2>3. \A g \in Grants : ~AdminGrants(g[1], g[2], g[3])
    <3>1. SUFFICES ASSUME NEW g \in Grants, AdminGrants(g[1], g[2], g[3]) PROVE FALSE
      OBVIOUS
    <3>2. Inv'
      BY <2>1, <3>1, ConstantsAssumption, AdminKeeps
    <3>3. granted'[x]
      BY <2>1, <3>1 DEF AdminGrants, Inv
    <3> QED  BY <2>1, <3>2, <3>3 DEF Inv
  <2>4. PICK b \in Businesses, v \in Answer : ApplyPlayPurchase(b, v)
    BY <2>1, <2>2, <2>3, ConstantsAssumption, OnlyApplyWrites
  <2> QED  BY <2>1, <2>4, ApplyKeepsGrant
<1> QED  BY <1>1, InvHolds, PTL DEF Spec, GrantKept

-----------------------------------------------------------------------------
(* Acknowledgement.  An answer that says a purchase runs has had it         *)
(* acknowledged before it is written (AckCall, AckRows).  A running         *)
(* purchase that is not is still heard of: a notification waits, or a call  *)
(* has it in hand, or the last answer was dropped as unknown and there is   *)
(* no row; a row written from an older answer after that is `crossed'.      *)
AckTypes ==
  /\ used \in [events : Nat, faults : Nat]
  /\ seen \in [Tokens -> Nat]

AckCall(k) ==
  /\ k.phase \in Answered =>
       /\ k.ver \in Nat /\ k.ver <= google[k.token].ver
       /\ (k.ver = google[k.token].ver => k.v.state = google[k.token].state)
  /\ used.faults = 0 /\ k.phase \in WithPrior /\ k.v.state \in Acknowledgeable
       => google[k.token].acked

AckRows ==
  used.faults = 0 =>
    \A t \in Tokens : rows[t] # NoRow /\ rows[t].state \in Acknowledgeable => google[t].acked

Due(t) == google[t].state \in Acknowledgeable /\ ~google[t].acked

Hears(k, t) ==
  \/ k.phase = "fetch" /\ k.kind = "rtdn" /\ k.token = t
  \/ k.phase \in {"bind", "prior"} /\ k.token = t /\ k.ver = google[t].ver

Dropped(t) == rows[t] = NoRow /\ seen[t] >= google[t].ver

Heard(t) ==
  \/ \E n \in rtdn : n.token = t
  \/ \E c \in Calls : Hears(calls[c], t)
  \/ Dropped(t)

AckDue == used.faults = 0 /\ ~crossed => \A t \in Tokens : Due(t) => Heard(t)

AckInv == AckTypes /\ (\A c \in Calls : AckCall(calls[c])) /\ AckRows /\ AckDue

LEMMA InitAck == ASSUME ConstantsAssumption, Init PROVE AckInv
<1>1. AckTypes
  BY DEF Init, AckTypes
<1>2. \A c \in Calls : AckCall(calls[c])
  BY DEF Init, AckCall, Idle, Answered, WithPrior, WithBusiness
<1>3. AckRows /\ AckDue
  BY DEF Init, AckRows, AckDue, Due, Acknowledgeable
<1> QED  BY <1>1, <1>2, <1>3 DEF AckInv

(* What Inv says of the version and the flag of a purchase.                *)
LEMMA VersionTyped ==
  ASSUME Inv, NEW t \in Tokens
  PROVE  google[t] \in PurchaseType /\ google[t].ver \in Nat /\ google[t].acked \in BOOLEAN
BY DEF Inv, PurchaseOK, PurchaseType

(* A step of the server: Google's state and version stay, and only the     *)
(* call c moves.                                                           *)
ServerStep(c) ==
  /\ \A d \in Calls \ {c} : calls'[d] = calls[d]
  /\ \A u \in Tokens : /\ google'[u].state = google[u].state /\ google'[u].ver = google[u].ver
                       /\ google[u].acked => google'[u].acked
  /\ used'.faults = 0 => used.faults = 0
  /\ crossed => crossed'

LEMMA ServerKeepsAck ==
  ASSUME Inv, AckInv, NEW c \in Calls, ServerStep(c), AckTypes',
         AckCall(calls[c])',
         AckRows',
         used'.faults = 0 /\ ~crossed' =>
           \A t \in Tokens : Due(t)' =>
             /\ \A n \in rtdn : n.token = t => n \in rtdn' \/ Hears(calls[c], t)'
             /\ Hears(calls[c], t) => Hears(calls[c], t)' \/ Dropped(t)'
             /\ Dropped(t) => Dropped(t)'
  PROVE  AckInv'
<1>1. \A d \in Calls : AckCall(calls[d])'
  <2> SUFFICES ASSUME NEW d \in Calls, d # c
               PROVE  AckCall(calls[d])'
    OBVIOUS
  <2>1. PICK k : k = calls[d]
    OBVIOUS
  <2>2. calls'[d] = k
    BY <2>1 DEF ServerStep
  <2>3. AckCall(k)
    BY <2>1 DEF AckInv
  <2>4. k.phase \in Answered => k.token \in Tokens
    BY <2>1 DEF Inv, CallOK, Idle, Answered
  <2>5. k.phase \in WithPrior => k.phase \in Answered
    BY DEF WithPrior, WithBusiness
  <2>6. AckCall(k)'
    BY <2>3, <2>4, <2>5 DEF AckCall, ServerStep
  <2> QED  BY <2>2, <2>6 DEF AckCall
<1>2. AckDue'
  <2> SUFFICES ASSUME used'.faults = 0, ~crossed', NEW t \in Tokens, Due(t)'
               PROVE  Heard(t)'
    BY DEF AckDue
  <2>1. Due(t)
    BY DEF Due, ServerStep
  <2>2. Heard(t)
    BY <2>1 DEF AckInv, AckDue, ServerStep
  <2>3. CASE \E n \in rtdn : n.token = t
    BY <2>3 DEF Heard
  <2>4. CASE Dropped(t)
    BY <2>4 DEF Heard
  <2>5. ASSUME NEW d \in Calls, Hears(calls[d], t)
        PROVE  Heard(t)'
    <3>1. CASE d = c
      BY <2>5, <3>1 DEF Heard
    <3>2. CASE d # c
      <4>1. calls'[d] = calls[d] /\ google'[t].ver = google[t].ver
        BY <3>2 DEF ServerStep
      <4>2. Hears(calls[d], t)'
        BY <2>5, <4>1 DEF Hears
      <4> QED  BY <4>2 DEF Heard
    <3> QED  BY <3>1, <3>2
  <2> QED  BY <2>2, <2>3, <2>4, <2>5 DEF Heard
<1> QED  BY <1>1, <1>2 DEF AckInv

(* A call that hears of nothing: the rows and the notifications are safe.  *)
LEMMA QuietCallKeepsAck ==
  ASSUME Inv, AckInv, NEW c \in Calls,
         \A d \in Calls \ {c} : calls'[d] = calls[d],
         UNCHANGED <<google, rows>>, rtdn \subseteq rtdn', AckTypes',
         used'.faults = 0 => used.faults = 0, crossed => crossed',
         \A t \in Tokens : seen'[t] >= seen[t],
         AckCall(calls[c])', \A t \in Tokens : ~Hears(calls[c], t)
  PROVE  AckInv'
<1>1. ServerStep(c)
  BY DEF ServerStep
<1>2. AckRows'
  BY DEF AckInv, AckRows
<1>3. \A t \in Tokens : Dropped(t) => Dropped(t)'
  <2> SUFFICES ASSUME NEW t \in Tokens, Dropped(t)
               PROVE  Dropped(t)'
    OBVIOUS
  <2>1. google[t].ver \in Nat /\ seen[t] \in Nat /\ seen'[t] \in Nat
    BY VersionTyped DEF AckInv, AckTypes
  <2> QED  BY <2>1 DEF Dropped
<1> QED  BY <1>1, <1>2, <1>3, ServerKeepsAck

(* The version a call hands on is noted.                                   *)
LEMMA NewestNotes ==
  ASSUME AckTypes, NEW t \in Tokens, NEW ver \in Nat, seen' = Newest(t, ver)
  PROVE  /\ seen' \in [Tokens -> Nat] /\ seen'[t] >= ver
         /\ \A u \in Tokens : seen'[u] >= seen[u]
<1>1. PICK s : s = IF ver > seen[t] THEN ver ELSE seen[t]
  OBVIOUS
<1>2. s \in Nat /\ s >= ver /\ s >= seen[t]
  BY <1>1 DEF AckTypes
<1>3. seen' = [seen EXCEPT ![t] = s]
  BY <1>1 DEF Newest
<1>4. \A u \in Tokens : seen'[u] = IF u = t THEN s ELSE seen[u]
  BY <1>3 DEF AckTypes
<1>5. \A u \in Tokens : seen[u] \in Nat
  BY DEF AckTypes
<1> QED  BY <1>2, <1>3, <1>4, <1>5 DEF AckTypes

(* An answer nobody knows the shop for is dropped: there is no row, or the *)
(* answer is `crossed'.                                                    *)
LEMMA ForgetDrops ==
  ASSUME Inv, AckTypes, NEW k, k.token \in Tokens, k.ver \in Nat, Forget(k), UNCHANGED <<rows, google>>
  PROVE  /\ seen' \in [Tokens -> Nat] /\ (crossed => crossed')
         /\ \A t \in Tokens : Dropped(t) => Dropped(t)'
         /\ k.ver = google[k.token].ver /\ ~crossed' => Dropped(k.token)'
<1>1. /\ seen' \in [Tokens -> Nat] /\ seen'[k.token] >= k.ver
      /\ \A u \in Tokens : seen'[u] >= seen[u]
  BY NewestNotes DEF Forget
<1>2. \A t \in Tokens : Dropped(t) => Dropped(t)'
  <2> SUFFICES ASSUME NEW t \in Tokens, Dropped(t)
               PROVE  Dropped(t)'
    OBVIOUS
  <2>1. google[t].ver \in Nat /\ seen[t] \in Nat /\ seen'[t] \in Nat /\ seen'[t] >= seen[t]
    BY <1>1, VersionTyped DEF AckTypes
  <2> QED  BY <2>1 DEF Dropped
<1>3. crossed => crossed'
  BY DEF Forget
<1>4. ~crossed' => rows[k.token] = NoRow
  BY DEF Forget
<1> QED  BY <1>1, <1>2, <1>3, <1>4 DEF Dropped

(* A call that ends says nothing of any purchase.                          *)
LEMMA EndedCall ==
  ASSUME Inv, NEW c \in Calls, Finish(c)
  PROVE  /\ \A d \in Calls \ {c} : calls'[d] = calls[d]
         /\ AckCall(calls[c])'
<1>1. calls'[c] = Idle
  BY DEF Finish, Inv
<1>2. AckCall(Idle)'
  BY DEF AckCall, Idle, Answered, WithPrior, WithBusiness
<1>3. AckCall(calls[c])'
  BY <1>1, <1>2 DEF AckCall
<1> QED  BY <1>3 DEF Finish, Inv

-----------------------------------------------------------------------------
(* A lookup that fails is a fault.                                         *)
LEMMA LookupCounts ==
  ASSUME AckTypes, NEW read, Lookup(read)
  PROVE  used' \in [events : Nat, faults : Nat] /\ (used'.faults = 0 => used.faults = 0)
<1>1. PICK u : u \in [events : Nat, faults : Nat] /\ u = used
  BY DEF AckTypes
<1>2. PICK f \in Nat : f = (IF read THEN u.faults ELSE u.faults + 1) /\ (f = 0 => u.faults = 0)
  BY <1>1
<1>3. used' = [u EXCEPT !.faults = f]
  BY <1>1, <1>2 DEF Lookup
<1> QED  BY <1>1, <1>2, <1>3

LEMMA BeginVerifyAck ==
  ASSUME Inv, AckInv, NEW c \in Calls, NEW b \in Businesses, NEW t \in Tokens,
         BeginVerify(c, b, t)
  PROVE  AckInv'
<1>1. /\ calls[c] = Idle /\ calls'[c].phase = "fetch"
      /\ \A d \in Calls \ {c} : calls'[d] = calls[d]
      /\ UNCHANGED <<google, rows, rtdn, crossed, seen>>
  BY DEF BeginVerify, UnchangedStore, Inv
<1>2. AckCall(calls[c])'
  BY <1>1 DEF AckCall, Answered, WithPrior, WithBusiness
<1>3. \A u \in Tokens : ~Hears(calls[c], u)
  BY <1>1 DEF Hears, Idle
<1>4. used' \in [events : Nat, faults : Nat] /\ (used'.faults = 0 => used.faults = 0)
  BY LookupCounts DEF BeginVerify, AckInv
<1>5. AckTypes' /\ \A u \in Tokens : seen'[u] >= seen[u]
  BY <1>1, <1>4 DEF AckInv, AckTypes
<1> QED  BY <1>1, <1>2, <1>3, <1>4, <1>5, QuietCallKeepsAck

LEMMA BeginRtdnAck ==
  ASSUME Inv, AckInv, NEW c \in Calls, NEW n \in rtdn, NEW read \in BOOLEAN,
         BeginRtdn(c, n, read)
  PROVE  AckInv'
<1>1. /\ calls[c] = Idle /\ calls'[c].phase = "fetch" /\ calls'[c].kind = "rtdn"
      /\ calls'[c].token = n.token
      /\ \A d \in Calls \ {c} : calls'[d] = calls[d]
      /\ UNCHANGED <<google, rows, crossed, seen>> /\ rtdn' = rtdn \ {n}
  BY DEF BeginRtdn, UnchangedStore, Inv
<1>a. used' \in [events : Nat, faults : Nat] /\ (used'.faults = 0 => used.faults = 0)
  BY LookupCounts DEF BeginRtdn, AckInv
<1>2. AckCall(calls[c])' /\ AckTypes' /\ AckRows' /\ ServerStep(c)
  BY <1>1, <1>a DEF AckCall, Answered, WithPrior, WithBusiness, AckInv, AckTypes, AckRows, ServerStep
<1>3. \A t \in Tokens : /\ \A m \in rtdn : m.token = t => m \in rtdn' \/ Hears(calls[c], t)'
                        /\ ~Hears(calls[c], t) /\ (Dropped(t) => Dropped(t)')
  BY <1>1 DEF Hears, Idle, Dropped
<1> QED  BY <1>2, <1>3, ServerKeepsAck

(* Play's answer of this moment has the version of this moment.            *)
LEMMA FetchAck ==
  ASSUME ConstantsAssumption, Inv, AckInv, NEW c \in Calls, FetchPurchase(c)
  PROVE  AckInv'
<1>1. PICK k : k = calls[c]
  OBVIOUS
<1>2. CallOK(k) /\ k.phase = "fetch"
  BY <1>1 DEF Inv, FetchPurchase
<1>3. k # Idle /\ k.token \in Tokens
  BY <1>2 DEF CallOK, Idle
<1>4. PICK p : p = google[k.token] /\ PurchaseOK(p) /\ p.ver \in Nat
  BY <1>3, VersionTyped DEF Inv
<1>5. PICK v : v = ParseSubscriptionV2(p)
  OBVIOUS
<1> DEFINE unbound == k.business = NoBusiness
           refused == v = NoAnswer \/ (k.kind = "verify" /\ AccountMismatch(k.business, k.token))
           forgotten == ~refused /\ unbound /\ Link[k.token] = NoToken
<1>6. UNCHANGED <<google, rtdn, rows, used>> /\ used \in [events : Nat, faults : Nat]
  BY DEF FetchPurchase, AckInv, AckTypes
<1>7. v # NoAnswer => v.state = p.state
  BY <1>5 DEF ParseSubscriptionV2
<1>8. ASSUME NEW t \in Tokens, Due(t), k.token = t
      PROVE  v # NoAnswer
  <2>1. p.state # "none" /\ p.items # {}
    BY <1>4, <1>8 DEF Due, Acknowledgeable, PurchaseOK
  <2>2. v.state = p.state
    BY <1>5, <2>1 DEF ParseSubscriptionV2
  <2> QED  BY <2>1, <2>2 DEF NoAnswer
<1>9. AckRows'
  BY <1>6 DEF AckInv, AckRows
<1>10. \A t \in Tokens : Hears(calls[c], t) => k.kind = "rtdn" /\ k.token = t
  BY <1>1, <1>2 DEF Hears
<1>11. CASE refused
  <2>1. Finish(c) /\ UNCHANGED <<seen, crossed>>
    BY <1>1, <1>4, <1>5, <1>11 DEF FetchPurchase
  <2>2. AckCall(calls[c])' /\ ServerStep(c) /\ AckTypes'
    BY <1>6, <2>1, EndedCall DEF ServerStep, AckInv, AckTypes
  <2>3. ASSUME NEW t \in Tokens, Due(t)'
        PROVE  ~Hears(calls[c], t) /\ (Dropped(t) => Dropped(t)')
    <3>1. Due(t)
      BY <1>6, <2>3 DEF Due
    <3> QED  BY <1>6, <1>8, <1>10, <1>11, <2>1, <3>1 DEF Dropped
  <2> QED  BY <1>6, <1>9, <2>2, <2>3, ServerKeepsAck
<1>12. CASE forgotten
  <2>1. PICK f : f = [token |-> k.token, ver |-> p.ver]
    OBVIOUS
  <2>2. Finish(c) /\ Forget(f)
    BY <1>1, <1>4, <1>5, <1>12, <2>1 DEF FetchPurchase
  <2>3. f.token = k.token /\ f.ver = p.ver
    BY <2>1
  <2>4. /\ seen' \in [Tokens -> Nat] /\ (crossed => crossed')
        /\ \A t \in Tokens : Dropped(t) => Dropped(t)'
        /\ ~crossed' => Dropped(k.token)'
    BY <1>3, <1>4, <1>6, <2>2, <2>3, ForgetDrops DEF AckInv
  <2>5. AckCall(calls[c])' /\ ServerStep(c) /\ AckTypes'
    BY <1>6, <2>2, <2>4, EndedCall DEF ServerStep, AckTypes
  <2> QED  BY <1>6, <1>9, <1>10, <2>4, <2>5, ServerKeepsAck
<1>13. CASE ~(refused \/ forgotten)
  <2>1. PICK j : j = [phase |-> PhaseOnceFetched(k),
                      kind |-> k.kind, token |-> k.token, business |-> k.business,
                      type |-> k.type, v |-> v, ver |-> p.ver]
    OBVIOUS
  <2>2. calls' = [calls EXCEPT ![c] = j] /\ UNCHANGED <<seen, crossed>>
    BY <1>1, <1>4, <1>5, <1>13, <2>1 DEF FetchPurchase
  <2>3. /\ j.phase \in {"bind", "prior"} /\ j.token = k.token /\ j.v = v /\ j.ver = p.ver
    BY <2>1 DEF PhaseOnceFetched
  <2>4. /\ calls'[c] = j /\ ServerStep(c) /\ AckTypes'
    BY <1>6, <2>2 DEF ServerStep, AckInv, AckTypes, Inv
  <2>5. AckCall(j)'
    <3>1. j.phase \notin WithPrior
      BY <2>3 DEF WithPrior, WithBusiness, Answered
    <3> QED  BY <1>4, <1>6, <1>7, <1>13, <2>3, <3>1 DEF AckCall
  <2>6. AckCall(calls[c])'
    BY <2>4, <2>5 DEF AckCall
  <2>7. ASSUME NEW t \in Tokens
        PROVE  /\ Hears(calls[c], t) => Hears(calls[c], t)'
               /\ Dropped(t) => Dropped(t)'
    BY <1>4, <1>6, <1>10, <2>2, <2>3, <2>4 DEF Hears, Dropped
  <2> QED  BY <1>6, <1>9, <2>4, <2>6, <2>7, ServerKeepsAck
<1> QED  BY <1>11, <1>12, <1>13

(* A step that touches neither the rows nor the flags of Google.           *)
LEMMA BindAck ==
  ASSUME Inv, AckInv, NEW c \in Calls, NEW read \in BOOLEAN, BindUnknownToken(c, read)
  PROVE  AckInv'
<1>1. PICK k : k = calls[c]
  OBVIOUS
<1>2. CallOK(k) /\ k.phase = "bind" /\ AckCall(k)
  BY <1>1 DEF Inv, AckInv, BindUnknownToken
<1>3. k # Idle
  BY <1>2 DEF Idle
<1>4. /\ k.token \in Tokens /\ AnswerFields(k) /\ k.ver \in Nat /\ k.ver <= google[k.token].ver
      /\ k.ver = google[k.token].ver => k.v.state = google[k.token].state
  BY <1>2, <1>3 DEF CallOK, AckCall, Answered
<1>5. /\ UNCHANGED <<google, rtdn, rows>>
      /\ used' \in [events : Nat, faults : Nat] /\ (used'.faults = 0 => used.faults = 0)
  BY LookupCounts DEF BindUnknownToken, AckInv
<1>6. AckRows'
  BY <1>5 DEF AckInv, AckRows
<1>7. \A t \in Tokens : Hears(calls[c], t) => k.token = t /\ k.ver = google[t].ver
  BY <1>1, <1>2 DEF Hears
<1>8. CASE Finish(c) /\ Forget(k)
  <2>1. /\ seen' \in [Tokens -> Nat] /\ (crossed => crossed')
        /\ \A t \in Tokens : Dropped(t) => Dropped(t)'
        /\ k.ver = google[k.token].ver /\ ~crossed' => Dropped(k.token)'
    BY <1>4, <1>5, <1>8, ForgetDrops DEF AckInv
  <2>2. AckCall(calls[c])' /\ ServerStep(c) /\ AckTypes'
    BY <1>5, <1>8, <2>1, EndedCall DEF ServerStep, AckTypes
  <2> QED  BY <1>5, <1>6, <1>7, <2>1, <2>2, ServerKeepsAck
<1>9. CASE UNCHANGED <<seen, crossed>> /\
           \E b : calls' = [calls EXCEPT ![c].business = b, ![c].phase = "prior"]
  <2>1. PICK b : calls' = [calls EXCEPT ![c].business = b, ![c].phase = "prior"]
    BY <1>9
  <2>2. PICK j : j = [k EXCEPT !.business = b, !.phase = "prior"]
    OBVIOUS
  <2>3. calls' = [calls EXCEPT ![c] = j]
    BY <1>1, <2>1, <2>2
  <2>4. j = [phase |-> "prior", kind |-> k.kind, token |-> k.token, business |-> b,
             type |-> k.type, v |-> k.v, ver |-> k.ver]
    BY <1>4, <2>2 DEF AnswerFields
  <2>5. j.phase = "prior" /\ j.token = k.token /\ j.v = k.v /\ j.ver = k.ver
    BY <2>4
  <2>6. calls'[c] = j /\ ServerStep(c) /\ AckTypes'
    BY <1>5, <1>9, <2>3 DEF ServerStep, AckInv, AckTypes, Inv
  <2>7. AckCall(j)'
    BY <1>4, <1>5, <2>5 DEF AckCall, WithPrior, WithBusiness
  <2>8. AckCall(calls[c])'
    BY <2>6, <2>7 DEF AckCall
  <2>9. ASSUME NEW t \in Tokens
        PROVE  /\ Hears(calls[c], t) => Hears(calls[c], t)'
               /\ Dropped(t) => Dropped(t)'
    BY <1>5, <1>7, <1>9, <2>5, <2>6 DEF Hears, Dropped
  <2> QED  BY <1>5, <1>6, <2>6, <2>8, <2>9, ServerKeepsAck
<1> QED  BY <1>1, <1>8, <1>9 DEF BindUnknownToken

(* An acknowledgement that is due and not given is a fault.                *)
LEMMA PriorAck ==
  ASSUME Inv, AckInv, NEW c \in Calls, NEW ok \in BOOLEAN, AcknowledgeAndReadPrior(c, ok)
  PROVE  AckInv'
<1>1. PICK k : k = calls[c]
  OBVIOUS
<1>2. CallOK(k) /\ k.phase = "prior" /\ AckCall(k)
  BY <1>1 DEF Inv, AckInv, AcknowledgeAndReadPrior
<1>3. k # Idle
  BY <1>2 DEF Idle
<1>4. /\ k.token \in Tokens /\ k.ver \in Nat /\ k.ver <= google[k.token].ver
      /\ k.ver = google[k.token].ver => k.v.state = google[k.token].state
  BY <1>2, <1>3 DEF CallOK, AckCall, Answered
<1>5. PICK prior : prior = IF rows[k.token] = NoRow THEN NoPrior
                           ELSE [state |-> rows[k.token].state, expiry |-> rows[k.token].expiry,
                                 replacedBy |-> rows[k.token].replacedBy]
  OBVIOUS
<1>6. PICK j : j = [phase |-> "upsert", kind |-> k.kind, token |-> k.token,
                    business |-> k.business, type |-> k.type, v |-> k.v, ver |-> k.ver,
                    prior |-> prior]
  OBVIOUS
<1>7. j.phase = "upsert" /\ j.token = k.token /\ j.v = k.v /\ j.ver = k.ver
  BY <1>6
<1>8. calls' = [calls EXCEPT ![c] = j] /\ UNCHANGED <<rtdn, rows, seen, crossed>>
  BY <1>1, <1>5, <1>6 DEF AcknowledgeAndReadPrior, UnchangedStore
<1>9. PICK g : g = google[k.token] /\ g \in PurchaseType /\ g.ver \in Nat
  BY <1>4, VersionTyped
<1>10. \A u \in Tokens :
         /\ google'[u].state = google[u].state /\ google'[u].ver = google[u].ver
         /\ google[u].acked => google'[u].acked
  <2>1. CASE ~ok
    BY <2>1 DEF AcknowledgeAndReadPrior
  <2>2. CASE ok
    <3>1. PICK p : p = [g EXCEPT !.acked = TRUE]
      OBVIOUS
    <3>2. p.state = g.state /\ p.ver = g.ver /\ p.acked
      BY <1>9, <3>1 DEF PurchaseType
    <3>3. google' = [google EXCEPT ![k.token] = p]
      BY <1>1, <1>9, <2>2, <3>1 DEF AcknowledgeAndReadPrior
    <3> QED  BY <1>9, <3>2, <3>3 DEF Inv
  <2> QED  BY <2>1, <2>2
<1>11. used' \in [events : Nat, faults : Nat] /\ (used'.faults = 0 => used.faults = 0)
  BY DEF AcknowledgeAndReadPrior, AckInv, AckTypes
<1>12. used'.faults = 0 /\ k.v.state \in Acknowledgeable => google'[k.token].acked
  <2> SUFFICES ASSUME used'.faults = 0, k.v.state \in Acknowledgeable
               PROVE  google'[k.token].acked
    OBVIOUS
  <2>1. CASE ok
    <3>1. google' = [google EXCEPT ![k.token].acked = TRUE]
      BY <1>1, <2>1 DEF AcknowledgeAndReadPrior
    <3>2. google' = [google EXCEPT ![k.token] = [g EXCEPT !.acked = TRUE]]
      BY <1>9, <3>1
    <3>3. google'[k.token] = [g EXCEPT !.acked = TRUE]
      BY <1>4, <3>2 DEF Inv
    <3> QED  BY <1>9, <3>3 DEF PurchaseType
  <2>2. CASE ~ok
    <3>1. google' = google
      BY <2>2 DEF AcknowledgeAndReadPrior
    <3>2. ~NeedsAcknowledge(k.v, g.acked)
      BY <1>1, <1>9, <2>2 DEF AcknowledgeAndReadPrior, AckInv, AckTypes
    <3> QED  BY <1>9, <3>1, <3>2 DEF NeedsAcknowledge
  <2> QED  BY <2>1, <2>2
<1>13. calls'[c] = j /\ ServerStep(c) /\ AckTypes'
  BY <1>8, <1>10, <1>11 DEF ServerStep, AckInv, AckTypes, Inv
<1>14. AckCall(j)'
  <2>1. google'[k.token].ver = google[k.token].ver /\ google'[k.token].state = google[k.token].state
    BY <1>4, <1>10
  <2> QED  BY <1>4, <1>7, <1>12, <2>1 DEF AckCall
<1>15. AckCall(calls[c])'
  BY <1>13, <1>14 DEF AckCall
<1>16. AckRows'
  BY <1>8, <1>10, <1>11 DEF AckInv, AckRows
<1>17. ASSUME NEW t \in Tokens, used'.faults = 0, Due(t)'
       PROVE  ~Hears(calls[c], t) /\ (Dropped(t) => Dropped(t)')
  <2>1. google'[t].state \in Acknowledgeable /\ ~google'[t].acked
    BY <1>17 DEF Due
  <2>2. ~Hears(calls[c], t)
    <3>1. SUFFICES ASSUME k.token = t, k.ver = google[t].ver
                   PROVE  FALSE
      BY <1>1, <1>2 DEF Hears
    <3>2. k.v.state \in Acknowledgeable
      BY <1>4, <1>10, <2>1, <3>1
    <3> QED  BY <1>12, <1>17, <2>1, <3>1, <3>2
  <2>3. google'[t].ver = google[t].ver
    BY <1>10
  <2> QED  BY <1>8, <2>2, <2>3 DEF Dropped
<1> QED  BY <1>8, <1>13, <1>15, <1>16, <1>17, ServerKeepsAck

(* The next stage of a call that has the answer written: nothing it says    *)
(* of the answer changes.                                                  *)
LEMMA PhaseAck ==
  ASSUME Inv, AckInv, NEW c \in Calls, calls[c].phase \in WithPrior,
         NEW phase \in WithPrior, calls' = [calls EXCEPT ![c].phase = phase],
         UNCHANGED <<google, used>>
  PROVE  /\ AckCall(calls[c])' /\ calls'[c].phase = phase
         /\ \A d \in Calls \ {c} : calls'[d] = calls[d]
<1>1. PICK k : k = calls[c]
  OBVIOUS
<1>2. PICK j : j = [k EXCEPT !.phase = phase]
  OBVIOUS
<1>3. CallOK(k) /\ k # Idle /\ AckCall(k)
  BY <1>1 DEF Inv, AckInv, Idle, WithPrior, WithBusiness, Answered
<1>4. PriorFields(k)
  BY <1>1, <1>3 DEF CallOK
<1>5. j = [phase |-> phase, kind |-> k.kind, token |-> k.token, business |-> k.business,
           type |-> k.type, v |-> k.v, ver |-> k.ver, prior |-> k.prior]
  BY <1>2, <1>4 DEF PriorFields
<1>6. j.phase = phase /\ j.token = k.token /\ j.v = k.v /\ j.ver = k.ver
  BY <1>5
<1>7. phase \in Answered /\ k.phase \in Answered /\ k.phase \in WithPrior
  BY <1>1 DEF WithPrior, WithBusiness
<1>8. AckCall(j)'
  BY <1>3, <1>6, <1>7 DEF AckCall
<1>9. calls' = [calls EXCEPT ![c] = j]
  BY <1>1, <1>2
<1>10. calls'[c] = j /\ \A d \in Calls \ {c} : calls'[d] = calls[d]
  BY <1>9 DEF Inv
<1> QED  BY <1>6, <1>8, <1>10 DEF AckCall

(* A row written from an answer that says the purchase runs is of one that *)
(* is acknowledged; one from an older answer than was dropped is `crossed'. *)
LEMMA UpsertAck ==
  ASSUME Inv, AckInv, NEW c \in Calls, UpsertRow(c)
  PROVE  AckInv'
<1>1. PICK k : k = calls[c]
  OBVIOUS
<1>2. CallOK(k) /\ k.phase = "upsert" /\ AckCall(k)
  BY <1>1 DEF Inv, AckInv, UpsertRow
<1>3. k # Idle
  BY <1>2 DEF Idle
<1>4. /\ k.token \in Tokens /\ k.ver \in Nat /\ k.ver <= google[k.token].ver
      /\ k.ver = google[k.token].ver => k.v.state = google[k.token].state
      /\ used.faults = 0 /\ k.v.state \in Acknowledgeable => google[k.token].acked
  BY <1>2, <1>3 DEF CallOK, AckCall, Answered, WithPrior, WithBusiness
<1>5. UNCHANGED <<google, rtdn, used>> /\ seen' = Newest(k.token, k.ver)
  BY <1>1 DEF UpsertRow
<1>6. PICK phase \in WithPrior : calls' = [calls EXCEPT ![c].phase = phase]
  BY DEF UpsertRow, WithPrior, WithBusiness, Answered
<1>7. /\ AckCall(calls[c])'
      /\ \A d \in Calls \ {c} : calls'[d] = calls[d]
  <2>1. calls[c].phase \in WithPrior
    BY <1>1, <1>2 DEF WithPrior, WithBusiness, Answered
  <2> QED  BY <1>5, <1>6, <2>1, PhaseAck
<1>8. seen' \in [Tokens -> Nat] /\ \A u \in Tokens : seen'[u] >= seen[u]
  BY <1>4, <1>5, NewestNotes DEF AckInv
<1>9. (crossed => crossed') /\ (~crossed' => ~(k.ver < seen[k.token]))
  BY <1>1 DEF UpsertRow, Overtaken
<1>10. AckTypes' /\ ServerStep(c)
  BY <1>5, <1>7, <1>8, <1>9 DEF ServerStep, AckInv, AckTypes
<1>11. PICK r : rows' = [rows EXCEPT ![k.token] = r] /\ r.state = k.v.state
  <2>1. PICK r : r = Upserted(c)
    OBVIOUS
  <2>2. r.state = k.v.state
    BY <1>1, <2>1 DEF Upserted
  <2> QED  BY <1>1, <2>1, <2>2 DEF UpsertRow
<1>12. \A u \in Tokens : rows'[u] = IF u = k.token THEN r ELSE rows[u]
  BY <1>11 DEF Inv
<1>13. AckRows'
  <2> SUFFICES ASSUME used.faults = 0, NEW t \in Tokens, rows'[t] # NoRow,
                      rows'[t].state \in Acknowledgeable
               PROVE  google[t].acked
    BY <1>5 DEF AckRows
  <2>1. CASE t = k.token
    BY <1>4, <1>11, <1>12, <2>1
  <2>2. CASE t # k.token
    BY <1>12, <2>2 DEF AckInv, AckRows
  <2> QED  BY <2>1, <2>2
<1>14. ASSUME NEW t \in Tokens, used'.faults = 0, ~crossed', Due(t)'
       PROVE  ~Hears(calls[c], t) /\ (Dropped(t) => Dropped(t)')
  <2>1. ~Hears(calls[c], t)
    BY <1>1, <1>2 DEF Hears
  <2>2. /\ google[t].ver \in Nat /\ seen[t] \in Nat /\ seen'[t] \in Nat /\ seen'[t] >= seen[t]
        /\ google'[t].ver = google[t].ver
    BY <1>5, <1>8, VersionTyped DEF AckInv, AckTypes
  <2>3. ASSUME Dropped(t)
        PROVE  Dropped(t)'
    <3>1. CASE t # k.token
      BY <1>12, <2>2, <2>3, <3>1 DEF Dropped
    <3>2. CASE t = k.token
      <4>1. k.ver = google[t].ver
        BY <1>4, <1>9, <1>14, <2>2, <2>3, <3>2 DEF Dropped
      <4>2. google[t].state \in Acknowledgeable /\ ~google[t].acked
        BY <1>5, <1>14 DEF Due
      <4>3. used.faults = 0
        BY <1>5, <1>14
      <4> QED  BY <1>4, <3>2, <4>1, <4>2, <4>3
    <3> QED  BY <3>1, <3>2
  <2> QED  BY <2>1, <2>3
<1> QED  BY <1>5, <1>7, <1>10, <1>13, <1>14, ServerKeepsAck

(* Marking the replaced purchase leaves its state and makes no row.        *)
LEMMA SupersedeAck ==
  ASSUME Inv, AckInv, NEW c \in Calls, SupersedeOld(c)
  PROVE  AckInv'
<1>1. /\ calls[c].phase = "supersede" /\ calls' = [calls EXCEPT ![c].phase = "apply"]
      /\ UNCHANGED <<google, rtdn, used, seen, crossed>>
  BY DEF SupersedeOld
<1>2. calls[c].phase \in WithPrior /\ "apply" \in WithPrior
  BY <1>1 DEF WithPrior, WithBusiness, Answered
<1>3. AckCall(calls[c])' /\ \A d \in Calls \ {c} : calls'[d] = calls[d]
  BY <1>1, <1>2, PhaseAck
<1>4. ServerStep(c) /\ AckTypes'
  BY <1>1, <1>3 DEF ServerStep, AckInv, AckTypes
<1>5. \A u \in Tokens : /\ rows'[u] # NoRow => rows[u] # NoRow /\ rows'[u].state = rows[u].state
                        /\ rows[u] = NoRow => rows'[u] = NoRow
  <2>1. PICK o, by : rows' = rows \/ (rows[o] # NoRow /\ rows' = [rows EXCEPT ![o].replacedBy = by])
    BY DEF SupersedeOld
  <2>2. CASE rows' = rows
    BY <2>2
  <2>3. CASE rows[o] # NoRow /\ o \in Tokens /\ rows' = [rows EXCEPT ![o].replacedBy = by]
    <3>1. PICK r : r = rows[o] /\ r \in RowType
      BY <2>3 DEF Inv, RowOK
    <3>2. PICK n : n = [r EXCEPT !.replacedBy = by]
      OBVIOUS
    <3>3. n.state = r.state
      BY <3>1, <3>2 DEF RowType
    <3>4. rows' = [rows EXCEPT ![o] = n]
      BY <2>3, <3>1, <3>2
    <3> QED  BY <2>3, <3>1, <3>3, <3>4 DEF Inv
  <2>4. CASE o \notin Tokens /\ rows' = [rows EXCEPT ![o].replacedBy = by]
    BY <2>4 DEF Inv
  <2> QED  BY <2>1, <2>2, <2>3, <2>4
<1>6. AckRows'
  BY <1>1, <1>5 DEF AckInv, AckRows
<1>7. \A t \in Tokens : ~Hears(calls[c], t) /\ (Dropped(t) => Dropped(t)')
  BY <1>1, <1>5 DEF Hears, Dropped
<1> QED  BY <1>1, <1>3, <1>4, <1>6, <1>7, ServerKeepsAck

LEMMA ApplyAck ==
  ASSUME Inv, AckInv, NEW c \in Calls, NEW lost \in BOOLEAN, ApplyAndAnswer(c, lost)
  PROVE  AckInv'
<1>1. calls[c].phase = "apply" /\ Finish(c) /\ UNCHANGED <<google, rows, seen>>
  BY DEF ApplyAndAnswer
<1>2. rtdn \subseteq rtdn' /\ (crossed => crossed')
  BY DEF ApplyAndAnswer
<1>3. used' \in [events : Nat, faults : Nat] /\ (used'.faults = 0 => used.faults = 0)
  BY DEF ApplyAndAnswer, AckInv, AckTypes
<1>4. AckTypes' /\ \A t \in Tokens : seen'[t] >= seen[t]
  BY <1>1, <1>3 DEF AckInv, AckTypes
<1>5. AckCall(calls[c])' /\ \A d \in Calls \ {c} : calls'[d] = calls[d]
  BY <1>1, EndedCall
<1>6. \A t \in Tokens : ~Hears(calls[c], t)
  BY <1>1 DEF Hears
<1> QED  BY <1>1, <1>2, <1>3, <1>4, <1>5, <1>6, QuietCallKeepsAck

LEMMA FailAck ==
  ASSUME Inv, AckInv, NEW c \in Calls, CallFails(c)
  PROVE  AckInv'
<1>1. /\ calls[c].phase \in {"supersede", "apply"} /\ Finish(c)
      /\ UNCHANGED <<google, rows, seen, crossed>> /\ rtdn \subseteq rtdn'
  BY DEF CallFails, UnchangedStore
<1>2. used' \in [events : Nat, faults : Nat] /\ (used'.faults = 0 => used.faults = 0)
  BY DEF CallFails, AckInv, AckTypes
<1>3. AckTypes' /\ \A t \in Tokens : seen'[t] >= seen[t]
  BY <1>1, <1>2 DEF AckInv, AckTypes
<1>4. AckCall(calls[c])' /\ \A d \in Calls \ {c} : calls'[d] = calls[d]
  BY <1>1, EndedCall
<1>5. \A t \in Tokens : ~Hears(calls[c], t)
  BY <1>1 DEF Hears
<1> QED  BY <1>1, <1>2, <1>3, <1>4, <1>5, QuietCallKeepsAck

-----------------------------------------------------------------------------
(* A purchase changes at Google: its version is new, its flag is not, and  *)
(* whatever runs from now on was told to the server.                       *)
Changes(u, g) ==
  /\ g.acked = google[u].acked /\ g.ver = google[u].ver + 1
  /\ g.state \in Acknowledgeable => \E n \in rtdn' : n.token = u

LEMMA GoogleAck ==
  ASSUME Inv, AckInv, Event, \A n \in rtdn : n \in rtdn',
         \A u \in Tokens : google'[u] = google[u] \/ Changes(u, google'[u])
  PROVE  AckInv'
<1>1. /\ UNCHANGED <<rows, calls, seen, crossed>>
      /\ used' \in [events : Nat, faults : Nat] /\ used'.faults = used.faults
  BY DEF Event, AckInv, AckTypes
<1>2. AckTypes'
  BY <1>1 DEF AckInv, AckTypes
<1>3. \A u \in Tokens : google'[u].acked = google[u].acked
  BY DEF Changes
<1>4. AckRows'
  BY <1>1, <1>3 DEF AckInv, AckRows
<1>5. ASSUME NEW c \in Calls
      PROVE  AckCall(calls[c])'
  <2>1. PICK k : k = calls[c] /\ CallOK(k) /\ AckCall(k)
    BY DEF Inv, AckInv
  <2>2. k.phase \in Answered => k.token \in Tokens
    BY <2>1 DEF CallOK, Idle, Answered
  <2>3. k.phase \in WithPrior => k.phase \in Answered
    BY DEF WithPrior, WithBusiness
  <2>4. AckCall(k)'
    <3>1. CASE k.phase \notin Answered
      BY <2>3, <3>1 DEF AckCall
    <3>2. CASE k.phase \in Answered
      <4>1. PICK u \in Tokens : u = k.token
        BY <2>2, <3>2
      <4>2. k.ver \in Nat /\ k.ver <= google[u].ver /\ google[u].ver \in Nat
        BY <2>1, <3>2, <4>1, VersionTyped DEF AckCall
      <4>3. /\ k.ver <= google'[u].ver
            /\ k.ver = google'[u].ver => google'[u] = google[u]
        BY <4>2 DEF Changes
      <4> QED  BY <1>1, <1>3, <2>1, <3>2, <4>1, <4>2, <4>3 DEF AckCall
    <3> QED  BY <3>1, <3>2
  <2> QED  BY <1>1, <2>1, <2>4 DEF AckCall
<1>6. AckDue'
  <2> SUFFICES ASSUME used'.faults = 0, ~crossed', NEW t \in Tokens, Due(t)'
               PROVE  Heard(t)'
    BY DEF AckDue
  <2>1. CASE google'[t] = google[t]
    <3>1. Due(t)
      BY <2>1 DEF Due
    <3>2. Heard(t)
      BY <1>1, <3>1 DEF AckInv, AckDue
    <3>3. \A c \in Calls : Hears(calls[c], t) => Hears(calls[c], t)'
      BY <1>1, <2>1 DEF Hears
    <3>4. Dropped(t) => Dropped(t)'
      BY <1>1, <2>1 DEF Dropped
    <3> QED  BY <3>2, <3>3, <3>4 DEF Heard
  <2>2. CASE Changes(t, google'[t])
    <3>1. google'[t].state \in Acknowledgeable
      BY DEF Due
    <3> QED  BY <2>2, <3>1 DEF Changes, Heard
  <2> QED  BY <2>1, <2>2
<1> QED  BY <1>2, <1>4, <1>5, <1>6 DEF AckInv

LEMMA BecomesFields ==
  ASSUME Inv, NEW t \in Tokens, NEW state, NEW items
  PROVE  /\ Becomes(t, state, items).state = state
         /\ Becomes(t, state, items).acked = google[t].acked
         /\ Becomes(t, state, items).ver = google[t].ver + 1
<1>1. PICK g : g = google[t] /\ g \in PurchaseType
  BY VersionTyped
<1>2. PICK p : p = [g EXCEPT !.state = state, !.items = items, !.ver = g.ver + 1]
  OBVIOUS
<1>3. p.state = state /\ p.acked = g.acked /\ p.ver = g.ver + 1
  BY <1>1, <1>2 DEF PurchaseType
<1>4. Becomes(t, state, items) = p
  BY <1>1, <1>2 DEF Becomes
<1> QED  BY <1>1, <1>3, <1>4

(* The purchase that is replaced or taken back runs no more.               *)
LEMMA EndedChanges ==
  ASSUME Inv, NEW o \in Tokens
  PROVE  /\ Ended(o) \in [Tokens -> {Ended(o)[u] : u \in Tokens}]
         /\ \A u \in Tokens : Ended(o)[u] = google[u] \/ Changes(u, Ended(o)[u])
<1> DEFINE items == {Owned(ParseSubscriptionV2(google[o]).product, now)}
<1>1. PICK p : p = Becomes(o, "EXPIRED", items)
  OBVIOUS
<1>2. Ended(o) = [google EXCEPT ![o] = p]
  BY <1>1 DEF Ended
<1> HIDE DEF items
<1>3. p.state = "EXPIRED" /\ p.acked = google[o].acked /\ p.ver = google[o].ver + 1
  BY <1>1, BecomesFields
<1>4. Changes(o, p)
  BY <1>3 DEF Changes, Acknowledgeable
<1> QED  BY <1>2, <1>4 DEF Inv

(* One purchase changes, perhaps along with the one it replaces.           *)
LEMMA OneChanges ==
  ASSUME Inv, AckInv, Event, NEW t \in Tokens, NEW state, NEW items, NEW g,
         g = google \/ (\E o \in Tokens \ {t} : g = Ended(o)),
         google' = [g EXCEPT ![t] = Becomes(t, state, items)],
         \A n \in rtdn : n \in rtdn',
         state \in Acknowledgeable => \E n \in rtdn' : n.token = t
  PROVE  AckInv'
<1>1. PICK p : p = Becomes(t, state, items)
  OBVIOUS
<1>2. Changes(t, p)
  BY <1>1, BecomesFields DEF Changes
<1>3. /\ g \in [Tokens -> {g[u] : u \in Tokens}]
      /\ \A u \in Tokens : g[u] = google[u] \/ Changes(u, g[u])
  BY EndedChanges DEF Inv
<1>4. \A u \in Tokens : google'[u] = google[u] \/ Changes(u, google'[u])
  BY <1>1, <1>2, <1>3
<1> QED  BY <1>4, GoogleAck

LEMMA GoogleStepAck ==
  ASSUME ConstantsAssumption, Inv, AckInv, GoogleStep
  PROVE  AckInv'
<1>1. PICK t \in Tokens :
        \/ \E p \in FirstPlans : Purchase(t, p)
        \/ \E how \in {"now", "pending", "deferred"} : SwitchTo(t, how)
        \/ \E paid \in BOOLEAN : PendingSettles(t, paid)
        \/ \E state \in PlayStates : PeriodEnds(t, state)
        \/ Cancel(t)
        \/ Revoke(t)
  BY DEF GoogleStep
<1>2. \A type : \E n \in Told(t, type) : n.token = t
  BY DEF Told
<1>3. ASSUME NEW p \in FirstPlans, Purchase(t, p)
      PROVE  AckInv'
  <2>1. PICK items : google' = [google EXCEPT ![t] = Becomes(t, "ACTIVE", items)]
    BY <1>3 DEF Purchase
  <2>2. Event /\ rtdn' = rtdn \cup Told(t, "other")
    BY <1>3 DEF Purchase
  <2> QED  BY <1>2, <2>1, <2>2, OneChanges
<1>4. ASSUME NEW how \in {"now", "pending", "deferred"}, SwitchTo(t, how)
      PROVE  AckInv'
  <2>1. PICK state, items, g :
          /\ state = IF how = "pending" THEN "PENDING" ELSE "ACTIVE"
          /\ g = IF how = "pending" THEN google ELSE Ended(Link[t])
          /\ google' = [g EXCEPT ![t] = Becomes(t, state, items)]
    BY <1>4 DEF SwitchTo
  <2>2. Event /\ Link[t] \in Tokens \ {t}
    BY <1>4 DEF SwitchTo, ConstantsAssumption
  <2>3. /\ \A n \in rtdn : n \in rtdn'
        /\ how # "pending" => \A n \in Told(t, "other") : n \in rtdn'
    BY <1>4 DEF SwitchTo
  <2>4. state \in Acknowledgeable => \E n \in rtdn' : n.token = t
    BY <1>2, <2>1, <2>3 DEF Acknowledgeable
  <2>5. g = google \/ (\E o \in Tokens \ {t} : g = Ended(o))
    BY <2>1, <2>2
  <2> QED  BY <2>1, <2>2, <2>3, <2>4, <2>5, OneChanges
<1>5. ASSUME NEW paid \in BOOLEAN, PendingSettles(t, paid)
      PROVE  AckInv'
  <2>1. PICK state, items, g :
          /\ g = google \/ (Link[t] # NoToken /\ g = Ended(Link[t]))
          /\ google' = [g EXCEPT ![t] = Becomes(t, state, items)]
    BY <1>5 DEF PendingSettles
  <2>2. Event /\ (Link[t] # NoToken => Link[t] \in Tokens \ {t})
    BY <1>5 DEF PendingSettles, ConstantsAssumption
  <2>3. \A n \in rtdn \cup Told(t, "other") : n \in rtdn'
    BY <1>5 DEF PendingSettles
  <2>4. g = google \/ (\E o \in Tokens \ {t} : g = Ended(o))
    BY <2>1, <2>2
  <2> QED  BY <1>2, <2>1, <2>2, <2>3, <2>4, OneChanges
<1>6. ASSUME NEW state \in PlayStates, PeriodEnds(t, state)
      PROVE  AckInv'
  <2>1. PICK items : google' = [google EXCEPT ![t] = Becomes(t, state, items)]
    BY <1>6 DEF PeriodEnds
  <2>2. Event /\ rtdn' = rtdn \cup Told(t, "other")
    BY <1>6 DEF PeriodEnds
  <2> QED  BY <1>2, <2>1, <2>2, OneChanges
<1>7. CASE Cancel(t)
  <2>1. PICK items : google' = [google EXCEPT ![t] = Becomes(t, "CANCELED", items)]
    BY <1>7 DEF Cancel
  <2>2. Event /\ rtdn' = rtdn \cup Told(t, "other")
    BY <1>7 DEF Cancel
  <2> QED  BY <1>2, <2>1, <2>2, OneChanges
<1>8. CASE Revoke(t)
  <2>1. google' = Ended(t) /\ Event /\ \A n \in rtdn : n \in rtdn'
    BY <1>8 DEF Revoke
  <2>2. \A u \in Tokens : google'[u] = google[u] \/ Changes(u, google'[u])
    BY <2>1, EndedChanges
  <2> QED  BY <2>1, <2>2, GoogleAck
<1> QED  BY <1>1, <1>3, <1>4, <1>5, <1>6, <1>7, <1>8

(* The clock, the admin and a stutter touch nothing of it.                 *)
LEMMA OthersAck ==
  ASSUME Inv, AckInv, UNCHANGED <<google, rtdn, rows, calls, seen, crossed>>,
         used' \in [events : Nat, faults : Nat], used'.faults = used.faults
  PROVE  AckInv'
<1>1. AckTypes' /\ AckRows'
  BY DEF AckInv, AckTypes, AckRows
<1>2. \A c \in Calls : AckCall(calls[c])'
  BY DEF AckInv, AckCall
<1>3. AckDue'
  BY DEF AckInv, AckDue, Due, Heard, Hears, Dropped
<1> QED  BY <1>1, <1>2, <1>3 DEF AckInv

LEMMA NextAck == ASSUME ConstantsAssumption, Inv, AckInv, [Next]_vars PROVE AckInv'
<1>1. CASE GoogleStep
  BY <1>1, GoogleStepAck
<1>2. CASE Tick \/ (\E g \in Grants : AdminGrants(g[1], g[2], g[3])) \/ UNCHANGED vars
  <2>1. /\ UNCHANGED <<google, rtdn, rows, calls, seen, crossed>>
        /\ used' = used \/ used' = [used EXCEPT !.events = @ + 1]
    BY <1>2 DEF Tick, AdminGrants, vars
  <2>2. used' \in [events : Nat, faults : Nat] /\ used'.faults = used.faults
    BY <2>1 DEF AckInv, AckTypes
  <2> QED  BY <2>1, <2>2, OthersAck
<1>3. CASE \E c \in Calls : \/ \E b \in Businesses, t \in Tokens : BeginVerify(c, b, t)
                            \/ \E n \in rtdn, read \in BOOLEAN : BeginRtdn(c, n, read)
                            \/ CallFails(c)
  BY <1>3, BeginVerifyAck, BeginRtdnAck, FailAck
<1>4. CASE \E c \in Calls : Step(c)
  BY <1>4, FetchAck, BindAck, PriorAck, UpsertAck, SupersedeAck, ApplyAck DEF Step
<1> QED  BY <1>1, <1>2, <1>3, <1>4 DEF Next

(* When nothing waits and nothing failed, Google has the acknowledgement   *)
(* of every running purchase the server knows, but for the one `crossed'   *)
(* records: index.ts acknowledges before it writes, in whichever order     *)
(* verify calls and notifications of a purchase cross.                     *)
THEOREM RunningIsAcknowledged == Spec => []PaidIsAcknowledged
<1>1. Init => AckInv
  BY ConstantsAssumption, InitAck
<1>2. Inv /\ AckInv /\ [Next]_vars => AckInv'
  BY ConstantsAssumption, NextAck
<1>3. AckInv => PaidIsAcknowledged
  <2> SUFFICES ASSUME AckInv, Quiet, used.faults = 0, NEW t \in Tokens,
                      rows[t] # NoRow, google[t].state \in Acknowledgeable,
                      crossed => rows[t].state \in Acknowledgeable
               PROVE  google[t].acked
    BY DEF PaidIsAcknowledged
  <2>1. CASE crossed
    BY <2>1 DEF AckInv, AckRows
  <2>2. CASE ~crossed
    <3>1. ~Heard(t)
      BY DEF Quiet, Heard, Hears, Dropped, Idle
    <3>2. ~Due(t)
      BY <2>2, <3>1 DEF AckInv, AckDue
    <3> QED  BY <3>2 DEF Due
  <2> QED  BY <2>1, <2>2
<1> QED  BY <1>1, <1>2, <1>3, InvHolds, PTL DEF Spec
=============================================================================
