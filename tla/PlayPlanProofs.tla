--------------------------- MODULE PlayPlanProofs ---------------------------
(***************************************************************************)
(* The plan of a business and the purchases that pay for it, for any       *)
(* values of the constants of PlayBilling.                                 *)
(*                                                                         *)
(* What Google does is summed up by Moved, and each step of an invocation  *)
(* by one ...Effect, field by field; LineInv says what a replacement tells *)
(* of the purchase it replaces.  TrueInv says that whatever the server     *)
(* holds (calls, rows, notifications) is something Google once said, and   *)
(* that the newest of it is written or still on its way.                   *)
(*                                                                         *)
(* PaidPlanStands rests on StandsInv: a paid purchase is shown by its shop *)
(* or awaited.  NoFreePlan rests on FreeInv: what keeps a plan is running, *)
(* or its end is on the way and will not be held as an early lapse.  Why   *)
(* it will not is in OriginInv (how an end comes about), with BoundInv     *)
(* (no answer dates past the purchase) and MarkInv (a replaced purchase is *)
(* marked before its replacement is applied).                              *)
(***************************************************************************)
EXTENDS PlayBillingProofs

Now(t) == ParseSubscriptionV2(google[t])
Failed == "PENDING_PURCHASE_CANCELED"
Known(t) == google[t].state \notin {"none", "PENDING"}
Activated(t) == google[t].state \notin {"none", "PENDING", Failed}
Live == {"ACTIVE", "IN_GRACE_PERIOD", "ON_HOLD", "CANCELED"}

(* Dates are past 0; a purchase that is held or over has no time left.     *)
DateInv ==
  /\ now > 0
  /\ \A t \in Tokens : /\ Activated(t) => ExpiryOf(t) > 0
                       /\ google[t].state \in {"ON_HOLD", "EXPIRED"} => ExpiryOf(t) <= now

-----------------------------------------------------------------------------
(* What one step of Google may do to a purchase.                           *)
MoveOf(s, n) ==
  \/ s = "none" /\ n \in {"ACTIVE", "PENDING"}
  \/ s = "PENDING" /\ n \in {"ACTIVE", Failed}
  \/ s \in Live /\ n \in Live \cup {"EXPIRED"}

(* u becomes g: a new version, and the server is told, unless the payment  *)
(* is pending.                                                             *)
Moves(u, g) ==
  /\ g.ver = google[u].ver + 1 /\ MoveOf(google[u].state, g.state)
  /\ g.state # "PENDING" => \E n \in rtdn' : n.token = u

(* The dates of u as it becomes g: an end comes with its time, by a switch *)
(* away or by a refund the server is told of.                              *)
Dates(u, g) ==
  LET e == ParseSubscriptionV2(g).expiry
  IN  /\ g.state \in Live \cup {"EXPIRED"} => e > 0
      /\ g.state \in {"ON_HOLD", "EXPIRED"} => e <= now
      /\ google[u].state \in Live /\ g.state \in Live => ExpiryOf(u) <= e
      /\ g.state = "EXPIRED" =>
           \/ ExpiryOf(u) <= now
           \/ \E x \in Tokens : Link[x] = u /\ Activated(x)'
           \/ \E n \in rtdn' : n.token = u /\ n.type = RTDN_REVOKED

(* A purchase that is made by a switch, or starts to run, and the one it   *)
(* replaces.                                                               *)
Switches(u) ==
  Link[u] # NoToken =>
    /\ google[u].state = "none" /\ google'[u].state # "none" => google[Link[u]].state = "ACTIVE"
    /\ ~Activated(u) /\ Activated(u)' =>
         \/ google'[Link[u]].state = "EXPIRED"
         \/ google'[Link[u]] = google[Link[u]] /\ google[Link[u]].state \notin Live

Moved ==
  /\ UNCHANGED <<rows, biz, stamp, calls, now, seen, crossed, granted>>
  /\ \A u \in Tokens : google'[u] = google[u] \/ (Moves(u, google'[u]) /\ Dates(u, google'[u]))
  /\ \A u \in Tokens : Switches(u)
  /\ \A n \in rtdn : n \in rtdn'
  /\ \A n \in rtdn' : n \in rtdn \/ (n.token \in Tokens /\ Known(n.token)')
  /\ \A t \in queued : t \in queued'
  /\ \A t \in queued' : t \in queued \/ (t \in Tokens /\ Known(t)')

LEMMA BecomesItems ==
  ASSUME Inv, NEW t \in Tokens, NEW state, NEW items
  PROVE  Becomes(t, state, items).items = items /\ Becomes(t, state, items).state = state
<1>1. PICK g : g = google[t] /\ g \in PurchaseType
  BY VersionTyped
<1>2. PICK p : p = [g EXCEPT !.state = state, !.items = items, !.ver = g.ver + 1]
  OBVIOUS
<1>3. p.state = state /\ p.items = items
  BY <1>1, <1>2 DEF PurchaseType
<1>4. Becomes(t, state, items) = p
  BY <1>1, <1>2 DEF Becomes
<1> QED  BY <1>3, <1>4

(* The answer for a purchase of one item, and of a deferred switch.        *)
LEMMA ParseItem ==
  ASSUME ConstantsAssumption, Inv, NEW t \in Tokens, NEW state, NEW p \in Products,
         NEW e \in Nat, e <= MaxNow + Period,
         NEW items, items = {Owned(p, e)} \/ items = {NotOwned(p, e)}
  PROVE  ParseSubscriptionV2(Becomes(t, state, items)) = [product |-> p, state |-> state, expiry |-> e]
<1>1. PICK i \in LineItem : items = {i} /\ i.product = p /\ i.expiry = e
  <2>1. e \in Time
    BY DEF ConstantsAssumption, Time
  <2>2. PICK a, b : a = Owned(p, e) /\ b = NotOwned(p, e)
    OBVIOUS
  <2>3. /\ a \in LineItem /\ a.product = p /\ a.expiry = e
        /\ b \in LineItem /\ b.product = p /\ b.expiry = e
    BY <2>1, <2>2 DEF Owned, NotOwned, LineItem
  <2> QED  BY <2>2, <2>3
<1>2. PICK g : g = Becomes(t, state, items) /\ g.items = items /\ g.state = state
  BY BecomesItems
<1> DEFINE holders == {x \in g.items : x.deferred}
           owned == {x \in g.items : x.owned}
<1>a. g.items = {i}
  BY <1>1, <1>2
<1>3. holders \in {{}, {i}} /\ owned \in {{}, {i}} /\ g.items = {i}
  BY <1>a
<1>4. Latest(IF holders # {} THEN holders ELSE IF owned # {} THEN owned ELSE g.items) = i
  BY <1>3, LatestOfOne
<1>5. ParseSubscriptionV2(g) = [product |-> i.product, state |-> g.state, expiry |-> i.expiry]
  BY <1>3, <1>4 DEF ParseSubscriptionV2
<1> QED  BY <1>1, <1>2, <1>5

LEMMA ParseDeferred ==
  ASSUME ConstantsAssumption, Inv, NEW t \in Tokens, NEW state, NEW p \in Products,
         NEW e \in Nat, e <= MaxNow + Period
  PROVE  ParseSubscriptionV2(Becomes(t, state, {Holder(p, e), NotOwned("basic", e + Period)}))
           = [product |-> p, state |-> state, expiry |-> e]
<1>1. PICK h, n : h = Holder(p, e) /\ n = NotOwned("basic", e + Period)
  OBVIOUS
<1>2. /\ h \in LineItem /\ h.deferred /\ ~n.deferred /\ h.product = p /\ h.expiry = e
  BY <1>1 DEF Holder, NotOwned, LineItem, ConstantsAssumption, Time
<1>3. PICK g : /\ g = Becomes(t, state, {Holder(p, e), NotOwned("basic", e + Period)})
               /\ g.items = {h, n} /\ g.state = state
  BY <1>1, BecomesItems
<1> DEFINE holders == {x \in g.items : x.deferred}
           owned == {x \in g.items : x.owned}
<1>4. holders = {h} /\ g.items # {}
  BY <1>2, <1>3
<1>5. Latest(IF holders # {} THEN holders ELSE IF owned # {} THEN owned ELSE g.items) = h
  BY <1>2, <1>4, LatestOfOne
<1>6. ParseSubscriptionV2(g) = [product |-> h.product, state |-> g.state, expiry |-> h.expiry]
  BY <1>4, <1>5 DEF ParseSubscriptionV2
<1> QED  BY <1>2, <1>3, <1>6

LEMMA EndedOne ==
  ASSUME ConstantsAssumption, Inv, NEW o \in Tokens, google[o].state # "none"
  PROVE  \E p : /\ Ended(o) = [google EXCEPT ![o] = p]
                /\ p.state = "EXPIRED" /\ p.ver = google[o].ver + 1
                /\ ParseSubscriptionV2(p).expiry = now
<1>1. PICK p : p = Becomes(o, "EXPIRED", {Owned(ParseSubscriptionV2(google[o]).product, now)})
  OBVIOUS
<1>2. Ended(o) = [google EXCEPT ![o] = p]
  BY <1>1 DEF Ended
<1>3. p.state = "EXPIRED" /\ p.ver = google[o].ver + 1
  BY <1>1, BecomesFields
<1>4. ParseSubscriptionV2(p).expiry = now
  <2>1. ParseSubscriptionV2(google[o]).product \in Products /\ now \in Nat /\ now <= MaxNow + Period
    BY LiveParsed, TimesTyped
  <2>2. PICK x \in Products : x = ParseSubscriptionV2(google[o]).product
    BY <2>1
  <2>3. p = Becomes(o, "EXPIRED", {Owned(x, now)})
    BY <1>1, <2>2
  <2>4. ParseSubscriptionV2(p) = [product |-> x, state |-> "EXPIRED", expiry |-> now]
    BY <2>1, <2>3, ParseItem
  <2> QED  BY <2>4
<1> QED  BY <1>2, <1>3, <1>4

(* One purchase moves, perhaps along with the one it replaces, which ends. *)
OneMove(t, state, items, g, told) ==
  /\ Event /\ google' = [g EXCEPT ![t] = Becomes(t, state, items)]
  /\ g = google \/ (Link[t] # NoToken /\ google[Link[t]].state \in Live /\ g = Ended(Link[t]))
  /\ MoveOf(google[t].state, state) /\ Dates(t, Becomes(t, state, items))
  /\ g # google => state \in Live
  /\ Link[t] # NoToken =>
       /\ google[t].state = "none" => google[Link[t]].state = "ACTIVE"
       /\ google[t].state \notin Live /\ state \in Live /\ g = google
            => google[Link[t]].state \notin Live
  /\ rtdn' = rtdn \cup told
  /\ state # "PENDING" => \E n \in told : n.token = t
  /\ g # google => \E n \in told : n.token = Link[t]
  /\ \A n \in told : (n.token = t /\ state # "PENDING") \/ (n.token = Link[t] /\ g # google)
  /\ queued' = queued \/ (state # "PENDING" /\ queued' = queued \cup {t})

LEMMA OneMoves ==
  ASSUME ConstantsAssumption, Inv, DateInv, NEW t \in Tokens, NEW state, NEW items, NEW g,
         NEW told \in SUBSET Notification, OneMove(t, state, items, g, told)
  PROVE  Moved
<1> USE DEF OneMove
<1>1. PICK o : o = Link[t] /\ o # t /\ (o # NoToken => o \in Tokens)
  BY DEF ConstantsAssumption
<1>2. PICK p : p = Becomes(t, state, items) /\ p.state = state /\ p.ver = google[t].ver + 1
  BY BecomesFields
<1>3. PICK q : /\ g = google \/ (o \in Tokens /\ google[o].state \in Live /\ g = [google EXCEPT ![o] = q])
               /\ g # google => /\ q.state = "EXPIRED" /\ q.ver = google[o].ver + 1
                                /\ ParseSubscriptionV2(q).expiry = now
  <2>1. CASE g = google
    BY <2>1
  <2>2. CASE g # google
    <3>1. o \in Tokens /\ google[o].state \in Live /\ g = Ended(o)
      BY <1>1, <2>2
    <3>2. google[o].state # "none"
      BY <3>1 DEF Live
    <3> QED  BY <3>1, <3>2, EndedOne
  <2> QED  BY <2>1, <2>2
<1>4. /\ google'[t] = p
      /\ \A u \in Tokens \ {t, o} : google'[u] = google[u]
      /\ o \in Tokens => google'[o] = g[o]
      /\ o \in Tokens /\ g # google => google'[o] = q
  BY <1>1, <1>2, <1>3 DEF Inv
<1>5. Moves(t, p) /\ Dates(t, p)
  BY <1>2 DEF Moves
<1>6. ASSUME o \in Tokens, g # google
      PROVE  Moves(o, q) /\ Dates(o, q)
  <2>1. Moves(o, q)
    BY <1>1, <1>3, <1>6 DEF Moves, MoveOf
  <2>2. now > 0 /\ now <= now
    BY TimesTyped DEF DateInv
  <2>3. Activated(t)'
    BY <1>2, <1>4, <1>6 DEF Activated, Live, Failed
  <2>4. q.state \notin Live
    BY <1>3, <1>6 DEF Live
  <2> QED  BY <1>1, <1>3, <1>6, <2>1, <2>2, <2>3, <2>4 DEF Dates
<1>7. \A u \in Tokens : google'[u] = google[u] \/ (Moves(u, google'[u]) /\ Dates(u, google'[u]))
  BY <1>1, <1>4, <1>5, <1>6
<1>8. \A u \in Tokens : Switches(u)
  <2> SUFFICES ASSUME NEW u \in Tokens, Link[u] # NoToken
               PROVE  Switches(u)
    BY DEF Switches
  <2>1. CASE u = t
    <3>1. ~Activated(t) => google[t].state \notin Live
      BY DEF Activated, Live, Failed
    <3>2. ~Activated(t) /\ Activated(t)' => state \in Live
      BY <1>2, <1>4 DEF Activated, MoveOf, Live, Failed
    <3> QED  BY <1>1, <1>2, <1>3, <1>4, <2>1, <3>1, <3>2 DEF Switches
  <2>2. CASE u # t
    <3>1. google'[u].state = google[u].state \/ google[u].state \in Live
      BY <1>1, <1>3, <1>4, <2>2
    <3> QED  BY <3>1 DEF Switches, Activated, Live, Failed
  <2> QED  BY <2>1, <2>2
<1>9. \A n \in rtdn' : n \in rtdn \/ (n.token \in Tokens /\ Known(n.token)')
  <2>1. state # "PENDING" => state \notin {"none", "PENDING"}
    BY DEF MoveOf, Live, Failed
  <2>2. \A n \in told : n.token \in Tokens
    BY DEF Notification
  <2> QED  BY <1>1, <1>2, <1>3, <1>4, <2>1, <2>2 DEF Known
<1>10. \A x \in queued' : x \in queued \/ (x \in Tokens /\ Known(x)')
  <2>1. state # "PENDING" => state \notin {"none", "PENDING"}
    BY DEF MoveOf, Live, Failed
  <2> QED  BY <1>2, <1>4, <2>1 DEF Known
<1> QED  BY <1>7, <1>8, <1>9, <1>10 DEF Moved, Event

LEMMA PurchaseMoves ==
  ASSUME ConstantsAssumption, Inv, DateInv, NEW t \in Tokens, NEW p \in Products, Purchase(t, p)
  PROVE  Moved
<1>1. now + Period \in Nat /\ now + Period <= MaxNow + Period /\ now + Period > 0
  BY TimesTyped DEF DateInv
<1>2. PICK items : items = {Owned(p, now + Period)}
  OBVIOUS
<1>3. ParseSubscriptionV2(Becomes(t, "ACTIVE", items)).expiry = now + Period
  BY <1>1, <1>2, ParseItem
<1>4. Dates(t, Becomes(t, "ACTIVE", items))
  <2>1. Becomes(t, "ACTIVE", items).state = "ACTIVE" /\ google[t].state \notin Live
    BY BecomesFields DEF Purchase, Live
  <2> QED  BY <1>1, <1>3, <2>1 DEF Dates
<1>5. /\ Event /\ google' = [google EXCEPT ![t] = Becomes(t, "ACTIVE", items)]
      /\ rtdn' = rtdn \cup Told(t, "other") /\ queued' = queued \cup {t}
      /\ google[t].state = "none" /\ Link[t] = NoToken
  BY <1>2 DEF Purchase
<1>6. PICK told \in SUBSET Notification : /\ told = Told(t, "other")
                                           /\ \E n \in told : n.token = t
                                           /\ \A m \in told : m.token = t
  <2>1. PICK n : n = [token |-> t, type |-> "other"]
    OBVIOUS
  <2>2. n \in Notification /\ n.token = t /\ Told(t, "other") = {n}
    BY <2>1 DEF Told, Notification, Types
  <2> QED  BY <2>2
<1>7. MoveOf(google[t].state, "ACTIVE") /\ "ACTIVE" \in Live
  BY <1>5 DEF MoveOf, Live
<1>8. OneMove(t, "ACTIVE", items, google, told)
  BY <1>4, <1>5, <1>6, <1>7 DEF OneMove
<1> QED  BY <1>8, OneMoves

LEMMA SwitchMoves ==
  ASSUME ConstantsAssumption, Inv, DateInv, NEW t \in Tokens,
         NEW how \in {"now", "pending", "deferred"}, SwitchTo(t, how)
  PROVE  Moved
<1>1. PICK o : o = Link[t] /\ o \in Tokens
  BY DEF SwitchTo, ConstantsAssumption
<1>2. google[t].state = "none" /\ google[o].state = "ACTIVE" /\ Event
  BY <1>1 DEF SwitchTo
<1>3. PICK p \in Products : p = ParseSubscriptionV2(google[o]).product
  <2>1. ParseSubscriptionV2(google[o]).product \in Products
    BY <1>1, <1>2, LiveParsed
  <2> QED  BY <2>1
<1>4. /\ 0 \in Nat /\ 0 <= MaxNow + Period
      /\ now + Period \in Nat /\ now + Period <= MaxNow + Period /\ now + Period > 0
  BY TimesTyped DEF DateInv
<1>5. ExpiryOf(o) \in Nat /\ ExpiryOf(o) <= MaxNow + Period /\ ExpiryOf(o) > 0
  BY <1>1, <1>2, LiveParsed DEF DateInv, Activated, Failed
<1>6. PICK state : state = IF how = "pending" THEN "PENDING" ELSE "ACTIVE"
  OBVIOUS
<1>7. PICK items :
        items = CASE how = "pending" -> {NotOwned("premium", 0)}
                  [] how = "now" -> {Owned("premium", now + Period)}
                  [] how = "deferred" -> {Holder(p, ExpiryOf(o)), NotOwned("basic", ExpiryOf(o) + Period)}
  OBVIOUS
<1>8. how # "pending" => ParseSubscriptionV2(Becomes(t, state, items)).expiry > 0
  <2>1. CASE how = "now"
    <3>1. items = {Owned("premium", now + Period)} /\ "premium" \in Products
      BY <1>7, <2>1 DEF Products
    <3>2. ParseSubscriptionV2(Becomes(t, state, items)).expiry = now + Period
      BY <1>4, <3>1, ParseItem
    <3> QED  BY <1>4, <3>2
  <2>2. CASE how = "deferred"
    <3>1. PICK e \in Nat : e = ExpiryOf(o) /\ e <= MaxNow + Period /\ e > 0
      BY <1>5
    <3>2. items = {Holder(p, e), NotOwned("basic", e + Period)}
      BY <1>7, <2>2, <3>1
    <3>3. ParseSubscriptionV2(Becomes(t, state, items)) = [product |-> p, state |-> state, expiry |-> e]
      BY <3>1, <3>2, ParseDeferred
    <3> QED  BY <3>1, <3>3
  <2> QED  BY <2>1, <2>2
<1>9. Dates(t, Becomes(t, state, items))
  <2>1. Becomes(t, state, items).state = state /\ google[t].state \notin Live
    BY <1>2, BecomesFields DEF Live
  <2> QED  BY <1>6, <1>8, <2>1 DEF Dates, Live
<1>10. MoveOf(google[t].state, state)
  BY <1>2, <1>6 DEF MoveOf
<1>11. PICK g : g = IF how = "pending" THEN google ELSE Ended(o)
  OBVIOUS
<1>12. google' = [g EXCEPT ![t] = Becomes(t, state, items)]
  BY <1>1, <1>3, <1>6, <1>7, <1>11 DEF SwitchTo
<1>13. PICK told \in SUBSET Notification :
         /\ rtdn' = rtdn \cup told
         /\ told = IF how = "pending" THEN {} ELSE Told(t, "other") \cup Told(o, "other")
  <2>1. Told(t, "other") \subseteq Notification /\ Told(o, "other") \subseteq Notification
    BY <1>1 DEF Told, Notification, Types
  <2>2. PICK told : told = IF how = "pending" THEN {} ELSE Told(t, "other") \cup Told(o, "other")
    OBVIOUS
  <2>3. rtdn' = rtdn \cup told
    BY <1>1, <2>2 DEF SwitchTo
  <2> QED  BY <2>1, <2>2, <2>3
<1>14. /\ state # "PENDING" => \E n \in told : n.token = t
       /\ g # google => \E n \in told : n.token = o
       /\ g = google \/ (google[o].state \in Live /\ g = Ended(o))
  BY <1>2, <1>6, <1>11, <1>13 DEF Told, Live
<1>15. ASSUME how # "pending"
       PROVE  g # google
  <2>1. PICK q : Ended(o) = [google EXCEPT ![o] = q] /\ q.state = "EXPIRED"
    BY <1>1, <1>2, EndedOne
  <2>2. Ended(o)[o] # google[o]
    BY <1>1, <1>2, <2>1 DEF Inv
  <2> QED  BY <1>11, <1>15, <2>2
<1>16. \A n \in told : (n.token = t /\ state # "PENDING") \/ (n.token = o /\ g # google)
  BY <1>6, <1>13, <1>15 DEF Told
<1>17. queued' = queued \/ (state # "PENDING" /\ queued' = queued \cup {t})
  BY <1>6 DEF SwitchTo
<1>18. /\ g # google => state \in Live
       /\ state \in Live /\ g = google => google[o].state \notin Live
  BY <1>6, <1>11, <1>15 DEF Live
<1>19. OneMove(t, state, items, g, told)
  BY <1>1, <1>2, <1>9, <1>10, <1>12, <1>13, <1>14, <1>16, <1>17, <1>18 DEF OneMove, SwitchTo
<1> QED  BY <1>19, OneMoves

LEMMA SettleMoves ==
  ASSUME ConstantsAssumption, Inv, DateInv, NEW t \in Tokens, NEW paid \in BOOLEAN,
         PendingSettles(t, paid)
  PROVE  Moved
<1>1. PICK o : o = Link[t] /\ (o # NoToken => o \in Tokens)
  BY DEF ConstantsAssumption
<1>2. google[t].state = "PENDING" /\ Event
  BY DEF PendingSettles
<1>3. PICK p \in Products : p = Latest(google[t].items).product
  <2>1. Latest(google[t].items).product \in Products
    BY <1>2, LiveParsed
  <2> QED  BY <2>1
<1>4. /\ 0 \in Nat /\ 0 <= MaxNow + Period
      /\ now + Period \in Nat /\ now + Period <= MaxNow + Period /\ now + Period > 0
  BY TimesTyped DEF DateInv
<1>5. PICK live \in BOOLEAN :
        live = (paid /\ o # NoToken /\ (Running(o) \/ google[o].state = "ON_HOLD"))
  OBVIOUS
<1>6. PICK state : state = IF paid THEN "ACTIVE" ELSE Failed
  OBVIOUS
<1>7. PICK items : items = IF paid THEN {Owned(p, now + Period)} ELSE {NotOwned(p, 0)}
  OBVIOUS
<1>8. Dates(t, Becomes(t, state, items))
  <2>1. Becomes(t, state, items).state = state /\ google[t].state \notin Live
    BY <1>2, BecomesFields DEF Live
  <2>2. CASE paid
    <3>1. items = {Owned(p, now + Period)}
      BY <1>7, <2>2
    <3>2. ParseSubscriptionV2(Becomes(t, state, items)).expiry = now + Period
      BY <1>4, <3>1, ParseItem
    <3> QED  BY <1>4, <1>6, <2>1, <2>2, <3>2 DEF Dates, Live
  <2>3. CASE ~paid
    BY <1>6, <2>1, <2>3 DEF Dates, Live, Failed
  <2> QED  BY <2>2, <2>3
<1>9. MoveOf(google[t].state, state)
  BY <1>2, <1>6 DEF MoveOf
<1>10. PICK g : g = IF live THEN Ended(o) ELSE google
  OBVIOUS
<1>11. google' = [g EXCEPT ![t] = Becomes(t, state, items)]
  BY <1>1, <1>3, <1>5, <1>6, <1>7, <1>10 DEF PendingSettles, Failed
<1>12. live => o \in Tokens /\ google[o].state \in Live
  BY <1>1, <1>5 DEF Running, Live
<1>13. PICK told \in SUBSET Notification :
         /\ rtdn' = rtdn \cup told
         /\ told = Told(t, "other") \cup (IF live THEN Told(o, "other") ELSE {})
  <2>1. Told(t, "other") \subseteq Notification /\ (live => Told(o, "other") \subseteq Notification)
    BY <1>12 DEF Told, Notification, Types
  <2>2. PICK told : told = Told(t, "other") \cup (IF live THEN Told(o, "other") ELSE {})
    OBVIOUS
  <2>3. rtdn' = rtdn \cup told
    BY <1>1, <1>5, <2>2 DEF PendingSettles
  <2> QED  BY <2>1, <2>2, <2>3
<1>14. /\ \E n \in told : n.token = t
       /\ g # google => live
       /\ live => \E n \in told : n.token = o
       /\ g = google \/ (google[o].state \in Live /\ g = Ended(o))
  <2>1. PICK n, m : n = [token |-> t, type |-> "other"] /\ m = [token |-> o, type |-> "other"]
    OBVIOUS
  <2>2. /\ n.token = t /\ n \in Told(t, "other")
        /\ m.token = o /\ m \in Told(o, "other")
    BY <2>1 DEF Told
  <2> QED  BY <1>10, <1>12, <1>13, <2>2
<1>15. ASSUME live
       PROVE  g # google
  <2>1. PICK q : Ended(o) = [google EXCEPT ![o] = q] /\ q.state = "EXPIRED"
    BY <1>12, <1>15, EndedOne DEF Live
  <2>2. Ended(o)[o] # google[o]
    BY <1>12, <1>15, <2>1 DEF Inv, Live
  <2> QED  BY <1>10, <1>15, <2>2
<1>16. state # "PENDING" /\ \A n \in told : n.token = t \/ (n.token = o /\ g # google)
  BY <1>6, <1>13, <1>15 DEF Told, Failed
<1>17. queued' = queued \/ queued' = queued \cup {t}
  BY DEF PendingSettles
<1>18. /\ g # google => state \in Live
       /\ o # NoToken /\ state \in Live /\ g = google => google[o].state \notin Live
  BY <1>5, <1>6, <1>14, <1>15 DEF Live, Running, Failed
<1>19. g = google \/ (Link[t] # NoToken /\ google[Link[t]].state \in Live /\ g = Ended(Link[t]))
  BY <1>1, <1>5, <1>10, <1>14
<1>20. OneMove(t, state, items, g, told)
  BY <1>1, <1>2, <1>8, <1>9, <1>11, <1>13, <1>14, <1>16, <1>17, <1>18, <1>19 DEF OneMove
<1> QED  BY <1>20, OneMoves

LEMMA PeriodMoves ==
  ASSUME ConstantsAssumption, Inv, DateInv, NEW t \in Tokens, NEW state \in PlayStates,
         PeriodEnds(t, state)
  PROVE  Moved
<1>1. /\ google[t].state \in Live /\ Event
      /\ state \in Following[google[t].state]
      /\ (Running(t) /\ ExpiryOf(t) <= now) \/ google[t].state = "ON_HOLD"
  BY DEF PeriodEnds, PeriodOver, Running, Live
<1>2. /\ state \in {"ACTIVE", "IN_GRACE_PERIOD", "ON_HOLD", "EXPIRED"}
      /\ google[t].state # "none"
  BY <1>1 DEF Following, Live
<1>3. PICK p \in Products : p = Latest(google[t].items).product
  <2>1. Latest(google[t].items).product \in Products
    BY <1>2, LiveParsed
  <2> QED  BY <2>1
<1>4. PICK e : e = CASE state = "ACTIVE" -> now + Period
                     [] state = "IN_GRACE_PERIOD" -> now + 1
                     [] OTHER -> now
  OBVIOUS
<1>5. /\ e \in Nat /\ e <= MaxNow + Period /\ e > 0 /\ now <= e
      /\ state \in {"ON_HOLD", "EXPIRED"} => e <= now
  <2>1. now \in Nat /\ now <= MaxNow /\ MaxNow \in Nat /\ Period \in Nat /\ Period >= 1 /\ now > 0
    BY TimesTyped DEF DateInv
  <2> QED  BY <1>2, <1>4, <2>1
<1>6. PICK items : items = {Owned(p, e)}
  OBVIOUS
<1>7. ParseSubscriptionV2(Becomes(t, state, items)) = [product |-> p, state |-> state, expiry |-> e]
  BY <1>5, <1>6, ParseItem
<1>8. ExpiryOf(t) \in Nat /\ ExpiryOf(t) <= now /\ now \in Nat
  BY <1>1, <1>2, LiveParsed, TimesTyped DEF DateInv
<1>9. Dates(t, Becomes(t, state, items))
  <2>1. Becomes(t, state, items).state = state /\ ExpiryOf(t) <= e
    BY <1>5, <1>8, BecomesFields
  <2> QED  BY <1>5, <1>7, <1>8, <2>1 DEF Dates
<1>10. MoveOf(google[t].state, state) /\ state # "PENDING"
  BY <1>1, <1>2 DEF MoveOf, Live
<1>11. PICK told \in SUBSET Notification : /\ told = Told(t, "other")
                                           /\ \E n \in told : n.token = t
                                           /\ \A n \in told : n.token = t
  <2>1. PICK n : n = [token |-> t, type |-> "other"]
    OBVIOUS
  <2>2. n \in Notification /\ n.token = t /\ Told(t, "other") = {n}
    BY <2>1 DEF Told, Notification, Types
  <2> QED  BY <2>2
<1>12. OneMove(t, state, items, google, told)
  <2>1. google[t].state # "none"
    BY <1>2
  <2>2. google' = [google EXCEPT ![t] = Becomes(t, state, items)]
    BY <1>3, <1>4, <1>6 DEF PeriodEnds
  <2>3. rtdn' = rtdn \cup told /\ queued' = queued
    BY <1>11 DEF PeriodEnds
  <2> QED  BY <1>1, <1>9, <1>10, <1>11, <2>1, <2>2, <2>3 DEF OneMove
<1> QED  BY <1>12, OneMoves

LEMMA CancelMoves ==
  ASSUME ConstantsAssumption, Inv, DateInv, NEW t \in Tokens, Cancel(t)
  PROVE  Moved
<1>1. google[t].state = "ACTIVE" /\ Event
  BY DEF Cancel
<1>2. PICK g : g = google[t] /\ g.items # {}
  BY <1>1 DEF Inv, PurchaseOK
<1>3. PICK items : items = g.items
  OBVIOUS
<1>4. PICK p : /\ p = Becomes(t, "CANCELED", items) /\ p.items = items /\ p.state = "CANCELED"
  BY BecomesItems
<1>5. ParseSubscriptionV2(p).expiry = ParseSubscriptionV2(g).expiry
  BY <1>2, <1>3, <1>4 DEF ParseSubscriptionV2
<1>6. ExpiryOf(t) \in Nat /\ ExpiryOf(t) > 0
  BY <1>1, LiveParsed DEF DateInv, Activated, Failed
<1>7. Dates(t, p)
  BY <1>2, <1>4, <1>5, <1>6 DEF Dates, ExpiryOf
<1>8. PICK told \in SUBSET Notification : /\ told = Told(t, "other")
                                          /\ \E n \in told : n.token = t
                                          /\ \A n \in told : n.token = t
  <2>1. PICK n : n = [token |-> t, type |-> "other"]
    OBVIOUS
  <2>2. n \in Notification /\ n.token = t /\ Told(t, "other") = {n}
    BY <2>1 DEF Told, Notification, Types
  <2> QED  BY <2>2
<1>9. OneMove(t, "CANCELED", items, google, told)
  <2>1. MoveOf(google[t].state, "CANCELED") /\ google[t].state \in Live
    BY <1>1 DEF MoveOf, Live
  <2>2. google' = [google EXCEPT ![t] = Becomes(t, "CANCELED", items)]
    BY <1>2, <1>3 DEF Cancel
  <2>3. rtdn' = rtdn \cup told /\ queued' = queued
    BY <1>8 DEF Cancel
  <2> QED  BY <1>1, <1>4, <1>7, <1>8, <2>1, <2>2, <2>3 DEF OneMove
<1> QED  BY <1>9, OneMoves

LEMMA RevokeMoves ==
  ASSUME ConstantsAssumption, Inv, DateInv, NEW t \in Tokens, Revoke(t)
  PROVE  Moved
<1>1. google[t].state \in Live /\ google[t].state # "none" /\ Event
  BY DEF Revoke, Running, Live
<1>2. PICK p \in Products : p = ParseSubscriptionV2(google[t]).product
  <2>1. ParseSubscriptionV2(google[t]).product \in Products
    BY <1>1, LiveParsed
  <2> QED  BY <2>1
<1>3. PICK items : items = {Owned(p, now)}
  OBVIOUS
<1>4. ParseSubscriptionV2(Becomes(t, "EXPIRED", items)) = [product |-> p, state |-> "EXPIRED", expiry |-> now]
  <2>1. now \in Nat /\ now <= MaxNow + Period
    BY TimesTyped
  <2> QED  BY <1>3, <2>1, ParseItem
<1>5. PICK told \in SUBSET Notification : /\ told = Told(t, RTDN_REVOKED)
                                          /\ \E n \in told : n.token = t /\ n.type = RTDN_REVOKED
                                          /\ \A n \in told : n.token = t
  <2>1. PICK n : n = [token |-> t, type |-> RTDN_REVOKED]
    OBVIOUS
  <2>2. n \in Notification /\ n.token = t /\ n.type = RTDN_REVOKED /\ Told(t, RTDN_REVOKED) = {n}
    BY <2>1 DEF Told, Notification, Types
  <2> QED  BY <2>2
<1>6. rtdn' = rtdn \cup told /\ queued' = queued
  BY <1>5 DEF Revoke
<1>7. Dates(t, Becomes(t, "EXPIRED", items))
  <2>1. Becomes(t, "EXPIRED", items).state = "EXPIRED"
    BY BecomesFields
  <2>2. now > 0 /\ now <= now
    BY TimesTyped DEF DateInv
  <2> QED  BY <1>4, <1>5, <1>6, <2>1, <2>2 DEF Dates, Live
<1>8. OneMove(t, "EXPIRED", items, google, told)
  <2>1. MoveOf(google[t].state, "EXPIRED")
    BY <1>1 DEF MoveOf, Live
  <2>2. google' = [google EXCEPT ![t] = Becomes(t, "EXPIRED", items)]
    BY <1>2, <1>3 DEF Revoke, Ended
  <2> QED  BY <1>1, <1>5, <1>6, <1>7, <2>1, <2>2 DEF OneMove
<1> QED  BY <1>8, OneMoves

LEMMA GoogleMoves == ASSUME ConstantsAssumption, Inv, DateInv, GoogleStep PROVE Moved
<1>1. \A t \in Tokens, p \in FirstPlans : Purchase(t, p) => Moved
  BY PurchaseMoves DEF ConstantsAssumption
<1> QED  BY <1>1, SwitchMoves, SettleMoves, PeriodMoves, CancelMoves, RevokeMoves DEF GoogleStep

-----------------------------------------------------------------------------
(* A replacement exists only of a purchase that ran, and ends it when it   *)
(* runs itself; nothing is bought along a circle of links.                 *)
LineInv ==
  /\ \A t \in Tokens : Link[t] # NoToken =>
       /\ google[t].state # "none" => Activated(Link[t])
       /\ Activated(t) => google[Link[t]].state = "EXPIRED"
  /\ \A C \in SUBSET Tokens :
       (\A x \in C : Link[x] \in C) => \A x \in C : google[x].state = "none"

(* Only the acknowledgement of a purchase changes, if anything does.       *)
Same == \A u \in Tokens : /\ google'[u].state = google[u].state
                          /\ google'[u].items = google[u].items
                          /\ google'[u].ver = google[u].ver

LEMMA SameFacts ==
  ASSUME Same, NEW u \in Tokens
  PROVE  /\ Now(u)' = Now(u) /\ (Known(u)' <=> Known(u)) /\ (Activated(u)' <=> Activated(u))
         /\ ExpiryOf(u)' = ExpiryOf(u) /\ (Running(u)' <=> Running(u))
<1>1. google'[u].state = google[u].state /\ google'[u].items = google[u].items
  BY DEF Same
<1>2. ParseSubscriptionV2(google'[u]) = ParseSubscriptionV2(google[u])
  BY <1>1 DEF ParseSubscriptionV2
<1> QED  BY <1>1, <1>2 DEF Now, ExpiryOf, Known, Activated, Running

LEMMA InitLine == ASSUME ConstantsAssumption, Init PROVE LineInv /\ DateInv
BY DEF Init, LineInv, DateInv, Activated, ConstantsAssumption

(* What was once activated stays so, and an ended purchase stays ended.    *)
LEMMA MovedFacts ==
  ASSUME Inv, Moved, NEW u \in Tokens
  PROVE  /\ Known(u) => Known(u)' /\ (google'[u].state = Failed <=> google[u].state = Failed)
         /\ Activated(u) => Activated(u)'
         /\ google[u].state = "EXPIRED" => google'[u] = google[u]
         /\ google'[u].state = "none" => google[u].state = "none"
BY DEF Moved, Moves, MoveOf, Known, Activated, Live, Failed

LEMMA MovedLine ==
  ASSUME ConstantsAssumption, Inv, LineInv, DateInv, Moved
  PROVE  LineInv' /\ DateInv'
<1>1. ASSUME NEW t \in Tokens, Link[t] # NoToken
      PROVE  /\ google'[t].state # "none" => Activated(Link[t])'
             /\ Activated(t)' => google'[Link[t]].state = "EXPIRED"
  <2>1. PICK o \in Tokens : o = Link[t]
    BY <1>1 DEF ConstantsAssumption
  <2>2. /\ google[t].state # "none" => Activated(o)
        /\ Activated(t) => google[o].state = "EXPIRED"
    BY <1>1, <2>1 DEF LineInv
  <2>3. /\ google[t].state = "none" /\ google'[t].state # "none" => google[o].state = "ACTIVE"
        /\ ~Activated(t) /\ Activated(t)' =>
             \/ google'[o].state = "EXPIRED"
             \/ google'[o] = google[o] /\ google[o].state \notin Live
    BY <1>1, <2>1 DEF Moved, Switches
  <2>4. google[o].state = "ACTIVE" => Activated(o)
    BY DEF Activated, Failed
  <2>5. Activated(o) /\ google[o].state \notin Live => google[o].state = "EXPIRED"
    BY DEF Activated, Failed, Live, Inv, PurchaseOK, PurchaseType, PlayStates
  <2>6. google'[t].state # "none" => Activated(o)'
    BY <2>2, <2>3, <2>4, MovedFacts
  <2>7. Activated(t)' => google'[o].state = "EXPIRED"
    <3>1. CASE Activated(t)
      BY <2>2, <3>1, MovedFacts
    <3>2. CASE ~Activated(t)
      <4> SUFFICES ASSUME Activated(t)'
                   PROVE  google'[o].state = "EXPIRED"
        OBVIOUS
      <4>1. google'[t].state # "none"
        BY DEF Activated
      <4>2. Activated(o)
        BY <2>2, <2>3, <2>4, <4>1
      <4> QED  BY <2>3, <2>5, <3>2, <4>2
    <3> QED  BY <3>1, <3>2
  <2> QED  BY <2>1, <2>6, <2>7
<1>2. ASSUME NEW C \in SUBSET Tokens, \A x \in C : Link[x] \in C
      PROVE  \A x \in C : google'[x].state = "none"
  <2>1. \A x \in C : google[x].state = "none"
    BY <1>2 DEF LineInv
  <2> SUFFICES ASSUME NEW x \in C, google'[x].state # "none"
               PROVE  FALSE
    OBVIOUS
  <2>2. Link[x] # NoToken
    BY <1>2 DEF ConstantsAssumption
  <2>3. google[Link[x]].state = "ACTIVE"
    BY <2>1, <2>2 DEF Moved, Switches
  <2> QED  BY <1>2, <2>1, <2>3
<1>3. LineInv'
  BY <1>1, <1>2 DEF LineInv
<1>4. DateInv'
  <2>1. now' = now
    BY DEF Moved
  <2>2. ASSUME NEW t \in Tokens
        PROVE  /\ Activated(t)' => ExpiryOf(t)' > 0
               /\ google'[t].state \in {"ON_HOLD", "EXPIRED"} => ExpiryOf(t)' <= now
    <3>1. CASE google'[t] = google[t]
      BY <3>1 DEF DateInv, Activated, ExpiryOf
    <3>2. CASE Moves(t, google'[t]) /\ Dates(t, google'[t])
      <4>1. Activated(t)' => google'[t].state \in Live \cup {"EXPIRED"}
        BY <3>2 DEF Moves, MoveOf, Activated, Failed, Live
      <4> QED  BY <3>2, <4>1 DEF Dates, ExpiryOf
    <3> QED  BY <3>1, <3>2 DEF Moved
  <2> QED  BY <2>1, <2>2 DEF DateInv
<1> QED  BY <1>3, <1>4

LEMMA SameLine ==
  ASSUME ConstantsAssumption, Inv, LineInv, DateInv, Same, now' = now
  PROVE  LineInv' /\ DateInv'
<1>1. LineInv'
  <2>1. \A t \in Tokens : Link[t] # NoToken => Link[t] \in Tokens
    BY DEF ConstantsAssumption
  <2> QED  BY <2>1, SameFacts DEF LineInv, Same
<1>2. DateInv'
  BY SameFacts DEF DateInv, Same
<1> QED  BY <1>1, <1>2

LEMMA TickLine ==
  ASSUME ConstantsAssumption, Inv, LineInv, DateInv, Tick
  PROVE  LineInv' /\ DateInv'
<1>1. LineInv'
  BY DEF LineInv, Tick, Activated
<1>2. now \in Nat /\ now' = now + 1 /\ google' = google
  BY TimesTyped DEF Tick
<1>3. \A t \in Tokens : google[t].state # "none" => ExpiryOf(t) \in Nat
  BY LiveParsed
<1>4. \A t \in Tokens : google[t].state \in {"ON_HOLD", "EXPIRED"} => ExpiryOf(t) <= now + 1
  BY <1>2, <1>3 DEF DateInv
<1>5. \A t \in Tokens : ExpiryOf(t)' = ExpiryOf(t)
  BY <1>2 DEF ExpiryOf
<1> QED  BY <1>1, <1>2, <1>4, <1>5 DEF DateInv, Activated

(* The purchases that come after t are bought after it ran, and run after  *)
(* it has ended.                                                           *)
LEMMA LaterEnds ==
  ASSUME ConstantsAssumption, LineInv, NEW t \in Tokens, NEW u \in Later(t)
  PROVE  /\ u \in Tokens /\ u # t
         /\ google[u].state # "none" => Activated(t)
         /\ Activated(u) => google[t].state = "EXPIRED"
<1> DEFINE S == {t} \cup {x \in Tokens : google[x].state # "none" =>
                             Activated(t) /\ (Activated(x) => google[t].state = "EXPIRED")}
<1>1. \A x \in Tokens : Link[x] \in S => x \in S
  <2> SUFFICES ASSUME NEW x \in Tokens, Link[x] \in S, google[x].state # "none", x # t
               PROVE  Activated(t) /\ (Activated(x) => google[t].state = "EXPIRED")
    OBVIOUS
  <2>1. PICK o \in Tokens : o = Link[x] /\ Link[x] # NoToken
    BY DEF ConstantsAssumption
  <2>2. Activated(o) /\ (Activated(x) => google[o].state = "EXPIRED")
    BY <2>1 DEF LineInv
  <2>3. CASE o = t
    BY <2>2, <2>3
  <2>4. CASE o # t
    <3>1. google[o].state # "none"
      BY <2>2 DEF Activated
    <3> QED  BY <2>1, <2>2, <2>4, <3>1
  <2> QED  BY <2>3, <2>4
<1>2. t \in S /\ S \in SUBSET Tokens
  OBVIOUS
<1>3. u \in S /\ u \in Tokens /\ u # t
  <2> HIDE DEF S
  <2> QED  BY <1>1, <1>2 DEF Later
<1>4. Activated(u) => google[u].state # "none"
  BY DEF Activated
<1> QED  BY <1>3, <1>4

LEMMA LinkedLater ==
  ASSUME ConstantsAssumption, NEW t \in Tokens, NEW u \in Tokens, Link[u] = t
  PROVE  u \in Later(t)
BY DEF Later, ConstantsAssumption

-----------------------------------------------------------------------------
(* What each step of an invocation does, field by field.                   *)
Frame(c) ==
  /\ now' = now /\ Same
  /\ \A d \in Calls \ {c} : calls'[d] = calls[d]
  /\ crossed => crossed'
StoreSame == UNCHANGED <<rows, biz, stamp, granted>>

SameAnswer(k, j) ==
  j.token = k.token /\ j.type = k.type /\ j.kind = k.kind /\ j.v = k.v /\ j.ver = k.ver
SameCall(k, j) == SameAnswer(k, j) /\ j.business = k.business /\ j.prior = k.prior

Noted(t, ver) ==
  \A u \in Tokens : seen'[u] = IF u = t /\ ver > seen[u] THEN ver ELSE seen[u]
Forgets(t, ver) == Noted(t, ver) /\ crossed' = (crossed \/ rows[t] # NoRow)

BeginEffect(c) ==
  /\ Frame(c) /\ StoreSame /\ UNCHANGED <<seen, crossed>>
  /\ calls[c] = Idle /\ calls'[c].phase = "fetch" /\ calls'[c].token \in Tokens
  /\ calls'[c].token \in queued \/ \E n \in rtdn : n.token = calls'[c].token
  /\ \A t \in queued : t \in queued' \/ calls'[c].token = t
  /\ \A n \in rtdn : \/ n \in rtdn'
                      \/ /\ calls'[c].token = n.token /\ calls'[c].type = n.type
                         /\ calls'[c].kind = "rtdn"
  /\ (\A t \in queued' : t \in queued) /\ (\A n \in rtdn' : n \in rtdn)

FetchEffect(c) ==
  /\ Frame(c) /\ StoreSame /\ UNCHANGED rtdn
  /\ calls[c].phase = "fetch" /\ calls[c].token \in Tokens
  /\ \A t \in queued : t \in queued'
  /\ \A t \in queued' : t \in queued \/ t = calls[c].token
  /\ \/ /\ calls'[c] = Idle /\ UNCHANGED <<seen, crossed>>
        /\ \/ google[calls[c].token].state = "none"
           \/ calls[c].token \in queued' /\ calls[c].kind = "verify"
     \/ calls'[c] = Idle /\ Forgets(calls[c].token, google[calls[c].token].ver)
     \/ /\ calls'[c].phase \in {"bind", "prior"} /\ UNCHANGED <<seen, crossed>>
        /\ calls'[c].token = calls[c].token /\ calls'[c].type = calls[c].type
        /\ calls'[c].kind = calls[c].kind
        /\ calls'[c].v = Now(calls[c].token) /\ calls'[c].ver = google[calls[c].token].ver
        /\ google[calls[c].token].state # "none"

BindEffect(c) ==
  /\ Frame(c) /\ StoreSame /\ UNCHANGED <<rtdn, queued>>
  /\ calls[c].phase = "bind" /\ calls[c].token \in Tokens
  /\ \/ calls'[c] = Idle /\ Forgets(calls[c].token, calls[c].ver)
     \/ /\ calls'[c].phase = "prior" /\ SameAnswer(calls[c], calls'[c])
        /\ UNCHANGED <<seen, crossed>>

PriorEffect(c) ==
  /\ Frame(c) /\ StoreSame /\ UNCHANGED <<rtdn, queued, seen, crossed>>
  /\ calls[c].phase = "prior" /\ calls[c].token \in Tokens
  /\ calls'[c].phase = "upsert" /\ SameAnswer(calls[c], calls'[c])
  /\ rows[calls[c].token] = NoRow => calls'[c].prior = NoPrior
  /\ rows[calls[c].token] # NoRow =>
       /\ calls'[c].prior.state = rows[calls[c].token].state
       /\ calls'[c].prior.expiry = rows[calls[c].token].expiry
       /\ calls'[c].prior.replacedBy = rows[calls[c].token].replacedBy

UpsertEffect(c) ==
  /\ Frame(c) /\ UNCHANGED <<biz, stamp, granted, rtdn, queued>>
  /\ calls[c].phase = "upsert" /\ calls[c].token \in Tokens
  /\ calls'[c].phase \in {"supersede", "apply"} /\ SameCall(calls[c], calls'[c])
  /\ calls'[c].phase = "supersede" <=> Supersedes(calls[c])
  /\ \A u \in Tokens \ {calls[c].token} : rows'[u] = rows[u]
  /\ rows'[calls[c].token] # NoRow
  /\ rows'[calls[c].token].business = calls[c].business
  /\ rows'[calls[c].token].product = calls[c].v.product
  /\ rows'[calls[c].token].state = calls[c].v.state
  /\ rows'[calls[c].token].expiry = calls[c].v.expiry
  /\ rows'[calls[c].token].replacedBy =
       IF rows[calls[c].token] = NoRow THEN NoToken ELSE rows[calls[c].token].replacedBy
  /\ Noted(calls[c].token, calls[c].ver)
  /\ crossed' = (crossed \/ Overtaken(calls[c]))

SupersedeEffect(c) ==
  /\ Frame(c) /\ UNCHANGED <<biz, stamp, granted, rtdn, queued, seen, crossed>>
  /\ calls[c].phase = "supersede" /\ calls[c].token \in Tokens
  /\ calls'[c].phase = "apply" /\ SameCall(calls[c], calls'[c])
  /\ \A u \in Tokens : rows'[u] = NoRow <=> rows[u] = NoRow
  /\ \A u \in Tokens : rows[u] # NoRow =>
       /\ rows'[u].business = rows[u].business /\ rows'[u].product = rows[u].product
       /\ rows'[u].state = rows[u].state /\ rows'[u].expiry = rows[u].expiry
       /\ rows'[u].replacedBy =
            IF /\ u = Link[calls[c].token] /\ rows[u].business = calls[c].business
               /\ rows[u].replacedBy = NoToken
            THEN calls[c].token ELSE rows[u].replacedBy

ApplyEffect(c) ==
  /\ Frame(c) /\ UNCHANGED <<rows, seen>>
  /\ calls[c].phase = "apply" /\ calls[c].token \in Tokens /\ calls'[c] = Idle
  /\ IF DecideApply(calls[c].v, calls[c].prior, calls[c].type)
     THEN /\ ApplyPlayPurchase(calls[c].business, calls[c].v)
          /\ crossed' = (crossed \/ Overtaken(calls[c]))
     ELSE UNCHANGED <<biz, stamp, granted, crossed>>
  /\ (\A t \in queued : t \in queued') /\ (\A n \in rtdn : n \in rtdn')
  /\ \A t \in queued' : t \in queued \/ t = calls[c].token
  /\ \A n \in rtdn' : n \in rtdn \/ n.token = calls[c].token

FailEffect(c) ==
  /\ Frame(c) /\ StoreSame /\ UNCHANGED <<seen, crossed>>
  /\ calls[c].phase \in {"supersede", "apply"} /\ calls[c].token \in Tokens /\ calls'[c] = Idle
  /\ (\A t \in queued : t \in queued') /\ (\A n \in rtdn : n \in rtdn')
  /\ \A t \in queued' : t \in queued \/ t = calls[c].token
  /\ \A n \in rtdn' : n \in rtdn \/ n.token = calls[c].token
  /\ \/ calls[c].token \in queued' /\ calls[c].kind = "verify"
     \/ \E n \in rtdn' : n.token = calls[c].token /\ n.type = calls[c].type

Invoked(c) ==
  \/ BeginEffect(c) \/ FetchEffect(c) \/ BindEffect(c) \/ PriorEffect(c) \/ UpsertEffect(c)
  \/ SupersedeEffect(c) \/ ApplyEffect(c) \/ FailEffect(c)

LEMMA SameByRef == ASSUME google' = google PROVE Same
BY DEF Same

LEMMA CallToken ==
  ASSUME Inv, NEW c \in Calls, calls[c].phase \in {"fetch"} \cup Answered
  PROVE  /\ calls[c] # Idle /\ CallOK(calls[c]) /\ calls[c].token \in Tokens
         /\ calls[c].kind \in {"verify", "rtdn"}
BY DEF Inv, CallOK, Idle, Answered

LEMMA NewestNoted ==
  ASSUME AckTypes, NEW t \in Tokens, NEW ver, seen' = Newest(t, ver)
  PROVE  Noted(t, ver)
<1>1. PICK s : s = IF ver > seen[t] THEN ver ELSE seen[t]
  OBVIOUS
<1>2. seen' = [seen EXCEPT ![t] = s]
  BY <1>1 DEF Newest
<1>3. \A u \in Tokens : seen'[u] = IF u = t THEN s ELSE seen[u]
  BY <1>2 DEF AckTypes
<1> QED  BY <1>1, <1>3 DEF Noted

LEMMA ForgetForgets ==
  ASSUME AckTypes, NEW t \in Tokens, NEW k, k.token = t, Forget(k)
  PROVE  Forgets(t, k.ver)
BY NewestNoted DEF Forget, Forgets

LEMMA BeginIs ==
  ASSUME Inv, NEW c \in Calls,
         \/ \E b \in Businesses, t \in Tokens : BeginVerify(c, b, t)
         \/ \E n \in rtdn, read \in BOOLEAN : BeginRtdn(c, n, read)
  PROVE  BeginEffect(c)
<1>1. Same /\ Frame(c)
  BY SameByRef DEF BeginVerify, BeginRtdn, UnchangedStore, Frame, Inv
<1>2. ASSUME NEW b \in Businesses, NEW t \in Tokens, BeginVerify(c, b, t)
      PROVE  BeginEffect(c)
  <2>1. /\ calls[c] = Idle /\ t \in queued /\ queued' = queued \ {t} /\ rtdn' = rtdn
        /\ calls'[c] = [phase |-> "fetch", kind |-> "verify", token |-> t, business |-> b, type |-> "none"]
    BY <1>2 DEF BeginVerify, Inv
  <2>2. StoreSame /\ UNCHANGED <<seen, crossed>>
    BY <1>2 DEF BeginVerify, UnchangedStore, StoreSame
  <2>3. calls'[c].phase = "fetch" /\ calls'[c].token = t
    BY <2>1
  <2> QED  BY <1>1, <2>1, <2>2, <2>3 DEF BeginEffect
<1>3. ASSUME NEW n \in rtdn, NEW read \in BOOLEAN, BeginRtdn(c, n, read)
      PROVE  BeginEffect(c)
  <2>1. PICK b : calls' = [calls EXCEPT ![c] = [phase |-> "fetch", kind |-> "rtdn", token |-> n.token,
                                                type |-> n.type, business |-> b]]
    BY <1>3 DEF BeginRtdn
  <2>2. calls'[c] = [phase |-> "fetch", kind |-> "rtdn", token |-> n.token, type |-> n.type, business |-> b]
    BY <2>1 DEF Inv
  <2>3. /\ calls'[c].phase = "fetch" /\ calls'[c].token = n.token /\ calls'[c].type = n.type
        /\ calls'[c].kind = "rtdn"
    BY <2>2
  <2>4. n.token \in Tokens
    BY DEF Inv, Notification
  <2>5. /\ calls[c] = Idle /\ queued' = queued /\ rtdn' = rtdn \ {n}
        /\ StoreSame /\ UNCHANGED <<seen, crossed>>
    BY <1>3 DEF BeginRtdn, UnchangedStore, StoreSame
  <2> QED  BY <1>1, <2>3, <2>4, <2>5 DEF BeginEffect
<1> QED  BY <1>2, <1>3

LEMMA FetchIs ==
  ASSUME Inv, AckInv, NEW c \in Calls, FetchPurchase(c)
  PROVE  FetchEffect(c)
<1>1. PICK k : k = calls[c]
  OBVIOUS
<1>2. k.phase = "fetch" /\ k.token \in Tokens /\ k # Idle /\ CallOK(k)
  BY <1>1, CallToken DEF FetchPurchase
<1>3. PICK v : v = Now(k.token)
  OBVIOUS
<1> DEFINE unbound == k.business = NoBusiness
           refused == v = NoAnswer \/ (k.kind = "verify" /\ AccountMismatch(k.business, k.token))
           forgotten == ~refused /\ unbound /\ Link[k.token] = NoToken
<1>4. UNCHANGED <<google, rtdn, rows, biz, stamp, now, granted>> /\ StoreSame /\ Same
  BY SameByRef DEF FetchPurchase, StoreSame
<1>5. v = NoAnswer <=> google[k.token].state = "none"
  <2>1. PurchaseOK(google[k.token])
    BY <1>2 DEF Inv
  <2>2. google[k.token].items = {} => v = NoAnswer
    BY <1>3 DEF Now, ParseSubscriptionV2
  <2>3. google[k.token].items # {} => v.state = google[k.token].state
    BY <1>3 DEF Now, ParseSubscriptionV2
  <2> QED  BY <2>1, <2>2, <2>3 DEF PurchaseOK, NoAnswer
<1>6. /\ queued' = IF refused THEN queued \cup Posted(k) ELSE queued
      /\ refused \/ forgotten => Finish(c)
      /\ ~forgotten => UNCHANGED <<seen, crossed>>
  BY <1>1, <1>3 DEF FetchPurchase, Now
<1>7. /\ \A t \in queued : t \in queued'
      /\ \A t \in queued' : t \in queued \/ t = k.token
  BY <1>6 DEF Posted
<1>8. CASE refused
  <2>1. Finish(c) /\ UNCHANGED <<seen, crossed>>
    BY <1>6, <1>8
  <2>2. calls'[c] = Idle /\ Frame(c)
    BY <1>4, <2>1 DEF Finish, Inv, Frame
  <2>3. google[k.token].state = "none" \/ (k.token \in queued' /\ k.kind = "verify")
    BY <1>5, <1>6, <1>8 DEF Posted
  <2> QED  BY <1>1, <1>2, <1>4, <1>7, <2>1, <2>2, <2>3 DEF FetchEffect
<1>9. CASE forgotten
  <2>1. PICK f : f = [token |-> k.token, ver |-> google[k.token].ver]
    OBVIOUS
  <2>2. Finish(c) /\ Forget(f)
    BY <1>1, <1>3, <1>9, <2>1 DEF FetchPurchase, Now
  <2>3. Forgets(k.token, google[k.token].ver)
    BY <1>2, <2>1, <2>2, ForgetForgets DEF AckInv
  <2>4. calls'[c] = Idle /\ Frame(c)
    BY <1>4, <2>2, <2>3 DEF Finish, Inv, Frame, Forgets
  <2> QED  BY <1>1, <1>2, <1>4, <1>7, <2>3, <2>4 DEF FetchEffect
<1>10. CASE ~(refused \/ forgotten)
  <2>1. PICK j : j = [phase |-> PhaseOnceFetched(k),
                      kind |-> k.kind, token |-> k.token, business |-> k.business,
                      type |-> k.type, v |-> v, ver |-> google[k.token].ver]
    OBVIOUS
  <2>2. calls' = [calls EXCEPT ![c] = j]
    BY <1>1, <1>3, <1>10, <2>1 DEF FetchPurchase, Now
  <2>3. /\ j.phase \in {"bind", "prior"} /\ j.token = k.token /\ j.type = k.type
        /\ j.kind = k.kind /\ j.v = v /\ j.ver = google[k.token].ver
    BY <2>1 DEF PhaseOnceFetched
  <2>4. calls'[c] = j /\ Frame(c)
    BY <1>4, <1>6, <1>10, <2>2 DEF Inv, Frame
  <2>5. UNCHANGED <<seen, crossed>> /\ google[k.token].state # "none"
    BY <1>5, <1>6, <1>10
  <2> QED  BY <1>1, <1>2, <1>3, <1>4, <1>7, <2>3, <2>4, <2>5 DEF FetchEffect
<1> QED  BY <1>8, <1>9, <1>10

LEMMA BindIs ==
  ASSUME Inv, AckInv, NEW c \in Calls, NEW read \in BOOLEAN, BindUnknownToken(c, read)
  PROVE  BindEffect(c)
<1>1. PICK k : k = calls[c]
  OBVIOUS
<1>2. k.phase = "bind" /\ k.token \in Tokens /\ k # Idle /\ CallOK(k)
  BY <1>1, CallToken DEF BindUnknownToken, Answered
<1>3. UNCHANGED <<google, rtdn, queued, rows, biz, stamp, now, granted>> /\ StoreSame /\ Same
  BY SameByRef DEF BindUnknownToken, StoreSame
<1>4. CASE Finish(c) /\ Forget(k)
  <2>1. Forgets(k.token, k.ver)
    BY <1>2, <1>4, ForgetForgets DEF AckInv
  <2>2. calls'[c] = Idle /\ Frame(c)
    BY <1>3, <1>4, <2>1 DEF Finish, Inv, Frame, Forgets
  <2> QED  BY <1>1, <1>2, <1>3, <2>1, <2>2 DEF BindEffect
<1>5. CASE UNCHANGED <<seen, crossed>> /\
           \E b : calls' = [calls EXCEPT ![c].business = b, ![c].phase = "prior"]
  <2>1. PICK b : calls' = [calls EXCEPT ![c].business = b, ![c].phase = "prior"]
    BY <1>5
  <2>2. PICK j : j = [k EXCEPT !.business = b, !.phase = "prior"]
    OBVIOUS
  <2>3. calls' = [calls EXCEPT ![c] = j]
    BY <1>1, <2>1, <2>2
  <2>4. AnswerFields(k)
    BY <1>2 DEF CallOK
  <2>5. j = [phase |-> "prior", kind |-> k.kind, token |-> k.token, business |-> b,
             type |-> k.type, v |-> k.v, ver |-> k.ver]
    BY <2>2, <2>4 DEF AnswerFields
  <2>6. j.phase = "prior" /\ SameAnswer(k, j)
    BY <2>5 DEF SameAnswer
  <2>7. calls'[c] = j /\ Frame(c)
    BY <1>3, <1>5, <2>3 DEF Inv, Frame
  <2> QED  BY <1>1, <1>2, <1>3, <1>5, <2>6, <2>7 DEF BindEffect
<1> QED  BY <1>1, <1>4, <1>5 DEF BindUnknownToken

LEMMA PriorIs ==
  ASSUME Inv, AckInv, NEW c \in Calls, NEW ok \in BOOLEAN, AcknowledgeAndReadPrior(c, ok)
  PROVE  PriorEffect(c)
<1>1. PICK k : k = calls[c]
  OBVIOUS
<1>2. k.phase = "prior" /\ k.token \in Tokens /\ k # Idle /\ CallOK(k)
  BY <1>1, CallToken DEF AcknowledgeAndReadPrior, Answered
<1>3. PICK prior : prior = IF rows[k.token] = NoRow THEN NoPrior
                           ELSE [state |-> rows[k.token].state, expiry |-> rows[k.token].expiry,
                                 replacedBy |-> rows[k.token].replacedBy]
  OBVIOUS
<1>4. PICK j : j = [phase |-> "upsert", kind |-> k.kind, token |-> k.token,
                    business |-> k.business, type |-> k.type, v |-> k.v, ver |-> k.ver,
                    prior |-> prior]
  OBVIOUS
<1>5. j.phase = "upsert" /\ SameAnswer(k, j) /\ j.prior = prior
  BY <1>4 DEF SameAnswer
<1>6. /\ calls' = [calls EXCEPT ![c] = j] /\ now' = now /\ StoreSame
      /\ UNCHANGED <<rtdn, queued, seen, crossed>>
  BY <1>1, <1>3, <1>4 DEF AcknowledgeAndReadPrior, UnchangedStore, StoreSame
<1>7. Same
  <2>1. CASE ~ok
    BY <2>1, SameByRef DEF AcknowledgeAndReadPrior
  <2>2. CASE ok
    <3>1. PICK g : g = google[k.token] /\ g \in PurchaseType
      BY <1>2, VersionTyped
    <3>2. PICK p : p = [g EXCEPT !.acked = TRUE]
      OBVIOUS
    <3>3. p.state = g.state /\ p.ver = g.ver /\ p.items = g.items
      BY <3>1, <3>2 DEF PurchaseType
    <3>4. google' = [google EXCEPT ![k.token] = p]
      BY <1>1, <2>2, <3>1, <3>2 DEF AcknowledgeAndReadPrior
    <3>5. \A u \in Tokens : google'[u] = IF u = k.token THEN p ELSE google[u]
      BY <3>4 DEF Inv
    <3> QED  BY <3>1, <3>3, <3>5 DEF Same
  <2> QED  BY <2>1, <2>2
<1>8. calls'[c] = j /\ Frame(c)
  BY <1>6, <1>7 DEF Inv, Frame
<1>9. /\ rows[k.token] = NoRow => prior = NoPrior
      /\ rows[k.token] # NoRow => /\ prior.state = rows[k.token].state
                                  /\ prior.expiry = rows[k.token].expiry
                                  /\ prior.replacedBy = rows[k.token].replacedBy
  BY <1>3
<1> QED  BY <1>1, <1>2, <1>5, <1>6, <1>8, <1>9 DEF PriorEffect

(* The stage of a call moves on and the rest of it stays.                  *)
LEMMA PhaseOnly ==
  ASSUME Inv, NEW c \in Calls, calls[c].phase \in WithPrior, NEW phase,
         calls' = [calls EXCEPT ![c].phase = phase]
  PROVE  /\ calls'[c].phase = phase /\ SameCall(calls[c], calls'[c])
         /\ \A d \in Calls \ {c} : calls'[d] = calls[d]
<1>1. PICK k : k = calls[c]
  OBVIOUS
<1>2. PICK j : j = [k EXCEPT !.phase = phase]
  OBVIOUS
<1>3. PriorFields(k)
  BY <1>1 DEF Inv, CallOK, Idle, WithPrior, WithBusiness, Answered
<1>4. j = [phase |-> phase, kind |-> k.kind, token |-> k.token, business |-> k.business,
           type |-> k.type, v |-> k.v, ver |-> k.ver, prior |-> k.prior]
  BY <1>2, <1>3 DEF PriorFields
<1>5. j.phase = phase /\ SameCall(k, j)
  BY <1>4 DEF SameCall, SameAnswer
<1>6. calls' = [calls EXCEPT ![c] = j]
  BY <1>1, <1>2
<1>7. calls'[c] = j /\ \A d \in Calls \ {c} : calls'[d] = calls[d]
  BY <1>6 DEF Inv
<1> QED  BY <1>1, <1>5, <1>7

LEMMA UpsertIs ==
  ASSUME Inv, AckInv, NEW c \in Calls, UpsertRow(c)
  PROVE  UpsertEffect(c)
<1>1. PICK k : k = calls[c]
  OBVIOUS
<1>2. /\ k.phase = "upsert" /\ k.token \in Tokens /\ k # Idle /\ CallOK(k)
      /\ k.phase \in WithPrior
  BY <1>1, CallToken DEF UpsertRow, Answered, WithPrior, WithBusiness
<1>3. PICK r : r = Upserted(c)
  OBVIOUS
<1>4. PICK by : by = IF rows[k.token] = NoRow THEN NoToken ELSE rows[k.token].replacedBy
  OBVIOUS
<1>5. r = [business |-> k.business, product |-> k.v.product, state |-> k.v.state,
           expiry |-> k.v.expiry, replacedBy |-> by]
  BY <1>1, <1>3, <1>4 DEF Upserted
<1>6. /\ r.business = k.business /\ r.product = k.v.product /\ r.state = k.v.state
      /\ r.expiry = k.v.expiry /\ r.replacedBy = by
  BY <1>5
<1>7. r # NoRow
  <2>1. k.business \in Businesses /\ NoBusiness \notin Businesses
    BY <1>2, ConstantsAssumption DEF CallOK, WithPrior, ConstantsAssumption
  <2> QED  BY <1>6, <2>1 DEF NoRow
<1>8. rows' = [rows EXCEPT ![k.token] = r]
  BY <1>1, <1>3 DEF UpsertRow
<1>9. rows'[k.token] = r /\ \A u \in Tokens \ {k.token} : rows'[u] = rows[u]
  BY <1>2, <1>8 DEF Inv
<1>10. PICK phase : /\ phase = IF Supersedes(k) THEN "supersede" ELSE "apply"
                    /\ calls' = [calls EXCEPT ![c].phase = phase]
  BY <1>1 DEF UpsertRow
<1>11. /\ calls'[c].phase = phase /\ SameCall(k, calls'[c])
       /\ \A d \in Calls \ {c} : calls'[d] = calls[d]
  BY <1>1, <1>2, <1>10, PhaseOnly
<1>12. /\ UNCHANGED <<google, rtdn, queued, biz, stamp, now, granted>>
       /\ crossed' = (crossed \/ Overtaken(k)) /\ seen' = Newest(k.token, k.ver)
  BY <1>1 DEF UpsertRow
<1>13. Frame(c) /\ Noted(k.token, k.ver)
  BY <1>2, <1>11, <1>12, SameByRef, NewestNoted DEF Frame, AckInv
<1>14. phase \in {"supersede", "apply"} /\ (phase = "supersede" <=> Supersedes(k))
  BY <1>10
<1> QED  BY <1>1, <1>2, <1>4, <1>6, <1>7, <1>9, <1>11, <1>12, <1>13, <1>14 DEF UpsertEffect

LEMMA SupersedeIs ==
  ASSUME Inv, AckInv, NEW c \in Calls, SupersedeOld(c)
  PROVE  SupersedeEffect(c)
<1>1. PICK k : k = calls[c]
  OBVIOUS
<1>2. /\ k.phase = "supersede" /\ k.token \in Tokens /\ calls[c].phase \in WithPrior
  BY <1>1, CallToken DEF SupersedeOld, Answered, WithPrior, WithBusiness
<1>3. PICK o : o = Link[k.token]
  OBVIOUS
<1>4. PICK hit \in BOOLEAN :
        hit = (rows[o] # NoRow /\ rows[o].business = k.business /\ rows[o].replacedBy = NoToken)
  OBVIOUS
<1>5. /\ rows' = IF hit THEN [rows EXCEPT ![o].replacedBy = k.token] ELSE rows
      /\ calls' = [calls EXCEPT ![c].phase = "apply"]
      /\ UNCHANGED <<google, rtdn, queued, biz, stamp, now, seen, crossed, granted>>
  BY <1>1, <1>3, <1>4 DEF SupersedeOld, ReplacedToken
<1>6. /\ calls'[c].phase = "apply" /\ SameCall(k, calls'[c]) /\ Frame(c)
  BY <1>1, <1>2, <1>5, PhaseOnly, SameByRef DEF Frame
<1>7. ASSUME NEW u \in Tokens
      PROVE  /\ rows'[u] = NoRow <=> rows[u] = NoRow
             /\ rows[u] # NoRow =>
                  /\ rows'[u].business = rows[u].business /\ rows'[u].product = rows[u].product
                  /\ rows'[u].state = rows[u].state /\ rows'[u].expiry = rows[u].expiry
                  /\ rows'[u].replacedBy = IF u = o /\ hit THEN k.token ELSE rows[u].replacedBy
  <2>1. CASE ~(u = o /\ hit)
    <3>1. rows'[u] = rows[u]
      BY <1>5, <2>1 DEF Inv
    <3> QED  BY <2>1, <3>1
  <2>2. CASE u = o /\ hit
    <3>1. PICK r : r = rows[u] /\ r # NoRow /\ r \in RowType
      BY <1>4, <2>2 DEF Inv, RowOK
    <3>2. PICK n : n = [r EXCEPT !.replacedBy = k.token]
      OBVIOUS
    <3>3. /\ n.business = r.business /\ n.product = r.product /\ n.state = r.state
          /\ n.expiry = r.expiry /\ n.replacedBy = k.token /\ r.business \in Businesses
      BY <3>1, <3>2 DEF RowType
    <3>4. rows'[u] = n
      <4>1. rows' = [rows EXCEPT ![u] = n]
        BY <1>5, <2>2, <3>1, <3>2
      <4> QED  BY <4>1 DEF Inv
    <3>5. n # NoRow
      BY <3>3, ConstantsAssumption DEF NoRow, ConstantsAssumption
    <3> QED  BY <2>2, <3>1, <3>3, <3>4, <3>5
  <2> QED  BY <2>1, <2>2
<1>8. \A u \in Tokens : rows[u] # NoRow =>
        (hit /\ u = o <=> u = o /\ rows[u].business = k.business /\ rows[u].replacedBy = NoToken)
  BY <1>4
<1> QED  BY <1>1, <1>2, <1>3, <1>5, <1>6, <1>7, <1>8 DEF SupersedeEffect

LEMMA ApplyIs ==
  ASSUME Inv, AckInv, NEW c \in Calls, NEW lost \in BOOLEAN, ApplyAndAnswer(c, lost)
  PROVE  ApplyEffect(c)
<1>1. PICK k : k = calls[c]
  OBVIOUS
<1>2. k.phase = "apply" /\ k.token \in Tokens
  BY <1>1, CallToken DEF ApplyAndAnswer, Answered
<1>3. /\ rtdn' = IF lost THEN rtdn \cup Notified(k) ELSE rtdn
      /\ queued' = IF lost THEN queued \cup Posted(k) ELSE queued
      /\ UNCHANGED <<google, rows, now, seen>> /\ Finish(c)
  BY <1>1 DEF ApplyAndAnswer
<1>4. /\ (\A t \in queued : t \in queued') /\ (\A n \in rtdn : n \in rtdn')
      /\ \A t \in queued' : t \in queued \/ t = k.token
      /\ \A n \in rtdn' : n \in rtdn \/ n.token = k.token
  BY <1>3 DEF Notified, Posted, Told
<1>5. IF DecideApply(k.v, k.prior, k.type)
      THEN ApplyPlayPurchase(k.business, k.v) /\ crossed' = (crossed \/ Overtaken(k))
      ELSE UNCHANGED <<biz, stamp, granted, crossed>>
  BY <1>1 DEF ApplyAndAnswer
<1>6. calls'[c] = Idle /\ Frame(c)
  BY <1>3, <1>5, SameByRef DEF Finish, Inv, Frame
<1> QED  BY <1>1, <1>2, <1>3, <1>4, <1>5, <1>6 DEF ApplyEffect

LEMMA FailIs ==
  ASSUME Inv, AckInv, NEW c \in Calls, CallFails(c)
  PROVE  FailEffect(c)
<1>1. PICK k : k = calls[c]
  OBVIOUS
<1>2. k.phase \in {"supersede", "apply"} /\ k.token \in Tokens /\ k.kind \in {"verify", "rtdn"}
  BY <1>1, CallToken DEF CallFails, Answered
<1>3. /\ rtdn' = rtdn \cup Notified(k) /\ queued' = queued \cup Posted(k)
      /\ StoreSame /\ UNCHANGED <<google, now, seen, crossed>> /\ Finish(c)
  BY <1>1 DEF CallFails, UnchangedStore, StoreSame
<1>4. /\ (\A t \in queued : t \in queued') /\ (\A n \in rtdn : n \in rtdn')
      /\ \A t \in queued' : t \in queued \/ t = k.token
      /\ \A n \in rtdn' : n \in rtdn \/ n.token = k.token
  BY <1>3 DEF Notified, Posted, Told
<1>5. \/ k.token \in queued' /\ k.kind = "verify"
      \/ \E n \in rtdn' : n.token = k.token /\ n.type = k.type
  <2>1. CASE k.kind = "verify"
    BY <1>3, <2>1 DEF Posted
  <2>2. CASE k.kind = "rtdn"
    <3>1. PICK n : n = [token |-> k.token, type |-> k.type]
      OBVIOUS
    <3>2. n \in rtdn' /\ n.token = k.token /\ n.type = k.type
      BY <1>3, <2>2, <3>1 DEF Notified, Told
    <3> QED  BY <3>2
  <2> QED  BY <1>2, <2>1, <2>2
<1>6. calls'[c] = Idle /\ Frame(c)
  BY <1>3, SameByRef DEF Finish, Inv, Frame
<1> QED  BY <1>1, <1>2, <1>3, <1>4, <1>5, <1>6 DEF FailEffect

(* Every step is Google's, the clock's, the admin's or of an invocation.   *)
LEMMA StepIs ==
  ASSUME ConstantsAssumption, Inv, AckInv, DateInv, [Next]_vars
  PROVE  \/ Moved \/ Tick \/ (\E g \in Grants : AdminGrants(g[1], g[2], g[3]))
         \/ (\E c \in Calls : Invoked(c))
         \/ UNCHANGED vars
<1>1. CASE GoogleStep
  BY <1>1, GoogleMoves
<1>2. CASE \E c \in Calls : \/ \E b \in Businesses, t \in Tokens : BeginVerify(c, b, t)
                            \/ \E n \in rtdn, read \in BOOLEAN : BeginRtdn(c, n, read)
                            \/ CallFails(c)
  BY <1>2, BeginIs, FailIs DEF Invoked
<1>3. CASE \E c \in Calls : Step(c)
  BY <1>3, FetchIs, BindIs, PriorIs, UpsertIs, SupersedeIs, ApplyIs DEF Step, Invoked
<1> QED  BY <1>1, <1>2, <1>3 DEF Next

-----------------------------------------------------------------------------
(* A call that will tell the server what Google says of t now; t is awaited *)
(* while there is one, or one is to come.                                  *)
Carries(k, t) ==
  k # Idle /\ k.token = t /\ (k.phase \in Answered => k.ver = google[t].ver)
Awaited(t) ==
  \/ \E n \in rtdn : n.token = t
  \/ t \in queued
  \/ \E c \in Calls : Carries(calls[c], t)

(* A state t has been in since it was paid for, or its payment failed.     *)
Earlier(t, s) == s \notin {"none", "PENDING"} /\ (s = Failed <=> google[t].state = Failed)

Fresh(t) ==
  Now(t) = [product |-> rows[t].product, state |-> rows[t].state, expiry |-> rows[t].expiry]

CallTrue(k) ==
  /\ k # Idle => Known(k.token)
  /\ k.phase \in Answered => /\ k.ver = google[k.token].ver => k.v = Now(k.token)
                             /\ Earlier(k.token, k.v.state)
  /\ k.phase \in WithPrior /\ k.prior # NoPrior =>
       /\ rows[k.token] # NoRow
       /\ k.prior.replacedBy # NoToken => rows[k.token].replacedBy # NoToken
  /\ k.phase = "supersede" => Supersedes(k)
  /\ k.phase \in {"supersede", "apply"} =>
       /\ rows[k.token] # NoRow /\ seen[k.token] >= k.ver
       /\ ~crossed => rows[k.token].business = k.business

RowTrue(t) ==
  rows[t] # NoRow =>
    /\ Known(t) /\ Earlier(t, rows[t].state)
    /\ rows[t].replacedBy # NoToken =>
         \E u \in Tokens : u = rows[t].replacedBy /\ Link[u] = t /\ Activated(u) /\ rows[u] # NoRow
    /\ ~crossed /\ seen[t] = google[t].ver => Fresh(t)

SeenTrue(t) ==
  seen[t] <= google[t].ver /\ (Known(t) => Awaited(t) \/ seen[t] = google[t].ver)

(* The server only holds what Google once said, and the newest of it is    *)
(* noted or awaited.                                                       *)
TrueInv ==
  /\ (\A n \in rtdn : Known(n.token)) /\ (\A t \in queued : Known(t))
  /\ \A c \in Calls : CallTrue(calls[c])
  /\ \A t \in Tokens : RowTrue(t) /\ SeenTrue(t)

LEMMA InitTrue == ASSUME ConstantsAssumption, Init PROVE TrueInv
<1>1. \A c \in Calls : CallTrue(calls[c])
  BY DEF Init, CallTrue, Idle, Answered, WithPrior, WithBusiness
<1>2. \A t \in Tokens : RowTrue(t) /\ SeenTrue(t)
  BY DEF Init, RowTrue, SeenTrue, Known
<1> QED  BY <1>1, <1>2 DEF Init, TrueInv

(* What no step takes back.                                                *)
Onward ==
  /\ crossed => crossed'
  /\ \A u \in Tokens :
       /\ Known(u) => Known(u)' /\ (google'[u].state = Failed <=> google[u].state = Failed)
       /\ Activated(u) => Activated(u)'
       /\ \/ google'[u].ver = google[u].ver /\ Now(u)' = Now(u)
          \/ google'[u].ver = google[u].ver + 1
       /\ seen'[u] >= seen[u]
       /\ rows[u] # NoRow =>
            /\ rows'[u] # NoRow
            /\ rows[u].replacedBy # NoToken => rows'[u].replacedBy = rows[u].replacedBy
            /\ ~crossed' => rows'[u].business = rows[u].business

LEMMA SeenTyped ==
  ASSUME AckInv, NEW t \in Tokens
  PROVE  seen[t] \in Nat /\ seen[t] >= seen[t]
BY DEF AckInv, AckTypes

LEMMA MovedOnward == ASSUME Inv, AckInv, Moved PROVE Onward
<1>1. \A u \in Tokens : \/ google'[u].ver = google[u].ver /\ Now(u)' = Now(u)
                        \/ google'[u].ver = google[u].ver + 1
  BY DEF Moved, Moves, Now
<1> QED  BY <1>1, MovedFacts, SeenTyped DEF Onward, Moved

LEMMA SameOnward ==
  ASSUME Inv, AckInv, Same, rows' = rows, crossed => crossed',
         \A u \in Tokens : seen'[u] >= seen[u]
  PROVE  Onward
BY SameFacts DEF Onward, Same

LEMMA NotedGrows ==
  ASSUME AckInv, NEW t \in Tokens, NEW ver \in Nat, Noted(t, ver)
  PROVE  /\ \A u \in Tokens : seen'[u] >= seen[u]
         /\ seen'[t] >= ver /\ (seen[t] <= ver => seen'[t] = ver)
         /\ seen'[t] = ver \/ seen'[t] = seen[t]
BY SeenTyped DEF Noted

(* The answer in a call is typed and not newer than the purchase.          *)
LEMMA CallVersion ==
  ASSUME Inv, AckInv, NEW c \in Calls, calls[c].phase \in Answered
  PROVE  /\ calls[c].token \in Tokens /\ calls[c].ver \in Nat /\ google[calls[c].token].ver \in Nat
         /\ calls[c].ver <= google[calls[c].token].ver /\ calls[c].v \in Answer
<1>1. CallOK(calls[c]) /\ AckCall(calls[c]) /\ calls[c] # Idle
  BY DEF Inv, AckInv, Idle, Answered
<1> QED  BY <1>1, VersionTyped DEF CallOK, AckCall

LEMMA InvokedOnward ==
  ASSUME Inv, AckInv, NEW c \in Calls, Invoked(c)
  PROVE  Onward
<1>1. CASE BeginEffect(c) \/ PriorEffect(c) \/ ApplyEffect(c) \/ FailEffect(c)
  <2>1. Same /\ rows' = rows /\ seen' = seen /\ (crossed => crossed')
    BY <1>1 DEF BeginEffect, PriorEffect, ApplyEffect, FailEffect, Frame, StoreSame
  <2> QED  BY <2>1, SameOnward, SeenTyped
<1>2. CASE FetchEffect(c)
  <2>1. Same /\ rows' = rows /\ (crossed => crossed')
    BY <1>2 DEF FetchEffect, Frame, StoreSame
  <2>2. \A u \in Tokens : seen'[u] >= seen[u]
    BY <1>2, NotedGrows, SeenTyped, VersionTyped DEF FetchEffect, Forgets
  <2> QED  BY <2>1, <2>2, SameOnward
<1>3. CASE BindEffect(c)
  <2>1. Same /\ rows' = rows /\ (crossed => crossed')
    BY <1>3 DEF BindEffect, Frame, StoreSame
  <2>2. calls[c].ver \in Nat
    BY <1>3, CallVersion DEF BindEffect, Answered
  <2>3. \A u \in Tokens : seen'[u] >= seen[u]
    BY <1>3, <2>2, NotedGrows, SeenTyped DEF BindEffect, Forgets
  <2> QED  BY <2>1, <2>3, SameOnward
<1>4. CASE UpsertEffect(c)
  <2>1. PICK t \in Tokens : t = calls[c].token
    BY <1>4 DEF UpsertEffect
  <2>2. calls[c].ver \in Nat
    BY <1>4, CallVersion DEF UpsertEffect, Answered
  <2>3. \A u \in Tokens : seen'[u] >= seen[u]
    BY <1>4, <2>2, NotedGrows DEF UpsertEffect
  <2>4. Same /\ (crossed => crossed')
    BY <1>4 DEF UpsertEffect, Frame
  <2>5. rows[t] # NoRow /\ ~crossed' => rows[t].business = calls[c].business
    BY <1>4, <2>1 DEF UpsertEffect, Overtaken
  <2>6. \A u \in Tokens : rows[u] # NoRow =>
            /\ rows'[u] # NoRow
            /\ rows[u].replacedBy # NoToken => rows'[u].replacedBy = rows[u].replacedBy
            /\ ~crossed' => rows'[u].business = rows[u].business
    BY <1>4, <2>1, <2>5 DEF UpsertEffect
  <2> QED  BY <2>3, <2>4, <2>6, SameFacts DEF Onward, Same
<1>5. CASE SupersedeEffect(c)
  <2>1. Same /\ seen' = seen /\ (crossed => crossed')
    BY <1>5 DEF SupersedeEffect, Frame
  <2>2. \A u \in Tokens : rows[u] # NoRow =>
            /\ rows'[u] # NoRow
            /\ rows[u].replacedBy # NoToken => rows'[u].replacedBy = rows[u].replacedBy
            /\ ~crossed' => rows'[u].business = rows[u].business
    BY <1>5 DEF SupersedeEffect
  <2> QED  BY <2>1, <2>2, SameFacts, SeenTyped DEF Onward, Same
<1> QED  BY <1>1, <1>2, <1>3, <1>4, <1>5 DEF Invoked

(* What a call holds stays true while other things move.                   *)
LEMMA CallStays ==
  ASSUME Inv, AckInv, AckInv', Onward, NEW c \in Calls, NEW k, k = calls[c], CallTrue(k)
  PROVE  CallTrue(k)'
<1>1. k # Idle => k.token \in Tokens
  BY DEF Inv, CallOK
<1>2. /\ k.phase \in Answered \cup WithPrior \cup {"supersede", "apply"} => k # Idle /\ k.phase \in Answered
      /\ Answered = Answered' /\ WithPrior = WithPrior'
  BY DEF Idle, Answered, WithPrior, WithBusiness
<1>3. k # Idle => Known(k.token)'
  BY <1>1 DEF CallTrue, Onward
<1>4. ASSUME k.phase \in Answered
      PROVE  /\ k.ver = google'[k.token].ver => k.v = Now(k.token)'
             /\ Earlier(k.token, k.v.state)'
  <2>1. PICK t \in Tokens : t = k.token
    BY <1>1, <1>2, <1>4
  <2>2. k.ver \in Nat /\ google[t].ver \in Nat /\ k.ver <= google[t].ver
    BY <1>4, <2>1, CallVersion
  <2>3. k.ver = google'[t].ver => k.v = Now(t)'
    BY <1>4, <2>1, <2>2 DEF CallTrue, Onward
  <2>4. Earlier(t, k.v.state)'
    BY <1>2, <1>4, <2>1 DEF CallTrue, Onward, Earlier
  <2> QED  BY <2>1, <2>3, <2>4
<1>5. ASSUME k.phase \in WithPrior, k.prior # NoPrior
      PROVE  /\ rows'[k.token] # NoRow
             /\ k.prior.replacedBy # NoToken => rows'[k.token].replacedBy # NoToken
  BY <1>1, <1>2, <1>5 DEF CallTrue, Onward
<1>6. ASSUME k.phase \in {"supersede", "apply"}
      PROVE  /\ rows'[k.token] # NoRow /\ seen'[k.token] >= k.ver
             /\ ~crossed' => rows'[k.token].business = k.business
  <2>1. PICK t \in Tokens : t = k.token
    BY <1>1, <1>2, <1>6
  <2>2. k.ver \in Nat /\ seen[t] \in Nat /\ seen[t] >= k.ver /\ seen'[t] >= seen[t]
    BY <1>2, <1>6, <2>1, CallVersion, SeenTyped DEF CallTrue, Onward
  <2>3. seen'[t] \in Nat
    BY DEF AckInv, AckTypes
  <2>4. seen'[t] >= k.ver
    BY <2>2, <2>3
  <2> QED  BY <1>6, <2>1, <2>4 DEF CallTrue, Onward
<1>7. k.phase = "supersede" => Supersedes(k)
  BY DEF CallTrue
<1> QED  BY <1>3, <1>4, <1>5, <1>6, <1>7 DEF CallTrue, Supersedes, ReplacedToken

(* A purchase stays awaited while the call that carries it goes on.        *)
LEMMA StillAwaited ==
  ASSUME NEW c \in Calls, Frame(c), NEW t \in Tokens, Awaited(t),
         (\E n \in rtdn : n.token = t) => (\E n \in rtdn' : n.token = t) \/ Carries(calls[c], t)',
         t \in queued => t \in queued' \/ Carries(calls[c], t)',
         Carries(calls[c], t) => Awaited(t)'
  PROVE  Awaited(t)'
<1>1. google'[t].ver = google[t].ver
  BY DEF Frame, Same
<1>2. \A d \in Calls \ {c} : Carries(calls[d], t) => Carries(calls[d], t)'
  BY <1>1 DEF Frame, Carries
<1>3. ASSUME NEW d \in Calls, Carries(calls[d], t)
      PROVE  Awaited(t)'
  BY <1>2, <1>3 DEF Awaited
<1> QED  BY <1>3 DEF Awaited

(* It ceases to be when its call ends: the answer was dropped as unknown,  *)
(* or it is the newest there is and has just been weighed.                 *)
Settled(c, t) ==
  /\ calls[c].token = t /\ seen'[t] = google[t].ver
  /\ \/ ApplyEffect(c) /\ calls[c].ver = google[t].ver
     \/ UNCHANGED <<rows, biz, stamp, granted>> /\ (crossed' \/ rows[t] = NoRow)

LEMMA ServerAwaits ==
  ASSUME Inv, AckInv, TrueInv, NEW c \in Calls, Invoked(c), NEW t \in Tokens, Known(t), Awaited(t)
  PROVE  Awaited(t)' \/ Settled(c, t)
<1>1. Frame(c)
  BY DEF Invoked, BeginEffect, FetchEffect, BindEffect, PriorEffect, UpsertEffect,
         SupersedeEffect, ApplyEffect, FailEffect
<1>2. google'[t].ver = google[t].ver /\ google[t].ver \in Nat /\ seen[t] <= google[t].ver
      /\ CallTrue(calls[c])
  BY <1>1, VersionTyped DEF Frame, Same, TrueInv, SeenTrue
<1>3. CASE BeginEffect(c)
  <2>1. ~Carries(calls[c], t) /\ calls'[c] # Idle /\ calls'[c].phase \notin Answered'
    BY <1>3 DEF BeginEffect, Carries, Idle, Answered
  <2>2. calls'[c].token = t => Carries(calls[c], t)'
    BY <2>1 DEF Carries
  <2> QED  BY <1>1, <1>3, <2>1, <2>2, StillAwaited DEF BeginEffect
<1>4. CASE FetchEffect(c)
  <2>1. ASSUME Carries(calls[c], t)
        PROVE  Awaited(t)' \/ Settled(c, t)
    <3>1. t = calls[c].token
      BY <2>1 DEF Carries
    <3>2. CASE google[t].state = "none" \/ t \in queued'
      BY <3>2 DEF Awaited, Known
    <3>3. CASE Forgets(t, google[t].ver)
      <4>1. seen'[t] = google[t].ver
        BY <1>2, <3>3, NotedGrows DEF Forgets
      <4> QED  BY <1>4, <3>1, <3>3, <4>1 DEF Settled, Forgets, FetchEffect, StoreSame
    <3>4. CASE calls'[c].phase \in {"bind", "prior"} /\ calls'[c].token = t
               /\ calls'[c].ver = google[t].ver
      <4>1. calls'[c] # Idle
        BY <3>4 DEF Idle
      <4>2. Carries(calls[c], t)'
        BY <1>2, <3>4, <4>1 DEF Carries
      <4> QED  BY <4>2 DEF Awaited
    <3> QED  BY <1>4, <3>1, <3>2, <3>3, <3>4 DEF FetchEffect
  <2> QED  BY <1>1, <1>4, <2>1, StillAwaited DEF FetchEffect
<1>5. CASE BindEffect(c)
  <2>1. ASSUME Carries(calls[c], t)
        PROVE  Awaited(t)' \/ Settled(c, t)
    <3>1. t = calls[c].token /\ calls[c].ver = google[t].ver
      BY <1>5, <2>1 DEF Carries, BindEffect, Answered
    <3>2. CASE Forgets(t, google[t].ver)
      <4>1. seen'[t] = google[t].ver
        BY <1>2, <3>2, NotedGrows DEF Forgets
      <4> QED  BY <1>5, <3>1, <3>2, <4>1 DEF Settled, Forgets, BindEffect, StoreSame
    <3>3. CASE calls'[c].phase = "prior" /\ SameAnswer(calls[c], calls'[c])
      <4>1. calls'[c] # Idle
        BY <3>3 DEF Idle
      <4>2. Carries(calls[c], t)'
        BY <1>2, <3>1, <3>3, <4>1 DEF Carries, SameAnswer
      <4> QED  BY <4>2 DEF Awaited
    <3> QED  BY <1>5, <3>1, <3>2, <3>3 DEF BindEffect
  <2> QED  BY <1>1, <1>5, <2>1, StillAwaited DEF BindEffect
<1>6. CASE PriorEffect(c) \/ UpsertEffect(c) \/ SupersedeEffect(c)
  <2>1. /\ calls[c].phase \in Answered /\ calls'[c].phase \in {"upsert", "supersede", "apply"}
        /\ SameAnswer(calls[c], calls'[c]) /\ UNCHANGED <<rtdn, queued>>
    BY <1>6 DEF PriorEffect, UpsertEffect, SupersedeEffect, SameCall, Answered
  <2>2. calls'[c] # Idle
    BY <2>1 DEF Idle
  <2>3. Carries(calls[c], t) => Carries(calls[c], t)'
    BY <1>2, <2>1, <2>2 DEF Carries, SameAnswer
  <2>4. Carries(calls[c], t) => Awaited(t)'
    BY <2>3 DEF Awaited
  <2> QED  BY <1>1, <2>1, <2>4, StillAwaited
<1>7. CASE ApplyEffect(c)
  <2>1. ASSUME Carries(calls[c], t)
        PROVE  Settled(c, t)
    <3>1. t = calls[c].token /\ calls[c].ver = google[t].ver /\ seen[t] >= calls[c].ver
      BY <1>2, <1>7, <2>1 DEF Carries, ApplyEffect, Answered, CallTrue
    <3>2. seen'[t] = google[t].ver
      BY <1>2, <1>7, <3>1, SeenTyped DEF ApplyEffect
    <3> QED  BY <1>7, <3>1, <3>2 DEF Settled
  <2> QED  BY <1>1, <1>7, <2>1, StillAwaited DEF ApplyEffect
<1>8. CASE FailEffect(c)
  <2>1. Carries(calls[c], t) => Awaited(t)'
    BY <1>8 DEF Carries, Awaited, FailEffect
  <2> QED  BY <1>1, <1>8, <2>1, StillAwaited DEF FailEffect
<1> QED  BY <1>3, <1>4, <1>5, <1>6, <1>7, <1>8 DEF Invoked

LEMMA InvokedFrame ==
  ASSUME NEW c \in Calls, Invoked(c)
  PROVE  Frame(c)
BY DEF Invoked, BeginEffect, FetchEffect, BindEffect, PriorEffect, UpsertEffect,
       SupersedeEffect, ApplyEffect, FailEffect

(* A row that is left alone, but for an answer dropped when there is none. *)
LEMMA RowStays ==
  ASSUME Inv, TrueInv, Onward, NEW t \in Tokens, rows'[t] = rows[t],
         rows[t] # NoRow /\ ~crossed' => seen'[t] = seen[t] /\ google'[t].ver = google[t].ver
  PROVE  RowTrue(t)'
<1> SUFFICES ASSUME rows[t] # NoRow
             PROVE  /\ Known(t)' /\ Earlier(t, rows[t].state)'
                    /\ rows'[t].replacedBy # NoToken =>
                         \E u \in Tokens : /\ u = rows'[t].replacedBy /\ Link[u] = t
                                           /\ Activated(u)' /\ rows'[u] # NoRow
                    /\ ~crossed' /\ seen'[t] = google'[t].ver => Fresh(t)'
  BY DEF RowTrue
<1>1. RowTrue(t)
  BY DEF TrueInv
<1>2. Known(t)' /\ Earlier(t, rows[t].state)'
  BY <1>1 DEF RowTrue, Onward, Earlier
<1>3. rows[t].replacedBy # NoToken =>
        \E u \in Tokens : u = rows[t].replacedBy /\ Link[u] = t /\ Activated(u)' /\ rows'[u] # NoRow
  BY <1>1 DEF RowTrue, Onward
<1>4. ~crossed' /\ seen'[t] = google'[t].ver => Fresh(t)'
  <2> SUFFICES ASSUME ~crossed', seen'[t] = google'[t].ver
               PROVE  Fresh(t)'
    OBVIOUS
  <2>1. google'[t].ver = google[t].ver /\ seen[t] = google[t].ver /\ google[t].ver \in Nat /\ ~crossed
    BY VersionTyped DEF Onward
  <2>2. Now(t)' = Now(t)
    BY <2>1 DEF Onward
  <2> QED  BY <1>1, <2>1, <2>2 DEF RowTrue, Fresh
<1> QED  BY <1>2, <1>3, <1>4

LEMMA MovedTrue ==
  ASSUME Inv, AckInv, AckInv', TrueInv, Moved
  PROVE  TrueInv'
<1>1. Onward /\ UNCHANGED <<rows, calls, seen, crossed>>
  BY MovedOnward DEF Moved
<1>2. \A c \in Calls : CallTrue(calls[c])'
  <2> SUFFICES ASSUME NEW c \in Calls
               PROVE  CallTrue(calls[c])'
    OBVIOUS
  <2>1. PICK k : k = calls[c] /\ CallTrue(k) /\ k = calls'[c]
    BY <1>1 DEF TrueInv
  <2>2. CallTrue(k)'
    BY <1>1, <2>1, CallStays
  <2> QED  BY <2>1, <2>2 DEF CallTrue
<1>3. ASSUME NEW t \in Tokens
      PROVE  RowTrue(t)' /\ SeenTrue(t)'
  <2>1. /\ google[t].ver \in Nat /\ seen[t] \in Nat /\ seen[t] <= google[t].ver
        /\ Known(t) => Awaited(t) \/ seen[t] = google[t].ver
    BY VersionTyped, SeenTyped DEF TrueInv, SeenTrue
  <2>2. CASE google'[t] = google[t]
    <3>1. RowTrue(t)'
      BY <1>1, <2>2, RowStays
    <3>2. Known(t)' <=> Known(t)
      BY <2>2 DEF Known
    <3>3. Awaited(t) => Awaited(t)'
      BY <1>1, <2>2 DEF Awaited, Carries, Moved
    <3> QED  BY <1>1, <2>1, <2>2, <3>1, <3>2, <3>3 DEF SeenTrue
  <2>3. CASE Moves(t, google'[t])
    <3>1. google'[t].ver = google[t].ver + 1
      BY <2>3 DEF Moves
    <3>2. Known(t)' => Awaited(t)'
      BY <2>3 DEF Moves, Known, Awaited
    <3>3. seen'[t] # google'[t].ver /\ seen'[t] <= google'[t].ver
      BY <1>1, <2>1, <3>1
    <3>4. RowTrue(t)'
      <4> SUFFICES ASSUME rows'[t] # NoRow
                   PROVE  RowTrue(t)'
        BY DEF RowTrue
      <4>1. RowTrue(t)
        BY DEF TrueInv
      <4>2. Known(t)' /\ Earlier(t, rows[t].state)'
        BY <1>1, <4>1 DEF RowTrue, Onward, Earlier
      <4>3. rows'[t].replacedBy # NoToken =>
              \E u \in Tokens : u = rows'[t].replacedBy /\ Link[u] = t /\ Activated(u)' /\ rows'[u] # NoRow
        BY <1>1, <4>1 DEF RowTrue, Onward
      <4> QED  BY <3>3, <4>2, <4>3 DEF RowTrue
    <3> QED  BY <3>2, <3>3, <3>4 DEF SeenTrue
  <2> QED  BY <2>2, <2>3 DEF Moved
<1>4. (\A n \in rtdn' : Known(n.token)') /\ (\A t \in queued' : Known(t)')
  BY <1>1 DEF Moved, TrueInv, Onward, Inv, Notification
<1> QED  BY <1>2, <1>3, <1>4 DEF TrueInv

(* The clock, the admin and a stutter.                                     *)
LEMMA OthersTrue ==
  ASSUME TrueInv, UNCHANGED <<google, rtdn, queued, rows, calls, seen, crossed>>
  PROVE  TrueInv'
<1>1. \A t \in Tokens : RowTrue(t)' /\ SeenTrue(t)'
  BY DEF TrueInv, RowTrue, SeenTrue, Known, Earlier, Activated, Fresh, Now, Awaited, Carries
<1>2. \A c \in Calls : CallTrue(calls[c])'
  BY DEF TrueInv, CallTrue, Known, Earlier, Supersedes, ReplacedToken, Now
<1> QED  BY <1>1, <1>2 DEF TrueInv, Known

(* What an invocation adds to is told of a purchase the server was told of. *)
LEMMA InvokedTold ==
  ASSUME Inv, TrueInv, Onward, NEW c \in Calls, Invoked(c)
  PROVE  (\A n \in rtdn' : Known(n.token)') /\ (\A t \in queued' : Known(t)')
<1>1. calls[c] # Idle => Known(calls[c].token)
  BY DEF TrueInv, CallTrue
<1>2. /\ \A n \in rtdn' : n \in rtdn \/ (calls[c] # Idle /\ n.token = calls[c].token)
      /\ \A t \in queued' : t \in queued \/ (calls[c] # Idle /\ t = calls[c].token)
  BY DEF Invoked, BeginEffect, FetchEffect, BindEffect, PriorEffect, UpsertEffect,
         SupersedeEffect, ApplyEffect, FailEffect, Idle
<1>3. \A u \in Tokens : Known(u) => Known(u)'
  BY DEF Onward
<1>4. calls[c] # Idle => calls[c].token \in Tokens
  BY DEF Inv, CallOK
<1> QED  BY <1>1, <1>2, <1>3, <1>4 DEF TrueInv, Inv, Notification

LEMMA InvokedSeen ==
  ASSUME Inv, AckInv, AckInv', TrueInv, Onward, NEW c \in Calls, Invoked(c), NEW t \in Tokens
  PROVE  SeenTrue(t)'
<1>1. /\ google[t].ver \in Nat /\ seen[t] \in Nat /\ seen[t] <= google[t].ver
      /\ Known(t) => Awaited(t) \/ seen[t] = google[t].ver
  BY VersionTyped, SeenTyped DEF TrueInv, SeenTrue
<1>2. google'[t].ver = google[t].ver /\ (Known(t)' <=> Known(t))
  BY InvokedFrame, SameFacts DEF Frame, Same
<1>3. seen'[t] \in Nat /\ seen'[t] >= seen[t]
  BY DEF AckInv, AckTypes, Onward
<1>4. seen'[t] <= google[t].ver
  <2>1. CASE seen'[t] = seen[t]
    BY <1>1, <2>1
  <2>2. CASE FetchEffect(c)
    <3>1. seen'[t] = seen[t] \/ (t = calls[c].token /\ seen'[t] = google[t].ver)
      BY <2>2 DEF FetchEffect, Forgets, Noted
    <3> QED  BY <1>1, <3>1
  <2>3. CASE BindEffect(c) \/ UpsertEffect(c)
    <3>1. seen'[t] = seen[t] \/ (t = calls[c].token /\ seen'[t] = calls[c].ver)
      BY <2>3 DEF BindEffect, UpsertEffect, Forgets, Noted
    <3>2. calls[c].ver <= google[calls[c].token].ver
      BY <2>3, CallVersion DEF BindEffect, UpsertEffect, Answered
    <3> QED  BY <1>1, <3>1, <3>2
  <2>4. BeginEffect(c) \/ PriorEffect(c) \/ SupersedeEffect(c) \/ ApplyEffect(c) \/ FailEffect(c)
          => seen' = seen
    BY DEF BeginEffect, PriorEffect, SupersedeEffect, ApplyEffect, FailEffect
  <2> QED  BY <2>1, <2>2, <2>3, <2>4 DEF Invoked
<1>5. Known(t) => Awaited(t)' \/ seen'[t] = google[t].ver
  <2>1. CASE seen[t] = google[t].ver
    BY <1>1, <1>3, <1>4, <2>1
  <2>2. CASE Known(t) /\ Awaited(t)
    BY <2>2, ServerAwaits DEF Settled
  <2> QED  BY <1>1, <2>1, <2>2
<1> QED  BY <1>2, <1>4, <1>5 DEF SeenTrue

LEMMA InvokedRows ==
  ASSUME Inv, AckInv, AckInv', TrueInv, Onward, NEW c \in Calls, Invoked(c), NEW t \in Tokens
  PROVE  RowTrue(t)'
<1>1. Same /\ CallTrue(calls[c]) /\ RowTrue(t)
  BY InvokedFrame DEF Frame, TrueInv
<1>2. CASE rows'[t] = rows[t] /\ (seen'[t] = seen[t] \/ rows[t] = NoRow \/ crossed')
  BY <1>1, <1>2, RowStays DEF Same
<1>3. CASE UpsertEffect(c) /\ t # calls[c].token
  BY <1>2, <1>3 DEF UpsertEffect, Noted
<1>4. CASE FetchEffect(c) \/ BindEffect(c)
  <2>1. rows' = rows /\ (seen'[t] = seen[t] \/ rows[t] = NoRow \/ crossed')
    BY <1>4 DEF FetchEffect, BindEffect, StoreSame, Forgets, Noted
  <2> QED  BY <1>2, <2>1
<1>5. CASE BeginEffect(c) \/ PriorEffect(c) \/ ApplyEffect(c) \/ FailEffect(c)
  <2>1. rows' = rows /\ seen' = seen
    BY <1>5 DEF BeginEffect, PriorEffect, ApplyEffect, FailEffect, StoreSame
  <2> QED  BY <1>2, <2>1
<1>6. CASE SupersedeEffect(c)
  <2> SUFFICES ASSUME rows[t] # NoRow
               PROVE  RowTrue(t)'
    BY <1>6 DEF SupersedeEffect, RowTrue
  <2>1. PICK k : k = calls[c] /\ k.token \in Tokens /\ k.phase = "supersede" /\ k.phase \in Answered
    BY <1>6 DEF SupersedeEffect, Answered
  <2>2. rows[k.token] # NoRow /\ Supersedes(k) /\ Earlier(k.token, k.v.state) /\ Known(k.token)
    BY <1>1, <2>1 DEF CallTrue, Idle
  <2>3. Activated(k.token)
    BY <2>2 DEF Supersedes, Earlier, Known, Activated, Failed
  <2>4. rows'[t].replacedBy = rows[t].replacedBy \/ (t = Link[k.token] /\ rows'[t].replacedBy = k.token)
    BY <1>6, <2>1 DEF SupersedeEffect
  <2>5. rows'[t].replacedBy # NoToken =>
          \E u \in Tokens : u = rows'[t].replacedBy /\ Link[u] = t /\ Activated(u)' /\ rows'[u] # NoRow
    <3>1. CASE rows'[t].replacedBy = rows[t].replacedBy
      BY <1>1, <3>1 DEF RowTrue, Onward
    <3>2. CASE t = Link[k.token] /\ rows'[t].replacedBy = k.token
      BY <2>1, <2>2, <2>3, <3>2 DEF Onward
    <3> QED  BY <2>4, <3>1, <3>2
  <2>6. Known(t)' /\ Earlier(t, rows[t].state)'
    BY <1>1, <1>6 DEF SupersedeEffect, RowTrue, Onward, Earlier
  <2>7. ~crossed' /\ seen'[t] = google'[t].ver => Fresh(t)'
    <3>1. google'[t].ver = google[t].ver /\ Now(t)' = Now(t) /\ seen' = seen /\ crossed' = crossed
      BY <1>1, <1>6, SameFacts DEF Same, SupersedeEffect
    <3>2. /\ rows'[t].product = rows[t].product /\ rows'[t].state = rows[t].state
          /\ rows'[t].expiry = rows[t].expiry
      BY <1>6 DEF SupersedeEffect
    <3> QED  BY <1>1, <3>1, <3>2 DEF RowTrue, Fresh
  <2> QED  BY <2>5, <2>6, <2>7 DEF RowTrue
<1>7. CASE UpsertEffect(c) /\ t = calls[c].token
  <2>1. PICK k : k = calls[c] /\ k.token = t /\ k.phase = "upsert" /\ k.phase \in Answered
    BY <1>7 DEF UpsertEffect, Answered
  <2>2. Known(t) /\ Earlier(t, k.v.state) /\ (k.ver = google[t].ver => k.v = Now(t))
    BY <1>1, <2>1 DEF CallTrue, Idle
  <2>3. /\ rows'[t].product = k.v.product /\ rows'[t].state = k.v.state
        /\ rows'[t].expiry = k.v.expiry
    BY <1>7, <2>1 DEF UpsertEffect
  <2>4. Known(t)' /\ Earlier(t, rows[t].state)'
    BY <2>2, <2>3 DEF Onward, Earlier
  <2>5. rows'[t].replacedBy # NoToken => rows[t] # NoRow /\ rows'[t].replacedBy = rows[t].replacedBy
    BY <1>7 DEF UpsertEffect
  <2>6. rows'[t].replacedBy # NoToken =>
          \E u \in Tokens : u = rows'[t].replacedBy /\ Link[u] = t /\ Activated(u)' /\ rows'[u] # NoRow
    BY <1>1, <2>5 DEF RowTrue, Onward
  <2>7. ~crossed' /\ seen'[t] = google'[t].ver => Fresh(t)'
    <3> SUFFICES ASSUME ~crossed', seen'[t] = google'[t].ver
                 PROVE  Fresh(t)'
      OBVIOUS
    <3>1. google'[t].ver = google[t].ver /\ Now(t)' = Now(t)
      BY <1>1, SameFacts DEF Same
    <3>2. k.ver \in Nat /\ seen[t] \in Nat /\ ~(k.ver < seen[t]) /\ k.v \in Answer
      BY <1>7, <2>1, CallVersion, SeenTyped DEF UpsertEffect, Overtaken
    <3>3. seen'[t] = k.ver
      BY <1>7, <2>1, <3>2, NotedGrows DEF UpsertEffect
    <3>4. k.v = Now(t) /\ k.v = [product |-> k.v.product, state |-> k.v.state, expiry |-> k.v.expiry]
      BY <2>2, <3>1, <3>2, <3>3 DEF Answer
    <3> QED  BY <2>3, <3>1, <3>4 DEF Fresh
  <2> QED  BY <2>4, <2>6, <2>7 DEF RowTrue
<1> QED  BY <1>3, <1>4, <1>5, <1>6, <1>7 DEF Invoked

LEMMA InvokedCall ==
  ASSUME Inv, AckInv, AckInv', TrueInv, Onward, NEW c \in Calls, Invoked(c)
  PROVE  CallTrue(calls[c])'
<1>1. PICK k : k = calls[c] /\ CallTrue(k) /\ CallTrue(k)' /\ (k # Idle => k.token \in Tokens)
  <2>1. PICK k : k = calls[c] /\ CallTrue(k)
    BY DEF TrueInv
  <2>2. CallTrue(k)'
    BY <2>1, CallStays
  <2> QED  BY <2>1, <2>2 DEF Inv, CallOK
<1>2. PICK j : j = calls'[c]
  OBVIOUS
<1>3. Same
  BY InvokedFrame DEF Frame
<1>4. Answered = Answered' /\ WithPrior = WithPrior' /\ NoRow = NoRow' /\ Idle = Idle'
  OBVIOUS
<1> SUFFICES CallTrue(j)'
  BY <1>2 DEF CallTrue
<1>5. CASE j = Idle
  BY <1>5 DEF CallTrue, Idle, Answered, WithPrior, WithBusiness
<1>6. CASE BeginEffect(c)
  <2>1. j.phase = "fetch" /\ j.token \in Tokens /\ Known(j.token)
    BY <1>2, <1>6 DEF BeginEffect, TrueInv
  <2>2. Known(j.token)'
    BY <2>1 DEF Onward
  <2> QED  BY <2>1, <2>2 DEF CallTrue, Answered, WithPrior, WithBusiness
<1>7. CASE FetchEffect(c) /\ j # Idle
  <2>1. /\ k.phase = "fetch" /\ j.phase \in {"bind", "prior"} /\ j.token = k.token
        /\ j.v = Now(k.token) /\ j.ver = google[k.token].ver
    BY <1>1, <1>2, <1>7 DEF FetchEffect
  <2>2. PICK t \in Tokens : t = k.token /\ t = j.token
    BY <1>1, <2>1 DEF Idle
  <2>3. Known(t) /\ Known(t)'
    BY <1>1, <2>1, <2>2 DEF CallTrue, Idle, Onward
  <2>4. google'[t].ver = google[t].ver /\ Now(t)' = Now(t) /\ google'[t].state = google[t].state
    BY <1>3, <2>2, SameFacts DEF Same
  <2>5. j.v.state = google[t].state
    <3>1. google[t].items # {}
      BY <2>3 DEF Inv, PurchaseOK, Known
    <3> QED  BY <2>1, <2>2, <3>1 DEF Now, ParseSubscriptionV2
  <2>6. Earlier(t, j.v.state)'
    BY <2>3, <2>4, <2>5 DEF Earlier, Known
  <2> QED  BY <2>1, <2>2, <2>3, <2>4, <2>6 DEF CallTrue, WithPrior, WithBusiness
<1>8. CASE BindEffect(c) /\ j # Idle
  <2>1. k.phase = "bind" /\ j.phase = "prior" /\ SameAnswer(k, j)
    BY <1>1, <1>2, <1>8 DEF BindEffect
  <2> QED  BY <1>1, <2>1 DEF CallTrue, SameAnswer, Answered, WithPrior, WithBusiness, Idle
<1>9. CASE PriorEffect(c)
  <2>1. /\ k.phase = "prior" /\ j.phase = "upsert" /\ SameAnswer(k, j) /\ rows' = rows
        /\ rows[k.token] = NoRow => j.prior = NoPrior
        /\ rows[k.token] # NoRow => j.prior.replacedBy = rows[k.token].replacedBy
    BY <1>1, <1>2, <1>9 DEF PriorEffect, StoreSame
  <2> QED  BY <1>1, <2>1 DEF CallTrue, SameAnswer, Answered, WithPrior, WithBusiness, Idle
<1>10. CASE UpsertEffect(c)
  <2>1. /\ k.phase = "upsert" /\ j.phase \in {"supersede", "apply"} /\ SameCall(k, j)
        /\ j.phase = "supersede" <=> Supersedes(k)
        /\ rows'[k.token] # NoRow /\ rows'[k.token].business = k.business
        /\ Noted(k.token, k.ver)
    BY <1>1, <1>2, <1>10 DEF UpsertEffect
  <2>2. seen'[k.token] >= k.ver
    BY <1>1, <2>1, CallVersion, NotedGrows DEF Answered
  <2>3. j.phase = "supersede" => Supersedes(j)
    BY <2>1 DEF Supersedes, ReplacedToken, SameCall, SameAnswer
  <2> QED  BY <1>1, <2>1, <2>2, <2>3 DEF CallTrue, SameCall, SameAnswer, Answered, WithPrior, WithBusiness, Idle, Supersedes, ReplacedToken
<1>11. CASE SupersedeEffect(c)
  <2>1. k.phase = "supersede" /\ j.phase = "apply" /\ SameCall(k, j)
    BY <1>1, <1>2, <1>11 DEF SupersedeEffect
  <2> QED  BY <1>1, <2>1 DEF CallTrue, SameCall, SameAnswer, Answered, WithPrior, WithBusiness, Idle
<1>12. ApplyEffect(c) \/ FailEffect(c) => j = Idle
  BY <1>2 DEF ApplyEffect, FailEffect
<1> QED  BY <1>5, <1>6, <1>7, <1>8, <1>9, <1>10, <1>11, <1>12 DEF Invoked

LEMMA InvokedTrue ==
  ASSUME Inv, AckInv, AckInv', TrueInv, NEW c \in Calls, Invoked(c)
  PROVE  TrueInv'
<1>1. Onward
  BY InvokedOnward
<1>2. ASSUME NEW d \in Calls
      PROVE  CallTrue(calls[d])'
  <2>1. CASE d = c
    BY <1>1, <2>1, InvokedCall
  <2>2. CASE d # c
    <3>1. PICK k : k = calls[d] /\ CallTrue(k) /\ k = calls'[d]
      BY <2>2, InvokedFrame DEF Frame, TrueInv
    <3>2. CallTrue(k)'
      BY <1>1, <3>1, CallStays
    <3> QED  BY <3>1, <3>2 DEF CallTrue
  <2> QED  BY <2>1, <2>2
<1>3. \A t \in Tokens : RowTrue(t)' /\ SeenTrue(t)'
  BY <1>1, InvokedRows, InvokedSeen
<1> QED  BY <1>1, <1>2, <1>3, InvokedTold DEF TrueInv

LEMMA NextTrue ==
  ASSUME ConstantsAssumption, Inv, AckInv, AckInv', DateInv, TrueInv, [Next]_vars
  PROVE  TrueInv'
<1>1. CASE Tick \/ (\E g \in Grants : AdminGrants(g[1], g[2], g[3])) \/ UNCHANGED vars
  BY <1>1, OthersTrue DEF Tick, AdminGrants, vars
<1> QED  BY <1>1, StepIs, MovedTrue, InvokedTrue

LEMMA NextLine ==
  ASSUME ConstantsAssumption, Inv, AckInv, LineInv, DateInv, [Next]_vars
  PROVE  LineInv' /\ DateInv'
<1>1. CASE (\E g \in Grants : AdminGrants(g[1], g[2], g[3])) \/ UNCHANGED vars
  <2>1. google' = google /\ now' = now
    BY <1>1 DEF AdminGrants, vars
  <2> QED  BY <2>1, SameByRef, SameLine
<1>2. CASE \E c \in Calls : Invoked(c)
  <2>1. Same /\ now' = now
    BY <1>2, InvokedFrame DEF Frame
  <2> QED  BY <2>1, SameLine
<1> QED  BY <1>1, <1>2, StepIs, MovedLine, TickLine

-----------------------------------------------------------------------------
(* What apply_play_purchase makes of the plan: Play's, stamped; the plan   *)
(* as it was; or none.                                                     *)
LEMMA AppliedIs ==
  ASSUME Inv, NEW b \in Businesses, NEW v
  PROVE  \/ /\ Stamps(b, v) /\ IsEntitled(v.state, v.expiry)
            /\ Applied(b, v).plan = v.product /\ Applied(b, v).end = v.expiry
            /\ Applied(b, v).issue = IF v.state = "IN_GRACE_PERIOD" THEN "grace" ELSE "none"
         \/ /\ ~Stamps(b, v) /\ (IsEntitled(v.state, v.expiry) => KeptOverCanceled(b, v))
            /\ Applied(b, v).plan = biz[b].plan /\ Applied(b, v).end = biz[b].end
            /\ Applied(b, v).issue \in {"none", biz[b].issue}
         \/ /\ ~Stamps(b, v) /\ ~IsEntitled(v.state, v.expiry) /\ ~OtherEntitled(b, v)
            /\ Applied(b, v).plan = "free" /\ Applied(b, v).end = v.expiry
<1>1. PICK r \in BizType : r = biz[b]
  BY DEF Inv
<1>2. PICK n : n = [r EXCEPT !.issue = "none"] /\ n = [biz[b] EXCEPT !.issue = "none"]
  BY <1>1
<1>3. n.plan = r.plan /\ n.end = r.end /\ n.issue = "none"
  BY <1>2 DEF BizType
<1>4. CASE Stamps(b, v)
  BY <1>4 DEF Stamps, Applied
<1>5. CASE ~Stamps(b, v) /\ IsEntitled(v.state, v.expiry)
  BY <1>1, <1>2, <1>3, <1>5 DEF Stamps, Applied
<1>6. CASE ~IsEntitled(v.state, v.expiry)
  <2>1. ~Stamps(b, v)
    BY <1>6 DEF Stamps
  <2>2. CASE v.state = "PENDING"
    BY <1>1, <1>6, <2>1, <2>2 DEF Applied
  <2>3. CASE v.state # "PENDING" /\ (OtherEntitled(b, v) \/ ManualGrant(b))
    <3>1. Applied(b, v) = n
      BY <1>2, <1>6, <2>3 DEF Applied
    <3> QED  BY <1>1, <1>3, <1>6, <2>1, <3>1
  <2>4. CASE v.state # "PENDING" /\ ~OtherEntitled(b, v) /\ ~ManualGrant(b)
    BY <1>6, <2>1, <2>4 DEF Applied
  <2> QED  BY <2>2, <2>3, <2>4
<1> QED  BY <1>4, <1>5, <1>6

(* What the step that applies does to a shop.                              *)
LEMMA ApplyWrites ==
  ASSUME Inv, stamp \in [Businesses -> {stamp[x] : x \in Businesses}],
         NEW s \in Businesses, NEW v, ApplyPlayPurchase(s, v)
  PROVE  /\ biz'[s] = Applied(s, v)
         /\ granted'[s] <=> granted[s] /\ Applied(s, v).plan = biz[s].plan /\ ~Stamps(s, v)
         /\ Stamps(s, v) => stamp'[s] = [plan |-> v.product, end |-> v.expiry]
         /\ ~Stamps(s, v) => stamp' = stamp
         /\ \A b \in Businesses \ {s} : /\ biz'[b] = biz[b] /\ stamp'[b] = stamp[b]
                                        /\ granted'[b] = granted[b]
<1>1. biz'[s] = Applied(s, v) /\ \A b \in Businesses \ {s} : biz'[b] = biz[b]
  BY DEF ApplyPlayPurchase, Inv
<1>2. PICK g \in BOOLEAN : g = (granted[s] /\ Applied(s, v).plan = biz[s].plan /\ ~Stamps(s, v))
  OBVIOUS
<1>3. granted' = [granted EXCEPT ![s] = g]
  BY <1>2, Zenon DEF ApplyPlayPurchase
<1>4. granted'[s] = g /\ \A b \in Businesses \ {s} : granted'[b] = granted[b]
  BY <1>3 DEF Inv
<1>5. /\ Stamps(s, v) => stamp' = [stamp EXCEPT ![s] = [plan |-> v.product, end |-> v.expiry]]
      /\ ~Stamps(s, v) => stamp' = stamp
  BY DEF ApplyPlayPurchase
<1>6. /\ Stamps(s, v) => stamp'[s] = [plan |-> v.product, end |-> v.expiry]
      /\ \A b \in Businesses \ {s} : stamp'[b] = stamp[b]
  BY <1>5
<1> QED  BY <1>1, <1>2, <1>4, <1>5, <1>6

(* A plan the admin did not set is the one Play stamped last.              *)
StampInv ==
  /\ stamp \in [Businesses -> {stamp[b] : b \in Businesses}]
  /\ \A b \in Businesses :
       ~granted[b] /\ biz[b].plan # "free" => stamp[b] = [plan |-> biz[b].plan, end |-> biz[b].end]

LEMMA InitStamp == ASSUME Init PROVE StampInv
BY DEF Init, StampInv

LEMMA NextStamp ==
  ASSUME ConstantsAssumption, Inv, AckInv, DateInv, StampInv, [Next]_vars
  PROVE  StampInv'
<1>1. CASE UNCHANGED <<biz, stamp, granted>>
  BY <1>1 DEF StampInv
<1>2. ASSUME NEW g \in Grants, AdminGrants(g[1], g[2], g[3])
      PROVE  StampInv'
  <2>1. /\ stamp' = stamp /\ granted' = [granted EXCEPT ![g[1]] = TRUE]
        /\ \E r : biz' = [biz EXCEPT ![g[1]] = r]
    BY <1>2 DEF AdminGrants
  <2>2. \A b \in Businesses : granted'[b] = TRUE \/ (granted'[b] = granted[b] /\ biz'[b] = biz[b])
    BY <2>1 DEF Inv
  <2> QED  BY <2>1, <2>2 DEF StampInv
<1>3. ASSUME NEW c \in Calls, ApplyEffect(c), ApplyPlayPurchase(calls[c].business, calls[c].v)
      PROVE  StampInv'
  <2>1. PICK s \in Businesses : s = calls[c].business
    BY <1>3 DEF ApplyEffect, Inv, CallOK, Idle, WithBusiness, Answered
  <2>2. PICK v : v = calls[c].v /\ ApplyPlayPurchase(s, v)
    BY <1>3, <2>1
  <2>3. stamp' \in [Businesses -> {stamp'[b] : b \in Businesses}]
    BY <2>2 DEF ApplyPlayPurchase, StampInv
  <2>4. ASSUME ~granted'[s], biz'[s].plan # "free"
        PROVE  stamp'[s] = [plan |-> biz'[s].plan, end |-> biz'[s].end]
    <3>1. /\ biz'[s] = Applied(s, v)
          /\ granted'[s] <=> granted[s] /\ Applied(s, v).plan = biz[s].plan /\ ~Stamps(s, v)
          /\ Stamps(s, v) => stamp'[s] = [plan |-> v.product, end |-> v.expiry]
          /\ ~Stamps(s, v) => stamp' = stamp
      BY <2>2, ApplyWrites DEF StampInv
    <3>2. CASE Stamps(s, v)
      <4>1. Applied(s, v).plan = v.product /\ Applied(s, v).end = v.expiry
        BY <3>2, AppliedIs
      <4> QED  BY <3>1, <3>2, <4>1
    <3>3. CASE ~Stamps(s, v)
      <4>1. Applied(s, v).plan = biz[s].plan /\ Applied(s, v).end = biz[s].end
        BY <2>4, <3>1, <3>3, AppliedIs
      <4> QED  BY <2>4, <3>1, <3>3, <4>1 DEF StampInv
    <3> QED  BY <3>2, <3>3
  <2>5. \A b \in Businesses \ {s} : /\ biz'[b] = biz[b] /\ stamp'[b] = stamp[b]
                                    /\ granted'[b] = granted[b]
    BY <2>2, ApplyWrites DEF StampInv
  <2> QED  BY <2>3, <2>4, <2>5 DEF StampInv
<1>4. ASSUME NEW c \in Calls, Invoked(c)
      PROVE  StampInv'
  <2>1. \/ UNCHANGED <<biz, stamp, granted>>
        \/ ApplyEffect(c) /\ ApplyPlayPurchase(calls[c].business, calls[c].v)
    BY <1>4 DEF Invoked, BeginEffect, FetchEffect, BindEffect, PriorEffect, UpsertEffect,
                SupersedeEffect, ApplyEffect, FailEffect, StoreSame
  <2> QED  BY <1>1, <1>3, <2>1
<1>5. Moved \/ Tick \/ UNCHANGED vars => UNCHANGED <<biz, stamp, granted>>
  BY DEF Moved, Tick, vars
<1> QED  BY <1>1, <1>2, <1>4, <1>5, StepIs

-----------------------------------------------------------------------------
(* A shop shows the purchase t that Play runs.                             *)
Shows(b, t) ==
  /\ biz[b].plan = Now(t).product /\ biz[b].end = Now(t).expiry
  /\ biz[b].issue = BillingIssueForState(google[t].state) \/ IssueCleared(b, t)

(* The running purchase of a line is shown by its shop or still awaited.   *)
StandsInv ==
  ~crossed =>
    \A b \in Businesses : \A t \in RowsOf(b) :
      PaidAt(t) /\ ~granted[b] /\ OneLine(b) => Awaited(t) \/ Shows(b, t)

LEMMA RowsOfIs ==
  ASSUME NEW b \in Businesses, NEW t
  PROVE  t \in RowsOf(b) <=> t \in Tokens /\ rows[t] # NoRow /\ rows[t].business = b
BY DEF RowsOf

(* A purchase that is paid for has not ended, failed or been replaced.     *)
LEMMA PaidFacts ==
  ASSUME ConstantsAssumption, Inv, LineInv, TrueInv, NEW t \in Tokens, PaidAt(t)
  PROVE  /\ google[t].state \in {"ACTIVE", "IN_GRACE_PERIOD", "CANCELED"}
         /\ Known(t) /\ Now(t).state = google[t].state /\ Now(t).expiry > now
         /\ IsEntitled(Now(t).state, Now(t).expiry)
         /\ rows[t] # NoRow => rows[t].replacedBy = NoToken
         /\ \A u \in Later(t) : u \in Tokens /\ u # t /\ ~Activated(u)
<1>1. google[t].state \in {"ACTIVE", "IN_GRACE_PERIOD", "CANCELED"} /\ Now(t).expiry > now
  BY DEF PaidAt, Running, ExpiryOf, Now
<1>2. Known(t)
  BY <1>1 DEF Known
<1>3. Now(t).state = google[t].state
  <2>1. google[t].items # {}
    BY <1>1 DEF Inv, PurchaseOK
  <2> QED  BY <2>1 DEF Now, ParseSubscriptionV2
<1>4. IsEntitled(Now(t).state, Now(t).expiry)
  BY <1>1, <1>3 DEF IsEntitled
<1>5. \A u \in Later(t) : u \in Tokens /\ u # t /\ ~Activated(u)
  BY <1>1, LaterEnds
<1>6. ASSUME rows[t] # NoRow, rows[t].replacedBy # NoToken
      PROVE  FALSE
  <2>1. PICK u \in Tokens : Link[u] = t /\ Activated(u)
    BY <1>6 DEF TrueInv, RowTrue
  <2>2. google[t].state = "EXPIRED"
    BY <2>1 DEF LineInv, ConstantsAssumption
  <2> QED  BY <1>1, <2>2
<1> QED  BY <1>1, <1>2, <1>3, <1>4, <1>5, <1>6

(* A failed switch stays one, in its row too.                              *)
LEMMA IssueStays ==
  ASSUME ConstantsAssumption, TrueInv, TrueInv', Onward, ~crossed',
         NEW b \in Businesses, NEW t \in Tokens, IssueCleared(b, t), biz'[b].issue = biz[b].issue
  PROVE  IssueCleared(b, t)'
<1>1. PICK u \in Later(t) : u \in RowsOf(b) /\ rows[u].state = Failed
  BY DEF IssueCleared, Failed
<1>2. u \in Tokens /\ rows[u] # NoRow /\ rows[u].business = b
  BY <1>1 DEF RowsOf
<1>3. rows'[u] # NoRow /\ rows'[u].business = b
  BY <1>2 DEF Onward
<1>4. google[u].state = Failed
  BY <1>1, <1>2 DEF TrueInv, RowTrue, Earlier
<1>5. google'[u].state = Failed
  BY <1>2, <1>4 DEF Onward, Known, Failed
<1>6. rows'[u].state = Failed
  BY <1>2, <1>3, <1>5 DEF TrueInv, RowTrue, Earlier
<1>7. u \in Later(t)' /\ u \in RowsOf(b)'
  BY <1>1, <1>2, <1>3 DEF Later, RowsOf
<1> QED  BY <1>6, <1>7 DEF IssueCleared, Failed

(* What does not touch the plan of a shop leaves its purchases shown.      *)
LEMMA ShowsStays ==
  ASSUME ConstantsAssumption, TrueInv, TrueInv', Onward, ~crossed',
         NEW b \in Businesses, NEW t \in Tokens, Shows(b, t), biz'[b] = biz[b],
         Now(t)' = Now(t), google'[t].state = google[t].state
  PROVE  Shows(b, t)'
<1>1. IssueCleared(b, t) => IssueCleared(b, t)'
  BY IssueStays
<1> QED  BY <1>1 DEF Shows, BillingIssueForState

(* The line of a shop was one before its last purchase was recorded.       *)
LEMMA LineWas ==
  ASSUME Onward, ~crossed', NEW b \in Businesses, OneLine(b)'
  PROVE  OneLine(b) /\ \A t \in RowsOf(b) : t \in RowsOf(b)'
<1>1. \A t \in RowsOf(b) : t \in RowsOf(b)'
  BY DEF RowsOf, Onward
<1>2. \A t : Later(t)' = Later(t)
  BY DEF Later
<1> QED  BY <1>1, <1>2 DEF OneLine

LEMMA InitStands == ASSUME Init PROVE StandsInv
BY DEF Init, StandsInv, RowsOf

LEMMA MovedStands ==
  ASSUME ConstantsAssumption, Inv, AckInv, TrueInv, TrueInv', StandsInv, Moved
  PROVE  StandsInv'
<1>1. Onward /\ UNCHANGED <<rows, biz, calls, now, crossed, granted>>
  BY MovedOnward DEF Moved
<1> SUFFICES ASSUME ~crossed', NEW b \in Businesses, NEW t \in RowsOf(b)', PaidAt(t)',
                    ~granted'[b], OneLine(b)'
             PROVE  Awaited(t)' \/ Shows(b, t)'
  BY DEF StandsInv
<1>2. t \in RowsOf(b) /\ OneLine(b) /\ t \in Tokens
  BY <1>1, LineWas DEF RowsOf
<1>3. CASE google'[t] = google[t]
  <2>1. PaidAt(t) /\ Now(t)' = Now(t)
    BY <1>1, <1>3 DEF PaidAt, Running, ExpiryOf, Now
  <2>2. Awaited(t) \/ Shows(b, t)
    BY <1>1, <1>2, <2>1 DEF StandsInv
  <2>3. Awaited(t) => Awaited(t)'
    BY <1>1, <1>3 DEF Awaited, Carries, Moved
  <2>4. Shows(b, t) => Shows(b, t)'
    BY <1>1, <1>2, <1>3, <2>1, ShowsStays
  <2> QED  BY <2>2, <2>3, <2>4
<1>4. CASE Moves(t, google'[t])
  <2>1. google'[t].state # "PENDING"
    BY DEF PaidAt, Running
  <2> QED  BY <1>4, <2>1 DEF Moves, Awaited
<1> QED  BY <1>2, <1>3, <1>4 DEF Moved

(* The clock, the admin and a stutter.                                     *)
LEMMA OthersStands ==
  ASSUME ConstantsAssumption, Inv, StandsInv, now' \in Nat, now' >= now,
         UNCHANGED <<google, rtdn, queued, rows, calls, seen, crossed>>,
         \A b \in Businesses : granted'[b] = TRUE \/ (granted'[b] = granted[b] /\ biz'[b] = biz[b])
  PROVE  StandsInv'
<1> SUFFICES ASSUME ~crossed', NEW b \in Businesses, NEW t \in RowsOf(b)', PaidAt(t)',
                    ~granted'[b], OneLine(b)'
             PROVE  Awaited(t)' \/ Shows(b, t)'
  BY DEF StandsInv
<1>1. t \in RowsOf(b) /\ OneLine(b) /\ t \in Tokens
  BY DEF RowsOf, OneLine, Later
<1>2. PaidAt(t)
  <2>1. Running(t) /\ ExpiryOf(t) > now'
    BY DEF PaidAt, Running, ExpiryOf
  <2>2. ExpiryOf(t) \in Nat /\ now \in Nat
    BY <1>1, <2>1, LiveParsed, TimesTyped DEF Running
  <2> QED  BY <2>1, <2>2 DEF PaidAt
<1>3. Awaited(t) \/ Shows(b, t)
  BY <1>1, <1>2 DEF StandsInv
<1>4. Awaited(t) => Awaited(t)'
  BY DEF Awaited, Carries
<1>5. biz'[b] = biz[b]
  OBVIOUS
<1>6. IssueCleared(b, t) => IssueCleared(b, t)'
  BY <1>5 DEF IssueCleared, RowsOf, Later
<1> QED  BY <1>3, <1>4, <1>5, <1>6 DEF Shows, Now, BillingIssueForState

(* Every step of an invocation but the last one.                           *)
LEMMA QuietStands ==
  ASSUME ConstantsAssumption, Inv, AckInv, LineInv, TrueInv, TrueInv', StandsInv,
         NEW c \in Calls, Invoked(c), UNCHANGED <<biz, granted>>, ~ApplyEffect(c)
  PROVE  StandsInv'
<1>1. Onward /\ Same /\ now' = now
  BY InvokedOnward, InvokedFrame DEF Frame
<1> SUFFICES ASSUME ~crossed', NEW b \in Businesses, NEW t \in RowsOf(b)', PaidAt(t)',
                    ~granted'[b], OneLine(b)'
             PROVE  Awaited(t)' \/ Shows(b, t)'
  BY DEF StandsInv
<1>2. t \in Tokens /\ rows'[t] # NoRow /\ rows'[t].business = b /\ ~crossed /\ OneLine(b)
  BY <1>1, LineWas DEF RowsOf, Onward
<1>3. PaidAt(t) /\ Now(t)' = Now(t) /\ google'[t].state = google[t].state /\ Known(t)
  BY <1>1, <1>2, SameFacts, PaidFacts DEF PaidAt, Same
<1>4. Awaited(t) => Awaited(t)'
  <2>1. Settled(c, t) => rows' = rows /\ rows[t] = NoRow
    BY DEF Settled
  <2> QED  BY <1>2, <1>3, <2>1, ServerAwaits
<1>5. CASE rows[t] # NoRow
  <2>1. t \in RowsOf(b)
    BY <1>1, <1>2, <1>5 DEF Onward, RowsOf
  <2>2. Awaited(t) \/ Shows(b, t)
    BY <1>2, <1>3, <2>1 DEF StandsInv
  <2>3. Shows(b, t) => Shows(b, t)'
    BY <1>1, <1>2, <1>3, ShowsStays
  <2> QED  BY <1>4, <2>2, <2>3
<1>6. CASE rows[t] = NoRow
  <2>1. UpsertEffect(c) /\ t = calls[c].token
    <3>1. ~SupersedeEffect(c)
      BY <1>2, <1>6 DEF SupersedeEffect
    <3>2. rows' # rows
      BY <1>2, <1>6
    <3>3. UpsertEffect(c)
      BY <3>1, <3>2 DEF Invoked, BeginEffect, FetchEffect, BindEffect, PriorEffect, FailEffect, StoreSame
    <3> QED  BY <1>2, <1>6, <3>3 DEF UpsertEffect
  <2>2. PICK k : k = calls[c] /\ k.token = t /\ k.phase = "upsert" /\ k # Idle
    BY <2>1 DEF UpsertEffect, Idle
  <2>3. k.ver \in Nat /\ k.ver <= google[t].ver /\ google[t].ver \in Nat /\ ~(k.ver < seen[t])
    BY <1>2, <2>1, <2>2, CallVersion DEF UpsertEffect, Overtaken, Answered
  <2>4. Awaited(t) \/ seen[t] = google[t].ver
    BY <1>2, <1>3 DEF TrueInv, SeenTrue
  <2>5. seen[t] = google[t].ver => k.ver = google[t].ver
    BY <2>3
  <2>6. k.ver = google[t].ver => Awaited(t)
    BY <2>2 DEF Awaited, Carries
  <2> QED  BY <1>4, <2>4, <2>5, <2>6
<1> QED  BY <1>5, <1>6

(* The last one: the answer it applies is of t itself, of a later purchase *)
(* that came to nothing, or overtaken.                                     *)
LEMMA AppliedStands ==
  ASSUME ConstantsAssumption, Inv, AckInv, LineInv, TrueInv, TrueInv', StampInv, StandsInv,
         NEW c \in Calls, ApplyEffect(c), NEW k, k = calls[c], DecideApply(k.v, k.prior, k.type),
         NEW s \in Businesses, s = k.business, ~crossed',
         NEW t \in Tokens, rows[t] # NoRow, rows[t].business = s, PaidAt(t), ~granted'[s],
         OneLine(s), Now(t)' = Now(t), google'[t].state = google[t].state
  PROVE  Awaited(t)' \/ Shows(s, t)'
<1>1. /\ k.token \in Tokens /\ k.phase = "apply" /\ k # Idle /\ rows' = rows /\ seen' = seen
      /\ ApplyPlayPurchase(s, k.v) /\ ~Overtaken(k) /\ ~crossed /\ now' = now
  <2>1. k.token \in Tokens /\ k.phase = "apply" /\ k # Idle /\ rows' = rows /\ seen' = seen /\ now' = now
    BY DEF ApplyEffect, Frame, Idle
  <2>2. ApplyPlayPurchase(s, k.v)
    BY DEF ApplyEffect
  <2>3. crossed' = (crossed \/ Overtaken(k))
    BY DEF ApplyEffect
  <2> QED  BY <2>1, <2>2, <2>3
<1>2. /\ CallTrue(k) /\ Earlier(k.token, k.v.state) /\ Known(k.token)
      /\ seen[k.token] >= k.ver /\ rows[k.token] # NoRow /\ rows[k.token].business = s
  BY <1>1 DEF TrueInv, CallTrue, Answered
<1>3. /\ k.ver \in Nat /\ google[k.token].ver \in Nat /\ seen[k.token] \in Nat
      /\ k.ver <= google[k.token].ver
  BY <1>1, CallVersion, SeenTyped DEF Answered
<1>4. k.ver = seen[k.token]
  BY <1>1, <1>2, <1>3 DEF Overtaken
<1>5. /\ google[t].state \in {"ACTIVE", "IN_GRACE_PERIOD", "CANCELED"}
      /\ Known(t) /\ Now(t).state = google[t].state /\ Now(t).expiry > now
      /\ IsEntitled(Now(t).state, Now(t).expiry)
      /\ rows[t].replacedBy = NoToken
      /\ \A u \in Later(t) : u \in Tokens /\ u # t /\ ~Activated(u)
  BY PaidFacts
<1>6. /\ biz'[s] = Applied(s, k.v)
      /\ granted'[s] <=> granted[s] /\ Applied(s, k.v).plan = biz[s].plan /\ ~Stamps(s, k.v)
  BY <1>1, ApplyWrites DEF StampInv
<1>7. Awaited(t) => Awaited(t)' \/ (k.token = t /\ k.ver = google[t].ver)
  BY <1>1, <1>5, ServerAwaits DEF Settled, Invoked
<1>8. k.token = t \/ k.token \in Later(t) \/ t \in Later(k.token)
  BY <1>1, <1>2 DEF OneLine, RowsOf
<1>9. CASE t \in Later(k.token)
  <2>1. rows[t].state \notin {"PENDING", Failed}
    BY <1>5 DEF TrueInv, RowTrue, Earlier, Failed
  <2>2. k.prior = NoPrior \/ k.prior.replacedBy = NoToken
    BY DEF DecideApply
  <2>3. Overtaken(k)
    BY <1>9, <2>1, <2>2 DEF Overtaken, Failed
  <2> QED  BY <1>1, <2>3
<1>10. CASE k.token = t /\ k.ver = google[t].ver
  <2>1. k.v = Now(t)
    BY <1>1, <1>2, <1>10 DEF CallTrue, Answered
  <2>2. ~KeptOverCanceled(s, k.v)
    <3> SUFFICES ASSUME KeptOverCanceled(s, k.v)
                 PROVE  FALSE
      OBVIOUS
    <3>1. ManualGrant(s) /\ ~Stamps(s, k.v)
      BY DEF KeptOverCanceled, Stamps
    <3>2. granted[s]
      BY <3>1 DEF StampInv, ManualGrant, PlayWritten
    <3>3. Applied(s, k.v).plan = biz[s].plan
      BY <1>5, <2>1, <3>1, AppliedIs
    <3> QED  BY <1>6, <3>1, <3>2, <3>3
  <2>3. /\ biz'[s].plan = k.v.product /\ biz'[s].end = k.v.expiry
        /\ biz'[s].issue = IF k.v.state = "IN_GRACE_PERIOD" THEN "grace" ELSE "none"
    BY <1>5, <1>6, <2>1, <2>2, AppliedIs
  <2>4. BillingIssueForState(google[t].state) = IF google[t].state = "IN_GRACE_PERIOD" THEN "grace" ELSE "none"
    BY <1>5 DEF BillingIssueForState
  <2>5. BillingIssueForState(google[t].state)' = BillingIssueForState(google[t].state)
    BY DEF BillingIssueForState
  <2> QED  BY <1>5, <2>1, <2>3, <2>4, <2>5 DEF Shows
<1>11. CASE k.token = t /\ k.ver # google[t].ver
  <2>1. Awaited(t)
    BY <1>4, <1>5, <1>11 DEF TrueInv, SeenTrue
  <2> QED  BY <1>7, <1>11, <2>1
<1>12. CASE k.token \in Later(t)
  <2>1. PICK u \in Later(t) : u = k.token /\ u \in Tokens /\ u # t /\ ~Activated(u)
    BY <1>5, <1>12
  <2>2. google[u].state = Failed /\ k.v.state = Failed /\ rows[u].state = Failed
    BY <1>2, <2>1 DEF Known, Activated, Earlier, TrueInv, RowTrue
  <2>3. CASE Awaited(t)
    BY <1>7, <2>1, <2>3
  <2>4. CASE ~Awaited(t)
    <3>1. Fresh(t)
      BY <1>1, <1>5, <2>4 DEF TrueInv, RowTrue, SeenTrue
    <3>2. rows[t].state = google[t].state /\ rows[t].expiry > now
      BY <1>5, <3>1 DEF Fresh
    <3>3. OtherEntitled(s, k.v)
      BY <1>5, <2>2, <3>2 DEF OtherEntitled, RowsOf, Failed
    <3>4. /\ ~Stamps(s, k.v) /\ Applied(s, k.v).plan = biz[s].plan /\ Applied(s, k.v).end = biz[s].end
          /\ Applied(s, k.v).issue = "none"
      <4>1. ~IsEntitled(k.v.state, k.v.expiry) /\ k.v.state # "PENDING"
        BY <2>2 DEF IsEntitled, Failed
      <4>2. Applied(s, k.v) = [biz[s] EXCEPT !.issue = "none"]
        BY <3>3, <4>1 DEF Applied
      <4>3. biz[s] \in BizType
        BY DEF Inv
      <4> QED  BY <4>1, <4>2, <4>3 DEF BizType, Stamps
    <3>5. Shows(s, t)
      <4>1. ~granted[s] /\ t \in RowsOf(s)
        BY <1>6, <3>4 DEF RowsOf
      <4> QED  BY <1>1, <2>4, <4>1 DEF StandsInv
    <3>6. IssueCleared(s, t)'
      <4>1. u \in Later(t)' /\ u \in RowsOf(s)'
        BY <1>1, <1>2, <2>1 DEF Later, RowsOf
      <4> QED  BY <1>1, <1>6, <2>2, <3>4, <4>1 DEF IssueCleared, Failed
    <3> QED  BY <1>6, <3>4, <3>5, <3>6 DEF Shows
  <2> QED  BY <2>3, <2>4
<1> QED  BY <1>8, <1>9, <1>10, <1>11, <1>12

(* Nothing is decided against the newest answer of a purchase that runs.   *)
LEMMA NewestApplies ==
  ASSUME ConstantsAssumption, Inv, AckInv, LineInv, TrueInv, NEW c \in Calls, ApplyEffect(c),
         NEW t \in Tokens, t = calls[c].token, PaidAt(t), calls[c].ver = google[t].ver
  PROVE  DecideApply(calls[c].v, calls[c].prior, calls[c].type)
<1>1. PICK k : k = calls[c] /\ k.phase = "apply" /\ k.token = t /\ k # Idle /\ CallTrue(k)
  BY DEF ApplyEffect, TrueInv, Idle
<1>2. k.v = Now(t) /\ Now(t).state = google[t].state /\ google[t].state # "EXPIRED"
  BY <1>1, PaidFacts DEF CallTrue, Answered
<1>3. k.prior # NoPrior => k.prior.replacedBy = NoToken
  BY <1>1, PaidFacts DEF CallTrue, Answered, WithPrior, WithBusiness
<1> QED  BY <1>1, <1>2, <1>3 DEF DecideApply, EarlyLapse

LEMMA ApplyStands ==
  ASSUME ConstantsAssumption, Inv, AckInv, LineInv, TrueInv, TrueInv', StampInv, StandsInv,
         NEW c \in Calls, ApplyEffect(c)
  PROVE  StandsInv'
<1>1. Onward /\ Same /\ now' = now /\ rows' = rows /\ Invoked(c)
  BY InvokedOnward DEF ApplyEffect, Frame, Invoked
<1> SUFFICES ASSUME ~crossed', NEW b \in Businesses, NEW t \in RowsOf(b)', PaidAt(t)',
                    ~granted'[b], OneLine(b)'
             PROVE  Awaited(t)' \/ Shows(b, t)'
  BY DEF StandsInv
<1>2. t \in Tokens /\ rows[t] # NoRow /\ rows[t].business = b /\ ~crossed /\ OneLine(b) /\ t \in RowsOf(b)
  BY <1>1, LineWas DEF RowsOf, Onward
<1>3. PaidAt(t) /\ Now(t)' = Now(t) /\ google'[t].state = google[t].state /\ Known(t)
  BY <1>1, <1>2, SameFacts, PaidFacts DEF PaidAt, Same
<1>4. PICK k : k = calls[c] /\ k.business \in Businesses /\ k.token \in Tokens /\ CallTrue(k) /\ k.phase = "apply"
  BY DEF ApplyEffect, Inv, CallOK, Idle, WithBusiness, Answered, TrueInv
<1>5. CASE DecideApply(k.v, k.prior, k.type) /\ k.business = b
  BY <1>2, <1>3, <1>4, <1>5, AppliedStands
<1>6. CASE ~(DecideApply(k.v, k.prior, k.type) /\ k.business = b)
  <2>1. biz'[b] = biz[b] /\ granted'[b] = granted[b]
    <3>1. CASE DecideApply(k.v, k.prior, k.type)
      <4>1. PICK s \in Businesses : s # b /\ \E v : ApplyPlayPurchase(s, v)
        BY <1>4, <1>6, <3>1 DEF ApplyEffect
      <4>2. stamp \in [Businesses -> {stamp[x] : x \in Businesses}]
        BY DEF StampInv
      <4>3. \A x \in Businesses \ {s} : /\ biz'[x] = biz[x] /\ stamp'[x] = stamp[x]
                                         /\ granted'[x] = granted[x]
        BY <4>1, <4>2, ApplyWrites
      <4> QED  BY <4>1, <4>3
    <3>2. CASE ~DecideApply(k.v, k.prior, k.type)
      BY <1>4, <3>2 DEF ApplyEffect
    <3> QED  BY <3>1, <3>2
  <2>2. Awaited(t) \/ Shows(b, t)
    BY <1>2, <1>3, <2>1 DEF StandsInv
  <2>3. Shows(b, t) => Shows(b, t)'
    BY <1>1, <1>2, <1>3, <2>1, ShowsStays
  <2>4. Awaited(t) => Awaited(t)'
    <3>1. Settled(c, t) => k.token = t /\ k.ver = google[t].ver
      BY <1>2, <1>4 DEF Settled
    <3>2. ~Settled(c, t)
      <4> SUFFICES ASSUME k.token = t, k.ver = google[t].ver
                   PROVE  FALSE
        BY <3>1
      <4>1. DecideApply(k.v, k.prior, k.type)
        BY <1>2, <1>3, <1>4, NewestApplies
      <4>2. k.business = b
        BY <1>2, <1>4 DEF CallTrue
      <4> QED  BY <1>6, <4>1, <4>2
    <3> QED  BY <1>1, <1>2, <1>3, <3>2, ServerAwaits
  <2> QED  BY <2>2, <2>3, <2>4
<1> QED  BY <1>5, <1>6

LEMMA NextStands ==
  ASSUME ConstantsAssumption, Inv, AckInv, LineInv, DateInv, TrueInv, TrueInv', StampInv,
         StandsInv, [Next]_vars
  PROVE  StandsInv'
<1>1. now \in Nat
  BY TimesTyped
<1>2. CASE Tick
  BY <1>1, <1>2, OthersStands DEF Tick
<1>3. ASSUME NEW g \in Grants, AdminGrants(g[1], g[2], g[3])
      PROVE  StandsInv'
  <2>1. /\ granted' = [granted EXCEPT ![g[1]] = TRUE] /\ \E r : biz' = [biz EXCEPT ![g[1]] = r]
        /\ UNCHANGED <<google, rtdn, queued, rows, calls, seen, crossed, now>>
    BY <1>3 DEF AdminGrants
  <2>2. \A b \in Businesses : granted'[b] = TRUE \/ (granted'[b] = granted[b] /\ biz'[b] = biz[b])
    BY <2>1 DEF Inv
  <2>3. now' \in Nat /\ now' >= now
    BY <1>1, <2>1
  <2>4. UNCHANGED <<google, rtdn, queued, rows, calls, seen, crossed>>
    BY <2>1
  <2> QED  BY <2>2, <2>3, <2>4, OthersStands
<1>4. CASE UNCHANGED vars
  BY <1>1, <1>4, OthersStands DEF vars
<1>5. ASSUME NEW c \in Calls, Invoked(c)
      PROVE  StandsInv'
  <2>1. CASE ApplyEffect(c)
    BY <2>1, ApplyStands
  <2>2. CASE ~ApplyEffect(c)
    <3>1. UNCHANGED <<biz, granted>>
      BY <1>5, <2>2 DEF Invoked, BeginEffect, FetchEffect, BindEffect, PriorEffect, UpsertEffect,
                        SupersedeEffect, FailEffect, StoreSame
    <3> QED  BY <1>5, <2>2, <3>1, QuietStands
  <2> QED  BY <2>1, <2>2
<1> QED  BY <1>2, <1>3, <1>4, <1>5, StepIs, MovedStands

-----------------------------------------------------------------------------
PlanInv == Inv /\ AckInv /\ LineInv /\ DateInv /\ TrueInv /\ StampInv /\ StandsInv

LEMMA PlanHolds == Spec => []PlanInv
<1>1. Init => PlanInv
  BY ConstantsAssumption, InitInv, InitAck, InitLine, InitTrue, InitStamp, InitStands DEF PlanInv
<1>2. PlanInv /\ [Next]_vars => PlanInv'
  <2> SUFFICES ASSUME PlanInv, [Next]_vars
               PROVE  PlanInv'
    OBVIOUS
  <2> USE ConstantsAssumption DEF PlanInv
  <2>1. Inv' /\ AckInv' /\ LineInv' /\ DateInv' /\ StampInv'
    BY NextKeeps, NextAck, NextLine, NextStamp
  <2>2. TrueInv'
    BY <2>1, NextTrue
  <2>3. StandsInv'
    BY <2>2, NextStands
  <2> QED  BY <2>1, <2>2, <2>3
<1> QED  BY <1>1, <1>2, PTL DEF Spec

(* When all is quiet a paid purchase has its plan, unless an overtaken      *)
(* answer was written or a notification of it was dropped (`crossed'), or   *)
(* an admin's grant stands: PaidPlanStands.  The newest answer of it was    *)
(* written and applied, and nothing that came after took the plan back.     *)
THEOREM PaidPlanIsKept == Spec => []PaidPlanStands
<1>1. PlanInv => PaidPlanStands
  <2> SUFFICES ASSUME PlanInv, Quiet, ~crossed, NEW b \in Businesses, NEW t \in RowsOf(b),
                      PaidAt(t), ~granted[b], OneLine(b)
               PROVE  /\ biz[b].plan = ParseSubscriptionV2(google[t]).product
                      /\ biz[b].end = ExpiryOf(t)
                      /\ biz[b].issue = BillingIssueForState(google[t].state) \/ IssueCleared(b, t)
    BY DEF PaidPlanStands
  <2>1. ~Awaited(t)
    BY DEF Quiet, Awaited, Carries
  <2> QED  BY <2>1 DEF PlanInv, StandsInv, Shows, Now, ExpiryOf
<1> QED  BY <1>1, PlanHolds, PTL

-----------------------------------------------------------------------------
(* A purchase that has not ended runs longer than any answer about it says. *)
Bounded(t, e) == Activated(t) /\ google[t].state # "EXPIRED" => e <= ExpiryOf(t)

CallBound(k) ==
  k.phase \in Answered =>
    /\ Bounded(k.token, k.v.expiry)
    /\ k.phase \in WithPrior /\ k.prior # NoPrior => Bounded(k.token, k.prior.expiry)

BoundInv ==
  /\ \A c \in Calls : CallBound(calls[c])
  /\ \A t \in Tokens : rows[t] # NoRow => Bounded(t, rows[t].expiry)

LEMMA InitBound == ASSUME Init PROVE BoundInv
<1>1. \A c \in Calls : CallBound(calls[c])
  BY DEF Init, CallBound, Idle, Answered
<1> QED  BY <1>1 DEF Init, BoundInv

LEMMA ParsedLater ==
  ASSUME ConstantsAssumption, Inv', NEW t \in Tokens, google'[t].state # "none"
  PROVE  ExpiryOf(t)' \in Nat
<1>1. PICK p : p = google'[t] /\ PurchaseOK(p) /\ p.items # {}
  BY DEF Inv, PurchaseOK
<1>2. ParseSubscriptionV2(p) \in Answer
  BY <1>1, ParseTyped
<1> QED  BY <1>1, <1>2 DEF ExpiryOf, Answer, Time

LEMMA BoundedStays ==
  ASSUME ConstantsAssumption, Inv, Inv', NEW t \in Tokens, Known(t), NEW e \in Nat, Bounded(t, e),
         Same \/ Moved
  PROVE  Bounded(t, e)'
<1>1. google[t].state # "none" /\ ExpiryOf(t) \in Nat
  BY LiveParsed DEF Known
<1> SUFFICES ASSUME Activated(t)', google'[t].state # "EXPIRED"
             PROVE  e <= ExpiryOf(t)'
  BY DEF Bounded
<1>2. CASE Same
  BY <1>2, SameFacts DEF Same, Bounded
<1>3. CASE google'[t] = google[t]
  BY <1>3 DEF Bounded, Activated, ExpiryOf
<1>4. CASE Moves(t, google'[t]) /\ Dates(t, google'[t])
  <2>1. google[t].state \in Live /\ google'[t].state \in Live
    BY <1>4 DEF Moves, MoveOf, Known
  <2>2. ExpiryOf(t) <= ExpiryOf(t)'
    BY <1>4, <2>1 DEF Dates, ExpiryOf
  <2>3. e <= ExpiryOf(t)
    BY <2>1 DEF Bounded, Activated, Live, Failed
  <2>4. ExpiryOf(t)' \in Nat
    BY ParsedLater DEF Activated
  <2> QED  BY <1>1, <2>2, <2>3, <2>4
<1> QED  BY <1>2, <1>3, <1>4 DEF Moved

(* What the rows and the calls hold is typed, and of a purchase Google knows. *)
LEMMA HeldTyped ==
  ASSUME Inv, TrueInv
  PROVE  /\ \A t \in Tokens : rows[t] # NoRow => rows[t].expiry \in Nat /\ Known(t)
         /\ \A c \in Calls : calls[c].phase \in Answered =>
              /\ calls[c].token \in Tokens /\ Known(calls[c].token) /\ calls[c].v.expiry \in Nat
              /\ calls[c].phase \in WithPrior /\ calls[c].prior # NoPrior => calls[c].prior.expiry \in Nat
<1>1. \A t \in Tokens : rows[t] # NoRow => rows[t].expiry \in Nat /\ Known(t)
  BY DEF Inv, RowOK, RowType, Time, TrueInv, RowTrue
<1>2. ASSUME NEW c \in Calls, calls[c].phase \in Answered
      PROVE  /\ calls[c].token \in Tokens /\ Known(calls[c].token) /\ calls[c].v.expiry \in Nat
             /\ calls[c].phase \in WithPrior /\ calls[c].prior # NoPrior => calls[c].prior.expiry \in Nat
  <2>1. calls[c] # Idle
    BY <1>2 DEF Idle, Answered
  <2>2. CallOK(calls[c]) /\ CallTrue(calls[c])
    BY DEF Inv, TrueInv
  <2> QED  BY <1>2, <2>1, <2>2 DEF CallOK, CallTrue, Answer, Prior, Time
<1> QED  BY <1>1, <1>2

LEMMA CallBoundStays ==
  ASSUME ConstantsAssumption, Inv, Inv', TrueInv, BoundInv, Same \/ Moved,
         NEW c \in Calls, NEW k, k = calls[c]
  PROVE  CallBound(k)'
<1> SUFFICES ASSUME k.phase \in Answered
             PROVE  /\ Bounded(k.token, k.v.expiry)'
                    /\ k.phase \in WithPrior /\ k.prior # NoPrior => Bounded(k.token, k.prior.expiry)'
  BY DEF CallBound
<1>1. PICK t \in Tokens, e \in Nat : t = k.token /\ e = k.v.expiry /\ Known(t) /\ Bounded(t, e)
  BY HeldTyped DEF BoundInv, CallBound
<1>2. Bounded(t, e)'
  BY <1>1, BoundedStays
<1>3. ASSUME k.phase \in WithPrior, k.prior # NoPrior
      PROVE  Bounded(k.token, k.prior.expiry)'
  <2>1. PICK p \in Nat : p = k.prior.expiry /\ Bounded(t, p)
    BY <1>1, <1>3, HeldTyped DEF BoundInv, CallBound
  <2>2. Bounded(t, p)'
    BY <1>1, <2>1, BoundedStays
  <2> QED  BY <1>1, <2>1, <2>2
<1> QED  BY <1>1, <1>2, <1>3

LEMMA NextBound ==
  ASSUME ConstantsAssumption, Inv, Inv', AckInv, DateInv, TrueInv, BoundInv, [Next]_vars
  PROVE  BoundInv'
<1>1. \A t \in Tokens : rows[t] # NoRow => rows[t].expiry \in Nat /\ Known(t)
  BY HeldTyped
<1>2. ASSUME Same \/ Moved, NEW t \in Tokens, rows[t] # NoRow, rows'[t].expiry = rows[t].expiry
      PROVE  Bounded(t, rows[t].expiry)'
  <2>1. PICK e \in Nat : e = rows[t].expiry /\ Bounded(t, e) /\ Known(t)
    BY <1>1, <1>2 DEF BoundInv
  <2>2. Bounded(t, e)'
    BY <1>2, <2>1, BoundedStays
  <2> QED  BY <1>2, <2>1, <2>2
<1>3. ASSUME Same \/ Moved, UNCHANGED <<rows, calls>>
      PROVE  BoundInv'
  <2>1. ASSUME NEW c \in Calls
        PROVE  CallBound(calls[c])'
    <3>1. PICK k : k = calls[c] /\ k = calls'[c]
      BY <1>3
    <3>2. CallBound(k)'
      BY <1>3, <3>1, CallBoundStays
    <3> QED  BY <3>1, <3>2 DEF CallBound
  <2>2. \A t \in Tokens : rows'[t] # NoRow => Bounded(t, rows[t].expiry)'
    BY <1>2, <1>3
  <2> QED  BY <2>1, <2>2 DEF BoundInv
<1>4. ASSUME NEW c \in Calls, Invoked(c)
      PROVE  BoundInv'
  <2>1. Same
    BY <1>4, InvokedFrame DEF Frame
  <2>2. PICK k : k = calls[c] /\ CallBound(k)'
    BY <2>1, CallBoundStays
  <2>3. PICK j : j = calls'[c]
    OBVIOUS
  <2>4. CallBound(j)'
    <3>1. CASE j.phase \notin Answered
      BY <3>1 DEF CallBound
    <3>2. CASE FetchEffect(c) /\ j.phase \in Answered
      <4>1. j # Idle
        BY <3>2 DEF Idle, Answered
      <4>2. PICK t \in Tokens : t = calls[c].token
        BY <3>2 DEF FetchEffect
      <4>3. j.token = t /\ j.phase \in {"bind", "prior"} /\ j.v = Now(t) /\ google[t].state # "none"
        BY <2>3, <3>2, <4>1, <4>2 DEF FetchEffect
      <4>4. j.v.expiry = ExpiryOf(t)' /\ ExpiryOf(t) \in Nat /\ j.v.expiry = ExpiryOf(t)
        BY <2>1, <4>3, SameFacts, LiveParsed DEF Now, ExpiryOf
      <4> QED  BY <4>3, <4>4 DEF CallBound, Bounded, WithPrior, WithBusiness
    <3>3. CASE BindEffect(c) /\ j.phase \in Answered
      <4>1. k.phase \in Answered /\ j.phase = "prior" /\ SameAnswer(k, j)
        BY <2>2, <2>3, <3>3 DEF BindEffect, Idle, Answered
      <4> QED  BY <2>2, <4>1 DEF CallBound, SameAnswer, WithPrior, WithBusiness
    <3>4. CASE PriorEffect(c)
      <4>1. PICK t \in Tokens : t = k.token
        BY <2>2, <3>4 DEF PriorEffect
      <4>2. /\ k.phase \in Answered /\ SameAnswer(k, j) /\ rows' = rows
            /\ rows[t] = NoRow => j.prior = NoPrior
            /\ rows[t] # NoRow => j.prior.expiry = rows[t].expiry
        BY <2>2, <2>3, <3>4, <4>1 DEF PriorEffect, Answered, StoreSame
      <4>3. j.prior # NoPrior => Bounded(t, j.prior.expiry)'
        <5> SUFFICES ASSUME rows[t] # NoRow
                     PROVE  Bounded(t, j.prior.expiry)'
          BY <4>2
        <5>1. PICK e \in Nat : e = rows[t].expiry /\ Bounded(t, e) /\ Known(t)
          BY <1>1 DEF BoundInv
        <5>2. Bounded(t, e)'
          BY <2>1, <5>1, BoundedStays
        <5> QED  BY <4>2, <5>1, <5>2
      <4> QED  BY <2>2, <4>1, <4>2, <4>3 DEF CallBound, SameAnswer
    <3>5. CASE UpsertEffect(c) \/ SupersedeEffect(c)
      <4>1. k.phase \in Answered /\ k.phase \in WithPrior /\ SameCall(k, j)
        BY <2>2, <2>3, <3>5 DEF UpsertEffect, SupersedeEffect, Answered, WithPrior, WithBusiness
      <4> QED  BY <2>2, <4>1 DEF CallBound, SameCall, SameAnswer
    <3>6. BeginEffect(c) \/ ApplyEffect(c) \/ FailEffect(c) => j.phase \notin Answered
      BY <2>3 DEF BeginEffect, ApplyEffect, FailEffect, Idle, Answered
    <3> QED  BY <1>4, <3>1, <3>2, <3>3, <3>4, <3>5, <3>6 DEF Invoked
  <2>5. ASSUME NEW d \in Calls
        PROVE  CallBound(calls[d])'
    <3>1. CASE d = c
      BY <2>3, <2>4, <3>1 DEF CallBound
    <3>2. CASE d # c
      <4>1. PICK i : i = calls[d] /\ i = calls'[d]
        BY <1>4, <3>2, InvokedFrame DEF Frame
      <4>2. CallBound(i)'
        BY <2>1, <4>1, CallBoundStays
      <4> QED  BY <4>1, <4>2 DEF CallBound
    <3> QED  BY <3>1, <3>2
  <2>6. ASSUME NEW t \in Tokens, rows'[t] # NoRow
        PROVE  Bounded(t, rows[t].expiry)'
    <3>1. CASE UpsertEffect(c) /\ t = k.token
      <4>1. rows'[t].expiry = k.v.expiry /\ k.phase \in Answered
        BY <2>2, <3>1 DEF UpsertEffect, Answered
      <4> QED  BY <2>2, <3>1, <4>1 DEF CallBound
    <3>2. CASE ~(UpsertEffect(c) /\ t = k.token)
      <4>1. rows[t] # NoRow /\ rows'[t].expiry = rows[t].expiry
        BY <1>4, <2>2, <2>6, <3>2 DEF Invoked, BeginEffect, FetchEffect, BindEffect, PriorEffect,
           UpsertEffect, SupersedeEffect, ApplyEffect, FailEffect, StoreSame
      <4> QED  BY <1>2, <2>1, <4>1
    <3> QED  BY <3>1, <3>2
  <2> QED  BY <2>5, <2>6 DEF BoundInv
<1>5. Tick \/ (\E g \in Grants : AdminGrants(g[1], g[2], g[3])) \/ UNCHANGED vars
        => Same /\ UNCHANGED <<rows, calls>>
  BY SameByRef DEF Tick, AdminGrants, vars
<1>6. Moved => UNCHANGED <<rows, calls>>
  BY DEF Moved
<1> QED  BY <1>3, <1>4, <1>5, <1>6, StepIs

(* A call that is to be applied has marked the purchase it replaces, if that *)
(* is recorded for the same shop.                                           *)
Marked(k) ==
  k.phase = "apply" /\ Supersedes(k) =>
    \A o \in Tokens : o = Link[k.token] /\ rows[o] # NoRow /\ rows[o].business = k.business
                        => rows[o].replacedBy # NoToken
MarkInv == ~crossed => \A c \in Calls : Marked(calls[c])

LEMMA InitMark == ASSUME Init PROVE MarkInv
BY DEF Init, MarkInv, Marked, Idle

LEMMA NextMark ==
  ASSUME ConstantsAssumption, Inv, AckInv, DateInv, TrueInv, MarkInv, [Next]_vars
  PROVE  MarkInv'
<1>1. ASSUME UNCHANGED <<rows, calls>>, crossed => crossed'
      PROVE  MarkInv'
  BY <1>1 DEF MarkInv, Marked, Supersedes, ReplacedToken
<1>2. ASSUME NEW c \in Calls, Invoked(c)
      PROVE  MarkInv'
  <2>1. Onward /\ Frame(c)
    BY <1>2, InvokedOnward, InvokedFrame
  <2> SUFFICES ASSUME ~crossed', NEW d \in Calls, NEW j, j = calls'[d],
                      j.phase = "apply", Supersedes(j), NEW o \in Tokens, o = Link[j.token],
                      rows'[o] # NoRow, rows'[o].business = j.business
               PROVE  rows'[o].replacedBy # NoToken
    <3>1. ASSUME NEW d \in Calls, NEW j, j = calls'[d]
          PROVE  Supersedes(calls[d])' <=> Supersedes(j)
      BY <3>1 DEF Supersedes, ReplacedToken
    <3> QED  BY <3>1 DEF MarkInv, Marked
  <2>2. ~crossed
    BY <2>1 DEF Onward
  <2>3. CASE d = c
    <3>1. CASE SupersedeEffect(c)
      <4>1. PICK k : k = calls[c] /\ SameCall(k, j) /\ k.token \in Tokens
        BY <2>3, <3>1 DEF SupersedeEffect
      <4>2. k.token # NoToken /\ k.token = j.token /\ k.business = j.business
        BY <4>1, ConstantsAssumption DEF ConstantsAssumption, SameCall, SameAnswer
      <4> QED  BY <3>1, <4>1, <4>2 DEF SupersedeEffect
    <3>2. CASE UpsertEffect(c)
      <4>1. ~Supersedes(calls[c]) /\ SameCall(calls[c], j)
        BY <2>3, <3>2 DEF UpsertEffect
      <4> QED  BY <4>1 DEF SameCall, SameAnswer, Supersedes, ReplacedToken
    <3>3. BeginEffect(c) \/ FetchEffect(c) \/ BindEffect(c) \/ PriorEffect(c) \/ ApplyEffect(c)
            \/ FailEffect(c) => j.phase # "apply"
      BY <2>3 DEF BeginEffect, FetchEffect, BindEffect, PriorEffect, ApplyEffect, FailEffect, Idle
    <3> QED  BY <1>2, <3>1, <3>2, <3>3 DEF Invoked
  <2>4. CASE d # c
    <3>1. j = calls[d] /\ Marked(j) /\ CallTrue(j) /\ j \in {calls[d]}
      BY <2>1, <2>2, <2>4 DEF Frame, MarkInv, TrueInv
    <3>2. /\ j.token \in Tokens /\ rows[j.token] # NoRow
          /\ Known(j.token) /\ Earlier(j.token, j.v.state)
      BY <3>1 DEF Inv, CallOK, CallTrue, Idle, Answered
    <3>3. CASE rows[o] # NoRow
      <4>1. rows[o].business = j.business
        BY <2>1, <3>3 DEF Onward
      <4>2. rows[o].replacedBy # NoToken
        BY <3>1, <3>3, <4>1 DEF Marked
      <4> QED  BY <2>1, <3>3, <4>2 DEF Onward
    <3>4. CASE rows[o] = NoRow
      <4>1. UpsertEffect(c) /\ o = calls[c].token
        <5>1. rows' # rows /\ ~SupersedeEffect(c)
          BY <3>4 DEF SupersedeEffect
        <5>2. UpsertEffect(c)
          BY <1>2, <5>1 DEF Invoked, BeginEffect, FetchEffect, BindEffect, PriorEffect, ApplyEffect,
                            FailEffect, StoreSame
        <5> QED  BY <3>4, <5>2 DEF UpsertEffect
      <4>2. PICK k : k = calls[c] /\ k.token = o /\ k.phase = "upsert" /\ CallTrue(k) /\ ~Overtaken(k)
        BY <4>1 DEF UpsertEffect, TrueInv
      <4>3. k.prior = NoPrior
        BY <3>4, <4>2 DEF CallTrue, WithPrior, WithBusiness, Answered
      <4>4. j.token \in Later(o)
        BY <3>2, LinkedLater
      <4>5. google[j.token].state # Failed
        BY <3>2 DEF Earlier, Supersedes, Failed
      <4>6. rows[j.token].state \notin {"PENDING", "PENDING_PURCHASE_CANCELED"}
        BY <3>2, <4>5 DEF TrueInv, RowTrue, Earlier, Failed
      <4> QED  BY <3>2, <4>2, <4>3, <4>4, <4>6 DEF Overtaken
    <3> QED  BY <3>3, <3>4
  <2> QED  BY <2>3, <2>4
<1>3. Moved \/ Tick \/ (\E g \in Grants : AdminGrants(g[1], g[2], g[3])) \/ UNCHANGED vars
        => UNCHANGED <<rows, calls>> /\ crossed' = crossed
  BY DEF Moved, Tick, AdminGrants, vars
<1> QED  BY <1>1, <1>2, <1>3, StepIs

(* A plan the admin did not set is of a purchase of the shop that was paid. *)
PaidInv ==
  ~crossed => \A b \in Businesses : ~granted[b] /\ biz[b].plan # "free" =>
                                      \E t \in RowsOf(b) : Activated(t)

LEMMA InitPaid == ASSUME Init PROVE PaidInv
BY DEF Init, PaidInv

LEMMA PaidStays ==
  ASSUME Onward, ~crossed', NEW b \in Businesses, \E t \in RowsOf(b) : Activated(t)
  PROVE  \E t \in RowsOf(b)' : Activated(t)'
<1>1. PICK t \in Tokens : rows[t] # NoRow /\ rows[t].business = b /\ Activated(t)
  BY DEF RowsOf
<1>2. rows'[t] # NoRow /\ rows'[t].business = b /\ Activated(t)'
  BY <1>1 DEF Onward
<1> QED  BY <1>2 DEF RowsOf

LEMMA NextPaid ==
  ASSUME ConstantsAssumption, Inv, AckInv, DateInv, TrueInv, StampInv, PaidInv, [Next]_vars
  PROVE  PaidInv'
<1>1. ASSUME Onward, \A b \in Businesses : granted'[b] = TRUE \/ (granted'[b] = granted[b] /\ biz'[b] = biz[b])
      PROVE  PaidInv'
  <2> SUFFICES ASSUME ~crossed', NEW b \in Businesses, ~granted'[b], biz'[b].plan # "free"
               PROVE  \E t \in RowsOf(b)' : Activated(t)'
    BY DEF PaidInv
  <2>1. ~crossed /\ ~granted[b] /\ biz[b].plan # "free"
    BY <1>1 DEF Onward
  <2>2. \E t \in RowsOf(b) : Activated(t)
    BY <2>1 DEF PaidInv
  <2> QED  BY <1>1, <2>2, PaidStays
<1>2. ASSUME NEW g \in Grants, AdminGrants(g[1], g[2], g[3])
      PROVE  PaidInv'
  <2>1. /\ granted' = [granted EXCEPT ![g[1]] = TRUE] /\ \E r : biz' = [biz EXCEPT ![g[1]] = r]
        /\ UNCHANGED <<google, rows, crossed, seen>>
    BY <1>2 DEF AdminGrants
  <2>2. \A b \in Businesses : granted'[b] = TRUE \/ (granted'[b] = granted[b] /\ biz'[b] = biz[b])
    BY <2>1 DEF Inv
  <2>3. Onward
    BY <2>1, SameByRef, SameOnward, SeenTyped
  <2> QED  BY <1>1, <2>2, <2>3
<1>3. ASSUME NEW c \in Calls, ApplyEffect(c), ApplyPlayPurchase(calls[c].business, calls[c].v)
      PROVE  PaidInv'
  <2>1. Onward /\ Same /\ rows' = rows
    BY <1>3, InvokedOnward DEF Invoked, ApplyEffect, Frame
  <2>2. PICK k : k = calls[c] /\ k.phase = "apply" /\ k.business \in Businesses /\ k.token \in Tokens /\ CallTrue(k)
    BY <1>3 DEF ApplyEffect, Inv, CallOK, Idle, WithBusiness, Answered, TrueInv
  <2>3. PICK s \in Businesses : s = k.business /\ ApplyPlayPurchase(s, k.v)
    BY <1>3, <2>2
  <2>d. PICK v : v = k.v /\ ApplyPlayPurchase(s, v)
    BY <2>3
  <2>a. stamp \in [Businesses -> {stamp[x] : x \in Businesses}]
    BY DEF StampInv
  <2>b. /\ biz'[s] = Applied(s, v)
        /\ granted'[s] <=> granted[s] /\ Applied(s, v).plan = biz[s].plan /\ ~Stamps(s, v)
        /\ Stamps(s, v) => stamp'[s] = [plan |-> v.product, end |-> v.expiry]
        /\ ~Stamps(s, v) => stamp' = stamp
        /\ \A b \in Businesses \ {s} : /\ biz'[b] = biz[b] /\ stamp'[b] = stamp[b]
                                       /\ granted'[b] = granted[b]
    BY <2>d, <2>a, ApplyWrites
  <2> SUFFICES ASSUME ~crossed', NEW b \in Businesses, ~granted'[b], biz'[b].plan # "free"
               PROVE  \E t \in RowsOf(b) : Activated(t)
    <3>1. (\A b \in Businesses : ~crossed' /\ ~granted'[b] /\ biz'[b].plan # "free" =>
              \E t \in RowsOf(b) : Activated(t)) => PaidInv'
      BY <2>1, PaidStays DEF PaidInv
    <3> QED  BY <3>1
  <2>4. ~crossed
    BY <2>1 DEF Onward
  <2>5. CASE b # s
    BY <2>b, <2>4, <2>5 DEF PaidInv
  <2>6. CASE b = s
    <3>1. /\ biz'[s] = Applied(s, v)
          /\ granted'[s] <=> granted[s] /\ Applied(s, v).plan = biz[s].plan /\ ~Stamps(s, v)
      BY <2>b
    <3>2. CASE Stamps(s, v)
      <4>1. v.state # Failed
        BY <3>2 DEF Stamps, IsEntitled, Failed
      <4>2. Activated(k.token) /\ k.token \in RowsOf(b)
        BY <2>2, <2>3, <2>d, <2>4, <2>6, <4>1 DEF CallTrue, Earlier, Known, Activated, RowsOf, Answered, Idle
      <4> QED  BY <4>2
    <3>3. CASE ~Stamps(s, v)
      <4>1. Applied(s, v).plan = biz[s].plan
        BY <2>6, <3>1, <3>3, AppliedIs
      <4> QED  BY <2>4, <2>6, <3>1, <3>3, <4>1 DEF PaidInv
    <3> QED  BY <3>2, <3>3
  <2> QED  BY <2>5, <2>6
<1>4. ASSUME NEW c \in Calls, Invoked(c)
      PROVE  PaidInv'
  <2>1. \/ UNCHANGED <<biz, granted>>
        \/ ApplyEffect(c) /\ ApplyPlayPurchase(calls[c].business, calls[c].v)
    BY <1>4 DEF Invoked, BeginEffect, FetchEffect, BindEffect, PriorEffect, UpsertEffect,
                SupersedeEffect, ApplyEffect, FailEffect, StoreSame
  <2> QED  BY <1>1, <1>3, <1>4, <2>1, InvokedOnward
<1>5. CASE Moved
  BY <1>1, <1>5, MovedOnward DEF Moved
<1>6. CASE Tick \/ UNCHANGED vars
  <2>1. UNCHANGED <<google, rows, seen, crossed, biz, granted>>
    BY <1>6 DEF Tick, vars
  <2>2. Onward
    BY <2>1, SameByRef, SameOnward, SeenTyped
  <2> QED  BY <1>1, <2>1, <2>2
<1> QED  BY <1>2, <1>4, <1>5, <1>6, StepIs

-----------------------------------------------------------------------------
(* How an end comes: by a switch, with its time, or by a refund.            *)
Switched(t) == \E u \in Tokens : Link[u] = t /\ Activated(u)

(* Whatever the server holds about t says that it is over by now.           *)
LapsedCall(k, t) ==
  k.phase \in Answered /\ k.token = t =>
    /\ k.v.expiry <= now
    /\ k.phase \in WithPrior /\ k.prior # NoPrior => k.prior.expiry <= now
Lapsed(t) ==
  /\ ExpiryOf(t) <= now
  /\ rows[t] # NoRow => rows[t].expiry <= now
  /\ \A c \in Calls : LapsedCall(calls[c], t)

Ready(t) == seen[t] = google[t].ver \/ Lapsed(t)

(* The notification of a refund is waiting, or in a call.                   *)
Refund(k, t) == Carries(k, t) /\ k.kind = "rtdn" /\ k.type = RTDN_REVOKED
RevokeHeard(t) ==
  \/ \E n \in rtdn : n.token = t /\ n.type = RTDN_REVOKED
  \/ \E c \in Calls : Refund(calls[c], t)

OriginInv ==
  ~crossed => \A t \in Tokens : google[t].state = "EXPIRED" =>
                Switched(t) \/ Ready(t) \/ RevokeHeard(t)

LEMMA InitOrigin == ASSUME Init PROVE OriginInv
BY DEF Init, OriginInv

LEMMA LapsedStays ==
  ASSUME ConstantsAssumption, Inv, AckInv, NEW c \in Calls, Invoked(c), NEW t \in Tokens,
         google[t].state # "none", Lapsed(t)
  PROVE  Lapsed(t)'
<1>1. Same /\ now' = now /\ \A d \in Calls \ {c} : calls'[d] = calls[d]
  BY InvokedFrame DEF Frame
<1>2. ExpiryOf(t)' = ExpiryOf(t) /\ Now(t)' = Now(t)
  BY <1>1, SameFacts
<1>3. PICK k : k = calls[c] /\ LapsedCall(k, t)
  BY DEF Lapsed
<1>4. PICK j : j = calls'[c]
  OBVIOUS
<1>5. rows'[t] # NoRow => rows'[t].expiry <= now
  <2>1. CASE UpsertEffect(c) /\ t = k.token
    <3>1. rows'[t].expiry = k.v.expiry /\ k.phase \in Answered
      BY <1>3, <2>1 DEF UpsertEffect, Answered
    <3> QED  BY <1>3, <2>1, <3>1 DEF LapsedCall
  <2>2. CASE ~(UpsertEffect(c) /\ t = k.token)
    <3>1. rows'[t] # NoRow => rows[t] # NoRow /\ rows'[t].expiry = rows[t].expiry
      BY <1>3, <2>2 DEF Invoked, BeginEffect, FetchEffect, BindEffect, PriorEffect,
         UpsertEffect, SupersedeEffect, ApplyEffect, FailEffect, StoreSame
    <3> QED  BY <3>1 DEF Lapsed
  <2> QED  BY <2>1, <2>2
<1>6. ASSUME j.phase \in Answered, j.token = t
      PROVE  /\ j.v.expiry <= now
             /\ j.phase \in WithPrior /\ j.prior # NoPrior => j.prior.expiry <= now
  <2>1. j # Idle
    BY <1>6 DEF Idle, Answered
  <2>2. CASE FetchEffect(c)
    <3>1. j.v = Now(t) /\ j.phase \in {"bind", "prior"}
      BY <1>4, <1>6, <2>1, <2>2 DEF FetchEffect
    <3>2. j.v.expiry <= now
      BY <3>1 DEF Lapsed, ExpiryOf, Now
    <3> QED  BY <3>1, <3>2 DEF WithPrior, WithBusiness
  <2>3. CASE BindEffect(c)
    <3>1. k.phase = "bind" /\ SameAnswer(k, j) /\ j.phase = "prior"
      BY <1>3, <1>4, <2>1, <2>3 DEF BindEffect
    <3> QED  BY <1>3, <1>6, <3>1 DEF LapsedCall, SameAnswer, Answered, WithPrior, WithBusiness
  <2>4. CASE PriorEffect(c)
    <3>1. k.phase = "prior" /\ SameAnswer(k, j) /\ k.token = t
      BY <1>3, <1>4, <1>6, <2>4 DEF PriorEffect, SameAnswer
    <3>2. j.prior # NoPrior => rows[t] # NoRow /\ j.prior.expiry = rows[t].expiry
      BY <1>3, <1>4, <2>4, <3>1 DEF PriorEffect
    <3>3. j.v.expiry <= now
      BY <1>3, <3>1 DEF LapsedCall, SameAnswer, Answered
    <3> QED  BY <3>2, <3>3 DEF Lapsed
  <2>5. CASE UpsertEffect(c) \/ SupersedeEffect(c)
    <3>1. k.phase \in Answered /\ k.phase \in WithPrior /\ SameCall(k, j)
      BY <1>3, <1>4, <2>5 DEF UpsertEffect, SupersedeEffect, Answered, WithPrior, WithBusiness
    <3> QED  BY <1>3, <1>6, <3>1 DEF LapsedCall, SameCall, SameAnswer
  <2>6. BeginEffect(c) \/ ApplyEffect(c) \/ FailEffect(c) => j.phase \notin Answered
    BY <1>4 DEF BeginEffect, ApplyEffect, FailEffect, Idle, Answered
  <2> QED  BY <1>6, <2>2, <2>3, <2>4, <2>5, <2>6 DEF Invoked
<1>7. ASSUME NEW d \in Calls
      PROVE  LapsedCall(calls[d], t)'
  <2>1. CASE d = c
    BY <1>1, <1>4, <1>6, <2>1 DEF LapsedCall
  <2>2. CASE d # c
    <3>1. LapsedCall(calls[d], t) /\ calls'[d] = calls[d]
      BY <1>1, <2>2 DEF Lapsed
    <3> QED  BY <1>1, <3>1 DEF LapsedCall
  <2> QED  BY <2>1, <2>2
<1>8. ExpiryOf(t)' <= now'
  BY <1>1, <1>2 DEF Lapsed
<1> QED  BY <1>1, <1>5, <1>7, <1>8 DEF Lapsed

LEMMA ReadyStays ==
  ASSUME ConstantsAssumption, Inv, AckInv, AckInv', TrueInv', NEW c \in Calls, Invoked(c), NEW t \in Tokens,
         google[t].state # "none", Ready(t)
  PROVE  Ready(t)'
<1>1. google'[t].ver = google[t].ver /\ google[t].ver \in Nat
  BY InvokedFrame, VersionTyped DEF Frame, Same
<1>2. CASE seen[t] = google[t].ver
  <2>1. seen'[t] >= seen[t] /\ seen'[t] <= google'[t].ver /\ seen'[t] \in Nat
    BY InvokedOnward DEF Onward, TrueInv, SeenTrue, AckInv, AckTypes
  <2>2. seen'[t] = google'[t].ver
    BY <1>1, <1>2, <2>1
  <2> QED  BY <2>2 DEF Ready
<1>3. CASE Lapsed(t)
  BY <1>3, LapsedStays DEF Ready
<1> QED  BY <1>2, <1>3 DEF Ready

(* A refund that is heard of is until the answer about it is applied.       *)
LEMMA RevokeStays ==
  ASSUME Inv, AckInv, TrueInv, NEW c \in Calls, Invoked(c), NEW t \in Tokens, Known(t), RevokeHeard(t)
  PROVE  RevokeHeard(t)' \/ (Settled(c, t) /\ Refund(calls[c], t))
<1>1. google'[t].ver = google[t].ver /\ \A d \in Calls \ {c} : calls'[d] = calls[d]
  BY InvokedFrame DEF Frame, Same
<1>2. PICK k : k = calls[c]
  OBVIOUS
<1>3. PICK j : j = calls'[c]
  OBVIOUS
<1>4. Refund(j, t)' => RevokeHeard(t)'
  BY <1>3 DEF RevokeHeard, Refund, Carries
<1>5. ASSUME NEW n \in rtdn, n.token = t, n.type = RTDN_REVOKED
      PROVE  RevokeHeard(t)'
  <2>1. CASE n \in rtdn'
    BY <1>5, <2>1 DEF RevokeHeard, RTDN_REVOKED
  <2>2. CASE n \notin rtdn'
    <3>1. BeginEffect(c)
      BY <2>2 DEF Invoked, FetchEffect, BindEffect, PriorEffect, UpsertEffect, SupersedeEffect,
                  ApplyEffect, FailEffect
    <3>2. /\ j.phase = "fetch" /\ j.token = t /\ j.type = RTDN_REVOKED /\ j.kind = "rtdn"
      BY <1>3, <1>5, <2>2, <3>1 DEF BeginEffect
    <3>3. Refund(j, t)'
      BY <3>2 DEF Refund, Carries, Idle, Answered, RTDN_REVOKED
    <3> QED  BY <1>4, <3>3
  <2> QED  BY <2>1, <2>2
<1>6. ASSUME NEW d \in Calls, d # c, Refund(calls[d], t)
      PROVE  RevokeHeard(t)'
  <2>1. Refund(calls[d], t)'
    BY <1>1, <1>6 DEF Refund, Carries, RTDN_REVOKED
  <2> QED  BY <2>1 DEF RevokeHeard
<1>7. ASSUME Refund(k, t)
      PROVE  RevokeHeard(t)' \/ (Settled(c, t) /\ Refund(calls[c], t))
  <2>1. Carries(k, t) /\ k # Idle /\ k.token = t /\ k.kind = "rtdn" /\ k.type = RTDN_REVOKED
    BY <1>7 DEF Refund, Carries
  <2>2. Awaited(t)
    BY <1>2, <2>1 DEF Awaited
  <2>3. google[t].ver \in Nat /\ seen[t] <= google[t].ver /\ CallTrue(k)
    BY <1>2, VersionTyped DEF TrueInv, SeenTrue
  <2>4. ASSUME j # Idle, j.token = t, j.kind = k.kind, j.type = k.type,
               j.phase \in Answered => j.ver = google[t].ver
        PROVE  RevokeHeard(t)'
    <3>1. Refund(j, t)'
      BY <1>1, <2>1, <2>4 DEF Refund, Carries, RTDN_REVOKED
    <3> QED  BY <1>4, <3>1
  <2>5. CASE FetchEffect(c)
    <3>1. CASE j = Idle /\ Forgets(t, google[t].ver)
      <4>1. seen'[t] = google[t].ver
        BY <2>3, <3>1, NotedGrows DEF Forgets
      <4>2. Settled(c, t)
        BY <1>2, <2>1, <2>5, <3>1, <4>1 DEF Settled, Forgets, FetchEffect, StoreSame
      <4> QED  BY <1>2, <1>7, <4>2
    <3>2. CASE j = Idle /\ ~Forgets(t, google[t].ver)
      <4>1. j.phase \notin {"bind", "prior"}
        BY <3>2 DEF Idle
      <4> QED  BY <1>2, <1>3, <2>1, <2>5, <3>2, <4>1 DEF FetchEffect, Known
    <3>3. CASE j # Idle
      BY <1>2, <1>3, <2>1, <2>4, <2>5, <3>3 DEF FetchEffect
    <3> QED  BY <3>1, <3>2, <3>3
  <2>6. CASE BindEffect(c)
    <3>1. k.ver = google[t].ver
      BY <1>2, <2>1, <2>6 DEF Carries, BindEffect, Answered
    <3>2. CASE j = Idle /\ Forgets(t, google[t].ver)
      <4>1. seen'[t] = google[t].ver
        BY <2>3, <3>2, NotedGrows DEF Forgets
      <4>2. Settled(c, t)
        BY <1>2, <2>1, <2>6, <3>2, <4>1 DEF Settled, Forgets, BindEffect, StoreSame
      <4> QED  BY <1>2, <1>7, <4>2
    <3>3. CASE j.phase = "prior" /\ SameAnswer(k, j)
      <4>1. j # Idle
        BY <3>3 DEF Idle
      <4> QED  BY <2>1, <2>4, <3>1, <3>3, <4>1 DEF SameAnswer
    <3> QED  BY <1>2, <1>3, <2>1, <2>6, <3>1, <3>2, <3>3 DEF BindEffect
  <2>7. CASE PriorEffect(c) \/ UpsertEffect(c) \/ SupersedeEffect(c)
    <3>1. k.phase \in Answered /\ j.phase \in {"upsert", "supersede", "apply"} /\ SameAnswer(k, j)
      BY <1>2, <1>3, <2>7 DEF PriorEffect, UpsertEffect, SupersedeEffect, SameCall, Answered
    <3>2. j # Idle
      BY <3>1 DEF Idle
    <3> QED  BY <2>1, <2>4, <3>1, <3>2 DEF SameAnswer, Carries
  <2>8. CASE ApplyEffect(c)
    <3>1. k.ver = google[t].ver /\ seen[t] >= k.ver
      BY <1>2, <2>1, <2>3, <2>8 DEF Carries, ApplyEffect, Answered, CallTrue
    <3>2. seen'[t] = google[t].ver
      BY <2>3, <2>8, <3>1, SeenTyped DEF ApplyEffect
    <3> QED  BY <1>2, <1>7, <2>1, <2>8, <3>1, <3>2 DEF Settled
  <2>9. CASE FailEffect(c)
    <3>1. \E n \in rtdn' : n.token = t /\ n.type = RTDN_REVOKED
      BY <1>2, <2>1, <2>9 DEF FailEffect
    <3> QED  BY <3>1 DEF RevokeHeard, RTDN_REVOKED
  <2>10. ~BeginEffect(c)
    BY <1>2, <2>1 DEF BeginEffect
  <2> QED  BY <2>5, <2>6, <2>7, <2>8, <2>9, <2>10 DEF Invoked
<1> QED  BY <1>2, <1>5, <1>6, <1>7 DEF RevokeHeard

(* What the clock, the admin and a stutter leave as it is.                  *)
Still == UNCHANGED <<google, rtdn, queued, rows, calls, seen, crossed>> /\ now' \in Nat /\ now' >= now

LEMMA StillLapsed ==
  ASSUME ConstantsAssumption, Inv, TrueInv, Still, NEW t \in Tokens, google[t].state # "none", Lapsed(t)
  PROVE  Lapsed(t)'
<1>1. now \in Nat /\ now' \in Nat /\ now' >= now
  BY TimesTyped DEF Still
<1>2. ExpiryOf(t)' <= now'
  <2>1. ExpiryOf(t) \in Nat /\ ExpiryOf(t) <= now /\ ExpiryOf(t)' = ExpiryOf(t)
    BY LiveParsed DEF Still, Lapsed, ExpiryOf
  <2> QED  BY <1>1, <2>1
<1>3. rows'[t] # NoRow => rows'[t].expiry <= now'
  <2>1. rows[t] # NoRow => rows[t].expiry \in Nat /\ rows[t].expiry <= now
    BY HeldTyped DEF Lapsed
  <2> QED  BY <1>1, <2>1 DEF Still
<1>4. ASSUME NEW c \in Calls
      PROVE  LapsedCall(calls[c], t)'
  <2>1. PICK k : k = calls[c] /\ k = calls'[c] /\ LapsedCall(k, t)
    BY DEF Still, Lapsed
  <2>2. k.phase \in Answered /\ k.token = t =>
          /\ k.v.expiry \in Nat /\ k.v.expiry <= now
          /\ k.phase \in WithPrior /\ k.prior # NoPrior => k.prior.expiry \in Nat /\ k.prior.expiry <= now
    BY <2>1, HeldTyped DEF LapsedCall
  <2>3. k.phase \in Answered /\ k.token = t =>
          /\ k.v.expiry <= now'
          /\ k.phase \in WithPrior /\ k.prior # NoPrior => k.prior.expiry <= now'
    BY <1>1, <2>2
  <2> QED  BY <2>1, <2>3 DEF LapsedCall
<1> QED  BY <1>2, <1>3, <1>4 DEF Lapsed

(* A purchase ends when all that is known of it says so, by a switch or by  *)
(* a refund.                                                                *)
LEMMA MovedEnds ==
  ASSUME ConstantsAssumption, Inv, Inv', TrueInv, BoundInv, Moved, NEW t \in Tokens,
         google'[t] # google[t], google'[t].state = "EXPIRED"
  PROVE  Lapsed(t)' \/ Switched(t)' \/ RevokeHeard(t)'
<1>1. /\ Moves(t, google'[t]) /\ Dates(t, google'[t])
      /\ UNCHANGED <<rows, calls, now>>
  BY DEF Moved
<1>2. google[t].state \in Live
  BY <1>1 DEF Moves, MoveOf, Failed, Live
<1>3. /\ google[t].state # "none" /\ Activated(t) /\ google[t].state # "EXPIRED"
      /\ ExpiryOf(t) \in Nat /\ now \in Nat
  BY <1>2, LiveParsed, TimesTyped DEF Live, Activated, Failed
<1>4. CASE ExpiryOf(t) <= now
  <2>1. ExpiryOf(t)' <= now'
    BY <1>1 DEF Dates, ExpiryOf
  <2>2. \A e \in Nat : Bounded(t, e) => e <= now
    BY <1>3, <1>4 DEF Bounded
  <2>3. rows'[t] # NoRow => rows'[t].expiry <= now'
    BY <1>1, <2>2, HeldTyped DEF BoundInv
  <2>4. ASSUME NEW c \in Calls
        PROVE  LapsedCall(calls[c], t)'
    <3>1. PICK k : k = calls[c] /\ k = calls'[c] /\ CallBound(k)
      BY <1>1 DEF BoundInv
    <3>2. k.phase \in Answered /\ k.token = t =>
            /\ k.v.expiry <= now
            /\ k.phase \in WithPrior /\ k.prior # NoPrior => k.prior.expiry <= now
      BY <2>2, <3>1, HeldTyped DEF CallBound
    <3> QED  BY <1>1, <3>1, <3>2 DEF LapsedCall
  <2> QED  BY <2>1, <2>3, <2>4 DEF Lapsed
<1>5. CASE \E x \in Tokens : Link[x] = t /\ Activated(x)'
  BY <1>5 DEF Switched
<1>6. CASE \E n \in rtdn' : n.token = t /\ n.type = RTDN_REVOKED
  BY <1>6 DEF RevokeHeard, RTDN_REVOKED
<1> QED  BY <1>1, <1>4, <1>5, <1>6 DEF Dates

LEMMA SwitchedStays ==
  ASSUME Onward, NEW t, Switched(t)
  PROVE  Switched(t)'
BY DEF Onward, Switched

LEMMA NextOrigin ==
  ASSUME ConstantsAssumption, Inv, Inv', AckInv, AckInv', DateInv, TrueInv, TrueInv', BoundInv,
         OriginInv, [Next]_vars
  PROVE  OriginInv'
<1>1. CASE Moved
  <2>1. Onward /\ UNCHANGED <<rows, calls, now, seen, crossed>>
    BY <1>1, MovedOnward DEF Moved
  <2> SUFFICES ASSUME ~crossed', NEW t \in Tokens, google'[t].state = "EXPIRED"
               PROVE  Switched(t)' \/ Ready(t)' \/ RevokeHeard(t)'
    BY DEF OriginInv
  <2>2. CASE google'[t] = google[t]
    <3>1. Switched(t) \/ Ready(t) \/ RevokeHeard(t)
      BY <2>1, <2>2 DEF OriginInv
    <3>2. Ready(t) => Ready(t)'
      BY <2>1, <2>2 DEF Ready, Lapsed, LapsedCall, ExpiryOf
    <3>3. RevokeHeard(t) => RevokeHeard(t)'
      BY <1>1, <2>1, <2>2 DEF RevokeHeard, Refund, Carries, RTDN_REVOKED, Moved
    <3> QED  BY <2>1, <3>1, <3>2, <3>3, SwitchedStays
  <2>3. CASE google'[t] # google[t]
    BY <1>1, <2>3, MovedEnds DEF Ready
  <2> QED  BY <2>2, <2>3
<1>2. CASE Still
  <2> SUFFICES ASSUME ~crossed', NEW t \in Tokens, google'[t].state = "EXPIRED"
               PROVE  Switched(t)' \/ Ready(t)' \/ RevokeHeard(t)'
    BY DEF OriginInv
  <2>1. google[t].state = "EXPIRED" /\ (Switched(t) \/ Ready(t) \/ RevokeHeard(t))
    BY <1>2 DEF OriginInv, Still
  <2>2. Lapsed(t) => Lapsed(t)'
    BY <1>2, <2>1, StillLapsed
  <2>3. Ready(t) => Ready(t)'
    BY <1>2, <2>2 DEF Ready, Still
  <2>4. Switched(t) => Switched(t)'
    BY <1>2 DEF Still, Switched, Activated
  <2>5. RevokeHeard(t) => RevokeHeard(t)'
    BY <1>2 DEF Still, RevokeHeard, Refund, Carries, RTDN_REVOKED
  <2> QED  BY <2>1, <2>3, <2>4, <2>5
<1>3. ASSUME NEW c \in Calls, Invoked(c)
      PROVE  OriginInv'
  <2>1. Onward /\ Same
    BY <1>3, InvokedOnward, InvokedFrame DEF Frame
  <2> SUFFICES ASSUME ~crossed', NEW t \in Tokens, google'[t].state = "EXPIRED"
               PROVE  Switched(t)' \/ Ready(t)' \/ RevokeHeard(t)'
    BY DEF OriginInv
  <2>2. /\ google[t].state = "EXPIRED" /\ ~crossed /\ Known(t) /\ google[t].state # "none"
        /\ google'[t].ver = google[t].ver
    BY <2>1 DEF Same, Onward, Known
  <2>3. Switched(t) \/ Ready(t) \/ RevokeHeard(t)
    BY <2>2 DEF OriginInv
  <2>4. Ready(t) => Ready(t)'
    BY <1>3, <2>2, ReadyStays
  <2>5. RevokeHeard(t) => RevokeHeard(t)' \/ Ready(t)'
    BY <1>3, <2>2, RevokeStays DEF Settled, Ready
  <2> QED  BY <2>1, <2>3, <2>4, <2>5, SwitchedStays
<1>4. Tick \/ (\E g \in Grants : AdminGrants(g[1], g[2], g[3])) \/ UNCHANGED vars => Still
  <2>1. now \in Nat
    BY TimesTyped
  <2>2. Tick => Still
    BY <2>1 DEF Tick, Still
  <2>3. (\E g \in Grants : AdminGrants(g[1], g[2], g[3])) \/ UNCHANGED vars =>
          now' = now /\ UNCHANGED <<google, rtdn, queued, rows, calls, seen, crossed>>
    BY DEF AdminGrants, vars
  <2> QED  BY <2>1, <2>2, <2>3 DEF Still
<1> QED  BY <1>1, <1>2, <1>3, <1>4, StepIs

-----------------------------------------------------------------------------
(* A switch away from t that the server has no row of.                      *)
Unknown(t) == \E u \in Tokens : Link[u] = t /\ Activated(u) /\ rows[u] = NoRow

(* An end that will not be taken for an early lapse (play.ts:125).          *)
Unheld(p) == p = NoPrior \/ ~(p.expiry > now /\ IsEntitled(p.state, p.expiry))
Lapses(k, t) == Carries(k, t) /\ (k.phase \in WithPrior => Unheld(k.prior))
WillLapse(t) ==
  \/ RevokeHeard(t)
  \/ /\ Ready(t)
     /\ \/ \E n \in rtdn : n.token = t
        \/ t \in queued
        \/ \E c \in Calls : Lapses(calls[c], t)

(* The last purchase of a shop that was paid for.                           *)
Head(b, t) ==
  /\ t \in RowsOf(b) /\ Activated(t)
  /\ \A u \in Tokens : Link[u] = t /\ Activated(u) => rows[u] = NoRow

(* What keeps a plan: t runs to the end the shop has, or its end is to come. *)
Charged(b, t) ==
  IF google[t].state = "EXPIRED" THEN Unknown(t) \/ WillLapse(t)
  ELSE Awaited(t) \/ (Running(t) /\ biz[b].end = ExpiryOf(t))

FreeInv ==
  ~crossed =>
    \A b \in Businesses : ~granted[b] /\ OneSwitch(b) /\ EffectivePlan(b) # "free" =>
      \A t \in RowsOf(b) : Head(b, t) => Charged(b, t)

LEMMA InitFree == ASSUME Init PROVE FreeInv
BY DEF Init, FreeInv, RowsOf

(* What is over and awaited lapses, as all that is held says it is over.    *)
LEMMA LapsedLapses ==
  ASSUME Inv', NEW t \in Tokens, Awaited(t)', Lapsed(t)'
  PROVE  WillLapse(t)'
<1>1. ASSUME NEW c \in Calls, Carries(calls[c], t)'
      PROVE  Lapses(calls[c], t)'
  <2>1. PICK k : /\ k = calls'[c] /\ CallOK(k)' /\ k # Idle /\ k.token = t
                 /\ k.phase \in Answered => k.ver = google'[t].ver
                 /\ LapsedCall(k, t)'
    BY <1>1 DEF Inv, Carries, Lapsed
  <2>2. k.phase \in WithPrior /\ k.prior # NoPrior => k.prior.expiry \in Nat /\ k.prior.expiry <= now'
    BY <2>1 DEF CallOK, LapsedCall, Prior, Time, WithPrior, WithBusiness
  <2>3. now' \in Nat
    BY ConstantsAssumption DEF Inv, ConstantsAssumption
  <2>4. k.phase \in WithPrior /\ k.prior # NoPrior => ~(k.prior.expiry > now')
    BY <2>2, <2>3
  <2>5. k.phase \in WithPrior => Unheld(k.prior)'
    BY <2>4 DEF Unheld
  <2> QED  BY <1>1, <2>1, <2>5 DEF Lapses
<1>2. Ready(t)'
  BY DEF Ready
<1> QED  BY <1>1, <1>2 DEF WillLapse, Awaited

(* An end that will lapse still does, until the answer about it is applied. *)
LEMMA LapseStays ==
  ASSUME ConstantsAssumption, Inv, AckInv, AckInv', TrueInv, TrueInv', NEW c \in Calls, Invoked(c),
         ~crossed', NEW t \in Tokens, rows[t] # NoRow, google[t].state = "EXPIRED", WillLapse(t)
  PROVE  \/ WillLapse(t)'
         \/ /\ ApplyEffect(c) /\ Carries(calls[c], t)
            /\ Refund(calls[c], t) \/ Unheld(calls[c].prior)
<1>1. /\ google'[t].ver = google[t].ver /\ now' = now /\ ~crossed
      /\ \A d \in Calls \ {c} : calls'[d] = calls[d]
  BY InvokedFrame DEF Frame, Same
<1>2. Known(t) /\ google[t].state # "none"
  BY DEF Known
<1>3. CASE RevokeHeard(t)
  <2>1. RevokeHeard(t)' \/ (ApplyEffect(c) /\ Refund(calls[c], t))
    BY <1>2, <1>3, RevokeStays DEF Settled
  <2> QED  BY <2>1 DEF WillLapse, Refund
<1>4. CASE Ready(t) /\ (\/ \E n \in rtdn : n.token = t
                        \/ t \in queued
                        \/ \E d \in Calls : Lapses(calls[d], t))
  <2>1. Ready(t)'
    BY <1>2, <1>4, ReadyStays
  <2>2. PICK k : k = calls[c]
    OBVIOUS
  <2>3. PICK j : j = calls'[c]
    OBVIOUS
  <2>4. Lapses(j, t)' => WillLapse(t)'
    BY <2>1, <2>3 DEF WillLapse, Lapses, Carries, Unheld, IsEntitled
  <2>5. (\E n \in rtdn' : n.token = t) \/ t \in queued' => WillLapse(t)'
    BY <2>1 DEF WillLapse
  <2>6. ASSUME (\E n \in rtdn : n.token = t) \/ t \in queued
        PROVE  WillLapse(t)'
    <3>1. (\E n \in rtdn' : n.token = t) \/ t \in queued' \/ (BeginEffect(c) /\ j.token = t)
      BY <2>3, <2>6 DEF Invoked, BeginEffect, FetchEffect, BindEffect, PriorEffect, UpsertEffect,
                SupersedeEffect, ApplyEffect, FailEffect
    <3>2. ASSUME BeginEffect(c), j.token = t
          PROVE  Lapses(j, t)'
      <4>1. j.phase = "fetch"
        BY <2>3, <3>2 DEF BeginEffect
      <4> QED  BY <3>2, <4>1 DEF Lapses, Carries, Idle, Answered, WithPrior, WithBusiness
    <3> QED  BY <2>4, <2>5, <3>1, <3>2
  <2>7. ASSUME NEW d \in Calls, d # c, Lapses(calls[d], t)
        PROVE  WillLapse(t)'
    <3>1. Lapses(calls[d], t)'
      BY <1>1, <2>7 DEF Lapses, Carries, Unheld, IsEntitled
    <3> QED  BY <2>1, <3>1 DEF WillLapse
  <2>8. ASSUME Lapses(k, t)
        PROVE  WillLapse(t)' \/ (ApplyEffect(c) /\ Unheld(k.prior))
    <3>1. k.token = t /\ k # Idle /\ (k.phase \in Answered => k.ver = google[t].ver)
          /\ (k.phase \in WithPrior => Unheld(k.prior))
      BY <2>8 DEF Lapses, Carries
    <3>2. ASSUME j # Idle, j.token = t, j.phase \in Answered, j.ver = google[t].ver,
                 j.phase \in WithPrior => Unheld(j.prior)
          PROVE  WillLapse(t)'
      <4>1. Unheld(j.prior) => Unheld(j.prior)'
        BY <1>1 DEF Unheld, IsEntitled
      <4>2. Lapses(j, t)'
        BY <1>1, <3>2, <4>1 DEF Lapses, Carries
      <4> QED  BY <2>4, <4>2
    <3>3. CASE FetchEffect(c)
      <4>1. ~Forgets(t, google[t].ver)
        BY DEF Forgets
      <4>2. CASE j = Idle
        <5>1. j.phase \notin {"bind", "prior"}
          BY <4>2 DEF Idle
        <5>2. t \in queued'
          BY <1>2, <2>2, <2>3, <3>1, <3>3, <4>1, <5>1 DEF FetchEffect
        <5> QED  BY <2>5, <5>2
      <4>3. CASE j # Idle
        <5>1. j.phase \in {"bind", "prior"} /\ j.token = t /\ j.ver = google[t].ver
          BY <2>2, <2>3, <3>1, <3>3, <4>3 DEF FetchEffect
        <5> QED  BY <3>2, <4>3, <5>1 DEF Answered, WithPrior, WithBusiness
      <4> QED  BY <4>2, <4>3
    <3>4. CASE BindEffect(c)
      <4>1. k.phase = "bind" /\ k.ver = google[t].ver
        BY <2>2, <3>1, <3>4 DEF BindEffect, Answered
      <4>2. j.phase = "prior" /\ SameAnswer(k, j)
        BY <2>2, <2>3, <3>1, <3>4, <4>1 DEF BindEffect, Forgets
      <4>3. j # Idle
        BY <4>2 DEF Idle
      <4> QED  BY <3>1, <3>2, <4>1, <4>2, <4>3 DEF SameAnswer, Answered, WithPrior, WithBusiness
    <3>5. CASE PriorEffect(c)
      <4>1. /\ k.phase \in Answered /\ j.phase = "upsert" /\ SameAnswer(k, j)
            /\ j.prior.state = rows[t].state /\ j.prior.expiry = rows[t].expiry
        BY <2>2, <2>3, <3>1, <3>5 DEF PriorEffect, Answered
      <4>2. j # Idle
        BY <4>1 DEF Idle
      <4>3. Unheld(j.prior)
        <5>1. CASE seen[t] = google[t].ver
          <6>1. Fresh(t)
            BY <1>1, <5>1 DEF TrueInv, RowTrue
          <6>2. google[t].items # {}
            BY DEF Inv, PurchaseOK
          <6>3. Now(t).state = "EXPIRED"
            BY <6>2 DEF Now, ParseSubscriptionV2
          <6>4. j.prior.state = "EXPIRED"
            BY <4>1, <6>1, <6>3 DEF Fresh
          <6> QED  BY <6>4 DEF Unheld, IsEntitled
        <5>2. CASE Lapsed(t)
          <6>1. rows[t].expiry \in Nat /\ rows[t].expiry <= now /\ now \in Nat
            BY <5>2, HeldTyped, TimesTyped DEF Lapsed
          <6>2. ~(rows[t].expiry > now)
            BY <6>1
          <6> QED  BY <4>1, <6>2 DEF Unheld
        <5> QED  BY <1>4, <5>1, <5>2 DEF Ready
      <4> QED  BY <3>1, <3>2, <4>1, <4>2, <4>3 DEF SameAnswer, Answered
    <3>6. CASE UpsertEffect(c) \/ SupersedeEffect(c)
      <4>1. /\ k.phase \in Answered /\ k.phase \in WithPrior /\ SameCall(k, j)
            /\ j.phase \in {"supersede", "apply"}
        BY <2>2, <2>3, <3>6 DEF UpsertEffect, SupersedeEffect, Answered, WithPrior, WithBusiness
      <4>2. j # Idle
        BY <4>1 DEF Idle
      <4> QED  BY <3>1, <3>2, <4>1, <4>2 DEF SameCall, SameAnswer, Answered
    <3>7. CASE ApplyEffect(c)
      BY <2>2, <3>1, <3>7 DEF ApplyEffect, WithPrior, WithBusiness, Answered
    <3>8. CASE FailEffect(c)
      BY <2>2, <2>5, <3>1, <3>8 DEF FailEffect
    <3>9. ~BeginEffect(c)
      BY <2>2, <3>1 DEF BeginEffect
    <3> QED  BY <3>3, <3>4, <3>5, <3>6, <3>7, <3>8, <3>9 DEF Invoked
  <2> QED  BY <1>4, <2>2, <2>6, <2>7, <2>8 DEF Lapses
<1> QED  BY <1>3, <1>4 DEF WillLapse

(* A shop of one switch was one before, and so was the head of its line.    *)
LEMMA SwitchWas ==
  ASSUME Onward, ~crossed', NEW b \in Businesses, OneSwitch(b)'
  PROVE  OneSwitch(b)
<1>1. \A t \in RowsOf(b) : t \in RowsOf(b)'
  BY DEF RowsOf, Onward
<1>2. \A t \in RowsOf(b), u \in RowsOf(b) : u = t \/ Link[u] = t \/ Link[t] = u
  BY <1>1 DEF OneSwitch
<1>3. ASSUME NEW t \in RowsOf(b), NEW u \in Tokens, Link[u] = t, rows[u] # NoRow
      PROVE  u \in RowsOf(b)
  <2>1. rows'[u] # NoRow /\ rows'[u].business = rows[u].business
    BY <1>3 DEF Onward
  <2>2. u \in RowsOf(b)'
    BY <1>1, <1>3, <2>1 DEF OneSwitch
  <2> QED  BY <1>3, <2>1, <2>2 DEF RowsOf
<1> QED  BY <1>2, <1>3 DEF OneSwitch

LEMMA HeadWas ==
  ASSUME Onward, ~crossed', NEW b \in Businesses, NEW t \in Tokens, Head(b, t)', rows[t] # NoRow,
         Activated(t)
  PROVE  /\ Head(b, t) /\ t \in RowsOf(b)
         /\ Unknown(t) => Unknown(t)'
<1>1. rows'[t].business = b /\ rows'[t] # NoRow
  BY DEF Head, RowsOf
<1>2. t \in RowsOf(b)
  BY <1>1 DEF RowsOf, Onward
<1>3. \A u \in Tokens : Activated(u) => Activated(u)' /\ (rows'[u] = NoRow => rows[u] = NoRow)
  BY DEF Onward
<1>4. \A u \in Tokens : Link[u] = t /\ Activated(u)' => rows'[u] = NoRow
  BY DEF Head
<1> QED  BY <1>2, <1>3, <1>4 DEF Head, Unknown

LEMMA MovedFree ==
  ASSUME ConstantsAssumption, Inv, Inv', AckInv, TrueInv, BoundInv, FreeInv, Moved
  PROVE  FreeInv'
<1>1. Onward /\ UNCHANGED <<rows, biz, calls, now, seen, crossed, granted>>
  BY MovedOnward DEF Moved
<1> SUFFICES ASSUME ~crossed', NEW b \in Businesses, ~granted'[b], OneSwitch(b)',
                    EffectivePlan(b)' # "free", NEW t \in RowsOf(b)', Head(b, t)'
             PROVE  Charged(b, t)'
  BY DEF FreeInv
<1>2. t \in Tokens /\ rows[t] # NoRow /\ Known(t) /\ OneSwitch(b) /\ EffectivePlan(b) # "free"
  BY <1>1, SwitchWas, HeldTyped DEF RowsOf, EffectivePlan
<1>3. Activated(t)
  <2>1. Activated(t)' /\ google'[t].state # Failed
    BY DEF Head, Activated
  <2> QED  BY <1>1, <1>2, <2>1 DEF Onward, Known, Activated
<1>4. CASE google'[t] = google[t]
  <2>1. Head(b, t) /\ t \in RowsOf(b) /\ (Unknown(t) => Unknown(t)')
    BY <1>1, <1>2, <1>3, HeadWas
  <2>2. Charged(b, t)
    BY <1>1, <1>2, <2>1 DEF FreeInv
  <2>3. Awaited(t) => Awaited(t)'
    BY <1>1, <1>4 DEF Awaited, Carries, Moved
  <2>4. WillLapse(t) => WillLapse(t)'
    <3>1. RevokeHeard(t) => RevokeHeard(t)'
      BY <1>1, <1>4 DEF RevokeHeard, Refund, Carries, RTDN_REVOKED, Moved
    <3>2. Ready(t) => Ready(t)'
      BY <1>1, <1>4 DEF Ready, Lapsed, LapsedCall, ExpiryOf
    <3>3. \A c \in Calls : Lapses(calls[c], t) => Lapses(calls[c], t)'
      BY <1>1, <1>4 DEF Lapses, Carries, Unheld, IsEntitled
    <3>4. (\A n \in rtdn : n \in rtdn') /\ (\A u \in queued : u \in queued')
      BY DEF Moved
    <3> QED  BY <3>1, <3>2, <3>3, <3>4 DEF WillLapse
  <2>5. Running(t)' = Running(t) /\ ExpiryOf(t)' = ExpiryOf(t)
    BY <1>4 DEF Running, ExpiryOf
  <2> QED  BY <1>1, <1>4, <2>1, <2>2, <2>3, <2>4, <2>5 DEF Charged
<1>5. CASE google'[t] # google[t]
  <2>1. \E n \in rtdn' : n.token = t
    <3>1. Moves(t, google'[t]) /\ google'[t].state # "PENDING"
      BY <1>2, <1>5 DEF Moved, Head, Activated
    <3> QED  BY <3>1 DEF Moves
  <2>2. Awaited(t)'
    BY <2>1 DEF Awaited
  <2>3. google'[t].state = "EXPIRED" => Unknown(t)' \/ WillLapse(t)'
    <3> SUFFICES ASSUME google'[t].state = "EXPIRED"
                 PROVE  Unknown(t)' \/ WillLapse(t)'
      OBVIOUS
    <3>1. Lapsed(t)' \/ Switched(t)' \/ RevokeHeard(t)'
      BY <1>2, <1>5, MovedEnds
    <3>2. Lapsed(t)' => WillLapse(t)'
      BY <1>2, <2>2, LapsedLapses
    <3>3. Switched(t)' => Unknown(t)'
      BY DEF Switched, Unknown, Head
    <3> QED  BY <3>1, <3>2, <3>3 DEF WillLapse
  <2> QED  BY <2>2, <2>3 DEF Charged
<1> QED  BY <1>4, <1>5

LEMMA StillFree ==
  ASSUME ConstantsAssumption, Inv, Inv', TrueInv, FreeInv, Still,
         \A b \in Businesses : granted'[b] = TRUE \/ (granted'[b] = granted[b] /\ biz'[b] = biz[b])
  PROVE  FreeInv'
<1> SUFFICES ASSUME ~crossed', NEW b \in Businesses, ~granted'[b], OneSwitch(b)',
                    EffectivePlan(b)' # "free", NEW t \in RowsOf(b)', Head(b, t)'
             PROVE  Charged(b, t)'
  BY DEF FreeInv
<1>1. UNCHANGED <<google, rtdn, queued, rows, calls, seen, crossed>>
  BY DEF Still
<1>2. t \in Tokens /\ rows[t] # NoRow /\ OneSwitch(b) /\ t \in RowsOf(b) /\ Head(b, t)
  BY <1>1 DEF RowsOf, OneSwitch, Head, Activated
<1>3. biz'[b] = biz[b] /\ ~granted[b]
  OBVIOUS
<1>4. now \in Nat /\ now' \in Nat /\ now' >= now
  BY TimesTyped DEF Still
<1>5. EffectivePlan(b) # "free"
  <2>1. biz[b].end \in Nat
    BY ConstantsAssumption DEF Inv, BizType, Time
  <2>2. biz[b].end > now' => biz[b].end > now
    BY <1>4, <2>1
  <2> QED  BY <1>3, <2>2 DEF EffectivePlan
<1>6. Charged(b, t)
  BY <1>1, <1>2, <1>3, <1>5 DEF FreeInv
<1>7. Awaited(t) => Awaited(t)'
  BY <1>1 DEF Awaited, Carries
<1>8. Unknown(t) => Unknown(t)'
  BY <1>1 DEF Unknown, Activated
<1>9. WillLapse(t) => WillLapse(t)'
  <2>1. Known(t) /\ google[t].state # "none"
    BY <1>2, HeldTyped DEF Known
  <2>2. RevokeHeard(t) => RevokeHeard(t)'
    BY <1>1 DEF RevokeHeard, Refund, Carries, RTDN_REVOKED
  <2>3. Ready(t) => Ready(t)'
    <3>1. Lapsed(t) => Lapsed(t)'
      BY <2>1, <1>2, StillLapsed
    <3> QED  BY <1>1, <3>1 DEF Ready
  <2>4. ASSUME NEW c \in Calls, Lapses(calls[c], t)
        PROVE  Lapses(calls[c], t)'
    <3>1. PICK k : k = calls[c] /\ k = calls'[c] /\ Lapses(k, t)
      BY <1>1, <2>4
    <3>2. ASSUME k.phase \in WithPrior, k.prior # NoPrior
          PROVE  Unheld(k.prior)'
      <4>1. k.prior.expiry \in Nat
        BY <3>1, <3>2, HeldTyped DEF WithPrior, WithBusiness
      <4>2. ~(k.prior.expiry > now /\ IsEntitled(k.prior.state, k.prior.expiry))
        BY <3>1, <3>2 DEF Lapses, Unheld
      <4>3. k.prior.expiry > now' => k.prior.expiry > now
        BY <1>4, <4>1
      <4> QED  BY <4>2, <4>3 DEF Unheld, IsEntitled
    <3>3. k.phase \in WithPrior => Unheld(k.prior)'
      BY <3>2 DEF Unheld
    <3> QED  BY <1>1, <3>1, <3>3 DEF Lapses, Carries
  <2> QED  BY <1>1, <2>2, <2>3, <2>4 DEF WillLapse
<1> QED  BY <1>1, <1>3, <1>6, <1>7, <1>8, <1>9 DEF Charged, Running, ExpiryOf

(* Every step of an invocation but the last one.                           *)
LEMMA QuietFree ==
  ASSUME ConstantsAssumption, Inv, Inv', AckInv, AckInv', LineInv, TrueInv, TrueInv', OriginInv, FreeInv,
         NEW c \in Calls, Invoked(c), UNCHANGED <<biz, granted>>, ~ApplyEffect(c)
  PROVE  FreeInv'
<1>1. Onward /\ Same /\ now' = now
  BY InvokedOnward, InvokedFrame DEF Frame
<1> SUFFICES ASSUME ~crossed', NEW b \in Businesses, ~granted'[b], OneSwitch(b)',
                    EffectivePlan(b)' # "free", NEW t \in RowsOf(b)', Head(b, t)'
             PROVE  Charged(b, t)'
  BY DEF FreeInv
<1>2. /\ t \in Tokens /\ rows'[t] # NoRow /\ rows'[t].business = b /\ ~crossed /\ OneSwitch(b)
      /\ EffectivePlan(b) # "free" /\ ~granted[b]
  BY <1>1, SwitchWas DEF RowsOf, Onward, EffectivePlan
<1>3. /\ Activated(t) /\ google'[t].state = google[t].state /\ google'[t].ver = google[t].ver
      /\ (Running(t)' <=> Running(t)) /\ ExpiryOf(t)' = ExpiryOf(t)
  BY <1>1, <1>2, SameFacts DEF Head, Same
<1>4. Known(t) /\ google[t].state # "none"
  BY <1>3 DEF Activated, Known
<1>5. Awaited(t) => Awaited(t)'
  <2>1. Settled(c, t) => rows' = rows /\ rows[t] = NoRow
    BY DEF Settled
  <2> QED  BY <1>2, <1>4, <2>1, ServerAwaits
<1>6. CASE rows[t] # NoRow
  <2>1. Head(b, t) /\ t \in RowsOf(b) /\ (Unknown(t) => Unknown(t)')
    BY <1>1, <1>2, <1>3, <1>6, HeadWas
  <2>2. Charged(b, t)
    BY <1>2, <2>1 DEF FreeInv
  <2>3. google[t].state = "EXPIRED" /\ WillLapse(t) => WillLapse(t)'
    BY <1>2, <1>6, LapseStays
  <2> QED  BY <1>3, <1>5, <2>1, <2>2, <2>3 DEF Charged
<1>7. CASE rows[t] = NoRow
  <2>1. UpsertEffect(c) /\ t = calls[c].token
    <3>1. ~SupersedeEffect(c)
      BY <1>2, <1>7 DEF SupersedeEffect
    <3>2. rows' # rows
      BY <1>2, <1>7
    <3>3. UpsertEffect(c)
      BY <3>1, <3>2 DEF Invoked, BeginEffect, FetchEffect, BindEffect, PriorEffect, FailEffect, StoreSame
    <3> QED  BY <1>2, <1>7, <3>3 DEF UpsertEffect
  <2>2. PICK k : k = calls[c] /\ k.token = t /\ k.phase = "upsert" /\ k # Idle /\ CallTrue(k)
    BY <2>1 DEF UpsertEffect, Idle, TrueInv
  <2>3. k.ver \in Nat /\ k.ver <= google[t].ver /\ google[t].ver \in Nat /\ ~(k.ver < seen[t])
    BY <1>2, <2>1, <2>2, CallVersion DEF UpsertEffect, Overtaken, Answered
  <2>4. seen[t] = google[t].ver => k.ver = google[t].ver
    BY <2>3
  <2>5. Awaited(t)'
    <3>1. Awaited(t) \/ seen[t] = google[t].ver
      BY <1>2, <1>4 DEF TrueInv, SeenTrue
    <3>2. k.ver = google[t].ver => Awaited(t)
      BY <2>2 DEF Awaited, Carries
    <3> QED  BY <1>5, <2>4, <3>1, <3>2
  <2>6. ASSUME google[t].state = "EXPIRED"
        PROVE  Unknown(t)' \/ WillLapse(t)'
    <3>1. Switched(t) \/ Ready(t) \/ RevokeHeard(t)
      BY <1>2, <2>6 DEF OriginInv
    <3>2. CASE Switched(t)
      <4>1. Switched(t)'
        BY <1>1, <3>2, SwitchedStays
      <4> QED  BY <4>1 DEF Switched, Unknown, Head
    <3>3. CASE RevokeHeard(t)
      <4>1. ~Settled(c, t)
        BY <1>2, <1>7 DEF Settled
      <4> QED  BY <1>2, <1>4, <3>3, <4>1, RevokeStays DEF WillLapse
    <3>4. CASE Lapsed(t)
      <4>1. Lapsed(t)'
        BY <1>2, <1>4, <3>4, LapsedStays
      <4> QED  BY <1>2, <2>5, <4>1, LapsedLapses
    <3>5. CASE seen[t] = google[t].ver
      <4>1. Ready(t)'
        BY <1>2, <1>4, <3>5, ReadyStays DEF Ready
      <4>2. PICK j : j = calls'[c] /\ SameCall(k, j) /\ j # Idle
        BY <2>1, <2>2 DEF UpsertEffect, Idle
      <4>3. k.prior = NoPrior
        BY <1>7, <2>2 DEF CallTrue, WithPrior, WithBusiness, Answered
      <4>4. Lapses(j, t)'
        BY <1>3, <2>2, <2>4, <3>5, <4>2, <4>3 DEF Lapses, Carries, SameCall, SameAnswer, Unheld
      <4>5. Lapses(calls[c], t)'
        BY <4>2, <4>4 DEF Lapses, Carries, Unheld, IsEntitled
      <4> QED  BY <4>1, <4>5 DEF WillLapse
    <3> QED  BY <3>1, <3>2, <3>3, <3>4, <3>5 DEF Ready
  <2> QED  BY <1>3, <2>5, <2>6 DEF Charged
<1> QED  BY <1>6, <1>7

(* A plan that is no admin's is Play's.                                     *)
LEMMA NoGrant ==
  ASSUME StampInv, NEW b \in Businesses, ~granted[b]
  PROVE  ~ManualGrant(b)
BY DEF StampInv, ManualGrant, PlayWritten

(* The newest answer about the head of a line is applied: the shop has its  *)
(* end, or nothing.                                                         *)
LEMMA HeadApplied ==
  ASSUME ConstantsAssumption, Inv, TrueInv, StampInv, MarkInv, ~crossed,
         NEW c \in Calls, NEW k, k = calls[c], k.phase = "apply", k # Idle,
         NEW b \in Businesses, b = k.business,
         NEW t \in Tokens, t = k.token, k.ver = google[t].ver, seen[t] = google[t].ver,
         OneSwitch(b), Head(b, t),
         granted'[b] <=> granted[b] /\ Applied(b, k.v).plan = biz[b].plan /\ ~Stamps(b, k.v),
         ~granted'[b], Applied(b, k.v).plan # "free"
  PROVE  /\ Running(t) /\ google[t].state # "EXPIRED"
         /\ Applied(b, k.v).end = ExpiryOf(t)
<1>1. PICK v : v = k.v /\ v = Now(t)
  BY DEF TrueInv, CallTrue, Answered
<1>2. /\ v.state = google[t].state /\ v.expiry = ExpiryOf(t) /\ t \in RowsOf(b) /\ Activated(t)
      /\ v.state \notin {"PENDING", Failed}
  <2>1. t \in RowsOf(b) /\ Activated(t)
    BY DEF Head
  <2>2. google[t].items # {}
    BY <2>1 DEF Inv, PurchaseOK, Activated
  <2>3. Now(t).state = google[t].state
    BY <2>2 DEF Now, ParseSubscriptionV2
  <2>4. v.expiry = ExpiryOf(t)
    BY <1>1 DEF Now, ExpiryOf
  <2> QED  BY <1>1, <2>1, <2>3, <2>4 DEF Activated
<1>3. ManualGrant(b) /\ ~Stamps(b, v) => Applied(b, v).plan # biz[b].plan
  BY <1>1, NoGrant
<1>4. CASE IsEntitled(v.state, v.expiry)
  <2>1. Stamps(b, v)
    <3> SUFFICES ASSUME ~Stamps(b, v)
                 PROVE  FALSE
      OBVIOUS
    <3>1. KeptOverCanceled(b, v) /\ ManualGrant(b)
      BY <1>4 DEF Stamps, KeptOverCanceled
    <3>2. Applied(b, v).plan = biz[b].plan
      BY <1>4, <3>1, AppliedIs
    <3> QED  BY <1>3, <3>1, <3>2
  <2>2. Applied(b, v).end = v.expiry
    BY <2>1, AppliedIs
  <2> QED  BY <1>1, <1>2, <1>4, <2>2 DEF IsEntitled, Running
<1>5. CASE ~IsEntitled(v.state, v.expiry)
  <2>1. ~Stamps(b, v)
    BY <1>5 DEF Stamps
  <2>2. OtherEntitled(b, v) \/ ManualGrant(b)
    BY <1>1, <1>2, <1>5 DEF Applied
  <2>3. Applied(b, v).plan = biz[b].plan
    BY <1>1, <1>5, <2>1, AppliedIs
  <2>4. PICK x \in RowsOf(b) :
          /\ rows[x].expiry > now /\ rows[x].state \in {"ACTIVE", "IN_GRACE_PERIOD", "CANCELED"}
          /\ rows[x].replacedBy = NoToken
          /\ ~(rows[x].product = v.product /\ rows[x].state = v.state /\ rows[x].expiry = v.expiry)
    BY <1>3, <2>1, <2>2, <2>3 DEF OtherEntitled
  <2>5. x # t
    <3>1. Fresh(t)
      BY <1>2 DEF TrueInv, RowTrue, RowsOf
    <3> QED  BY <1>1, <2>4, <3>1 DEF Fresh
  <2>6. /\ x \in Tokens /\ rows[x] # NoRow /\ rows[x].business = b /\ Activated(x)
    <3>1. x \in Tokens /\ rows[x] # NoRow /\ rows[x].business = b
      BY DEF RowsOf
    <3>2. Known(x) /\ google[x].state # Failed
      BY <2>4, <3>1 DEF TrueInv, RowTrue, Earlier, Failed
    <3> QED  BY <3>1, <3>2 DEF Known, Activated
  <2>7. Link[x] = t \/ Link[t] = x
    BY <1>2, <2>5 DEF OneSwitch
  <2>8. Link[x] # t
    BY <2>6 DEF Head
  <2>9. rows[x].replacedBy # NoToken
    <3>1. Supersedes(k)
      BY <1>1, <1>2, <2>6, <2>7, <2>8 DEF Supersedes, ReplacedToken, Failed, ConstantsAssumption
    <3> QED  BY <2>6, <2>7, <2>8, <3>1 DEF MarkInv, Marked
  <2> QED  BY <2>4, <2>9
<1> QED  BY <1>4, <1>5

(* What keeps the plan of a shop still does, if the step leaves the plan    *)
(* alone and does not settle the head of its line.                          *)
LEMMA ChargedStays ==
  ASSUME ConstantsAssumption, Inv, AckInv, AckInv', TrueInv, TrueInv', NEW c \in Calls, Invoked(c),
         ~crossed', rows' = rows, NEW b \in Businesses, biz'[b].end = biz[b].end,
         NEW t \in RowsOf(b), Activated(t), Charged(b, t),
         ~(ApplyEffect(c) /\ Carries(calls[c], t))
  PROVE  Charged(b, t)'
<1>1. t \in Tokens /\ rows[t] # NoRow /\ Known(t) /\ google[t].state # "none"
  BY DEF RowsOf, Activated, Known
<1>2. Onward /\ Same
  BY InvokedOnward, InvokedFrame DEF Frame
<1>3. /\ google'[t].state = google[t].state /\ (Running(t)' <=> Running(t))
      /\ ExpiryOf(t)' = ExpiryOf(t)
  BY <1>1, <1>2, SameFacts DEF Same
<1>4. Awaited(t) => Awaited(t)'
  <2>1. ApplyEffect(c) => calls[c] # Idle
    BY DEF ApplyEffect, Idle
  <2>2. ~Settled(c, t)
    BY <1>1, <2>1 DEF Settled, Carries
  <2> QED  BY <1>1, <2>2, ServerAwaits
<1>5. google[t].state = "EXPIRED" /\ WillLapse(t) => WillLapse(t)'
  BY <1>1, LapseStays
<1>6. Unknown(t) => Unknown(t)'
  BY <1>2 DEF Unknown, Onward
<1> QED  BY <1>3, <1>4, <1>5, <1>6 DEF Charged

LEMMA ApplyFree ==
  ASSUME ConstantsAssumption, Inv, Inv', AckInv, AckInv', LineInv, TrueInv, TrueInv', StampInv,
         MarkInv, OriginInv, FreeInv, NEW c \in Calls, ApplyEffect(c)
  PROVE  FreeInv'
<1>1. Onward /\ Same /\ now' = now /\ rows' = rows /\ seen' = seen /\ Invoked(c)
  BY InvokedOnward DEF ApplyEffect, Frame, Invoked
<1> SUFFICES ASSUME ~crossed', NEW b \in Businesses, ~granted'[b], OneSwitch(b)',
                    EffectivePlan(b)' # "free", NEW t \in RowsOf(b)', Head(b, t)'
             PROVE  Charged(b, t)'
  BY DEF FreeInv
<1>2. /\ t \in Tokens /\ rows[t] # NoRow /\ rows[t].business = b /\ ~crossed /\ OneSwitch(b)
      /\ t \in RowsOf(b)
  BY <1>1, SwitchWas DEF RowsOf, Onward
<1>3. /\ Activated(t) /\ google'[t].state = google[t].state /\ google'[t].ver = google[t].ver
      /\ (Running(t)' <=> Running(t)) /\ ExpiryOf(t)' = ExpiryOf(t)
  BY <1>1, <1>2, SameFacts DEF Head, Same
<1>4. Known(t) /\ google[t].state # "none" /\ Head(b, t)
  BY <1>1, <1>2, <1>3, HeadWas DEF Activated, Known
<1>5. PICK k : /\ k = calls[c] /\ k.business \in Businesses /\ k.token \in Tokens /\ CallTrue(k)
               /\ k.phase = "apply" /\ k # Idle
  <2>1. calls[c].phase = "apply" /\ calls[c] # Idle
    BY DEF ApplyEffect, Idle
  <2> QED  BY <2>1 DEF Inv, CallOK, WithBusiness, Answered, TrueInv
<1>6. /\ Earlier(k.token, k.v.state) /\ Known(k.token) /\ k.ver <= google[k.token].ver
      /\ rows[k.token] # NoRow /\ rows[k.token].business = k.business /\ seen[k.token] >= k.ver
      /\ k.ver \in Nat /\ seen[k.token] \in Nat
  BY <1>2, <1>5, CallVersion, SeenTyped DEF CallTrue, Answered
<1>7. CASE ~(DecideApply(k.v, k.prior, k.type) /\ k.business = b)
  <2>1. biz'[b] = biz[b] /\ granted'[b] = granted[b]
    <3>1. CASE DecideApply(k.v, k.prior, k.type)
      <4>1. PICK s \in Businesses : s # b /\ \E v : ApplyPlayPurchase(s, v)
        BY <1>5, <1>7, <3>1 DEF ApplyEffect
      <4>2. stamp \in [Businesses -> {stamp[x] : x \in Businesses}]
        BY DEF StampInv
      <4>3. \A x \in Businesses \ {s} : /\ biz'[x] = biz[x] /\ stamp'[x] = stamp[x]
                                         /\ granted'[x] = granted[x]
        BY <4>1, <4>2, ApplyWrites
      <4> QED  BY <4>1, <4>3
    <3>2. CASE ~DecideApply(k.v, k.prior, k.type)
      BY <1>5, <3>2 DEF ApplyEffect
    <3> QED  BY <3>1, <3>2
  <2>2. ~granted[b] /\ EffectivePlan(b) # "free"
    BY <1>1, <2>1 DEF EffectivePlan
  <2>3. Charged(b, t)
    BY <1>2, <1>4, <2>2 DEF FreeInv
  <2>4. CASE Carries(k, t)
    <3>1. k.token = t /\ k.ver = google[t].ver /\ k.v = Now(t) /\ k.business = b
      BY <1>2, <1>5, <1>6, <2>4 DEF Carries, Answered, CallTrue
    <3>2. EarlyLapse(k.v, k.prior, k.type)
      <4> SUFFICES ASSUME k.prior # NoPrior, k.prior.replacedBy # NoToken
                   PROVE  FALSE
        BY <1>7, <3>1 DEF DecideApply
      <4>1. rows[t].replacedBy # NoToken
        BY <1>5, <3>1 DEF CallTrue, WithPrior, WithBusiness, Answered
      <4>2. PICK u \in Tokens : Link[u] = t /\ Activated(u) /\ rows[u] # NoRow
        BY <1>2, <4>1 DEF TrueInv, RowTrue
      <4> QED  BY <1>4, <4>2 DEF Head
    <3>3. google[t].items # {}
      BY <1>2, <1>4 DEF Inv, PurchaseOK
    <3>4. google[t].state = "EXPIRED"
      <4>1. Now(t).state = google[t].state
        BY <3>3 DEF Now, ParseSubscriptionV2
      <4> QED  BY <3>1, <3>2, <4>1 DEF EarlyLapse
    <3>5. ~Refund(k, t) /\ ~Unheld(k.prior)
      BY <3>2 DEF EarlyLapse, Refund, Unheld
    <3>6. WillLapse(t) => WillLapse(t)'
      BY <1>1, <1>2, <1>5, <3>4, <3>5, LapseStays
    <3>7. Unknown(t) => Unknown(t)'
      BY <1>1 DEF Unknown, Onward
    <3> QED  BY <1>3, <2>3, <3>4, <3>6, <3>7 DEF Charged
  <2>5. CASE ~Carries(k, t)
    BY <1>1, <1>2, <1>3, <1>5, <2>1, <2>3, <2>5, ChargedStays
  <2> QED  BY <2>4, <2>5
<1>8. CASE DecideApply(k.v, k.prior, k.type) /\ k.business = b
  <2>1. ApplyPlayPurchase(b, k.v) /\ ~Overtaken(k)
    <3>1. ApplyPlayPurchase(b, k.v)
      BY <1>5, <1>8 DEF ApplyEffect
    <3>2. crossed' = (crossed \/ Overtaken(k))
      BY <1>5, <1>8 DEF ApplyEffect
    <3> QED  BY <3>1, <3>2
  <2>a. stamp \in [Businesses -> {stamp[x] : x \in Businesses}]
    BY DEF StampInv
  <2>2. /\ biz'[b] = Applied(b, k.v)
        /\ granted'[b] <=> granted[b] /\ Applied(b, k.v).plan = biz[b].plan /\ ~Stamps(b, k.v)
    BY <2>1, <2>a, ApplyWrites
  <2>3. k.ver = seen[k.token]
    BY <1>6, <2>1 DEF Overtaken
  <2>4. Applied(b, k.v).plan # "free"
    BY <2>2 DEF EffectivePlan
  <2>5. k.token = t \/ Link[k.token] = t \/ Link[t] = k.token
    BY <1>2, <1>5, <1>6, <1>8 DEF OneSwitch, RowsOf
  <2>6. CASE Link[t] = k.token
    <3>1. t \in Later(k.token)
      BY <1>2, <1>5, <2>6, LinkedLater
    <3>2. rows[t].state \notin {"PENDING", Failed}
      BY <1>2, <1>3 DEF TrueInv, RowTrue, Earlier, Activated
    <3>3. k.prior = NoPrior \/ k.prior.replacedBy = NoToken
      BY <1>8 DEF DecideApply
    <3> QED  BY <1>2, <2>1, <3>1, <3>2, <3>3 DEF Overtaken, Failed
  <2>7. CASE k.token = t /\ k.ver = google[t].ver
    <3>1. seen[t] = google[t].ver
      BY <2>3, <2>7
    <3>2. /\ Running(t) /\ google[t].state # "EXPIRED"
          /\ Applied(b, k.v).end = ExpiryOf(t)
      BY <1>2, <1>4, <1>5, <1>8, <2>2, <2>4, <2>7, <3>1, HeadApplied
    <3> QED  BY <1>3, <2>2, <3>2 DEF Charged
  <2>8. CASE k.token = t /\ k.ver # google[t].ver
    <3>1. Awaited(t) /\ seen[t] # google[t].ver
      BY <1>2, <1>4, <2>3, <2>8 DEF TrueInv, SeenTrue
    <3>2. ~Settled(c, t)
      BY <1>1, <1>2, <3>1 DEF Settled
    <3>3. Awaited(t)'
      BY <1>1, <1>2, <1>4, <3>1, <3>2, ServerAwaits
    <3>4. ASSUME google[t].state = "EXPIRED"
          PROVE  Unknown(t)' \/ WillLapse(t)'
      <4>1. Switched(t) \/ Lapsed(t) \/ RevokeHeard(t)
        BY <1>2, <3>1, <3>4 DEF OriginInv, Ready
      <4>2. CASE Switched(t)
        <5>1. Switched(t)'
          BY <1>1, <4>2, SwitchedStays
        <5> QED  BY <5>1 DEF Switched, Unknown, Head
      <4>3. CASE RevokeHeard(t)
        BY <1>1, <1>2, <1>4, <3>2, <4>3, RevokeStays DEF WillLapse
      <4>4. CASE Lapsed(t)
        <5>1. Lapsed(t)'
          BY <1>1, <1>2, <1>4, <4>4, LapsedStays
        <5> QED  BY <1>2, <3>3, <5>1, LapsedLapses
      <4> QED  BY <4>1, <4>2, <4>3, <4>4
    <3> QED  BY <1>3, <3>3, <3>4 DEF Charged
  <2>9. CASE Link[k.token] = t /\ k.token # t
    <3>1. k.v.state = Failed
      <4>1. ~Activated(k.token)
        BY <1>4, <1>5, <1>6, <2>9 DEF Head
      <4> QED  BY <1>6, <4>1 DEF Known, Activated, Earlier
    <3>2. ~IsEntitled(k.v.state, k.v.expiry) /\ ~Stamps(b, k.v)
      BY <3>1 DEF IsEntitled, Stamps, Failed
    <3>3. Applied(b, k.v).plan = biz[b].plan /\ Applied(b, k.v).end = biz[b].end
      BY <2>4, <3>2, AppliedIs
    <3>4. ~granted[b] /\ EffectivePlan(b) # "free"
      BY <1>1, <2>2, <3>2, <3>3 DEF EffectivePlan
    <3>5. Charged(b, t)
      BY <1>2, <1>4, <3>4 DEF FreeInv
    <3>6. ~Carries(calls[c], t)
      BY <1>5, <2>9 DEF Carries
    <3> QED  BY <1>1, <1>2, <1>3, <2>2, <3>3, <3>5, <3>6, ChargedStays
  <2> QED  BY <2>5, <2>6, <2>7, <2>8, <2>9
<1> QED  BY <1>7, <1>8

LEMMA NextFree ==
  ASSUME ConstantsAssumption, Inv, Inv', AckInv, AckInv', LineInv, DateInv, TrueInv, TrueInv',
         StampInv, BoundInv, MarkInv, OriginInv, FreeInv, [Next]_vars
  PROVE  FreeInv'
<1>1. ASSUME Still, \A b \in Businesses : granted'[b] = TRUE \/ (granted'[b] = granted[b] /\ biz'[b] = biz[b])
      PROVE  FreeInv'
  BY <1>1, StillFree
<1>2. ASSUME NEW g \in Grants, AdminGrants(g[1], g[2], g[3])
      PROVE  FreeInv'
  <2>1. /\ granted' = [granted EXCEPT ![g[1]] = TRUE] /\ \E r : biz' = [biz EXCEPT ![g[1]] = r]
        /\ UNCHANGED <<google, rtdn, queued, rows, calls, seen, crossed, now>>
    BY <1>2 DEF AdminGrants
  <2>2. \A b \in Businesses : granted'[b] = TRUE \/ (granted'[b] = granted[b] /\ biz'[b] = biz[b])
    BY <2>1 DEF Inv
  <2>3. Still
    BY <2>1, TimesTyped DEF Still
  <2> QED  BY <1>1, <2>2, <2>3
<1>3. CASE Tick \/ UNCHANGED vars
  <2>1. UNCHANGED <<google, rtdn, queued, rows, biz, granted, calls, seen, crossed>>
    BY <1>3 DEF Tick, vars
  <2>2. now' = now + 1 \/ now' = now
    BY <1>3 DEF Tick, vars
  <2>3. Still
    BY <2>1, <2>2, TimesTyped DEF Still
  <2> QED  BY <1>1, <2>1, <2>3
<1>4. ASSUME NEW c \in Calls, Invoked(c)
      PROVE  FreeInv'
  <2>1. CASE ApplyEffect(c)
    BY <2>1, ApplyFree
  <2>2. CASE ~ApplyEffect(c)
    <3>1. UNCHANGED <<biz, granted>>
      BY <1>4, <2>2 DEF Invoked, BeginEffect, FetchEffect, BindEffect, PriorEffect, UpsertEffect,
                        SupersedeEffect, FailEffect, StoreSame
    <3> QED  BY <1>4, <2>2, <3>1, QuietFree
  <2> QED  BY <2>1, <2>2
<1> QED  BY <1>2, <1>3, <1>4, StepIs, MovedFree

-----------------------------------------------------------------------------
FreePlanInv == BoundInv /\ MarkInv /\ PaidInv /\ OriginInv /\ FreeInv

LEMMA FreePlanHolds == Spec => []FreePlanInv
<1>1. Init => FreePlanInv
  BY InitBound, InitMark, InitPaid, InitOrigin, InitFree DEF FreePlanInv
<1>2. PlanInv /\ PlanInv' /\ FreePlanInv /\ [Next]_vars => FreePlanInv'
  <2> SUFFICES ASSUME PlanInv, PlanInv', FreePlanInv, [Next]_vars
               PROVE  FreePlanInv'
    OBVIOUS
  <2> USE ConstantsAssumption DEF PlanInv, FreePlanInv
  <2>1. BoundInv' /\ MarkInv' /\ PaidInv'
    BY NextBound, NextMark, NextPaid
  <2>2. OriginInv'
    BY NextOrigin
  <2>3. FreeInv'
    BY NextFree
  <2> QED  BY <2>1, <2>2, <2>3
<1> QED  BY <1>1, <1>2, PlanHolds, PTL DEF Spec

(* A shop that had a purchase and switched once at most has a head.         *)
LEMMA HeadExists ==
  ASSUME ConstantsAssumption, LineInv, NEW b \in Businesses, OneSwitch(b),
         NEW t \in RowsOf(b), Activated(t)
  PROVE  \E h \in RowsOf(b) : Head(b, h)
<1>1. CASE \E u \in Tokens : Link[u] = t /\ Activated(u) /\ rows[u] # NoRow
  <2>1. PICK u \in RowsOf(b) : Link[u] = t /\ Activated(u)
    BY <1>1 DEF OneSwitch
  <2>2. ASSUME NEW w \in Tokens, Link[w] = u, Activated(w), rows[w] # NoRow
        PROVE  FALSE
    <3>1. w \in RowsOf(b) /\ u \in Tokens /\ t \in Tokens
      BY <2>2 DEF OneSwitch, RowsOf
    <3>2. w = t \/ Link[w] = t \/ Link[t] = w
      BY <3>1 DEF OneSwitch
    <3>3. u # t
      BY <2>1, <3>1 DEF ConstantsAssumption
    <3>4. PICK C \in SUBSET Tokens : C = {t, u, w}
      BY <3>1
    <3>5. \A x \in C : Link[x] \in C
      BY <2>1, <2>2, <3>2, <3>3, <3>4
    <3>6. google[t].state = "none"
      BY <3>4, <3>5 DEF LineInv
    <3> QED  BY <3>6 DEF Activated
  <2>3. Head(b, u)
    BY <2>1, <2>2 DEF Head, RowsOf
  <2> QED  BY <2>3
<1>2. CASE ~\E u \in Tokens : Link[u] = t /\ Activated(u) /\ rows[u] # NoRow
  <2>1. Head(b, t)
    BY <1>2 DEF Head
  <2> QED  BY <2>1
<1> QED  BY <1>1, <1>2

(* When all is quiet no plan outlives what was paid for it, but for the     *)
(* exceptions above (`crossed', a grant): NoFreePlan.                       *)
(* The head of the line was charged for it, or nothing was, and what is     *)
(* over has lapsed.                                                         *)
THEOREM NothingForFree == Spec => []NoFreePlan
<1>1. PlanInv /\ FreePlanInv => NoFreePlan
  <2> SUFFICES ASSUME PlanInv, FreePlanInv, Quiet, ~crossed,
                      \A t \in Tokens : google[t].state # "none" => rows[t] # NoRow,
                      NEW b \in Businesses, ~granted[b], OneSwitch(b),
                      \A t \in RowsOf(b) : ~PaidAt(t), EffectivePlan(b) # "free"
               PROVE  FALSE
    BY DEF NoFreePlan
  <2> USE ConstantsAssumption DEF PlanInv, FreePlanInv
  <2>1. biz[b].plan # "free" /\ (biz[b].end = 0 \/ biz[b].end > now)
    BY DEF EffectivePlan
  <2>2. PICK t \in RowsOf(b) : Head(b, t)
    <3>1. \E u \in RowsOf(b) : Activated(u)
      BY <2>1 DEF PaidInv
    <3> QED  BY <3>1, HeadExists
  <2>3. t \in Tokens /\ Activated(t) /\ google[t].state # "none" /\ Charged(b, t)
    BY <2>2 DEF FreeInv, Head, RowsOf, Activated
  <2>4. ~Awaited(t) /\ ~WillLapse(t)
    BY DEF Quiet, Awaited, Carries, WillLapse, RevokeHeard, Refund, Lapses
  <2>5. ~Unknown(t)
    BY DEF Unknown, Activated
  <2>6. Running(t) /\ biz[b].end = ExpiryOf(t)
    BY <2>3, <2>4, <2>5 DEF Charged
  <2>7. ~(ExpiryOf(t) > now)
    BY <2>6 DEF PaidAt
  <2>8. ExpiryOf(t) \in Nat /\ ExpiryOf(t) > 0
    BY <2>3, LiveParsed DEF DateInv
  <2> QED  BY <2>1, <2>6, <2>7, <2>8
<1> QED  BY <1>1, PlanHolds, FreePlanHolds, PTL
=============================================================================
