------------------------- MODULE PushDeliveryProofs -------------------------
(***************************************************************************)
(* Proofs about PushDelivery, for any phones, logins, businesses, scripts  *)
(* and bounds.  The inductive invariant Inv has three parts: the devices   *)
(* table names a token once, on a row of its phone, and only tokens that   *)
(* were issued (TableOK); what has landed of a phone's present session is  *)
(* on its row (PhoneOK); and an invocation has read, tried or shown what   *)
(* the phones that stayed registered since the trigger need (AlertOK).     *)
(***************************************************************************)
EXTENDS PushDelivery, SequenceTheorems, TLAPS

Kinds == {"presence", "staff", "shopper", "clear"}
WriteType == [kind : Kinds, phone : Phones, login : Logins, token : Tokens \cup {NoToken}]
RowType == [token : Tokens \cup {NoToken}, auth : Logins \cup {NoLogin},
            user : Logins \cup {NoLogin}]
Phases == {"read", "mail", "send", "stamp", "done"}
AlertType == [record : Pushes \cup {Invite}, phase : Phases, tokens : SUBSET Tokens,
              tried : SUBSET Tokens, dead : SUBSET Tokens, thrown : BOOLEAN,
              shown : SUBSET Phones, mailed : BOOLEAN, stamped : BOOLEAN, faulty : BOOLEAN,
              steady : SUBSET Phones, known : SUBSET Tokens]

(* Firebase has given this token to its phone; it is the present one or    *)
(* an older one, which is dead for good.                                   *)
Issued(t) == t \in Tokens /\ t[2] <= serial[t[1]]
Outdated(t) == t \in Tokens /\ t[2] < serial[t[1]]

SessionsOK ==
  /\ session \in [Phones -> [kind : {"out", "staff", "shopper"}, login : Logins \cup {NoLogin}]]
  /\ \A p \in Phones : session[p].kind # "out" => session[p].login \in Logins
  /\ moves \in 0 .. MaxMoves
  /\ serial \in [Phones -> 0 .. moves]
  /\ landed \in [Phones -> SUBSET Kinds]
  /\ script \in Scripts

WriteOK(w) ==
  /\ w \in WriteType
  /\ w.kind \in {"staff", "shopper"} => Issued(w.token) /\ w.token[1] = w.phone

WritesOK == \A w \in writes : WriteOK(w)

(* A business row is only ever written by people of that business.         *)
RowOK(k) ==
  /\ rows[k].token # NoToken =>
       /\ Issued(rows[k].token) /\ rows[k].token[1] = k[1]
       /\ rows[k].auth \in Logins
       /\ \A j \in RowKeys \ {k} : rows[j].token # rows[k].token
  /\ k[2] \in Businesses /\ rows[k].auth \in Logins => Employer[rows[k].auth] = k[2]
  /\ rows[k].token \notin pruned

TableOK ==
  /\ rows \in [RowKeys -> RowType]
  /\ \A k \in RowKeys : RowOK(k)
  /\ pruned \subseteq Tokens

(* The row of the present session has what has landed of it.               *)
PhoneOK(p) ==
  LET u == session[p].login
      k == <<p, Employer[u]>> IN
  /\ session[p].kind = "staff" =>
       /\ "presence" \in landed[p] => rows[k].user = u
       /\ "staff" \in landed[p] => rows[k].token = TokenOf(p) /\ rows[k].auth = u
  /\ session[p].kind = "shopper" /\ "shopper" \in landed[p] =>
       \E j \in RowKeys : rows[j].token = TokenOf(p) /\ rows[j].auth = u

PhonesOK == \A p \in Phones : PhoneOK(p)

(* What an invocation owes a phone that was meant and stayed registered.   *)
SteadyOK(a, p) ==
  /\ a.phase # "mail"
  /\ a.phase = "read" => Registered(p) /\ MeantFor(a.record, p)
  /\ a.phase = "send" /\ ~a.faulty =>
       TokenOf(p) \in a.tokens /\ (TokenOf(p) \in a.tried => p \in a.shown)
  /\ a.phase \in {"stamp", "done"} /\ ~a.faulty => p \in a.shown

InviteOK(a) ==
  a.record = Invite /\ ~a.faulty =>
    /\ a.phase \in {"mail", "stamp", "done"}
    /\ a.phase \in {"stamp", "done"} => a.mailed
    /\ a.phase = "done" => a.stamped

AlertOK(a) ==
  /\ a \in AlertType
  /\ a.dead \subseteq a.tried /\ a.tried \subseteq a.tokens
  /\ \A p \in a.shown : \E t \in a.tried : t[1] = p
  /\ a.stamped => a.phase = "done"
  /\ a.phase \in {"read", "mail"} => a.tokens = {}
  /\ \A t \in a.tokens : Issued(t)
  /\ \A t \in a.dead : Outdated(t)
  /\ a.tokens \cap a.known = {} /\ \A k \in RowKeys : rows[k].token \notin a.known
  /\ InviteOK(a)
  /\ \A p \in a.steady : SteadyOK(a, p)

AlertsOK == alerts \in Seq(AlertType) /\ \A i \in DOMAIN alerts : AlertOK(alerts[i])

Inv == SessionsOK /\ WritesOK /\ TableOK /\ PhonesOK /\ AlertsOK

-----------------------------------------------------------------------------
(* Facts about the data.                                                   *)

LEMMA Keys ==
  ASSUME ConstantsAssumption
  PROVE  /\ \A p \in Phones, n \in Nat : <<p, n>> # NoToken
         /\ \A p \in Phones, u \in Logins : <<p, u>> \in RowKeys /\ u \notin Businesses
         /\ \A p \in Phones, u \in Logins :
              <<p, Employer[u]>> \in RowKeys /\ Employer[u] \in Businesses
         /\ \A k \in RowKeys : k[1] \in Phones /\ k = <<k[1], k[2]>>
         /\ \A t \in Tokens : t[1] \in Phones /\ t[2] \in Nat /\ t # NoToken /\ t = <<t[1], t[2]>>
         /\ NoToken \notin Tokens
<1>1. \A p \in Phones, n \in Nat : <<p, n>> # NoToken
  BY DEF ConstantsAssumption
<1>2. \A t \in Tokens : t \in Phones \X Nat
  BY DEF ConstantsAssumption, Tokens
<1> QED  BY <1>1, <1>2 DEF ConstantsAssumption, RowKeys

LEMMA Records ==
  ASSUME NEW r \in Pushes \cup {Invite}
  PROVE  /\ resolveRecipient(r) \in {"staff", "shopper", "none"}
         /\ resolveRecipient(r) = "staff" =>
              /\ r.to \in Businesses
              /\ r.type \in {"console_broadcast", "online_order"}
              /\ r.type = "console_broadcast" => r.users = Logins
         /\ resolveRecipient(r) = "shopper" => r.to \in Logins
         /\ resolveRecipient(r) = "none" <=> r = Invite
         /\ r = Invite => r.to = NoLogin
<1>1. CASE r = Invite
  BY <1>1 DEF Invite, resolveRecipient
<1>2. CASE \E b \in Businesses : r = Broadcast(b) \/ \E us \in SUBSET Logins : r = Targeted(b, us)
  BY <1>2 DEF Broadcast, Targeted, Invite, resolveRecipient
<1>3. CASE \E u \in Logins : r = OrderUpdate(u)
  BY <1>3 DEF OrderUpdate, Invite, resolveRecipient
<1> QED  BY <1>1, <1>2, <1>3 DEF Pushes

LEMMA PresentToken ==
  ASSUME ConstantsAssumption, SessionsOK, NEW p \in Phones
  PROVE  Issued(TokenOf(p)) /\ TokenOf(p) # NoToken /\ TokenOf(p)[1] = p /\ ~Outdated(TokenOf(p))
BY Keys DEF ConstantsAssumption, SessionsOK, Issued, Outdated, Tokens, TokenOf

LEMMA InitInv == ASSUME ConstantsAssumption, Init PROVE Inv
<1>1. SessionsOK
  BY DEF ConstantsAssumption, Init, SessionsOK
<1>2. WritesOK /\ PhonesOK
  BY DEF Init, WritesOK, PhonesOK, PhoneOK
<1>3. TableOK
  BY Keys DEF ConstantsAssumption, Init, TableOK, RowOK, RowType
<1>4. AlertsOK
  BY DEF Init, AlertsOK
<1> QED  BY <1>1, <1>2, <1>3, <1>4 DEF Inv

-----------------------------------------------------------------------------
(* The phones, seen from a phone or an alert that a step is not about.     *)

(* Whatever happens to its rows, those of the present token stay.          *)
Undisturbed(p) ==
  /\ session'[p] = session[p] /\ serial'[p] = serial[p] /\ landed'[p] = landed[p]
  /\ \A k \in RowKeys : k[1] = p =>
       /\ rows'[k].auth = rows[k].auth /\ rows'[k].user = rows[k].user
       /\ \/ rows'[k].token = rows[k].token
          \/ rows[k].token # TokenOf(p) /\ rows'[k].token = NoToken

StillMeant(p, r) ==
  Registered(p) /\ MeantFor(r, p) => Registered(p)' /\ MeantFor(r, p)'

LEMMA UndisturbedKept ==
  ASSUME ConstantsAssumption, SessionsOK, TableOK, SessionsOK', TableOK',
         NEW p \in Phones, Undisturbed(p), PhoneOK(p)
  PROVE  PhoneOK(p)' /\ \A r : StillMeant(p, r)
<1>1. /\ TokenOf(p)' = TokenOf(p) /\ TokenOf(p) # NoToken /\ TokenOf(p)[1] = p
      /\ Registered(p)' = Registered(p)
  BY PresentToken DEF Undisturbed, TokenOf, Registered
<1>2. \A k \in RowKeys : rows'[k].token = TokenOf(p) <=> rows[k].token = TokenOf(p)
  BY <1>1 DEF Undisturbed, TableOK, RowOK
<1>3. \A k \in RowKeys : rows[k].token = TokenOf(p) => rows'[k].auth = rows[k].auth
                                                        /\ rows'[k].user = rows[k].user
  BY <1>1 DEF Undisturbed, TableOK, RowOK
<1>4. PhoneOK(p)'
  <2>1. CASE session[p].kind = "staff"
    <3>1. session[p].login \in Logins /\ <<p, Employer[session[p].login]>> \in RowKeys
      BY <2>1, Keys DEF SessionsOK
    <3> QED  BY <1>1, <1>2, <2>1, <3>1 DEF PhoneOK, Undisturbed
  <2>2. CASE session[p].kind = "shopper"
    BY <1>1, <1>2, <1>3, <2>2 DEF PhoneOK, Undisturbed
  <2> QED  BY <2>1, <2>2 DEF PhoneOK, Undisturbed
<1>5. ASSUME NEW r PROVE StillMeant(p, r)
  BY <1>1, <1>2, <1>3 DEF StillMeant, MeantFor, OnAndroid, Undisturbed
<1> QED  BY <1>4, <1>5

(* An alert after a step of the phones: fewer phones are steady, fewer     *)
(* tokens known to be dead.                                                *)
Shrunk(a, b) ==
  /\ b \in AlertType
  /\ b.record = a.record /\ b.phase = a.phase
  /\ b.tokens = a.tokens /\ b.tried = a.tried /\ b.dead = a.dead
  /\ b.shown = a.shown /\ b.mailed = a.mailed /\ b.stamped = a.stamped
  /\ b.faulty = a.faulty
  /\ b.steady \subseteq a.steady /\ b.known \subseteq a.known

LEMMA AlertShrinks ==
  ASSUME NEW a \in AlertType, NEW S, S \subseteq a.steady, NEW T, T \subseteq a.known
  PROVE  Shrunk(a, [a EXCEPT !.steady = S, !.known = T])
<1>1. PICK b : b = [a EXCEPT !.steady = S, !.known = T]
  OBVIOUS
<1>2. b = [record |-> a.record, phase |-> a.phase, tokens |-> a.tokens, tried |-> a.tried,
           dead |-> a.dead, thrown |-> a.thrown, shown |-> a.shown, mailed |-> a.mailed,
           stamped |-> a.stamped, faulty |-> a.faulty, steady |-> S, known |-> T]
  BY <1>1 DEF AlertType
<1>3. S \in SUBSET Phones /\ T \in SUBSET Tokens
  BY DEF AlertType
<1>4. b \in AlertType
  BY <1>2, <1>3 DEF AlertType
<1> QED  BY <1>1, <1>2, <1>4 DEF Shrunk

LEMMA ShrunkOK ==
  ASSUME NEW a, AlertOK(a), NEW b, Shrunk(a, b),
         SessionsOK, SessionsOK', \A p \in Phones : serial[p] <= serial'[p],
         \A k \in RowKeys : rows'[k].token \notin b.known,
         \A p \in b.steady : serial'[p] = serial[p] /\ StillMeant(p, b.record)
  PROVE  AlertOK(b)'
<1>1. \A t : (Issued(t) => Issued(t)') /\ (Outdated(t) => Outdated(t)')
  <2>1. \A t \in Tokens : t[1] \in Phones /\ t[2] \in Nat
    BY DEF Tokens
  <2> QED  BY <2>1 DEF SessionsOK, Issued, Outdated
<1>2. ASSUME NEW p \in b.steady PROVE SteadyOK(b, p)'
  <2>1. SteadyOK(a, p) /\ TokenOf(p)' = TokenOf(p)
    BY DEF Shrunk, AlertOK, TokenOf
  <2> QED  BY <2>1 DEF Shrunk, SteadyOK, StillMeant
<1>3. InviteOK(b)'
  BY DEF Shrunk, AlertOK, InviteOK
<1> QED  BY <1>1, <1>2, <1>3 DEF Shrunk, AlertOK

LEMMA SameLength ==
  ASSUME alerts \in Seq(AlertType), NEW f, f = [i \in DOMAIN alerts |-> f[i]],
         \A i \in DOMAIN alerts : f[i] \in AlertType
  PROVE  f \in Seq(AlertType) /\ DOMAIN f = DOMAIN alerts
<1>1. Len(alerts) \in Nat /\ DOMAIN alerts = 1 .. Len(alerts)
  BY LenProperties
<1>2. f \in [1 .. Len(alerts) -> AlertType]
  BY <1>1
<1> QED  BY <1>1, <1>2, SeqDef

(* The alerts after a step of the phones.                                  *)
LEMMA AlertsShrink ==
  ASSUME ConstantsAssumption, AlertsOK, SessionsOK, SessionsOK',
         \A p \in Phones : serial[p] <= serial'[p],
         NEW f, alerts' = [i \in DOMAIN alerts |-> f[i]],
         \A i \in DOMAIN alerts : Shrunk(alerts[i], f[i]),
         \A i \in DOMAIN alerts : \A k \in RowKeys : rows'[k].token \notin f[i].known,
         \A i \in DOMAIN alerts : \A p \in f[i].steady :
            serial'[p] = serial[p] /\ StillMeant(p, f[i].record)
  PROVE  AlertsOK'
<1>1. \A i \in DOMAIN alerts : alerts'[i] = f[i] /\ f[i] \in AlertType
  BY DEF Shrunk
<1>2. alerts' \in Seq(AlertType) /\ DOMAIN alerts' = DOMAIN alerts
  BY <1>1, SameLength DEF AlertsOK
<1>3. \A i \in DOMAIN alerts : AlertOK(f[i])'
  BY ShrunkOK DEF AlertsOK
<1> QED  BY <1>1, <1>2, <1>3 DEF AlertsOK

-----------------------------------------------------------------------------
(* The steps of the phones.                                                *)

LEMMA CountedTyped ==
  ASSUME ConstantsAssumption, SessionsOK, Counted
  PROVE  moves' \in 0 .. MaxMoves /\ moves' = moves + 1
BY DEF ConstantsAssumption, SessionsOK, Counted

(* Clearing tokens never brings one back or doubles one.                   *)
LEMMA RowOKWhenCleared ==
  ASSUME ConstantsAssumption, TableOK, SessionsOK, SessionsOK',
         \A p \in Phones : serial[p] <= serial'[p],
         pruned' \subseteq Tokens, \A k \in RowKeys : rows'[k].token \notin pruned',
         rows' \in [RowKeys -> RowType],
         \A k \in RowKeys : /\ rows'[k].auth = rows[k].auth
                            /\ rows'[k].token \in {rows[k].token, NoToken}
  PROVE  TableOK'
<1>1. \A t : Issued(t) => Issued(t)'
  <2>1. \A t \in Tokens : t[1] \in Phones /\ t[2] \in Nat
    BY DEF Tokens
  <2> QED  BY <2>1 DEF SessionsOK, Issued
<1>2. ASSUME NEW k \in RowKeys PROVE RowOK(k)'
  BY <1>1 DEF TableOK, RowOK
<1> QED  BY <1>2 DEF TableOK

LEMMA WritesGrow ==
  ASSUME SessionsOK, SessionsOK', WritesOK, \A p \in Phones : serial[p] <= serial'[p],
         \A w \in writes' : w \in writes \/ WriteOK(w)'
  PROVE  WritesOK'
<1>1. \A t : Issued(t) => Issued(t)'
  <2>1. \A t \in Tokens : t[1] \in Phones /\ t[2] \in Nat
    BY DEF Tokens
  <2> QED  BY <2>1 DEF SessionsOK, Issued
<1> QED  BY <1>1 DEF WritesOK, WriteOK

LEMMA RegistrationOK ==
  ASSUME NEW p \in Phones, NEW kind \in {"staff", "shopper"}, NEW u \in Logins,
         NEW t, Issued(t)', t[1] = p
  PROVE  \A w \in Registration(p, kind, u, t) : WriteOK(w)'
<1>1. t \in Tokens
  BY DEF Issued
<1>2. Registration(p, kind, u, t) \subseteq
        {[kind |-> k, phone |-> p, login |-> u, token |-> t] : k \in {"presence", "staff", "shopper"}}
  BY DEF Registration
<1> QED  BY <1>1, <1>2 DEF WriteOK, WriteType, Kinds

(* The alerts after a phone p moved, when no other phone is disturbed.     *)
LEMMA MovesKeepsAlerts ==
  ASSUME ConstantsAssumption, Inv, SessionsOK', TableOK', NEW p \in Phones, Moves(p),
         \A q \in Phones : serial[q] <= serial'[q],
         \A q \in Phones \ {p} : Undisturbed(q),
         \A k \in RowKeys : rows'[k].token \in {rows[k].token, NoToken}
  PROVE  AlertsOK'
<1> DEFINE f == [i \in DOMAIN alerts |-> [alerts[i] EXCEPT !.steady = @ \ {p}]]
<1>1. \A i \in DOMAIN alerts : alerts[i] \in AlertType /\ AlertOK(alerts[i])
  BY DEF Inv, AlertsOK, AlertOK
<1>2. \A i \in DOMAIN alerts : Shrunk(alerts[i], f[i]) /\ f[i].steady = alerts[i].steady \ {p}
                               /\ f[i].known = alerts[i].known
  BY <1>1 DEF Shrunk, AlertType
<1>3. ASSUME NEW i \in DOMAIN alerts, NEW q \in f[i].steady
      PROVE  serial'[q] = serial[q] /\ StillMeant(q, f[i].record)
  <2>1. q \in Phones \ {p}
    BY <1>1, <1>2 DEF AlertType
  <2> QED  BY <2>1, UndisturbedKept DEF Inv, PhonesOK, Undisturbed
<1>4. ASSUME NEW i \in DOMAIN alerts, NEW k \in RowKeys
      PROVE  rows'[k].token \notin f[i].known
  BY <1>1, <1>2, Keys DEF AlertOK, AlertType
<1>5. alerts' = [i \in DOMAIN alerts |-> f[i]]
  BY DEF Moves
<1> HIDE DEF f
<1> QED  BY <1>2, <1>3, <1>4, <1>5, AlertsShrink DEF Inv

LEMMA SignInKeeps ==
  ASSUME ConstantsAssumption, Inv, NEW p \in Phones, NEW kind \in {"staff", "shopper"},
         NEW u \in Logins, SignIn(p, kind, u)
  PROVE  Inv'
<1> USE DEF Inv
<1>1. SessionsOK' /\ serial' = serial /\ rows' = rows /\ pruned' = pruned
  BY CountedTyped DEF SignIn, SessionsOK
<1>2. WritesOK'
  <2>1. Issued(TokenOf(p))' /\ TokenOf(p)' = TokenOf(p) /\ TokenOf(p)[1] = p
    BY <1>1, PresentToken DEF TokenOf, Issued
  <2>2. \A w \in Registration(p, kind, u, TokenOf(p)) : WriteOK(w)'
    BY <2>1, RegistrationOK
  <2>3. \A q \in Phones : serial[q] <= serial'[q]
    BY <1>1 DEF SessionsOK
  <2> QED  BY <1>1, <2>2, <2>3, WritesGrow DEF SignIn, Posts
<1>3. TableOK'
  BY <1>1 DEF TableOK, RowOK, Issued
<1>4. \A q \in Phones \ {p} : Undisturbed(q)
  BY <1>1 DEF SignIn, SessionsOK, Undisturbed
<1>5. PhonesOK'
  <2>1. PhoneOK(p)'
    BY <1>1 DEF SignIn, SessionsOK, PhoneOK
  <2> QED  BY <1>1, <1>3, <1>4, <2>1, UndisturbedKept DEF PhonesOK
<1>6. AlertsOK'
  BY <1>1, <1>3, <1>4, MovesKeepsAlerts DEF SignIn, SessionsOK
<1> QED  BY <1>1, <1>2, <1>3, <1>5, <1>6

LEMMA RefreshTokenKeeps ==
  ASSUME ConstantsAssumption, Inv, NEW p \in Phones, RefreshToken(p) PROVE Inv'
<1> USE DEF Inv
<1>1. SessionsOK' /\ rows' = rows /\ pruned' = pruned
  BY CountedTyped DEF RefreshToken, SessionsOK
<1>2. /\ serial'[p] = serial[p] + 1 /\ \A q \in Phones \ {p} : serial'[q] = serial[q]
      /\ \A q \in Phones : serial[q] \in Nat /\ serial[q] <= serial'[q]
  BY DEF RefreshToken, SessionsOK
<1>3. WritesOK'
  <2>1. CASE session[p].kind = "out"
    <3>1. writes' = writes
      BY <2>1 DEF RefreshToken
    <3> QED  BY <1>1, <1>2, <3>1, WritesGrow
  <2>2. CASE session[p].kind # "out"
    <3>1. PICK t : t = <<p, serial[p] + 1>>
      OBVIOUS
    <3>2. PICK w : w = [kind |-> session[p].kind, phone |-> p, login |-> session[p].login,
                        token |-> t]
      OBVIOUS
    <3>3. Issued(t)' /\ t[1] = p
      <4>1. t = TokenOf(p)'
        BY <1>2, <3>1 DEF TokenOf, SessionsOK
      <4> QED  BY <1>1, <1>2, <3>1 DEF Issued, Tokens, SessionsOK
    <3>4. WriteOK(w)'
      BY <2>2, <3>2, <3>3 DEF SessionsOK, WriteOK, WriteType, Kinds, Issued
    <3>5. writes' = writes \cup {w}
      BY <2>2, <3>1, <3>2 DEF RefreshToken, Posts
    <3> QED  BY <1>1, <1>2, <3>4, <3>5, WritesGrow
  <2> QED  BY <2>1, <2>2
<1>4. TableOK'
  BY <1>1, <1>2, RowOKWhenCleared DEF TableOK, RowOK
<1>5. \A q \in Phones \ {p} : Undisturbed(q)
  BY <1>1, <1>2 DEF RefreshToken, SessionsOK, Undisturbed
<1>6. PhonesOK'
  <2>1. PhoneOK(p)'
    BY <1>1 DEF RefreshToken, SessionsOK, PhonesOK, PhoneOK
  <2> QED  BY <1>1, <1>4, <1>5, <2>1, UndisturbedKept DEF PhonesOK
<1>7. AlertsOK'
  BY <1>1, <1>2, <1>4, <1>5, MovesKeepsAlerts DEF RefreshToken
<1> QED  BY <1>1, <1>3, <1>4, <1>6, <1>7

(* Steps that only post or lose writes, or count.                          *)
LEMMA WritesOnlyKeeps ==
  ASSUME ConstantsAssumption, Inv, WritesOK',
         UNCHANGED <<session, serial, landed, script, rows, alerts, pruned>>,
         moves' \in 0 .. MaxMoves, moves <= moves'
  PROVE  Inv'
<1> USE DEF Inv
<1>1. SessionsOK'
  BY DEF SessionsOK
<1>2. TableOK'
  BY DEF TableOK, RowOK, Issued
<1>3. \A q \in Phones : Undisturbed(q)
  BY DEF Undisturbed
<1>4. PhonesOK'
  BY <1>1, <1>2, <1>3, UndisturbedKept DEF PhonesOK
<1>5. AlertsOK'
  <2>1. ASSUME NEW i \in DOMAIN alerts PROVE AlertOK(alerts[i])'
    BY DEF AlertsOK, AlertOK, Issued, Outdated, InviteOK, SteadyOK, Registered, MeantFor,
           OnAndroid, TokenOf
  <2> QED  BY <2>1 DEF AlertsOK
<1> QED  BY <1>1, <1>2, <1>4, <1>5

LEMMA ReconnectKeeps ==
  ASSUME ConstantsAssumption, Inv, NEW p \in Phones, Reconnect(p) PROVE Inv'
<1>1. moves' \in 0 .. MaxMoves /\ moves <= moves'
  BY CountedTyped DEF Inv, Reconnect, SessionsOK
<1>2. UNCHANGED <<session, serial, landed, script, rows, alerts, pruned>>
  BY DEF Reconnect
<1>3. \A w \in Registration(p, session[p].kind, session[p].login, TokenOf(p)) : WriteOK(w)'
  <2>1. \A t : t = TokenOf(p) => Issued(t)' /\ t[1] = p
    BY <1>2, PresentToken DEF Inv, Issued
  <2>2. session[p].kind \in {"staff", "shopper"} /\ session[p].login \in Logins
    BY DEF Inv, SessionsOK, Reconnect
  <2> QED  BY <2>1, <2>2, RegistrationOK
<1>4. WritesOK'
  BY <1>2, <1>3 DEF Inv, Reconnect, Posts, WritesOK, WriteOK, Issued
<1> QED  BY <1>1, <1>2, <1>4, WritesOnlyKeeps

LEMMA LoseKeeps ==
  ASSUME ConstantsAssumption, Inv, NEW w \in writes, Lose(w) PROVE Inv'
<1>1. WritesOK'
  BY DEF Inv, Lose, WritesOK, WriteOK, Issued, phoneVars
<1> QED
  BY <1>1, WritesOnlyKeeps DEF Inv, Lose, phoneVars, SessionsOK, ConstantsAssumption

LEMMA SignOutKeeps ==
  ASSUME ConstantsAssumption, Inv, NEW p \in Phones, SignOut(p) PROVE Inv'
<1> USE DEF Inv
<1> DEFINE u == session[p].login
<1>1. SessionsOK' /\ pruned' = pruned
  <2>1. moves' \in 0 .. MaxMoves /\ moves' = moves + 1
    BY CountedTyped DEF SignOut
  <2>2. serial' \in [Phones -> 0 .. moves']
    BY <2>1 DEF SignOut, DeletesToken, SessionsOK
  <2> QED  BY <2>1, <2>2 DEF SignOut, SessionsOK
<1>2. /\ \A q \in Phones \ {p} : serial'[q] = serial[q]
      /\ \A q \in Phones : serial[q] \in Nat /\ serial[q] <= serial'[q]
  BY DEF SignOut, DeletesToken, SessionsOK
<1>3. u \in Logins /\ <<p, u>> \in RowKeys
  BY Keys DEF SessionsOK, SignOut
<1>4. WritesOK'
  <2>0. PICK w : w = [kind |-> "clear", phone |-> p, login |-> u, token |-> NoToken]
    OBVIOUS
  <2>1. WriteOK(w)'
    BY <1>3, <2>0 DEF WriteOK, WriteType, Kinds
  <2>2. writes' \subseteq writes \cup {w}
    BY <2>0 DEF SignOut, Posts
  <2> QED  BY <1>1, <1>2, <2>1, <2>2, WritesGrow
<1>5. /\ rows' \in [RowKeys -> RowType]
      /\ \A k \in RowKeys : /\ rows'[k].auth = rows[k].auth /\ rows'[k].user = rows[k].user
                            /\ rows'[k].token \in {rows[k].token, NoToken}
                            /\ k[1] # p => rows'[k] = rows[k]
  <2>1. CASE rows' = rows
    BY <2>1 DEF TableOK, RowType
  <2>2. CASE rows' = [rows EXCEPT ![<<p, u>>].token = NoToken]
    <3>1. \A k \in RowKeys : rows[k] \in RowType
      BY DEF TableOK
    <3>2. \A k \in RowKeys : rows'[k] = IF k = <<p, u>> THEN [rows[k] EXCEPT !.token = NoToken]
                                        ELSE rows[k]
      BY <1>3, <2>2 DEF TableOK
    <3>3. DOMAIN rows' = RowKeys /\ rows' = [k \in RowKeys |-> rows'[k]]
      BY <2>2 DEF TableOK
    <3> QED  BY <3>1, <3>2, <3>3 DEF RowType
  <2> QED  BY <2>1, <2>2 DEF SignOut
<1>6. TableOK'
  <2>1. NoToken \notin pruned
    BY Keys DEF TableOK
  <2>2. pruned' \subseteq Tokens /\ \A k \in RowKeys : rows'[k].token \notin pruned'
    BY <1>1, <1>5, <2>1 DEF TableOK, RowOK
  <2> QED  BY <1>1, <1>2, <1>5, <2>2, RowOKWhenCleared
<1>7. \A q \in Phones \ {p} : Undisturbed(q)
  BY <1>2, <1>5 DEF SignOut, SessionsOK, Undisturbed
<1>8. PhonesOK'
  <2>1. PhoneOK(p)'
    BY <1>1 DEF SignOut, SessionsOK, PhoneOK
  <2> QED  BY <1>1, <1>6, <1>7, <2>1, UndisturbedKept DEF PhonesOK
<1>9. AlertsOK'
  BY <1>1, <1>2, <1>5, <1>6, <1>7, MovesKeepsAlerts DEF SignOut
<1> QED  BY <1>1, <1>4, <1>6, <1>8, <1>9

-----------------------------------------------------------------------------
(* A write of a phone lands.                                               *)

(* A row q with these fields.                                              *)
Has(q, t, u, v) == q \in RowType /\ q.token = t /\ q.auth = u /\ q.user = v

LEMMA RowUpdates ==
  ASSUME NEW r \in RowType, NEW t \in Tokens \cup {NoToken}, NEW u \in Logins
  PROVE  \A q : /\ q = [r EXCEPT !.token = t] => Has(q, t, r.auth, r.user)
                /\ q = [r EXCEPT !.token = t, !.auth = u] => Has(q, t, u, r.user)
                /\ q = [r EXCEPT !.auth = u, !.user = u] => Has(q, r.token, u, u)
BY DEF RowType, Has

(* A row after a write, field by field.                                    *)
RowBecomes(j, t, u, v) == Has(rows'[j], t, u, v)

LEMMA PutTokenOK ==
  ASSUME ConstantsAssumption, SessionsOK, TableOK, NEW k \in RowKeys, NEW t, NEW u \in Logins,
         Issued(t), t[1] = k[1], k[2] \in Businesses => Employer[u] = k[2],
         rows' = PutToken(k, t, u), pruned' = pruned \ {t}, serial' = serial
  PROVE  /\ TableOK'
         /\ RowBecomes(k, t, u, rows[k].user)
         /\ \A j \in RowKeys \ {k} :
              RowBecomes(j, IF rows[j].token = t THEN NoToken ELSE rows[j].token,
                         rows[j].auth, rows[j].user)
<1>1. t \in Tokens /\ t # NoToken /\ NoToken \notin pruned
  BY Keys DEF Issued, TableOK
<1>2. /\ \A j \in RowKeys : rows[j] \in RowType
      /\ WithoutTokens({t}) = [j \in RowKeys |-> IF rows[j].token = t
                                 THEN [rows[j] EXCEPT !.token = NoToken] ELSE rows[j]]
  BY DEF TableOK, WithoutTokens
<1>3. ASSUME NEW j \in RowKeys
      PROVE  Has(WithoutTokens({t})[j], IF rows[j].token = t THEN NoToken ELSE rows[j].token,
                 rows[j].auth, rows[j].user)
  <2>1. rows[j] \in RowType
    BY <1>2
  <2>2. Has([rows[j] EXCEPT !.token = NoToken], NoToken, rows[j].auth, rows[j].user)
    BY <2>1, RowUpdates
  <2>3. WithoutTokens({t})[j] = IF rows[j].token = t THEN [rows[j] EXCEPT !.token = NoToken]
                                ELSE rows[j]
    BY <1>2
  <2> QED  BY <2>1, <2>2, <2>3 DEF Has
<1>4. WithoutTokens({t}) \in [RowKeys -> RowType]
  BY <1>2, <1>3 DEF Has
<1>5. RowBecomes(k, t, u, rows[k].user)
  <2>1. rows'[k] = [WithoutTokens({t})[k] EXCEPT !.token = t, !.auth = u]
    BY <1>4 DEF PutToken
  <2>2. Has(rows'[k], t, u, WithoutTokens({t})[k].user)
    <3>1. PICK r : r = WithoutTokens({t})[k]
      OBVIOUS
    <3>2. r \in RowType /\ rows'[k] = [r EXCEPT !.token = t, !.auth = u]
      BY <1>4, <2>1, <3>1
    <3>3. Has(rows'[k], t, u, r.user)
      BY <1>1, <3>2, RowUpdates
    <3> QED  BY <3>1, <3>3
  <2> QED  BY <1>3, <2>2 DEF Has, RowBecomes
<1>6. /\ rows' \in [RowKeys -> RowType]
      /\ \A j \in RowKeys \ {k} :
           RowBecomes(j, IF rows[j].token = t THEN NoToken ELSE rows[j].token,
                      rows[j].auth, rows[j].user)
  <2>1. /\ \A j \in RowKeys \ {k} : rows'[j] = WithoutTokens({t})[j]
        /\ rows' = [j \in RowKeys |-> rows'[j]]
    BY <1>4 DEF PutToken
  <2>2. \A j \in RowKeys \ {k} :
           RowBecomes(j, IF rows[j].token = t THEN NoToken ELSE rows[j].token,
                      rows[j].auth, rows[j].user)
    BY <1>3, <2>1 DEF RowBecomes
  <2>3. \A j \in RowKeys : rows'[j] \in RowType
    BY <1>5, <2>2 DEF RowBecomes, Has
  <2> QED  BY <2>1, <2>2, <2>3
<1>7. RowOK(k)'
  BY <1>1, <1>5, <1>6 DEF RowOK, RowBecomes, Has, Issued
<1>8. ASSUME NEW j \in RowKeys \ {k} PROVE RowOK(j)'
  BY <1>1, <1>5, <1>6 DEF TableOK, RowOK, RowBecomes, Has, Issued
<1>9. pruned' \subseteq Tokens
  BY DEF TableOK
<1> QED  BY <1>5, <1>6, <1>7, <1>8, <1>9 DEF TableOK

LEMMA WrittenOK ==
  ASSUME ConstantsAssumption, SessionsOK, WritesOK, TableOK, NEW w \in writes, Land(w)
  PROVE  /\ TableOK'
         /\ \A j \in RowKeys : j[1] # w.phone =>
              RowBecomes(j, rows[j].token, rows[j].auth, rows[j].user)
<1> DEFINE k == <<w.phone, Employer[w.login]>>
<1>1. /\ w \in WriteType /\ k \in RowKeys /\ k[1] = w.phone /\ Employer[w.login] \in Businesses
      /\ w.login \in Logins /\ WriteOK(w)
  BY Keys DEF WritesOK, WriteOK, WriteType
<1>2. /\ rows' = Written(w) /\ pruned' = pruned \ {w.token} /\ serial' = serial
      /\ \A j \in RowKeys : rows[j] \in RowType
      /\ NoToken \notin pruned
  BY Keys DEF Land, TableOK
<1>3. CASE w.kind \in {"presence", "clear"}
  <2> DEFINE t == IF w.kind = "clear" THEN NoToken ELSE rows[k].token
             v == IF w.kind = "clear" THEN rows[k].user ELSE w.login
  <2>1. RowBecomes(k, t, w.login, v)
    <3>1. CASE w.kind = "presence"
      <4>1. rows'[k] = [rows[k] EXCEPT !.auth = w.login, !.user = w.login]
        BY <1>1, <1>2, <3>1 DEF Written, TableOK
      <4>2. rows[k] \in RowType /\ NoToken \in Tokens \cup {NoToken}
        BY <1>1, <1>2
      <4>3. Has(rows'[k], rows[k].token, w.login, w.login)
        BY <1>1, <4>1, <4>2, RowUpdates
      <4> QED  BY <3>1, <4>3 DEF RowBecomes
    <3>2. CASE w.kind = "clear"
      <4>1. rows'[k] = [rows[k] EXCEPT !.token = NoToken, !.auth = w.login]
        BY <1>1, <1>2, <3>2 DEF Written, TableOK
      <4>2. rows[k] \in RowType /\ NoToken \in Tokens \cup {NoToken}
        BY <1>1, <1>2
      <4>3. Has(rows'[k], NoToken, w.login, rows[k].user)
        BY <1>1, <4>1, <4>2, RowUpdates
      <4> QED  BY <3>2, <4>3 DEF RowBecomes
    <3> QED  BY <1>3, <3>1, <3>2
  <2>2. /\ \A j \in RowKeys \ {k} : rows'[j] = rows[j]
        /\ rows' = [j \in RowKeys |-> rows'[j]]
    BY <1>1, <1>2, <1>3 DEF Written, TableOK
  <2>3. \A j \in RowKeys \ {k} : RowBecomes(j, rows[j].token, rows[j].auth, rows[j].user)
    BY <1>2, <2>2 DEF RowBecomes, Has
  <2>4. rows' \in [RowKeys -> RowType]
    BY <2>1, <2>2, <2>3 DEF RowBecomes, Has
  <2>5. t \in {rows[k].token, NoToken}
    OBVIOUS
  <2> HIDE DEF t, v
  <2>6. ASSUME NEW j \in RowKeys PROVE RowOK(j)'
    BY <1>1, <1>2, <2>1, <2>3, <2>5 DEF TableOK, RowOK, RowBecomes, Has, Issued
  <2>7. pruned' \subseteq Tokens
    BY <1>2 DEF TableOK
  <2> QED  BY <1>1, <2>3, <2>4, <2>6, <2>7 DEF TableOK
<1>4. CASE rows' = rows
  BY <1>2, <1>4 DEF TableOK, RowOK, RowBecomes, Has, Issued
<1>5. ASSUME NEW s \in RowKeys, s[1] = w.phone, s[2] \in Businesses => Employer[w.login] = s[2],
             rows' = PutToken(s, w.token, w.login), w.kind \in {"staff", "shopper"}
      PROVE  /\ TableOK'
             /\ \A j \in RowKeys : j[1] # w.phone =>
                  RowBecomes(j, rows[j].token, rows[j].auth, rows[j].user)
  <2>1. Issued(w.token) /\ w.token[1] = w.phone /\ w.token # NoToken
    BY <1>1, <1>5, Keys DEF WriteOK, Issued
  <2>2. /\ TableOK'
        /\ \A j \in RowKeys \ {s} :
             RowBecomes(j, IF rows[j].token = w.token THEN NoToken ELSE rows[j].token,
                        rows[j].auth, rows[j].user)
    BY <1>1, <1>2, <1>5, <2>1, PutTokenOK
  <2>3. \A j \in RowKeys : rows[j].token = w.token => j[1] = w.phone
    BY <2>1 DEF TableOK, RowOK
  <2> QED  BY <1>5, <2>2, <2>3
<1>6. CASE w.kind = "staff"
  BY <1>1, <1>2, <1>5, <1>6 DEF Written
<1>7. CASE w.kind = "shopper"
  <2>1. rows' = rows \/ rows' = PutToken(<<w.phone, w.login>>, w.token, w.login)
    BY <1>2, <1>7 DEF Written
  <2>2. <<w.phone, w.login>> \in RowKeys /\ w.login \notin Businesses
    BY <1>1, Keys DEF WriteType
  <2> QED  BY <1>4, <1>5, <1>7, <2>1, <2>2
<1> QED  BY <1>1, <1>3, <1>6, <1>7 DEF WriteType, Kinds

(* No row gets another token than the one written.                         *)
LEMMA WrittenToken ==
  ASSUME ConstantsAssumption, SessionsOK, WritesOK, TableOK, NEW w \in writes, Land(w),
         NEW j \in RowKeys
  PROVE  rows'[j].token \in {rows[j].token, NoToken, w.token}
<1>1. /\ rows' = Written(w) /\ rows[j] \in RowType /\ w \in WriteType
  BY DEF Land, TableOK, WritesOK, WriteOK
<1>2. /\ WithoutTokens({w.token}) \in [RowKeys -> {rows[k] : k \in RowKeys} \cup {[rows[k] EXCEPT !.token = NoToken] : k \in RowKeys}]
      /\ WithoutTokens({w.token})[j] \in {rows[j], [rows[j] EXCEPT !.token = NoToken]}
  BY DEF WithoutTokens
<1>3. [rows[j] EXCEPT !.token = NoToken].token = NoToken
  BY <1>1 DEF RowType
<1>4. ASSUME NEW s \in RowKeys, rows' = PutToken(s, w.token, w.login)
      PROVE  rows'[j].token \in {rows[j].token, NoToken, w.token}
  <2>1. CASE j # s
    BY <1>2, <1>3, <1>4, <2>1 DEF PutToken
  <2>2. CASE j = s
    <3>1. PICK q : q = WithoutTokens({w.token})[j]
      OBVIOUS
    <3>2. rows'[j] = [q EXCEPT !.token = w.token, !.auth = w.login]
      BY <1>2, <1>4, <2>2, <3>1 DEF PutToken
    <3>3. q \in RowType
      BY <1>1, <1>2, <1>3, <3>1 DEF RowType
    <3> QED  BY <3>2, <3>3 DEF RowType
  <2> QED  BY <2>1, <2>2
<1> QED  BY <1>1, <1>4, Keys DEF Written, WriteType, RowType, TableOK, Kinds

(* A write of the present session brings the phone's row in line with it.  *)
LEMMA OwnPresence ==
  ASSUME ConstantsAssumption, Inv, SessionsOK', NEW w \in writes, Land(w), OfThisSession(w),
         w.kind = "presence"
  PROVE  PhoneOK(w.phone)' /\ \A r \in Pushes \cup {Invite} : StillMeant(w.phone, r)
<1> DEFINE p == w.phone
           k == <<p, Employer[w.login]>>
<1> USE DEF Inv
<1>1. /\ p \in Phones /\ w.login \in Logins /\ k \in RowKeys /\ k[1] = p
      /\ w.login = session[p].login /\ w.login # NoLogin
  BY Keys DEF WritesOK, WriteOK, WriteType, OfThisSession, ConstantsAssumption
<1>2. /\ session' = session /\ serial' = serial /\ TokenOf(p)' = TokenOf(p)
      /\ landed'[p] = landed[p] \cup {"presence"}
  BY <1>1 DEF Land, SessionsOK, TokenOf
<1>3. RowBecomes(k, rows[k].token, w.login, w.login)
  <2>1. rows'[k] = [rows[k] EXCEPT !.auth = w.login, !.user = w.login]
    BY <1>1 DEF Land, Written, TableOK
  <2>2. rows[k] \in RowType /\ NoToken \in Tokens \cup {NoToken}
    BY <1>1 DEF TableOK
  <2> QED  BY <1>1, <2>1, <2>2, RowUpdates DEF RowBecomes
<1>4. \A j \in RowKeys \ {k} : rows'[j] = rows[j]
  BY <1>1 DEF Land, Written, TableOK
<1>5. PhoneOK(p)'
  <2>1. ASSUME session[p].kind = "shopper", "shopper" \in landed[p]
        PROVE  \E j \in RowKeys : rows'[j].token = TokenOf(p) /\ rows'[j].auth = w.login
    <3>1. PICK j \in RowKeys : rows[j].token = TokenOf(p) /\ rows[j].auth = w.login
      BY <1>1, <2>1 DEF PhonesOK, PhoneOK
    <3> QED  BY <1>3, <1>4, <3>1 DEF RowBecomes, Has
  <2> QED  BY <1>1, <1>2, <1>3, <2>1 DEF PhonesOK, PhoneOK, RowBecomes, Has
<1>6. ASSUME NEW r \in Pushes \cup {Invite} PROVE StillMeant(p, r)
  <2>1. Registered(p) => Registered(p)'
    BY <1>2 DEF Registered
  <2>2. MeantFor(r, p) => MeantFor(r, p)'
    BY <1>1, <1>2, <1>3, <1>4 DEF MeantFor, OnAndroid, RowBecomes, Has
  <2> QED  BY <2>1, <2>2 DEF StillMeant
<1> QED  BY <1>5, <1>6

LEMMA OwnStaff ==
  ASSUME ConstantsAssumption, Inv, SessionsOK', NEW w \in writes, Land(w), OfThisSession(w),
         w.kind = "staff"
  PROVE  PhoneOK(w.phone)' /\ \A r \in Pushes \cup {Invite} : StillMeant(w.phone, r)
<1> DEFINE p == w.phone
           k == <<p, Employer[w.login]>>
<1> USE DEF Inv
<1>1. /\ p \in Phones /\ w.login \in Logins /\ k \in RowKeys /\ k[1] = p
      /\ k[2] = Employer[w.login]
      /\ w.login = session[p].login /\ w.login # NoLogin
      /\ session[p].kind = "staff" /\ w.token = TokenOf(p) /\ TokenOf(p) # NoToken
  BY Keys, PresentToken DEF WritesOK, WriteOK, WriteType, OfThisSession, ConstantsAssumption
<1>2. /\ session' = session /\ serial' = serial /\ TokenOf(p)' = TokenOf(p)
      /\ landed'[p] = landed[p] \cup {"staff"}
  BY <1>1 DEF Land, SessionsOK, TokenOf
<1>3. /\ RowBecomes(k, w.token, w.login, rows[k].user)
      /\ \A j \in RowKeys \ {k} : rows'[j].token # w.token
  <2>1. rows' = PutToken(k, w.token, w.login) /\ pruned' = pruned \ {w.token}
    BY DEF Land, Written
  <2>2. Issued(w.token) /\ w.token[1] = k[1]
    BY <1>1, PresentToken
  <2> HIDE DEF p, k
  <2>3. /\ RowBecomes(k, w.token, w.login, rows[k].user)
        /\ \A j \in RowKeys \ {k} :
              RowBecomes(j, IF rows[j].token = w.token THEN NoToken ELSE rows[j].token,
                         rows[j].auth, rows[j].user)
    BY <1>1, <1>2, <2>1, <2>2, PutTokenOK
  <2> QED  BY <1>1, <2>3 DEF RowBecomes, Has
<1>4. PhoneOK(p)'
  BY <1>1, <1>2, <1>3 DEF PhonesOK, PhoneOK, RowBecomes, Has
<1>5. ASSUME NEW r \in Pushes \cup {Invite} PROVE StillMeant(p, r)
  <2>1. Registered(p) => Registered(p)' /\ rows[k].user = w.login
    BY <1>1, <1>2 DEF Registered, PhonesOK, PhoneOK
  <2>2. Registered(p) /\ MeantFor(r, p) => MeantFor(r, p)'
    BY <1>1, <1>2, <1>3, <2>1 DEF MeantFor, OnAndroid, RowBecomes, Has
  <2> QED  BY <2>1, <2>2 DEF StillMeant
<1> QED  BY <1>4, <1>5

LEMMA OwnShopper ==
  ASSUME ConstantsAssumption, Inv, SessionsOK', NEW w \in writes, Land(w), OfThisSession(w),
         w.kind = "shopper"
  PROVE  PhoneOK(w.phone)' /\ \A r \in Pushes \cup {Invite} : StillMeant(w.phone, r)
<1> DEFINE p == w.phone
           k == <<p, w.login>>
<1> USE DEF Inv
<1>1. /\ p \in Phones /\ w.login \in Logins /\ k \in RowKeys /\ k[1] = p
      /\ k[2] \notin Businesses
      /\ w.login = session[p].login
      /\ session[p].kind = "shopper" /\ w.token = TokenOf(p) /\ TokenOf(p) # NoToken
  BY Keys, PresentToken DEF WritesOK, WriteOK, WriteType, OfThisSession, ConstantsAssumption
<1>2. /\ session' = session /\ serial' = serial /\ TokenOf(p)' = TokenOf(p)
      /\ landed'[p] = landed[p] \cup {"shopper"}
  BY <1>1 DEF Land, SessionsOK, TokenOf
<1>3. CASE rows' = rows /\ \E j \in RowKeys : rows[j].token = w.token /\ rows[j].auth = w.login
  <2>1. PhoneOK(p)'
    BY <1>1, <1>2, <1>3 DEF PhoneOK
  <2>2. ASSUME NEW r \in Pushes \cup {Invite} PROVE StillMeant(p, r)
    BY <1>1, <1>2, <1>3 DEF StillMeant, Registered, MeantFor, OnAndroid
  <2> QED  BY <2>1, <2>2
<1>4. CASE rows' = PutToken(k, w.token, w.login)
  <2>1. /\ RowBecomes(k, w.token, w.login, rows[k].user)
        /\ \A j \in RowKeys \ {k} : rows'[j].token # w.token
    <3>1. pruned' = pruned \ {w.token} /\ Issued(w.token) /\ w.token[1] = k[1]
      BY <1>1, PresentToken DEF Land
    <3> HIDE DEF p, k
    <3>2. /\ RowBecomes(k, w.token, w.login, rows[k].user)
          /\ \A j \in RowKeys \ {k} :
                RowBecomes(j, IF rows[j].token = w.token THEN NoToken ELSE rows[j].token,
                           rows[j].auth, rows[j].user)
      BY <1>1, <1>2, <1>4, <3>1, PutTokenOK
    <3> QED  BY <1>1, <3>2 DEF RowBecomes, Has
  <2>2. PhoneOK(p)'
    BY <1>1, <1>2, <2>1 DEF PhoneOK, RowBecomes, Has
  <2>3. ASSUME NEW r \in Pushes \cup {Invite} PROVE StillMeant(p, r)
    <3>1. Registered(p) => Registered(p)'
      BY <1>2 DEF Registered
    <3>2. MeantFor(r, p) => MeantFor(r, p)'
      BY <1>1, <1>2, <2>1 DEF MeantFor, OnAndroid, RowBecomes, Has
    <3> QED  BY <3>1, <3>2 DEF StillMeant
  <2> QED  BY <2>2, <2>3
<1> QED
  <2>1. rows' = Written(w)
    BY DEF Land
  <2>2. \/ rows' = PutToken(k, w.token, w.login)
        \/ /\ rows' = rows
           /\ \E b \in Businesses, q \in Phones :
                rows[<<q, b>>].token = w.token /\ rows[<<q, b>>].auth = w.login
    BY <2>1 DEF Written
  <2>3. \A b \in Businesses, q \in Phones : <<q, b>> \in RowKeys
    BY DEF RowKeys
  <2> QED  BY <1>3, <1>4, <2>2, <2>3

LEMMA LandKeeps ==
  ASSUME ConstantsAssumption, Inv, NEW w \in writes, Land(w) PROVE Inv'
<1> USE DEF Inv
<1>1. w \in WriteType /\ w.phone \in Phones
  BY DEF WritesOK, WriteOK, WriteType
<1>2. SessionsOK' /\ serial' = serial /\ session' = session
  BY <1>1 DEF Land, SessionsOK, WriteType
<1>3. WritesOK'
  BY <1>2 DEF Land, WritesOK, WriteOK, Issued
<1>4. TableOK'
  BY WrittenOK
<1>5. ASSUME NEW q \in Phones \ {w.phone} PROVE Undisturbed(q)
  <2>1. \A j \in RowKeys : j[1] = q => RowBecomes(j, rows[j].token, rows[j].auth, rows[j].user)
    BY WrittenOK
  <2> QED  BY <1>1, <1>2, <2>1 DEF Land, SessionsOK, Undisturbed, RowBecomes, Has
<1>6. OfThisSession(w) =>
        PhoneOK(w.phone)' /\ \A r \in Pushes \cup {Invite} : StillMeant(w.phone, r)
  <2>1. ASSUME OfThisSession(w) PROVE w.kind \in {"presence", "staff", "shopper"}
    <3>1. session[w.phone].kind \in {"out", "staff", "shopper"} /\ w.kind # "out"
      BY <1>1 DEF SessionsOK, WriteType, Kinds
    <3> QED  BY <2>1, <3>1 DEF OfThisSession
  <2> QED  BY <1>2, <2>1, OwnPresence, OwnStaff, OwnShopper
<1>7. PhonesOK'
  <2>1. PhoneOK(w.phone)'
    <3>1. CASE ~OfThisSession(w)
      BY <1>1, <3>1 DEF Land, SessionsOK, PhoneOK
    <3> QED  BY <1>6, <3>1
  <2> QED  BY <1>2, <1>4, <1>5, <2>1, UndisturbedKept DEF PhonesOK
<1>8. AlertsOK'
  <2> DEFINE f == [i \in DOMAIN alerts |->
                     [alerts[i] EXCEPT !.steady = IF OfThisSession(w) THEN @ ELSE @ \ {w.phone},
                                       !.known = @ \ {w.token}]]
  <2>1. \A i \in DOMAIN alerts : alerts[i] \in AlertType /\ AlertOK(alerts[i])
    BY DEF AlertsOK, AlertOK
  <2>2. \A i \in DOMAIN alerts :
          /\ Shrunk(alerts[i], f[i]) /\ f[i].known = alerts[i].known \ {w.token}
          /\ f[i].steady = IF OfThisSession(w) THEN alerts[i].steady
                           ELSE alerts[i].steady \ {w.phone}
    <3>1. ASSUME NEW i \in DOMAIN alerts
          PROVE  /\ Shrunk(alerts[i], f[i]) /\ f[i].known = alerts[i].known \ {w.token}
                 /\ f[i].steady = IF OfThisSession(w) THEN alerts[i].steady
                                  ELSE alerts[i].steady \ {w.phone}
      <4>s. PICK S : S = IF OfThisSession(w) THEN alerts[i].steady
                         ELSE alerts[i].steady \ {w.phone}
        OBVIOUS
      <4>t. PICK T : T = alerts[i].known \ {w.token}
        OBVIOUS
      <4>0. PICK a : a = alerts[i]
        OBVIOUS
      <4>1. f[i] = [alerts[i] EXCEPT !.steady = S, !.known = T]
        BY <2>1, <4>s, <4>t DEF AlertType
      <4>2. S \subseteq alerts[i].steady /\ T \subseteq alerts[i].known
        BY <4>s, <4>t
      <4>3. a \in AlertType /\ S \subseteq a.steady /\ T \subseteq a.known
        BY <2>1, <4>0, <4>2
      <4>4. Shrunk(a, [a EXCEPT !.steady = S, !.known = T])
        BY <4>3, AlertShrinks
      <4>5. [a EXCEPT !.steady = S, !.known = T].steady = S
            /\ [a EXCEPT !.steady = S, !.known = T].known = T
        BY <4>3 DEF AlertType
      <4> QED  BY <4>0, <4>1, <4>4, <4>5, <4>s, <4>t
    <3> HIDE DEF f
    <3> QED  BY <3>1
  <2>3. ASSUME NEW i \in DOMAIN alerts, NEW q \in f[i].steady
        PROVE  serial'[q] = serial[q] /\ StillMeant(q, f[i].record)
    <3>1. q \in Phones /\ (q = w.phone => OfThisSession(w))
          /\ f[i].record \in Pushes \cup {Invite}
      BY <2>1, <2>2 DEF AlertType, Shrunk
    <3> QED  BY <1>2, <1>4, <1>5, <1>6, <3>1, UndisturbedKept DEF PhonesOK
  <2>4. ASSUME NEW i \in DOMAIN alerts, NEW k \in RowKeys
        PROVE  rows'[k].token \notin f[i].known
    <3>1. rows'[k].token \in {rows[k].token, NoToken, w.token}
      BY WrittenToken
    <3>2. alerts[i].known \subseteq Tokens /\ rows[k].token \notin alerts[i].known
      BY <2>1 DEF AlertOK, AlertType
    <3>3. f[i].known = alerts[i].known \ {w.token}
      BY <2>2
    <3> HIDE DEF f
    <3> QED  BY <3>1, <3>2, <3>3, Keys
  <2>5. alerts' = [i \in DOMAIN alerts |-> f[i]]
    BY DEF Land
  <2>6. \A q \in Phones : serial[q] <= serial'[q]
    BY <1>2 DEF SessionsOK
  <2> HIDE DEF f
  <2> QED  BY <1>2, <2>2, <2>3, <2>4, <2>5, <2>6, AlertsShrink
<1> QED  BY <1>2, <1>3, <1>4, <1>7, <1>8

-----------------------------------------------------------------------------
(* The triggers and the invocations.                                       *)

(* A registered phone is found by whatever is meant for it.                *)
LEMMA MeantIsFound ==
  ASSUME ConstantsAssumption, Inv, NEW p \in Phones, NEW r \in Pushes \cup {Invite},
         Registered(p), MeantFor(r, p)
  PROVE  ~Mailed(r) /\ TokenOf(p) \in LiveTokens(r)
<1> USE DEF Inv
<1> DEFINE u == session[p].login
<1>1. /\ session[p].kind \in {"staff", "shopper"} /\ u \in Logins /\ u # NoLogin
      /\ TokenOf(p) # NoToken
  BY PresentToken DEF SessionsOK, Registered, ConstantsAssumption
<1>2. PICK k \in RowKeys :
        /\ rows[k].token = TokenOf(p) /\ rows[k].auth = u
        /\ session[p].kind = "staff" => k = <<p, Employer[u]>> /\ rows[k].user = u
  <2>1. CASE session[p].kind = "staff"
    BY <1>1, <2>1, Keys DEF PhonesOK, PhoneOK, Registered
  <2>2. CASE session[p].kind = "shopper"
    BY <1>1, <2>2 DEF PhonesOK, PhoneOK, Registered
  <2> QED  BY <1>1, <2>1, <2>2
<1>3. CASE resolveRecipient(r) = "staff"
  <2>1. tokenFilterFor(r, k)
    BY <1>2, <1>3 DEF MeantFor, tokenFilterFor
  <2> QED  BY <1>1, <1>2, <1>3, <2>1 DEF LiveTokens, Mailed
<1>4. CASE resolveRecipient(r) = "shopper"
  <2>1. r.to = u /\ OnAndroid(k)
    BY <1>2, <1>4 DEF MeantFor
  <2>2. tokenFilterFor(r, k)
    BY <1>2, <1>4, <2>1 DEF tokenFilterFor
  <2> QED  BY <1>1, <1>2, <1>4, <2>1, <2>2 DEF LiveTokens, Mailed, HasAndroidPush
<1>5. resolveRecipient(r) # "none"
  BY <1>1, Records DEF MeantFor
<1> QED  BY <1>3, <1>4, <1>5, Records

(* Steps that leave the phones alone, and of the table at most clear       *)
(* tokens that are outdated.                                               *)
Cleared ==
  /\ UNCHANGED <<phoneVars, writes>> /\ TableOK'
  /\ \A k \in RowKeys :
       /\ rows'[k].auth = rows[k].auth /\ rows'[k].user = rows[k].user
       /\ \/ rows'[k].token = rows[k].token
          \/ Outdated(rows[k].token) /\ rows'[k].token = NoToken

LEMMA TableUnchanged ==
  ASSUME Inv, UNCHANGED <<phoneVars, rows, writes, pruned>> PROVE Cleared
BY DEF Inv, Cleared, TableOK, RowOK, Issued, phoneVars

LEMMA AlertsKeep ==
  ASSUME ConstantsAssumption, Inv, Cleared, NEW f \in Seq(AlertType), alerts' = f,
         \A i \in DOMAIN f : AlertOK(f[i])
  PROVE  Inv'
<1> USE DEF Inv
<1>1. SessionsOK' /\ WritesOK' /\ TableOK' /\ serial' = serial
  BY DEF Cleared, phoneVars, SessionsOK, WritesOK, WriteOK, Issued
<1>2. ASSUME NEW p \in Phones PROVE Undisturbed(p)
  <2>1. ~Outdated(TokenOf(p))
    BY PresentToken
  <2> QED  BY <2>1 DEF Cleared, phoneVars, Undisturbed
<1>3. PhonesOK'
  BY <1>1, <1>2, UndisturbedKept DEF PhonesOK
<1>4. ASSUME NEW i \in DOMAIN f PROVE AlertOK(f[i])'
  <2>1. PICK b : b = f[i]
    OBVIOUS
  <2>2. AlertOK(b) /\ Shrunk(b, b) /\ b.steady \subseteq Phones /\ b.known \subseteq Tokens
    BY <2>1 DEF AlertOK, Shrunk, AlertType
  <2>3. \A p \in Phones : serial[p] <= serial'[p]
    BY <1>1 DEF SessionsOK
  <2>4. \A k \in RowKeys : rows'[k].token \notin b.known
    BY <2>2, Keys DEF AlertOK, Cleared
  <2>5. \A p \in b.steady : serial'[p] = serial[p] /\ StillMeant(p, b.record)
    BY <1>1, <1>2, <2>2, UndisturbedKept DEF PhonesOK
  <2>6. AlertOK(b)'
    BY <1>1, <2>2, <2>3, <2>4, <2>5, ShrunkOK
  <2> QED  BY <2>1, <2>6
<1> QED  BY <1>1, <1>3, <1>4 DEF AlertsOK

LEMMA RaiseKeeps == ASSUME ConstantsAssumption, ScriptsAssumption, Inv, Raise PROVE Inv'
<1> USE DEF Inv
<1> DEFINE r == script[Len(alerts) + 1]
           steady == {p \in Phones : Registered(p) /\ MeantFor(r, p)}
           phase == IF Mailed(r) THEN "mail" ELSE "read"
           known == IF IsUpdate(r) THEN pruned ELSE {}
           b == [record |-> r, phase |-> phase,
                 tokens |-> {}, tried |-> {}, dead |-> {}, thrown |-> FALSE,
                 shown |-> {}, mailed |-> FALSE, stamped |-> FALSE, faulty |-> FALSE,
                 steady |-> steady, known |-> known]
<1>1. r \in Pushes \cup {Invite}
  <2>1. script \in Seq(Pushes \cup {Invite}) /\ Len(alerts) \in Nat
    BY LenProperties DEF SessionsOK, AlertsOK, ScriptsAssumption
  <2>2. Len(alerts) + 1 \in 1 .. Len(script)
    BY <2>1, LenProperties DEF Raise
  <2> QED  BY <2>1, <2>2, ElementOfSeq
<1>2. /\ phase \in {"read", "mail"} /\ (r = Invite => phase = "mail")
      /\ known \subseteq Tokens /\ (\A k \in RowKeys : rows[k].token \notin known)
      /\ steady \subseteq Phones
  BY <1>1, Records DEF TableOK, RowOK, Mailed
<1>3. \A p \in steady : phase = "read" /\ Registered(p) /\ MeantFor(r, p)
  BY <1>1, MeantIsFound
<1>4. alerts' = Append(alerts, b)
  BY DEF Raise
<1> HIDE DEF r, steady, phase, known
<1>5. AlertOK(b)
  <2>1. b \in AlertType
    BY <1>1, <1>2 DEF AlertType, Phases
  <2>2. InviteOK(b)
    BY <1>2 DEF InviteOK
  <2>3. \A p \in b.steady : SteadyOK(b, p)
    BY <1>2, <1>3 DEF SteadyOK
  <2> QED  BY <1>2, <2>1, <2>2, <2>3 DEF AlertOK
<1> HIDE DEF b
<1>6. PICK f : f = Append(alerts, b)
  OBVIOUS
<1>7. b \in AlertType /\ alerts \in Seq(AlertType)
  BY <1>5 DEF AlertOK, AlertsOK
<1>8. /\ f \in Seq(AlertType) /\ DOMAIN f = 1 .. Len(alerts) + 1
      /\ DOMAIN alerts = 1 .. Len(alerts) /\ Len(alerts) \in Nat
      /\ \A i \in 1 .. Len(alerts) : f[i] = alerts[i]
      /\ f[Len(alerts) + 1] = b
  BY <1>6, <1>7, AppendProperties, LenProperties
<1>9. ASSUME NEW i \in DOMAIN f PROVE AlertOK(f[i])
  <2>1. CASE i \in 1 .. Len(alerts)
    BY <1>8, <2>1 DEF AlertsOK
  <2>2. CASE i = Len(alerts) + 1
    BY <1>5, <1>8, <2>2
  <2> QED  BY <1>8, <2>1, <2>2
<1>10. Cleared
  BY TableUnchanged DEF Raise
<1> QED  BY <1>4, <1>6, <1>8, <1>9, <1>10, AlertsKeep

-----------------------------------------------------------------------------
(* The steps of an invocation.                                             *)

LEMMA CallUpdates ==
  ASSUME ConstantsAssumption, Inv, Cleared, NEW i \in DOMAIN alerts, NEW b, AlertOK(b),
         alerts' = [alerts EXCEPT ![i] = b]
  PROVE  Inv'
<1>1. PICK f : f = [alerts EXCEPT ![i] = b]
  OBVIOUS
<1>2. b \in AlertType /\ alerts \in Seq(AlertType)
  BY DEF Inv, AlertOK, AlertsOK
<1>3. f \in Seq(AlertType) /\ DOMAIN f = DOMAIN alerts
  <2>1. Len(alerts) \in Nat /\ DOMAIN alerts = 1 .. Len(alerts)
        /\ alerts \in [1 .. Len(alerts) -> AlertType]
    BY <1>2, LenProperties
  <2>2. f \in [1 .. Len(alerts) -> AlertType]
    BY <1>1, <1>2, <2>1
  <2> QED  BY <2>1, <2>2, SeqDef
<1>4. \A j \in DOMAIN f : AlertOK(f[j])
  BY <1>1, <1>3 DEF Inv, AlertsOK
<1> QED  BY <1>1, <1>3, <1>4, AlertsKeep

(* An alert q with these fields; the others are those of a.                *)
Become(q, a, phase, tried, dead, shown) ==
  /\ q \in AlertType /\ q.record = a.record /\ q.steady = a.steady /\ q.known = a.known
  /\ q.phase = phase /\ q.tried = tried /\ q.dead = dead /\ q.shown = shown

LEMMA ReadTokensKeeps ==
  ASSUME ConstantsAssumption, Inv, NEW i \in DOMAIN alerts, ReadTokens(i) PROVE Inv'
<1>a. PICK a : a = alerts[i]
  OBVIOUS
<1> DEFINE ts == LiveTokens(a.record)
           ph == IF ts = {} THEN "done" ELSE "send"
<1>b. PICK b : b = [a EXCEPT !.tokens = ts, !.phase = ph]
  OBVIOUS
<1>1. AlertOK(a) /\ a \in AlertType /\ a.phase = "read" /\ a.tokens = {}
  BY <1>a DEF Inv, AlertsOK, AlertOK, ReadTokens
<1>2. /\ ts \in SUBSET Tokens /\ (\A t \in ts : Issued(t)) /\ ts \cap a.known = {}
      /\ ph \in Phases
  BY <1>1 DEF Inv, TableOK, RowOK, AlertOK, LiveTokens, Issued, Phases
<1>3. Cleared
  BY TableUnchanged DEF ReadTokens
<1>4. alerts' = [alerts EXCEPT ![i] = b]
  BY <1>a, <1>b DEF ReadTokens
<1>5. \A p \in a.steady : Registered(p) /\ MeantFor(a.record, p) /\ TokenOf(p) \in ts
  <2>1. a.steady \subseteq Phones /\ a.record \in Pushes \cup {Invite}
    BY <1>1 DEF AlertType
  <2> QED  BY <1>1, <2>1, MeantIsFound DEF AlertOK, SteadyOK
<1>6. ts = {} <=> ph = "done"
  OBVIOUS
<1>7. ph \in {"send", "done"}
  OBVIOUS
<1> HIDE DEF ts, ph
<1>8. /\ Become(b, a, ph, a.tried, a.dead, a.shown) /\ b.tokens = ts
      /\ b.mailed = a.mailed /\ b.stamped = a.stamped /\ b.faulty = a.faulty
  BY <1>b, <1>1, <1>2 DEF AlertType, Become
<1>9. InviteOK(b)
  BY <1>1, <1>8 DEF AlertOK, InviteOK, Become
<1>10. \A p \in b.steady : SteadyOK(b, p)
  BY <1>1, <1>5, <1>6, <1>7, <1>8 DEF AlertOK, SteadyOK, Become
<1>11. AlertOK(b)
  BY <1>1, <1>2, <1>7, <1>8, <1>9, <1>10 DEF AlertOK, Become
<1> QED  BY <1>3, <1>4, <1>11, CallUpdates

LEMMA SendKeeps ==
  ASSUME ConstantsAssumption, Inv, NEW i \in DOMAIN alerts, NEW t \in Unsent(i), Send(i, t)
  PROVE  Inv'
<1>a. PICK a : a = alerts[i]
  OBVIOUS
<1> DEFINE tried == a.tried \cup {t}
           shown == IF Live(t) THEN a.shown \cup {t[1]} ELSE a.shown
           dead == IF Live(t) THEN a.dead ELSE a.dead \cup {t}
<1>b. PICK b : b = [a EXCEPT !.tried = tried, !.shown = shown, !.dead = dead]
  OBVIOUS
<1>1. /\ AlertOK(a) /\ a \in AlertType /\ a.phase = "send" /\ t \in a.tokens
      /\ t \in Tokens /\ Issued(t)
  BY <1>a DEF Inv, AlertsOK, AlertOK, AlertType, Send, Unsent
<1>2. t[1] \in Phones /\ t[2] \in Nat /\ t = <<t[1], t[2]>> /\ serial[t[1]] \in Nat
  BY <1>1, Keys DEF Inv, SessionsOK
<1>3. /\ tried \in SUBSET Tokens /\ shown \in SUBSET Phones /\ dead \in SUBSET Tokens
      /\ dead \subseteq tried /\ tried \subseteq a.tokens
      /\ \A d \in dead : Outdated(d)
      /\ \A p \in shown : \E s \in tried : s[1] = p
  BY <1>1, <1>2 DEF AlertOK, AlertType, Live, Issued, Outdated
<1>4. \A p \in a.steady : TokenOf(p) \in tried => p \in shown \/ a.faulty
  <2>1. \A p : t = TokenOf(p) => t[1] = p /\ Live(t)
    BY DEF TokenOf, Live
  <2> QED  BY <1>1, <2>1 DEF AlertOK, SteadyOK
<1>5. Cleared
  BY TableUnchanged DEF Send
<1>6. alerts' = [alerts EXCEPT ![i] = b]
  BY <1>a, <1>b DEF Send
<1> HIDE DEF tried, shown, dead
<1>7. /\ Become(b, a, a.phase, tried, dead, shown) /\ b.tokens = a.tokens
      /\ b.mailed = a.mailed /\ b.stamped = a.stamped /\ b.faulty = a.faulty
  BY <1>b, <1>1, <1>3 DEF AlertType, Become
<1>8. InviteOK(b)
  BY <1>1, <1>7 DEF AlertOK, InviteOK, Become
<1>9. \A p \in b.steady : SteadyOK(b, p)
  BY <1>1, <1>4, <1>7 DEF AlertOK, SteadyOK, Become
<1>10. AlertOK(b)
  BY <1>1, <1>3, <1>7, <1>8, <1>9 DEF AlertOK, Become
<1> QED  BY <1>5, <1>6, <1>10, CallUpdates

LEMMA SendFailsKeeps ==
  ASSUME ConstantsAssumption, Inv, NEW i \in DOMAIN alerts, NEW t \in Unsent(i), SendFails(i, t)
  PROVE  Inv'
<1>a. PICK a : a = alerts[i]
  OBVIOUS
<1> DEFINE tried == a.tried \cup {t}
<1>1. AlertOK(a) /\ a \in AlertType /\ a.phase = "send" /\ t \in a.tokens
  BY <1>a DEF Inv, AlertsOK, AlertOK, AlertType, SendFails, Unsent
<1>2. tried \in SUBSET Tokens /\ tried \subseteq a.tokens
  BY <1>1 DEF AlertOK, AlertType
<1>3. Cleared
  BY TableUnchanged DEF SendFails
<1>4. PICK throws \in BOOLEAN :
        alerts' = [alerts EXCEPT ![i].tried = @ \cup {t}, ![i].faulty = TRUE,
                                 ![i].thrown = @ \/ throws]
  BY DEF SendFails
<1>5. PICK thrown : thrown = (a.thrown \/ throws)
  OBVIOUS
<1>6. thrown \in BOOLEAN
  BY <1>5
<1>b. PICK b : b = [a EXCEPT !.tried = tried, !.faulty = TRUE, !.thrown = thrown]
  OBVIOUS
<1>7. alerts' = [alerts EXCEPT ![i] = b]
  BY <1>a, <1>b, <1>4, <1>5, Zenon
<1> HIDE DEF tried
<1>8. /\ Become(b, a, a.phase, tried, a.dead, a.shown) /\ b.tokens = a.tokens
      /\ b.mailed = a.mailed /\ b.stamped = a.stamped /\ b.faulty
  BY <1>b, <1>1, <1>2, <1>6 DEF AlertType, Become
<1>9. tried = a.tried \cup {t}
  BY DEF tried
<1>10. InviteOK(b) /\ \A p \in b.steady : SteadyOK(b, p)
  BY <1>1, <1>8 DEF AlertOK, InviteOK, SteadyOK, Become
<1>11. AlertOK(b)
  BY <1>1, <1>2, <1>8, <1>9, <1>10 DEF AlertOK, Become
<1> QED  BY <1>3, <1>7, <1>11, CallUpdates

(* An alert that only moves on, when what it owes in the next phase is     *)
(* what it had in this one.                                                *)
LEMMA PhaseMoves ==
  ASSUME NEW a, AlertOK(a), NEW b, NEW ph \in {"stamp", "done"},
         Become(b, a, ph, a.tried, a.dead, a.shown), b.tokens = a.tokens,
         a.faulty => b.faulty, a.mailed => b.mailed,
         b.stamped => ph = "done",
         a.phase = "send" /\ ~b.faulty => a.tokens \subseteq a.tried,
         a.phase = "read" => b.faulty,
         a.record = Invite /\ ~b.faulty => b.mailed /\ (ph = "done" => b.stamped)
  PROVE  AlertOK(b)
<1>1. \A p \in b.steady : SteadyOK(b, p)
  BY DEF AlertOK, SteadyOK, Become, AlertType, Phases
<1>2. InviteOK(b)
  BY DEF AlertOK, InviteOK, Become
<1> QED  BY <1>1, <1>2 DEF AlertOK, Become

LEMMA PruneKeeps ==
  ASSUME ConstantsAssumption, Inv, NEW i \in DOMAIN alerts, Prune(i) PROVE Inv'
<1>a. PICK a : a = alerts[i]
  OBVIOUS
<1> DEFINE ph == IF a.thrown THEN "done" ELSE NextPhase(a.record)
<1>b. PICK b : b = [a EXCEPT !.phase = ph]
  OBVIOUS
<1>1. AlertOK(a) /\ a \in AlertType /\ a.phase = "send" /\ a.tokens \subseteq a.tried
  BY <1>a DEF Inv, AlertsOK, AlertOK, Prune, AllSent, Unsent
<1>2. ph \in {"stamp", "done"}
  BY DEF NextPhase
<1>3. a.record = Invite => a.faulty
  BY <1>1 DEF AlertOK, InviteOK
<1>4. alerts' = [alerts EXCEPT ![i] = b]
  BY <1>a, <1>b DEF Prune
<1>5. Cleared
  <2>1. CASE a.thrown
    BY <1>a, <2>1, TableUnchanged DEF Prune
  <2>2. CASE ~a.thrown
    <3>1. rows' = WithoutTokens(a.dead) /\ pruned' = pruned \cup a.dead /\ a.dead \subseteq Tokens
      BY <1>a, <1>1, <2>2 DEF Prune, PruneDead, AlertType
    <3>2. \A k \in RowKeys :
            rows'[k] = IF rows[k].token \in a.dead THEN [rows[k] EXCEPT !.token = NoToken]
                       ELSE rows[k]
      BY <3>1 DEF WithoutTokens
    <3>3. ASSUME NEW k \in RowKeys
          PROVE  /\ rows'[k] \in RowType
                 /\ rows'[k].auth = rows[k].auth /\ rows'[k].user = rows[k].user
                 /\ rows'[k].token = IF rows[k].token \in a.dead THEN NoToken ELSE rows[k].token
      <4>1. rows[k] \in RowType
        BY DEF Inv, TableOK
      <4> QED  BY <3>2, <4>1 DEF RowType
    <3>4. rows' \in [RowKeys -> RowType]
      BY <3>1, <3>3 DEF WithoutTokens
    <3>5. NoToken \notin pruned /\ NoToken \notin a.dead
      BY <3>1, Keys DEF Inv, TableOK
    <3>6. UNCHANGED <<phoneVars, writes>>
      BY DEF Prune
    <3>7. SessionsOK' /\ \A p \in Phones : serial[p] <= serial'[p]
      BY <3>6 DEF Inv, SessionsOK, phoneVars
    <3>8. pruned' \subseteq Tokens /\ \A k \in RowKeys : rows'[k].token \notin pruned'
      BY <3>1, <3>3, <3>5 DEF Inv, TableOK, RowOK
    <3>9. TableOK'
      BY <3>3, <3>4, <3>7, <3>8, RowOKWhenCleared DEF Inv
    <3>10. \A t \in a.dead : Outdated(t)
      BY <1>1 DEF AlertOK
    <3> QED  BY <3>3, <3>6, <3>9, <3>10 DEF Cleared
  <2> QED  BY <2>1, <2>2
<1> HIDE DEF ph
<1>6. /\ Become(b, a, ph, a.tried, a.dead, a.shown) /\ b.tokens = a.tokens
      /\ b.mailed = a.mailed /\ b.stamped = a.stamped /\ b.faulty = a.faulty
  BY <1>b, <1>1, <1>2 DEF AlertType, Phases, Become
<1>7. AlertOK(b)
  <2>1. ~a.stamped
    BY <1>1 DEF AlertOK
  <2> QED  BY <1>1, <1>2, <1>3, <1>6, <2>1, PhaseMoves
<1> QED  BY <1>4, <1>5, <1>7, CallUpdates

LEMMA PruneFailsKeeps ==
  ASSUME ConstantsAssumption, Inv, NEW i \in DOMAIN alerts, PruneFails(i) PROVE Inv'
<1>a. PICK a : a = alerts[i]
  OBVIOUS
<1> DEFINE ph == NextPhase(a.record)
<1>b. PICK b : b = [a EXCEPT !.phase = ph, !.faulty = TRUE]
  OBVIOUS
<1>1. AlertOK(a) /\ a \in AlertType /\ a.phase = "send" /\ ~a.stamped
  BY <1>a DEF Inv, AlertsOK, AlertOK, PruneFails, AllSent
<1>2. ph \in {"stamp", "done"}
  BY DEF NextPhase
<1>3. alerts' = [alerts EXCEPT ![i] = b]
  BY <1>a, <1>b DEF PruneFails
<1> HIDE DEF ph
<1>4. /\ Become(b, a, ph, a.tried, a.dead, a.shown) /\ b.tokens = a.tokens
      /\ b.mailed = a.mailed /\ b.stamped = a.stamped /\ b.faulty
  BY <1>b, <1>1, <1>2 DEF AlertType, Phases, Become
<1>5. AlertOK(b)
  BY <1>1, <1>2, <1>4, PhaseMoves
<1>6. Cleared
  BY TableUnchanged DEF PruneFails
<1> QED  BY <1>3, <1>5, <1>6, CallUpdates

LEMMA StampKeeps ==
  ASSUME ConstantsAssumption, Inv, NEW i \in DOMAIN alerts, Stamp(i) PROVE Inv'
<1>a. PICK a : a = alerts[i]
  OBVIOUS
<1>b. PICK b : b = [a EXCEPT !.phase = "done", !.stamped = TRUE]
  OBVIOUS
<1>1. AlertOK(a) /\ a \in AlertType /\ a.phase = "stamp"
  BY <1>a DEF Inv, AlertsOK, AlertOK, Stamp
<1>2. alerts' = [alerts EXCEPT ![i] = b]
  BY <1>a, <1>b DEF Stamp
<1>3. /\ Become(b, a, "done", a.tried, a.dead, a.shown) /\ b.tokens = a.tokens
      /\ b.mailed = a.mailed /\ b.stamped /\ b.faulty = a.faulty
  BY <1>b, <1>1 DEF AlertType, Phases, Become
<1>4. a.record = Invite /\ ~a.faulty => a.mailed
  BY <1>1 DEF AlertOK, InviteOK
<1>5. AlertOK(b)
  BY <1>1, <1>3, <1>4, PhaseMoves
<1>6. Cleared
  BY TableUnchanged DEF Stamp
<1> QED  BY <1>2, <1>5, <1>6, CallUpdates

LEMMA MailsKeeps ==
  ASSUME ConstantsAssumption, Inv, NEW i \in DOMAIN alerts, NEW ph \in {"stamp", "done"},
         Mails(i, ph), ph = "done" => alerts[i].record # Invite
  PROVE  Inv'
<1>a. PICK a : a = alerts[i]
  OBVIOUS
<1>b. PICK b : b = [a EXCEPT !.mailed = TRUE, !.phase = ph]
  OBVIOUS
<1>1. AlertOK(a) /\ a \in AlertType /\ a.phase = "mail" /\ ~a.stamped
  BY <1>a DEF Inv, AlertsOK, AlertOK, Mails
<1>2. alerts' = [alerts EXCEPT ![i] = b]
  BY <1>a, <1>b DEF Mails
<1>3. /\ Become(b, a, ph, a.tried, a.dead, a.shown) /\ b.tokens = a.tokens
      /\ b.mailed /\ b.stamped = a.stamped /\ b.faulty = a.faulty
  BY <1>b, <1>1 DEF AlertType, Phases, Become
<1>4. AlertOK(b)
  BY <1>a, <1>1, <1>3, PhaseMoves
<1>5. Cleared
  BY TableUnchanged DEF Mails
<1> QED  BY <1>2, <1>4, <1>5, CallUpdates

LEMMA CallFailsKeeps ==
  ASSUME ConstantsAssumption, Inv, NEW i \in DOMAIN alerts, CallFails(i) PROVE Inv'
<1>a. PICK a : a = alerts[i]
  OBVIOUS
<1>b. PICK b : b = [a EXCEPT !.phase = "done", !.faulty = TRUE]
  OBVIOUS
<1>1. AlertOK(a) /\ a \in AlertType /\ a.phase \in {"read", "mail", "stamp"}
  BY <1>a DEF Inv, AlertsOK, AlertOK, CallFails
<1>2. alerts' = [alerts EXCEPT ![i] = b]
  BY <1>a, <1>b DEF CallFails
<1>3. /\ Become(b, a, "done", a.tried, a.dead, a.shown) /\ b.tokens = a.tokens
      /\ b.mailed = a.mailed /\ b.stamped = a.stamped /\ b.faulty
  BY <1>b, <1>1 DEF AlertType, Phases, Become
<1>4. AlertOK(b)
  BY <1>1, <1>3, PhaseMoves
<1>5. Cleared
  BY TableUnchanged DEF CallFails
<1> QED  BY <1>2, <1>4, <1>5, CallUpdates

-----------------------------------------------------------------------------
(* Putting the steps together.                                             *)

LEMMA NextInv ==
  ASSUME ConstantsAssumption, ScriptsAssumption, Inv, [Next]_vars PROVE Inv'
<1>1. CASE UNCHANGED vars
  <2>1. Cleared
    BY <1>1, TableUnchanged DEF vars
  <2>2. PICK f : f = alerts
    OBVIOUS
  <2>3. alerts' = f /\ f \in Seq(AlertType) /\ \A i \in DOMAIN f : AlertOK(f[i])
    BY <1>1, <2>2 DEF vars, Inv, AlertsOK
  <2> QED  BY <2>1, <2>3, AlertsKeep
<1>2. CASE PhoneStep
  BY <1>2, SignInKeeps, RefreshTokenKeeps, ReconnectKeeps, SignOutKeeps, LandKeeps, LoseKeeps
     DEF PhoneStep
<1>3. CASE Raise
  BY <1>3, RaiseKeeps
<1>4. ASSUME NEW i \in DOMAIN alerts, CallStep(i) PROVE Inv'
  <2>1. CASE MailUpdate(i)
    <3>1. alerts[i].record # Invite
      BY <2>1 DEF MailUpdate, IsUpdate, Invite, resolveRecipient
    <3> QED  BY <2>1, <3>1, MailsKeeps DEF MailUpdate
  <2>2. CASE MailInvite(i)
    BY <2>2, MailsKeeps DEF MailInvite
  <2> QED  BY <1>4, <2>1, <2>2, ReadTokensKeeps, SendKeeps, SendFailsKeeps, PruneKeeps,
              PruneFailsKeeps, StampKeeps, CallFailsKeeps DEF CallStep
<1> QED  BY <1>1, <1>2, <1>3, <1>4 DEF Next

LEMMA Invariant == Spec => []Inv
<1>1. Init => Inv
  BY InitInv, ConstantsAssumption
<1>2. Inv /\ [Next]_vars => Inv'
  BY NextInv, ConstantsAssumption, ScriptsAssumption
<1> QED  BY <1>1, <1>2, PTL DEF Spec

-----------------------------------------------------------------------------
(* The theorems.                                                           *)

(* The devices table names a token once, on a row of the phone Firebase    *)
(* gave it to and under a login; an invocation finds dead only what it     *)
(* tried and tries only what it read; and whatever is pruned is a token.   *)
THEOREM TypeCorrect == Spec => []TypeOK
<1>1. Inv => TypeOK
  <2>1. ASSUME Inv PROVE serial \in [Phones -> 0 .. MaxMoves]
    BY <2>1, ConstantsAssumption DEF Inv, SessionsOK, ConstantsAssumption
  <2>2. ASSUME Inv, NEW i \in DOMAIN alerts
        PROVE  /\ alerts[i].phase \in {"read", "mail", "send", "stamp", "done"}
               /\ alerts[i].dead \subseteq alerts[i].tried
               /\ alerts[i].tried \subseteq alerts[i].tokens
               /\ \A p \in alerts[i].shown : \E t \in alerts[i].tried : t[1] = p
               /\ alerts[i].stamped => alerts[i].phase = "done"
    BY <2>2 DEF Inv, AlertsOK, AlertOK, AlertType, Phases
  <2> QED  BY <2>1, <2>2 DEF Inv, SessionsOK, TableOK, RowOK, Issued, TypeOK
<1> QED  BY <1>1, Invariant, PTL

(* Once the writes of a phone's present session have landed, the phone is  *)
(* found by the pushes that are meant for whoever holds it now, and by     *)
(* nobody else's, however the writes of earlier sessions and of other      *)
(* phones were delayed, lost or reordered and whatever was pruned.         *)
THEOREM RoutedToHolder == Spec => []RoutesToHolder
<1>1. ASSUME Inv, NEW p \in Phones, Registered(p), NEW r \in Pushes, TokenOf(p) \in LiveTokens(r)
      PROVE  IF resolveRecipient(r) = "shopper" THEN r.to = session[p].login
             ELSE /\ r.to = Employer[session[p].login]
                  /\ session[p].kind = "staff" => MeantFor(r, p)
  <2> DEFINE u == session[p].login
  <2>1. u \in Logins /\ session[p].kind \in {"staff", "shopper"} /\ TokenOf(p) # NoToken
    BY <1>1, ConstantsAssumption, PresentToken DEF Inv, SessionsOK, Registered
  <2>2. PICK k \in RowKeys : rows[k].token = TokenOf(p) /\ tokenFilterFor(r, k)
    BY <1>1 DEF LiveTokens
  <2>3. /\ rows[k].auth = u
        /\ session[p].kind = "staff" => k = <<p, Employer[u]>> /\ rows[k].user = u
    <3>1. PICK j \in RowKeys :
            /\ rows[j].token = TokenOf(p) /\ rows[j].auth = u
            /\ session[p].kind = "staff" => j = <<p, Employer[u]>> /\ rows[j].user = u
      <4>1. CASE session[p].kind = "staff"
        BY <1>1, <2>1, <4>1, ConstantsAssumption, Keys DEF Inv, PhonesOK, PhoneOK, Registered
      <4>2. CASE session[p].kind = "shopper"
        BY <1>1, <2>1, <4>2 DEF Inv, PhonesOK, PhoneOK, Registered
      <4> QED  BY <2>1, <4>1, <4>2
    <3>2. j = k
      BY <1>1, <2>1, <2>2, <3>1 DEF Inv, TableOK, RowOK
    <3> QED  BY <3>1, <3>2
  <2>4. CASE resolveRecipient(r) = "shopper"
    BY <2>2, <2>3, <2>4 DEF tokenFilterFor
  <2>5. CASE resolveRecipient(r) = "staff"
    <3>1. k[2] = r.to /\ r.to \in Businesses /\ (r.type = "online_order" => rows[k].user \in r.users)
      BY <2>2, <2>5, Records DEF tokenFilterFor
    <3>2. r.to = Employer[u]
      BY <1>1, <2>1, <2>3, <3>1 DEF Inv, TableOK, RowOK
    <3>3. session[p].kind = "staff" => u \in r.users
      BY <2>1, <2>3, <2>5, <3>1, Records
    <3> QED  BY <2>5, <3>2, <3>3 DEF MeantFor
  <2>6. resolveRecipient(r) # "none"
    <3>1. r.type # "invite"
      BY DEF Pushes, Broadcast, Targeted, OrderUpdate
    <3> QED  BY <3>1, Records DEF Invite
  <2> QED  BY <2>4, <2>5, <2>6, Records
<1>2. Inv => RoutesToHolder
  <2>1. ASSUME Inv, NEW p \in Phones, Registered(p), NEW r \in Pushes, MeantFor(r, p)
        PROVE  TokenOf(p) \in LiveTokens(r)
    BY <2>1, ConstantsAssumption, MeantIsFound
  <2> QED  BY <1>1, <2>1 DEF RoutesToHolder
<1> QED  BY <1>2, Invariant, PTL

(* An invocation of send-push that met no fault has shown its alert on     *)
(* every phone that was meant and stayed registered since the trigger, and *)
(* an invite that met none was mailed and stamped: no interleaving of      *)
(* reads, sends, prunes and writes of the phones leaves one out.           *)
THEOREM AlertsArrive == Spec => []AlertArrives
<1>1. ASSUME Inv, NEW i \in DOMAIN alerts, alerts[i].phase = "done", ~alerts[i].faulty
      PROVE  /\ alerts[i].steady \subseteq alerts[i].shown
             /\ alerts[i].record = Invite => alerts[i].mailed /\ alerts[i].stamped
  BY <1>1 DEF Inv, AlertsOK, AlertOK, SteadyOK, InviteOK
<1>2. Inv => AlertArrives
  BY <1>1 DEF AlertArrives
<1> QED  BY <1>2, Invariant, PTL

(* An order update that was neither shown nor mailed went to a token that  *)
(* was not yet found dead when it was raised: a dead token silences one    *)
(* round of updates at most, then the prune gives the Shopper the mail.    *)
THEOREM MailAfterPrune == Spec => []MailAfterDeadToken
<1>1. ASSUME Inv, NEW i \in DOMAIN alerts
      PROVE  alerts[i].tokens = {} \/ \E t \in alerts[i].tokens : t \notin alerts[i].known
  BY <1>1 DEF Inv, AlertsOK, AlertOK
<1>2. Inv => MailAfterDeadToken
  BY <1>1 DEF MailAfterDeadToken
<1> QED  BY <1>2, Invariant, PTL
=============================================================================
