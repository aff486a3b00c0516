---------------------------- MODULE PushDelivery ----------------------------
(***************************************************************************)
(* Alerts of the cloud: console broadcasts and new online orders to the    *)
(* phones of a business, order updates to a Shopper, invite codes by mail. *)
(* A database trigger posts each alert once to an edge function: send-push *)
(* reads the tokens of the recipient from the devices table, sends one     *)
(* message per token and prunes the tokens FCM calls dead; send-email and  *)
(* send-invite-email hand one message to the mail service.                 *)
(*                                                                         *)
(* The devices table is written by the phones, directly and without        *)
(* retries: every such write is a message that lands late, in any order,   *)
(* or never.  Each await of send-push is a step, and so is each message.   *)
(*                                                                         *)
(* Simplifications.  Permission to notify is granted everywhere.  A users  *)
(* row is named by its login.  What a message says is left out, and so are *)
(* requests without the secret and records that cannot be routed.          *)
(***************************************************************************)
EXTENDS Naturals, Sequences, FiniteSets

CONSTANTS
    Phones,
    Android,        \* the phones that are not iPhones
    Logins, NoLogin,
    Businesses,
    Employer,       \* the business of a login's users row
    NoToken,
    Scripts,        \* bound: the sequences of records the triggers may post
    MaxMoves,       \* bound: sign-ins, sign-outs, token refreshes, reconnections
    MaxWrites,      \* bound: writes of the phones under way
    MaxFaults       \* bound: failures in the cloud, tokens left undeleted

ASSUME ConstantsAssumption ==
    /\ Android \subseteq Phones
    /\ NoLogin \notin Logins
    /\ Logins \cap Businesses = {}
    /\ Employer \in [Logins -> Businesses]
    /\ NoToken \notin Phones \X Nat
    /\ {MaxMoves, MaxWrites, MaxFaults} \subseteq Nat

VARIABLES
    session,    \* who uses the app on a phone, and as what
    serial,     \* number of a phone's present FCM token
    landed,     \* history: writes of the present session that have landed
    rows,       \* public.devices
    writes,     \* writes of the phones under way
    script,     \* the alerts there will be
    alerts,     \* the alerts raised, each with its invocation
    pruned,     \* history: tokens found dead and pruned
    moves, faults

phoneVars == <<session, serial, landed, moves, script>>
vars == <<phoneVars, rows, writes, alerts, pruned, faults>>

Fault == faults < MaxFaults /\ faults' = faults + 1

-----------------------------------------------------------------------------
(* The devices table *)

\* A business row is named <<phone, business>>, a Shopper-only row <<phone, login>>.
RowKeys == Phones \X (Businesses \cup Logins)
Tokens == Phones \X (0 .. MaxMoves)
Live(t) == serial[t[1]] = t[2]
TokenOf(p) == <<p, serial[p]>>

\* Who a record goes to: the phones of a business, those of them whose last user
\* is listed, or those of one login.
Broadcast(b) == [type |-> "console_broadcast", to |-> b, users |-> Logins]
Targeted(b, us) == [type |-> "online_order", to |-> b, users |-> us]
OrderUpdate(u) == [type |-> "shopper_online_order", to |-> u, users |-> {}]
Invite == [type |-> "invite", to |-> NoLogin, users |-> {}]

Pushes ==
    {Broadcast(b) : b \in Businesses}
        \cup {Targeted(b, us) : b \in Businesses, us \in SUBSET Logins}
        \cup {OrderUpdate(u) : u \in Logins}

ASSUME ScriptsAssumption == Scripts \subseteq Seq(Pushes \cup {Invite})

resolveRecipient(r) ==
    CASE r.type \in {"console_broadcast", "online_order"} -> "staff"
      [] r.type = "shopper_online_order" -> "shopper"
      [] OTHER -> "none"

\* The platform is written with the presence, or with a Shopper-only row.
OnAndroid(k) == k[1] \in Android /\ (k[2] \in Businesses => rows[k].user # NoLogin)

\* Variant: the business row of a phone that also shops is forgotten.
tokenFilterShopperRows(r, k) ==
    IF resolveRecipient(r) = "staff"
    THEN k[2] = r.to /\ (r.type = "online_order" => rows[k].user \in r.users)
    ELSE k[2] = r.to /\ OnAndroid(k)

tokenFilterFor(r, k) ==
    IF resolveRecipient(r) = "staff"
    THEN k[2] = r.to /\ (r.type = "online_order" => rows[k].user \in r.users)
    ELSE rows[k].auth = r.to /\ OnAndroid(k)

LiveTokens(r) ==
    {rows[k].token : k \in {j \in RowKeys : tokenFilterFor(r, j)}} \ {NoToken}

HasAndroidPush(u) ==
    \E k \in RowKeys : rows[k].auth = u /\ rows[k].token # NoToken /\ OnAndroid(k)

WithoutTokens(ts) ==
    [k \in RowKeys |-> IF rows[k].token \in ts THEN [rows[k] EXCEPT !.token = NoToken]
                       ELSE rows[k]]

\* Variant: no trigger takes the token from the other rows.
PutTokenBeside(k, t, u) == [rows EXCEPT ![k].token = t, ![k].auth = u]

\* One row per token; the server stamps the login that writes.
PutToken(k, t, u) == [WithoutTokens({t}) EXCEPT ![k].token = t, ![k].auth = u]

Written(w) ==
    LET staff == <<w.phone, Employer[w.login]>> IN
    CASE w.kind = "presence" -> [rows EXCEPT ![staff].auth = w.login, ![staff].user = w.login]
      [] w.kind = "staff" -> PutToken(staff, w.token, w.login)
      [] w.kind = "clear" -> [rows EXCEPT ![staff].token = NoToken, ![staff].auth = w.login]
      [] w.kind = "shopper" ->
            IF \E b \in Businesses : /\ \E p \in Phones : /\ rows[<<p, b>>].token = w.token
                                                          /\ rows[<<p, b>>].auth = w.login
            THEN rows
            ELSE PutToken(<<w.phone, w.login>>, w.token, w.login)

-----------------------------------------------------------------------------
Init ==
    /\ session = [p \in Phones |-> [kind |-> "out", login |-> NoLogin]]
    /\ serial = [p \in Phones |-> 0]
    /\ landed = [p \in Phones |-> {}]
    /\ rows = [k \in RowKeys |-> [token |-> NoToken, auth |-> NoLogin, user |-> NoLogin]]
    /\ writes = {}
    /\ script \in Scripts
    /\ alerts = <<>>
    /\ pruned = {}
    /\ moves = 0 /\ faults = 0

-----------------------------------------------------------------------------
(* The phones *)

\* History: a phone in motion is no longer one that must show the alerts raised so far.
Moves(p) == alerts' = [i \in DOMAIN alerts |-> [alerts[i] EXCEPT !.steady = @ \ {p}]]

Counted == moves < MaxMoves /\ moves' = moves + 1

\* What a phone sends for the session it is in and the token it has.
Registration(p, kind, u, t) ==
    {[kind |-> k, phone |-> p, login |-> u, token |-> t] :
        k \in IF kind = "staff" THEN {"presence", "staff"} ELSE {kind}}

Posts(ws) == Cardinality(writes \cup ws) <= MaxWrites /\ writes' = writes \cup ws

\* Staff signs in on any phone; the till's login also shops on it.  A Shopper signs in
\* on a phone without a business.
SignIn(p, kind, u) ==
    /\ Counted
    /\ session[p].kind = "out"
    /\ session' = [session EXCEPT ![p] = [kind |-> kind, login |-> u]]
    /\ landed' = [landed EXCEPT ![p] = {}]
    /\ Posts(Registration(p, kind, u, TokenOf(p)))
    /\ Moves(p)
    /\ UNCHANGED <<serial, script, rows, pruned, faults>>

\* Firebase gives the app a new token; the old one is dead.
RefreshToken(p) ==
    /\ Counted
    /\ serial' = [serial EXCEPT ![p] = @ + 1]
    /\ landed' = [landed EXCEPT ![p] = @ \ {"staff", "shopper"}]
    /\ IF session[p].kind = "out" THEN UNCHANGED writes
       ELSE Posts({[kind |-> session[p].kind, phone |-> p, login |-> session[p].login,
                    token |-> <<p, serial[p] + 1>>]})
    /\ Moves(p)
    /\ UNCHANGED <<session, script, rows, pruned, faults>>

\* The edge from offline to online.
Reconnect(p) ==
    /\ Counted
    /\ session[p].kind # "out"
    /\ Posts(Registration(p, session[p].kind, session[p].login, TokenOf(p)))
    /\ UNCHANGED <<session, serial, landed, script, rows, alerts, pruned, faults>>

\* The token is deleted at Firebase, which may fail, then nulled in the table.
DeletesToken(p) ==
    \/ serial' = [serial EXCEPT ![p] = @ + 1] /\ UNCHANGED faults
    \/ Fault /\ UNCHANGED serial

\* A till's write is not waited for, a Shopper's is, and either may be refused or lost.
SignOut(p) ==
    LET u == session[p].login IN
    /\ Counted
    /\ session[p].kind # "out"
    /\ DeletesToken(p)
    /\ \/ /\ session[p].kind = "staff"
          /\ Posts({[kind |-> "clear", phone |-> p, login |-> u, token |-> NoToken]})
          /\ UNCHANGED rows
       \/ /\ session[p].kind = "shopper"
          /\ rows' \in {rows, [rows EXCEPT ![<<p, u>>].token = NoToken]}
          /\ UNCHANGED writes
    /\ session' = [session EXCEPT ![p] = [kind |-> "out", login |-> NoLogin]]
    /\ landed' = [landed EXCEPT ![p] = {}]
    /\ Moves(p)
    /\ UNCHANGED <<script, pruned>>

\* History: the write is one of the present session's and carries its present token.
OfThisSession(w) ==
    /\ w.login = session[w.phone].login
    /\ \/ w.kind = "presence"
       \/ w.kind = session[w.phone].kind /\ w.token = TokenOf(w.phone)

Land(w) ==
    /\ rows' = Written(w)
    /\ writes' = writes \ {w}
    /\ landed' = [landed EXCEPT ![w.phone] = IF OfThisSession(w) THEN @ \cup {w.kind} ELSE {}]
    /\ pruned' = pruned \ {w.token}
    /\ alerts' = [i \in DOMAIN alerts |->
                    [alerts[i] EXCEPT !.steady = IF OfThisSession(w) THEN @ ELSE @ \ {w.phone},
                                      !.known = @ \ {w.token}]]
    /\ UNCHANGED <<session, serial, moves, script, faults>>

Lose(w) ==
    /\ writes' = writes \ {w}
    /\ UNCHANGED <<phoneVars, rows, alerts, pruned, faults>>

PhoneStep ==
    \/ \E p \in Phones :
        \/ \E u \in Logins, kind \in {"staff", "shopper"} : SignIn(p, kind, u)
        \/ RefreshToken(p) \/ Reconnect(p) \/ SignOut(p)
    \/ \E w \in writes : Land(w) \/ Lose(w)

-----------------------------------------------------------------------------
(* The triggers *)

\* The writes of the phone's session have landed, and none of an earlier one since.
Registered(p) ==
    CASE session[p].kind = "staff" -> {"presence", "staff"} \subseteq landed[p]
      [] session[p].kind = "shopper" -> "shopper" \in landed[p]
      [] OTHER -> FALSE

\* Whether an alert is meant for the phone: a login whose token is on a row that does
\* not tell the platform, because no presence ever landed there, is mailed instead.
MeantFor(r, p) ==
    LET u == session[p].login IN
    IF resolveRecipient(r) = "staff"
    THEN session[p].kind = "staff" /\ r.to = Employer[u] /\ u \in r.users
    ELSE /\ r.to = u /\ p \in Android
         /\ \A k \in RowKeys : rows[k].token = TokenOf(p) => OnAndroid(k)

\* A Shopper is mailed when no Android phone of the login has a token.
Mailed(r) ==
    \/ resolveRecipient(r) = "none"
    \/ resolveRecipient(r) = "shopper" /\ ~HasAndroidPush(r.to)

IsUpdate(r) == resolveRecipient(r) = "shopper"

Raise ==
    LET r == script[Len(alerts) + 1] IN
    /\ Len(alerts) < Len(script)
    /\ alerts' = Append(alerts,
         [record |-> r,
          phase |-> IF Mailed(r) THEN "mail" ELSE "read",
          tokens |-> {}, tried |-> {}, dead |-> {}, thrown |-> FALSE,
          shown |-> {}, mailed |-> FALSE, stamped |-> FALSE,
          faulty |-> FALSE,
          steady |-> {p \in Phones : Registered(p) /\ MeantFor(r, p)},
          known |-> IF IsUpdate(r) THEN pruned ELSE {}])
    /\ UNCHANGED <<phoneVars, rows, writes, pruned, faults>>

-----------------------------------------------------------------------------
(* One invocation of send-push *)

ReadTokens(i) ==
    LET ts == LiveTokens(alerts[i].record) IN
    /\ alerts[i].phase = "read"
    /\ alerts' = [alerts EXCEPT ![i].tokens = ts,
                                ![i].phase = IF ts = {} THEN "done" ELSE "send"]
    /\ UNCHANGED <<phoneVars, rows, writes, pruned, faults>>

Unsent(i) == alerts[i].tokens \ alerts[i].tried

Send(i, t) ==
    /\ alerts[i].phase = "send"
    /\ alerts' = [alerts EXCEPT ![i].tried = @ \cup {t},
                                ![i].shown = IF Live(t) THEN @ \cup {t[1]} ELSE @,
                                ![i].dead = IF Live(t) THEN @ ELSE @ \cup {t}]
    /\ UNCHANGED <<phoneVars, rows, writes, pruned, faults>>

\* FCM refuses for a reason of its own, or the request never returns and takes the
\* invocation down with it.
SendFails(i, t) ==
    /\ alerts[i].phase = "send"
    /\ Fault
    /\ \E throws \in BOOLEAN :
        alerts' = [alerts EXCEPT ![i].tried = @ \cup {t}, ![i].faulty = TRUE,
                                 ![i].thrown = @ \/ throws]
    /\ UNCHANGED <<phoneVars, rows, writes, pruned>>

NextPhase(r) == IF r.type = "console_broadcast" THEN "stamp" ELSE "done"

\* Variant: every token that was read is taken for dead.
PruneRead(i) ==
    /\ rows' = WithoutTokens(alerts[i].tokens)
    /\ pruned' = pruned \cup alerts[i].tokens

\* Variant: the dead tokens are left on their rows.
PruneNothing(i) == pruned' = pruned \cup alerts[i].dead /\ UNCHANGED rows

PruneDead(i) ==
    /\ rows' = WithoutTokens(alerts[i].dead)
    /\ pruned' = pruned \cup alerts[i].dead

AllSent(i) == alerts[i].phase = "send" /\ Unsent(i) = {}

Prune(i) ==
    /\ AllSent(i)
    /\ IF alerts[i].thrown THEN UNCHANGED <<rows, pruned>> ELSE PruneDead(i)
    /\ alerts' = [alerts EXCEPT ![i].phase = IF alerts[i].thrown THEN "done"
                                             ELSE NextPhase(alerts[i].record)]
    /\ UNCHANGED <<phoneVars, writes, faults>>

\* Logged, and the invocation goes on.
PruneFails(i) ==
    /\ AllSent(i) /\ ~alerts[i].thrown /\ alerts[i].dead # {}
    /\ Fault
    /\ alerts' = [alerts EXCEPT ![i].phase = NextPhase(alerts[i].record), ![i].faulty = TRUE]
    /\ UNCHANGED <<phoneVars, rows, writes, pruned>>

\* push_sent_at, however many messages FCM accepted; invite_email_sent_at.
Stamp(i) ==
    /\ alerts[i].phase = "stamp"
    /\ alerts' = [alerts EXCEPT ![i].phase = "done", ![i].stamped = TRUE]
    /\ UNCHANGED <<phoneVars, rows, writes, pruned, faults>>

Mails(i, next) ==
    /\ alerts[i].phase = "mail"
    /\ alerts' = [alerts EXCEPT ![i].mailed = TRUE, ![i].phase = next]
    /\ UNCHANGED <<phoneVars, rows, writes, pruned, faults>>

\* One invocation of send-email.
MailUpdate(i) == IsUpdate(alerts[i].record) /\ Mails(i, "done")

\* One invocation of send-invite-email.
MailInvite(i) == alerts[i].record = Invite /\ Mails(i, "stamp")

\* The request is lost, the token query, the access token or the mail service fails, or
\* the stamp does.  Nothing is tried again.
CallFails(i) ==
    /\ alerts[i].phase \in {"read", "mail", "stamp"}
    /\ Fault
    /\ alerts' = [alerts EXCEPT ![i].phase = "done", ![i].faulty = TRUE]
    /\ UNCHANGED <<phoneVars, rows, writes, pruned>>

CallStep(i) ==
    \/ ReadTokens(i) \/ Prune(i) \/ PruneFails(i) \/ Stamp(i)
    \/ MailUpdate(i) \/ MailInvite(i) \/ CallFails(i)
    \/ \E t \in Unsent(i) : Send(i, t) \/ SendFails(i, t)

Next ==
    \/ PhoneStep
    \/ Raise
    \/ \E i \in DOMAIN alerts : CallStep(i)

Spec == Init /\ [][Next]_vars

-----------------------------------------------------------------------------
(* Properties *)

\* A token belongs to one row at most, on a row of the phone it was issued to; an
\* invocation tries only tokens it read, shows only on their phones and is stamped
\* at its end.
TypeOK ==
    /\ session \in [Phones -> [kind : {"out", "staff", "shopper"}, login : Logins \cup {NoLogin}]]
    /\ serial \in [Phones -> 0 .. MaxMoves]
    /\ \A k \in RowKeys : rows[k].token # NoToken =>
        /\ rows[k].token \in Tokens /\ rows[k].token[1] = k[1]
        /\ rows[k].auth \in Logins
        /\ \A j \in RowKeys \ {k} : rows[j].token # rows[k].token
    /\ \A i \in DOMAIN alerts :
        /\ alerts[i].phase \in {"read", "mail", "send", "stamp", "done"}
        /\ alerts[i].dead \subseteq alerts[i].tried
        /\ alerts[i].tried \subseteq alerts[i].tokens
        /\ \A p \in alerts[i].shown : \E t \in alerts[i].tried : t[1] = p
        /\ alerts[i].stamped => alerts[i].phase = "done"
    /\ pruned \subseteq Tokens

\* The devices table routes to the person who holds the phone now.  Once the writes of
\* the present session have landed, and until a delayed write of an earlier one lands, the
\* phone is found by the pushes of that session's business and login and by nobody
\* else's, whoever used it before, whatever other phones write and whatever is pruned.
RoutesToHolder ==
    \A p \in Phones : Registered(p) =>
        \A r \in Pushes :
            /\ MeantFor(r, p) => TokenOf(p) \in LiveTokens(r)
            /\ TokenOf(p) \in LiveTokens(r) =>
                IF resolveRecipient(r) = "shopper" THEN r.to = session[p].login
                ELSE /\ r.to = Employer[session[p].login]
                     /\ session[p].kind = "staff" => MeantFor(r, p)

\* An invocation that met no fault has shown its alert on every phone that was meant
\* and stayed registered since the trigger; one that was to be mailed was mailed.
AlertArrives ==
    \A i \in DOMAIN alerts :
        LET a == alerts[i] IN
        a.phase = "done" /\ ~a.faulty =>
            /\ a.steady \subseteq a.shown
            /\ a.record = Invite => a.mailed /\ a.stamped

\* A dead token costs a Shopper one order update at most: an update that was neither
\* shown nor mailed went to a token nobody had found dead when it was raised, or the
\* token was cleared between the trigger's choice of the channel and the reading.
MailAfterDeadToken ==
    \A i \in DOMAIN alerts :
        LET a == alerts[i] IN
        /\ IsUpdate(a.record)
        /\ a.phase = "done" /\ ~a.faulty /\ a.shown = {} /\ ~a.mailed
        => a.tokens = {} \/ \E t \in a.tokens : t \notin a.known

=============================================================================
