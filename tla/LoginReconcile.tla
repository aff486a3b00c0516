--------------------------- MODULE LoginReconcile ---------------------------
(***************************************************************************)
(* The end of an account: delete_business and shopper_delete_account       *)
(* remove the rows in one transaction and record an event, because on      *)
(* managed Supabase their own DELETE of the login is refused; the edge     *)
(* function reconcile-account-deletions removes the login through the Auth *)
(* Admin API, for one event when it is inserted and for the oldest pending *)
(* ones every 15 minutes.                                                  *)
(*                                                                         *)
(* Every await of the function is a step, so that two invocations, and     *)
(* owners who found, join or delete a business meanwhile, interleave.      *)
(*                                                                         *)
(* Simplifications.  Of a business only its owner and its users rows are   *)
(* kept, of a Shopper that the profile exists.  Ids are never used again:  *)
(* who signs in with the same address later is another login.  A request   *)
(* without the secret has no effect and is left out.                       *)
(***************************************************************************)
EXTENDS Naturals, Sequences, FiniteSets

CONSTANTS
    Logins, NoLogin,
    Businesses, NoBusiness,
    Calls,          \* invocations of the function that can be in flight
    BATCH_LIMIT,
    FirstOwners,    \* who owns the businesses at the start, an incident included
    Shoppers,       \* logins with a Shopper account at the start
    Undeletable,    \* logins the Admin API never manages to delete
    MaxEvents,      \* bound: rows of account_deletion_events
    MaxFaults       \* bound: lost requests, failed awaits, dead calls

ASSUME ConstantsAssumption ==
    /\ NoLogin \notin Logins /\ NoBusiness \notin Businesses
    /\ BATCH_LIMIT \in Nat \ {0}
    /\ FirstOwners \subseteq [Businesses -> Logins \cup {NoLogin}]
    /\ Shoppers \subseteq Logins /\ Undeletable \subseteq Logins
    /\ {MaxEvents, MaxFaults} \subseteq Nat

VARIABLES
    logins,     \* auth.users
    owner,      \* businesses.owner_id of a live business, else NoLogin
    member,     \* the business of a login's users row
    shoppers,   \* shopper_profiles
    founded,    \* businesses that exist or have existed
    events,     \* account_deletion_events, oldest first
    requests,   \* events the insert trigger has posted
    calls,      \* the invocations in flight
    faults,
    cut         \* history: removed logins somebody still referred to

tables == <<owner, member, shoppers, founded>>
vars == <<logins, tables, events, requests, calls, faults, cut>>

Idle == [phase |-> "idle"]
Pending(e) == ~events[e].deleted /\ ~events[e].acknowledged
PendingEvents == {e \in DOMAIN events : Pending(e)}

Owns(u) == \E b \in Businesses : owner[b] = u
InUse(u) == Owns(u) \/ member[u] # NoBusiness

-----------------------------------------------------------------------------
\* An older event has no login recorded.
Init ==
    /\ logins = Logins
    /\ owner \in FirstOwners
    /\ member = [u \in Logins |-> IF Owns(u) THEN CHOOSE b \in Businesses : owner[b] = u
                                  ELSE NoBusiness]
    /\ shoppers = Shoppers
    /\ founded = {b \in Businesses : owner[b] # NoLogin}
    /\ events = <<[uid |-> NoLogin, deleted |-> FALSE, acknowledged |-> FALSE]>>
    /\ requests = {}
    /\ calls = [c \in Calls |-> Idle]
    /\ faults = 0
    /\ cut = {}

Fault == faults < MaxFaults /\ faults' = faults + 1

-----------------------------------------------------------------------------
(* The database functions, one transaction each *)

\* The event, and the request of its insert trigger.
RecordEvent(u) ==
    /\ Len(events) < MaxEvents
    /\ events' = Append(events, [uid |-> u, deleted |-> FALSE, acknowledged |-> FALSE])
    /\ requests' = requests \cup {Len(events) + 1}

\* The rows that go with a set of businesses.
Cascade(gone) ==
    /\ owner' = [b \in Businesses |-> IF b \in gone THEN NoLogin ELSE owner[b]]
    /\ member' = [u \in Logins |-> IF member[u] \in gone THEN NoBusiness ELSE member[u]]

DeleteBusiness(u, b) ==
    /\ u \in logins /\ owner[b] = u
    /\ Cascade({b})
    /\ RecordEvent(u)
    /\ UNCHANGED <<logins, shoppers, founded, calls, faults, cut>>

\* A login that owns a business or has a users row is kept.
ShopperDeleteAccount(u) ==
    /\ u \in logins \cap shoppers
    /\ shoppers' = shoppers \ {u}
    /\ IF InUse(u) THEN UNCHANGED <<events, requests>> ELSE RecordEvent(u)
    /\ UNCHANGED <<logins, owner, member, founded, calls, faults, cut>>

\* History: the calls that have found the login orphaned and not deleted it yet
\* do not know of a business it founds or joins now.
Unseen(u) ==
    calls' = [c \in Calls |->
                IF calls[c].phase = "delete" /\ events[calls[c].event].uid = u
                THEN [calls[c] EXCEPT !.unseen = TRUE] ELSE calls[c]]

\* Refused for a login with a users row in another business.
CompleteOnboarding(u, b) ==
    /\ u \in logins /\ b \notin founded
    /\ member[u] = NoBusiness
    /\ founded' = founded \cup {b}
    /\ owner' = [owner EXCEPT ![b] = u]
    /\ member' = [member EXCEPT ![u] = b]
    /\ Unseen(u)
    /\ UNCHANGED <<logins, shoppers, events, requests, faults, cut>>

RedeemInvite(u, b) ==
    /\ u \in logins /\ owner[b] \notin {NoLogin, u}
    /\ member[u] = NoBusiness
    /\ member' = [member EXCEPT ![u] = b]
    /\ Unseen(u)
    /\ UNCHANGED <<logins, owner, shoppers, founded, events, requests, faults, cut>>

-----------------------------------------------------------------------------
(* The invocations of reconcile-account-deletions *)

\* pg_net posts once.
LoseRequest(e) ==
    /\ Fault
    /\ requests' = requests \ {e}
    /\ UNCHANGED <<logins, tables, events, calls, cut>>

\* Variant: the event at hand stays on the list.
BeginsAgain(c, todo) ==
    \/ todo = {} /\ calls' = [calls EXCEPT ![c] = Idle]
    \/ \E e \in todo :
        /\ \A d \in todo : e <= d
        /\ calls' = [calls EXCEPT ![c] =
                       [phase |-> "businesses", event |-> e, todo |-> todo, unseen |-> FALSE]]

\* The oldest event of the list is next.
Begins(c, todo) ==
    \/ todo = {} /\ calls' = [calls EXCEPT ![c] = Idle]
    \/ \E e \in todo :
        /\ \A d \in todo : e <= d
        /\ calls' = [calls EXCEPT ![c] =
                       [phase |-> "businesses", event |-> e, todo |-> todo \ {e},
                        unseen |-> FALSE]]

\* A row that is resolved by now is skipped.
StartSingle(c, e) ==
    /\ calls[c] = Idle
    /\ requests' = requests \ {e}
    /\ Begins(c, IF Pending(e) THEN {e} ELSE {})
    /\ UNCHANGED <<logins, tables, events, faults, cut>>

\* The oldest pending rows.
Batch == {e \in PendingEvents : Cardinality({d \in PendingEvents : d < e}) < BATCH_LIMIT}

StartBatch(c) ==
    /\ calls[c] = Idle /\ PendingEvents # {}
    /\ Begins(c, Batch)
    /\ UNCHANGED <<logins, tables, events, requests, faults, cut>>

Event(c) == calls[c].event
Uid(c) == events[Event(c)].uid
Goes(c, phase) == calls' = [calls EXCEPT ![c].phase = phase]
NextEvent(c) == Begins(c, calls[c].todo)

\* An update of the event: its error is not looked at.
Stamps(c, value, lost) ==
    /\ IF lost THEN Fault /\ UNCHANGED events
       ELSE events' = [events EXCEPT ![Event(c)] = value] /\ UNCHANGED faults
    /\ NextEvent(c)

Resolved(c, deleted) == [events[Event(c)] EXCEPT !.acknowledged = TRUE,
                                                !.deleted = @ \/ deleted]

\* No login recorded: acknowledged without a lookup.
AcknowledgeNoLogin(c, lost) ==
    /\ calls[c].phase = "businesses" /\ Uid(c) = NoLogin
    /\ Stamps(c, Resolved(c, FALSE), lost)
    /\ UNCHANGED <<logins, tables, requests, cut>>

LookUpBusinesses(c) ==
    /\ calls[c].phase = "businesses" /\ Uid(c) # NoLogin
    /\ Goes(c, IF Owns(Uid(c)) THEN "retain" ELSE "users")
    /\ UNCHANGED <<logins, tables, events, requests, faults, cut>>

\* Variant: only owned businesses keep a login.
LookUpNoUsers(c) ==
    /\ calls[c].phase = "users"
    /\ Goes(c, "delete")
    /\ UNCHANGED <<logins, tables, events, requests, faults, cut>>

LookUpUsers(c) ==
    /\ calls[c].phase = "users"
    /\ Goes(c, IF member[Uid(c)] # NoBusiness THEN "retain" ELSE "delete")
    /\ UNCHANGED <<logins, tables, events, requests, faults, cut>>

Retain(c, lost) ==
    /\ calls[c].phase = "retain"
    /\ Stamps(c, Resolved(c, FALSE), lost)
    /\ UNCHANGED <<logins, tables, requests, cut>>

\* Variant: a login the Admin API does not find is a failure.
DeleteFoundLogin(c) ==
    LET u == Uid(c)
        gone == {b \in Businesses : owner[b] = u}
    IN  /\ calls[c].phase = "delete" /\ u \notin Undeletable
        /\ IF u \in logins THEN Goes(c, "stamp") ELSE NextEvent(c)
        /\ logins' = logins \ {u}
        /\ shoppers' = shoppers \ {u}
        /\ Cascade(gone)
        /\ cut' = IF InUse(u) /\ ~calls[c].unseen THEN cut \cup {u} ELSE cut
        /\ UNCHANGED <<founded, events, requests, faults>>

\* admin.deleteUser; a login that is not found is success.  What refers to the
\* login goes with it (owner_id and the shopper tables: ON DELETE CASCADE).
DeleteLogin(c) ==
    LET u == Uid(c)
        gone == {b \in Businesses : owner[b] = u}
    IN  /\ calls[c].phase = "delete" /\ u \notin Undeletable
        /\ Goes(c, "stamp")
        /\ logins' = logins \ {u}
        /\ shoppers' = shoppers \ {u}
        /\ Cascade(gone)
        /\ cut' = IF InUse(u) /\ ~calls[c].unseen THEN cut \cup {u} ELSE cut
        /\ UNCHANGED <<founded, events, requests, faults>>

\* Variants: a failed event is stamped as done; or acknowledged.
StepFailsStamps(c) ==
    /\ calls[c].phase \in {"businesses", "users", "delete"} /\ Uid(c) # NoLogin
    /\ IF calls[c].phase = "delete" /\ Uid(c) \in Undeletable THEN UNCHANGED faults ELSE Fault
    /\ Goes(c, "stamp")
    /\ UNCHANGED <<logins, tables, events, requests, cut>>

StepFailsAcknowledges(c) ==
    /\ calls[c].phase \in {"businesses", "users", "delete"} /\ Uid(c) # NoLogin
    /\ IF calls[c].phase = "delete" /\ Uid(c) \in Undeletable THEN UNCHANGED faults ELSE Fault
    /\ events' = [events EXCEPT ![Event(c)] = Resolved(c, FALSE)]
    /\ NextEvent(c)
    /\ UNCHANGED <<logins, tables, requests, cut>>

\* A lookup or the Admin API fails: the event stays pending for the next run.
StepFails(c) ==
    /\ calls[c].phase \in {"businesses", "users", "delete"} /\ Uid(c) # NoLogin
    /\ IF calls[c].phase = "delete" /\ Uid(c) \in Undeletable THEN UNCHANGED faults ELSE Fault
    /\ NextEvent(c)
    /\ UNCHANGED <<logins, tables, events, requests, cut>>

Stamp(c, lost) ==
    /\ calls[c].phase = "stamp"
    /\ Stamps(c, Resolved(c, TRUE), lost)
    /\ UNCHANGED <<logins, tables, requests, cut>>

CallDies(c) ==
    /\ calls[c] # Idle
    /\ Fault
    /\ calls' = [calls EXCEPT ![c] = Idle]
    /\ UNCHANGED <<logins, tables, events, requests, cut>>

-----------------------------------------------------------------------------
Step(c) ==
    \/ LookUpBusinesses(c) \/ LookUpUsers(c) \/ DeleteLogin(c) \/ StepFails(c)
    \/ \E lost \in BOOLEAN : AcknowledgeNoLogin(c, lost) \/ Retain(c, lost) \/ Stamp(c, lost)

Next ==
    \/ \E u \in Logins :
        \/ ShopperDeleteAccount(u)
        \/ \E b \in Businesses :
            DeleteBusiness(u, b) \/ CompleteOnboarding(u, b) \/ RedeemInvite(u, b)
    \/ \E e \in requests : LoseRequest(e) \/ \E c \in Calls : StartSingle(c, e)
    \/ \E c \in Calls : StartBatch(c) \/ Step(c) \/ CallDies(c)

\* The runtime finishes the calls it has started and the cron job comes again.
\* Nothing is assumed of the trigger's request or of the owners.
Fairness ==
    /\ \A c \in Calls : WF_vars(Step(c))
    /\ WF_vars(\E c \in Calls : StartBatch(c))

Spec == Init /\ [][Next]_vars /\ Fairness

-----------------------------------------------------------------------------
Phases == {"businesses", "users", "retain", "delete", "stamp"}

TypeOK ==
    /\ logins \subseteq Logins /\ shoppers \subseteq logins
    /\ owner \in [Businesses -> logins \cup {NoLogin}]
    /\ member \in [Logins -> founded \cup {NoBusiness}]
    /\ founded \subseteq Businesses
    /\ events \in Seq([uid : Logins \cup {NoLogin}, deleted : BOOLEAN, acknowledged : BOOLEAN])
    /\ requests \subseteq DOMAIN events
    /\ \A c \in Calls : calls[c] = Idle \/
          /\ calls[c] \in [phase : Phases, event : DOMAIN events, todo : SUBSET (DOMAIN events),
                           unseen : BOOLEAN]
          /\ \A e \in calls[c].todo : e > calls[c].event
    /\ faults \in 0..MaxFaults
    /\ cut \subseteq Logins

\* A login that owns a live business or works in one is only removed when it
\* was founded or joined after the function's lookups: a second business of the
\* same owner, or one founded or joined while the event waits, keeps the login.
LoginInUseKept == cut = {}

\* An event marked deleted is of a login that is gone, also when two calls
\* process it, one dies, or its stamp is lost and it is processed again.
DeletedMeansGone == \A e \in DOMAIN events : events[e].deleted => events[e].uid \notin logins

FoundInUse(u) == \E c \in Calls : calls[c].phase = "retain" /\ Uid(c) = u

\* The login of a deleted account does not linger: it is removed, or somebody
\* refers to it again, whatever request was lost or call died, unless the Admin
\* API keeps refusing it.
OrphanedLoginRemoved ==
    \A u \in Logins \ Undeletable :
        (/\ u \in logins /\ ~InUse(u) /\ ~FoundInUse(u)
         /\ \E e \in PendingEvents : events[e].uid = u)
            ~> (u \notin logins \/ InUse(u))

\* Every other event leaves the pending set.
EventsResolve ==
    \A e \in 1..MaxEvents :
        (e \in PendingEvents /\ events[e].uid \notin Undeletable) ~> (e \notin PendingEvents)
=============================================================================
