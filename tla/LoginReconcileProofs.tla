------------------------ MODULE LoginReconcileProofs ------------------------
(***************************************************************************)
(* Proofs about LoginReconcile, for any logins, businesses, invocations,   *)
(* batch limit and bounds.  The inductive invariant is Inv: type           *)
(* correctness, that an owned business was founded, and what an invocation *)
(* may still rely on between its awaits (CallOK): after the first lookup   *)
(* whatever the login owns is its own workplace, which the second lookup   *)
(* sees; after the second it is in use by nobody it could have known of;   *)
(* after the deletion it is gone.                                          *)
(***************************************************************************)
EXTENDS LoginReconcile, TLAPS

CallType == [phase : Phases, event : DOMAIN events, todo : SUBSET (DOMAIN events),
             unseen : BOOLEAN]

(* What an invocation k holds in memory is still good for.                 *)
CallOK(k) ==
  k = Idle \/
    LET u == events[k.event].uid IN
    /\ k \in CallType
    /\ \A e \in k.todo : e > k.event
    /\ k.phase \in {"users", "delete", "stamp"} => u \in Logins
    /\ k.phase = "users" => \A b \in Businesses : owner[b] = u => member[u] = b
    /\ k.phase = "delete" /\ ~k.unseen => ~InUse(u)
    /\ k.phase = "stamp" => u \notin logins

CallsOK == \A c \in Calls : CallOK(calls[c])

OwnedWasFounded == \A b \in Businesses : owner[b] # NoLogin => b \in founded

Record == [uid : Logins \cup {NoLogin}, deleted : BOOLEAN, acknowledged : BOOLEAN]

(* The types of everything but the invocations, which CallsOK has.         *)
TablesOK ==
  /\ logins \subseteq Logins /\ shoppers \subseteq logins
  /\ owner \in [Businesses -> logins \cup {NoLogin}]
  /\ member \in [Logins -> founded \cup {NoBusiness}]
  /\ founded \subseteq Businesses
  /\ events \in Seq(Record)
  /\ requests \subseteq DOMAIN events
  /\ calls \in [Calls -> {calls[c] : c \in Calls}]
  /\ faults \in 0..MaxFaults
  /\ cut \subseteq Logins

Inv == TablesOK /\ OwnedWasFounded /\ CallsOK /\ LoginInUseKept /\ DeletedMeansGone

LEMMA InvTyped == ASSUME Inv PROVE TypeOK
BY DEF Inv, TablesOK, CallsOK, CallOK, CallType, TypeOK, Record

-----------------------------------------------------------------------------
(* What an invocation may rely on survives every step that neither founds  *)
(* nor joins a business and keeps the logins of the recorded events.       *)
Shrinks ==
  /\ logins' \subseteq logins
  /\ \A b \in Businesses : owner'[b] = owner[b] \/ owner'[b] = NoLogin
  /\ \A u \in Logins :
        \/ member'[u] = member[u]
        \/ member'[u] = NoBusiness /\ owner'[member[u]] = NoLogin
  /\ DOMAIN events \subseteq DOMAIN events'
  /\ \A e \in DOMAIN events : events'[e].uid = events[e].uid

LEMMA CallSurvives ==
  ASSUME ConstantsAssumption, TablesOK, Shrinks, NEW k, CallOK(k)
  PROVE  CallOK(k)'
<1>1. CASE k = Idle
  BY <1>1 DEF CallOK
<1>2. CASE k # Idle
  <2> DEFINE u == events[k.event].uid
  <2>1. k \in CallType /\ k.event \in DOMAIN events /\ k.todo \subseteq DOMAIN events
    BY <1>2 DEF CallOK, CallType
  <2>2. k \in CallType' /\ events'[k.event].uid = u
    BY <2>1 DEF CallType, Shrinks
  <2>3. \A e \in k.todo : e > k.event
    BY <1>2 DEF CallOK
  <2>4. k.phase \in {"users", "delete", "stamp"} => u \in Logins
    BY <1>2 DEF CallOK
  <2>5. ASSUME k.phase = "users", NEW b \in Businesses, owner'[b] = u
        PROVE  member'[u] = b
    <3>1. u \in Logins /\ owner[b] = u /\ member[u] = b
      BY <1>2, <2>4, <2>5 DEF CallOK, Shrinks, ConstantsAssumption
    <3> QED  BY <2>5, <3>1 DEF Shrinks, ConstantsAssumption
  <2>6. ASSUME k.phase = "delete", ~k.unseen
        PROVE  ~InUse(u)'
    <3>1. u \in Logins /\ member[u] = NoBusiness /\ \A b \in Businesses : owner[b] # u
      BY <1>2, <2>4, <2>6 DEF CallOK, InUse, Owns
    <3>2. member'[u] = NoBusiness /\ \A b \in Businesses : owner'[b] # u
      BY <3>1 DEF Shrinks, ConstantsAssumption
    <3> QED  BY <2>2, <3>2 DEF InUse, Owns
  <2>7. k.phase = "stamp" => u \notin logins'
    BY <1>2 DEF CallOK, Shrinks
  <2> QED  BY <2>2, <2>3, <2>4, <2>5, <2>6, <2>7 DEF CallOK
<1> QED  BY <1>1, <1>2

(* A step of one invocation leaves the others as they are.                 *)
LEMMA OthersSurvive ==
  ASSUME ConstantsAssumption, Inv, Shrinks, NEW c \in Calls,
         \A d \in Calls \ {c} : calls'[d] = calls[d],
         CallOK(calls[c])'
  PROVE  CallsOK'
<1> SUFFICES ASSUME NEW d \in Calls, d # c
             PROVE  CallOK(calls[d])'
  BY DEF CallsOK
<1>1. PICK k : k = calls[d]
  OBVIOUS
<1>2. CallOK(k)
  BY <1>1 DEF Inv, CallsOK
<1>3. CallOK(k)'
  BY <1>2, CallSurvives DEF Inv
<1>4. calls'[d] = k
  BY <1>1
<1> QED  BY <1>3, <1>4 DEF CallOK

LEMMA AllSurvive ==
  ASSUME ConstantsAssumption, Inv, Shrinks, UNCHANGED calls
  PROVE  CallsOK'
<1> SUFFICES ASSUME NEW d \in Calls
             PROVE  CallOK(calls[d])'
  BY DEF CallsOK
<1>1. PICK k : k = calls[d]
  OBVIOUS
<1>2. CallOK(k)
  BY <1>1 DEF Inv, CallsOK
<1>3. CallOK(k)'
  BY <1>2, CallSurvives DEF Inv
<1>4. calls'[d] = k
  BY <1>1
<1> QED  BY <1>3, <1>4 DEF CallOK

(* An invocation that turns to its next event relies on nothing yet.       *)
LEMMA BeginsFresh ==
  ASSUME ConstantsAssumption, TablesOK, NEW c \in Calls, NEW todo, Begins(c, todo),
         todo \subseteq DOMAIN events, DOMAIN events' = DOMAIN events
  PROVE  /\ calls' \in [Calls -> {calls'[d] : d \in Calls}]
         /\ \A d \in Calls \ {c} : calls'[d] = calls[d]
         /\ CallOK(calls[c])'
<1>1. calls \in [Calls -> {calls[d] : d \in Calls}] /\ DOMAIN events \subseteq Nat
  BY DEF TablesOK
<1>2. CASE todo = {} /\ calls' = [calls EXCEPT ![c] = Idle]
  BY <1>1, <1>2 DEF CallOK, Idle
<1>3. ASSUME NEW e \in todo, \A d \in todo : e <= d,
             calls' = [calls EXCEPT ![c] =
               [phase |-> "businesses", event |-> e, todo |-> todo \ {e}, unseen |-> FALSE]]
      PROVE  /\ calls' \in [Calls -> {calls'[d] : d \in Calls}]
             /\ \A d \in Calls \ {c} : calls'[d] = calls[d]
             /\ CallOK(calls[c])'
  <2> DEFINE k == [phase |-> "businesses", event |-> e, todo |-> todo \ {e}, unseen |-> FALSE]
  <2>1. calls'[c] = k /\ \A d \in Calls \ {c} : calls'[d] = calls[d]
    BY <1>1, <1>3
  <2>2. k \in CallType'
    BY <1>3 DEF CallType, Phases
  <2>3. \A d \in k.todo : d > k.event
    BY <1>1, <1>3
  <2>4. CallOK(calls[c])'
    BY <2>1, <2>2, <2>3 DEF CallOK
  <2> QED  BY <1>1, <1>3, <2>1, <2>4
<1> QED  BY <1>2, <1>3 DEF Begins

-----------------------------------------------------------------------------
LEMMA InitInv == ASSUME ConstantsAssumption, Init PROVE Inv
<1> USE ConstantsAssumption
<1>1. owner \in [Businesses -> Logins \cup {NoLogin}]
  BY DEF Init, ConstantsAssumption
<1>2. member \in [Logins -> founded \cup {NoBusiness}]
  <2>1. ASSUME NEW u \in Logins, Owns(u)
        PROVE  (CHOOSE b \in Businesses : owner[b] = u) \in founded
    <3>1. \E b \in Businesses : owner[b] = u
      BY <2>1 DEF Owns
    <3>2. /\ (CHOOSE b \in Businesses : owner[b] = u) \in Businesses
          /\ owner[CHOOSE b \in Businesses : owner[b] = u] = u
      BY <3>1
    <3> QED  BY <3>2 DEF Init, ConstantsAssumption
  <2> QED  BY <2>1 DEF Init
<1>3. events \in Seq(Record) /\ DOMAIN events = {1} /\ events[1].deleted = FALSE
  BY DEF Init, Record
<1>4. TablesOK
  BY <1>1, <1>2, <1>3 DEF Init, TablesOK, ConstantsAssumption
<1>5. CallsOK
  BY DEF Init, CallsOK, CallOK
<1>6. OwnedWasFounded /\ LoginInUseKept /\ DeletedMeansGone
  BY <1>3 DEF Init, OwnedWasFounded, LoginInUseKept, DeletedMeansGone
<1> QED  BY <1>4, <1>5, <1>6 DEF Inv

(* Recording an event keeps the events there are and adds a pending one.   *)
LEMMA EventRecorded ==
  ASSUME TablesOK, DeletedMeansGone, NEW u \in Logins, RecordEvent(u), UNCHANGED logins
  PROVE  /\ events' \in Seq(Record) /\ requests' \subseteq DOMAIN events'
         /\ DOMAIN events \subseteq DOMAIN events'
         /\ \A e \in DOMAIN events : events'[e].uid = events[e].uid
         /\ DeletedMeansGone'
<1> DEFINE r == [uid |-> u, deleted |-> FALSE, acknowledged |-> FALSE]
<1>1. events \in Seq(Record) /\ r \in Record /\ events' = Append(events, r)
  BY DEF TablesOK, RecordEvent, Record
<1>2. /\ events' \in Seq(Record) /\ Len(events') = Len(events) + 1
      /\ \A e \in DOMAIN events : events'[e] = events[e]
      /\ events'[Len(events) + 1] = r
      /\ DOMAIN events = 1 .. Len(events) /\ DOMAIN events' = 1 .. Len(events')
      /\ Len(events) \in Nat
  BY <1>1
<1>3. DOMAIN events' = DOMAIN events \cup {Len(events) + 1}
  BY <1>2
<1>4. requests' \subseteq DOMAIN events'
  BY <1>3 DEF TablesOK, RecordEvent
<1>5. DeletedMeansGone'
  BY <1>2, <1>3 DEF DeletedMeansGone
<1> QED  BY <1>2, <1>3, <1>4, <1>5

(* Cascading the deletion of businesses only takes away.                   *)
LEMMA CascadeShrinks ==
  ASSUME ConstantsAssumption, TablesOK, NEW gone \in SUBSET Businesses, Cascade(gone)
  PROVE  /\ owner' \in [Businesses -> logins \cup {NoLogin}]
         /\ member' \in [Logins -> founded \cup {NoBusiness}]
         /\ \A b \in Businesses : owner'[b] = IF b \in gone THEN NoLogin ELSE owner[b]
         /\ \A u \in Logins :
               \/ member'[u] = member[u]
               \/ member'[u] = NoBusiness /\ owner'[member[u]] = NoLogin
BY DEF TablesOK, Cascade, ConstantsAssumption

-----------------------------------------------------------------------------
(* The database functions.                                                 *)
LEMMA DeleteBusinessKeeps ==
  ASSUME ConstantsAssumption, Inv, NEW u \in Logins, NEW b \in Businesses,
         DeleteBusiness(u, b)
  PROVE  Inv'
<1>1. TablesOK /\ DeletedMeansGone /\ UNCHANGED <<logins, shoppers, founded, calls, faults, cut>>
  BY DEF Inv, DeleteBusiness
<1>2. /\ events' \in Seq(Record) /\ requests' \subseteq DOMAIN events'
      /\ DOMAIN events \subseteq DOMAIN events'
      /\ \A e \in DOMAIN events : events'[e].uid = events[e].uid
      /\ DeletedMeansGone'
  BY <1>1, EventRecorded DEF DeleteBusiness
<1>3. /\ owner' \in [Businesses -> logins \cup {NoLogin}]
      /\ member' \in [Logins -> founded \cup {NoBusiness}]
      /\ \A d \in Businesses : owner'[d] = IF d \in {b} THEN NoLogin ELSE owner[d]
      /\ \A v \in Logins :
            \/ member'[v] = member[v]
            \/ member'[v] = NoBusiness /\ owner'[member[v]] = NoLogin
  <2>1. {b} \in SUBSET Businesses /\ Cascade({b})
    BY DEF DeleteBusiness
  <2> QED  BY <1>1, <2>1, CascadeShrinks
<1>4. TablesOK'
  BY <1>1, <1>2, <1>3 DEF TablesOK
<1>5. Shrinks
  BY <1>1, <1>2, <1>3 DEF Shrinks
<1>6. CallsOK'
  BY <1>1, <1>5, AllSurvive
<1>7. OwnedWasFounded' /\ LoginInUseKept'
  BY <1>1, <1>3 DEF Inv, OwnedWasFounded, LoginInUseKept
<1> QED  BY <1>2, <1>4, <1>6, <1>7 DEF Inv

LEMMA ShopperDeleteAccountKeeps ==
  ASSUME ConstantsAssumption, Inv, NEW u \in Logins, ShopperDeleteAccount(u)
  PROVE  Inv'
<1>1. /\ TablesOK /\ DeletedMeansGone
      /\ UNCHANGED <<logins, owner, member, founded, calls, faults, cut>>
      /\ shoppers' \subseteq shoppers
  BY DEF Inv, ShopperDeleteAccount
<1>2. /\ events' \in Seq(Record) /\ requests' \subseteq DOMAIN events'
      /\ DOMAIN events \subseteq DOMAIN events'
      /\ \A e \in DOMAIN events : events'[e].uid = events[e].uid
      /\ DeletedMeansGone'
  <2>1. CASE InUse(u)
    BY <1>1, <2>1 DEF ShopperDeleteAccount, TablesOK, DeletedMeansGone
  <2>2. CASE ~InUse(u)
    <3>1. RecordEvent(u)
      BY <2>2 DEF ShopperDeleteAccount
    <3> QED  BY <1>1, <3>1, EventRecorded
  <2> QED  BY <2>1, <2>2
<1>3. TablesOK'
  BY <1>1, <1>2 DEF TablesOK
<1>4. Shrinks
  BY <1>1, <1>2 DEF Shrinks
<1>5. CallsOK'
  BY <1>1, <1>4, AllSurvive
<1>6. OwnedWasFounded' /\ LoginInUseKept'
  BY <1>1 DEF Inv, OwnedWasFounded, LoginInUseKept
<1> QED  BY <1>2, <1>3, <1>5, <1>6 DEF Inv

(* A login that founds or joins a business had no users row: an invocation *)
(* between its lookups finds the new one, and one about to delete it is    *)
(* marked as not having seen it.                                           *)
LEMMA NewUseSurvives ==
  ASSUME ConstantsAssumption, Inv, NEW u \in Logins, NEW b \in Businesses,
         member[u] = NoBusiness, member' = [member EXCEPT ![u] = b],
         Unseen(u), UNCHANGED <<logins, events>>,
         \A d \in Businesses : owner'[d] = owner[d] \/ (d = b /\ owner'[d] = u)
  PROVE  CallsOK'
<1> SUFFICES ASSUME NEW c \in Calls
             PROVE  CallOK(calls[c])'
  BY DEF CallsOK
<1> DEFINE marked == calls[c].phase = "delete" /\ events[calls[c].event].uid = u
<1>1. PICK k : k = calls[c]
  OBVIOUS
<1>2. CallOK(k) /\ member \in [Logins -> founded \cup {NoBusiness}]
  BY <1>1 DEF Inv, CallsOK, TablesOK
<1>3. calls'[c] = IF k.phase = "delete" /\ events[k.event].uid = u
                  THEN [k EXCEPT !.unseen = TRUE] ELSE k
  BY <1>1 DEF Unseen
<1>4. CASE k = Idle
  BY <1>3, <1>4 DEF CallOK, Idle
<1>5. CASE k # Idle /\ k.phase = "delete" /\ events[k.event].uid = u
  <2>1. /\ k \in CallType /\ \A e \in k.todo : e > k.event
    BY <1>2, <1>5 DEF CallOK
  <2>2. PICK j : j = [k EXCEPT !.unseen = TRUE]
    OBVIOUS
  <2>3. /\ j \in CallType' /\ j.phase = "delete" /\ j.unseen = TRUE
        /\ j.todo = k.todo /\ j.event = k.event
    BY <1>5, <2>1, <2>2 DEF CallType
  <2>4. CallOK(j)'
    BY <1>5, <2>1, <2>3 DEF CallOK
  <2> QED  BY <1>3, <1>5, <2>2, <2>4 DEF CallOK
<1>6. CASE k # Idle /\ ~(k.phase = "delete" /\ events[k.event].uid = u)
  <2>1. calls'[c] = k
    BY <1>3, <1>6
  <2>2. k \in CallType' /\ \A e \in k.todo : e > k.event
    BY <1>2, <1>6 DEF CallOK, CallType
  <2>3. k.phase \in {"users", "delete", "stamp"} => events[k.event].uid \in Logins
    BY <1>2, <1>6 DEF CallOK
  <2>4. ASSUME k.phase = "users", NEW d \in Businesses, owner'[d] = events[k.event].uid
        PROVE  member'[events[k.event].uid] = d
    <3>1. \A a \in Businesses : owner[a] = events[k.event].uid
                                  => member[events[k.event].uid] = a
      BY <1>2, <1>6, <2>4 DEF CallOK
    <3>2. NoBusiness \notin Businesses
      BY DEF ConstantsAssumption
    <3> QED  BY <1>2, <2>3, <2>4, <3>1, <3>2
  <2>5. k.phase = "delete" /\ ~k.unseen => ~InUse(events[k.event].uid)'
    <3>1. k.phase = "delete" => events[k.event].uid # u
      BY <1>6
    <3> QED  BY <1>2, <1>6, <2>3, <3>1 DEF CallOK, InUse, Owns
  <2>6. k.phase = "stamp" => events[k.event].uid \notin logins'
    BY <1>2, <1>6 DEF CallOK
  <2>7. CallOK(k)'
    BY <2>2, <2>3, <2>4, <2>5, <2>6 DEF CallOK
  <2> QED  BY <2>1, <2>7 DEF CallOK
<1> QED  BY <1>4, <1>5, <1>6

LEMMA NewUseKeeps ==
  ASSUME ConstantsAssumption, Inv, NEW u \in Logins, NEW b \in Businesses,
         CompleteOnboarding(u, b) \/ RedeemInvite(u, b)
  PROVE  Inv'
<1>1. /\ member[u] = NoBusiness /\ member' = [member EXCEPT ![u] = b] /\ Unseen(u)
      /\ UNCHANGED <<logins, shoppers, events, requests, faults, cut>> /\ u \in logins
  BY DEF CompleteOnboarding, RedeemInvite
<1>2. /\ owner' \in [Businesses -> logins \cup {NoLogin}]
      /\ \A d \in Businesses : owner'[d] = owner[d] \/ (d = b /\ owner'[d] = u)
      /\ founded \subseteq founded' /\ founded' \subseteq Businesses /\ b \in founded'
      /\ \A d \in Businesses : owner'[d] # NoLogin => d \in founded'
  <2>1. owner \in [Businesses -> logins \cup {NoLogin}] /\ founded \subseteq Businesses
    BY DEF Inv, TablesOK
  <2>2. CASE CompleteOnboarding(u, b)
    BY <1>1, <2>1, <2>2 DEF CompleteOnboarding, Inv, OwnedWasFounded
  <2>3. CASE RedeemInvite(u, b)
    BY <2>1, <2>3 DEF RedeemInvite, Inv, OwnedWasFounded
  <2> QED  BY <2>2, <2>3
<1>3. CallsOK'
  BY <1>1, <1>2, NewUseSurvives
<1>4. calls' \in [Calls -> {calls'[c] : c \in Calls}]
  BY <1>1 DEF Unseen
<1>5. member' \in [Logins -> founded' \cup {NoBusiness}]
  BY <1>1, <1>2 DEF Inv, TablesOK
<1>6. TablesOK'
  BY <1>1, <1>2, <1>4, <1>5 DEF Inv, TablesOK
<1>7. OwnedWasFounded' /\ LoginInUseKept' /\ DeletedMeansGone'
  BY <1>1, <1>2 DEF Inv, OwnedWasFounded, LoginInUseKept, DeletedMeansGone
<1> QED  BY <1>3, <1>6, <1>7 DEF Inv

-----------------------------------------------------------------------------
(* The invocations: what a step leaves alone is enough for the rest of the *)
(* invariant once the invocation itself is accounted for.                  *)
LEMMA CallStepKeeps ==
  ASSUME ConstantsAssumption, Inv, NEW c \in Calls,
         \A d \in Calls \ {c} : calls'[d] = calls[d], CallOK(calls[c])',
         calls' \in [Calls -> {calls'[d] : d \in Calls}],
         UNCHANGED <<logins, owner, member, shoppers, founded, cut>>,
         requests' \subseteq requests, faults' \in 0..MaxFaults,
         events' \in Seq(Record), DOMAIN events' = DOMAIN events,
         \A e \in DOMAIN events : /\ events'[e].uid = events[e].uid
                                  /\ events'[e].deleted =>
                                       events[e].deleted \/ events[e].uid \notin logins
  PROVE  Inv'
<1>1. Shrinks
  BY DEF Shrinks
<1>2. CallsOK'
  BY <1>1, OthersSurvive
<1>3. TablesOK'
  BY DEF Inv, TablesOK
<1>4. OwnedWasFounded' /\ LoginInUseKept' /\ DeletedMeansGone'
  BY DEF Inv, OwnedWasFounded, LoginInUseKept, DeletedMeansGone
<1> QED  BY <1>2, <1>3, <1>4 DEF Inv

LEMMA EventsAsTheyAre ==
  ASSUME Inv, UNCHANGED events
  PROVE  /\ events' \in Seq(Record) /\ DOMAIN events' = DOMAIN events
         /\ \A e \in DOMAIN events : /\ events'[e].uid = events[e].uid
                                     /\ events'[e].deleted =>
                                          events[e].deleted \/ events[e].uid \notin logins
BY DEF Inv, TablesOK

LEMMA FaultCounted ==
  ASSUME ConstantsAssumption, Inv, Fault \/ UNCHANGED faults
  PROVE  faults' \in 0..MaxFaults
BY DEF ConstantsAssumption, Inv, TablesOK, Fault

(* An invocation at work holds an event that is recorded.                  *)
LEMMA AtWork ==
  ASSUME Inv, NEW c \in Calls, calls[c].phase \in Phases
  PROVE  /\ calls[c] # Idle /\ calls[c] \in CallType
         /\ calls[c].event \in DOMAIN events /\ calls[c].todo \subseteq DOMAIN events
         /\ events[calls[c].event] \in Record
<1>1. calls[c] # Idle
  BY DEF Idle, Phases
<1>2. calls[c] \in CallType
  BY <1>1 DEF Inv, CallsOK, CallOK
<1>3. events \in Seq(Record)
  BY DEF Inv, TablesOK
<1> QED  BY <1>1, <1>2, <1>3 DEF CallType

(* Turning to the next event, with or without the stamp of this one.       *)
LEMMA NextEventKeeps ==
  ASSUME ConstantsAssumption, Inv, NEW c \in Calls, calls[c].phase \in Phases, NextEvent(c),
         Fault \/ UNCHANGED faults, UNCHANGED <<logins, tables, events, requests, cut>>
  PROVE  Inv'
<1>1. calls[c].todo \subseteq DOMAIN events
  BY AtWork
<1>2. /\ calls' \in [Calls -> {calls'[d] : d \in Calls}]
      /\ \A d \in Calls \ {c} : calls'[d] = calls[d]
      /\ CallOK(calls[c])'
  BY <1>1, BeginsFresh DEF NextEvent, Inv
<1> QED
  BY <1>2, CallStepKeeps, EventsAsTheyAre, FaultCounted DEF tables

LEMMA StampsKeep ==
  ASSUME ConstantsAssumption, Inv, NEW c \in Calls, calls[c].phase \in Phases,
         NEW deleted \in BOOLEAN, NEW lost \in BOOLEAN,
         Stamps(c, Resolved(c, deleted), lost), deleted => Uid(c) \notin logins,
         UNCHANGED <<logins, tables, requests, cut>>
  PROVE  Inv'
<1> DEFINE e == calls[c].event
           r == [events[e] EXCEPT !.acknowledged = TRUE, !.deleted = @ \/ deleted]
<1>1. e \in DOMAIN events /\ events[e] \in Record /\ calls[c].todo \subseteq DOMAIN events
  BY AtWork
<1>2. CASE lost
  <2>1. NextEvent(c) /\ Fault /\ UNCHANGED events
    BY <1>2 DEF Stamps
  <2> QED  BY <2>1, NextEventKeeps
<1>3. CASE ~lost
  <2>1. /\ NextEvent(c) /\ UNCHANGED faults
        /\ events' = [events EXCEPT ![e] = r]
    BY <1>3 DEF Stamps, Resolved, Event
  <2>2. r \in Record /\ r.uid = events[e].uid /\ (r.deleted => events[e].deleted \/ deleted)
    BY <1>1 DEF Record
  <2>3. /\ events' \in Seq(Record) /\ DOMAIN events' = DOMAIN events
        /\ events'[e] = r /\ \A d \in DOMAIN events : d # e => events'[d] = events[d]
    BY <1>1, <2>1, <2>2 DEF Inv, TablesOK
  <2>4. \A d \in DOMAIN events : /\ events'[d].uid = events[d].uid
                                 /\ events'[d].deleted =>
                                      events[d].deleted \/ events[d].uid \notin logins
    BY <2>2, <2>3 DEF Uid, Event
  <2>5. /\ calls' \in [Calls -> {calls'[d] : d \in Calls}]
        /\ \A d \in Calls \ {c} : calls'[d] = calls[d]
        /\ CallOK(calls[c])'
    BY <1>1, <2>1, <2>3, BeginsFresh DEF NextEvent, Inv
  <2> QED
    BY <2>1, <2>3, <2>4, <2>5, CallStepKeeps, FaultCounted DEF tables
<1> QED  BY <1>2, <1>3

(* Moving on to the next phase of the same event.                          *)
LEMMA GoesKeeps ==
  ASSUME ConstantsAssumption, Inv, NEW c \in Calls, calls[c].phase \in Phases,
         NEW phase \in Phases, Goes(c, phase), NEW u, u = Uid(c),
         phase \in {"users", "delete", "stamp"} => u \in Logins,
         phase = "users" => \A b \in Businesses : owner'[b] = u => member'[u] = b,
         phase = "delete" => ~InUse(u)',
         phase = "stamp" => u \notin logins',
         UNCHANGED events
  PROVE  /\ calls' \in [Calls -> {calls'[d] : d \in Calls}]
         /\ \A d \in Calls \ {c} : calls'[d] = calls[d]
         /\ CallOK(calls[c])'
<1>1. PICK k : k = calls[c]
  OBVIOUS
<1>2. k \in CallType /\ k # Idle /\ CallOK(k)
  BY <1>1, AtWork DEF Inv, CallsOK
<1>3. PICK j : j = [k EXCEPT !.phase = phase]
  OBVIOUS
<1>4. calls \in [Calls -> {calls[d] : d \in Calls}]
  BY DEF Inv, TablesOK
<1>5. calls' = [calls EXCEPT ![c] = j]
  BY <1>1, <1>3, <1>4 DEF Goes
<1>6. calls'[c] = j /\ \A d \in Calls \ {c} : calls'[d] = calls[d]
  BY <1>4, <1>5
<1>7. j \in CallType' /\ j.phase = phase /\ j.event = k.event /\ j.todo = k.todo
  BY <1>2, <1>3 DEF CallType
<1>8. \A e \in j.todo : e > j.event
  BY <1>2, <1>7 DEF CallOK
<1>9. u = events'[j.event].uid
  BY <1>1, <1>7 DEF Uid, Event
<1>10. CallOK(j)'
  BY <1>7, <1>8, <1>9 DEF CallOK, InUse, Owns
<1>11. calls' \in [Calls -> {calls'[d] : d \in Calls}]
  BY <1>4, <1>5
<1> QED  BY <1>6, <1>10, <1>11 DEF CallOK

LEMMA LookUpBusinessesKeeps ==
  ASSUME ConstantsAssumption, Inv, NEW c \in Calls, LookUpBusinesses(c)
  PROVE  Inv'
<1>0. PICK u : u = Uid(c)
  OBVIOUS
<1> DEFINE next == IF Owns(u) THEN "retain" ELSE "users"
<1>1. calls[c].phase \in Phases /\ next \in Phases /\ Goes(c, next)
  BY <1>0 DEF LookUpBusinesses, Phases
<1>2. u \in Logins
  BY <1>0, <1>1, AtWork DEF LookUpBusinesses, Uid, Event, Record
<1>3. UNCHANGED <<logins, owner, member, shoppers, founded, cut, events, requests, faults>>
  BY DEF LookUpBusinesses, tables
<1>4. next = "users" => \A b \in Businesses : owner'[b] = u => member'[u] = b
  BY <1>3 DEF Owns
<1>5. /\ calls' \in [Calls -> {calls'[d] : d \in Calls}]
      /\ \A d \in Calls \ {c} : calls'[d] = calls[d]
      /\ CallOK(calls[c])'
  BY <1>0, <1>1, <1>2, <1>3, <1>4, GoesKeeps
<1> QED  BY <1>3, <1>5, CallStepKeeps, EventsAsTheyAre, FaultCounted

(* After the second lookup nobody refers to the login: what it owns would  *)
(* be its workplace, and it has none.                                      *)
LEMMA LookUpUsersKeeps ==
  ASSUME ConstantsAssumption, Inv, NEW c \in Calls, LookUpUsers(c)
  PROVE  Inv'
<1>0. PICK u : u = Uid(c)
  OBVIOUS
<1> DEFINE next == IF member[u] # NoBusiness THEN "retain" ELSE "delete"
<1>1. calls[c].phase \in Phases /\ next \in Phases /\ Goes(c, next)
  BY <1>0 DEF LookUpUsers, Phases
<1>2. CallOK(calls[c]) /\ calls[c] # Idle /\ calls[c].phase = "users"
  BY <1>1, AtWork DEF Inv, CallsOK, LookUpUsers
<1>3. u \in Logins /\ \A b \in Businesses : owner[b] = u => member[u] = b
  BY <1>0, <1>2 DEF CallOK, Uid, Event
<1>4. UNCHANGED <<logins, owner, member, shoppers, founded, cut, events, requests, faults>>
  BY DEF LookUpUsers, tables
<1>5. next = "delete" => ~InUse(u)'
  <2>1. next = "delete" => ~InUse(u)
    BY <1>3 DEF InUse, Owns, ConstantsAssumption
  <2> QED  BY <1>4, <2>1 DEF InUse, Owns
<1>6. /\ calls' \in [Calls -> {calls'[d] : d \in Calls}]
      /\ \A d \in Calls \ {c} : calls'[d] = calls[d]
      /\ CallOK(calls[c])'
  BY <1>0, <1>1, <1>3, <1>4, <1>5, GoesKeeps
<1> QED  BY <1>4, <1>6, CallStepKeeps, EventsAsTheyAre, FaultCounted

(* The deletion: nobody referred to the login at the lookups, so whoever   *)
(* does now is marked as unseen and the history stays empty.               *)
LEMMA DeleteLoginKeeps ==
  ASSUME ConstantsAssumption, Inv, NEW c \in Calls, DeleteLogin(c)
  PROVE  Inv'
<1>0. PICK u : u = Uid(c)
  OBVIOUS
<1> DEFINE gone == {b \in Businesses : owner[b] = u}
<1>1. /\ calls[c].phase = "delete" /\ calls[c].phase \in Phases /\ Goes(c, "stamp")
      /\ logins' = logins \ {u} /\ shoppers' = shoppers \ {u} /\ Cascade(gone)
      /\ cut' = IF InUse(u) /\ ~calls[c].unseen THEN cut \cup {u} ELSE cut
      /\ UNCHANGED <<founded, events, requests, faults>>
  BY <1>0 DEF DeleteLogin, Phases
<1>2. CallOK(calls[c]) /\ calls[c] # Idle
  BY <1>1, AtWork DEF Inv, CallsOK
<1>3. u \in Logins /\ (~calls[c].unseen => ~InUse(u))
  BY <1>0, <1>1, <1>2 DEF CallOK, Uid, Event
<1>4. cut' = cut
  BY <1>1, <1>3
<1>5. /\ owner' \in [Businesses -> logins \cup {NoLogin}]
      /\ member' \in [Logins -> founded \cup {NoBusiness}]
      /\ \A b \in Businesses : owner'[b] = IF b \in gone THEN NoLogin ELSE owner[b]
      /\ \A v \in Logins :
            \/ member'[v] = member[v]
            \/ member'[v] = NoBusiness /\ owner'[member[v]] = NoLogin
  <2>1. gone \in SUBSET Businesses /\ TablesOK
    BY DEF Inv
  <2> QED  BY <1>1, <2>1, CascadeShrinks
<1>6. owner' \in [Businesses -> logins' \cup {NoLogin}]
  <2>1. u # NoLogin
    BY <1>3 DEF ConstantsAssumption
  <2>2. \A b \in Businesses : owner'[b] # u
    BY <1>5, <2>1
  <2> QED  BY <1>1, <1>5, <2>2
<1>7. Shrinks
  BY <1>1, <1>5 DEF Shrinks
<1>8. /\ calls' \in [Calls -> {calls'[d] : d \in Calls}]
      /\ \A d \in Calls \ {c} : calls'[d] = calls[d]
      /\ CallOK(calls[c])'
  <2>1. "stamp" \in Phases /\ u \notin logins' /\ UNCHANGED events
    BY <1>1 DEF Phases
  <2> QED  BY <1>0, <1>1, <1>3, <2>1, GoesKeeps
<1>9. CallsOK'
  BY <1>7, <1>8, OthersSurvive
<1>10. TablesOK'
  BY <1>1, <1>4, <1>5, <1>6, <1>8 DEF Inv, TablesOK
<1>11. OwnedWasFounded' /\ LoginInUseKept' /\ DeletedMeansGone'
  BY <1>1, <1>4, <1>5 DEF Inv, OwnedWasFounded, LoginInUseKept, DeletedMeansGone
<1> QED  BY <1>9, <1>10, <1>11 DEF Inv

LEMMA StepKeeps ==
  ASSUME ConstantsAssumption, Inv, NEW c \in Calls, Step(c)
  PROVE  Inv'
<1>1. CASE LookUpBusinesses(c)
  BY <1>1, LookUpBusinessesKeeps
<1>2. CASE LookUpUsers(c)
  BY <1>2, LookUpUsersKeeps
<1>3. CASE DeleteLogin(c)
  BY <1>3, DeleteLoginKeeps
<1>4. CASE StepFails(c)
  <2>1. /\ calls[c].phase \in Phases /\ NextEvent(c) /\ (Fault \/ UNCHANGED faults)
        /\ UNCHANGED <<logins, tables, events, requests, cut>>
    BY <1>4 DEF StepFails, Phases
  <2> QED  BY <2>1, NextEventKeeps
<1>5. ASSUME NEW lost \in BOOLEAN, AcknowledgeNoLogin(c, lost) \/ Retain(c, lost)
      PROVE  Inv'
  <2>1. /\ calls[c].phase \in Phases /\ Stamps(c, Resolved(c, FALSE), lost)
        /\ UNCHANGED <<logins, tables, requests, cut>>
    BY <1>5 DEF AcknowledgeNoLogin, Retain, Phases
  <2> QED  BY <2>1, StampsKeep
<1>6. ASSUME NEW lost \in BOOLEAN, Stamp(c, lost)
      PROVE  Inv'
  <2>1. /\ calls[c].phase = "stamp" /\ calls[c].phase \in Phases
        /\ Stamps(c, Resolved(c, TRUE), lost)
        /\ UNCHANGED <<logins, tables, requests, cut>>
    BY <1>6 DEF Stamp, Phases
  <2>2. CallOK(calls[c]) /\ calls[c] # Idle
    BY <2>1, AtWork DEF Inv, CallsOK
  <2>3. Uid(c) \notin logins
    BY <2>1, <2>2 DEF CallOK, Uid, Event
  <2> QED  BY <2>1, <2>3, StampsKeep
<1> QED  BY <1>1, <1>2, <1>3, <1>4, <1>5, <1>6 DEF Step

LEMMA StartsKeep ==
  ASSUME ConstantsAssumption, Inv, NEW c \in Calls,
         StartBatch(c) \/ (\E e \in requests : StartSingle(c, e))
  PROVE  Inv'
<1>1. PICK todo : /\ Begins(c, todo) /\ todo \subseteq DOMAIN events
                  /\ UNCHANGED <<logins, tables, events, faults, cut>>
                  /\ requests' \subseteq requests
  <2>1. CASE StartBatch(c)
    <3>1. Batch \subseteq DOMAIN events
      BY DEF Batch, PendingEvents
    <3> QED  BY <2>1, <3>1 DEF StartBatch
  <2>2. ASSUME NEW e \in requests, StartSingle(c, e)
        PROVE  \E todo : /\ Begins(c, todo) /\ todo \subseteq DOMAIN events
                         /\ UNCHANGED <<logins, tables, events, faults, cut>>
                         /\ requests' \subseteq requests
    <3> DEFINE todo == IF Pending(e) THEN {e} ELSE {}
    <3>1. todo \subseteq DOMAIN events
      BY DEF Inv, TablesOK
    <3>2. /\ Begins(c, todo) /\ UNCHANGED <<logins, tables, events, faults, cut>>
          /\ requests' \subseteq requests
      BY <2>2 DEF StartSingle
    <3> QED  BY <3>1, <3>2
  <2> QED  BY <2>1, <2>2
<1>2. /\ calls' \in [Calls -> {calls'[d] : d \in Calls}]
      /\ \A d \in Calls \ {c} : calls'[d] = calls[d]
      /\ CallOK(calls[c])'
  BY <1>1, BeginsFresh DEF Inv
<1> QED  BY <1>1, <1>2, CallStepKeeps, EventsAsTheyAre, FaultCounted DEF tables

LEMMA LosesKeep ==
  ASSUME ConstantsAssumption, Inv,
         (\E e \in requests : LoseRequest(e)) \/ (\E c \in Calls : CallDies(c))
  PROVE  Inv'
<1>1. ASSUME NEW e \in requests, LoseRequest(e)
      PROVE  Inv'
  <2>1. /\ UNCHANGED <<logins, owner, member, shoppers, founded, events, calls, cut>>
        /\ requests' \subseteq requests /\ Fault
    BY <1>1 DEF LoseRequest, tables
  <2>2. Shrinks
    BY <2>1 DEF Shrinks
  <2>3. CallsOK'
    BY <2>1, <2>2, AllSurvive
  <2>4. TablesOK'
    BY <2>1, FaultCounted DEF Inv, TablesOK
  <2> QED
    BY <2>1, <2>3, <2>4 DEF Inv, OwnedWasFounded, LoginInUseKept, DeletedMeansGone
<1>2. ASSUME NEW c \in Calls, CallDies(c)
      PROVE  Inv'
  <2>1. /\ UNCHANGED <<logins, owner, member, shoppers, founded, events, requests, cut>> /\ Fault
        /\ calls' = [calls EXCEPT ![c] = Idle]
    BY <1>2 DEF CallDies, tables
  <2>2. calls \in [Calls -> {calls[d] : d \in Calls}]
    BY DEF Inv, TablesOK
  <2>3. /\ calls' \in [Calls -> {calls'[d] : d \in Calls}]
        /\ \A d \in Calls \ {c} : calls'[d] = calls[d]
        /\ CallOK(calls[c])'
    BY <2>1, <2>2 DEF CallOK, Idle
  <2> QED  BY <2>1, <2>3, CallStepKeeps, EventsAsTheyAre, FaultCounted
<1> QED  BY <1>1, <1>2

LEMMA NextKeeps == ASSUME ConstantsAssumption, Inv, [Next]_vars PROVE Inv'
<1>1. ASSUME NEW u \in Logins, ShopperDeleteAccount(u)
      PROVE  Inv'
  BY <1>1, ShopperDeleteAccountKeeps
<1>2. ASSUME NEW u \in Logins, NEW b \in Businesses, DeleteBusiness(u, b)
      PROVE  Inv'
  BY <1>2, DeleteBusinessKeeps
<1>3. ASSUME NEW u \in Logins, NEW b \in Businesses,
             CompleteOnboarding(u, b) \/ RedeemInvite(u, b)
      PROVE  Inv'
  BY <1>3, NewUseKeeps
<1>4. ASSUME NEW c \in Calls, Step(c)
      PROVE  Inv'
  BY <1>4, StepKeeps
<1>5. ASSUME NEW c \in Calls, StartBatch(c) \/ (\E e \in requests : StartSingle(c, e))
      PROVE  Inv'
  BY <1>5, StartsKeep
<1>6. CASE (\E e \in requests : LoseRequest(e)) \/ (\E c \in Calls : CallDies(c))
  BY <1>6, LosesKeep
<1>7. CASE UNCHANGED vars
  <2>1. UNCHANGED <<logins, owner, member, shoppers, founded, events, requests, calls,
                    faults, cut>>
    BY <1>7 DEF vars, tables
  <2>2. Shrinks
    BY <2>1 DEF Shrinks
  <2>3. CallsOK'
    BY <2>1, <2>2, AllSurvive
  <2> QED
    BY <2>1, <2>3 DEF Inv, TablesOK, OwnedWasFounded, LoginInUseKept, DeletedMeansGone
<1> QED  BY <1>1, <1>2, <1>3, <1>4, <1>5, <1>6, <1>7 DEF Next

LEMMA InvHolds == Spec => []Inv
<1>1. Init => Inv
  BY ConstantsAssumption, InitInv
<1>2. Inv /\ [Next]_vars => Inv'
  BY ConstantsAssumption, NextKeeps
<1> QED  BY <1>1, <1>2, PTL DEF Spec

-----------------------------------------------------------------------------
(* Every variable keeps its type: in particular an invocation only holds   *)
(* recorded events, and those it has still to process are younger.         *)
THEOREM TypeCorrect == Spec => []TypeOK
<1>1. Inv => TypeOK
  BY InvTyped
<1> QED  BY <1>1, InvHolds, PTL

(* Whatever invocations overlap, no login is removed that owned a business *)
(* or worked in one when the function looked it up: only a business        *)
(* founded or joined after its lookups can be lost with the login.         *)
THEOREM UsedLoginKept == Spec => []LoginInUseKept
<1>1. Inv => LoginInUseKept
  BY DEF Inv
<1> QED  BY <1>1, InvHolds, PTL

(* An event stamped as deleted is of a login that is gone.                 *)
THEOREM DeletedIsGone == Spec => []DeletedMeansGone
<1>1. Inv => DeletedMeansGone
  BY DEF Inv
<1> QED  BY <1>1, InvHolds, PTL
=============================================================================
