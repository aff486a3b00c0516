------------------------- MODULE ReversalRaceProofs -------------------------
(***************************************************************************)
(* Proofs about ReversalRace, for any number of phones, reversals and      *)
(* units, and for any bounds.  The inductive invariant is Inv: type        *)
(* correctness, the life cycle of a claim envelope (InFlight,              *)
(* AcceptedStanding, RowsFollowClaim), and that a refusal is final         *)
(* (RefusedForGood), which rests on the cloud's header being sticky.       *)
(***************************************************************************)
EXTENDS ReversalRace, FiniteSetTheorems, TLAPS

(* A claim the drain is working on is 'syncing' in the queue, or already   *)
(* marked done with its rows about to be released.                         *)
InFlight ==
  \A r \in Reversals :
    /\ call[r] \in {"called", "accepted", "refused", "fk", "undone"}
         => claim[r] = "syncing"
    /\ call[r] = "release" => claim[r] = "done"

(* The phone believes a claim won only when the cloud holds it.            *)
AcceptedStanding ==
  \A r \in Reversals :
    claim[r] = "done" \/ call[r] = "accepted" => r \in claims

(* Rows are queued with their claim, and leave their hold only behind a    *)
(* confirmed or a discarded one.                                           *)
RowsFollowClaim ==
  \A r \in Reversals :
    /\ rows[r] \in {"queued", "landed"} => claim[r] \in {"done", "gone"}
    /\ claim[r] = "none" => rows[r] = "none"

(* A reversal the phone is undoing, or has undone, was refused, and the    *)
(* cloud would refuse it again.                                            *)
RefusedForGood ==
  \A r \in Reversals :
    call[r] \in {"refused", "undone"} \/ rows[r] = "withdrawn"
      => r \notin claims /\ status # "absent" /\ Refuses(r)

(* No queued header puts a landed order back to 'absent'.                  *)
HeadersPresent == \A p \in Phones : header[p] # NoHeader => header[p].status # "absent"

Inv ==
  /\ TypeOK
  /\ InFlight /\ AcceptedStanding /\ RowsFollowClaim /\ RefusedForGood
  /\ HeadersPresent
  /\ NoUnitRefundedTwice

-----------------------------------------------------------------------------
(* What every step of the cloud keeps, and what it is needed for: a        *)
(* refusal is final.                                                       *)
CloudGrows ==
  /\ claims \subseteq claims'
  /\ returned <= returned'
  /\ status = "cancelled" => status' = "cancelled"
  /\ status # "absent" => status' # "absent"
  /\ \A q \in Reversals : rows[q] = "landed" => rows'[q] = "landed"

(* While the cloud only grows, a claim it refuses now it refuses ever      *)
(* after.                                                                  *)
LEMMA RefusalIsFinal ==
  ASSUME ConstantsAssumption, TypeOK, TypeOK', CloudGrows,
         NEW r \in Reversals, status # "absent", Refuses(r)
  PROVE  status' # "absent" /\ Refuses(r)'
<1>1. returned \in Nat /\ returned' \in Nat /\ Units[r] \in Nat /\ Sold \in Nat
  BY DEF TypeOK, ConstantsAssumption
<1>2. CASE r \in Cancels
  <2>1. CASE claims # {}
    BY <1>2, <2>1 DEF Refuses, CloudGrows
  <2>2. CASE ReversedUnclaimed
    <3>1. ReversedUnclaimed'
      BY <2>2 DEF ReversedUnclaimed, CloudGrows, ConstantsAssumption
    <3> QED  BY <1>2, <3>1 DEF Refuses, CloudGrows
  <2> QED  BY <1>2, <2>1, <2>2 DEF Refuses
<1>3. CASE r \notin Cancels
  <2>1. CASE status # "completed"
    <3>1. status = "cancelled"
      BY <2>1 DEF TypeOK, Status
    <3> QED  BY <1>3, <3>1 DEF Refuses, CloudGrows
  <2>2. CASE CancelClaimed
    BY <1>3, <2>2 DEF Refuses, CloudGrows, CancelClaimed
  <2>3. CASE returned + Units[r] > Sold
    BY <1>1, <1>3, <2>3 DEF Refuses, CloudGrows
  <2> QED  BY <1>3, <2>1, <2>2, <2>3 DEF Refuses
<1> QED  BY <1>2, <1>3

(* The initial state, whether or not the order is in the cloud already,    *)
(* satisfies the invariant.                                                *)
LEMMA InitInv == ASSUME ConstantsAssumption, NoHeaderAssumption, Init PROVE Inv
<1>1. TypeOK
  BY DEF ConstantsAssumption, Init, TypeOK, ClaimStates, Calls, RowStates,
         Status, Header, Bounds
<1>2. InFlight /\ AcceptedStanding /\ RowsFollowClaim /\ RefusedForGood
  BY DEF Init, InFlight, AcceptedStanding, RowsFollowClaim, RefusedForGood
<1>3. HeadersPresent
  BY DEF Init, HeadersPresent
<1>4. NoUnitRefundedTwice
  BY DEF ConstantsAssumption, Init, NoUnitRefundedTwice
<1> QED  BY <1>1, <1>2, <1>3, <1>4 DEF Inv

-----------------------------------------------------------------------------
(* A row written or released by the phone is a header again.               *)
LEMMA HeaderRowType ==
  ASSUME TypeOK, NEW p \in Phones, NEW s \in Status,
         NEW h \in Reversals \cup {NoReversal}
  PROVE  HeaderRow(p, s, h) \in Header
<1>1. CASE header[p] = NoHeader
  BY <1>1 DEF HeaderRow, Header
<1>2. CASE header[p] # NoHeader
  <2>1. header[p] \in [status : Status, held : Reversals \cup {NoReversal}]
    BY <1>2 DEF TypeOK, Header
  <2>2. [header[p] EXCEPT !.status = s]
          \in [status : Status, held : Reversals \cup {NoReversal}]
    BY <2>1
  <2> QED  BY <1>2, <2>2 DEF HeaderRow, Header
<1> QED  BY <1>1, <1>2

(* Releasing rows keeps them well-typed, and headers keep their status.    *)
LEMMA ReleaseRowsType ==
  ASSUME TypeOK, NEW r \in Reversals, ReleaseRows(r)
  PROVE  /\ rows' \in [Reversals -> RowStates]
         /\ header' \in [Phones -> Header \cup {NoHeader}]
         /\ \A p \in Phones : header[p] = NoHeader => header'[p] = NoHeader
         /\ \A p \in Phones : header[p] # NoHeader /\ header'[p] # NoHeader =>
              header'[p].status = header[p].status
<1> DEFINE Freed(p) == [header[p] EXCEPT !.held = NoReversal]
<1>1. rows' \in [Reversals -> RowStates]
  BY DEF TypeOK, ReleaseRows, RowStates
<1>2. ASSUME NEW p \in Phones, header[p] # NoHeader
      PROVE  Freed(p) \in Header /\ Freed(p).status = header[p].status
  <2>1. header[p] \in [status : Status, held : Reversals \cup {NoReversal}]
    BY <1>2 DEF TypeOK, Header
  <2> QED  BY <2>1 DEF Header
<1> HIDE DEF Freed
<1>3. header' = [p \in Phones |->
         IF header[p] # NoHeader /\ header[p].held = r
           THEN Freed(p) ELSE header[p]]
  BY DEF ReleaseRows, Freed
<1>4. header' \in [Phones -> Header \cup {NoHeader}]
  BY <1>2, <1>3 DEF TypeOK
<1> QED  BY <1>1, <1>2, <1>3, <1>4

(* Type correctness: one step per action.                                  *)
LEMMA TypeStep ==
  ASSUME ConstantsAssumption, NoHeaderAssumption, TypeOK, [Next]_vars
  PROVE  TypeOK'
<1> USE DEF ConstantsAssumption
<1>1. ASSUME NEW r \in Reversals, Cancel(r) PROVE TypeOK'
  BY <1>1 DEF TypeOK, Cancel, Guarded, HeaderRow, ClaimStates, RowStates, Status,
              Header, cloud
<1>2. ASSUME NEW r \in Reversals, Return(r) PROVE TypeOK'
  BY <1>2 DEF TypeOK, Return, Guarded, ClaimStates, RowStates, cloud
<1>3. ASSUME NEW r \in Reversals, SendClaim(r) PROVE TypeOK'
  BY <1>3 DEF TypeOK, SendClaim, Answer, ClaimStates, Calls, phone, cloud
<1>4. ASSUME NEW r \in Reversals, CloudClaims(r) PROVE TypeOK'
  BY <1>4 DEF TypeOK, CloudClaims, Deferred, Replayed, Refused, Accepted, Answer,
              Calls, Status, envelope, phone, cloud
<1>5. ASSUME NEW r \in Reversals, MarkDone(r) PROVE TypeOK'
  BY <1>5 DEF TypeOK, MarkDone, Answer, ClaimStates, Calls, phone, cloud
<1>6. ASSUME NEW r \in Reversals, Release(r) PROVE TypeOK'
  <2>1. ReleaseRows(r)
    BY <1>6 DEF Release
  <2>2. /\ rows' \in [Reversals -> RowStates]
        /\ header' \in [Phones -> Header \cup {NoHeader}]
    BY <2>1, ReleaseRowsType
  <2>3. call' \in [Reversals -> Calls]
    BY <1>6 DEF TypeOK, Release, Answer, Calls
  <2> QED  BY <1>6, <2>2, <2>3 DEF TypeOK, Release, envelope, cloud
<1>7. ASSUME NEW r \in Reversals, Undo(r) PROVE TypeOK'
  <2>1. call' \in [Reversals -> Calls] /\ rows' \in [Reversals -> RowStates]
    BY <1>7 DEF TypeOK, Undo, Answer, RowStates, Calls
  <2>2. header' \in [Phones -> Header \cup {NoHeader}]
    BY <1>7 DEF TypeOK, Undo, phone
  <2>3. local' \in [Phones -> Status] /\ known' \in [Phones -> SUBSET Reversals]
    BY <1>7 DEF TypeOK, Undo, phone
  <2> QED  BY <1>7, <2>1, <2>2, <2>3 DEF TypeOK, Undo, envelope, cloud
<1>8. ASSUME NEW r \in Reversals, Orphan(r) PROVE TypeOK'
  BY <1>8 DEF TypeOK, Orphan, OrphanClaim, Answer, ClaimStates, Calls, phone, cloud
<1>9. ASSUME NEW r \in Reversals, FkDeferred(r) PROVE TypeOK'
  BY <1>9 DEF TypeOK, FkDeferred, OrphanClaim, Answer, Bump, ClaimStates, Calls,
              phone, cloud
<1>10. ASSUME NEW r \in Reversals, UploadRows(r) PROVE TypeOK'
  BY <1>10 DEF TypeOK, UploadRows, RowStates, envelope, phone, cloud
<1>11. ASSUME NEW r \in Reversals, Sweep(r) PROVE TypeOK'
  <2>1. CASE ResetStuck(r)
    BY <2>1 DEF TypeOK, ResetStuck, ClaimStates, phone, cloud
  <2>2. CASE Reconcile(r)
    <3>1. ReleaseRows(r)
      BY <2>2 DEF Reconcile
    <3> QED  BY <2>2, <3>1, ReleaseRowsType DEF TypeOK, Reconcile, envelope, cloud
  <2>3. CASE AutoRecover(r)
    BY <2>3 DEF TypeOK, AutoRecover, Reenqueue, ClaimStates, phone, cloud
  <2> QED  BY <1>11, <2>1, <2>2, <2>3 DEF Sweep
<1>12. ASSUME NEW r \in Reversals,
              AnswerLost(r) \/ UndoFails(r) \/ OddRefusal(r) \/ RetryOrphan(r)
                \/ DiscardClaim(r)
       PROVE  TypeOK'
  <2>1. ASSUME NEW b \in Bounds, Spend(b) PROVE budget' \in [Bounds -> Nat]
    BY <2>1 DEF TypeOK, Spend
  <2>2. CASE AnswerLost(r)
    BY <2>1, <2>2 DEF TypeOK, AnswerLost, Answer, Bump, ClaimStates, Calls, Bounds,
                      phone, cloud
  <2>3. CASE UndoFails(r)
    BY <2>1, <2>3 DEF TypeOK, UndoFails, Answer, Calls, Bounds, envelope, phone, cloud
  <2>4. CASE OddRefusal(r)
    BY <2>1, <2>4 DEF TypeOK, OddRefusal, OrphanClaim, Answer, ClaimStates, Calls,
                      Bounds, phone, cloud
  <2>5. CASE RetryOrphan(r)
    BY <2>1, <2>5 DEF TypeOK, RetryOrphan, Reenqueue, ClaimStates, Bounds, phone, cloud
  <2>6. CASE DiscardClaim(r)
    BY <2>1, <2>6 DEF TypeOK, DiscardClaim, ClaimStates, Bounds, phone, cloud
  <2> QED  BY <1>12, <2>2, <2>3, <2>4, <2>5, <2>6
<1>13. ASSUME NEW p \in Phones, TouchOrder(p) \/ AppKill(p) PROVE TypeOK'
  <2>1. ASSUME NEW b \in Bounds, Spend(b) PROVE budget' \in [Bounds -> Nat]
    BY <2>1 DEF TypeOK, Spend
  <2>2. CASE TouchOrder(p)
    <3>1. HeaderRow(p, local[p], NoReversal) \in Header
      BY HeaderRowType DEF TypeOK
    <3> QED  BY <2>1, <2>2, <3>1 DEF TypeOK, TouchOrder, Bounds, envelope, cloud
  <2>3. CASE AppKill(p)
    BY <2>1, <2>3 DEF TypeOK, AppKill, Calls, Bounds, envelope, phone, cloud
  <2> QED  BY <1>13, <2>2, <2>3
<1>14. ASSUME NEW p \in Phones, UploadHeader(p) \/ Pull(p) PROVE TypeOK'
  BY <1>14 DEF TypeOK, UploadHeader, Pull, Sticky, Status, Header, envelope, phone,
               cloud
<1>15. CASE UNCHANGED vars
  BY <1>15 DEF TypeOK, vars, envelope, phone, cloud
<1> QED
  BY <1>1, <1>2, <1>3, <1>4, <1>5, <1>6, <1>7, <1>8, <1>9, <1>10, <1>11, <1>12,
     <1>13, <1>14, <1>15 DEF Next, ClaimStep

-----------------------------------------------------------------------------
(* The life cycle of a claim and of its rows: one step per action.         *)
LifeCycle == InFlight /\ AcceptedStanding /\ RowsFollowClaim

(* Every step of the race keeps the life cycle of the claims.              *)
LEMMA LifeCycleStep ==
  ASSUME ConstantsAssumption, TypeOK, LifeCycle, [Next]_vars
  PROVE  LifeCycle'
<1> USE DEF LifeCycle, InFlight, AcceptedStanding, RowsFollowClaim
<1>1. ASSUME NEW r \in Reversals, Cancel(r) \/ Return(r) PROVE LifeCycle'
  BY <1>1 DEF TypeOK, Cancel, Return, Guarded, cloud
<1>2. ASSUME NEW r \in Reversals, SendClaim(r) PROVE LifeCycle'
  BY <1>2 DEF TypeOK, SendClaim, Answer, phone, cloud
<1>3. ASSUME NEW r \in Reversals, CloudClaims(r) PROVE LifeCycle'
  BY <1>3 DEF TypeOK, CloudClaims, Deferred, Replayed, Refused, Accepted, Answer,
              envelope, phone, cloud
<1>4. ASSUME NEW r \in Reversals, MarkDone(r) PROVE LifeCycle'
  BY <1>4 DEF TypeOK, MarkDone, Answer, phone, cloud
<1>5. ASSUME NEW r \in Reversals, Release(r) PROVE LifeCycle'
  BY <1>5 DEF TypeOK, Release, ReleaseRows, Answer, envelope, cloud
<1>6. ASSUME NEW r \in Reversals, Undo(r) PROVE LifeCycle'
  BY <1>6 DEF TypeOK, Undo, Answer, envelope, phone, cloud
<1>7. ASSUME NEW r \in Reversals, Orphan(r) PROVE LifeCycle'
  BY <1>7 DEF TypeOK, Orphan, OrphanClaim, Answer, phone, cloud
<1>8. ASSUME NEW r \in Reversals, FkDeferred(r) PROVE LifeCycle'
  BY <1>8 DEF TypeOK, FkDeferred, OrphanClaim, Answer, phone, cloud
<1>9. ASSUME NEW r \in Reversals, UploadRows(r) PROVE LifeCycle'
  BY <1>9 DEF TypeOK, UploadRows, envelope, phone, cloud
<1>10. ASSUME NEW r \in Reversals, Sweep(r) PROVE LifeCycle'
  BY <1>10 DEF TypeOK, Sweep, ResetStuck, Reconcile, ReleaseRows, AutoRecover,
               Reenqueue, envelope, phone, cloud
<1>11. ASSUME NEW r \in Reversals,
              AnswerLost(r) \/ UndoFails(r) \/ OddRefusal(r) \/ RetryOrphan(r)
                \/ DiscardClaim(r)
       PROVE  LifeCycle'
  BY <1>11 DEF TypeOK, AnswerLost, UndoFails, OddRefusal, RetryOrphan,
               DiscardClaim, Reenqueue, OrphanClaim, Answer, envelope, phone, cloud
<1>12. ASSUME NEW p \in Phones,
              TouchOrder(p) \/ UploadHeader(p) \/ Pull(p) \/ AppKill(p)
       PROVE  LifeCycle'
  BY <1>12 DEF TypeOK, TouchOrder, UploadHeader, Pull, AppKill, envelope, phone, cloud
<1>13. CASE UNCHANGED vars
  BY <1>13 DEF vars, envelope, phone, cloud
<1> QED
  BY <1>1, <1>2, <1>3, <1>4, <1>5, <1>6, <1>7, <1>8, <1>9, <1>10, <1>11, <1>12,
     <1>13 DEF Next, ClaimStep

-----------------------------------------------------------------------------
(* No step of the race takes anything back in the cloud.                   *)
LEMMA CloudOnlyGrows ==
  ASSUME ConstantsAssumption, TypeOK, LifeCycle, HeadersPresent, [Next]_vars
  PROVE  CloudGrows
<1> USE DEF CloudGrows
<1>1. ASSUME NEW r \in Reversals, Cancel(r) \/ Return(r) PROVE CloudGrows
  BY <1>1 DEF TypeOK, LifeCycle, RowsFollowClaim, Cancel, Return, Guarded, cloud
<1>2. ASSUME NEW r \in Reversals, CloudClaims(r) PROVE CloudGrows
  BY <1>2 DEF TypeOK, ConstantsAssumption, CloudClaims, Deferred, Replayed,
              Refused, Accepted, phone, cloud
<1>3. ASSUME NEW p \in Phones, UploadHeader(p) PROVE CloudGrows
  BY <1>3 DEF TypeOK, HeadersPresent, UploadHeader, Sticky
<1>4. ASSUME NEW r \in Reversals,
             Release(r) \/ Reconcile(r) \/ Undo(r) \/ UploadRows(r)
      PROVE  CloudGrows
  BY <1>4 DEF TypeOK, Release, Reconcile, ReleaseRows, Undo, UploadRows, cloud
<1>5. CASE UNCHANGED <<rows, cloud>>
  BY <1>5 DEF TypeOK, cloud
<1> QED
  BY <1>1, <1>2, <1>3, <1>4, <1>5
     DEF Next, ClaimStep, Sweep, SendClaim, MarkDone, Orphan, FkDeferred, ResetStuck,
         AutoRecover, Reenqueue, AnswerLost, UndoFails, OddRefusal, RetryOrphan,
         DiscardClaim, TouchOrder, Pull, AppKill, vars, phone

-----------------------------------------------------------------------------
(* The invariant is inductive.                                             *)
LEMMA HeadersStep ==
  ASSUME ConstantsAssumption, NoHeaderAssumption, TypeOK, HeadersPresent, [Next]_vars
  PROVE  HeadersPresent'
<1> USE DEF HeadersPresent
<1>1. ASSUME NEW p \in Phones, NEW s \in Status \ {"absent"},
             NEW h \in Reversals \cup {NoReversal}
      PROVE  HeaderRow(p, s, h).status # "absent"
  <2>1. CASE header[p] = NoHeader
    BY <2>1 DEF HeaderRow
  <2>2. CASE header[p] # NoHeader
    <3>1. header[p] \in [status : Status, held : Reversals \cup {NoReversal}]
      BY <2>2 DEF TypeOK, Header
    <3>2. [header[p] EXCEPT !.status = s].status = s
      BY <3>1
    <3> QED  BY <2>2, <3>2 DEF HeaderRow
  <2> QED  BY <2>1, <2>2
<1>2. ASSUME NEW r \in Reversals, Cancel(r) PROVE HeadersPresent'
  <2>1. By[r] \in Phones /\ "cancelled" \in Status \ {"absent"}
    BY DEF ConstantsAssumption, Status
  <2>2. HeaderRow(By[r], "cancelled", r).status # "absent"
    BY <1>1, <2>1
  <2> QED  BY <1>2, <2>1, <2>2 DEF TypeOK, Cancel
<1>3. ASSUME NEW p \in Phones, TouchOrder(p) PROVE HeadersPresent'
  <2>1. local[p] \in Status \ {"absent"}
    BY <1>3 DEF TypeOK, TouchOrder
  <2>2. HeaderRow(p, local[p], NoReversal).status # "absent"
    BY <1>1, <2>1
  <2> QED  BY <1>3, <2>2 DEF TypeOK, TouchOrder
<1>4. ASSUME NEW r \in Reversals, ReleaseRows(r) PROVE HeadersPresent'
  BY <1>4, ReleaseRowsType
<1>5. ASSUME NEW r \in Reversals, Undo(r) PROVE HeadersPresent'
  BY <1>5 DEF TypeOK, Undo, phone
<1>6. ASSUME NEW p \in Phones, UploadHeader(p) PROVE HeadersPresent'
  BY <1>6 DEF TypeOK, UploadHeader
<1>7. CASE UNCHANGED header
  BY <1>7
<1> QED
  BY <1>2, <1>3, <1>4, <1>5, <1>6, <1>7
     DEF Next, ClaimStep, Sweep, Return, SendClaim, CloudClaims, MarkDone, Release,
         Orphan, FkDeferred, UploadRows, ResetStuck, Reconcile, AutoRecover,
         Reenqueue, AnswerLost, UndoFails, OddRefusal, RetryOrphan, DiscardClaim,
         Pull, AppKill, vars, phone

(* A refused, undone or withdrawn reversal stays one the cloud refuses.    *)
LEMMA RefusedStep ==
  ASSUME ConstantsAssumption, NoHeaderAssumption, TypeOK, LifeCycle, RefusedForGood,
         HeadersPresent, [Next]_vars
  PROVE  RefusedForGood'
<1>1. TypeOK' /\ CloudGrows
  BY TypeStep, CloudOnlyGrows
<1> DEFINE Doomed(r) == call[r] \in {"refused", "undone"} \/ rows[r] = "withdrawn"
<1>2. ASSUME NEW r \in Reversals, Doomed(r), r \notin claims'
      PROVE  r \notin claims' /\ status' # "absent" /\ Refuses(r)'
  BY <1>1, <1>2, RefusalIsFinal DEF RefusedForGood
<1>3. ASSUME NEW r \in Reversals, Doomed(r) PROVE r \notin claims'
  <2>1. r \notin claims /\ status # "absent" /\ Refuses(r)
    BY <1>3 DEF RefusedForGood
  <2>2. ASSUME NEW q \in Reversals, CloudClaims(q) PROVE r \notin claims'
    BY <2>1, <2>2 DEF CloudClaims, Deferred, Replayed, Refused, Accepted, cloud
  <2>3. CASE UNCHANGED claims
    BY <2>1, <2>3
  <2> QED
    BY <2>2, <2>3
       DEF Next, ClaimStep, Sweep, Cancel, Return, SendClaim, MarkDone, Release, Undo,
           Orphan, FkDeferred, UploadRows, ResetStuck, Reconcile, AutoRecover,
           Reenqueue, AnswerLost, UndoFails, OddRefusal, RetryOrphan, DiscardClaim,
           TouchOrder, UploadHeader, Pull, AppKill, vars, cloud
<1>4. ASSUME NEW r \in Reversals, ~Doomed(r), Doomed(r)'
      PROVE  r \notin claims' /\ status' # "absent" /\ Refuses(r)'
  <2>1. CloudClaims(r) /\ Refused(r)
    BY <1>4
       DEF TypeOK, Next, ClaimStep, Sweep, Cancel, Return, Guarded, SendClaim,
           CloudClaims, Deferred, Replayed, Refused, Accepted, MarkDone, Release,
           ReleaseRows, Undo, Orphan, FkDeferred, OrphanClaim, Answer, UploadRows,
           ResetStuck, Reconcile, AutoRecover, Reenqueue, AnswerLost, UndoFails,
           OddRefusal, RetryOrphan, DiscardClaim, TouchOrder, UploadHeader, Pull,
           AppKill, vars, phone
  <2>2. r \notin claims /\ status # "absent" /\ Refuses(r)
    BY <2>1 DEF Refused
  <2>3. claims' = claims
    BY <2>1 DEF Refused, cloud
  <2> QED  BY <1>1, <2>2, <2>3, RefusalIsFinal
<1> QED  BY <1>2, <1>3, <1>4 DEF RefusedForGood

(* No step accepts two full reversals or more part returns than were sold. *)
LEMMA RefundStep ==
  ASSUME ConstantsAssumption, TypeOK, NoUnitRefundedTwice, [Next]_vars
  PROVE  NoUnitRefundedTwice'
<1> USE DEF NoUnitRefundedTwice
<1>1. ASSUME NEW r \in Reversals, CloudClaims(r), Accepted(r)
      PROVE  NoUnitRefundedTwice'
  <2>1. CASE r \in Cancels
    <3>1. claims = {} /\ claims' = {r} /\ returned' = returned
      BY <1>1, <2>1 DEF Accepted, Refuses
    <3> QED  BY <3>1
  <2>2. CASE r \notin Cancels
    <3>1. claims \cap Cancels = {} /\ claims' = claims \cup {r}
      BY <1>1, <2>2 DEF Accepted, Refuses, CancelClaimed
    <3>2. returned' = returned + Units[r] /\ ~(returned + Units[r] > Sold)
      BY <1>1, <2>2 DEF Accepted, Refuses
    <3>3. returned \in Nat /\ Units[r] \in Nat /\ Sold \in Nat
      BY DEF TypeOK, ConstantsAssumption
    <3>4. returned' <= Sold
      BY <3>2, <3>3
    <3> QED  BY <2>2, <3>1, <3>4
  <2> QED  BY <2>1, <2>2
<1>2. CASE UNCHANGED <<claims, returned>>
  BY <1>2
<1> QED
  BY <1>1, <1>2
     DEF Next, ClaimStep, Sweep, Cancel, Return, SendClaim, CloudClaims, Deferred,
         Replayed, Refused, MarkDone, Release, Undo, Orphan, FkDeferred, UploadRows,
         ResetStuck, Reconcile, AutoRecover, Reenqueue, AnswerLost, UndoFails,
         OddRefusal, RetryOrphan, DiscardClaim, TouchOrder, UploadHeader, Pull,
         AppKill, vars, cloud

(* The units of the accepted part returns are finitely many, and as many   *)
(* as the cloud has added up.                                              *)
Counted == IsFiniteSet(RefundedUnits) /\ UnitsAddUp

LEMMA CountInit == ASSUME Init PROVE Counted
<1>1. RefundedUnits = {} /\ returned = 0
  BY DEF Init, RefundedUnits
<1> QED  BY <1>1, FS_EmptySet DEF Counted, UnitsAddUp

(* An accepted part return adds its own units, which were not counted yet: *)
(* a claim that is sent again is answered before it is judged.             *)
LEMMA CountStep ==
  ASSUME ConstantsAssumption, TypeOK, Counted, [Next]_vars
  PROVE  Counted'
<1>1. ASSUME NEW r \in Reversals, Accepted(r)
      PROVE  Counted'
  <2>1. CASE r \in Cancels
    <3>1. claims' \ Cancels = claims \ Cancels /\ returned' = returned
      BY <1>1, <2>1 DEF Accepted
    <3>2. RefundedUnits' = RefundedUnits
      BY <3>1 DEF RefundedUnits
    <3> QED  BY <3>1, <3>2 DEF Counted, UnitsAddUp
  <2>2. CASE r \notin Cancels
    <3> DEFINE own == {r} \X (1 .. Units[r])
    <3>1. /\ claims' \ Cancels = (claims \ Cancels) \cup {r} /\ r \notin claims
          /\ returned' = returned + Units[r] /\ Units[r] \in Nat
      BY <1>1, <2>2 DEF Accepted, ConstantsAssumption
    <3>2. RefundedUnits' = RefundedUnits \cup own
      BY <3>1 DEF RefundedUnits
    <3>3. RefundedUnits \cap own = {}
      BY <3>1 DEF RefundedUnits
    <3>4. IsFiniteSet(own) /\ Cardinality(own) = Units[r]
      <4>1. IsFiniteSet({r}) /\ Cardinality({r}) = 1
        BY FS_Singleton
      <4>2. IsFiniteSet(1 .. Units[r]) /\ Cardinality(1 .. Units[r]) = Units[r]
        BY <3>1, FS_Interval
      <4> QED  BY <3>1, <4>1, <4>2, FS_Product
    <3> HIDE DEF own
    <3>5. /\ IsFiniteSet(RefundedUnits \cup own)
          /\ Cardinality(RefundedUnits \cup own) = returned + Units[r]
      <4>1. Cardinality(RefundedUnits \cap own) = 0
        BY <3>3, FS_EmptySet
      <4>2. returned \in Nat
        BY DEF TypeOK
      <4>3. /\ IsFiniteSet(RefundedUnits \cup own)
            /\ Cardinality(RefundedUnits \cup own) =
                 Cardinality(RefundedUnits) + Cardinality(own) - Cardinality(RefundedUnits \cap own)
        BY <3>4, FS_Union DEF Counted
      <4>4. Cardinality(RefundedUnits) = returned
        BY DEF Counted, UnitsAddUp
      <4> QED  BY <3>1, <3>4, <4>1, <4>2, <4>3, <4>4
    <3> QED  BY <3>1, <3>2, <3>5 DEF Counted, UnitsAddUp
  <2> QED  BY <2>1, <2>2
<1>2. CASE UNCHANGED <<claims, returned>>
  BY <1>2 DEF Counted, UnitsAddUp, RefundedUnits
<1> QED
  BY <1>1, <1>2
     DEF Next, ClaimStep, Sweep, Cancel, Return, SendClaim, CloudClaims, Deferred,
         Replayed, Refused, MarkDone, Release, Undo, Orphan, FkDeferred, UploadRows,
         ResetStuck, Reconcile, AutoRecover, Reenqueue, AnswerLost, UndoFails,
         OddRefusal, RetryOrphan, DiscardClaim, TouchOrder, UploadHeader, Pull,
         AppKill, vars, cloud

(* The invariant is inductive.                                             *)
LEMMA InvStep ==
  ASSUME ConstantsAssumption, NoHeaderAssumption, Inv, [Next]_vars
  PROVE  Inv'
BY TypeStep, LifeCycleStep, HeadersStep, RefusedStep, RefundStep DEF Inv, LifeCycle

(* The invariant holds in every state of every behaviour of the race.      *)
THEOREM InvHolds == Spec => []Inv
<1>1. Init => Inv
  BY InitInv, ConstantsAssumption, NoHeaderAssumption
<1>2. Inv /\ [Next]_vars => Inv'
  BY InvStep, ConstantsAssumption, NoHeaderAssumption
<1> QED  BY <1>1, <1>2, PTL DEF Spec

(* Type correctness.                                                       *)
THEOREM TypeCorrect == Spec => []TypeOK
<1>1. Inv => TypeOK
  BY DEF Inv
<1> QED  BY <1>1, InvHolds, PTL

(* The sum 0247 judges a part return by is the units of the accepted       *)
(* ones: a claim whose answer was lost and that is sent again counts once. *)
THEOREM RefundsAddUp == Spec => []UnitsAddUp
<1>1. Init => Counted
  BY CountInit
<1>2. TypeOK /\ Counted /\ [Next]_vars => Counted'
  BY CountStep, ConstantsAssumption
<1>3. Counted => UnitsAddUp
  BY DEF Counted
<1> QED  BY <1>1, <1>2, <1>3, TypeCorrect, PTL DEF Spec

(* pos_claim_order_reversal and pos_claim_sale_adjustment: for any number  *)
(* of phones and reversals the goods of a sale are refunded once.          *)
THEOREM RefundedOnce == Spec => []NoUnitRefundedTwice
<1>1. Inv => NoUnitRefundedTwice
  BY DEF Inv
<1> QED  BY <1>1, InvHolds, PTL

(* releaseHeldByOrder, reconcileHeldRows: what uploads is what was claimed,*)
(* the claims the user discarded apart.                                    *)
THEOREM LandedWasClaimed == Spec => []ClaimedBeforeLanding
<1>1. Inv => ClaimedBeforeLanding
  BY DEF Inv, RowsFollowClaim, AcceptedStanding, ClaimedBeforeLanding
<1> QED  BY <1>1, InvHolds, PTL

(* undoRejectedReversal: a lost answer, a kill or a retry never makes the  *)
(* phone undo a reversal that the cloud accepted or will accept.           *)
THEOREM WinnerIsKept == Spec => []WinnerKeepsRows
<1>1. Inv => WinnerKeepsRows
  BY DEF Inv, TypeOK, RefusedForGood, WinnerKeepsRows
<1> QED  BY <1>1, InvHolds, PTL

-----------------------------------------------------------------------------
(* The race implements FirstReversal.                                      *)
LandedRows == {r \in Reversals : rows[r] = "landed" /\ claim[r] # "gone"}
WithdrawnRows == {r \in Reversals : rows[r] = "withdrawn"}

(* The initial states of the race are initial states of FirstReversal.     *)
LEMMA FirstInit == ASSUME ConstantsAssumption, Init PROVE First!Init
<1>1. LandedRows = {} /\ WithdrawnRows = {}
  BY DEF Init, LandedRows, WithdrawnRows
<1> QED  BY <1>1 DEF Init, First!Init, LandedRows, WithdrawnRows

(* A claim that is done or discarded stays so; other claims have no row in *)
(* the cloud.  Hence nothing but an upload changes LandedRows, and nothing *)
(* but an undo changes WithdrawnRows.                                      *)
LEMMA OutcomesStable ==
  ASSUME ConstantsAssumption, TypeOK, LifeCycle, [Next]_vars,
         \A r \in Reversals : ~UploadRows(r) /\ ~Undo(r)
  PROVE  LandedRows' = LandedRows /\ WithdrawnRows' = WithdrawnRows
<1> USE DEF LandedRows, WithdrawnRows, LifeCycle, InFlight, RowsFollowClaim
<1> DEFINE Same == LandedRows' = LandedRows /\ WithdrawnRows' = WithdrawnRows
<1>1. ASSUME NEW r \in Reversals, Cancel(r) \/ Return(r) PROVE Same
  BY <1>1 DEF TypeOK, Cancel, Return, Guarded
<1>2. ASSUME NEW r \in Reversals, SendClaim(r) \/ MarkDone(r) PROVE Same
  BY <1>2 DEF TypeOK, SendClaim, MarkDone
<1>3. ASSUME NEW r \in Reversals, ReleaseRows(r), UNCHANGED claim PROVE Same
  BY <1>3 DEF TypeOK, ReleaseRows
<1>4. ASSUME NEW r \in Reversals, Orphan(r) \/ FkDeferred(r) PROVE Same
  BY <1>4 DEF TypeOK, Orphan, FkDeferred, OrphanClaim
<1>5. ASSUME NEW r \in Reversals, ResetStuck(r) \/ AutoRecover(r) PROVE Same
  BY <1>5 DEF TypeOK, ResetStuck, AutoRecover, Reenqueue
<1>6. ASSUME NEW r \in Reversals, AnswerLost(r) \/ OddRefusal(r) PROVE Same
  BY <1>6 DEF TypeOK, AnswerLost, OddRefusal, OrphanClaim
<1>7. ASSUME NEW r \in Reversals, RetryOrphan(r) \/ DiscardClaim(r) PROVE Same
  BY <1>7 DEF TypeOK, RetryOrphan, DiscardClaim, Reenqueue
<1>8. CASE UNCHANGED <<claim, rows>>
  BY <1>8
<1> QED
  BY <1>1, <1>2, <1>3, <1>4, <1>5, <1>6, <1>7, <1>8
     DEF Next, ClaimStep, Sweep, CloudClaims, Release, Reconcile, UndoFails,
         TouchOrder, UploadHeader, Pull, AppKill, vars, envelope

(* Every step of the race is a step of FirstReversal or leaves its         *)
(* variables unchanged.                                                    *)
LEMMA FirstStep ==
  ASSUME ConstantsAssumption, NoHeaderAssumption, Inv, [Next]_vars
  PROVE  [First!Next]_(First!vars)
<1> USE DEF First!vars, LandedRows, WithdrawnRows
<1>1. TypeOK /\ LifeCycle /\ RefusedForGood /\ Inv'
  BY InvStep DEF Inv, LifeCycle
<1>2. ASSUME NEW r \in Reversals, UploadRows(r) PROVE [First!Next]_(First!vars)
  <2>1. rows' = [rows EXCEPT ![r] = "landed"] /\ rows[r] = "queued"
    BY <1>2 DEF UploadRows
  <2>2. UNCHANGED <<claim, claims, returned>>
    BY <1>2 DEF UploadRows, envelope, cloud
  <2>3. WithdrawnRows' = WithdrawnRows
    BY <1>1, <2>1 DEF TypeOK
  <2>4. CASE claim[r] = "gone"
    <3>1. LandedRows' = LandedRows
      BY <1>1, <2>1, <2>2, <2>4 DEF TypeOK
    <3> QED  BY <2>2, <2>3, <3>1
  <2>5. CASE claim[r] # "gone"
    <3>1. r \in claims
      BY <1>1, <2>1, <2>5 DEF LifeCycle, RowsFollowClaim, AcceptedStanding
    <3>2. LandedRows' = LandedRows \cup {r} /\ r \notin LandedRows
      BY <1>1, <2>1, <2>2, <2>5 DEF TypeOK
    <3>3. First!Land(r)
      BY <2>2, <2>3, <3>1, <3>2 DEF First!Land
    <3> QED  BY <3>3 DEF First!Next
  <2> QED  BY <2>4, <2>5
<1>3. ASSUME NEW r \in Reversals, Undo(r) PROVE [First!Next]_(First!vars)
  <2>1. UNCHANGED <<claim, claims, returned>>
    BY <1>3 DEF Undo, envelope, cloud
  <2>2. CASE rows[r] # "held"
    <3>1. UNCHANGED rows
      BY <1>3, <2>2 DEF Undo
    <3> QED  BY <2>1, <3>1
  <2>3. CASE rows[r] = "held"
    <3>1. rows' = [rows EXCEPT ![r] = "withdrawn"]
      BY <1>3, <2>3 DEF Undo
    <3>2. WithdrawnRows' = WithdrawnRows \cup {r} /\ r \notin WithdrawnRows
      BY <1>1, <2>3, <3>1 DEF TypeOK
    <3>3. LandedRows' = LandedRows
      BY <1>1, <2>1, <2>3, <3>1 DEF TypeOK
    <3>4. r \notin claims
      BY <1>1, <1>3 DEF Undo, RefusedForGood
    <3>5. First!Withdraw(r)
      BY <2>1, <3>2, <3>3, <3>4 DEF First!Withdraw
    <3> QED  BY <3>5 DEF First!Next
  <2> QED  BY <2>2, <2>3
<1>4. ASSUME NEW r \in Reversals, CloudClaims(r), Accepted(r)
      PROVE  [First!Next]_(First!vars)
  <2>1. UNCHANGED <<claim, rows>>
    BY <1>4 DEF CloudClaims, envelope
  <2>2. LandedRows' = LandedRows /\ WithdrawnRows' = WithdrawnRows
    BY <2>1
  <2>3. r \notin claims /\ claims' = claims \cup {r} /\ ~Refuses(r)
    BY <1>4 DEF Accepted
  <2>4. r \notin WithdrawnRows
    BY <1>1, <2>3 DEF RefusedForGood
  <2>5. CASE r \in Cancels
    <3>1. claims = {} /\ returned' = returned
      BY <1>4, <2>3, <2>5 DEF Accepted, Refuses
    <3>2. First!AcceptCancel(r)
      BY <2>2, <2>3, <2>4, <2>5, <3>1 DEF First!AcceptCancel
    <3> QED  BY <3>2 DEF First!Next
  <2>6. CASE r \notin Cancels
    <3>1. /\ claims \cap Cancels = {}
          /\ returned' = returned + Units[r]
          /\ ~(returned + Units[r] > Sold)
      BY <1>4, <2>3, <2>6 DEF Accepted, Refuses, CancelClaimed
    <3>2. returned + Units[r] <= Sold
      BY <1>1, <3>1 DEF TypeOK, ConstantsAssumption
    <3>3. First!AcceptReturn(r)
      BY <2>2, <2>3, <2>4, <2>6, <3>1, <3>2 DEF First!AcceptReturn
    <3> QED  BY <3>3 DEF First!Next
  <2> QED  BY <2>5, <2>6
<1>5. CASE UNCHANGED <<claims, returned>> /\ \A r \in Reversals : ~UploadRows(r) /\ ~Undo(r)
  <2>1. LandedRows' = LandedRows /\ WithdrawnRows' = WithdrawnRows
    BY <1>1, <1>5, OutcomesStable
  <2> QED  BY <1>5, <2>1
<1>6. \/ UNCHANGED <<claims, returned>>
      \/ \E r \in Reversals : CloudClaims(r) /\ Accepted(r)
  BY DEF Next, ClaimStep, Sweep, Cancel, Return, SendClaim, CloudClaims, Deferred,
         Replayed, Refused, MarkDone, Release, Undo, Orphan, FkDeferred, UploadRows,
         ResetStuck, Reconcile, AutoRecover, Reenqueue, AnswerLost, UndoFails,
         OddRefusal, RetryOrphan, DiscardClaim, TouchOrder, UploadHeader, Pull,
         AppKill, vars, cloud
<1> QED  BY <1>2, <1>3, <1>4, <1>5, <1>6

(* ADR 0032: the first reversal wins.  The phones, the drain and the two   *)
(* claim functions implement what FirstReversal promises.                  *)
THEOREM FirstReversalWins == Spec => ImplementsFirstReversal
<1>1. Init => First!Init
  BY FirstInit, ConstantsAssumption
<1>2. Inv /\ [Next]_vars => [First!Next]_(First!vars)
  BY FirstStep, ConstantsAssumption, NoHeaderAssumption
<1> QED
  BY <1>1, <1>2, InvHolds, PTL DEF Spec, ImplementsFirstReversal, First!Spec

=============================================================================
