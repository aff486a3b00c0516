--------------------------- MODULE HeldSaleProofs ---------------------------
(***************************************************************************)
(* Proofs about HeldSale, for any sales, stock, caps and bounds, whichever *)
(* sales wait for the parent, any buttons pressed and any kills.  The      *)
(* inductive invariant Inv says what each stage of an envelope has         *)
(* established: while it is being judged its row is 'syncing'; once it is  *)
(* confirmed the cloud has the sale; as long as it is an orphan the cloud  *)
(* has not, unless it was orphaned unsent; and the rows behind it were let *)
(* go or thrown away only on such a verdict.                               *)
(***************************************************************************)
EXTENDS HeldSale, FiniteSetTheorems, TLAPS

(* The envelope is in the hands of _pushDomainItems, and not settled yet.  *)
Judged(o) == step[o] \in {"called", "accepted", "refused", "fk"}

StageOK(o) ==
  /\ Judged(o) => env[o] = "syncing"
  /\ step[o] = "release" => env[o] = "done"

(* A confirmation means the cloud has the sale; a refusal, and an envelope *)
(* waiting among the orphans on the cloud's word, that it has not.         *)
VerdictTrue(o) ==
  /\ step[o] \in {"accepted", "release"} \/ env[o] = "done" => o \in cloudSales
  /\ step[o] \in {"refused", "fk"} \/ (env[o] = "orphan" /\ why[o] # "unsent")
       => o \notin cloudSales

(* Rows are let go behind a confirmed or a discarded envelope.             *)
LetGo == {"queued", "landed"}
RowsFollowVerdict(o) ==
  ledger[o] \in LetGo \/ header[o] \in LetGo => o \in cloudSales \/ env[o] = "gone"

(* Rows are thrown away behind an orphan; what the cloud has not recorded  *)
(* then it does not record later, unless the envelope is put back.         *)
DiscardFollowsOrphan(o) ==
  ledger[o] = "discarded" \/ step[o] = "discard" =>
    \/ o \notin cloudSales /\ env[o] \in {"orphan", "gone"}
    \/ why[o] = "unsent"
    \/ o \in putBack

(* A sale that nobody has made yet.                                        *)
Unsold(o) == env[o] = "none" => step[o] = "idle" /\ ledger[o] = "none" /\ header[o] = "none"

SaleOK(o) ==
  StageOK(o) /\ VerdictTrue(o) /\ RowsFollowVerdict(o) /\ DiscardFollowsOrphan(o) /\ Unsold(o)

(* The unit count, and what makes it a count.                              *)
UnitsOK ==
  /\ IsFiniteSet(cloudSales)
  /\ EveryUnitOnce
  /\ budget.restock <= MaxRestock

Inv == TypeOK /\ UnitsOK /\ \A o \in Sales : SaleOK(o)

LEMMA InitInv == ASSUME ConstantsAssumption, Init PROVE Inv
<1>1. TypeOK
  BY DEF ConstantsAssumption, Init, TypeOK, EnvStates, RowStates, Steps, Shares
<1>2. \A o \in Sales : SaleOK(o)
  BY DEF Init, SaleOK, StageOK, Judged, VerdictTrue, RowsFollowVerdict, LetGo,
         DiscardFollowsOrphan, Unsold
<1>3. UnitsOK
  BY FS_EmptySet DEF ConstantsAssumption, Init, UnitsOK, EveryUnitOnce
<1> QED  BY <1>1, <1>2, <1>3 DEF Inv

-----------------------------------------------------------------------------
(* Type correctness, one lemma per group of actions.                       *)

Bounds == {"restock", "lost", "kills", "unsent", "user"}

LEMMA SpendTyped ==
  ASSUME TypeOK, NEW b \in Bounds, Spend(b)
  PROVE  /\ budget' \in [Bounds -> Nat]
         /\ budget'[b] = budget[b] - 1 /\ budget[b] > 0
         /\ \A c \in Bounds \ {b} : budget'[c] = budget[c]
BY DEF TypeOK, Spend, Bounds

LEMMA RowsTyped ==
  ASSUME ConstantsAssumption, TypeOK, NEW o \in Sales, ReleaseRows(o) \/ DiscardRows(o)
  PROVE  /\ ledger' \in [Sales -> RowStates] /\ header' \in [Sales -> RowStates]
         /\ shared' \in Shares
<1>1. ledger' \in [Sales -> RowStates] /\ header' \in [Sales -> RowStates]
  BY DEF TypeOK, RowStates, ReleaseRows, DiscardRows
<1>2. shared' \in Shares
  BY DEF TypeOK, ReleaseRows, DiscardRows, Shares
<1> QED  BY <1>1, <1>2

LEMMA AppTyped == ASSUME ConstantsAssumption, TypeOK, AppStep PROVE TypeOK'
<1> USE DEF TypeOK, cloud
<1>1. ASSUME NEW o \in Sales, Sell(o) PROVE TypeOK'
  BY <1>1 DEF Sell, WriteShared, EnvStates, RowStates, Shares
<1>2. ASSUME NEW o \in Sales, ChangeOrder(o) PROVE TypeOK'
  BY <1>2 DEF ChangeOrder, RowStates
<1>3. ASSUME EditShared PROVE TypeOK'
  BY <1>3 DEF EditShared, WriteShared, Shares
<1> QED  BY <1>1, <1>2, <1>3 DEF AppStep

LEMMA DrainTyped ==
  ASSUME ConstantsAssumption, TypeOK, NEW o \in Sales,
         UploadLedger(o) \/ UploadHeader(o) \/ EnvelopeStep(o)
  PROVE  TypeOK'
<1> USE DEF TypeOK, cloud, outbox
<1>1. ASSUME UploadLedger(o) \/ UploadHeader(o) PROVE TypeOK'
  BY <1>1 DEF UploadLedger, UploadHeader, RowStates
<1>2. ASSUME SendEnvelope(o) \/ MarkDone(o) \/ Orphan(o) PROVE TypeOK'
  BY <1>2 DEF SendEnvelope, MarkDone, Orphan, EnvStates, Steps
<1>3. ASSUME CloudRecords(o) PROVE TypeOK'
  BY <1>3 DEF CloudRecords, Steps
<1>4. ASSUME Release(o) \/ DiscardHeld(o) PROVE TypeOK'
  <2>1. /\ ledger' \in [Sales -> RowStates] /\ header' \in [Sales -> RowStates]
        /\ shared' \in Shares
    BY <1>4, RowsTyped DEF Release, DiscardHeld
  <2> QED  BY <1>4, <2>1 DEF Release, DiscardHeld, Steps
<1>5. ASSUME FkDeferred(o) PROVE TypeOK'
  BY <1>5 DEF ConstantsAssumption, FkDeferred, Bump, EnvStates, Steps
<1> QED  BY <1>1, <1>2, <1>3, <1>4, <1>5 DEF EnvelopeStep

LEMMA RecoveryTyped ==
  ASSUME ConstantsAssumption, TypeOK, NEW o \in Sales,
         OrphanUnsent(o) \/ AnswerLost(o) \/ SweepStep(o) \/ UserStep(o)
  PROVE  TypeOK'
<1>1. ASSUME AnswerLost(o) PROVE TypeOK'
  <2>1. budget' \in [Bounds -> Nat]
    BY <1>1, SpendTyped DEF AnswerLost, Bounds
  <2> QED
    BY <1>1, <2>1 DEF ConstantsAssumption, TypeOK, cloud, AnswerLost, Bump, EnvStates, Steps, Bounds
<1>2. ASSUME ResetStuck(o) PROVE TypeOK'
  BY <1>2 DEF TypeOK, cloud, ResetStuck, EnvStates
<1>3. ASSUME Reconcile(o) PROVE TypeOK'
  <2>1. /\ ledger' \in [Sales -> RowStates] /\ header' \in [Sales -> RowStates]
        /\ shared' \in Shares
    BY <1>3, RowsTyped DEF Reconcile
  <2> QED  BY <1>3, <2>1 DEF TypeOK, cloud, Reconcile
<1>4. ASSUME AutoRecover(o) PROVE TypeOK'
  BY <1>4 DEF TypeOK, cloud, AutoRecover, Reenqueued, EnvStates
<1>5. ASSUME RetryOrphan(o) \/ DiscardEnvelope(o) PROVE TypeOK'
  <2>1. budget' \in [Bounds -> Nat]
    BY <1>5, SpendTyped DEF RetryOrphan, DiscardEnvelope, Bounds
  <2> QED
    BY <1>5, <2>1 DEF TypeOK, cloud, RetryOrphan, Reenqueued, DiscardEnvelope, EnvStates,
                      Bounds
<1>6. ASSUME OrphanUnsent(o) PROVE TypeOK'
  <2>1. budget' \in [Bounds -> Nat]
    BY <1>6, SpendTyped DEF OrphanUnsent, Bounds
  <2> QED  BY <1>6, <2>1 DEF TypeOK, cloud, OrphanUnsent, EnvStates, Bounds
<1> QED  BY <1>1, <1>2, <1>3, <1>4, <1>5, <1>6 DEF SweepStep, UserStep

LEMMA ElsewhereTyped ==
  ASSUME ConstantsAssumption, TypeOK, UploadShared \/ AppKill \/ Elsewhere
  PROVE  TypeOK'
<1>1. ASSUME UploadShared PROVE TypeOK'
  BY <1>1 DEF TypeOK, UploadShared, Shares, cloud
<1>2. ASSUME AppKill PROVE TypeOK'
  <2>1. budget' \in [Bounds -> Nat]
    BY <1>2, SpendTyped DEF AppKill, Bounds
  <2> QED  BY <1>2, <2>1 DEF TypeOK, AppKill, outbox, cloud, Steps, Bounds
<1>3. ASSUME OtherTillSells \/ ParentLands PROVE TypeOK'
  <2>1. stock' \in Nat /\ others' \in Nat
    BY <1>3 DEF TypeOK, OtherTillSells, ParentLands, outbox
  <2> QED  BY <1>3, <2>1, Zenon DEF TypeOK, OtherTillSells, ParentLands, outbox
<1>4. ASSUME Restock PROVE TypeOK'
  <2>1. budget' \in [Bounds -> Nat]
    BY <1>4, SpendTyped DEF Restock, Bounds
  <2> QED  BY <1>4, <2>1 DEF TypeOK, Restock, outbox, Bounds
<1> QED  BY <1>1, <1>2, <1>3, <1>4 DEF Elsewhere

LEMMA NextTyped == ASSUME ConstantsAssumption, TypeOK, [Next]_vars PROVE TypeOK'
<1>1. CASE UNCHANGED vars
  BY <1>1 DEF TypeOK, vars, outbox, cloud
<1> QED
  BY <1>1, AppTyped, DrainTyped, RecoveryTyped, ElsewhereTyped DEF Next

(* HeldSale keeps its types, for any sales and bounds.                     *)
THEOREM TypeCorrect == Spec => []TypeOK
<1>1. Init => TypeOK
  BY ConstantsAssumption, InitInv DEF Inv
<1>2. TypeOK /\ [Next]_vars => TypeOK'
  BY ConstantsAssumption, NextTyped
<1> QED  BY <1>1, <1>2, PTL DEF Spec

-----------------------------------------------------------------------------
(* What a sale's own invariant rests on.  Actions on another sale leave it *)
(* alone.                                                                  *)
Untouched(p) ==
  /\ env'[p] = env[p] /\ step'[p] = step[p]
  /\ ledger'[p] = ledger[p] /\ header'[p] = header[p]
  /\ why'[p] = why[p]
  /\ p \in cloudSales' <=> p \in cloudSales
  /\ p \in putBack' <=> p \in putBack

LEMMA UntouchedKept ==
  ASSUME NEW p \in Sales, SaleOK(p), Untouched(p) PROVE SaleOK(p)'
BY DEF Untouched, SaleOK, StageOK, Judged, VerdictTrue, RowsFollowVerdict,
       DiscardFollowsOrphan, Unsold

(* It is enough to look at the sale an action is about.                    *)
LEMMA OneSale ==
  ASSUME Inv, TypeOK', UnitsOK', NEW o \in Sales,
         \A p \in Sales \ {o} : Untouched(p), SaleOK(o)'
  PROVE  Inv'
<1>1. \A p \in Sales : SaleOK(p)'
  BY UntouchedKept DEF Inv
<1> QED  BY <1>1 DEF Inv

(* An action that leaves the cloud and the bounds alone.                   *)
LEMMA UnitsKept ==
  ASSUME Inv, UNCHANGED <<cloudSales, stock, others, budget>>
  PROVE  UnitsOK'
BY DEF Inv, TypeOK, UnitsOK, EveryUnitOnce

LEMMA AppKeeps == ASSUME ConstantsAssumption, Inv, AppStep PROVE Inv'
<1>1. TypeOK'
  BY AppTyped DEF Inv
<1>2. UnitsOK'
  BY UnitsKept DEF AppStep, Sell, ChangeOrder, EditShared, cloud
<1>3. ASSUME NEW o \in Sales, Sell(o) PROVE Inv'
  <2>1. \A p \in Sales \ {o} : Untouched(p)
    BY <1>3 DEF Inv, TypeOK, Sell, Untouched, cloud
  <2>2. SaleOK(o)'
    BY <1>3 DEF Inv, TypeOK, Sell, SaleOK, StageOK, Judged, VerdictTrue, RowsFollowVerdict,
                LetGo, DiscardFollowsOrphan, Unsold, cloud
  <2> QED  BY <1>1, <1>2, <2>1, <2>2, OneSale
<1>4. ASSUME NEW o \in Sales, ChangeOrder(o) PROVE Inv'
  <2>1. \A p \in Sales \ {o} : Untouched(p)
    BY <1>4 DEF Inv, TypeOK, ChangeOrder, Untouched, cloud
  <2>2. SaleOK(o)
    BY DEF Inv
  <2>3. RowsFollowVerdict(o)'
    BY <1>4, <2>2 DEF Inv, TypeOK, ChangeOrder, SaleOK, VerdictTrue, RowsFollowVerdict,
                      LetGo, EnvStates, cloud
  <2>4. StageOK(o)' /\ VerdictTrue(o)' /\ DiscardFollowsOrphan(o)' /\ Unsold(o)'
    BY <1>4, <2>2 DEF Inv, TypeOK, ChangeOrder, SaleOK, StageOK, Judged, VerdictTrue,
                      DiscardFollowsOrphan, Unsold, cloud
  <2> QED  BY <1>1, <1>2, <2>1, <2>3, <2>4, OneSale DEF SaleOK
<1>5. ASSUME EditShared PROVE Inv'
  <2>1. \A p \in Sales : Untouched(p)
    BY <1>5 DEF Inv, TypeOK, EditShared, Untouched, cloud
  <2>2. \A p \in Sales : SaleOK(p)'
    BY <2>1, UntouchedKept DEF Inv
  <2> QED  BY <1>1, <1>2, <2>2 DEF Inv
<1> QED  BY <1>3, <1>4, <1>5 DEF AppStep

(* The cloud's judgement is the only step that takes a unit for a sale of  *)
(* this till, and it takes it with the first recording.                    *)
LEMMA JudgementCounts ==
  ASSUME ConstantsAssumption, Inv, NEW o \in Sales, CloudRecords(o)
  PROVE  UnitsOK'
<1>1. CASE UNCHANGED cloud
  BY <1>1, UnitsKept DEF CloudRecords, cloud
<1>2. CASE ~UNCHANGED cloud
  <2>1. /\ o \notin cloudSales /\ cloudSales' = cloudSales \cup {o}
        /\ stock # 0 /\ stock' = stock - 1 /\ others' = others /\ budget' = budget
    BY <1>2 DEF CloudRecords
  <2>2. IsFiniteSet(cloudSales')
        /\ Cardinality(cloudSales') = Cardinality(cloudSales) + 1
    BY <2>1, FS_AddElement DEF Inv, UnitsOK
  <2>3. Cardinality(cloudSales) \in Nat
    BY FS_CardinalityType DEF Inv, UnitsOK
  <2> QED
    BY <2>1, <2>2, <2>3 DEF ConstantsAssumption, Inv, TypeOK, UnitsOK, EveryUnitOnce
<1> QED  BY <1>1, <1>2

LEMMA JudgementKeeps ==
  ASSUME ConstantsAssumption, Inv, NEW o \in Sales, CloudRecords(o) PROVE Inv'
<1>1. TypeOK' /\ UnitsOK'
  BY DrainTyped, JudgementCounts DEF EnvelopeStep, Inv
<1>2. \A p \in Sales \ {o} : Untouched(p)
  BY DEF Inv, TypeOK, CloudRecords, Untouched, cloud, outbox
<1>3. env[o] = "syncing" /\ env' = env /\ SaleOK(o)
  BY DEF CloudRecords, outbox, Inv, SaleOK, StageOK, Judged
<1>4. StageOK(o)' /\ VerdictTrue(o)' /\ Unsold(o)'
  BY <1>3 DEF Inv, TypeOK, CloudRecords, SaleOK, StageOK, Judged, VerdictTrue, Unsold,
              outbox, cloud
<1>5. RowsFollowVerdict(o)' /\ DiscardFollowsOrphan(o)'
  BY <1>3 DEF Inv, TypeOK, CloudRecords, SaleOK, RowsFollowVerdict, LetGo,
              DiscardFollowsOrphan, outbox, cloud
<1> QED  BY <1>1, <1>2, <1>4, <1>5, OneSale DEF SaleOK

(* The other steps of a drain, one at a time.                              *)
LEMMA DrainKeeps ==
  ASSUME ConstantsAssumption, Inv, NEW o \in Sales,
         UploadLedger(o) \/ UploadHeader(o) \/ EnvelopeStep(o)
  PROVE  Inv'
<1> USE DEF Inv, cloud
<1>1. CASE CloudRecords(o)
  BY <1>1, JudgementKeeps
<1>2. CASE ~CloudRecords(o)
  <2>1. TypeOK' /\ UnitsOK'
    BY <1>2, DrainTyped, UnitsKept
    DEF EnvelopeStep, UploadLedger, UploadHeader, SendEnvelope, MarkDone, Release, Orphan,
        DiscardHeld, FkDeferred
  <2>2. \A p \in Sales \ {o} : Untouched(p)
    BY <1>2
    DEF TypeOK, Untouched, EnvelopeStep, UploadLedger, UploadHeader, SendEnvelope, MarkDone,
        Release, Orphan, DiscardHeld, FkDeferred, ReleaseRows, DiscardRows
  <2>3. SaleOK(o)
    OBVIOUS
  <2> USE DEF TypeOK, SaleOK, StageOK, Judged, VerdictTrue, RowsFollowVerdict, LetGo,
              DiscardFollowsOrphan, Unsold
  <2>4. CASE UploadLedger(o) \/ UploadHeader(o)
    <3>1. SaleOK(o)'
      BY <2>3, <2>4 DEF UploadLedger, UploadHeader
    <3> QED  BY <2>1, <2>2, <3>1, OneSale
  <2>5. CASE SendEnvelope(o) \/ MarkDone(o)
    <3>1. SaleOK(o)'
      BY <2>3, <2>5 DEF SendEnvelope, MarkDone
    <3> QED  BY <2>1, <2>2, <3>1, OneSale
  <2>6. CASE Release(o)
    <3>1. SaleOK(o)'
      BY <2>3, <2>6 DEF Release, ReleaseRows
    <3> QED  BY <2>1, <2>2, <3>1, OneSale
  <2>7. CASE Orphan(o)
    <3>1. SaleOK(o)'
      BY <2>3, <2>7 DEF Orphan
    <3> QED  BY <2>1, <2>2, <3>1, OneSale
  <2>8. CASE DiscardHeld(o)
    <3>1. SaleOK(o)'
      BY <2>3, <2>8 DEF DiscardHeld, DiscardRows
    <3> QED  BY <2>1, <2>2, <3>1, OneSale
  <2>9. CASE FkDeferred(o)
    <3>1. SaleOK(o)'
      BY <2>3, <2>9 DEF FkDeferred
    <3> QED  BY <2>1, <2>2, <3>1, OneSale
  <2> QED
    BY <1>2, <2>4, <2>5, <2>6, <2>7, <2>8, <2>9 DEF EnvelopeStep
<1> QED  BY <1>1, <1>2

(* Lost answers, the sweep and the buttons of Sync Issues.                 *)
LEMMA RecoveryKeeps ==
  ASSUME ConstantsAssumption, Inv, NEW o \in Sales,
         OrphanUnsent(o) \/ AnswerLost(o) \/ SweepStep(o) \/ UserStep(o)
  PROVE  Inv'
<1> USE DEF Inv, cloud
<1>1. TypeOK'
  BY RecoveryTyped
<1>2. budget'.restock = budget.restock
  BY SpendTyped
  DEF SweepStep, UserStep, OrphanUnsent, AnswerLost, ResetStuck, Reconcile, AutoRecover,
      Reenqueued, RetryOrphan, DiscardEnvelope, Bounds
<1>3. UnitsOK'
  BY <1>2
  DEF UnitsOK, EveryUnitOnce, SweepStep, UserStep, OrphanUnsent, AnswerLost, ResetStuck,
      Reconcile, AutoRecover, RetryOrphan, Reenqueued, DiscardEnvelope
<1>4. \A p \in Sales \ {o} : Untouched(p)
  BY DEF TypeOK, Untouched, SweepStep, UserStep, OrphanUnsent, AnswerLost, ResetStuck, Reconcile,
         AutoRecover, RetryOrphan, Reenqueued, DiscardEnvelope, ReleaseRows, DiscardRows
<1>5. SaleOK(o)
  OBVIOUS
<1> USE DEF TypeOK, SaleOK, StageOK, Judged, VerdictTrue, RowsFollowVerdict, LetGo,
            DiscardFollowsOrphan, Unsold
<1>6. CASE AnswerLost(o)
  <2>1. SaleOK(o)'
    BY <1>5, <1>6 DEF AnswerLost
  <2> QED  BY <1>1, <1>3, <1>4, <2>1, OneSale
<1>7. CASE ResetStuck(o)
  <2>1. SaleOK(o)'
    BY <1>5, <1>7 DEF ResetStuck
  <2> QED  BY <1>1, <1>3, <1>4, <2>1, OneSale
<1>8. CASE Reconcile(o)
  <2>1. SaleOK(o)'
    BY <1>5, <1>8 DEF Reconcile, ReleaseRows, DiscardRows
  <2> QED  BY <1>1, <1>3, <1>4, <2>1, OneSale
<1>9. CASE AutoRecover(o)
  <2>1. SaleOK(o)'
    BY <1>5, <1>9 DEF AutoRecover, Reenqueued
  <2> QED  BY <1>1, <1>3, <1>4, <2>1, OneSale
<1>10. CASE UserStep(o)
  <2>1. SaleOK(o)'
    BY <1>5, <1>10 DEF UserStep, RetryOrphan, Reenqueued, DiscardEnvelope
  <2> QED  BY <1>1, <1>3, <1>4, <2>1, OneSale
<1>11. CASE OrphanUnsent(o)
  <2>1. SaleOK(o)'
    BY <1>5, <1>11 DEF OrphanUnsent
  <2> QED  BY <1>1, <1>3, <1>4, <2>1, OneSale
<1> QED  BY <1>6, <1>7, <1>8, <1>9, <1>10, <1>11 DEF SweepStep

(* The kill forgets how far every envelope was; the rest of the business   *)
(* changes the stock and the parent.                                       *)
LEMMA ElsewhereKeeps ==
  ASSUME ConstantsAssumption, Inv, UploadShared \/ AppKill \/ Elsewhere
  PROVE  Inv'
<1>1. TypeOK'
  BY ElsewhereTyped DEF Inv
<1>3. UnitsOK'
  <2>1. Cardinality(cloudSales) \in Nat
    BY FS_CardinalityType DEF Inv, UnitsOK
  <2>2. CASE OtherTillSells
    BY <1>1, <2>1, <2>2
    DEF Inv, TypeOK, UnitsOK, EveryUnitOnce, ConstantsAssumption, OtherTillSells
  <2>3. CASE Restock
    <3>1. budget'.restock = budget.restock - 1
      BY <2>3, SpendTyped DEF Inv, Restock, Bounds
    <3> QED
      BY <1>1, <2>1, <2>3, <3>1
      DEF Inv, TypeOK, UnitsOK, EveryUnitOnce, ConstantsAssumption, Restock
  <2>4. CASE AppKill
    <3>1. budget'.restock = budget.restock
      BY <2>4, SpendTyped DEF Inv, AppKill, Bounds
    <3> QED
      BY <2>4, <3>1 DEF Inv, UnitsOK, EveryUnitOnce, AppKill, cloud
  <2>5. CASE UploadShared \/ ParentLands
    BY <2>5, UnitsKept DEF UploadShared, ParentLands, cloud
  <2> QED  BY <2>2, <2>3, <2>4, <2>5 DEF Elsewhere
<1>4. CASE AppKill
  <2>1. /\ \A p \in Sales : step'[p] = "idle"
        /\ UNCHANGED <<env, why, ledger, header, cloudSales, putBack>>
    BY <1>4 DEF AppKill, outbox, cloud
  <2>3. \A p \in Sales : SaleOK(p)'
    BY <2>1
    DEF Inv, SaleOK, StageOK, Judged, VerdictTrue, RowsFollowVerdict, DiscardFollowsOrphan,
        Unsold
  <2> QED  BY <1>1, <1>3, <2>3 DEF Inv
<1>5. CASE UploadShared \/ Elsewhere
  <2>1. \A p \in Sales : Untouched(p)
    BY <1>5
    DEF Untouched, UploadShared, Elsewhere, OtherTillSells, Restock, ParentLands, outbox, cloud
  <2>2. \A p \in Sales : SaleOK(p)'
    BY <2>1, UntouchedKept DEF Inv
  <2> QED  BY <1>1, <1>3, <2>2 DEF Inv
<1> QED  BY <1>4, <1>5

LEMMA NextInv == ASSUME ConstantsAssumption, Inv, [Next]_vars PROVE Inv'
<1>1. CASE UNCHANGED vars
  <2>1. TypeOK' /\ UnitsOK'
    BY <1>1, NextTyped, UnitsKept DEF Inv, vars, cloud
  <2>2. \A p \in Sales : Untouched(p)
    BY <1>1 DEF vars, outbox, cloud, Untouched
  <2>3. \A p \in Sales : SaleOK(p)'
    BY <2>2, UntouchedKept DEF Inv
  <2> QED  BY <2>1, <2>3 DEF Inv
<1> QED  BY <1>1, AppKeeps, DrainKeeps, RecoveryKeeps, ElsewhereKeeps DEF Next

LEMMA Invariant == Spec => []Inv
<1>1. Init => Inv
  BY ConstantsAssumption, InitInv
<1>2. Inv /\ [Next]_vars => Inv'
  BY ConstantsAssumption, NextInv
<1> QED  BY <1>1, <1>2, PTL DEF Spec

-----------------------------------------------------------------------------
(* Nothing of a sale uploads before the cloud has recorded it, unless its  *)
(* envelope was discarded by hand.                                         *)
THEOREM NothingLandsEarly == Spec => []NothingBeforeTheSale
<1>1. Inv => NothingBeforeTheSale
  BY DEF Inv, SaleOK, RowsFollowVerdict, LetGo, NothingBeforeTheSale
<1> QED  BY <1>1, Invariant, PTL

(* A recorded sale keeps its ledger rows, whatever answers are lost and    *)
(* whenever the app is killed, unless its envelope was orphaned unsent or  *)
(* put back after its rows had been given up.                              *)
THEOREM RecordedKeepsRows == Spec => []RecordedSaleKeepsItsRows
<1>1. Inv => RecordedSaleKeepsItsRows
  BY DEF Inv, TypeOK, SaleOK, VerdictTrue, DiscardFollowsOrphan, RecordedSaleKeepsItsRows
<1> QED  BY <1>1, Invariant, PTL

(* The stock the cloud has left, what other tills sold and the sales it    *)
(* recorded add up to what came in: no unit is sold twice.                 *)
THEOREM UnitsAreCounted == Spec => []EveryUnitOnce
<1>1. Inv => EveryUnitOnce
  BY DEF Inv, UnitsOK
<1> QED  BY <1>1, Invariant, PTL
=============================================================================
