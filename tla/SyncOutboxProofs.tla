-------------------------- MODULE SyncOutboxProofs --------------------------
(***************************************************************************)
(* Proofs about SyncOutbox, for any number of rows, keys and concurrent    *)
(* drains and for any bounds: type correctness, that no two pending rows   *)
(* ever have one key and one action, and that the last edit of every row   *)
(* is accounted for.  The second needs three facts besides: what a drain   *)
(* keeps in memory still names the row it read (ItemsMatch), a drain never *)
(* holds two rows of one key and action (OneItemPerKey), and creation      *)
(* times tell the rows apart (AtsDiffer).  The third needs that a drain    *)
(* sends what its row still carries (ItemVersions), that it completes only *)
(* what the cloud has (AppliedConfirmed), and that nothing carries an edit *)
(* later than the last (VersionsBounded).                                  *)
(***************************************************************************)
EXTENDS SyncOutbox, FiniteSetTheorems, TLAPS

ItemsMatch ==
  \A d \in Drains : \A i \in InMemory(d) :
    queue[i.id] # NoRow => queue[i.id].key = i.key /\ queue[i.id].op = i.op

OneItemPerKey ==
  \A d \in Drains : \A i, j \in InMemory(d) :
    i.key = j.key /\ i.op = j.op => i.id = j.id

AtsDiffer ==
  \A p, q \in Used :
    /\ queue[p].at <= clock
    /\ queue[p].at = queue[q].at => p = q

(* A delete row exists only for a key the phone has deleted.               *)
DeletesKnown ==
  /\ \A q \in Used : queue[q].op = "delete" => queue[q].key \in deleted
  /\ \A o \in orphans : o.op = "delete" => o.key \in deleted

Inv ==
  /\ TypeOK
  /\ ItemsMatch /\ OneItemPerKey /\ AtsDiffer /\ DeletesKnown
  /\ OnePendingPerKey

-----------------------------------------------------------------------------
(* Type correctness.                                                       *)
LEMMA RowTypes ==
  ASSUME TypeOK, NEW q \in Used
  PROVE  /\ q \in Rows /\ queue[q] \in Row
         /\ queue[q].key \in Keys /\ queue[q].op \in Ops
         /\ queue[q].ver \in Nat /\ queue[q].at \in Nat
         /\ queue[q].status \in {"pending", "syncing", "completed"}
         /\ queue[q].synced \in BOOLEAN /\ queue[q].due \in BOOLEAN
         /\ queue[q].tries \in Nat /\ queue[q].fks \in Nat /\ queue[q].auto \in Nat
BY DEF TypeOK, Used, Row

(* The rows Edit, Delete and Reenqueue insert are rows.                    *)
LEMMA NewRowType ==
  ASSUME NEW k \in Keys, NEW op \in Ops, NEW v \in Nat, NEW at \in Nat, NEW a \in Nat
  PROVE  NewRow(k, op, v, at, a) \in Row
BY DEF NewRow, Row

(* What the queue's updates make of a row.                                 *)
LEMMA RowUpdates ==
  ASSUME ConstantsAssumption, NEW r \in Row, NEW v \in Nat, NEW fk \in BOOLEAN
  PROVE  /\ Coalesced(r, v) \in Row
         /\ Completed(r) \in Row
         /\ Retried(r, fk) \in Row
         /\ [r EXCEPT !.status = "syncing"] \in Row
         /\ [r EXCEPT !.status = "pending"] \in Row
         /\ [r EXCEPT !.due = TRUE] \in Row
         /\ [r EXCEPT !.status = "pending", !.due = TRUE] \in Row
<1> USE DEF Row
<1>1. Coalesced(r, v) \in Row
  BY DEF Coalesced
<1>2. Completed(r) \in Row
  BY DEF Completed
<1>3. Retried(r, fk) \in Row
  <2>1. r.tries \in Nat /\ r.fks \in Nat
    OBVIOUS
  <2>2. Bump(r.tries) \in Nat /\ Bump(r.fks) \in Nat
    BY <2>1 DEF Bump, ConstantsAssumption
  <2> QED  BY <2>2 DEF Retried
<1> QED  BY <1>1, <1>2, <1>3

(* The empty queue of a new phone is well-typed.                           *)
LEMMA InitType == ASSUME ConstantsAssumption, Init PROVE TypeOK
BY DEF ConstantsAssumption, Init, TypeOK, IdleDrain, Drain, Phases, Item, Versions

(* What pushPending reads of well-typed rows are items.                    *)
LEMMA ItemTypes == ASSUME TypeOK, NEW S \in SUBSET Used PROVE Items(S) \subseteq Item
BY RowTypes DEF Items, Item

(* Whatever a drain holds in memory are items, in every state that is      *)
(* well-typed.                                                             *)
LEMMA InMemoryType ==
  ASSUME TypeOK, NEW d \in Drains
  PROVE  /\ drain[d].todo \subseteq Item /\ drain[d].cur \subseteq Item
         /\ drain[d].chunk \subseteq Item /\ drain[d].phase \in Phases
         /\ drain[d].degraded \in BOOLEAN
         /\ InMemory(d) \subseteq Item
BY DEF TypeOK, Drain, InMemory

(* A drain that takes the next group to push keeps its type.               *)
LEMMA DrainMoves ==
  ASSUME NEW dr \in Drain, NEW c \in SUBSET Item, NEW t \in SUBSET Item
  PROVE  [dr EXCEPT !.cur = c, !.todo = t] \in Drain
BY DEF Drain

(* So does one whose chunk is on its way or has been given up.             *)
LEMMA DrainSends ==
  ASSUME NEW dr \in Drain, NEW c \in SUBSET Item, NEW t \in SUBSET Item
  PROVE  [dr EXCEPT !.phase = "wait", !.chunk = c, !.cur = t] \in Drain
BY DEF Drain, Phases

(* So does one whose chunk the cloud has applied.                          *)
LEMMA DrainApplies ==
  ASSUME NEW dr \in Drain
  PROVE  [dr EXCEPT !.phase = "applied"] \in Drain
BY DEF Drain, Phases

(* So does one that goes on to its next chunk or group.                    *)
LEMMA DrainLoops ==
  ASSUME NEW dr \in Drain, NEW g \in BOOLEAN
  PROVE  /\ [dr EXCEPT !.phase = "loop", !.chunk = {}] \in Drain
         /\ [dr EXCEPT !.phase = "loop", !.chunk = {}, !.degraded = g] \in Drain
         /\ IdleDrain \in Drain
BY DEF Drain, IdleDrain, Phases

(* markFailed leaves a well-typed queue and orphan table, whichever of its *)
(* three ways it takes: orphan, back to 'pending', unchanged.              *)
LEMMA MarkFailedType ==
  ASSUME ConstantsAssumption, TypeOK, NEW S \in SUBSET Used, NEW lifted,
         NEW kind \in {"fk", "refused"}, NEW fk \in BOOLEAN,
         MarkFailed(S, lifted, kind, fk)
  PROVE  queue' \in [Rows -> Row \cup {NoRow}] /\ orphans' \subseteq Orphan
<1>1. ASSUME NEW q \in Used
      PROVE  Retried(queue[q], fk) \in Row /\ OrphanOf(q, kind, fk) \in Orphan
  <2>1. queue[q] \in Row
    BY RowTypes
  <2>2. Retried(queue[q], fk) \in Row
    BY <2>1, RowUpdates
  <2>3. Retried(queue[q], fk).fks \in Nat
    BY <2>2 DEF Row
  <2> QED  BY <2>2, <2>3, RowTypes DEF OrphanOf, Orphan
<1>2. queue' \in [Rows -> Row \cup {NoRow}]
  BY <1>1 DEF MarkFailed, TypeOK
<1>3. orphans' \subseteq Orphan
  BY <1>1 DEF MarkFailed, TypeOK
<1> QED  BY <1>2, <1>3

(* So does failing a whole chunk, one row after the other.                 *)
LEMMA FailChunkType ==
  ASSUME ConstantsAssumption, TypeOK, NEW d \in Drains, NEW lifted,
         NEW kind \in {"fk", "refused"}, NEW fk \in BOOLEAN, NEW g \in BOOLEAN,
         FailChunk(d, lifted, kind, fk, g)
  PROVE  /\ queue' \in [Rows -> Row \cup {NoRow}] /\ orphans' \subseteq Orphan
         /\ drain' \in [Drains -> Drain]
<1>1. PICK S \in SUBSET Used : MarkFailed(S, lifted, kind, fk)
  BY DEF FailChunk
<1>2. drain' \in [Drains -> Drain]
  <2> DEFINE gg == g \/ drain[d].degraded
             failed == [drain[d] EXCEPT !.phase = "loop", !.chunk = {},
                                        !.degraded = gg]
  <2>1. drain[d] \in Drain /\ gg \in BOOLEAN
    BY InMemoryType DEF TypeOK
  <2>2. failed \in Drain /\ IdleDrain \in Drain
    <3> HIDE DEF gg
    <3> QED  BY <2>1, DrainLoops
  <2>3. \/ drain' = [drain EXCEPT ![d] = failed]
        \/ drain' = [drain EXCEPT ![d] = IdleDrain]
    BY DEF FailChunk
  <2> HIDE DEF failed
  <2> QED  BY <2>2, <2>3 DEF TypeOK
<1>3. queue' \in [Rows -> Row \cup {NoRow}] /\ orphans' \subseteq Orphan
  BY <1>1, MarkFailedType
<1> QED  BY <1>2, <1>3

(* Type correctness: one step per action.                                  *)
LEMMA TypeStep ==
  ASSUME ConstantsAssumption, TypeOK, [Next]_vars
  PROVE  TypeOK'
<1> DEFINE QueueType == queue' \in [Rows -> Row \cup {NoRow}]
<1>1. ASSUME NEW k \in Keys, Edit(k) PROVE TypeOK'
  <2>1. clock \in Nat /\ clock + 1 \in Nat
    BY DEF TypeOK
  <2>2. QueueType
    <3>1. CASE \E q \in PendingFor(k, "upsert") :
                  queue' = [queue EXCEPT ![q] = Coalesced(queue[q], clock + 1)]
      <4>1. ASSUME NEW q \in PendingFor(k, "upsert")
            PROVE  Coalesced(queue[q], clock + 1) \in Row
        BY <2>1, RowTypes, RowUpdates DEF PendingFor
      <4> QED  BY <3>1, <4>1 DEF TypeOK
    <3>2. CASE \E q \in Rows : queue' =
                  [queue EXCEPT ![q] = NewRow(k, "upsert", clock + 1, clock + 1, 0)]
      BY <2>1, <3>2, NewRowType DEF TypeOK, Ops
    <3> QED  BY <1>1, <3>1, <3>2 DEF Edit
  <2> QED  BY <1>1, <2>1, <2>2 DEF TypeOK, Edit, Tick, Versions
<1>2. ASSUME NEW k \in Keys, Delete(k) PROVE TypeOK'
  <2>1. clock \in Nat /\ clock + 1 \in Nat
    BY DEF TypeOK
  <2>2. NewRow(k, "delete", clock + 1, clock + 1, 0) \in Row
    BY <2>1, NewRowType DEF Ops
  <2>3. \A q \in PendingFor(k, "upsert") : Completed(queue[q]) \in Row
    BY RowTypes, RowUpdates DEF PendingFor
  <2>4. QueueType
    BY <1>2, <2>2, <2>3 DEF TypeOK, Delete
  <2> QED  BY <1>2, <2>1, <2>4 DEF TypeOK, Delete, Tick, Versions
<1>3. ASSUME NEW d \in Drains, DrainStart(d) PROVE TypeOK'
  <2>1. Items(Eligible) \subseteq Item
    BY ItemTypes DEF Eligible
  <2> QED  BY <1>3, <2>1 DEF TypeOK, DrainStart, Drain, Phases
<1>4. ASSUME NEW d \in Drains, MarkGroup(d) PROVE TypeOK'
  <2>1. QueueType
    <3>1. \A q \in Used : [queue[q] EXCEPT !.status = "syncing"] \in Row
      BY RowTypes, RowUpdates
    <3>2. PICK I : queue' = [q \in Rows |->
            IF q \in Ids(I) \cap Used
              THEN [queue[q] EXCEPT !.status = "syncing"] ELSE queue[q]]
      BY <1>4 DEF MarkGroup
    <3> QED  BY <3>1, <3>2 DEF TypeOK
  <2>2. drain' \in [Drains -> Drain]
    <3> DEFINE moved(group) ==
                 [drain[d] EXCEPT !.cur = group, !.todo = drain[d].todo \ group]
    <3>1. PICK group \in SUBSET drain[d].todo : drain' = [drain EXCEPT ![d] = moved(group)]
      <4>1. PICK i \in drain[d].todo :
              drain' = [drain EXCEPT ![d] =
                         moved({j \in drain[d].todo : SameGroup(i, j)})]
        BY <1>4 DEF MarkGroup
      <4> QED  BY <4>1
    <3>2. drain[d] \in Drain /\ group \in SUBSET Item /\ drain[d].todo \ group \in SUBSET Item
      BY InMemoryType DEF TypeOK
    <3>3. moved(group) \in Drain
      BY <3>2, DrainMoves
    <3> HIDE DEF moved
    <3> QED  BY <3>1, <3>3 DEF TypeOK
  <2> QED  BY <1>4, <2>1, <2>2 DEF TypeOK, MarkGroup
<1>5. ASSUME NEW d \in Drains, SendChunk(d) PROVE TypeOK'
  <2>1. drain' \in [Drains -> Drain]
    <3> DEFINE sent(c) ==
                 [drain[d] EXCEPT !.phase = "wait", !.chunk = c, !.cur = drain[d].cur \ c]
    <3>1. PICK c \in SUBSET drain[d].cur : drain' = [drain EXCEPT ![d] = sent(c)]
      BY <1>5, Zenon DEF SendChunk
    <3>2. /\ drain[d] \in Drain /\ c \in SUBSET Item /\ drain[d].cur \ c \in SUBSET Item
          /\ "wait" \in Phases
      BY InMemoryType DEF TypeOK, Phases
    <3>3. sent(c) \in Drain
      BY <3>2, DrainSends
    <3> HIDE DEF sent
    <3> QED  BY <3>1, <3>3 DEF TypeOK
  <2> QED  BY <1>5, <2>1 DEF TypeOK, SendChunk
<1>6. ASSUME NEW c \in SUBSET Item, Landed(c)
      PROVE  cloud' \in [Keys -> Versions] /\ confirmed' \subseteq Versions
  <2>1. \A i \in c : i.ver \in Nat /\ Effect(i) \in Nat
    BY DEF Item, Effect
  <2>2. \A k \in Keys : (\E i \in c : i.key = k) => (CHOOSE i \in c : i.key = k) \in c
    OBVIOUS
  <2>3. cloud' \in [Keys -> Versions]
    BY <1>6, <2>1, <2>2 DEF TypeOK, Landed, Versions
  <2>4. {i.ver : i \in c} \subseteq Nat
    BY <2>1
  <2>5. confirmed' \subseteq Versions
    BY <1>6, <2>4 DEF TypeOK, Landed, Versions
  <2> QED  BY <2>3, <2>5
<1>7. ASSUME NEW d \in Drains, CloudApplies(d) PROVE TypeOK'
  <2>1. cloud' \in [Keys -> Versions] /\ confirmed' \subseteq Versions
    BY <1>6, <1>7, InMemoryType DEF CloudApplies
  <2>2. drain' \in [Drains -> Drain]
    <3>1. [drain[d] EXCEPT !.phase = "applied"] \in Drain
      BY DrainApplies DEF TypeOK
    <3> QED  BY <1>7, <3>1 DEF TypeOK, CloudApplies
  <2> QED  BY <1>7, <2>1, <2>2 DEF TypeOK, CloudApplies
<1>8. ASSUME NEW d \in Drains, ChunkDone(d) PROVE TypeOK'
  <2>1. QueueType
    BY <1>8, RowTypes, RowUpdates DEF TypeOK, ChunkDone
  <2>2. drain' \in [Drains -> Drain]
    <3>1. [drain[d] EXCEPT !.phase = "loop", !.chunk = {}] \in Drain
      BY DrainLoops DEF TypeOK
    <3> QED  BY <1>8, <3>1 DEF TypeOK, ChunkDone
  <2> QED  BY <1>8, <2>1, <2>2 DEF TypeOK, ChunkDone
<1>9. ASSUME NEW d \in Drains, ChunkTimeout(d) PROVE TypeOK'
  <2>1. late' \subseteq SUBSET Item
    BY <1>9, InMemoryType DEF TypeOK, ChunkTimeout
  <2>2. FailChunk(d, {}, "refused", FALSE, TRUE)
    BY <1>9 DEF ChunkTimeout
  <2>3. QueueType /\ orphans' \subseteq Orphan /\ drain' \in [Drains -> Drain]
    BY <2>2, FailChunkType
  <2> QED  BY <1>9, <2>1, <2>3 DEF TypeOK, ChunkTimeout, Fault
<1>10. ASSUME NEW d \in Drains, ChunkError(d) \/ ChunkFkRejected(d) \/ ChunkRefused(d)
       PROVE  TypeOK'
  <2>1. \E lifted : \/ FailChunk(d, lifted, "refused", FALSE, TRUE)
                    \/ FailChunk(d, lifted, "fk", TRUE, FALSE)
                    \/ FailChunk(d, lifted, "refused", FALSE, FALSE)
    BY <1>10 DEF ChunkError, ChunkFkRejected, ChunkRefused
  <2>2. QueueType /\ orphans' \subseteq Orphan /\ drain' \in [Drains -> Drain]
    BY <2>1, FailChunkType
  <2>3. faults' \in {faults, faults + 1}
    BY <1>10 DEF ChunkError, ChunkFkRejected, ChunkRefused, Fault
  <2>4. UNCHANGED <<clock, latest, deleted, late, cloud, confirmed, dropped, exposed>>
    BY <1>10 DEF ChunkError, ChunkFkRejected, ChunkRefused
  <2>5. faults' \in Nat
    BY <2>3 DEF TypeOK
  <2> QED  BY <2>2, <2>4, <2>5 DEF TypeOK
<1>11. ASSUME NEW d \in Drains, DrainEnd(d) PROVE TypeOK'
  BY <1>11 DEF TypeOK, DrainEnd, IdleDrain, Drain, Phases
<1>12. ASSUME NEW c \in late, LateLanding(c) PROVE TypeOK'
  <2>1. c \in SUBSET Item
    BY DEF TypeOK
  <2> QED  BY <1>6, <1>12, <2>1 DEF TypeOK, LateLanding
<1>13. CASE AppKill
  <2>1. late' \subseteq SUBSET Item
    BY <1>13, InMemoryType DEF TypeOK, AppKill
  <2>2. drain' \in [Drains -> Drain]
    BY <1>13 DEF AppKill, IdleDrain, Drain, Phases
  <2>3. faults' \in Nat
    BY <1>13 DEF TypeOK, AppKill, Fault
  <2> QED  BY <1>13, <2>1, <2>2, <2>3 DEF TypeOK, AppKill
<1>14. ASSUME NEW cut, ResetStuck(cut) PROVE TypeOK'
  <2>1. QueueType
    BY <1>14, RowTypes, RowUpdates DEF TypeOK, ResetStuck, Stuck
  <2>2. exposed' \subseteq Keys
    BY <1>14, RowTypes DEF TypeOK, ResetStuck, Stuck, Twinned, Outdone
  <2> QED  BY <1>14, <2>1, <2>2 DEF TypeOK, ResetStuck
<1>15. ASSUME NEW q \in Rows, BackoffOver(q) \/ RetryRow(q) \/ DiscardRow(q)
       PROVE  TypeOK'
  <2>1. q \in Used
    BY <1>15 DEF BackoffOver, RetryRow, DiscardRow, Used
  <2>2. /\ [queue[q] EXCEPT !.due = TRUE] \in Row
        /\ [queue[q] EXCEPT !.status = "pending", !.due = TRUE] \in Row
    BY <2>1, RowTypes, RowUpdates
  <2>3. CASE BackoffOver(q)
    BY <2>2, <2>3 DEF TypeOK, BackoffOver
  <2>4. CASE RetryRow(q)
    BY <2>2, <2>4 DEF TypeOK, RetryRow, Fault
  <2>5. CASE DiscardRow(q)
    BY <2>1, <2>5, RowTypes DEF TypeOK, DiscardRow, Versions
  <2> QED  BY <1>15, <2>3, <2>4, <2>5
<1>16. ASSUME NEW o \in orphans, NEW a \in Nat, Reenqueue(o, a) PROVE TypeOK'
  <2>1. o.key \in Keys /\ o.op \in Ops /\ o.ver \in Nat
    BY DEF TypeOK, Orphan
  <2>2. NewRow(o.key, o.op, o.ver, clock + 1, a) \in Row
    BY <2>1, NewRowType DEF TypeOK
  <2> QED  BY <1>16, <2>2 DEF TypeOK, Reenqueue, Tick
<1>17. ASSUME NEW o \in orphans, AutoRecover(o) \/ RetryOrphan(o) \/ DiscardOrphan(o)
       PROVE  TypeOK'
  <2>1. o.auto \in Nat /\ o.auto + 1 \in Nat /\ o.ver \in Nat
    BY DEF TypeOK, Orphan
  <2> QED  BY <1>16, <1>17, <2>1
           DEF TypeOK, AutoRecover, RetryOrphan, DiscardOrphan, Versions
<1>18. CASE UNCHANGED vars
  BY <1>18 DEF TypeOK, vars
<1> QED
  BY <1>1, <1>2, <1>3, <1>4, <1>5, <1>7, <1>8, <1>9, <1>10, <1>11, <1>12, <1>13,
     <1>14, <1>15, <1>17, <1>18
     DEF Next, AppStep, DrainStep, LinkFault, Recovery, UserStep

(* The queue, the drains, the cloud and the histories always have their    *)
(* types: no answer, kill, sweep or tap leaves a row half-written.         *)
THEOREM TypeCorrect == Spec => []TypeOK
<1>1. Init => TypeOK
  BY ConstantsAssumption, InitType
<1>2. TypeOK /\ [Next]_vars => TypeOK'
  BY ConstantsAssumption, TypeStep
<1> QED  BY <1>1, <1>2, PTL DEF Spec

-----------------------------------------------------------------------------
(* One pending row per key and action.                                     *)

(* A step leaves row q alone, changes only its status, flags and payload,  *)
(* or removes it.                                                          *)
KeepsRow(q) ==
  queue'[q] # NoRow =>
    /\ queue[q] # NoRow
    /\ queue'[q].key = queue[q].key /\ queue'[q].op = queue[q].op

KeepsAge(q) == queue'[q] # NoRow => queue'[q].at = queue[q].at

MemoryShrinks == \A d \in Drains : InMemory(d)' \subseteq InMemory(d)

(* Steps that only move, fail or remove rows keep what the drains know of  *)
(* the queue right.                                                        *)
LEMMA MemoryKept ==
  ASSUME TypeOK, ItemsMatch, OneItemPerKey, MemoryShrinks,
         \A d \in Drains : \A i \in InMemory(d)' : KeepsRow(i.id)
  PROVE  ItemsMatch' /\ OneItemPerKey'
<1>1. ItemsMatch'
  BY DEF ItemsMatch, MemoryShrinks, KeepsRow
<1>2. OneItemPerKey'
  BY DEF OneItemPerKey, MemoryShrinks
<1> QED  BY <1>1, <1>2

(* The same for creation times, and for the keys of delete rows.           *)
LEMMA AgesKept ==
  ASSUME TypeOK, AtsDiffer, clock' = clock,
         \A q \in Rows : KeepsRow(q) /\ KeepsAge(q)
  PROVE  AtsDiffer'
BY DEF AtsDiffer, Used, KeepsRow, KeepsAge

(* Rows that keep their key and action keep deletes on deleted keys.       *)
LEMMA DeletesKept ==
  ASSUME DeletesKnown, deleted \subseteq deleted',
         orphans' \subseteq orphans, \A q \in Rows : KeepsRow(q)
  PROVE  DeletesKnown'
BY DEF DeletesKnown, Used, KeepsRow

(* Flipping the rows F to 'pending' is safe when none of them has a twin   *)
(* that is pending already and no two of them are twins.                   *)
LEMMA FlipsSafe ==
  ASSUME TypeOK, OnePendingPerKey, NEW F \in SUBSET Used,
         \A q \in Rows : KeepsRow(q),
         \A q \in Rows \ F : queue'[q] # NoRow /\ queue'[q].status = "pending"
                              => queue[q].status = "pending",
         \A q \in F : ~HasTwin(q),
         \A p, q \in F : Same(p, q) => p = q
  PROVE  OnePendingPerKey'
<1> SUFFICES ASSUME NEW p \in Used', NEW q \in Used',
                    queue'[p].status = "pending", queue'[q].status = "pending",
                    queue'[p].key = queue'[q].key, queue'[p].op = queue'[q].op
             PROVE  p = q
  BY DEF OnePendingPerKey, PendingFor
<1>1. p \in Used /\ q \in Used /\ Same(p, q)
  BY DEF KeepsRow, Used, Same
<1>2. CASE p \in F /\ q \in F
  BY <1>1, <1>2
<1>3. CASE p \in F /\ q \notin F
  <2>1. queue[q].status = "pending"
    BY <1>3 DEF Used
  <2> QED  BY <1>1, <1>3, <2>1 DEF HasTwin, PendingFor, Same
<1>4. CASE p \notin F /\ q \in F
  <2>1. queue[p].status = "pending"
    BY <1>4 DEF Used
  <2> QED  BY <1>1, <1>4, <2>1 DEF HasTwin, PendingFor, Same
<1>5. CASE p \notin F /\ q \notin F
  <2>1. queue[p].status = "pending" /\ queue[q].status = "pending"
    BY <1>5 DEF Used
  <2>2. queue[p].key \in Keys /\ queue[p].op \in Ops
    BY <1>1, RowTypes
  <2> QED  BY <1>1, <2>1, <2>2 DEF OnePendingPerKey, PendingFor, Same
<1> QED  BY <1>2, <1>3, <1>4, <1>5

(* A row that gets a new creation time gets one no other row has.          *)
LEMMA NewAge ==
  ASSUME TypeOK, AtsDiffer, clock' = clock + 1, NEW q \in Rows,
         queue'[q].at = clock + 1,
         \A p \in Rows \ {q} : KeepsRow(p) /\ KeepsAge(p)
  PROVE  AtsDiffer'
<1>1. clock \in Nat
  BY DEF TypeOK
<1>2. \A p \in Used' \ {q} : p \in Used /\ queue'[p].at = queue[p].at
                              /\ queue[p].at \in Nat /\ queue[p].at <= clock
  BY RowTypes DEF Used, KeepsRow, KeepsAge, AtsDiffer
<1>3. \A p \in Used' : queue'[p].at <= clock'
  BY <1>1, <1>2
<1>4. \A p, r \in Used' : queue'[p].at = queue'[r].at => p = r
  BY <1>1, <1>2 DEF AtsDiffer
<1> QED  BY <1>3, <1>4 DEF AtsDiffer

(* Everything follows at once for a step that starts no row and refills no *)
(* drain, whatever rows F it flips.                                        *)
LEMMA QuietStep ==
  ASSUME Inv, TypeOK', NEW F \in SUBSET Used, clock' = clock,
         deleted' = deleted, MemoryShrinks,
         \A q \in Rows : KeepsRow(q) /\ KeepsAge(q),
         \A q \in Rows \ F : queue'[q] # NoRow /\ queue'[q].status = "pending"
                              => queue[q].status = "pending",
         \A q \in F : ~HasTwin(q),
         \A p, q \in F : Same(p, q) => p = q,
         \A o \in orphans' \ orphans :
           \E q \in Used : o.key = queue[q].key /\ o.op = queue[q].op
  PROVE  Inv'
<1>1. ItemsMatch' /\ OneItemPerKey'
  <2>1. \A d \in Drains : \A i \in InMemory(d)' : i.id \in Rows
    BY InMemoryType DEF Inv, MemoryShrinks, Item
  <2> QED  BY <2>1, MemoryKept DEF Inv
<1>2. AtsDiffer'
  BY AgesKept DEF Inv
<1>3. DeletesKnown'
  BY DEF Inv, DeletesKnown, Used, KeepsRow
<1>4. OnePendingPerKey'
  BY FlipsSafe DEF Inv
<1> QED  BY <1>1, <1>2, <1>3, <1>4 DEF Inv

(* A step that enqueues a row for a key that has none pending, in a slot   *)
(* no drain knows.                                                         *)
LEMMA EnqueueStep ==
  ASSUME Inv, TypeOK', NEW q \in Rows, Fresh(q), NEW k, NEW op,
         PendingFor(k, op) = {},
         queue'[q] # NoRow, queue'[q].key = k, queue'[q].op = op,
         queue'[q].at = clock + 1, clock' = clock + 1, drain' = drain,
         deleted \subseteq deleted', orphans' \subseteq orphans,
         op = "delete" => k \in deleted',
         \A p \in Rows \ {q} :
           /\ KeepsRow(p) /\ KeepsAge(p)
           /\ queue'[p] # NoRow /\ queue'[p].status = "pending"
                => queue[p].status = "pending"
  PROVE  Inv'
<1>1. ItemsMatch' /\ OneItemPerKey'
  <2>1. MemoryShrinks
    BY DEF MemoryShrinks, InMemory
  <2>2. \A d \in Drains : \A i \in InMemory(d)' : i.id \in Rows \ {q}
    BY <2>1, InMemoryType DEF Inv, MemoryShrinks, Item, Fresh, HeldByDrain
  <2> QED  BY <2>1, <2>2, MemoryKept DEF Inv
<1>2. AtsDiffer'
  BY NewAge DEF Inv
<1>3. DeletesKnown'
  BY DEF Inv, DeletesKnown, Used, KeepsRow
<1>4. OnePendingPerKey'
  <2> SUFFICES ASSUME NEW p \in Used', NEW r \in Used',
                      queue'[p].status = "pending", queue'[r].status = "pending",
                      queue'[p].key = queue'[r].key, queue'[p].op = queue'[r].op
               PROVE  p = r
    BY DEF OnePendingPerKey, PendingFor
  <2>1. \A x \in {p, r} \ {q} :
          /\ x \in Used /\ queue[x].status = "pending"
          /\ queue'[x].key = queue[x].key /\ queue'[x].op = queue[x].op
    BY DEF Used, KeepsRow
  <2>2. CASE p = q \/ r = q
    BY <2>1, <2>2 DEF PendingFor
  <2>3. CASE p # q /\ r # q
    <3>1. queue[p].key \in Keys /\ queue[p].op \in Ops
      BY <2>1, <2>3, RowTypes DEF Inv
    <3> QED  BY <2>1, <2>3, <3>1 DEF Inv, OnePendingPerKey, PendingFor
  <2> QED  BY <2>2, <2>3
<1> QED  BY <1>1, <1>2, <1>3, <1>4 DEF Inv

(* An edit refreshes the pending row of its key or inserts the only one.   *)
LEMMA EditStep ==
  ASSUME Inv, TypeOK', NEW k \in Keys, Edit(k)
  PROVE  Inv'
<1>1. clock' = clock + 1 /\ UNCHANGED <<deleted, orphans, drain>>
  BY DEF Edit, Tick
<1>2. ASSUME NEW q \in PendingFor(k, "upsert"),
             queue' = [queue EXCEPT ![q] = Coalesced(queue[q], clock + 1)]
      PROVE  Inv'
  <2>1. /\ queue'[q] = Coalesced(queue[q], clock + 1) /\ q \in Used
        /\ \A p \in Rows \ {q} : queue'[p] = queue[p]
    BY <1>2 DEF Inv, TypeOK, PendingFor, Used
  <2>2. queue'[q].key = queue[q].key /\ queue'[q].op = queue[q].op
        /\ queue'[q].status = queue[q].status /\ queue'[q].at = clock + 1
    BY <2>1, RowTypes DEF Inv, Coalesced, Row
  <2>3. \A p \in Rows : KeepsRow(p)
    BY <2>1, <2>2 DEF KeepsRow, Used
  <2>4. ItemsMatch' /\ OneItemPerKey'
    <3>1. MemoryShrinks
      BY <1>1 DEF MemoryShrinks, InMemory
    <3>2. \A d \in Drains : \A i \in InMemory(d)' : i.id \in Rows
      BY <3>1, InMemoryType DEF Inv, MemoryShrinks, Item
    <3> QED  BY <2>3, <3>1, <3>2, MemoryKept DEF Inv
  <2>5. AtsDiffer'
    BY <1>1, <2>1, <2>2, NewAge DEF Inv, KeepsRow, KeepsAge, PendingFor, Used
  <2>6. DeletesKnown'
    BY <1>1, <2>3, DeletesKept DEF Inv
  <2>7. OnePendingPerKey'
    <3>1. \A p \in Rows : queue'[p] # NoRow /\ queue'[p].status = "pending"
                           => queue[p].status = "pending"
      BY <2>1, <2>2
    <3>2. {} \in SUBSET Used
      OBVIOUS
    <3> QED  BY <2>3, <3>1, <3>2, FlipsSafe DEF Inv
  <2> QED  BY <2>4, <2>5, <2>6, <2>7 DEF Inv
<1>3. ASSUME PendingFor(k, "upsert") = {}, NEW q \in Rows, Fresh(q),
             queue' = [queue EXCEPT
                         ![q] = NewRow(k, "upsert", clock + 1, clock + 1, 0)]
      PROVE  Inv'
  <2>1. /\ queue'[q] = NewRow(k, "upsert", clock + 1, clock + 1, 0)
        /\ \A p \in Rows \ {q} : queue'[p] = queue[p]
    BY <1>3 DEF Inv, TypeOK
  <2>2. queue'[q] # NoRow
    BY <2>1, NoRowAssumption, NewRowType DEF Inv, TypeOK, Ops
  <2> QED
    BY <1>1, <1>3, <2>1, <2>2, EnqueueStep DEF NewRow, KeepsRow, KeepsAge
<1> QED  BY <1>2, <1>3 DEF Edit

(* A delete completes the pending upserts and inserts the only tombstone.  *)
LEMMA DeleteStep ==
  ASSUME Inv, TypeOK', NEW k \in Keys, Delete(k)
  PROVE  Inv'
<1>1. PICK q \in Rows :
        /\ Fresh(q)
        /\ queue' = [r \in Rows |->
             IF r = q THEN NewRow(k, "delete", clock + 1, clock + 1, 0)
             ELSE IF r \in PendingFor(k, "upsert") THEN Completed(queue[r])
             ELSE queue[r]]
  BY DEF Delete
<1>2. /\ clock' = clock + 1 /\ deleted' = deleted \cup {k}
      /\ UNCHANGED <<orphans, drain>>
  BY DEF Delete, Tick
<1>3. queue'[q] = NewRow(k, "delete", clock + 1, clock + 1, 0)
  BY <1>1
<1>4. queue'[q] # NoRow
  BY <1>3, NoRowAssumption, NewRowType DEF Inv, TypeOK, Ops
<1>5. PendingFor(k, "delete") = {}
  BY DEF Delete, Inv, DeletesKnown, PendingFor
<1>6. ASSUME NEW p \in Rows \ {q}
      PROVE  /\ KeepsRow(p) /\ KeepsAge(p)
             /\ queue'[p] # NoRow /\ queue'[p].status = "pending"
                  => queue[p].status = "pending"
  <2>1. CASE p \in PendingFor(k, "upsert")
    <3>1. p \in Used /\ queue[p] \in Row /\ queue'[p] = Completed(queue[p])
      BY <1>1, <1>6, <2>1, RowTypes DEF Inv, PendingFor
    <3>2. /\ queue'[p].key = queue[p].key /\ queue'[p].op = queue[p].op
          /\ queue'[p].at = queue[p].at /\ queue'[p].status = "completed"
      BY <3>1 DEF Completed, Row
    <3> QED  BY <3>1, <3>2 DEF KeepsRow, KeepsAge, Used
  <2>2. CASE p \notin PendingFor(k, "upsert")
    BY <1>1, <1>6, <2>2 DEF KeepsRow, KeepsAge
  <2> QED  BY <2>1, <2>2
<1> QED
  BY <1>1, <1>2, <1>3, <1>4, <1>5, <1>6, EnqueueStep DEF NewRow

(* A recovered orphan refreshes the pending row of its key or inserts the  *)
(* only one.                                                               *)
LEMMA ReenqueueStep ==
  ASSUME Inv, TypeOK', NEW o \in orphans, NEW a \in Nat, Reenqueue(o, a)
  PROVE  Inv'
<1>1. PICK q \in Rows :
        Fresh(q) /\ queue' = [queue EXCEPT
                               ![q] = NewRow(o.key, o.op, o.ver, clock + 1, a)]
  BY DEF Reenqueue
<1>2. /\ clock' = clock + 1 /\ PendingFor(o.key, o.op) = {}
      /\ orphans' \subseteq orphans /\ UNCHANGED <<deleted, drain>>
  BY DEF Reenqueue, Tick
<1>3. /\ queue'[q] = NewRow(o.key, o.op, o.ver, clock + 1, a)
      /\ \A p \in Rows \ {q} : queue'[p] = queue[p]
  BY <1>1 DEF Inv, TypeOK
<1>4. queue'[q] # NoRow
  <2>1. o.key \in Keys /\ o.op \in Ops /\ o.ver \in Nat /\ clock + 1 \in Nat
    BY DEF Inv, TypeOK, Orphan
  <2> QED  BY <1>3, <2>1, NoRowAssumption, NewRowType
<1>5. o.op = "delete" => o.key \in deleted'
  BY <1>2 DEF Inv, DeletesKnown
<1> QED
  BY <1>1, <1>2, <1>3, <1>4, <1>5, EnqueueStep DEF NewRow, KeepsRow, KeepsAge

(* Reading the queue: the items are the rows, and no two pending rows are  *)
(* twins, so no two items are.                                             *)
LEMMA ReadStep ==
  ASSUME Inv, TypeOK', NEW d \in Drains, DrainStart(d)
  PROVE  Inv'
<1>1. UNCHANGED <<clock, deleted, queue, orphans>>
  BY DEF DrainStart
<1>2. InMemory(d)' = Items(Eligible)
  BY DEF DrainStart, InMemory, Inv, TypeOK
<1>3. \A e \in Drains \ {d} : InMemory(e)' = InMemory(e)
  BY DEF DrainStart, InMemory, Inv, TypeOK
<1>4. ItemsMatch'
  BY <1>1, <1>2, <1>3 DEF Inv, ItemsMatch, Items
<1>5. OneItemPerKey'
  <2>1. \A i, j \in Items(Eligible) : i.key = j.key /\ i.op = j.op => i.id = j.id
    <3> SUFFICES ASSUME NEW p \in Eligible, NEW q \in Eligible,
                        queue[p].key = queue[q].key, queue[p].op = queue[q].op
                 PROVE  p = q
      BY DEF Items
    <3>1. p \in Used /\ q \in Used /\ queue[p].key \in Keys /\ queue[p].op \in Ops
      BY RowTypes DEF Inv, Eligible
    <3> QED  BY <3>1 DEF Inv, OnePendingPerKey, PendingFor, Eligible
  <2> QED  BY <1>2, <1>3, <2>1 DEF Inv, OneItemPerKey
<1>6. AtsDiffer' /\ DeletesKnown' /\ OnePendingPerKey'
  BY <1>1 DEF Inv, AtsDiffer, DeletesKnown, OnePendingPerKey, PendingFor, Used
<1> QED  BY <1>4, <1>5, <1>6 DEF Inv

(* Steps that leave the queue alone and read nothing into memory.          *)
LEMMA NoQueueStep ==
  ASSUME Inv, TypeOK', UNCHANGED <<clock, deleted, queue>>,
         orphans' \subseteq orphans, MemoryShrinks
  PROVE  Inv'
<1>1. \A q \in Rows : KeepsRow(q) /\ KeepsAge(q)
  BY DEF KeepsRow, KeepsAge
<1>2. {} \in SUBSET Used
  OBVIOUS
<1> QED  BY <1>1, <1>2, QuietStep

(* Marking rows, by id: 'syncing' when their group starts, 'completed'     *)
(* when their chunk is through.                                            *)
LEMMA MarkStep ==
  ASSUME Inv, TypeOK', UNCHANGED <<clock, deleted, orphans>>, MemoryShrinks,
         \A q \in Rows :
           \/ queue'[q] = queue[q]
           \/ queue[q] # NoRow /\ queue'[q] = [queue[q] EXCEPT !.status = "syncing"]
           \/ queue[q] # NoRow /\ queue'[q] = Completed(queue[q])
  PROVE  Inv'
<1>1. \A q \in Rows :
        /\ KeepsRow(q) /\ KeepsAge(q)
        /\ queue'[q] # NoRow /\ queue'[q].status = "pending"
             => queue[q].status = "pending"
  <2> SUFFICES ASSUME NEW q \in Rows, queue'[q] # queue[q]
               PROVE  /\ KeepsRow(q) /\ KeepsAge(q)
                      /\ queue'[q].status # "pending"
    BY DEF KeepsRow, KeepsAge
  <2>1. q \in Used /\ queue[q] \in Row
    BY RowTypes DEF Used, Inv
  <2> QED  BY <2>1 DEF Row, Completed, KeepsRow, KeepsAge, Used
<1>2. {} \in SUBSET Used
  OBVIOUS
<1> QED  BY <1>1, <1>2, QuietStep

(* markFailed: a drain holds one row per key and action, and a flip that   *)
(* meets a pending twin raises, so the flips it makes meet nothing.        *)
LEMMA FailStep ==
  ASSUME Inv, TypeOK', UNCHANGED <<clock, deleted>>, NEW d \in Drains,
         NEW lifted, NEW kind, NEW fk \in BOOLEAN, NEW g,
         FailChunk(d, lifted, kind, fk, g)
  PROVE  Inv'
<1> DEFINE ids == Ids(drain[d].chunk) \cap Used
<1>1. PICK S \in SUBSET ids :
        MarkFailed(S, lifted, kind, fk) /\ \A q \in S \ lifted : ~HasTwin(q)
  BY DEF FailChunk
<1>2. MemoryShrinks
  <2>1. \/ \E gg : drain' = [drain EXCEPT ![d] =
               [drain[d] EXCEPT !.phase = "loop", !.chunk = {}, !.degraded = gg]]
        \/ drain' = [drain EXCEPT ![d] = IdleDrain]
    BY DEF FailChunk
  <2>2. drain[d] \in Drain /\ drain \in [Drains -> Drain]
    BY DEF Inv, TypeOK
  <2>3. /\ drain'[d].todo \subseteq drain[d].todo
        /\ drain'[d].cur \subseteq drain[d].cur
        /\ drain'[d].chunk = {}
    <3>1. CASE drain' = [drain EXCEPT ![d] = IdleDrain]
      BY <2>2, <3>1 DEF IdleDrain
    <3>2. ASSUME NEW gg, drain' = [drain EXCEPT ![d] =
                   [drain[d] EXCEPT !.phase = "loop", !.chunk = {}, !.degraded = gg]]
          PROVE  drain'[d].todo = drain[d].todo /\ drain'[d].cur = drain[d].cur
                 /\ drain'[d].chunk = {}
      BY <2>2, <3>2 DEF Drain
    <3> QED  BY <2>1, <3>1, <3>2
  <2>4. \A e \in Drains \ {d} : drain'[e] = drain[e]
    BY <2>1, <2>2
  <2> QED  BY <2>3, <2>4 DEF MemoryShrinks, InMemory
<1> DEFINE F == S \ lifted
<1>3. F \in SUBSET Used
  OBVIOUS
<1>4. ASSUME NEW q \in Rows
      PROVE  /\ KeepsRow(q) /\ KeepsAge(q)
             /\ q \notin F /\ queue'[q] # NoRow => queue'[q] = queue[q]
  <2>1. CASE q \in F
    <3>1. q \in Used /\ queue[q] \in Row /\ queue'[q] = Retried(queue[q], fk)
      BY <1>1, <1>3, <2>1, RowTypes DEF MarkFailed, Inv
    <3>2. queue'[q].key = queue[q].key /\ queue'[q].op = queue[q].op
          /\ queue'[q].at = queue[q].at
      BY <3>1 DEF Retried, Row
    <3> QED  BY <2>1, <3>1, <3>2 DEF KeepsRow, KeepsAge, Used
  <2>2. CASE q \notin F
    BY <1>1, <2>2 DEF MarkFailed, KeepsRow, KeepsAge
  <2> QED  BY <2>1, <2>2
<1>5. \A p, q \in F : Same(p, q) => p = q
  <2> SUFFICES ASSUME NEW p \in F, NEW q \in F, Same(p, q) PROVE p = q
    OBVIOUS
  <2>1. PICK i \in InMemory(d), j \in InMemory(d) : i.id = p /\ j.id = q
    BY DEF Ids, InMemory
  <2>2. i.key = queue[p].key /\ i.op = queue[p].op
        /\ j.key = queue[q].key /\ j.op = queue[q].op
    BY <1>3, <2>1 DEF Inv, ItemsMatch, Used
  <2> QED  BY <2>1, <2>2 DEF Inv, OneItemPerKey, Same
<1>6. \A o \in orphans' \ orphans :
        \E q \in Used : o.key = queue[q].key /\ o.op = queue[q].op
  BY <1>1 DEF MarkFailed, OrphanOf
<1>7. \A q \in F : ~HasTwin(q)
  BY <1>1
<1>8. \A q \in Rows \ F : queue'[q] # NoRow /\ queue'[q].status = "pending"
                            => queue[q].status = "pending"
  BY <1>4
<1> HIDE DEF F, ids
<1> QED  BY <1>2, <1>3, <1>4, <1>5, <1>6, <1>7, <1>8, QuietStep

(* The stuck-row sweep: a row whose twin is pending is deleted, and of the *)
(* rest only the newest of each key and action is flipped.                 *)
LEMMA SweepStep ==
  ASSUME Inv, TypeOK', NEW cut, ResetStuck(cut)
  PROVE  Inv'
<1> DEFINE stuck == Stuck(cut)
           gone  == Twinned(stuck) \cup Outdone(stuck \ Twinned(stuck))
           F     == stuck \ gone
<1>1. UNCHANGED <<clock, deleted, orphans, drain>>
  BY DEF ResetStuck
<1>2. queue' = [q \in Rows |->
        IF q \in gone THEN NoRow
        ELSE IF q \in F THEN [queue[q] EXCEPT !.status = "pending"]
        ELSE queue[q]]
  BY DEF ResetStuck
<1>3. F \in SUBSET Used
  BY DEF Stuck
<1>4. \A q \in F : ~HasTwin(q)
  BY DEF Twinned, HasTwin
<1>5. \A p, q \in F : Same(p, q) => p = q
  <2> SUFFICES ASSUME NEW p \in F, NEW q \in F, Same(p, q) PROVE p = q
    OBVIOUS
  <2>1. /\ p \in stuck \ Twinned(stuck) /\ q \in stuck \ Twinned(stuck)
        /\ p \notin Outdone(stuck \ Twinned(stuck))
        /\ q \notin Outdone(stuck \ Twinned(stuck))
    OBVIOUS
  <2>2. ~(queue[p].at > queue[q].at) /\ ~(queue[q].at > queue[p].at)
    <3> HIDE DEF stuck
    <3> QED  BY <2>1 DEF Outdone, Same
  <2>3. queue[p].at \in Nat /\ queue[q].at \in Nat /\ p \in Used /\ q \in Used
    BY <1>3, RowTypes DEF Inv
  <2> QED  BY <2>2, <2>3 DEF Inv, AtsDiffer
<1> HIDE DEF stuck, gone, F
<1>6. ASSUME NEW q \in Rows
      PROVE  /\ KeepsRow(q) /\ KeepsAge(q)
             /\ q \notin F /\ queue'[q] # NoRow => queue'[q] = queue[q]
  <2>1. CASE q \in F
    <3>1. q \in Used /\ queue[q] \in Row
      BY <1>3, <2>1, RowTypes DEF Inv
    <3>2. queue'[q] = NoRow \/ queue'[q] = [queue[q] EXCEPT !.status = "pending"]
      BY <1>2, <2>1
    <3> QED  BY <2>1, <3>1, <3>2 DEF KeepsRow, KeepsAge, Used, Row
  <2>2. CASE q \notin F
    BY <1>2, <2>2 DEF KeepsRow, KeepsAge
  <2> QED  BY <2>1, <2>2
<1>7. MemoryShrinks
  BY <1>1 DEF MemoryShrinks, InMemory
<1>8. \A q \in Rows \ F : queue'[q] # NoRow /\ queue'[q].status = "pending"
                            => queue[q].status = "pending"
  BY <1>6
<1> QED  BY <1>1, <1>3, <1>4, <1>5, <1>6, <1>7, <1>8, QuietStep

(* One row becomes due, is put back to 'pending' by hand, or is discarded. *)
LEMMA OneRowStep ==
  ASSUME Inv, TypeOK', NEW q \in Rows,
         BackoffOver(q) \/ RetryRow(q) \/ DiscardRow(q)
  PROVE  Inv'
<1>1. /\ q \in Used /\ UNCHANGED <<clock, deleted, orphans, drain>>
      /\ \A p \in Rows \ {q} : queue'[p] = queue[p]
  BY DEF BackoffOver, RetryRow, DiscardRow, Used, Inv, TypeOK
<1>2. \/ /\ BackoffOver(q)
         /\ queue'[q] = [queue[q] EXCEPT !.due = TRUE]
      \/ /\ RetryRow(q) /\ ~HasTwin(q)
         /\ queue'[q] = [queue[q] EXCEPT !.status = "pending", !.due = TRUE]
      \/ queue'[q] = NoRow
  BY DEF BackoffOver, RetryRow, DiscardRow, Inv, TypeOK
<1> DEFINE F == IF RetryRow(q) /\ ~HasTwin(q) THEN {q} ELSE {}
<1>3. F \in SUBSET Used /\ \A p \in F : ~HasTwin(p) /\ p = q
  BY <1>1
<1>4. queue[q] \in Row
  BY <1>1, RowTypes DEF Inv
<1>5. \A p \in Rows : KeepsRow(p) /\ KeepsAge(p)
  <2>1. queue[q] # NoRow
    BY <1>1 DEF Used
  <2>2. queue'[q] # NoRow => /\ queue'[q].key = queue[q].key
                            /\ queue'[q].op = queue[q].op
                            /\ queue'[q].at = queue[q].at
    BY <1>2, <1>4 DEF Row
  <2> QED  BY <1>1, <2>1, <2>2 DEF KeepsRow, KeepsAge
<1>6. \A p \in Rows \ F : queue'[p] # NoRow /\ queue'[p].status = "pending"
                            => queue[p].status = "pending"
  BY <1>1, <1>2, <1>4 DEF Row
<1>7. MemoryShrinks
  BY <1>1 DEF MemoryShrinks, InMemory
<1> HIDE DEF F
<1> QED  BY <1>1, <1>3, <1>5, <1>6, <1>7, QuietStep

(* Every step of a drain keeps the invariant.                              *)
LEMMA DrainStepKeeps ==
  ASSUME Inv, TypeOK', NEW d \in Drains, DrainStep(d) \/ LinkFault(d)
  PROVE  Inv'
<1>1. drain \in [Drains -> Drain] /\ drain[d] \in Drain
  BY DEF Inv, TypeOK
<1>2. CASE DrainStart(d)
  BY <1>2, ReadStep
<1>3. CASE MarkGroup(d)
  <2>1. PICK group \in SUBSET drain[d].todo :
          /\ drain' = [drain EXCEPT ![d] = [drain[d] EXCEPT !.cur = group,
                                             !.todo = drain[d].todo \ group]]
          /\ queue' = [q \in Rows |->
               IF q \in Ids(group) \cap Used
                 THEN [queue[q] EXCEPT !.status = "syncing"] ELSE queue[q]]
    <3> DEFINE Moved(group) ==
          /\ drain' = [drain EXCEPT ![d] = [drain[d] EXCEPT !.cur = group,
                                             !.todo = drain[d].todo \ group]]
          /\ queue' = [q \in Rows |->
               IF q \in Ids(group) \cap Used
                 THEN [queue[q] EXCEPT !.status = "syncing"] ELSE queue[q]]
    <3>1. PICK i \in drain[d].todo : Moved({j \in drain[d].todo : SameGroup(i, j)})
      BY <1>3 DEF MarkGroup
    <3>2. {j \in drain[d].todo : SameGroup(i, j)} \in SUBSET drain[d].todo
      OBVIOUS
    <3> HIDE DEF Moved
    <3>3. \E group \in SUBSET drain[d].todo : Moved(group)
      BY <3>1, <3>2
    <3> QED  BY <3>3 DEF Moved
  <2>2. drain'[d].todo \cup drain'[d].cur \cup drain'[d].chunk
          \subseteq drain[d].todo \cup drain[d].chunk
    BY <1>1, <2>1 DEF Drain
  <2>3. MemoryShrinks
    BY <1>1, <2>1, <2>2 DEF MemoryShrinks, InMemory
  <2> QED  BY <1>3, <2>1, <2>3, MarkStep DEF MarkGroup, Used
<1>4. CASE SendChunk(d)
  <2>1. PICK c \in SUBSET drain[d].cur :
          drain' = [drain EXCEPT ![d] =
            [drain[d] EXCEPT !.phase = "wait", !.chunk = c,
                             !.cur = drain[d].cur \ c]]
    BY <1>4, Zenon DEF SendChunk
  <2>2. drain'[d].todo \cup drain'[d].cur \cup drain'[d].chunk
          \subseteq drain[d].todo \cup drain[d].cur
    BY <1>1, <2>1 DEF Drain
  <2>3. MemoryShrinks
    BY <1>1, <2>1, <2>2 DEF MemoryShrinks, InMemory
  <2> QED  BY <1>4, <2>3, NoQueueStep DEF SendChunk
<1>5. CASE CloudApplies(d)
  <2>1. MemoryShrinks
    BY <1>1, <1>5 DEF CloudApplies, MemoryShrinks, InMemory, Drain
  <2> QED  BY <1>5, <2>1, NoQueueStep DEF CloudApplies
<1>6. CASE ChunkDone(d)
  <2>1. MemoryShrinks
    BY <1>1, <1>6 DEF ChunkDone, MemoryShrinks, InMemory, Drain
  <2>2. \A q \in Rows :
          \/ queue'[q] = queue[q]
          \/ queue[q] # NoRow /\ queue'[q] = Completed(queue[q])
    BY <1>6 DEF ChunkDone, Used
  <2> QED  BY <1>6, <2>1, <2>2, MarkStep DEF ChunkDone
<1>7. CASE DrainEnd(d)
  <2>1. MemoryShrinks
    BY <1>1, <1>7 DEF DrainEnd, MemoryShrinks, InMemory, IdleDrain
  <2> QED  BY <1>7, <2>1, NoQueueStep DEF DrainEnd
<1>8. CASE ChunkFkRejected(d)
  BY <1>8, FailStep DEF ChunkFkRejected
<1>9. CASE ChunkTimeout(d)
  BY <1>9, FailStep DEF ChunkTimeout
<1>10. CASE ChunkError(d)
  BY <1>10, FailStep DEF ChunkError
<1>11. CASE ChunkRefused(d)
  BY <1>11, FailStep DEF ChunkRefused
<1> QED
  BY <1>2, <1>3, <1>4, <1>5, <1>6, <1>7, <1>8, <1>9, <1>10, <1>11
     DEF DrainStep, LinkFault

(* The invariant is inductive: one case per disjunct of Next.              *)
LEMMA InvStep ==
  ASSUME ConstantsAssumption, Inv, [Next]_vars
  PROVE  Inv'
<1>1. TypeOK'
  BY TypeStep DEF Inv
<1>2. CASE AppStep
  BY <1>1, <1>2, EditStep, DeleteStep DEF AppStep
<1>3. ASSUME NEW d \in Drains, DrainStep(d) \/ LinkFault(d) PROVE Inv'
  BY <1>1, <1>3, DrainStepKeeps
<1>4. ASSUME NEW c, LateLanding(c) PROVE Inv'
  <2>1. MemoryShrinks
    BY <1>4 DEF LateLanding, MemoryShrinks, InMemory
  <2> QED  BY <1>1, <1>4, <2>1, NoQueueStep DEF LateLanding
<1>5. CASE Recovery
  <2>1. CASE AppKill
    <3>1. MemoryShrinks
      BY <2>1 DEF AppKill, MemoryShrinks, InMemory, IdleDrain
    <3> QED  BY <1>1, <2>1, <3>1, NoQueueStep DEF AppKill
  <2>2. ASSUME NEW o \in orphans, AutoRecover(o) PROVE Inv'
    <3>1. o.auto + 1 \in Nat
      BY DEF Inv, TypeOK, Orphan
    <3> QED  BY <1>1, <2>2, <3>1, ReenqueueStep DEF AutoRecover
  <2> QED  BY <1>1, <1>5, <2>1, <2>2, SweepStep, OneRowStep DEF Recovery
<1>6. CASE UserStep
  <2>1. ASSUME NEW o \in orphans, RetryOrphan(o) PROVE Inv'
    BY <1>1, <2>1, ReenqueueStep DEF RetryOrphan
  <2>2. ASSUME NEW o \in orphans, DiscardOrphan(o) PROVE Inv'
    <3>1. MemoryShrinks
      BY <2>2 DEF DiscardOrphan, MemoryShrinks, InMemory
    <3> QED  BY <1>1, <2>2, <3>1, NoQueueStep DEF DiscardOrphan
  <2> QED  BY <1>1, <1>6, <2>1, <2>2, OneRowStep DEF UserStep
<1>7. CASE UNCHANGED vars
  <2>1. MemoryShrinks
    BY <1>7 DEF vars, MemoryShrinks, InMemory
  <2> QED  BY <1>1, <1>7, <2>1, NoQueueStep DEF vars
<1> QED  BY <1>2, <1>3, <1>4, <1>5, <1>6, <1>7 DEF Next

(* The empty queue satisfies the invariant.                                *)
LEMMA InvInit == ASSUME ConstantsAssumption, Init PROVE Inv
<1>1. TypeOK
  BY InitType
<1>2. Used = {} /\ \A d \in Drains : InMemory(d) = {}
  BY DEF Init, Used, InMemory, IdleDrain
<1> QED
  BY <1>1, <1>2 DEF Inv, ItemsMatch, OneItemPerKey, AtsDiffer, DeletesKnown,
                    OnePendingPerKey, PendingFor, Init

(* The invariant holds in every state of every behaviour of the outbox.    *)
THEOREM InvHolds == Spec => []Inv
<1>1. Init => Inv
  BY ConstantsAssumption, InvInit
<1>2. Inv /\ [Next]_vars => Inv'
  BY ConstantsAssumption, InvStep
<1> QED  BY <1>1, <1>2, PTL DEF Spec

(* However many drains run at once, whatever answers they get and however  *)
(* the app is killed, the queue never holds two pending rows for one key   *)
(* and action: markFailed and the Retry buttons raise before they make a   *)
(* second one, the sweep of stuck rows never tries to, and enqueues only   *)
(* ever add a first one.                                                   *)
THEOREM NoPendingTwins == Spec => []OnePendingPerKey
<1>1. Inv => OnePendingPerKey
  BY DEF Inv
<1> QED  BY <1>1, InvHolds, PTL


-----------------------------------------------------------------------------
(* The last edit of every row is accounted for.                            *)

(* An edit is numbered by the clock, and nothing carries a later one.      *)
VersionsBounded ==
  /\ \A k \in Keys : latest[k] <= clock
  /\ \A q \in Used : queue[q].ver <= latest[queue[q].key]
  /\ \A o \in orphans : o.ver <= latest[o.key]

(* A drain sends the payload its row still has, or the key is `exposed'.   *)
ItemVersions ==
  \A d \in Drains : \A i \in InMemory(d) :
    queue[i.id] # NoRow => queue[i.id].ver = i.ver \/ i.key \in exposed

AppliedConfirmed ==
  \A d \in Drains : drain[d].phase = "applied" =>
    \A i \in drain[d].chunk : i.ver \in confirmed

AccInv == VersionsBounded /\ ItemVersions /\ AppliedConfirmed /\ EditAccounted

Carries(q, k, v) == Draining(q) /\ queue[q].key = k /\ queue[q].ver = v

SameLoad(x, r) ==
  /\ x.key = r.key /\ x.ver = r.ver
  /\ x.synced => r.synced
  /\ x.status = "completed" => r.status = "completed"

KeepsLoad(q) == queue[q] # NoRow => queue'[q] # NoRow /\ SameLoad(queue'[q], queue[q])

KeepsVer(q) == queue'[q] # NoRow => queue[q] # NoRow /\ queue'[q].key = queue[q].key
                                                     /\ queue'[q].ver = queue[q].ver

(* What marking, failing and retrying make of what a row carries.          *)
LEMMA RowLoads ==
  ASSUME NEW r \in Row, NEW fk \in BOOLEAN
  PROVE  /\ SameLoad(Retried(r, fk), r)
         /\ SameLoad([r EXCEPT !.status = "syncing"], r)
         /\ SameLoad([r EXCEPT !.status = "pending"], r)
         /\ SameLoad([r EXCEPT !.due = TRUE], r)
         /\ SameLoad([r EXCEPT !.status = "pending", !.due = TRUE], r)
         /\ Completed(r).key = r.key /\ Completed(r).ver = r.ver
BY DEF Row, SameLoad, Retried, Completed

(* An edit stays accounted for when what carried it still accounts for it. *)
LEMMA AccountedKept ==
  ASSUME NEW k, NEW v, Accounted(k, v),
         confirmed \subseteq confirmed', dropped \subseteq dropped',
         \A q \in Rows : Carries(q, k, v) => Accounted(k, v)',
         \A o \in orphans : o.key = k /\ o.ver = v => Accounted(k, v)'
  PROVE  Accounted(k, v)'
<1>1. CASE v = 0 \/ v \in confirmed \cup dropped
  BY <1>1 DEF Accounted
<1>2. CASE \E q \in Rows : Carries(q, k, v)
  BY <1>2
<1> QED  BY <1>1, <1>2 DEF Accounted, Carries, Draining, Used

LEMMA LoadKept ==
  ASSUME NEW q \in Rows, NEW k, NEW v, Carries(q, k, v), KeepsLoad(q)
  PROVE  Accounted(k, v)'
<1>1. q \in Used' /\ SameLoad(queue'[q], queue[q])
  BY DEF KeepsLoad, Carries, Draining, Used
<1>2. queue'[q].key = k /\ queue'[q].ver = v /\ queue'[q].status # "completed" /\ ~queue'[q].synced
  BY <1>1 DEF SameLoad, Carries, Draining
<1> QED  BY <1>1, <1>2 DEF Accounted

LEMMA OrphanKept ==
  ASSUME NEW o \in orphans'
  PROVE  Accounted(o.key, o.ver)'
BY DEF Accounted

(* A step that edits nothing and reads nothing into memory.                *)
LEMMA QuietAcc ==
  ASSUME Inv, AccInv, UNCHANGED <<clock, latest>>, MemoryShrinks,
         confirmed \subseteq confirmed', dropped \subseteq dropped', exposed \subseteq exposed',
         \A q \in Rows : KeepsVer(q),
         \A o \in orphans' \ orphans :
           \E q \in Used : o.key = queue[q].key /\ o.ver = queue[q].ver,
         AppliedConfirmed',
         \A k \in Keys \ exposed' : \A v : v = latest[k] =>
           (/\ \A q \in Rows : Carries(q, k, v) => Accounted(k, v)'
            /\ \A o \in orphans : o.key = k /\ o.ver = v => Accounted(k, v)')
  PROVE  AccInv'
<1>1. VersionsBounded'
  BY DEF AccInv, VersionsBounded, KeepsVer, Used
<1>2. ItemVersions'
  <2> SUFFICES ASSUME NEW d \in Drains, NEW i \in InMemory(d)', queue'[i.id] # NoRow
               PROVE  queue'[i.id].ver = i.ver \/ i.key \in exposed'
    BY DEF ItemVersions
  <2>1. i \in InMemory(d)
    BY DEF MemoryShrinks
  <2>2. i.id \in Rows
    BY <2>1, InMemoryType DEF Inv, Item
  <2> QED  BY <2>1, <2>2 DEF AccInv, ItemVersions, KeepsVer
<1>3. EditAccounted'
  <2> SUFFICES ASSUME NEW k \in Keys \ exposed'
               PROVE  Accounted(k, latest[k])'
    BY DEF EditAccounted
  <2>1. PICK v : v = latest[k] /\ latest'[k] = v
    OBVIOUS
  <2>2. Accounted(k, v)
    BY <2>1 DEF AccInv, EditAccounted
  <2>3. Accounted(k, v)'
    BY <2>1, <2>2, AccountedKept
  <2> QED  BY <2>1, <2>3 DEF Accounted
<1> QED  BY <1>1, <1>2, <1>3 DEF AccInv

(* The same when the rows go on carrying what they carried.                *)
LEMMA LoadsAcc ==
  ASSUME Inv, AccInv, UNCHANGED <<clock, latest, exposed>>, MemoryShrinks,
         confirmed \subseteq confirmed', dropped \subseteq dropped',
         \A q \in Rows : KeepsVer(q) /\ KeepsLoad(q),
         orphans' = orphans, AppliedConfirmed'
  PROVE  AccInv'
<1>1. ASSUME NEW k \in Keys \ exposed', NEW v
      PROVE  /\ \A q \in Rows : Carries(q, k, v) => Accounted(k, v)'
             /\ \A o \in orphans : o.key = k /\ o.ver = v => Accounted(k, v)'
  BY LoadKept, OrphanKept
<1> QED  BY <1>1, QuietAcc

(* A step that touches neither the queue nor the orphans.                  *)
LEMMA NoQueueAcc ==
  ASSUME Inv, AccInv, UNCHANGED <<clock, latest, queue, orphans, exposed>>, MemoryShrinks,
         confirmed \subseteq confirmed', dropped \subseteq dropped', AppliedConfirmed'
  PROVE  AccInv'
<1>1. \A q \in Rows : KeepsVer(q) /\ KeepsLoad(q)
  BY DEF KeepsVer, KeepsLoad, SameLoad
<1> QED  BY <1>1, LoadsAcc

(* A step that enqueues the row q in a slot no drain knows: what other rows *)
(* carry stays, or a new edit of their key has been carried since.         *)
LEMMA EnqueueAcc ==
  ASSUME Inv, TypeOK', AccInv, NEW q \in Rows, Fresh(q), NEW k \in Keys, NEW v \in Nat,
         queue'[q] # NoRow, queue'[q].key = k, queue'[q].ver = v,
         queue'[q].status = "pending", ~queue'[q].synced,
         v <= latest'[k], clock' = clock + 1, drain' = drain,
         UNCHANGED <<confirmed, dropped, exposed>>,
         \A x \in Keys \ {k} : latest'[x] = latest[x],
         latest'[k] = latest[k] \/ (latest'[k] = clock + 1 /\ v = clock + 1),
         orphans' \subseteq orphans,
         \A o \in orphans \ orphans' : o.key = k /\ o.ver = v,
         \A p \in Rows \ {q} : KeepsVer(p) /\ (queue[p] # NoRow /\ queue[p].key # k => KeepsLoad(p)),
         latest'[k] = latest[k] => \A p \in Rows \ {q} : KeepsLoad(p)
  PROVE  AccInv'
<1>1. /\ clock \in Nat /\ \A x \in Keys : latest[x] \in Nat /\ latest[x] <= clock
      /\ \A x \in Keys : latest'[x] \in Nat /\ latest'[x] <= clock' /\ latest[x] <= latest'[x]
  BY DEF Inv, TypeOK, Versions, AccInv, VersionsBounded
<1>2. VersionsBounded'
  <2>1. ASSUME NEW p \in Used', p # q
        PROVE  queue'[p].ver <= latest'[queue'[p].key]
    <3>1. p \in Used /\ queue'[p].ver = queue[p].ver /\ queue'[p].key = queue[p].key
      BY <2>1 DEF KeepsVer, Used
    <3>2. queue[p].key \in Keys /\ queue[p].ver \in Nat /\ queue[p].ver <= latest[queue[p].key]
      BY <3>1, RowTypes DEF Inv, AccInv, VersionsBounded
    <3> QED  BY <1>1, <3>1, <3>2
  <2>2. ASSUME NEW o \in orphans'
        PROVE  o.ver <= latest'[o.key]
    <3>1. o.ver \in Nat /\ o.key \in Keys /\ o.ver <= latest[o.key]
      BY DEF Inv, TypeOK, Orphan, AccInv, VersionsBounded
    <3> QED  BY <1>1, <3>1
  <2> QED  BY <1>1, <2>1, <2>2 DEF VersionsBounded
<1>3. ItemVersions'
  <2> SUFFICES ASSUME NEW d \in Drains, NEW i \in InMemory(d)', queue'[i.id] # NoRow
               PROVE  queue'[i.id].ver = i.ver \/ i.key \in exposed'
    BY DEF ItemVersions
  <2>1. i \in InMemory(d)
    BY DEF InMemory
  <2>2. i.id \in Rows \ {q}
    BY <2>1, InMemoryType DEF Inv, Item, Fresh, HeldByDrain
  <2> QED  BY <2>1, <2>2 DEF AccInv, ItemVersions, KeepsVer
<1>4. AppliedConfirmed'
  BY DEF AccInv, AppliedConfirmed
<1>5. Accounted(k, v)'
  BY DEF Accounted, Used
<1>6. EditAccounted'
  <2> SUFFICES ASSUME NEW x \in Keys \ exposed
               PROVE  Accounted(x, latest[x])'
    BY DEF EditAccounted
  <2>1. PICK w : w = latest'[x]
    OBVIOUS
  <2>2. CASE x = k /\ latest'[k] # latest[k]
    <3>1. w = v
      BY <2>1, <2>2
    <3> QED  BY <1>5, <2>1, <2>2, <3>1 DEF Accounted
  <2>3. CASE latest'[x] = latest[x] /\ (x = k => latest'[k] = latest[k])
    <3>1. Accounted(x, w)
      BY <2>1, <2>3 DEF AccInv, EditAccounted
    <3>2. \A p \in Rows : Carries(p, x, w) => Accounted(x, w)'
      <4> SUFFICES ASSUME NEW p \in Rows, Carries(p, x, w)
                   PROVE  Accounted(x, w)'
        OBVIOUS
      <4>1. p # q
        BY DEF Carries, Draining, Fresh
      <4>2. KeepsLoad(p)
        BY <2>3, <4>1 DEF Carries, Draining
      <4> QED  BY <4>2, LoadKept
    <3>3. \A o \in orphans : o.key = x /\ o.ver = w => Accounted(x, w)'
      BY <1>5, OrphanKept
    <3>4. Accounted(x, w)'
      BY <3>1, <3>2, <3>3, AccountedKept
    <3> QED  BY <2>1, <3>4 DEF Accounted
  <2> QED  BY <2>2, <2>3
<1> QED  BY <1>2, <1>3, <1>4, <1>6 DEF AccInv

(* An edit: an item in memory that is older than its row makes the key     *)
(* `exposed', and so does a row that is flagged as uploaded.               *)
LEMMA EditAcc ==
  ASSUME Inv, TypeOK', AccInv, NEW k \in Keys, Edit(k)
  PROVE  AccInv'
<1>1. /\ clock' = clock + 1 /\ UNCHANGED <<orphans, drain, confirmed, dropped>>
      /\ latest' = [latest EXCEPT ![k] = clock + 1]
  BY DEF Edit, Tick
<1>2. /\ clock \in Nat /\ latest'[k] = clock + 1 /\ latest[k] \in Nat
      /\ \A x \in Keys : latest[x] \in Nat /\ latest[x] <= clock
      /\ \A x \in Keys \ {k} : latest'[x] = latest[x]
  BY <1>1 DEF Inv, TypeOK, Versions, AccInv, VersionsBounded
<1>3. ASSUME PendingFor(k, "upsert") = {}, NEW q \in Rows, Fresh(q), UNCHANGED exposed,
             queue' = [queue EXCEPT ![q] = NewRow(k, "upsert", clock + 1, clock + 1, 0)]
      PROVE  AccInv'
  <2>1. /\ queue'[q] = NewRow(k, "upsert", clock + 1, clock + 1, 0)
        /\ \A p \in Rows \ {q} : queue'[p] = queue[p]
    BY <1>3 DEF Inv, TypeOK
  <2>2. queue'[q] # NoRow
    <3>1. clock + 1 \in Nat
      BY <1>2
    <3> QED  BY <2>1, <3>1, NoRowAssumption, NewRowType DEF Ops
  <2>3. \A p \in Rows \ {q} : KeepsVer(p) /\ KeepsLoad(p)
    BY <2>1 DEF KeepsVer, KeepsLoad, SameLoad
  <2>4. /\ queue'[q].key = k /\ queue'[q].ver = clock + 1
        /\ queue'[q].status = "pending" /\ ~queue'[q].synced
    BY <2>1 DEF NewRow
  <2>5. clock + 1 \in Nat /\ clock + 1 <= latest'[k]
    BY <1>2
  <2> QED  BY <1>1, <1>2, <1>3, <2>2, <2>3, <2>4, <2>5, EnqueueAcc
<1>4. ASSUME NEW q \in PendingFor(k, "upsert"),
             queue' = [queue EXCEPT ![q] = Coalesced(queue[q], clock + 1)],
             exposed' = IF HeldByDrain(q) \/ queue[q].synced THEN exposed \cup {k} ELSE exposed
      PROVE  AccInv'
  <2>1. /\ queue'[q] = Coalesced(queue[q], clock + 1) /\ q \in Used /\ queue[q].key = k
        /\ queue[q].status = "pending"
        /\ \A p \in Rows \ {q} : queue'[p] = queue[p]
    BY <1>4 DEF Inv, TypeOK, PendingFor, Used
  <2>2. /\ queue'[q].key = k /\ queue'[q].ver = clock + 1 /\ queue'[q].status = "pending"
        /\ (queue'[q].synced => queue[q].synced)
    BY <2>1, RowTypes DEF Inv, Coalesced, Row
  <2>3. queue'[q] # NoRow
    <3>1. clock + 1 \in Nat /\ queue[q] \in Row
      BY <1>2, <2>1, RowTypes DEF Inv
    <3>2. PICK r \in Row, n \in Nat : r = queue[q] /\ n = clock + 1
      BY <3>1
    <3>3. Coalesced(r, n) \in Row
      BY DEF Coalesced, Row
    <3> QED  BY <2>1, <3>2, <3>3, NoRowAssumption
  <2>4. VersionsBounded'
    <3>1. \A p \in Used' \ {q} : p \in Used /\ queue'[p] = queue[p] /\ queue[p].key \in Keys
                                 /\ queue[p].ver \in Nat /\ queue[p].ver <= latest[queue[p].key]
      BY <2>1, RowTypes DEF Used, Inv, AccInv, VersionsBounded
    <3>2. \A o \in orphans' : o.key \in Keys /\ o.ver \in Nat /\ o.ver <= latest[o.key]
      BY <1>1 DEF Inv, TypeOK, Orphan, AccInv, VersionsBounded
    <3>3. \A x \in Keys, n \in Nat : n <= latest[x] => n <= latest'[x]
      BY <1>2
    <3>4. \A x \in Keys : latest'[x] <= clock'
      BY <1>1, <1>2
    <3>5. \A p \in Used' : queue'[p].ver <= latest'[queue'[p].key]
      BY <1>2, <2>2, <3>1, <3>3
    <3> QED  BY <3>2, <3>3, <3>4, <3>5 DEF VersionsBounded
  <2>5. ItemVersions'
    <3> SUFFICES ASSUME NEW d \in Drains, NEW i \in InMemory(d)', queue'[i.id] # NoRow
                 PROVE  queue'[i.id].ver = i.ver \/ i.key \in exposed'
      BY DEF ItemVersions
    <3>1. i \in InMemory(d) /\ i.id \in Rows
      BY <1>1, InMemoryType DEF InMemory, Inv, Item
    <3>2. CASE i.id = q
      <4>1. i.key = k
        BY <2>1, <3>1, <3>2 DEF Inv, ItemsMatch, Used
      <4>2. HeldByDrain(q)
        BY <3>1, <3>2 DEF HeldByDrain
      <4> QED  BY <1>4, <4>1, <4>2
    <3>3. CASE i.id # q
      BY <1>4, <2>1, <3>1, <3>3 DEF AccInv, ItemVersions
    <3> QED  BY <3>2, <3>3
  <2>6. AppliedConfirmed'
    BY <1>1 DEF AccInv, AppliedConfirmed
  <2>7. EditAccounted'
    <3> SUFFICES ASSUME NEW x \in Keys \ exposed'
                 PROVE  Accounted(x, latest[x])'
      BY DEF EditAccounted
    <3>1. PICK w : w = latest'[x]
      OBVIOUS
    <3>2. CASE x = k
      <4>1. ~queue'[q].synced /\ w = clock + 1
        BY <1>2, <1>4, <2>2, <3>1, <3>2
      <4>2. Accounted(x, w)'
        BY <2>1, <2>2, <2>3, <3>2, <4>1 DEF Accounted, Used
      <4> QED  BY <3>1, <4>2 DEF Accounted
    <3>3. CASE x # k
      <4>1. Accounted(x, w) /\ w = latest[x]
        BY <1>2, <1>4, <3>1, <3>3 DEF AccInv, EditAccounted
      <4>2. \A p \in Rows : Carries(p, x, w) => Accounted(x, w)'
        <5> SUFFICES ASSUME NEW p \in Rows, Carries(p, x, w)
                     PROVE  Accounted(x, w)'
          OBVIOUS
        <5>1. KeepsLoad(p)
          BY <2>1, <3>3 DEF Carries, KeepsLoad, SameLoad
        <5> QED  BY <5>1, LoadKept
      <4>3. \A o \in orphans : o.key = x /\ o.ver = w => Accounted(x, w)'
        BY <1>1, OrphanKept
      <4>4. Accounted(x, w)'
        BY <1>1, <4>1, <4>2, <4>3, AccountedKept
      <4> QED  BY <3>1, <4>4 DEF Accounted
    <3> QED  BY <3>2, <3>3
  <2> QED  BY <2>4, <2>5, <2>6, <2>7 DEF AccInv
<1> QED  BY <1>3, <1>4 DEF Edit

(* A delete: the pending upserts it completes are of the key it edits.     *)
LEMMA DeleteAcc ==
  ASSUME Inv, TypeOK', AccInv, NEW k \in Keys, Delete(k)
  PROVE  AccInv'
<1>1. PICK q \in Rows :
        /\ Fresh(q)
        /\ queue' = [r \in Rows |->
             IF r = q THEN NewRow(k, "delete", clock + 1, clock + 1, 0)
             ELSE IF r \in PendingFor(k, "upsert") THEN Completed(queue[r])
             ELSE queue[r]]
  BY DEF Delete
<1>2. /\ clock' = clock + 1 /\ UNCHANGED <<orphans, drain, confirmed, dropped, exposed>>
      /\ latest' = [latest EXCEPT ![k] = clock + 1]
  BY DEF Delete, Tick
<1>3. /\ latest'[k] = clock + 1 /\ clock + 1 \in Nat /\ latest'[k] # latest[k]
      /\ \A x \in Keys \ {k} : latest'[x] = latest[x]
  BY <1>2 DEF Inv, TypeOK, Versions, AccInv, VersionsBounded
<1>4. queue'[q] = NewRow(k, "delete", clock + 1, clock + 1, 0)
  BY <1>1
<1>5. queue'[q] # NoRow
  BY <1>3, <1>4, NoRowAssumption, NewRowType DEF Ops
<1>6. /\ queue'[q].key = k /\ queue'[q].ver = clock + 1
      /\ queue'[q].status = "pending" /\ ~queue'[q].synced
  BY <1>4 DEF NewRow
<1>7. ASSUME NEW p \in Rows \ {q}
      PROVE  KeepsVer(p) /\ (queue[p] # NoRow /\ queue[p].key # k => KeepsLoad(p))
  <2>1. CASE p \in PendingFor(k, "upsert")
    <3>1. p \in Used /\ queue[p] \in Row /\ queue[p].key = k /\ queue'[p] = Completed(queue[p])
      BY <1>1, <1>7, <2>1, RowTypes DEF Inv, PendingFor
    <3> QED  BY <3>1, RowLoads DEF KeepsVer, Used
  <2>2. CASE p \notin PendingFor(k, "upsert")
    BY <1>1, <1>7, <2>2 DEF KeepsVer, KeepsLoad, SameLoad
  <2> QED  BY <2>1, <2>2
<1>8. clock + 1 <= latest'[k]
  BY <1>3
<1> QED  BY <1>1, <1>2, <1>3, <1>5, <1>6, <1>7, <1>8, EnqueueAcc

(* An orphan that goes back to the queue is carried by its new row.        *)
LEMMA ReenqueueAcc ==
  ASSUME Inv, TypeOK', AccInv, NEW o \in orphans, NEW a \in Nat, Reenqueue(o, a)
  PROVE  AccInv'
<1>1. PICK q \in Rows :
        Fresh(q) /\ queue' = [queue EXCEPT
                               ![q] = NewRow(o.key, o.op, o.ver, clock + 1, a)]
  BY DEF Reenqueue
<1>2. /\ clock' = clock + 1 /\ orphans' = orphans \ {o}
      /\ UNCHANGED <<latest, drain, confirmed, dropped, exposed>>
  BY DEF Reenqueue, Tick
<1>3. /\ queue'[q] = NewRow(o.key, o.op, o.ver, clock + 1, a)
      /\ \A p \in Rows \ {q} : queue'[p] = queue[p]
  BY <1>1 DEF Inv, TypeOK
<1>4. /\ o.key \in Keys /\ o.op \in Ops /\ o.ver \in Nat /\ clock + 1 \in Nat
      /\ o.ver <= latest'[o.key]
  BY <1>2 DEF Inv, TypeOK, Orphan, AccInv, VersionsBounded
<1>5. queue'[q] # NoRow
  BY <1>3, <1>4, NoRowAssumption, NewRowType
<1>6. /\ queue'[q].key = o.key /\ queue'[q].ver = o.ver
      /\ queue'[q].status = "pending" /\ ~queue'[q].synced
  BY <1>3 DEF NewRow
<1>7. \A p \in Rows \ {q} : KeepsVer(p) /\ KeepsLoad(p)
  BY <1>3 DEF KeepsVer, KeepsLoad, SameLoad
<1> QED  BY <1>1, <1>2, <1>4, <1>5, <1>6, <1>7, EnqueueAcc

(* markFailed: a row goes back to 'pending' with its payload, or becomes    *)
(* an orphan with it.                                                      *)
LEMMA FailAcc ==
  ASSUME Inv, TypeOK', AccInv, UNCHANGED <<clock, latest, confirmed, dropped, exposed>>,
         NEW d \in Drains, NEW lifted, NEW kind, NEW fk \in BOOLEAN, NEW g,
         FailChunk(d, lifted, kind, fk, g)
  PROVE  AccInv'
<1> DEFINE ids == Ids(drain[d].chunk) \cap Used
<1>1. PICK S \in SUBSET ids : MarkFailed(S, lifted, kind, fk)
  BY DEF FailChunk
<1>2. drain'[d].chunk = {} /\ drain'[d].todo \subseteq drain[d].todo
      /\ drain'[d].cur \subseteq drain[d].cur /\ \A e \in Drains \ {d} : drain'[e] = drain[e]
  <2>1. \/ \E gg : drain' = [drain EXCEPT ![d] =
               [drain[d] EXCEPT !.phase = "loop", !.chunk = {}, !.degraded = gg]]
        \/ drain' = [drain EXCEPT ![d] = IdleDrain]
    BY DEF FailChunk
  <2>2. drain[d] \in Drain /\ drain \in [Drains -> Drain]
    BY DEF Inv, TypeOK
  <2>3. CASE drain' = [drain EXCEPT ![d] = IdleDrain]
    BY <2>2, <2>3 DEF IdleDrain
  <2>4. ASSUME NEW gg, drain' = [drain EXCEPT ![d] =
                 [drain[d] EXCEPT !.phase = "loop", !.chunk = {}, !.degraded = gg]]
        PROVE  /\ drain'[d].todo = drain[d].todo /\ drain'[d].cur = drain[d].cur
               /\ drain'[d].chunk = {} /\ \A e \in Drains \ {d} : drain'[e] = drain[e]
    BY <2>2, <2>4 DEF Drain
  <2> QED  BY <2>1, <2>3, <2>4
<1>3. MemoryShrinks
  BY <1>2 DEF MemoryShrinks, InMemory
<1>4. AppliedConfirmed'
  BY <1>2 DEF AccInv, AppliedConfirmed
<1>5. ASSUME NEW q \in Rows
      PROVE  KeepsVer(q) /\ (q \notin S \cap lifted => KeepsLoad(q))
  <2>1. CASE q \in S \ lifted
    <3>1. q \in Used /\ queue[q] \in Row /\ queue'[q] = Retried(queue[q], fk)
      BY <1>1, <2>1, RowTypes DEF MarkFailed, Inv
    <3>2. queue'[q] \in Row
      BY <3>1, ConstantsAssumption, RowUpdates
    <3>3. SameLoad(queue'[q], queue[q])
      BY <3>1, RowLoads
    <3> QED  BY <3>1, <3>2, <3>3, NoRowAssumption DEF KeepsVer, KeepsLoad, SameLoad, Used
  <2>2. CASE q \in S \cap lifted
    BY <1>1, <2>2 DEF MarkFailed, KeepsVer
  <2>3. CASE q \notin S
    BY <1>1, <2>3 DEF MarkFailed, KeepsVer, KeepsLoad, SameLoad
  <2> QED  BY <2>1, <2>2, <2>3
<1>6. /\ orphans \subseteq orphans'
      /\ \A o \in orphans' \ orphans :
           \E q \in Used : o.key = queue[q].key /\ o.ver = queue[q].ver
      /\ \A q \in S \cap lifted :
           \E o \in orphans' : o.key = queue[q].key /\ o.ver = queue[q].ver
  <2>1. \A q : /\ OrphanOf(q, kind, fk).key = queue[q].key
               /\ OrphanOf(q, kind, fk).ver = queue[q].ver
    BY DEF OrphanOf
  <2>2. orphans' = orphans \cup {OrphanOf(q, kind, fk) : q \in S \cap lifted}
    BY <1>1 DEF MarkFailed
  <2> QED  BY <2>1, <2>2
<1>7. ASSUME NEW k \in Keys \ exposed', NEW v
      PROVE  /\ \A q \in Rows : Carries(q, k, v) => Accounted(k, v)'
             /\ \A o \in orphans : o.key = k /\ o.ver = v => Accounted(k, v)'
  <2>1. ASSUME NEW q \in Rows, Carries(q, k, v)
        PROVE  Accounted(k, v)'
    <3>1. CASE q \in S \cap lifted
      <4>1. PICK o \in orphans' : o.key = k /\ o.ver = v
        BY <1>6, <2>1, <3>1 DEF Carries
      <4> QED  BY <4>1, OrphanKept
    <3>2. CASE q \notin S \cap lifted
      BY <1>5, <2>1, <3>2, LoadKept
    <3> QED  BY <3>1, <3>2
  <2>2. \A o \in orphans : o.key = k /\ o.ver = v => Accounted(k, v)'
    BY <1>6, OrphanKept
  <2> QED  BY <2>1, <2>2
<1> HIDE DEF ids
<1> QED  BY <1>3, <1>4, <1>5, <1>6, <1>7, QuietAcc

(* A set of numbers that is bounded has a greatest one: otherwise adding 1  *)
(* would map the numbers below into those above 0, which are fewer.        *)
LEMMA HasGreatest ==
  ASSUME NEW T \in SUBSET Nat, T # {}, NEW n \in Nat, \A x \in T : x <= n
  PROVE  \E x \in T : \A y \in T : y <= x
<1> SUFFICES ASSUME \A x \in T : \E y \in T : y > x
             PROVE  FALSE
  OBVIOUS
<1>1. PICK D : D = {m \in 0..n : \E x \in T : m <= x}
  OBVIOUS
<1>2. PICK t \in T : TRUE
  OBVIOUS
<1>3. D \subseteq Nat /\ 0 \in D /\ \A m \in D : m <= n
  BY <1>1, <1>2
<1>4. ASSUME NEW m \in D
      PROVE  m + 1 \in D \ {0}
  <2>1. PICK x \in T : m <= x /\ m \in Nat
    BY <1>1
  <2>2. PICK y \in T : y > x
    OBVIOUS
  <2>3. m + 1 <= y /\ y <= n /\ y \in Nat
    BY <2>1, <2>2
  <2> QED  BY <1>1, <2>1, <2>3
<1>5. IsFiniteSet(D)
  BY <1>3, FS_BoundedSetOfNaturals
<1>6. /\ IsFiniteSet(D \ {0}) /\ Cardinality(D) \in Nat
      /\ Cardinality(D \ {0}) = Cardinality(D) - 1
  BY <1>3, <1>5, FS_RemoveElement, FS_CardinalityType
<1>7. PICK f : f = [m \in D |-> m + 1]
  OBVIOUS
<1>8. f \in [D -> D \ {0}]
  BY <1>4, <1>7
<1>9. \E a, b \in D : a # b /\ f[a] = f[b]
  <2>1. Cardinality(D \ {0}) < Cardinality(D)
    BY <1>6
  <2> QED  BY <1>5, <1>6, <1>8, <2>1, FS_PigeonHole
<1> QED  BY <1>3, <1>7, <1>9

(* Of some rows of the queue, one is the newest.                           *)
LEMMA NewestRow ==
  ASSUME Inv, NEW S \in SUBSET Used, S # {}
  PROVE  \E p \in S : \A q \in S : queue[q].at <= queue[p].at
<1>1. PICK T : T = {queue[q].at : q \in S}
  OBVIOUS
<1>2. T \in SUBSET Nat /\ T # {} /\ clock \in Nat /\ \A x \in T : x <= clock
  BY <1>1, RowTypes DEF Inv, TypeOK, AtsDiffer
<1>3. PICK x \in T : \A y \in T : y <= x
  BY <1>2, HasGreatest
<1> QED  BY <1>1, <1>3

(* The stuck-row sweep: what a deleted row carried is carried by the twin   *)
(* that is pending or by the newest of its kind, or the key is `exposed'.  *)
LEMMA SweepAcc ==
  ASSUME Inv, TypeOK', AccInv, NEW cut, ResetStuck(cut)
  PROVE  AccInv'
<1> DEFINE stuck == Stuck(cut)
           rest  == stuck \ Twinned(stuck)
           gone  == Twinned(stuck) \cup Outdone(rest)
           kept  == stuck \ gone
           older == {q \in gone : \E p \in kept \cup PendingFor(queue[q].key, queue[q].op) :
                       Same(q, p) /\ (queue[p].ver < queue[q].ver \/ queue[p].synced)}
<1>1. /\ queue' = [q \in Rows |->
           IF q \in gone THEN NoRow
           ELSE IF q \in kept THEN [queue[q] EXCEPT !.status = "pending"]
           ELSE queue[q]]
      /\ exposed' = exposed \cup {queue[q].key : q \in older}
  BY DEF ResetStuck
<1>2. UNCHANGED <<clock, latest, orphans, drain, confirmed, dropped>>
  BY DEF ResetStuck
<1>3. /\ stuck \subseteq Used /\ (\A q \in stuck : queue[q].status = "syncing")
      /\ kept = rest \ Outdone(rest) /\ rest = stuck \ Twinned(stuck)
      /\ gone = Twinned(stuck) \cup Outdone(rest)
      /\ \A q \in gone \ older : \A p \in kept \cup PendingFor(queue[q].key, queue[q].op) :
           Same(q, p) => ~(queue[p].ver < queue[q].ver) /\ ~queue[p].synced
      /\ gone \cap kept = {} /\ \A p \in gone : queue[p].status = "syncing"
  <2>1. stuck \subseteq Used /\ \A q \in stuck : queue[q].status = "syncing"
    BY DEF Stuck
  <2>2. Twinned(stuck) \subseteq stuck /\ Outdone(rest) \subseteq rest
    BY DEF Twinned, Outdone
  <2>3. \A q \in gone \ older : \A p \in kept \cup PendingFor(queue[q].key, queue[q].op) :
          Same(q, p) => ~(queue[p].ver < queue[q].ver) /\ ~queue[p].synced
    OBVIOUS
  <2> HIDE DEF older, stuck
  <2> QED  BY <2>1, <2>2, <2>3
<1> HIDE DEF stuck, rest, gone, kept, older
<1>4. ASSUME NEW q \in Rows
      PROVE  KeepsVer(q) /\ (q \notin gone => KeepsLoad(q))
  <2>1. CASE q \in gone
    BY <1>1, <2>1 DEF KeepsVer
  <2>2. CASE q \notin gone /\ q \in kept
    <3>1. q \in Used /\ queue[q] \in Row /\ queue'[q] = [queue[q] EXCEPT !.status = "pending"]
      BY <1>1, <1>3, <2>2, RowTypes DEF Inv
    <3>2. queue'[q] \in Row
      BY <3>1 DEF Row
    <3>3. SameLoad(queue'[q], queue[q])
      BY <3>1, RowLoads
    <3> QED  BY <3>1, <3>2, <3>3, NoRowAssumption DEF KeepsVer, KeepsLoad, SameLoad, Used
  <2>3. CASE q \notin gone /\ q \notin kept
    BY <1>1, <2>3 DEF KeepsVer, KeepsLoad, SameLoad
  <2> QED  BY <2>1, <2>2, <2>3
<1>5. ASSUME NEW q \in gone
      PROVE  \E p \in kept \cup PendingFor(queue[q].key, queue[q].op) : Same(q, p)
  <2>1. CASE q \in Twinned(stuck)
    BY <2>1 DEF Twinned, PendingFor, Same
  <2>2. CASE q \notin Twinned(stuck)
    <3>1. q \in rest /\ rest \subseteq Used
      BY <1>3, <2>2 DEF Outdone
    <3>2. PICK R : R = {r \in rest : Same(q, r)}
      OBVIOUS
    <3>3. q \in R /\ R \in SUBSET Used
      BY <3>1, <3>2 DEF Same
    <3>4. PICK p \in R : \A r \in R : queue[r].at <= queue[p].at
      BY <3>3, NewestRow
    <3>5. p \notin Outdone(rest)
      <4> SUFFICES ASSUME NEW r \in rest, Same(p, r), queue[r].at > queue[p].at
                   PROVE  FALSE
        BY DEF Outdone
      <4>1. r \in R
        BY <3>2, <3>4 DEF Same
      <4>2. queue[r].at \in Nat /\ queue[p].at \in Nat /\ queue[r].at <= queue[p].at
        BY <3>3, <3>4, <4>1, RowTypes DEF Inv
      <4> QED  BY <4>2
    <3> QED  BY <1>3, <3>2, <3>4, <3>5
  <2> QED  BY <2>1, <2>2
<1>6. ASSUME NEW k \in Keys \ exposed', NEW v, v = latest[k]
      PROVE  /\ \A q \in Rows : Carries(q, k, v) => Accounted(k, v)'
             /\ \A o \in orphans : o.key = k /\ o.ver = v => Accounted(k, v)'
  <2>1. ASSUME NEW q \in Rows, Carries(q, k, v), q \in gone
        PROVE  Accounted(k, v)'
    <3>1. PICK p \in kept \cup PendingFor(queue[q].key, queue[q].op) : Same(q, p)
      BY <1>5, <2>1
    <3>2. p \in Used /\ p \in Rows /\ p \notin gone /\ queue[p].status # "completed"
      BY <1>3 DEF PendingFor, Used
    <3>3. q \notin older
      BY <1>1, <1>6, <2>1 DEF Carries
    <3>4. ~(queue[p].ver < queue[q].ver) /\ ~queue[p].synced
      BY <1>3, <2>1, <3>1, <3>3
    <3>5. queue[p].key = k /\ queue[q].ver = v
      BY <2>1, <3>1 DEF Same, Carries
    <3>6. queue[p].ver \in Nat /\ queue[p].ver <= v /\ v \in Nat
      BY <1>6, <3>2, <3>5, RowTypes DEF AccInv, VersionsBounded, Inv, TypeOK, Versions
    <3>7. Carries(p, k, v)
      BY <3>2, <3>4, <3>5, <3>6 DEF Carries, Draining, Used
    <3> QED  BY <1>4, <3>2, <3>7, LoadKept
  <2>2. ASSUME NEW q \in Rows, Carries(q, k, v), q \notin gone
        PROVE  Accounted(k, v)'
    BY <1>4, <2>2, LoadKept
  <2>3. \A o \in orphans : o.key = k /\ o.ver = v => Accounted(k, v)'
    BY <1>2, OrphanKept
  <2> QED  BY <2>1, <2>2, <2>3
<1>7. MemoryShrinks
  BY <1>2 DEF MemoryShrinks, InMemory
<1>8. AppliedConfirmed' /\ exposed \subseteq exposed'
  BY <1>1, <1>2 DEF AccInv, AppliedConfirmed
<1> QED  BY <1>2, <1>4, <1>6, <1>7, <1>8, QuietAcc

(* One row becomes due, is put back to 'pending' by hand, or is discarded. *)
LEMMA OneRowAcc ==
  ASSUME Inv, TypeOK', AccInv, NEW q \in Rows,
         BackoffOver(q) \/ RetryRow(q) \/ DiscardRow(q)
  PROVE  AccInv'
<1>1. /\ q \in Used /\ UNCHANGED <<clock, latest, orphans, drain, confirmed, exposed>>
      /\ dropped \subseteq dropped' /\ \A p \in Rows \ {q} : queue'[p] = queue[p]
  BY DEF BackoffOver, RetryRow, DiscardRow, Used, Inv, TypeOK
<1>2. \A p \in Rows \ {q} : KeepsVer(p) /\ KeepsLoad(p)
  BY <1>1 DEF KeepsVer, KeepsLoad, SameLoad
<1>3. MemoryShrinks
  BY <1>1 DEF MemoryShrinks, InMemory
<1>4. AppliedConfirmed'
  BY <1>1 DEF AccInv, AppliedConfirmed
<1>5. CASE BackoffOver(q) \/ RetryRow(q)
  <2>1. PICK r \in Row : r = queue[q]
    BY <1>1, RowTypes DEF Inv
  <2>2. \/ queue'[q] = [r EXCEPT !.due = TRUE]
        \/ queue'[q] = [r EXCEPT !.status = "pending", !.due = TRUE]
    BY <1>1, <1>5, <2>1 DEF BackoffOver, RetryRow, Inv, TypeOK
  <2>3. SameLoad(queue'[q], queue[q])
    BY <2>1, <2>2, RowLoads
  <2>4. queue'[q] # NoRow
    <3>1. queue'[q] \in Row
      BY <2>2 DEF Row
    <3> QED  BY <3>1, NoRowAssumption
  <2>5. KeepsVer(q) /\ KeepsLoad(q)
    BY <1>1, <2>3, <2>4 DEF KeepsVer, KeepsLoad, SameLoad, Used
  <2> QED  BY <1>1, <1>2, <1>3, <1>4, <2>5, LoadsAcc
<1>6. CASE DiscardRow(q)
  <2>1. queue'[q] = NoRow /\ queue[q].ver \in dropped'
    BY <1>6 DEF DiscardRow, Inv, TypeOK
  <2>2. ASSUME NEW k \in Keys \ exposed', NEW v
        PROVE  /\ \A p \in Rows : Carries(p, k, v) => Accounted(k, v)'
               /\ \A o \in orphans : o.key = k /\ o.ver = v => Accounted(k, v)'
    <3>1. Carries(q, k, v) => Accounted(k, v)'
      BY <2>1 DEF Carries, Accounted
    <3>2. \A p \in Rows \ {q} : Carries(p, k, v) => Accounted(k, v)'
      BY <1>2, LoadKept
    <3> QED  BY <1>1, <3>1, <3>2, OrphanKept
  <2>3. KeepsVer(q)
    BY <2>1 DEF KeepsVer
  <2> QED  BY <1>1, <1>2, <1>3, <1>4, <2>2, <2>3, QuietAcc
<1> QED  BY <1>5, <1>6

(* Reading the queue: the items have the payloads of the rows.             *)
LEMMA ReadAcc ==
  ASSUME Inv, AccInv, NEW d \in Drains, DrainStart(d)
  PROVE  AccInv'
<1>1. UNCHANGED <<clock, latest, queue, orphans, confirmed, dropped, exposed>>
  BY DEF DrainStart
<1>2. drain'[d].phase = "loop" /\ InMemory(d)' = Items(Eligible)
  BY DEF DrainStart, InMemory, Inv, TypeOK
<1>3. \A e \in Drains \ {d} : drain'[e] = drain[e] /\ InMemory(e)' = InMemory(e)
  BY DEF DrainStart, InMemory, Inv, TypeOK
<1>4. ItemVersions'
  BY <1>1, <1>2, <1>3 DEF AccInv, ItemVersions, Items
<1>5. AppliedConfirmed'
  BY <1>1, <1>2, <1>3 DEF AccInv, AppliedConfirmed
<1>6. VersionsBounded' /\ EditAccounted'
  BY <1>1 DEF AccInv, VersionsBounded, EditAccounted, Accounted, Used
<1> QED  BY <1>4, <1>5, <1>6 DEF AccInv

(* Marking a group leaves what its rows carry.                             *)
LEMMA MarkAcc ==
  ASSUME Inv, TypeOK', AccInv, NEW d \in Drains, MarkGroup(d)
  PROVE  AccInv'
<1>1. PICK group \in SUBSET drain[d].todo :
        /\ drain' = [drain EXCEPT ![d] = [drain[d] EXCEPT !.cur = group,
                                           !.todo = drain[d].todo \ group]]
        /\ queue' = [q \in Rows |->
             IF q \in Ids(group) \cap Used
               THEN [queue[q] EXCEPT !.status = "syncing"] ELSE queue[q]]
  <2> DEFINE Moved(group) ==
        /\ drain' = [drain EXCEPT ![d] = [drain[d] EXCEPT !.cur = group,
                                           !.todo = drain[d].todo \ group]]
        /\ queue' = [q \in Rows |->
             IF q \in Ids(group) \cap Used
               THEN [queue[q] EXCEPT !.status = "syncing"] ELSE queue[q]]
  <2>1. PICK i \in drain[d].todo : Moved({j \in drain[d].todo : SameGroup(i, j)})
    BY DEF MarkGroup
  <2>2. {j \in drain[d].todo : SameGroup(i, j)} \in SUBSET drain[d].todo
    OBVIOUS
  <2> HIDE DEF Moved
  <2>3. \E group \in SUBSET drain[d].todo : Moved(group)
    BY <2>1, <2>2
  <2> QED  BY <2>3 DEF Moved
<1>2. drain \in [Drains -> Drain] /\ drain[d] \in Drain
  BY DEF Inv, TypeOK
<1>3. /\ drain'[d].todo \cup drain'[d].cur \cup drain'[d].chunk
           \subseteq drain[d].todo \cup drain[d].chunk
      /\ drain'[d].phase = drain[d].phase /\ drain'[d].chunk = drain[d].chunk
      /\ \A e \in Drains \ {d} : drain'[e] = drain[e]
  BY <1>1, <1>2 DEF Drain
<1>4. MemoryShrinks
  BY <1>3 DEF MemoryShrinks, InMemory
<1>5. UNCHANGED <<clock, latest, orphans, confirmed, dropped, exposed>>
  BY DEF MarkGroup
<1>6. AppliedConfirmed'
  BY <1>3, <1>5 DEF AccInv, AppliedConfirmed
<1>7. ASSUME NEW q \in Rows
      PROVE  KeepsVer(q) /\ KeepsLoad(q)
  <2>1. CASE q \in Ids(group) \cap Used
    <3>1. PICK r \in Row : r = queue[q] /\ queue'[q] = [r EXCEPT !.status = "syncing"]
      BY <1>1, <2>1, RowTypes DEF Inv
    <3>2. queue'[q] \in Row
      BY <3>1 DEF Row
    <3> QED  BY <2>1, <3>1, <3>2, RowLoads, NoRowAssumption DEF KeepsVer, KeepsLoad, SameLoad, Used
  <2>2. CASE q \notin Ids(group) \cap Used
    BY <1>1, <2>2 DEF KeepsVer, KeepsLoad, SameLoad
  <2> QED  BY <2>1, <2>2
<1> QED  BY <1>4, <1>5, <1>6, <1>7, LoadsAcc

(* markDoneBatch completes the rows of the chunk by id: what they carry is *)
(* what the chunk carried, and the cloud has that; or the key is `exposed'. *)
LEMMA DoneAcc ==
  ASSUME Inv, TypeOK', AccInv, NEW d \in Drains, ChunkDone(d)
  PROVE  AccInv'
<1>1. UNCHANGED <<clock, latest, orphans, confirmed, dropped, exposed>>
  BY DEF ChunkDone
<1>2. /\ drain'[d].todo = drain[d].todo /\ drain'[d].cur = drain[d].cur
      /\ drain'[d].chunk = {} /\ \A e \in Drains \ {d} : drain'[e] = drain[e]
  BY DEF ChunkDone, Inv, TypeOK, Drain
<1>3. MemoryShrinks
  BY <1>2 DEF MemoryShrinks, InMemory
<1>4. AppliedConfirmed'
  BY <1>1, <1>2 DEF AccInv, AppliedConfirmed
<1>5. ASSUME NEW q \in Rows
      PROVE  KeepsVer(q) /\ (q \notin Ids(drain[d].chunk) => KeepsLoad(q))
  <2>1. CASE q \in Ids(drain[d].chunk) \cap Used
    <3>1. PICK r \in Row : r = queue[q] /\ queue'[q] = Completed(r)
      BY <2>1, RowTypes DEF ChunkDone, Inv
    <3> QED  BY <2>1, <3>1, RowLoads DEF KeepsVer, Used
  <2>2. CASE q \notin Ids(drain[d].chunk) \cap Used
    BY <2>2 DEF ChunkDone, KeepsVer, KeepsLoad, SameLoad, Used
  <2> QED  BY <2>1, <2>2
<1>6. ASSUME NEW k \in Keys \ exposed', NEW v
      PROVE  /\ \A q \in Rows : Carries(q, k, v) => Accounted(k, v)'
             /\ \A o \in orphans : o.key = k /\ o.ver = v => Accounted(k, v)'
  <2>1. ASSUME NEW q \in Rows, Carries(q, k, v), q \in Ids(drain[d].chunk)
        PROVE  Accounted(k, v)'
    <3>1. PICK i \in drain[d].chunk : i.id = q
      BY <2>1 DEF Ids
    <3>2. i.key = k /\ i.ver = v
      BY <1>1, <1>6, <2>1, <3>1 DEF Inv, ItemsMatch, AccInv, ItemVersions, InMemory, Carries, Draining
    <3>3. v \in confirmed'
      BY <1>1, <3>1, <3>2 DEF AccInv, AppliedConfirmed, ChunkDone
    <3> QED  BY <3>3 DEF Accounted
  <2>2. \A q \in Rows : Carries(q, k, v) /\ q \notin Ids(drain[d].chunk) => Accounted(k, v)'
    BY <1>5, LoadKept
  <2>3. \A o \in orphans : o.key = k /\ o.ver = v => Accounted(k, v)'
    BY <1>1, OrphanKept
  <2> QED  BY <2>1, <2>2, <2>3
<1> QED  BY <1>1, <1>3, <1>4, <1>5, <1>6, QuietAcc

(* The steps of a drain that leave the queue alone.                        *)
LEMMA SendAcc ==
  ASSUME Inv, AccInv, NEW d \in Drains, SendChunk(d) \/ CloudApplies(d) \/ DrainEnd(d)
  PROVE  AccInv'
<1>1. drain \in [Drains -> Drain] /\ drain[d] \in Drain
  BY DEF Inv, TypeOK
<1>2. /\ UNCHANGED <<clock, latest, queue, orphans, exposed, dropped>>
      /\ confirmed \subseteq confirmed'
  BY DEF SendChunk, CloudApplies, DrainEnd, Landed
<1>3. CASE SendChunk(d)
  <2>1. PICK c \in SUBSET drain[d].cur :
          drain' = [drain EXCEPT ![d] =
            [drain[d] EXCEPT !.phase = "wait", !.chunk = c,
                             !.cur = drain[d].cur \ c]]
    BY <1>3, Zenon DEF SendChunk
  <2>2. /\ drain'[d].todo \cup drain'[d].cur \cup drain'[d].chunk
             \subseteq drain[d].todo \cup drain[d].cur
        /\ drain'[d].phase = "wait" /\ \A e \in Drains \ {d} : drain'[e] = drain[e]
    BY <1>1, <2>1 DEF Drain
  <2>3. MemoryShrinks
    BY <2>2 DEF MemoryShrinks, InMemory
  <2>4. AppliedConfirmed'
    BY <1>2, <2>2 DEF AccInv, AppliedConfirmed
  <2> QED  BY <1>2, <2>3, <2>4, NoQueueAcc
<1>4. CASE CloudApplies(d)
  <2>1. /\ drain'[d].todo = drain[d].todo /\ drain'[d].cur = drain[d].cur
        /\ drain'[d].chunk = drain[d].chunk /\ \A e \in Drains \ {d} : drain'[e] = drain[e]
        /\ confirmed' = confirmed \cup {i.ver : i \in drain[d].chunk}
    BY <1>1, <1>4 DEF CloudApplies, Landed, Drain
  <2>2. MemoryShrinks
    BY <2>1 DEF MemoryShrinks, InMemory
  <2>3. AppliedConfirmed'
    BY <2>1 DEF AccInv, AppliedConfirmed
  <2> QED  BY <1>2, <2>2, <2>3, NoQueueAcc
<1>5. CASE DrainEnd(d)
  <2>1. drain'[d] = IdleDrain /\ \A e \in Drains \ {d} : drain'[e] = drain[e]
    BY <1>1, <1>5 DEF DrainEnd
  <2>2. MemoryShrinks
    BY <2>1 DEF MemoryShrinks, InMemory, IdleDrain
  <2>3. AppliedConfirmed'
    BY <1>2, <2>1 DEF AccInv, AppliedConfirmed, IdleDrain
  <2> QED  BY <1>2, <2>2, <2>3, NoQueueAcc
<1> QED  BY <1>3, <1>4, <1>5

LEMMA AccStep ==
  ASSUME ConstantsAssumption, Inv, AccInv, [Next]_vars
  PROVE  AccInv'
<1>1. TypeOK'
  BY TypeStep DEF Inv
<1>2. CASE AppStep
  BY <1>1, <1>2, EditAcc, DeleteAcc DEF AppStep
<1>3. ASSUME NEW d \in Drains, DrainStep(d) \/ LinkFault(d) PROVE AccInv'
  <2>1. CASE ChunkFkRejected(d) \/ ChunkTimeout(d) \/ ChunkError(d) \/ ChunkRefused(d)
    <3>1. /\ UNCHANGED <<clock, latest, confirmed, dropped, exposed>>
          /\ \E lifted, kind, g : \E fk \in BOOLEAN : FailChunk(d, lifted, kind, fk, g)
      BY <2>1 DEF ChunkFkRejected, ChunkTimeout, ChunkError, ChunkRefused
    <3> QED  BY <1>1, <3>1, FailAcc
  <2> QED
    BY <1>1, <1>3, <2>1, ReadAcc, MarkAcc, DoneAcc, SendAcc DEF DrainStep, LinkFault
<1>4. ASSUME NEW c, LateLanding(c) PROVE AccInv'
  <2>1. /\ UNCHANGED <<clock, latest, queue, orphans, exposed, dropped, drain>>
        /\ confirmed \subseteq confirmed'
    BY <1>4 DEF LateLanding, Landed
  <2>2. MemoryShrinks /\ AppliedConfirmed'
    BY <2>1 DEF MemoryShrinks, InMemory, AccInv, AppliedConfirmed
  <2> QED  BY <2>1, <2>2, NoQueueAcc
<1>5. CASE Recovery
  <2>1. CASE AppKill
    <3>1. MemoryShrinks /\ AppliedConfirmed'
      BY <2>1 DEF AppKill, MemoryShrinks, InMemory, IdleDrain, AppliedConfirmed
    <3> QED  BY <2>1, <3>1, NoQueueAcc DEF AppKill
  <2>2. ASSUME NEW o \in orphans, AutoRecover(o) PROVE AccInv'
    <3>1. o.auto + 1 \in Nat
      BY DEF Inv, TypeOK, Orphan
    <3> QED  BY <1>1, <2>2, <3>1, ReenqueueAcc DEF AutoRecover
  <2> QED  BY <1>1, <1>5, <2>1, <2>2, SweepAcc, OneRowAcc DEF Recovery
<1>6. CASE UserStep
  <2>1. ASSUME NEW o \in orphans, RetryOrphan(o) PROVE AccInv'
    BY <1>1, <2>1, ReenqueueAcc DEF RetryOrphan
  <2>2. ASSUME NEW o \in orphans, DiscardOrphan(o) PROVE AccInv'
    <3>1. /\ UNCHANGED <<clock, latest, queue, drain, confirmed, exposed>>
          /\ orphans' = orphans \ {o} /\ dropped' = dropped \cup {o.ver}
      BY <2>2 DEF DiscardOrphan
    <3>2. MemoryShrinks /\ AppliedConfirmed'
      BY <3>1 DEF MemoryShrinks, InMemory, AccInv, AppliedConfirmed
    <3>3. \A q \in Rows : KeepsVer(q) /\ KeepsLoad(q)
      BY <3>1 DEF KeepsVer, KeepsLoad, SameLoad
    <3>4. ASSUME NEW k \in Keys \ exposed', NEW v
          PROVE  /\ \A q \in Rows : Carries(q, k, v) => Accounted(k, v)'
                 /\ \A x \in orphans : x.key = k /\ x.ver = v => Accounted(k, v)'
      <4>1. \A q \in Rows : Carries(q, k, v) => Accounted(k, v)'
        BY <3>3, LoadKept
      <4>2. \A x \in orphans : x.key = k /\ x.ver = v => Accounted(k, v)'
        BY <3>1 DEF Accounted
      <4> QED  BY <4>1, <4>2
    <3> QED  BY <3>1, <3>2, <3>3, <3>4, QuietAcc
  <2> QED  BY <1>1, <1>6, <2>1, <2>2, OneRowAcc DEF UserStep
<1>7. CASE UNCHANGED vars
  <2>1. MemoryShrinks /\ AppliedConfirmed'
    BY <1>7 DEF vars, MemoryShrinks, InMemory, AccInv, AppliedConfirmed
  <2> QED  BY <1>7, <2>1, NoQueueAcc DEF vars
<1> QED  BY <1>2, <1>3, <1>4, <1>5, <1>6, <1>7 DEF Next

LEMMA AccInit == ASSUME ConstantsAssumption, Init PROVE AccInv
<1>1. Used = {} /\ \A d \in Drains : InMemory(d) = {} /\ drain[d].phase = "idle"
  BY DEF Init, Used, InMemory, IdleDrain
<1> QED
  BY <1>1 DEF AccInv, VersionsBounded, ItemVersions, AppliedConfirmed, EditAccounted,
              Accounted, Init

(* Invariant #12 of the outbox, as far as the code keeps it: whatever      *)
(* drains, failures, late answers, kills, sweeps and buttons do, the last  *)
(* edit of a row has reached the cloud, is on its way in the queue or      *)
(* among the orphans, or was discarded by the user, unless its key went    *)
(* through one of the loss windows that `exposed' records.                 *)
THEOREM EditsAreAccounted == Spec => []EditAccounted
<1>1. Init => AccInv
  BY ConstantsAssumption, AccInit
<1>2. Inv /\ AccInv /\ [Next]_vars => AccInv'
  BY ConstantsAssumption, AccStep
<1>3. AccInv => EditAccounted
  BY DEF AccInv
<1> QED  BY <1>1, <1>2, <1>3, InvHolds, PTL DEF Spec
=============================================================================
