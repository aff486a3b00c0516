----------------------------- MODULE SyncOutbox -----------------------------
(***************************************************************************)
(* The push half of the sync engine of one phone: the `sync_queue` and     *)
(* `sync_queue_orphans` tables (SyncDao), the drains that upload them      *)
(* (SupabaseSyncService.pushPending) and the cloud rows they land on.      *)
(*                                                                         *)
(* Abstractions                                                            *)
(*  - A payload is the number of the edit that produced it: edits are      *)
(*    numbered by `clock`, which also stands for `created_at`.             *)
(*  - One key is one (table, row id); the table is TableOf[key].  The key  *)
(*    Parent[key], if any, is the row its foreign key points to.           *)
(*  - A chunk is any non-empty subset of the rows of the group being       *)
(*    pushed: the adaptive chunk size only decides which one.              *)
(*  - `next_attempt_at` is the flag `due`; backoff lengths are left out.   *)
(*  - `attempts` saturates at FkCap, the only value it is compared with.   *)
(*  - Completed rows stay in the table (nothing calls purgeOldDoneItems);  *)
(*    the slot of one that no drain holds may stand for a new row.         *)
(*  - A key is never written again after its delete (the DAOs mint a new   *)
(*    UUID when the same thing is added again).                            *)
(* Held rows and domain envelopes are in HeldSale.                         *)
(***************************************************************************)
EXTENDS Naturals, FiniteSets

CONSTANTS
  Keys,        \* row identities the phone writes
  Rows,        \* ids of sync_queue rows
  Drains,      \* concurrent calls of pushPending
  AutoDrain,   \* the one that runs under the `_pushing` flag
  NoRow,       \* a free slot of the queue
  NoKey,       \* "no parent"
  Tables, TableOf, Parent,
  Priority,    \* Tables -> Nat, the FK priority of pushes
  FkCap,       \* _fkDeferredRetryCap
  AutoCap,     \* autoRecoverCap
  MaxClock,    \* bound: number of edits, deletes and re-enqueues
  MaxFaults    \* bound: timeouts, errors, refusals, app kills, retry taps

ASSUME ConstantsAssumption ==
  /\ AutoDrain \in Drains
  /\ NoKey \notin Keys
  /\ TableOf \in [Keys -> Tables]
  /\ Parent \in [Keys -> Keys \cup {NoKey}]
  /\ Priority \in [Tables -> Nat]
  /\ FkCap \in Nat \ {0} /\ AutoCap \in Nat
  /\ MaxClock \in Nat /\ MaxFaults \in Nat

Ops == {"upsert", "delete"}

Versions == Nat

Row == [key : Keys, op : Ops, ver : Nat, at : Nat,
        status : {"pending", "syncing", "completed"}, synced : BOOLEAN,
        due : BOOLEAN, tries : Nat, fks : Nat, auto : Nat]

ASSUME NoRowAssumption == NoRow \notin Row

Orphan == [key : Keys, op : Ops, ver : Nat, kind : {"fk", "refused"},
           fks : Nat, auto : Nat]

(* What a drain keeps of a queue row in memory (getPendingItems' result).  *)
Item == [id : Rows, key : Keys, op : Ops, ver : Nat]

Phases == {"idle", "loop", "wait", "applied"}

Drain == [phase : Phases, todo : SUBSET Item, cur : SUBSET Item,
          chunk : SUBSET Item, degraded : BOOLEAN]

IdleDrain == [phase |-> "idle", todo |-> {}, cur |-> {}, chunk |-> {},
              degraded |-> FALSE]

VARIABLES
  clock,     \* number of edits and enqueues so far
  latest,    \* latest[k]: number of the phone's last edit of k, 0 for none
  deleted,   \* keys the phone has deleted
  queue,     \* sync_queue
  orphans,   \* sync_queue_orphans
  drain,     \* the running drains
  late,      \* chunks whose call timed out but may still reach the cloud
  cloud,     \* cloud[k]: the edit the cloud row holds, 0 when there is none
  faults,    \* faults so far
  confirmed, \* history: edits the cloud has applied
  dropped,   \* history: edits the user discarded in Sync Issues
  exposed    \* history: keys that went through a known loss window

vars == <<clock, latest, deleted, queue, orphans, drain, late, cloud, faults,
          confirmed, dropped, exposed>>

Init ==
  /\ clock = 0
  /\ latest = [k \in Keys |-> 0]
  /\ deleted = {}
  /\ queue = [q \in Rows |-> NoRow]
  /\ orphans = {}
  /\ drain = [d \in Drains |-> IdleDrain]
  /\ late = {}
  /\ cloud = [k \in Keys |-> 0]
  /\ faults = 0
  /\ confirmed = {}
  /\ dropped = {}
  /\ exposed = {}

-----------------------------------------------------------------------------
(* Queries of SyncDao *)

Used == {q \in Rows : queue[q] # NoRow}

InMemory(d) == drain[d].todo \cup drain[d].cur \cup drain[d].chunk

HeldByDrain(q) == \E d \in Drains : \E i \in InMemory(d) : i.id = q

Fresh(q) ==
  /\ ~HeldByDrain(q)
  /\ queue[q] # NoRow => queue[q].status = "completed"

(* _findPendingDuplicateId: it filters on the status, not on is_synced.    *)
PendingFor(k, op) ==
  {q \in Used : queue[q].status = "pending" /\ queue[q].key = k
                                            /\ queue[q].op = op}

(* The partial unique index: flipping q to 'pending' raises when another   *)
(* pending row has its (action_type, id).                                  *)
HasTwin(q) == PendingFor(queue[q].key, queue[q].op) \ {q} # {}

Eligible ==
  {q \in Used : queue[q].status = "pending" /\ ~queue[q].synced /\ queue[q].due}

NewRow(k, op, v, at, auto) ==
  [key |-> k, op |-> op, ver |-> v, at |-> at, status |-> "pending",
   synced |-> FALSE, due |-> TRUE, tries |-> 0, fks |-> 0, auto |-> auto]

(* Variant: the status markDone writes is misspelt.                        *)
CompletedAsDone(r) == [r EXCEPT !.status = "done", !.synced = TRUE, !.due = TRUE]

Completed(r) == [r EXCEPT !.status = "completed", !.synced = TRUE, !.due = TRUE]

Items(S) ==
  {[id |-> q, key |-> queue[q].key, op |-> queue[q].op, ver |-> queue[q].ver]
     : q \in S}

Ids(I) == {i.id : i \in I}

Tick == clock < MaxClock /\ clock' = clock + 1

-----------------------------------------------------------------------------
(* Writes of the app *)

(* enqueueUpsert found a pending row for the key: it refreshes it in       *)
(* place.  is_synced is left as it is.                                     *)
Coalesced(r, v) ==
  [r EXCEPT !.ver = v, !.at = v, !.due = TRUE, !.tries = 0, !.fks = 0]

(* A DAO writes the local row and calls enqueueUpsert.                     *)
Edit(k) ==
  /\ Tick
  /\ k \notin deleted
  /\ latest' = [latest EXCEPT ![k] = clock + 1]
  /\ \/ \E q \in PendingFor(k, "upsert") :
          /\ queue' = [queue EXCEPT ![q] = Coalesced(queue[q], clock + 1)]
          /\ exposed' = IF HeldByDrain(q) \/ queue[q].synced
                          THEN exposed \cup {k} ELSE exposed
     \/ /\ PendingFor(k, "upsert") = {}
        /\ \E q \in Rows :
             /\ Fresh(q)
             /\ queue' = [queue EXCEPT
                            ![q] = NewRow(k, "upsert", clock + 1, clock + 1, 0)]
        /\ UNCHANGED exposed
  /\ UNCHANGED <<deleted, orphans, drain, late, cloud, faults, confirmed, dropped>>

(* A DAO deletes the local row and calls enqueueDelete: a pending upsert   *)
(* of the key is completed without being sent, then the tombstone is       *)
(* queued.                                                                 *)
Delete(k) ==
  /\ Tick
  /\ k \notin deleted /\ latest[k] # 0
  /\ deleted' = deleted \cup {k}
  /\ latest' = [latest EXCEPT ![k] = clock + 1]
  /\ \E q \in Rows :
       /\ Fresh(q)
       /\ queue' = [r \in Rows |->
            IF r = q THEN NewRow(k, "delete", clock + 1, clock + 1, 0)
            ELSE IF r \in PendingFor(k, "upsert") THEN Completed(queue[r])
            ELSE queue[r]]
  /\ UNCHANGED <<orphans, drain, late, cloud, faults, confirmed, dropped, exposed>>

-----------------------------------------------------------------------------
(* The drain *)

(* pushPending reads the due pending rows into memory.                     *)
DrainStart(d) ==
  /\ drain[d].phase = "idle"
  /\ Eligible # {}
  /\ drain' = [drain EXCEPT ![d] =
       [phase |-> "loop", todo |-> Items(Eligible), cur |-> {}, chunk |-> {},
        degraded |-> FALSE]]
  /\ UNCHANGED <<clock, latest, deleted, queue, orphans, late, cloud, faults,
                 confirmed, dropped, exposed>>

SameGroup(i, j) == i.op = j.op /\ TableOf[i.key] = TableOf[j.key]

(* The next group in FK-priority order is marked 'syncing' by id, whatever *)
(* the rows have become since they were read.                              *)
MarkGroup(d) ==
  /\ drain[d].phase = "loop" /\ drain[d].cur = {} /\ ~drain[d].degraded
  /\ \E i \in drain[d].todo :
       /\ \A j \in drain[d].todo :
            Priority[TableOf[i.key]] <= Priority[TableOf[j.key]]
       /\ LET group == {j \in drain[d].todo : SameGroup(i, j)}
          IN /\ drain' = [drain EXCEPT ![d] =
                  [@ EXCEPT !.cur = group, !.todo = drain[d].todo \ group]]
             /\ queue' = [q \in Rows |->
                  IF q \in Ids(group) \cap Used
                    THEN [queue[q] EXCEPT !.status = "syncing"] ELSE queue[q]]
  /\ UNCHANGED <<clock, latest, deleted, orphans, late, cloud, faults,
                 confirmed, dropped, exposed>>

(* One chunk of the group goes out and the drain waits for the answer.     *)
SendChunk(d) ==
  /\ drain[d].phase = "loop"
  /\ \E c \in (SUBSET drain[d].cur) \ {{}} :
       drain' = [drain EXCEPT ![d] =
         [@ EXCEPT !.phase = "wait", !.chunk = c, !.cur = drain[d].cur \ c]]
  /\ UNCHANGED <<clock, latest, deleted, queue, orphans, late, cloud, faults,
                 confirmed, dropped, exposed>>

(* The cloud checks the foreign keys of a chunk and applies it as one      *)
(* statement.  It keeps no version: the call that lands last wins.         *)
FkOk(c) ==
  \A i \in c : i.op = "upsert" /\ Parent[i.key] # NoKey => cloud[Parent[i.key]] # 0

Effect(i) == IF i.op = "upsert" THEN i.ver ELSE 0

Landed(c) ==
  /\ cloud' = [k \in Keys |->
       IF \E i \in c : i.key = k
         THEN Effect(CHOOSE i \in c : i.key = k) ELSE cloud[k]]
  /\ confirmed' = confirmed \cup {i.ver : i \in c}

CloudApplies(d) ==
  /\ drain[d].phase = "wait" /\ FkOk(drain[d].chunk)
  /\ Landed(drain[d].chunk)
  /\ drain' = [drain EXCEPT ![d] = [@ EXCEPT !.phase = "applied"]]
  /\ UNCHANGED <<clock, latest, deleted, queue, orphans, late, faults,
                 dropped, exposed>>

(* Variant: every row the drain holds is marked done with the first chunk. *)
DrainDone(d) ==
  /\ drain[d].phase = "applied"
  /\ queue' = [q \in Rows |->
       IF q \in Ids(InMemory(d)) \cap Used THEN Completed(queue[q]) ELSE queue[q]]
  /\ drain' = [drain EXCEPT ![d] = [@ EXCEPT !.phase = "loop", !.chunk = {}]]
  /\ UNCHANGED <<clock, latest, deleted, orphans, late, cloud, faults,
                 confirmed, dropped, exposed>>

(* The success answer arrives: markDoneBatch, by id.                       *)
ChunkDone(d) ==
  /\ drain[d].phase = "applied"
  /\ queue' = [q \in Rows |->
       IF q \in Ids(drain[d].chunk) \cap Used THEN Completed(queue[q]) ELSE queue[q]]
  /\ drain' = [drain EXCEPT ![d] = [@ EXCEPT !.phase = "loop", !.chunk = {}]]
  /\ UNCHANGED <<clock, latest, deleted, orphans, late, cloud, faults,
                 confirmed, dropped, exposed>>

Fault == faults < MaxFaults /\ faults' = faults + 1

Bump(n) == IF n < FkCap THEN n + 1 ELSE n

(* Variant: a failed row is flagged as uploaded.                           *)
RetriedAsSynced(r, fk) ==
  [r EXCEPT !.status = "pending", !.due = FALSE, !.synced = TRUE,
            !.tries = Bump(@), !.fks = IF fk THEN Bump(@) ELSE @]

(* markFailed below the cap: back to 'pending' behind a backoff.           *)
Retried(r, fk) ==
  [r EXCEPT !.status = "pending", !.due = FALSE, !.tries = Bump(@),
            !.fks = IF fk THEN Bump(@) ELSE @]

(* markFailed for the rows S: those in `lifted` go to the orphans, the     *)
(* others are flipped to 'pending'.                                        *)
OrphanOf(q, kind, fk) ==
  [key |-> queue[q].key, op |-> queue[q].op, ver |-> queue[q].ver, kind |-> kind,
   fks |-> Retried(queue[q], fk).fks, auto |-> queue[q].auto]

MarkFailed(S, lifted, kind, fk) ==
  /\ queue' = [q \in Rows |->
       IF q \notin S THEN queue[q]
       ELSE IF q \in lifted THEN NoRow ELSE Retried(queue[q], fk)]
  /\ orphans' = orphans \cup {OrphanOf(q, kind, fk) : q \in S \cap lifted}

(* markFailed for every row of the chunk, one statement each.  A flip that *)
(* meets a pending twin raises out of pushPending: the rows before it have *)
(* been handled, it and the rows after it stay as they are, and the drain  *)
(* is over.                                                                *)
FailChunk(d, lifted, kind, fk, degrades) ==
  LET ids   == Ids(drain[d].chunk) \cap Used
      stuck == {q \in ids \ lifted : HasTwin(q)}
  IN \/ /\ stuck = {}
        /\ MarkFailed(ids, lifted, kind, fk)
        /\ drain' = [drain EXCEPT ![d] =
             [@ EXCEPT !.phase = "loop", !.chunk = {},
                       !.degraded = degrades \/ drain[d].degraded]]
     \/ /\ stuck # {}
        /\ \E S \in SUBSET (ids \ stuck) : MarkFailed(S, lifted, kind, fk)
        /\ drain' = [drain EXCEPT ![d] = IdleDrain]

(* TimeoutException: the call is given up, not cancelled.  If the cloud    *)
(* has not applied it yet, it still may.                                   *)
ChunkTimeout(d) ==
  /\ Fault
  /\ drain[d].phase \in {"wait", "applied"}
  /\ late' = IF drain[d].phase = "wait" THEN late \cup {drain[d].chunk} ELSE late
  /\ FailChunk(d, {}, "refused", FALSE, TRUE)
  /\ UNCHANGED <<clock, latest, deleted, cloud, confirmed, dropped, exposed>>

(* A network error or a 5xx answer: nothing was applied.                   *)
ChunkError(d) ==
  /\ Fault
  /\ drain[d].phase = "wait"
  /\ FailChunk(d, {}, "refused", FALSE, TRUE)
  /\ UNCHANGED <<clock, latest, deleted, late, cloud, confirmed, dropped, exposed>>

(* 23503: a parent is missing in the cloud, the whole chunk is deferred;   *)
(* rows that reach the cap, counting every earlier failure, are orphaned.  *)
ChunkFkRejected(d) ==
  /\ drain[d].phase = "wait" /\ ~FkOk(drain[d].chunk)
  /\ LET capped == {q \in Used : queue[q].tries + 1 >= FkCap}
     IN FailChunk(d, capped, "fk", TRUE, FALSE)
  /\ UNCHANGED <<clock, latest, deleted, late, cloud, faults, confirmed,
                 dropped, exposed>>

(* P0001 or another 23xxx: every row of the chunk is orphaned.             *)
ChunkRefused(d) ==
  /\ Fault
  /\ drain[d].phase = "wait"
  /\ FailChunk(d, Rows, "refused", FALSE, FALSE)
  /\ UNCHANGED <<clock, latest, deleted, late, cloud, confirmed, dropped, exposed>>

(* The last chunk of the last group is through, or the link is degraded    *)
(* and the remaining groups wait for the next drain.                       *)
DrainEnd(d) ==
  /\ drain[d].phase = "loop" /\ drain[d].cur = {}
  /\ drain[d].todo = {} \/ drain[d].degraded
  /\ drain' = [drain EXCEPT ![d] = IdleDrain]
  /\ UNCHANGED <<clock, latest, deleted, queue, orphans, late, cloud, faults,
                 confirmed, dropped, exposed>>

(* A call that timed out on the phone reaches the cloud after all.         *)
LateLanding(c) ==
  /\ late' = late \ {c}
  /\ IF FkOk(c) THEN Landed(c) ELSE UNCHANGED <<cloud, confirmed>>
  /\ UNCHANGED <<clock, latest, deleted, queue, orphans, drain, faults,
                 dropped, exposed>>

-----------------------------------------------------------------------------
(* Recovery *)

(* The app is killed: drains are gone, calls under way may still land.     *)
AppKill ==
  /\ Fault
  /\ \E d \in Drains : drain[d].phase # "idle"
  /\ late' = late \cup
       {drain[d].chunk : d \in {e \in Drains : drain[e].phase = "wait"}}
  /\ drain' = [d \in Drains |-> IdleDrain]
  /\ UNCHANGED <<clock, latest, deleted, queue, orphans, cloud, confirmed,
                 dropped, exposed>>

Same(q, p) == queue[q].key = queue[p].key /\ queue[q].op = queue[p].op

Stuck(cut) == {q \in Used : queue[q].status = "syncing" /\ queue[q].at <= cut}

Outdone(S) == {q \in S : \E p \in S : Same(q, p) /\ queue[p].at > queue[q].at}

Twinned(S) == {q \in S : PendingFor(queue[q].key, queue[q].op) # {}}

(* resetStuckInProgress, at start-up and on every tick that finds          *)
(* `_pushing` clear: 'syncing' rows created up to `cut` are stuck.  One    *)
(* with a pending twin is deleted; of several with one key only the        *)
(* newest stays; the survivors are flipped to 'pending'.                   *)
ResetStuck(cut) ==
  LET stuck == Stuck(cut)
      gone  == Twinned(stuck) \cup Outdone(stuck \ Twinned(stuck))
      kept  == stuck \ gone
      keepsOlder == {q \in gone :
        \E p \in kept \cup PendingFor(queue[q].key, queue[q].op) :
          Same(q, p) /\ (queue[p].ver < queue[q].ver \/ queue[p].synced)}
  IN /\ drain[AutoDrain].phase = "idle"
     /\ stuck # {}
     /\ queue' = [q \in Rows |->
          IF q \in gone THEN NoRow
          ELSE IF q \in kept THEN [queue[q] EXCEPT !.status = "pending"]
          ELSE queue[q]]
     /\ exposed' = exposed \cup {queue[q].key : q \in keepsOlder}
     /\ UNCHANGED <<clock, latest, deleted, orphans, drain, late, cloud, faults,
                    confirmed, dropped>>

(* Variant: only a row that has not failed yet becomes due.                *)
BackoffOverOnce(q) ==
  /\ queue[q] # NoRow /\ ~queue[q].due /\ queue[q].tries = 0
  /\ queue' = [queue EXCEPT ![q] = [@ EXCEPT !.due = TRUE]]
  /\ UNCHANGED <<clock, latest, deleted, orphans, drain, late, cloud, faults,
                 confirmed, dropped, exposed>>

(* The backoff of a row runs out; clearFailureBackoff ends them all, and   *)
(* the Retry button that of one row.                                       *)
BackoffOver(q) ==
  /\ queue[q] # NoRow /\ ~queue[q].due
  /\ queue' = [queue EXCEPT ![q] = [@ EXCEPT !.due = TRUE]]
  /\ UNCHANGED <<clock, latest, deleted, orphans, drain, late, cloud, faults,
                 confirmed, dropped, exposed>>

(* Sync Issues, the Retry button of a row listed as pending, which a drain *)
(* may have marked 'syncing' since: clearFailureBackoffById.               *)
RetryRow(q) ==
  /\ Fault
  /\ queue[q] # NoRow /\ queue[q].status = "syncing" /\ ~HasTwin(q)
  /\ queue' = [queue EXCEPT ![q] = [@ EXCEPT !.status = "pending", !.due = TRUE]]
  /\ UNCHANGED <<clock, latest, deleted, orphans, drain, late, cloud, confirmed,
                 dropped, exposed>>

(* Variant: the orphan is re-enqueued beside a pending row of its key.     *)
ReenqueueBeside(o, auto) ==
  /\ Tick
  /\ \E q \in Rows :
       /\ Fresh(q)
       /\ queue' = [queue EXCEPT ![q] = NewRow(o.key, o.op, o.ver, clock + 1, auto)]
  /\ orphans' = orphans \ {o}
  /\ UNCHANGED <<latest, deleted, drain, late, cloud, faults, confirmed,
                 dropped, exposed>>

(* _reenqueueOrphan: a fresh row with the orphan's payload; the unique     *)
(* index refuses it while the key has a pending row.                       *)
Reenqueue(o, auto) ==
  /\ Tick
  /\ PendingFor(o.key, o.op) = {}
  /\ \E q \in Rows :
       /\ Fresh(q)
       /\ queue' = [queue EXCEPT ![q] = NewRow(o.key, o.op, o.ver, clock + 1, auto)]
  /\ orphans' = orphans \ {o}
  /\ UNCHANGED <<latest, deleted, drain, late, cloud, faults, confirmed,
                 dropped, exposed>>

(* Sync Issues: the Retry button.                                          *)
RetryOrphan(o) == Reenqueue(o, 0)

(* The sweep of the periodic tick: self-healing causes, AutoCap times.     *)
AutoRecover(o) ==
  /\ o.kind = "fk" /\ o.auto < AutoCap
  /\ Reenqueue(o, o.auto + 1)

(* Sync Issues: the two Discard buttons.                                   *)
DiscardOrphan(o) ==
  /\ orphans' = orphans \ {o}
  /\ dropped' = dropped \cup {o.ver}
  /\ UNCHANGED <<clock, latest, deleted, queue, drain, late, cloud, faults,
                 confirmed, exposed>>

DiscardRow(q) ==
  /\ queue[q] # NoRow /\ queue[q].status # "completed" /\ ~queue[q].synced
  /\ queue' = [queue EXCEPT ![q] = NoRow]
  /\ dropped' = dropped \cup {queue[q].ver}
  /\ UNCHANGED <<clock, latest, deleted, orphans, drain, late, cloud, faults,
                 confirmed, exposed>>

-----------------------------------------------------------------------------
AppStep == \E k \in Keys : Edit(k) \/ Delete(k)

DrainStep(d) ==
  \/ DrainStart(d) \/ MarkGroup(d) \/ SendChunk(d) \/ CloudApplies(d)
  \/ ChunkDone(d) \/ ChunkFkRejected(d) \/ DrainEnd(d)

LinkFault(d) == ChunkTimeout(d) \/ ChunkError(d) \/ ChunkRefused(d)

Recovery ==
  \/ AppKill
  \/ \E cut \in 1..MaxClock : ResetStuck(cut)
  \/ \E q \in Rows : BackoffOver(q)
  \/ \E o \in orphans : AutoRecover(o)

UserStep ==
  \/ \E o \in orphans : RetryOrphan(o) \/ DiscardOrphan(o)
  \/ \E q \in Rows : DiscardRow(q) \/ RetryRow(q)

Next ==
  \/ AppStep
  \/ \E d \in Drains : DrainStep(d) \/ LinkFault(d)
  \/ \E c \in late : LateLanding(c)
  \/ Recovery
  \/ UserStep

Spec == Init /\ [][Next]_vars

(* A started drain always runs on, every started drain call answers, the   *)
(* watcher and the 30 s timer start drains and sweep stuck rows, and time  *)
(* passes, so backoffs run out and stuck rows grow old.  Faults, user      *)
(* actions and edits are never forced.                                     *)
Fairness ==
  /\ \A d \in Drains : WF_vars(DrainStep(d) /\ drain[d].phase # "idle")
  /\ WF_vars(DrainStart(AutoDrain))
  /\ WF_vars(ResetStuck(MaxClock))
  /\ \A q \in Rows : WF_vars(BackoffOver(q))

FairSpec == Spec /\ Fairness

-----------------------------------------------------------------------------
(* Type invariant. *)
TypeOK ==
  /\ clock \in Nat
  /\ latest \in [Keys -> Versions]
  /\ deleted \subseteq Keys
  /\ queue \in [Rows -> Row \cup {NoRow}]
  /\ orphans \subseteq Orphan
  /\ drain \in [Drains -> Drain]
  /\ late \subseteq SUBSET Item
  /\ cloud \in [Keys -> Versions]
  /\ faults \in Nat
  /\ confirmed \subseteq Versions
  /\ dropped \subseteq Versions
  /\ exposed \subseteq Keys

(* No two pending rows have one key and one action.  The index             *)
(* idx_sync_queue_dedup_pending refuses the flips of markFailed and of the *)
(* Retry buttons that would make a second one; the sweep of stuck rows and *)
(* the enqueues have to avoid it themselves, or they would throw.          *)
OnePendingPerKey ==
  \A k \in Keys, op \in Ops :
    \A p, q \in PendingFor(k, op) : p = q

(* The edit v of key k is somewhere: the cloud took it, the user discarded *)
(* it, an orphan shows it, or a queue row that still drains carries it.    *)
Accounted(k, v) ==
  \/ v = 0
  \/ v \in confirmed \cup dropped
  \/ \E o \in orphans : o.key = k /\ o.ver = v
  \/ \E q \in Used : /\ queue[q].key = k /\ queue[q].ver = v
                     /\ queue[q].status # "completed" /\ ~queue[q].synced

(* Whatever drains, failures, kills and sweeps do, the phone's last edit   *)
(* of a row is accounted for, unless the row went through one of the loss  *)
(* windows `exposed` records: an edit coalesced into a row a drain already *)
(* holds in memory (or one flagged as synced), or a stuck-row sweep that   *)
(* kept an older payload.                                                  *)
EditAccounted == \A k \in Keys \ exposed : Accounted(k, latest[k])

(* Invariant #12 as written: no edit leaves the outbox unconfirmed.        *)
OutboxSacred == \A k \in Keys : Accounted(k, latest[k])

Draining(q) == queue[q] # NoRow /\ queue[q].status # "completed" /\ ~queue[q].synced

(* Every row queued for upload is eventually uploaded, orphaned or         *)
(* discarded: no failure, kill or twin leaves it stuck for ever.           *)
RowsResolve == \A q \in Rows : Draining(q) ~> ~Draining(q)

=============================================================================
