--------------------------- MODULE CoinInfoProofs ---------------------------
(***************************************************************************)
(* Proofs about icons and texts of coins, for every set of markets and     *)
(* ids, any number of syncs and of changes.                                *)
(***************************************************************************)
EXTENDS CoinInfo, TLAPS

-----------------------------------------------------------------------------
(* The invariant                                                            *)

Rows  == [Markets -> Row \cup {NoRow}]
Queue == [waiting : SUBSET CmcIds, ended : SUBSET CmcIds, active : [CmcIds -> Job \cup {NoJob}]]
Told  == UNION {[D -> Info \cup {NoInfo}] : D \in SUBSET Markets}
Sync  == [at : {"create", "update", "enqueue"}, ents : Rows, todo : SUBSET Markets,
          told : Told \cup {<<>>}, due : Markets \cup {0}]

\* What is in the variables.
Typed ==
  /\ listed \subseteq Markets /\ cmc \in [CmcIds -> Info \cup {NoInfo}]
  /\ rows \in Rows /\ bucket \in [Markets -> Logos \cup {0}]
  /\ sync \in [Syncs -> Sync \cup {NoSync}]
  /\ queue \in [Kinds -> Queue]
  /\ begun \in 0..MaxSyncs /\ changes \in 0..MaxChanges
  /\ unheard \subseteq Markets /\ stale \subseteq Markets

\* The entities of a sync are of rows there are, and keep their ids; it goes
\* through markets it has an entity and an answer for.
SyncKnows(r, y) ==
  /\ \A m \in Markets : y.ents[m] # NoRow => r[m] # NoRow /\ r[m].cmc = y.ents[m].cmc
  /\ y.at # "create" => /\ y.told \in Told
                        /\ \A m \in y.todo : y.ents[m] # NoRow /\ m \in DOMAIN y.told
  /\ y.at = "enqueue" => y.due \in Markets /\ r[y.due] # NoRow

\* A job in progress has left the queue, and is about the row of its id; what
\* is translated was not yet.
JobKnows(r, k, q, id) ==
  LET job == q.active[id]
  IN job # NoJob =>
       /\ id \notin q.waiting
       /\ r[job.market] # NoRow /\ r[job.market].cmc = id /\ job.row.cmc = id
       /\ k = "translate" => job.row.ko = 0

\* A sync is about to queue the market's icon.
Due(m) == \E s \in Syncs : sync[s] # NoSync /\ sync[s].at = "enqueue" /\ sync[s].due = m
Good(m) == rows[m].icon /\ bucket[m] = rows[m].logo
Pending(m) ==
  \/ rows[m].cmc \in queue["icon"].waiting
  \/ \E id \in CmcIds : /\ queue["icon"].active[id] # NoJob
                        /\ queue["icon"].active[id].market = m

\* The icon of a market is its logo, or somebody is going to make it so, unless
\* the market is one of those in the history.
Cared(m) ==
  \/ m \in unheard \cup stale
  \/ rows[m] # NoRow /\ rows[m].logo # 0 => Good(m) \/ Due(m) \/ Pending(m)

Inv ==
  /\ Typed
  /\ \A s \in Syncs : sync[s] # NoSync => SyncKnows(rows, sync[s])
  /\ \A k \in Kinds, id \in CmcIds : JobKnows(rows, k, queue[k], id)
  /\ \A m \in Markets : Cared(m)

\* What TranslatedOnce says of a step.
KoKept ==
  \A m \in Markets :
    rows[m] # NoRow /\ rows[m].ko # 0 => rows'[m].ko = rows[m].ko \/ m \in stale'

\* What every step shows.
GoodStep == Inv' /\ KoKept

-----------------------------------------------------------------------------
(* Records and the missing                                                  *)

LEMMA Missing ==
  /\ NoRow \notin Row /\ NoJob \notin Job /\ NoSync \notin Sync /\ NoInfo \notin Info
BY DEF NoRow, Row, NoJob, Job, NoSync, Sync, NoInfo, Info

\* A row that is there is a record.
LEMMA RowAt ==
  ASSUME NEW r \in Rows, NEW m \in Markets, r[m] # NoRow
  PROVE  /\ r[m] \in Row /\ r[m].cmc \in CmcIds /\ r[m].logo \in Logos \cup {0}
         /\ r[m].icon \in BOOLEAN /\ r[m].en \in Descriptions \cup {0}
         /\ r[m].ko \in Descriptions \cup {0}
BY DEF Rows, Row

\* So is a job.
LEMMA JobAt ==
  ASSUME NEW q \in Queue, NEW id \in CmcIds, q.active[id] # NoJob
  PROVE  /\ q.active[id] \in Job /\ q.active[id].market \in Markets
         /\ q.active[id].row \in Row
BY DEF Queue, Job

\* Rows that stay keep their id.
RowsKept(r, n) == \A m \in Markets : r[m] # NoRow => n[m] # NoRow /\ n[m].cmc = r[m].cmc

LEMMA SyncKnowsKept ==
  ASSUME NEW r, NEW n, RowsKept(r, n), NEW y \in Sync, SyncKnows(r, y)
  PROVE  SyncKnows(n, y)
BY DEF RowsKept, SyncKnows, Sync

LEMMA JobKnowsKept ==
  ASSUME NEW r, NEW n, RowsKept(r, n), NEW k, NEW q \in Queue, NEW id \in CmcIds,
         JobKnows(r, k, q, id)
  PROVE  JobKnows(n, k, q, id)
<1>1. q.active[id] # NoJob => q.active[id].market \in Markets
  BY JobAt
<1>2. QED
  BY <1>1 DEF RowsKept, JobKnows

-----------------------------------------------------------------------------
(* The queues                                                               *)

LEMMA AddedQueue ==
  ASSUME NEW q \in Queue, NEW id \in CmcIds
  PROVE  /\ Added(q, id) \in Queue /\ Added(q, id).active = q.active
         /\ q.waiting \subseteq Added(q, id).waiting
         /\ Added(q, id).waiting \subseteq q.waiting \cup {id}
         /\ id \in Added(q, id).waiting \/ id \in q.ended \/ q.active[id] # NoJob
         /\ q.active[id] # NoJob => Added(q, id) = q
BY DEF Added, Known, Active, Queue

LEMMA EndedQueue ==
  ASSUME NEW q \in Queue, NEW id \in CmcIds
  PROVE  /\ Ended(q, id) \in Queue
         /\ Ended(q, id).waiting = q.waiting \ {id}
         /\ Ended(q, id).active = [q.active EXCEPT ![id] = NoJob]
BY DEF Ended, Queue

LEMMA RetriedQueue ==
  ASSUME NEW q \in Queue, NEW id \in CmcIds
  PROVE  /\ Retried(q, id) \in Queue
         /\ Retried(q, id).waiting = q.waiting \cup {id}
         /\ Retried(q, id).active = [q.active EXCEPT ![id] = NoJob]
BY DEF Retried, Queue

LEMMA AddedKnows ==
  ASSUME NEW r, NEW k, NEW q \in Queue, NEW id \in CmcIds, NEW x \in CmcIds, JobKnows(r, k, q, x)
  PROVE  JobKnows(r, k, Added(q, id), x)
BY AddedQueue DEF JobKnows

LEMMA EndedKnows ==
  ASSUME NEW r, NEW k, NEW q \in Queue, NEW id \in CmcIds, NEW x \in CmcIds, JobKnows(r, k, q, x)
  PROVE  JobKnows(r, k, Ended(q, id), x) /\ JobKnows(r, k, Retried(q, id), x)
<1>1. q.active \in [CmcIds -> Job \cup {NoJob}]
  BY DEF Queue
<1> DEFINE e == Ended(q, id)
           t == Retried(q, id)
<1>2. /\ e.active[x] = IF x = id THEN NoJob ELSE q.active[x]
      /\ e.waiting = q.waiting \ {id}
  <2>1. e.active = [q.active EXCEPT ![id] = NoJob] /\ e.waiting = q.waiting \ {id}
    BY EndedQueue, Zenon
  <2> HIDE DEF e
  <2>2. QED
    BY <1>1, <2>1
<1>3. /\ t.active[x] = IF x = id THEN NoJob ELSE q.active[x]
      /\ t.waiting = q.waiting \cup {id}
  <2>1. t.active = [q.active EXCEPT ![id] = NoJob] /\ t.waiting = q.waiting \cup {id}
    BY RetriedQueue, Zenon
  <2> HIDE DEF t
  <2>2. QED
    BY <1>1, <2>1
<1> HIDE DEF e, t
<1>4. JobKnows(r, k, e, x) /\ JobKnows(r, k, t, x)
  BY <1>2, <1>3 DEF JobKnows
<1>5. QED
  BY <1>4 DEF e, t

-----------------------------------------------------------------------------
(* What a step leaves alone                                                 *)

\* A step that sets one sync.
LEMMA SyncSet ==
  ASSUME Inv, RowsKept(rows, rows'), NEW s \in Syncs, NEW y \in Sync \cup {NoSync},
         sync' = [sync EXCEPT ![s] = y], y # NoSync => SyncKnows(rows', y)
  PROVE  /\ sync' \in [Syncs -> Sync \cup {NoSync}]
         /\ \A x \in Syncs : sync'[x] # NoSync => SyncKnows(rows', sync'[x])
<1>1. sync \in [Syncs -> Sync \cup {NoSync}]
  BY DEF Inv, Typed
<1>2. sync' \in [Syncs -> Sync \cup {NoSync}]
  BY <1>1
<1>3. ASSUME NEW x \in Syncs, sync'[x] # NoSync PROVE SyncKnows(rows', sync'[x])
  <2>1. CASE x = s
    BY <1>1, <1>3, <2>1
  <2>2. CASE x # s
    <3>1. sync'[x] = sync[x] /\ sync[x] \in Sync
      BY <1>1, <1>3, <2>2
    <3>2. SyncKnows(rows, sync[x])
      BY <1>3, <3>1 DEF Inv
    <3>3. QED
      BY <3>1, <3>2, SyncKnowsKept
  <2>3. QED
    BY <2>1, <2>2
<1>4. QED
  BY <1>2, <1>3

\* A step that sets none.
LEMMA SyncSame ==
  ASSUME Inv, RowsKept(rows, rows'), sync' = sync
  PROVE  /\ sync' \in [Syncs -> Sync \cup {NoSync}]
         /\ \A x \in Syncs : sync'[x] # NoSync => SyncKnows(rows', sync'[x])
<1>1. sync \in [Syncs -> Sync \cup {NoSync}]
  BY DEF Inv, Typed
<1>2. ASSUME NEW x \in Syncs, sync[x] # NoSync PROVE SyncKnows(rows', sync[x])
  <2>1. sync[x] \in Sync /\ SyncKnows(rows, sync[x])
    BY <1>1, <1>2 DEF Inv
  <2>2. QED
    BY <2>1, SyncKnowsKept
<1>3. QED
  BY <1>1, <1>2

\* A step that changes one queue.
LEMMA QueueSet ==
  ASSUME Inv, RowsKept(rows, rows'), NEW k \in Kinds, NEW q \in Queue,
         queue' = [queue EXCEPT ![k] = q], \A id \in CmcIds : JobKnows(rows', k, q, id)
  PROVE  /\ queue' \in [Kinds -> Queue]
         /\ \A x \in Kinds, id \in CmcIds : JobKnows(rows', x, queue'[x], id)
         /\ queue'[k] = q /\ \A x \in Kinds \ {k} : queue'[x] = queue[x]
<1>1. queue \in [Kinds -> Queue]
  BY DEF Inv, Typed
<1>2. queue' \in [Kinds -> Queue] /\ queue'[k] = q /\ \A x \in Kinds \ {k} : queue'[x] = queue[x]
  BY <1>1
<1>3. ASSUME NEW x \in Kinds, NEW id \in CmcIds PROVE JobKnows(rows', x, queue'[x], id)
  <2>1. CASE x = k
    BY <1>2, <2>1
  <2>2. CASE x # k
    <3>1. queue'[x] = queue[x] /\ queue[x] \in Queue
      BY <1>1, <1>2, <2>2
    <3>2. JobKnows(rows, x, queue[x], id)
      BY DEF Inv
    <3>3. QED
      BY <3>1, <3>2, JobKnowsKept
  <2>3. QED
    BY <2>1, <2>2
<1>4. QED
  BY <1>2, <1>3

\* A step that changes none.
LEMMA QueueSame ==
  ASSUME Inv, RowsKept(rows, rows'), queue' = queue
  PROVE  /\ queue' \in [Kinds -> Queue]
         /\ \A x \in Kinds, id \in CmcIds : JobKnows(rows', x, queue'[x], id)
<1>1. queue \in [Kinds -> Queue]
  BY DEF Inv, Typed
<1>2. ASSUME NEW x \in Kinds, NEW id \in CmcIds PROVE JobKnows(rows', x, queue[x], id)
  <2>1. JobKnows(rows, x, queue[x], id) /\ queue[x] \in Queue
    BY <1>1 DEF Inv
  <2>2. QED
    BY <2>1, JobKnowsKept
<1>3. QED
  BY <1>1, <1>2

\* A market stays cared for when its row and icon stay, and who was going to
\* renew the icon still is, or the history tells.
LEMMA CaredKept ==
  ASSUME NEW m \in Markets, Cared(m), m \in unheard \cup stale => m \in unheard' \cup stale',
         rows'[m] = rows[m], bucket'[m] = bucket[m],
         Due(m) => Due(m)' \/ Pending(m)' \/ m \in unheard',
         rows[m] # NoRow => (Pending(m) => Pending(m)' \/ m \in unheard')
  PROVE  Cared(m)'
BY DEF Cared, Good

\* A sync that was not about to queue an icon does not end being so.
LEMMA DueKept ==
  ASSUME Inv, NEW s \in Syncs, NEW y, sync' = [sync EXCEPT ![s] = y],
         sync[s] = NoSync \/ sync[s].at # "enqueue", NEW m, Due(m)
  PROVE  Due(m)'
<1>1. sync \in [Syncs -> Sync \cup {NoSync}]
  BY DEF Inv, Typed
<1>2. PICK x \in Syncs : sync[x] # NoSync /\ sync[x].at = "enqueue" /\ sync[x].due = m
  BY DEF Due
<1>3. sync'[x] = sync[x]
  BY <1>1, <1>2
<1>4. QED
  BY <1>2, <1>3 DEF Due

\* Rows that do not change are kept, and their texts too.
LEMMA RowsStay ==
  ASSUME rows' = rows
  PROVE  RowsKept(rows, rows') /\ KoKept
BY DEF RowsKept, KoKept

\* Steps of the syncs that leave rows, icons, queues and history alone.
LEMMA QuietSyncStep ==
  ASSUME Inv, Typed', UNCHANGED <<rows, bucket, queue, unheard, stale>>,
         NEW s \in Syncs, NEW y \in Sync \cup {NoSync}, sync' = [sync EXCEPT ![s] = y],
         sync[s] = NoSync \/ sync[s].at # "enqueue", y # NoSync => SyncKnows(rows, y)
  PROVE  GoodStep
<1>1. RowsKept(rows, rows') /\ KoKept
  BY RowsStay
<1>2. \A x \in Syncs : sync'[x] # NoSync => SyncKnows(rows', sync'[x])
  BY <1>1, SyncSet
<1>3. \A x \in Kinds, id \in CmcIds : JobKnows(rows', x, queue'[x], id)
  BY <1>1, QueueSame
<1>4. ASSUME NEW m \in Markets PROVE Cared(m)'
  <2>1. Cared(m)
    BY DEF Inv
  <2>2. Due(m) => Due(m)'
    BY DueKept
  <2>3. Pending(m) => Pending(m)'
    BY DEF Pending
  <2>4. QED
    BY <2>1, <2>2, <2>3, CaredKept
<1>5. QED
  BY <1>1, <1>2, <1>3, <1>4 DEF GoodStep, Inv

-----------------------------------------------------------------------------
(* syncAll                                                                  *)

\* A step that leaves the cares alone altogether.
LEMMA OutsideStep ==
  ASSUME Inv, Typed', UNCHANGED <<rows, bucket, sync, queue, unheard, stale>>
  PROVE  GoodStep
<1>1. RowsKept(rows, rows') /\ KoKept
  BY RowsStay
<1>2. \A x \in Syncs : sync'[x] # NoSync => SyncKnows(rows', sync'[x])
  BY <1>1, SyncSame
<1>3. \A x \in Kinds, id \in CmcIds : JobKnows(rows', x, queue'[x], id)
  BY <1>1, QueueSame
<1>4. ASSUME NEW m \in Markets PROVE Cared(m)'
  <2>1. Cared(m)
    BY DEF Inv
  <2>2. (Due(m) => Due(m)') /\ (Pending(m) => Pending(m)')
    BY DEF Due, Pending
  <2>3. QED
    BY <2>1, <2>2, CaredKept
<1>5. QED
  BY <1>1, <1>2, <1>3, <1>4 DEF GoodStep, Inv

LEMMA CmcChangesStep ==
  ASSUME Inv, NEW id \in CmcIds, CmcChanges(id)
  PROVE  GoodStep
<1>1. cmc' \in [CmcIds -> Info \cup {NoInfo}] /\ changes' \in 0..MaxChanges
  BY CoinInfoAssumption DEF CmcChanges, Inv, Typed
<1>2. Typed'
  BY <1>1 DEF CmcChanges, Inv, Typed
<1>3. QED
  BY <1>2, OutsideStep DEF CmcChanges

LEMMA BeginStep ==
  ASSUME Inv, NEW s \in Syncs, Begin(s)
  PROVE  GoodStep
<1> DEFINE y == [at |-> "create", ents |-> rows, todo |-> {m \in listed : rows[m] = NoRow},
                 told |-> <<>>, due |-> 0]
<1>1. /\ sync[s] = NoSync /\ begun < MaxSyncs /\ sync' = [sync EXCEPT ![s] = y]
      /\ begun' = begun + 1 /\ UNCHANGED <<listed, cmc, rows, bucket, queue, changes, unheard, stale>>
  BY DEF Begin
<1>2. Typed
  BY DEF Inv
<1>3. y \in Sync
  BY <1>2 DEF Sync, Typed
<1>4. SyncKnows(rows, y)
  BY DEF SyncKnows
<1> HIDE DEF y
<1>5. begun' \in 0..MaxSyncs
  BY <1>1, <1>2, CoinInfoAssumption DEF Typed
<1>6. sync' \in [Syncs -> Sync \cup {NoSync}]
  BY <1>1, <1>2, <1>3 DEF Typed
<1>7. Typed'
  BY <1>1, <1>2, <1>5, <1>6 DEF Typed
<1>8. QED
  BY <1>1, <1>3, <1>4, <1>7, QuietSyncStep

\* A sync that runs is a record.
LEMMA SyncAt ==
  ASSUME Inv, NEW s \in Syncs, sync[s].at \in {"create", "update", "enqueue"}
  PROVE  sync[s] # NoSync /\ sync[s] \in Sync /\ SyncKnows(rows, sync[s])
<1>1. sync[s] # NoSync
  BY DEF NoSync
<1>2. QED
  BY <1>1 DEF Inv, Typed

LEMMA IdsAnsweredStep ==
  ASSUME Inv, NEW s \in Syncs, IdsAnswered(s)
  PROVE  GoodStep
<1> DEFINE found == {m \in listed : sync[s].ents[m] # NoRow}
           told == [m \in found |-> cmc[sync[s].ents[m].cmc]]
           y == [sync[s] EXCEPT !.at = "update", !.todo = found, !.told = told]
<1>1. /\ sync[s].at = "create" /\ UNCHANGED <<world, rows, bucket, queue, unheard, stale>>
      /\ sync' = [sync EXCEPT ![s].at = "update", ![s].todo = found, ![s].told = told]
  BY DEF IdsAnswered
<1>2. Typed /\ sync[s] \in Sync /\ SyncKnows(rows, sync[s]) /\ sync \in [Syncs -> Sync \cup {NoSync}]
  BY <1>1, SyncAt DEF Inv, Typed
<1>3. found \subseteq Markets
  BY <1>2 DEF Typed
<1>4. told \in [found -> Info \cup {NoInfo}]
  <2>1. ASSUME NEW m \in found PROVE cmc[sync[s].ents[m].cmc] \in Info \cup {NoInfo}
    <3>1. m \in Markets /\ sync[s].ents \in Rows /\ sync[s].ents[m] # NoRow
      BY <1>2, <1>3 DEF Sync
    <3>2. sync[s].ents[m].cmc \in CmcIds
      BY <3>1, RowAt
    <3>3. QED
      BY <1>2, <3>2 DEF Typed
  <2>2. QED
    BY <2>1
<1>5. told \in Told /\ DOMAIN told = found
  BY <1>3, <1>4 DEF Told
<1>6. \A m \in found : sync[s].ents[m] # NoRow
  OBVIOUS
<1>7. sync' = [sync EXCEPT ![s] = y]
  BY <1>1, <1>2
<1> HIDE DEF found, told
<1>8. y \in Sync /\ y.at = "update" /\ y.ents = sync[s].ents /\ y.todo = found /\ y.told = told
  BY <1>2, <1>3, <1>5 DEF Sync
<1> HIDE DEF y
<1>9. SyncKnows(rows, y)
  BY <1>2, <1>5, <1>6, <1>8 DEF SyncKnows
<1>10. sync' \in [Syncs -> Sync \cup {NoSync}]
  BY <1>2, <1>7, <1>8
<1>11. Typed'
  BY <1>1, <1>2, <1>10 DEF Typed, world
<1>12. QED
  BY <1>1, <1>7, <1>8, <1>9, <1>11, QuietSyncStep

\* A sync that ends, or the failure of one that was not about to queue an icon.
LEMMA SyncEndsStep ==
  ASSUME Inv, NEW s \in Syncs, sync[s] # NoSync, sync' = [sync EXCEPT ![s] = NoSync],
         unheard' = unheard \cup (IF sync[s].at = "enqueue" THEN {sync[s].due} ELSE {}),
         UNCHANGED <<world, rows, bucket, queue, stale>>
  PROVE  GoodStep
<1>1. Typed /\ sync[s] \in Sync /\ SyncKnows(rows, sync[s]) /\ sync \in [Syncs -> Sync \cup {NoSync}]
  BY DEF Inv, Typed
<1>2. sync[s].at = "enqueue" => sync[s].due \in Markets
  BY <1>1 DEF SyncKnows
<1>3. RowsKept(rows, rows') /\ KoKept
  BY RowsStay
<1>4. /\ sync' \in [Syncs -> Sync \cup {NoSync}]
      /\ \A x \in Syncs : sync'[x] # NoSync => SyncKnows(rows', sync'[x])
  BY <1>3, SyncSet
<1>5. Typed'
  BY <1>1, <1>2, <1>4 DEF Typed, world
<1>6. \A x \in Kinds, id \in CmcIds : JobKnows(rows', x, queue'[x], id)
  BY <1>3, QueueSame
<1>7. ASSUME NEW m \in Markets PROVE Cared(m)'
  <2>1. Cared(m)
    BY DEF Inv
  <2>2. Due(m) => Due(m)' \/ m \in unheard'
    <3> HAVE Due(m)
    <3>1. PICK x \in Syncs : sync[x] # NoSync /\ sync[x].at = "enqueue" /\ sync[x].due = m
      BY DEF Due
    <3>2. CASE x = s
      BY <3>1, <3>2
    <3>3. CASE x # s
      BY <1>1, <3>1, <3>3 DEF Due
    <3>4. QED
      BY <3>2, <3>3
  <2>3. Pending(m) => Pending(m)'
    BY DEF Pending
  <2>4. QED
    BY <2>1, <2>2, <2>3, CaredKept
<1>8. QED
  BY <1>3, <1>4, <1>5, <1>6, <1>7 DEF GoodStep, Inv

LEMMA SyncDoneStep ==
  ASSUME Inv, NEW s \in Syncs, SyncDone(s) \/ SyncFails(s)
  PROVE  GoodStep
<1>1. CASE SyncDone(s)
  <2>1. sync[s].at = "update" /\ sync' = [sync EXCEPT ![s] = NoSync]
        /\ UNCHANGED <<world, rows, bucket, queue, unheard, stale>>
    BY <1>1 DEF SyncDone, Ends
  <2>2. sync[s] # NoSync
    BY <2>1 DEF NoSync
  <2>3. unheard' = unheard \cup (IF sync[s].at = "enqueue" THEN {sync[s].due} ELSE {})
    BY <2>1
  <2>4. QED
    BY <2>1, <2>2, <2>3, SyncEndsStep
<1>2. CASE SyncFails(s)
  BY <1>2, SyncEndsStep DEF SyncFails, Ends
<1>3. QED
  BY <1>1, <1>2

\* A step that adds to a queue: who waits still does, and nothing is taken.
LEMMA AddedPending ==
  ASSUME Inv, rows' = rows, NEW k \in Kinds, NEW id \in CmcIds, NEW m,
         queue' = [queue EXCEPT ![k] = Added(queue[k], id)], Pending(m)
  PROVE  Pending(m)'
<1>1. queue \in [Kinds -> Queue] /\ "icon" \in Kinds
  BY DEF Inv, Typed, Kinds
<1> DEFINE a == Added(queue[k], id)
<1>2. a.active = queue[k].active /\ queue[k].waiting \subseteq a.waiting
  BY <1>1, AddedQueue, Zenon
<1>3. queue'["icon"] = IF k = "icon" THEN a ELSE queue["icon"]
  BY <1>1
<1> HIDE DEF a
<1>4. queue["icon"].waiting \subseteq queue'["icon"].waiting
      /\ queue'["icon"].active = queue["icon"].active
  BY <1>2, <1>3
<1>5. QED
  BY <1>4 DEF Pending

LEMMA EnqueueIconStep ==
  ASSUME Inv, NEW s \in Syncs, EnqueueIcon(s)
  PROVE  GoodStep
<1> DEFINE d == sync[s].due
           i == rows[d].cmc
           q == queue["icon"]
           y == [sync[s] EXCEPT !.at = "update", !.due = 0]
           a == Added(q, i)
<1>1. /\ sync[s].at = "enqueue" /\ queue' = [queue EXCEPT !["icon"] = a]
      /\ unheard' = unheard \cup (IF Active(q, i) \/ i \in q.ended THEN {d} ELSE {})
      /\ sync' = [sync EXCEPT ![s].at = "update", ![s].due = 0]
      /\ UNCHANGED <<world, rows, bucket, stale>>
  BY DEF EnqueueIcon
<1>2. /\ Typed /\ sync[s] \in Sync /\ SyncKnows(rows, sync[s])
      /\ sync \in [Syncs -> Sync \cup {NoSync}] /\ sync[s] # NoSync
  BY <1>1, SyncAt DEF Inv, Typed
<1>3. d \in Markets /\ rows[d] # NoRow
  BY <1>1, <1>2 DEF SyncKnows
<1>4. i \in CmcIds
  BY <1>2, <1>3, RowAt DEF Typed
<1>5. "icon" \in Kinds /\ q \in Queue
  BY <1>2 DEF Kinds, Typed
<1>6. sync' = [sync EXCEPT ![s] = y]
  BY <1>1, <1>2
<1>7. y \in Sync /\ SyncKnows(rows, y)
  BY <1>1, <1>2 DEF Sync, SyncKnows
<1>8. RowsKept(rows, rows') /\ KoKept
  BY <1>1, RowsStay
<1>9. a \in Queue /\ (i \in a.waiting \/ i \in q.ended \/ q.active[i] # NoJob)
  BY <1>4, <1>5, AddedQueue, Zenon
<1>10. \A x \in CmcIds : JobKnows(rows, "icon", a, x)
  <2>1. \A x \in CmcIds : JobKnows(rows, "icon", q, x)
    BY <1>5 DEF Inv
  <2>2. QED
    BY <2>1, <1>4, <1>5, AddedKnows
<1> HIDE DEF y
<1>11. /\ sync' \in [Syncs -> Sync \cup {NoSync}]
       /\ \A x \in Syncs : sync'[x] # NoSync => SyncKnows(rows', sync'[x])
  BY <1>1, <1>6, <1>7, <1>8, SyncSet
<1>12. /\ queue' \in [Kinds -> Queue]
       /\ \A x \in Kinds, id \in CmcIds : JobKnows(rows', x, queue'[x], id)
       /\ queue'["icon"] = a
  <2> HIDE DEF a
  <2>1. QED
    BY <1>1, <1>5, <1>8, <1>9, <1>10, QueueSet
<1>13. Typed'
  BY <1>1, <1>2, <1>3, <1>11, <1>12 DEF Typed, world
<1>14. ASSUME NEW m \in Markets PROVE Cared(m)'
  <2>1. Cared(m)
    BY DEF Inv
  <2>2. Pending(m) => Pending(m)'
    BY <1>1, <1>4, <1>5, AddedPending
  <2>3. Due(m) => Due(m)' \/ Pending(m)' \/ m \in unheard'
    <3> HAVE Due(m)
    <3>1. PICK x \in Syncs : sync[x] # NoSync /\ sync[x].at = "enqueue" /\ sync[x].due = m
      BY DEF Due
    <3>2. CASE x = s
      <4>1. m = d
        BY <3>1, <3>2
      <4>2. CASE i \in a.waiting
        <5> HIDE DEF a
        <5>1. QED
          BY <4>1, <4>2, <1>1, <1>12 DEF Pending
      <4>3. CASE i \in q.ended \/ q.active[i] # NoJob
        BY <4>1, <4>3, <1>1 DEF Active
      <4>4. QED
        BY <4>2, <4>3, <1>9
    <3>3. CASE x # s
      BY <1>2, <1>6, <3>1, <3>3 DEF Due
    <3>4. QED
      BY <3>2, <3>3
  <2>4. QED
    BY <1>1, <2>1, <2>2, <2>3, CaredKept
<1>15. QED
  BY <1>8, <1>11, <1>12, <1>13, <1>14 DEF GoodStep, Inv

\* A row that is made has no logo yet.
LEMMA CreateStep ==
  ASSUME Inv, NEW s \in Syncs, NEW m \in Markets, Create(s, m)
  PROVE  GoodStep
<1>1. /\ sync[s].at = "create" /\ m \in sync[s].todo
      /\ UNCHANGED <<world, bucket, queue, unheard, stale>>
  BY DEF Create
<1>2. /\ Typed /\ sync[s] \in Sync /\ SyncKnows(rows, sync[s])
      /\ sync \in [Syncs -> Sync \cup {NoSync}] /\ sync[s] # NoSync
  BY <1>1, SyncAt DEF Inv, Typed
<1>3. ASSUME UNCHANGED rows, sync' = [sync EXCEPT ![s].todo = @ \ {m}]
      PROVE  GoodStep
  <2> DEFINE y == [sync[s] EXCEPT !.todo = @ \ {m}]
  <2>1. sync' = [sync EXCEPT ![s] = y]
    BY <1>2, <1>3
  <2>2. y \in Sync /\ SyncKnows(rows, y)
    BY <1>1, <1>2 DEF Sync, SyncKnows
  <2> HIDE DEF y
  <2>3. sync' \in [Syncs -> Sync \cup {NoSync}]
    BY <2>1, <2>2, <1>2
  <2>4. Typed'
    BY <2>3, <1>1, <1>2, <1>3 DEF Typed, world
  <2>5. QED
    BY <2>1, <2>2, <2>4, <1>1, <1>3, QuietSyncStep
<1>4. ASSUME NEW id \in CmcIds, rows[m] = NoRow, rows' = [rows EXCEPT ![m] = NewRow(id)],
             sync' = [sync EXCEPT ![s].todo = @ \ {m}, ![s].ents[m] = NewRow(id)]
      PROVE  GoodStep
  <2> DEFINE n == NewRow(id)
             y == [sync[s] EXCEPT !.todo = @ \ {m}, !.ents = [@ EXCEPT ![m] = n]]
  <2>1. n \in Row /\ n.cmc = id /\ n.logo = 0 /\ n # NoRow
    <3>1. n \in Row /\ n.cmc = id /\ n.logo = 0
      BY DEF NewRow, Row
    <3>2. QED
      BY <3>1, Missing
  <2>2. rows \in Rows /\ rows' \in Rows /\ rows'[m] = n /\ \A x \in Markets \ {m} : rows'[x] = rows[x]
    <3> HIDE DEF n
    <3>1. rows' = [rows EXCEPT ![m] = n]
      BY <1>4 DEF n
    <3>2. QED
      BY <3>1, <2>1, <1>2 DEF Typed, Rows
  <2>3. sync' = [sync EXCEPT ![s] = y]
    BY <1>2, <1>4
  <2> HIDE DEF n
  <2>4. RowsKept(rows, rows') /\ KoKept
    BY <2>2, <1>4 DEF RowsKept, KoKept
  <2>5. y \in Sync /\ SyncKnows(rows', y)
    <3>1. y \in Sync /\ y.at = "create" /\ y.ents = [sync[s].ents EXCEPT ![m] = n]
      BY <1>1, <1>2, <2>1 DEF Sync, Rows
    <3> HIDE DEF y
    <3>2. ASSUME NEW x \in Markets, y.ents[x] # NoRow
          PROVE  rows'[x] # NoRow /\ rows'[x].cmc = y.ents[x].cmc
      <4>1. sync[s].ents \in Rows
        BY <1>2 DEF Sync
      <4>2. CASE x = m
        BY <4>1, <4>2, <3>1, <2>1, <2>2 DEF Rows
      <4>3. CASE x # m
        <5>1. y.ents[x] = sync[s].ents[x]
          BY <4>1, <4>3, <3>1 DEF Rows
        <5>2. QED
          BY <5>1, <4>3, <3>2, <2>2, <1>2 DEF SyncKnows
      <4>4. QED
        BY <4>2, <4>3
    <3>3. QED
      BY <3>1, <3>2 DEF SyncKnows
  <2> HIDE DEF y
  <2>6. /\ sync' \in [Syncs -> Sync \cup {NoSync}]
        /\ \A x \in Syncs : sync'[x] # NoSync => SyncKnows(rows', sync'[x])
    BY <2>3, <2>4, <2>5, SyncSet
  <2>7. \A x \in Kinds, i \in CmcIds : JobKnows(rows', x, queue'[x], i)
    BY <1>1, <2>4, QueueSame
  <2>8. Typed'
    BY <1>1, <1>2, <2>2, <2>6 DEF Typed, world
  <2>9. ASSUME NEW x \in Markets PROVE Cared(x)'
    <3>1. CASE x = m
      BY <3>1, <2>1, <2>2 DEF Cared
    <3>2. CASE x # m
      <4>1. Cared(x) /\ rows'[x] = rows[x]
        BY <3>2, <2>2 DEF Inv
      <4>2. Due(x) => Due(x)'
        BY <1>1, <2>3, DueKept
      <4>3. Pending(x) => Pending(x)'
        BY <1>1, <4>1 DEF Pending
      <4>4. QED
        BY <1>1, <4>1, <4>2, <4>3, CaredKept
    <3>3. QED
      BY <3>1, <3>2
  <2>10. QED
    BY <1>1, <2>4, <2>6, <2>7, <2>8, <2>9 DEF GoodStep, Inv
<1>5. QED
  BY <1>3, <1>4 DEF Create, CmcIdFor

\* What a sync saves of a market: the row keeps its id and translation unless
\* the entity was old; an icon that no longer is the logo's is queued.
LEMMA UpdateStep ==
  ASSUME Inv, NEW s \in Syncs, NEW m \in Markets, Update(s, m)
  PROVE  GoodStep
<1> DEFINE ent  == sync[s].ents[m]
           info == sync[s].told[m]
           next == [sync[s] EXCEPT !.todo = @ \ {m}, !.ents[m] = NoRow, !.told[m] = NoInfo]
           queues == info # NoInfo /\ NeedsIcon(ent, info)
           y == IF queues THEN [next EXCEPT !.at = "enqueue", !.due = m] ELSE next
           new == [ent EXCEPT !.logo = info.logo, !.en = info.en]
<1>1. /\ sync[s].at = "update" /\ m \in sync[s].todo
      /\ IF info = NoInfo THEN UNCHANGED <<rows, stale>> ELSE Save(m, ent, new)
      /\ sync' = [sync EXCEPT ![s] = y]
      /\ UNCHANGED <<world, bucket, queue, unheard>>
  BY DEF Update
<1>2. /\ Typed /\ sync[s] \in Sync /\ SyncKnows(rows, sync[s])
      /\ sync \in [Syncs -> Sync \cup {NoSync}] /\ sync[s] # NoSync
  BY <1>1, SyncAt DEF Inv, Typed
<1>3. rows \in Rows /\ sync[s].ents \in Rows /\ sync[s].told \in Told /\ m \in DOMAIN sync[s].told
  BY <1>1, <1>2 DEF Typed, Sync, SyncKnows
<1>4. ent # NoRow /\ rows[m] # NoRow /\ rows[m].cmc = ent.cmc
  BY <1>1, <1>2 DEF SyncKnows
<1>5. ent \in Row /\ info \in Info \cup {NoInfo}
  BY <1>3, <1>4 DEF Rows, Told
<1>6. info # NoInfo => /\ new \in Row /\ new.cmc = ent.cmc /\ new.logo = info.logo
                       /\ new.icon = ent.icon /\ new.ko = ent.ko
  BY <1>5 DEF Info, Row
<1>7. next \in Sync /\ next.at = "update" /\ next.todo = sync[s].todo \ {m}
      /\ next.ents = [sync[s].ents EXCEPT ![m] = NoRow] /\ DOMAIN next.told = DOMAIN sync[s].told
      /\ next.told \in Told
  <2>1. [sync[s].ents EXCEPT ![m] = NoRow] \in Rows
    BY <1>3 DEF Rows
  <2>2. [sync[s].told EXCEPT ![m] = NoInfo] \in Told
    BY <1>3 DEF Told
  <2>3. QED
    BY <1>1, <1>2, <2>1, <2>2 DEF Sync
<1> HIDE DEF next
<1>8. /\ y \in Sync /\ y.todo = next.todo /\ y.ents = next.ents /\ y.told = next.told
      /\ y.at = (IF queues THEN "enqueue" ELSE "update") /\ (queues => y.due = m)
  BY <1>7 DEF Sync
<1>9. RowsKept(rows, rows') /\ rows' \in Rows /\ \A x \in Markets \ {m} : rows'[x] = rows[x]
  <2> HIDE DEF new, info, ent
  <2>1. QED
    BY <1>1, <1>3, <1>4, <1>6, Missing DEF Save, RowsKept, Rows
<1>10. KoKept
  <2> HIDE DEF new, info, ent
  <2>1. QED
    BY <1>1, <1>3, <1>6, <1>9 DEF Save, KoKept, Rows
<1> HIDE DEF y
<1>11. SyncKnows(rows', y)
  <2>1. ASSUME NEW x \in Markets, y.ents[x] # NoRow
        PROVE  rows'[x] # NoRow /\ rows'[x].cmc = y.ents[x].cmc
    <3>1. x # m /\ y.ents[x] = sync[s].ents[x]
      BY <1>3, <1>7, <1>8, <2>1 DEF Rows
    <3>2. QED
      BY <2>1, <3>1, <1>2, <1>9 DEF SyncKnows
  <2>2. ASSUME NEW x \in y.todo PROVE y.ents[x] # NoRow /\ x \in DOMAIN y.told
    <3>1. x # m /\ x \in sync[s].todo /\ x \in Markets
      BY <1>2, <1>7, <1>8 DEF Sync
    <3>2. QED
      BY <3>1, <1>1, <1>2, <1>3, <1>7, <1>8 DEF SyncKnows, Rows
  <2>3. y.at = "enqueue" => y.due \in Markets /\ rows'[y.due] # NoRow
    BY <1>4, <1>8, <1>9 DEF RowsKept
  <2>4. QED
    BY <2>1, <2>2, <2>3, <1>7, <1>8 DEF SyncKnows
<1>12. /\ sync' \in [Syncs -> Sync \cup {NoSync}]
       /\ \A x \in Syncs : sync'[x] # NoSync => SyncKnows(rows', sync'[x])
  BY <1>1, <1>8, <1>9, <1>11, SyncSet
<1>13. \A x \in Kinds, i \in CmcIds : JobKnows(rows', x, queue'[x], i)
  BY <1>1, <1>9, QueueSame
<1>14. Typed'
  <2>1. stale' \subseteq Markets
    BY <1>1, <1>2 DEF Typed, Save
  <2>2. QED
    BY <2>1, <1>1, <1>2, <1>9, <1>12 DEF Typed, world
<1>15. ASSUME NEW x \in Markets PROVE Cared(x)'
  <2>1. Cared(x)
    BY DEF Inv
  <2>2. Due(x) => Due(x)'
    BY <1>1, DueKept
  <2>3. rows'[x].cmc = rows[x].cmc => (Pending(x) => Pending(x)')
    BY <1>1 DEF Pending
  <2>4. stale \subseteq stale'
    BY <1>1 DEF Save
  <2>5. CASE rows'[x] = rows[x]
    BY <1>1, <2>1, <2>2, <2>3, <2>4, <2>5, CaredKept
  <2>6. CASE rows'[x] # rows[x]
    <3>1. x = m /\ info # NoInfo /\ Save(m, ent, new)
      BY <1>1, <1>9, <2>6
    <3>2. CASE rows[m] # ent
      BY <3>1, <3>2 DEF Cared, Save
    <3>3. CASE rows[m] = ent /\ queues
      <4>1. sync'[s] = y
        BY <1>1, <1>2
      <4>2. Due(m)'
        BY <4>1, <1>8, <1>12, <3>3, Missing DEF Due
      <4>3. QED
        BY <4>2, <3>1 DEF Cared
    <3>4. CASE rows[m] = ent /\ ~queues
      <4>1. rows'[m] = new
        <5> HIDE DEF new, ent
        <5>1. QED
          BY <1>3, <3>1 DEF Save, Rows
      <4>2. new.logo = info.logo /\ new.icon = ent.icon /\ new.cmc = ent.cmc
        BY <1>6, <3>1
      <4>3. info.logo = 0 \/ (info.logo = ent.logo /\ ent.icon)
        BY <3>1, <3>4 DEF NeedsIcon
      <4> HIDE DEF new, info, queues
      <4>4. CASE info.logo = 0
        BY <4>1, <4>2, <4>4, <3>1 DEF Cared
      <4>5. CASE info.logo = ent.logo /\ ent.icon
        BY <4>1, <4>2, <4>5, <3>1, <3>4, <2>1, <2>2, <2>3, <2>4, <1>1, <1>4 DEF Cared, Good
      <4>6. QED
        BY <4>3, <4>4, <4>5
    <3>5. QED
      BY <3>2, <3>3, <3>4
  <2>7. QED
    BY <2>5, <2>6
<1>16. QED
  BY <1>9, <1>10, <1>12, <1>13, <1>14, <1>15 DEF GoodStep, Inv

-----------------------------------------------------------------------------
(* The workers                                                              *)

\* A step of one queue, which no sync takes part in.
LEMMA QueueStep ==
  ASSUME Inv, UNCHANGED <<world, sync>>, RowsKept(rows, rows'), KoKept, rows' \in Rows,
         bucket' \in [Markets -> Logos \cup {0}], unheard' \subseteq Markets,
         stale' \subseteq Markets, NEW k \in Kinds, NEW q \in Queue,
         queue' = [queue EXCEPT ![k] = q], \A id \in CmcIds : JobKnows(rows', k, q, id),
         \A m \in Markets : Cared(m)'
  PROVE  GoodStep
<1>1. \A x \in Syncs : sync'[x] # NoSync => SyncKnows(rows', sync'[x])
  BY SyncSame
<1>2. /\ queue' \in [Kinds -> Queue]
      /\ \A x \in Kinds, id \in CmcIds : JobKnows(rows', x, queue'[x], id)
  BY QueueSet
<1>3. Typed'
  BY <1>2 DEF Inv, Typed, world
<1>4. QED
  BY <1>1, <1>2, <1>3 DEF GoodStep, Inv

\* A step of a queue that waits for what it waited for, and has the jobs it had.
LEMMA IdleQueueStep ==
  ASSUME Inv, UNCHANGED <<world, rows, bucket, sync, unheard, stale>>,
         NEW k \in Kinds, NEW q \in Queue, queue' = [queue EXCEPT ![k] = q],
         \A id \in CmcIds : JobKnows(rows, k, q, id),
         k = "icon" => queue["icon"].waiting \subseteq q.waiting /\ q.active = queue["icon"].active
  PROVE  GoodStep
<1>1. RowsKept(rows, rows') /\ KoKept
  BY RowsStay
<1>2. Typed /\ queue \in [Kinds -> Queue] /\ "icon" \in Kinds
  BY DEF Inv, Typed, Kinds
<1>3. queue'["icon"] = IF k = "icon" THEN q ELSE queue["icon"]
  BY <1>2
<1>4. ASSUME NEW m \in Markets PROVE Cared(m)'
  <2>1. Cared(m)
    BY DEF Inv
  <2>2. Due(m) => Due(m)'
    BY DEF Due
  <2>3. Pending(m) => Pending(m)'
    BY <1>3 DEF Pending
  <2>4. QED
    BY <2>1, <2>2, <2>3, CaredKept
<1>5. QED
  BY <1>1, <1>2, <1>4, QueueStep DEF Typed

LEMMA QueueAt ==
  ASSUME Inv, NEW k \in Kinds
  PROVE  queue[k] \in Queue /\ \A id \in CmcIds : JobKnows(rows, k, queue[k], id)
BY DEF Inv, Typed

LEMMA QueueTranslateStep ==
  ASSUME Inv, NEW id \in CmcIds, QueueTranslate(id)
  PROVE  GoodStep
<1> DEFINE a == Added(queue["translate"], id)
<1>1. "translate" \in Kinds /\ "translate" # "icon"
  BY DEF Kinds
<1>2. a \in Queue
  BY <1>1, QueueAt, AddedQueue, Zenon
<1>3. \A x \in CmcIds : JobKnows(rows, "translate", a, x)
  BY <1>1, QueueAt, AddedKnows
<1>4. queue' = [queue EXCEPT !["translate"] = a]
      /\ UNCHANGED <<world, rows, bucket, sync, unheard, stale>>
  BY DEF QueueTranslate
<1> HIDE DEF a
<1>5. QED
  BY <1>1, <1>2, <1>3, <1>4, IdleQueueStep

LEMMA ForgetStep ==
  ASSUME Inv, NEW k \in Kinds, NEW id \in CmcIds, Forget(k, id)
  PROVE  GoodStep
<1> DEFINE q == [queue[k] EXCEPT !.ended = @ \ {id}]
<1>1. queue[k] \in Queue /\ \A x \in CmcIds : JobKnows(rows, k, queue[k], x)
  BY QueueAt
<1>2. q \in Queue /\ q.waiting = queue[k].waiting /\ q.active = queue[k].active
  BY <1>1 DEF Queue
<1>3. queue' = [queue EXCEPT ![k] = q] /\ UNCHANGED <<world, rows, bucket, sync, unheard, stale>>
  BY DEF Forget
<1> HIDE DEF q
<1>4. \A x \in CmcIds : JobKnows(rows, k, q, x)
  BY <1>1, <1>2 DEF JobKnows
<1>5. QED
  BY <1>2, <1>3, <1>4, IdleQueueStep

\* The icon queue after a job is skipped, ended or tried again.
LEMMA IconQueueAfter ==
  ASSUME Inv, NEW id \in CmcIds, NEW q,
         q = Ended(queue["icon"], id) \/ q = Retried(queue["icon"], id),
         queue' = [queue EXCEPT !["icon"] = q]
  PROVE  /\ q \in Queue /\ "icon" \in Kinds
         /\ \A x \in CmcIds : JobKnows(rows, "icon", q, x)
         /\ queue["icon"].waiting \ {id} \subseteq queue'["icon"].waiting
         /\ q = Retried(queue["icon"], id) => id \in queue'["icon"].waiting
         /\ \A x \in CmcIds \ {id} : queue'["icon"].active[x] = queue["icon"].active[x]
<1>1. "icon" \in Kinds /\ queue \in [Kinds -> Queue]
  BY DEF Inv, Typed, Kinds
<1>2. queue["icon"] \in Queue /\ \A x \in CmcIds : JobKnows(rows, "icon", queue["icon"], x)
  BY <1>1, QueueAt
<1>3. q \in Queue /\ \A x \in CmcIds : JobKnows(rows, "icon", q, x)
  <2>1. Ended(queue["icon"], id) \in Queue /\ Retried(queue["icon"], id) \in Queue
    BY <1>2, EndedQueue, RetriedQueue, Zenon
  <2>2. QED
    BY <2>1, <1>2, EndedKnows
<1>4. queue'["icon"] = q
  BY <1>1
<1>5. /\ queue["icon"].waiting \ {id} \subseteq q.waiting
      /\ q.active = [queue["icon"].active EXCEPT ![id] = NoJob]
      /\ q = Retried(queue["icon"], id) => id \in q.waiting
  <2>1. CASE q = Ended(queue["icon"], id)
    <3>1. q.waiting = queue["icon"].waiting \ {id}
          /\ q.active = [queue["icon"].active EXCEPT ![id] = NoJob]
      BY <1>2, <2>1, EndedQueue, Zenon
    <3>2. q = Retried(queue["icon"], id) => id \in q.waiting
      <4>1. Retried(queue["icon"], id).waiting = queue["icon"].waiting \cup {id}
        BY <1>2, RetriedQueue, Zenon
      <4>2. QED
        BY <4>1
    <3>3. QED
      BY <3>1, <3>2
  <2>2. CASE q = Retried(queue["icon"], id)
    <3>1. q.waiting = queue["icon"].waiting \cup {id}
          /\ q.active = [queue["icon"].active EXCEPT ![id] = NoJob]
      BY <1>2, <2>2, RetriedQueue, Zenon
    <3>2. QED
      BY <3>1
  <2>3. QED
    BY <2>1, <2>2
<1>6. QED
  BY <1>1, <1>2, <1>3, <1>4, <1>5 DEF Queue

\* Jobs skipped of coins that are not there, or that have no logo.
LEMMA NoCoinStep ==
  ASSUME Inv, NEW k \in Kinds, NEW id \in CmcIds, NoCoin(k, id)
  PROVE  GoodStep
<1> DEFINE q == Ended(queue[k], id)
<1>1. /\ id \in queue[k].waiting /\ RowsOf(id) = {} /\ queue' = [queue EXCEPT ![k] = q]
      /\ UNCHANGED <<world, rows, bucket, sync, unheard, stale>>
  BY DEF NoCoin, Skip
<1>2. queue[k] \in Queue /\ \A x \in CmcIds : JobKnows(rows, k, queue[k], x)
  BY QueueAt
<1>3. q \in Queue /\ \A x \in CmcIds : JobKnows(rows, k, q, x)
  BY <1>2, EndedQueue, EndedKnows
<1>4. RowsKept(rows, rows') /\ KoKept
  BY <1>1, RowsStay
<1>5. Typed /\ queue \in [Kinds -> Queue] /\ "icon" \in Kinds
  BY DEF Inv, Typed, Kinds
<1> HIDE DEF q
<1>6. ASSUME NEW m \in Markets PROVE Cared(m)'
  <2>1. Cared(m)
    BY DEF Inv
  <2>2. Due(m) => Due(m)'
    BY <1>1 DEF Due
  <2>3. ASSUME rows[m] # NoRow, Pending(m) PROVE Pending(m)'
    <3>1. CASE k = "icon"
      <4>1. /\ queue["icon"].waiting \ {id} \subseteq queue'["icon"].waiting
            /\ \A x \in CmcIds \ {id} : queue'["icon"].active[x] = queue["icon"].active[x]
        BY <1>1, <3>1, IconQueueAfter DEF q
      <4>2. queue["icon"].active[id] = NoJob
        BY <1>1, <1>2, <3>1 DEF JobKnows
      <4>3. rows[m].cmc # id
        BY <1>1, <2>3 DEF RowsOf
      <4>4. QED
        BY <4>1, <4>2, <4>3, <2>3, <1>1 DEF Pending
    <3>2. CASE k # "icon"
      <4>1. queue'["icon"] = queue["icon"]
        BY <1>1, <1>5, <3>2
      <4>2. QED
        BY <4>1, <2>3, <1>1 DEF Pending
    <3>3. QED
      BY <3>1, <3>2
  <2>4. QED
    BY <1>1, <2>1, <2>2, <2>3, CaredKept
<1>7. QED
  BY <1>1, <1>3, <1>4, <1>5, <1>6, QueueStep DEF Typed

Taken(q, id, m) ==
  [q EXCEPT !.waiting = @ \ {id}, !.active[id] = [market |-> m, row |-> rows[m]]]

\* A job that is taken: it leaves the queue with the row as it is.
LEMMA TakenQueue ==
  ASSUME Inv, NEW k \in Kinds, NEW id \in CmcIds, NEW m \in Markets, Found(k, id, m),
         NEW q, q = Taken(queue[k], id, m),
         k = "translate" => rows[m].ko = 0
  PROVE  /\ q \in Queue /\ \A x \in CmcIds : JobKnows(rows, k, q, x)
         /\ q.waiting = queue[k].waiting \ {id} /\ q.active[id] # NoJob
         /\ q.active[id].market = m
         /\ \A x \in CmcIds \ {id} : q.active[x] = queue[k].active[x]
<1> DEFINE job == [market |-> m, row |-> rows[m]]
<1>1. queue[k] \in Queue /\ \A x \in CmcIds : JobKnows(rows, k, queue[k], x)
  BY QueueAt
<1>2. rows[m] # NoRow /\ rows[m].cmc = id
  BY DEF Found, RowsOf
<1>3. rows[m] \in Row
  BY <1>2, RowAt DEF Inv, Typed
<1>4. job \in Job /\ job # NoJob /\ job.market = m /\ job.row = rows[m]
  <2>1. job \in Job /\ job.market = m /\ job.row = rows[m]
    BY <1>3 DEF Job
  <2>2. QED
    BY <2>1, Missing
<1>5. q = [queue[k] EXCEPT !.waiting = @ \ {id}, !.active[id] = job]
  BY DEF Taken
<1> DEFINE active == [queue[k].active EXCEPT ![id] = job]
           waiting == queue[k].waiting \ {id}
<1> HIDE DEF job
<1>6. active \in [CmcIds -> Job \cup {NoJob}] /\ waiting \subseteq CmcIds
  BY <1>1, <1>4 DEF Queue
<1>7. /\ active[id] = job /\ \A x \in CmcIds \ {id} : active[x] = queue[k].active[x]
  BY <1>1 DEF Queue
<1>8. q = [queue[k] EXCEPT !.waiting = waiting, !.active = active]
  BY <1>5, <1>1 DEF Queue
<1> HIDE DEF active
<1>9. q = [waiting |-> waiting, ended |-> queue[k].ended, active |-> active]
  BY <1>8, <1>1 DEF Queue
<1>10. /\ q \in Queue /\ q.waiting = queue[k].waiting \ {id} /\ q.active[id] = job
      /\ \A x \in CmcIds \ {id} : q.active[x] = queue[k].active[x]
  BY <1>1, <1>6, <1>7, <1>9 DEF Queue
<1>11. ASSUME NEW x \in CmcIds PROVE JobKnows(rows, k, q, x)
  <2>1. CASE x = id
    BY <2>1, <1>2, <1>4, <1>10 DEF JobKnows
  <2>2. CASE x # id
    BY <2>2, <1>1, <1>10 DEF JobKnows
  <2>3. QED
    BY <2>1, <2>2
<1>12. QED
  BY <1>4, <1>10, <1>11

LEMMA TakeTranslationStep ==
  ASSUME Inv, NEW id \in CmcIds, NEW m \in Markets, TakeTranslation(id, m)
  PROVE  GoodStep
<1>1. Found("translate", id, m) /\ UNCHANGED <<world, rows, bucket, sync, unheard, stale>>
  BY DEF TakeTranslation
<1>2. "translate" \in Kinds /\ "translate" # "icon" /\ queue \in [Kinds -> Queue]
  BY DEF Kinds, Inv, Typed
<1>3. CASE Translatable(rows[m]) /\ Take("translate", id, m)
  <2> DEFINE q == Taken(queue["translate"], id, m)
  <2>1. queue' = [queue EXCEPT !["translate"] = q]
    BY <1>2, <1>3 DEF Take, Taken
  <2>2. rows[m].ko = 0
    BY <1>3 DEF Translatable
  <2> HIDE DEF q
  <2>3. q \in Queue /\ \A x \in CmcIds : JobKnows(rows, "translate", q, x)
    BY <1>1, <1>2, <2>2, TakenQueue DEF q
  <2>4. QED
    BY <1>1, <1>2, <2>1, <2>3, IdleQueueStep
<1>4. CASE Skip("translate", id)
  <2> DEFINE q == Ended(queue["translate"], id)
  <2>1. queue' = [queue EXCEPT !["translate"] = q]
    BY <1>4 DEF Skip
  <2>2. q \in Queue /\ \A x \in CmcIds : JobKnows(rows, "translate", q, x)
    BY <1>2, QueueAt, EndedQueue, EndedKnows
  <2> HIDE DEF q
  <2>3. QED
    BY <1>1, <1>2, <2>1, <2>2, IdleQueueStep
<1>5. QED
  BY <1>3, <1>4 DEF TakeTranslation

\* The market whose row the icon worker finds is the one its job is about; the
\* others of the id go into the history.
LEMMA TakeIconStep ==
  ASSUME Inv, NEW id \in CmcIds, NEW m \in Markets, TakeIcon(id, m)
  PROVE  GoodStep
<1>1. /\ Found("icon", id, m) /\ unheard' = unheard \cup (RowsOf(id) \ {m})
      /\ UNCHANGED <<world, rows, bucket, sync, stale>>
  BY DEF TakeIcon
<1>2. "icon" \in Kinds /\ queue \in [Kinds -> Queue] /\ Typed
  BY DEF Kinds, Inv, Typed
<1>3. queue["icon"] \in Queue /\ \A x \in CmcIds : JobKnows(rows, "icon", queue["icon"], x)
  BY <1>2, QueueAt
<1>4. queue["icon"].active[id] = NoJob
  BY <1>1, <1>3 DEF Found, JobKnows
<1>5. RowsKept(rows, rows') /\ KoKept
  BY <1>1, RowsStay
<1>6. unheard' \subseteq Markets
  BY <1>1, <1>2 DEF Typed, RowsOf
<1>7. ASSUME NEW q \in Queue, queue' = [queue EXCEPT !["icon"] = q],
             \A x \in CmcIds : JobKnows(rows, "icon", q, x),
             queue["icon"].waiting \ {id} \subseteq q.waiting,
             \A x \in CmcIds \ {id} : q.active[x] = queue["icon"].active[x],
             rows[m].logo = 0 \/ (q.active[id] # NoJob /\ q.active[id].market = m)
      PROVE  GoodStep
  <2>1. queue'["icon"] = q
    BY <1>2, <1>7
  <2>2. ASSUME NEW x \in Markets PROVE Cared(x)'
    <3>1. Cared(x)
      BY DEF Inv
    <3>2. Due(x) => Due(x)'
      BY <1>1 DEF Due
    <3>3. CASE x = m
      <4>1. CASE rows[m].logo = 0
        BY <4>1, <3>3, <1>1 DEF Cared
      <4>2. CASE q.active[id] # NoJob /\ q.active[id].market = m
        <5>1. Pending(m)'
          BY <4>2, <2>1 DEF Pending
        <5>2. QED
          BY <5>1, <3>3 DEF Cared
      <4>3. QED
        BY <4>1, <4>2, <1>7
    <3>4. CASE x # m
      <4>1. rows[x] # NoRow => (Pending(x) => Pending(x)' \/ x \in unheard')
        <5>1. CASE rows[x] # NoRow /\ rows[x].cmc = id
          BY <5>1, <3>4, <1>1 DEF RowsOf
        <5>2. CASE rows[x].cmc # id
          BY <5>2, <1>1, <1>4, <1>7, <2>1 DEF Pending
        <5>3. QED
          BY <5>1, <5>2
      <4>2. QED
        BY <1>1, <3>1, <3>2, <4>1, CaredKept
    <3>5. QED
      BY <3>3, <3>4
  <2>3. QED
    BY <1>1, <1>2, <1>5, <1>6, <1>7, <2>2, QueueStep DEF Typed
<1>8. CASE rows[m].logo = 0
  <2> DEFINE q == Ended(queue["icon"], id)
  <2>1. queue' = [queue EXCEPT !["icon"] = q]
    BY <1>8 DEF TakeIcon, Skip
  <2> HIDE DEF q
  <2>2. /\ q \in Queue /\ \A x \in CmcIds : JobKnows(rows, "icon", q, x)
        /\ queue["icon"].waiting \ {id} \subseteq queue'["icon"].waiting
        /\ \A x \in CmcIds \ {id} : queue'["icon"].active[x] = queue["icon"].active[x]
    BY <2>1, IconQueueAfter DEF q
  <2>3. queue'["icon"] = q
    BY <1>2, <2>1
  <2>4. QED
    BY <2>1, <2>2, <2>3, <1>7, <1>8
<1>9. CASE rows[m].logo # 0
  <2> DEFINE q == Taken(queue["icon"], id, m)
  <2>1. queue' = [queue EXCEPT !["icon"] = q]
    BY <1>2, <1>9 DEF TakeIcon, Take, Taken
  <2> HIDE DEF q
  <2>2. /\ q \in Queue /\ \A x \in CmcIds : JobKnows(rows, "icon", q, x)
        /\ q.waiting = queue["icon"].waiting \ {id} /\ q.active[id] # NoJob
        /\ q.active[id].market = m
        /\ \A x \in CmcIds \ {id} : q.active[x] = queue["icon"].active[x]
    BY <1>1, <1>2, TakenQueue DEF q
  <2>3. QED
    BY <2>1, <2>2, <1>7
<1>10. QED
  BY <1>8, <1>9

\* What a job in progress is about.
LEMMA JobAbout ==
  ASSUME Inv, NEW k \in Kinds, NEW id \in CmcIds, queue[k].active[id] # NoJob
  PROVE  /\ queue[k].active[id] \in Job
         /\ queue[k].active[id].market \in Markets /\ queue[k].active[id].row \in Row
         /\ rows[queue[k].active[id].market] # NoRow
         /\ rows[queue[k].active[id].market].cmc = id /\ queue[k].active[id].row.cmc = id
         /\ id \notin queue[k].waiting
         /\ k = "translate" => queue[k].active[id].row.ko = 0
<1>1. queue[k] \in Queue /\ JobKnows(rows, k, queue[k], id)
  BY QueueAt
<1>2. QED
  BY <1>1, JobAt DEF JobKnows

\* The icon job of a market ends, or goes back: the others' stay as they are.
LEMMA OthersPending ==
  ASSUME Inv, NEW id \in CmcIds, queue["icon"].active[id] # NoJob,
         queue' = [queue EXCEPT !["icon"] = Ended(queue["icon"], id)]
           \/ queue' = [queue EXCEPT !["icon"] = Retried(queue["icon"], id)],
         NEW x \in Markets, x # queue["icon"].active[id].market, rows'[x] = rows[x], Pending(x)
  PROVE  Pending(x)'
<1>1. /\ queue["icon"].waiting \ {id} \subseteq queue'["icon"].waiting
      /\ \A y \in CmcIds \ {id} : queue'["icon"].active[y] = queue["icon"].active[y]
  BY IconQueueAfter
<1>2. id \notin queue["icon"].waiting
  BY JobAbout DEF Kinds
<1>3. QED
  BY <1>1, <1>2 DEF Pending

LEMMA SaveIconStep ==
  ASSUME Inv, NEW id \in CmcIds, SaveIcon(id)
  PROVE  GoodStep
<1> DEFINE job == queue["icon"].active[id]
           m == job.market
           n == [job.row EXCEPT !.icon = TRUE]
           q == Ended(queue["icon"], id)
<1>1. /\ job # NoJob /\ bucket' = [bucket EXCEPT ![m] = job.row.logo]
      /\ rows' = [rows EXCEPT ![m] = n]
      /\ stale' = IF rows[m] = job.row THEN stale \ {m} ELSE stale \cup {m}
      /\ queue' = [queue EXCEPT !["icon"] = q] /\ unheard' = unheard \ {m}
      /\ UNCHANGED <<world, sync>>
  BY DEF SaveIcon, Uploaded
<1>2. /\ Typed /\ "icon" \in Kinds /\ rows \in Rows /\ bucket \in [Markets -> Logos \cup {0}]
  BY DEF Inv, Typed, Kinds
<1>3. m \in Markets /\ job.row \in Row /\ rows[m] # NoRow /\ rows[m].cmc = id /\ job.row.cmc = id
  BY <1>1, <1>2, JobAbout
<1>4. /\ n \in Row /\ n.cmc = id /\ n.logo = job.row.logo /\ n.ko = job.row.ko /\ n.icon
  BY <1>3 DEF Row
<1> HIDE DEF q, n
<1>5. q \in Queue /\ \A x \in CmcIds : JobKnows(rows, "icon", q, x)
  BY <1>1, IconQueueAfter DEF q
<1> HIDE DEF job
<1>6. /\ rows' \in Rows /\ rows'[m] = n /\ \A x \in Markets \ {m} : rows'[x] = rows[x]
      /\ bucket' \in [Markets -> Logos \cup {0}] /\ bucket'[m] = job.row.logo
      /\ \A x \in Markets \ {m} : bucket'[x] = bucket[x]
  BY <1>1, <1>2, <1>3, <1>4 DEF Rows, Row
<1>7. RowsKept(rows, rows') /\ KoKept
  BY <1>1, <1>3, <1>4, <1>6, Missing DEF RowsKept, KoKept
<1>8. \A x \in CmcIds : JobKnows(rows', "icon", q, x)
  BY <1>5, <1>7, JobKnowsKept
<1>9. unheard' \subseteq Markets /\ stale' \subseteq Markets
  BY <1>1, <1>2, <1>3 DEF Typed
<1>10. ASSUME NEW x \in Markets PROVE Cared(x)'
  <2>1. CASE x = m
    <3>1. CASE rows[m] = job.row
      BY <2>1, <1>4, <1>6 DEF Cared, Good
    <3>2. CASE rows[m] # job.row
      BY <2>1, <3>2, <1>1 DEF Cared
    <3>3. QED
      BY <3>1, <3>2
  <2>2. CASE x # m
    <3>1. Cared(x) /\ rows'[x] = rows[x] /\ bucket'[x] = bucket[x]
      BY <2>2, <1>6 DEF Inv
    <3>2. Due(x) => Due(x)'
      BY <1>1 DEF Due
    <3>3. Pending(x) => Pending(x)'
      BY <1>1, <2>2, <3>1, OthersPending DEF q, job
    <3>4. x \in unheard \cup stale => x \in unheard' \cup stale'
      BY <1>1, <2>2
    <3>5. QED
      BY <3>1, <3>2, <3>3, <3>4, CaredKept
  <2>3. QED
    BY <2>1, <2>2
<1>11. QED
  BY <1>1, <1>2, <1>5, <1>6, <1>7, <1>8, <1>9, <1>10, QueueStep

\* A translation is saved over none.
LEMMA SaveTranslationStep ==
  ASSUME Inv, NEW id \in CmcIds, SaveTranslation(id)
  PROVE  GoodStep
<1> DEFINE job == queue["translate"].active[id]
           m == job.market
           q == Ended(queue["translate"], id)
<1>1. /\ job # NoJob /\ queue' = [queue EXCEPT !["translate"] = q]
      /\ UNCHANGED <<world, bucket, sync, unheard>>
  BY DEF SaveTranslation
<1>2. /\ Typed /\ "translate" \in Kinds /\ "translate" # "icon" /\ rows \in Rows
      /\ queue \in [Kinds -> Queue] /\ "icon" \in Kinds
  BY DEF Inv, Typed, Kinds
<1>3. /\ m \in Markets /\ job.row \in Row /\ rows[m] # NoRow /\ rows[m].cmc = id
      /\ job.row.cmc = id /\ job.row.ko = 0
  BY <1>1, <1>2, JobAbout
<1>4. PICK ko \in {0, job.row.en} : Save(m, job.row, [job.row EXCEPT !.ko = ko])
  BY DEF SaveTranslation
<1> DEFINE n == [job.row EXCEPT !.ko = ko]
<1>5. n \in Row /\ n.cmc = id /\ n.logo = job.row.logo /\ n.icon = job.row.icon
  BY <1>3, <1>4 DEF Row
<1>6. q \in Queue /\ \A x \in CmcIds : JobKnows(rows, "translate", q, x)
  BY <1>2, QueueAt, EndedQueue, EndedKnows
<1> HIDE DEF q, n, job
<1>7. /\ rows' = [rows EXCEPT ![m] = n]
      /\ stale' = IF rows[m] = job.row THEN stale ELSE stale \cup {m}
  BY <1>4 DEF Save, n
<1>8. rows' \in Rows /\ rows'[m] = n /\ \A x \in Markets \ {m} : rows'[x] = rows[x]
  BY <1>2, <1>3, <1>5, <1>7 DEF Rows
<1>9. RowsKept(rows, rows') /\ KoKept
  BY <1>3, <1>5, <1>7, <1>8, Missing DEF RowsKept, KoKept
<1>10. \A x \in CmcIds : JobKnows(rows', "translate", q, x)
  BY <1>6, <1>9, JobKnowsKept
<1>11. stale' \subseteq Markets /\ unheard' \subseteq Markets
  BY <1>1, <1>2, <1>3, <1>7 DEF Typed
<1>12. queue'["icon"] = queue["icon"]
  BY <1>1, <1>2
<1>13. ASSUME NEW x \in Markets PROVE Cared(x)'
  <2>1. Cared(x)
    BY DEF Inv
  <2>2. Due(x) => Due(x)'
    BY <1>1 DEF Due
  <2>3. CASE x = m
    <3>1. CASE rows[m] = job.row
      <4>1. /\ rows'[x].cmc = rows[x].cmc /\ rows'[x].logo = rows[x].logo
            /\ rows'[x].icon = rows[x].icon
        BY <2>3, <3>1, <1>3, <1>5, <1>8
      <4>2. Pending(x) => Pending(x)'
        BY <4>1, <1>12 DEF Pending
      <4>3. Good(x) => Good(x)'
        BY <4>1, <1>1 DEF Good
      <4>4. stale \subseteq stale'
        BY <1>7
      <4>5. QED
        BY <2>1, <2>2, <2>3, <4>1, <4>2, <4>3, <4>4, <1>1, <1>3 DEF Cared
    <3>2. CASE rows[m] # job.row
      BY <2>3, <3>2, <1>7 DEF Cared
    <3>3. QED
      BY <3>1, <3>2
  <2>4. CASE x # m
    <3>1. rows'[x] = rows[x]
      BY <2>4, <1>8
    <3>2. Pending(x) => Pending(x)'
      BY <3>1, <1>12 DEF Pending
    <3>3. x \in unheard \cup stale => x \in unheard' \cup stale'
      BY <1>1, <1>7
    <3>4. QED
      BY <2>1, <2>2, <3>1, <3>2, <3>3, <1>1, CaredKept
  <2>5. QED
    BY <2>3, <2>4
<1>14. bucket' \in [Markets -> Logos \cup {0}]
  BY <1>1, <1>2 DEF Typed
<1>15. QED
  BY <1>1, <1>2, <1>6, <1>8, <1>9, <1>10, <1>11, <1>13, <1>14, QueueStep

\* A job that throws waits again, or its market goes into the history; what it
\* may have uploaded is its own market's icon.
LEMMA JobThrowsStep ==
  ASSUME Inv, NEW k \in Kinds, NEW id \in CmcIds, JobThrows(k, id)
  PROVE  GoodStep
<1> DEFINE job == queue[k].active[id]
           m == job.market
<1>1. /\ job # NoJob /\ UNCHANGED <<world, rows, sync, stale>>
      /\ IF k = "icon" THEN bucket' \in {bucket, Uploaded(job)} ELSE UNCHANGED bucket
      /\ \/ /\ queue' = [queue EXCEPT ![k] = Retried(queue[k], id)]
            /\ UNCHANGED unheard
         \/ /\ queue' = [queue EXCEPT ![k] = Ended(queue[k], id)]
            /\ unheard' = unheard \cup (IF k = "icon" THEN {m} ELSE {})
  BY DEF JobThrows
<1>2. Typed /\ bucket \in [Markets -> Logos \cup {0}] /\ queue \in [Kinds -> Queue]
  BY DEF Inv, Typed
<1>3. m \in Markets /\ job.row \in Row /\ rows[m] # NoRow /\ rows[m].cmc = id
  BY <1>1, JobAbout
<1>4. PICK q \in {Ended(queue[k], id), Retried(queue[k], id)} :
        /\ queue' = [queue EXCEPT ![k] = q]
        /\ IF q = Retried(queue[k], id) THEN unheard' \in {unheard, unheard \cup {m}}
           ELSE unheard' = unheard \cup (IF k = "icon" THEN {m} ELSE {})
        /\ k # "icon" => unheard' = unheard
  <2>1. CASE /\ queue' = [queue EXCEPT ![k] = Retried(queue[k], id)]
             /\ UNCHANGED unheard
    <3>1. WITNESS Retried(queue[k], id) \in {Ended(queue[k], id), Retried(queue[k], id)}
    <3>2. QED
      BY <2>1
  <2>2. CASE /\ queue' = [queue EXCEPT ![k] = Ended(queue[k], id)]
             /\ unheard' = unheard \cup (IF k = "icon" THEN {m} ELSE {})
    <3>1. WITNESS Ended(queue[k], id) \in {Ended(queue[k], id), Retried(queue[k], id)}
    <3>2. QED
      BY <2>2
  <2>3. QED
    BY <1>1, <2>1, <2>2
<1>5. q \in Queue /\ \A x \in CmcIds : JobKnows(rows, k, q, x)
  <2>1. queue[k] \in Queue /\ \A x \in CmcIds : JobKnows(rows, k, queue[k], x)
    BY QueueAt
  <2>2. Ended(queue[k], id) \in Queue /\ Retried(queue[k], id) \in Queue
    BY <2>1, EndedQueue, RetriedQueue, Zenon
  <2>3. QED
    BY <2>1, <2>2, EndedKnows
<1>6. RowsKept(rows, rows') /\ KoKept
  BY <1>1, RowsStay
<1>7. CASE k # "icon"
  BY <1>1, <1>4, <1>5, <1>7, IdleQueueStep
<1>8. CASE k = "icon"
  <2>1. /\ bucket' \in [Markets -> Logos \cup {0}]
        /\ \A x \in Markets \ {m} : bucket'[x] = bucket[x]
    <3>1. job.row.logo \in Logos \cup {0}
      BY <1>3 DEF Row
    <3> HIDE DEF job
    <3>2. QED
      BY <3>1, <1>1, <1>2, <1>3, <1>8 DEF Uploaded
  <2>2. unheard' \subseteq Markets /\ unheard \subseteq unheard'
    BY <1>2, <1>3, <1>4 DEF Typed
  <2>3. ASSUME NEW x \in Markets PROVE Cared(x)'
    <3>1. Cared(x)
      BY DEF Inv
    <3>2. CASE x = m
      <4>1. CASE q = Retried(queue[k], id)
        <5>1. id \in queue'["icon"].waiting
          BY <1>4, <1>8, <4>1, IconQueueAfter
        <5>2. Pending(x)'
          BY <5>1, <3>2, <1>1, <1>3 DEF Pending
        <5>3. QED
          BY <5>2 DEF Cared
      <4>2. CASE q # Retried(queue[k], id)
        BY <1>4, <1>8, <3>2, <4>2 DEF Cared
      <4>3. QED
        BY <4>1, <4>2
    <3>3. CASE x # m
      <4>1. Due(x) => Due(x)'
        BY <1>1 DEF Due
      <4>2. Pending(x) => Pending(x)'
        BY <1>1, <1>4, <1>8, <3>3, OthersPending
      <4>3. QED
        BY <1>1, <2>1, <2>2, <3>1, <3>3, <4>1, <4>2, CaredKept
    <3>4. QED
      BY <3>2, <3>3
  <2>4. QED
    BY <1>1, <1>2, <1>4, <1>5, <1>6, <2>1, <2>2, <2>3, QueueStep DEF Typed
<1>9. QED
  BY <1>7, <1>8

\* After a crash every job waits again, and no sync is under way.
LEMMA CrashStep ==
  ASSUME Inv, Crash
  PROVE  GoodStep
<1> DEFINE taken(k) == {id \in CmcIds : queue[k].active[id] # NoJob}
           new(k) == [queue[k] EXCEPT !.waiting = @ \cup taken(k),
                                      !.active = [id \in CmcIds |-> NoJob]]
<1>1. /\ sync' = [s \in Syncs |-> NoSync] /\ queue' = [k \in Kinds |-> new(k)]
      /\ bucket' \in {bucket} \cup
           {Uploaded(job) : job \in {queue["icon"].active[id] : id \in CmcIds} \ {NoJob}}
      /\ unheard' = unheard \cup {sync[s].due : s \in {x \in Syncs : sync[x].at = "enqueue"}}
      /\ UNCHANGED <<world, rows, stale>>
  BY DEF Crash, Active
<1>2. /\ Typed /\ bucket \in [Markets -> Logos \cup {0}] /\ queue \in [Kinds -> Queue]
      /\ "icon" \in Kinds /\ sync \in [Syncs -> Sync \cup {NoSync}]
  BY DEF Inv, Typed, Kinds
<1>3. ASSUME NEW k \in Kinds
      PROVE  /\ new(k) \in Queue /\ new(k).waiting = queue[k].waiting \cup taken(k)
             /\ new(k).active = [id \in CmcIds |-> NoJob]
  BY <1>2 DEF Queue
<1> HIDE DEF new
<1>4. /\ queue' \in [Kinds -> Queue]
      /\ \A k \in Kinds, id \in CmcIds : JobKnows(rows', k, queue'[k], id)
  BY <1>1, <1>3 DEF JobKnows
<1>5. RowsKept(rows, rows') /\ KoKept
  BY <1>1, RowsStay
<1>6. unheard' \subseteq Markets
  <2>1. ASSUME NEW s \in Syncs, sync[s].at = "enqueue" PROVE sync[s].due \in Markets
    BY <2>1, SyncAt DEF SyncKnows
  <2>2. QED
    BY <2>1, <1>1, <1>2 DEF Typed
<1>7. \/ bucket' = bucket
      \/ \E id \in CmcIds : queue["icon"].active[id] # NoJob /\ bucket' = Uploaded(queue["icon"].active[id])
  BY <1>1
<1>8. bucket' \in [Markets -> Logos \cup {0}]
  <2>1. ASSUME NEW id \in CmcIds, queue["icon"].active[id] # NoJob
        PROVE  queue["icon"].active[id].row.logo \in Logos \cup {0}
    BY <1>2, <2>1, JobAbout DEF Row
  <2>2. QED
    BY <2>1, <1>2, <1>7 DEF Uploaded
<1>9. ASSUME NEW id \in CmcIds, NEW m \in Markets, queue["icon"].active[id] # NoJob,
             queue["icon"].active[id].market = m
      PROVE  Pending(m)'
  <2>1. rows[m].cmc = id
    BY <1>2, <1>9, JobAbout
  <2>2. id \in queue'["icon"].waiting
    BY <1>1, <1>2, <1>3, <1>9
  <2>3. QED
    BY <2>1, <2>2, <1>1 DEF Pending
<1>10. ASSUME NEW m \in Markets PROVE Cared(m)'
  <2>1. Cared(m)
    BY DEF Inv
  <2>2. Due(m) => m \in unheard'
    BY <1>1 DEF Due
  <2>3. Pending(m) => Pending(m)'
    <3>1. ASSUME rows[m].cmc \in queue["icon"].waiting PROVE Pending(m)'
      <4>1. queue["icon"].waiting \subseteq queue'["icon"].waiting
        BY <1>1, <1>2, <1>3
      <4>2. QED
        BY <3>1, <4>1, <1>1 DEF Pending
    <3>2. QED
      BY <3>1, <1>9 DEF Pending
  <2>4. bucket'[m] = bucket[m] \/ Pending(m)'
    <3>1. CASE bucket' = bucket
      BY <3>1
    <3>2. ASSUME NEW id \in CmcIds, queue["icon"].active[id] # NoJob,
                 bucket' = Uploaded(queue["icon"].active[id])
          PROVE  bucket'[m] = bucket[m] \/ Pending(m)'
      <4>1. CASE m = queue["icon"].active[id].market
        BY <4>1, <1>9, <3>2
      <4>2. CASE m # queue["icon"].active[id].market
        BY <1>2, <3>2, <4>2 DEF Uploaded
      <4>3. QED
        BY <4>1, <4>2
    <3>3. QED
      BY <1>7, <3>1, <3>2
  <2>5. CASE Pending(m)'
    BY <2>5 DEF Cared
  <2>6. CASE ~Pending(m)'
    <3>1. bucket'[m] = bucket[m] /\ rows'[m] = rows[m]
      BY <2>4, <2>6, <1>1
    <3>2. QED
      BY <3>1, <2>1, <2>2, <2>3, <1>1, CaredKept
  <2>7. QED
    BY <2>5, <2>6
<1>11. /\ sync' \in [Syncs -> Sync \cup {NoSync}]
       /\ \A x \in Syncs : sync'[x] # NoSync => SyncKnows(rows', sync'[x])
  BY <1>1
<1>12. Typed'
  BY <1>1, <1>2, <1>4, <1>6, <1>8, <1>11 DEF Typed, world
<1>13. QED
  BY <1>4, <1>5, <1>10, <1>11, <1>12 DEF GoodStep, Inv

-----------------------------------------------------------------------------
(* The specification                                                        *)

LEMMA InitInv == Init => Inv
<1> SUFFICES ASSUME Init PROVE Inv
  OBVIOUS
<1>1. [waiting |-> {}, ended |-> {}, active |-> [id \in CmcIds |-> NoJob]] \in Queue
  BY DEF Queue
<1>2. 1 \in Logos /\ 1 \in Descriptions /\ 0 \in 0..MaxSyncs /\ 0 \in 0..MaxChanges
  BY CoinInfoAssumption
<1>3. [logo |-> 1, en |-> 1] \in Info
  BY <1>2 DEF Info
<1>4. queue \in [Kinds -> Queue] /\ \A k \in Kinds, id \in CmcIds : JobKnows(rows, k, queue[k], id)
  BY <1>1 DEF Init, JobKnows
<1>5. cmc \in [CmcIds -> Info \cup {NoInfo}]
  BY <1>3 DEF Init
<1>6. Typed
  BY <1>2, <1>4, <1>5 DEF Init, Typed, Rows
<1>7. \A m \in Markets : Cared(m)
  BY DEF Init, Cared
<1>8. \A s \in Syncs : sync[s] = NoSync
  BY DEF Init
<1>9. QED
  BY <1>4, <1>6, <1>7, <1>8 DEF Inv

LEMMA StutterStep ==
  ASSUME Inv, UNCHANGED vars
  PROVE  GoodStep
<1>1. UNCHANGED <<world, rows, bucket, sync, queue, unheard, stale>>
  BY DEF vars
<1>2. Typed'
  BY <1>1 DEF Inv, Typed, world
<1>3. QED
  BY <1>1, <1>2, OutsideStep

LEMMA NextStep == Inv /\ [Next]_vars => GoodStep
<1> SUFFICES ASSUME Inv, [Next]_vars PROVE GoodStep
  OBVIOUS
<1>1. ASSUME NEW s \in Syncs,
             \/ Begin(s) \/ IdsAnswered(s)
             \/ EnqueueIcon(s) \/ SyncDone(s) \/ SyncFails(s)
             \/ \E m \in Markets : Create(s, m) \/ Update(s, m)
      PROVE  GoodStep
  BY <1>1, BeginStep, IdsAnsweredStep, EnqueueIconStep, SyncDoneStep, CreateStep, UpdateStep
<1>2. ASSUME NEW id \in CmcIds,
             \/ CmcChanges(id) \/ QueueTranslate(id)
             \/ SaveIcon(id) \/ SaveTranslation(id)
             \/ \E m \in Markets : TakeIcon(id, m) \/ TakeTranslation(id, m)
             \/ \E k \in Kinds : NoCoin(k, id) \/ JobThrows(k, id) \/ Forget(k, id)
      PROVE  GoodStep
  BY <1>2, CmcChangesStep, QueueTranslateStep, SaveIconStep, SaveTranslationStep, TakeIconStep,
     TakeTranslationStep, NoCoinStep, JobThrowsStep, ForgetStep
<1>3. CASE Crash
  BY <1>3, CrashStep
<1>4. CASE UNCHANGED vars
  BY <1>4, StutterStep
<1>5. QED
  BY <1>1, <1>2, <1>3, <1>4 DEF Next

\* The invariant says what the run checks of every state.
LEMMA InvIcons == Inv => IconsFollowLogos
<1> SUFFICES ASSUME Inv PROVE IconsFollowLogos
  OBVIOUS
<1>1. Typed /\ sync \in [Syncs -> Sync \cup {NoSync}] /\ queue \in [Kinds -> Queue]
  BY DEF Inv, Typed
<1>2. \A s \in Syncs : sync[s].at \in {"idle", "create", "update", "enqueue"}
  BY <1>1 DEF Sync, NoSync
<1>3. TypeOK
  BY <1>1, <1>2 DEF TypeOK, Typed, Rows, Queue
<1>4. ASSUME CoinsQuiet, NEW m \in Markets \ (unheard \cup stale), rows[m] # NoRow, rows[m].logo # 0
      PROVE  rows[m].icon /\ bucket[m] = rows[m].logo
  <2>1. rows[m].cmc \in CmcIds
    BY <1>1, <1>4, RowAt DEF Typed
  <2>2. ~Due(m) /\ ~Pending(m)
    BY <1>4, <2>1 DEF CoinsQuiet, Due, Pending, Active
  <2>3. QED
    BY <1>4, <2>2 DEF Inv, Cared, Good
<1>5. QED
  BY <1>3, <1>4 DEF IconsFollowLogos

\* IconsFollowLogos: when nothing is under way, a coin is shown with the icon of
\* its logo, unless nobody was told to renew it or an older entity was saved
\* over it, whatever the jobs and the syncs of CmcInfoSyncService do in between.
THEOREM IconsFollowLogosHolds == Spec => []IconsFollowLogos
<1>1. Inv /\ [Next]_vars => Inv'
  BY NextStep DEF GoodStep
<1>2. QED
  BY <1>1, InitInv, InvIcons, PTL DEF Spec

\* TranslatedOnce: CmcTranslateProcessor only writes a translation where there
\* is none; what takes one away is a save of an entity read before.
THEOREM TranslatedOnceHolds == Spec => TranslatedOnce
<1>1. Inv /\ [Next]_vars => Inv'
  BY NextStep DEF GoodStep
<1>2. Inv /\ [Next]_vars =>
        [\A m \in Markets :
           rows[m] # NoRow /\ rows[m].ko # 0 => rows'[m].ko = rows[m].ko \/ m \in stale']_vars
  BY NextStep DEF GoodStep, KoKept
<1>3. QED
  BY <1>1, <1>2, InitInv, PTL DEF Spec, TranslatedOnce
=============================================================================
