------------------------------- MODULE CoinInfo -------------------------------
(***************************************************************************)
(* Icons and texts of the coins: CmcInfoSyncService, QueueProducer, the    *)
(* icon and translation workers, and the table COIN_INFO they all write.   *)
(*                                                                         *)
(* A worker and a sync read a row, wait for another service, and save the  *)
(* entity: TypeORM writes every column in which it differs from the        *)
(* database, also those that others have changed meanwhile.  BullMQ        *)
(* ignores an add whose job id it knows, and it knows the jobs that ended  *)
(* last: of some two hundred coins a few are modelled, the others show     *)
(* only where they push an ended job out (Forget).                         *)
(*                                                                         *)
(* Logos and descriptions are numbered, 0 is none; ko is the number of the *)
(* description it translates; icon says whether iconPublicUrl is set.      *)
(***************************************************************************)
EXTENDS Integers, FiniteSets

CONSTANTS
  Markets,
  CmcIds,
  Syncs,       \* calls of syncAll: the daily one, an administrator's
  Logos, Descriptions,   \* numbers above 0, and 0 if there may be none
  MaxSyncs, MaxChanges,  \* bounds: syncs begun, changes at CoinMarketCap
  MaxLoad                \* bound: listed markets times syncs under way

ASSUME CoinInfoAssumption ==
  /\ Logos \subseteq Nat /\ Descriptions \subseteq Nat /\ 1 \in Logos \cap Descriptions
  /\ MaxSyncs \in Nat /\ MaxChanges \in Nat /\ MaxLoad \in Nat

VARIABLES
  listed,   \* the active KRW markets
  cmc,      \* external: what CoinMarketCap tells of an id
  rows,     \* COIN_INFO
  bucket,   \* the icon in the object store: its logo
  sync,
  queue,
  begun, changes,
  unheard,  \* history: markets whose icon nobody is going to renew
  stale     \* history: rows that lost a change to a save of an older entity

world == <<listed, cmc, begun, changes>>
vars  == <<world, rows, bucket, sync, queue, unheard, stale>>

Kinds == {"icon", "translate"}
Info   == [logo : Logos, en : Descriptions]
NoInfo == [logo |-> 0]
Row    == [cmc : CmcIds, logo : Logos \cup {0}, icon : BOOLEAN,
           en : Descriptions \cup {0}, ko : Descriptions \cup {0}]
NoRow  == [cmc |-> 0]
\* A job in progress: the row of market as it was read.
Job   == [market : Markets, row : Row]
NoJob == [market |-> 0]
\* ents: the entities of a sync; todo: the markets the loop has before it;
\* told: the answer of CoinMarketCap; due: the market whose icon is to be queued
NoSync == [at |-> "idle"]

TypeOK ==
  /\ listed \subseteq Markets
  /\ cmc \in [CmcIds -> Info \cup {NoInfo}]
  /\ rows \in [Markets -> Row \cup {NoRow}]
  /\ bucket \in [Markets -> Logos \cup {0}]
  /\ \A s \in Syncs : sync[s].at \in {"idle", "create", "update", "enqueue"}
  /\ \A k \in Kinds :
       /\ queue[k].waiting \cup queue[k].ended \subseteq CmcIds
       /\ queue[k].active \in [CmcIds -> Job \cup {NoJob}]
  /\ begun \in 0..MaxSyncs /\ changes \in 0..MaxChanges
  /\ unheard \subseteq Markets /\ stale \subseteq Markets

Init ==
  /\ listed \in (SUBSET Markets) \ {{}}
  /\ cmc = [id \in CmcIds |-> [logo |-> 1, en |-> 1]]
  /\ rows = [m \in Markets |-> NoRow]
  /\ bucket = [m \in Markets |-> 0]
  /\ sync = [s \in Syncs |-> NoSync]
  /\ queue = [k \in Kinds |-> [waiting |-> {}, ended |-> {},
                               active |-> [id \in CmcIds |-> NoJob]]]
  /\ begun = 0 /\ changes = 0
  /\ unheard = {} /\ stale = {}

CmcChanges(id) ==
  /\ changes < MaxChanges
  /\ \E info \in Info \cup {NoInfo} : cmc' = [cmc EXCEPT ![id] = info]
  /\ changes' = changes + 1
  /\ UNCHANGED <<listed, rows, bucket, sync, queue, begun, unheard, stale>>

-----------------------------------------------------------------------------
(* The database and the queues                                              *)

\* save of an entity that was read as `old` and is now `new`: columns that others
\* have changed go back to what they were.
Save(m, old, new) ==
  /\ rows' = [rows EXCEPT ![m] = new]
  /\ stale' = IF rows[m] = old THEN stale ELSE stale \cup {m}

Active(q, id) == q.active[id] # NoJob
Known(q, id)  == id \in q.waiting \cup q.ended \/ Active(q, id)

\* Queue.add with a job id.
Added(q, id) == IF Known(q, id) THEN q ELSE [q EXCEPT !.waiting = @ \cup {id}]
Ended(q, id) ==
  [q EXCEPT !.active[id] = NoJob, !.waiting = @ \ {id}, !.ended = @ \cup {id}]
Retried(q, id) == [q EXCEPT !.active[id] = NoJob, !.waiting = @ \cup {id}]

\* removeOnComplete, removeOnFail: the jobs of other coins have ended meanwhile.
Forget(k, id) ==
  /\ id \in queue[k].ended
  /\ queue' = [queue EXCEPT ![k].ended = @ \ {id}]
  /\ UNCHANGED <<world, rows, bucket, sync, unheard, stale>>

RowsOf(id) == {m \in Markets : rows[m] # NoRow /\ rows[m].cmc = id}

-----------------------------------------------------------------------------
(* syncAll                                                                  *)

Ends(s) == sync' = [sync EXCEPT ![s] = NoSync]

Begin(s) ==
  /\ sync[s] = NoSync /\ begun < MaxSyncs
  /\ Cardinality(listed) * (1 + Cardinality({x \in Syncs : sync[x] # NoSync})) <= MaxLoad
  /\ sync' = [sync EXCEPT ![s] =
       [at |-> "create", ents |-> rows, todo |-> {m \in listed : rows[m] = NoRow},
        told |-> <<>>, due |-> 0]]
  /\ begun' = begun + 1
  /\ UNCHANGED <<listed, cmc, rows, bucket, queue, changes, unheard, stale>>

\* findCmcIdForMarket: one of the coins CoinMarketCap has for the symbols, or none.
CmcIdFor(m) == CmcIds \cup {0}

NewRow(id) == [cmc |-> id, logo |-> 0, icon |-> FALSE, en |-> 0, ko |-> 0]

\* Another sync may have been faster: the unique index then stops the save.
Create(s, m) ==
  /\ sync[s].at = "create" /\ m \in sync[s].todo
  /\ \/ /\ 0 \in CmcIdFor(m) \/ rows[m] # NoRow
        /\ sync' = [sync EXCEPT ![s].todo = @ \ {m}]
        /\ UNCHANGED rows
     \/ \E id \in CmcIdFor(m) \ {0} :
          /\ rows[m] = NoRow
          /\ rows' = [rows EXCEPT ![m] = NewRow(id)]
          /\ sync' = [sync EXCEPT ![s].todo = @ \ {m}, ![s].ents[m] = NewRow(id)]
  /\ UNCHANGED <<world, bucket, queue, unheard, stale>>

IdsAnswered(s) ==
  /\ sync[s].at = "create" /\ sync[s].todo = {}
  /\ LET found == {m \in listed : sync[s].ents[m] # NoRow}
     IN sync' = [sync EXCEPT ![s].at = "update", ![s].todo = found,
                             ![s].told = [m \in found |-> cmc[sync[s].ents[m].cmc]]]
  /\ UNCHANGED <<world, rows, bucket, queue, unheard, stale>>

\* Mutant: the logo is compared after it was assigned.
NeedsIconLate(ent, info) == info.logo # 0 /\ ~ent.icon

\* needIconSync
NeedsIcon(ent, info) == info.logo # 0 /\ (info.logo # ent.logo \/ ~ent.icon)

\* isChangedCoinInfo finds every entity changed (lastCmcSyncedAt).
Update(s, m) ==
  LET ent  == sync[s].ents[m]
      info == sync[s].told[m]
      next == [sync[s] EXCEPT !.todo = @ \ {m}, !.ents[m] = NoRow, !.told[m] = NoInfo]
  IN /\ sync[s].at = "update" /\ m \in sync[s].todo
     /\ IF info = NoInfo THEN UNCHANGED <<rows, stale>>
        ELSE Save(m, ent, [ent EXCEPT !.logo = info.logo, !.en = info.en])
     /\ sync' = [sync EXCEPT ![s] =
          IF info # NoInfo /\ NeedsIcon(ent, info)
          THEN [next EXCEPT !.at = "enqueue", !.due = m] ELSE next]
     /\ UNCHANGED <<world, bucket, queue, unheard>>

\* enqueueIconUpload: nothing comes of it when the coin's last job has read its
\* row already, or has ended and is still kept.
EnqueueIcon(s) ==
  LET m == sync[s].due
      id == rows[m].cmc
      q == queue["icon"]
  IN /\ sync[s].at = "enqueue"
     /\ queue' = [queue EXCEPT !["icon"] = Added(q, id)]
     /\ unheard' = unheard \cup (IF Active(q, id) \/ id \in q.ended THEN {m} ELSE {})
     /\ sync' = [sync EXCEPT ![s].at = "update", ![s].due = 0]
     /\ UNCHANGED <<world, rows, bucket, stale>>

SyncDone(s) ==
  /\ sync[s].at = "update" /\ sync[s].todo = {}
  /\ Ends(s)
  /\ UNCHANGED <<world, rows, bucket, queue, unheard, stale>>

\* CoinMarketCap refuses, the database or Redis fails: syncAll returns or throws.
SyncFails(s) ==
  /\ sync[s] # NoSync
  /\ Ends(s)
  /\ unheard' = unheard \cup (IF sync[s].at = "enqueue" THEN {sync[s].due} ELSE {})
  /\ UNCHANGED <<world, rows, bucket, queue, stale>>

-----------------------------------------------------------------------------
(* The workers                                                              *)

\* findOne by cmcId: two markets may have the same, one of them is found.
Found(k, id, m) ==
  /\ id \in queue[k].waiting
  /\ m \in RowsOf(id)

Take(k, id, m) ==
  queue' = [queue EXCEPT ![k].waiting = @ \ {id},
                         ![k].active[id] = [market |-> m, row |-> rows[m]]]
Skip(k, id) == queue' = [queue EXCEPT ![k] = Ended(@, id)]

\* CmcTranslateProcessor.process and IconSyncProcessor.process without a row.
NoCoin(k, id) ==
  /\ id \in queue[k].waiting /\ RowsOf(id) = {}
  /\ Skip(k, id)
  /\ UNCHANGED <<world, rows, bucket, sync, unheard, stale>>

\* One icon at a time (concurrency 1).
TakeIcon(id, m) ==
  /\ Found("icon", id, m)
  /\ \A x \in CmcIds : ~Active(queue["icon"], x)
  /\ IF rows[m].logo = 0 THEN Skip("icon", id) ELSE Take("icon", id, m)
  /\ unheard' = unheard \cup (RowsOf(id) \ {m})
  /\ UNCHANGED <<world, rows, bucket, sync, stale>>

\* downloadImage and uploadCoinIcon; the object is named after the symbol.
Uploaded(job) == [bucket EXCEPT ![job.market] = job.row.logo]

SaveIcon(id) ==
  LET job == queue["icon"].active[id]
  IN /\ job # NoJob
     /\ bucket' = Uploaded(job)
     /\ rows' = [rows EXCEPT ![job.market] = [job.row EXCEPT !.icon = TRUE]]
     /\ stale' = IF rows[job.market] = job.row THEN stale \ {job.market}
                                              ELSE stale \cup {job.market}
     /\ queue' = [queue EXCEPT !["icon"] = Ended(@, id)]
     /\ unheard' = unheard \ {job.market}
     /\ UNCHANGED <<world, sync>>

\* Mutant: what is translated is translated again.
TranslatableAgain(row) == row.en # 0

Translatable(row) == row.en # 0 /\ row.ko = 0

\* Without a key Gemini is not asked.
TakeTranslation(id, m) ==
  /\ Found("translate", id, m)
  /\ \/ Translatable(rows[m]) /\ Take("translate", id, m)
     \/ Skip("translate", id)
  /\ UNCHANGED <<world, rows, bucket, sync, unheard, stale>>

\* Gemini's answer may be empty, which is NULL to the database.
SaveTranslation(id) ==
  LET job == queue["translate"].active[id]
  IN /\ job # NoJob
     /\ \E ko \in {0, job.row.en} : Save(job.market, job.row, [job.row EXCEPT !.ko = ko])
     /\ queue' = [queue EXCEPT !["translate"] = Ended(@, id)]
     /\ UNCHANGED <<world, bucket, sync, unheard>>

\* The job is tried again later, or it was the last attempt.
JobThrows(k, id) ==
  LET job == queue[k].active[id]
  IN /\ job # NoJob
     /\ IF k = "icon" THEN bucket' \in {bucket, Uploaded(job)} ELSE UNCHANGED bucket
     /\ \/ /\ queue' = [queue EXCEPT ![k] = Retried(@, id)]
           /\ UNCHANGED unheard
        \/ /\ queue' = [queue EXCEPT ![k] = Ended(@, id)]
           /\ unheard' = unheard \cup (IF k = "icon" THEN {job.market} ELSE {})
     /\ UNCHANGED <<world, rows, sync, stale>>

\* POST /cmc/translate/queue/:cmcId; translate/batch does this for all it
\* selects, one after the other.
QueueTranslate(id) ==
  /\ queue' = [queue EXCEPT !["translate"] = Added(@, id)]
  /\ UNCHANGED <<world, rows, bucket, sync, unheard, stale>>

\* The process stops; BullMQ finds the jobs it had taken stalled.
Crash ==
  /\ sync' = [s \in Syncs |-> NoSync]
  /\ queue' = [k \in Kinds |->
       LET taken == {id \in CmcIds : Active(queue[k], id)}
       IN [queue[k] EXCEPT !.waiting = @ \cup taken, !.active = [id \in CmcIds |-> NoJob]]]
  /\ bucket' \in {bucket} \cup
       {Uploaded(job) : job \in {queue["icon"].active[id] : id \in CmcIds} \ {NoJob}}
  /\ unheard' = unheard \cup {sync[s].due : s \in {x \in Syncs : sync[x].at = "enqueue"}}
  /\ UNCHANGED <<world, rows, stale>>

Next ==
  \/ \E s \in Syncs :
       \/ Begin(s) \/ IdsAnswered(s)
       \/ EnqueueIcon(s) \/ SyncDone(s) \/ SyncFails(s)
       \/ \E m \in Markets : Create(s, m) \/ Update(s, m)
  \/ \E id \in CmcIds :
       \/ CmcChanges(id) \/ QueueTranslate(id)
       \/ SaveIcon(id) \/ SaveTranslation(id)
       \/ \E m \in Markets : TakeIcon(id, m) \/ TakeTranslation(id, m)
       \/ \E k \in Kinds : NoCoin(k, id) \/ JobThrows(k, id) \/ Forget(k, id)
  \/ Crash

Spec == Init /\ [][Next]_vars

-----------------------------------------------------------------------------
\* With no sync and no icon job left, the icon a coin is shown with is that of
\* its logo, unless its job was ignored, lost or given up, was spent on another
\* market of the same id, or a save of an older entity undid a change.
CoinsQuiet ==
  /\ \A s \in Syncs : sync[s] = NoSync
  /\ \A id \in CmcIds : id \notin queue["icon"].waiting /\ ~Active(queue["icon"], id)
IconsFollowLogos ==
  /\ TypeOK
  /\ CoinsQuiet =>
       \A m \in Markets \ (unheard \cup stale) :
         rows[m] # NoRow /\ rows[m].logo # 0 => rows[m].icon /\ bucket[m] = rows[m].logo

\* A translation is never made again, although its description has changed or
\* an administrator forces it; only a save of an older entity takes it away.
TranslatedOnce ==
  [][\A m \in Markets :
       rows[m] # NoRow /\ rows[m].ko # 0 => rows'[m].ko = rows[m].ko \/ m \in stale']_vars
=============================================================================
