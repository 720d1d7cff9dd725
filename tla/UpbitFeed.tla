------------------------------ MODULE UpbitFeed ------------------------------
(***************************************************************************)
(* What the connection to Upbit is asked for: RealtimeBootstrapService     *)
(* (start, the daily market sync, the watchdog) over MarketService and     *)
(* MarketSyncService, composed with the client of module UpbitSocket.      *)
(*                                                                         *)
(* A market is its KRW code; names are left out.  A step of a job is the   *)
(* code between two answers it waits for.  The reset of the candle tracker *)
(* before a resubscription waits for nothing and belongs to its step.      *)
(***************************************************************************)
EXTENDS UpbitSocket

CONSTANTS
  MaxDays,   \* bound: daily syncs
  MaxFaults  \* bound: connections lost or refused, calls that fail

ASSUME UpbitFeedAssumption == MaxDays \in Nat /\ MaxFaults \in Nat

VARIABLES
  rows,    \* UPBIT_MARKET: isActive per code, "none" without a row
  markets, \* MarketService.markets
  listing, \* external: the markets Upbit lists
  up,      \* the application has started: watchdog and cron run
  job,     \* the start or the daily sync in progress
  dog,     \* a watchdog's resubscription that waits for the database
  key,     \* subscribedKey; {}: null
  days, faults,
  failed,  \* history: a sync ended with an error
  overlap  \* history: a watchdog's read was in progress next to a sync

feedVars == <<rows, markets, listing, up, job, dog, key, days, faults, failed, overlap>>
vars == <<socketVars, feedVars>>

Active == {m \in Markets : rows[m] = "active"}
Idle   == [at |-> "idle", added |-> {}, removed |-> {}, fetched |-> {}, after |-> {}]
NoRead == [reading |-> FALSE, codes |-> {}]

TypeOK ==
  /\ SocketTypeOK
  /\ rows \in [Markets -> {"none", "active", "inactive"}]
  /\ markets \subseteq Markets /\ listing \subseteq Markets /\ key \subseteq Markets
  /\ up \in BOOLEAN /\ failed \in BOOLEAN /\ overlap \in BOOLEAN
  /\ job.at \in {"idle", "fetch", "insert", "update", "reload", "subscribe"}
  /\ \A f \in {job.added, job.removed, job.fetched, job.after} : f \subseteq Markets
  /\ dog.reading \in BOOLEAN /\ dog.codes \subseteq Markets
  /\ days \in 0..MaxDays /\ faults \in 0..MaxFaults

Init ==
  /\ SocketInit
  /\ rows \in [Markets -> {"none", "active", "inactive"}] /\ markets = {}
  /\ listing \in (SUBSET Markets) \ {{}}
  /\ up = FALSE /\ job = Idle /\ dog = NoRead /\ key = {}
  /\ days = 0 /\ faults = 0 /\ failed = FALSE /\ overlap = FALSE

-----------------------------------------------------------------------------
(* MarketSyncService.syncMarket, within the start or the daily sync         *)

\* The first read of the start and of the daily sync; at the start, markets in
\* the database make a sync unnecessary.
JobStart ==
  /\ job = Idle
  /\ ~up \/ days < MaxDays
  /\ days' = IF up THEN days + 1 ELSE days
  /\ markets' = Active
  /\ job' = IF ~up /\ Active # {} THEN [Idle EXCEPT !.at = "reload"]
                                  ELSE [Idle EXCEPT !.at = "fetch"]
  /\ overlap' = (overlap \/ dog.reading)
  /\ UNCHANGED <<socketVars, rows, listing, up, dog, key, faults, failed>>

\* The listing arrives and is compared with the markets in memory.
JobFetched ==
  /\ job.at = "fetch"
  /\ job' = [job EXCEPT !.at = "insert", !.fetched = listing,
                        !.added = listing \ markets, !.removed = markets \ listing]
  /\ UNCHANGED <<socketVars, rows, markets, listing, up, dog, key, days, faults, failed, overlap>>

\* An added market is saved as a new row.
JobInsert(m) ==
  /\ job.at = "insert" /\ m \in job.added /\ rows[m] = "none"
  /\ rows' = [rows EXCEPT ![m] = "active"]
  /\ UNCHANGED <<socketVars, markets, listing, up, job, dog, key, days, faults, failed, overlap>>

\* Mutant: only new markets count as a change.
AnyAdded == job.added # {}
Changed == job.added \cup job.removed # {}

\* Removed markets are deactivated, the rows of listed markets refreshed, and
\* the markets in memory reloaded.
JobUpdate ==
  /\ job.at = "insert" /\ \A m \in job.added : rows[m] = "active"
  /\ rows' = [m \in Markets |->
                IF m \in job.removed THEN "inactive"
                ELSE IF rows[m] = "inactive" /\ m \in job.fetched THEN "active" ELSE rows[m]]
  /\ markets' = {m \in Markets : rows'[m] = "active"}
  /\ job' = IF up /\ ~Changed THEN Idle ELSE [job EXCEPT !.at = "reload"]
  /\ UNCHANGED <<socketVars, listing, up, dog, key, days, faults, failed, overlap>>

\* The tracker's jobs are queued and the database answers the last read ...
JobReload ==
  /\ job.at = "reload"
  /\ job' = [job EXCEPT !.at = "subscribe", !.after = Active]
  /\ UNCHANGED <<socketVars, rows, markets, listing, up, dog, key, days, faults, failed, overlap>>

\* ... and what it read is subscribed to.  The start gives up the connection
\* when there is no market.
JobSubscribe ==
  /\ job.at = "subscribe"
  /\ markets' = job.after /\ job' = Idle /\ up' = TRUE
  /\ IF up THEN Resubscribe(job.after) /\ key' = job.after
     ELSE IF job.after # {} THEN Subscribe(job.after) /\ key' = job.after
     ELSE UNCHANGED <<socketVars, key>>
  /\ UNCHANGED <<rows, listing, dog, days, faults, failed, overlap>>

\* An error ends the job: a call fails, or a new row is refused because an
\* inactive one has its code (the unique index on marketCode).  A start that
\* fails is tried again from its beginning.
JobFails ==
  /\ \/ /\ job.at \in {"fetch", "insert", "reload"} /\ faults < MaxFaults
        /\ faults' = faults + 1
     \/ /\ job.at = "insert" /\ \E m \in job.added : rows[m] = "inactive"
        /\ UNCHANGED faults
  /\ job' = Idle
  /\ failed' = TRUE
  /\ UNCHANGED <<socketVars, rows, markets, listing, up, dog, key, days, overlap>>

-----------------------------------------------------------------------------
(* The watchdog                                                             *)

DogBites == up /\ key # {} /\ isOpen /\ heard = "old"

DogReads ==
  /\ DogBites /\ ~dog.reading
  /\ dog' = [reading |-> TRUE, codes |-> Active]
  /\ overlap' = (overlap \/ job # Idle)
  /\ UNCHANGED <<socketVars, rows, markets, listing, up, job, key, days, faults, failed>>

DogSubscribes ==
  /\ dog.reading
  /\ markets' = dog.codes /\ key' = dog.codes /\ dog' = NoRead
  /\ Resubscribe(dog.codes)
  /\ UNCHANGED <<rows, listing, up, job, days, faults, failed, overlap>>

-----------------------------------------------------------------------------

Relisted ==
  /\ days < MaxDays
  /\ listing' \in (SUBSET Markets) \ {{}, listing}
  /\ UNCHANGED <<socketVars, rows, markets, up, job, dog, key, days, faults, failed, overlap>>

\* A connection that is lost or refused is a fault; one that closes because it
\* was asked to, or because it never asked for anything, is not.
Faulty(s) == link[s].state \in {"connecting", "open"} /\ ~(link[s].state = "open" /\ link[s].codes = {})
SocketCloses ==
  \E s \in Pool :
    /\ Closed(s)
    /\ IF Faulty(s) THEN faults < MaxFaults /\ faults' = faults + 1 ELSE UNCHANGED faults
    /\ UNCHANGED <<rows, markets, listing, up, job, dog, key, days, failed, overlap>>
Stalls ==
  /\ Silence
  /\ IF Feeding # {} THEN faults < MaxFaults /\ faults' = faults + 1 ELSE UNCHANGED faults
  /\ UNCHANGED <<rows, markets, listing, up, job, dog, key, days, failed, overlap>>

JobStep == JobFetched \/ (\E m \in Markets : JobInsert(m)) \/ JobUpdate \/ JobReload \/ JobSubscribe

Next ==
  \/ JobStart \/ JobStep \/ JobFails
  \/ DogReads \/ DogSubscribes
  \/ Relisted \/ SocketCloses \/ Stalls
  \/ ((\E s \in Pool : Opened(s) \/ Message(s)) \/ ReconnectTimer \/ ReplaceTimer) /\ UNCHANGED feedVars

Spec == Init /\ [][Next]_vars

-----------------------------------------------------------------------------
(* Properties                                                               *)

\* Once subscribed, the client never ends without a socket or a timer that
\* will make one: a suppressed reconnection always has the 200 ms timer of
\* the resubscription that suppressed it, or the socket it made.
NeverAbandoned ==
  payload # {} => InState({"connecting", "open", "closing"}) # {} \/ reconnecting \/ later > 0

\* As long as no socket was replaced before its close event (resubscribe waits
\* 200 ms for it), every socket is the one the client holds, so that market data
\* comes in once, and isOpen tells the watchdog what that socket is.  Afterwards
\* neither holds: the event takes the new socket from the client, which makes
\* another one, and leaves isOpen false while data flows.  The state is typed:
\* the client never holds a socket that is gone.
ClientKnowsItsSocket ==
  /\ TypeOK
  /\ ~late => /\ \A s \in Pool : link[s].state # "free" => s = ws
              /\ Held({"open"}) => isOpen
              /\ isOpen => Held({"open", "closing"})

\* Outside of a sync, what was last subscribed to is the active markets of the
\* database, unless a sync stopped half way (the rows it wrote are not seen as
\* new by the next one) or a watchdog's read overlapped one.
NewestListUnlessDisturbed ==
  up /\ job = Idle /\ payload # Active => failed \/ overlap

=============================================================================
