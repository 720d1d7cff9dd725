---------------------------- MODULE ActiveMarkets ----------------------------
(***************************************************************************)
(* Which markets the matching worker looks at.                             *)
(*                                                                         *)
(* ActiveMarketService keeps in memory the markets with OPEN orders:       *)
(* createOrder adds the order's market after its transaction committed,    *)
(* the worker (OrderMatchingProcessor, one job a second, one at a time)    *)
(* removes a market when it has counted no OPEN order in it, and after a   *)
(* restart OrderMatchingBootstrapService adds the markets of all OPEN      *)
(* orders.  The database calls of the worker and of createOrder are        *)
(* awaited, so their steps interleave.                                     *)
(*                                                                         *)
(* The orders of a market are only counted here.                           *)
(***************************************************************************)
EXTENDS Naturals

CONSTANTS
  Codes,     \* of the markets
  OpenLimit  \* bound: OPEN orders of a market

ASSUME ActiveMarketsAssumption == OpenLimit \in Nat

VARIABLES
  open,    \* committed OPEN orders of a market
  adding,  \* creates that committed and have not called add yet
  active,  \* activeSet
  phase,   \* of the server process
  restore, \* markets read by restoreActiveMarkets
  todo,    \* markets the job has still to match
  step,    \* of the worker, at market "at"
  at,
  seen,    \* openCount
  unseen,  \* history: "at", once an order committed there since openCount was read
  raced    \* history: markets removed although such an order was there

marketVars == <<open, adding, active, phase, restore, todo, step, at, seen, unseen, raced>>

workerVars == <<todo, step, at, seen, unseen>>

MarketsTypeOK ==
  /\ open \in [Codes -> 0..OpenLimit]
  /\ adding \in [Codes -> 0..OpenLimit]
  /\ active \subseteq Codes
  /\ phase \in {"up", "down", "booting"}
  /\ restore \subseteq Codes
  /\ todo \subseteq Codes
  /\ step \in {"idle", "match", "count", "drop"}
  /\ step # "idle" => at \in Codes
  /\ seen \in 0..OpenLimit
  /\ unseen \subseteq Codes
  /\ raced \subseteq Codes

MarketsInit ==
  /\ open = [m \in Codes |-> 0]
  /\ adding = [m \in Codes |-> 0]
  /\ active = {} /\ phase = "down" /\ restore = {}
  /\ todo = {} /\ step = "idle" /\ at = "none" /\ seen = 0 /\ unseen = {}
  /\ raced = {}

-----------------------------------------------------------------------------
(* OrdersService                                                            *)

\* The transaction of createOrder commits.
CreateCommits(m) ==
  /\ phase = "up"
  /\ open[m] < OpenLimit /\ adding[m] < OpenLimit
  /\ open' = [open EXCEPT ![m] = @ + 1]
  /\ adding' = [adding EXCEPT ![m] = @ + 1]
  /\ unseen' = IF step = "drop" /\ at = m THEN {m} ELSE unseen
  /\ UNCHANGED <<active, phase, restore, todo, step, at, seen, raced>>

\* What follows the await: activeMarkets.add(market).
AddActive(m) ==
  /\ adding[m] > 0
  /\ adding' = [adding EXCEPT ![m] = @ - 1]
  /\ active' = active \cup {m}
  /\ raced' = raced \ {m}
  /\ UNCHANGED <<open, phase, restore, workerVars>>

\* An order is canceled, or filled by an administrator's run (matching/:m/run).
Close(m) ==
  /\ phase = "up" /\ open[m] > 0
  /\ open' = [open EXCEPT ![m] = @ - 1]
  /\ UNCHANGED <<adding, active, phase, restore, workerVars, raced>>

-----------------------------------------------------------------------------
(* OrderMatchingProcessor                                                   *)

\* The next job; with no active market it returns at once.
TakeJob ==
  /\ phase # "down" /\ step = "idle" /\ todo = {} /\ active # {}
  /\ todo' = active
  /\ UNCHANGED <<open, adding, active, phase, restore, step, at, seen, unseen, raced>>

StartMarket(m) ==
  /\ step = "idle" /\ m \in todo
  /\ todo' = todo \ {m}
  /\ step' = "match" /\ at' = m
  /\ UNCHANGED <<open, adding, active, phase, restore, seen, unseen, raced>>

\* matchMarket returns, having settled some of the market's orders.
Match ==
  /\ step = "match"
  /\ \E left \in 0..open[at] : open' = [open EXCEPT ![at] = left]
  /\ step' = "count"
  /\ UNCHANGED <<adding, active, phase, restore, todo, at, seen, unseen, raced>>

\* Mutant: the exception leaves the loop.
AbortJob ==
  /\ step \in {"match", "count"}
  /\ step' = "idle" /\ todo' = {}
  /\ UNCHANGED <<open, adding, active, phase, restore, at, seen, unseen, raced>>

\* There is no order book, or matchMarket or the count throws: the loop goes
\* on with the next market.
SkipMarket ==
  /\ step \in {"match", "count"}
  /\ step' = "idle"
  /\ UNCHANGED <<open, adding, active, phase, restore, todo, at, seen, unseen, raced>>

Count ==
  /\ step = "count"
  /\ seen' = open[at] /\ unseen' = {}
  /\ step' = "drop"
  /\ UNCHANGED <<open, adding, active, phase, restore, todo, at, raced>>

\* Mutant: the market is removed whatever was counted.
DropMatched ==
  /\ step = "drop"
  /\ step' = "idle"
  /\ active' = active \ {at}
  /\ raced' = raced \cup unseen
  /\ UNCHANGED <<open, adding, phase, restore, todo, at, seen, unseen>>

\* What follows the await of the count.
Drop ==
  /\ step = "drop"
  /\ step' = "idle"
  /\ IF seen = 0
     THEN /\ active' = active \ {at}
          /\ raced' = raced \cup unseen
     ELSE UNCHANGED <<active, raced>>
  /\ UNCHANGED <<open, adding, phase, restore, todo, at, seen, unseen>>

-----------------------------------------------------------------------------
(* The process stops, and OrderMatchingBootstrapService runs before it      *)
(* serves requests again.  What was in memory is gone.                      *)

Crash ==
  /\ phase # "down"
  /\ phase' = "down"
  /\ adding' = [m \in Codes |-> 0]
  /\ active' = {} /\ raced' = {} /\ restore' = {}
  /\ todo' = {} /\ step' = "idle" /\ at' = "none" /\ seen' = 0 /\ unseen' = {}
  /\ UNCHANGED open

Boot ==
  /\ phase = "down"
  /\ phase' = "booting"
  /\ restore' = {m \in Codes : open[m] > 0}
  /\ UNCHANGED <<open, adding, active, workerVars, raced>>

Restore ==
  /\ phase = "booting"
  /\ phase' = "up"
  /\ active' = active \cup restore
  /\ restore' = {}
  /\ UNCHANGED <<open, adding, workerVars, raced>>

-----------------------------------------------------------------------------
Worker == TakeJob \/ (\E m \in Codes : StartMarket(m)) \/ Match \/ SkipMarket
          \/ Count \/ Drop

MarketsNext ==
  \/ \E m \in Codes : CreateCommits(m) \/ AddActive(m) \/ Close(m)
  \/ Worker
  \/ Crash \/ Boot \/ Restore

MarketsSpec == MarketsInit /\ [][MarketsNext]_marketVars

\* A job is due every second and the queue keeps it across restarts; awaited
\* database calls return or throw; the process is started again when it stops.
MarketsFairness ==
  /\ WF_marketVars(Worker)
  /\ \A m \in Codes : WF_marketVars(AddActive(m))
  /\ WF_marketVars(Boot) /\ WF_marketVars(Restore)

FairMarketsSpec == MarketsSpec /\ MarketsFairness

-----------------------------------------------------------------------------
\* A market with an OPEN order is forgotten only if the order was committed
\* between the worker's count of the market and its removal: neither a crash
\* between commit and add, nor a failing market, nor a restart loses one.
ForgottenOnlyInRace ==
  \A m \in Codes :
    phase = "up" /\ open[m] > 0 /\ adding[m] = 0 /\ m \notin active => m \in raced

\* An OPEN order's market is eventually tried, unless it got lost in that race:
\* other markets, and their failures, do not keep the worker from it.
OpenOrdersTried ==
  \A m \in Codes :
    (phase = "up" /\ open[m] > 0)
      ~> \/ step = "match" /\ at = m
         \/ open[m] = 0 \/ m \in raced \/ phase # "up"

\* "Tracks in memory the markets with OPEN orders" (active-market.service.ts).
OpenMarketsTracked ==
  \A m \in Codes :
    phase = "up" /\ open[m] > 0 /\ adding[m] = 0 => m \in active
=============================================================================
