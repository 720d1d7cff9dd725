------------------------------- MODULE Holdings -------------------------------
(***************************************************************************)
(* The user's positions as the pages show them: the rows of the server     *)
(* (PositionManager), what a page reads of them (GET /positions), the      *)
(* store that outlives the page (PositionsStore), and the tab of held      *)
(* coins, on the home page (MainPageHoldingSection) and in the panel of a  *)
(* market's page (PanelHoldingSection).                                    *)
(*                                                                         *)
(* The store is filled when a page is shown and by nothing else: no event  *)
(* of the trading stream reaches it (MarketTradingStore.apply), and what   *)
(* it holds of a coin stays until a page reads it anew.  A row of the      *)
(* server stays for good too, with no coins left after the last is sold.   *)
(*                                                                         *)
(* An asset is a number, its place in the order of Korean names.  A fill   *)
(* is of one coin at the present price; how its amounts are rounded is the *)
(* subject of module Positions.                                            *)
(***************************************************************************)
EXTENDS Integers, SequencesExt

CONSTANTS
  Assets,    \* positive numbers
  Quotes,    \* prices
  MaxFills,  \* bound: fills
  MaxVisits  \* bound: pages visited

ASSUME HoldingsAssumption ==
  /\ Assets \subseteq Nat \ {0} /\ IsFiniteSet(Assets)
  /\ Quotes \subseteq Nat \ {0} /\ MaxFills \in Nat /\ MaxVisits \in Nat

VARIABLES
  held,    \* TRADING_POSITION: the user's row of each asset
  quotes,  \* the tickers of the page
  visit,   \* the page: its stage, whether it has read positions, the answer
  own,     \* TickerStore: the assets of the positions that were read
  kept,    \* PositionsStore
  tab,     \* the tab: shown, the query, the sort, and the rows (useMemo)
  fillCount, visits,
  late,     \* history: assets with a fill since the last page's read,
  outdated, \* or since the read the store is from,
  ticked    \* a price has changed since the rows were put in order

holdingVars == <<held, quotes, visit, own, kept, tab, fillCount, visits, late, outdated, ticked>>

NoRow    == [qty |-> -1, cost |-> 0]
NoRows   == [a \in Assets |-> NoRow]
Anything == 0 \* the empty query; any other matches one asset
NoVisit  == [stage |-> "none", home |-> FALSE, done |-> FALSE, answer |-> NoRows]
NoTab    == [shown |-> FALSE, query |-> Anything, key |-> "evalAmount", dir |-> "desc",
             rows |-> <<>>]

Known(rows) == {a \in Assets : rows[a] # NoRow}

HoldingsInit ==
  /\ held = NoRows /\ quotes \in [Assets -> Quotes]
  /\ visit = NoVisit /\ own = {} /\ kept = NoRows /\ tab = NoTab
  /\ fillCount = 0 /\ visits = 0
  /\ late = {} /\ outdated = {} /\ ticked = FALSE

-----------------------------------------------------------------------------
(* The server                                                               *)

\* applyBuy and applySell: a sale leaves the average price, and all that is
\* sold leaves a row of zeros.
AfterBuy(row, p)  == [qty |-> row.qty + 1, cost |-> row.cost + p]
AfterSale(row)    == [qty |-> row.qty - 1, cost |-> (row.cost * (row.qty - 1)) \div row.qty]

Filled(a, row) ==
  /\ fillCount < MaxFills /\ fillCount' = fillCount + 1
  /\ held' = [held EXCEPT ![a] = row]
  /\ late' = late \cup {a} /\ outdated' = outdated \cup {a}
  /\ UNCHANGED <<quotes, visit, own, kept, tab, visits, ticked>>

BuyAsset(a) ==
  Filled(a, AfterBuy(IF held[a] = NoRow THEN [qty |-> 0, cost |-> 0] ELSE held[a], quotes[a]))
SellAsset(a) == held[a].qty > 0 /\ Filled(a, AfterSale(held[a]))

-----------------------------------------------------------------------------
(* Pages                                                                    *)

\* The home page or a market's is asked for, from a link of another, whose tab
\* goes with it.
VisitPage(home) ==
  /\ visits < MaxVisits /\ visits' = visits + 1
  /\ visit' = [NoVisit EXCEPT !.stage = "reading", !.home = home]
  /\ own' = {} /\ tab' = NoTab
  /\ UNCHANGED <<held, quotes, kept, fillCount, late, outdated, ticked>>

\* All rows of the user, those without coins too.
GetMyPositions == held

\* GET /positions: an error counts as no positions.
FetchPositions ==
  /\ visit.stage = "reading" /\ ~visit.done
  /\ \/ visit' = [visit EXCEPT !.done = TRUE, !.answer = GetMyPositions] /\ late' = {}
     \/ visit' = [visit EXCEPT !.done = TRUE] /\ UNCHANGED late
  /\ UNCHANGED <<held, quotes, own, kept, tab, fillCount, visits, outdated, ticked>>

\* Mutant: what the store has already is not replaced.
HydratedOnce(rows) == [a \in Assets |-> IF kept[a] # NoRow THEN kept[a] ELSE rows[a]]
\* PositionsStore.hydrate: the rows that were read are put over the others.
HydratedBy(rows) == [a \in Assets |-> IF rows[a] # NoRow THEN rows[a] ELSE kept[a]]

\* setHoldingCodes
SetHoldingCodes(assets) == own' = assets

\* The provider's first render.  The store is left alone if nothing was read.
ShowPage ==
  /\ visit.stage = "reading" /\ visit.done
  /\ visit' = [visit EXCEPT !.stage = "shown", !.answer = NoRows]
  /\ SetHoldingCodes(Known(visit.answer))
  /\ IF Known(visit.answer) = {} THEN UNCHANGED <<kept, outdated>>
     ELSE kept' = HydratedBy(visit.answer) /\ outdated' = late
  /\ UNCHANGED <<held, quotes, tab, fillCount, visits, late, ticked>>

\* The document is loaded anew: the store is empty.
LoadDocument ==
  /\ visit' = NoVisit /\ own' = {} /\ kept' = NoRows /\ tab' = NoTab
  /\ outdated' = Known(held)
  /\ UNCHANGED <<held, quotes, fillCount, visits, late, ticked>>

-----------------------------------------------------------------------------
(* The tab                                                                  *)

EvalAmount(a) == quotes[a] * kept[a].qty
Profit(a)     == EvalAmount(a) - kept[a].cost

\* The profit rate plus one, as a fraction: 1 where nothing was paid.
Return(a) == IF kept[a].cost > 0 THEN <<EvalAmount(a), kept[a].cost>> ELSE <<1, 1>>

\* a has the smaller value.
Below(key, a, b) ==
  CASE key = "name"       -> a < b
    [] key = "evalAmount" -> EvalAmount(a) < EvalAmount(b)
    [] key = "profitRate" -> Return(a)[1] * Return(b)[2] < Return(b)[1] * Return(a)[2]
    [] key = "profit"     -> Profit(a) < Profit(b)

InOrder(key, dir, rows) ==
  \A i, j \in DOMAIN rows : i < j =>
    ~ IF dir = "asc" THEN Below(key, rows[j], rows[i]) ELSE Below(key, rows[i], rows[j])

\* The panel takes its assets from the store, the home page from its own read.
\* A row is there for a position.
Shown(query) ==
  {a \in IF visit.home THEN own ELSE Known(kept) : query \in {Anything, a}} \cap Known(kept)

\* What is found, in the order asked for.  The order of equal ones is that of
\* the store, that is of the answers: any.
Put(key, dir, query) ==
  /\ \E rows \in SetToSeqs(Shown(query)) :
       /\ InOrder(key, dir, rows)
       /\ tab' = [shown |-> TRUE, query |-> query, key |-> key, dir |-> dir, rows |-> rows]
  /\ ticked' = FALSE
  /\ UNCHANGED <<held, quotes, visit, own, kept, fillCount, visits, late, outdated>>

\* With what the search field says.
OpenTab(q) == visit.stage = "shown" /\ ~tab.shown /\ Put(tab.key, tab.dir, q)

\* The home page remembers the sort.
CloseTab ==
  /\ tab.shown
  /\ tab' = IF visit.home THEN [NoTab EXCEPT !.key = tab.key, !.dir = tab.dir] ELSE NoTab
  /\ UNCHANGED <<held, quotes, visit, own, kept, fillCount, visits, late, outdated, ticked>>

SetHoldingQuery(q) == tab.shown /\ q # tab.query /\ Put(tab.key, tab.dir, q)

\* toggleSort, handleHoldingSortChange
ToggleSort(key) ==
  /\ tab.shown
  /\ key = "profit" => visit.home
  /\ Put(key, IF tab.key = key /\ tab.dir = "desc" THEN "asc" ELSE "desc", tab.query)

\* One of the options of the home page's narrow header.
SortExplicit(key, dir) ==
  /\ tab.shown /\ visit.home
  /\ key = "name" => dir = "asc"
  /\ Put(key, dir, tab.query)

\* The home page's rows follow the order of its list of markets, too: when that
\* changes (module TickerList) they are put in order again.
Reorder == tab.shown /\ visit.home /\ ticked /\ Put(tab.key, tab.dir, tab.query)

\* A price changes: every row shows its value at once, the order stays.
TickAsset(a, p) ==
  /\ quotes' = [quotes EXCEPT ![a] = p] /\ ticked' = TRUE
  /\ UNCHANGED <<held, visit, own, kept, tab, fillCount, visits, late, outdated>>

HoldingsNext ==
  \/ \E a \in Assets : BuyAsset(a) \/ SellAsset(a)
                       \/ \E p \in Quotes \ {quotes[a]} : TickAsset(a, p)
  \/ \E home \in BOOLEAN : VisitPage(home)
  \/ FetchPositions \/ ShowPage \/ LoadDocument
  \/ \E q \in Assets \cup {Anything} : OpenTab(q) \/ SetHoldingQuery(q)
  \/ CloseTab \/ Reorder
  \/ \E k \in {"name", "evalAmount", "profitRate", "profit"} :
       ToggleSort(k) \/ \E d \in {"asc", "desc"} : SortExplicit(k, d)

-----------------------------------------------------------------------------
\* The positions a page shows are the server's, up to fills after they were
\* read: over failed reads, over visits that read nothing and over pages left
\* before they were shown.  The tab lists each asset with a position once, the
\* ones without coins too, that the query finds, in the order chosen, unless a
\* price has changed since; and where the page's read failed, the home page
\* lists nothing, the panel what the store still has (PositionsStore,
\* PanelHoldingSection, MainPageHoldingSection).
HoldingsFollow ==
  /\ \A a \in Assets \ outdated : kept[a] = held[a]
  /\ tab.shown =>
       /\ Len(tab.rows) = Cardinality(Range(tab.rows))
       /\ Range(tab.rows) = Shown(tab.query)
       /\ ~ticked => InOrder(tab.key, tab.dir, tab.rows)
=============================================================================
