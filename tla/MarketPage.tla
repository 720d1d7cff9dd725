----------------------------- MODULE MarketPage -----------------------------
(***************************************************************************)
(* The page of a market (TestMarketPageClient), put together of its parts: *)
(* the session its requests depend on, the indicators of the chart, the    *)
(* order form with its price field, the list of markets and the star.      *)
(*                                                                         *)
(* The parts share no state: what they tell each other - a request that is *)
(* answered or not, candles drawn anew, a ticker, a price picked from the  *)
(* order book - is an input of each, open to every value.  Moving them     *)
(* together would show nothing but the product of their states, so in a    *)
(* behaviour one of them moves.                                            *)
(***************************************************************************)
EXTENDS Sessions, IndicatorPanes, OrderForm, TickerList, Favorites, TickSize

CONSTANT Around \* bound: the prices of the field are within so many steps of
                \* one where the step changes

ASSUME PageAssumption == Around \in Nat

VARIABLES
  focus, \* the part that moves
  price  \* PriceInput: the price shown

\* Nothing yet, trades without a change of the price, and a rise.
SmallTickers == {[acc |-> 0, price |-> 0], [acc |-> 1, price |-> 0], [acc |-> 1, price |-> 1]}

pageVars == <<vars, focus, paneVars, formVars, listVars, starVars, price>>

-----------------------------------------------------------------------------
(* The price field                                                          *)

\* Prices where the step changes, in won, and some of their neighbours.
Edges == {1, 10, 100, 5000, 10000, 50000, 100000, 500000, 1000000}
FieldPrices ==
  {p \in UNION {{Won * e + k * TickOf(Won * e - 1) : k \in -Around..Around} : e \in Edges} :
     p > Least}

\* A price is typed, finer than the step or not, or stepped to.
TypePrice(p) == price' = CommitPrice(p)
PressUp   == price > 0 /\ StepUp(price) \in FieldPrices /\ price' = StepUp(price)
PressDown == price > 0 /\ StepDown(price) \in FieldPrices /\ price' = StepDown(price)

-----------------------------------------------------------------------------

\* A part that does not move starts in one of its initial states.
PageInit ==
  /\ focus \in {"session", "panes", "form", "list", "star", "field"}
  /\ Init /\ PanesInit /\ FormInit /\ ListInit /\ StarInit /\ price = 0
  /\ focus = "form" \/ wide
  /\ focus = "list" \/ (watchlist = {} /\ \A c, d \in Markets :
                          tickers[c] = tickers[d] /\ tickers[c].acc = 0 /\ tickers[c].price = 0)
  /\ focus = "star" \/ ~row

MoveSession == focus = "session" /\ Next
  /\ UNCHANGED <<focus, paneVars, formVars, listVars, starVars, price>>
MovePanes == focus = "panes" /\ PanesNext
  /\ UNCHANGED <<focus, vars, formVars, listVars, starVars, price>>
MoveForm == focus = "form" /\ FormNext
  /\ UNCHANGED <<focus, vars, paneVars, listVars, starVars, price>>
MoveList == focus = "list" /\ ListNext
  /\ UNCHANGED <<focus, vars, paneVars, formVars, starVars, price>>
MoveStar == focus = "star" /\ StarNext
  /\ UNCHANGED <<focus, vars, paneVars, formVars, listVars, price>>
MoveField ==
  /\ focus = "field"
  /\ PressUp \/ PressDown \/ \E p \in FieldPrices, k \in {0, 1} : TypePrice(p + k)
  /\ UNCHANGED <<focus, vars, paneVars, formVars, listVars, starVars>>

PageNext == MoveSession \/ MovePanes \/ MoveForm \/ MoveList \/ MoveStar \/ MoveField

PageSpec == PageInit /\ [][PageNext]_pageVars

-----------------------------------------------------------------------------
(* The properties of the other parts are stated in their modules.           *)

\* The price in the field is one the exchange takes, and each of the buttons
\* beside it undoes the other, where the step changes too.
StepsUndone ==
  price > Least => OnGrid(price) /\ StepDown(StepUp(price)) = price /\ StepUp(StepDown(price)) = price
=============================================================================
