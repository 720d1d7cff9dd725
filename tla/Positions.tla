------------------------------ MODULE Positions ------------------------------
(***************************************************************************)
(* The user's coins and the position, which tells what they cost and what  *)
(* selling them has earned.  Both follow the fills of module Rounding's    *)
(* orders and of SELL orders, with roundings of their own: a MARKET BUY is *)
(* filled with a fraction of the smallest quantity that can be stored, and *)
(* the average price is rounded each time.                                 *)
(*                                                                         *)
(* Coins, quantities, the average price, the cost and the profit are       *)
(* multiples of 1/Scale.  A quotient has 20 digits in the code, here all.  *)
(* What PositionManager and BalanceManager keep between two fills is what  *)
(* is saved after the last, so a SELL is settled one fill at a time.       *)
(***************************************************************************)
EXTENDS Rounding, Tally

CONSTANT SellLimit  \* bound: SELL orders created in a behaviour

ASSUME PositionsAssumption == SellLimit \in Nat

VARIABLES
  coin,      \* the balance in coins
  position,
  sells,
  work       \* coins and position in the settlement under way (tx)

userVars == <<coin, position, sells>>
allVars  == <<vars, userVars, work>>

SellIds == 1..SellLimit
NoPosition == [qty |-> 0, avgPrice |-> 0, cost |-> 0, realizedPnl |-> 0]
NoWork     == [coin |-> [available |-> 0, locked |-> 0], position |-> NoPosition]

PositionsInit ==
  /\ Init
  /\ coin = [available |-> 0, locked |-> 0] /\ position = NoPosition
  /\ sells = [s \in SellIds |-> NoOrder]
  /\ work = NoWork

-----------------------------------------------------------------------------
(* PositionCalculator                                                       *)

\* formatDecimal of a loss rounds toward zero too.
StoredProfit(x) == IF x >= 0 THEN Stored(x) ELSE -Stored(-x)

\* applyBuy, for spent (1/Scale^2) at price p: spent / p coins, a fraction
\* that counts in the average price and is cut off the quantity.
Bought(pos, p, spent) ==
  LET cost == pos.cost * Scale + spent
  IN [pos EXCEPT !.qty = @ + spent \div p,
                 !.avgPrice = (cost * p) \div (pos.qty * p + spent),
                 !.cost = Stored(cost)]

\* Mutant: the profit goes with the position.
SoldForgotten(pos, p, q) ==
  IF q = pos.qty THEN NoPosition
  ELSE [pos EXCEPT !.qty = @ - q, !.cost = Stored(pos.avgPrice * (pos.qty - q)),
                   !.realizedPnl = StoredProfit(@ * Scale + (p - pos.avgPrice) * q)]

\* applySell: the average price stays until nothing is left.
Sold(pos, p, q) ==
  LET pnl == StoredProfit(pos.realizedPnl * Scale + (p - pos.avgPrice) * q)
  IN IF q = pos.qty THEN [NoPosition EXCEPT !.realizedPnl = pnl]
     ELSE [pos EXCEPT !.qty = @ - q, !.cost = Stored(pos.avgPrice * (pos.qty - q)),
                      !.realizedPnl = pnl]

\* Mutant: half of the smallest quantity is a whole one.
CoinsBoughtNearest(p, spent) == (2 * spent + p) \div (2 * p)

\* BalanceManager.increase by spent / p coins.
CoinsBought(p, spent) == spent \div p

-----------------------------------------------------------------------------
(* BUY orders: what module Rounding does to the KRW, and what becomes of    *)
(* the coins and the position.                                              *)

Lock(o) ==
  /\ LockOrder(o)
  /\ work' = [coin |-> coin, position |-> position] /\ UNCHANGED userVars

\* applyFills
BuyFill(p, size) ==
  /\ Fill(p, size)
  /\ LET spent == SpentAt(tx, orders[tx.order], p, size)
     IN work' = [coin |-> [work.coin EXCEPT !.available = @ + CoinsBought(p, spent)],
                 position |-> Bought(work.position, p, spent)]
  /\ UNCHANGED userVars

\* persistResults
SettleBuy ==
  /\ Settle
  /\ coin' = work.coin /\ position' = work.position /\ work' = NoWork
  /\ UNCHANGED sells

RollBack ==
  /\ Abandon \/ \E p \in Prices, size \in Quantities : FillThrows(p, size)
  /\ work' = NoWork /\ UNCHANGED userVars

\* No effect on coins: what creates and cancels them.
BuyRequest ==
  /\ \E o \in OrderIds :
       \/ \E p \in Prices, q \in Quantities : CreateLimitBuy(o, p, q)
       \/ \E a \in Amounts : CreateMarketBuy(o, a)
       \/ CancelOrder(o)
  /\ UNCHANGED <<userVars, work>>

-----------------------------------------------------------------------------
(* SELL orders                                                              *)

IsOpenSell(s) == sells[s].status = "OPEN"

CreateSell(s, type, price, q) ==
  /\ sells[s] = NoOrder /\ ~InTx
  /\ coin.available >= q
  /\ coin' = [available |-> coin.available - q, locked |-> coin.locked + q]
  /\ sells' = [sells EXCEPT ![s] = NewOrder(type, price, q)]
  /\ UNCHANGED <<vars, position, work>>

CreateLimitSell(s, p, q) == CreateSell(s, "LIMIT", p, q)
CreateMarketSell(s, q)   == CreateSell(s, "MARKET", 0, q)

CancelSell(s) ==
  /\ IsOpenSell(s) /\ ~InTx
  /\ coin.locked >= sells[s].left
  /\ coin' = [available |-> coin.available + sells[s].left, locked |-> coin.locked - sells[s].left]
  /\ sells' = [sells EXCEPT ![s].status = "CANCELED"]
  /\ UNCHANGED <<vars, position, work>>

\* decreaseLocked and applySell throw otherwise, in a transaction of the run.
CanSell(q) == coin.locked >= q /\ position.qty >= q

\* q coins at a bid of price p.
SellFill(s, p, q) ==
  /\ IsOpenSell(s) /\ ~InTx /\ CanSell(q)
  /\ coin' = [coin EXCEPT !.locked = @ - q]
  /\ bal' = [bal EXCEPT !.available = Plus(@, p * q)]
  /\ position' = Sold(position, p, q)
  /\ sells' = [sells EXCEPT ![s].left = @ - q,
                            ![s].status = IF q = sells[s].left THEN "FILLED" ELSE "OPEN"]
  /\ exact' = exact + p * q
  /\ UNCHANGED <<orders, tx, work>>

LimitSellFill(s, p, size) ==
  /\ sells[s] # NoOrder /\ sells[s].type = "LIMIT" /\ p >= sells[s].price
  /\ SellFill(s, p, Lesser(sells[s].left, size))
MarketSellFill(s, p, size) ==
  /\ sells[s] # NoOrder /\ sells[s].type = "MARKET"
  /\ SellFill(s, p, Lesser(sells[s].left, size))

-----------------------------------------------------------------------------

PositionsNext ==
  \/ BuyRequest
  \/ \E o \in OrderIds : Lock(o)
  \/ \E p \in Prices, size \in Quantities : BuyFill(p, size)
  \/ SettleBuy
  \/ RollBack
  \/ \E s \in SellIds :
       \/ \E q \in Quantities :
            CreateMarketSell(s, q) \/ \E p \in Prices : CreateLimitSell(s, p, q)
       \/ CancelSell(s)
       \/ \E p \in Prices, size \in Quantities : LimitSellFill(s, p, size) \/ MarketSellFill(s, p, size)

PositionsSpec == PositionsInit /\ [][PositionsNext]_allVars

-----------------------------------------------------------------------------
(* Properties                                                               *)

ReservedCoins ==
  Total([s \in SellIds |-> IF IsOpenSell(s) THEN sells[s].left ELSE 0], SellIds)

\* The coins of the balance are those of the position, though each is rounded
\* on its own, and the locked ones those of the open SELL orders: so a sale
\* never throws, and the position of a user without coins is empty.
CoinsAndPositionAgree ==
  /\ coin.available + coin.locked = position.qty
  /\ coin.locked = ReservedCoins
  /\ \A s \in SellIds : IsOpenSell(s) => CanSell(sells[s].left)
  /\ position.qty = 0 => position = [NoPosition EXCEPT !.realizedPnl = position.realizedPnl]

\* What selling has earned, less what the coins held have cost, is the money
\* that came in less what went out: a fill of a buy moves the two apart by one
\* rounding (of the cost), and a sale by what the rounded average price and
\* quantity amount to, and the two roundings of profit and cost besides.
Apart(pos, cash) == (pos.realizedPnl - pos.cost) * Scale - (cash - Funding * Scale)
ProfitIsCash ==
  [][/\ ~InTx => Apart(position', exact') - Apart(position, exact)
                  \in (1 - 2 * Scale)..(2 * Scale + position.avgPrice + position.qty)
     /\ InTx /\ tx'.order # 0 =>
          Apart(work'.position, exact - tx'.spent) - Apart(work.position, exact - tx.spent)
            \in 0..(Scale - 1)]_allVars
=============================================================================
