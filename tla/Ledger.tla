------------------------------- MODULE Ledger -------------------------------
(***************************************************************************)
(* The mock exchange's ledger: orders, balances, positions, and the        *)
(* matching runs that settle orders against an order book.                 *)
(*                                                                         *)
(* Every request (createOrder, cancelOrder, deposit, reset ...) is one     *)
(* database transaction under row locks, so it is one action, blocked      *)
(* while a matching run holds a row it needs.  A matching run              *)
(* (matchMarket) works through a list of candidates read without a lock;   *)
(* each candidate is settled in a transaction of its own, modelled as      *)
(* LockOrder, one Fill per order-book level applied to working copies,     *)
(* and Settle.  A throw (FillThrows) or a failing database or process      *)
(* (RunFails) rolls the transaction back and ends the run.                 *)
(*                                                                         *)
(* Amounts are whole numbers of the smallest unit (1e-8), and price times  *)
(* quantity is exact.  Only the division of a MARKET BUY's amount by a     *)
(* price rounds down; what it leaves is below Won, as in the code, whose   *)
(* quotient has 20 digits.                                                 *)
(***************************************************************************)
EXTENDS Integers, FiniteSets, Tally

CONSTANTS
  Users,
  Markets,      \* a market also names the coin it trades against KRW
  Runs,         \* matching runs that may be under way at once
  OrderLimit,   \* bound: orders created in a behaviour
  Prices,
  Quantities,   \* quantities a user may order
  Totals,       \* amounts of a MARKET BUY
  Books,        \* order books the feed may hold
  MaxOrders,    \* candidates a run takes per side
  Won,          \* 1 KRW in the smallest unit
  Grants,       \* amounts a user may be granted or deposit
  FundingLimit, \* bound: KRW a user may have been funded with
  Seed          \* KRW after a reset

ASSUME LedgerAssumption ==
  /\ IsFiniteSet(Users) /\ "KRW" \notin Markets
  /\ OrderLimit \in Nat /\ MaxOrders \in Nat
  /\ Prices \subseteq Nat \ {0}
  /\ Quantities \subseteq Nat \ {0} /\ Totals \subseteq Nat \ {0}
  /\ Won \in Nat \ {0} /\ Seed \in Nat /\ Grants \subseteq Nat
  /\ FundingLimit \in Nat
  /\ Books \subseteq [asks : [Prices -> Nat], bids : [Prices -> Nat]]

VARIABLES
  orders,  \* TRADING_ORDER, with the sum of the order's TRADING_FILL rows
  bal,     \* TRADING_BALANCE; a missing row is a row of zeros
  pos,     \* quantity of TRADING_POSITION
  job,     \* matchMarket's local state, per run
  tx,      \* the settlement transaction of a run: working copies of its rows
  funded   \* history: net KRW put into a user's account from outside

vars == <<orders, bal, pos, job, tx, funded>>

-----------------------------------------------------------------------------
OrderIds == 1..OrderLimit   \* in the order of createdAt
Assets   == {"KRW"} \cup Markets
Account  == [available : Nat, locked : Nat]
Levels   == [Prices -> Nat]

\* total is what createOrder reserved and spent the value of the order's
\* fills; the code keeps neither on the order (see reservedAmount).
Order == [user : Users, market : Markets,
          side : {"BUY", "SELL"}, type : {"LIMIT", "MARKET"},
          price : Nat, qty : Nat, total : Nat,
          filled : Nat, remaining : Nat, reserved : Nat, spent : Nat,
          status : {"OPEN", "FILLED", "CANCELED"}]
NoOrder == [status |-> "NONE"]

Job == [phase : {"matching"}, market : Markets, asks : Levels, bids : Levels,
        buys : SUBSET OrderIds, sells : SUBSET OrderIds,
        listed : SUBSET OrderIds]
NoJob == [phase |-> "idle"]

Tx == [order : OrderIds, ord : Order, krw : Account, coin : Account,
       qty : Nat, matched : BOOLEAN]
NoTx == [order |-> 0]

TypeOK ==
  /\ orders \in [OrderIds -> Order \cup {NoOrder}]
  /\ bal \in [Users -> [Assets -> Account]]
  /\ pos \in [Users -> [Markets -> Nat]]
  /\ job \in [Runs -> Job \cup {NoJob}]
  /\ tx \in [Runs -> Tx \cup {NoTx}]
  /\ funded \in [Users -> Int]

Init ==
  /\ orders = [o \in OrderIds |-> NoOrder]
  /\ bal = [u \in Users |-> [a \in Assets |-> [available |-> 0, locked |-> 0]]]
  /\ pos = [u \in Users |-> [m \in Markets |-> 0]]
  /\ job = [r \in Runs |-> NoJob]
  /\ tx = [r \in Runs |-> NoTx]
  /\ funded = [u \in Users |-> 0]

-----------------------------------------------------------------------------
Lesser(a, b) == IF a <= b THEN a ELSE b

IsOpen(o)  == orders[o].status = "OPEN"
Running(r) == job[r].phase = "matching"
InTx(r)    == tx[r].order # 0

\* Mutant: balances are read without a lock.
BalanceNeverLocked(u, a) == FALSE

\* Row locks: a settlement transaction holds its order, and its user's KRW
\* balance, coin balance and position.
OrderLocked(o) == \E r \in Runs : InTx(r) /\ tx[r].order = o
BalanceLocked(u, a) ==
  \E r \in Runs : /\ InTx(r)
                  /\ tx[r].ord.user = u
                  /\ a \in {"KRW", tx[r].ord.market}

\* The asset an order reserves: KRW to buy, the coin to sell.
ReservedAsset(ord) == IF ord.side = "BUY" THEN "KRW" ELSE ord.market

\* What cancelling the order puts back.
ReleaseAmount(ord) ==
  IF ord.side = "SELL" THEN ord.remaining
  ELSE IF ord.type = "LIMIT" THEN ord.price * ord.remaining
  ELSE ord.reserved

-----------------------------------------------------------------------------
(* Orders: OrdersService                                                    *)

\* Mutant: what is taken from available is not locked.
ReservedOnlyDebits(acc, x) == [available |-> acc.available - x, locked |-> acc.locked]

\* BalanceManager.reserve and restoreFromCancel.
Reserved(acc, x) == [available |-> acc.available - x, locked |-> acc.locked + x]
Restored(acc, x) == [available |-> acc.available + x, locked |-> acc.locked - x]

\* The reservation, then a new OPEN order.
CreateOrder(o, ord, reserve) ==
  LET u == ord.user
      a == ReservedAsset(ord)
  IN /\ orders[o] = NoOrder
     /\ \A p \in OrderIds : p < o => orders[p] # NoOrder
     /\ ~BalanceLocked(u, a)
     /\ bal[u][a].available >= reserve
     /\ bal' = [bal EXCEPT ![u][a] = Reserved(@, reserve)]
     /\ orders' = [orders EXCEPT ![o] = ord]
     /\ UNCHANGED <<pos, job, tx, funded>>

NewOrder(u, m, side, type, price, qty, total, reserved) ==
  [status |-> "OPEN", total |-> total, spent |-> 0,
   user |-> u, side |-> side,
   reserved |-> reserved, filled |-> 0, remaining |-> qty, qty |-> qty,
   type |-> type, price |-> price, market |-> m]

CreateLimitBuy(o, u, m, p, q) ==
  CreateOrder(o, NewOrder(u, m, "BUY", "LIMIT", p, q, p * q, p * q), p * q)

\* Price and quantity are placeholders of one unit: the amount is what counts.
CreateMarketBuy(o, u, m, amount) ==
  CreateOrder(o, NewOrder(u, m, "BUY", "MARKET", 1, 1, amount, amount), amount)

\* reservedAmount of a sell order is null (0 here) and never read.  The price
\* of a MARKET SELL is the best bid at that moment, kept only for sorting.
CreateSell(o, u, m, type, p, q) ==
  CreateOrder(o, NewOrder(u, m, "SELL", type, p, q, q, 0), q)

\* Mutant: the order is read without a lock.
CancelUnlocked(o) ==
  LET ord == orders[o]
      a   == ReservedAsset(ord)
      amount == ReleaseAmount(ord)
  IN /\ IsOpen(o)
     /\ bal[ord.user][a].locked >= amount
     /\ bal' = [bal EXCEPT ![ord.user][a] = Restored(@, amount)]
     /\ orders' = [orders EXCEPT ![o].status = "CANCELED"]
     /\ UNCHANGED <<pos, job, tx, funded>>

\* restoreFromCancel throws when less than the amount is locked.
CancelOrder(o) ==
  LET ord == orders[o]
      a   == ReservedAsset(ord)
      amount == ReleaseAmount(ord)
  IN /\ IsOpen(o)
     /\ ~OrderLocked(o) /\ ~BalanceLocked(ord.user, a)
     /\ ord.side = "SELL" \/ ord.type = "LIMIT" => ord.remaining > 0
     /\ bal[ord.user][a].locked >= amount
     /\ bal' = [bal EXCEPT ![ord.user][a] = Restored(@, amount)]
     /\ orders' = [orders EXCEPT ![o].status = "CANCELED"]
     /\ UNCHANGED <<pos, job, tx, funded>>

-----------------------------------------------------------------------------
(* Matching: MatchingService and the execution strategies                   *)

Offered(levels) == {p \in Prices : levels[p] > 0}

\* The order the candidates are read in: type ASC (LIMIT before MARKET), the
\* better price, the older order.
Precedes(o, p) ==
  LET a == orders[o]
      b == orders[p]
      better == IF a.side = "BUY" THEN a.price > b.price ELSE a.price < b.price
  IN \/ a.type = "LIMIT" /\ b.type = "MARKET"
     \/ a.type = b.type /\ better
     \/ a.type = b.type /\ a.price = b.price /\ o < p

Candidates(m, side) ==
  LET open == {o \in OrderIds :
                 IsOpen(o) /\ orders[o].market = m /\ orders[o].side = side}
  IN {o \in open : Cardinality({p \in open : Precedes(p, o)}) < MaxOrders}

\* matchMarket reads the book and the candidates; nothing is locked yet.
StartRun(r, m, book) ==
  LET buys  == IF Offered(book.asks) = {} THEN {} ELSE Candidates(m, "BUY")
      sells == IF Offered(book.bids) = {} THEN {} ELSE Candidates(m, "SELL")
  IN /\ ~Running(r)
     /\ buys \cup sells # {}
     /\ job' = [job EXCEPT ![r] =
                  [phase |-> "matching", market |-> m,
                   asks |-> book.asks, bids |-> book.bids,
                   buys |-> buys, sells |-> sells, listed |-> buys \cup sells]]
     /\ UNCHANGED <<orders, bal, pos, tx, funded>>

\* Mutant: the oldest order first.
TurnByAge(r, o) ==
  LET queue == IF job[r].buys # {} THEN job[r].buys ELSE job[r].sells
  IN /\ Running(r) /\ ~InTx(r)
     /\ o \in queue
     /\ \A p \in queue \ {o} : o < p

\* The candidate whose turn it is: the buys in order, then the sells.
Turn(r, o) ==
  LET queue == IF job[r].buys # {} THEN job[r].buys ELSE job[r].sells
  IN /\ Running(r) /\ ~InTx(r)
     /\ o \in queue
     /\ \A p \in queue \ {o} : Precedes(o, p)

Dequeued(j, o) == [j EXCEPT !.buys = @ \ {o}, !.sells = @ \ {o}]

\* getOrderWithLock finds the order no longer OPEN.
SkipOrder(r, o) ==
  /\ Turn(r, o)
  /\ ~OrderLocked(o) /\ ~IsOpen(o)
  /\ job' = [job EXCEPT ![r] = Dequeued(@, o)]
  /\ UNCHANGED <<orders, bal, pos, tx, funded>>

\* Mutant: the status the candidate was listed with is believed.
LockListed(r, o) ==
  LET ord == orders[o]
  IN /\ Turn(r, o)
     /\ ~OrderLocked(o)
     /\ ~BalanceLocked(ord.user, "KRW") /\ ~BalanceLocked(ord.user, ord.market)
     /\ job' = [job EXCEPT ![r] = Dequeued(@, o)]
     /\ tx' = [tx EXCEPT ![r] =
                 [order |-> o, ord |-> ord,
                  krw |-> bal[ord.user]["KRW"],
                  coin |-> bal[ord.user][ord.market],
                  qty |-> pos[ord.user][ord.market], matched |-> FALSE]]
     /\ UNCHANGED <<orders, bal, pos, funded>>

\* getOrderWithLock and prepareResources.
LockOrder(r, o) ==
  LET ord == orders[o]
  IN /\ Turn(r, o)
     /\ ~OrderLocked(o) /\ IsOpen(o)
     /\ ~BalanceLocked(ord.user, "KRW") /\ ~BalanceLocked(ord.user, ord.market)
     /\ job' = [job EXCEPT ![r] = Dequeued(@, o)]
     /\ tx' = [tx EXCEPT ![r] =
                 [order |-> o, ord |-> ord,
                  krw |-> bal[ord.user]["KRW"],
                  coin |-> bal[ord.user][ord.market],
                  qty |-> pos[ord.user][ord.market], matched |-> FALSE]]
     /\ UNCHANGED <<orders, bal, pos, funded>>

LevelsFor(j, ord) == IF ord.side = "BUY" THEN j.asks ELSE j.bids

\* The level the matcher comes to next: the cheapest ask or the dearest bid
\* that still has size.
IsBest(levels, side, p) ==
  /\ p \in Offered(levels)
  /\ \A q \in Offered(levels) : IF side = "BUY" THEN p <= q ELSE p >= q

\* Mutant: the comparison of the buys is used for the sells.
AcceptableBelow(ord, p) == ord.type = "MARKET" \/ p <= ord.price

Acceptable(ord, p) ==
  \/ ord.type = "MARKET"
  \/ ord.side = "BUY" /\ p <= ord.price
  \/ ord.side = "SELL" /\ p >= ord.price

IsMarketBuy(ord) == ord.side = "BUY" /\ ord.type = "MARKET"

\* BuyOrderMatcher and SellOrderMatcher: the quantity taken from a level of
\* the given size, 0 where the matcher stops.
FillQty(ord, p, size) ==
  IF ~Acceptable(ord, p) THEN 0
  ELSE IF ~IsMarketBuy(ord) THEN Lesser(ord.remaining, size)
  ELSE IF ord.reserved <= Won THEN 0
  ELSE Lesser(size, ord.reserved \div p)

Side(r)       == LevelsFor(job[r], tx[r].ord)
NextQty(r, p) == FillQty(tx[r].ord, p, Side(r)[p])

\* The run's order gets its next fill at price p, if at any.
NextFill(r, p) == InTx(r) /\ IsBest(Side(r), tx[r].ord.side, p) /\ NextQty(r, p) > 0

MatchingOver(r) == InTx(r) /\ \A p \in Prices : ~NextFill(r, p)

\* Mutant: always the actual price.
LockedAtFillPrice(ord, p, q) == p * q

\* ExecutionCalculator: KRW unlocked by a fill of q at p, the reserved price
\* for a LIMIT BUY (the difference is refunded), the actual one otherwise.
LockedAmount(ord, p, q) == IF ord.type = "LIMIT" THEN ord.price * q ELSE p * q

\* The exceptions of release, decreaseLocked and applySell.
FillThrowsFor(t, p, q) ==
  IF t.ord.side = "BUY" THEN t.krw.locked < LockedAmount(t.ord, p, q)
  ELSE t.coin.locked < q \/ t.qty < q

\* The order after a fill; reservedAmount of a MARKET BUY is what is left.
FilledBy(ord, p, q) ==
  [ord EXCEPT !.filled = @ + q,
              !.spent = @ + p * q,
              !.remaining = IF IsMarketBuy(ord) THEN @ ELSE @ - q,
              !.reserved = IF IsMarketBuy(ord) THEN @ - p * q ELSE @]

\* Mutant: the difference to the limit price is not refunded.
BuyFillNoRefund(t, p, q) ==
  LET unlocked == LockedAmount(t.ord, p, q)
  IN [order |-> t.order, ord |-> FilledBy(t.ord, p, q),
      krw  |-> [available |-> t.krw.available, locked |-> t.krw.locked - unlocked],
      coin |-> [available |-> t.coin.available + q, locked |-> t.coin.locked],
      qty |-> t.qty + q, matched |-> TRUE]

BuyFill(t, p, q) ==
  LET unlocked == LockedAmount(t.ord, p, q)
  IN [order |-> t.order, ord |-> FilledBy(t.ord, p, q),
      krw  |-> [available |-> t.krw.available + (unlocked - p * q),
                locked |-> t.krw.locked - unlocked],
      coin |-> [available |-> t.coin.available + q, locked |-> t.coin.locked],
      qty |-> t.qty + q, matched |-> TRUE]

\* Mutant: the position is left alone.
SellFillKeepsPosition(t, p, q) ==
  [order |-> t.order, ord |-> FilledBy(t.ord, p, q),
   krw  |-> [available |-> t.krw.available + p * q, locked |-> t.krw.locked],
   coin |-> [available |-> t.coin.available, locked |-> t.coin.locked - q],
   qty |-> t.qty, matched |-> TRUE]

SellFill(t, p, q) ==
  [order |-> t.order, ord |-> FilledBy(t.ord, p, q),
   krw  |-> [available |-> t.krw.available + p * q, locked |-> t.krw.locked],
   coin |-> [available |-> t.coin.available, locked |-> t.coin.locked - q],
   qty |-> t.qty - q, matched |-> TRUE]

\* consumeLevel: the run's copy of the book loses what was taken.
Consumed(levels, p, q) == [levels EXCEPT ![p] = @ - q]

Taken(j, side, p, q) ==
  IF side = "BUY" THEN [j EXCEPT !.asks = Consumed(@, p, q)]
                  ELSE [j EXCEPT !.bids = Consumed(@, p, q)]

\* One iteration of the matcher and of applyFills, on the working copies.
Fill(r, p) ==
  LET q == NextQty(r, p)
  IN /\ NextFill(r, p)
     /\ ~FillThrowsFor(tx[r], p, q)
     /\ tx' = [tx EXCEPT ![r] = IF @.ord.side = "BUY" THEN BuyFill(@, p, q)
                                                     ELSE SellFill(@, p, q)]
     /\ job' = [job EXCEPT ![r] = Taken(@, tx[r].ord.side, p, q)]
     /\ UNCHANGED <<orders, bal, pos, funded>>

\* The exception leaves matchMarket: the remaining candidates of the run are
\* not tried.
FillThrows(r, p) ==
  /\ NextFill(r, p)
  /\ FillThrowsFor(tx[r], p, NextQty(r, p))
  /\ tx' = [tx EXCEPT ![r] = NoTx]
  /\ job' = [job EXCEPT ![r] = NoJob]
  /\ UNCHANGED <<orders, bal, pos, funded>>

\* The status the strategies give an order after matching.  A MARKET BUY is
\* FILLED, with nothing reserved, as soon as at most 1 KRW is left of its
\* amount or the asks are used up; its balance is not touched.
Concluded(j, ord) ==
  IF IsMarketBuy(ord)
  THEN IF ord.reserved <= Won \/ Offered(j.asks) = {}
       THEN [ord EXCEPT !.status = "FILLED", !.reserved = 0]
       ELSE ord
  ELSE IF ord.remaining > 0 THEN ord
  ELSE IF ord.side = "BUY" THEN [ord EXCEPT !.status = "FILLED", !.reserved = 0]
  ELSE [ord EXCEPT !.status = "FILLED"]

\* The loops over candidates stop when their side of the book is used up.
AfterOrder(j, side) ==
  [j EXCEPT !.buys  = IF side = "BUY" /\ Offered(j.asks) = {} THEN {} ELSE @,
            !.sells = IF side = "SELL" /\ Offered(j.bids) = {} THEN {} ELSE @]

\* persistResults and commit.
Settle(r) ==
  LET t == tx[r]
      u == t.ord.user
      m == t.ord.market
  IN /\ MatchingOver(r)
     /\ t.matched
     /\ orders' = [orders EXCEPT ![t.order] = Concluded(job[r], t.ord)]
     /\ bal' = [bal EXCEPT ![u]["KRW"] = t.krw, ![u][m] = t.coin]
     /\ pos' = [pos EXCEPT ![u][m] = t.qty]
     /\ tx' = [tx EXCEPT ![r] = NoTx]
     /\ job' = [job EXCEPT ![r] = AfterOrder(@, t.ord.side)]
     /\ UNCHANGED funded

\* No level matched: the strategy returns null and writes nothing.
NoMatch(r) ==
  LET t == tx[r]
  IN /\ MatchingOver(r)
     /\ ~t.matched
     /\ tx' = [tx EXCEPT ![r] = NoTx]
     /\ job' = [job EXCEPT ![r] = AfterOrder(@, t.ord.side)]
     /\ UNCHANGED <<orders, bal, pos, funded>>

FinishRun(r) ==
  /\ Running(r) /\ ~InTx(r)
  /\ job[r].buys = {} /\ job[r].sells = {}
  /\ job' = [job EXCEPT ![r] = NoJob]
  /\ UNCHANGED <<orders, bal, pos, tx, funded>>

\* A database error or a crash: the open transaction is rolled back.
RunFails(r) ==
  /\ Running(r)
  /\ tx' = [tx EXCEPT ![r] = NoTx]
  /\ job' = [job EXCEPT ![r] = NoJob]
  /\ UNCHANGED <<orders, bal, pos, funded>>

-----------------------------------------------------------------------------
(* Funding: DepositService, BalancesService                                 *)

\* Both replace available and leave locked alone.  Whom they serve and how
\* often is the subject of module Deposits; here they may come at any time.
SetAvailable(u, amount) ==
  LET change == amount - bal[u]["KRW"].available
  IN /\ ~BalanceLocked(u, "KRW")
     /\ funded[u] + change <= FundingLimit
     /\ bal' = [bal EXCEPT ![u]["KRW"] = [available |-> amount, locked |-> @.locked]]
     /\ funded' = [funded EXCEPT ![u] = @ + change]
     /\ UNCHANGED <<orders, pos, job, tx>>

Initialize(u, amount) == SetAvailable(u, amount)

\* formatKRW drops the fraction of a won.
Deposit(u, amount) ==
  SetAvailable(u, ((bal[u]["KRW"].available + amount) \div Won) * Won)

\* resetBalances: every balance of the user becomes zero, KRW the seed.
\* Orders and positions are left as they are.
ResetBalances(u) ==
  /\ \A a \in Assets : ~BalanceLocked(u, a)
  /\ bal' = [bal EXCEPT ![u] =
               [a \in Assets |-> [available |-> IF a = "KRW" THEN Seed ELSE 0,
                                  locked |-> 0]]]
  /\ funded' = [funded EXCEPT ![u] = @ + Seed - bal[u]["KRW"].available
                                              - bal[u]["KRW"].locked]
  /\ UNCHANGED <<orders, pos, job, tx>>

\* setBalance (administrators, on their own account).
SetBalance(u, a, available, locked) ==
  /\ ~BalanceLocked(u, a)
  /\ bal' = [bal EXCEPT ![u][a] = [available |-> available, locked |-> locked]]
  /\ funded' = IF a # "KRW" THEN funded
               ELSE [funded EXCEPT ![u] = @ + available + locked
                                            - bal[u][a].available - bal[u][a].locked]
  /\ UNCHANGED <<orders, pos, job, tx>>

-----------------------------------------------------------------------------
UserStep ==
  \E o \in OrderIds :
    \/ CancelOrder(o)
    \/ \E u \in Users, m \in Markets :
         \/ \E p \in Prices, q \in Quantities : CreateLimitBuy(o, u, m, p, q)
         \/ \E t \in Totals : CreateMarketBuy(o, u, m, t)
         \/ \E type \in {"LIMIT", "MARKET"}, p \in Prices, q \in Quantities :
              CreateSell(o, u, m, type, p, q)

RunStep(r) ==
  \/ \E m \in Markets, book \in Books : StartRun(r, m, book)
  \/ \E o \in OrderIds : SkipOrder(r, o) \/ LockOrder(r, o)
  \/ \E p \in Prices : Fill(r, p) \/ FillThrows(r, p)
  \/ Settle(r)
  \/ NoMatch(r)
  \/ FinishRun(r)
  \/ RunFails(r)

FundingStep ==
  \E u \in Users, amount \in Grants : Initialize(u, amount) \/ Deposit(u, amount)

OverrideStep ==
  \E u \in Users :
    \/ ResetBalances(u)
    \/ \E a \in Assets, x, y \in Grants : SetBalance(u, a, x, y)

TradingNext == UserStep \/ FundingStep \/ (\E r \in Runs : RunStep(r))

Next == TradingNext \/ OverrideStep

\* Trading; and trading while balances are reset and set.
TradingSpec == Init /\ [][TradingNext]_vars
Spec        == Init /\ [][Next]_vars
=============================================================================
