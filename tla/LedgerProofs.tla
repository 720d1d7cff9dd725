---------------------------- MODULE LedgerProofs ----------------------------
(***************************************************************************)
(* Machine-checked proofs about the ledger, for every number of users,     *)
(* markets, runs and orders, and all amounts and prices: what is in its    *)
(* variables, and that trading keeps its invariant.  From that follows     *)
(* that locked balances are exactly what orders claim, that coins agree    *)
(* with positions, that an OPEN order can be canceled, that settlement     *)
(* never throws, and that an order's fills add up.                         *)
(*                                                                         *)
(* Then three facts about whole settlements, while balances are reset and  *)
(* set, too.  KRW is conserved: the working copies of a settlement have    *)
(* moved exactly what its order has been filled for, and nobody else has   *)
(* the row until they are written.  A run keeps price-time priority,       *)
(* whatever users and other runs do to its candidates meanwhile.  And      *)
(* trading implements module Exchange, because the working copies of an    *)
(* open transaction differ by one trade from the rows they will replace.   *)
(***************************************************************************)
EXTENDS LedgerProperties, TallyProofs

USE LedgerAssumption

-----------------------------------------------------------------------------
(* Arithmetic and the types of operators                                    *)

\* Dividing an amount by a price and multiplying back does not exceed it.
LEMMA DivisionBound ==
  ASSUME NEW x \in Nat, NEW p \in Nat \ {0}
  PROVE  x \div p \in Nat /\ p * (x \div p) <= x
OBVIOUS

\* Products of amounts and prices are monotonic.
LEMMA MulMono ==
  ASSUME NEW a \in Nat, NEW b \in Nat, NEW c \in Nat, a <= b
  PROVE  a * c <= b * c /\ c * a <= c * b /\ a * c \in Nat
OBVIOUS

\* A quantity the matcher takes is within the level, and within what is left
\* of the order: its quantity, or its amount for a MARKET BUY.
LEMMA FillQtyBounds ==
  ASSUME NEW ord \in Order, NEW p \in Prices, NEW size \in Nat,
         FillQty(ord, p, size) > 0
  PROVE  /\ FillQty(ord, p, size) \in Nat
         /\ FillQty(ord, p, size) <= size
         /\ Acceptable(ord, p)
         /\ ~IsMarketBuy(ord) => FillQty(ord, p, size) <= ord.remaining
         /\ IsMarketBuy(ord) => p * FillQty(ord, p, size) <= ord.reserved
<1> DEFINE q == FillQty(ord, p, size)
<1>1. /\ p \in Nat \ {0} /\ ord.reserved \in Nat /\ ord.remaining \in Nat
  BY DEF Order
<1>2. /\ ord.reserved \div p \in Nat
      /\ p * (ord.reserved \div p) <= ord.reserved
  BY <1>1, DivisionBound
<1>3. Acceptable(ord, p)
  BY DEF FillQty
<1>4. CASE ~IsMarketBuy(ord)
  BY <1>1, <1>3, <1>4 DEF FillQty, Lesser
<1>5. CASE IsMarketBuy(ord)
  <2>1. q = Lesser(size, ord.reserved \div p)
    BY <1>3, <1>5 DEF FillQty
  <2>2. q \in Nat /\ q <= size /\ q <= ord.reserved \div p
    BY <1>2, <2>1 DEF Lesser
  <2>3. p * q <= p * (ord.reserved \div p) /\ p * q \in Nat
    BY <1>1, <1>2, <2>2, MulMono
  <2>4. p * q <= ord.reserved
    BY <1>1, <1>2, <2>3
  <2>5. QED
    BY <1>3, <1>5, <2>2, <2>4
<1>6. QED
  BY <1>4, <1>5

\* The KRW a fill unlocks covers what it spends, and is backed by the order.
LEMMA LockedAmountBounds ==
  ASSUME NEW ord \in Order, NEW p \in Prices, NEW size \in Nat,
         ord.side = "BUY", FillQty(ord, p, size) > 0
  PROVE  LET q == FillQty(ord, p, size)
         IN /\ p * q \in Nat
            /\ LockedAmount(ord, p, q) \in Nat
            /\ p * q <= LockedAmount(ord, p, q)
            /\ ord.type = "LIMIT" => LockedAmount(ord, p, q) <= ord.price * ord.remaining
            /\ ord.type = "MARKET" => LockedAmount(ord, p, q) <= ord.reserved
<1> DEFINE q == FillQty(ord, p, size)
<1>1. /\ p \in Nat \ {0} /\ ord.price \in Nat /\ ord.remaining \in Nat
      /\ ord.reserved \in Nat /\ ord.type \in {"LIMIT", "MARKET"}
  BY DEF Order
<1>2. /\ q \in Nat
      /\ Acceptable(ord, p)
      /\ ord.type = "LIMIT" => q <= ord.remaining
      /\ ord.type = "MARKET" => p * q <= ord.reserved
  BY FillQtyBounds DEF IsMarketBuy
<1>3. p * q \in Nat
  BY <1>1, <1>2, MulMono
<1>4. CASE ord.type = "LIMIT"
  <2>1. p <= ord.price
    BY <1>2, <1>4 DEF Acceptable
  <2>2. p * q <= ord.price * q /\ ord.price * q \in Nat
    BY <1>1, <1>2, <2>1, MulMono
  <2>3. ord.price * q <= ord.price * ord.remaining
    BY <1>1, <1>2, <1>4, MulMono
  <2>4. QED
    BY <1>3, <1>4, <2>2, <2>3 DEF LockedAmount
<1>5. CASE ord.type = "MARKET"
  BY <1>2, <1>3, <1>5 DEF LockedAmount
<1>6. QED
  BY <1>1, <1>4, <1>5

\* An order after a fill: nothing of it goes below zero.
LEMMA FilledByType ==
  ASSUME NEW ord \in Order, NEW p \in Prices, NEW size \in Nat,
         FillQty(ord, p, size) > 0
  PROVE  FilledBy(ord, p, FillQty(ord, p, size)) \in Order
<1> DEFINE q == FillQty(ord, p, size)
<1>1. /\ p \in Nat /\ q \in Nat
      /\ ~IsMarketBuy(ord) => q <= ord.remaining
      /\ IsMarketBuy(ord) => p * q <= ord.reserved
  BY FillQtyBounds
<1>2. p * q \in Nat
  BY <1>1, MulMono
<1> HIDE DEF q
<1>3. /\ ord.filled + q \in Nat
      /\ ord.spent + p * q \in Nat
      /\ (IF IsMarketBuy(ord) THEN ord.remaining ELSE ord.remaining - q) \in Nat
      /\ (IF IsMarketBuy(ord) THEN ord.reserved - p * q ELSE ord.reserved) \in Nat
  BY <1>1, <1>2 DEF Order
<1>4. FilledBy(ord, p, q) \in Order
  BY <1>3 DEF FilledBy, Order
<1>5. QED
  BY <1>4 DEF q

\* The status an order ends its matching with.
LEMMA ConcludedType ==
  ASSUME NEW j, NEW ord \in Order
  PROVE  /\ Concluded(j, ord) \in Order
         /\ Concluded(j, ord).status \in {ord.status, "FILLED"}
BY ZenonT(60) DEF Concluded, Order

\* The working copies after a fill are well typed: no balance goes below zero.
LEMMA BuyFillType ==
  ASSUME NEW t \in Tx, NEW p \in Prices, NEW size \in Nat,
         t.ord.side = "BUY", FillQty(t.ord, p, size) > 0,
         ~FillThrowsFor(t, p, FillQty(t.ord, p, size))
  PROVE  BuyFill(t, p, FillQty(t.ord, p, size)) \in Tx
<1> DEFINE q == FillQty(t.ord, p, size)
           l == LockedAmount(t.ord, p, q)
<1>1. /\ t.order \in OrderIds /\ t.ord \in Order
      /\ t.krw \in Account /\ t.coin \in Account /\ t.qty \in Nat
  BY DEF Tx
<1>2. q \in Nat
  BY <1>1, FillQtyBounds
<1>3. l \in Nat /\ p * q \in Nat /\ p * q <= l
  BY <1>1, LockedAmountBounds
<1>4. FilledBy(t.ord, p, q) \in Order
  BY <1>1, FilledByType
<1>5. t.krw.locked >= l
  BY <1>1, <1>3 DEF FillThrowsFor, Account
<1>6. BuyFill(t, p, q) = [order |-> t.order, ord |-> FilledBy(t.ord, p, q),
           krw |-> [available |-> t.krw.available + (l - p * q),
                    locked |-> t.krw.locked - l],
           coin |-> [available |-> t.coin.available + q, locked |-> t.coin.locked],
           qty |-> t.qty + q, matched |-> TRUE]
  BY DEF BuyFill
<1> HIDE DEF q, l
<1>7. /\ [available |-> t.krw.available + (l - p * q),
          locked |-> t.krw.locked - l] \in Account
      /\ [available |-> t.coin.available + q, locked |-> t.coin.locked] \in Account
      /\ t.qty + q \in Nat
  BY <1>1, <1>2, <1>3, <1>5 DEF Account
<1>8. BuyFill(t, p, q) \in Tx
  BY <1>1, <1>4, <1>6, <1>7 DEF Tx
<1>9. QED
  BY <1>8 DEF q

\* The same for a sell.
LEMMA SellFillType ==
  ASSUME NEW t \in Tx, NEW p \in Prices, NEW size \in Nat,
         t.ord.side = "SELL", FillQty(t.ord, p, size) > 0,
         ~FillThrowsFor(t, p, FillQty(t.ord, p, size))
  PROVE  SellFill(t, p, FillQty(t.ord, p, size)) \in Tx
<1> DEFINE q == FillQty(t.ord, p, size)
<1>1. /\ t.order \in OrderIds /\ t.ord \in Order
      /\ t.krw \in Account /\ t.coin \in Account /\ t.qty \in Nat
  BY DEF Tx
<1>2. q \in Nat /\ p \in Nat
  BY <1>1, FillQtyBounds
<1>3. p * q \in Nat
  BY <1>2, MulMono
<1>4. FilledBy(t.ord, p, q) \in Order
  BY <1>1, FilledByType
<1>5. t.coin.locked >= q /\ t.qty >= q
  BY <1>1, <1>2 DEF FillThrowsFor, Account
<1> HIDE DEF q
<1>6. /\ [available |-> t.krw.available + p * q, locked |-> t.krw.locked] \in Account
      /\ [available |-> t.coin.available, locked |-> t.coin.locked - q] \in Account
      /\ t.qty - q \in Nat
  BY <1>1, <1>2, <1>3, <1>5 DEF Account
<1>7. SellFill(t, p, q) \in Tx
  BY <1>1, <1>4, <1>6 DEF SellFill, Tx
<1>8. QED
  BY <1>7 DEF q

-----------------------------------------------------------------------------
(* Type correctness                                                         *)

\* A transaction is open only while its run is matching; with it the types
\* are inductive.
Typed == TypeOK /\ \A r \in Runs : InTx(r) => Running(r)

\* The marker values are told apart from orders, transactions and runs.
LEMMA Present ==
  ASSUME TypeOK
  PROVE  /\ \A o \in OrderIds : orders[o].status # "NONE" => orders[o] \in Order
         /\ \A o \in OrderIds : orders[o] # NoOrder => orders[o] \in Order
         /\ \A o \in OrderIds : IsOpen(o) => orders[o] \in Order /\ orders[o] # NoOrder
         /\ \A r \in Runs : InTx(r) => tx[r] \in Tx
         /\ \A r \in Runs : Running(r) => job[r] \in Job
BY DEF TypeOK, NoOrder, NoTx, NoJob, IsOpen, InTx, Running

\* The empty ledger.
LEMMA InitTyped == Init => Typed
<1> SUFFICES ASSUME Init PROVE Typed
  OBVIOUS
<1>1. bal \in [Users -> [Assets -> Account]]
  BY DEF Init, Account
<1>2. TypeOK
  BY <1>1 DEF Init, TypeOK
<1>3. \A r \in Runs : ~InTx(r)
  BY DEF Init, InTx, NoTx
<1>4. QED
  BY <1>2, <1>3 DEF Typed

\* createOrder reserves no more than is available.
LEMMA CreateOrderTyped ==
  ASSUME Typed, NEW o \in OrderIds, NEW ord \in Order, NEW reserve \in Nat,
         CreateOrder(o, ord, reserve)
  PROVE  Typed'
<1> DEFINE u == ord.user
           a == ReservedAsset(ord)
<1>1. u \in Users /\ a \in Assets
  BY DEF Order, ReservedAsset, Assets
<1>2. bal[u][a] \in Account /\ bal[u][a].available >= reserve
  BY <1>1 DEF CreateOrder, Typed, TypeOK
<1>3. bal' = [bal EXCEPT ![u][a] = Reserved(bal[u][a], reserve)]
  BY DEF CreateOrder
<1> HIDE DEF u, a
<1>4. bal' \in [Users -> [Assets -> Account]]
  <2>1. Reserved(bal[u][a], reserve) \in Account
    BY <1>2 DEF Reserved, Account
  <2>2. QED
    BY <1>1, <1>3, <2>1 DEF Typed, TypeOK
<1>5. orders' \in [OrderIds -> Order \cup {NoOrder}]
  BY DEF CreateOrder, Typed, TypeOK
<1>6. QED
  BY <1>4, <1>5 DEF CreateOrder, Typed, TypeOK, InTx, Running

\* The record createOrder saves.
LEMMA NewOrderType ==
  ASSUME NEW u \in Users, NEW m \in Markets, NEW side \in {"BUY", "SELL"},
         NEW type \in {"LIMIT", "MARKET"}, NEW p \in Nat, NEW q \in Nat,
         NEW total \in Nat, NEW reserved \in Nat
  PROVE  NewOrder(u, m, side, type, p, q, total, reserved) \in Order
BY DEF NewOrder, Order

\* What a cancel puts back is an amount.
LEMMA ReleaseAmountType ==
  ASSUME NEW ord \in Order
  PROVE  ReleaseAmount(ord) \in Nat
<1>1. ord.price * ord.remaining \in Nat
  BY MulMono DEF Order
<1>2. QED
  BY <1>1 DEF ReleaseAmount, Order

\* cancelOrder releases no more than is locked.
LEMMA CancelOrderTyped ==
  ASSUME Typed, NEW o \in OrderIds, CancelOrder(o)
  PROVE  Typed'
<1> DEFINE ord == orders[o]
           u == ord.user
           a == ReservedAsset(ord)
           amount == ReleaseAmount(ord)
<1>1. ord \in Order
  BY Present DEF CancelOrder, Typed
<1>2. u \in Users /\ a \in Assets /\ amount \in Nat
  BY <1>1, ReleaseAmountType DEF Order, ReservedAsset, Assets
<1>3. bal[u][a] \in Account /\ bal[u][a].locked >= amount
  BY <1>2 DEF CancelOrder, Typed, TypeOK
<1>4. bal' = [bal EXCEPT ![u][a] = Restored(bal[u][a], amount)]
  BY DEF CancelOrder
<1>5. orders' \in [OrderIds -> Order \cup {NoOrder}]
  <2>1. [ord EXCEPT !.status = "CANCELED"] \in Order
    BY <1>1 DEF Order
  <2>2. QED
    BY <2>1 DEF CancelOrder, Typed, TypeOK
<1> HIDE DEF ord, u, a, amount
<1>6. bal' \in [Users -> [Assets -> Account]]
  <2>1. Restored(bal[u][a], amount) \in Account
    BY <1>2, <1>3 DEF Restored, Account
  <2>2. QED
    BY <1>2, <1>4, <2>1 DEF Typed, TypeOK
<1>7. QED
  BY <1>5, <1>6 DEF CancelOrder, Typed, TypeOK, InTx, Running

\* The requests of users.
LEMMA UserStepTyped ==
  ASSUME Typed, UserStep
  PROVE  Typed'
<1>1. PICK o \in OrderIds :
        \/ CancelOrder(o)
        \/ \E u \in Users, m \in Markets :
             \/ \E p \in Prices, q \in Quantities : CreateLimitBuy(o, u, m, p, q)
             \/ \E t \in Totals : CreateMarketBuy(o, u, m, t)
             \/ \E type \in {"LIMIT", "MARKET"}, p \in Prices, q \in Quantities :
                  CreateSell(o, u, m, type, p, q)
  BY DEF UserStep
<1>2. CASE CancelOrder(o)
  BY <1>2, CancelOrderTyped
<1>3. ASSUME NEW u \in Users, NEW m \in Markets, NEW p \in Prices, NEW q \in Quantities,
             CreateLimitBuy(o, u, m, p, q)
      PROVE  Typed'
  <2>1. p \in Nat /\ q \in Nat /\ p * q \in Nat
    BY MulMono
  <2>2. NewOrder(u, m, "BUY", "LIMIT", p, q, p * q, p * q) \in Order
    BY <2>1, NewOrderType
  <2>3. QED
    BY <1>3, <2>1, <2>2, CreateOrderTyped DEF CreateLimitBuy
<1>4. ASSUME NEW u \in Users, NEW m \in Markets, NEW t \in Totals,
             CreateMarketBuy(o, u, m, t)
      PROVE  Typed'
  <2>1. NewOrder(u, m, "BUY", "MARKET", 1, 1, t, t) \in Order
    BY NewOrderType
  <2>2. QED
    BY <1>4, <2>1, CreateOrderTyped DEF CreateMarketBuy
<1>5. ASSUME NEW u \in Users, NEW m \in Markets, NEW type \in {"LIMIT", "MARKET"},
             NEW p \in Prices, NEW q \in Quantities, CreateSell(o, u, m, type, p, q)
      PROVE  Typed'
  <2>1. NewOrder(u, m, "SELL", type, p, q, q, 0) \in Order
    BY NewOrderType
  <2>2. QED
    BY <1>5, <2>1, CreateOrderTyped DEF CreateSell
<1>6. QED
  BY <1>1, <1>2, <1>3, <1>4, <1>5

\* Taking no more than a level holds leaves a well-typed book.
LEMMA TakenType ==
  ASSUME NEW j \in Job, NEW ord \in Order, NEW p \in Prices, NEW q \in Nat,
         q <= LevelsFor(j, ord)[p]
  PROVE  Taken(j, ord.side, p, q) \in Job
<1>1. j.asks \in Levels /\ j.bids \in Levels /\ ord.side \in {"BUY", "SELL"}
  BY DEF Job, Order
<1>2. CASE ord.side = "BUY"
  <2>1. Consumed(j.asks, p, q) \in Levels
    BY <1>1, <1>2 DEF LevelsFor, Consumed, Levels
  <2>2. QED
    BY <1>2, <2>1 DEF Taken, Job
<1>3. CASE ord.side = "SELL"
  <2>1. Consumed(j.bids, p, q) \in Levels
    BY <1>1, <1>3 DEF LevelsFor, Consumed, Levels
  <2>2. QED
    BY <1>3, <2>1 DEF Taken, Job
<1>4. QED
  BY <1>1, <1>2, <1>3

\* Taking a candidate off its list, or the rest of a list away.
LEMMA DequeuedType ==
  ASSUME NEW j \in Job, NEW o \in OrderIds
  PROVE  Dequeued(j, o) \in Job
BY DEF Dequeued, Job

\* Dropping the candidates of a side whose levels are used up.
LEMMA AfterOrderType ==
  ASSUME NEW j \in Job, NEW side
  PROVE  AfterOrder(j, side) \in Job
BY DEF AfterOrder, Job

\* A job that is well typed is a run that is matching.
LEMMA StillRunning ==
  ASSUME NEW j \in Job
  PROVE  j.phase = "matching"
BY DEF Job

\* matchMarket reads the book and lists its candidates.
LEMMA StartRunTyped ==
  ASSUME Typed, NEW r \in Runs, NEW m \in Markets, NEW book \in Books,
         StartRun(r, m, book)
  PROVE  Typed'
<1> DEFINE buys == IF Offered(book.asks) = {} THEN {} ELSE Candidates(m, "BUY")
           sells == IF Offered(book.bids) = {} THEN {} ELSE Candidates(m, "SELL")
           j == [phase |-> "matching", market |-> m,
                 asks |-> book.asks, bids |-> book.bids,
                 buys |-> buys, sells |-> sells, listed |-> buys \cup sells]
<1>1. buys \in SUBSET OrderIds /\ sells \in SUBSET OrderIds
  BY DEF Candidates
<1>2. book.asks \in Levels /\ book.bids \in Levels
  BY DEF Levels
<1>3. job' = [job EXCEPT ![r] = j]
  BY DEF StartRun
<1> HIDE DEF buys, sells
<1>4. j \in Job
  BY <1>1, <1>2 DEF Job
<1> HIDE DEF j
<1>5. job' \in [Runs -> Job \cup {NoJob}]
  BY <1>3, <1>4 DEF Typed, TypeOK
<1>6. \A s \in Runs : InTx(s)' => Running(s)'
  <2>1. j.phase = "matching"
    BY <1>4, StillRunning
  <2>2. QED
    BY <1>3, <2>1 DEF StartRun, Typed, TypeOK, InTx, Running
<1>7. QED
  BY <1>5, <1>6 DEF StartRun, Typed, TypeOK

\* A step that changes only the runs: one gets a new job, and with it a
\* transaction of the right type, or loses both.
LEMMA RunChangeTyped ==
  ASSUME Typed, NEW r \in Runs,
         NEW j \in Job \cup {NoJob}, NEW t \in Tx \cup {NoTx},
         t = NoTx \/ j \in Job,
         job' = [job EXCEPT ![r] = j], tx' = [tx EXCEPT ![r] = t]
  PROVE  /\ job' \in [Runs -> Job \cup {NoJob}]
         /\ tx' \in [Runs -> Tx \cup {NoTx}]
         /\ \A s \in Runs : InTx(s)' => Running(s)'
<1>1. /\ job' \in [Runs -> Job \cup {NoJob}]
      /\ tx' \in [Runs -> Tx \cup {NoTx}]
  BY DEF Typed, TypeOK
<1>2. ASSUME NEW s \in Runs, InTx(s)' PROVE Running(s)'
  <2>1. CASE s = r
    <3>1. t # NoTx
      BY <1>2, <2>1 DEF InTx, NoTx, Typed, TypeOK
    <3>2. j.phase = "matching"
      BY <3>1, StillRunning
    <3>3. QED
      BY <2>1, <3>2 DEF Running, Typed, TypeOK
  <2>2. CASE s # r
    BY <1>2, <2>2 DEF InTx, Running, Typed, TypeOK
  <2>3. QED
    BY <2>1, <2>2
<1>3. QED
  BY <1>1, <1>2

\* A candidate no longer OPEN is passed over.
LEMMA SkipOrderTyped ==
  ASSUME Typed, NEW r \in Runs, NEW o \in OrderIds, SkipOrder(r, o)
  PROVE  Typed'
<1>1. job[r] \in Job
  BY Present DEF SkipOrder, Turn, Typed
<1>2. job' = [job EXCEPT ![r] = Dequeued(job[r], o)]
  BY DEF SkipOrder
<1>3. Dequeued(job[r], o) \in Job /\ Dequeued(job[r], o).phase = "matching"
  BY <1>1, DequeuedType, StillRunning
<1>4. job' \in [Runs -> Job \cup {NoJob}]
  BY <1>2, <1>3 DEF Typed, TypeOK
<1>5. \A s \in Runs : InTx(s)' => Running(s)'
  BY <1>2, <1>3 DEF SkipOrder, Typed, TypeOK, InTx, Running
<1>6. QED
  BY <1>4, <1>5 DEF SkipOrder, Typed, TypeOK

\* The working copies of a settlement are copies of well-typed rows.
LEMMA LockOrderTyped ==
  ASSUME Typed, NEW r \in Runs, NEW o \in OrderIds, LockOrder(r, o)
  PROVE  Typed'
<1> DEFINE ord == orders[o]
           t == [order |-> o, ord |-> ord,
                 krw |-> bal[ord.user]["KRW"],
                 coin |-> bal[ord.user][ord.market],
                 qty |-> pos[ord.user][ord.market], matched |-> FALSE]
<1>1. job[r] \in Job /\ ord \in Order
  BY Present DEF LockOrder, Turn, Typed
<1>2. Dequeued(job[r], o) \in Job
  BY <1>1, DequeuedType
<1>3. t \in Tx
  <2>1. ord.user \in Users /\ ord.market \in Markets
    BY <1>1 DEF Order
  <2>2. /\ bal[ord.user]["KRW"] \in Account
        /\ bal[ord.user][ord.market] \in Account
        /\ pos[ord.user][ord.market] \in Nat
    BY <2>1 DEF Typed, TypeOK, Assets
  <2>3. QED
    BY <1>1, <2>2 DEF Tx
<1>4. /\ job' = [job EXCEPT ![r] = Dequeued(job[r], o)]
      /\ tx' = [tx EXCEPT ![r] = t]
  BY DEF LockOrder
<1> HIDE DEF ord, t
<1>5. QED
  BY <1>2, <1>3, <1>4, RunChangeTyped DEF LockOrder, Typed, TypeOK

\* The fill a run would give its order next.
LEMMA NextFillFacts ==
  ASSUME Typed, NEW r \in Runs, NEW p \in Prices, NextFill(r, p)
  PROVE  /\ tx[r] \in Tx /\ tx[r].ord \in Order /\ job[r] \in Job
         /\ Side(r)[p] \in Nat
         /\ NextQty(r, p) = FillQty(tx[r].ord, p, Side(r)[p])
         /\ NextQty(r, p) > 0 /\ NextQty(r, p) \in Nat
         /\ NextQty(r, p) <= Side(r)[p]
<1>1. tx[r] \in Tx /\ job[r] \in Job
  BY Present DEF NextFill, Typed
<1>2. tx[r].ord \in Order /\ job[r].asks \in Levels /\ job[r].bids \in Levels
  BY <1>1 DEF Tx, Job
<1>3. Side(r)[p] \in Nat
  BY <1>2 DEF Side, LevelsFor, Levels
<1>4. /\ NextQty(r, p) = FillQty(tx[r].ord, p, Side(r)[p])
      /\ NextQty(r, p) > 0
  BY DEF NextFill, NextQty
<1>5. QED
  BY <1>1, <1>2, <1>3, <1>4, FillQtyBounds

\* One fill.
LEMMA FillTyped ==
  ASSUME Typed, NEW r \in Runs, NEW p \in Prices, Fill(r, p)
  PROVE  Typed'
<1> DEFINE q == NextQty(r, p)
           ord == tx[r].ord
           t == IF ord.side = "BUY" THEN BuyFill(tx[r], p, q)
                                    ELSE SellFill(tx[r], p, q)
           j == Taken(job[r], ord.side, p, q)
<1>1. /\ tx[r] \in Tx /\ ord \in Order /\ job[r] \in Job
      /\ Side(r)[p] \in Nat /\ q = FillQty(ord, p, Side(r)[p])
      /\ q > 0 /\ q \in Nat /\ q <= Side(r)[p]
  BY NextFillFacts DEF Fill
<1>2. j \in Job
  BY <1>1, TakenType DEF Side
<1>3. ~FillThrowsFor(tx[r], p, q)
  BY DEF Fill
<1>4. t \in Tx
  <2>1. ord.side \in {"BUY", "SELL"}
    BY <1>1 DEF Order
  <2>2. QED
    BY <1>1, <1>3, <2>1, BuyFillType, SellFillType
<1>5. tx' = [tx EXCEPT ![r] = t] /\ job' = [job EXCEPT ![r] = j]
  BY DEF Fill
<1> HIDE DEF t, j, q
<1>6. QED
  BY <1>2, <1>4, <1>5, RunChangeTyped DEF Fill, Typed, TypeOK

\* A transaction that ends without writing.
LEMMA RunOverTyped ==
  ASSUME Typed, NEW r \in Runs, NEW j \in Job \cup {NoJob},
         tx' = [tx EXCEPT ![r] = NoTx], job' = [job EXCEPT ![r] = j],
         UNCHANGED <<orders, bal, pos, funded>>
  PROVE  Typed'
BY RunChangeTyped DEF Typed, TypeOK

\* The commit of a settlement.
LEMMA SettleTyped ==
  ASSUME Typed, NEW r \in Runs, Settle(r)
  PROVE  Typed'
<1> DEFINE t == tx[r]
           u == t.ord.user
           m == t.ord.market
           j == AfterOrder(job[r], t.ord.side)
           done == Concluded(job[r], t.ord)
<1>1. t \in Tx /\ job[r] \in Job
  BY Present DEF Settle, MatchingOver, Typed
<1>2. /\ t.order \in OrderIds /\ t.ord \in Order /\ u \in Users /\ m \in Markets
      /\ t.krw \in Account /\ t.coin \in Account /\ t.qty \in Nat
  BY <1>1 DEF Tx, Order
<1>3. j \in Job
  BY <1>1, AfterOrderType
<1>4. done \in Order
  BY <1>2, ConcludedType
<1>5. /\ orders' = [orders EXCEPT ![t.order] = done]
      /\ bal' = [bal EXCEPT ![u]["KRW"] = t.krw, ![u][m] = t.coin]
      /\ pos' = [pos EXCEPT ![u][m] = t.qty]
      /\ tx' = [tx EXCEPT ![r] = NoTx] /\ job' = [job EXCEPT ![r] = j]
      /\ funded' = funded
  BY DEF Settle
<1> HIDE DEF t, u, m, j, done
<1>6. orders' \in [OrderIds -> Order \cup {NoOrder}]
  BY <1>2, <1>4, <1>5 DEF Typed, TypeOK
<1>7. bal' \in [Users -> [Assets -> Account]]
  BY <1>2, <1>5 DEF Typed, TypeOK, Assets
<1>8. pos' \in [Users -> [Markets -> Nat]]
  BY <1>2, <1>5 DEF Typed, TypeOK
<1>9. QED
  BY <1>3, <1>5, <1>6, <1>7, <1>8, RunChangeTyped DEF Typed, TypeOK

\* Every step of a run.
LEMMA RunStepTyped ==
  ASSUME Typed, NEW r \in Runs, RunStep(r)
  PROVE  Typed'
<1>1. ASSUME NEW p \in Prices, FillThrows(r, p) PROVE Typed'
  BY <1>1, RunOverTyped DEF FillThrows
<1>2. CASE NoMatch(r)
  <2>1. job[r] \in Job
    BY <1>2, Present DEF NoMatch, MatchingOver, Typed
  <2>2. AfterOrder(job[r], tx[r].ord.side) \in Job
    BY <2>1, AfterOrderType
  <2>3. QED
    BY <1>2, <2>2, RunOverTyped DEF NoMatch
<1>3. CASE FinishRun(r)
  BY <1>3 DEF FinishRun, Typed, TypeOK, InTx, Running
<1>4. CASE RunFails(r)
  BY <1>4, RunOverTyped DEF RunFails
<1>5. QED
  BY <1>1, <1>2, <1>3, <1>4, StartRunTyped, SkipOrderTyped, LockOrderTyped,
     FillTyped, SettleTyped DEF RunStep

\* A deposit replaces the available KRW.
LEMMA SetAvailableTyped ==
  ASSUME Typed, NEW u \in Users, NEW amount \in Nat, SetAvailable(u, amount)
  PROVE  Typed'
<1>1. bal[u]["KRW"] \in Account
  BY DEF Typed, TypeOK, Assets
<1>2. [available |-> amount, locked |-> bal[u]["KRW"].locked] \in Account
  BY <1>1 DEF Account
<1>3. bal' = [bal EXCEPT ![u]["KRW"] =
                [available |-> amount, locked |-> bal[u]["KRW"].locked]]
  BY DEF SetAvailable
<1>4. bal' \in [Users -> [Assets -> Account]]
  BY <1>2, <1>3 DEF Typed, TypeOK, Assets
<1>5. funded' \in [Users -> Int]
  BY <1>1 DEF SetAvailable, Typed, TypeOK, Account
<1>6. QED
  BY <1>4, <1>5 DEF SetAvailable, Typed, TypeOK, InTx, Running

\* initialize and deposit.
LEMMA FundingStepTyped ==
  ASSUME Typed, FundingStep
  PROVE  Typed'
<1>1. PICK u \in Users, amount \in Grants : Initialize(u, amount) \/ Deposit(u, amount)
  BY DEF FundingStep
<1>2. amount \in Nat
  OBVIOUS
<1>3. CASE Initialize(u, amount)
  BY <1>2, <1>3, SetAvailableTyped DEF Initialize
<1>4. CASE Deposit(u, amount)
  <2> DEFINE a == bal[u]["KRW"].available
             x == (a + amount) \div Won
  <2>1. a \in Nat
    BY DEF Typed, TypeOK, Assets, Account
  <2>2. a + amount \in Nat
    BY <1>2, <2>1
  <2>3. x \in Nat
    BY <2>2, DivisionBound
  <2> HIDE DEF x
  <2>4. x * Won \in Nat
    BY <2>3, MulMono
  <2>5. SetAvailable(u, x * Won)
    BY <1>4 DEF Deposit, x
  <2>6. QED
    BY <2>4, <2>5, SetAvailableTyped
<1>5. QED
  BY <1>1, <1>3, <1>4

\* resetBalances and setBalance.
LEMMA OverrideStepTyped ==
  ASSUME Typed, OverrideStep
  PROVE  Typed'
<1>1. ASSUME NEW u \in Users, ResetBalances(u) PROVE Typed'
  <2>1. bal' \in [Users -> [Assets -> Account]]
    BY <1>1 DEF ResetBalances, Typed, TypeOK, Account
  <2>2. bal[u]["KRW"] \in Account
    BY DEF Typed, TypeOK, Assets
  <2>3. funded' \in [Users -> Int]
    BY <1>1, <2>2 DEF ResetBalances, Typed, TypeOK, Account
  <2>4. QED
    BY <1>1, <2>1, <2>3 DEF ResetBalances, Typed, TypeOK, InTx, Running
<1>2. ASSUME NEW u \in Users, NEW a \in Assets, NEW x \in Grants, NEW y \in Grants,
             SetBalance(u, a, x, y)
      PROVE  Typed'
  <2>1. [available |-> x, locked |-> y] \in Account
    BY DEF Account
  <2>2. bal' = [bal EXCEPT ![u][a] = [available |-> x, locked |-> y]]
    BY <1>2 DEF SetBalance
  <2>3. bal' \in [Users -> [Assets -> Account]]
    BY <2>1, <2>2 DEF Typed, TypeOK
  <2>4. bal[u][a] \in Account
    BY DEF Typed, TypeOK
  <2>5. funded' \in [Users -> Int]
    BY <1>2, <2>4 DEF SetBalance, Typed, TypeOK, Account
  <2>6. QED
    BY <1>2, <2>3, <2>5 DEF SetBalance, Typed, TypeOK, InTx, Running
<1>3. QED
  BY <1>1, <1>2 DEF OverrideStep

\* No step, not even an override, leaves the types.
LEMMA NextTyped == Typed /\ [Next]_vars => Typed'
<1> SUFFICES ASSUME Typed, [Next]_vars PROVE Typed'
  OBVIOUS
<1>1. CASE UNCHANGED vars
  BY <1>1 DEF vars, Typed, TypeOK, InTx, Running
<1>2. CASE Next
  BY <1>2, UserStepTyped, RunStepTyped, FundingStepTyped, OverrideStepTyped
     DEF Next, TradingNext
<1>3. QED
  BY <1>1, <1>2

\* Every reachable state is well typed, with balances set and reset at will:
\* in particular no available or locked amount, position, remaining quantity,
\* reserved amount or level of a run's book ever goes below zero.
THEOREM TypeCorrect == Spec => []TypeOK
<1>1. Typed => TypeOK
  BY DEF Typed
<1>2. QED
  BY <1>1, InitTyped, NextTyped, PTL DEF Spec

-----------------------------------------------------------------------------
(* Claims                                                                   *)

\* The invariant contains what the type proof needs.
LEMMA InvariantTyped == LedgerInvariant => Typed
BY DEF LedgerInvariant, TxSound, Typed

\* There are finitely many orders.
LEMMA OrderIdsFinite == IsFiniteSet(OrderIds)
BY FS_Interval DEF OrderIds

\* A coin is never KRW, so its row is another row.
LEMMA MarketsAreNotKRW ==
  \A m \in Markets : m # "KRW" /\ m \in Assets /\ "KRW" \in Assets
BY DEF Assets

\* Nobody's claim is negative.
LEMMA ClaimType ==
  ASSUME NEW ord \in Order, FillsAddUp(ord)
  PROVE  Claim(ord) \in Nat
<1>1. ReleaseAmount(ord) \in Nat
  BY ReleaseAmountType
<1>2. IsMarketBuy(ord) => ord.total - ord.spent \in Nat
  BY DEF FillsAddUp, Order
<1>3. QED
  BY <1>1, <1>2 DEF Claim

\* The types of a table of orders, and what its fills add up to.
SoundTable(os) ==
  /\ os \in [OrderIds -> Order \cup {NoOrder}]
  /\ \A o \in OrderIds : os[o] # NoOrder => FillsAddUp(os[o])

\* The orders are such a table.
LEMMA OrdersTable == TypeOK /\ OrdersSound => SoundTable(orders)
BY DEF TypeOK, OrdersSound, SoundTable

\* What each order claims of an asset of a user.
LEMMA ClaimsValue ==
  ASSUME NEW os, SoundTable(os), NEW u, NEW a, NEW o \in OrderIds
  PROVE  /\ Claims(os, u, a)[o] \in Nat
         /\ Claims(os, u, a)[o] = IF os[o] # NoOrder /\ os[o].user = u
                                  THEN ClaimOn(os[o], a) ELSE 0
<1>1. CASE os[o] = NoOrder
  BY <1>1 DEF Claims
<1>2. CASE os[o] # NoOrder
  <2>1. os[o] \in Order /\ FillsAddUp(os[o])
    BY <1>2 DEF SoundTable
  <2>2. Claim(os[o]) \in Nat
    BY <2>1, ClaimType
  <2>3. QED
    BY <1>2, <2>2 DEF Claims, ClaimOn
<1>3. QED
  BY <1>1, <1>2

\* When one order changes and locked balances move with what it claims, they
\* are still what all the orders claim.
LEMMA LockedFollowsClaims ==
  ASSUME NEW os, SoundTable(os), NEW osx, SoundTable(osx), NEW o \in OrderIds,
         \A p \in OrderIds \ {o} : osx[p] = os[p],
         NEW u, NEW a, NEW locked \in Nat, NEW lockedx \in Nat,
         locked = Total(Claims(os, u, a), OrderIds),
         lockedx + Claims(os, u, a)[o] = locked + Claims(osx, u, a)[o]
  PROVE  lockedx = Total(Claims(osx, u, a), OrderIds)
<1> DEFINE f == Claims(os, u, a)
           g == Claims(osx, u, a)
<1>1. \A x \in OrderIds : f[x] \in Nat
  BY ClaimsValue
<1>2. \A x \in OrderIds : g[x] \in Nat
  BY ClaimsValue
<1>3. \A x \in OrderIds \ {o} : f[x] = g[x]
  BY DEF Claims
<1> HIDE DEF f, g
<1>4. /\ Total(f, OrderIds) \in Nat
      /\ Total(g, OrderIds) \in Nat
  BY <1>1, <1>2, OrderIdsFinite, TokensFinite
<1>5. Total(g, OrderIds) + f[o] = Total(f, OrderIds) + g[o]
  BY <1>1, <1>2, <1>3, OrderIdsFinite, TotalUpdate
<1>6. locked = Total(f, OrderIds) /\ lockedx + f[o] = locked + g[o]
  BY SMTT(60) DEF f, g
<1>7. QED
  BY <1>1, <1>2, <1>4, <1>5, <1>6 DEF g

\* Open transactions are undisturbed by a step that leaves their orders and
\* the locked part of their balances alone.
LEMMA TxUndisturbed ==
  ASSUME TxSound, TxApart, tx' = tx, job' = job,
         \A r \in Runs : InTx(r) =>
            LET u == tx[r].ord.user
                m == tx[r].ord.market
            IN /\ orders'[tx[r].order] = orders[tx[r].order]
               /\ bal'[u]["KRW"].locked = bal[u]["KRW"].locked
               /\ bal'[u][m].locked = bal[u][m].locked
  PROVE  TxSound' /\ TxApart'
<1>1. TxApart'
  BY SMTT(60) DEF TxApart, InTx
<1>2. TxSound'
  BY DEF TxSound, InTx, Running
<1>3. QED
  BY <1>1, <1>2

-----------------------------------------------------------------------------
(* The steps of users                                                       *)

\* A create or a cancel: one order changes, and the reserved asset of its user
\* moves between available and locked by what the order's claim changes.
LEMMA OrderStepSound ==
  ASSUME LedgerInvariant, TypeOK',
         NEW o \in OrderIds, NEW w \in Order, NEW acc \in Account,
         NEW u \in Users, NEW a \in Assets,
         u = w.user, a = ReservedAsset(w),
         orders' = [orders EXCEPT ![o] = w],
         bal' = [bal EXCEPT ![u][a] = acc],
         pos' = pos, job' = job, tx' = tx,
         FillsAddUp(w), StatusIsDue(w),
         orders[o] # NoOrder => orders[o].user = u /\ ReservedAsset(orders[o]) = a,
         acc.available + acc.locked = bal[u][a].available + bal[u][a].locked,
         acc.locked + (IF orders[o] = NoOrder THEN 0 ELSE Claim(orders[o]))
           = bal[u][a].locked + Claim(w),
         ~BalanceLocked(u, a), ~OrderLocked(o)
  PROVE  LedgerInvariant'
<1>1. /\ TypeOK /\ OrdersSound /\ TxSound /\ TxApart
      /\ LockedIsClaimed /\ CoinsMatchPosition
  BY DEF LedgerInvariant
<1>2. orders \in [OrderIds -> Order \cup {NoOrder}] /\ bal \in [Users -> [Assets -> Account]]
  BY <1>1 DEF TypeOK
<1>3. w # NoOrder
  <2>1. w.status # "NONE"
    BY DEF Order
  <2>2. QED
    BY <2>1 DEF NoOrder
<1>4. OrdersSound'
  BY <1>1, <1>2 DEF OrdersSound
<1>5. LockedIsClaimed'
  <2> DEFINE os == orders
             osx == orders'
  <2>1. SoundTable(os) /\ SoundTable(osx)
    BY <1>1, <1>4 DEF SoundTable, TypeOK, OrdersSound
  <2>2. osx[o] = w /\ \A p \in OrderIds \ {o} : osx[p] = os[p]
    BY <1>2
  <2>3. os[o] # NoOrder => os[o].user = u /\ ReservedAsset(os[o]) = a
    OBVIOUS
  <2>4. acc.locked + (IF os[o] = NoOrder THEN 0 ELSE Claim(os[o]))
          = bal[u][a].locked + Claim(w)
    OBVIOUS
  <2> HIDE DEF os, osx
  <2>5. ASSUME NEW v \in Users, NEW b \in Assets
        PROVE  bal'[v][b].locked = Total(Claims(osx, v, b), OrderIds)
    <3>1. bal[v][b].locked \in Nat /\ bal'[v][b].locked \in Nat
      BY <1>1 DEF TypeOK, Account
    <3>2. bal[v][b].locked = Total(Claims(os, v, b), OrderIds)
      BY <1>1 DEF LockedIsClaimed, os
    <3>3. Claims(os, v, b)[o] = IF os[o] # NoOrder /\ v = u /\ b = a
                                THEN Claim(os[o]) ELSE 0
      BY <2>1, <2>3, ClaimsValue DEF ClaimOn
    <3>4. Claims(osx, v, b)[o] = IF v = u /\ b = a THEN Claim(w) ELSE 0
      BY <1>3, <2>1, <2>2, ClaimsValue DEF ClaimOn
    <3>5. bal'[v][b].locked + Claims(os, v, b)[o]
            = bal[v][b].locked + Claims(osx, v, b)[o]
      <4>1. CASE v = u /\ b = a
        BY <1>2, <2>4, <3>3, <3>4, <4>1
      <4>2. CASE ~(v = u /\ b = a)
        <5>1. bal'[v][b] = bal[v][b]
          BY <1>2, <4>2
        <5>2. QED
          BY <3>3, <3>4, <4>2, <5>1
      <4>3. QED
        BY <4>1, <4>2
    <3> DEFINE lx == bal'[v][b].locked
               l  == bal[v][b].locked
    <3> HIDE DEF lx, l
    <3>6. /\ l \in Nat /\ lx \in Nat /\ l = Total(Claims(os, v, b), OrderIds)
          /\ lx + Claims(os, v, b)[o] = l + Claims(osx, v, b)[o]
      BY <3>1, <3>2, <3>5 DEF lx, l
    <3>7. lx = Total(Claims(osx, v, b), OrderIds)
      BY <2>1, <2>2, <3>6, LockedFollowsClaims
    <3>8. QED
      BY <3>7 DEF lx
  <2>6. QED
    BY <2>5 DEF LockedIsClaimed, osx
<1>6. CoinsMatchPosition'
  <2>1. ASSUME NEW v \in Users, NEW m \in Markets
        PROVE  bal'[v][m].available + bal'[v][m].locked = pos[v][m]
    <3>1. m \in Assets
      BY MarketsAreNotKRW
    <3>2. bal[v][m].available + bal[v][m].locked = pos[v][m]
      BY <1>1 DEF CoinsMatchPosition
    <3>3. CASE v = u /\ m = a
      BY <1>2, <3>1, <3>2, <3>3
    <3>4. CASE ~(v = u /\ m = a)
      BY <1>2, <3>1, <3>2, <3>4, SMTT(60)
    <3>5. QED
      BY <3>3, <3>4
  <2>2. QED
    BY <2>1 DEF CoinsMatchPosition
<1>7. TxSound' /\ TxApart'
  <2>1. ASSUME NEW r \in Runs, InTx(r)
        PROVE  LET v == tx[r].ord.user
                   m == tx[r].ord.market
               IN /\ orders'[tx[r].order] = orders[tx[r].order]
                  /\ bal'[v]["KRW"].locked = bal[v]["KRW"].locked
                  /\ bal'[v][m].locked = bal[v][m].locked
    <3>1. tx[r] \in Tx
      BY <1>1, <2>1, Present
    <3>2. /\ tx[r].order \in OrderIds /\ tx[r].order # o
          /\ tx[r].ord.user \in Users /\ tx[r].ord.market \in Markets
          /\ ~(tx[r].ord.user = u /\ a \in {"KRW", tx[r].ord.market})
      BY <2>1, <3>1 DEF OrderLocked, BalanceLocked, Tx, Order
    <3>3. QED
      BY <1>2, <3>2, MarketsAreNotKRW
  <2>2. QED
    BY <1>1, <2>1, TxUndisturbed, ZenonT(60)
<1>8. QED
  BY <1>4, <1>5, <1>6, <1>7 DEF LedgerInvariant

\* createOrder reserves exactly what the new order claims.
LEMMA CreateOrderSound ==
  ASSUME LedgerInvariant, TypeOK',
         NEW o \in OrderIds, NEW ord \in Order, NEW reserve \in Nat,
         FillsAddUp(ord), StatusIsDue(ord), Claim(ord) = reserve,
         CreateOrder(o, ord, reserve)
  PROVE  LedgerInvariant'
<1> DEFINE u == ord.user
           a == ReservedAsset(ord)
           acc == Reserved(bal[u][a], reserve)
<1>1. u \in Users /\ a \in Assets
  BY DEF Order, ReservedAsset, Assets
<1>2. bal[u][a] \in Account /\ bal[u][a].available >= reserve
  BY <1>1 DEF CreateOrder, LedgerInvariant, TypeOK
<1>3. /\ acc \in Account
      /\ acc.available + acc.locked = bal[u][a].available + bal[u][a].locked
      /\ acc.locked = bal[u][a].locked + reserve
  BY <1>2 DEF Reserved, Account
<1>4. ~OrderLocked(o)
  <2>1. ~IsOpen(o)
    BY DEF CreateOrder, IsOpen, NoOrder
  <2>2. QED
    BY <2>1 DEF OrderLocked, LedgerInvariant, TxSound, TxMatches, IsOpen
<1>5. /\ orders[o] = NoOrder /\ ~BalanceLocked(u, a)
      /\ orders' = [orders EXCEPT ![o] = ord]
      /\ bal' = [bal EXCEPT ![u][a] = acc]
      /\ pos' = pos /\ job' = job /\ tx' = tx
  BY DEF CreateOrder
<1>6. acc.locked + 0 = bal[u][a].locked + Claim(ord)
  BY <1>2, <1>3, SMTT(60) DEF Account
<1> HIDE DEF acc
<1>7. QED
  BY <1>1, <1>3, <1>4, <1>5, <1>6, OrderStepSound

\* cancelOrder releases exactly what the order claimed.
LEMMA CancelOrderSound ==
  ASSUME LedgerInvariant, TypeOK', NEW o \in OrderIds, CancelOrder(o)
  PROVE  LedgerInvariant'
<1> DEFINE ord == orders[o]
           w == [ord EXCEPT !.status = "CANCELED"]
           u == ord.user
           a == ReservedAsset(ord)
           amount == ReleaseAmount(ord)
           acc == Restored(bal[u][a], amount)
<1>1. ord \in Order /\ ord # NoOrder /\ ord.status = "OPEN"
  BY Present DEF CancelOrder, LedgerInvariant, IsOpen
<1>2. u \in Users /\ a \in Assets /\ amount \in Nat
  BY <1>1, ReleaseAmountType DEF Order, ReservedAsset, Assets
<1>3. bal[u][a] \in Account /\ bal[u][a].locked >= amount
  BY <1>2 DEF CancelOrder, LedgerInvariant, TypeOK
<1>4. /\ acc \in Account
      /\ acc.available + acc.locked = bal[u][a].available + bal[u][a].locked
      /\ acc.locked + amount = bal[u][a].locked
  BY <1>2, <1>3 DEF Restored, Account
<1>5. /\ w \in Order /\ w.user = u /\ ReservedAsset(w) = a
      /\ Claim(w) = 0 /\ Claim(ord) = amount
  BY <1>1 DEF Order, ReservedAsset, Claim
<1>6. FillsAddUp(w) /\ StatusIsDue(w)
  <2>1. FillsAddUp(ord) /\ StatusIsDue(ord)
    BY <1>1 DEF LedgerInvariant, OrdersSound
  <2>2. QED
    BY <1>1, <2>1 DEF FillsAddUp, StatusIsDue, IsMarketBuy, Order
<1>7. /\ ~BalanceLocked(u, a) /\ ~OrderLocked(o)
      /\ orders' = [orders EXCEPT ![o] = w]
      /\ bal' = [bal EXCEPT ![u][a] = acc]
      /\ pos' = pos /\ job' = job /\ tx' = tx
  BY DEF CancelOrder
<1>8. acc.locked + Claim(ord) = bal[u][a].locked + Claim(w)
  BY <1>2, <1>3, <1>4, <1>5 DEF Account
<1> HIDE DEF acc, w
<1>9. QED
  BY <1>1, <1>2, <1>4, <1>5, <1>6, <1>7, <1>8, OrderStepSound

\* A new order claims what createOrder reserves for it.
LEMMA UserStepSound ==
  ASSUME LedgerInvariant, TypeOK', UserStep
  PROVE  LedgerInvariant'
<1>1. PICK o \in OrderIds :
        \/ CancelOrder(o)
        \/ \E u \in Users, m \in Markets :
             \/ \E p \in Prices, q \in Quantities : CreateLimitBuy(o, u, m, p, q)
             \/ \E t \in Totals : CreateMarketBuy(o, u, m, t)
             \/ \E type \in {"LIMIT", "MARKET"}, p \in Prices, q \in Quantities :
                  CreateSell(o, u, m, type, p, q)
  BY DEF UserStep
<1>2. CASE CancelOrder(o)
  BY <1>2, CancelOrderSound
<1>3. ASSUME NEW u \in Users, NEW m \in Markets, NEW p \in Prices, NEW q \in Quantities,
             CreateLimitBuy(o, u, m, p, q)
      PROVE  LedgerInvariant'
  <2> DEFINE ord == NewOrder(u, m, "BUY", "LIMIT", p, q, p * q, p * q)
  <2>1. p \in Nat \ {0} /\ q \in Nat \ {0} /\ p * q \in Nat /\ p * 0 = 0
    BY MulMono
  <2>2. ord \in Order
    BY <2>1, NewOrderType
  <2>3. FillsAddUp(ord) /\ StatusIsDue(ord) /\ Claim(ord) = p * q
    BY <2>1 DEF NewOrder, FillsAddUp, StatusIsDue, Claim, ReleaseAmount, IsMarketBuy
  <2>4. CreateOrder(o, ord, p * q)
    BY <1>3 DEF CreateLimitBuy
  <2> HIDE DEF ord
  <2>5. QED
    BY <2>1, <2>2, <2>3, <2>4, CreateOrderSound
<1>4. ASSUME NEW u \in Users, NEW m \in Markets, NEW t \in Totals,
             CreateMarketBuy(o, u, m, t)
      PROVE  LedgerInvariant'
  <2> DEFINE ord == NewOrder(u, m, "BUY", "MARKET", 1, 1, t, t)
  <2>1. t \in Nat \ {0}
    OBVIOUS
  <2>2. ord \in Order
    BY <2>1, NewOrderType
  <2>3. FillsAddUp(ord) /\ StatusIsDue(ord) /\ Claim(ord) = t
    BY <2>1 DEF NewOrder, FillsAddUp, StatusIsDue, Claim, ReleaseAmount, IsMarketBuy
  <2>4. CreateOrder(o, ord, t)
    BY <1>4 DEF CreateMarketBuy
  <2> HIDE DEF ord
  <2>5. QED
    BY <2>1, <2>2, <2>3, <2>4, CreateOrderSound
<1>5. ASSUME NEW u \in Users, NEW m \in Markets, NEW type \in {"LIMIT", "MARKET"},
             NEW p \in Prices, NEW q \in Quantities, CreateSell(o, u, m, type, p, q)
      PROVE  LedgerInvariant'
  <2> DEFINE ord == NewOrder(u, m, "SELL", type, p, q, q, 0)
  <2>1. p \in Nat \ {0} /\ q \in Nat \ {0} /\ p * 0 = 0
    BY MulMono
  <2>2. ord \in Order
    BY <2>1, NewOrderType
  <2>3. FillsAddUp(ord) /\ StatusIsDue(ord) /\ Claim(ord) = q
    BY <2>1 DEF NewOrder, FillsAddUp, StatusIsDue, Claim, ReleaseAmount, IsMarketBuy
  <2>4. CreateOrder(o, ord, q)
    BY <1>5 DEF CreateSell
  <2> HIDE DEF ord
  <2>5. QED
    BY <2>1, <2>2, <2>3, <2>4, CreateOrderSound
<1>6. QED
  BY <1>1, <1>2, <1>3, <1>4, <1>5

\* Funding an account moves only what is available.
LEMMA FundingStepSound ==
  ASSUME LedgerInvariant, TypeOK', FundingStep
  PROVE  LedgerInvariant'
<1>0. PICK u \in Users : \E x : SetAvailable(u, x)
  BY DEF FundingStep, Initialize, Deposit
<1>1. PICK x : SetAvailable(u, x)
  BY <1>0
<1>2. /\ TypeOK /\ OrdersSound /\ TxSound /\ TxApart
      /\ LockedIsClaimed /\ CoinsMatchPosition
  BY DEF LedgerInvariant
<1>3. bal \in [Users -> [Assets -> Account]]
  BY <1>2 DEF TypeOK
<1>4. /\ orders' = orders /\ pos' = pos /\ job' = job /\ tx' = tx
      /\ bal' = [bal EXCEPT ![u]["KRW"] =
                   [available |-> x, locked |-> bal[u]["KRW"].locked]]
  BY <1>1 DEF SetAvailable
<1>5. \A v \in Users, a \in Assets : bal'[v][a].locked = bal[v][a].locked
  <2>1. ASSUME NEW v \in Users, NEW a \in Assets
        PROVE  bal'[v][a].locked = bal[v][a].locked
    <3>1. CASE v = u /\ a = "KRW"
      BY <1>3, <1>4, <3>1
    <3>2. CASE ~(v = u /\ a = "KRW")
      BY <1>3, <1>4, <3>2
    <3>3. QED
      BY <3>1, <3>2
  <2>2. QED
    BY <2>1
<1>6. \A v \in Users, m \in Markets : bal'[v][m] = bal[v][m]
  BY <1>3, <1>4, MarketsAreNotKRW
<1>7. OrdersSound'
  BY <1>2, <1>4 DEF OrdersSound
<1>8. LockedIsClaimed'
  BY <1>2, <1>4, <1>5 DEF LockedIsClaimed
<1>9. CoinsMatchPosition'
  BY <1>2, <1>4, <1>6 DEF CoinsMatchPosition
<1>10. TxSound' /\ TxApart'
  <2>1. ASSUME NEW r \in Runs, InTx(r)
        PROVE  tx[r].ord.user \in Users /\ tx[r].ord.market \in Markets
    BY <1>2, <2>1, Present DEF Tx, Order
  <2>2. QED
    BY <1>2, <1>4, <1>5, <2>1, MarketsAreNotKRW, TxUndisturbed
<1>11. QED
  BY <1>7, <1>8, <1>9, <1>10 DEF LedgerInvariant

-----------------------------------------------------------------------------
(* The steps of matching runs                                               *)

\* A step of one run that writes no row: its transaction may open, advance or
\* close, as long as its working copies match the rows.
LEMMA RunOnlySound ==
  ASSUME LedgerInvariant, Typed', NEW r \in Runs,
         orders' = orders, bal' = bal, pos' = pos,
         \A s \in Runs \ {r} : tx'[s] = tx[s],
         InTx(r)' =>
           LET t == tx'[r]
           IN /\ TxMatches(t, orders[t.order], bal[t.ord.user]["KRW"].locked,
                           bal[t.ord.user][t.ord.market].locked)
              /\ \A s \in Runs \ {r} : InTx(s) => tx[s].ord.user # t.ord.user
  PROVE  LedgerInvariant'
<1>1. /\ TypeOK /\ OrdersSound /\ TxSound /\ TxApart
      /\ LockedIsClaimed /\ CoinsMatchPosition
  BY DEF LedgerInvariant
<1>2. OrdersSound' /\ LockedIsClaimed' /\ CoinsMatchPosition'
  BY <1>1 DEF OrdersSound, LockedIsClaimed, CoinsMatchPosition
<1>3. TxSound'
  <2>1. ASSUME NEW s \in Runs, InTx(s)'
        PROVE  TxMatches(tx'[s], orders[tx'[s].order],
                         bal[tx'[s].ord.user]["KRW"].locked,
                         bal[tx'[s].ord.user][tx'[s].ord.market].locked)
    <3>1. CASE s = r
      BY <2>1, <3>1
    <3>2. CASE s # r
      <4>1. tx'[s] = tx[s] /\ InTx(s)
        BY <2>1, <3>2 DEF InTx
      <4>2. QED
        BY <1>1, <4>1 DEF TxSound
    <3>3. QED
      BY <3>1, <3>2, SMTT(60)
  <2>2. QED
    BY <2>1 DEF TxSound, Typed
<1>4. TxApart'
  BY <1>1 DEF TxApart, InTx
<1>5. QED
  BY <1>2, <1>3, <1>4 DEF LedgerInvariant, Typed

\* A candidate is locked with its user's balances and position, so nobody
\* else holds them, and the working copies equal the rows.
LEMMA LockOrderSound ==
  ASSUME LedgerInvariant, Typed', NEW r \in Runs, NEW o \in OrderIds, LockOrder(r, o)
  PROVE  LedgerInvariant'
<1> DEFINE ord == orders[o]
           t == [order |-> o, ord |-> ord,
                 krw |-> bal[ord.user]["KRW"],
                 coin |-> bal[ord.user][ord.market],
                 qty |-> pos[ord.user][ord.market], matched |-> FALSE]
<1>1. /\ TypeOK /\ OrdersSound /\ LockedIsClaimed /\ CoinsMatchPosition
  BY DEF LedgerInvariant
<1>2. ord \in Order /\ ord # NoOrder /\ ord.status = "OPEN"
  BY <1>1, Present DEF LockOrder, IsOpen
<1>3. ord.user \in Users /\ ord.market \in Markets
  BY <1>2 DEF Order
<1>4. tx' = [tx EXCEPT ![r] = t]
  BY DEF LockOrder
<1>5. tx'[r] = t /\ \A s \in Runs \ {r} : tx'[s] = tx[s]
  BY <1>1, <1>4 DEF TypeOK
<1>6. TxMatches(t, ord, bal[ord.user]["KRW"].locked, bal[ord.user][ord.market].locked)
  <2>1. FillsAddUp(ord)
    BY <1>1, <1>2 DEF OrdersSound
  <2>2. SameOrder(ord, ord)
    BY DEF SameOrder
  <2>3. bal[ord.user][ord.market].available + bal[ord.user][ord.market].locked
          = pos[ord.user][ord.market]
    BY <1>1, <1>3 DEF CoinsMatchPosition
  <2>4. QED
    BY <1>2, <2>1, <2>2, <2>3 DEF TxMatches
<1>7. \A s \in Runs \ {r} : InTx(s) => tx[s].ord.user # ord.user
  BY DEF LockOrder, BalanceLocked
<1>8. orders' = orders /\ bal' = bal /\ pos' = pos
  BY DEF LockOrder
<1>9. /\ t.order = o /\ t.ord = ord
  OBVIOUS
<1> HIDE DEF t
<1>10. QED
  BY <1>5, <1>6, <1>7, <1>8, <1>9, RunOnlySound

\* Products distribute over the quantities of fills.
LEMMA Distribution ==
  ASSUME NEW a \in Nat, NEW b \in Nat, NEW c \in Nat
  PROVE  a * (b + c) = a * b + a * c /\ a * (b - c) = a * b - a * c
OBVIOUS

\* A fill keeps an order's accounts straight, and takes from its claim what
\* the strategy takes from the locked balance.
LEMMA FilledBySound ==
  ASSUME NEW ord \in Order, NEW p \in Prices, NEW size \in Nat,
         ord.status = "OPEN", FillsAddUp(ord), FillQty(ord, p, size) > 0
  PROVE  LET q == FillQty(ord, p, size)
             w == FilledBy(ord, p, q)
         IN /\ SameOrder(w, ord)
            /\ FillsAddUp(w)
            /\ ord.side = "BUY" => Claim(w) = Claim(ord) - LockedAmount(ord, p, q)
            /\ ord.side = "SELL" => Claim(w) = Claim(ord) - q
<1> DEFINE q == FillQty(ord, p, size)
           w == FilledBy(ord, p, q)
<1>1. /\ q \in Nat /\ Acceptable(ord, p)
      /\ ~IsMarketBuy(ord) => q <= ord.remaining
      /\ IsMarketBuy(ord) => p * q <= ord.reserved
  BY FillQtyBounds
<1>2. p \in Nat \ {0} /\ p * q \in Nat
  BY <1>1, MulMono
<1> HIDE DEF q
<1>3. /\ SameOrder(w, ord)
      /\ w.filled = ord.filled + q /\ w.spent = ord.spent + p * q
      /\ w.remaining = (IF IsMarketBuy(ord) THEN ord.remaining ELSE ord.remaining - q)
      /\ w.reserved = (IF IsMarketBuy(ord) THEN ord.reserved - p * q ELSE ord.reserved)
      /\ w.side = ord.side /\ w.type = ord.type /\ w.price = ord.price
      /\ w.qty = ord.qty /\ w.total = ord.total /\ w.status = "OPEN"
  BY DEF FilledBy, SameOrder, Order
<1>4. IsMarketBuy(w) = IsMarketBuy(ord) /\ IsMarketBuy(ord) \in BOOLEAN
  BY <1>3 DEF IsMarketBuy
<1> HIDE DEF w
<1>5. /\ ord.price \in Nat /\ ord.filled \in Nat /\ ord.remaining \in Nat
      /\ ord.spent \in Nat /\ ord.reserved \in Nat /\ ord.total \in Nat /\ ord.qty \in Nat
      /\ ord.type \in {"LIMIT", "MARKET"} /\ ord.side \in {"BUY", "SELL"}
  BY DEF Order
<1>6. /\ ord.price * (ord.filled + q) = ord.price * ord.filled + ord.price * q
      /\ ord.price * (ord.remaining - q) = ord.price * ord.remaining - ord.price * q
      /\ ord.price * ord.filled \in Nat /\ ord.price * q \in Nat
      /\ ord.price * ord.remaining \in Nat
  BY <1>1, <1>5, Distribution, MulMono
<1>7. FillsAddUp(w)
  <2>1. CASE IsMarketBuy(ord)
    BY <1>1, <1>2, <1>3, <1>4, <1>5, <2>1 DEF FillsAddUp
  <2>2. CASE ~IsMarketBuy(ord)
    <3>1. w.price > 0 /\ w.filled + w.remaining = w.qty
      BY <1>1, <1>3, <1>5, <2>2 DEF FillsAddUp
    <3>2. ASSUME ord.type = "LIMIT", ord.side = "BUY"
          PROVE  w.spent <= w.price * w.filled
      <4>1. p * q <= ord.price * q
        BY <1>1, <1>2, <1>5, <3>2, MulMono DEF Acceptable
      <4>2. ord.spent <= ord.price * ord.filled
        BY <2>2, <3>2 DEF FillsAddUp
      <4>3. QED
        BY <1>2, <1>3, <1>5, <1>6, <4>1, <4>2
    <3>3. ASSUME ord.type = "LIMIT", ord.side = "SELL"
          PROVE  w.spent >= w.price * w.filled
      <4>1. ord.price * q <= p * q
        BY <1>1, <1>2, <1>5, <3>3, MulMono DEF Acceptable
      <4>2. ord.spent >= ord.price * ord.filled
        BY <2>2, <3>3 DEF FillsAddUp
      <4>3. QED
        BY <1>2, <1>3, <1>5, <1>6, <4>1, <4>2
    <3>4. QED
      BY <1>3, <1>4, <2>2, <3>1, <3>2, <3>3 DEF FillsAddUp
  <2>3. QED
    BY <2>1, <2>2
<1>8. ASSUME ord.side = "BUY"
      PROVE  Claim(w) = Claim(ord) - LockedAmount(ord, p, q)
  <2>1. CASE ord.type = "LIMIT"
    BY <1>3, <1>4, <1>6, <1>8, <2>1 DEF Claim, ReleaseAmount, LockedAmount, IsMarketBuy
  <2>2. CASE ord.type = "MARKET"
    BY <1>3, <1>4, <1>8, <2>2 DEF Claim, ReleaseAmount, LockedAmount, IsMarketBuy
  <2>3. QED
    BY <1>5, <2>1, <2>2
<1>9. ASSUME ord.side = "SELL"
      PROVE  Claim(w) = Claim(ord) - q
  BY <1>3, <1>9, SMTT(60) DEF Claim, ReleaseAmount, IsMarketBuy
<1>10. QED
  BY <1>3, <1>7, <1>8, <1>9 DEF w, q

\* The working copies go on matching the rows they were read from.
LEMMA FillSound ==
  ASSUME LedgerInvariant, Typed', NEW r \in Runs, NEW p \in Prices, Fill(r, p)
  PROVE  LedgerInvariant'
<1> DEFINE t == tx[r]
           ord == t.ord
           q == NextQty(r, p)
           w == FilledBy(ord, p, q)
           u == ord.user
           m == ord.market
           row == orders[t.order]
           krw == bal[u]["KRW"].locked
           coin == bal[u][m].locked
           x == IF ord.side = "BUY" THEN BuyFill(t, p, q) ELSE SellFill(t, p, q)
<1>1. TypeOK /\ TxSound /\ TxApart
  BY DEF LedgerInvariant
<1>2. Typed /\ NextFill(r, p) /\ InTx(r)
  BY InvariantTyped DEF Fill, NextFill
<1>3. /\ t \in Tx /\ ord \in Order /\ Side(r)[p] \in Nat
      /\ q = FillQty(ord, p, Side(r)[p]) /\ q > 0 /\ q \in Nat
  BY <1>2, NextFillFacts
<1>4. TxMatches(t, row, krw, coin)
  BY <1>1, <1>2 DEF TxSound
<1>5. ord.status = "OPEN" /\ FillsAddUp(ord)
  BY <1>4 DEF TxMatches, SameOrder
<1>6. /\ u \in Users /\ m \in Markets /\ ord.side \in {"BUY", "SELL"}
      /\ t.krw \in Account /\ t.coin \in Account /\ t.qty \in Nat
  BY <1>3 DEF Tx, Order
<1>7. /\ w \in Order /\ SameOrder(w, ord) /\ FillsAddUp(w)
      /\ ord.side = "BUY" => Claim(w) = Claim(ord) - LockedAmount(ord, p, q)
      /\ ord.side = "SELL" => Claim(w) = Claim(ord) - q
  BY <1>3, <1>5, FilledBySound, FilledByType
<1>8. Claim(ord) \in Nat /\ Claim(w) \in Nat
  BY <1>3, <1>5, <1>7, ClaimType
<1>9. /\ x.order = t.order /\ x.ord = w
      /\ x.krw.locked = (IF ord.side = "BUY" THEN t.krw.locked - LockedAmount(ord, p, q)
                                             ELSE t.krw.locked)
      /\ x.coin.locked = (IF ord.side = "BUY" THEN t.coin.locked ELSE t.coin.locked - q)
      /\ x.coin.available = (IF ord.side = "BUY" THEN t.coin.available + q
                                                 ELSE t.coin.available)
      /\ x.qty = (IF ord.side = "BUY" THEN t.qty + q ELSE t.qty - q)
  BY DEF BuyFill, SellFill
<1>10. /\ tx'[r] = x /\ \A s \in Runs \ {r} : tx'[s] = tx[s]
       /\ orders' = orders /\ bal' = bal /\ pos' = pos
  BY <1>1 DEF Fill, TypeOK
<1> HIDE DEF x, w, q
<1>11. TxMatches(x, row, krw, coin)
  <2>1. /\ row.status = "OPEN" /\ SameOrder(ord, row)
        /\ t.krw.locked + ClaimOn(row, "KRW") = krw + ClaimOn(ord, "KRW")
        /\ t.coin.locked + ClaimOn(row, row.market) = coin + ClaimOn(ord, row.market)
        /\ t.coin.available + t.coin.locked = t.qty
    BY <1>4 DEF TxMatches
  <2>2. SameOrder(w, row) /\ w.side = ord.side /\ w.market = m /\ row.market = m
    BY <1>7, <2>1 DEF SameOrder
  <2>3. /\ krw \in Nat /\ coin \in Nat
    BY <1>1, <1>6, MarketsAreNotKRW DEF TypeOK, Account
  <2>4. x.coin.available + x.coin.locked = x.qty
    BY <1>3, <1>6, <1>9, <2>1 DEF Account
  <2>5. Claim(row) \in Nat
    <3>1. t.order \in OrderIds
      BY <1>3 DEF Tx
    <3>2. row \in Order /\ row # NoOrder
      BY <1>1, <2>1, <3>1, Present DEF IsOpen
    <3>3. FillsAddUp(row)
      BY <3>1, <3>2 DEF LedgerInvariant, OrdersSound
    <3>4. QED
      BY <3>2, <3>3, ClaimType
  <2>6. CASE ord.side = "BUY"
    <3>1. /\ ClaimOn(ord, "KRW") = Claim(ord) /\ ClaimOn(w, "KRW") = Claim(w)
          /\ ClaimOn(row, "KRW") = Claim(row)
          /\ ClaimOn(ord, m) = 0 /\ ClaimOn(w, m) = 0 /\ ClaimOn(row, m) = 0
      BY <1>6, <2>1, <2>2, <2>6, MarketsAreNotKRW DEF ClaimOn, ReservedAsset, SameOrder
    <3>2. LockedAmount(ord, p, q) \in Nat
      BY <1>3, <2>6, LockedAmountBounds
    <3>3. x.krw.locked + Claim(row) = krw + Claim(w)
      BY <1>6, <1>7, <1>8, <1>9, <2>1, <2>3, <2>6, <2>5, <3>1, <3>2 DEF Account
    <3>4. x.coin.locked + 0 = coin + 0
      BY <1>9, <2>1, <2>2, <2>6, <3>1, SMTT(60)
    <3>5. QED
      BY <1>7, <1>9, <2>1, <2>2, <2>4, <3>1, <3>3, <3>4 DEF TxMatches
  <2>7. CASE ord.side = "SELL"
    <3>1. /\ ClaimOn(ord, m) = Claim(ord) /\ ClaimOn(w, m) = Claim(w)
          /\ ClaimOn(row, m) = Claim(row)
          /\ ClaimOn(ord, "KRW") = 0 /\ ClaimOn(w, "KRW") = 0 /\ ClaimOn(row, "KRW") = 0
      BY <1>6, <2>1, <2>2, <2>7, MarketsAreNotKRW, SMTT(60) DEF ClaimOn, ReservedAsset, SameOrder
    <3>2. x.coin.locked + Claim(row) = coin + Claim(w)
      BY <1>3, <1>6, <1>7, <1>8, <1>9, <2>1, <2>2, <2>3, <2>7, <2>5, <3>1 DEF Account
    <3>3. x.krw.locked + 0 = krw + 0
      BY <1>9, <2>1, <2>7, <3>1
    <3>4. QED
      BY <1>7, <1>9, <2>1, <2>2, <2>4, <3>1, <3>2, <3>3 DEF TxMatches
  <2>8. QED
    BY <1>6, <2>6, <2>7
<1>12. x.ord.user = u /\ x.ord.market = m
  BY <1>7, <1>9 DEF SameOrder
<1>13. \A s \in Runs \ {r} : InTx(s) => tx[s].ord.user # u
  BY <1>1, <1>2 DEF TxApart
<1>14. QED
  BY <1>9, <1>10, <1>11, <1>12, <1>13, RunOnlySound, ZenonT(60)

\* Giving an order its final status leaves its claim as it was: nothing, or
\* the leftover of a MARKET BUY that stays locked.
LEMMA ConcludedSound ==
  ASSUME NEW j, NEW ord \in Order, ord.status = "OPEN", FillsAddUp(ord)
  PROVE  LET w == Concluded(j, ord)
         IN /\ w \in Order /\ FillsAddUp(w) /\ StatusIsDue(w)
            /\ w.user = ord.user /\ w.market = ord.market /\ w.side = ord.side
            /\ Claim(w) = Claim(ord)
<1> DEFINE w == Concluded(j, ord)
<1>1. /\ ord.price \in Nat /\ ord.filled \in Nat /\ ord.remaining \in Nat
      /\ ord.spent \in Nat /\ ord.reserved \in Nat /\ ord.total \in Nat /\ ord.qty \in Nat
      /\ ord.type \in {"LIMIT", "MARKET"} /\ ord.side \in {"BUY", "SELL"}
  BY DEF Order
<1>2. w \in Order
  BY ConcludedType
<1>3. /\ w.user = ord.user /\ w.market = ord.market /\ w.side = ord.side
      /\ w.type = ord.type /\ w.price = ord.price /\ w.qty = ord.qty
      /\ w.total = ord.total /\ w.filled = ord.filled /\ w.spent = ord.spent
      /\ w.remaining = ord.remaining
  BY DEF Concluded, Order
<1>4. CASE IsMarketBuy(ord)
  <2>1. CASE w.status = "FILLED"
    <3>1. IsMarketBuy(w) /\ ord.type = "MARKET" /\ ord.side = "BUY"
      BY <1>3, <1>4 DEF IsMarketBuy
    <3>2. ord.price > 0 /\ ord.spent <= ord.total /\ ord.reserved + ord.spent = ord.total
      BY <1>4 DEF FillsAddUp
    <3>3. FillsAddUp(w) /\ StatusIsDue(w)
      BY <1>3, <2>1, <3>1, <3>2 DEF FillsAddUp, StatusIsDue
    <3>4. Claim(w) = ord.total - ord.spent /\ Claim(ord) = ord.reserved
      BY <1>3, <2>1, <3>1 DEF Claim, ReleaseAmount
    <3>5. Claim(w) = Claim(ord)
      BY <1>1, <3>2, <3>4
    <3>6. QED
      BY <1>2, <1>3, <3>3, <3>5
  <2>2. CASE w.status # "FILLED"
    <3>1. w = ord /\ ord.reserved > Won
      BY <1>1, <1>4, <2>2 DEF Concluded, Order
    <3>2. QED
      BY <1>1, <1>3, <1>4, <3>1 DEF StatusIsDue
  <2>3. QED
    BY <1>2, <1>3, <2>1, <2>2
<1>5. CASE ~IsMarketBuy(ord)
  <2>1. CASE ord.remaining = 0
    <3>1. w.status = "FILLED"
      BY <1>1, <1>5, <2>1 DEF Concluded, Order
    <3>2. Claim(ord) = 0
      BY <1>1, <1>5, <2>1 DEF Claim, ReleaseAmount, IsMarketBuy
    <3>3. Claim(w) = 0
      BY <1>3, <1>5, <3>1 DEF Claim, IsMarketBuy
    <3>4. FillsAddUp(w) /\ StatusIsDue(w)
      BY <1>3, <1>5, <2>1, <3>1 DEF FillsAddUp, StatusIsDue, IsMarketBuy
    <3>5. QED
      BY <1>2, <1>3, <3>2, <3>3, <3>4
  <2>2. CASE ord.remaining # 0
    <3>1. w = ord
      BY <1>1, <1>5, <2>2 DEF Concluded
    <3>2. StatusIsDue(w)
      BY <1>5, <2>2, <3>1 DEF StatusIsDue
    <3>3. QED
      BY <1>2, <3>1, <3>2
  <2>3. QED
    BY <2>1, <2>2
<1>6. QED
  BY <1>4, <1>5

\* The commit writes the working copies back: what they differ by from the
\* rows is what the order's claim has changed by.
LEMMA SettleSound ==
  ASSUME LedgerInvariant, Typed', NEW r \in Runs, Settle(r)
  PROVE  LedgerInvariant'
<1> DEFINE t == tx[r]
           o == t.order
           ord == t.ord
           u == ord.user
           m == ord.market
           w == Concluded(job[r], ord)
           row == orders[o]
<1>1. /\ TypeOK /\ OrdersSound /\ TxSound /\ TxApart
      /\ LockedIsClaimed /\ CoinsMatchPosition /\ TypeOK'
  BY DEF LedgerInvariant, Typed
<1>2. /\ orders \in [OrderIds -> Order \cup {NoOrder}]
      /\ bal \in [Users -> [Assets -> Account]]
      /\ pos \in [Users -> [Markets -> Nat]]
      /\ tx \in [Runs -> Tx \cup {NoTx}]
  BY <1>1 DEF TypeOK
<1>3. InTx(r)
  BY DEF Settle, MatchingOver
<1>4. /\ t \in Tx /\ o \in OrderIds /\ ord \in Order /\ u \in Users /\ m \in Markets
      /\ t.krw \in Account /\ t.coin \in Account /\ t.qty \in Nat
  BY <1>1, <1>3, Present DEF Tx, Order
<1>5. TxMatches(t, row, bal[u]["KRW"].locked, bal[u][m].locked)
  BY <1>1, <1>3 DEF TxSound
<1>6. /\ row.status = "OPEN" /\ SameOrder(ord, row)
      /\ FillsAddUp(ord)
      /\ t.krw.locked + ClaimOn(row, "KRW") = bal[u]["KRW"].locked + ClaimOn(ord, "KRW")
      /\ t.coin.locked + ClaimOn(row, m) = bal[u][m].locked + ClaimOn(ord, m)
      /\ t.coin.available + t.coin.locked = t.qty
      /\ ord.status = "OPEN" /\ row.user = u /\ row.market = m /\ row.side = ord.side
  BY <1>5 DEF TxMatches, SameOrder
<1>7. row \in Order /\ row # NoOrder /\ FillsAddUp(row)
  BY <1>1, <1>4, <1>6, Present DEF IsOpen, OrdersSound
<1>8. /\ w \in Order /\ FillsAddUp(w) /\ StatusIsDue(w)
      /\ w.user = u /\ w.market = m /\ w.side = ord.side
      /\ Claim(w) = Claim(ord)
  BY <1>4, <1>6, ConcludedSound
<1>9. /\ orders' = [orders EXCEPT ![o] = w]
      /\ bal' = [bal EXCEPT ![u]["KRW"] = t.krw, ![u][m] = t.coin]
      /\ pos' = [pos EXCEPT ![u][m] = t.qty]
      /\ tx' = [tx EXCEPT ![r] = NoTx]
  BY DEF Settle
<1>10. m # "KRW" /\ m \in Assets /\ "KRW" \in Assets
  BY <1>4, MarketsAreNotKRW
<1>11. w # NoOrder
  <2>1. w.status # "NONE"
    BY <1>8 DEF Order
  <2>2. QED
    BY <2>1 DEF NoOrder
<1> HIDE DEF t, o, ord, u, m, w, row
<1>12. /\ bal'[u]["KRW"] = t.krw /\ bal'[u][m] = t.coin
       /\ \A v \in Users, a \in Assets : ~(v = u /\ a \in {"KRW", m}) => bal'[v][a] = bal[v][a]
  BY <1>2, <1>4, <1>9, <1>10
<1>13. OrdersSound'
  BY <1>1, <1>2, <1>4, <1>8, <1>9 DEF OrdersSound
<1>14. LockedIsClaimed'
  <2> DEFINE os == orders
             osx == orders'
  <2>1. SoundTable(os) /\ SoundTable(osx)
    BY <1>1, <1>13 DEF SoundTable, TypeOK, OrdersSound
  <2>2. osx[o] = w /\ \A p \in OrderIds \ {o} : osx[p] = os[p]
    BY <1>2, <1>4, <1>9
  <2>3. os[o] = row
    BY DEF row
  <2> HIDE DEF os, osx
  <2>4. ASSUME NEW v \in Users, NEW b \in Assets
        PROVE  bal'[v][b].locked = Total(Claims(osx, v, b), OrderIds)
    <3> DEFINE lx == bal'[v][b].locked
               l  == bal[v][b].locked
    <3>1. l \in Nat /\ lx \in Nat
      BY <1>1 DEF TypeOK, Account
    <3>2. l = Total(Claims(os, v, b), OrderIds)
      BY <1>1 DEF LockedIsClaimed, os
    <3>3. Claims(os, v, b)[o] = IF v = u THEN ClaimOn(row, b) ELSE 0
      BY <1>4, <1>6, <1>7, <2>1, <2>3, ClaimsValue
    <3>4. Claims(osx, v, b)[o] = IF v = u THEN ClaimOn(w, b) ELSE 0
      BY <1>4, <1>8, <1>11, <2>1, <2>2, ClaimsValue
    <3>5. ClaimOn(w, b) = ClaimOn(ord, b)
      BY <1>8 DEF ClaimOn, ReservedAsset, m
    <3>6. lx + Claims(os, v, b)[o] = l + Claims(osx, v, b)[o]
      <4>1. CASE v = u /\ b = "KRW"
        BY <1>6, <1>12, <3>3, <3>4, <3>5, <4>1
      <4>2. CASE v = u /\ b = m
        BY <1>6, <1>12, <3>3, <3>4, <3>5, <4>2
      <4>3. CASE v = u /\ b \notin {"KRW", m}
        <5>1. ClaimOn(w, b) = 0 /\ ClaimOn(row, b) = 0
          BY <1>6, <1>8, <4>3 DEF ClaimOn, ReservedAsset
        <5>2. lx = l
          BY <1>12, <4>3
        <5>3. QED
          BY <3>3, <3>4, <5>1, <5>2
      <4>4. CASE v # u
        BY <1>12, <3>3, <3>4, <4>4
      <4>5. QED
        BY <4>1, <4>2, <4>3, <4>4
    <3> HIDE DEF lx, l
    <3>7. lx = Total(Claims(osx, v, b), OrderIds)
      BY <1>4, <2>1, <2>2, <3>1, <3>2, <3>6, LockedFollowsClaims
    <3>8. QED
      BY <3>7 DEF lx
  <2>5. QED
    BY <2>4 DEF LockedIsClaimed, osx
<1>15. CoinsMatchPosition'
  <2>1. ASSUME NEW v \in Users, NEW n \in Markets
        PROVE  bal'[v][n].available + bal'[v][n].locked = pos'[v][n]
    <3>1. CASE v = u /\ n = m
      BY <1>2, <1>4, <1>6, <1>9, <1>12, <3>1
    <3>2. CASE ~(v = u /\ n = m)
      <4>1. bal'[v][n] = bal[v][n]
        BY <1>12, <3>2, MarketsAreNotKRW
      <4>2. pos'[v][n] = pos[v][n]
        BY <1>2, <1>4, <1>9, <3>2
      <4>3. QED
        BY <1>1, <4>1, <4>2 DEF CoinsMatchPosition
    <3>3. QED
      BY <3>1, <3>2
  <2>2. QED
    BY <2>1 DEF CoinsMatchPosition
<1>16. ASSUME NEW s \in Runs, InTx(s)'
       PROVE  s # r /\ tx'[s] = tx[s] /\ InTx(s)
  BY <1>2, <1>9, <1>16 DEF InTx, NoTx
<1>17. TxApart'
  BY <1>1, <1>16 DEF TxApart
<1>18. TxSound'
  <2>1. ASSUME NEW s \in Runs, InTx(s)'
        PROVE  TxMatches(tx'[s], orders'[tx'[s].order],
                         bal'[tx'[s].ord.user]["KRW"].locked,
                         bal'[tx'[s].ord.user][tx'[s].ord.market].locked)
    <3> DEFINE v == tx[s].ord.user
               n == tx[s].ord.market
               p == tx[s].order
    <3>1. /\ s # r /\ tx'[s] = tx[s] /\ InTx(s)
      BY <1>16, <2>1
    <3>2. tx[s] \in Tx /\ v \in Users /\ n \in Markets /\ p \in OrderIds
      BY <1>1, <3>1, Present DEF Tx, Order
    <3>3. TxMatches(tx[s], orders[p], bal[v]["KRW"].locked, bal[v][n].locked)
      BY <1>1, <3>1 DEF TxSound
    <3>4. v # u
      BY <1>1, <1>3, <3>1 DEF TxApart, u, ord, t
    <3>5. p # o
      BY <1>6, <3>3, <3>4 DEF TxMatches, SameOrder, row
    <3>6. orders'[p] = orders[p]
      BY <1>2, <1>9, <3>2, <3>5
    <3>7. bal'[v]["KRW"] = bal[v]["KRW"] /\ bal'[v][n] = bal[v][n]
      BY <1>12, <3>2, <3>4, MarketsAreNotKRW
    <3>8. QED
      BY <3>1, <3>3, <3>6, <3>7
  <2>2. QED
    BY <2>1, SMTT(60) DEF TxSound, Typed
<1>19. QED
  BY <1>1, <1>13, <1>14, <1>15, <1>17, <1>18 DEF LedgerInvariant

\* Every step of a run keeps the invariant: only Settle writes rows.
LEMMA RunStepSound ==
  ASSUME LedgerInvariant, Typed', NEW r \in Runs, RunStep(r)
  PROVE  LedgerInvariant'
<1>1. tx \in [Runs -> Tx \cup {NoTx}]
  BY DEF LedgerInvariant, TypeOK
<1>2. ASSUME orders' = orders, bal' = bal, pos' = pos,
             tx' = tx \/ tx' = [tx EXCEPT ![r] = NoTx]
      PROVE  LedgerInvariant'
  <2>1. \A s \in Runs \ {r} : tx'[s] = tx[s]
    BY <1>1, <1>2
  <2>2. InTx(r)' => tx' = tx /\ InTx(r)
    BY <1>1, <1>2 DEF InTx, NoTx
  <2>3. InTx(r) =>
          /\ TxMatches(tx[r], orders[tx[r].order], bal[tx[r].ord.user]["KRW"].locked,
                       bal[tx[r].ord.user][tx[r].ord.market].locked)
          /\ \A s \in Runs \ {r} : InTx(s) => tx[s].ord.user # tx[r].ord.user
    BY DEF LedgerInvariant, TxSound, TxApart
  <2>4. QED
    BY <1>2, <2>1, <2>2, <2>3, RunOnlySound
<1>3. ASSUME NEW m \in Markets, NEW book \in Books, StartRun(r, m, book)
      PROVE  LedgerInvariant'
  BY <1>2, <1>3 DEF StartRun
<1>4. ASSUME NEW o \in OrderIds, SkipOrder(r, o) PROVE LedgerInvariant'
  BY <1>2, <1>4 DEF SkipOrder
<1>5. ASSUME NEW o \in OrderIds, LockOrder(r, o) PROVE LedgerInvariant'
  BY <1>5, LockOrderSound
<1>6. ASSUME NEW p \in Prices, Fill(r, p) PROVE LedgerInvariant'
  BY <1>6, FillSound
<1>7. ASSUME NEW p \in Prices, FillThrows(r, p) PROVE LedgerInvariant'
  BY <1>2, <1>7 DEF FillThrows
<1>8. CASE Settle(r)
  BY <1>8, SettleSound
<1>9. CASE NoMatch(r) \/ FinishRun(r) \/ RunFails(r)
  BY <1>2, <1>9 DEF NoMatch, FinishRun, RunFails
<1>10. QED
  BY <1>3, <1>4, <1>5, <1>6, <1>7, <1>8, <1>9 DEF RunStep

\* The empty ledger satisfies the invariant.
LEMMA InitSound == Init => LedgerInvariant
<1> SUFFICES ASSUME Init PROVE LedgerInvariant
  OBVIOUS
<1>1. TypeOK
  BY InitTyped DEF Typed
<1>2. OrdersSound
  BY DEF Init, OrdersSound
<1>3. \A r \in Runs : ~InTx(r)
  BY DEF Init, InTx, NoTx
<1>4. LockedIsClaimed
  <2>1. ASSUME NEW u \in Users, NEW a \in Assets
        PROVE  bal[u][a].locked = Total(Claims(orders, u, a), OrderIds)
    <3>1. \A o \in OrderIds : Claims(orders, u, a)[o] = 0
      BY DEF Init, Claims
    <3>2. Total(Claims(orders, u, a), OrderIds) = 0
      BY <3>1, TotalZero
    <3>3. bal[u][a].locked = 0
      BY DEF Init
    <3>4. QED
      BY <3>2, <3>3
  <2>2. QED
    BY <2>1 DEF LockedIsClaimed
<1>5. CoinsMatchPosition
  BY MarketsAreNotKRW DEF Init, CoinsMatchPosition
<1>6. QED
  BY <1>1, <1>2, <1>3, <1>4, <1>5 DEF LedgerInvariant, TxSound, TxApart

\* The invariant is inductive for trading (reset and set are left out).
LEMMA NextSound == LedgerInvariant /\ [TradingNext]_vars => LedgerInvariant'
<1> SUFFICES ASSUME LedgerInvariant, [TradingNext]_vars PROVE LedgerInvariant'
  OBVIOUS
<1>1. Typed'
  BY InvariantTyped, NextTyped DEF Next
<1>2. TypeOK'
  BY <1>1 DEF Typed
<1>3. CASE UNCHANGED vars
  BY <1>3 DEF vars, LedgerInvariant, TypeOK, OrdersSound, TxSound, TxApart,
     LockedIsClaimed, CoinsMatchPosition, InTx, Running, IsOpen
<1>4. CASE TradingNext
  BY <1>1, <1>2, <1>4, UserStepSound, FundingStepSound, RunStepSound DEF TradingNext
<1>5. QED
  BY <1>3, <1>4

\* Trading keeps the whole invariant.
THEOREM LedgerInvariantHolds == TradingSpec => []LedgerInvariant
BY InitSound, NextSound, PTL DEF TradingSpec

-----------------------------------------------------------------------------
(* The properties                                                           *)

\* Every locked balance is exactly what the user's orders claim, whatever the
\* interleaving of creates, cancels, runs and failures.
THEOREM LockedIsClaimedHolds == TradingSpec => []LockedIsClaimed
<1>1. LedgerInvariant => LockedIsClaimed
  BY DEF LedgerInvariant
<1>2. QED
  BY <1>1, LedgerInvariantHolds, PTL

\* The coins of a user, free and locked, are the quantity of the position.
THEOREM CoinsMatchPositionHolds == TradingSpec => []CoinsMatchPosition
<1>1. LedgerInvariant => CoinsMatchPosition
  BY DEF LedgerInvariant
<1>2. QED
  BY <1>1, LedgerInvariantHolds, PTL

\* What one order claims is locked.
LEMMA ClaimIsLocked ==
  ASSUME LedgerInvariant, NEW o \in OrderIds, orders[o] # NoOrder
  PROVE  LET ord == orders[o]
             a   == ReservedAsset(ord)
         IN /\ ord \in Order /\ a \in Assets /\ ord.user \in Users
            /\ Claim(ord) \in Nat
            /\ Claim(ord) <= bal[ord.user][a].locked
<1> DEFINE ord == orders[o]
           a == ReservedAsset(ord)
           u == ord.user
<1>1. TypeOK /\ OrdersSound /\ LockedIsClaimed
  BY DEF LedgerInvariant
<1>2. ord \in Order /\ FillsAddUp(ord)
  BY <1>1, Present DEF OrdersSound
<1>3. a \in Assets /\ u \in Users
  BY <1>2 DEF Order, ReservedAsset, Assets
<1>4. SoundTable(orders)
  BY <1>1, OrdersTable
<1>5. Claims(orders, u, a)[o] = Claim(ord)
  BY <1>4, ClaimsValue DEF ClaimOn
<1>6. \A x \in OrderIds : Claims(orders, u, a)[x] \in Nat
  BY <1>4, ClaimsValue
<1>7. Claims(orders, u, a)[o] <= Total(Claims(orders, u, a), OrderIds)
  BY <1>6, OrderIdsFinite, TotalBounds
<1>8. bal[u][a].locked = Total(Claims(orders, u, a), OrderIds)
  BY <1>1, <1>3 DEF LockedIsClaimed
<1>9. QED
  BY <1>2, <1>3, <1>5, <1>7, <1>8, ClaimType

\* A user can always cancel what is still OPEN: cancelOrder never throws for
\* want of a locked amount, and always has something to release.
THEOREM OpenOrdersCancellableHolds == TradingSpec => []OpenOrdersCancellable
<1>1. LedgerInvariant => OpenOrdersCancellable
  <2> SUFFICES ASSUME LedgerInvariant, NEW o \in OrderIds, IsOpen(o)
               PROVE  /\ bal[orders[o].user][ReservedAsset(orders[o])].locked
                           >= ReleaseAmount(orders[o])
                      /\ ReleaseAmount(orders[o]) > 0
    BY DEF OpenOrdersCancellable
  <2> DEFINE ord == orders[o]
  <2>1. ord \in Order /\ ord # NoOrder /\ ord.status = "OPEN"
    BY Present DEF LedgerInvariant, IsOpen
  <2>2. Claim(ord) = ReleaseAmount(ord)
    BY <2>1 DEF Claim
  <2>3. /\ Claim(ord) \in Nat
        /\ Claim(ord) <= bal[ord.user][ReservedAsset(ord)].locked
        /\ bal[ord.user][ReservedAsset(ord)].locked \in Nat
    BY <2>1, ClaimIsLocked DEF LedgerInvariant, TypeOK, Account
  <2>4. FillsAddUp(ord) /\ StatusIsDue(ord)
    BY <2>1 DEF LedgerInvariant, OrdersSound
  <2>5. ord.price \in Nat \ {0} /\ ord.remaining \in Nat /\ ord.reserved \in Nat
    BY <2>1, <2>4 DEF FillsAddUp, Order
  <2>6. ReleaseAmount(ord) > 0
    <3>1. CASE IsMarketBuy(ord)
      BY <2>1, <2>4, <2>5, <3>1 DEF ReleaseAmount, StatusIsDue, IsMarketBuy
    <3>2. CASE ~IsMarketBuy(ord)
      <4>1. ord.remaining \in Nat \ {0}
        BY <2>1, <2>4, <2>5, <3>2 DEF StatusIsDue
      <4>2. ord.price * ord.remaining > 0
        BY <2>5, <4>1
      <4>3. QED
        BY <2>1, <3>2, <4>1, <4>2 DEF ReleaseAmount, IsMarketBuy, Order
    <3>3. QED
      BY <3>1, <3>2
  <2>7. QED
    BY <2>2, <2>3, <2>6
<1>2. QED
  BY <1>1, LedgerInvariantHolds, PTL

\* No fill a run comes to is refused by release, decreaseLocked or applySell:
\* no order stops the run for the orders behind it.
THEOREM SettlementNeverThrowsHolds == TradingSpec => []SettlementNeverThrows
<1>1. LedgerInvariant => SettlementNeverThrows
  <2> SUFFICES ASSUME LedgerInvariant, NEW r \in Runs, NEW p \in Prices, NextFill(r, p)
               PROVE  ~FillThrowsFor(tx[r], p, NextQty(r, p))
    BY DEF SettlementNeverThrows
  <2> DEFINE t == tx[r]
             ord == t.ord
             q == NextQty(r, p)
             row == orders[t.order]
             u == ord.user
             m == ord.market
  <2>1. /\ t \in Tx /\ ord \in Order /\ Side(r)[p] \in Nat
        /\ q = FillQty(ord, p, Side(r)[p]) /\ q > 0 /\ q \in Nat
    BY InvariantTyped, NextFillFacts
  <2>2. TxMatches(t, row, bal[u]["KRW"].locked, bal[u][m].locked)
    BY DEF LedgerInvariant, TxSound, NextFill
  <2>3. /\ row.status = "OPEN" /\ row.user = u /\ row.market = m /\ row.side = ord.side
        /\ ord.status = "OPEN" /\ FillsAddUp(ord)
        /\ t.krw.locked + ClaimOn(row, "KRW") = bal[u]["KRW"].locked + ClaimOn(ord, "KRW")
        /\ t.coin.locked + ClaimOn(row, m) = bal[u][m].locked + ClaimOn(ord, m)
        /\ t.coin.available + t.coin.locked = t.qty
    BY <2>2 DEF TxMatches, SameOrder
  <2>4. /\ t.order \in OrderIds /\ t.krw \in Account /\ t.coin \in Account /\ t.qty \in Nat
        /\ u \in Users /\ m \in Markets /\ ord.side \in {"BUY", "SELL"}
    BY <2>1 DEF Tx, Order
  <2>5. row # NoOrder
    BY <2>3, <2>4, Present DEF LedgerInvariant, IsOpen
  <2>6. /\ Claim(row) \in Nat
        /\ Claim(row) <= bal[u][ReservedAsset(row)].locked
    BY <2>3, <2>4, <2>5, ClaimIsLocked
  <2>7. Claim(ord) \in Nat
    BY <2>1, <2>3, ClaimType
  <2>8. /\ bal[u]["KRW"].locked \in Nat /\ bal[u][m].locked \in Nat
        /\ t.krw.locked \in Nat /\ t.coin.locked \in Nat /\ t.coin.available \in Nat
    BY <2>4, MarketsAreNotKRW DEF LedgerInvariant, TypeOK, Account
  <2>9. CASE ord.side = "BUY"
    <3>1. /\ ReservedAsset(row) = "KRW"
          /\ ClaimOn(row, "KRW") = Claim(row) /\ ClaimOn(ord, "KRW") = Claim(ord)
      BY <2>3, <2>9 DEF ClaimOn, ReservedAsset
    <3>2. t.krw.locked >= Claim(ord)
      BY <2>3, <2>6, <2>7, <2>8, <3>1
    <3>3. LockedAmount(ord, p, q) \in Nat /\ LockedAmount(ord, p, q) <= Claim(ord)
      BY <2>1, <2>3, <2>9, LockedAmountBounds DEF Claim, ReleaseAmount, Order
    <3> HIDE DEF q
    <3>4. QED
      BY <2>7, <2>8, <2>9, <3>2, <3>3 DEF FillThrowsFor, q
  <2>10. CASE ord.side = "SELL"
    <3>1. /\ ReservedAsset(row) = m
          /\ ClaimOn(row, m) = Claim(row) /\ ClaimOn(ord, m) = Claim(ord)
      BY <2>3, <2>10 DEF ClaimOn, ReservedAsset
    <3>2. t.coin.locked >= Claim(ord)
      BY <2>3, <2>6, <2>7, <2>8, <3>1
    <3>3. Claim(ord) = ord.remaining /\ q <= ord.remaining
      BY <2>1, <2>3, <2>10, FillQtyBounds DEF Claim, ReleaseAmount, IsMarketBuy
    <3>4. q <= t.coin.locked /\ q <= t.qty
      BY <2>1, <2>3, <2>4, <2>7, <2>8, <3>2, <3>3
    <3>5. QED
      BY <2>1, <2>4, <2>8, <2>10, <3>4 DEF FillThrowsFor
  <2>11. QED
    BY <2>4, <2>9, <2>10
<1>2. QED
  BY <1>1, LedgerInvariantHolds, PTL

\* The fills of an order never exceed it, and add up to it once FILLED.
THEOREM FillsHonourOrderHolds == TradingSpec => []FillsHonourOrder
<1>1. LedgerInvariant => FillsHonourOrder
  <2> SUFFICES ASSUME LedgerInvariant, NEW o \in OrderIds, orders[o] # NoOrder
               PROVE  LET ord == orders[o]
                      IN IF IsMarketBuy(ord)
                         THEN /\ ord.spent <= ord.total
                              /\ ord.status = "OPEN" => ord.reserved = ord.total - ord.spent
                         ELSE /\ ord.filled + ord.remaining = ord.qty
                              /\ ord.status = "FILLED" <=> ord.remaining = 0
                              /\ ord.type = "LIMIT" =>
                                   IF ord.side = "BUY" THEN ord.spent <= ord.price * ord.filled
                                   ELSE ord.spent >= ord.price * ord.filled
    BY DEF FillsHonourOrder
  <2> DEFINE ord == orders[o]
  <2>1. FillsAddUp(ord) /\ StatusIsDue(ord)
    BY DEF LedgerInvariant, OrdersSound
  <2>2. ord \in Order
    BY Present DEF LedgerInvariant
  <2>3. /\ ord.spent \in Nat /\ ord.total \in Nat /\ ord.reserved \in Nat
        /\ ord.side \in {"BUY", "SELL"}
    BY <2>2 DEF Order
  <2>4. QED
    BY <2>1, <2>3 DEF FillsAddUp, StatusIsDue
<1>2. QED
  BY <1>1, LedgerInvariantHolds, PTL

-----------------------------------------------------------------------------
(* Money                                                                    *)

Worth(acc) == acc.available + acc.locked

\* The working copies t differ from the order and its user's KRW by the fills.
MoneySoFar(t, row, acc) ==
  /\ row # NoOrder /\ row.status = "OPEN"
  /\ t.ord.user = row.user /\ t.ord.side = row.side
  /\ IF row.side = "BUY" THEN Worth(t.krw) + t.ord.spent = Worth(acc) + row.spent
     ELSE Worth(t.krw) + row.spent = Worth(acc) + t.ord.spent

TxMoney(r) == MoneySoFar(tx[r], orders[tx[r].order], bal[tx[r].ord.user]["KRW"])

MoneySound ==
  /\ Typed
  /\ TxApart
  /\ \A r \in Runs : InTx(r) => TxMoney(r)
  /\ KrwConserved

-----------------------------------------------------------------------------
(* What the orders of a user add up to                                      *)

\* The value of an order's fills, where it is the user's on that side.
LEMMA SpentValue ==
  ASSUME NEW os \in [OrderIds -> Order \cup {NoOrder}], NEW u, NEW side, NEW o \in OrderIds
  PROVE  /\ Spent(os, u, side)[o] \in Nat
         /\ Spent(os, u, side)[o] = IF os[o] # NoOrder /\ os[o].user = u /\ os[o].side = side
                                    THEN os[o].spent ELSE 0
<1>1. os[o] # NoOrder => os[o].spent \in Nat
  BY DEF Order
<1>2. QED
  BY <1>1 DEF Spent

\* Such a sum is a number, and depends on nothing but the orders' values.
LEMMA SpentTotal ==
  ASSUME NEW os \in [OrderIds -> Order \cup {NoOrder}], NEW u, NEW side
  PROVE  Total(Spent(os, u, side), OrderIds) \in Nat
<1>1. \A o \in OrderIds : Spent(os, u, side)[o] \in Nat
  BY SpentValue
<1>2. QED
  BY <1>1, OrderIdsFinite, TokensFinite

\* When no order is filled, money comes and goes only from and to outside.
LEMMA MoneyMoves ==
  ASSUME KrwConserved, TypeOK, TypeOK',
         \A o \in OrderIds, u \in Users, side \in {"BUY", "SELL"} :
           Spent(orders', u, side)[o] = Spent(orders, u, side)[o],
         \A u \in Users : Worth(bal'[u]["KRW"]) + funded[u] = Worth(bal[u]["KRW"]) + funded'[u]
  PROVE  KrwConserved'
<1>1. ASSUME NEW u \in Users
      PROVE  Worth(bal'[u]["KRW"]) + Total(Spent(orders', u, "BUY"), OrderIds)
               = funded'[u] + Total(Spent(orders', u, "SELL"), OrderIds)
  <2> DEFINE b == Total(Spent(orders, u, "BUY"), OrderIds)
             s == Total(Spent(orders, u, "SELL"), OrderIds)
             w == Worth(bal[u]["KRW"])
             wx == Worth(bal'[u]["KRW"])
  <2>1. /\ Total(Spent(orders', u, "BUY"), OrderIds) = b
        /\ Total(Spent(orders', u, "SELL"), OrderIds) = s
    BY TotalSame
  <2>2. b \in Nat /\ s \in Nat
    BY SpentTotal DEF TypeOK
  <2>3. w \in Nat /\ wx \in Nat /\ funded[u] \in Int /\ funded'[u] \in Int
    BY DEF TypeOK, Account, Assets, Worth
  <2>4. w + b = funded[u] + s
    BY DEF KrwConserved, Worth
  <2>5. wx + funded[u] = w + funded'[u]
    OBVIOUS
  <2> HIDE DEF b, s, w, wx
  <2>6. wx + b = funded'[u] + s
    BY <2>2, <2>3, <2>4, <2>5
  <2>7. QED
    BY <2>1, <2>6 DEF wx
<1>2. QED
  BY <1>1 DEF KrwConserved, Worth

\* A step that leaves alone the rows of the transactions that stay open, and is
\* no fill of them, keeps what they have moved.
LEMMA MoneyKept ==
  ASSUME \A r \in Runs : InTx(r) => TxMoney(r),
         \A s \in Runs : InTx(s)' =>
            \/ TxMoney(s)'
            \/ /\ tx'[s] = tx[s]
               /\ orders'[tx[s].order] = orders[tx[s].order]
               /\ bal'[tx[s].ord.user]["KRW"] = bal[tx[s].ord.user]["KRW"]
  PROVE  \A r \in Runs : InTx(r)' => TxMoney(r)'
BY DEF InTx, TxMoney

-----------------------------------------------------------------------------
(* Requests                                                                 *)

\* A request: open transactions keep their rows, and no order is filled.
LEMMA RequestMoney ==
  ASSUME MoneySound, Typed', tx' = tx,
         \A o \in OrderIds : OrderLocked(o) => orders'[o] = orders[o],
         \A u \in Users : BalanceLocked(u, "KRW") => bal'[u]["KRW"] = bal[u]["KRW"],
         \A o \in OrderIds, u \in Users, side \in {"BUY", "SELL"} :
           Spent(orders', u, side)[o] = Spent(orders, u, side)[o],
         \A u \in Users : Worth(bal'[u]["KRW"]) + funded[u] = Worth(bal[u]["KRW"]) + funded'[u]
  PROVE  MoneySound'
<1>1. KrwConserved'
  BY MoneyMoves DEF MoneySound, Typed
<1>2. TxApart'
  BY DEF MoneySound, TxApart, InTx
<1>3. ASSUME NEW s \in Runs, InTx(s)'
      PROVE  /\ orders'[tx[s].order] = orders[tx[s].order]
             /\ bal'[tx[s].ord.user]["KRW"] = bal[tx[s].ord.user]["KRW"]
  <2>1. InTx(s)
    BY <1>3 DEF InTx
  <2>2. tx[s].order \in OrderIds /\ tx[s].ord.user \in Users
    BY <2>1, Present DEF MoneySound, Typed, Tx, Order
  <2>3. OrderLocked(tx[s].order) /\ BalanceLocked(tx[s].ord.user, "KRW")
    BY <2>1 DEF OrderLocked, BalanceLocked
  <2>4. QED
    BY <2>2, <2>3
<1>4. \A r \in Runs : InTx(r)' => TxMoney(r)'
  BY <1>3, MoneyKept DEF MoneySound
<1>5. QED
  BY <1>1, <1>2, <1>4 DEF MoneySound

\* One order that is not filled changes: nothing that was spent does.
LEMMA NothingSpent ==
  ASSUME TypeOK, NEW o \in OrderIds, NEW w,
         orders' = [orders EXCEPT ![o] = w],
         \/ orders[o] = NoOrder /\ w.spent = 0
         \/ /\ orders[o] # NoOrder /\ w # NoOrder /\ w.user = orders[o].user
            /\ w.side = orders[o].side /\ w.spent = orders[o].spent
  PROVE  \A p \in OrderIds, u \in Users, side \in {"BUY", "SELL"} :
           Spent(orders', u, side)[p] = Spent(orders, u, side)[p]
<1>1. orders'[o] = w /\ \A p \in OrderIds \ {o} : orders'[p] = orders[p]
  BY DEF TypeOK
<1>2. QED
  BY <1>1 DEF Spent

\* Moving x between available and locked of one row keeps what it is worth.
LEMMA RowMoves ==
  ASSUME TypeOK, NEW u \in Users, NEW a \in Assets, NEW acc,
         bal' = [bal EXCEPT ![u][a] = acc], Worth(acc) = Worth(bal[u][a]),
         funded' = funded, ~BalanceLocked(u, a)
  PROVE  /\ \A v \in Users : Worth(bal'[v]["KRW"]) + funded[v] = Worth(bal[v]["KRW"]) + funded'[v]
         /\ \A v \in Users : BalanceLocked(v, "KRW") => bal'[v]["KRW"] = bal[v]["KRW"]
<1>1. \A v \in Users, b \in Assets : bal'[v][b] = IF v = u /\ b = a THEN acc ELSE bal[v][b]
  BY DEF TypeOK
<1>2. QED
  BY <1>1 DEF Assets

\* createOrder.
LEMMA CreateMoney ==
  ASSUME MoneySound, Typed', NEW o \in OrderIds, NEW ord \in Order, NEW x \in Nat,
         ord.spent = 0, CreateOrder(o, ord, x)
  PROVE  MoneySound'
<1> DEFINE u == ord.user
           a == ReservedAsset(ord)
<1>1. u \in Users /\ a \in Assets /\ TypeOK
  BY DEF Order, ReservedAsset, Assets, MoneySound, Typed
<1>2. /\ bal' = [bal EXCEPT ![u][a] = Reserved(bal[u][a], x)]
      /\ orders' = [orders EXCEPT ![o] = ord] /\ orders[o] = NoOrder
      /\ funded' = funded /\ tx' = tx /\ ~BalanceLocked(u, a)
  BY DEF CreateOrder
<1> HIDE DEF u, a
<1>3. Worth(Reserved(bal[u][a], x)) = Worth(bal[u][a])
  BY <1>1 DEF Worth, Reserved, TypeOK, Account
<1>4. ~OrderLocked(o)
  BY <1>2 DEF OrderLocked, MoneySound, TxMoney, MoneySoFar
<1>5. \A p \in OrderIds : OrderLocked(p) => orders'[p] = orders[p]
  BY <1>1, <1>2, <1>4 DEF TypeOK
<1>6. QED
  BY <1>1, <1>2, <1>3, <1>5, NothingSpent, RowMoves, RequestMoney, ZenonT(60)

\* cancelOrder.
LEMMA CancelMoney ==
  ASSUME MoneySound, Typed', NEW o \in OrderIds, CancelOrder(o)
  PROVE  MoneySound'
<1> DEFINE ord == orders[o]
           u == ord.user
           a == ReservedAsset(ord)
           x == ReleaseAmount(ord)
           w == [ord EXCEPT !.status = "CANCELED"]
<1>1. TypeOK /\ ord \in Order /\ ord # NoOrder
  BY Present DEF MoneySound, Typed, CancelOrder
<1>2. u \in Users /\ a \in Assets /\ x \in Nat
  BY <1>1, ReleaseAmountType DEF Order, ReservedAsset, Assets
<1>3. /\ bal' = [bal EXCEPT ![u][a] = Restored(bal[u][a], x)]
      /\ orders' = [orders EXCEPT ![o] = w]
      /\ funded' = funded /\ tx' = tx /\ ~BalanceLocked(u, a) /\ ~OrderLocked(o)
  BY DEF CancelOrder
<1>4. /\ w.user = ord.user /\ w.side = ord.side /\ w.spent = ord.spent /\ w # NoOrder
  BY <1>1 DEF Order, NoOrder
<1> HIDE DEF u, a, x, w
<1>5. Worth(Restored(bal[u][a], x)) = Worth(bal[u][a])
  BY <1>1, <1>2 DEF Worth, Restored, TypeOK, Account
<1>6. \A p \in OrderIds : OrderLocked(p) => orders'[p] = orders[p]
  BY <1>1, <1>3 DEF TypeOK
<1>7. \A p \in OrderIds, v \in Users, side \in {"BUY", "SELL"} :
        Spent(orders', v, side)[p] = Spent(orders, v, side)[p]
  BY <1>1, <1>3, <1>4, NothingSpent
<1>8. /\ \A v \in Users : Worth(bal'[v]["KRW"]) + funded[v] = Worth(bal[v]["KRW"]) + funded'[v]
      /\ \A v \in Users : BalanceLocked(v, "KRW") => bal'[v]["KRW"] = bal[v]["KRW"]
  BY <1>1, <1>2, <1>3, <1>5, RowMoves
<1>9. QED
  BY <1>3, <1>6, <1>7, <1>8, RequestMoney

\* A row replaced from outside: what it changes by is what was funded.
LEMMA FundedMoney ==
  ASSUME MoneySound, Typed', tx' = tx, orders' = orders, NEW u \in Users,
         ~BalanceLocked(u, "KRW"),
         \A v \in Users \ {u} : bal'[v]["KRW"] = bal[v]["KRW"] /\ funded'[v] = funded[v],
         Worth(bal'[u]["KRW"]) + funded[u] = Worth(bal[u]["KRW"]) + funded'[u]
  PROVE  MoneySound'
<1>1. \A v \in Users : Worth(bal'[v]["KRW"]) + funded[v] = Worth(bal[v]["KRW"]) + funded'[v]
  OBVIOUS
<1>2. \A v \in Users : BalanceLocked(v, "KRW") => bal'[v]["KRW"] = bal[v]["KRW"]
  OBVIOUS
<1>3. QED
  BY <1>1, <1>2, RequestMoney

\* Deposits, resets and balances set by administrators.
LEMMA FundingMoney ==
  ASSUME MoneySound, Typed', FundingStep \/ OverrideStep
  PROVE  MoneySound'
<1>1. /\ TypeOK
      /\ \A u \in Users, a \in Assets : bal[u][a].available \in Nat /\ bal[u][a].locked \in Nat
      /\ \A u \in Users : funded[u] \in Int
  BY DEF MoneySound, Typed, TypeOK, Account
<1>2. ASSUME NEW u \in Users, NEW x \in Nat, SetAvailable(u, x) PROVE MoneySound'
  <2>1. /\ bal'[u]["KRW"] = [available |-> x, locked |-> bal[u]["KRW"].locked]
        /\ \A v \in Users \ {u} : bal'[v]["KRW"] = bal[v]["KRW"] /\ funded'[v] = funded[v]
        /\ funded'[u] = funded[u] + (x - bal[u]["KRW"].available)
        /\ tx' = tx /\ orders' = orders /\ ~BalanceLocked(u, "KRW")
    BY <1>1, <1>2 DEF SetAvailable, TypeOK, Assets
  <2>2. Worth(bal'[u]["KRW"]) + funded[u] = Worth(bal[u]["KRW"]) + funded'[u]
    BY <1>1, <2>1 DEF Worth, Assets
  <2>3. QED
    BY <2>1, <2>2, FundedMoney
<1>3. CASE FundingStep
  <2>1. PICK u \in Users, amount \in Grants : Initialize(u, amount) \/ Deposit(u, amount)
    BY <1>3 DEF FundingStep
  <2>2. CASE Initialize(u, amount)
    BY <1>2, <2>2 DEF Initialize
  <2>3. CASE Deposit(u, amount)
    <3> DEFINE d == (bal[u]["KRW"].available + amount) \div Won
    <3>1. bal[u]["KRW"].available + amount \in Nat
      BY <1>1 DEF Assets
    <3>2. d \in Nat
      BY <3>1, DivisionBound
    <3> HIDE DEF d
    <3>3. d * Won \in Nat
      BY <3>2, MulMono
    <3>4. SetAvailable(u, d * Won)
      BY <2>3 DEF Deposit, d
    <3>5. QED
      BY <1>2, <3>3, <3>4
  <2>4. QED
    BY <2>1, <2>2, <2>3
<1>4. ASSUME NEW u \in Users, ResetBalances(u) PROVE MoneySound'
  <2>1. /\ bal'[u]["KRW"] = [available |-> Seed, locked |-> 0]
        /\ \A v \in Users \ {u} : bal'[v]["KRW"] = bal[v]["KRW"] /\ funded'[v] = funded[v]
        /\ funded'[u] = funded[u] + Seed - bal[u]["KRW"].available - bal[u]["KRW"].locked
        /\ tx' = tx /\ orders' = orders /\ ~BalanceLocked(u, "KRW")
    BY <1>1, <1>4 DEF ResetBalances, TypeOK, Assets
  <2>2. Worth(bal'[u]["KRW"]) + funded[u] = Worth(bal[u]["KRW"]) + funded'[u]
    BY <1>1, <2>1 DEF Worth, Assets
  <2>3. QED
    BY <2>1, <2>2, FundedMoney
<1>5. ASSUME NEW u \in Users, NEW a \in Assets, NEW x \in Grants, NEW y \in Grants,
             SetBalance(u, a, x, y)
      PROVE  MoneySound'
  <2>1. /\ bal' = [bal EXCEPT ![u][a] = [available |-> x, locked |-> y]]
        /\ tx' = tx /\ orders' = orders /\ ~BalanceLocked(u, a) /\ x \in Nat /\ y \in Nat
    BY <1>5 DEF SetBalance
  <2>2. CASE a = "KRW"
    <3>1. /\ bal'[u]["KRW"] = [available |-> x, locked |-> y]
          /\ \A v \in Users \ {u} : bal'[v]["KRW"] = bal[v]["KRW"] /\ funded'[v] = funded[v]
          /\ funded'[u] = funded[u] + x + y - bal[u]["KRW"].available - bal[u]["KRW"].locked
      BY <1>1, <1>5, <2>1, <2>2 DEF SetBalance, TypeOK, Assets
    <3>2. Worth(bal'[u]["KRW"]) + funded[u] = Worth(bal[u]["KRW"]) + funded'[u]
      BY <1>1, <2>1, <3>1 DEF Worth, Assets
    <3>3. QED
      BY <2>1, <2>2, <3>1, <3>2, FundedMoney
  <2>3. CASE a # "KRW"
    <3>1. funded' = funded /\ \A v \in Users : bal'[v]["KRW"] = bal[v]["KRW"]
      BY <1>1, <1>5, <2>1, <2>3 DEF SetBalance, TypeOK, Assets
    <3>2. QED
      BY <2>1, <3>1, RequestMoney
  <2>4. QED
    BY <2>2, <2>3
<1>6. QED
  BY <1>3, <1>4, <1>5 DEF OverrideStep

-----------------------------------------------------------------------------
(* Runs                                                                     *)

\* A step of a run that writes no row: of the open transactions it changes its
\* own at most.
LEMMA NoWriteMoney ==
  ASSUME MoneySound, Typed', NEW r \in Runs,
         orders' = orders, bal' = bal, funded' = funded,
         \A s \in Runs \ {r} : tx'[s] = tx[s],
         InTx(r)' => /\ TxMoney(r)'
                     /\ \A s \in Runs \ {r} : InTx(s) => tx[s].ord.user # tx'[r].ord.user
  PROVE  MoneySound'
<1>1. KrwConserved'
  BY DEF MoneySound, KrwConserved
<1>2. TxApart'
  BY DEF MoneySound, TxApart, InTx
<1>3. \A s \in Runs : InTx(s)' => TxMoney(s)'
  BY MoneyKept DEF MoneySound
<1>4. QED
  BY <1>1, <1>2, <1>3 DEF MoneySound

\* The rows as they were read.
LEMMA LockMoney ==
  ASSUME MoneySound, Typed', NEW r \in Runs, NEW o \in OrderIds, LockOrder(r, o)
  PROVE  MoneySound'
<1> DEFINE ord == orders[o]
<1>1. /\ TypeOK /\ ord \in Order /\ ord # NoOrder
      /\ ~BalanceLocked(ord.user, "KRW")
      /\ orders' = orders /\ bal' = bal /\ funded' = funded
  BY Present DEF MoneySound, Typed, LockOrder
<1>2. /\ tx'[r].order = o /\ tx'[r].ord = ord /\ tx'[r].krw = bal[ord.user]["KRW"]
      /\ \A s \in Runs \ {r} : tx'[s] = tx[s]
  BY <1>1 DEF LockOrder, TypeOK
<1>3. \A s \in Runs \ {r} : InTx(s) => tx[s].ord.user # ord.user
  BY <1>1 DEF BalanceLocked
<1>4. TxMoney(r)'
  BY <1>1, <1>2 DEF TxMoney, MoneySoFar, LockOrder, IsOpen
<1>5. QED
  BY <1>1, <1>2, <1>3, <1>4, NoWriteMoney

\* A fill moves its value.
LEMMA FillMoney ==
  ASSUME MoneySound, Typed', NEW r \in Runs, NEW p \in Prices, Fill(r, p)
  PROVE  MoneySound'
<1> DEFINE t == tx[r]
           ord == t.ord
           row == orders[t.order]
           q == NextQty(r, p)
           l == LockedAmount(ord, p, q)
           x == IF ord.side = "BUY" THEN BuyFill(t, p, q) ELSE SellFill(t, p, q)
<1>1. Typed /\ TypeOK /\ NextFill(r, p) /\ InTx(r)
  BY DEF MoneySound, Typed, Fill, NextFill
<1>2. /\ t \in Tx /\ ord \in Order /\ Side(r)[p] \in Nat
      /\ q = FillQty(ord, p, Side(r)[p]) /\ q > 0 /\ q \in Nat
  BY <1>1, NextFillFacts
<1>3. MoneySoFar(t, row, bal[ord.user]["KRW"])
  BY <1>1 DEF MoneySound, TxMoney
<1>4. p * q \in Nat /\ (ord.side = "BUY" => l \in Nat)
  <2>1. p * q \in Nat
    BY <1>2, MulMono
  <2>2. ord.side = "BUY" => LockedAmount(ord, p, FillQty(ord, p, Side(r)[p])) \in Nat
    BY <1>2, LockedAmountBounds
  <2>3. QED
    BY <1>2, <2>1, <2>2
<1>5. /\ t.krw.available \in Nat /\ t.krw.locked \in Nat /\ ord.spent \in Nat
      /\ ord.side \in {"BUY", "SELL"} /\ t.order \in OrderIds /\ ord.user \in Users
  BY <1>2 DEF Tx, Account, Order
<1>6. /\ FilledBy(ord, p, q).user = ord.user /\ FilledBy(ord, p, q).side = ord.side
      /\ FilledBy(ord, p, q).spent = ord.spent + p * q
  BY <1>2 DEF FilledBy, Order
<1>7. /\ x.order = t.order /\ x.ord = FilledBy(ord, p, q)
      /\ ord.side = "BUY" => /\ x.krw.available = t.krw.available + (l - p * q)
                             /\ x.krw.locked = t.krw.locked - l
      /\ ord.side = "SELL" => /\ x.krw.available = t.krw.available + p * q
                              /\ x.krw.locked = t.krw.locked
  BY DEF BuyFill, SellFill
<1>8. /\ tx'[r] = x /\ \A s \in Runs \ {r} : tx'[s] = tx[s]
      /\ orders' = orders /\ bal' = bal /\ funded' = funded
  BY <1>1 DEF Fill, TypeOK
<1>9. /\ row.spent \in Nat /\ Worth(bal[ord.user]["KRW"]) \in Nat
  <2>1. row \in Order
    BY <1>1, <1>3, <1>5, Present DEF MoneySoFar
  <2>2. QED
    BY <1>1, <1>5, <2>1 DEF Order, Worth, TypeOK, Account, Assets
<1> HIDE DEF x, l, q, row
<1>10. MoneySoFar(x, row, bal[ord.user]["KRW"])
  <2>1. /\ row # NoOrder /\ row.status = "OPEN"
        /\ x.ord.user = row.user /\ x.ord.side = row.side /\ row.side = ord.side
    BY <1>3, <1>6, <1>7 DEF MoneySoFar
  <2>2. CASE ord.side = "BUY"
    <3>1. Worth(x.krw) = Worth(t.krw) - p * q
      BY <1>4, <1>5, <1>7, <2>2 DEF Worth
    <3>2. Worth(t.krw) + ord.spent = Worth(bal[ord.user]["KRW"]) + row.spent /\ Worth(t.krw) \in Nat
      BY <1>3, <1>5, <2>1, <2>2 DEF MoneySoFar, Worth
    <3>3. Worth(x.krw) + x.ord.spent = Worth(bal[ord.user]["KRW"]) + row.spent
      BY <1>4, <1>5, <1>6, <1>7, <1>9, <3>1, <3>2
    <3>4. QED
      BY <2>1, <2>2, <3>3 DEF MoneySoFar
  <2>3. CASE ord.side = "SELL"
    <3>1. Worth(x.krw) = Worth(t.krw) + p * q
      BY <1>4, <1>5, <1>7, <2>3 DEF Worth
    <3>2. Worth(t.krw) + row.spent = Worth(bal[ord.user]["KRW"]) + ord.spent /\ Worth(t.krw) \in Nat
      BY <1>3, <1>5, <2>1, <2>3 DEF MoneySoFar, Worth
    <3>3. Worth(x.krw) + row.spent = Worth(bal[ord.user]["KRW"]) + x.ord.spent
      BY <1>4, <1>5, <1>6, <1>7, <1>9, <3>1, <3>2
    <3>4. QED
      BY <2>1, <2>3, <3>3 DEF MoneySoFar
  <2>4. QED
    BY <1>5, <2>2, <2>3
<1>11. x.ord.user = ord.user
  BY <1>6, <1>7
<1>12. TxMoney(r)'
  BY <1>7, <1>8, <1>10, <1>11 DEF TxMoney, row
<1>13. \A s \in Runs \ {r} : InTx(s) => tx[s].ord.user # ord.user
  BY <1>1 DEF MoneySound, TxApart
<1>14. QED
  BY <1>8, <1>11, <1>12, <1>13, NoWriteMoney

\* Writing the copies back moves in the row what the fills add to the order.
LEMMA SettleMoney ==
  ASSUME MoneySound, Typed', NEW r \in Runs, Settle(r)
  PROVE  MoneySound'
<1> DEFINE t == tx[r]
           o == t.order
           u == t.ord.user
           m == t.ord.market
           row == orders[o]
           w == Concluded(job[r], t.ord)
<1>1. /\ TypeOK /\ TypeOK' /\ TxApart /\ KrwConserved /\ InTx(r)
      /\ MoneySoFar(t, row, bal[u]["KRW"])
  BY DEF MoneySound, Typed, Settle, MatchingOver, TxMoney
<1>2. t \in Tx
  BY <1>1, Present
<1>3. /\ o \in OrderIds /\ u \in Users /\ m \in Markets /\ t.ord \in Order
      /\ t.krw \in Account
  BY <1>2 DEF Tx, Order
<1>4. row \in Order /\ row # NoOrder
  BY <1>1, <1>3, Present DEF MoneySoFar
<1>5. /\ w \in Order /\ w.user = u /\ w.side = row.side /\ w.spent = t.ord.spent
      /\ row.user = u
  <2>1. w \in Order
    BY <1>3, ConcludedType
  <2>2. w.user = t.ord.user /\ w.side = t.ord.side /\ w.spent = t.ord.spent
    BY <1>3 DEF Concluded, Order
  <2>3. QED
    BY <1>1, <2>1, <2>2 DEF MoneySoFar
<1>6. w # NoOrder
  BY <1>5 DEF Order, NoOrder
<1>7. m # "KRW" /\ m \in Assets /\ "KRW" \in Assets
  BY <1>3, MarketsAreNotKRW
<1>8. /\ orders' = [orders EXCEPT ![o] = w]
      /\ bal' = [bal EXCEPT ![u]["KRW"] = t.krw, ![u][m] = t.coin]
      /\ tx' = [tx EXCEPT ![r] = NoTx] /\ funded' = funded
  BY DEF Settle
<1> HIDE DEF t, o, u, m, row, w
<1>9. /\ bal'[u]["KRW"] = t.krw
      /\ \A v \in Users \ {u} : bal'[v] = bal[v]
      /\ orders'[o] = w /\ \A p \in OrderIds \ {o} : orders'[p] = orders[p]
  BY <1>1, <1>3, <1>7, <1>8 DEF TypeOK
<1>10. KrwConserved'
  <2>1. ASSUME NEW v \in Users
        PROVE  Worth(bal'[v]["KRW"]) + Total(Spent(orders', v, "BUY"), OrderIds)
                 = funded'[v] + Total(Spent(orders', v, "SELL"), OrderIds)
    <3> DEFINE b  == Total(Spent(orders, v, "BUY"), OrderIds)
               s  == Total(Spent(orders, v, "SELL"), OrderIds)
               bx == Total(Spent(orders', v, "BUY"), OrderIds)
               sx == Total(Spent(orders', v, "SELL"), OrderIds)
               worth  == Worth(bal[v]["KRW"])
               worthx == Worth(bal'[v]["KRW"])
    <3>1. /\ b \in Nat /\ s \in Nat /\ bx \in Nat /\ sx \in Nat
      BY <1>1, SpentTotal DEF TypeOK
    <3>2. worth + b = funded[v] + s /\ funded'[v] = funded[v]
      BY <1>1, <1>8 DEF KrwConserved, Worth
    <3>3. worth \in Nat /\ worthx \in Nat /\ funded[v] \in Int
      BY <1>1 DEF TypeOK, Account, Assets, Worth
    <3>4. ASSUME NEW side \in {"BUY", "SELL"}
          PROVE  Total(Spent(orders', v, side), OrderIds) + Spent(orders, v, side)[o]
                   = Total(Spent(orders, v, side), OrderIds) + Spent(orders', v, side)[o]
      <4>1. \A p \in OrderIds : Spent(orders, v, side)[p] \in Nat
        BY <1>1, SpentValue DEF TypeOK
      <4>2. \A p \in OrderIds : Spent(orders', v, side)[p] \in Nat
        BY <1>1, SpentValue DEF TypeOK
      <4>3. \A p \in OrderIds \ {o} : Spent(orders, v, side)[p] = Spent(orders', v, side)[p]
        BY <1>9 DEF Spent
      <4>4. QED
        BY <1>3, <4>1, <4>2, <4>3, OrderIdsFinite, TotalUpdate
    <3>5. ASSUME NEW side \in {"BUY", "SELL"}
          PROVE  /\ Spent(orders, v, side)[o] = IF v = u /\ side = row.side THEN row.spent ELSE 0
                 /\ Spent(orders', v, side)[o] = IF v = u /\ side = row.side THEN t.ord.spent ELSE 0
      BY <1>3, <1>4, <1>5, <1>6, <1>9 DEF Spent, row
    <3>6. row.spent \in Nat /\ t.ord.spent \in Nat /\ row.side \in {"BUY", "SELL"}
      BY <1>3, <1>4 DEF Order
    <3>7. CASE v # u
      <4>1. worthx = worth
        BY <1>9, <3>7
      <4>2. bx + 0 = b + 0 /\ sx + 0 = s + 0
        BY <3>4, <3>5, <3>7
      <4> HIDE DEF b, s, bx, sx, worth, worthx
      <4>3. worthx + bx = funded'[v] + sx
        BY <3>1, <3>2, <4>1, <4>2
      <4>4. QED
        BY <4>3 DEF worthx, bx, sx
    <3>8. CASE v = u /\ row.side = "BUY"
      <4>1. worthx + t.ord.spent = worth + row.spent
        BY <1>1, <1>9, <3>8 DEF MoneySoFar
      <4>2. bx + row.spent = b + t.ord.spent /\ sx + 0 = s + 0
        BY <3>4, <3>5, <3>8
      <4> HIDE DEF b, s, bx, sx, worth, worthx
      <4>3. worthx + bx = funded'[v] + sx
        BY <3>1, <3>2, <3>3, <3>6, <4>1, <4>2
      <4>4. QED
        BY <4>3 DEF worthx, bx, sx
    <3>9. CASE v = u /\ row.side = "SELL"
      <4>1. worthx + row.spent = worth + t.ord.spent
        BY <1>1, <1>9, <3>9 DEF MoneySoFar
      <4>2. bx + 0 = b + 0 /\ sx + row.spent = s + t.ord.spent
        BY <3>4, <3>5, <3>9
      <4> HIDE DEF b, s, bx, sx, worth, worthx
      <4>3. worthx + bx = funded'[v] + sx
        BY <3>1, <3>2, <3>3, <3>6, <4>1, <4>2
      <4>4. QED
        BY <4>3 DEF worthx, bx, sx
    <3>10. QED
      BY <3>6, <3>7, <3>8, <3>9
  <2>2. QED
    BY <2>1 DEF KrwConserved, Worth
<1>11. ASSUME NEW s \in Runs, InTx(s)'
       PROVE  s # r /\ tx'[s] = tx[s] /\ InTx(s)
  BY <1>1, <1>8, <1>11 DEF InTx, NoTx, TypeOK
<1>12. TxApart'
  BY <1>1, <1>11 DEF TxApart
<1>13. ASSUME NEW s \in Runs, InTx(s)'
       PROVE  /\ tx'[s] = tx[s]
              /\ orders'[tx[s].order] = orders[tx[s].order]
              /\ bal'[tx[s].ord.user]["KRW"] = bal[tx[s].ord.user]["KRW"]
  <2>1. s # r /\ tx'[s] = tx[s] /\ InTx(s)
    BY <1>11, <1>13
  <2>2. tx[s].order \in OrderIds /\ tx[s].ord.user \in Users
    BY <1>1, <2>1, Present DEF Tx, Order
  <2>3. tx[s].ord.user # u
    BY <1>1, <2>1 DEF TxApart, u, t
  <2>4. orders[tx[s].order].user = tx[s].ord.user
    BY <2>1 DEF MoneySound, TxMoney, MoneySoFar
  <2>5. tx[s].order # o
    BY <1>5, <2>3, <2>4 DEF row
  <2>6. QED
    BY <1>9, <2>1, <2>2, <2>3, <2>5
<1>14. \A s \in Runs : InTx(s)' => TxMoney(s)'
  BY <1>13, MoneyKept DEF MoneySound
<1>15. QED
  BY <1>10, <1>12, <1>14 DEF MoneySound

-----------------------------------------------------------------------------
\* Every step, overrides included, keeps account of the money.
LEMMA NextMoney == MoneySound /\ [Next]_vars => MoneySound'
<1> SUFFICES ASSUME MoneySound, [Next]_vars PROVE MoneySound'
  OBVIOUS
<1>1. Typed' /\ TypeOK
  BY NextTyped DEF MoneySound, Typed
<1>2. CASE UNCHANGED vars
  BY <1>1, <1>2, RequestMoney DEF vars
<1>3. CASE UserStep
  <2>1. PICK o \in OrderIds :
          \/ CancelOrder(o)
          \/ \E u \in Users, m \in Markets :
               \/ \E p \in Prices, q \in Quantities : CreateLimitBuy(o, u, m, p, q)
               \/ \E t \in Totals : CreateMarketBuy(o, u, m, t)
               \/ \E type \in {"LIMIT", "MARKET"}, p \in Prices, q \in Quantities :
                    CreateSell(o, u, m, type, p, q)
    BY <1>3 DEF UserStep
  <2>2. CASE CancelOrder(o)
    BY <1>1, <2>2, CancelMoney
  <2>3. ASSUME NEW u \in Users, NEW m \in Markets, NEW p \in Prices, NEW q \in Quantities,
               CreateLimitBuy(o, u, m, p, q)
        PROVE  MoneySound'
    <3>1. p \in Nat /\ q \in Nat /\ p * q \in Nat
      BY MulMono
    <3>2. NewOrder(u, m, "BUY", "LIMIT", p, q, p * q, p * q) \in Order
      BY <3>1, NewOrderType
    <3>3. NewOrder(u, m, "BUY", "LIMIT", p, q, p * q, p * q).spent = 0
      BY DEF NewOrder
    <3>4. QED
      BY <1>1, <2>3, <3>1, <3>2, <3>3, CreateMoney DEF CreateLimitBuy
  <2>4. ASSUME NEW u \in Users, NEW m \in Markets, NEW t \in Totals,
               CreateMarketBuy(o, u, m, t)
        PROVE  MoneySound'
    <3>1. NewOrder(u, m, "BUY", "MARKET", 1, 1, t, t) \in Order /\ t \in Nat
      BY NewOrderType
    <3>2. NewOrder(u, m, "BUY", "MARKET", 1, 1, t, t).spent = 0
      BY DEF NewOrder
    <3>3. QED
      BY <1>1, <2>4, <3>1, <3>2, CreateMoney DEF CreateMarketBuy
  <2>5. ASSUME NEW u \in Users, NEW m \in Markets, NEW type \in {"LIMIT", "MARKET"},
               NEW p \in Prices, NEW q \in Quantities, CreateSell(o, u, m, type, p, q)
        PROVE  MoneySound'
    <3>1. NewOrder(u, m, "SELL", type, p, q, q, 0) \in Order /\ q \in Nat
      BY NewOrderType
    <3>2. NewOrder(u, m, "SELL", type, p, q, q, 0).spent = 0
      BY DEF NewOrder
    <3>3. QED
      BY <1>1, <2>5, <3>1, <3>2, CreateMoney DEF CreateSell
  <2>6. QED
    BY <2>1, <2>2, <2>3, <2>4, <2>5
<1>4. CASE FundingStep \/ OverrideStep
  BY <1>1, <1>4, FundingMoney
<1>5. ASSUME NEW r \in Runs, RunStep(r) PROVE MoneySound'
  <2>1. ASSUME orders' = orders, bal' = bal, funded' = funded,
               tx' = tx \/ tx' = [tx EXCEPT ![r] = NoTx]
        PROVE  MoneySound'
    <3>1. \A s \in Runs \ {r} : tx'[s] = tx[s]
      BY <1>1, <2>1 DEF TypeOK
    <3>2. InTx(r)' => tx' = tx /\ InTx(r)
      BY <1>1, <2>1 DEF InTx, NoTx, TypeOK
    <3>3. InTx(r) => TxMoney(r) /\ \A s \in Runs \ {r} : InTx(s) => tx[s].ord.user # tx[r].ord.user
      BY DEF MoneySound, TxApart
    <3>4. InTx(r)' => TxMoney(r)'
      BY <2>1, <3>2, <3>3 DEF TxMoney
    <3>5. QED
      BY <1>1, <2>1, <3>1, <3>2, <3>3, <3>4, NoWriteMoney
  <2>2. ASSUME NEW o \in OrderIds, LockOrder(r, o) PROVE MoneySound'
    BY <1>1, <2>2, LockMoney
  <2>3. ASSUME NEW p \in Prices, Fill(r, p) PROVE MoneySound'
    BY <1>1, <2>3, FillMoney
  <2>4. CASE Settle(r)
    BY <1>1, <2>4, SettleMoney
  <2>5. CASE \/ \E m \in Markets, book \in Books : StartRun(r, m, book)
             \/ \E o \in OrderIds : SkipOrder(r, o)
             \/ \E p \in Prices : FillThrows(r, p)
             \/ NoMatch(r) \/ FinishRun(r) \/ RunFails(r)
    BY <2>1, <2>5 DEF StartRun, SkipOrder, FillThrows, NoMatch, FinishRun, RunFails
  <2>6. QED
    BY <1>5, <2>2, <2>3, <2>4, <2>5 DEF RunStep
<1>6. QED
  BY <1>2, <1>3, <1>4, <1>5 DEF Next, TradingNext

\* At first there is no money and no order.
LEMMA InitMoney == Init => MoneySound
<1> SUFFICES ASSUME Init PROVE MoneySound
  OBVIOUS
<1>1. Typed
  BY InitTyped
<1>2. \A r \in Runs : ~InTx(r)
  BY DEF Init, InTx, NoTx
<1>3. ASSUME NEW u \in Users PROVE Worth(bal[u]["KRW"]) = 0 /\ funded[u] = 0
  BY DEF Init, Worth, Assets
<1>4. ASSUME NEW u \in Users, NEW side \in {"BUY", "SELL"}
      PROVE  Total(Spent(orders, u, side), OrderIds) = 0
  <2>1. \A o \in OrderIds : Spent(orders, u, side)[o] = 0
    BY DEF Init, Spent
  <2>2. QED
    BY <2>1, TotalZero
<1>5. KrwConserved
  BY <1>3, <1>4 DEF KrwConserved, Worth
<1>6. QED
  BY <1>1, <1>2, <1>5 DEF MoneySound, TxApart

\* KRW is conserved: a user's balance is what came from outside, less the value
\* of the buys' fills, plus that of the sells', whatever runs interleave, fail,
\* or are overtaken by resets.
THEOREM KrwConservedHolds == Spec => []KrwConserved
<1>1. MoneySound => KrwConserved
  BY DEF MoneySound
<1>2. QED
  BY <1>1, InitMoney, NextMoney, PTL DEF Spec

-----------------------------------------------------------------------------
\* A step that changes an order finds it missing or OPEN.
LEMMA OnlyOpenChanges ==
  ASSUME MoneySound, [Next]_vars, NEW o \in OrderIds,
         orders[o].status \in {"FILLED", "CANCELED"}
  PROVE  orders'[o] = orders[o]
<1>1. TypeOK
  BY DEF MoneySound, Typed
<1>2. ASSUME NEW p \in OrderIds, NEW ord, NEW x, CreateOrder(p, ord, x)
      PROVE  orders'[o] = orders[o]
  BY <1>1, <1>2 DEF CreateOrder, NoOrder, TypeOK
<1>3. ASSUME NEW p \in OrderIds, CancelOrder(p) PROVE orders'[o] = orders[o]
  BY <1>1, <1>3 DEF CancelOrder, IsOpen, TypeOK
<1>4. ASSUME NEW r \in Runs, Settle(r) PROVE orders'[o] = orders[o]
  <2>1. InTx(r)
    BY <1>4 DEF Settle, MatchingOver
  <2>2. orders[tx[r].order].status = "OPEN"
    BY <2>1 DEF MoneySound, TxMoney, MoneySoFar
  <2>3. orders' = [orders EXCEPT ![tx[r].order] = Concluded(job[r], tx[r].ord)]
    BY <1>4 DEF Settle
  <2>4. QED
    BY <1>1, <2>2, <2>3 DEF TypeOK
<1>5. CASE UserStep
  BY <1>2, <1>3, <1>5 DEF UserStep, CreateLimitBuy, CreateMarketBuy, CreateSell
<1>6. CASE FundingStep \/ OverrideStep
  BY <1>6 DEF FundingStep, OverrideStep, Initialize, Deposit, SetAvailable,
     ResetBalances, SetBalance
<1>7. ASSUME NEW r \in Runs, RunStep(r) PROVE orders'[o] = orders[o]
  BY <1>4, <1>7 DEF RunStep, StartRun, SkipOrder, LockOrder, Fill, FillThrows, NoMatch,
     FinishRun, RunFails
<1>8. QED
  BY <1>5, <1>6, <1>7 DEF Next, TradingNext, vars

\* A FILLED or CANCELED order is never touched again, so of a cancel and a run
\* that race for an order only one takes effect.
THEOREM TerminalOrdersFrozenHolds == Spec => TerminalOrdersFrozen
<1>1. MoneySound /\ [Next]_vars
        => [\A o \in OrderIds :
              orders[o].status \in {"FILLED", "CANCELED"} => orders'[o] = orders[o]]_vars
  BY OnlyOpenChanges
<1>2. QED
  BY <1>1, InitMoney, NextMoney, PTL DEF Spec, TerminalOrdersFrozen

-----------------------------------------------------------------------------
(* Priority: the invariant                                                  *)

\* An OPEN order that would take nothing at the level its run comes to next.
Sated(j, ord) ==
  ord.status = "OPEN" =>
    \A p \in Prices : IsBest(LevelsFor(j, ord), ord.side, p) => FillQty(ord, p, 1) = 0

\* The candidates of the order's side that are still to come.
QueueFor(j, ord) == IF ord.side = "BUY" THEN j.buys ELSE j.sells

\* Row b may be what row a has become: the terms of an order stay, and what is
\* left of it only shrinks.
Later(a, b) ==
  /\ b # NoOrder /\ b.type = a.type /\ b.side = a.side /\ b.price = a.price
  /\ b.status = "OPEN" => /\ a.status = "OPEN"
                          /\ b.remaining <= a.remaining /\ b.reserved <= a.reserved

\* Every candidate of a run is still to come, being settled, or sated; those
\* to come stand behind the one being settled.
QueueSound(r) ==
  /\ job[r].buys \subseteq job[r].listed /\ job[r].sells \subseteq job[r].listed
  /\ \A o \in job[r].listed : orders[o] # NoOrder
  /\ \A o \in job[r].buys : orders[o].side = "BUY"
  /\ \A o \in job[r].sells : orders[o].side = "SELL"
  /\ \A o \in job[r].listed :
       \/ o \in QueueFor(job[r], orders[o])
       \/ InTx(r) /\ tx[r].order = o
       \/ Sated(job[r], orders[o])

TxFirst(r) ==
  /\ tx[r].order \in job[r].listed
  /\ \A o \in QueueFor(job[r], tx[r].ord) : Precedes(tx[r].order, o)
  /\ Later(orders[tx[r].order], tx[r].ord)
  /\ ~tx[r].matched => tx[r].ord = orders[tx[r].order]

RunInOrder(r) == /\ Running(r) => QueueSound(r)
                 /\ InTx(r) => TxFirst(r)

PrioritySound == MoneySound /\ \A r \in Runs : RunInOrder(r)

-----------------------------------------------------------------------------
(* What an order takes                                                      *)

\* A quotient is zero exactly when the amount is below the price.
LEMMA QuotientZero ==
  ASSUME NEW x \in Nat, NEW p \in Nat \ {0}
  PROVE  x \div p \in Nat /\ (x \div p = 0 <=> x < p)
OBVIOUS

\* When a level that has size gives an order nothing.
LEMMA NothingTaken ==
  ASSUME NEW ord \in Order, NEW p \in Prices, NEW size \in Nat \ {0}
  PROVE  /\ FillQty(ord, p, size) \in Nat
         /\ FillQty(ord, p, size) = 0 <=>
              \/ ~Acceptable(ord, p)
              \/ IsMarketBuy(ord) /\ (ord.reserved <= Won \/ ord.reserved < p)
              \/ ~IsMarketBuy(ord) /\ ord.remaining = 0
<1>1. /\ p \in Nat \ {0} /\ ord.reserved \in Nat /\ ord.remaining \in Nat
  BY DEF Order
<1>2. /\ ord.reserved \div p \in Nat
      /\ ord.reserved \div p = 0 <=> ord.reserved < p
  BY <1>1, QuotientZero
<1>3. CASE ~Acceptable(ord, p)
  BY <1>3 DEF FillQty
<1>4. CASE Acceptable(ord, p) /\ ~IsMarketBuy(ord)
  BY <1>1, <1>4 DEF FillQty, Lesser
<1>5. CASE Acceptable(ord, p) /\ IsMarketBuy(ord)
  BY <1>1, <1>2, <1>5 DEF FillQty, Lesser
<1>6. QED
  BY <1>3, <1>4, <1>5

\* What takes nothing at a level takes nothing at a worse one.
LEMMA WorseLevel ==
  ASSUME NEW ord \in Order, NEW p \in Prices, NEW q \in Prices,
         IF ord.side = "BUY" THEN p <= q ELSE p >= q,
         FillQty(ord, p, 1) = 0
  PROVE  FillQty(ord, q, 1) = 0
<1>1. /\ p \in Nat /\ q \in Nat /\ ord.price \in Nat /\ ord.reserved \in Nat
      /\ ord.side \in {"BUY", "SELL"}
  BY DEF Order
<1>2. Acceptable(ord, q) => Acceptable(ord, p)
  BY <1>1 DEF Acceptable
<1>3. \/ ~Acceptable(ord, p)
      \/ IsMarketBuy(ord) /\ (ord.reserved <= Won \/ ord.reserved < p)
      \/ ~IsMarketBuy(ord) /\ ord.remaining = 0
  BY NothingTaken
<1>4. IsMarketBuy(ord) /\ ord.reserved < p => ord.reserved < q
  BY <1>1 DEF IsMarketBuy
<1>5. QED
  BY <1>2, <1>3, <1>4, NothingTaken

\* An order takes nothing when it took nothing before it shrank.
LEMMA LaterTakes ==
  ASSUME NEW a \in Order, NEW b \in Order, Later(a, b), b.status = "OPEN",
         NEW p \in Prices, FillQty(a, p, 1) = 0
  PROVE  FillQty(b, p, 1) = 0
<1>1. /\ a.reserved \in Nat /\ b.reserved \in Nat /\ a.remaining \in Nat /\ b.remaining \in Nat
      /\ p \in Nat
  BY DEF Order
<1>2. /\ Acceptable(b, p) <=> Acceptable(a, p)
      /\ IsMarketBuy(b) <=> IsMarketBuy(a)
      /\ b.reserved <= a.reserved /\ b.remaining <= a.remaining
  BY DEF Later, Acceptable, IsMarketBuy
<1>3. \/ ~Acceptable(a, p)
      \/ IsMarketBuy(a) /\ (a.reserved <= Won \/ a.reserved < p)
      \/ ~IsMarketBuy(a) /\ a.remaining = 0
  BY NothingTaken
<1>4. \/ ~Acceptable(b, p)
      \/ IsMarketBuy(b) /\ (b.reserved <= Won \/ b.reserved < p)
      \/ ~IsMarketBuy(b) /\ b.remaining = 0
  BY <1>1, <1>2, <1>3
<1>5. QED
  BY <1>4, NothingTaken

\* So an order that is sated stays so.
LEMMA LaterSated ==
  ASSUME NEW j, NEW a \in Order, NEW b \in Order, Later(a, b), Sated(j, a)
  PROVE  Sated(j, b)
<1>1. LevelsFor(j, b) = LevelsFor(j, a) /\ b.side = a.side
  BY DEF Later, LevelsFor
<1>2. ASSUME b.status = "OPEN", NEW p \in Prices, IsBest(LevelsFor(j, b), b.side, p)
      PROVE  FillQty(b, p, 1) = 0
  <2>1. FillQty(a, p, 1) = 0
    BY <1>1, <1>2 DEF Later, Sated
  <2>2. QED
    BY <1>2, <2>1, LaterTakes
<1>3. QED
  BY <1>2 DEF Sated

\* Taking from its best level makes a side of the book no better.
LEMMA TakenSated ==
  ASSUME NEW j \in Job, NEW ord \in Order, NEW p \in Prices, NEW q \in Nat,
         NEW side \in {"BUY", "SELL"},
         side = ord.side => IsBest(LevelsFor(j, ord), side, p) /\ q <= LevelsFor(j, ord)[p],
         Sated(j, ord)
  PROVE  Sated(Taken(j, side, p, q), ord)
<1> DEFINE old == LevelsFor(j, ord)
           new == LevelsFor(Taken(j, side, p, q), ord)
<1>1. j.asks \in Levels /\ j.bids \in Levels /\ ord.side \in {"BUY", "SELL"}
  BY DEF Job, Order
<1>2. CASE side # ord.side
  <2>1. new = old
    BY <1>1, <1>2 DEF LevelsFor, Taken, Job
  <2>2. QED
    BY <2>1 DEF Sated
<1>3. CASE side = ord.side
  <2>1. new = [old EXCEPT ![p] = @ - q]
    BY <1>1, <1>3 DEF LevelsFor, Taken, Consumed, Job
  <2>2. old \in [Prices -> Nat] /\ IsBest(old, side, p)
    BY <1>1, <1>3 DEF LevelsFor, Levels
  <2>3. Offered(new) \subseteq Offered(old)
    BY <2>1, <2>2 DEF Offered, IsBest
  <2>4. ASSUME ord.status = "OPEN", NEW x \in Prices, IsBest(new, ord.side, x)
        PROVE  FillQty(ord, x, 1) = 0
    <3>1. IF ord.side = "BUY" THEN p <= x ELSE p >= x
      BY <1>3, <2>2, <2>3, <2>4 DEF IsBest
    <3>2. FillQty(ord, p, 1) = 0
      BY <1>3, <2>2, <2>4 DEF Sated
    <3>3. QED
      BY <3>1, <3>2, WorseLevel
  <2>5. QED
    BY <2>4 DEF Sated
<1>4. QED
  BY <1>2, <1>3

\* An order with nothing more to match is sated.
LEMMA OverSated ==
  ASSUME Typed, NEW r \in Runs, MatchingOver(r)
  PROVE  Sated(job[r], tx[r].ord)
<1> DEFINE ord == tx[r].ord
<1>1. tx[r] \in Tx /\ job[r] \in Job
  BY Present DEF Typed, MatchingOver
<1>2. ord \in Order /\ job[r].asks \in Levels /\ job[r].bids \in Levels
  BY <1>1 DEF Tx, Job
<1>3. ASSUME NEW p \in Prices, IsBest(LevelsFor(job[r], ord), ord.side, p)
      PROVE  FillQty(ord, p, 1) = 0
  <2>1. Side(r)[p] \in Nat \ {0}
    BY <1>2, <1>3 DEF IsBest, Offered, Side, LevelsFor, Levels
  <2>2. ~(NextQty(r, p) > 0)
    BY <1>3 DEF MatchingOver, NextFill, Side
  <2>3. FillQty(ord, p, Side(r)[p]) = 0
    BY <1>2, <2>1, <2>2, NothingTaken DEF NextQty
  <2>4. QED
    BY <1>2, <2>1, <2>3, NothingTaken
<1>4. QED
  BY <1>3 DEF Sated

-----------------------------------------------------------------------------
(* Steps                                                                    *)

\* The order of the candidates looks only at the terms of orders.
LEMMA PrecedesKept ==
  ASSUME NEW o \in OrderIds, NEW p \in OrderIds,
         Later(orders[o], orders'[o]), Later(orders[p], orders'[p]), Precedes(o, p)
  PROVE  Precedes(o, p)'
BY DEF Precedes, Later

\* A run that takes no step itself, and whose open transaction keeps its row.
LEMMA OtherRunInOrder ==
  ASSUME Typed, TypeOK', NEW r \in Runs, RunInOrder(r),
         job'[r] = job[r], tx'[r] = tx[r],
         \A o \in OrderIds : orders[o] # NoOrder => Later(orders[o], orders'[o]),
         InTx(r) => orders'[tx[r].order] = orders[tx[r].order]
  PROVE  RunInOrder(r)'
<1> DEFINE j == job[r]
<1>0. TypeOK /\ (InTx(r) => Running(r))
  BY DEF Typed
<1>1. ASSUME Running(r), NEW o \in j.listed
      PROVE  /\ o \in OrderIds /\ orders[o] \in Order /\ orders'[o] \in Order
             /\ Later(orders[o], orders'[o]) /\ orders'[o] # NoOrder
             /\ orders'[o].side = orders[o].side
  <2>1. j \in Job
    BY <1>0, <1>1, Present
  <2>2. o \in OrderIds
    BY <1>1, <2>1 DEF Job
  <2>3. orders[o] # NoOrder
    BY <1>1 DEF RunInOrder, QueueSound
  <2>4. Later(orders[o], orders'[o]) /\ orders[o] \in Order
    BY <1>0, <2>2, <2>3, Present
  <2>5. orders'[o] # NoOrder /\ orders'[o].side = orders[o].side
    BY <2>4 DEF Later
  <2>6. QED
    BY <2>2, <2>4, <2>5 DEF TypeOK
<1>2. ASSUME Running(r)' PROVE QueueSound(r)'
  <2>1. Running(r) /\ QueueSound(r)
    BY <1>2 DEF Running, RunInOrder
  <2>2. ASSUME NEW o \in j.listed
        PROVE  \/ o \in QueueFor(j, orders'[o])
               \/ InTx(r)' /\ tx'[r].order = o
               \/ Sated(j, orders'[o])
    <3>1. \/ o \in QueueFor(j, orders[o])
          \/ InTx(r) /\ tx[r].order = o
          \/ Sated(j, orders[o])
      BY <2>1 DEF QueueSound
    <3>2. QED
      BY <1>1, <2>1, <3>1, LaterSated DEF QueueFor, InTx
  <2>3. QED
    BY <1>1, <2>1, <2>2 DEF QueueSound
<1>3. ASSUME InTx(r)' PROVE TxFirst(r)'
  <2>1. /\ InTx(r) /\ Running(r) /\ TxFirst(r) /\ QueueSound(r)
        /\ orders'[tx[r].order] = orders[tx[r].order]
    BY <1>0, <1>3 DEF InTx, RunInOrder
  <2>2. ASSUME NEW o \in QueueFor(j, tx[r].ord) PROVE Precedes(tx[r].order, o)'
    <3>1. Precedes(tx[r].order, o) /\ tx[r].order \in j.listed /\ o \in j.listed
      BY <2>1 DEF TxFirst, QueueSound, QueueFor
    <3>2. PICK t \in OrderIds : t = tx[r].order
      BY <1>1, <2>1, <3>1
    <3>3. Precedes(t, o)'
      BY <1>1, <2>1, <3>1, <3>2, PrecedesKept
    <3>4. tx'[r].order = t
      BY <3>2
    <3>5. QED
      BY <3>2, <3>3
  <2>3. /\ tx'[r].order = tx[r].order /\ tx'[r].ord = tx[r].ord
        /\ tx'[r].matched = tx[r].matched /\ job'[r].listed = job[r].listed
        /\ QueueFor(job[r], tx[r].ord)' = QueueFor(job[r], tx[r].ord)
    BY DEF QueueFor
  <2>4. \A o \in QueueFor(job[r], tx[r].ord)' : Precedes(tx[r].order, o)'
    BY <2>2, <2>3
  <2>5. Later(orders[tx[r].order], tx[r].ord)'
    BY <2>1, <2>3 DEF TxFirst, Later
  <2>6. QED
    BY <2>1, <2>3, <2>4, <2>5 DEF TxFirst
<1>4. QED
  BY <1>2, <1>3 DEF RunInOrder

\* A row that stays is a later row of itself.
LEMMA LaterSame == \A ord \in Order : Later(ord, ord)
BY DEF Later, Order, NoOrder

\* matchMarket: every candidate is still to come.
LEMMA StartRunInOrder ==
  ASSUME Typed, Typed', NEW r \in Runs, NEW m \in Markets, NEW book \in Books,
         StartRun(r, m, book)
  PROVE  RunInOrder(r)'
<1>1. TypeOK /\ ~Running(r) /\ ~InTx(r) /\ orders' = orders /\ tx' = tx
  BY DEF Typed, StartRun
<1> DEFINE buys == IF Offered(book.asks) = {} THEN {} ELSE Candidates(m, "BUY")
           sells == IF Offered(book.bids) = {} THEN {} ELSE Candidates(m, "SELL")
<1>0. buys \subseteq Candidates(m, "BUY") /\ sells \subseteq Candidates(m, "SELL")
  OBVIOUS
<1>2. /\ job'[r].buys = buys /\ job'[r].sells = sells
      /\ job'[r].listed = buys \cup sells
  BY <1>1 DEF StartRun, TypeOK
<1> HIDE DEF buys, sells
<1>3. /\ \A o \in buys : orders[o].side = "BUY" /\ orders[o] # NoOrder
      /\ \A o \in sells : orders[o].side = "SELL" /\ orders[o] # NoOrder
  <2>1. ASSUME NEW side, NEW o \in Candidates(m, side)
        PROVE  orders[o].side = side /\ orders[o].status = "OPEN"
    BY DEF Candidates, IsOpen
  <2>2. \A o : orders[o].status = "OPEN" => orders[o] # NoOrder
    BY DEF NoOrder
  <2>3. QED
    BY <1>0, <2>1, <2>2
<1>4. ~InTx(r)'
  BY <1>1 DEF InTx
<1>5. \A o \in buys \cup sells : o \in QueueFor(job'[r], orders[o])
  BY <1>2, <1>3 DEF QueueFor
<1>6. QED
  BY <1>1, <1>2, <1>3, <1>4, <1>5 DEF RunInOrder, QueueSound

\* The candidate whose turn it is stands before the others of its side.
LEMMA TurnFirst ==
  ASSUME Typed, NEW r \in Runs, RunInOrder(r), NEW o \in OrderIds, Turn(r, o)
  PROVE  /\ Running(r) /\ QueueSound(r) /\ job[r] \in Job /\ ~InTx(r)
         /\ o \in job[r].listed
         /\ \A p \in QueueFor(Dequeued(job[r], o), orders[o]) : Precedes(o, p)
         /\ Dequeued(job[r], o).buys = job[r].buys \ {o}
         /\ Dequeued(job[r], o).sells = job[r].sells \ {o}
         /\ Dequeued(job[r], o).listed = job[r].listed
         /\ Dequeued(job[r], o).asks = job[r].asks
         /\ Dequeued(job[r], o).bids = job[r].bids
<1>1. Running(r) /\ QueueSound(r) /\ job[r] \in Job /\ ~InTx(r)
  BY Present DEF Turn, Typed, RunInOrder
<1>2. /\ Dequeued(job[r], o).buys = job[r].buys \ {o}
      /\ Dequeued(job[r], o).sells = job[r].sells \ {o}
      /\ Dequeued(job[r], o).listed = job[r].listed
      /\ Dequeued(job[r], o).asks = job[r].asks
      /\ Dequeued(job[r], o).bids = job[r].bids
  BY <1>1 DEF Dequeued, Job
<1>3. o \in job[r].listed /\ \A p \in QueueFor(Dequeued(job[r], o), orders[o]) : Precedes(o, p)
  <2>1. CASE job[r].buys # {}
    <3>1. o \in job[r].buys /\ \A p \in job[r].buys \ {o} : Precedes(o, p)
      BY <2>1 DEF Turn
    <3>2. orders[o].side = "BUY" /\ o \in job[r].listed
      BY <1>1, <3>1 DEF QueueSound
    <3>3. QED
      BY <1>2, <3>1, <3>2 DEF QueueFor
  <2>2. CASE job[r].buys = {}
    <3>1. o \in job[r].sells /\ \A p \in job[r].sells \ {o} : Precedes(o, p)
      BY <2>2 DEF Turn
    <3>2. orders[o].side = "SELL" /\ o \in job[r].listed
      BY <1>1, <3>1 DEF QueueSound
    <3>3. QED
      BY <1>2, <3>1, <3>2 DEF QueueFor
  <2>3. QED
    BY <2>1, <2>2
<1>4. QED
  BY <1>1, <1>2, <1>3

\* Taking a candidate off its list leaves the others where they were.
LEMMA DequeuedSound ==
  ASSUME Typed, NEW r \in Runs, RunInOrder(r), NEW o \in OrderIds, Turn(r, o),
         orders' = orders, job' = [job EXCEPT ![r] = Dequeued(job[r], o)],
         Sated(job[r], orders[o]) \/ (InTx(r)' /\ tx'[r].order = o)
  PROVE  QueueSound(r)'
<1> DEFINE j == job[r]
           k == Dequeued(j, o)
<1>1. /\ QueueSound(r) /\ ~InTx(r)
      /\ k.buys = j.buys \ {o} /\ k.sells = j.sells \ {o} /\ k.listed = j.listed
      /\ k.asks = j.asks /\ k.bids = j.bids
  BY TurnFirst
<1>2. job'[r] = k
  BY DEF Typed, TypeOK
<1> HIDE DEF j, k
<1>3. ASSUME NEW p \in j.listed
      PROVE  \/ p \in QueueFor(k, orders[p])
             \/ InTx(r)' /\ tx'[r].order = p
             \/ Sated(k, orders[p])
  <2>1. p \in QueueFor(j, orders[p]) \/ Sated(j, orders[p])
    BY <1>1 DEF QueueSound, j
  <2>2. Sated(j, orders[p]) => Sated(k, orders[p])
    BY <1>1 DEF Sated, LevelsFor
  <2>3. CASE p = o
    BY <2>2, <2>3 DEF j
  <2>4. CASE p # o
    BY <1>1, <2>1, <2>2, <2>4 DEF QueueFor
  <2>5. QED
    BY <2>3, <2>4
<1>4. QED
  BY <1>1, <1>2, <1>3 DEF QueueSound, j

\* A candidate no longer OPEN takes nothing any more.
LEMMA SkipInOrder ==
  ASSUME Typed, NEW r \in Runs, RunInOrder(r), NEW o \in OrderIds, SkipOrder(r, o)
  PROVE  RunInOrder(r)'
<1>1. /\ Turn(r, o) /\ ~IsOpen(o) /\ orders' = orders /\ tx' = tx
      /\ job' = [job EXCEPT ![r] = Dequeued(job[r], o)]
  BY DEF SkipOrder
<1>2. Sated(job[r], orders[o])
  BY <1>1 DEF Sated, IsOpen
<1>3. QueueSound(r)'
  BY <1>1, <1>2, DequeuedSound
<1>4. ~InTx(r)'
  BY <1>1 DEF Turn, InTx
<1>5. QED
  BY <1>3, <1>4 DEF RunInOrder

\* The order locked is the first of its side, as it was read.
LEMMA LockInOrder ==
  ASSUME Typed, NEW r \in Runs, RunInOrder(r), NEW o \in OrderIds, LockOrder(r, o)
  PROVE  RunInOrder(r)'
<1>1. /\ Turn(r, o) /\ IsOpen(o) /\ orders' = orders
      /\ job' = [job EXCEPT ![r] = Dequeued(job[r], o)]
  BY DEF LockOrder
<1>2. /\ tx'[r].order = o /\ tx'[r].ord = orders[o] /\ tx'[r].matched = FALSE
      /\ job'[r] = Dequeued(job[r], o)
  BY DEF LockOrder, Typed, TypeOK
<1>3. InTx(r)'
  BY <1>2 DEF InTx, OrderIds
<1>4. QueueSound(r)'
  BY <1>1, <1>2, <1>3, DequeuedSound
<1>5. Later(orders[o], orders[o])
  BY <1>1, LaterSame, Present DEF Typed
<1>6. /\ o \in job[r].listed /\ job'[r].listed = job[r].listed
      /\ \A p \in QueueFor(job'[r], orders[o]) : Precedes(o, p)
  BY <1>1, <1>2, TurnFirst
<1>7. TxFirst(r)'
  BY <1>1, <1>2, <1>5, <1>6 DEF TxFirst, Precedes
<1>8. QED
  BY <1>4, <1>7 DEF RunInOrder

\* A fill takes from the level that comes next, so the orders before it, which
\* took nothing there, take nothing at what is left.
LEMMA FillInOrder ==
  ASSUME Typed, NEW r \in Runs, RunInOrder(r), NEW p \in Prices, Fill(r, p)
  PROVE  RunInOrder(r)'
<1> DEFINE t == tx[r]
           j == job[r]
           q == NextQty(r, p)
           k == Taken(j, t.ord.side, p, q)
           w == FilledBy(t.ord, p, q)
<1>1. /\ NextFill(r, p) /\ InTx(r) /\ Running(r) /\ QueueSound(r) /\ TxFirst(r)
      /\ TypeOK /\ orders' = orders
  BY DEF Fill, NextFill, Typed, RunInOrder
<1>2. /\ t \in Tx /\ t.ord \in Order /\ j \in Job /\ Side(r)[p] \in Nat
      /\ q = FillQty(t.ord, p, Side(r)[p]) /\ q \in Nat /\ q > 0 /\ q <= Side(r)[p]
  BY <1>1, NextFillFacts
<1>3. IsBest(LevelsFor(j, t.ord), t.ord.side, p) /\ q <= LevelsFor(j, t.ord)[p]
  BY <1>1, <1>2 DEF NextFill, Side
<1>4. /\ job'[r] = k /\ tx'[r].order = t.order /\ tx'[r].ord = w /\ tx'[r].matched = TRUE
  BY <1>1 DEF Fill, BuyFill, SellFill, TypeOK
<1>5. /\ w \in Order /\ w.type = t.ord.type /\ w.side = t.ord.side /\ w.price = t.ord.price
      /\ w.status = t.ord.status
      /\ w.remaining <= t.ord.remaining /\ w.reserved <= t.ord.reserved
  <2>1. w \in Order
    BY <1>2, FilledByType
  <2>2. p \in Nat
    OBVIOUS
  <2>3. q \in Nat
    BY <1>2
  <2> HIDE DEF q
  <2>4. p * q \in Nat
    BY ONLY <2>2, <2>3
  <2>5. QED
    BY <1>2, <2>1, <2>2, <2>4 DEF FilledBy, Order
<1>6. k.buys = j.buys /\ k.sells = j.sells /\ k.listed = j.listed
  BY <1>2 DEF Taken, Job
<1>7. ASSUME NEW o \in j.listed, Sated(j, orders[o]) PROVE Sated(k, orders[o])
  <2>1. orders[o] \in Order /\ t.ord.side \in {"BUY", "SELL"}
    <3>1. o \in OrderIds /\ orders[o] # NoOrder
      BY <1>1, <1>2 DEF QueueSound, Job
    <3>2. QED
      BY <1>1, <1>2, <3>1, Present DEF Order
  <2>2. t.ord.side = orders[o].side =>
          IsBest(LevelsFor(j, orders[o]), t.ord.side, p) /\ q <= LevelsFor(j, orders[o])[p]
    BY <1>3 DEF LevelsFor
  <2> HIDE DEF j, q, t
  <2>3. QED
    BY <1>2, <1>7, <2>1, <2>2, TakenSated
<1> HIDE DEF j, k, w, q
<1>8. QueueSound(r)'
  <2>1. ASSUME NEW o \in j.listed
        PROVE  \/ o \in QueueFor(k, orders[o])
               \/ InTx(r)' /\ tx'[r].order = o
               \/ Sated(k, orders[o])
    <3>1. o \in QueueFor(j, orders[o]) \/ t.order = o \/ Sated(j, orders[o])
      BY <1>1 DEF QueueSound, j
    <3>2. t.order = o => InTx(r)'
      BY <1>1, <1>4 DEF InTx
    <3>3. QED
      BY <1>4, <1>6, <1>7, <3>1, <3>2 DEF QueueFor
  <2>2. QED
    BY <1>1, <1>4, <1>6, <2>1 DEF QueueSound, j
<1>9. TxFirst(r)'
  <2>1. Later(orders[t.order], w)
    <3>1. Later(orders[t.order], t.ord) /\ orders[t.order] \in Order
      <4>1. orders[t.order] # NoOrder /\ t.order \in OrderIds
        BY <1>1, <1>2 DEF TxFirst, QueueSound, Tx
      <4>2. QED
        BY <1>1, <4>1, Present DEF TxFirst
    <3>2. w # NoOrder
      BY <1>5 DEF Order, NoOrder
    <3>3. QED
      BY <1>2, <1>5, <3>1, <3>2 DEF Later, Order
  <2>2. \A o \in QueueFor(k, w) : Precedes(t.order, o)'
    <3>1. QueueFor(k, w) = QueueFor(j, t.ord)
      BY <1>5, <1>6 DEF QueueFor
    <3>2. \A o \in QueueFor(j, t.ord) : Precedes(t.order, o)
      BY <1>1 DEF TxFirst, j
    <3>3. \A o : Precedes(t.order, o) => Precedes(t.order, o)'
      BY <1>1, <1>4 DEF Precedes
    <3>4. QED
      BY <3>1, <3>2, <3>3
  <2>3. t.order \in k.listed
    BY <1>1, <1>6 DEF TxFirst, j
  <2>4. QED
    BY <1>1, <1>4, <2>1, <2>2, <2>3 DEF TxFirst
<1>10. QED
  BY <1>8, <1>9 DEF RunInOrder

\* When the loop over a side breaks off, no order takes anything there.
LEMMA AfterOrderSated ==
  ASSUME NEW j \in Job, NEW side, NEW ord \in Order
  PROVE  LET k == AfterOrder(j, side)
         IN /\ k.buys \subseteq j.buys /\ k.sells \subseteq j.sells /\ k.listed = j.listed
            /\ Sated(j, ord) => Sated(k, ord)
            /\ Sated(k, ord) \/ QueueFor(k, ord) = QueueFor(j, ord)
<1> DEFINE k == AfterOrder(j, side)
<1>1. /\ k.buys = IF side = "BUY" /\ Offered(j.asks) = {} THEN {} ELSE j.buys
      /\ k.sells = IF side = "SELL" /\ Offered(j.bids) = {} THEN {} ELSE j.sells
      /\ k.listed = j.listed /\ k.asks = j.asks /\ k.bids = j.bids
  BY DEF AfterOrder, Job
<1> HIDE DEF k
<1>2. Sated(j, ord) => Sated(k, ord)
  BY <1>1 DEF Sated, LevelsFor
<1>3. QueueFor(k, ord) # QueueFor(j, ord) => Offered(LevelsFor(k, ord)) = {}
  BY <1>1 DEF QueueFor, LevelsFor, Order
<1>4. Offered(LevelsFor(k, ord)) = {} => Sated(k, ord)
  BY DEF Sated, IsBest
<1>5. QED
  BY <1>1, <1>2, <1>3, <1>4 DEF k

\* The end of a transaction: its order is sated, in the row as it now is.
LEMMA OverInOrder ==
  ASSUME Typed, TypeOK', NEW r \in Runs, RunInOrder(r), InTx(r),
         tx' = [tx EXCEPT ![r] = NoTx],
         job' = [job EXCEPT ![r] = AfterOrder(job[r], tx[r].ord.side)],
         \A o \in OrderIds : orders[o] # NoOrder => Later(orders[o], orders'[o]),
         Sated(job[r], orders'[tx[r].order])
  PROVE  RunInOrder(r)'
<1> DEFINE t == tx[r]
           j == job[r]
           k == AfterOrder(j, t.ord.side)
<1>1. TypeOK /\ Running(r) /\ QueueSound(r) /\ TxFirst(r) /\ j \in Job
  BY Present DEF Typed, RunInOrder
<1>2. job'[r] = k /\ tx'[r] = NoTx
  BY <1>1 DEF TypeOK
<1>3. ~InTx(r)'
  BY <1>2 DEF InTx, NoTx
<1>4. ASSUME NEW o \in j.listed
      PROVE  /\ orders[o] \in Order /\ orders'[o] \in Order /\ orders'[o] # NoOrder
             /\ Later(orders[o], orders'[o]) /\ orders'[o].side = orders[o].side
  <2>1. o \in OrderIds /\ orders[o] # NoOrder
    BY <1>1 DEF QueueSound, Job
  <2>2. Later(orders[o], orders'[o]) /\ orders[o] \in Order
    BY <1>1, <2>1, Present
  <2>3. orders'[o] # NoOrder /\ orders'[o].side = orders[o].side
    BY <2>2 DEF Later
  <2>4. QED
    BY <2>1, <2>2, <2>3 DEF TypeOK
<1> HIDE DEF j, k
<1>5. k.buys \subseteq j.buys /\ k.sells \subseteq j.sells /\ k.listed = j.listed
  <2>1. t.order \in j.listed
    BY <1>1 DEF TxFirst, j
  <2>2. QED
    BY <1>1, <1>4, <2>1, AfterOrderSated DEF k
<1>6. ASSUME NEW o \in j.listed
      PROVE  o \in QueueFor(k, orders'[o]) \/ Sated(k, orders'[o])
  <2>1. o \in QueueFor(j, orders[o]) \/ t.order = o \/ Sated(j, orders[o])
    BY <1>1 DEF QueueSound, j
  <2>2. o \in QueueFor(j, orders'[o]) \/ Sated(j, orders'[o])
    BY <1>4, <2>1, LaterSated DEF QueueFor, j
  <2>3. /\ Sated(j, orders'[o]) => Sated(k, orders'[o])
        /\ Sated(k, orders'[o]) \/ QueueFor(k, orders'[o]) = QueueFor(j, orders'[o])
    BY <1>1, <1>4, AfterOrderSated DEF k
  <2>4. QED
    BY <2>2, <2>3
<1>7. QueueSound(r)'
  BY <1>1, <1>2, <1>4, <1>5, <1>6 DEF QueueSound, j
<1>8. QED
  BY <1>3, <1>7 DEF RunInOrder

\* What a settlement writes is a later row than its working copy, and sated
\* when the copy is.
LEMMA ConcludedLater ==
  ASSUME NEW j, NEW ord \in Order
  PROVE  /\ \A a : Later(a, ord) => Later(a, Concluded(j, ord))
         /\ Sated(j, ord) => Sated(j, Concluded(j, ord))
<1>1. Concluded(j, ord) \in Order
  BY ConcludedType
<1>2. Concluded(j, ord) # NoOrder
  BY <1>1 DEF Order, NoOrder
<1>3. Concluded(j, ord) = ord \/ Concluded(j, ord).status = "FILLED"
  BY DEF Concluded, Order
<1>4. /\ Concluded(j, ord).type = ord.type /\ Concluded(j, ord).side = ord.side
      /\ Concluded(j, ord).price = ord.price
  BY DEF Concluded, Order
<1>5. CASE Concluded(j, ord) = ord
  BY <1>5
<1>6. CASE Concluded(j, ord).status = "FILLED"
  BY <1>2, <1>4, <1>6 DEF Later, Sated
<1>7. QED
  BY <1>3, <1>5, <1>6

\* No step changes the terms of an order or gives it back what was taken, and
\* the row of a transaction that stays open does not change.
RowsKept ==
  /\ \A o \in OrderIds : orders[o] # NoOrder => Later(orders[o], orders'[o])
  /\ \A r \in Runs : InTx(r) /\ tx'[r] = tx[r]
                       => orders'[tx[r].order] = orders[tx[r].order]

\* A step that writes no order.
LEMMA RowsSame ==
  ASSUME TypeOK, orders' = orders
  PROVE  RowsKept
BY LaterSame, Present DEF RowsKept

\* The requests of users.
LEMMA UserRowsKept ==
  ASSUME PrioritySound, UserStep
  PROVE  RowsKept
<1>1. TypeOK /\ \A r \in Runs : InTx(r) => tx[r].order \in OrderIds
  BY Present DEF PrioritySound, MoneySound, Typed, Tx
<1>2. ASSUME NEW o \in OrderIds, NEW ord, NEW x, CreateOrder(o, ord, x)
      PROVE  RowsKept
  <2>1. orders[o] = NoOrder /\ orders' = [orders EXCEPT ![o] = ord]
    BY <1>2 DEF CreateOrder
  <2>2. ASSUME NEW r \in Runs, InTx(r) PROVE orders[tx[r].order] # NoOrder
    BY <2>2 DEF PrioritySound, MoneySound, TxMoney, MoneySoFar
  <2>3. \A p \in OrderIds : orders[p] # NoOrder => orders'[p] = orders[p] /\ orders[p] \in Order
    BY <1>1, <2>1, Present DEF TypeOK
  <2>4. QED
    BY <1>1, <2>2, <2>3, LaterSame DEF RowsKept
<1>3. ASSUME NEW o \in OrderIds, CancelOrder(o)
      PROVE  RowsKept
  <2> DEFINE w == [orders[o] EXCEPT !.status = "CANCELED"]
  <2>1. orders' = [orders EXCEPT ![o] = w] /\ ~OrderLocked(o) /\ orders[o] \in Order
    BY <1>1, <1>3, Present DEF CancelOrder
  <2>2. Later(orders[o], w)
    BY <2>1 DEF Later, Order, NoOrder
  <2> HIDE DEF w
  <2>3. \A p \in OrderIds \ {o} : orders'[p] = orders[p]
    BY <1>1, <2>1 DEF TypeOK
  <2>4. orders'[o] = w
    BY <1>1, <2>1 DEF TypeOK
  <2>5. \A r \in Runs : InTx(r) => tx[r].order # o
    BY <2>1 DEF OrderLocked
  <2>6. QED
    BY <1>1, <2>2, <2>3, <2>4, <2>5, LaterSame, Present DEF RowsKept
<1>4. QED
  BY <1>2, <1>3 DEF UserStep, CreateLimitBuy, CreateMarketBuy, CreateSell

\* The commit of a settlement.
LEMMA SettleRowsKept ==
  ASSUME PrioritySound, NEW r \in Runs, Settle(r)
  PROVE  RowsKept
<1> DEFINE t == tx[r]
           w == Concluded(job[r], t.ord)
<1>1. /\ TypeOK /\ InTx(r) /\ TxFirst(r) /\ TxApart
      /\ orders' = [orders EXCEPT ![t.order] = w] /\ tx' = [tx EXCEPT ![r] = NoTx]
  BY DEF PrioritySound, MoneySound, Typed, RunInOrder, Settle, MatchingOver
<1>2. t.order \in OrderIds /\ t.ord \in Order
  BY <1>1, Present DEF Tx
<1>3. Later(orders[t.order], w)
  BY <1>1, <1>2, ConcludedLater DEF TxFirst
<1> HIDE DEF w
<1>4. orders'[t.order] = w /\ \A o \in OrderIds \ {t.order} : orders'[o] = orders[o]
  BY <1>1, <1>2 DEF TypeOK
<1>5. ASSUME NEW s \in Runs, InTx(s), tx'[s] = tx[s]
      PROVE  tx[s].order \in OrderIds /\ tx[s].order # t.order
  <2>1. s # r
    BY <1>1, <1>5 DEF InTx, NoTx, TypeOK
  <2>2. tx[s].ord.user # t.ord.user
    BY <1>1, <1>5, <2>1 DEF TxApart
  <2>3. orders[tx[s].order].user = tx[s].ord.user /\ orders[t.order].user = t.ord.user
    BY <1>1, <1>5 DEF PrioritySound, MoneySound, TxMoney, MoneySoFar
  <2>4. tx[s].order \in OrderIds
    BY <1>1, <1>5, Present DEF Tx
  <2>5. QED
    BY <2>2, <2>3, <2>4
<1>6. \A o \in OrderIds : orders[o] # NoOrder => Later(orders[o], orders'[o])
  BY <1>1, <1>3, <1>4, LaterSame, Present
<1>7. QED
  BY <1>4, <1>5, <1>6 DEF RowsKept

\* Every step.
LEMMA NextRowsKept ==
  ASSUME PrioritySound, [Next]_vars
  PROVE  RowsKept
<1>1. TypeOK
  BY DEF PrioritySound, MoneySound, Typed
<1>2. CASE UNCHANGED vars
  BY <1>1, <1>2, RowsSame DEF vars
<1>3. CASE FundingStep \/ OverrideStep
  BY <1>1, <1>3, RowsSame DEF FundingStep, OverrideStep, Initialize, Deposit,
     SetAvailable, ResetBalances, SetBalance
<1>4. ASSUME NEW r \in Runs, RunStep(r) PROVE RowsKept
  BY <1>1, <1>4, RowsSame, SettleRowsKept DEF RunStep, StartRun, SkipOrder, LockOrder,
     Fill, FillThrows, NoMatch, FinishRun, RunFails
<1>5. QED
  BY <1>2, <1>3, <1>4, UserRowsKept DEF Next, TradingNext

\* A run's own steps.
LEMMA RunStepInOrder ==
  ASSUME PrioritySound, Typed', RowsKept, NEW r \in Runs, RunStep(r)
  PROVE  RunInOrder(r)'
<1>1. /\ Typed /\ TypeOK /\ TypeOK' /\ RunInOrder(r)
      /\ \A o \in OrderIds : orders[o] # NoOrder => Later(orders[o], orders'[o])
  BY DEF PrioritySound, MoneySound, Typed, RowsKept
<1>2. ASSUME job' = [job EXCEPT ![r] = NoJob], tx'[r] = NoTx PROVE RunInOrder(r)'
  BY <1>1, <1>2 DEF RunInOrder, Running, InTx, NoJob, NoTx, TypeOK
<1>3. CASE RunFails(r) \/ \E p \in Prices : FillThrows(r, p)
  BY <1>1, <1>2, <1>3 DEF RunFails, FillThrows, TypeOK
<1>4. CASE FinishRun(r)
  <2>1. tx'[r] = NoTx
    BY <1>1, <1>4 DEF FinishRun, InTx, TypeOK, Tx, OrderIds
  <2>2. QED
    BY <1>2, <1>4, <2>1 DEF FinishRun
<1>5. CASE NoMatch(r)
  <2>1. /\ MatchingOver(r) /\ InTx(r) /\ ~tx[r].matched /\ orders' = orders
        /\ tx' = [tx EXCEPT ![r] = NoTx]
        /\ job' = [job EXCEPT ![r] = AfterOrder(job[r], tx[r].ord.side)]
    BY <1>5 DEF NoMatch, MatchingOver
  <2>2. Sated(job[r], orders'[tx[r].order])
    BY <1>1, <2>1, OverSated DEF RunInOrder, TxFirst
  <2>3. QED
    BY <1>1, <2>1, <2>2, OverInOrder
<1>6. CASE Settle(r)
  <2>1. /\ MatchingOver(r) /\ InTx(r)
        /\ orders' = [orders EXCEPT ![tx[r].order] = Concluded(job[r], tx[r].ord)]
        /\ tx' = [tx EXCEPT ![r] = NoTx]
        /\ job' = [job EXCEPT ![r] = AfterOrder(job[r], tx[r].ord.side)]
    BY <1>6 DEF Settle, MatchingOver
  <2>2. tx[r].order \in OrderIds /\ tx[r].ord \in Order
    BY <1>1, <2>1, Present DEF Tx
  <2>3. orders'[tx[r].order] = Concluded(job[r], tx[r].ord)
    BY <1>1, <2>1, <2>2 DEF TypeOK
  <2>4. Sated(job[r], orders'[tx[r].order])
    BY <1>1, <2>1, <2>2, <2>3, OverSated, ConcludedLater
  <2>5. QED
    BY <1>1, <2>1, <2>4, OverInOrder
<1>7. QED
  BY <1>1, <1>3, <1>4, <1>5, <1>6, StartRunInOrder, SkipInOrder, LockInOrder, FillInOrder
     DEF RunStep

\* No step, not even an override, puts a run out of order.
LEMMA NextPriority == PrioritySound /\ [Next]_vars => PrioritySound'
<1> SUFFICES ASSUME PrioritySound, [Next]_vars PROVE PrioritySound'
  OBVIOUS
<1>1. MoneySound' /\ Typed' /\ TypeOK'
  BY NextMoney DEF PrioritySound, MoneySound, Typed
<1>2. /\ Typed /\ TypeOK /\ RowsKept
  BY NextRowsKept DEF PrioritySound, MoneySound, Typed
<1>3. ASSUME NEW r \in Runs, job'[r] = job[r], tx'[r] = tx[r] PROVE RunInOrder(r)'
  BY <1>1, <1>2, <1>3, OtherRunInOrder DEF PrioritySound, RowsKept
<1>4. CASE job' = job /\ tx' = tx
  BY <1>1, <1>3, <1>4 DEF PrioritySound
<1>5. ASSUME NEW r \in Runs, RunStep(r) PROVE PrioritySound'
  <2>1. \A s \in Runs \ {r} : job'[s] = job[s] /\ tx'[s] = tx[s]
    BY <1>2, <1>5 DEF RunStep, StartRun, SkipOrder, LockOrder, Fill, FillThrows, Settle,
       NoMatch, FinishRun, RunFails, TypeOK
  <2>2. RunInOrder(r)'
    BY <1>1, <1>2, <1>5, RunStepInOrder
  <2>3. QED
    BY <1>1, <1>3, <2>1, <2>2 DEF PrioritySound
<1>6. CASE UserStep \/ FundingStep \/ OverrideStep \/ UNCHANGED vars
  <2>1. UserStep => job' = job /\ tx' = tx
    <3>1. \A o, ord, x : CreateOrder(o, ord, x) => job' = job /\ tx' = tx
      BY DEF CreateOrder
    <3>2. \A o : CancelOrder(o) => job' = job /\ tx' = tx
      BY DEF CancelOrder
    <3>3. QED
      BY <3>1, <3>2 DEF UserStep, CreateLimitBuy, CreateMarketBuy, CreateSell
  <2>2. FundingStep => job' = job /\ tx' = tx
    BY DEF FundingStep, Initialize, Deposit, SetAvailable
  <2>3. OverrideStep => job' = job /\ tx' = tx
    BY DEF OverrideStep, ResetBalances, SetBalance
  <2>4. QED
    BY <1>4, <1>6, <2>1, <2>2, <2>3 DEF vars
<1>7. QED
  BY <1>5, <1>6 DEF Next, TradingNext

\* No run is under way at first.
LEMMA InitPriority == Init => PrioritySound
BY InitMoney DEF Init, PrioritySound, RunInOrder, Running, InTx, NoJob, NoTx

\* An order that comes before the one being filled, and could still be filled
\* at that level, does not exist: it is neither behind it in the queue nor
\* sated.
LEMMA NobodyOvertaken == PrioritySound => NoOvertaking
<1> SUFFICES ASSUME PrioritySound, NEW r \in Runs, NEW p \in Prices, NextFill(r, p),
                    NEW o \in job[r].listed, IsOpen(o), orders[o].side = tx[r].ord.side,
                    Precedes(o, tx[r].order)
             PROVE  FillQty(orders[o], p, 1) = 0
  BY DEF NoOvertaking
<1>1. /\ TypeOK /\ Running(r) /\ InTx(r) /\ QueueSound(r) /\ TxFirst(r)
      /\ job[r] \in Job /\ tx[r] \in Tx
  BY Present DEF PrioritySound, MoneySound, Typed, RunInOrder, NextFill
<1>2. o \in OrderIds /\ tx[r].order \in OrderIds
  BY <1>1 DEF Job, Tx
<1>3. orders[o] \in Order /\ orders[tx[r].order] \in Order
  BY <1>1, <1>2, Present DEF TxFirst, QueueSound
<1>4. ~Precedes(tx[r].order, o) /\ tx[r].order # o
  <2> DEFINE a == orders[o]
             b == orders[tx[r].order]
  <2>1. a.side = b.side
    BY <1>1 DEF TxFirst, Later
  <2>2. a.price \in Nat /\ b.price \in Nat /\ o \in Int /\ tx[r].order \in Int
    BY <1>2, <1>3 DEF Order, OrderIds
  <2>3. \/ a.type = "LIMIT" /\ b.type = "MARKET"
        \/ /\ a.type = b.type
           /\ IF a.side = "BUY" THEN a.price > b.price ELSE a.price < b.price
        \/ a.type = b.type /\ a.price = b.price /\ o < tx[r].order
    BY DEF Precedes
  <2> HIDE DEF a, b
  <2>4. tx[r].order # o
    BY <2>2, <2>3 DEF a, b
  <2>5. ~( \/ b.type = "LIMIT" /\ a.type = "MARKET"
           \/ /\ b.type = a.type
              /\ IF b.side = "BUY" THEN b.price > a.price ELSE b.price < a.price
           \/ b.type = a.type /\ b.price = a.price /\ tx[r].order < o )
    BY <2>1, <2>2, <2>3
  <2>6. QED
    BY <2>4, <2>5 DEF Precedes, a, b
<1>5. Sated(job[r], orders[o])
  BY <1>1, <1>4 DEF QueueSound, TxFirst, QueueFor
<1>6. IsBest(LevelsFor(job[r], orders[o]), orders[o].side, p)
  BY DEF NextFill, Side, LevelsFor
<1>7. QED
  BY <1>5, <1>6 DEF Sated, IsOpen

\* Price-time priority: whatever users cancel and other runs fill while a run is
\* under way, it never fills an order past an earlier candidate that could
\* still be filled at that level.
THEOREM NoOvertakingHolds == Spec => []NoOvertaking
BY NobodyOvertaken, InitPriority, NextPriority, PTL DEF Spec

-----------------------------------------------------------------------------
(* Trades                                                                   *)

\* The working copies t of the row are a trade of q for v: krw and coin are
\* what the rows of the balances say is available.
TradeSoFar(t, row, krw, coin) ==
  LET q    == t.ord.filled - row.filled
      v    == t.ord.spent - row.spent
      take == Claim(row) - Claim(t.ord)
  IN /\ q \in Nat /\ v \in Nat /\ (t.matched => q > 0)
     /\ IF row.side = "BUY"
        THEN /\ take = (IF row.type = "LIMIT" THEN row.price * q ELSE v)
             /\ v <= take
             /\ t.krw.available = krw + (take - v)
             /\ t.coin.available = coin + q
        ELSE /\ take = q
             /\ row.type = "LIMIT" => v >= row.price * q
             /\ t.krw.available = krw + v
             /\ t.coin.available = coin

TxTrades(r) ==
  LET ord == tx[r].ord
  IN TradeSoFar(tx[r], orders[tx[r].order], bal[ord.user]["KRW"].available,
                bal[ord.user][ord.market].available)

TradesSound == \A r \in Runs : InTx(r) => TxTrades(r)

-----------------------------------------------------------------------------
(* The invariant                                                            *)

\* What an open transaction is about.
LEMMA TxFacts ==
  ASSUME LedgerInvariant, NEW r \in Runs, InTx(r)
  PROVE  LET t   == tx[r]
             ord == t.ord
             row == orders[t.order]
         IN /\ t \in Tx /\ t.order \in OrderIds /\ ord \in Order /\ row \in Order
            /\ row # NoOrder /\ row.status = "OPEN" /\ ord.status = "OPEN"
            /\ ord.user \in Users /\ ord.market \in Markets
            /\ SameOrder(ord, row) /\ FillsAddUp(ord) /\ FillsAddUp(row)
            /\ Claim(ord) \in Nat /\ Claim(row) \in Nat
<1> DEFINE t == tx[r]
           ord == t.ord
           row == orders[t.order]
<1>1. t \in Tx /\ TypeOK /\ OrdersSound
  BY Present DEF LedgerInvariant
<1>2. t.order \in OrderIds /\ ord \in Order /\ ord.user \in Users /\ ord.market \in Markets
  BY <1>1 DEF Tx, Order
<1>3. row.status = "OPEN" /\ SameOrder(ord, row) /\ FillsAddUp(ord) /\ ord.status = "OPEN"
  BY DEF LedgerInvariant, TxSound, TxMatches, SameOrder
<1>4. row \in Order /\ row # NoOrder
  BY <1>1, <1>2, <1>3, Present DEF IsOpen
<1>5. FillsAddUp(row)
  BY <1>1, <1>2, <1>4 DEF OrdersSound
<1>6. Claim(ord) \in Nat /\ Claim(row) \in Nat
  BY <1>2, <1>3, <1>4, <1>5, ClaimType
<1>7. QED
  BY <1>1, <1>2, <1>3, <1>4, <1>5, <1>6

\* The rows of an open transaction are left alone by a step of somebody else.
LEMMA TradesKept ==
  ASSUME TradesSound,
         \A s \in Runs : InTx(s)' =>
            \/ TxTrades(s)'
            \/ LET u == tx[s].ord.user
                   m == tx[s].ord.market
               IN /\ tx'[s] = tx[s]
                  /\ orders'[tx[s].order] = orders[tx[s].order]
                  /\ bal'[u]["KRW"] = bal[u]["KRW"] /\ bal'[u][m] = bal[u][m]
  PROVE  TradesSound'
<1>1. ASSUME NEW s \in Runs, InTx(s)' PROVE TxTrades(s)'
  <2>1. CASE TxTrades(s)'
    BY <2>1, SMTT(60)
  <2>2. CASE LET u == tx[s].ord.user
                 m == tx[s].ord.market
             IN /\ tx'[s] = tx[s]
                /\ orders'[tx[s].order] = orders[tx[s].order]
                /\ bal'[u]["KRW"] = bal[u]["KRW"] /\ bal'[u][m] = bal[u][m]
    <3>1. TxTrades(s)
      BY <1>1, <2>2 DEF TradesSound, InTx
    <3>2. QED
      BY <2>2, <3>1, ZenonT(60) DEF TxTrades
  <2>3. QED
    BY <1>1, <2>1, <2>2
<1>2. QED
  BY <1>1 DEF TradesSound

\* A request changes at most one order and one balance, neither of them held
\* by a transaction.
LEMMA RequestTrades ==
  ASSUME LedgerInvariant, TradesSound, tx' = tx, NEW u, NEW a,
         \A o \in OrderIds : OrderLocked(o) => orders'[o] = orders[o],
         \A v \in Users, b \in Assets : ~(v = u /\ b = a) => bal'[v][b] = bal[v][b],
         ~BalanceLocked(u, a)
  PROVE  TradesSound'
<1>1. ASSUME NEW s \in Runs, InTx(s)
      PROVE  /\ orders'[tx[s].order] = orders[tx[s].order]
             /\ bal'[tx[s].ord.user]["KRW"] = bal[tx[s].ord.user]["KRW"]
             /\ bal'[tx[s].ord.user][tx[s].ord.market] = bal[tx[s].ord.user][tx[s].ord.market]
  <2>1. /\ tx[s].order \in OrderIds /\ tx[s].ord.user \in Users /\ tx[s].ord.market \in Markets
    BY <1>1, TxFacts
  <2>2. OrderLocked(tx[s].order)
    BY <1>1 DEF OrderLocked
  <2>3. tx[s].ord.user = u => a \notin {"KRW", tx[s].ord.market}
    BY <1>1 DEF BalanceLocked
  <2>4. QED
    BY <2>1, <2>2, <2>3, MarketsAreNotKRW
<1>2. \A s \in Runs : InTx(s)' => InTx(s)
  BY DEF InTx
<1>3. QED
  BY <1>1, <1>2, TradesKept

\* Nothing has been traded when the rows have just been read.
LEMMA LockOrderTrades ==
  ASSUME LedgerInvariant, TradesSound, NEW r \in Runs, NEW o \in OrderIds, LockOrder(r, o)
  PROVE  TradesSound'
<1> DEFINE ord == orders[o]
           t == [order |-> o, ord |-> ord,
                 krw |-> bal[ord.user]["KRW"],
                 coin |-> bal[ord.user][ord.market],
                 qty |-> pos[ord.user][ord.market], matched |-> FALSE]
<1>1. TypeOK /\ OrdersSound
  BY DEF LedgerInvariant
<1>2. ord \in Order /\ ord # NoOrder
  BY <1>1, Present DEF LockOrder
<1>3. /\ ord.user \in Users /\ ord.market \in Markets /\ ord.filled \in Nat
      /\ ord.spent \in Nat /\ ord.price \in Nat
  BY <1>2 DEF Order
<1>4. /\ bal[ord.user]["KRW"].available \in Nat /\ bal[ord.user][ord.market].available \in Nat
      /\ Claim(ord) \in Nat
  BY <1>1, <1>2, <1>3, MarketsAreNotKRW, ClaimType DEF TypeOK, Account, OrdersSound
<1>5. tx'[r] = t /\ \A s \in Runs \ {r} : tx'[s] = tx[s]
  BY <1>1 DEF LockOrder, TypeOK
<1>6. orders' = orders /\ bal' = bal
  BY DEF LockOrder
<1>7. TradeSoFar(t, ord, bal[ord.user]["KRW"].available, bal[ord.user][ord.market].available)
  <2>1. ord.filled - ord.filled = 0 /\ ord.spent - ord.spent = 0 /\ Claim(ord) - Claim(ord) = 0
    BY <1>3, <1>4
  <2>2. ord.price * 0 = 0
    BY <1>3
  <2>3. t.ord = ord /\ t.matched = FALSE /\ t.krw = bal[ord.user]["KRW"] /\ t.coin = bal[ord.user][ord.market]
    OBVIOUS
  <2> HIDE DEF t
  <2>4. QED
    BY <1>4, <2>1, <2>2, <2>3 DEF TradeSoFar
<1>8. t.order = o /\ t.ord = ord
  OBVIOUS
<1> HIDE DEF t
<1>9. TxTrades(r)'
  BY <1>5, <1>6, <1>7, <1>8 DEF TxTrades
<1>10. QED
  BY <1>5, <1>6, <1>9, TradesKept DEF InTx

\* A fill adds to the trade what it takes from the claim.
LEMMA FillTrades ==
  ASSUME LedgerInvariant, TradesSound, NEW r \in Runs, NEW p \in Prices, Fill(r, p)
  PROVE  TradesSound'
<1> DEFINE t == tx[r]
           ord == t.ord
           row == orders[t.order]
           q == NextQty(r, p)
           w == FilledBy(ord, p, q)
           x == IF ord.side = "BUY" THEN BuyFill(t, p, q) ELSE SellFill(t, p, q)
           krw == bal[ord.user]["KRW"].available
           coin == bal[ord.user][ord.market].available
<1>1. Typed /\ InTx(r) /\ NextFill(r, p)
  BY InvariantTyped DEF Fill, NextFill
<1>2. /\ t \in Tx /\ ord \in Order /\ Side(r)[p] \in Nat
      /\ q = FillQty(ord, p, Side(r)[p]) /\ q > 0 /\ q \in Nat
  BY <1>1, NextFillFacts
<1>3. /\ row \in Order /\ ord.status = "OPEN" /\ SameOrder(ord, row)
      /\ FillsAddUp(ord) /\ FillsAddUp(row)
      /\ Claim(ord) \in Nat /\ Claim(row) \in Nat
      /\ ord.user \in Users /\ ord.market \in Markets
  BY <1>1, TxFacts
<1>4. TradeSoFar(t, row, krw, coin)
  BY <1>1 DEF TradesSound, TxTrades
<1>5. /\ w \in Order /\ SameOrder(w, ord)
      /\ ord.side = "BUY" => Claim(w) = Claim(ord) - LockedAmount(ord, p, q)
      /\ ord.side = "SELL" => Claim(w) = Claim(ord) - q
  <2> DEFINE size == Side(r)[p]
  <2>1. /\ ord \in Order /\ size \in Nat /\ q = FillQty(ord, p, size)
        /\ FillQty(ord, p, size) > 0
        /\ ord.status = "OPEN" /\ FillsAddUp(ord)
    BY <1>2, <1>3
  <2> HIDE DEF ord, q, size
  <2>2. FilledBy(ord, p, FillQty(ord, p, size)) \in Order
    BY <2>1, FilledByType
  <2>3. LET v == FilledBy(ord, p, FillQty(ord, p, size))
        IN /\ SameOrder(v, ord)
           /\ ord.side = "BUY" =>
                Claim(v) = Claim(ord) - LockedAmount(ord, p, FillQty(ord, p, size))
           /\ ord.side = "SELL" => Claim(v) = Claim(ord) - FillQty(ord, p, size)
    BY <2>1, FilledBySound
  <2>4. w = FilledBy(ord, p, FillQty(ord, p, size))
    BY <2>1
  <2>5. QED
    BY <2>1, <2>2, <2>3, <2>4
<1>6. w.filled = ord.filled + q /\ w.spent = ord.spent + p * q
  BY <1>2 DEF FilledBy, Order
<1>7. /\ x.ord = w /\ x.order = t.order /\ x.matched = TRUE
      /\ ord.side = "BUY" =>
           /\ x.krw.available = t.krw.available + (LockedAmount(ord, p, q) - p * q)
           /\ x.coin.available = t.coin.available + q
      /\ ord.side = "SELL" =>
           /\ x.krw.available = t.krw.available + p * q
           /\ x.coin.available = t.coin.available
  BY DEF BuyFill, SellFill
<1>8. /\ tx'[r] = x /\ \A s \in Runs \ {r} : tx'[s] = tx[s]
      /\ orders' = orders /\ bal' = bal
  BY DEF Fill, LedgerInvariant, TypeOK
<1>9. p \in Nat \ {0} /\ p * q \in Nat
  BY <1>2, MulMono
<1>10. /\ krw \in Nat /\ coin \in Nat
       /\ t.krw.available \in Nat /\ t.coin.available \in Nat
  BY <1>2, <1>3, MarketsAreNotKRW DEF LedgerInvariant, TypeOK, Account, Tx
<1>11. /\ row.price = ord.price /\ row.type = ord.type /\ row.side = ord.side
       /\ row.price \in Nat /\ row.filled \in Nat /\ row.spent \in Nat
       /\ ord.filled \in Nat /\ ord.spent \in Nat
       /\ row.side \in {"BUY", "SELL"} /\ row.type \in {"LIMIT", "MARKET"}
  BY <1>2, <1>3 DEF SameOrder, Order
<1>12. Acceptable(ord, p)
  BY <1>2, FillQtyBounds
<1> HIDE DEF x, w, q, krw, coin
<1>13. TradeSoFar(x, row, krw, coin)
  <2> DEFINE q0 == ord.filled - row.filled
             v0 == ord.spent - row.spent
             l  == LockedAmount(ord, p, q)
  <2>1. q0 \in Nat /\ v0 \in Nat
    BY <1>4 DEF TradeSoFar
  <2>2. w.filled - row.filled = q0 + q /\ w.spent - row.spent = v0 + p * q
    BY <1>2, <1>6, <1>9, <1>11
  <2>3. row.price * (q0 + q) = row.price * q0 + row.price * q
    BY <1>2, <1>11, <2>1, Distribution
  <2>4. row.price * q0 \in Nat /\ row.price * q \in Nat
    BY <1>2, <1>11, <2>1, MulMono
  <2>5. q0 + q \in Nat /\ q0 + q > 0 /\ v0 + p * q \in Nat
    BY <1>2, <1>9, <2>1
  <2>6. CASE row.side = "BUY"
    <3>1. l = (IF row.type = "LIMIT" THEN row.price * q ELSE p * q)
      BY <1>11 DEF LockedAmount
    <3>2. p * q <= l /\ l \in Nat
      <4>1. CASE row.type = "LIMIT"
        <5>1. p <= row.price
          BY <1>11, <1>12, <2>6, <4>1 DEF Acceptable
        <5>2. QED
          BY <1>2, <1>9, <1>11, <2>4, <3>1, <4>1, <5>1, MulMono
      <4>2. CASE row.type # "LIMIT"
        BY <1>9, <3>1, <4>2
      <4>3. QED
        BY <4>1, <4>2
    <3> DEFINE take0 == Claim(row) - Claim(ord)
    <3>3. /\ take0 = (IF row.type = "LIMIT" THEN row.price * q0 ELSE v0)
          /\ v0 <= take0
          /\ t.krw.available = krw + (take0 - v0)
          /\ t.coin.available = coin + q0
      BY <1>4, <2>6 DEF TradeSoFar
    <3>4. Claim(row) - Claim(w) = take0 + l /\ take0 \in Int
      BY <1>3, <1>5, <1>11, <2>6, <3>2
    <3>5. /\ x.krw.available = t.krw.available + (l - p * q)
          /\ x.coin.available = t.coin.available + q
      BY <1>7, <1>11, <2>6
    <3> HIDE DEF q0, v0, l, take0
    <3>6. take0 + l = (IF row.type = "LIMIT" THEN row.price * (q0 + q) ELSE v0 + p * q)
      BY <2>3, <2>4, <3>1, <3>3
    <3>7. v0 + p * q <= take0 + l
      BY <1>9, <2>1, <3>2, <3>3, <3>4
    <3>8. /\ x.krw.available = krw + ((take0 + l) - (v0 + p * q))
          /\ x.coin.available = coin + (q0 + q)
      BY <1>2, <1>9, <1>10, <2>1, <3>2, <3>3, <3>4, <3>5
    <3>9. QED
      BY <1>7, <2>2, <2>5, <2>6, <3>4, <3>6, <3>7, <3>8 DEF TradeSoFar
  <2>7. CASE row.side = "SELL"
    <3> DEFINE take0 == Claim(row) - Claim(ord)
    <3>1. /\ take0 = q0
          /\ row.type = "LIMIT" => v0 >= row.price * q0
          /\ t.krw.available = krw + v0
          /\ t.coin.available = coin
      BY <1>4, <2>7 DEF TradeSoFar
    <3>2. Claim(row) - Claim(w) = q0 + q
      BY <1>2, <1>3, <1>5, <1>11, <2>1, <2>7, <3>1
    <3>3. row.type = "LIMIT" => row.price * q <= p * q
      <4>1. SUFFICES ASSUME row.type = "LIMIT" PROVE row.price * q <= p * q
        OBVIOUS
      <4>2. row.price <= p
        BY <1>11, <1>12, <2>7, <4>1 DEF Acceptable
      <4>3. QED
        BY <1>2, <1>9, <1>11, <4>2, MulMono
    <3>4. x.krw.available = t.krw.available + p * q /\ x.coin.available = t.coin.available
      BY <1>7, <1>11, <2>7
    <3> HIDE DEF q0, v0, l, take0
    <3>5. row.type = "LIMIT" => v0 + p * q >= row.price * (q0 + q)
      BY <1>9, <2>1, <2>3, <2>4, <3>1, <3>3
    <3>6. x.krw.available = krw + (v0 + p * q) /\ x.coin.available = coin
      BY <1>9, <1>10, <2>1, <3>1, <3>4
    <3>7. QED
      BY <1>7, <2>2, <2>5, <2>7, <3>2, <3>5, <3>6 DEF TradeSoFar
  <2>8. QED
    BY <1>11, <2>6, <2>7
<1>14. x.ord.user = ord.user /\ x.ord.market = ord.market
  BY <1>5, <1>7 DEF SameOrder
<1>15. TxTrades(r)'
  BY <1>7, <1>8, <1>13, <1>14 DEF TxTrades, krw, coin
<1>16. QED
  BY <1>8, <1>15, TradesKept DEF InTx

\* The rows a commit writes are nobody else's.
LEMMA SettleTrades ==
  ASSUME LedgerInvariant, TradesSound, NEW r \in Runs, Settle(r)
  PROVE  TradesSound'
<1> DEFINE t == tx[r]
           u == t.ord.user
           m == t.ord.market
<1>1. TypeOK /\ TxApart /\ InTx(r)
  BY DEF LedgerInvariant, Settle, MatchingOver
<1>2. /\ t.order \in OrderIds /\ u \in Users /\ m \in Markets
      /\ orders[t.order].user = u
  BY <1>1, TxFacts DEF SameOrder
<1>3. /\ orders' = [orders EXCEPT ![t.order] = Concluded(job[r], t.ord)]
      /\ bal' = [bal EXCEPT ![u]["KRW"] = t.krw, ![u][m] = t.coin]
      /\ tx' = [tx EXCEPT ![r] = NoTx]
  BY DEF Settle
<1>4. ASSUME NEW s \in Runs, InTx(s)'
      PROVE  s # r /\ tx'[s] = tx[s] /\ InTx(s)
  BY <1>1, <1>3, <1>4 DEF InTx, NoTx, TypeOK
<1>5. ASSUME NEW s \in Runs, s # r, InTx(s)
      PROVE  /\ orders'[tx[s].order] = orders[tx[s].order]
             /\ bal'[tx[s].ord.user] = bal[tx[s].ord.user]
  <2>1. /\ tx[s].order \in OrderIds /\ tx[s].ord.user \in Users
        /\ orders[tx[s].order].user = tx[s].ord.user
    BY <1>5, TxFacts DEF SameOrder
  <2>2. tx[s].ord.user # u
    BY <1>1, <1>5 DEF TxApart
  <2> HIDE DEF t, u, m
  <2>3. tx[s].order # t.order
    BY <1>2, <2>1, <2>2
  <2>4. QED
    BY <1>1, <1>2, <1>3, <2>1, <2>2, <2>3 DEF TypeOK
<1>6. QED
  BY <1>4, <1>5, TradesKept

\* A step that writes no row and opens no transaction.
LEMMA NoWriteTrades ==
  ASSUME TradesSound, NEW r \in Runs, orders' = orders, bal' = bal, TypeOK,
         tx' = tx \/ tx' = [tx EXCEPT ![r] = NoTx]
  PROVE  TradesSound'
<1>1. \A s \in Runs : InTx(s)' => tx'[s] = tx[s]
  BY DEF InTx, NoTx, TypeOK
<1>2. QED
  BY <1>1, TradesKept

\* Every step of trading keeps the trades of the open transactions.
LEMMA NextTrades ==
  LedgerInvariant /\ TradesSound /\ [TradingNext]_vars => TradesSound'
<1> SUFFICES ASSUME LedgerInvariant, TradesSound, [TradingNext]_vars PROVE TradesSound'
  OBVIOUS
<1>1. TypeOK
  BY DEF LedgerInvariant
<1>2. CASE UNCHANGED vars
  BY <1>2, TradesKept DEF vars
<1>3. ASSUME NEW o \in OrderIds, NEW ord, NEW reserve, CreateOrder(o, ord, reserve)
      PROVE  TradesSound'
  <2>1. ~OrderLocked(o)
    <3>1. orders[o].status = "NONE"
      BY <1>3 DEF CreateOrder, NoOrder
    <3>2. QED
      BY <3>1, TxFacts DEF OrderLocked
  <2>2. /\ \A p \in OrderIds : OrderLocked(p) => orders'[p] = orders[p]
        /\ \A v \in Users, b \in Assets :
             ~(v = ord.user /\ b = ReservedAsset(ord)) => bal'[v][b] = bal[v][b]
        /\ ~BalanceLocked(ord.user, ReservedAsset(ord)) /\ tx' = tx
    BY <1>1, <1>3, <2>1 DEF CreateOrder, TypeOK
  <2>3. QED
    BY <2>2, RequestTrades
<1>4. ASSUME NEW o \in OrderIds, CancelOrder(o) PROVE TradesSound'
  <2> DEFINE u == orders[o].user
             a == ReservedAsset(orders[o])
  <2>1. /\ \A p \in OrderIds : OrderLocked(p) => orders'[p] = orders[p]
        /\ \A v \in Users, b \in Assets : ~(v = u /\ b = a) => bal'[v][b] = bal[v][b]
        /\ ~BalanceLocked(u, a) /\ tx' = tx
    BY <1>1, <1>4 DEF CancelOrder, TypeOK
  <2>2. QED
    BY <2>1, RequestTrades
<1>5. CASE UserStep
  BY <1>3, <1>4, <1>5 DEF UserStep, CreateLimitBuy, CreateMarketBuy, CreateSell
<1>6. CASE FundingStep
  <2>1. PICK u \in Users : \E x : SetAvailable(u, x)
    BY <1>6 DEF FundingStep, Initialize, Deposit
  <2>2. /\ orders' = orders /\ tx' = tx /\ ~BalanceLocked(u, "KRW")
        /\ \A v \in Users, b \in Assets : ~(v = u /\ b = "KRW") => bal'[v][b] = bal[v][b]
    BY <1>1, <2>1 DEF SetAvailable, TypeOK
  <2>3. QED
    BY <2>2, RequestTrades
<1>7. ASSUME NEW r \in Runs, RunStep(r) PROVE TradesSound'
  <2>1. ASSUME NEW m \in Markets, NEW book \in Books, StartRun(r, m, book) PROVE TradesSound'
    BY <1>1, <2>1, NoWriteTrades DEF StartRun
  <2>2. ASSUME NEW o \in OrderIds, SkipOrder(r, o) PROVE TradesSound'
    BY <1>1, <2>2, NoWriteTrades DEF SkipOrder
  <2>3. ASSUME NEW o \in OrderIds, LockOrder(r, o) PROVE TradesSound'
    BY <2>3, LockOrderTrades
  <2>4. ASSUME NEW p \in Prices, Fill(r, p) PROVE TradesSound'
    BY <2>4, FillTrades
  <2>5. ASSUME NEW p \in Prices, FillThrows(r, p) PROVE TradesSound'
    BY <1>1, <2>5, NoWriteTrades DEF FillThrows
  <2>6. CASE Settle(r)
    BY <2>6, SettleTrades
  <2>7. CASE NoMatch(r) \/ FinishRun(r) \/ RunFails(r)
    BY <1>1, <2>7, NoWriteTrades DEF NoMatch, FinishRun, RunFails
  <2>8. QED
    BY <1>7, <2>1, <2>2, <2>3, <2>4, <2>5, <2>6, <2>7 DEF RunStep
<1>8. QED
  BY <1>2, <1>5, <1>6, <1>7 DEF TradingNext

\* At first no transaction is open.
LEMMA InitTrades == Init => TradesSound
BY DEF Init, TradesSound, InTx, NoTx

\* The working copies of an open transaction are one trade, at any time.
THEOREM TradesSoundHolds == TradingSpec => [](LedgerInvariant /\ TradesSound)
<1>1. Init => LedgerInvariant /\ TradesSound
  BY InitSound, InitTrades
<1>2. LedgerInvariant /\ TradesSound /\ [TradingNext]_vars => (LedgerInvariant /\ TradesSound)'
  BY NextSound, NextTrades
<1>3. QED
  BY <1>1, <1>2, PTL DEF TradingSpec

-----------------------------------------------------------------------------
(* The refinement                                                           *)

\* A free balance is what is available.
LEMMA FreeValue ==
  ASSUME NEW u \in Users, NEW a \in Assets
  PROVE  FreeBalances[u][a] = bal[u][a].available /\ FreeBalances'[u][a] = bal'[u][a].available
BY DEF FreeBalances

\* When one balance changes, so does one free balance.
LEMMA FreeFollows ==
  ASSUME TypeOK, NEW u \in Users, NEW a \in Assets, NEW acc, bal' = [bal EXCEPT ![u][a] = acc]
  PROVE  FreeBalances' = [FreeBalances EXCEPT ![u][a] = acc.available]
<1>1. \A v \in Users, b \in Assets :
        bal'[v][b] = IF v = u /\ b = a THEN acc ELSE bal[v][b]
  BY DEF TypeOK
<1>2. FreeBalances = [v \in Users |-> [b \in Assets |-> bal[v][b].available]]
  BY DEF FreeBalances
<1>3. FreeBalances' = [v \in Users |-> [b \in Assets |-> bal'[v][b].available]]
  BY DEF FreeBalances
<1>4. \A v \in Users, b \in Assets :
        bal'[v][b].available = IF v = u /\ b = a THEN acc.available ELSE bal[v][b].available
  BY <1>1
<1> DEFINE row(v) == [b \in Assets |-> bal[v][b].available]
<1>5. ASSUME NEW v \in Users
      PROVE  FreeBalances'[v] = IF v = u THEN [row(u) EXCEPT ![a] = acc.available] ELSE row(v)
  <2>1. FreeBalances'[v] = [b \in Assets |-> bal'[v][b].available]
    BY <1>3
  <2>2. CASE v = u
    <3>1. [row(u) EXCEPT ![a] = acc.available]
            = [b \in Assets |-> IF b = a THEN acc.available ELSE bal[u][b].available]
      OBVIOUS
    <3>2. FreeBalances'[u]
            = [b \in Assets |-> IF b = a THEN acc.available ELSE bal[u][b].available]
      BY <1>4, <2>1, <2>2
    <3>3. QED
      BY <2>2, <3>1, <3>2
  <2>3. CASE v # u
    BY <1>4, <2>1, <2>3
  <2>4. QED
    BY <2>2, <2>3
<1>6. [FreeBalances EXCEPT ![u][a] = acc.available]
        = [v \in Users |-> IF v = u THEN [row(u) EXCEPT ![a] = acc.available] ELSE row(v)]
  BY <1>2
<1>7. FreeBalances' = [v \in Users |-> FreeBalances'[v]]
  BY <1>3
<1> HIDE DEF row
<1>8. QED
  BY <1>5, <1>6, <1>7

\* When one order changes, so does its promise.
LEMMA PromiseFollows ==
  ASSUME TypeOK, NEW o \in OrderIds, NEW w, orders' = [orders EXCEPT ![o] = w]
  PROVE  /\ PromisedOrders' = [PromisedOrders EXCEPT ![o] = Promised(w)]
         /\ PromisedOrders'[o] = Promised(w) /\ PromisedOrders[o] = Promised(orders[o])
<1>1. \A p \in OrderIds : orders'[p] = IF p = o THEN w ELSE orders[p]
  BY DEF TypeOK
<1>2. PromisedOrders' = [p \in OrderIds |-> Promised(orders'[p])]
  BY DEF PromisedOrders, Promised, Claim, ReleaseAmount, IsMarketBuy, NoOrder
<1>3. PromisedOrders = [p \in OrderIds |-> Promised(orders[p])]
  BY DEF PromisedOrders
<1>4. \A p \in OrderIds : Promised(orders'[p]) = IF p = o THEN Promised(w) ELSE Promised(orders[p])
  BY <1>1
<1>5. QED
  BY <1>2, <1>3, <1>4

\* A create is a Place.
LEMMA CreateIsPlace ==
  ASSUME TypeOK, NEW o \in OrderIds, NEW ord \in Order, NEW reserve \in Nat \ {0},
         ord.status = "OPEN", ord.filled = 0, ord.spent = 0, Claim(ord) = reserve,
         ord.side = "SELL" => reserve = ord.qty,
         ord.side = "BUY" /\ ord.type = "LIMIT" => reserve = ord.price * ord.qty,
         CreateOrder(o, ord, reserve)
  PROVE  Abstract!Place(o)
<1> DEFINE u == ord.user
           a == ReservedAsset(ord)
           new == Promised(ord)
<1>1. u \in Users /\ a \in Assets /\ ord # NoOrder /\ ord.side \in {"BUY", "SELL"}
  BY DEF Order, ReservedAsset, Assets, NoOrder
<1>2. /\ orders[o] = NoOrder /\ bal[u][a].available >= reserve
      /\ orders' = [orders EXCEPT ![o] = ord]
      /\ bal' = [bal EXCEPT ![u][a] = Reserved(bal[u][a], reserve)]
  BY DEF CreateOrder
<1>3. /\ PromisedOrders' = [PromisedOrders EXCEPT ![o] = new]
      /\ FreeBalances' = [FreeBalances EXCEPT ![u][a] = bal[u][a].available - reserve]
      /\ PromisedOrders'[o] = new /\ PromisedOrders[o] = Promised(orders[o])
  <2> DEFINE acc == Reserved(bal[u][a], reserve)
  <2>1. acc.available = bal[u][a].available - reserve
    BY DEF Reserved
  <2> HIDE DEF acc, u, a, new
  <2>2. FreeBalances' = [FreeBalances EXCEPT ![u][a] = acc.available]
    BY <1>1, <1>2, FreeFollows DEF acc
  <2>3. QED
    BY <1>2, <2>1, <2>2, PromiseFollows DEF new
<1>4. PromisedOrders[o] = Abstract!None
  BY <1>2, <1>3 DEF Promised, Abstract!None, NoOrder
<1>5. /\ new.status = "OPEN" /\ new.filled = 0 /\ new.spent = 0 /\ new.held = reserve
      /\ new.user = u /\ Abstract!Gives(new) = a
  BY <1>1 DEF Promised, Abstract!Gives, ReservedAsset
<1>6. Abstract!Reserve(new)
  BY <1>1, <1>5 DEF Promised, Abstract!Reserve, IsMarketBuy
<1>7. FreeBalances[u][a] = bal[u][a].available
  BY <1>1, FreeValue
<1> HIDE DEF new, u, a
<1>8. PromisedOrders'[o].held > 0 /\ FreeBalances[u][a] - new.held = bal[u][a].available - reserve
  BY <1>3, <1>5, <1>7
<1>9. QED
  BY <1>2, <1>3, <1>4, <1>5, <1>6, <1>7, <1>8 DEF Abstract!Place

\* A cancel is a Cancel: what the order claims is what it holds.
LEMMA CancelIsCancel ==
  ASSUME LedgerInvariant, NEW o \in OrderIds, CancelOrder(o)
  PROVE  Abstract!Cancel(o)
<1> DEFINE ord == orders[o]
           u == ord.user
           a == ReservedAsset(ord)
           w == [ord EXCEPT !.status = "CANCELED"]
           acc == Restored(bal[u][a], ReleaseAmount(ord))
           old == Promised(ord)
<1>1. TypeOK /\ ord \in Order /\ ord # NoOrder /\ ord.status = "OPEN"
  BY Present DEF LedgerInvariant, CancelOrder, IsOpen
<1>2. u \in Users /\ a \in Assets /\ ord.side \in {"BUY", "SELL"} /\ w # NoOrder
  BY <1>1 DEF Order, ReservedAsset, Assets, NoOrder
<1>3. orders' = [orders EXCEPT ![o] = w] /\ bal' = [bal EXCEPT ![u][a] = acc]
  BY DEF CancelOrder
<1>4. Claim(ord) = ReleaseAmount(ord) /\ Claim(w) = 0
  BY <1>1 DEF Claim, Order
<1>5. acc.available = bal[u][a].available + ReleaseAmount(ord)
  BY DEF Restored
<1>6. old.status = "OPEN" /\ old.user = u /\ old.held = ReleaseAmount(ord)
      /\ Abstract!Gives(old) = a
  BY <1>1, <1>2, <1>4 DEF Promised, Abstract!Gives, ReservedAsset
<1>7. LET new == Promised(w)
      IN /\ new.status = "CANCELED" /\ new.held = 0 /\ Abstract!SameTerms(old, new)
         /\ new.filled = old.filled /\ new.spent = old.spent
  <2>1. /\ w.user = ord.user /\ w.market = ord.market /\ w.side = ord.side
        /\ w.type = ord.type /\ w.price = ord.price /\ w.qty = ord.qty
        /\ w.filled = ord.filled /\ w.spent = ord.spent /\ w.status = "CANCELED"
    BY <1>1 DEF Order
  <2> HIDE DEF w
  <2>2. QED
    BY <1>1, <1>2, <1>4, <2>1 DEF Promised, Abstract!SameTerms, IsMarketBuy
<1> HIDE DEF ord, u, a, w, acc, old
<1>8. /\ PromisedOrders' = [PromisedOrders EXCEPT ![o] = Promised(w)]
      /\ FreeBalances' = [FreeBalances EXCEPT ![u][a] = acc.available]
      /\ PromisedOrders'[o] = Promised(w) /\ PromisedOrders[o] = Promised(orders[o])
  <2>1. FreeBalances' = [FreeBalances EXCEPT ![u][a] = acc.available]
    BY <1>1, <1>2, <1>3, FreeFollows
  <2>2. QED
    BY <1>1, <1>3, <2>1, PromiseFollows
<1>9. PromisedOrders[o] = old
  BY <1>8 DEF old, ord
<1>10. FreeBalances[u][a] = bal[u][a].available
  BY <1>2, FreeValue
<1>11. QED
  BY <1>5, <1>6, <1>7, <1>8, <1>9, <1>10 DEF Abstract!Cancel

\* Depositing is funding.
LEMMA FundingIsFund ==
  ASSUME TypeOK, NEW u \in Users, NEW x, SetAvailable(u, x)
  PROVE  Abstract!Fund(u)
<1> DEFINE acc == [available |-> x, locked |-> bal[u]["KRW"].locked]
<1>1. orders' = orders /\ bal' = [bal EXCEPT ![u]["KRW"] = acc] /\ "KRW" \in Assets
  BY DEF SetAvailable, Assets
<1>2. PromisedOrders' = PromisedOrders
  BY <1>1 DEF PromisedOrders, Promised, Claim, ReleaseAmount, IsMarketBuy, NoOrder
<1>3. bal'[u]["KRW"] = acc
  BY <1>1 DEF TypeOK
<1> HIDE DEF acc
<1>4. FreeBalances' = [FreeBalances EXCEPT ![u]["KRW"] = acc.available]
  <2>1. bal' = [bal EXCEPT ![u]["KRW"] = acc]
    BY <1>1
  <2>2. QED
    BY <1>1, <2>1, FreeFollows, ZenonT(60)
<1>5. FreeBalances'[u]["KRW"] = acc.available
  BY <1>1, <1>3, FreeValue
<1>6. QED
  BY <1>2, <1>4, <1>5 DEF Abstract!Fund

\* A commit is a Trade.
LEMMA SettleIsTrade ==
  ASSUME LedgerInvariant, TradesSound, NEW r \in Runs, Settle(r)
  PROVE  \E o \in OrderIds : Abstract!Trade(o)
<1> DEFINE t == tx[r]
           o == t.order
           ord == t.ord
           u == ord.user
           m == ord.market
           row == orders[o]
           w == Concluded(job[r], ord)
           q == w.filled - row.filled
           v == w.spent - row.spent
           take == Claim(row) - Claim(w)
           old == Promised(row)
           new == Promised(w)
<1>1. TypeOK /\ InTx(r) /\ t.matched
  BY DEF LedgerInvariant, Settle, MatchingOver
<1>2. /\ t \in Tx /\ o \in OrderIds /\ ord \in Order /\ row \in Order
      /\ row # NoOrder /\ row.status = "OPEN" /\ ord.status = "OPEN"
      /\ u \in Users /\ m \in Markets /\ SameOrder(ord, row)
      /\ FillsAddUp(ord) /\ Claim(ord) \in Nat /\ Claim(row) \in Nat
  BY <1>1, TxFacts
<1>3. /\ w \in Order /\ FillsAddUp(w) /\ StatusIsDue(w) /\ Claim(w) = Claim(ord)
  BY <1>2, ConcludedSound
<1>4. /\ w.user = ord.user /\ w.market = ord.market /\ w.side = ord.side
      /\ w.type = ord.type /\ w.price = ord.price /\ w.qty = ord.qty
      /\ w.filled = ord.filled /\ w.spent = ord.spent
      /\ w.status \in {"OPEN", "FILLED"}
  BY <1>2, ConcludedType DEF Concluded, Order
<1>5. /\ row.user = u /\ row.market = m /\ row.side = ord.side /\ row.type = ord.type
      /\ row.price = ord.price /\ row.qty = ord.qty
  BY <1>2 DEF SameOrder
<1>6. /\ orders' = [orders EXCEPT ![o] = w]
      /\ bal' = [bal EXCEPT ![u]["KRW"] = t.krw, ![u][m] = t.coin]
  BY DEF Settle
<1>7. TradeSoFar(t, row, bal[u]["KRW"].available, bal[u][m].available)
  BY <1>1 DEF TradesSound, TxTrades
<1>8. m # "KRW" /\ m \in Assets /\ "KRW" \in Assets
  BY <1>2, MarketsAreNotKRW
<1>9. w # NoOrder
  BY <1>4 DEF NoOrder
<1>10. /\ row.side \in {"BUY", "SELL"} /\ row.type \in {"LIMIT", "MARKET"}
       /\ row.price \in Nat /\ row.qty \in Nat /\ w.filled \in Nat /\ w.remaining \in Nat
  BY <1>2, <1>3 DEF Order
<1>11. row.price > 0
  BY <1>2, <1>5 DEF FillsAddUp
<1>12. /\ old.status = "OPEN" /\ old.user = u /\ old.market = m /\ old.side = row.side
       /\ old.filled = row.filled /\ old.spent = row.spent /\ old.held = Claim(row)
       /\ old.limit = (IF row.type = "LIMIT" THEN row.price ELSE 0)
       /\ old.qty = (IF IsMarketBuy(row) THEN 0 ELSE row.qty)
  BY <1>2, <1>5 DEF Promised
<1>13. /\ new.status = w.status /\ new.user = u /\ new.market = m /\ new.side = row.side
       /\ new.filled = w.filled /\ new.spent = w.spent /\ new.held = Claim(w)
       /\ new.limit = old.limit /\ new.qty = old.qty
  BY <1>4, <1>5, <1>9, <1>12 DEF Promised, IsMarketBuy
<1>14. q \in Nat /\ q > 0 /\ v \in Nat
  BY <1>1, <1>3, <1>4, <1>7 DEF TradeSoFar
<1>15. old.qty > 0 => (w.status = "FILLED" <=> w.filled = w.qty)
  <2>1. CASE IsMarketBuy(row)
    BY <1>12, <2>1
  <2>2. CASE ~IsMarketBuy(row)
    <3>1. ~IsMarketBuy(w)
      BY <1>4, <1>5, <2>2 DEF IsMarketBuy
    <3>2. (w.status = "FILLED" <=> w.remaining = 0) /\ w.filled + w.remaining = w.qty
      BY <1>3, <3>1 DEF StatusIsDue, FillsAddUp
    <3>3. QED
      BY <1>10, <3>2
  <2>3. QED
    BY <2>1, <2>2
<1>16. /\ PromisedOrders' = [PromisedOrders EXCEPT ![o] = new]
       /\ PromisedOrders'[o] = new /\ PromisedOrders[o] = old
  <2> HIDE DEF o, w
  <2>1. QED
    BY <1>1, <1>2, <1>6, PromiseFollows DEF row
<1> HIDE DEF t, o, ord, u, m, row, w, old, new
<1>17. /\ q = t.ord.filled - row.filled /\ v = t.ord.spent - row.spent
       /\ take = Claim(row) - Claim(t.ord)
  BY <1>3, <1>4 DEF ord
<1>18. /\ row.side = "BUY" =>
            /\ take = (IF row.type = "LIMIT" THEN row.price * q ELSE v) /\ v <= take
            /\ t.krw.available = bal[u]["KRW"].available + (take - v)
            /\ t.coin.available = bal[u][m].available + q
       /\ row.side = "SELL" =>
            /\ take = q /\ (row.type = "LIMIT" => v >= row.price * q)
            /\ t.krw.available = bal[u]["KRW"].available + v
            /\ t.coin.available = bal[u][m].available
  BY <1>7, <1>17 DEF TradeSoFar
<1>19. take = (IF old.side = "SELL" THEN q ELSE Abstract!Takes(old, q, v))
  BY <1>10, <1>11, <1>12, <1>18 DEF Abstract!Takes
<1>20. IF old.side = "SELL" THEN v >= old.limit * q ELSE v <= take
  <2>1. 0 * q = 0
    BY <1>14
  <2>2. QED
    BY <1>10, <1>12, <1>14, <1>18, <2>1
<1>21. FreeBalances' = [FreeBalances EXCEPT ![old.user] =
          [a \in Assets |-> FreeBalances[old.user][a] + Abstract!Gain(old, q, v, a)]]
  <2> DEFINE gain(a) == Abstract!Gain(old, q, v, a)
  <2>1. gain("KRW") = IF row.side = "SELL" THEN v ELSE take - v
    BY <1>10, <1>12, <1>19 DEF Abstract!Gain
  <2>2. gain(m) = IF row.side = "BUY" THEN q ELSE 0
    BY <1>8, <1>10, <1>12 DEF Abstract!Gain
  <2>3. \A a \in Assets \ {"KRW", m} : gain(a) = 0
    BY <1>12 DEF Abstract!Gain
  <2> HIDE DEF gain, q, v, take
  <2>4. \A x \in Users, a \in Assets : bal[x][a].available \in Nat
    BY <1>1 DEF TypeOK, Account
  <2>5. \A x \in Users, a \in Assets :
           bal'[x][a] = IF x # u THEN bal[x][a]
                        ELSE IF a = "KRW" THEN t.krw ELSE IF a = m THEN t.coin ELSE bal[x][a]
    BY <1>1, <1>2, <1>6, <1>8 DEF TypeOK
  <2>6. \A a \in Assets : bal'[u][a].available = bal[u][a].available + gain(a)
    BY <1>2, <1>8, <1>10, <1>18, <2>1, <2>2, <2>3, <2>4, <2>5
  <2>7. FreeBalances = [x \in Users |-> [a \in Assets |-> bal[x][a].available]]
    BY DEF FreeBalances
  <2>8. FreeBalances' = [x \in Users |-> [a \in Assets |-> bal'[x][a].available]]
    BY DEF FreeBalances
  <2> DEFINE after == [a \in Assets |-> FreeBalances[u][a] + gain(a)]
  <2>9. FreeBalances'[u] = after
    BY <1>2, <2>6, <2>7, <2>8
  <2>10. \A x \in Users \ {u} : FreeBalances'[x] = FreeBalances[x]
    BY <2>5, <2>7, <2>8
  <2> HIDE DEF after
  <2>11. FreeBalances' = [FreeBalances EXCEPT ![u] = after]
    BY <2>7, <2>8, <2>9, <2>10
  <2>12. QED
    BY <1>12, <2>11 DEF after, gain
<1>22. new.held = old.held - take /\ new.held >= 0
  BY <1>2, <1>3, <1>12, <1>13 DEF ord
<1>23. Abstract!SameTerms(old, new)
  BY <1>12, <1>13 DEF Abstract!SameTerms
<1>24. new.filled - old.filled = q /\ new.spent - old.spent = v
  BY <1>12, <1>13
<1>25. new.status \in {"OPEN", "FILLED"} /\ (old.qty > 0 => (new.status = "FILLED" <=> new.filled = new.qty))
  <2>1. old.qty > 0 => old.qty = row.qty
    BY <1>12
  <2>2. QED
    BY <1>4, <1>5, <1>13, <1>15, <2>1
<1> HIDE DEF q, v, take
<1>26. Abstract!Trade(o)
  <2>1. Abstract!Assets = Assets
    BY DEF Abstract!Assets, Assets
  <2>2. FreeBalances' = [FreeBalances EXCEPT ![old.user] =
          [a \in Abstract!Assets |-> FreeBalances[old.user][a] + Abstract!Gain(old, q, v, a)]]
    BY <1>21, <2>1
  <2>3. old.status = "OPEN"
    BY <1>12
  <2>4. PromisedOrders' = [PromisedOrders EXCEPT ![o] = PromisedOrders'[o]]
    BY <1>16
  <2>5. PromisedOrders'[o] = new /\ PromisedOrders[o] = old
    BY <1>16
  <2>6. QED
    BY <1>14, <1>19, <1>20, <1>22, <1>23, <1>24, <1>25, <2>2, <2>3, <2>4, <2>5 DEF Abstract!Trade
<1>27. QED
  BY <1>2, <1>26 DEF o

\* Every step of trading is a step of the exchange, or none.
LEMMA NextPromised ==
  LedgerInvariant /\ TradesSound /\ [TradingNext]_vars => [Abstract!Next]_(Abstract!vars)
<1> SUFFICES ASSUME LedgerInvariant, TradesSound, [TradingNext]_vars
             PROVE  Abstract!Next \/ Abstract!vars' = Abstract!vars
  OBVIOUS
<1>1. TypeOK /\ Abstract!OrderIds = OrderIds
  BY DEF LedgerInvariant, Abstract!OrderIds, OrderIds
<1>2. ASSUME orders' = orders, bal' = bal PROVE Abstract!vars' = Abstract!vars
  BY <1>2 DEF Abstract!vars, PromisedOrders, FreeBalances, Promised, Claim, ReleaseAmount,
     IsMarketBuy, NoOrder
<1>3. CASE UNCHANGED vars
  BY <1>2, <1>3 DEF vars
<1>4. CASE UserStep
  <2>1. PICK o \in OrderIds :
          \/ CancelOrder(o)
          \/ \E u \in Users, m \in Markets :
               \/ \E p \in Prices, q \in Quantities : CreateLimitBuy(o, u, m, p, q)
               \/ \E t \in Totals : CreateMarketBuy(o, u, m, t)
               \/ \E type \in {"LIMIT", "MARKET"}, p \in Prices, q \in Quantities :
                    CreateSell(o, u, m, type, p, q)
    BY <1>4 DEF UserStep
  <2>2. CASE CancelOrder(o)
    BY <1>1, <2>2, CancelIsCancel DEF Abstract!Next
  <2>3. ASSUME NEW u \in Users, NEW m \in Markets, NEW p \in Prices, NEW q \in Quantities,
               CreateLimitBuy(o, u, m, p, q)
        PROVE  Abstract!Place(o)
    <3> DEFINE ord == NewOrder(u, m, "BUY", "LIMIT", p, q, p * q, p * q)
    <3>1. p \in Nat \ {0} /\ q \in Nat \ {0} /\ p * q \in Nat \ {0}
      BY MulMono
    <3>2. ord \in Order
      BY <3>1, NewOrderType
    <3>3. /\ ord.status = "OPEN" /\ ord.filled = 0 /\ ord.spent = 0 /\ Claim(ord) = p * q
          /\ ord.side = "BUY" /\ p * q = ord.price * ord.qty
      BY DEF NewOrder, Claim, ReleaseAmount
    <3>4. CreateOrder(o, ord, p * q)
      BY <2>3 DEF CreateLimitBuy
    <3> HIDE DEF ord
    <3>5. QED
      BY <1>1, <3>1, <3>2, <3>3, <3>4, CreateIsPlace
  <2>4. ASSUME NEW u \in Users, NEW m \in Markets, NEW t \in Totals, CreateMarketBuy(o, u, m, t)
        PROVE  Abstract!Place(o)
    <3> DEFINE ord == NewOrder(u, m, "BUY", "MARKET", 1, 1, t, t)
    <3>1. t \in Nat \ {0}
      OBVIOUS
    <3>2. ord \in Order
      BY <3>1, NewOrderType
    <3>3. /\ ord.status = "OPEN" /\ ord.filled = 0 /\ ord.spent = 0 /\ Claim(ord) = t
          /\ ord.side = "BUY" /\ ord.type = "MARKET"
      BY DEF NewOrder, Claim, ReleaseAmount
    <3>4. CreateOrder(o, ord, t)
      BY <2>4 DEF CreateMarketBuy
    <3> HIDE DEF ord
    <3>5. QED
      BY <1>1, <3>1, <3>2, <3>3, <3>4, CreateIsPlace
  <2>5. ASSUME NEW u \in Users, NEW m \in Markets, NEW type \in {"LIMIT", "MARKET"},
               NEW p \in Prices, NEW q \in Quantities, CreateSell(o, u, m, type, p, q)
        PROVE  Abstract!Place(o)
    <3> DEFINE ord == NewOrder(u, m, "SELL", type, p, q, q, 0)
    <3>1. p \in Nat \ {0} /\ q \in Nat \ {0}
      OBVIOUS
    <3>2. ord \in Order
      BY <3>1, NewOrderType
    <3>3. /\ ord.status = "OPEN" /\ ord.filled = 0 /\ ord.spent = 0 /\ Claim(ord) = q
          /\ ord.side = "SELL" /\ ord.qty = q
      BY DEF NewOrder, Claim, ReleaseAmount
    <3>4. CreateOrder(o, ord, q)
      BY <2>5 DEF CreateSell
    <3> HIDE DEF ord
    <3>5. QED
      BY <1>1, <3>1, <3>2, <3>3, <3>4, CreateIsPlace
  <2>6. QED
    BY <1>1, <2>1, <2>2, <2>3, <2>4, <2>5 DEF Abstract!Next
<1>5. CASE FundingStep
  <2>1. PICK u \in Users : \E x : SetAvailable(u, x)
    BY <1>5 DEF FundingStep, Initialize, Deposit
  <2>2. Abstract!Fund(u)
    BY <1>1, <2>1, FundingIsFund
  <2>3. QED
    BY <2>2 DEF Abstract!Next
<1>6. ASSUME NEW r \in Runs, RunStep(r)
      PROVE  Abstract!Next \/ Abstract!vars' = Abstract!vars
  <2>1. CASE Settle(r)
    <3>1. PICK o : Abstract!Trade(o) /\ o \in OrderIds
      BY <2>1, SettleIsTrade
    <3>2. QED
      BY <1>1, <3>1 DEF Abstract!Next
  <2>2. CASE ~Settle(r)
    BY <1>2, <1>6, <2>2 DEF RunStep, StartRun, SkipOrder, LockOrder, Fill, FillThrows,
       NoMatch, FinishRun, RunFails
  <2>3. QED
    BY <2>1, <2>2
<1>7. QED
  BY <1>3, <1>4, <1>5, <1>6 DEF TradingNext

\* At first there is no order, and nothing is free.
LEMMA InitPromised == Init => Abstract!Init
<1> SUFFICES ASSUME Init PROVE Abstract!Init
  OBVIOUS
<1>1. PromisedOrders = [o \in Abstract!OrderIds |-> Abstract!None]
  BY DEF Init, PromisedOrders, Promised, NoOrder, Abstract!None, Abstract!OrderIds, OrderIds
<1>2. FreeBalances = [u \in Users |-> [a \in Abstract!Assets |-> 0]]
  <2>1. \A u \in Users, a \in Assets : bal[u][a].available = 0
    BY DEF Init
  <2>2. QED
    BY <2>1 DEF FreeBalances, Abstract!Assets, Assets
<1>3. QED
  BY <1>1, <1>2 DEF Abstract!Init

\* Trading implements the exchange: whatever runs interleave, roll back or
\* repeat, users see whole trades at their limit or better, and a cancel gives
\* back exactly what the order still holds.
THEOREM ImplementsExchangeHolds == TradingSpec => ImplementsExchange
<1>1. Init => Abstract!Init
  BY InitPromised
<1>2. LedgerInvariant /\ TradesSound /\ [TradingNext]_vars => [Abstract!Next]_(Abstract!vars)
  BY NextPromised
<1>3. QED
  BY <1>1, <1>2, TradesSoundHolds, PTL DEF TradingSpec, ImplementsExchange, Abstract!Spec
=============================================================================
