------------------------------- MODULE Rounding -------------------------------
(***************************************************************************)
(* What rounding does to a user's KRW.  Balances are stored with 8 decimals *)
(* (formatDecimal rounds down), but price times quantity has up to 16, and *)
(* BalanceManager compares the stored amount with the unrounded one.       *)
(* Module Ledger leaves this out: its amounts are exact.                   *)
(*                                                                         *)
(* Prices, quantities and stored amounts are multiples of 1/Scale (1e-8 in *)
(* the code), products are multiples of 1/Scale^2.  The buys of one user   *)
(* and one market; a matching run settles one order at a time.  A book is  *)
(* known only by the levels the matcher comes to, in ascending order.      *)
(***************************************************************************)
EXTENDS Integers

CONSTANTS
  Scale,
  Prices, Quantities,  \* in 1/Scale
  Amounts,             \* of a MARKET BUY, in 1/Scale
  OrderLimit,          \* bound: orders created in a behaviour
  Funding              \* the user's KRW at first, in 1/Scale

ASSUME RoundingAssumption ==
  /\ Scale \in Nat \ {0} /\ OrderLimit \in Nat /\ Funding \in Nat
  /\ Prices \subseteq Nat \ {0} /\ Quantities \subseteq Nat \ {0}
  /\ Amounts \subseteq Nat \ {0}

VARIABLES
  bal,     \* the KRW balance
  orders,
  tx,      \* the settlement under way: its order and working copies
  exact    \* history: the user's KRW had nothing been rounded, in 1/Scale^2

vars == <<bal, orders, tx, exact>>

OrderIds == 1..OrderLimit
Account  == [available : Nat, locked : Nat]
Order    == [type : {"LIMIT", "MARKET"}, price : Nat, left : Nat,
             status : {"OPEN", "FILLED", "CANCELED"}]
NoOrder  == [status |-> "NONE"]
\* left: quantity of a LIMIT order, in 1/Scale, amount of a MARKET one, in 1/Scale^2
Tx   == [order : OrderIds, bal : Account, left : Nat, spent : Nat, at : Nat]
NoTx == [order |-> 0]

TypeOK ==
  /\ bal \in Account
  /\ orders \in [OrderIds -> Order \cup {NoOrder}]
  /\ tx \in Tx \cup {NoTx}
  /\ exact \in Int

Init ==
  /\ bal = [available |-> Funding, locked |-> 0]
  /\ orders = [o \in OrderIds |-> NoOrder]
  /\ tx = NoTx
  /\ exact = Funding * Scale

-----------------------------------------------------------------------------
\* Mutant: rounds up.
StoredUp(x) == (x + Scale - 1) \div Scale

\* formatDecimal of an amount in 1/Scale^2.
Stored(x) == x \div Scale

Covers(stored, x) == stored * Scale >= x
Plus(stored, x)   == Stored(stored * Scale + x)
Minus(stored, x)  == Stored(stored * Scale - x)

\* Mutant: nothing is refunded.
ReleaseNoRefund(acc, x, refund) ==
  [available |-> acc.available, locked |-> Minus(acc.locked, x)]

\* reserve, restoreFromCancel and release: x and refund are not rounded.
Reserve(acc, x) == [available |-> Minus(acc.available, x), locked |-> Plus(acc.locked, x)]
Restore(acc, x) == [available |-> Plus(acc.available, x), locked |-> Minus(acc.locked, x)]
Release(acc, x, refund) ==
  [available |-> Plus(acc.available, refund), locked |-> Minus(acc.locked, x)]

Lesser(a, b) == IF a <= b THEN a ELSE b
IsOpen(o)    == orders[o].status = "OPEN"
InTx         == tx.order # 0

\* What a cancel releases: price times the remaining quantity, or the
\* remaining amount, which is stored and so rounded already.
ReleaseAmount(ord) == IF ord.type = "LIMIT" THEN ord.price * ord.left ELSE ord.left * Scale

NewOrder(type, price, left) ==
  [type |-> type, price |-> price, left |-> left, status |-> "OPEN"]

CreateOrder(o, type, price, left) ==
  LET reserve == ReleaseAmount(NewOrder(type, price, left))
  IN /\ orders[o] = NoOrder /\ ~InTx
     /\ Covers(bal.available, reserve)
     /\ bal' = Reserve(bal, reserve)
     /\ orders' = [orders EXCEPT ![o] = NewOrder(type, price, left)]
     /\ UNCHANGED <<tx, exact>>

CreateLimitBuy(o, p, q) == CreateOrder(o, "LIMIT", p, q)

\* A MARKET BUY has no price.
CreateMarketBuy(o, amount) == CreateOrder(o, "MARKET", 1, amount)

CancelOrder(o) ==
  /\ IsOpen(o) /\ ~InTx
  /\ Covers(bal.locked, ReleaseAmount(orders[o]))
  /\ bal' = Restore(bal, ReleaseAmount(orders[o]))
  /\ orders' = [orders EXCEPT ![o].status = "CANCELED"]
  /\ UNCHANGED <<tx, exact>>

-----------------------------------------------------------------------------
\* matchSingleOrder reads the order and its balance.
LockOrder(o) ==
  /\ IsOpen(o) /\ ~InTx
  /\ tx' = [order |-> o, bal |-> bal, spent |-> 0, at |-> 0,
            left |-> IF orders[o].type = "LIMIT" THEN orders[o].left
                                                  ELSE orders[o].left * Scale]
  /\ UNCHANGED <<bal, orders, exact>>

\* The matcher takes something from a level at price p: of a MARKET BUY only
\* while more than 1 KRW is left, and at least 1/Scale coins of it.
Takes(t, ord, p) ==
  /\ t.at < p
  /\ IF ord.type = "LIMIT" THEN p <= ord.price /\ t.left > 0
     ELSE t.left > Scale * Scale /\ t.left >= p

\* What it spends there, what that leaves of the order, and what it unlocks.
SpentAt(t, ord, p, size) == Lesser(p * size, IF ord.type = "LIMIT" THEN p * t.left ELSE t.left)
LeftAfter(t, ord, p, size) ==
  t.left - (IF ord.type = "LIMIT" THEN Lesser(size, t.left) ELSE SpentAt(t, ord, p, size))
\* Mutant: all that the order has still reserved.
UnlockedAll(t, ord, p, size) == IF ord.type = "LIMIT" THEN ord.price * t.left ELSE t.left

UnlockedAt(t, ord, p, size) ==
  IF ord.type = "LIMIT" THEN ord.price * Lesser(size, t.left) ELSE SpentAt(t, ord, p, size)

Fill(p, size) ==
  LET ord == orders[tx.order]
      spent == SpentAt(tx, ord, p, size)
      unlocked == UnlockedAt(tx, ord, p, size)
  IN /\ InTx /\ Takes(tx, ord, p)
     /\ Covers(tx.bal.locked, unlocked)
     /\ tx' = [order |-> tx.order,
               bal |-> Release(tx.bal, unlocked, unlocked - spent),
               left |-> LeftAfter(tx, ord, p, size),
               spent |-> tx.spent + spent, at |-> p]
     /\ UNCHANGED <<bal, orders, exact>>

\* release throws; the transaction is rolled back and the run over.
FillThrows(p, size) ==
  /\ InTx /\ Takes(tx, orders[tx.order], p)
  /\ ~Covers(tx.bal.locked, UnlockedAt(tx, orders[tx.order], p, size))
  /\ tx' = NoTx
  /\ UNCHANGED <<bal, orders, exact>>

\* The order after matching.  A MARKET BUY stays OPEN only if the matcher
\* stopped at a level for want of 1/Scale coins.
Concluded(t, ord, exhausted) ==
  IF ord.type = "LIMIT"
  THEN [ord EXCEPT !.left = t.left, !.status = IF t.left = 0 THEN "FILLED" ELSE "OPEN"]
  ELSE IF t.left <= Scale * Scale \/ exhausted
  THEN [ord EXCEPT !.left = 0, !.status = "FILLED"]
  ELSE [ord EXCEPT !.left = Stored(t.left)]

Settle ==
  /\ InTx /\ tx.at > 0
  /\ \E exhausted \in {TRUE} \cup {FALSE : p \in {x \in Prices : x > tx.at /\ x > tx.left}} :
       orders' = [orders EXCEPT ![tx.order] = Concluded(tx, @, exhausted)]
  /\ bal' = tx.bal
  /\ exact' = exact - tx.spent
  /\ tx' = NoTx

\* No level matched, or the database failed.
Abandon ==
  /\ InTx
  /\ tx' = NoTx
  /\ UNCHANGED <<bal, orders, exact>>

Next ==
  \/ \E o \in OrderIds :
       \/ \E p \in Prices, q \in Quantities : CreateLimitBuy(o, p, q)
       \/ \E a \in Amounts : CreateMarketBuy(o, a)
       \/ CancelOrder(o) \/ LockOrder(o)
  \/ \E p \in Prices, size \in Quantities : Fill(p, size) \/ FillThrows(p, size)
  \/ Settle
  \/ Abandon

Spec == Init /\ [][Next]_vars

-----------------------------------------------------------------------------
\* Rounding never gives a user money: what the account holds is at most what
\* it would hold had nothing been rounded, also within a settlement.
NeverMinted ==
  /\ (bal.available + bal.locked) * Scale <= exact
  /\ InTx => (tx.bal.available + tx.bal.locked) * Scale <= exact - tx.spent

\* An update of the balance (two calls of formatDecimal) loses less than
\* 2/Scale to rounding.
Lost(b, due) == due - (b.available + b.locked) * Scale
LossBounded ==
  [][/\ ~InTx => Lost(bal', exact') - Lost(bal, exact) < 2 * Scale
     /\ InTx /\ tx'.order # 0 =>
          Lost(tx'.bal, exact - tx'.spent) - Lost(tx.bal, exact - tx.spent) < 2 * Scale]_vars

\* The two exceptions of BalanceManager a user may run into: an order that
\* cannot be canceled ...
OpenOrdersCancellable ==
  \A o \in OrderIds : IsOpen(o) /\ ~InTx => Covers(bal.locked, ReleaseAmount(orders[o]))

\* ... and one that cannot be settled, in whose market nothing is from then on.
SettlementNeverThrows ==
  \A p \in Prices, size \in Quantities :
    InTx /\ Takes(tx, orders[tx.order], p)
      => Covers(tx.bal.locked, UnlockedAt(tx, orders[tx.order], p, size))

\* While nothing has been lost to rounding, no check of BalanceManager fails:
\* every order can be canceled, and settled at whatever prices.
Lossless == Lost(bal, exact) = 0 /\ (InTx => Lost(tx.bal, exact - tx.spent) = 0)
ExceptionsNeedLoss == Lossless => OpenOrdersCancellable /\ SettlementNeverThrows
=============================================================================
