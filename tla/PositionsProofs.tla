---------------------------- MODULE PositionsProofs ----------------------------
(***************************************************************************)
(* Proofs about rounding, for every scale, all prices and quantities and   *)
(* any number of buys and sales: it never gives a user money, an update    *)
(* loses less than two units, no check of BalanceManager fails before      *)
(* something was lost, coins and position agree, and the profit is cash.   *)
(***************************************************************************)
EXTENDS Positions, TallyProofs

-----------------------------------------------------------------------------
(* What is lost when an amount is stored                                    *)

\* formatDecimal rounds down, by less than a unit.
LEMMA StoredNear ==
  ASSUME NEW x \in Nat
  PROVE  Stored(x) \in Nat /\ Stored(x) * Scale <= x /\ x < Stored(x) * Scale + Scale
<1>1. \A s \in Nat \ {0}, y \in Nat :
        y \div s \in Nat /\ (y \div s) * s <= y /\ y < (y \div s) * s + s
  BY SMT
<1>2. QED
  BY <1>1, RoundingAssumption DEF Stored

\* Adding to a stored amount adds at most what is due, and a unit less at worst.
LEMMA PlusNear ==
  ASSUME NEW a \in Nat, NEW x \in Nat
  PROVE  /\ Plus(a, x) \in Nat
         /\ Plus(a, x) * Scale <= a * Scale + x
         /\ a * Scale + x < Plus(a, x) * Scale + Scale
<1>1. a * Scale \in Nat /\ a * Scale + x \in Nat
  BY RoundingAssumption
<1>2. QED
  BY <1>1, StoredNear DEF Plus

\* Taking away what is covered takes away at least what is due, and a unit
\* more at worst.
LEMMA MinusNear ==
  ASSUME NEW a \in Nat, NEW x \in Nat, Covers(a, x)
  PROVE  /\ Minus(a, x) \in Nat
         /\ Minus(a, x) * Scale <= a * Scale - x
         /\ a * Scale - x < Minus(a, x) * Scale + Scale
<1>1. a * Scale - x \in Nat
  BY RoundingAssumption DEF Covers
<1>2. QED
  BY <1>1, StoredNear DEF Minus

\* What a balance holds, in 1/Scale^2.
Worth(acc) == (acc.available + acc.locked) * Scale

\* The worth of a balance is that of its two parts.
LEMMA WorthOf ==
  ASSUME NEW a \in Nat, NEW l \in Nat
  PROVE  /\ (a + l) * Scale = a * Scale + l * Scale
         /\ (a + l) * Scale \in Nat /\ a * Scale \in Nat /\ l * Scale \in Nat
BY RoundingAssumption

\* A balance has a worth.
LEMMA WorthNat ==
  ASSUME NEW acc \in Account
  PROVE  Worth(acc) \in Nat /\ Lost(acc, 0) = 0 - Worth(acc)
BY WorthOf DEF Worth, Account, Lost

\* One balance follows from another by an update that is due to move x out
\* of the locked part and to add y to the whole: less than two units are
\* lost, and what the locked part falls short of is lost.
Moved(old, new, x, y) ==
  /\ new \in Account
  /\ Worth(new) <= Worth(old) + y
  /\ Worth(old) + y < Worth(new) + 2 * Scale
  /\ old.locked * Scale - x - new.locked * Scale <= Worth(old) + y - Worth(new)

\* Two parts, each rounded down by less than a unit, make such an update.
LEMMA MovedParts ==
  ASSUME NEW old \in Account, NEW a \in Nat, NEW l \in Nat, NEW x \in Int, NEW y \in Int,
         a * Scale <= old.available * Scale + x + y,
         old.available * Scale + x + y < a * Scale + Scale,
         l * Scale <= old.locked * Scale - x,
         old.locked * Scale - x < l * Scale + Scale
  PROVE  Moved(old, [available |-> a, locked |-> l], x, y)
<1> DEFINE new == [available |-> a, locked |-> l]
<1>1. new \in Account /\ new.available = a /\ new.locked = l
  BY DEF Account
<1>2. old.available \in Nat /\ old.locked \in Nat /\ Scale \in Nat
  BY RoundingAssumption DEF Account
<1>3. Worth(new) = a * Scale + l * Scale /\ a * Scale \in Nat /\ l * Scale \in Nat
  BY <1>1, WorthOf DEF Worth
<1>4. /\ Worth(old) = old.available * Scale + old.locked * Scale
      /\ old.available * Scale \in Nat /\ old.locked * Scale \in Nat
  BY <1>2, WorthOf DEF Worth
<1> HIDE DEF new
<1>5. /\ Worth(new) <= Worth(old) + y
      /\ Worth(old) + y < Worth(new) + 2 * Scale
      /\ old.locked * Scale - x - l * Scale <= Worth(old) + y - Worth(new)
  BY <1>2, <1>3, <1>4
<1>6. QED
  BY <1>1, <1>5 DEF Moved, new

\* reserve locks x.
LEMMA ReserveMoves ==
  ASSUME NEW acc \in Account, NEW x \in Nat, Covers(acc.available, x)
  PROVE  Moved(acc, Reserve(acc, x), -x, 0)
<1>1. acc.available \in Nat /\ acc.locked \in Nat /\ Scale \in Nat
  BY RoundingAssumption DEF Account
<1> DEFINE a == Minus(acc.available, x)
           l == Plus(acc.locked, x)
<1>2. a \in Nat /\ a * Scale <= acc.available * Scale - x
      /\ acc.available * Scale - x < a * Scale + Scale
  BY <1>1, MinusNear
<1>3. l \in Nat /\ l * Scale <= acc.locked * Scale + x
      /\ acc.locked * Scale + x < l * Scale + Scale
  BY <1>1, PlusNear
<1>4. Reserve(acc, x) = [available |-> a, locked |-> l]
  BY DEF Reserve
<1> HIDE DEF a, l
<1>5. /\ acc.available * Scale \in Nat /\ acc.locked * Scale \in Nat
      /\ a * Scale \in Nat /\ l * Scale \in Nat
  BY <1>1, <1>2, <1>3, WorthOf
<1>6. /\ a * Scale <= acc.available * Scale + (-x) + 0
      /\ acc.available * Scale + (-x) + 0 < a * Scale + Scale
      /\ l * Scale <= acc.locked * Scale - (-x)
      /\ acc.locked * Scale - (-x) < l * Scale + Scale
  BY <1>1, <1>2, <1>3, <1>5
<1>7. Moved(acc, [available |-> a, locked |-> l], -x, 0)
  BY <1>2, <1>3, <1>6, MovedParts
<1>8. QED
  BY <1>4, <1>7

\* release unlocks x and pays all of it but the refund.
LEMMA ReleaseMoves ==
  ASSUME NEW acc \in Account, NEW x \in Nat, NEW refund \in Nat, Covers(acc.locked, x)
  PROVE  Moved(acc, Release(acc, x, refund), x, refund - x)
<1>1. acc.available \in Nat /\ acc.locked \in Nat /\ Scale \in Nat
  BY RoundingAssumption DEF Account
<1> DEFINE a == Plus(acc.available, refund)
           l == Minus(acc.locked, x)
<1>2. a \in Nat /\ a * Scale <= acc.available * Scale + refund
      /\ acc.available * Scale + refund < a * Scale + Scale
  BY <1>1, PlusNear
<1>3. l \in Nat /\ l * Scale <= acc.locked * Scale - x
      /\ acc.locked * Scale - x < l * Scale + Scale
  BY <1>1, MinusNear
<1>4. Release(acc, x, refund) = [available |-> a, locked |-> l]
  BY DEF Release
<1> HIDE DEF a, l
<1>5. /\ acc.available * Scale \in Nat /\ acc.locked * Scale \in Nat
      /\ a * Scale \in Nat /\ l * Scale \in Nat
  BY <1>1, <1>2, <1>3, WorthOf
<1>6. /\ a * Scale <= acc.available * Scale + x + (refund - x)
      /\ acc.available * Scale + x + (refund - x) < a * Scale + Scale
  BY <1>1, <1>2, <1>5
<1>7. Moved(acc, [available |-> a, locked |-> l], x, refund - x)
  BY <1>2, <1>3, <1>6, MovedParts
<1>8. QED
  BY <1>4, <1>7

\* restoreFromCancel unlocks x.
LEMMA RestoreMoves ==
  ASSUME NEW acc \in Account, NEW x \in Nat, Covers(acc.locked, x)
  PROVE  Moved(acc, Restore(acc, x), x, 0)
<1>1. Restore(acc, x) = Release(acc, x, x)
  BY DEF Restore, Release
<1>2. Moved(acc, Release(acc, x, x), x, x - x)
  BY ReleaseMoves
<1>3. x - x = 0
  OBVIOUS
<1>4. QED
  BY <1>1, <1>2, <1>3

\* A sale adds what it earns to the available part.
LEMMA EarnMoves ==
  ASSUME NEW acc \in Account, NEW x \in Nat
  PROVE  Moved(acc, [acc EXCEPT !.available = Plus(@, x)], 0, x)
<1>1. acc.available \in Nat /\ acc.locked \in Nat /\ Scale \in Nat \ {0}
  BY RoundingAssumption DEF Account
<1> DEFINE a == Plus(acc.available, x)
<1>2. a \in Nat /\ a * Scale <= acc.available * Scale + x
      /\ acc.available * Scale + x < a * Scale + Scale
  BY <1>1, PlusNear
<1>4. [acc EXCEPT !.available = Plus(@, x)] = [available |-> a, locked |-> acc.locked]
  BY DEF Account
<1> HIDE DEF a
<1>5. acc.available * Scale \in Nat /\ acc.locked * Scale \in Nat /\ a * Scale \in Nat
  BY <1>1, <1>2, WorthOf
<1>6. /\ a * Scale <= acc.available * Scale + 0 + x
      /\ acc.available * Scale + 0 + x < a * Scale + Scale
      /\ acc.locked * Scale <= acc.locked * Scale - 0
      /\ acc.locked * Scale - 0 < acc.locked * Scale + Scale
  BY <1>1, <1>2, <1>5
<1>7. Moved(acc, [available |-> a, locked |-> acc.locked], 0, x)
  BY <1>1, <1>2, <1>6, MovedParts
<1>8. QED
  BY <1>4, <1>7

\* What such an update has lost, and what it leaves of a reserve.
LEMMA MovedLost ==
  ASSUME NEW old \in Account, NEW new, NEW x \in Int, NEW y \in Int, NEW due \in Int,
         NEW then \in Int, then = due + y, Moved(old, new, x, y)
  PROVE  /\ new \in Account
         /\ Lost(new, then) \in Int /\ Lost(old, due) \in Int
         /\ Lost(old, due) <= Lost(new, then)
         /\ Lost(new, then) - Lost(old, due) < 2 * Scale
         /\ old.locked * Scale + Lost(old, due) - x <= new.locked * Scale + Lost(new, then)
<1>1. /\ new \in Account
      /\ Worth(new) <= Worth(old) + y
      /\ Worth(old) + y < Worth(new) + 2 * Scale
      /\ old.locked * Scale - x - new.locked * Scale <= Worth(old) + y - Worth(new)
  BY DEF Moved
<1>2. Worth(old) \in Nat /\ Worth(new) \in Nat
  BY <1>1, WorthNat
<1>3. Lost(new, then) = then - Worth(new) /\ Lost(old, due) = due - Worth(old)
  BY DEF Lost, Worth
<1>4. old.locked * Scale \in Nat /\ new.locked * Scale \in Nat /\ Scale \in Nat
  <2>1. old.locked \in Nat /\ new.locked \in Nat
    BY <1>1 DEF Account
  <2>2. QED
    BY <2>1, WorthOf, RoundingAssumption
<1>5. QED
  BY <1>1, <1>2, <1>3, <1>4

-----------------------------------------------------------------------------
(* What a fill spends and unlocks                                           *)

\* Multiplication by a natural number is monotone.
LEMMA TimesMonotone ==
  ASSUME NEW a \in Nat, NEW b \in Nat, NEW n \in Nat, a <= b
  PROVE  a * n \in Nat /\ b * n \in Nat /\ a * n <= b * n /\ n * a <= n * b /\ n * a \in Nat
OBVIOUS

\* What an order may reserve and release is an amount.
LEMMA ReleaseAmountNat ==
  ASSUME NEW ord \in Order
  PROVE  ReleaseAmount(ord) \in Nat
<1>1. ord.price \in Nat /\ ord.left \in Nat
  BY DEF Order
<1>2. QED
  BY <1>1, RoundingAssumption, TimesMonotone DEF ReleaseAmount

\* What remains of an order has reserved.
Claim(ord, left) == IF ord.type = "LIMIT" THEN ord.price * left ELSE left

\* A fill spends the price of something at least, no more than it unlocks, and
\* unlocks the claim of what it takes off the order.
LEMMA FillAmounts ==
  ASSUME NEW t \in Tx, NEW ord \in Order, NEW p \in Prices, NEW size \in Quantities,
         Takes(t, ord, p)
  PROVE  /\ SpentAt(t, ord, p, size) \in Nat
         /\ UnlockedAt(t, ord, p, size) \in Nat
         /\ p <= SpentAt(t, ord, p, size)
         /\ SpentAt(t, ord, p, size) <= UnlockedAt(t, ord, p, size)
         /\ LeftAfter(t, ord, p, size) \in Nat
         /\ Claim(ord, t.left) \in Nat
         /\ Claim(ord, LeftAfter(t, ord, p, size)) \in Nat
         /\ Claim(ord, LeftAfter(t, ord, p, size)) = Claim(ord, t.left) - UnlockedAt(t, ord, p, size)
<1> DEFINE n == Lesser(size, t.left)
<1>1. t.left \in Nat /\ p \in Nat \ {0} /\ size \in Nat \ {0} /\ ord.price \in Nat
  BY RoundingAssumption DEF Tx, Order
<1>2. n \in Nat /\ n <= t.left
  BY <1>1 DEF Lesser
<1>3. CASE ord.type = "LIMIT"
  <2>1. SpentAt(t, ord, p, size) = p * n
    <3>1. CASE size <= t.left
      <4>1. p * size <= p * t.left /\ p * size \in Nat /\ p * t.left \in Nat
        BY <1>1, <3>1, TimesMonotone
      <4>2. QED
        BY <1>1, <1>3, <3>1, <4>1 DEF SpentAt, Lesser
    <3>2. CASE ~(size <= t.left)
      <4>1. p * t.left <= p * size /\ p * size \in Nat /\ p * t.left \in Nat
        BY <1>1, <3>2, TimesMonotone
      <4>2. QED
        BY <1>1, <1>3, <3>2, <4>1 DEF SpentAt, Lesser
    <3>3. QED
      BY <3>1, <3>2
  <2>2. UnlockedAt(t, ord, p, size) = ord.price * n
    BY <1>3 DEF UnlockedAt
  <2>3. LeftAfter(t, ord, p, size) = t.left - n
    BY <1>3 DEF LeftAfter
  <2>4. p <= ord.price /\ t.left > 0
    BY <1>3 DEF Takes
  <2>5. 1 <= n
    BY <1>1, <2>4 DEF Lesser
  <2> HIDE DEF n
  <2>6. p * n \in Nat /\ ord.price * n \in Nat /\ p * n <= ord.price * n
    BY <1>1, <1>2, <2>4, TimesMonotone
  <2>7. p <= p * n
    <3>1. p * 1 <= p * n
      BY <1>1, <1>2, <2>5, TimesMonotone
    <3>2. QED
      BY <1>1, <3>1
  <2>8. t.left - n \in Nat
    BY <1>1, <1>2
  <2>9. /\ ord.price * t.left \in Nat /\ ord.price * (t.left - n) \in Nat
        /\ ord.price * (t.left - n) = ord.price * t.left - ord.price * n
    BY <1>1, <1>2, <2>8
  <2>10. QED
    BY <1>3, <2>1, <2>2, <2>3, <2>6, <2>7, <2>8, <2>9 DEF Claim
<1>4. CASE ord.type # "LIMIT"
  <2>1. p * size \in Nat /\ p * 1 <= p * size
    BY <1>1, TimesMonotone
  <2> DEFINE m == Lesser(p * size, t.left)
  <2>2. p <= t.left
    BY <1>1, <1>4 DEF Takes
  <2>3. m \in Nat /\ m <= t.left /\ p <= m
    BY <1>1, <2>1, <2>2 DEF Lesser
  <2>4. /\ SpentAt(t, ord, p, size) = m /\ UnlockedAt(t, ord, p, size) = m
        /\ LeftAfter(t, ord, p, size) = t.left - m
    BY <1>4 DEF SpentAt, UnlockedAt, LeftAfter
  <2> HIDE DEF m
  <2>5. t.left - m \in Nat
    BY <1>1, <2>3
  <2>6. QED
    BY <1>1, <1>4, <2>3, <2>4, <2>5 DEF Claim
<1>5. QED
  BY <1>3, <1>4

-----------------------------------------------------------------------------
(* The KRW: nothing minted, and reserved is what the OPEN orders claim,     *)
(* but for what was lost                                                    *)

\* What an order has reserved, and what it has within its settlement.
ClaimOf(o) == IF IsOpen(o) THEN ReleaseAmount(orders[o]) ELSE 0
Claims     == [o \in OrderIds |-> ClaimOf(o)]
TxClaims   == [o \in OrderIds |-> IF o = tx.order THEN Claim(orders[o], tx.left) ELSE ClaimOf(o)]

\* The locked part and what was lost cover the claims.
Met(acc, due, claims) == Total(claims, OrderIds) <= acc.locked * Scale + Lost(acc, due)

\* The inductive invariant.  A settlement is that of an OPEN order.
Inv ==
  /\ TypeOK
  /\ InTx => IsOpen(tx.order)
  /\ NeverMinted
  /\ Met(bal, exact, Claims)
  /\ InTx => Met(tx.bal, exact - tx.spent, TxClaims)

\* The bound on what one step loses.
LossStep ==
  /\ ~InTx => Lost(bal', exact') - Lost(bal, exact) < 2 * Scale
  /\ InTx /\ tx'.order # 0 =>
       Lost(tx'.bal, exact - tx'.spent) - Lost(tx.bal, exact - tx.spent) < 2 * Scale

\* The orders are finitely many.
LEMMA OrderIdsFinite == IsFiniteSet(OrderIds)
BY FS_Interval, RoundingAssumption DEF OrderIds

\* When the claim of one order goes down by x, so does the total.
LEMMA TotalDown ==
  ASSUME NEW x \in Int, NEW f, NEW g, NEW e \in OrderIds,
         \A o \in OrderIds : f[o] \in Nat, \A o \in OrderIds : g[o] \in Nat,
         \A o \in OrderIds \ {e} : f[o] = g[o],
         g[e] <= f[e] - x
  PROVE  Total(g, OrderIds) <= Total(f, OrderIds) - x
<1>1. Total(g, OrderIds) + f[e] = Total(f, OrderIds) + g[e]
  BY OrderIdsFinite, TotalUpdate
<1>2. Total(f, OrderIds) \in Nat /\ Total(g, OrderIds) \in Nat
  BY OrderIdsFinite, TokensFinite
<1>3. f[e] \in Nat /\ g[e] \in Nat
  OBVIOUS
<1>4. QED
  BY <1>1, <1>2, <1>3

\* An update that moves x out of the locked part, when the claims go down by
\* as much, leaves them covered.
LEMMA MetMoved ==
  ASSUME NEW old \in Account, NEW new, NEW x \in Int, NEW y \in Int, NEW due \in Int,
         NEW then \in Int, then = due + y, Moved(old, new, x, y), NEW f, NEW g,
         Total(f, OrderIds) \in Int, Total(g, OrderIds) \in Int,
         Total(g, OrderIds) <= Total(f, OrderIds) - x, Met(old, due, f)
  PROVE  Met(new, then, g)
<1>3. /\ new \in Account
      /\ Lost(new, then) \in Int /\ Lost(old, due) \in Int
      /\ old.locked * Scale + Lost(old, due) - x <= new.locked * Scale + Lost(new, then)
  BY MovedLost
<1>4. old.locked * Scale \in Nat /\ new.locked * Scale \in Nat
  <2>1. old.locked \in Nat /\ new.locked \in Nat
    BY <1>3 DEF Account
  <2>2. QED
    BY <2>1, WorthOf
<1>6. Total(f, OrderIds) <= old.locked * Scale + Lost(old, due)
  BY DEF Met
<1>7. Total(g, OrderIds) <= new.locked * Scale + Lost(new, then)
  BY <1>3, <1>4, <1>6
<1>8. QED
  BY <1>7 DEF Met

\* A balance that stays moves nothing.
LEMMA MovedNot ==
  ASSUME NEW acc \in Account
  PROVE  Moved(acc, acc, 0, 0)
<1>1. Worth(acc) \in Nat /\ Scale \in Nat \ {0}
  BY WorthNat, RoundingAssumption
<1>2. acc.locked * Scale \in Nat
  BY WorthOf DEF Account
<1>3. /\ Worth(acc) <= Worth(acc) + 0
      /\ Worth(acc) + 0 < Worth(acc) + 2 * Scale
      /\ acc.locked * Scale - 0 - acc.locked * Scale <= Worth(acc) + 0 - Worth(acc)
  BY <1>1, <1>2
<1>4. QED
  BY <1>3 DEF Moved

\* Nothing minted, said of what was lost.
LEMMA MintedLost ==
  ASSUME NEW acc, NEW due \in Int, acc \in Account
  PROVE  0 <= Lost(acc, due) <=> (acc.available + acc.locked) * Scale <= due
<1>1. Worth(acc) \in Nat
  BY WorthNat
<1>2. Lost(acc, due) = due - Worth(acc)
  BY DEF Lost, Worth
<1>3. 0 <= due - Worth(acc) <=> Worth(acc) <= due
  BY <1>1
<1>4. QED
  BY <1>2, <1>3 DEF Worth

\* An order of the table is a record unless it is missing.
LEMMA OrderAt ==
  ASSUME TypeOK, NEW o \in OrderIds, orders[o] # NoOrder
  PROVE  orders[o] \in Order
BY DEF TypeOK

\* An OPEN order is one.
LEMMA OpenAt ==
  ASSUME TypeOK, NEW o \in OrderIds, IsOpen(o)
  PROVE  orders[o] \in Order /\ orders[o] # NoOrder
BY OrderAt DEF IsOpen, NoOrder

\* A settlement under way is a record.
LEMMA TxAt ==
  ASSUME TypeOK, InTx
  PROVE  tx \in Tx
BY DEF TypeOK, InTx, NoTx

\* Claims are amounts.
ClaimsTyped == \A o \in OrderIds : Claims[o] \in Nat /\ Claims[o] = ClaimOf(o)
LEMMA ClaimsNat == TypeOK => ClaimsTyped
<1> HAVE TypeOK
<1> USE DEF ClaimsTyped
<1> TAKE o \in OrderIds
<1>1. CASE IsOpen(o)
  BY <1>1, OpenAt, ReleaseAmountNat DEF Claims, ClaimOf
<1>2. CASE ~IsOpen(o)
  BY <1>2 DEF Claims, ClaimOf
<1>3. QED
  BY <1>1, <1>2

\* What remains of an order in a settlement is an amount.
LEMMA ClaimNat ==
  ASSUME NEW ord \in Order, NEW left \in Nat
  PROVE  Claim(ord, left) \in Nat
<1>1. ord.price \in Nat
  BY DEF Order
<1>2. QED
  BY <1>1, TimesMonotone DEF Claim

\* Within a settlement too.
LEMMA TxClaimsNat ==
  ASSUME TypeOK, InTx, IsOpen(tx.order)
  PROVE  \A o \in OrderIds :
           /\ TxClaims[o] \in Nat
           /\ TxClaims[o] = IF o = tx.order THEN Claim(orders[o], tx.left) ELSE Claims[o]
<1>1. tx \in Tx /\ tx.order \in OrderIds /\ tx.left \in Nat
  BY TxAt DEF Tx
<1>2. orders[tx.order] \in Order
  BY <1>1, OpenAt
<1>3. Claim(orders[tx.order], tx.left) \in Nat
  BY <1>1, <1>2, ClaimNat
<1>4. QED
  BY <1>3, ClaimsNat DEF TxClaims, ClaimsTyped

\* NeverMinted, as a bound on what was lost.
LostNat ==
  /\ 0 <= Lost(bal, exact)
  /\ InTx => 0 <= Lost(tx.bal, exact - tx.spent)
LEMMA MintedNot == TypeOK => (NeverMinted <=> LostNat)
<1> HAVE TypeOK
<1>1. bal \in Account /\ exact \in Int
  BY DEF TypeOK
<1>2. 0 <= Lost(bal, exact) <=> (bal.available + bal.locked) * Scale <= exact
  BY <1>1, MintedLost
<1>3. ASSUME InTx
      PROVE  0 <= Lost(tx.bal, exact - tx.spent)
               <=> (tx.bal.available + tx.bal.locked) * Scale <= exact - tx.spent
  <2>1. tx.bal \in Account /\ tx.spent \in Nat
    BY <1>3, TxAt DEF Tx
  <2>2. exact - tx.spent \in Int
    BY <1>1, <2>1
  <2>3. QED
    BY <2>1, <2>2, MintedLost
<1>4. QED
  BY <1>2, <1>3 DEF NeverMinted, LostNat

\* Outside settlements, an update that moves x out of the locked part and adds
\* y keeps the invariant when the claims go down by x.
LEMMA BalStep ==
  ASSUME Inv, ~InTx, NEW x \in Int, NEW y \in Int,
         tx' = tx, exact' = exact + y, Moved(bal, bal', x, y),
         orders' \in [OrderIds -> Order \cup {NoOrder}],
         Total(Claims', OrderIds) <= Total(Claims, OrderIds) - x
  PROVE  Inv' /\ LossStep
<1>1. TypeOK /\ NeverMinted /\ Met(bal, exact, Claims)
  BY DEF Inv
<1>2. bal \in Account /\ exact \in Int /\ tx \in Tx \cup {NoTx}
  BY <1>1 DEF TypeOK
<1>3. bal' \in Account /\ exact' \in Int
  BY <1>2 DEF Moved
<1>4. TypeOK'
  BY <1>2, <1>3 DEF TypeOK
<1>5. ~InTx' /\ (InTx <=> InTx')
  BY DEF InTx
<1>6. /\ Lost(bal', exact') \in Int /\ Lost(bal, exact) \in Int
      /\ Lost(bal, exact) <= Lost(bal', exact')
      /\ Lost(bal', exact') - Lost(bal, exact) < 2 * Scale
  BY <1>2, <1>3, MovedLost
<1>7. 0 <= Lost(bal, exact)
  BY <1>1, MintedNot DEF LostNat
<1>8. 0 <= Lost(bal', exact')
  BY <1>6, <1>7
<1>9. NeverMinted'
  <2>1. TypeOK' => (NeverMinted' <=> LostNat')
    BY MintedNot, PTL
  <2>2. QED
    BY <2>1, <1>4, <1>5, <1>8 DEF LostNat
<1>10. \A o \in OrderIds : Claims[o] \in Nat
  BY <1>1, ClaimsNat DEF ClaimsTyped
<1>11. \A o \in OrderIds : Claims'[o] \in Nat
  <2>1. TypeOK' => ClaimsTyped'
    BY ClaimsNat, PTL
  <2>2. QED
    BY <2>1, <1>4 DEF ClaimsTyped
<1>12. Met(bal', exact', Claims')
  <2> DEFINE f == Claims
             g == Claims'
  <2>1. /\ \A o \in OrderIds : f[o] \in Nat
        /\ \A o \in OrderIds : g[o] \in Nat
        /\ Total(g, OrderIds) <= Total(f, OrderIds) - x
        /\ Met(bal, exact, f)
    BY <1>1, <1>10, <1>11
  <2> HIDE DEF f, g
  <2>2. Total(f, OrderIds) \in Nat /\ Total(g, OrderIds) \in Nat
    BY <2>1, OrderIdsFinite, TokensFinite
  <2>3. Met(bal', exact', g)
    BY <1>2, <1>3, <2>1, <2>2, MetMoved
  <2>4. QED
    BY <2>3 DEF g
<1>13. QED
  BY <1>4, <1>5, <1>6, <1>9, <1>12 DEF Inv, LossStep, Met

\* A request that gives one order another claim, lower by x.
LEMMA RequestStep ==
  ASSUME Inv, ~InTx, NEW o \in OrderIds, NEW x \in Int, NEW ord \in Order,
         UNCHANGED <<tx, exact>>, Moved(bal, bal', x, 0),
         orders' = [orders EXCEPT ![o] = ord],
         (IF ord.status = "OPEN" THEN ReleaseAmount(ord) ELSE 0) <= ClaimOf(o) - x
  PROVE  Inv' /\ LossStep
<1>1. TypeOK /\ exact \in Int /\ orders \in [OrderIds -> Order \cup {NoOrder}]
  BY DEF Inv, TypeOK
<1>2. orders' \in [OrderIds -> Order \cup {NoOrder}]
  BY <1>1
<1>3. orders'[o] = ord /\ \A u \in OrderIds \ {o} : orders'[u] = orders[u]
  BY <1>1
<1> DEFINE f == Claims
           g == Claims'
<1>4. \A u \in OrderIds : f[u] \in Nat /\ f[u] = ClaimOf(u)
  BY <1>1, ClaimsNat DEF ClaimsTyped
<1>5. \A u \in OrderIds \ {o} : g[u] = f[u]
  BY <1>3 DEF Claims, ClaimOf, IsOpen
<1>6. g[o] = IF ord.status = "OPEN" THEN ReleaseAmount(ord) ELSE 0
  BY <1>3 DEF Claims, ClaimOf, IsOpen
<1>7. g[o] \in Nat
  BY <1>6, ReleaseAmountNat
<1>8. \A u \in OrderIds : g[u] \in Nat
  <2> TAKE u \in OrderIds
  <2>1. CASE u = o
    BY <1>7, <2>1
  <2>2. CASE u # o
    BY <1>4, <1>5, <2>2
  <2>3. QED
    BY <2>1, <2>2
<1>9. g[o] <= f[o] - x
  BY <1>4, <1>6
<1> HIDE DEF f, g
<1>10. Total(g, OrderIds) <= Total(f, OrderIds) - x
  BY <1>4, <1>5, <1>8, <1>9, TotalDown
<1>11. tx' = tx /\ exact' = exact + 0
  BY <1>1
<1>12. QED
  BY <1>2, <1>10, <1>11, BalStep DEF f, g

\* Creating an order reserves its claim.
LEMMA CreateStep ==
  ASSUME Inv, NEW o \in OrderIds, NEW type \in {"LIMIT", "MARKET"}, NEW price \in Nat,
         NEW left \in Nat, CreateOrder(o, type, price, left)
  PROVE  Inv' /\ LossStep
<1> DEFINE ord == NewOrder(type, price, left)
           x == ReleaseAmount(ord)
<1>1. ord \in Order /\ ord.status = "OPEN"
  BY DEF NewOrder, Order
<1>2. x \in Nat
  BY <1>1, ReleaseAmountNat
<1>3. /\ orders[o] = NoOrder /\ ~InTx /\ Covers(bal.available, x)
      /\ bal' = Reserve(bal, x) /\ orders' = [orders EXCEPT ![o] = ord]
      /\ UNCHANGED <<tx, exact>>
  BY DEF CreateOrder
<1>4. ClaimOf(o) = 0
  BY <1>3 DEF ClaimOf, IsOpen, NoOrder
<1>5. bal \in Account
  BY DEF Inv, TypeOK
<1> HIDE DEF ord
<1>6. (IF ord.status = "OPEN" THEN ReleaseAmount(ord) ELSE 0) <= ClaimOf(o) - (-x)
  BY <1>1, <1>2, <1>4
<1> HIDE DEF x
<1>7. Moved(bal, bal', -x, 0)
  BY <1>2, <1>3, <1>5, ReserveMoves
<1>8. -x \in Int
  BY <1>2
<1>9. QED
  BY <1>1, <1>3, <1>6, <1>7, <1>8, RequestStep

\* Canceling one releases it.
LEMMA CancelStep ==
  ASSUME Inv, NEW o \in OrderIds, CancelOrder(o)
  PROVE  Inv' /\ LossStep
<1> DEFINE x == ReleaseAmount(orders[o])
           ord == [orders[o] EXCEPT !.status = "CANCELED"]
<1>1. /\ IsOpen(o) /\ ~InTx /\ Covers(bal.locked, x) /\ bal' = Restore(bal, x)
      /\ orders' = [orders EXCEPT ![o] = ord]
      /\ UNCHANGED <<tx, exact>>
  BY DEF CancelOrder
<1>2. orders[o] \in Order /\ bal \in Account
  BY <1>1, OpenAt DEF Inv, TypeOK
<1>3. ord \in Order /\ ord.status = "CANCELED"
  BY <1>2 DEF Order
<1>4. x \in Nat /\ ClaimOf(o) = x
  BY <1>1, <1>2, ReleaseAmountNat DEF ClaimOf
<1> HIDE DEF x, ord
<1>5. (IF ord.status = "OPEN" THEN ReleaseAmount(ord) ELSE 0) <= ClaimOf(o) - x
  BY <1>3, <1>4
<1>6. Moved(bal, bal', x, 0)
  BY <1>1, <1>2, <1>4, RestoreMoves
<1>7. x \in Int
  BY <1>4
<1>8. QED
  BY <1>1, <1>3, <1>5, <1>6, <1>7, RequestStep

\* Locking an order begins with its claim and the balance.
LEMMA LockStep ==
  ASSUME Inv, NEW o \in OrderIds, LockOrder(o)
  PROVE  Inv' /\ LossStep
<1> DEFINE left == IF orders[o].type = "LIMIT" THEN orders[o].left ELSE orders[o].left * Scale
<1>1. /\ IsOpen(o) /\ ~InTx /\ UNCHANGED <<bal, orders, exact>>
      /\ tx' = [order |-> o, bal |-> bal, spent |-> 0, at |-> 0, left |-> left]
  BY DEF LockOrder
<1>2. TypeOK /\ bal \in Account /\ exact \in Int /\ Scale \in Nat \ {0}
  BY RoundingAssumption DEF Inv, TypeOK
<1>3. orders[o] \in Order
  BY <1>1, <1>2, OpenAt
<1>4. left \in Nat
  <2>1. orders[o].left \in Nat
    BY <1>3 DEF Order
  <2>2. QED
    BY <1>2, <2>1, TimesMonotone
<1>5. Claim(orders[o], left) = ClaimOf(o)
  BY <1>1, <1>3 DEF Claim, ClaimOf, ReleaseAmount, Order
<1> HIDE DEF left
<1>6. tx' \in Tx
  BY <1>1, <1>2, <1>4 DEF Tx
<1>7. /\ tx'.order = o /\ tx'.bal = bal /\ tx'.spent = 0 /\ tx'.left = left
      /\ bal' = bal /\ exact' = exact /\ orders' = orders
  BY <1>1
<1>8. TypeOK'
  BY <1>2, <1>6, <1>7 DEF TypeOK
<1>9. InTx' /\ IsOpen(tx.order)'
  BY <1>1, <1>7 DEF InTx, IsOpen, OrderIds
<1>10. Claims' = Claims
  BY <1>7 DEF Claims, ClaimOf, IsOpen
<1>11. \A u \in OrderIds : TxClaims'[u] = Claims[u]
  BY <1>5, <1>7 DEF TxClaims, Claims, ClaimOf, IsOpen
<1>12. Total(TxClaims', OrderIds) = Total(Claims, OrderIds)
  <2> DEFINE f == Claims
             g == TxClaims'
  <2>1. \A u \in OrderIds : g[u] = f[u]
    BY <1>11
  <2> HIDE DEF f, g
  <2>2. Total(g, OrderIds) = Total(f, OrderIds)
    BY <2>1, TotalSame
  <2>3. QED
    BY <2>2 DEF f, g
<1>13. Met(bal, exact, Claims) /\ NeverMinted
  BY DEF Inv
<1>14. exact - 0 = exact
  BY <1>2
<1>15. Met(bal', exact', Claims') /\ Met(tx'.bal, exact' - tx'.spent, TxClaims')
  BY <1>7, <1>10, <1>12, <1>13, <1>14 DEF Met
<1>16. NeverMinted'
  BY <1>7, <1>13, <1>14 DEF NeverMinted
<1>17. Lost(bal, exact) \in Int
  <2>1. Worth(bal) \in Nat
    BY <1>2, WorthNat
  <2>2. QED
    BY <1>2, <2>1 DEF Lost, Worth
<1>18. LossStep
  BY <1>1, <1>2, <1>7, <1>17 DEF LossStep
<1>19. QED
  BY <1>8, <1>9, <1>15, <1>16, <1>18 DEF Inv

\* A fill releases what it unlocks, and returns what it does not spend.
LEMMA FillStep ==
  ASSUME Inv, NEW p \in Prices, NEW size \in Quantities, Fill(p, size)
  PROVE  Inv' /\ LossStep
<1> DEFINE ord == orders[tx.order]
           spent == SpentAt(tx, ord, p, size)
           x == UnlockedAt(tx, ord, p, size)
           left == LeftAfter(tx, ord, p, size)
           acc == Release(tx.bal, x, x - spent)
<1>1. InTx /\ Takes(tx, ord, p) /\ Covers(tx.bal.locked, x) /\ UNCHANGED <<bal, orders, exact>>
      /\ tx' = [order |-> tx.order, bal |-> acc, left |-> left, spent |-> tx.spent + spent, at |-> p]
  BY DEF Fill
<1>2. TypeOK /\ exact \in Int /\ IsOpen(tx.order) /\ NeverMinted
      /\ Met(bal, exact, Claims) /\ Met(tx.bal, exact - tx.spent, TxClaims)
  BY <1>1 DEF Inv, TypeOK
<1>3. tx \in Tx /\ tx.order \in OrderIds /\ tx.bal \in Account /\ tx.spent \in Nat
  BY <1>1, <1>2, TxAt DEF Tx
<1>4. ord \in Order
  BY <1>2, <1>3, OpenAt
<1>5. /\ spent \in Nat /\ x \in Nat /\ spent <= x /\ left \in Nat
      /\ Claim(ord, tx.left) \in Nat /\ Claim(ord, left) \in Nat
      /\ Claim(ord, left) = Claim(ord, tx.left) - x
  BY <1>1, <1>3, <1>4, FillAmounts
<1> HIDE DEF ord, spent, x, left
<1>6. x - spent \in Nat
  BY <1>5
<1>7. Moved(tx.bal, acc, x, (x - spent) - x)
  BY <1>1, <1>3, <1>5, <1>6, ReleaseMoves
<1> HIDE DEF acc
<1>8. /\ exact - tx.spent \in Int /\ exact - (tx.spent + spent) \in Int /\ x \in Int
      /\ (x - spent) - x \in Int
      /\ exact - (tx.spent + spent) = (exact - tx.spent) + ((x - spent) - x)
  BY <1>2, <1>3, <1>5
<1>9. /\ acc \in Account
      /\ Lost(acc, exact - (tx.spent + spent)) \in Int /\ Lost(tx.bal, exact - tx.spent) \in Int
      /\ Lost(tx.bal, exact - tx.spent) <= Lost(acc, exact - (tx.spent + spent))
      /\ Lost(acc, exact - (tx.spent + spent)) - Lost(tx.bal, exact - tx.spent) < 2 * Scale
  BY <1>3, <1>7, <1>8, MovedLost
<1>10. /\ tx'.order = tx.order /\ tx'.bal = acc /\ tx'.left = left
       /\ tx'.spent = tx.spent + spent /\ bal' = bal /\ exact' = exact /\ orders' = orders
  BY <1>1
<1>11. tx' \in Tx
  BY <1>1, <1>3, <1>5, <1>9, RoundingAssumption DEF Tx
<1>12. TypeOK' /\ InTx' /\ IsOpen(tx.order)'
  BY <1>1, <1>2, <1>10, <1>11 DEF TypeOK, InTx, IsOpen
<1>13. Claims' = Claims
  BY <1>10 DEF Claims, ClaimOf, IsOpen
<1>14. /\ \A u \in OrderIds : TxClaims[u] \in Nat
       /\ TxClaims[tx.order] = Claim(ord, tx.left)
  BY <1>1, <1>2, <1>3, TxClaimsNat DEF ord
<1>15. /\ \A u \in OrderIds \ {tx.order} : TxClaims[u] = TxClaims'[u]
       /\ TxClaims'[tx.order] = Claim(ord, left)
  BY <1>3, <1>10 DEF TxClaims, ClaimOf, IsOpen, ord
<1>16. Met(acc, exact - (tx.spent + spent), TxClaims')
  <2> DEFINE f == TxClaims
             g == TxClaims'
  <2>1. \A u \in OrderIds : f[u] \in Nat
    BY <1>14
  <2>2. g[tx.order] <= f[tx.order] - x /\ g[tx.order] \in Nat
    BY <1>5, <1>14, <1>15
  <2>3. \A u \in OrderIds \ {tx.order} : f[u] = g[u]
    BY <1>15
  <2>4. Met(tx.bal, exact - tx.spent, f)
    BY <1>2
  <2> HIDE DEF f, g
  <2>5. \A u \in OrderIds : g[u] \in Nat
    BY <2>1, <2>2, <2>3, Zenon
  <2>6. Total(f, OrderIds) \in Nat /\ Total(g, OrderIds) \in Nat
    BY <2>1, <2>5, OrderIdsFinite, TokensFinite
  <2>7. Total(g, OrderIds) <= Total(f, OrderIds) - x
    BY <1>3, <1>8, <2>1, <2>2, <2>3, <2>5, TotalDown
  <2>8. Total(f, OrderIds) \in Int /\ Total(g, OrderIds) \in Int
    BY <2>6
  <2> DEFINE y == (x - spent) - x
             due == exact - tx.spent
             then == exact - (tx.spent + spent)
  <2>9. /\ due \in Int /\ then \in Int /\ y \in Int /\ then = due + y
        /\ Moved(tx.bal, acc, x, y) /\ Met(tx.bal, due, f)
    BY <1>7, <1>8, <2>4
  <2> HIDE DEF y, due, then
  <2>10. Met(acc, then, g)
    BY <1>3, <1>8, <2>7, <2>8, <2>9, MetMoved
  <2>11. QED
    BY <2>10 DEF g, then
<1>17. NeverMinted'
  <2>1. LostNat
    BY <1>2, MintedNot
  <2>2. 0 <= Lost(bal, exact) /\ 0 <= Lost(tx.bal, exact - tx.spent)
    BY <1>1, <2>1 DEF LostNat
  <2>3. 0 <= Lost(acc, exact - (tx.spent + spent))
    BY <1>9, <2>2
  <2>4. LostNat'
    BY <1>10, <2>2, <2>3 DEF LostNat
  <2>5. TypeOK' => (NeverMinted' <=> LostNat')
    BY MintedNot, PTL
  <2>6. QED
    BY <1>12, <2>4, <2>5
<1>18. LossStep
  BY <1>1, <1>9, <1>10 DEF LossStep
<1>19. QED
  BY <1>2, <1>10, <1>12, <1>13, <1>16, <1>17, <1>18 DEF Inv, Met

\* The order after matching claims no more than what remained in the settlement.
LEMMA ConcludedClaim ==
  ASSUME NEW t \in Tx, NEW ord \in Order, NEW e \in {TRUE, FALSE}
  PROVE  /\ Concluded(t, ord, e) \in Order
         /\ Concluded(t, ord, e).status = "OPEN"
              => ReleaseAmount(Concluded(t, ord, e)) <= Claim(ord, t.left)
<1>1. t.left \in Nat /\ ord.left \in Nat /\ ord.price \in Nat
  BY DEF Tx, Order
<1>2. CASE ord.type = "LIMIT"
  <2>1. Concluded(t, ord, e) \in Order
    BY <1>1, <1>2 DEF Concluded, Order
  <2>2. ReleaseAmount(Concluded(t, ord, e)) = ord.price * t.left
    BY <1>1, <1>2 DEF Concluded, Order, ReleaseAmount
  <2>3. ord.price * t.left \in Nat
    BY <1>1, TimesMonotone
  <2>4. QED
    BY <1>2, <2>1, <2>2, <2>3 DEF Claim
<1>3. CASE ord.type # "LIMIT"
  <2>1. Stored(t.left) \in Nat /\ Stored(t.left) * Scale <= t.left
    BY <1>1, StoredNear
  <2>2. Concluded(t, ord, e) \in Order
    BY <1>1, <1>3, <2>1 DEF Concluded, Order
  <2>3. CASE t.left <= Scale * Scale \/ e
    BY <1>3, <2>2, <2>3 DEF Concluded, Order
  <2>4. CASE ~(t.left <= Scale * Scale \/ e)
    <3>1. Concluded(t, ord, e) = [ord EXCEPT !.left = Stored(t.left)]
      BY <1>3, <2>4 DEF Concluded
    <3>2. ReleaseAmount(Concluded(t, ord, e)) = Stored(t.left) * Scale
      BY <1>3, <3>1 DEF ReleaseAmount, Order
    <3>3. QED
      BY <1>3, <2>1, <2>2, <3>2 DEF Claim
  <2>5. QED
    BY <2>3, <2>4
<1>4. QED
  BY <1>2, <1>3

\* Settling saves the settlement's balance and the order's remainder.
LEMMA SettleStep ==
  ASSUME Inv, Settle
  PROVE  Inv' /\ LossStep
<1>1. InTx /\ bal' = tx.bal /\ exact' = exact - tx.spent /\ tx' = NoTx
  BY DEF Settle
<1>2. TypeOK /\ exact \in Int /\ IsOpen(tx.order) /\ NeverMinted
      /\ Met(tx.bal, exact - tx.spent, TxClaims)
      /\ orders \in [OrderIds -> Order \cup {NoOrder}]
  BY <1>1 DEF Inv, TypeOK
<1>3. tx \in Tx /\ tx.order \in OrderIds /\ tx.bal \in Account /\ tx.spent \in Nat /\ tx.left \in Nat
  BY <1>1, <1>2, TxAt DEF Tx
<1>4. orders[tx.order] \in Order
  BY <1>2, <1>3, OpenAt
<1>5. PICK e \in {TRUE, FALSE} :
        orders' = [orders EXCEPT ![tx.order] = Concluded(tx, orders[tx.order], e)]
  BY DEF Settle
<1> DEFINE ord == Concluded(tx, orders[tx.order], e)
<1>6. ord \in Order /\ (ord.status = "OPEN" => ReleaseAmount(ord) <= Claim(orders[tx.order], tx.left))
  BY <1>3, <1>4, ConcludedClaim
<1>7. /\ orders' \in [OrderIds -> Order \cup {NoOrder}]
      /\ orders'[tx.order] = ord
      /\ \A u \in OrderIds \ {tx.order} : orders'[u] = orders[u]
  BY <1>2, <1>3, <1>5, <1>6
<1> HIDE DEF ord
<1>8. ~InTx' /\ NoTx \in Tx \cup {NoTx}
  BY <1>1 DEF InTx, NoTx
<1>9. TypeOK'
  BY <1>1, <1>2, <1>3, <1>7, <1>8 DEF TypeOK
<1>10. /\ \A u \in OrderIds : TxClaims[u] \in Nat
       /\ TxClaims[tx.order] = Claim(orders[tx.order], tx.left)
  BY <1>1, <1>2, <1>3, TxClaimsNat
<1>11. \A u \in OrderIds : Claims'[u] \in Nat
  <2>1. TypeOK' => ClaimsTyped'
    BY ClaimsNat, PTL
  <2>2. QED
    BY <1>9, <2>1 DEF ClaimsTyped
<1>12. \A u \in OrderIds \ {tx.order} : TxClaims[u] = Claims'[u]
  BY <1>7 DEF TxClaims, Claims, ClaimOf, IsOpen
<1>13. Claims'[tx.order] <= TxClaims[tx.order] - 0
  <2>1. Claims'[tx.order] = IF ord.status = "OPEN" THEN ReleaseAmount(ord) ELSE 0
    BY <1>3, <1>7 DEF Claims, ClaimOf, IsOpen
  <2>2. ReleaseAmount(ord) \in Nat
    BY <1>6, ReleaseAmountNat
  <2>3. Claim(orders[tx.order], tx.left) \in Nat
    BY <1>3, <1>10
  <2>4. QED
    BY <1>6, <1>10, <2>1, <2>2, <2>3
<1>14. Met(bal', exact', Claims')
  <2> DEFINE f == TxClaims
             g == Claims'
             due == exact - tx.spent
  <2>1. /\ \A u \in OrderIds : f[u] \in Nat
        /\ \A u \in OrderIds : g[u] \in Nat
        /\ \A u \in OrderIds \ {tx.order} : f[u] = g[u]
        /\ g[tx.order] <= f[tx.order] - 0
        /\ Met(tx.bal, due, f)
    BY <1>2, <1>10, <1>11, <1>12, <1>13
  <2>2. due \in Int /\ due = due + 0 /\ 0 \in Int
    BY <1>2, <1>3
  <2> HIDE DEF f, g, due
  <2>3. Total(f, OrderIds) \in Nat /\ Total(g, OrderIds) \in Nat
    BY <2>1, OrderIdsFinite, TokensFinite
  <2>4. Total(f, OrderIds) \in Int /\ Total(g, OrderIds) \in Int
    BY <2>3
  <2>5. Total(g, OrderIds) <= Total(f, OrderIds) - 0
    BY <1>3, <2>1, TotalDown
  <2>6. Moved(tx.bal, tx.bal, 0, 0)
    BY <1>3, MovedNot
  <2>7. Met(tx.bal, due, g)
    BY <1>3, <2>1, <2>2, <2>4, <2>5, <2>6, MetMoved
  <2>8. QED
    BY <1>1, <2>7 DEF g, due
<1>15. NeverMinted'
  BY <1>1, <1>2, <1>8 DEF NeverMinted
<1>16. LossStep
  BY <1>1, <1>8 DEF LossStep, NoTx
<1>17. QED
  BY <1>8, <1>9, <1>14, <1>15 , <1>16 DEF Inv

\* A run that is abandoned leaves what was saved.
LEMMA AbandonStep ==
  ASSUME Inv, InTx, tx' = NoTx, UNCHANGED <<bal, orders, exact>>
  PROVE  Inv' /\ LossStep
<1>1. ~InTx' /\ NoTx \in Tx \cup {NoTx} /\ tx'.order = 0
  BY DEF InTx, NoTx
<1>2. TypeOK'
  BY <1>1 DEF Inv, TypeOK
<1>3. Claims' = Claims
  BY DEF Claims, ClaimOf, IsOpen
<1>4. NeverMinted'
  BY <1>1 DEF Inv, NeverMinted
<1>5. Met(bal', exact', Claims')
  BY <1>3 DEF Inv
<1>6. LossStep
  BY <1>1 DEF LossStep
<1>7. QED
  BY <1>1, <1>2, <1>4, <1>5, <1>6 DEF Inv

\* A step of something else loses nothing.
LEMMA StutterStep ==
  ASSUME Inv, UNCHANGED vars
  PROVE  Inv' /\ LossStep
<1>1. bal' = bal /\ orders' = orders /\ tx' = tx /\ exact' = exact
  BY DEF vars
<1>2. Claims' = Claims /\ TxClaims' = TxClaims /\ (InTx' <=> InTx) /\ (IsOpen(tx.order)' <=> IsOpen(tx.order))
  BY <1>1 DEF Claims, TxClaims, ClaimOf, IsOpen, InTx
<1>3. Inv'
  BY <1>1, <1>2 DEF Inv, TypeOK, NeverMinted, Met, InTx
<1>4. TypeOK /\ exact \in Int /\ bal \in Account /\ Scale \in Nat \ {0}
  BY RoundingAssumption DEF Inv, TypeOK
<1>5. Lost(bal, exact) \in Int
  BY <1>4, WorthNat DEF Lost, Worth
<1>6. InTx => Lost(tx.bal, exact - tx.spent) \in Int
  <2> HAVE InTx
  <2>1. tx.bal \in Account /\ tx.spent \in Nat
    BY <1>4, TxAt DEF Tx
  <2>2. Worth(tx.bal) \in Nat
    BY <2>1, WorthNat
  <2>3. QED
    BY <1>4, <2>1, <2>2 DEF Lost, Worth
<1>7. LossStep
  BY <1>1, <1>4, <1>5, <1>6 DEF LossStep
<1>8. QED
  BY <1>3, <1>7

\* Every step of the buys keeps the invariant and loses less than two units.
LEMMA BuyStep ==
  ASSUME Inv, [Next]_vars
  PROVE  Inv' /\ LossStep
<1>1. ASSUME NEW o \in OrderIds, NEW p \in Prices, NEW q \in Quantities, CreateLimitBuy(o, p, q)
      PROVE  Inv' /\ LossStep
  BY <1>1, CreateStep, RoundingAssumption DEF CreateLimitBuy
<1>2. ASSUME NEW o \in OrderIds, NEW a \in Amounts, CreateMarketBuy(o, a)
      PROVE  Inv' /\ LossStep
  BY <1>2, CreateStep, RoundingAssumption DEF CreateMarketBuy
<1>3. ASSUME NEW p \in Prices, NEW size \in Quantities, FillThrows(p, size)
      PROVE  Inv' /\ LossStep
  BY <1>3, AbandonStep DEF FillThrows
<1>4. CASE Abandon
  BY <1>4, AbandonStep DEF Abandon
<1>5. QED
  BY <1>1, <1>2, <1>3, <1>4, CancelStep, LockStep, FillStep, SettleStep, StutterStep DEF Next

\* The account is funded, and there is no order.
LEMMA InitInv == Init => Inv
<1> SUFFICES ASSUME Init PROVE Inv
  OBVIOUS
<1>1. (Funding + 0) * Scale = Funding * Scale /\ Funding * Scale \in Int /\ 0 * Scale = 0
  BY RoundingAssumption
<1>2. TypeOK /\ ~InTx /\ NeverMinted
  BY <1>1, RoundingAssumption DEF Init, TypeOK, NeverMinted, InTx, NoTx, Account
<1>3. \A o \in OrderIds : Claims[o] = 0
  BY DEF Init, Claims, ClaimOf, IsOpen, NoOrder
<1>4. Total(Claims, OrderIds) = 0
  BY <1>3, TotalZero
<1>5. Lost(bal, exact) = 0
  BY <1>1 DEF Init, Lost
<1>6. Met(bal, exact, Claims)
  BY <1>1, <1>4, <1>5 DEF Met, Init
<1>7. QED
  BY <1>2, <1>6 DEF Inv

-----------------------------------------------------------------------------
(* What a fill makes of coins and position                                  *)

\* A factor that is not zero can be canceled.
LEMMA TimesCancel ==
  ASSUME NEW a \in Int, NEW b \in Int, NEW n \in Nat \ {0}
  PROVE  (a * n <= b * n => a <= b) /\ (a * n < b * n => a < b)
OBVIOUS

\* The product of a rounded average and a rounded quantity is near the cost:
\* c at price p for q / p coins, of which n are whole.
LEMMA AverageNear ==
  ASSUME NEW c \in Nat, NEW q \in Nat \ {0}, NEW p \in Nat \ {0}, NEW n \in Nat,
         n * p <= q, q < n * p + p
  PROVE  LET avg == (c * p) \div q
         IN avg \in Nat /\ avg * n <= c /\ c <= avg * n + avg + n
<1> DEFINE avg == (c * p) \div q
<1>1. c * p \in Nat
  BY TimesMonotone
<1>2. \A s \in Nat \ {0}, y \in Nat : y \div s \in Nat /\ (y \div s) * s <= y /\ y < (y \div s) * s + s
  BY SMT
<1>3. avg \in Nat /\ avg * q <= c * p /\ c * p < avg * q + q
  BY <1>1, <1>2
<1> HIDE DEF avg
<1>4. avg * n <= c
  <2>1. avg * (n * p) <= avg * q
    BY <1>3, TimesMonotone
  <2>2. avg * (n * p) = (avg * n) * p /\ avg * n \in Nat
    BY <1>3
  <2>3. (avg * n) * p <= c * p
    BY <1>1, <1>3, <2>1, <2>2
  <2>4. QED
    BY <2>2, <2>3, TimesCancel
<1>5. c < (avg + 1) * (n + 1)
  <2>1. avg * q + q = (avg + 1) * q /\ n * p + p = (n + 1) * p
    BY <1>3
  <2>2. (avg + 1) * q <= (avg + 1) * ((n + 1) * p)
    BY <1>3, <2>1, TimesMonotone
  <2>3. (avg + 1) * ((n + 1) * p) = ((avg + 1) * (n + 1)) * p /\ (avg + 1) * (n + 1) \in Nat
    BY <1>3
  <2>4. (avg + 1) * q \in Nat
    BY <1>3
  <2>5. c * p < ((avg + 1) * (n + 1)) * p
    BY <1>1, <1>3, <2>1, <2>2, <2>3, <2>4
  <2>6. QED
    BY <2>3, <2>5, TimesCancel
<1>6. (avg + 1) * (n + 1) = avg * n + avg + n + 1 /\ avg * n \in Nat
  BY <1>3
<1>7. c <= avg * n + avg + n
  BY <1>3, <1>5, <1>6
<1>8. QED
  BY <1>3, <1>4, <1>7 DEF avg

Position == [qty : Nat, avgPrice : Nat, cost : Nat, realizedPnl : Int]

\* The cost is the average price of the coins held, but for rounding.
CostNear(pos) ==
  /\ pos.avgPrice * pos.qty - Scale < pos.cost * Scale
  /\ pos.cost * Scale <= pos.avgPrice * pos.qty + pos.avgPrice + pos.qty

\* Coins and position agree.
Agree(c, pos) ==
  /\ c \in Account /\ pos \in Position
  /\ c.available + c.locked = pos.qty
  /\ pos.qty = 0 => pos = [NoPosition EXCEPT !.realizedPnl = pos.realizedPnl]
  /\ CostNear(pos)

\* A buy that spends the price of something keeps them in agreement, and moves
\* profit and cash apart by the rounding of the cost.
LEMMA BoughtAgrees ==
  ASSUME NEW c, NEW pos, Agree(c, pos), NEW p \in Nat \ {0}, NEW spent \in Nat, p <= spent,
         NEW cash \in Int
  PROVE  /\ Agree([c EXCEPT !.available = @ + CoinsBought(p, spent)], Bought(pos, p, spent))
         /\ Apart(Bought(pos, p, spent), cash - spent) - Apart(pos, cash) \in 0..(Scale - 1)
<1> DEFINE s == spent \div p
           cost == pos.cost * Scale + spent
           q == pos.qty * p + spent
           avg == (cost * p) \div q
           n == pos.qty + s
           new == Bought(pos, p, spent)
           coins == [c EXCEPT !.available = @ + CoinsBought(p, spent)]
<1>1. /\ pos.qty \in Nat /\ pos.avgPrice \in Nat /\ pos.cost \in Nat /\ pos.realizedPnl \in Int
      /\ c.available \in Nat /\ c.locked \in Nat /\ c.available + c.locked = pos.qty
      /\ c \in Account /\ pos \in Position /\ Scale \in Nat \ {0} /\ Funding \in Nat
  BY RoundingAssumption DEF Agree, Position, Account
<1>2. s \in Nat \ {0} /\ s * p <= spent /\ spent < s * p + p
  <2>1. \A d \in Nat \ {0}, y \in Nat :
          y \div d \in Nat /\ (y \div d) * d <= y /\ y < (y \div d) * d + d
    BY SMT
  <2>2. s \in Nat /\ s * p <= spent /\ spent < s * p + p
    BY <2>1
  <2>3. s # 0
    <3> SUFFICES ASSUME s = 0 PROVE FALSE
      OBVIOUS
    <3> HIDE DEF s
    <3>1. s * p = 0
      BY <2>2
    <3>2. QED
      BY <2>2, <3>1
  <2>4. QED
    BY <2>2, <2>3
<1>3. pos.cost * Scale \in Nat /\ pos.qty * p \in Nat /\ cost \in Nat /\ q \in Nat \ {0}
  <2>1. pos.cost * Scale \in Nat /\ pos.qty * p \in Nat
    BY <1>1
  <2>2. QED
    BY <2>1
<1>4. new = [qty |-> n, avgPrice |-> avg, cost |-> Stored(cost), realizedPnl |-> pos.realizedPnl]
  <2>1. new = [pos EXCEPT !.qty = n, !.avgPrice = avg, !.cost = Stored(cost)]
    BY DEF Bought
  <2> HIDE DEF n, avg, cost
  <2>2. QED
    BY <1>1, <2>1 DEF Position
<1>5. coins = [available |-> c.available + s, locked |-> c.locked]
  BY <1>1 DEF CoinsBought, Account
<1> HIDE DEF s, new, coins
<1>6. n \in Nat /\ n # 0 /\ n * p <= q /\ q < n * p + p
  <2>1. n * p = pos.qty * p + s * p /\ s * p \in Nat
    BY <1>1, <1>2
  <2>2. QED
    BY <1>1, <1>2, <1>3, <2>1
<1> HIDE DEF n, cost, q
<1>7. avg \in Nat /\ avg * n <= cost /\ cost <= avg * n + avg + n
  BY <1>3, <1>6, AverageNear
<1> HIDE DEF avg
<1>8. Stored(cost) \in Nat /\ Stored(cost) * Scale <= cost /\ cost < Stored(cost) * Scale + Scale
  BY <1>3, StoredNear
<1>9. new \in Position /\ new.qty = n /\ new.avgPrice = avg /\ new.cost = Stored(cost)
      /\ new.realizedPnl = pos.realizedPnl
  BY <1>1, <1>4, <1>6, <1>7, <1>8 DEF Position
<1>10. coins \in Account /\ coins.available + coins.locked = n
  BY <1>1, <1>2, <1>5 DEF Account, n
<1>11. avg * n \in Nat /\ Stored(cost) * Scale \in Nat
  BY <1>1, <1>6, <1>7, <1>8
<1>12. CostNear(new)
  BY <1>1, <1>3, <1>6, <1>7, <1>8, <1>9, <1>11 DEF CostNear
<1>13. Agree(coins, new)
  BY <1>6, <1>9, <1>10, <1>12 DEF Agree
<1>14. Apart(new, cash - spent) - Apart(pos, cash) \in 0..(Scale - 1)
  <2>1. Funding * Scale \in Int /\ pos.realizedPnl * Scale \in Int
    BY <1>1
  <2>2. /\ (pos.realizedPnl - Stored(cost)) * Scale = pos.realizedPnl * Scale - Stored(cost) * Scale
        /\ (pos.realizedPnl - pos.cost) * Scale = pos.realizedPnl * Scale - pos.cost * Scale
    BY <1>1, <1>8
  <2>3. Apart(new, cash - spent) - Apart(pos, cash) = cost - Stored(cost) * Scale
    BY <1>3, <1>9, <1>11, <2>1, <2>2 DEF Apart, cost
  <2>4. QED
    BY <1>1, <1>3, <1>8, <1>11, <2>3
<1>15. QED
  BY <1>13, <1>14 DEF coins, new

\* A profit and a loss are rounded toward zero, by less than a unit.
LEMMA StoredProfitNear ==
  ASSUME NEW x \in Int
  PROVE  /\ StoredProfit(x) \in Int /\ StoredProfit(x) * Scale \in Int
         /\ x - Scale < StoredProfit(x) * Scale /\ StoredProfit(x) * Scale < x + Scale
<1>0. Scale \in Nat \ {0}
  BY RoundingAssumption
<1>1. CASE x >= 0
  <2>1. Stored(x) \in Nat /\ Stored(x) * Scale <= x /\ x < Stored(x) * Scale + Scale
    BY <1>1, StoredNear
  <2>2. StoredProfit(x) = Stored(x) /\ Stored(x) * Scale \in Int
    BY <1>0, <1>1, <2>1 DEF StoredProfit
  <2>3. QED
    BY <1>0, <2>1, <2>2
<1>2. CASE ~(x >= 0)
  <2>1. -x \in Nat
    BY <1>2
  <2>2. Stored(-x) \in Nat /\ Stored(-x) * Scale <= -x /\ -x < Stored(-x) * Scale + Scale
    BY <2>1, StoredNear
  <2>3. StoredProfit(x) = -Stored(-x)
    BY <1>2 DEF StoredProfit
  <2> DEFINE s == Stored(-x)
  <2> HIDE DEF s
  <2>4. s \in Nat /\ s * Scale <= -x /\ -x < s * Scale + Scale /\ StoredProfit(x) = -s
    BY <2>2, <2>3 DEF s
  <2>5. (-s) * Scale = -(s * Scale) /\ s * Scale \in Int
    BY <1>0, <2>4
  <2>6. QED
    BY <1>0, <2>4, <2>5
<1>3. QED
  BY <1>1, <1>2

\* A sale of locked coins keeps them in agreement, and moves profit and cash
\* apart by what rounding has made of the cost, and two roundings.
LEMMA SoldAgrees ==
  ASSUME NEW c, NEW pos, Agree(c, pos), NEW p \in Nat, NEW q \in Nat, q <= c.locked,
         NEW cash \in Int
  PROVE  /\ Agree([c EXCEPT !.locked = @ - q], Sold(pos, p, q))
         /\ Apart(Sold(pos, p, q), cash + p * q) - Apart(pos, cash)
              \in (1 - 2 * Scale)..(2 * Scale + pos.avgPrice + pos.qty)
<1> DEFINE earned == pos.realizedPnl * Scale + (p - pos.avgPrice) * q
           pnl == StoredProfit(earned)
           rest == pos.qty - q
           new == Sold(pos, p, q)
           coins == [c EXCEPT !.locked = @ - q]
           cost == IF q = pos.qty THEN 0 ELSE Stored(pos.avgPrice * rest)
           avg == IF q = pos.qty THEN 0 ELSE pos.avgPrice
<1>1. /\ pos.qty \in Nat /\ pos.avgPrice \in Nat /\ pos.cost \in Nat /\ pos.realizedPnl \in Int
      /\ c.available \in Nat /\ c.locked \in Nat /\ c.available + c.locked = pos.qty
      /\ c \in Account /\ pos \in Position /\ Scale \in Nat \ {0} /\ Funding \in Nat
  BY RoundingAssumption DEF Agree, Position, Account
<1>2. q <= pos.qty /\ rest \in Nat
  BY <1>1
<1>3. /\ (p - pos.avgPrice) * q = p * q - pos.avgPrice * q
      /\ p * q \in Nat /\ pos.avgPrice * q \in Nat /\ earned \in Int
      /\ pos.realizedPnl * Scale \in Int
  BY <1>1
<1>4. /\ pnl \in Int /\ pnl * Scale \in Int
      /\ earned - Scale < pnl * Scale /\ pnl * Scale < earned + Scale
  <2> HIDE DEF earned
  <2>1. QED
    BY <1>3, StoredProfitNear
<1>5. pos.avgPrice * rest \in Nat /\ pos.avgPrice * rest = pos.avgPrice * pos.qty - pos.avgPrice * q
      /\ pos.avgPrice * pos.qty \in Nat
  BY <1>1, <1>2
<1>6. /\ cost \in Nat /\ avg \in Nat /\ avg * rest = pos.avgPrice * rest
      /\ cost * Scale \in Nat
      /\ cost * Scale <= pos.avgPrice * rest /\ pos.avgPrice * rest < cost * Scale + Scale
  <2>1. CASE q = pos.qty
    <3>1. rest = 0 /\ cost = 0 /\ avg = 0
      BY <1>1, <2>1
    <3> HIDE DEF rest, cost, avg
    <3>2. pos.avgPrice * rest = 0 /\ avg * rest = 0 /\ cost * Scale = 0
      BY <1>1, <3>1
    <3>3. QED
      BY <1>1, <3>1, <3>2
  <2>2. CASE q # pos.qty
    <3>1. cost = Stored(pos.avgPrice * rest) /\ avg = pos.avgPrice
      BY <2>2
    <3> HIDE DEF rest
    <3>2. /\ Stored(pos.avgPrice * rest) \in Nat
          /\ Stored(pos.avgPrice * rest) * Scale <= pos.avgPrice * rest
          /\ pos.avgPrice * rest < Stored(pos.avgPrice * rest) * Scale + Scale
      BY <1>5, StoredNear
    <3> HIDE DEF cost, avg
    <3>3. cost * Scale \in Nat
      BY <1>1, <3>1, <3>2
    <3>4. QED
      BY <1>1, <3>1, <3>2, <3>3
  <2>3. QED
    BY <2>1, <2>2
<1>7. new = [qty |-> rest, avgPrice |-> avg, cost |-> cost, realizedPnl |-> pnl]
  <2>1. CASE q = pos.qty
    <3>1. new = [NoPosition EXCEPT !.realizedPnl = pnl]
      BY <2>1 DEF Sold
    <3>2. rest = 0 /\ cost = 0 /\ avg = 0
      BY <1>1, <2>1
    <3> HIDE DEF pnl, rest, cost, avg
    <3>3. QED
      BY <3>1, <3>2 DEF NoPosition
  <2>2. CASE q # pos.qty
    <3>1. new = [pos EXCEPT !.qty = rest, !.cost = cost, !.realizedPnl = pnl]
      BY <2>2 DEF Sold
    <3>2. avg = pos.avgPrice
      BY <2>2
    <3> HIDE DEF pnl, rest, cost, avg
    <3>3. QED
      BY <1>1, <3>1, <3>2 DEF Position
  <2>3. QED
    BY <2>1, <2>2
<1>8. coins = [available |-> c.available, locked |-> c.locked - q]
  BY <1>1 DEF Account
<1>9. coins \in Account /\ coins.available + coins.locked = rest
  BY <1>1, <1>8 DEF Account
<1>10. rest = 0 => avg = 0 /\ cost = 0
  BY <1>1
<1> HIDE DEF pnl, rest, new, coins, cost, avg
<1>11. new \in Position /\ new.qty = rest /\ new.avgPrice = avg /\ new.cost = cost
       /\ new.realizedPnl = pnl
  BY <1>2, <1>4, <1>6, <1>7 DEF Position
<1>12. CostNear(new)
  BY <1>1, <1>2, <1>5, <1>6, <1>11 DEF CostNear
<1>13. new.qty = 0 => new = [NoPosition EXCEPT !.realizedPnl = new.realizedPnl]
  BY <1>7, <1>10, <1>11 DEF NoPosition
<1>14. Agree(coins, new)
  BY <1>9, <1>11, <1>12, <1>13 DEF Agree
<1>15. Apart(new, cash + p * q) - Apart(pos, cash)
         = (pnl * Scale - earned) + (pos.avgPrice * rest - cost * Scale)
             + (pos.cost * Scale - pos.avgPrice * pos.qty)
  <2>1. /\ (pnl - cost) * Scale = pnl * Scale - cost * Scale
        /\ (pos.realizedPnl - pos.cost) * Scale = pos.realizedPnl * Scale - pos.cost * Scale
        /\ pos.cost * Scale \in Int /\ Funding * Scale \in Int
    BY <1>1, <1>4, <1>6
  <2>2. Apart(new, cash + p * q) = pnl * Scale - cost * Scale - (cash + p * q - Funding * Scale)
    BY <1>11, <2>1 DEF Apart
  <2>3. Apart(pos, cash) = pos.realizedPnl * Scale - pos.cost * Scale - (cash - Funding * Scale)
    BY <2>1 DEF Apart
  <2>4. earned = pos.realizedPnl * Scale + p * q - pos.avgPrice * q
    BY <1>3
  <2> HIDE DEF earned
  <2>5. QED
    BY <1>1, <1>3, <1>4, <1>5, <1>6, <2>1, <2>2, <2>3, <2>4
<1>16. CostNear(pos) /\ pos.cost * Scale \in Int
  BY <1>1 DEF Agree
<1> HIDE DEF earned
<1>17. QED
  <2>1. Apart(new, cash + p * q) - Apart(pos, cash)
          \in (1 - 2 * Scale)..(2 * Scale + pos.avgPrice + pos.qty)
    BY <1>1, <1>3, <1>4, <1>5, <1>6, <1>15, <1>16 DEF CostNear
  <2>2. QED
    BY <1>14, <2>1 DEF new, coins

-----------------------------------------------------------------------------
(* Coins and position                                                       *)

\* What SELL orders have locked.
SellClaims == [s \in SellIds |-> IF IsOpenSell(s) THEN sells[s].left ELSE 0]

\* The inductive invariant.  Within a settlement the working copies agree, and
\* the locked coins are still those of the SELL orders.
PositionsInv ==
  /\ Inv
  /\ sells \in [SellIds -> Order \cup {NoOrder}]
  /\ Agree(coin, position)
  /\ coin.locked = Total(SellClaims, SellIds)
  /\ InTx => Agree(work.coin, work.position) /\ work.coin.locked = coin.locked

\* The bound on how far one step moves profit and cash apart.
ProfitStep ==
  /\ ~InTx => Apart(position', exact') - Apart(position, exact)
                \in (1 - 2 * Scale)..(2 * Scale + position.avgPrice + position.qty)
  /\ InTx /\ tx'.order # 0 =>
       Apart(work'.position, exact - tx'.spent) - Apart(work.position, exact - tx.spent)
         \in 0..(Scale - 1)

\* What a step keeps and how far it may go.
GoodStep == PositionsInv' /\ LossStep /\ ProfitStep

\* The SELL orders are finitely many.
LEMMA SellIdsFinite == IsFiniteSet(SellIds)
BY FS_Interval, PositionsAssumption DEF SellIds

\* Without a change of position and cash nothing moves apart.
LEMMA ApartStays ==
  ASSUME NEW c, NEW pos, Agree(c, pos), NEW cash \in Int
  PROVE  /\ Apart(pos, cash) - Apart(pos, cash) \in 0..(Scale - 1)
         /\ Apart(pos, cash) - Apart(pos, cash)
              \in (1 - 2 * Scale)..(2 * Scale + pos.avgPrice + pos.qty)
<1>1. /\ pos.qty \in Nat /\ pos.avgPrice \in Nat /\ pos.cost \in Int /\ pos.realizedPnl \in Int
      /\ Scale \in Nat \ {0} /\ Funding \in Nat
  BY RoundingAssumption DEF Agree, Position
<1>2. Apart(pos, cash) \in Int
  BY <1>1 DEF Apart
<1>3. Apart(pos, cash) - Apart(pos, cash) = 0
  BY <1>2
<1>4. QED
  BY <1>1, <1>3

\* What an OPEN SELL order has locked.
LEMMA SellClaimsNat ==
  ASSUME sells \in [SellIds -> Order \cup {NoOrder}]
  PROVE  \A s \in SellIds : SellClaims[s] \in Nat
                            /\ (IsOpenSell(s) => SellClaims[s] = sells[s].left
                                                 /\ sells[s] \in Order)
BY DEF SellClaims, IsOpenSell, NoOrder, Order

\* Changing one SELL order changes what is locked by the change of its claim.
LEMMA SellUpdate ==
  ASSUME sells \in [SellIds -> Order \cup {NoOrder}],
         NEW s \in SellIds, NEW ord \in Order, sells' = [sells EXCEPT ![s] = ord]
  PROVE  LET now == IF ord.status = "OPEN" THEN ord.left ELSE 0
         IN /\ sells' \in [SellIds -> Order \cup {NoOrder}]
            /\ Total(SellClaims, SellIds) \in Nat
            /\ SellClaims[s] <= Total(SellClaims, SellIds)
            /\ Total(SellClaims', SellIds) = Total(SellClaims, SellIds) - SellClaims[s] + now
<1> DEFINE now == IF ord.status = "OPEN" THEN ord.left ELSE 0
           f == SellClaims
           g == SellClaims'
<1>1. sells' \in [SellIds -> Order \cup {NoOrder}]
  OBVIOUS
<1>2. now \in Nat
  BY DEF Order
<1>3. \A u \in SellIds : f[u] \in Nat
  BY SellClaimsNat
<1>4. g[s] = now
  BY DEF SellClaims, IsOpenSell
<1>5. \A u \in SellIds \ {s} : f[u] = g[u]
  BY DEF SellClaims, IsOpenSell
<1> HIDE DEF now, f, g
<1>6. \A u \in SellIds : g[u] \in Nat
  BY <1>2, <1>3, <1>4, <1>5, Zenon
<1>7. Total(g, SellIds) + f[s] = Total(f, SellIds) + g[s]
  BY <1>3, <1>5, <1>6, SellIdsFinite, TotalUpdate
<1>8. Total(f, SellIds) \in Nat /\ Total(g, SellIds) \in Nat /\ f[s] \in Nat
  BY <1>3, <1>6, SellIdsFinite, TokensFinite
<1>9. f[s] <= Total(f, SellIds)
  BY <1>3, SellIdsFinite, TotalBounds
<1>10. Total(g, SellIds) = Total(f, SellIds) - f[s] + now
  BY <1>2, <1>4, <1>7, <1>8
<1>11. QED
  BY <1>1, <1>8, <1>9, <1>10 DEF now, f, g

\* A step of the buys that leaves coins and position alone.
LEMMA RequestKeeps ==
  ASSUME PositionsInv, ~InTx, Inv', LossStep, UNCHANGED <<userVars, exact>>,
         InTx' => work' = [coin |-> coin, position |-> position]
  PROVE  GoodStep
<1>1. coin' = coin /\ position' = position /\ sells' = sells /\ exact' = exact
  BY DEF userVars
<1>2. SellClaims' = SellClaims
  BY <1>1 DEF SellClaims, IsOpenSell
<1>3. exact \in Int
  BY DEF PositionsInv, Inv, TypeOK
<1>4. ProfitStep
  BY <1>1, <1>3, ApartStays DEF ProfitStep, PositionsInv
<1>5. PositionsInv'
  BY <1>1, <1>2 DEF PositionsInv, Agree, CostNear
<1>6. QED
  BY <1>4, <1>5 DEF GoodStep

\* A run that ends without settling leaves coins and position alone.
LEMMA RollBackStep ==
  ASSUME PositionsInv, RollBack
  PROVE  GoodStep
<1>1. InTx /\ tx' = NoTx /\ UNCHANGED <<bal, orders, exact>> /\ UNCHANGED userVars
  BY DEF RollBack, Abandon, FillThrows
<1>2. Inv' /\ LossStep
  BY <1>1, AbandonStep DEF PositionsInv
<1>3. ~InTx' /\ tx'.order = 0
  BY <1>1 DEF InTx, NoTx
<1>4. coin' = coin /\ position' = position /\ sells' = sells
  BY <1>1 DEF userVars
<1>5. SellClaims' = SellClaims
  BY <1>4 DEF SellClaims, IsOpenSell
<1>6. PositionsInv'
  BY <1>2, <1>3, <1>4, <1>5 DEF PositionsInv, Agree, CostNear
<1>7. QED
  BY <1>1, <1>2, <1>3, <1>6 DEF GoodStep, ProfitStep

\* A fill of a buy, in the working copies.
LEMMA BuyFillStep ==
  ASSUME PositionsInv, NEW p \in Prices, NEW size \in Quantities, BuyFill(p, size)
  PROVE  GoodStep
<1> DEFINE spent == SpentAt(tx, orders[tx.order], p, size)
           cash == exact - tx.spent
<1>1. /\ InTx /\ Fill(p, size) /\ UNCHANGED userVars
      /\ work' = [coin |-> [work.coin EXCEPT !.available = @ + CoinsBought(p, spent)],
                  position |-> Bought(work.position, p, spent)]
  BY DEF BuyFill, Fill
<1>2. Inv' /\ LossStep
  BY <1>1, FillStep DEF PositionsInv
<1>3. TypeOK /\ IsOpen(tx.order) /\ exact \in Int
  BY <1>1 DEF PositionsInv, Inv, TypeOK
<1>4. tx \in Tx /\ tx.order \in OrderIds /\ tx.spent \in Nat
  BY <1>1, <1>3, TxAt DEF Tx
<1>5. orders[tx.order] \in Order /\ p \in Nat \ {0}
  BY <1>3, <1>4, OpenAt, RoundingAssumption
<1>6. Takes(tx, orders[tx.order], p)
  BY <1>1 DEF Fill
<1>7. spent \in Nat /\ p <= spent
  BY <1>4, <1>5, <1>6, FillAmounts
<1>8. tx'.spent = tx.spent + spent /\ exact' = exact /\ tx'.order = tx.order
  BY <1>1 DEF Fill
<1> HIDE DEF spent
<1>9. cash \in Int /\ exact - tx'.spent = cash - spent
  BY <1>3, <1>4, <1>7, <1>8
<1> HIDE DEF cash
<1>10. Agree(work.coin, work.position) /\ work.coin.locked = coin.locked
  BY <1>1 DEF PositionsInv
<1>11. /\ Agree(work'.coin, work'.position)
       /\ Apart(work'.position, cash - spent) - Apart(work.position, cash) \in 0..(Scale - 1)
  BY <1>1, <1>5, <1>7, <1>9, <1>10, BoughtAgrees
<1>12. work'.coin.locked = coin.locked
  BY <1>1, <1>10 DEF Agree, Account
<1>13. coin' = coin /\ position' = position /\ sells' = sells
  BY <1>1 DEF userVars
<1>14. SellClaims' = SellClaims
  BY <1>13 DEF SellClaims, IsOpenSell
<1>15. PositionsInv'
  BY <1>2, <1>11, <1>12, <1>13, <1>14 DEF PositionsInv, Agree, CostNear
<1>16. ProfitStep
  BY <1>1, <1>9, <1>11 DEF ProfitStep, cash
<1>17. QED
  BY <1>2, <1>15, <1>16 DEF GoodStep

\* Settling saves the working copies.
LEMMA SettleBuyStep ==
  ASSUME PositionsInv, SettleBuy
  PROVE  GoodStep
<1>1. InTx /\ Settle /\ coin' = work.coin /\ position' = work.position /\ sells' = sells
      /\ tx' = NoTx
  BY DEF SettleBuy, Settle
<1>2. Inv' /\ LossStep
  BY <1>1, SettleStep DEF PositionsInv
<1>3. ~InTx' /\ tx'.order = 0
  BY <1>1 DEF InTx, NoTx
<1>4. SellClaims' = SellClaims
  BY <1>1 DEF SellClaims, IsOpenSell
<1>5. PositionsInv'
  BY <1>1, <1>2, <1>3, <1>4 DEF PositionsInv, Agree, CostNear
<1>6. QED
  BY <1>1, <1>2, <1>3, <1>5 DEF GoodStep, ProfitStep

\* Creating and canceling buys, and locking one.
LEMMA BuyRequestStep ==
  ASSUME PositionsInv, BuyRequest \/ \E o \in OrderIds : Lock(o)
  PROVE  GoodStep
<1>1. Inv
  BY DEF PositionsInv
<1>2. CASE BuyRequest
  <2>1. UNCHANGED <<userVars, work>>
    BY <1>2 DEF BuyRequest
  <2>2. ~InTx /\ UNCHANGED <<tx, exact>>
    BY <1>2 DEF BuyRequest, CreateLimitBuy, CreateMarketBuy, CreateOrder, CancelOrder
  <2>3. [Next]_vars
    BY <1>2 DEF BuyRequest, Next
  <2>4. Inv' /\ LossStep
    BY <1>1, <2>3, BuyStep
  <2>5. ~InTx'
    BY <2>2 DEF InTx
  <2>6. QED
    BY <2>1, <2>2, <2>4, <2>5, RequestKeeps
<1>3. ASSUME NEW o \in OrderIds, Lock(o) PROVE GoodStep
  <2>1. /\ UNCHANGED userVars /\ ~InTx /\ exact' = exact /\ LockOrder(o)
        /\ work' = [coin |-> coin, position |-> position]
    BY <1>3 DEF Lock, LockOrder
  <2>2. Inv' /\ LossStep
    BY <1>1, <2>1, LockStep
  <2>3. QED
    BY <2>1, <2>2, RequestKeeps
<1>4. QED
  BY <1>2, <1>3

\* What SELL orders do besides selling: x coins are locked, or unlocked.
LEMMA SellRequestStep ==
  ASSUME PositionsInv, ~InTx, NEW s \in SellIds, NEW ord \in Order,
         sells' = [sells EXCEPT ![s] = ord],
         UNCHANGED <<vars, position, work>>, NEW x \in Int,
         coin' = [available |-> coin.available - x, locked |-> coin.locked + x],
         coin' \in Account,
         (IF ord.status = "OPEN" THEN ord.left ELSE 0) = SellClaims[s] + x
  PROVE  GoodStep
<1>1. Inv' /\ LossStep
  BY StutterStep DEF PositionsInv
<1>2. /\ position' = position /\ exact' = exact /\ ~InTx'
      /\ coin.available \in Nat /\ coin.locked \in Nat /\ exact \in Int
  BY DEF vars, InTx, PositionsInv, Agree, Account, Inv, TypeOK
<1>3. /\ sells' \in [SellIds -> Order \cup {NoOrder}]
      /\ Total(SellClaims, SellIds) \in Nat
      /\ Total(SellClaims', SellIds)
           = Total(SellClaims, SellIds) - SellClaims[s]
               + (IF ord.status = "OPEN" THEN ord.left ELSE 0)
  BY SellUpdate DEF PositionsInv
<1>4. SellClaims[s] \in Nat /\ coin.locked = Total(SellClaims, SellIds)
  BY SellClaimsNat DEF PositionsInv
<1>5. coin'.available = coin.available - x /\ coin'.locked = coin.locked + x
  OBVIOUS
<1>6. coin'.locked = Total(SellClaims', SellIds)
  BY <1>2, <1>3, <1>4, <1>5
<1>7. Agree(coin', position')
  BY <1>2, <1>5 DEF PositionsInv, Agree
<1>8. PositionsInv'
  BY <1>1, <1>2, <1>3, <1>6, <1>7 DEF PositionsInv, Agree, CostNear
<1>9. ProfitStep
  BY <1>2, ApartStays DEF ProfitStep, PositionsInv
<1>10. QED
  BY <1>1, <1>8, <1>9 DEF GoodStep

\* Creating a SELL order locks its coins.
LEMMA CreateSellStep ==
  ASSUME PositionsInv, NEW s \in SellIds, NEW type \in {"LIMIT", "MARKET"}, NEW price \in Nat,
         NEW q \in Nat, CreateSell(s, type, price, q)
  PROVE  GoodStep
<1> DEFINE ord == NewOrder(type, price, q)
<1>1. /\ sells[s] = NoOrder /\ ~InTx /\ coin.available >= q
      /\ coin' = [available |-> coin.available - q, locked |-> coin.locked + q]
      /\ sells' = [sells EXCEPT ![s] = ord]
      /\ UNCHANGED <<vars, position, work>>
  BY DEF CreateSell
<1>2. ord \in Order /\ ord.status = "OPEN" /\ ord.left = q
  BY DEF NewOrder, Order
<1>3. SellClaims[s] = 0
  BY <1>1 DEF SellClaims, IsOpenSell, NoOrder
<1>4. coin' \in Account
  BY <1>1 DEF PositionsInv, Agree, Account
<1> HIDE DEF ord
<1>5. (IF ord.status = "OPEN" THEN ord.left ELSE 0) = SellClaims[s] + q
  BY <1>2, <1>3
<1>6. q \in Int
  OBVIOUS
<1>7. QED
  BY <1>1, <1>2, <1>4, <1>5, <1>6, SellRequestStep

\* Canceling one unlocks them.
LEMMA CancelSellStep ==
  ASSUME PositionsInv, NEW s \in SellIds, CancelSell(s)
  PROVE  GoodStep
<1> DEFINE ord == [sells[s] EXCEPT !.status = "CANCELED"]
           x == -sells[s].left
<1>1. /\ IsOpenSell(s) /\ ~InTx /\ coin.locked >= sells[s].left
      /\ coin' = [available |-> coin.available + sells[s].left,
                  locked |-> coin.locked - sells[s].left]
      /\ sells' = [sells EXCEPT ![s] = ord]
      /\ UNCHANGED <<vars, position, work>>
  BY DEF CancelSell
<1>2. SellClaims[s] = sells[s].left /\ sells[s] \in Order
  BY <1>1, SellClaimsNat DEF PositionsInv
<1>3. sells[s].left \in Nat /\ ord \in Order /\ ord.status = "CANCELED"
  BY <1>2 DEF Order
<1>4. coin.available \in Nat /\ coin.locked \in Nat
  BY DEF PositionsInv, Agree, Account
<1>5. x \in Int /\ coin.available + sells[s].left = coin.available - x
      /\ coin.locked - sells[s].left = coin.locked + x
  BY <1>3, <1>4
<1>6. coin' \in Account
  BY <1>1, <1>3, <1>4 DEF Account
<1> HIDE DEF ord
<1>7. (IF ord.status = "OPEN" THEN ord.left ELSE 0) = SellClaims[s] + x
  BY <1>2, <1>3
<1> HIDE DEF x
<1>8. coin' = [available |-> coin.available - x, locked |-> coin.locked + x]
  BY <1>1, <1>5
<1>9. QED
  BY <1>1, <1>3, <1>5, <1>6, <1>7, <1>8, SellRequestStep

\* A sale.
LEMMA SellFillStep ==
  ASSUME PositionsInv, NEW s \in SellIds, NEW p \in Prices, NEW size \in Quantities,
         SellFill(s, p, Lesser(sells[s].left, size))
  PROVE  GoodStep
<1> DEFINE q == Lesser(sells[s].left, size)
           ord == [sells[s] EXCEPT !.left = @ - q,
                                   !.status = IF q = sells[s].left THEN "FILLED" ELSE "OPEN"]
           coins == [coin EXCEPT !.locked = @ - q]
<1>1. /\ IsOpenSell(s) /\ ~InTx /\ CanSell(q)
      /\ coin' = coins
      /\ bal' = [bal EXCEPT !.available = Plus(@, p * q)]
      /\ position' = Sold(position, p, q)
      /\ sells' = [sells EXCEPT ![s].left = @ - q,
                            ![s].status = IF q = sells[s].left THEN "FILLED" ELSE "OPEN"]
      /\ exact' = exact + p * q
      /\ UNCHANGED <<orders, tx, work>>
  BY DEF SellFill
<1>2. /\ Inv /\ sells \in [SellIds -> Order \cup {NoOrder}] /\ Agree(coin, position)
      /\ coin.locked = Total(SellClaims, SellIds)
      /\ TypeOK /\ bal \in Account /\ exact \in Int
      /\ orders \in [OrderIds -> Order \cup {NoOrder}]
  BY DEF PositionsInv, Inv, TypeOK
<1>3. SellClaims[s] = sells[s].left /\ sells[s] \in Order /\ sells[s].left \in Nat
  BY <1>1, <1>2, SellClaimsNat DEF Order
<1>4. p \in Nat /\ size \in Nat /\ q \in Nat /\ q <= sells[s].left
  BY <1>3, RoundingAssumption DEF Lesser
<1> HIDE DEF q
<1>5. p * q \in Nat
  BY <1>4
<1>6. Inv' /\ LossStep
  <2>1. Moved(bal, bal', 0, p * q)
    BY <1>1, <1>2, <1>5, EarnMoves
  <2>2. orders' = orders /\ tx' = tx
    BY <1>1
  <2>3. Claims' = Claims
    BY <2>2 DEF Claims, ClaimOf, IsOpen
  <2>4. Total(Claims, OrderIds) \in Nat
    <3>1. \A o \in OrderIds : Claims[o] \in Nat
      BY <1>2, ClaimsNat DEF ClaimsTyped
    <3>2. QED
      BY <3>1, OrderIdsFinite, TokensFinite
  <2>5. Total(Claims', OrderIds) <= Total(Claims, OrderIds) - 0
    BY <2>3, <2>4
  <2>6. p * q \in Int /\ 0 \in Int
    BY <1>5
  <2>7. QED
    BY <1>1, <1>2, <2>1, <2>2, <2>5, <2>6, BalStep
<1>7. CanSell(q) => q <= coin.locked
  BY <1>2, <1>4 DEF CanSell, Agree, Account
<1>8. /\ Agree(coins, position')
      /\ Apart(position', exact') - Apart(position, exact)
           \in (1 - 2 * Scale)..(2 * Scale + position.avgPrice + position.qty)
  BY <1>1, <1>2, <1>4, <1>7, SoldAgrees
<1>9. ord \in Order /\ sells' = [sells EXCEPT ![s] = ord]
  <2>1. sells[s].left - q \in Nat
    BY <1>3, <1>4
  <2>2. ord \in Order
    BY <1>3, <2>1 DEF Order
  <2>3. sells' = [sells EXCEPT ![s] = ord]
    BY <1>1, <1>2
  <2>4. QED
    BY <2>2, <2>3
<1>10. (IF ord.status = "OPEN" THEN ord.left ELSE 0) = SellClaims[s] - q
  <2>1. ord.left = sells[s].left - q /\ ord.status = IF q = sells[s].left THEN "FILLED" ELSE "OPEN"
    BY <1>3 DEF Order
  <2> HIDE DEF ord
  <2>2. QED
    BY <1>3, <1>4, <2>1
<1> HIDE DEF ord
<1>11. /\ sells' \in [SellIds -> Order \cup {NoOrder}]
       /\ Total(SellClaims, SellIds) \in Nat
       /\ Total(SellClaims', SellIds) = Total(SellClaims, SellIds) - SellClaims[s]
                                          + (IF ord.status = "OPEN" THEN ord.left ELSE 0)
  BY <1>2, <1>9, SellUpdate
<1>12. coins.locked = coin.locked - q
  BY <1>2 DEF Agree, Account
<1>13. coin'.locked = Total(SellClaims', SellIds)
  BY <1>1, <1>2, <1>3, <1>4, <1>10, <1>11, <1>12
<1>14. ~InTx' /\ Agree(coin', position')
  BY <1>1, <1>8 DEF InTx
<1>15. PositionsInv'
  BY <1>6, <1>11, <1>13, <1>14 DEF PositionsInv, Agree, CostNear
<1>16. ProfitStep
  BY <1>1, <1>8 DEF ProfitStep
<1>17. QED
  BY <1>6, <1>15, <1>16 DEF GoodStep

\* Every step keeps the invariant, loses less than two units and moves profit
\* and cash apart by no more than the bounds.
LEMMA PositionsStep ==
  ASSUME PositionsInv, [PositionsNext]_allVars
  PROVE  GoodStep
<1>1. CASE UNCHANGED allVars
  <2>1. Inv' /\ LossStep
    BY <1>1, StutterStep DEF allVars, PositionsInv
  <2>2. /\ coin' = coin /\ position' = position /\ sells' = sells /\ work' = work
        /\ tx' = tx /\ exact' = exact /\ (InTx' <=> InTx)
    BY <1>1 DEF allVars, userVars, vars, InTx
  <2>3. SellClaims' = SellClaims
    BY <2>2 DEF SellClaims, IsOpenSell
  <2>4. PositionsInv'
    BY <2>1, <2>2, <2>3 DEF PositionsInv, Agree, CostNear
  <2>5. TypeOK /\ exact \in Int
    BY DEF PositionsInv, Inv, TypeOK
  <2>6. InTx => exact - tx.spent \in Int
    BY <2>5, TxAt DEF Tx
  <2>7. ProfitStep
    BY <2>2, <2>5, <2>6, ApartStays DEF ProfitStep, PositionsInv
  <2>8. QED
    BY <2>1, <2>4, <2>7 DEF GoodStep
<1>2. ASSUME NEW s \in SellIds, NEW p \in Prices, NEW q \in Quantities, CreateLimitSell(s, p, q)
      PROVE  GoodStep
  BY <1>2, CreateSellStep, RoundingAssumption DEF CreateLimitSell
<1>3. ASSUME NEW s \in SellIds, NEW q \in Quantities, CreateMarketSell(s, q)
      PROVE  GoodStep
  <2>1. 0 \in Nat /\ q \in Nat
    BY RoundingAssumption
  <2>2. QED
    BY <1>3, <2>1, CreateSellStep DEF CreateMarketSell
<1>4. ASSUME NEW s \in SellIds, NEW p \in Prices, NEW size \in Quantities,
             LimitSellFill(s, p, size) \/ MarketSellFill(s, p, size)
      PROVE  GoodStep
  BY <1>4, SellFillStep DEF LimitSellFill, MarketSellFill
<1>5. CASE PositionsNext
  BY <1>2, <1>3, <1>4, <1>5, BuyRequestStep, BuyFillStep, SettleBuyStep, RollBackStep, CancelSellStep
     DEF PositionsNext
<1>6. QED
  BY <1>1, <1>5

\* At first there is nothing to agree on.
LEMMA PositionsInitInv == PositionsInit => PositionsInv
<1> SUFFICES ASSUME PositionsInit PROVE PositionsInv
  OBVIOUS
<1>1. Inv /\ ~InTx
  BY InitInv DEF PositionsInit, Init, InTx, NoTx
<1>2. sells \in [SellIds -> Order \cup {NoOrder}]
  BY DEF PositionsInit
<1>3. \A s \in SellIds : SellClaims[s] = 0
  BY DEF PositionsInit, SellClaims, IsOpenSell, NoOrder
<1>4. Total(SellClaims, SellIds) = 0
  BY <1>3, TotalZero
<1>5. NoPosition \in Position /\ NoPosition = [NoPosition EXCEPT !.realizedPnl = NoPosition.realizedPnl]
  BY DEF NoPosition, Position
<1>6. CostNear(NoPosition)
  BY RoundingAssumption DEF CostNear, NoPosition
<1>7. Agree(coin, position) /\ coin.locked = 0
  BY <1>5, <1>6 DEF PositionsInit, Agree, Account, NoPosition
<1>8. QED
  BY <1>1, <1>2, <1>4, <1>7 DEF PositionsInv

\* The invariant holds in every state.
LEMMA PositionsInvHolds == PositionsSpec => []PositionsInv
<1>1. PositionsInv /\ [PositionsNext]_allVars => PositionsInv'
  BY PositionsStep DEF GoodStep
<1>2. QED
  BY <1>1, PositionsInitInv, PTL DEF PositionsSpec

\* Rounding never mints money, whatever is bought, sold and canceled.
THEOREM NeverMintedHolds == PositionsSpec => []NeverMinted
<1>1. PositionsInv => NeverMinted
  BY DEF PositionsInv, Inv
<1>2. QED
  BY <1>1, PositionsInvHolds, PTL

\* No update of the KRW loses two units to rounding.
THEOREM LossBoundedHolds == PositionsSpec => LossBounded
<1>1. PositionsInv /\ [PositionsNext]_allVars => LossStep
  BY PositionsStep DEF GoodStep
<1>2. QED
  BY <1>1, PositionsInvHolds, PTL DEF PositionsSpec, LossBounded, LossStep

\* A sale or a fill moves profit and cash apart by no more than its roundings.
THEOREM ProfitIsCashHolds == PositionsSpec => ProfitIsCash
<1>1. PositionsInv /\ [PositionsNext]_allVars => ProfitStep
  BY PositionsStep DEF GoodStep
<1>2. QED
  BY <1>1, PositionsInvHolds, PTL DEF PositionsSpec, ProfitIsCash, ProfitStep

\* While nothing was lost, what is locked covers what the OPEN orders claim, so
\* each of them can be canceled, and settled at whatever prices.
THEOREM ExceptionsNeedLossHolds == PositionsSpec => []ExceptionsNeedLoss
<1>1. PositionsInv => ExceptionsNeedLoss
  <2> SUFFICES ASSUME Inv, Lossless PROVE OpenOrdersCancellable /\ SettlementNeverThrows
    BY DEF PositionsInv, ExceptionsNeedLoss
  <2>1. TypeOK /\ bal \in Account
    BY DEF Inv, TypeOK
  <2>2. Lost(bal, exact) = 0 /\ (InTx => Lost(tx.bal, exact - tx.spent) = 0)
    BY DEF Lossless
  <2>3. \A o \in OrderIds : Claims[o] \in Nat /\ Claims[o] = ClaimOf(o)
    BY <2>1, ClaimsNat DEF ClaimsTyped
  <2>4. OpenOrdersCancellable
    <3> SUFFICES ASSUME NEW o \in OrderIds, IsOpen(o)
                 PROVE  Covers(bal.locked, ReleaseAmount(orders[o]))
      BY DEF OpenOrdersCancellable
    <3>1. Claims[o] <= Total(Claims, OrderIds)
      BY <2>3, OrderIdsFinite, TotalBounds
    <3>2. Total(Claims, OrderIds) \in Nat
      BY <2>3, OrderIdsFinite, TokensFinite
    <3>3. Claims[o] = ReleaseAmount(orders[o]) /\ Claims[o] \in Nat
      BY <2>3 DEF ClaimOf
    <3>4. bal.locked * Scale \in Nat
      BY <2>1, WorthOf DEF Account
    <3>5. Total(Claims, OrderIds) <= bal.locked * Scale + 0
      BY <2>2 DEF Inv, Met
    <3>6. QED
      BY <3>1, <3>2, <3>3, <3>4, <3>5 DEF Covers
  <2>5. SettlementNeverThrows
    <3> SUFFICES ASSUME NEW p \in Prices, NEW size \in Quantities, InTx,
                        Takes(tx, orders[tx.order], p)
                 PROVE  Covers(tx.bal.locked, UnlockedAt(tx, orders[tx.order], p, size))
      BY DEF SettlementNeverThrows
    <3>1. IsOpen(tx.order) /\ Met(tx.bal, exact - tx.spent, TxClaims)
      BY DEF Inv
    <3>2. tx \in Tx /\ tx.order \in OrderIds /\ tx.bal \in Account
      BY <2>1, TxAt DEF Tx
    <3>3. orders[tx.order] \in Order
      BY <2>1, <3>1, <3>2, OpenAt
    <3>4. \A o \in OrderIds : TxClaims[o] \in Nat
      BY <2>1, <3>1, TxClaimsNat
    <3>5. TxClaims[tx.order] = Claim(orders[tx.order], tx.left)
      BY <2>1, <3>1, <3>2, TxClaimsNat
    <3>6. TxClaims[tx.order] <= Total(TxClaims, OrderIds) /\ Total(TxClaims, OrderIds) \in Nat
      BY <3>2, <3>4, OrderIdsFinite, TotalBounds, TokensFinite
    <3> DEFINE x == UnlockedAt(tx, orders[tx.order], p, size)
               l == LeftAfter(tx, orders[tx.order], p, size)
    <3>7. /\ x \in Nat /\ Claim(orders[tx.order], tx.left) \in Nat
          /\ Claim(orders[tx.order], l) \in Nat
          /\ Claim(orders[tx.order], l) = Claim(orders[tx.order], tx.left) - x
      BY <3>2, <3>3, FillAmounts
    <3> HIDE DEF x, l
    <3>8. tx.bal.locked * Scale \in Nat
      BY <3>2, WorthOf DEF Account
    <3>9. Total(TxClaims, OrderIds) <= tx.bal.locked * Scale + 0
      BY <2>2, <3>1 DEF Met
    <3>10. tx.bal.locked * Scale >= x
      BY <3>5, <3>6, <3>7, <3>8, <3>9
    <3>11. QED
      BY <3>10 DEF Covers, x
  <2>6. QED
    BY <2>4, <2>5
<1>2. QED
  BY <1>1, PositionsInvHolds, PTL

\* Coins and position agree, and every OPEN SELL order can be sold.
THEOREM CoinsAndPositionAgreeHolds == PositionsSpec => []CoinsAndPositionAgree
<1>1. PositionsInv => CoinsAndPositionAgree
  <2> SUFFICES ASSUME PositionsInv PROVE CoinsAndPositionAgree
    OBVIOUS
  <2>1. /\ coin.available \in Nat /\ coin.locked \in Nat
        /\ coin.available + coin.locked = position.qty
        /\ position.qty = 0 => position = [NoPosition EXCEPT !.realizedPnl = position.realizedPnl]
        /\ coin.locked = Total(SellClaims, SellIds)
    BY DEF PositionsInv, Agree, Account
  <2>2. coin.locked = ReservedCoins
    BY <2>1 DEF ReservedCoins, SellClaims
  <2>3. ASSUME NEW s \in SellIds, IsOpenSell(s) PROVE CanSell(sells[s].left)
    <3>1. /\ \A u \in SellIds : SellClaims[u] \in Nat
          /\ SellClaims[s] = sells[s].left
      BY <2>3, SellClaimsNat DEF PositionsInv
    <3>2. SellClaims[s] <= Total(SellClaims, SellIds)
      BY <3>1, SellIdsFinite, TotalBounds
    <3>3. sells[s].left \in Nat
      BY <3>1
    <3>4. coin.locked >= sells[s].left /\ position.qty >= sells[s].left
      BY <2>1, <3>1, <3>2, <3>3
    <3>5. QED
      BY <3>4 DEF CanSell
  <2>4. QED
    BY <2>1, <2>2, <2>3 DEF CoinsAndPositionAgree
<1>2. QED
  BY <1>1, PositionsInvHolds, PTL
=============================================================================
