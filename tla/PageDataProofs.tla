--------------------------- MODULE PageDataProofs ---------------------------
(***************************************************************************)
(* Proofs about what a page reads and keeps up to date: its user's orders  *)
(* and balances, whatever order their events come in, its positions, and   *)
(* its chart; for any number of orders, commits, reads, candles and        *)
(* visits.                                                                 *)
(***************************************************************************)
EXTENDS PageData, FiniteSetTheorems, WellFoundedInduction, TLAPS

USE TradingViewAssumption

-----------------------------------------------------------------------------
(* Orders and balances: the invariant                                       *)

\* What the properties below need of the types.
PageState == [phase : {"off", "connecting", "live"}, loading : BOOLEAN,
              todo : SUBSET {"orders", "balances"}, reads : 0..MaxReads,
              orders : [Orders -> Order \cup {NoOrder}], cash : [Currencies -> Revs]]

\* A record with the fields of OrdersStore.
IsStore(s) == s = [byId |-> s.byId, pendingIds |-> s.pendingIds, completedIds |-> s.completedIds,
                   shown |-> s.shown, dirty |-> s.dirty]

StoreTyped ==
  /\ IsStore(orders)
  /\ orders.byId \in [Orders -> Order \cup {NoOrder}]
  /\ cash \in [Currencies -> Revs]
  /\ fills \in [Orders -> [seen : SUBSET (1..Slices), count : Nat]]

ViewTyped ==
  /\ clock \in Revs /\ deposit \in Revs
  /\ db \in [Orders -> Order \cup {NoOrder}]
  /\ bal \in [Currencies -> Revs]
  /\ unsent \subseteq Event
  /\ page \in PageState
  /\ StoreTyped
  /\ told \in [Items -> Revs] /\ doubt \subseteq Items

\* A state of an order is not newer than the table's, and as new only if it is
\* the same.
Genuine(state, row) == state.rev <= row.rev /\ (state.rev = row.rev => state = row)

\* What the server's rows, its clock and the events not yet sent have to do
\* with each other.
ServerSound ==
  /\ \A o \in Orders : db[o].rev <= clock
                       /\ (db[o].status = "OPEN" => db[o].filled < Slices)
  /\ \A c \in Currencies : bal[c] <= clock
  /\ \A i \in Items : told[i] <= clock
  /\ deposit # 0 => deposit = clock /\ told[KRW] = clock
  /\ \A e \in unsent :
       /\ e.order \in Orders /\ e.state.rev = e.rev
       /\ Genuine(e.state, db[e.order]) /\ e.fill <= db[e.order].filled
       /\ \A c \in e.changed : e.rev <= bal[c]

\* The newest state of everything has been told, or is going to be.
NewestTold ==
  /\ \A o \in Orders : \/ db[o].rev <= told[o]
                       \/ \E e \in unsent : e.order = o /\ e.rev = db[o].rev
  /\ \A c \in Currencies : \/ bal[c] <= told[c]
                           \/ \E e \in unsent : c \in e.changed /\ e.rev = bal[c]

\* What the page has read is genuine, and so are its stores, of balances those
\* not in doubt; what is not in doubt is as new as what was told of it.
PageSound ==
  /\ \A o \in Orders : Genuine(page.orders[o], db[o]) /\ Genuine(orders.byId[o], db[o])
  /\ \A c \in Currencies : page.cash[c] <= bal[c]
  /\ \A c \in Currencies \ doubt :
       cash[c] <= bal[c] \/ (c = KRW /\ deposit # 0 /\ cash[c] = deposit)
  /\ page.phase # "off" =>
       /\ \A o \in Orders \ doubt : told[o] <= orders.byId[o].rev
       /\ \A c \in Currencies \ doubt : cash[c] = 0 \/ told[c] <= cash[c]

\* Fills that are read or told are committed ones.
FillsSound ==
  /\ FillsCountedOnce
  /\ \A o \in Orders : page.orders[o].filled <= db[o].filled

ViewSound == ViewTyped /\ ServerSound /\ NewestTold /\ PageSound /\ FillsSound

-----------------------------------------------------------------------------
(* Orders and balances: what the steps do                                   *)

LEMMA Apartness ==
  /\ Orders \cap Currencies = {} /\ 0 \notin Orders
  /\ \A o \in Orders : CoinOf(o) \in Currencies
  /\ KRW \in Currencies
BY DEF Currencies, KRW, Coin, OtherCoin, CoinOf

LEMMA OrderTypes ==
  /\ NoOrder \in Order \cup {NoOrder}
  /\ \A s \in Order \cup {NoOrder} : s.rev \in Revs /\ s.filled \in 0..Slices
  /\ \A s \in Order \cup {NoOrder} : s.rev = 0 <=> s = NoOrder
BY DEF Order, NoOrder, Revs

\* The numbers that are compared below.
Numbers ==
  /\ clock \in Nat /\ deposit \in Nat
  /\ \A o \in Orders : /\ db[o].rev \in Nat /\ db[o].filled \in Nat /\ db[o].filled <= Slices
                       /\ orders.byId[o].rev \in Nat
                       /\ page.orders[o].rev \in Nat /\ page.orders[o].filled \in Nat
                       /\ o \in Items
  /\ \A c \in Currencies : bal[c] \in Nat /\ cash[c] \in Nat /\ page.cash[c] \in Nat /\ c \in Items
  /\ \A i \in Items : told[i] \in Nat

LEMMA NumbersTyped == ViewTyped => Numbers
<1> SUFFICES ASSUME ViewTyped PROVE Numbers
  OBVIOUS
<1>1. ASSUME NEW o \in Orders
      PROVE  /\ db[o].rev \in Nat /\ db[o].filled \in Nat /\ db[o].filled <= Slices
             /\ orders.byId[o].rev \in Nat
             /\ page.orders[o].rev \in Nat /\ page.orders[o].filled \in Nat
             /\ o \in Items
  <2>1. /\ db[o] \in Order \cup {NoOrder} /\ orders.byId[o] \in Order \cup {NoOrder}
        /\ page.orders[o] \in Order \cup {NoOrder}
    BY DEF ViewTyped, StoreTyped, PageState
  <2>2. QED
    BY <2>1, OrderTypes DEF Revs, Items
<1>2. \A c \in Currencies : bal[c] \in Nat /\ cash[c] \in Nat /\ page.cash[c] \in Nat /\ c \in Items
  BY DEF ViewTyped, StoreTyped, PageState, Revs, Items
<1>3. clock \in Nat /\ deposit \in Nat /\ \A i \in Items : told[i] \in Nat
  BY DEF ViewTyped, Revs
<1>4. QED
  BY <1>1, <1>2, <1>3 DEF Numbers

\* The records whose fields are in these sets.
Stores(A, B, C, D, E) == [byId : A, pendingIds : B, completedIds : C, shown : D, dirty : E]

LEMMA StoreFields ==
  ASSUME NEW A, NEW B, NEW C, NEW D, NEW E, NEW s \in Stores(A, B, C, D, E)
  PROVE  IsStore(s)
BY DEF IsStore, Stores

\* The ways the store changes.
WithOpen(r, o, state, x, y) ==
  [r EXCEPT !.byId[o] = state, !.pendingIds = x, !.completedIds = y]

WithClosed(r, o, state, x, y) ==
  [r EXCEPT !.byId[o] = state, !.completedIds = y, !.pendingIds = x]

WithShown(r, x, y) == [r EXCEPT !.dirty = x, !.shown = y]

LEMMA StoreWithOpen ==
  ASSUME NEW r, IsStore(r), NEW o, NEW state, NEW x, NEW y
  PROVE  /\ IsStore(WithOpen(r, o, state, x, y))
         /\ WithOpen(r, o, state, x, y).byId = [r.byId EXCEPT ![o] = state]
<1> DEFINE ids == [r.byId EXCEPT ![o] = state]
           s   == WithOpen(r, o, state, x, y)
           all == Stores({r.byId, ids}, {r.pendingIds, x}, {r.completedIds, y}, {r.shown}, {r.dirty})
<1>1. r \in all
  BY DEF IsStore, Stores
<1>2. s.byId = ids /\ s \in all
  BY <1>1 DEF WithOpen, Stores
<1>3. IsStore(s)
  <2> HIDE DEF s, ids
  <2> QED
    BY <1>2, StoreFields
<1>4. QED
  BY <1>2, <1>3

LEMMA StoreWithClosed ==
  ASSUME NEW r, IsStore(r), NEW o, NEW state, NEW x, NEW y
  PROVE  /\ IsStore(WithClosed(r, o, state, x, y))
         /\ WithClosed(r, o, state, x, y).byId = [r.byId EXCEPT ![o] = state]
<1> DEFINE ids == [r.byId EXCEPT ![o] = state]
           s   == WithClosed(r, o, state, x, y)
           all == Stores({r.byId, ids}, {r.pendingIds, x}, {r.completedIds, y}, {r.shown}, {r.dirty})
<1>1. r \in all
  BY DEF IsStore, Stores
<1>2. s.byId = ids /\ s \in all
  BY <1>1 DEF WithClosed, Stores
<1>3. IsStore(s)
  <2> HIDE DEF s, ids
  <2> QED
    BY <1>2, StoreFields
<1>4. QED
  BY <1>2, <1>3

LEMMA StoreWithShown ==
  ASSUME NEW r, IsStore(r), NEW x, NEW y
  PROVE  IsStore(WithShown(r, x, y)) /\ WithShown(r, x, y).byId = r.byId
<1> DEFINE s == WithShown(r, x, y)
           all == Stores({r.byId}, {r.pendingIds}, {r.completedIds}, {r.shown, y}, {r.dirty, x})
<1>1. r \in all
  BY DEF IsStore, Stores
<1>2. s.byId = r.byId /\ s \in all
  BY <1>1 DEF WithShown, Stores
<1>3. IsStore(s)
  <2> HIDE DEF s
  <2> QED
    BY <1>2, StoreFields
<1>4. QED
  BY <1>2, <1>3

LEMMA MarkedStore ==
  ASSUME NEW s, IsStore(s), NEW changed
  PROVE  IsStore(Marked(s, changed)) /\ Marked(s, changed).byId = s.byId
<1> DEFINE t == WithShown(s, TRUE, <<>>)
<1>1. IsStore(t) /\ t.byId = s.byId
  BY StoreWithShown
<1>2. Marked(s, changed) = s \/ Marked(s, changed) = t
  BY Zenon DEF Marked, WithShown
<1> HIDE DEF t
<1>3. QED
  BY <1>1, <1>2

LEMMA UpsertedStore ==
  ASSUME StoreTyped, NEW o \in Orders, NEW state \in Order \cup {NoOrder}
  PROVE  LET s == Upserted(orders, o, state)
         IN IsStore(s) /\ s.byId = [orders.byId EXCEPT ![o] = state]
<1> DEFINE pend == Inserted(orders.pendingIds, o)
           comp == Inserted(orders.completedIds, o)
           outp == Without(orders.pendingIds, o)
           outc == Without(orders.completedIds, o)
           wasPending == o \in Listed(orders.pendingIds)
           wasCompleted == o \in Listed(orders.completedIds)
           s1 == WithOpen(orders, o, state, pend, outc)
           s2 == WithClosed(orders, o, state, outp, comp)
<1>1. Upserted(orders, o, state) = IF state.status = "OPEN"
                                   THEN Marked(s1, ~wasPending \/ wasCompleted)
                                   ELSE Marked(s2, wasPending \/ ~wasCompleted)
  BY Zenon DEF Upserted, WithOpen, WithClosed
<1>2. IsStore(orders)
  BY DEF StoreTyped
<1> HIDE DEF pend, comp, outp, outc, wasPending, wasCompleted
<1>3. IsStore(s1) /\ s1.byId = [orders.byId EXCEPT ![o] = state]
  BY <1>2, StoreWithOpen
<1>4. IsStore(s2) /\ s2.byId = [orders.byId EXCEPT ![o] = state]
  BY <1>2, StoreWithClosed
<1> HIDE DEF s1, s2
<1>5. QED
  BY <1>1, <1>3, <1>4, MarkedStore

\* What a page that listens makes of an event.
Heard(e) ==
  /\ \A o \in Orders : (orders.byId)'[o] = IF o = e.order THEN e.state ELSE orders.byId[o]
  /\ \A c \in Currencies : cash'[c] = IF c \in e.changed /\ cash[c] # 0 THEN e.rev ELSE cash[c]
  /\ \A i \in Items \ doubt' :
       IF i \in About(e) THEN told'[i] = e.rev ELSE i \notin doubt /\ told'[i] = told[i]
  /\ fills' = IF e.fill = 0 THEN fills ELSE [fills EXCEPT ![e.order] = Counted(@, {e.fill})]

\* What is told of each item.
ToldBy(e) ==
  \A i \in Items : /\ told'[i] \in Nat /\ told[i] <= told'[i]
                   /\ told'[i] = told[i] \/ (i \in About(e) /\ told'[i] = e.rev)
                   /\ i \in About(e) => e.rev <= told'[i]

\* What becomes of one that does not.
Missed ==
  /\ orders' = orders /\ cash' = cash /\ fills' = fills
  /\ \A i \in Items \ doubt' : i \notin doubt /\ (told'[i] = told[i] \/ told'[i] <= Held(i))

LEMMA PublishEffect ==
  ASSUME ViewTyped, NEW e \in Event, e.fill # 0 => e.order # 0, Publish(e)
  PROVE  /\ StoreTyped' /\ told' \in [Items -> Revs] /\ doubt' \subseteq Items
         /\ ToldBy(e)
         /\ page.phase = "live" => Heard(e)
         /\ page.phase # "live" => Missed
<1>1. /\ e.order \in Orders \cup {0} /\ e.state \in Order \cup {NoOrder} /\ e.fill \in 0..Slices
      /\ e.rev \in Revs /\ e.changed \subseteq Currencies
  BY DEF Event
<1>2. About(e) \subseteq Items
  BY <1>1 DEF About, Items
<1>3. /\ told' = [i \in Items |-> IF i \in About(e) /\ e.rev > told[i] THEN e.rev ELSE told[i]]
      /\ \A i \in Items : told[i] \in Revs
      /\ told' \in [Items -> Revs]
      /\ ToldBy(e)
  <2>1. told' = [i \in Items |-> IF i \in About(e) /\ e.rev > told[i] THEN e.rev ELSE told[i]]
    BY DEF Publish
  <2>2. \A i \in Items : told[i] \in Revs
    BY DEF ViewTyped
  <2>3. ASSUME NEW i \in Items
        PROVE  /\ told'[i] \in Nat /\ told[i] <= told'[i]
               /\ told'[i] = told[i] \/ (i \in About(e) /\ told'[i] = e.rev)
               /\ i \in About(e) => e.rev <= told'[i]
    <3>1. told[i] \in Nat /\ e.rev \in Nat
      BY <1>1, <2>2 DEF Revs
    <3>2. CASE i \in About(e) /\ e.rev > told[i]
      <4>1. told'[i] = e.rev
        BY <2>1, <3>2
      <4>2. QED
        BY <3>1, <3>2, <4>1
    <3>3. CASE ~(i \in About(e) /\ e.rev > told[i])
      <4>1. told'[i] = told[i]
        BY <2>1, <3>3
      <4>2. QED
        BY <3>1, <3>3, <4>1
    <3>4. QED
      BY <3>2, <3>3
  <2>4. told' \in [Items -> Revs]
    BY <1>1, <2>1, <2>2
  <2>5. QED
    BY <2>1, <2>2, <2>3, <2>4 DEF ToldBy
<1>4. CASE page.phase = "live"
  <2>1. /\ Apply(e) /\ doubt' = (doubt \ About(e)) \cup {i \in About(e) : e.rev < told[i]}
    BY <1>4 DEF Publish
  <2>2. doubt' \subseteq Items
    BY <1>2, <2>1 DEF ViewTyped
  <2>3. /\ IsStore(orders')
        /\ orders'.byId \in [Orders -> Order \cup {NoOrder}]
        /\ \A o \in Orders : orders'.byId[o] = IF o = e.order THEN e.state ELSE orders.byId[o]
    <3>1. CASE e.order = 0
      BY <2>1, <3>1, Apartness DEF Apply, ViewTyped, StoreTyped
    <3>2. CASE e.order # 0
      <4>1. orders' = Upserted(orders, e.order, e.state)
        BY <2>1, <3>2 DEF Apply
      <4>2. StoreTyped /\ e.order \in Orders
        BY <1>1, <3>2 DEF ViewTyped
      <4>3. orders'.byId = [orders.byId EXCEPT ![e.order] = e.state] /\ IsStore(orders')
        BY <1>1, <4>1, <4>2, UpsertedStore
      <4>4. QED
        BY <1>1, <4>2, <4>3 DEF StoreTyped
    <3>3. QED
      BY <3>1, <3>2
  <2>4. /\ cash' \in [Currencies -> Revs]
        /\ \A c \in Currencies :
             cash'[c] = IF c \in e.changed /\ cash[c] # 0 THEN e.rev ELSE cash[c]
    BY <1>1, <2>1 DEF Apply, CashAfter, ViewTyped, StoreTyped
  <2>5. /\ fills' = IF e.fill = 0 THEN fills
                    ELSE [fills EXCEPT ![e.order] = Counted(@, {e.fill})]
        /\ fills' \in [Orders -> [seen : SUBSET (1..Slices), count : Nat]]
    <3>1. fills' = IF e.fill = 0 THEN fills
                   ELSE [fills EXCEPT ![e.order] = Counted(@, {e.fill})]
      BY <2>1 DEF Apply
    <3>2. fills \in [Orders -> [seen : SUBSET (1..Slices), count : Nat]]
      BY DEF ViewTyped, StoreTyped
    <3>3. CASE e.fill = 0
      BY <3>1, <3>2, <3>3
    <3>4. CASE e.fill # 0
      <4>1. e.fill \in 1..Slices /\ e.order \in Orders
        BY <1>1, <3>4
      <4>2. DEFINE f == fills[e.order]
      <4>3. f \in [seen : SUBSET (1..Slices), count : Nat]
        BY <3>2, <4>1
      <4>4. Cardinality({e.fill} \ f.seen) \in Nat
        BY FS_Singleton, FS_Difference, FS_CardinalityType
      <4>5. Counted(f, {e.fill}) \in [seen : SUBSET (1..Slices), count : Nat]
        BY <4>1, <4>3, <4>4 DEF Counted
      <4>6. QED
        BY <3>1, <3>2, <3>4, <4>1, <4>5
    <3>5. QED
      BY <3>1, <3>3, <3>4
  <2>6. \A i \in Items \ doubt' :
          IF i \in About(e) THEN told'[i] = e.rev ELSE i \notin doubt /\ told'[i] = told[i]
    BY <1>1, <1>2, <1>3, <2>1 DEF Revs
  <2>7. QED
    BY <1>3, <1>4, <2>2, <2>3, <2>4, <2>5, <2>6 DEF StoreTyped, IsStore, Heard
<1>5. CASE page.phase # "live"
  <2>1. /\ doubt' = doubt \cup {i \in About(e) : e.rev > Held(i)}
        /\ orders' = orders /\ cash' = cash /\ fills' = fills
    BY <1>5 DEF Publish, store
  <2>2. StoreTyped' /\ doubt' \subseteq Items
    BY <1>2, <2>1 DEF ViewTyped, StoreTyped, IsStore
  <2>3. ASSUME NEW i \in Items, i \notin doubt'
        PROVE  i \notin doubt /\ (told'[i] = told[i] \/ told'[i] <= Held(i))
    <3>1. Held(i) \in Nat
      <4>1. CASE i \in Orders
        <5>1. orders.byId[i].rev \in Nat
          BY <4>1, NumbersTyped DEF Numbers
        <5>2. QED
          BY <4>1, <5>1 DEF Held
      <4>2. CASE i \in Currencies
        <5>1. cash[i] \in Nat /\ i \notin Orders
          BY <4>2, NumbersTyped, Apartness DEF Numbers
        <5>2. QED
          BY <5>1 DEF Held
      <4>3. QED
        BY <4>1, <4>2 DEF Items
    <3>2. QED
      BY <1>1, <1>3, <2>1, <2>3, <3>1 DEF Revs
  <2>4. QED
    BY <1>3, <1>5, <2>1, <2>2, <2>3 DEF Missed
<1>6. QED
  BY <1>4, <1>5

\* Counting some of the n fills made keeps the count.
Right(f, n) == f.count = Cardinality(f.seen) /\ f.seen \subseteq 1..n

LEMMA CountedOnce1 ==
  ASSUME NEW n \in Nat, NEW new \in SUBSET (1..n), NEW f, Right(f, n)
  PROVE  Right(Counted(f, new), n) /\ Counted(f, new).count \in Nat
<1>0. f.count = Cardinality(f.seen) /\ f.seen \subseteq 1..n
  BY DEF Right
<1>1. IsFiniteSet(1..n)
  <2>1. n \in Int /\ 1 \in Int
    OBVIOUS
  <2>2. QED
    BY <2>1, FS_Interval
<1>2. IsFiniteSet(new) /\ IsFiniteSet(f.seen)
  BY <1>0, <1>1, FS_Subset
<1>3. IsFiniteSet(new \ f.seen) /\ IsFiniteSet(f.seen \cup (new \ f.seen))
  BY <1>2, FS_Difference, FS_Union
<1>4. Cardinality(f.seen \cup (new \ f.seen))
      = Cardinality(f.seen) + Cardinality(new \ f.seen) - Cardinality(f.seen \cap (new \ f.seen))
  BY <1>2, <1>3, FS_Union
<1>5. f.seen \cap (new \ f.seen) = {} /\ f.seen \cup (new \ f.seen) = f.seen \cup new
  OBVIOUS
<1>6. Cardinality(f.seen) \in Nat /\ Cardinality(new \ f.seen) \in Nat
  BY <1>2, <1>3, FS_CardinalityType
<1>7. Cardinality(f.seen \cup new) = Cardinality(f.seen) + Cardinality(new \ f.seen)
  <2>1. Cardinality(f.seen \cap (new \ f.seen)) = 0
    BY <1>5, FS_EmptySet
  <2>2. Cardinality(f.seen \cup (new \ f.seen)) = Cardinality(f.seen \cup new)
    BY <1>5
  <2> DEFINE a == Cardinality(f.seen)
             b == Cardinality(new \ f.seen)
             c == Cardinality(f.seen \cap (new \ f.seen))
             u == Cardinality(f.seen \cup (new \ f.seen))
  <2>3. u = a + b - c /\ c = 0 /\ a \in Nat /\ b \in Nat
    BY <1>4, <1>6, <2>1
  <2>4. u = a + b
    <3> HIDE DEF a, b, c, u
    <3> QED
      BY <2>3
  <2>5. QED
    BY <2>2, <2>4
<1>8. Counted(f, new) = [seen |-> f.seen \cup new, count |-> f.count + Cardinality(new \ f.seen)]
  BY DEF Counted
<1>9. /\ Counted(f, new).seen = f.seen \cup new
      /\ Counted(f, new).count = f.count + Cardinality(new \ f.seen)
  BY <1>8
<1>10. Counted(f, new).count = Cardinality(Counted(f, new).seen)
  BY <1>0, <1>7, <1>9, Zenon
<1>11. Counted(f, new).seen \subseteq 1..n
  BY <1>0, <1>9
<1>12. Counted(f, new).count \in Nat
  <2> DEFINE a == f.count
             b == Cardinality(new \ f.seen)
  <2>1. a \in Nat /\ b \in Nat /\ Counted(f, new).count = a + b
    BY <1>0, <1>6, <1>9, Zenon
  <2> HIDE DEF a, b
  <2>2. QED
    BY <2>1
<1>13. QED
  BY <1>10, <1>11, <1>12 DEF Right

-----------------------------------------------------------------------------
(* Orders and balances: the invariant is preserved                          *)

LEMMA InitView == Init => ViewSound
<1> SUFFICES ASSUME Init PROVE ViewSound
  OBVIOUS
<1>1. ViewTyped
  <2>1. NoOrders \in [Orders -> Order \cup {NoOrder}] /\ NoCash \in [Currencies -> Revs]
    BY DEF NoOrders, NoCash, Revs
  <2>2. page \in PageState
    BY <2>1 DEF Init, PageState
  <2>3. NoFills \in [Orders -> [seen : SUBSET (1..Slices), count : Nat]]
    <3>1. [seen |-> {}, count |-> 0] \in [seen : SUBSET (1..Slices), count : Nat]
      OBVIOUS
    <3>2. QED
      BY <3>1, Zenon DEF NoFills
  <2>4. StoreTyped
    <3>1. IsStore(orders) /\ orders.byId = NoOrders
      BY DEF Init, IsStore
    <3>2. QED
      BY <2>1, <2>3, <3>1 DEF Init, StoreTyped
  <2>5. bal \in [Currencies -> Revs] /\ told \in [Items -> Revs]
    <3>1. 0 \in Revs /\ 1 \in Revs
      BY DEF Revs
    <3>2. QED
      BY <2>1, <3>1 DEF Init
  <2>6. QED
    BY <2>1, <2>2, <2>4, <2>5 DEF Init, ViewTyped, Revs
<1>2. \A o \in Orders : db[o] = NoOrder /\ page.orders[o] = NoOrder /\ orders.byId[o] = NoOrder
                        /\ told[o] = 0
  BY Apartness DEF Init, NoOrders, Items
<1>3. \A c \in Currencies : /\ bal[c] = (IF c = KRW THEN 1 ELSE 0) /\ told[c] = bal[c]
                            /\ page.cash[c] = 0 /\ cash[c] = 0
  BY DEF Init, NoCash, Items
<1>4. ServerSound
  BY <1>2, <1>3 DEF Init, ServerSound, NoOrder, Items
<1>5. NewestTold
  BY <1>2, <1>3 DEF NewestTold, NoOrder
<1>6. PageSound
  <2>1. page.phase = "off"
    BY DEF Init
  <2>2. \A o \in Orders : Genuine(page.orders[o], db[o]) /\ Genuine(orders.byId[o], db[o])
    BY <1>2 DEF Genuine, NoOrder
  <2>3. \A c \in Currencies : page.cash[c] <= bal[c] /\ cash[c] <= bal[c]
    BY <1>3
  <2>4. QED
    BY <2>1, <2>2, <2>3 DEF PageSound
<1>7. FillsSound
  <2>1. \A o \in Orders : fills[o].seen = {} /\ fills[o].count = 0
    BY DEF Init, NoFills
  <2>2. \A o \in Orders : page.orders[o].filled <= db[o].filled
    BY <1>2 DEF NoOrder
  <2>3. QED
    BY <2>1, <2>2, FS_EmptySet DEF FillsSound, FillsCountedOnce
<1>8. QED
  BY <1>1, <1>4, <1>5, <1>6, <1>7 DEF ViewSound

\* A commit: everything it writes carries a number greater than all before.
LEMMA CommitView ==
  ASSUME ViewSound, NEW o \in Orders, NEW count \in 0..Slices,
         NEW status \in {"OPEN", "FILLED", "CANCELED"}, NEW fill \in 0..count,
         NEW changed \in SUBSET Currencies, Commit(o, count, status, fill, changed),
         db[o].filled <= count, status = "OPEN" => count < Slices
  PROVE  ViewSound'
<1> DEFINE state == [rev |-> clock + 1, filled |-> count, status |-> status]
           event == [order |-> o, state |-> state, fill |-> fill, rev |-> clock + 1,
                     changed |-> changed]
<1>1. /\ clock < MaxCommits /\ deposit = 0 /\ clock' = clock + 1
      /\ db' = [db EXCEPT ![o] = state]
      /\ bal' = [c \in Currencies |-> IF c \in changed THEN clock + 1 ELSE bal[c]]
      /\ unsent' = unsent \cup {event}
      /\ UNCHANGED <<deposit, page, store, history>>
  BY DEF Commit
<1>2. clock \in Nat /\ clock + 1 \in 1..MaxCommits /\ clock + 1 \in Revs
  BY <1>1 DEF ViewSound, ViewTyped, Revs
<1>3. state \in Order /\ fill \in 0..Slices
  BY <1>2 DEF Order
<1>4. event \in Event
  BY <1>2, <1>3 DEF Event
<1>5. /\ event.order = o /\ event.state = state /\ event.fill = fill /\ event.rev = clock + 1
      /\ event.changed = changed /\ state.rev = clock + 1 /\ state.filled = count
      /\ state.status = status
  OBVIOUS
<1>6. /\ \A p \in Orders : db'[p] = IF p = o THEN state ELSE db[p]
      /\ \A c \in Currencies : bal'[c] = IF c \in changed THEN clock + 1 ELSE bal[c]
  BY <1>1 DEF ViewSound, ViewTyped
<1> HIDE DEF state, event
<1>7. ViewTyped'
  BY <1>1, <1>2, <1>3, <1>4 DEF ViewSound, ViewTyped, StoreTyped, store, history
<1> Numbers /\ Numbers'
  BY <1>7, NumbersTyped, PTL DEF ViewSound
<1>8. /\ \A s \in Order \cup {NoOrder} : \A p \in Orders : Genuine(s, db[p]) => Genuine(s, db'[p])
      /\ \A p \in Orders : db[p].filled <= db'[p].filled
      /\ \A c \in Currencies : bal[c] <= bal'[c]
  <2>1. ASSUME NEW s \in Order \cup {NoOrder}, NEW p \in Orders, Genuine(s, db[p])
        PROVE  Genuine(s, db'[p])
    <3>1. s.rev \in Nat /\ s.rev <= db[p].rev /\ db[p].rev <= clock /\ db[p].rev \in Nat
      <4>1. s.rev \in Nat
        BY OrderTypes DEF Revs
      <4>2. s.rev <= db[p].rev
        BY <2>1 DEF Genuine
      <4>3. db[p].rev <= clock /\ db[p].rev \in Nat
        BY DEF Numbers, ViewSound, ServerSound
      <4>4. QED
        BY <4>1, <4>2, <4>3
    <3>2. CASE p = o
      <4>1. db'[p].rev = clock + 1
        BY <1>5, <1>6, <3>2
      <4>2. QED
        BY <1>2, <3>1, <4>1 DEF Genuine
    <3>3. CASE p # o
      BY <1>6, <2>1, <3>3
    <3>4. QED
      BY <3>2, <3>3
  <2>2. ASSUME NEW p \in Orders
        PROVE  db[p].filled <= db'[p].filled
    <3>1. db[p].filled \in Nat
      BY NumbersTyped DEF Numbers, ViewSound
    <3>2. CASE p = o
      BY <1>5, <1>6, <3>2
    <3>3. CASE p # o
      BY <1>6, <3>1, <3>3
    <3>4. QED
      BY <3>2, <3>3
  <2>3. \A c \in Currencies : bal[c] <= bal'[c]
    BY <1>2, <1>6 DEF ViewSound, ViewTyped, ServerSound, Revs
  <2>4. QED
    BY <2>1, <2>2, <2>3
<1>9. ServerSound'
  <2>1. \A p \in Orders : db'[p].rev <= clock' /\ (db'[p].status = "OPEN" => db'[p].filled < Slices)
    BY <1>1, <1>2, <1>5, <1>6, OrderTypes DEF ViewSound, ServerSound, ViewTyped, Revs
  <2>2. \A c \in Currencies : bal'[c] <= clock'
    BY <1>1, <1>2, <1>6 DEF ViewSound, ServerSound, ViewTyped, Revs
  <2>3. \A i \in Items : told'[i] <= clock'
    BY <1>1, <1>2 DEF ViewSound, ServerSound, ViewTyped, Revs, history
  <2>4. ASSUME NEW e \in unsent'
        PROVE  /\ e.order \in Orders /\ e.state.rev = e.rev
               /\ Genuine(e.state, db'[e.order]) /\ e.fill <= db'[e.order].filled
               /\ \A c \in e.changed : e.rev <= bal'[c]
    <3>1. CASE e = event
      BY <1>2, <1>5, <1>6, <3>1 DEF Genuine
    <3>2. CASE e \in unsent
      <4>1. /\ e.order \in Orders /\ e.state.rev = e.rev
            /\ Genuine(e.state, db[e.order]) /\ e.fill <= db[e.order].filled
            /\ \A c \in e.changed : e.rev <= bal[c]
        BY <3>2 DEF ViewSound, ServerSound
      <4>2. e.state \in Order \cup {NoOrder} /\ e.fill \in Nat /\ e.rev \in Nat
            /\ e.changed \subseteq Currencies
        BY <3>2 DEF ViewSound, ViewTyped, Event, Revs
      <4>3. db[e.order].filled \in Nat /\ db'[e.order].filled \in Nat
        BY <4>1 DEF Numbers
      <4>4. \A c \in Currencies : bal[c] \in Nat /\ bal'[c] \in Nat
        BY DEF Numbers
      <4>5. e.fill <= db'[e.order].filled
        <5>1. db[e.order].filled <= db'[e.order].filled
          BY <1>8, <4>1
        <5>2. QED
          BY <4>1, <4>2, <4>3, <5>1
      <4>6. \A c \in e.changed : e.rev <= bal'[c]
        BY <1>8, <4>1, <4>2, <4>4
      <4>7. QED
        BY <1>8, <4>1, <4>2, <4>5, <4>6
    <3>3. QED
      BY <1>1, <3>1, <3>2
  <2>5. deposit' = 0
    BY <1>1
  <2>6. QED
    BY <2>1, <2>2, <2>3, <2>4, <2>5 DEF ServerSound
<1>10. NewestTold'
  BY <1>1, <1>5, <1>6 DEF ViewSound, NewestTold, history
<1>11. PageSound'
  <2>1. \A p \in Orders : Genuine(page.orders[p], db'[p]) /\ Genuine(orders.byId[p], db'[p])
    BY <1>8 DEF ViewSound, ViewTyped, StoreTyped, PageState, PageSound
  <2>2. /\ \A c \in Currencies : page.cash[c] <= bal'[c]
        /\ \A c \in Currencies \ doubt : cash[c] <= bal'[c]
    <3>1. \A c \in Currencies : page.cash[c] \in Nat /\ cash[c] \in Nat /\ bal[c] \in Nat
                                /\ bal'[c] \in Nat
      BY <1>7 DEF ViewSound, ViewTyped, StoreTyped, PageState, Revs
    <3>2. QED
      BY <1>1, <1>8, <3>1 DEF ViewSound, PageSound
  <2>3. QED
    BY <1>1, <2>1, <2>2 DEF ViewSound, PageSound, store, history
<1>12. FillsSound'
  <2>1. ASSUME NEW p \in Orders
        PROVE  fills[p].seen \subseteq 1..db'[p].filled /\ page.orders[p].filled <= db'[p].filled
    <3>1. db[p].filled \in Nat /\ db'[p].filled \in Nat /\ page.orders[p].filled \in Nat
      BY DEF Numbers
    <3>2. fills[p].seen \subseteq 1..db[p].filled /\ page.orders[p].filled <= db[p].filled
          /\ db[p].filled <= db'[p].filled
      BY <1>8 DEF ViewSound, FillsSound, FillsCountedOnce
    <3>3. 1..db[p].filled \subseteq 1..db'[p].filled
      BY <3>1, <3>2
    <3>4. QED
      BY <3>1, <3>2, <3>3
  <2>2. QED
    BY <1>1, <2>1 DEF ViewSound, FillsSound, FillsCountedOnce, store
<1>13. QED
  BY <1>7, <1>9, <1>10, <1>11, <1>12 DEF ViewSound

\* The page after an event about genuine states.
LEMMA PublishPage ==
  ASSUME ViewSound, NEW e \in Event, Publish(e), UNCHANGED <<db, bal, page>>,
         e.fill # 0 => e.order # 0,
         e.order # 0 => /\ Genuine(e.state, db[e.order]) /\ e.state.rev = e.rev
                        /\ e.fill <= db[e.order].filled,
         \A c \in e.changed : e.rev <= bal[c] \/ (c = KRW /\ deposit' # 0 /\ deposit' = e.rev),
         deposit # 0 => deposit' = deposit
  PROVE  /\ StoreTyped' /\ told' \in [Items -> Revs] /\ doubt' \subseteq Items
         /\ ToldBy(e)
         /\ PageSound' /\ FillsSound'
<1>1. ViewTyped
  BY DEF ViewSound
<1>2. /\ e.order \in Orders \cup {0} /\ e.state \in Order \cup {NoOrder} /\ e.fill \in 0..Slices
      /\ e.rev \in Nat /\ e.changed \subseteq Currencies
  BY DEF Event, Revs
<1>3. /\ StoreTyped' /\ told' \in [Items -> Revs] /\ doubt' \subseteq Items
      /\ ToldBy(e)
      /\ page.phase = "live" => Heard(e)
      /\ page.phase # "live" => Missed
  BY <1>1, PublishEffect
<1>4. /\ \A o \in Orders : o \in Items /\ (o \in About(e) <=> o = e.order)
      /\ \A c \in Currencies : c \in Items /\ (c \in About(e) <=> c \in e.changed)
      /\ \A c \in Currencies : Held(c) = cash[c]
      /\ \A o \in Orders : Held(o) = orders.byId[o].rev
  <2>1. Orders \cap Currencies = {} /\ 0 \notin Orders /\ e.changed \subseteq Currencies
    BY <1>2, Apartness
  <2>2. ASSUME NEW o \in Orders
        PROVE  o \in Items /\ (o \in About(e) <=> o = e.order) /\ Held(o) = orders.byId[o].rev
    BY <2>1 DEF About, Items, Held
  <2>3. ASSUME NEW c \in Currencies
        PROVE  c \in Items /\ (c \in About(e) <=> c \in e.changed) /\ Held(c) = cash[c]
    <3>1. c \notin Orders
      BY <2>1
    <3>2. e.order # 0 => e.order \in Orders
      BY <1>2
    <3>3. QED
      BY <3>1, <3>2 DEF About, Items, Held
  <2>4. QED
    BY <2>2, <2>3
<1>5. /\ \A c \in Currencies : bal[c] \in Nat /\ cash[c] \in Nat /\ told[c] \in Nat /\ told'[c] \in Nat
      /\ \A o \in Orders : orders.byId[o].rev \in Nat /\ told[o] \in Nat
  BY <1>1, <1>3, <1>4, OrderTypes DEF ViewTyped, StoreTyped, Revs
<1>6. PageSound'
  <2>1. ASSUME NEW o \in Orders
        PROVE  Genuine(page.orders[o], db[o]) /\ Genuine((orders.byId)'[o], db[o])
    <3>1. (orders.byId)'[o] = orders.byId[o] \/ (o = e.order /\ (orders.byId)'[o] = e.state)
      BY <1>3 DEF Heard, Missed
    <3>2. Genuine(page.orders[o], db[o]) /\ Genuine(orders.byId[o], db[o])
      BY DEF ViewSound, PageSound
    <3>3. o = e.order => Genuine(e.state, db[o])
      BY Apartness
    <3>4. QED
      BY <3>1, <3>2, <3>3
  <2>2. \A c \in Currencies : page.cash[c] <= bal[c]
    BY DEF ViewSound, PageSound
  <2>3. ASSUME NEW c \in Currencies, c \notin doubt'
        PROVE  cash'[c] <= bal[c] \/ (c = KRW /\ deposit' # 0 /\ cash'[c] = deposit')
    <3>1. CASE page.phase = "live" /\ c \in e.changed
      <4>1. cash'[c] = e.rev \/ cash'[c] = 0
        BY <1>3, <3>1 DEF Heard
      <4>2. e.rev <= bal[c] \/ (c = KRW /\ deposit' # 0 /\ deposit' = e.rev)
        BY <3>1
      <4>3. QED
        BY <1>5, <4>1, <4>2
    <3>2. CASE ~(page.phase = "live" /\ c \in e.changed)
      <4>1. cash'[c] = cash[c] /\ c \notin doubt
        BY <1>3, <1>4, <2>3, <3>2 DEF Heard, Missed
      <4>2. cash[c] <= bal[c] \/ (c = KRW /\ deposit # 0 /\ cash[c] = deposit)
        BY <4>1 DEF ViewSound, PageSound
      <4>3. QED
        BY <4>1, <4>2
    <3>3. QED
      BY <3>1, <3>2
  <2>4. ASSUME page.phase # "off", NEW o \in Orders, o \notin doubt'
        PROVE  told'[o] <= (orders.byId)'[o].rev
    <3>1. CASE page.phase = "live" /\ o = e.order
      <4>1. (orders.byId)'[o] = e.state /\ told'[o] = e.rev
        BY <1>3, <1>4, <2>4, <3>1 DEF Heard
      <4>2. e.state.rev = e.rev
        BY <3>1, Apartness
      <4>3. QED
        BY <1>2, <4>1, <4>2
    <3>2. CASE page.phase = "live" /\ o # e.order
      <4>1. (orders.byId)'[o] = orders.byId[o] /\ o \notin doubt /\ told'[o] = told[o]
        BY <1>3, <1>4, <2>4, <3>2 DEF Heard
      <4>2. QED
        BY <2>4, <4>1 DEF ViewSound, PageSound
    <3>3. CASE page.phase # "live"
      <4>1. /\ (orders.byId)'[o] = orders.byId[o] /\ o \notin doubt
            /\ told'[o] = told[o] \/ told'[o] <= orders.byId[o].rev
        BY <1>3, <1>4, <2>4, <3>3 DEF Missed
      <4>2. QED
        BY <2>4, <4>1 DEF ViewSound, PageSound
    <3>4. QED
      BY <3>1, <3>2, <3>3
  <2>5. ASSUME page.phase # "off", NEW c \in Currencies, c \notin doubt'
        PROVE  cash'[c] = 0 \/ told'[c] <= cash'[c]
    <3>1. CASE page.phase = "live" /\ c \in e.changed
      <4>1. told'[c] = e.rev /\ (cash'[c] = 0 \/ cash'[c] = e.rev)
        BY <1>3, <1>4, <2>5, <3>1 DEF Heard
      <4>2. QED
        BY <1>2, <4>1
    <3>2. CASE page.phase = "live" /\ c \notin e.changed
      <4>1. cash'[c] = cash[c] /\ c \notin doubt /\ told'[c] = told[c]
        BY <1>3, <1>4, <2>5, <3>2 DEF Heard
      <4>2. QED
        BY <2>5, <4>1 DEF ViewSound, PageSound
    <3>3. CASE page.phase # "live"
      <4>1. /\ cash'[c] = cash[c] /\ c \notin doubt
            /\ told'[c] = told[c] \/ told'[c] <= cash[c]
        BY <1>3, <1>4, <2>5, <3>3 DEF Missed
      <4>2. QED
        BY <2>5, <4>1 DEF ViewSound, PageSound
    <3>4. QED
      BY <3>1, <3>2, <3>3
  <2>6. QED
    BY <2>1, <2>2, <2>3, <2>4, <2>5 DEF PageSound
<1>7. FillsSound'
  <2>1. ASSUME NEW o \in Orders
        PROVE  (fills[o].count)' = Cardinality((fills[o].seen)') /\ (fills[o].seen)' \subseteq 1..db[o].filled
    <3>1. /\ fills[o].count = Cardinality(fills[o].seen) /\ fills[o].seen \subseteq 1..db[o].filled
          /\ fills \in [Orders -> [seen : SUBSET (1..Slices), count : Nat]]
      BY <1>1 DEF ViewSound, FillsSound, FillsCountedOnce, ViewTyped, StoreTyped
    <3>2. fills' = fills \/ (e.fill # 0 /\ fills' = [fills EXCEPT ![e.order] = Counted(@, {e.fill})])
      BY <1>3 DEF Heard, Missed
    <3>3. CASE fills'[o] = fills[o]
      BY <3>1, <3>3
    <3>4. CASE e.fill # 0 /\ o = e.order /\ fills'[o] = Counted(fills[o], {e.fill})
      <4>1. e.fill \in 1..db[o].filled /\ db[o].filled \in Nat
        <5>1. db[o].filled \in 0..Slices
          BY <1>1, OrderTypes DEF ViewTyped
        <5>2. e.fill <= db[o].filled
          BY <3>4, Apartness
        <5>3. QED
          BY <1>2, <3>4, <5>1, <5>2
      <4>2. {e.fill} \in SUBSET (1..db[o].filled)
        BY <4>1
      <4> DEFINE f == Counted(fills[o], {e.fill})
      <4>3. Right(fills[o], db[o].filled)
        BY <3>1 DEF Right
      <4>4. Right(f, db[o].filled)
        BY <4>1, <4>2, <4>3, CountedOnce1
      <4> HIDE DEF f
      <4>5. fills'[o] = f
        BY <3>4 DEF f
      <4>6. QED
        BY <4>4, <4>5 DEF Right
    <3>5. QED
      BY <3>1, <3>2, <3>3, <3>4
  <2>2. \A o \in Orders : page.orders[o].filled <= db[o].filled
    BY DEF ViewSound, FillsSound
  <2>3. QED
    BY <2>1, <2>2 DEF FillsSound, FillsCountedOnce
<1>8. QED
  BY <1>3, <1>6, <1>7

LEMMA PublishCommitView ==
  ASSUME ViewSound, NEW e \in unsent, PublishCommit(e)
  PROVE  ViewSound'
<1>1. Publish(e) /\ unsent' = unsent \ {e} /\ UNCHANGED <<clock, db, bal, deposit, page>>
  BY DEF PublishCommit, server
<1>2. /\ e \in Event /\ e.order \in Orders /\ e.state.rev = e.rev
      /\ Genuine(e.state, db[e.order]) /\ e.fill <= db[e.order].filled
      /\ \A c \in e.changed : e.rev <= bal[c]
  BY DEF ViewSound, ViewTyped, ServerSound
<1>3. /\ StoreTyped' /\ told' \in [Items -> Revs] /\ doubt' \subseteq Items
      /\ ToldBy(e) /\ PageSound' /\ FillsSound'
  BY <1>1, <1>2, Apartness, PublishPage
<1>4. e.rev \in Nat /\ db[e.order].rev \in Nat /\ e.rev <= clock /\ clock \in Nat
      /\ \A i \in Items : told[i] \in Nat
  <2>1. Numbers /\ e.rev \in Nat
    BY <1>2, NumbersTyped DEF ViewSound, Event, Revs
  <2>2. e.rev <= db[e.order].rev /\ db[e.order].rev <= clock
    BY <1>2 DEF ViewSound, ServerSound, Genuine
  <2>3. db[e.order].rev \in Nat /\ clock \in Nat /\ \A i \in Items : told[i] \in Nat
    BY <1>2, <2>1 DEF Numbers
  <2>4. e.rev <= clock
    BY <2>1, <2>2, <2>3
  <2>5. QED
    BY <2>1, <2>3, <2>4
<1>5. ViewTyped'
  BY <1>1, <1>3 DEF ViewSound, ViewTyped
<1>6. ServerSound'
  <2>1. ASSUME NEW i \in Items
        PROVE  told'[i] <= clock
    <3>1. told[i] <= clock /\ (told'[i] = told[i] \/ told'[i] = e.rev)
      BY <1>3 DEF ViewSound, ServerSound, ToldBy
    <3>2. QED
      BY <1>4, <3>1
  <2>2. ASSUME deposit # 0
        PROVE  told'[KRW] = clock
    <3>1. KRW \in Items
      BY Apartness DEF Items
    <3>2. told[KRW] = clock /\ told[KRW] <= told'[KRW] /\ told'[KRW] \in Nat
      BY <1>3, <2>2, <3>1 DEF ViewSound, ServerSound, ToldBy
    <3>3. QED
      BY <1>4, <2>1, <3>1, <3>2
  <2>3. QED
    BY <1>1, <2>1, <2>2 DEF ViewSound, ServerSound
<1>7. NewestTold'
  <2>1. ASSUME NEW o \in Orders
        PROVE  db[o].rev <= told'[o] \/ \E f \in unsent' : f.order = o /\ f.rev = db[o].rev
    <3>1. o \in Items /\ db[o].rev \in Nat
      BY OrderTypes DEF Items, ViewSound, ViewTyped, Revs
    <3>2. told[o] <= told'[o] /\ told'[o] \in Nat
      BY <1>3, <3>1 DEF ToldBy
    <3>3. CASE db[o].rev <= told[o]
      <4>1. told[o] \in Nat
        BY <1>4, <3>1
      <4>2. QED
        BY <3>1, <3>2, <3>3, <4>1
    <3>4. CASE \E f \in unsent : f.order = o /\ f.rev = db[o].rev
      <4>1. PICK f \in unsent : f.order = o /\ f.rev = db[o].rev
        BY <3>4
      <4>2. CASE f = e
        <5>1. o \in About(e) /\ e.rev = db[o].rev
          BY <4>1, <4>2, Apartness DEF About
        <5>2. QED
          BY <1>3, <3>1, <5>1 DEF ToldBy
      <4>3. CASE f # e
        BY <1>1, <4>1, <4>3
      <4>4. QED
        BY <4>2, <4>3
    <3>5. QED
      BY <3>3, <3>4 DEF ViewSound, NewestTold
  <2>2. ASSUME NEW c \in Currencies
        PROVE  bal[c] <= told'[c] \/ \E f \in unsent' : c \in f.changed /\ f.rev = bal[c]
    <3>1. c \in Items /\ bal[c] \in Nat
      BY DEF Items, ViewSound, ViewTyped, Revs
    <3>2. told[c] <= told'[c] /\ told'[c] \in Nat
      BY <1>3, <3>1 DEF ToldBy
    <3>3. CASE bal[c] <= told[c]
      <4>1. told[c] \in Nat
        BY <1>4, <3>1
      <4>2. QED
        BY <3>1, <3>2, <3>3, <4>1
    <3>4. CASE \E f \in unsent : c \in f.changed /\ f.rev = bal[c]
      <4>1. PICK f \in unsent : c \in f.changed /\ f.rev = bal[c]
        BY <3>4
      <4>2. CASE f = e
        <5>1. c \in About(e) /\ e.rev = bal[c]
          BY <4>1, <4>2 DEF About
        <5>2. QED
          BY <1>3, <3>1, <5>1 DEF ToldBy
      <4>3. CASE f # e
        BY <1>1, <4>1, <4>3
      <4>4. QED
        BY <4>2, <4>3
    <3>5. QED
      BY <3>3, <3>4 DEF ViewSound, NewestTold
  <2>3. QED
    BY <1>1, <2>1, <2>2 DEF NewestTold
<1>8. QED
  BY <1>3, <1>5, <1>6, <1>7 DEF ViewSound

LEMMA DepositPublishesView ==
  ASSUME ViewSound, DepositPublishes
  PROVE  ViewSound'
<1> DEFINE e == [order |-> 0, state |-> NoOrder, fill |-> 0, rev |-> clock + 1, changed |-> {KRW}]
<1>1. /\ clock < MaxCommits /\ deposit = 0 /\ clock' = clock + 1 /\ deposit' = clock + 1
      /\ Publish(e) /\ UNCHANGED <<db, bal, unsent, page>>
  BY DEF DepositPublishes
<1>2. clock \in Nat /\ clock + 1 \in Revs /\ clock + 1 # 0
  BY <1>1 DEF ViewSound, ViewTyped, Revs
<1>3. e \in Event
  BY <1>2, Apartness DEF Event
<1>4. e.order = 0 /\ e.fill = 0 /\ e.rev = clock + 1 /\ e.changed = {KRW}
  OBVIOUS
<1> HIDE DEF e
<1>5. /\ StoreTyped' /\ told' \in [Items -> Revs] /\ doubt' \subseteq Items
      /\ ToldBy(e) /\ PageSound' /\ FillsSound'
  BY <1>1, <1>2, <1>3, <1>4, PublishPage
<1>6. ASSUME NEW i \in Items
      PROVE  told[i] \in Nat /\ told[i] <= clock /\ told[i] <= told'[i]
             /\ told'[i] <= clock + 1 /\ told'[i] \in Nat
  <2>1. told[i] \in Nat /\ told[i] <= clock
    BY NumbersTyped DEF Numbers, ViewSound, ServerSound
  <2>2. told'[i] \in Nat /\ told[i] <= told'[i] /\ (told'[i] = told[i] \/ told'[i] = clock + 1)
    BY <1>4, <1>5 DEF ToldBy
  <2>3. QED
    BY <1>2, <2>1, <2>2
<1>7. told'[KRW] = clock + 1
  <2>1. KRW \in Items /\ KRW \in About(e)
    BY <1>4, Apartness DEF About, Items
  <2>2. clock + 1 <= told'[KRW]
    BY <1>4, <1>5, <2>1 DEF ToldBy
  <2>3. QED
    BY <1>2, <1>6, <2>1, <2>2
<1>8. ViewTyped'
  BY <1>1, <1>2, <1>5 DEF ViewSound, ViewTyped
<1>9. ServerSound'
  <2>1. /\ \A o \in Orders : db[o].rev <= clock + 1
        /\ \A c \in Currencies : bal[c] <= clock + 1
    BY <1>2, OrderTypes DEF ViewSound, ViewTyped, ServerSound, Revs
  <2>2. QED
    BY <1>1, <1>6, <1>7, <2>1 DEF ViewSound, ServerSound
<1>10. NewestTold'
  <2>1. /\ \A o \in Orders : o \in Items /\ db[o].rev \in Nat
        /\ \A c \in Currencies : c \in Items /\ bal[c] \in Nat
    BY OrderTypes DEF Items, ViewSound, ViewTyped, Revs
  <2>2. QED
    BY <1>1, <1>6, <2>1 DEF ViewSound, NewestTold
<1>11. QED
  BY <1>5, <1>8, <1>9, <1>10 DEF ViewSound

LEMMA DepositEndsView ==
  ASSUME ViewSound, DepositCommits \/ DepositFails
  PROVE  ViewSound'
<1>1. /\ deposit # 0 /\ deposit' = 0 /\ UNCHANGED <<clock, db, unsent, page, store, told>>
      /\ \/ bal' = [bal EXCEPT ![KRW] = deposit] /\ doubt' = doubt
         \/ bal' = bal /\ doubt' = doubt \cup {KRW}
  BY DEF DepositCommits, DepositFails, history
<1>2. /\ deposit = clock /\ told[KRW] = clock /\ deposit \in Revs
      /\ \A c \in Currencies : bal[c] \in Nat /\ bal[c] <= clock /\ c \in Items
      /\ clock \in Nat
  BY <1>1 DEF ViewSound, ViewTyped, ServerSound, Revs, Items
<1>3. /\ bal' \in [Currencies -> Revs] /\ \A c \in Currencies : bal[c] <= bal'[c] /\ bal'[c] <= clock
      /\ \A c \in Currencies \ {KRW} : bal'[c] = bal[c]
      /\ bal'[KRW] = clock \/ (bal' = bal /\ KRW \in doubt')
  <2>1. bal \in [Currencies -> Revs] /\ KRW \in Currencies
    BY Apartness DEF ViewSound, ViewTyped
  <2>2. CASE bal' = [bal EXCEPT ![KRW] = deposit]
    <3>1. bal' \in [Currencies -> Revs] /\ bal'[KRW] = clock
          /\ \A c \in Currencies \ {KRW} : bal'[c] = bal[c]
      BY <1>2, <2>1, <2>2
    <3>2. QED
      BY <1>2, <2>1, <3>1
  <2>3. CASE bal' = bal /\ doubt' = doubt \cup {KRW}
    BY <1>2, <2>1, <2>3
  <2>4. QED
    BY <1>1, <2>2, <2>3
<1>4. ViewTyped'
  <2>1. doubt' \subseteq Items
    BY <1>1, Apartness DEF ViewSound, ViewTyped, Items
  <2>2. deposit' \in Revs
    BY <1>1 DEF Revs
  <2>3. StoreTyped'
    BY <1>1 DEF ViewSound, ViewTyped, StoreTyped, store, IsStore
  <2>4. QED
    BY <1>1, <1>3, <2>1, <2>2, <2>3 DEF ViewSound, ViewTyped
<1>5. ServerSound'
  <2>1. ASSUME NEW e \in unsent, NEW c \in e.changed
        PROVE  e.rev <= bal'[c]
    <3>1. e.rev \in Nat /\ c \in Currencies /\ e.rev <= bal[c]
      BY DEF ViewSound, ViewTyped, ServerSound, Event, Revs
    <3>2. bal[c] \in Nat /\ bal'[c] \in Nat
      BY <1>2, <1>3, <3>1 DEF Revs
    <3>3. QED
      BY <1>3, <3>1, <3>2
  <2>2. QED
    BY <1>1, <1>3, <2>1 DEF ViewSound, ServerSound
<1>6. NewestTold'
  <2>1. told[KRW] = clock
    BY <1>2
  <2>2. QED
    BY <1>1, <1>2, <1>3, <2>1 DEF ViewSound, NewestTold
<1>7. PageSound'
  <2>1. ASSUME NEW c \in Currencies
        PROVE  page.cash[c] <= bal'[c] /\ (c \notin doubt' => cash[c] <= bal'[c])
    <3>1. page.cash[c] \in Nat /\ cash[c] \in Nat /\ bal[c] \in Nat /\ bal'[c] \in Nat
      BY <1>2, <1>3 DEF ViewSound, ViewTyped, StoreTyped, PageState, Revs
    <3>2. page.cash[c] <= bal[c] /\ bal[c] <= bal'[c]
      BY <1>3 DEF ViewSound, PageSound
    <3>3. ASSUME c \notin doubt'
          PROVE  cash[c] <= bal'[c]
      <4>1. c \notin doubt
        BY <1>1, <3>3
      <4>2. cash[c] <= bal[c] \/ (c = KRW /\ cash[c] = clock)
        BY <1>2, <4>1 DEF ViewSound, PageSound
      <4>3. QED
        BY <1>3, <3>1, <3>2, <3>3, <4>2
    <3>4. QED
      BY <3>1, <3>2, <3>3
  <2>2. doubt \subseteq doubt'
    BY <1>1
  <2>3. QED
    BY <1>1, <2>1, <2>2 DEF ViewSound, PageSound, store
<1>8. FillsSound'
  BY <1>1 DEF ViewSound, FillsSound, FillsCountedOnce, store
<1>9. QED
  BY <1>4, <1>5, <1>6, <1>7, <1>8 DEF ViewSound

LEMMA ServerStopsView ==
  ASSUME ViewSound, ServerStops
  PROVE  ViewSound'
<1> DEFINE lost == UNION {About(e) : e \in unsent}
<1>1. /\ deposit' = 0 /\ unsent' = {} /\ UNCHANGED <<clock, db, bal, store>>
      /\ doubt \subseteq doubt' /\ lost \subseteq doubt' /\ (deposit # 0 => KRW \in doubt')
      /\ doubt' \subseteq doubt \cup lost \cup {KRW}
      /\ told' = [i \in Items |-> told'[i]]
      /\ \A i \in Items : told'[i] = IF i \in lost THEN clock ELSE told[i]
      /\ page' = [page EXCEPT !.phase = IF @ = "live" THEN "connecting" ELSE @]
  <2> DEFINE swept(i) == IF \E e \in unsent : i \in About(e) THEN clock ELSE told[i]
  <2>1. /\ deposit' = 0 /\ unsent' = {} /\ UNCHANGED <<clock, db, bal, store>>
        /\ doubt' = doubt \cup lost \cup IF deposit = 0 THEN {} ELSE {KRW}
        /\ told' = [i \in Items |-> swept(i)]
        /\ page' = [page EXCEPT !.phase = IF @ = "live" THEN "connecting" ELSE @]
    BY DEF ServerStops
  <2>2. \A i : i \in lost <=> \E e \in unsent : i \in About(e)
    OBVIOUS
  <2> HIDE DEF lost, swept
  <2>3. told' = [i \in Items |-> told'[i]] /\ \A i \in Items : told'[i] = swept(i)
    BY <2>1
  <2>4. \A i \in Items : told'[i] = IF i \in lost THEN clock ELSE told[i]
    BY <2>2, <2>3 DEF swept
  <2>5. doubt \subseteq doubt' /\ lost \subseteq doubt' /\ (deposit # 0 => KRW \in doubt')
        /\ doubt' \subseteq doubt \cup lost \cup {KRW}
    BY <2>1
  <2>6. QED
    BY <2>1, <2>3, <2>4, <2>5
<1>2. /\ clock \in Revs /\ clock \in Nat
      /\ \A i \in Items : told[i] \in Revs /\ told[i] \in Nat /\ told[i] <= clock
      /\ \A o \in Orders : o \in Items /\ db[o].rev \in Nat /\ db[o].rev <= clock
      /\ \A c \in Currencies : c \in Items /\ bal[c] \in Nat /\ bal[c] <= clock
  BY OrderTypes DEF ViewSound, ViewTyped, ServerSound, Revs, Items
<1>3. \A e \in unsent : About(e) \subseteq Items /\ (e.order # 0 => e.order \in About(e))
                        /\ e.changed \subseteq About(e) /\ e.order # 0
  BY Apartness DEF ViewSound, ViewTyped, ServerSound, Event, About, Items
<1>4. lost \subseteq Items
  BY <1>3
<1> HIDE DEF lost
<1>5. page' \in PageState /\ page'.orders = page.orders /\ page'.cash = page.cash
      /\ (page'.phase # "off" => page.phase # "off")
  BY <1>1 DEF ViewSound, ViewTyped, PageState
<1>6. \A i \in Items : /\ told'[i] \in Revs /\ told'[i] <= clock
                       /\ i \notin lost => told'[i] = told[i]
                       /\ i \in lost => told'[i] = clock
  BY <1>1, <1>2
<1>7. ViewTyped'
  <2>1. told' \in [Items -> Revs]
    BY <1>1, <1>6
  <2>2. doubt' \subseteq Items
    BY <1>1, <1>4, Apartness DEF ViewSound, ViewTyped, Items
  <2>3. QED
    BY <1>1, <1>5, <2>1, <2>2 DEF ViewSound, ViewTyped, StoreTyped, store, Revs
<1>8. ServerSound'
  BY <1>1, <1>6 DEF ViewSound, ServerSound
<1>9. NewestTold'
  <2>1. ASSUME NEW o \in Orders
        PROVE  db[o].rev <= told'[o]
    <3>1. CASE o \in lost
      BY <1>2, <1>6, <3>1
    <3>2. CASE o \notin lost
      <4>1. \A e \in unsent : e.order # o
        BY <1>3, <3>2 DEF lost
      <4>2. QED
        BY <1>2, <1>6, <3>2, <4>1 DEF ViewSound, NewestTold
    <3>3. QED
      BY <3>1, <3>2
  <2>2. ASSUME NEW c \in Currencies
        PROVE  bal[c] <= told'[c]
    <3>1. CASE c \in lost
      BY <1>2, <1>6, <3>1
    <3>2. CASE c \notin lost
      <4>1. \A e \in unsent : c \notin e.changed
        BY <1>3, <3>2 DEF lost
      <4>2. QED
        BY <1>2, <1>6, <3>2, <4>1 DEF ViewSound, NewestTold
    <3>3. QED
      BY <3>1, <3>2
  <2>3. QED
    BY <1>1, <2>1, <2>2 DEF NewestTold
<1>10. PageSound'
  <2>1. \A i \in Items \ doubt' : i \notin doubt /\ told'[i] = told[i]
    BY <1>1, <1>6
  <2>2. QED
    BY <1>1, <1>2, <1>5, <2>1 DEF ViewSound, PageSound, store
<1>11. FillsSound'
  BY <1>1, <1>5 DEF ViewSound, FillsSound, FillsCountedOnce, store
<1>12. QED
  BY <1>7, <1>8, <1>9, <1>10, <1>11 DEF ViewSound

\* Steps of the page that leave its stores alone.
LEMMA PageStepView ==
  ASSUME ViewSound, Load \/ ReadOrders \/ ReadBalances \/ Subscribe \/ Disconnect
  PROVE  ViewSound'
<1>1. UNCHANGED <<server, unsent, store, history>>
  BY DEF Load, ReadOrders, ReadBalances, Subscribe, Disconnect
<1>2. /\ page' \in PageState
      /\ page'.phase # "off" => page.phase # "off"
      /\ page'.orders \in {page.orders, NoOrders, [o \in Orders |-> IF o \in Elsewhere THEN NoOrder ELSE db[o]]}
      /\ page'.cash \in {page.cash, NoCash, bal}
  <2>1. page \in PageState
    BY DEF ViewSound, ViewTyped
  <2>2. CASE Load
    <3>1. /\ page.reads < MaxReads
          /\ page' = [page EXCEPT !.loading = TRUE, !.reads = @ + 1, !.todo = {"orders", "balances"}]
      BY <2>2 DEF Load
    <3>2. page.reads + 1 \in 0..MaxReads
      BY <2>1, <3>1 DEF PageState
    <3> DEFINE n == page.reads + 1
    <3>3. page' = [page EXCEPT !.loading = TRUE, !.reads = n, !.todo = {"orders", "balances"}]
      BY <3>1
    <3> HIDE DEF n
    <3>4. n \in 0..MaxReads
      BY <3>2 DEF n
    <3>5. QED
      BY <2>1, <3>3, <3>4 DEF PageState
  <2>3. CASE ReadOrders
    <3>1. PICK read \in {NoOrders, [o \in Orders |-> IF o \in Elsewhere THEN NoOrder ELSE db[o]]} :
            page' = [page EXCEPT !.todo = @ \ {"orders"}, !.orders = read]
      BY <2>3 DEF ReadOrders
    <3>2. read \in [Orders -> Order \cup {NoOrder}]
      BY DEF NoOrders, ViewSound, ViewTyped
    <3>3. QED
      BY <2>1, <3>1, <3>2 DEF PageState
  <2>4. CASE ReadBalances
    <3>1. PICK read \in {NoCash, bal} : page' = [page EXCEPT !.todo = @ \ {"balances"}, !.cash = read]
      BY <2>4 DEF ReadBalances
    <3>2. read \in [Currencies -> Revs]
      BY DEF NoCash, ViewSound, ViewTyped, Revs
    <3>3. QED
      BY <2>1, <3>1, <3>2 DEF PageState
  <2>5. CASE Subscribe \/ Disconnect
    BY <2>1, <2>5 DEF Subscribe, Disconnect, PageState
  <2>6. QED
    BY <2>2, <2>3, <2>4, <2>5
<1>3. ViewTyped'
  BY <1>1, <1>2 DEF ViewSound, ViewTyped, StoreTyped, server, store, history
<1>4. ServerSound' /\ NewestTold'
  BY <1>1 DEF ViewSound, ServerSound, NewestTold, server, history
<1>5. \A o \in Orders : Genuine(page'.orders[o], db[o]) /\ page'.orders[o].filled <= db[o].filled
  <2>1. ASSUME NEW o \in Orders
        PROVE  Genuine(page'.orders[o], db[o]) /\ page'.orders[o].filled <= db[o].filled
    <3>1. page'.orders[o] \in {page.orders[o], NoOrder, db[o]}
      BY <1>2 DEF NoOrders
    <3>2. db[o] \in Order \cup {NoOrder}
      BY DEF ViewSound, ViewTyped
    <3>3. Genuine(NoOrder, db[o]) /\ Genuine(db[o], db[o])
          /\ NoOrder.filled <= db[o].filled /\ db[o].filled <= db[o].filled
      BY <3>2, OrderTypes DEF Genuine, NoOrder, Revs
    <3>4. Genuine(page.orders[o], db[o]) /\ page.orders[o].filled <= db[o].filled
      BY DEF ViewSound, PageSound, FillsSound
    <3>5. QED
      BY <3>1, <3>3, <3>4
  <2>2. QED
    BY <2>1
<1>6. \A c \in Currencies : page'.cash[c] <= bal[c]
  BY <1>2 DEF ViewSound, PageSound, ViewTyped, NoCash, Revs
<1>7. PageSound'
  BY <1>1, <1>2, <1>5, <1>6 DEF ViewSound, PageSound, server, store, history
<1>8. FillsSound'
  BY <1>1, <1>5 DEF ViewSound, FillsSound, FillsCountedOnce, server, store
<1>9. QED
  BY <1>3, <1>4, <1>7, <1>8 DEF ViewSound

LEMMA RenderView ==
  ASSUME ViewSound, Render
  PROVE  ViewSound'
<1>1. /\ IsStore(orders') /\ orders'.byId = orders.byId
      /\ UNCHANGED <<server, unsent, page, cash, fills, history>>
  <2>1. IsStore(orders)
    BY DEF ViewSound, ViewTyped, StoreTyped
  <2> DEFINE list == [k \in DOMAIN orders.pendingIds |->
                        <<orders.pendingIds[k], orders.byId[orders.pendingIds[k]]>>]
  <2>2. orders' = [orders EXCEPT !.dirty = FALSE, !.shown = list]
        /\ UNCHANGED <<server, unsent, page, cash, fills, history>>
    BY DEF Render
  <2> HIDE DEF list
  <2>3. orders' = WithShown(orders, FALSE, list)
    BY <2>2, Zenon DEF WithShown
  <2>4. IsStore(WithShown(orders, FALSE, list)) /\ WithShown(orders, FALSE, list).byId = orders.byId
    BY <2>1, StoreWithShown
  <2>5. IsStore(orders') /\ orders'.byId = orders.byId
    BY <2>3, <2>4, Zenon
  <2>6. QED
    BY <2>2, <2>5
<1>2. ViewTyped'
  BY <1>1 DEF ViewSound, ViewTyped, StoreTyped, server, history
<1>3. ServerSound' /\ NewestTold'
  BY <1>1 DEF ViewSound, ServerSound, NewestTold, server, history
<1>4. PageSound'
  BY <1>1 DEF ViewSound, PageSound, server, history
<1>5. FillsSound'
  BY <1>1 DEF ViewSound, FillsSound, FillsCountedOnce, server
<1>6. QED
  BY <1>2, <1>3, <1>4, <1>5 DEF ViewSound

LEMMA HydrateView ==
  ASSUME ViewSound, Hydrate
  PROVE  ViewSound'
<1> DEFINE known == {o \in Orders : page.orders[o] # NoOrder}
           open == {o \in known : page.orders[o].status = "OPEN"}
<1>1. /\ orders' = [byId |-> page.orders, shown |-> <<>>, dirty |-> TRUE,
                    pendingIds |-> NewestFirst(open), completedIds |-> NewestFirst(known \ open)]
      /\ cash' = page.cash
      /\ fills' = [o \in Orders |-> Counted(fills[o], 1..page.orders[o].filled)]
      /\ page' = [page EXCEPT !.phase = "connecting", !.loading = FALSE,
                              !.orders = NoOrders, !.cash = NoCash]
      /\ doubt' = {i \in Items : told[i] > IF i \in Orders THEN page.orders[i].rev
                                                          ELSE page.cash[i]}
      /\ UNCHANGED <<server, unsent, told>>
  BY DEF Hydrate
<1>2. /\ page.orders \in [Orders -> Order \cup {NoOrder}] /\ page.cash \in [Currencies -> Revs]
      /\ page \in PageState
  BY DEF ViewSound, ViewTyped, PageState
<1>3. /\ NoOrders \in [Orders -> Order \cup {NoOrder}] /\ NoCash \in [Currencies -> Revs]
  BY DEF NoOrders, NoCash, Revs
<1>4. page' \in PageState /\ page'.orders = NoOrders /\ page'.cash = NoCash
  BY <1>1, <1>2, <1>3 DEF PageState
<1>5. (orders.byId)' = page.orders /\ IsStore(orders')
  <2> DEFINE pend == NewestFirst(open)
             comp == NewestFirst(known \ open)
  <2>1. orders' = [byId |-> page.orders, shown |-> <<>>, dirty |-> TRUE, pendingIds |-> pend,
                   completedIds |-> comp]
    BY <1>1
  <2> HIDE DEF pend, comp
  <2>2. QED
    BY <2>1 DEF IsStore
<1>6. \A o \in Orders : /\ (fills[o].count)' = Cardinality((fills[o].seen)')
                        /\ (fills[o].seen)' \subseteq 1..db[o].filled
                        /\ fills'[o] \in [seen : SUBSET (1..Slices), count : Nat]
  <2>1. ASSUME NEW o \in Orders
        PROVE  /\ fills'[o].count = Cardinality(fills'[o].seen)
               /\ fills'[o].seen \subseteq 1..db[o].filled
               /\ fills'[o] \in [seen : SUBSET (1..Slices), count : Nat]
    <3>1. /\ fills[o].count = Cardinality(fills[o].seen) /\ fills[o].seen \subseteq 1..db[o].filled
          /\ page.orders[o].filled <= db[o].filled
      BY DEF ViewSound, FillsSound, FillsCountedOnce
    <3>2. db[o].filled \in 0..Slices /\ page.orders[o].filled \in 0..Slices
      BY <1>2, OrderTypes DEF ViewSound, ViewTyped
    <3>3. 1..page.orders[o].filled \subseteq 1..db[o].filled /\ 1..db[o].filled \subseteq 1..Slices
      BY <3>1, <3>2
    <3> DEFINE f == Counted(fills[o], 1..page.orders[o].filled)
    <3>4. f.count = Cardinality(f.seen) /\ f.seen \subseteq 1..db[o].filled /\ f.count \in Nat
      <4>1. db[o].filled \in Nat /\ 1..page.orders[o].filled \in SUBSET (1..db[o].filled)
        BY <3>2, <3>3
      <4>2. Right(fills[o], db[o].filled)
        BY <3>1 DEF Right
      <4>3. Right(f, db[o].filled) /\ f.count \in Nat
        BY <4>1, <4>2, CountedOnce1
      <4>4. QED
        BY <4>3 DEF Right
    <3>5. f = [seen |-> f.seen, count |-> f.count]
      BY DEF Counted
    <3>6. fills'[o] = f
      BY <1>1
    <3> HIDE DEF f
    <3>7. QED
      BY <3>3, <3>4, <3>5, <3>6
  <2>2. QED
    BY <2>1
<1>7. ViewTyped'
  <2>1. fills' \in [Orders -> [seen : SUBSET (1..Slices), count : Nat]]
    BY <1>1, <1>6
  <2>2. StoreTyped'
    BY <1>1, <1>2, <1>5, <2>1 DEF StoreTyped, IsStore
  <2>3. QED
    BY <1>1, <1>4, <2>2 DEF ViewSound, ViewTyped, server
<1>8. ServerSound' /\ NewestTold'
  BY <1>1 DEF ViewSound, ServerSound, NewestTold, server
<1>9. PageSound'
  <2>1. \A o \in Orders : Genuine(NoOrder, db[o]) /\ Genuine(page.orders[o], db[o])
    <3>1. ASSUME NEW o \in Orders
          PROVE  Genuine(NoOrder, db[o])
      <4>1. db[o] \in Order \cup {NoOrder} /\ db[o].rev \in Nat
        BY NumbersTyped DEF Numbers, ViewSound, ViewTyped
      <4>2. NoOrder.rev = 0 /\ (db[o].rev = 0 => db[o] = NoOrder)
        BY <4>1, OrderTypes DEF NoOrder
      <4>3. QED
        BY <4>1, <4>2 DEF Genuine
    <3>2. \A o \in Orders : Genuine(page.orders[o], db[o])
      BY DEF ViewSound, PageSound
    <3>3. QED
      BY <3>1, <3>2
  <2>2. \A c \in Currencies : 0 <= bal[c] /\ page.cash[c] <= bal[c]
    BY DEF ViewSound, PageSound, ViewTyped, Revs
  <2>3. \A o \in Orders \ doubt' : told[o] <= page.orders[o].rev
    <3>1. ASSUME NEW o \in Orders, ~(told[o] > page.orders[o].rev)
          PROVE  told[o] <= page.orders[o].rev
      BY <3>1, NumbersTyped DEF Numbers, ViewSound
    <3>2. \A o \in Orders : o \in Items
      BY DEF Items
    <3>3. QED
      BY <1>1, <3>1, <3>2
  <2>4. \A c \in Currencies \ doubt' : told[c] <= page.cash[c]
    <3>1. ASSUME NEW c \in Currencies, ~(told[c] > page.cash[c])
          PROVE  told[c] <= page.cash[c]
      BY <3>1, NumbersTyped DEF Numbers, ViewSound
    <3>2. \A c \in Currencies : c \in Items /\ c \notin Orders
      BY Apartness DEF Items
    <3>3. QED
      BY <1>1, <3>1, <3>2
  <2>5. QED
    BY <1>1, <1>4, <1>5, <2>1, <2>2, <2>3, <2>4 DEF PageSound, server, NoOrders, NoCash
<1>10. FillsSound'
  <2>1. \A o \in Orders : NoOrder.filled <= db[o].filled
    BY OrderTypes DEF ViewSound, ViewTyped, NoOrder
  <2>2. QED
    BY <1>1, <1>4, <1>6, <2>1 DEF FillsSound, FillsCountedOnce, server, NoOrders
<1>11. QED
  BY <1>7, <1>8, <1>9, <1>10 DEF ViewSound

LEMMA NextView == ViewSound /\ [Next]_vars => ViewSound'
<1> SUFFICES ASSUME ViewSound, [Next]_vars PROVE ViewSound'
  OBVIOUS
<1>1. ASSUME NEW o \in Orders, CreateOrder(o) \/ MatchOrder(o) \/ CancelOrder(o)
      PROVE  ViewSound'
  <2>1. db[o] \in Order \cup {NoOrder} /\ db[o].filled \in 0..Slices
        /\ (db[o].status = "OPEN" => db[o].filled < Slices)
        /\ {KRW} \subseteq Currencies /\ {KRW, CoinOf(o)} \subseteq Currencies
    BY Apartness, OrderTypes DEF ViewSound, ViewTyped, ServerSound
  <2>2. CASE CreateOrder(o)
    <3>1. db[o] = NoOrder /\ Commit(o, 0, "OPEN", 0, {KRW})
      BY <2>2 DEF CreateOrder
    <3>2. db[o].filled = 0
      BY <3>1 DEF NoOrder
    <3>3. /\ 0 \in 0..Slices /\ 0 \in 0..0 /\ "OPEN" \in {"OPEN", "FILLED", "CANCELED"}
          /\ 0 < Slices /\ db[o].filled <= 0
      BY <3>2
    <3>4. QED
      BY <2>1, <3>1, <3>3, CommitView
  <2>3. CASE MatchOrder(o)
    <3> DEFINE n == db[o].filled + 1
               status == IF n = Slices THEN "FILLED" ELSE "OPEN"
    <3>1. db[o].status = "OPEN" /\ Commit(o, n, status, n, {KRW, CoinOf(o)})
      BY <2>3 DEF MatchOrder
    <3>2. n \in 0..Slices /\ n \in 0..n /\ db[o].filled <= n
          /\ status \in {"OPEN", "FILLED", "CANCELED"} /\ (status = "OPEN" => n < Slices)
      BY <2>1, <3>1
    <3> HIDE DEF n, status
    <3>3. QED
      BY <2>1, <3>1, <3>2, CommitView
  <2>4. CASE CancelOrder(o)
    <3>1. Commit(o, db[o].filled, "CANCELED", 0, {KRW})
      BY <2>4 DEF CancelOrder
    <3> DEFINE n == db[o].filled
    <3>2. n \in 0..Slices
      BY <2>1
    <3> HIDE DEF n
    <3>3. 0 \in 0..n /\ n <= n
      BY <3>2
    <3>4. "CANCELED" \in {"OPEN", "FILLED", "CANCELED"} /\ "CANCELED" # "OPEN"
      OBVIOUS
    <3>5. db[o].filled = n
      BY DEF n
    <3>6. Commit(o, n, "CANCELED", 0, {KRW}) /\ db[o].filled <= n
      BY <3>1, <3>3, <3>5
    <3>7. QED
      BY <2>1, <3>2, <3>3, <3>4, <3>6, CommitView
  <2>5. QED
    BY <1>1, <2>2, <2>3, <2>4
<1>2. CASE UNCHANGED vars
  BY <1>2 DEF vars, server, store, history, ViewSound, ViewTyped, StoreTyped, ServerSound, NewestTold,
     PageSound, FillsSound, FillsCountedOnce
<1>3. QED
  BY <1>1, <1>2, PublishCommitView, DepositPublishesView, DepositEndsView, ServerStopsView,
     PageStepView, RenderView, HydrateView DEF Next, Server, Page

LEMMA ViewFollows == ViewSound => ViewFollowsServer /\ FillsCountedOnce
<1> SUFFICES ASSUME ViewSound PROVE ViewFollowsServer
  BY DEF ViewSound, FillsSound
<1> SUFFICES ASSUME page.phase = "live", unsent = {}, deposit = 0
             PROVE  /\ \A o \in Orders \ doubt : orders.byId[o] = db[o]
                    /\ \A c \in Currencies \ doubt : cash[c] # 0 => cash[c] = bal[c]
  BY DEF ViewFollowsServer
<1>1. ASSUME NEW o \in Orders, o \notin doubt
      PROVE  orders.byId[o] = db[o]
  <2>1. db[o].rev \in Nat /\ orders.byId[o].rev \in Nat /\ told[o] \in Nat
    BY OrderTypes DEF ViewSound, ViewTyped, StoreTyped, Items, Revs
  <2>2. db[o].rev <= told[o] /\ told[o] <= orders.byId[o].rev /\ Genuine(orders.byId[o], db[o])
    BY <1>1 DEF ViewSound, NewestTold, PageSound
  <2>3. QED
    BY <2>1, <2>2 DEF Genuine
<1>2. ASSUME NEW c \in Currencies, c \notin doubt, cash[c] # 0
      PROVE  cash[c] = bal[c]
  <2>1. bal[c] \in Nat /\ cash[c] \in Nat /\ told[c] \in Nat
    BY DEF ViewSound, ViewTyped, StoreTyped, Items, Revs
  <2>2. bal[c] <= told[c] /\ told[c] <= cash[c] /\ cash[c] <= bal[c]
    BY <1>2 DEF ViewSound, NewestTold, PageSound
  <2>3. QED
    BY <2>1, <2>2
<1>3. QED
  BY <1>1, <1>2

-----------------------------------------------------------------------------
(* Positions                                                                *)

USE ChartDataAssumption, HoldingsAssumption

\* Rows, as far as they matter here: the empty one has no quantity.
RowsTyped(rs) == rs = [a \in Assets |-> rs[a]] /\ \A a \in Assets : rs[a] = NoRow \/ rs[a].qty \in Nat

\* No row disappears, and what the page has read is what the store is about to
\* get; a list is shown on a page that is shown.
HoldingsSound ==
  /\ RowsTyped(held)
  /\ visit = [stage |-> visit.stage, home |-> visit.home, done |-> visit.done,
              answer |-> visit.answer]
  /\ \A a \in Assets : held[a] = NoRow => kept[a] = NoRow /\ visit.answer[a] = NoRow
  /\ Known(visit.answer) # {} => \A a \in Assets \ late : visit.answer[a] = held[a]
  /\ tab.shown => visit.stage = "shown"
  /\ HoldingsFollow

\* A list of some assets, as Put chooses it.
LEMMA ListOfShown ==
  ASSUME NEW S \in SUBSET Assets, NEW f \in SetToSeqs(S)
  PROVE  Len(f) = Cardinality(Range(f)) /\ Range(f) = S
<1> DEFINE n == Cardinality(S)
<1>1. IsFiniteSet(S) /\ n \in Nat
  BY FS_Subset, FS_CardinalityType
<1>2. f \in [1..n -> S] /\ \A i, j \in 1..n : i # j => f[i] # f[j]
  BY DEF SetToSeqs
<1>3. IsFiniteSet(1..n) /\ Cardinality(1..n) = n
  BY <1>1, FS_Interval
<1>4. f \in Injection(1..n, S)
  BY <1>2 DEF Injection, IsInjective
<1>5. f \in Surjection(1..n, S)
  <2> DEFINE D == 1..n
  <2>1. f \in Injection(D, S) /\ Cardinality(D) = Cardinality(S)
    BY <1>3, <1>4
  <2> HIDE DEF D
  <2>2. f \in Surjection(D, S)
    BY <1>1, <2>1, FS_Injection, Zenon
  <2>3. QED
    BY <2>2 DEF D
<1>6. Range(f) = S
  <2>1. \A x \in S : \E i \in 1..n : f[i] = x
    BY <1>5, Zenon DEF Surjection
  <2>2. DOMAIN f = 1..n /\ \A i \in 1..n : f[i] \in S
    BY <1>2
  <2>3. QED
    BY <2>1, <2>2, Zenon DEF Range
<1>7. Len(f) = n
  BY <1>1, <1>2
<1>8. QED
  BY <1>6, <1>7

LEMMA PutSound ==
  ASSUME HoldingsSound, visit.stage = "shown", NEW key, NEW dir, NEW query, Put(key, dir, query)
  PROVE  HoldingsSound'
<1>1. PICK list \in SetToSeqs(Shown(query)) :
        /\ InOrder(key, dir, list)
        /\ tab' = [shown |-> TRUE, query |-> query, key |-> key, dir |-> dir, rows |-> list]
  BY DEF Put
<1>2. /\ ticked' = FALSE
      /\ UNCHANGED <<held, quotes, visit, own, kept, fillCount, visits, late, outdated>>
  BY DEF Put
<1>3. tab'.shown /\ tab'.query = query /\ tab'.key = key /\ tab'.dir = dir /\ tab'.rows = list
  BY <1>1
<1>4. Shown(query) \in SUBSET Assets
  BY DEF Shown, Known
<1>5. Len(list) = Cardinality(Range(list)) /\ Range(list) = Shown(query)
  BY <1>1, <1>4, ListOfShown
<1>6. InOrder(key, dir, list)' <=> InOrder(key, dir, list)
  BY <1>2 DEF InOrder, Below, EvalAmount, Profit, Return
<1>7. Shown(query)' = Shown(query)
  BY <1>2 DEF Shown, Known
<1>8. HoldingsFollow'
  BY <1>1, <1>2, <1>3, <1>5, <1>6, <1>7 DEF HoldingsSound, HoldingsFollow
<1>9. QED
  BY <1>2, <1>3, <1>8 DEF HoldingsSound, RowsTyped, Known

LEMMA InitHoldings == HoldingsInit => HoldingsSound
<1> SUFFICES ASSUME HoldingsInit PROVE HoldingsSound
  OBVIOUS
<1>1. /\ \A a \in Assets : held[a] = NoRow /\ kept[a] = NoRow /\ visit.answer[a] = NoRow
      /\ ~tab.shown /\ Known(visit.answer) = {}
  BY DEF HoldingsInit, NoRows, NoVisit, NoTab, Known
<1>2. RowsTyped(held)
  BY <1>1 DEF HoldingsInit, RowsTyped, NoRows
<1>3. HoldingsFollow
  BY <1>1 DEF HoldingsFollow
<1>4. QED
  BY <1>1, <1>2, <1>3 DEF HoldingsInit, HoldingsSound, NoVisit

LEMMA FilledSound ==
  ASSUME HoldingsSound, NEW a \in Assets, NEW row, row.qty \in Nat, Filled(a, row)
  PROVE  HoldingsSound'
<1>1. /\ held' = [held EXCEPT ![a] = row] /\ late' = late \cup {a} /\ outdated' = outdated \cup {a}
      /\ UNCHANGED <<quotes, visit, own, kept, tab, visits, ticked>>
  BY DEF Filled
<1>2. held = [b \in Assets |-> held[b]]
  BY DEF HoldingsSound, RowsTyped
<1>3. \A b \in Assets : held'[b] = IF b = a THEN row ELSE held[b]
  BY <1>1, <1>2
<1>4. row # NoRow
  BY DEF NoRow
<1>5. RowsTyped(held')
  BY <1>1, <1>2, <1>3 DEF HoldingsSound, RowsTyped
<1>6. \A key, dir, list : InOrder(key, dir, list)' <=> InOrder(key, dir, list)
  BY <1>1 DEF InOrder, Below, EvalAmount, Profit, Return
<1>7. \A query : Shown(query)' = Shown(query)
  BY <1>1 DEF Shown, Known
<1>8. HoldingsFollow'
  BY <1>1, <1>3, <1>6, <1>7 DEF HoldingsSound, HoldingsFollow
<1>9. QED
  BY <1>1, <1>3, <1>4, <1>5, <1>8 DEF HoldingsSound, Known

LEMMA NextHoldings == HoldingsSound /\ [HoldingsNext]_holdingVars => HoldingsSound'
<1> SUFFICES ASSUME HoldingsSound, [HoldingsNext]_holdingVars PROVE HoldingsSound'
  OBVIOUS
<1>1. ASSUME NEW a \in Assets, BuyAsset(a) \/ SellAsset(a)
      PROVE  HoldingsSound'
  <2>1. held[a] = NoRow \/ held[a].qty \in Nat
    BY DEF HoldingsSound, RowsTyped
  <2>2. CASE BuyAsset(a)
    <3> DEFINE row == IF held[a] = NoRow THEN [qty |-> 0, cost |-> 0] ELSE held[a]
    <3>1. Filled(a, AfterBuy(row, quotes[a]))
      BY <2>2 DEF BuyAsset
    <3>2. row.qty \in Nat
      BY <2>1
    <3>3. AfterBuy(row, quotes[a]).qty \in Nat
      BY <3>2 DEF AfterBuy
    <3>4. QED
      BY <3>1, <3>3, FilledSound
  <2>3. CASE SellAsset(a)
    <3>1. held[a].qty > 0 /\ Filled(a, AfterSale(held[a]))
      BY <2>3 DEF SellAsset
    <3>2. held[a].qty \in Nat \ {0}
      BY <2>1, <3>1 DEF NoRow
    <3>3. AfterSale(held[a]).qty \in Nat
      BY <3>2 DEF AfterSale
    <3>4. QED
      BY <3>1, <3>3, FilledSound
  <2>4. QED
    BY <1>1, <2>2, <2>3
<1>2. ASSUME NEW a \in Assets, NEW p \in Quotes, TickAsset(a, p)
      PROVE  HoldingsSound'
  <2>1. ticked' = TRUE /\ UNCHANGED <<held, visit, own, kept, tab, late, outdated>>
    BY <1>2 DEF TickAsset
  <2>2. \A query : Shown(query)' = Shown(query)
    BY <2>1 DEF Shown, Known
  <2>3. HoldingsFollow'
    BY <2>1, <2>2 DEF HoldingsSound, HoldingsFollow
  <2>4. QED
    BY <2>1, <2>3 DEF HoldingsSound, Known
<1>3. ASSUME NEW home \in BOOLEAN, VisitPage(home)
      PROVE  HoldingsSound'
  <2>1. /\ visit' = [stage |-> "reading", home |-> home, done |-> FALSE, answer |-> NoRows]
        /\ tab' = NoTab /\ UNCHANGED <<held, kept, late, outdated>>
    BY <1>3 DEF VisitPage, NoVisit
  <2>2. \A a \in Assets : NoRows[a] = NoRow
    BY DEF NoRows
  <2>3. ~tab'.shown
    BY <2>1 DEF NoTab
  <2>4. HoldingsFollow'
    BY <2>1, <2>3 DEF HoldingsSound, HoldingsFollow
  <2>5. QED
    BY <2>1, <2>2, <2>3, <2>4 DEF HoldingsSound, Known
<1>4. CASE FetchPositions
  <2>1. /\ visit.stage = "reading" /\ ~visit.done
        /\ \/ visit' = [visit EXCEPT !.done = TRUE, !.answer = held] /\ late' = {}
           \/ visit' = [visit EXCEPT !.done = TRUE] /\ late' = late
        /\ UNCHANGED <<held, quotes, own, kept, tab, fillCount, visits, outdated, ticked>>
    BY <1>4 DEF FetchPositions, GetMyPositions
  <2>2. /\ visit' = [stage |-> visit'.stage, home |-> visit'.home, done |-> visit'.done,
                     answer |-> visit'.answer]
        /\ \/ visit'.answer = held
           \/ visit'.answer = visit.answer /\ late' = late
    BY <2>1 DEF HoldingsSound
  <2>3. ~tab.shown
    BY <2>1 DEF HoldingsSound
  <2>4. HoldingsFollow'
    BY <2>1, <2>3 DEF HoldingsSound, HoldingsFollow
  <2>5. QED
    BY <2>1, <2>2, <2>3, <2>4 DEF HoldingsSound, Known
<1>5. CASE ShowPage
  <2>1. /\ visit.stage = "reading"
        /\ visit' = [visit EXCEPT !.stage = "shown", !.answer = NoRows]
        /\ IF Known(visit.answer) = {} THEN UNCHANGED <<kept, outdated>>
           ELSE kept' = HydratedBy(visit.answer) /\ outdated' = late
        /\ UNCHANGED <<held, quotes, tab, fillCount, visits, late, ticked>>
    BY <1>5 DEF ShowPage
  <2>2. visit' = [stage |-> "shown", home |-> visit.home, done |-> visit.done, answer |-> NoRows]
    BY <2>1 DEF HoldingsSound
  <2>3. /\ \A a \in Assets : NoRows[a] = NoRow
        /\ Known(NoRows) = {}
    BY DEF NoRows, Known
  <2>4. ~tab.shown
    BY <2>1 DEF HoldingsSound
  <2>5. /\ \A a \in Assets : held[a] = NoRow => kept'[a] = NoRow
        /\ \A a \in Assets \ outdated' : kept'[a] = held[a]
    <3>1. CASE Known(visit.answer) = {}
      BY <2>1, <3>1 DEF HoldingsSound, HoldingsFollow
    <3>2. CASE Known(visit.answer) # {}
      <4>1. /\ \A a \in Assets : kept'[a] = IF visit.answer[a] # NoRow THEN visit.answer[a] ELSE kept[a]
            /\ outdated' = late
        BY <2>1, <3>2 DEF HydratedBy
      <4>2. \A a \in Assets \ late : visit.answer[a] = held[a]
        BY <3>2 DEF HoldingsSound
      <4>3. \A a \in Assets : held[a] = NoRow => kept[a] = NoRow /\ visit.answer[a] = NoRow
        BY DEF HoldingsSound
      <4>4. QED
        BY <4>1, <4>2, <4>3
    <3>3. QED
      BY <3>1, <3>2
  <2>6. HoldingsFollow'
    BY <2>1, <2>4, <2>5 DEF HoldingsFollow
  <2>7. RowsTyped(held)'
    BY <2>1 DEF HoldingsSound, RowsTyped
  <2>8. visit'.answer = NoRows /\ ~tab'.shown /\ held' = held
        /\ visit' = [stage |-> visit'.stage, home |-> visit'.home, done |-> visit'.done,
                     answer |-> visit'.answer]
    BY <2>1, <2>2, <2>4
  <2>9. \A a \in Assets : held'[a] = NoRow => kept'[a] = NoRow /\ visit'.answer[a] = NoRow
    BY <2>3, <2>5, <2>8
  <2>10. Known(visit'.answer) = {}
    BY <2>3, <2>8
  <2>11. QED
    BY <2>6, <2>7, <2>8, <2>9, <2>10 DEF HoldingsSound, Known
<1>6. CASE LoadDocument
  <2>1. /\ visit' = NoVisit /\ kept' = NoRows /\ tab' = NoTab /\ outdated' = Known(held)
        /\ UNCHANGED <<held, late>>
    BY <1>6 DEF LoadDocument
  <2>2. /\ \A a \in Assets : NoRows[a] = NoRow
        /\ Known(NoRows) = {}
        /\ NoVisit = [stage |-> "none", home |-> FALSE, done |-> FALSE, answer |-> NoRows]
        /\ NoVisit.answer = NoRows /\ ~NoTab.shown
    BY DEF NoRows, Known, NoVisit, NoTab
  <2>3. HoldingsFollow'
    BY <2>1, <2>2 DEF HoldingsFollow, Known
  <2>4. QED
    BY <2>1, <2>2, <2>3 DEF HoldingsSound, Known
<1>7. ASSUME NEW q, OpenTab(q) \/ SetHoldingQuery(q)
      PROVE  HoldingsSound'
  BY <1>7, PutSound DEF OpenTab, SetHoldingQuery, HoldingsSound
<1>8. CASE CloseTab
  <2>1. /\ tab' = IF visit.home THEN [NoTab EXCEPT !.key = tab.key, !.dir = tab.dir] ELSE NoTab
        /\ UNCHANGED <<held, quotes, visit, own, kept, late, outdated>>
    BY <1>8 DEF CloseTab
  <2>2. ~tab'.shown
    BY <2>1 DEF NoTab
  <2>3. HoldingsFollow'
    BY <2>1, <2>2 DEF HoldingsSound, HoldingsFollow
  <2>4. QED
    BY <2>1, <2>2, <2>3 DEF HoldingsSound, Known
<1>9. CASE Reorder
  BY <1>9, PutSound DEF Reorder, HoldingsSound
<1>10. ASSUME NEW key, ToggleSort(key) \/ \E d \in {"asc", "desc"} : SortExplicit(key, d)
       PROVE  HoldingsSound'
  BY <1>10, PutSound DEF ToggleSort, SortExplicit, HoldingsSound
<1>11. CASE UNCHANGED holdingVars
  <2>1. \A key, dir, list : InOrder(key, dir, list)' <=> InOrder(key, dir, list)
    BY <1>11 DEF holdingVars, InOrder, Below, EvalAmount, Profit, Return
  <2>2. \A query : Shown(query)' = Shown(query)
    BY <1>11 DEF holdingVars, Shown, Known
  <2>3. QED
    BY <1>11, <2>1, <2>2 DEF holdingVars, HoldingsSound, HoldingsFollow, RowsTyped, Known
<1>12. QED
  BY <1>1, <1>2, <1>3, <1>4, <1>5, <1>6, <1>7, <1>8, <1>9, <1>10, <1>11 DEF HoldingsNext

-----------------------------------------------------------------------------
(* The chart: sets of times                                                 *)

\* The newest n of the times up to b.
Newest(b, n) == {t \in 1..b : b < t + n}

LEMMA LeastTime ==
  ASSUME NEW S \in SUBSET Nat, S # {}
  PROVE  \E m \in S : \A t \in S : m <= t
<1>1. PICK m \in S : \A t \in S : ~ (<<t, m>> \in OpToRel(<, Nat))
  BY NatLessThanWellFounded, WFMin, Zenon
<1>2. \A t \in S : ~ (t < m)
  BY <1>1 DEF OpToRel
<1>3. QED
  BY <1>2

LEMMA Extremes ==
  ASSUME NEW S \in SUBSET ChartTimes, S # {}
  PROVE  /\ Min(S) \in S /\ Max(S) \in S
         /\ \A t \in S : Min(S) <= t /\ t <= Max(S)
<1>1. S \subseteq Nat /\ \A t \in S : t \in Nat /\ t <= MaxTime
  BY DEF ChartTimes
<1>2. PICK m \in S : \A t \in S : m <= t
  BY <1>1, LeastTime
<1>3. Min(S) \in S /\ \A t \in S : Min(S) <= t
  BY <1>2 DEF Min
<1> DEFINE T == {MaxTime - t : t \in S}
<1>4. T \subseteq Nat /\ T # {}
  BY <1>1
<1>5. PICK k \in T : \A u \in T : k <= u
  <2> HIDE DEF T
  <2> QED
    BY <1>4, LeastTime
<1>6. PICK x \in S : k = MaxTime - x
  BY <1>5
<1>7. \A t \in S : t <= x
  <2>1. ASSUME NEW t \in S
        PROVE  t <= x
    <3>1. MaxTime - x <= MaxTime - t
      BY <1>5, <1>6
    <3>2. QED
      BY <1>1, <3>1
  <2>2. QED
    BY <2>1
<1>8. Max(S) \in S /\ \A t \in S : t <= Max(S)
  <2>1. \A t \in S : x >= t
    BY <1>1, <1>7
  <2>2. Max(S) \in S /\ \A t \in S : Max(S) >= t
    BY <2>1 DEF Max
  <2>3. QED
    BY <1>1, <2>2
<1>9. QED
  BY <1>3, <1>8

LEMMA TimesFinite ==
  ASSUME NEW S \in SUBSET ChartTimes
  PROVE  IsFiniteSet(S) /\ Cardinality(S) \in Nat
<1>1. IsFiniteSet(1..MaxTime)
  <2>1. 1 \in Int /\ MaxTime \in Int
    OBVIOUS
  <2>2. QED
    BY <2>1, FS_Interval
<1>2. IsFiniteSet(S)
  BY <1>1, FS_Subset DEF ChartTimes
<1>3. QED
  BY <1>2, FS_CardinalityType

\* NewestOf of times among which are the newest n up to b: those.
LEMMA NewestOfTimes ==
  ASSUME NEW b \in ChartTimes, NEW n \in Nat \ {0}, NEW T \in SUBSET (1..b), Newest(b, n) \subseteq T
  PROVE  NewestOf(T, n) = Newest(b, n)
<1>1. b \in Nat /\ T \in SUBSET ChartTimes
  BY DEF ChartTimes
<1>2. ASSUME NEW t \in T
      PROVE  Cardinality({u \in T : u > t}) < n <=> b < t + n
  <2> DEFINE U == {u \in T : u > t}
  <2>1. t \in Nat /\ 1 <= t /\ t <= b
    BY <1>1
  <2>2. U \in SUBSET ChartTimes
    BY <1>1
  <2>3. IsFiniteSet(U) /\ Cardinality(U) \in Nat
    BY <2>2, TimesFinite
  <2>4. CASE b < t + n
    <3> DEFINE V == (t + 1)..b
    <3>1. t + 1 \in Int /\ b \in Int
      BY <1>1, <2>1
    <3>2. IsFiniteSet(V) /\ Cardinality(V) = IF t + 1 > b THEN 0 ELSE b - (t + 1) + 1
      BY <3>1, FS_Interval
    <3>3. U \subseteq V
      <4>1. ASSUME NEW u \in T, u > t
            PROVE  u \in V
        <5>1. u \in Nat /\ u <= b
          BY <1>1
        <5>2. t + 1 <= u
          BY <2>1, <4>1, <5>1
        <5>3. QED
          BY <2>1, <5>1, <5>2
      <4>2. QED
        BY <4>1
    <3>4. Cardinality(U) <= Cardinality(V)
      <4> HIDE DEF U, V
      <4> QED
        BY <3>2, <3>3, FS_Subset
    <3> HIDE DEF U, V
    <3>5. Cardinality(V) < n
      BY <1>1, <2>1, <2>4, <3>2
    <3>6. Cardinality(V) \in Nat
      BY <3>2, FS_CardinalityType
    <3>7. Cardinality(U) < n
      BY <2>3, <3>4, <3>5, <3>6
    <3>8. QED
      BY <2>4, <3>7 DEF U
  <2>5. CASE ~ (b < t + n)
    <3> DEFINE V == (b - n + 1)..b
    <3>1. b - n + 1 \in Int /\ b \in Int
      BY <1>1
    <3>2. IsFiniteSet(V) /\ Cardinality(V) = IF b - n + 1 > b THEN 0 ELSE b - (b - n + 1) + 1
      BY <3>1, FS_Interval
    <3>3. V \subseteq U
      <4>1. ASSUME NEW u \in V
            PROVE  u \in Newest(b, n) /\ u > t
        BY <1>1, <2>1, <2>5 DEF Newest
      <4>2. QED
        BY <4>1
    <3>4. Cardinality(V) <= Cardinality(U)
      <4> HIDE DEF U, V
      <4> QED
        BY <2>3, <3>3, FS_Subset
    <3> HIDE DEF U, V
    <3>5. Cardinality(V) = n
      BY <1>1, <3>2
    <3>6. ~ (Cardinality(U) < n)
      BY <2>3, <3>4, <3>5
    <3>7. QED
      BY <2>5, <3>6 DEF U
  <2>6. QED
    BY <2>4, <2>5
<1>3. QED
  BY <1>2 DEF NewestOf, Newest

LEMMA NewestWithin ==
  ASSUME NEW T, NEW n
  PROVE  NewestOf(T, n) \subseteq T
BY DEF NewestOf

\* What is answered is upward closed.
LEMMA NewestUpward ==
  ASSUME NEW T \in SUBSET ChartTimes, NEW n \in Nat, NEW t \in T, NEW u \in NewestOf(T, n), u <= t
  PROVE  t \in NewestOf(T, n)
<1> DEFINE A == {v \in T : v > t}
           B == {v \in T : v > u}
<1>1. u \in T /\ Cardinality(B) < n
  BY Zenon DEF NewestOf
<1> \A v \in T : v \in Nat
  BY DEF ChartTimes
<1>2. A \subseteq B /\ B \in SUBSET ChartTimes /\ A \in SUBSET ChartTimes
  BY <1>1
<1>3. IsFiniteSet(B) /\ Cardinality(B) \in Nat /\ Cardinality(A) \in Nat
  BY <1>2, TimesFinite
<1>4. Cardinality(A) <= Cardinality(B)
  <2> HIDE DEF A, B
  <2> QED
    BY <1>2, <1>3, FS_Subset
<1>5. Cardinality(A) < n
  <2> HIDE DEF A, B
  <2> QED
    BY <1>1, <1>3, <1>4
<1>6. QED
  BY <1>5 DEF NewestOf

\* Fewer than were asked for are all there are.
LEMMA NewestAll ==
  ASSUME NEW T \in SUBSET ChartTimes, NEW n \in Nat, Cardinality(NewestOf(T, n)) < n
  PROVE  NewestOf(T, n) = T
<1> DEFINE N == NewestOf(T, n)
           M == T \ N
<1>1. N \subseteq T
  BY NewestWithin
<1>2. SUFFICES ASSUME M # {} PROVE FALSE
  BY <1>1
<1>3. M \in SUBSET ChartTimes /\ N \in SUBSET ChartTimes
  BY <1>1
<1>4. Max(M) \in M /\ \A t \in M : t <= Max(M)
  <2> HIDE DEF M
  <2> QED
    BY <1>2, <1>3, Extremes
<1> DEFINE x == Max(M)
           U == {u \in T : u > x}
<1>5. x \in T /\ x \notin N /\ \A t \in M : t <= x
  BY <1>4
<1>6. \A t \in T : t \in Nat
  BY DEF ChartTimes
<1>7. U \subseteq N
  <2>1. ASSUME NEW u \in T, u > x, u \notin N
        PROVE  FALSE
    <3>1. u <= x
      BY <1>5, <2>1
    <3> HIDE DEF x
    <3>2. QED
      BY <1>5, <1>6, <2>1, <3>1
  <2>2. QED
    BY <2>1
<1>8. ~ (Cardinality(U) < n)
  BY <1>5 DEF NewestOf
<1>9. U \in SUBSET ChartTimes
  OBVIOUS
<1>10. IsFiniteSet(N) /\ Cardinality(N) \in Nat /\ Cardinality(U) \in Nat
  BY <1>3, <1>9, TimesFinite
<1> HIDE DEF U
<1>11. Cardinality(U) <= Cardinality(N)
  BY <1>7, <1>10, FS_Subset
<1>12. QED
  BY <1>8, <1>10, <1>11

\* If none of the newest two or more of the times up to m is before it, none is.
LEMMA NewestNotBefore ==
  ASSUME NEW m \in ChartTimes, NEW T \in SUBSET (1..m), NEW n \in Nat \ {0, 1},
         \A t \in NewestOf(T, n) : ~ (t < m)
  PROVE  \A t \in T : ~ (t < m)
<1> DEFINE M == {t \in T : t < m}
<1>1. SUFFICES ASSUME M # {} PROVE FALSE
  OBVIOUS
<1>2. M \in SUBSET ChartTimes /\ m \in Nat /\ \A t \in T : t \in Nat /\ t <= m
  <2>1. m \in Nat /\ m <= MaxTime
    BY DEF ChartTimes
  <2>2. \A t \in T : t \in Nat /\ 1 <= t /\ t <= m
    BY <2>1
  <2>3. \A t \in T : t \in 1..MaxTime
    BY <2>1, <2>2
  <2>4. QED
    BY <2>1, <2>2, <2>3 DEF ChartTimes
<1>3. Max(M) \in M /\ \A t \in M : t <= Max(M)
  <2> HIDE DEF M
  <2> QED
    BY <1>1, <1>2, Extremes
<1> DEFINE x == Max(M)
           U == {u \in T : u > x}
<1>4. x \in T /\ x < m /\ \A t \in M : t <= x
  BY <1>3
<1>5. U \subseteq {m}
  <2>1. ASSUME NEW u \in T, u > x
        PROVE  u = m
    <3>1. u \in Nat /\ u <= m /\ x \in Nat
      BY <1>2, <1>4
    <3>2. u < m => u <= x
      BY <1>4
    <3> HIDE DEF x
    <3>3. QED
      BY <1>2, <2>1, <3>1, <3>2
  <2>2. QED
    BY <2>1
<1>6. IsFiniteSet({m}) /\ Cardinality({m}) = 1
  BY FS_Singleton
<1>7. Cardinality(U) <= 1 /\ Cardinality(U) \in Nat
  <2> HIDE DEF U
  <2> QED
    BY <1>5, <1>6, FS_Subset, FS_CardinalityType
<1>8. Cardinality(U) < n
  <2> HIDE DEF U
  <2> QED
    BY <1>7
<1>9. x \in NewestOf(T, n)
  BY <1>4, <1>8 DEF NewestOf
<1>10. QED
  BY <1>4, <1>9

-----------------------------------------------------------------------------
(* The chart: the invariant                                                 *)

ChartTyped ==
  /\ latest \in ChartTimes /\ rows \in [Codes -> SUBSET ChartTimes]
  /\ sel \in Codes /\ first \in [Codes -> (SUBSET ChartTimes) \cup {Unknown}]
  /\ hasMore \in BOOLEAN /\ overtaken \in BOOLEAN
  /\ series \subseteq Drawable /\ volumes \subseteq Drawable
  /\ filled \subseteq Drawable /\ empty \subseteq Drawable
  /\ load.on \in BOOLEAN
  /\ load.on => load.code \in Codes /\ load.before \in ChartTimes /\ load.existing \subseteq Drawable

\* The newest rows of a market are without gaps for a page at least: what is
\* read first of them reaches back a page, or to the first candle.
RowsSound ==
  \A c \in Codes : rows[c] # {} =>
    \E b \in 1..latest : rows[c] \subseteq 1..b /\ Newest(b, Count) \subseteq rows[c]

FirstSound ==
  \A c \in Codes : first[c] \notin {Unknown, {}} => \E b \in 1..latest : first[c] = Newest(b, Count)

OneEach(data) == \A p, q \in data : p[2] = q[2] => p = q

\* Complete and AtItsEnd, with the ends of the chart named.
DrawnWhole ==
  \A t \in KnownRows(sel) :
    (\E p, q \in series : p[2] <= t /\ t <= q[2]) => <<sel, t>> \in series

AtEnd ==
  \E m \in TimesOf(series) :
    /\ \A p \in series : m <= p[2]
    /\ <<sel, m>> \in empty \/ \A t \in KnownRows(sel) : m <= t

Good == ~overtaken /\ first[sel] \notin {Unknown, {}}

\* A page that is loading continues what it was asked for, and that is what is
\* drawn, unless it was overtaken.
DrawnSound ==
  /\ OneEach(series)
  /\ load.on => OneEach(load.existing) /\ \A p \in load.existing : load.before <= p[2]
  /\ Good => /\ series # {} /\ (\A p \in series : p[1] = sel) /\ volumes = series
             /\ DrawnWhole /\ (hasMore \/ AtEnd)
             /\ load.on => /\ load.code = sel /\ load.existing = series
                           /\ load.before \in TimesOf(series)

ChartSound == ChartTyped /\ RowsSound /\ FirstSound /\ DrawnSound

LEMMA DrawnTimes ==
  ASSUME ChartTyped
  PROVE  /\ TimesOf(series) \in SUBSET ChartTimes
         /\ \A p \in series : /\ p[2] \in TimesOf(series) /\ p[2] \in ChartTimes /\ p[2] \in Nat
                              /\ p = <<p[1], p[2]>> /\ p[1] \in Codes
         /\ \A t \in TimesOf(series) : \E p \in series : t = p[2]
         /\ TimesOf(series) = {} <=> series = {}
<1>1. ASSUME NEW p \in series
      PROVE  p[2] \in ChartTimes /\ p = <<p[1], p[2]>> /\ p[1] \in Codes
  BY DEF ChartTyped, Drawable
<1>2. \A t \in ChartTimes : t \in Nat
  BY DEF ChartTimes
<1>3. QED
  BY <1>1, <1>2 DEF TimesOf

LEMMA ChartHolds == ChartSound => ChartIsItsMarket
<1> SUFFICES ASSUME ChartSound PROVE ChartIsItsMarket
  OBVIOUS
<1> DEFINE S == TimesOf(series)
<1>1. ChartTyped /\ OneEach(series)
  BY DEF ChartSound, DrawnSound
<1>2. /\ S \in SUBSET ChartTimes
      /\ \A p \in series : p[2] \in S /\ p[2] \in Nat
      /\ \A t \in S : \E p \in series : t = p[2]
      /\ S = {} <=> series = {}
  BY <1>1, DrawnTimes
<1>3. Cardinality(S) = Cardinality(series)
  <2> DEFINE f == [p \in series |-> p[2]]
  <2>1. f \in Injection(series, S) /\ f \in Surjection(series, S)
    <3>1. f \in [series -> S]
      BY <1>2
    <3>2. \A p, q \in series : f[p] = f[q] => p = q
      BY <1>1 DEF OneEach
    <3>3. \A t \in S : \E p \in series : f[p] = t
      BY <1>2
    <3> HIDE DEF f, S
    <3>4. QED
      BY <3>1, <3>2, <3>3 DEF Injection, IsInjective, Surjection
  <2>2. IsFiniteSet(S)
    BY <1>2, TimesFinite
  <2> HIDE DEF f, S
  <2>3. QED
    BY <2>1, <2>2, FS_Injection
<1>4. ChartTypeOK
  <2> HIDE DEF S
  <2> QED
    BY <1>1, <1>3 DEF ChartTyped, ChartTypeOK, S
<1>5. ASSUME Settled
      PROVE  /\ \A p \in series : p[1] = sel
             /\ Complete /\ volumes = series
             /\ hasMore \/ AtItsEnd
  <2>1. Good
    BY <1>5 DEF Settled, Good
  <2>2. /\ series # {} /\ (\A p \in series : p[1] = sel) /\ volumes = series
        /\ DrawnWhole /\ (hasMore \/ AtEnd)
    BY <2>1 DEF ChartSound, DrawnSound
  <2>3. Min(S) \in S /\ Max(S) \in S /\ \A t \in S : Min(S) <= t
    <3> HIDE DEF S
    <3> QED
      BY <1>2, <2>2, Extremes
  <2>4. Complete
    <3>1. ASSUME NEW t \in KnownRows(sel), Min(S) <= t, t <= Max(S)
          PROVE  <<sel, t>> \in series
      <4>1. PICK p \in series : Min(S) = p[2]
        BY <1>2, <2>3
      <4>2. PICK q \in series : Max(S) = q[2]
        BY <1>2, <2>3
      <4>3. p[2] <= t /\ t <= q[2]
        BY <3>1, <4>1, <4>2
      <4>4. QED
        BY <2>2, <4>3 DEF DrawnWhole
    <3>2. QED
      BY <3>1 DEF Complete
  <2>5. AtEnd => AtItsEnd
    <3> SUFFICES ASSUME AtEnd PROVE AtItsEnd
      OBVIOUS
    <3>1. PICK m \in S : /\ \A p \in series : m <= p[2]
                         /\ <<sel, m>> \in empty \/ \A t \in KnownRows(sel) : m <= t
      BY DEF AtEnd
    <3>2. m = Min(S)
      <4>1. m <= Min(S)
        BY <1>2, <2>3, <3>1
      <4>2. Min(S) <= m /\ m \in Nat /\ Min(S) \in Nat
        BY <1>2, <2>3 DEF ChartTimes
      <4> HIDE DEF S
      <4>3. QED
        BY <4>1, <4>2
    <3>3. \A t \in KnownRows(sel) : t \in Nat /\ m \in Nat
      BY <1>1, <1>2 DEF ChartTyped, KnownRows, ChartTimes
    <3>4. <<sel, Min(S)>> \in empty \/ \A t \in KnownRows(sel) : t >= Min(S)
      BY <3>1, <3>2, <3>3
    <3>5. QED
      BY <3>4 DEF AtItsEnd
  <2>6. QED
    BY <2>2, <2>4, <2>5
<1>6. QED
  BY <1>4, <1>5 DEF ChartIsItsMarket

-----------------------------------------------------------------------------
(* The chart: what the steps do                                             *)

LEMMA InitChart == ChartInit => ChartSound
<1> SUFFICES ASSUME ChartInit PROVE ChartSound
  OBVIOUS
<1>1. /\ latest = 1 /\ rows = [c \in Codes |-> {}] /\ sel \in Codes
      /\ first = [c \in Codes |-> Unknown] /\ series = {} /\ volumes = {} /\ hasMore = TRUE
      /\ ~load.on /\ load.on \in BOOLEAN /\ empty = {} /\ overtaken = FALSE /\ filled = {}
  BY DEF ChartInit, NoLoad
<1>2. 1 \in ChartTimes
  BY DEF ChartTimes
<1>3. ChartTyped
  <2>1. rows \in [Codes -> SUBSET ChartTimes] /\ first \in [Codes -> (SUBSET ChartTimes) \cup {Unknown}]
    <3> DEFINE S == SUBSET ChartTimes
               U == S \cup {Unknown}
    <3>1. {} \in S /\ Unknown \in U
      OBVIOUS
    <3> HIDE DEF S, U
    <3>2. rows \in [Codes -> S] /\ first \in [Codes -> U]
      BY <1>1, <3>1
    <3>3. QED
      BY <3>2 DEF S, U
  <2>2. series \subseteq Drawable /\ volumes \subseteq Drawable /\ filled \subseteq Drawable
        /\ empty \subseteq Drawable
    BY <1>1
  <2>3. QED
    BY <1>1, <1>2, <2>1, <2>2 DEF ChartTyped
<1>4. RowsSound /\ FirstSound /\ DrawnSound
  BY <1>1 DEF RowsSound, FirstSound, DrawnSound, OneEach, Good
<1>5. QED
  BY <1>3, <1>4 DEF ChartSound

\* What Upbit gives, and the table.
LEMMA UpbitNewest ==
  ASSUME ChartTyped, NEW n \in Nat \ {0}
  PROVE  Upbit(n) = Newest(latest, n)
<1>1. latest \in ChartTimes /\ 1..latest \in SUBSET (1..latest) /\ Newest(latest, n) \subseteq 1..latest
  BY DEF ChartTyped, Newest
<1>2. QED
  BY <1>1, NewestOfTimes DEF Upbit

LEMMA TimesUpTo ==
  ASSUME NEW b \in ChartTimes
  PROVE  1..b \subseteq ChartTimes /\ b \in Nat
BY DEF ChartTimes

LEMMA RowsBelow ==
  ASSUME ChartTyped, RowsSound, NEW c \in Codes
  PROVE  rows[c] \subseteq 1..latest /\ {t \in rows[c] : t <= latest} = rows[c]
<1>1. latest \in Nat
  BY TimesUpTo DEF ChartTyped
<1>2. rows[c] \subseteq 1..latest
  <2>1. CASE rows[c] = {}
    BY <2>1
  <2>2. CASE rows[c] # {}
    <3>1. PICK b \in 1..latest : rows[c] \subseteq 1..b
      BY <2>2 DEF RowsSound
    <3>2. 1..b \subseteq 1..latest
      BY <1>1
    <3>3. QED
      BY <3>1, <3>2
  <2>3. QED
    BY <2>1, <2>2
<1>3. QED
  BY <1>1, <1>2

\* The first candles, of the table and of both.
LEMMA FirstOfTable ==
  ASSUME ChartTyped, RowsSound, NEW c \in Codes
  PROVE  /\ FromDb(c, latest) = {} \/ \E b \in 1..latest : FromDb(c, latest) = Newest(b, Count)
         /\ FromDb(c, latest) \subseteq 1..latest
<1>1. rows[c] \subseteq 1..latest /\ FromDb(c, latest) = NewestOf(rows[c], Count)
  BY RowsBelow DEF FromDb
<1>2. FromDb(c, latest) \subseteq rows[c]
  BY <1>1, NewestWithin
<1>3. CASE rows[c] = {}
  BY <1>1, <1>2, <1>3
<1>4. CASE rows[c] # {}
  <2>1. PICK b \in 1..latest : rows[c] \subseteq 1..b /\ Newest(b, Count) \subseteq rows[c]
    BY <1>4 DEF RowsSound
  <2>2. b \in ChartTimes /\ Count \in Nat \ {0}
    BY TimesUpTo DEF ChartTyped
  <2>3. NewestOf(rows[c], Count) = Newest(b, Count)
    BY <2>1, <2>2, NewestOfTimes
  <2>4. QED
    BY <1>1, <1>2, <2>3
<1>5. QED
  BY <1>3, <1>4

LEMMA FirstOfBoth ==
  ASSUME ChartTyped, RowsSound, NEW c \in Codes
  PROVE  Merged(c, Upbit(Count)) = Newest(latest, Count)
<1> DEFINE T == FromDb(c, latest) \cup Upbit(Count)
<1>1. latest \in ChartTimes /\ Count \in Nat \ {0} /\ Upbit(Count) = Newest(latest, Count)
  BY UpbitNewest DEF ChartTyped
<1>2. T \in SUBSET (1..latest) /\ Newest(latest, Count) \subseteq T
  BY <1>1, FirstOfTable DEF Newest
<1>3. NewestOf(T, Count) = Newest(latest, Count)
  <2> HIDE DEF T
  <2> QED
    BY <1>1, <1>2, NewestOfTimes
<1>4. QED
  BY <1>3 DEF Merged

\* Rows are written: what was not known of a market before is at no time before
\* one of its candles on the chart.
LEMMA SavedRows ==
  ASSUME ChartTyped, RowsSound, NEW c \in Codes, NEW n \in Nat \ {0}, Count <= n,
         Saved(c, Upbit(n)), latest' = latest
  PROVE  /\ rows' \in [Codes -> SUBSET ChartTimes] /\ filled' \subseteq Drawable /\ RowsSound'
         /\ \A k \in Codes : \A t \in rows'[k] : <<k, t>> \notin filled' =>
              \/ t \in rows[k] /\ <<k, t>> \notin filled
              \/ \A q \in series : q[1] = k => ~ (q[2] > t)
<1> DEFINE got == Newest(latest, n)
<1>1. Upbit(n) = got
  BY UpbitNewest
<1>2. /\ rows' = [rows EXCEPT ![c] = @ \cup got]
      /\ filled' = filled \cup {p \in Of(c, got \ rows[c]) : \E q \in series : q[1] = c /\ q[2] > p[2]}
  BY <1>1, Zenon DEF Saved
<1>3. got \subseteq 1..latest /\ got \subseteq ChartTimes /\ latest \in Nat /\ latest \in 1..latest
      /\ latest \in ChartTimes
  <2>1. latest \in ChartTimes /\ latest \in Nat /\ 1..latest \subseteq ChartTimes
    BY TimesUpTo DEF ChartTyped
  <2>2. latest \in 1..latest
    BY <2>1 DEF ChartTimes
  <2>3. got \subseteq 1..latest
    BY DEF Newest
  <2>4. QED
    BY <2>1, <2>2, <2>3
<1>4. Newest(latest, Count) \subseteq got
  BY <1>3 DEF Newest
<1> HIDE DEF got
<1>5. rows' \in [Codes -> SUBSET ChartTimes] /\ \A k \in Codes :
        rows'[k] = IF k = c THEN rows[c] \cup got ELSE rows[k]
  BY <1>2, <1>3 DEF ChartTyped
<1>6. filled' \subseteq Drawable
  <2>1. \A t \in got : <<c, t>> \in Drawable
    BY <1>3 DEF Drawable
  <2>2. Of(c, got \ rows[c]) \subseteq Drawable
    BY <2>1 DEF Of
  <2>3. QED
    BY <1>2, <2>2 DEF ChartTyped
<1>7. RowsSound'
  <2>1. ASSUME NEW k \in Codes, rows'[k] # {}
        PROVE  \E b \in 1..latest : rows'[k] \subseteq 1..b /\ Newest(b, Count) \subseteq rows'[k]
    <3>1. CASE k = c
      <4>1. rows'[k] \subseteq 1..latest
        BY <1>3, <1>5, <3>1, RowsBelow
      <4>2. Newest(latest, Count) \subseteq rows'[k]
        BY <1>4, <1>5, <3>1
      <4>3. QED
        BY <1>3, <4>1, <4>2
    <3>2. CASE k # c
      BY <1>5, <2>1, <3>2 DEF RowsSound
    <3>3. QED
      BY <3>1, <3>2
  <2>2. QED
    BY <2>1 DEF RowsSound
<1>8. ASSUME NEW k \in Codes, NEW t \in rows'[k], <<k, t>> \notin filled',
             ~ (t \in rows[k] /\ <<k, t>> \notin filled)
      PROVE  \A q \in series : q[1] = k => ~ (q[2] > t)
  <2>1. <<k, t>> \notin filled
    BY <1>2, <1>8
  <2>2. k = c /\ t \in got \ rows[c]
    BY <1>5, <1>8, <2>1
  <2>3. <<k, t>> \in Of(c, got \ rows[c]) /\ <<k, t>>[2] = t
    BY <2>2 DEF Of
  <2>4. ~ \E q \in series : q[1] = c /\ q[2] > t
    BY <1>2, <1>8, <2>3
  <2>5. QED
    BY <2>2, <2>4
<1>9. QED
  BY <1>5, <1>6, <1>7, <1>8

\* A chart that stays as it is, over such a write.
LEMMA KeptDrawn ==
  ASSUME ChartSound, UNCHANGED <<sel, drawn, load, empty, overtaken>>, first'[sel] = first[sel],
         \A t \in rows'[sel] : <<sel, t>> \notin filled' =>
              \/ t \in rows[sel] /\ <<sel, t>> \notin filled
              \/ \A q \in series : q[1] = sel => ~ (q[2] > t),
         rows' \in [Codes -> SUBSET ChartTimes]
  PROVE  DrawnSound'
<1>1. ChartTyped /\ DrawnSound
  BY DEF ChartSound
<1>2. UNCHANGED <<sel, series, volumes, hasMore, load, empty, overtaken>> /\ (Good' <=> Good)
  BY DEF drawn, Good
<1>3. ASSUME Good
      PROVE  DrawnWhole' /\ (hasMore' \/ AtEnd')
  <2>1. /\ series # {} /\ (\A p \in series : p[1] = sel) /\ DrawnWhole /\ (hasMore \/ AtEnd)
    BY <1>1, <1>3 DEF DrawnSound
  <2>2. \A p \in series : p[2] \in Nat /\ p = <<sel, p[2]>>
    BY <1>1, <2>1, DrawnTimes
  <2>3. ASSUME NEW t \in KnownRows(sel)'
        PROVE  t \in Nat /\ (t \in KnownRows(sel) \/ \A q \in series : ~ (q[2] > t))
    <3>1. t \in rows'[sel] /\ <<sel, t>> \notin filled' /\ sel \in Codes
      BY <1>1, <1>2 DEF KnownRows, ChartTyped
    <3>2. t \in Nat
      BY <3>1 DEF ChartTimes
    <3>3. t \in KnownRows(sel) \/ \A q \in series : ~ (q[2] > t)
      BY <2>1, <3>1 DEF KnownRows
    <3>4. QED
      BY <3>2, <3>3
  <2>4. DrawnWhole'
    <3>1. ASSUME NEW t \in KnownRows(sel)', NEW p \in series, NEW q \in series, p[2] <= t, t <= q[2]
          PROVE  <<sel, t>> \in series
      <4>1. CASE t \in KnownRows(sel)
        BY <2>1, <3>1, <4>1 DEF DrawnWhole
      <4>2. CASE \A r \in series : ~ (r[2] > t)
        <5>1. t = q[2]
          BY <2>2, <2>3, <3>1, <4>2
        <5>2. QED
          BY <2>2, <5>1
      <4>3. QED
        BY <2>3, <4>1, <4>2
    <3>2. QED
      BY <1>2, <3>1 DEF DrawnWhole
  <2>5. ASSUME AtEnd PROVE AtEnd'
    <3>1. PICK m \in TimesOf(series) : /\ \A p \in series : m <= p[2]
                                       /\ <<sel, m>> \in empty \/ \A t \in KnownRows(sel) : m <= t
      BY <2>5 DEF AtEnd
    <3>2. PICK q \in series : m = q[2]
      BY <1>1, DrawnTimes
    <3>3. ASSUME \A t \in KnownRows(sel) : m <= t
          PROVE  \A t \in KnownRows(sel)' : m <= t
      <4>1. ASSUME NEW t \in KnownRows(sel)'
            PROVE  m <= t
        <5>1. m \in Nat /\ t \in Nat
          BY <2>2, <2>3, <3>2
        <5>2. t \in KnownRows(sel) => m <= t
          BY <3>3
        <5>3. (\A r \in series : ~ (r[2] > t)) => ~ (m > t)
          BY <3>2
        <5>4. QED
          BY <2>3, <5>1, <5>2, <5>3
      <4>2. QED
        BY <4>1
    <3>4. QED
      BY <1>2, <3>1, <3>3 DEF AtEnd
  <2>6. QED
    BY <1>2, <2>1, <2>4, <2>5
<1>4. QED
  BY <1>1, <1>2, <1>3 DEF DrawnSound

\* First candles that are drawn.
LEMMA DrawSound ==
  ASSUME ChartSound, NEW c \in Codes, NEW data, Draw(c, data), sel' = c, first'[c] = data, load' = load,
         data = {} \/ \E b \in 1..latest : data = Newest(b, Count),
         rows' \in [Codes -> SUBSET ChartTimes]
  PROVE  /\ DrawnSound' /\ series' \subseteq Drawable /\ volumes' \subseteq Drawable
         /\ hasMore' \in BOOLEAN /\ overtaken' \in BOOLEAN
<1>1. ChartTyped /\ DrawnSound
  BY DEF ChartSound
<1>2. CASE data = {}
  <2>1. hasMore' = FALSE /\ UNCHANGED <<series, volumes, overtaken>>
    BY <1>2 DEF Draw
  <2>2. ~ Good'
    BY <1>2 DEF Good
  <2>3. QED
    BY <1>1, <2>1, <2>2 DEF ChartTyped, DrawnSound
<1>3. CASE data # {}
  <2>1. /\ series' = Of(c, data) /\ volumes' = Of(c, data)
        /\ hasMore' = (Cardinality(data) >= Count) /\ overtaken' = load.on
    BY <1>3 DEF Draw
  <2>2. PICK b \in 1..latest : data = Newest(b, Count)
    BY <1>3
  <2>3. b \in ChartTimes /\ b \in Nat /\ data \subseteq 1..b /\ 1..b \subseteq ChartTimes
    BY <1>1, <2>2, TimesUpTo DEF ChartTyped, Newest
  <2>4. /\ \A p \in Of(c, data) : p[1] = c /\ p[2] \in data /\ p \in Drawable /\ p = <<c, p[2]>>
        /\ \A t \in data : <<c, t>> \in Of(c, data)
        /\ TimesOf(Of(c, data)) = data
    <3>1. \A t \in data : <<c, t>> \in Drawable /\ <<c, t>>[1] = c /\ <<c, t>>[2] = t
      BY <2>3 DEF Drawable
    <3>2. \A p \in Of(c, data) : \E t \in data : p = <<c, t>>
      BY DEF Of
    <3>3. \A t \in data : <<c, t>> \in Of(c, data)
      BY DEF Of
    <3>4. \A p \in Of(c, data) : p[1] = c /\ p[2] \in data /\ p \in Drawable /\ p = <<c, p[2]>>
      BY <3>1, <3>2
    <3>5. TimesOf(Of(c, data)) = data
      <4>1. ASSUME NEW t \in data
            PROVE  \E p \in Of(c, data) : t = p[2]
        <5>1. <<c, t>> \in Of(c, data) /\ t = <<c, t>>[2]
          BY <3>1, <3>3
        <5>2. QED
          BY <5>1
      <4>2. QED
        BY <3>4, <4>1 DEF TimesOf
    <3>6. QED
      BY <3>3, <3>4, <3>5
  <2>5. /\ series' \subseteq Drawable /\ volumes' \subseteq Drawable
        /\ hasMore' \in BOOLEAN /\ overtaken' \in BOOLEAN
    BY <1>1, <2>1, <2>4 DEF ChartTyped
  <2>6. OneEach(series')
    BY <2>1, <2>4 DEF OneEach
  <2>7. \A t \in KnownRows(sel)' : t \in Nat /\ 1 <= t
    BY DEF KnownRows, ChartTimes
  <2>8. DrawnWhole'
    <3>1. ASSUME NEW t \in KnownRows(sel)', NEW p \in Of(c, data), NEW q \in Of(c, data),
                 p[2] <= t, t <= q[2]
          PROVE  t \in data
      <4>1. /\ p[2] \in 1..b /\ q[2] \in 1..b /\ t \in Nat
            /\ b < p[2] + Count
        BY <2>2, <2>3, <2>4, <2>7 DEF Newest
      <4>2. t \in 1..b /\ b < t + Count
        BY <2>3, <3>1, <4>1
      <4>3. QED
        BY <2>2, <4>2 DEF Newest
    <3>2. QED
      BY <2>1, <2>4, <3>1 DEF DrawnWhole
  <2>9. hasMore' \/ AtEnd'
    <3>1. CASE Count <= b
      <4> DEFINE V == (b - Count + 1)..b
      <4>1. b - Count + 1 \in Int /\ b \in Int /\ b - Count + 1 <= b
        BY <2>3
      <4>2. IsFiniteSet(V) /\ Cardinality(V) = IF b - Count + 1 > b THEN 0 ELSE b - (b - Count + 1) + 1
        BY <4>1, FS_Interval
      <4>3. data = V
        BY <2>2, <2>3, <3>1 DEF Newest
      <4> HIDE DEF V
      <4>4. Cardinality(V) = Count
        BY <2>3, <3>1, <4>2
      <4>5. Cardinality(data) >= Count
        BY <4>3, <4>4
      <4>6. QED
        BY <2>1, <4>5
    <3>2. CASE b < Count
      <4>1. 1 \in data
        <5>1. latest \in Nat
          BY <1>1, TimesUpTo DEF ChartTyped
        <5>2. 1 \in 1..b /\ b < 1 + Count
          BY <2>2, <2>3, <3>2, <5>1
        <5>3. 1 \in Newest(b, Count)
          BY <5>2 DEF Newest
        <5>4. QED
          BY <2>2, <5>3
      <4>2. 1 \in TimesOf(series') /\ \A p \in series' : 1 <= p[2]
        <5>1. TimesOf(series') = data
          BY <2>1, <2>4
        <5>2. \A t \in data : 1 <= t
          BY <2>3
        <5>3. QED
          BY <2>1, <2>4, <4>1, <5>1, <5>2
      <4>3. QED
        BY <2>7, <4>2 DEF AtEnd
    <3>3. QED
      BY <2>3, <3>1, <3>2
  <2>10. Good' => ~ load.on
    BY <2>1 DEF Good
  <2>11. series' # {} /\ (\A p \in series' : p[1] = sel') /\ volumes' = series'
    BY <1>3, <2>1, <2>4
  <2>12. DrawnSound'
    BY <1>1, <2>6, <2>8, <2>9, <2>10, <2>11 DEF DrawnSound
  <2>13. QED
    BY <2>5, <2>12
<1>4. QED
  BY <1>2, <1>3

LEMMA TickRefreshChart ==
  ASSUME ChartSound, Tick \/ \E c \in Codes : Refresh(c)
  PROVE  ChartSound'
<1>1. ChartTyped /\ RowsSound /\ FirstSound /\ DrawnSound
  BY DEF ChartSound
<1>2. CASE Tick
  <2>1. /\ latest + 1 \in ChartTimes /\ latest' = latest + 1
        /\ UNCHANGED <<rows, sel, first, series, volumes, hasMore, load, empty, overtaken, filled>>
    BY <1>2 DEF Tick, drawn
  <2>2. latest \in Nat /\ 1..latest \subseteq 1..latest'
    BY <1>1, <2>1 DEF ChartTyped, ChartTimes
  <2>3. ChartTyped'
    BY <1>1, <2>1 DEF ChartTyped
  <2>4. RowsSound'
    BY <1>1, <2>1, <2>2 DEF RowsSound
  <2>5. FirstSound'
    BY <1>1, <2>1, <2>2 DEF FirstSound
  <2>6. DrawnSound'
    BY <1>1, <2>1 DEF DrawnSound, Good, DrawnWhole, AtEnd, KnownRows
  <2>7. QED
    BY <2>3, <2>4, <2>5, <2>6 DEF ChartSound
<1>3. ASSUME NEW c \in Codes, Refresh(c)
      PROVE  ChartSound'
  <2>1. PICK pages \in 1..MaxPages : Saved(c, Upbit(Count * pages))
    BY <1>3 DEF Refresh
  <2>2. UNCHANGED <<latest, sel, first, series, volumes, hasMore, load, empty, overtaken>>
    BY <1>3 DEF Refresh, drawn
  <2> DEFINE n == Count * pages
  <2>3. n \in Nat \ {0} /\ Count <= n
    <3>1. pages \in Nat /\ 1 <= pages /\ Count \in Nat /\ 1 <= Count
      OBVIOUS
    <3>2. Count * pages \in Nat /\ Count * pages = Count + Count * (pages - 1)
          /\ Count * (pages - 1) \in Nat
      BY <3>1
    <3>3. QED
      BY <3>1, <3>2
  <2>4. Saved(c, Upbit(n))
    BY <2>1
  <2> HIDE DEF n
  <2>5. /\ rows' \in [Codes -> SUBSET ChartTimes] /\ filled' \subseteq Drawable /\ RowsSound'
        /\ \A k \in Codes : \A t \in rows'[k] : <<k, t>> \notin filled' =>
              \/ t \in rows[k] /\ <<k, t>> \notin filled
              \/ \A q \in series : q[1] = k => ~ (q[2] > t)
    BY <1>1, <2>2, <2>3, <2>4, SavedRows
  <2>6. ChartTyped'
    BY <1>1, <2>2, <2>5 DEF ChartTyped
  <2>7. FirstSound'
    BY <1>1, <2>2 DEF FirstSound
  <2>8. sel \in Codes /\ UNCHANGED <<sel, drawn, load, empty, overtaken>> /\ first'[sel] = first[sel]
    BY <1>1, <2>2 DEF ChartTyped, drawn
  <2>9. DrawnSound'
    BY <2>5, <2>8, KeptDrawn
  <2>10. QED
    BY <2>5, <2>6, <2>7, <2>9 DEF ChartSound
<1>4. QED
  BY <1>2, <1>3

LEMMA SelectChart ==
  ASSUME ChartSound, NEW c \in Codes, Select(c)
  PROVE  ChartSound'
<1>1. ChartTyped /\ RowsSound /\ FirstSound /\ DrawnSound
  BY DEF ChartSound
<1>2. /\ sel' = c /\ UNCHANGED <<latest, rows, first, load, empty, filled>>
      /\ IF first[c] = Unknown THEN UNCHANGED <<drawn, overtaken>> ELSE Draw(c, first[c])
  BY DEF Select, chartRows
<1>3. CASE first[c] = Unknown
  <2>1. UNCHANGED <<series, volumes, hasMore, overtaken>> /\ ~ Good'
    BY <1>2, <1>3 DEF drawn, Good
  <2>2. ChartTyped' /\ RowsSound' /\ FirstSound' /\ DrawnSound'
    BY <1>1, <1>2, <2>1 DEF ChartTyped, RowsSound, FirstSound, DrawnSound
  <2>3. QED
    BY <2>2 DEF ChartSound
<1>4. CASE first[c] # Unknown
  <2>1. first[c] = {} \/ \E b \in 1..latest : first[c] = Newest(b, Count)
    BY <1>1, <1>4 DEF FirstSound
  <2>2. rows' \in [Codes -> SUBSET ChartTimes] /\ first'[c] = first[c] /\ Draw(c, first[c])
    BY <1>1, <1>2, <1>4 DEF ChartTyped
  <2>3. /\ DrawnSound' /\ series' \subseteq Drawable /\ volumes' \subseteq Drawable
        /\ hasMore' \in BOOLEAN /\ overtaken' \in BOOLEAN
    BY <1>2, <2>1, <2>2, DrawSound
  <2>4. ChartTyped' /\ RowsSound' /\ FirstSound'
    BY <1>1, <1>2, <2>3 DEF ChartTyped, RowsSound, FirstSound
  <2>5. QED
    BY <2>3, <2>4 DEF ChartSound
<1>5. QED
  BY <1>3, <1>4

LEMMA FirstAnsweredChart ==
  ASSUME ChartSound, FirstAnswered
  PROVE  ChartSound'
<1>1. ChartTyped /\ RowsSound /\ FirstSound /\ DrawnSound /\ sel \in Codes
  BY DEF ChartSound, ChartTyped
<1>2. PICK data :
        /\ FirstAnswer(data)
        /\ data = {} \/ \E b \in 1..latest : data = Newest(b, Count)
        /\ data \subseteq 1..latest
        /\ rows' \in [Codes -> SUBSET ChartTimes] /\ filled' \subseteq Drawable /\ RowsSound'
        /\ \A t \in rows'[sel] : <<sel, t>> \notin filled' =>
              \/ t \in rows[sel] /\ <<sel, t>> \notin filled
              \/ \A q \in series : q[1] = sel => ~ (q[2] > t)
  <2>1. CASE Saved(sel, Upbit(Count)) /\ FirstAnswer(Merged(sel, Upbit(Count)))
    <3>1. latest' = latest
      BY <2>1 DEF FirstAnswer
    <3>2. Count \in Nat \ {0} /\ Count <= Count
      OBVIOUS
    <3>3. /\ rows' \in [Codes -> SUBSET ChartTimes] /\ filled' \subseteq Drawable /\ RowsSound'
          /\ \A t \in rows'[sel] : <<sel, t>> \notin filled' =>
                \/ t \in rows[sel] /\ <<sel, t>> \notin filled
                \/ \A q \in series : q[1] = sel => ~ (q[2] > t)
      BY <1>1, <2>1, <3>1, <3>2, SavedRows
    <3>4. Merged(sel, Upbit(Count)) = Newest(latest, Count)
      BY <1>1, FirstOfBoth
    <3>5. latest \in 1..latest /\ Newest(latest, Count) \subseteq 1..latest
      <4>1. latest \in Nat /\ 1 <= latest
        BY <1>1 DEF ChartTyped, ChartTimes
      <4>2. QED
        BY <4>1 DEF Newest
    <3>6. FirstAnswer(Newest(latest, Count))
      BY <2>1, <3>4
    <3>7. QED
      BY <3>3, <3>5, <3>6
  <2>2. CASE \E data \in {FromDb(sel, latest), {}} : FirstAnswer(data) /\ UNCHANGED <<rows, filled>>
    <3>1. PICK data \in {FromDb(sel, latest), {}} : FirstAnswer(data) /\ UNCHANGED <<rows, filled>>
      BY <2>2
    <3>2. /\ data = {} \/ \E b \in 1..latest : data = Newest(b, Count)
          /\ data \subseteq 1..latest
      BY <1>1, <3>1, FirstOfTable
    <3>3. latest' = latest
      BY <3>1 DEF FirstAnswer
    <3>4. /\ rows' \in [Codes -> SUBSET ChartTimes] /\ filled' \subseteq Drawable
          /\ rows' = rows /\ filled' = filled
      BY <1>1, <3>1 DEF ChartTyped
    <3>5. RowsSound'
      BY <1>1, <3>3, <3>4 DEF RowsSound
    <3>6. QED
      BY <3>1, <3>2, <3>4, <3>5
  <2>3. QED
    BY <2>1, <2>2 DEF FirstAnswered
<1>3. /\ first' = [first EXCEPT ![sel] = data]
      /\ IF data = first[sel] THEN UNCHANGED <<drawn, overtaken>> ELSE Draw(sel, data)
      /\ UNCHANGED <<latest, sel, load, empty>>
  BY <1>2 DEF FirstAnswer
<1>4. data \in SUBSET ChartTimes
  <2>1. 1..latest \subseteq ChartTimes
    BY <1>1, TimesUpTo DEF ChartTyped
  <2>2. QED
    BY <1>2, <2>1
<1>5. /\ first' \in [Codes -> (SUBSET ChartTimes) \cup {Unknown}]
      /\ \A c \in Codes : first'[c] = IF c = sel THEN data ELSE first[c]
  BY <1>1, <1>3, <1>4 DEF ChartTyped
<1>6. FirstSound'
  BY <1>1, <1>2, <1>3, <1>5 DEF FirstSound
<1>7. /\ DrawnSound' /\ series' \subseteq Drawable /\ volumes' \subseteq Drawable
      /\ hasMore' \in BOOLEAN /\ overtaken' \in BOOLEAN
  <2>1. CASE data = first[sel]
    <3>1. UNCHANGED <<sel, drawn, load, empty, overtaken>> /\ first'[sel] = first[sel]
      BY <1>1, <1>3, <1>5, <2>1
    <3>2. DrawnSound'
      BY <1>2, <3>1, KeptDrawn
    <3>3. QED
      BY <1>1, <3>1, <3>2 DEF drawn, ChartTyped
  <2>2. CASE data # first[sel]
    <3>1. Draw(sel, data) /\ sel' = sel /\ first'[sel] = data /\ load' = load
      BY <1>1, <1>3, <1>5, <2>2
    <3>2. QED
      BY <1>1, <1>2, <3>1, DrawSound
  <2>3. QED
    BY <2>1, <2>2
<1>8. ChartTyped'
  BY <1>1, <1>2, <1>3, <1>5, <1>7 DEF ChartTyped
<1>9. QED
  BY <1>2, <1>6, <1>7, <1>8 DEF ChartSound

LEMMA LoadMoreChart ==
  ASSUME ChartSound, LoadMore
  PROVE  ChartSound'
<1>1. ChartTyped /\ RowsSound /\ FirstSound /\ DrawnSound
  BY DEF ChartSound
<1>2. /\ series # {}
      /\ load' = [on |-> TRUE, code |-> sel, before |-> Min(TimesOf(series)), existing |-> series]
      /\ UNCHANGED <<latest, rows, sel, first, series, volumes, hasMore, empty, overtaken, filled>>
  BY DEF LoadMore, chartRows, drawn
<1> DEFINE S == TimesOf(series)
<1>3. S \in SUBSET ChartTimes /\ S # {} /\ \A p \in series : p[2] \in S
  BY <1>1, <1>2, DrawnTimes
<1>4. Min(S) \in S /\ \A t \in S : Min(S) <= t
  <2> HIDE DEF S
  <2> QED
    BY <1>3, Extremes
<1>5. load'.on = TRUE /\ load'.code = sel /\ load'.before = Min(S) /\ load'.existing = series
  BY <1>2
<1> HIDE DEF S
<1>6. ChartTyped'
  BY <1>1, <1>2, <1>3, <1>4, <1>5 DEF ChartTyped
<1>7. RowsSound' /\ FirstSound'
  BY <1>1, <1>2 DEF RowsSound, FirstSound
<1>8. DrawnSound'
  <2>1. OneEach(series') /\ OneEach(load'.existing) /\ \A p \in load'.existing : load'.before <= p[2]
    BY <1>1, <1>2, <1>3, <1>4, <1>5 DEF DrawnSound
  <2>2. (Good' <=> Good) /\ (DrawnWhole' <=> DrawnWhole) /\ (AtEnd' <=> AtEnd)
    BY <1>2 DEF Good, DrawnWhole, AtEnd, KnownRows
  <2>3. load'.before \in TimesOf(series')
    BY <1>2, <1>4, <1>5 DEF S
  <2>4. QED
    BY <1>1, <1>2, <1>5, <2>1, <2>2, <2>3 DEF DrawnSound
<1>9. QED
  BY <1>6, <1>7, <1>8 DEF ChartSound

LEMMA TickerSyncChart ==
  ASSUME ChartSound, TickerSync
  PROVE  ChartSound'
<1>1. ChartTyped /\ RowsSound /\ FirstSound /\ DrawnSound
  BY DEF ChartSound
<1>2. /\ series # {} /\ Max(TimesOf(series)) = latest
      /\ series' = {p \in series : p[2] # latest} \cup {<<sel, latest>>}
      /\ UNCHANGED <<latest, rows, sel, first, volumes, hasMore, load, empty, overtaken, filled>>
  BY DEF TickerSync, chartRows
<1>3. <<sel, latest>> \in Drawable /\ <<sel, latest>>[2] = latest /\ <<sel, latest>>[1] = sel
  BY <1>1 DEF ChartTyped, Drawable
<1>4. ChartTyped'
  BY <1>1, <1>2, <1>3 DEF ChartTyped
<1>5. RowsSound' /\ FirstSound'
  BY <1>1, <1>2 DEF RowsSound, FirstSound
<1>6. OneEach(series')
  BY <1>1, <1>2, <1>3 DEF OneEach, DrawnSound
<1>7. Good => series' = series
  <2> SUFFICES ASSUME Good PROVE series' = series
    OBVIOUS
  <2> DEFINE S == TimesOf(series)
  <2>1. S \in SUBSET ChartTimes /\ S # {} /\ (\A t \in S : \E p \in series : t = p[2])
        /\ \A p \in series : p = <<p[1], p[2]>>
    BY <1>1, <1>2, DrawnTimes
  <2>2. Max(S) \in S
    <3> HIDE DEF S
    <3> QED
      BY <2>1, Extremes
  <2>3. PICK q \in series : latest = q[2]
    BY <1>2, <2>1, <2>2
  <2>4. \A p \in series : p[1] = sel
    BY <1>1 DEF DrawnSound
  <2>5. \A p \in series : p[2] = latest => p = <<sel, latest>>
    BY <2>1, <2>4
  <2>6. <<sel, latest>> \in series
    BY <2>3, <2>5
  <2>7. QED
    BY <1>2, <2>5, <2>6
<1>8. DrawnSound'
  <2>1. Good' <=> Good
    BY <1>2 DEF Good
  <2>2. CASE Good
    <3>1. series' = series
      BY <1>7, <2>2
    <3>2. QED
      BY <1>1, <1>2, <2>1, <2>2, <3>1 DEF DrawnSound, DrawnWhole, AtEnd, KnownRows
  <2>3. CASE ~ Good
    BY <1>1, <1>2, <1>6, <2>1, <2>3 DEF DrawnSound
  <2>4. QED
    BY <2>2, <2>3
<1>9. QED
  BY <1>4, <1>5, <1>8 DEF ChartSound

\* The older page: what it adds is older, and all there is between it and the
\* chart; and where it ends the loading, nothing is older.
LEMMA OlderPage ==
  ASSUME ChartTyped, load.on, NEW data,
         data = {} \/ data = FromDb(load.code, load.before)
  PROVE  LET older == Older(data)
         IN  /\ older \subseteq rows[load.code] /\ older \subseteq ChartTimes
             /\ \A t \in older : t < load.before
             /\ \A u \in older : \A t \in rows[load.code] :
                  u <= t /\ t < load.before => t \in older
             /\ data # {} /\ older = {} => \A t \in rows[load.code] : load.before <= t
             /\ older # {} /\ Cardinality(data) < Count =>
                  \A t \in rows[load.code] : t < load.before => t \in older
<1> DEFINE m == load.before
           R == rows[load.code]
           T == {t \in R : t <= m}
           older == Older(data)
<1>1. /\ m \in ChartTimes /\ R \in SUBSET ChartTimes /\ Count \in Nat \ {0, 1}
  BY DEF ChartTyped
<1>2. m \in Nat /\ \A t \in R : t \in Nat /\ 1 <= t
  BY <1>1 DEF ChartTimes
<1>3. T \in SUBSET ChartTimes /\ T \in SUBSET (1..m) /\ T \subseteq R
  BY <1>1, <1>2
<1>4. data = {} \/ data = NewestOf(T, Count)
  BY DEF FromDb
<1>5. data \subseteq T
  BY <1>4, NewestWithin
<1>6. older = {t \in data : t < m}
  BY DEF Older
<1> HIDE DEF m, R, older
<1>7. older \subseteq R /\ older \subseteq ChartTimes /\ \A t \in older : t < m
  BY <1>3, <1>5, <1>6
<1>8. ASSUME NEW u \in older, NEW t \in R, u <= t, t < m
      PROVE  t \in older
  <2>1. u \in NewestOf(T, Count) /\ data = NewestOf(T, Count)
    BY <1>4, <1>6, <1>8
  <2>2. t \in T
    BY <1>2, <1>8
  <2>3. t \in NewestOf(T, Count)
    <3> HIDE DEF T
    <3> QED
      BY <1>1, <1>3, <1>8, <2>1, <2>2, NewestUpward
  <2>4. QED
    BY <1>6, <1>8, <2>1, <2>3
<1>9. ASSUME data # {}, older = {}
      PROVE  \A t \in R : m <= t
  <2>1. \A t \in NewestOf(T, Count) : ~ (t < m)
    BY <1>4, <1>6, <1>9
  <2>2. \A t \in T : ~ (t < m)
    <3> HIDE DEF T
    <3> QED
      BY <1>1, <1>3, <2>1, NewestNotBefore
  <2>3. ASSUME NEW t \in R
        PROVE  m <= t
    <3>1. t \in Nat
      BY <1>2
    <3>2. t < m => t \in T
      BY <1>2, <3>1
    <3>3. ~ (t < m)
      BY <2>2, <3>2
    <3>4. QED
      BY <1>2, <3>1, <3>3
  <2>4. QED
    BY <2>3
<1>10. ASSUME older # {}, Cardinality(data) < Count
       PROVE  \A t \in R : t < m => t \in older
  <2>1. data = NewestOf(T, Count)
    BY <1>4, <1>6, <1>10
  <2>2. data = T
    <3> HIDE DEF T
    <3> QED
      BY <1>1, <1>3, <1>10, <2>1, NewestAll
  <2>3. QED
    BY <1>2, <1>6, <2>2
<1>11. QED
  BY <1>7, <1>8, <1>9, <1>10 DEF m, R, older

LEMMA PageAnsweredChart ==
  ASSUME ChartSound, PageAnswered
  PROVE  ChartSound'
<1>1. ChartTyped /\ RowsSound /\ FirstSound /\ DrawnSound
  BY DEF ChartSound
<1> DEFINE asked == <<load.code, load.before>>
<1>2. PICK data :
        /\ PageAnswer(data)
        /\ \/ asked \notin empty /\ data = FromDb(load.code, load.before) /\ empty' = empty
           \/ data = {} /\ empty' = empty \cup {asked}
  BY Zenon DEF PageAnswered
<1>3. load.on /\ UNCHANGED <<latest, rows, sel, first, overtaken, filled>>
  BY DEF PageAnswered, chartRows
<1> DEFINE older == Older(data)
           old   == Of(load.code, older)
<1>4. /\ IF old = {} THEN UNCHANGED <<series, volumes>>
         ELSE series' = old \cup load.existing /\ volumes' = old \cup volumes
      /\ hasMore' = (hasMore /\ ~ (old = {} \/ Cardinality(data) < Count))
      /\ load' = NoLoad
  BY <1>2 DEF PageAnswer, NoMoreAfter
<1>5. /\ older \subseteq rows[load.code] /\ older \subseteq ChartTimes
      /\ \A t \in older : t < load.before
      /\ \A u \in older : \A t \in rows[load.code] : u <= t /\ t < load.before => t \in older
      /\ data # {} /\ older = {} => \A t \in rows[load.code] : load.before <= t
      /\ older # {} /\ Cardinality(data) < Count =>
           \A t \in rows[load.code] : t < load.before => t \in older
  <2>1. data = {} \/ data = FromDb(load.code, load.before)
    BY <1>2
  <2>2. QED
    BY <1>1, <1>3, <2>1, OlderPage, Zenon
<1>6. /\ load.code \in Codes /\ load.before \in ChartTimes /\ load.existing \subseteq Drawable
      /\ OneEach(load.existing) /\ \A p \in load.existing : load.before <= p[2]
  BY <1>1, <1>3 DEF ChartTyped, DrawnSound
<1>7. data = {} => older = {}
  BY DEF Older
<1>8. /\ \A p \in old : /\ p[1] = load.code /\ p[2] \in older /\ p \in Drawable
                        /\ p = <<load.code, p[2]>>
      /\ \A t \in older : <<load.code, t>> \in old
      /\ old = {} <=> older = {}
  <2> HIDE DEF older
  <2>1. \A t \in older : /\ <<load.code, t>> \in Drawable
                         /\ <<load.code, t>>[1] = load.code /\ <<load.code, t>>[2] = t
    BY <1>5, <1>6 DEF Drawable
  <2>2. (\A p \in old : \E t \in older : p = <<load.code, t>>)
        /\ \A t \in older : <<load.code, t>> \in old
    BY DEF Of
  <2> HIDE DEF old
  <2>3. ASSUME NEW p \in old
        PROVE  /\ p[1] = load.code /\ p[2] \in older /\ p \in Drawable
               /\ p = <<load.code, p[2]>>
    <3>1. PICK t \in older : p = <<load.code, t>>
      BY <2>2
    <3>2. p[1] = load.code /\ p[2] = t /\ p \in Drawable
      BY <2>1, <3>1
    <3>3. QED
      BY <3>1, <3>2
  <2>4. old = {} <=> older = {}
    BY <2>2
  <2>5. QED
    BY <2>2, <2>3, <2>4
<1> HIDE DEF older, old
<1>9. ~ load'.on /\ load'.on \in BOOLEAN
  BY <1>4 DEF NoLoad
<1>10. /\ series' \subseteq Drawable /\ volumes' \subseteq Drawable /\ empty' \subseteq Drawable
       /\ hasMore' \in BOOLEAN
  <2>1. series' \subseteq Drawable /\ volumes' \subseteq Drawable
    BY <1>1, <1>4, <1>6, <1>8 DEF ChartTyped
  <2>2. asked \in Drawable
    BY <1>6 DEF Drawable
  <2>3. empty' \subseteq Drawable
    BY <1>1, <1>2, <2>2 DEF ChartTyped
  <2>4. QED
    BY <1>4, <2>1, <2>3
<1>11. ChartTyped'
  BY <1>1, <1>3, <1>9, <1>10 DEF ChartTyped
<1>12. RowsSound' /\ FirstSound'
  BY <1>1, <1>3 DEF RowsSound, FirstSound
<1>13. OneEach(series')
  <2>1. CASE old = {}
    BY <1>1, <1>4, <2>1 DEF DrawnSound
  <2>2. CASE old # {}
    <3>1. series' = old \cup load.existing
      BY <1>4, <2>2
    <3>2. \A p, q \in old : p[2] = q[2] => p = q
      BY <1>8
    <3>3. ASSUME NEW p \in old, NEW q \in load.existing
          PROVE  p[2] # q[2]
      <4>1. p[2] < load.before /\ load.before <= q[2]
        BY <1>5, <1>6, <1>8
      <4>2. p[2] \in Nat /\ q[2] \in Nat /\ load.before \in Nat
        BY <1>5, <1>6, <1>8 DEF Drawable, ChartTimes
      <4>3. QED
        BY <4>1, <4>2
    <3>4. QED
      BY <1>6, <3>1, <3>2, <3>3 DEF OneEach
  <2>3. QED
    BY <2>1, <2>2
<1>14. Good' => /\ series' # {} /\ (\A p \in series' : p[1] = sel) /\ volumes' = series'
                /\ DrawnWhole' /\ (hasMore' \/ AtEnd')
  <2> SUFFICES ASSUME Good
               PROVE  /\ series' # {} /\ (\A p \in series' : p[1] = sel) /\ volumes' = series'
                      /\ DrawnWhole' /\ (hasMore' \/ AtEnd')
    BY <1>3 DEF Good
  <2>1. /\ series # {} /\ (\A p \in series : p[1] = sel) /\ volumes = series
        /\ DrawnWhole /\ (hasMore \/ AtEnd)
        /\ load.code = sel /\ load.existing = series /\ load.before \in TimesOf(series)
    BY <1>1, <1>3 DEF DrawnSound
  <2> DEFINE m == load.before
  <2>2. PICK s \in series : m = s[2]
    BY <1>1, <2>1, DrawnTimes
  <2>3. m \in Nat /\ (\A p \in series : p[2] \in Nat /\ m <= p[2]) /\ \A t \in older : t \in Nat
    BY <1>1, <1>5, <1>6, <2>1, DrawnTimes DEF ChartTimes
  <2>4. KnownRows(sel)' = KnownRows(sel) /\ KnownRows(sel) \subseteq rows[sel]
        /\ \A t \in KnownRows(sel) : t \in Nat
    BY <1>1, <1>3 DEF KnownRows, ChartTyped, ChartTimes
  <2>5. series' = old \cup series /\ volumes' = old \cup series
    BY <1>4, <2>1
  <2>6. series' # {} /\ (\A p \in series' : p[1] = sel) /\ volumes' = series'
    BY <1>8, <2>1, <2>5
  <2>7. DrawnWhole'
    <3>1. ASSUME NEW t \in KnownRows(sel), NEW p \in series', NEW q \in series', p[2] <= t, t <= q[2]
          PROVE  <<sel, t>> \in series'
      <4>1. t \in Nat /\ t \in rows[sel]
        BY <2>4
      <4>2. CASE t < m
        <5>1. p \in old
          BY <2>3, <2>5, <3>1, <4>1, <4>2
        <5>2. t \in older
          BY <1>5, <1>8, <2>1, <3>1, <4>1, <4>2, <5>1
        <5>3. QED
          BY <1>8, <2>1, <2>5, <5>2
      <4>3. CASE m <= t
        <5>1. q \in series
          <6>1. ASSUME q \in old PROVE FALSE
            <7>1. q[2] \in Nat /\ q[2] < m
              BY <1>5, <1>8, <2>3, <6>1
            <7>2. QED
              BY <2>3, <3>1, <4>1, <4>3, <7>1
          <6>2. QED
            BY <2>5, <6>1
        <5>2. s[2] <= t /\ t <= q[2]
          BY <2>2, <3>1, <4>3
        <5>3. QED
          BY <2>1, <2>5, <5>1, <5>2 DEF DrawnWhole
      <4>4. QED
        BY <2>3, <4>1, <4>2, <4>3
    <3>2. QED
      BY <1>3, <2>4, <3>1 DEF DrawnWhole
  <2>8. hasMore' \/ AtEnd'
    \* A time of the chart that nothing of the chart is before.
    <3>1. ASSUME older = {}, <<sel, m>> \in empty' \/ \A t \in KnownRows(sel) : m <= t
          PROVE  AtEnd'
      <4>1. series' = series /\ sel' = sel
        BY <1>3, <1>8, <2>5, <3>1
      <4>2. m \in TimesOf(series') /\ \A p \in series' : m <= p[2]
        BY <2>1, <2>3, <4>1
      <4>3. QED
        BY <2>4, <3>1, <4>1, <4>2 DEF AtEnd
    <3>2. ASSUME older # {}, \A t \in KnownRows(sel) : t < m => t \in older
          PROVE  AtEnd'
      <4> DEFINE x == Min(older)
      <4>1. x \in older /\ \A t \in older : x <= t
        BY <1>5, <3>2, Extremes
      <4> HIDE DEF x
      <4>2. x \in Nat /\ x < m
        BY <1>5, <2>3, <4>1
      <4>3. \A p \in series' : x <= p[2]
        <5>1. \A p \in old : x <= p[2]
          BY <1>8, <4>1
        <5>2. \A p \in series : x <= p[2]
          BY <2>3, <4>2
        <5>3. QED
          BY <2>5, <5>1, <5>2
      <4>4. x \in TimesOf(series')
        <5>1. <<load.code, x>> \in series' /\ <<load.code, x>>[2] = x
          BY <1>8, <2>5, <4>1
        <5>2. QED
          BY <5>1 DEF TimesOf
      <4>5. \A t \in KnownRows(sel) : x <= t
        <5>1. ASSUME NEW t \in KnownRows(sel)
              PROVE  x <= t
          <6>1. t \in Nat
            BY <2>4
          <6>2. CASE t < m
            BY <3>2, <4>1, <6>2
          <6>3. CASE ~ (t < m)
            BY <2>3, <4>2, <6>1, <6>3
          <6>4. QED
            BY <6>2, <6>3
        <5>2. QED
          BY <5>1
      <4>6. QED
        BY <1>3, <2>4, <4>3, <4>4, <4>5 DEF AtEnd
    <3>3. CASE hasMore /\ ~ hasMore'
      <4>1. older = {} \/ Cardinality(data) < Count
        BY <1>4, <1>8, <3>3
      <4>2. CASE older # {}
        <5>1. \A t \in rows[sel] : t < m => t \in older
          BY <1>5, <2>1, <4>1, <4>2
        <5>2. QED
          BY <2>4, <3>2, <4>2, <5>1
      <4>3. CASE older = {} /\ data = {} /\ empty' = empty \cup {asked}
        BY <2>1, <3>1, <4>3
      <4>4. CASE older = {} /\ data # {}
        <5>1. \A t \in rows[sel] : m <= t
          BY <1>5, <2>1, <4>4
        <5>2. QED
          BY <2>4, <3>1, <4>4, <5>1
      <4>5. CASE older = {} /\ data = {} /\ asked \notin empty /\ data = FromDb(load.code, load.before)
        <5>1. \A t \in rows[sel] : m <= t
          <6> DEFINE T == {t \in rows[sel] : t <= m}
          <6>1. T \in SUBSET ChartTimes /\ Count \in Nat \ {0, 1} /\ Count \in Nat
            BY <1>1 DEF ChartTyped
          <6>2. NewestOf(T, Count) = {}
            BY <2>1, <4>5 DEF FromDb
          <6>3. Cardinality(NewestOf(T, Count)) < Count
            BY <6>1, <6>2, FS_EmptySet
          <6>4. T = {}
            <7> HIDE DEF T
            <7> QED
              BY <6>1, <6>2, <6>3, NewestAll
          <6>5. \A t \in rows[sel] : t \in Nat
            BY <1>1 DEF ChartTyped, ChartTimes
          <6>6. QED
            BY <2>3, <6>4, <6>5
        <5>2. QED
          BY <2>4, <3>1, <4>5, <5>1
      <4>6. QED
        BY <1>2, <4>2, <4>3, <4>4, <4>5
    <3>4. CASE ~ hasMore
      <4>1. PICK n \in TimesOf(series) : /\ \A p \in series : n <= p[2]
                                         /\ <<sel, n>> \in empty \/ \A t \in KnownRows(sel) : n <= t
        BY <2>1, <3>4 DEF AtEnd
      <4>2. n = m
        <5>1. PICK r \in series : n = r[2]
          BY <1>1, DrawnTimes
        <5>2. n \in Nat /\ m <= n /\ n <= m
          BY <2>2, <2>3, <4>1, <5>1
        <5>3. QED
          BY <2>3, <5>2
      <4>3. CASE older = {}
        <5>1. empty \subseteq empty'
          BY <1>2
        <5>2. QED
          BY <3>1, <4>1, <4>2, <4>3, <5>1
      <4>4. CASE older # {}
        <5>1. asked \notin empty
          BY <1>2, <1>7, <4>4
        <5>2. \A t \in KnownRows(sel) : m <= t
          BY <2>1, <4>1, <4>2, <5>1
        <5>3. \A t \in KnownRows(sel) : t < m => t \in older
          BY <2>3, <2>4, <5>2
        <5>4. QED
          BY <3>2, <4>4, <5>3
      <4>5. QED
        BY <4>3, <4>4
    <3>5. QED
      BY <1>1, <1>10, <3>3, <3>4 DEF ChartTyped
  <2>9. QED
    BY <2>6, <2>7, <2>8
<1>15. DrawnSound'
  BY <1>3, <1>9, <1>13, <1>14 DEF DrawnSound
<1>16. QED
  BY <1>11, <1>12, <1>15 DEF ChartSound

LEMMA NextChart == ChartSound /\ [ChartNext]_chartVars => ChartSound'
<1> SUFFICES ASSUME ChartSound, [ChartNext]_chartVars PROVE ChartSound'
  OBVIOUS
<1>1. CASE UNCHANGED chartVars
  <2>1. UNCHANGED <<latest, rows, sel, first, series, volumes, hasMore, load, empty, overtaken, filled>>
    BY <1>1 DEF chartVars, chartRows, drawn
  <2>2. QED
    BY <2>1 DEF ChartSound, ChartTyped, RowsSound, FirstSound, DrawnSound, Good, DrawnWhole, AtEnd,
       KnownRows
<1>2. QED
  BY <1>1, TickRefreshChart, SelectChart, FirstAnsweredChart, LoadMoreChart, PageAnsweredChart,
     TickerSyncChart DEF ChartNext

-----------------------------------------------------------------------------
(* The lists of the orders                                                  *)

\* A list as the store keeps it, of the orders of a set.
IsListOf(ids, s) == ids \in Seq(Orders) /\ Listed(ids) = s /\ Descending(ids)

LEMMA ListShape ==
  ASSUME NEW ids \in Seq(Orders)
  PROVE  /\ Len(ids) \in Nat /\ DOMAIN ids = 1..Len(ids)
         /\ \A k \in 1..Len(ids) : ids[k] \in Orders /\ ids[k] \in Nat
         /\ Listed(ids) \subseteq Orders
<1>1. Len(ids) \in Nat /\ DOMAIN ids = 1..Len(ids) /\ \A k \in 1..Len(ids) : ids[k] \in Orders
  OBVIOUS
<1>2. \A o \in Orders : o \in Nat
  OBVIOUS
<1>3. Listed(ids) \subseteq Orders
  BY <1>1 DEF Listed
<1>4. QED
  BY <1>1, <1>2, <1>3

\* Where two lists differ first, one of them has an order the other has not.
LEMMA FirstDifference ==
  ASSUME NEW a \in Seq(Orders), NEW b \in Seq(Orders), Descending(a), Descending(b),
         Listed(a) = Listed(b),
         NEW d \in DOMAIN a,
         \A j \in 1..(d - 1) : j \in DOMAIN a /\ j \in DOMAIN b /\ a[j] = b[j]
  PROVE  d \in DOMAIN b /\ a[d] = b[d]
<1>1. /\ Len(a) \in Nat /\ DOMAIN a = 1..Len(a) /\ \A k \in 1..Len(a) : a[k] \in Nat
      /\ Len(b) \in Nat /\ DOMAIN b = 1..Len(b) /\ \A k \in 1..Len(b) : b[k] \in Nat
  BY ListShape
<1>2. PICK i \in DOMAIN b : b[i] = a[d]
  BY DEF Listed
<1>3. ~(i < d)
  BY <1>1, <1>2 DEF Descending
<1>4. d \in DOMAIN b
  BY <1>1, <1>3
<1>5. PICK m \in DOMAIN a : a[m] = b[d]
  BY <1>4 DEF Listed
<1>6. ~(m < d)
  <2>1. m < d => a[m] = b[m] /\ m \in DOMAIN b
    <3>1. m \in Nat /\ 1 <= m /\ d \in Nat
      BY <1>1, <1>5
    <3>2. m < d => m \in 1..(d - 1)
      BY <3>1
    <3>3. QED
      BY <3>2
  <2>2. m < d => b[m] > b[d]
    BY <1>1, <1>4, <2>1 DEF Descending
  <2>3. QED
    BY <1>1, <1>4, <1>5, <2>1, <2>2
<1>7. a[m] <= a[d] /\ b[i] <= b[d]
  <2>1. a[m] <= a[d]
    <3>1. m \in Nat /\ d \in Nat /\ a[d] \in Nat /\ a[m] \in Nat /\ (d = m \/ d < m)
      BY <1>1, <1>5, <1>6
    <3>2. d < m => a[d] > a[m]
      BY <1>5 DEF Descending
    <3>3. QED
      BY <3>1, <3>2
  <2>2. b[i] <= b[d]
    BY <1>1, <1>2, <1>3, <1>4 DEF Descending
  <2>3. QED
    BY <2>1, <2>2
<1>8. QED
  BY <1>1, <1>2, <1>4, <1>5, <1>7

\* A list is known by what it lists.
LEMMA OneListOf ==
  ASSUME NEW s, NEW a, NEW b, IsListOf(a, s), IsListOf(b, s)
  PROVE  a = b
<1>1. /\ a \in Seq(Orders) /\ b \in Seq(Orders) /\ Descending(a) /\ Descending(b)
      /\ Listed(a) = Listed(b)
  BY DEF IsListOf
<1>2. /\ Len(a) \in Nat /\ DOMAIN a = 1..Len(a) /\ Len(b) \in Nat /\ DOMAIN b = 1..Len(b)
  BY <1>1, ListShape
<1> DEFINE Same(k) == k \in DOMAIN a /\ k \in DOMAIN b /\ a[k] = b[k]
           D == {k \in Nat : (k \in DOMAIN a \/ k \in DOMAIN b) /\ ~Same(k)}
<1>3. D = {}
  <2>1. SUFFICES ASSUME D # {} PROVE FALSE
    OBVIOUS
  <2>2. PICK d \in D : \A k \in D : d <= k
    <3>1. D \subseteq Nat
      OBVIOUS
    <3> HIDE DEF D
    <3>2. QED
      BY <2>1, <3>1, LeastTime
  <2>3. \A j \in 1..(d - 1) : Same(j)
    BY <1>2, <2>2
  <2>4. ASSUME d \in DOMAIN a PROVE Same(d)
    BY <1>1, <2>3, <2>4, FirstDifference
  <2>5. d \in DOMAIN b => Same(d)
    <3>1. \A j \in 1..(d - 1) : j \in DOMAIN b /\ j \in DOMAIN a /\ b[j] = a[j]
      BY <2>3
    <3>2. ASSUME d \in DOMAIN b PROVE d \in DOMAIN a /\ b[d] = a[d]
      BY <1>1, <3>1, <3>2, FirstDifference
    <3>3. QED
      BY <3>2
  <2>6. QED
    BY <2>2, <2>4, <2>5
<1>4. Len(a) = Len(b) /\ \A k \in 1..Len(a) : a[k] = b[k]
  <2>1. \A k \in DOMAIN a : k \in DOMAIN b /\ a[k] = b[k]
    BY <1>2, <1>3
  <2>2. \A k \in DOMAIN b : k \in DOMAIN a
    BY <1>2, <1>3
  <2>3. Len(a) <= Len(b)
    <3>1. CASE Len(a) = 0
      BY <1>2, <3>1
    <3>2. CASE Len(a) # 0
      <4>1. Len(a) \in DOMAIN a
        BY <1>2, <3>2
      <4>2. QED
        BY <1>2, <2>1, <4>1
    <3>3. QED
      BY <3>1, <3>2
  <2>4. Len(b) <= Len(a)
    <3>1. CASE Len(b) = 0
      BY <1>2, <3>1
    <3>2. CASE Len(b) # 0
      <4>1. Len(b) \in DOMAIN b
        BY <1>2, <3>2
      <4>2. QED
        BY <1>2, <2>2, <4>1
    <3>3. QED
      BY <3>1, <3>2
  <2>5. Len(a) = Len(b)
    <3>1. Len(a) \in Nat /\ Len(b) \in Nat
      BY <1>2
    <3>2. QED
      BY <2>3, <2>4, <3>1
  <2>6. \A k \in 1..Len(a) : a[k] = b[k]
    BY <1>2, <2>1
  <2>7. QED
    BY <2>5, <2>6
<1>5. QED
  BY <1>1, <1>4

\* An older order is added at the end.
LEMMA ListAppend ==
  ASSUME NEW s, NEW ids, IsListOf(ids, s), NEW o \in Orders, \A p \in s : p > o
  PROVE  IsListOf(Append(ids, o), s \cup {o})
<1> DEFINE all == Append(ids, o)
<1>1. /\ ids \in Seq(Orders) /\ Len(ids) \in Nat /\ DOMAIN ids = 1..Len(ids)
      /\ \A k \in 1..Len(ids) : ids[k] \in Nat /\ ids[k] \in s
  BY ListShape DEF IsListOf, Listed
<1>2. all \in Seq(Orders) /\ Len(all) = Len(ids) + 1 /\ DOMAIN all = 1..(Len(ids) + 1)
      /\ all[Len(ids) + 1] = o /\ \A k \in 1..Len(ids) : all[k] = ids[k]
  BY <1>1
<1> HIDE DEF all
<1>3. Descending(all)
  <2>1. ASSUME NEW j \in DOMAIN all, NEW k \in DOMAIN all, j < k
        PROVE  all[j] > all[k]
    <3>1. j \in 1..Len(ids) /\ all[j] = ids[j]
      BY <1>1, <1>2, <2>1
    <3>2. CASE k = Len(ids) + 1
      BY <1>1, <1>2, <3>1, <3>2
    <3>3. CASE k # Len(ids) + 1
      <4>1. k \in 1..Len(ids) /\ all[k] = ids[k]
        BY <1>1, <1>2, <3>3
      <4>2. QED
        BY <1>1, <2>1, <3>1, <4>1 DEF IsListOf, Descending
    <3>4. QED
      BY <3>2, <3>3
  <2>2. QED
    BY <2>1 DEF Descending
<1>4. Listed(all) = s \cup {o}
  <2>1. \A k \in DOMAIN all : all[k] \in s \cup {o}
    BY <1>1, <1>2
  <2>2. ASSUME NEW p \in s PROVE \E k \in DOMAIN all : all[k] = p
    <3>1. PICK k \in DOMAIN ids : ids[k] = p
      BY DEF IsListOf, Listed
    <3>2. QED
      BY <1>1, <1>2, <3>1
  <2>3. \E k \in DOMAIN all : all[k] = o
    BY <1>1, <1>2
  <2>4. QED
    BY <2>1, <2>2, <2>3 DEF Listed
<1>5. QED
  BY <1>2, <1>3, <1>4 DEF IsListOf, all
-----------------------------------------------------------------------------
(* The lists: filter                                                        *)

\* What filter has kept of the first k.
KeptTo(left, ids, o, k) ==
  IF k = 0 THEN <<>> ELSE IF ids[k] = o THEN left[k - 1] ELSE Append(left[k - 1], ids[k])

\* There is what the recursion defines.
LEMMA KeptExists ==
  ASSUME NEW ids \in Seq(Orders), NEW o
  PROVE  \E left : left = [k \in 0..Len(ids) |-> KeptTo(left, ids, o, k)]
<1> DEFINE Exists(n) == \E left : \A k \in 0..n : left[k] = KeptTo(left, ids, o, k)
           D == {n \in Nat : ~Exists(n)}
<1>1. Exists(0)
  <2> DEFINE g == [k \in 0..0 |-> <<>>]
  <2>1. \A k \in 0..0 : g[k] = KeptTo(g, ids, o, k)
    BY DEF KeptTo
  <2>2. QED
    BY <2>1
<1>2. ASSUME NEW n \in Nat, n # 0, Exists(n - 1)
      PROVE  Exists(n)
  <2>1. PICK g : \A k \in 0..(n - 1) : g[k] = KeptTo(g, ids, o, k)
    BY <1>2
  <2> DEFINE x == KeptTo(g, ids, o, n)
             h == [k \in 0..n |-> IF k = n THEN x ELSE g[k]]
  <2>2. \A k \in 0..n : KeptTo(h, ids, o, k) = KeptTo(g, ids, o, k)
    <3>1. ASSUME NEW k \in 0..n
          PROVE  KeptTo(h, ids, o, k) = KeptTo(g, ids, o, k)
      <4>1. k # 0 => h[k - 1] = g[k - 1]
        <5> HIDE DEF x
        <5> QED
          OBVIOUS
      <4> HIDE DEF h
      <4>2. QED
        BY <4>1 DEF KeptTo
    <3>2. QED
      BY <3>1
  <2>3. \A k \in 0..n : h[k] = KeptTo(g, ids, o, k)
    <3>1. \A k \in 0..n : k # n => k \in 0..(n - 1)
      BY <1>2
    <3> HIDE DEF x
    <3>2. \A k \in 0..n : k # n => h[k] = KeptTo(g, ids, o, k)
      BY <2>1, <3>1
    <3>3. h[n] = x
      OBVIOUS
    <3>4. QED
      BY <3>2, <3>3 DEF x
  <2> HIDE DEF h
  <2>4. QED
    BY <2>2, <2>3
<1>3. D = {}
  <2>1. SUFFICES ASSUME D # {} PROVE FALSE
    OBVIOUS
  <2> HIDE DEF Exists
  <2>2. PICK n \in D : \A m \in D : n <= m
    <3>1. D \subseteq Nat
      OBVIOUS
    <3> HIDE DEF D
    <3>2. QED
      BY <2>1, <3>1, LeastTime
  <2>3. n # 0
    BY <1>1
  <2>4. n - 1 \in Nat /\ Exists(n - 1)
    BY <2>2, <2>3
  <2>5. QED
    BY <1>2, <2>3, <2>4
<1>4. Exists(Len(ids))
  <2> HIDE DEF Exists
  <2> QED
    BY <1>3
<1>5. PICK g : \A k \in 0..Len(ids) : g[k] = KeptTo(g, ids, o, k)
  BY <1>4
<1> DEFINE h == [k \in 0..Len(ids) |-> g[k]]
<1>6. \A k \in 0..Len(ids) : KeptTo(h, ids, o, k) = KeptTo(g, ids, o, k)
  <2>1. ASSUME NEW k \in 0..Len(ids)
        PROVE  KeptTo(h, ids, o, k) = KeptTo(g, ids, o, k)
    <3>1. k # 0 => h[k - 1] = g[k - 1]
      OBVIOUS
    <3> HIDE DEF h
    <3>2. QED
      BY <3>1 DEF KeptTo
  <2>2. QED
    BY <2>1
<1>7. h = [k \in 0..Len(ids) |-> KeptTo(h, ids, o, k)]
  <2>1. [k \in 0..Len(ids) |-> g[k]] = [k \in 0..Len(ids) |-> KeptTo(h, ids, o, k)]
    <3> HIDE DEF h
    <3> QED
      BY <1>5, <1>6
  <2>2. QED
    BY <2>1
<1> HIDE DEF h
<1>8. QED
  BY <1>7

LEMMA WithoutKeeps ==
  ASSUME NEW ids \in Seq(Orders), NEW o
  PROVE  \E left : /\ Without(ids, o) = left[Len(ids)]
                   /\ \A k \in 0..Len(ids) : left[k] = KeptTo(left, ids, o, k)
<1> DEFINE left == CHOOSE left : left = [k \in 0..Len(ids) |-> KeptTo(left, ids, o, k)]
<1>1. Without(ids, o) = left[Len(ids)]
  BY Zenon DEF Without, KeptTo
<1>2. left = [k \in 0..Len(ids) |-> KeptTo(left, ids, o, k)]
  BY KeptExists
<1> HIDE DEF left
<1>3. \A k \in 0..Len(ids) : left[k] = KeptTo(left, ids, o, k)
  BY <1>2
<1>4. QED
  BY <1>1, <1>3

\* The list without an order is a list of the others.
LEMMA WithoutLists ==
  ASSUME NEW s, NEW ids, IsListOf(ids, s), NEW o
  PROVE  IsListOf(Without(ids, o), s \ {o})
<1>1. /\ ids \in Seq(Orders) /\ Len(ids) \in Nat /\ DOMAIN ids = 1..Len(ids)
      /\ \A k \in 1..Len(ids) : ids[k] \in Nat /\ ids[k] \in Orders
      /\ s = {ids[i] : i \in 1..Len(ids)} /\ Descending(ids)
  BY ListShape DEF IsListOf, Listed
<1>2. PICK left : /\ Without(ids, o) = left[Len(ids)]
                  /\ \A k \in 0..Len(ids) : left[k] = KeptTo(left, ids, o, k)
  BY <1>1, WithoutKeeps
<1> DEFINE First(k) == {ids[i] : i \in 1..k}
           Sifted(k) == IsListOf(left[k], First(k) \ {o})
           D == {k \in 0..Len(ids) : ~Sifted(k)}
<1>3. Sifted(0)
  <2>1. left[0] = <<>> /\ First(0) = {}
    BY <1>1, <1>2 DEF KeptTo
  <2>2. IsListOf(<<>>, {})
    BY DEF IsListOf, Listed, Descending
  <2> HIDE DEF First
  <2>3. QED
    BY <2>1, <2>2
<1>4. ASSUME NEW k \in 1..Len(ids), Sifted(k - 1)
      PROVE  Sifted(k)
  <2>1. left[k] = IF ids[k] = o THEN left[k - 1] ELSE Append(left[k - 1], ids[k])
    BY <1>1, <1>2 DEF KeptTo
  <2>2. First(k) = First(k - 1) \cup {ids[k]}
    <3>1. \A i \in 1..k : i = k \/ i \in 1..(k - 1)
      BY <1>1
    <3>2. \A i \in 1..(k - 1) : i \in 1..k
      BY <1>1
    <3>3. k \in 1..k
      BY <1>1
    <3>4. QED
      BY <3>1, <3>2, <3>3
  <2>3. \A p \in First(k - 1) : p > ids[k]
    <3>1. ASSUME NEW i \in 1..(k - 1) PROVE ids[i] > ids[k]
      BY <1>1 DEF Descending
    <3>2. QED
      BY <3>1
  <2> HIDE DEF First
  <2>4. CASE ids[k] = o
    <3>1. First(k) \ {o} = First(k - 1) \ {o}
      BY <2>2, <2>4
    <3>2. QED
      BY <1>4, <2>1, <2>4, <3>1
  <2>5. CASE ids[k] # o
    <3>1. First(k) \ {o} = (First(k - 1) \ {o}) \cup {ids[k]}
      BY <2>2, <2>5
    <3>2. IsListOf(Append(left[k - 1], ids[k]), (First(k - 1) \ {o}) \cup {ids[k]})
      BY <1>1, <1>4, <2>3, ListAppend
    <3>3. QED
      BY <2>1, <2>5, <3>1, <3>2
  <2>6. QED
    BY <2>4, <2>5
<1> HIDE DEF Sifted
<1>5. D = {}
  <2>1. SUFFICES ASSUME D # {} PROVE FALSE
    OBVIOUS
  <2>2. PICK k \in D : \A j \in D : k <= j
    <3>1. D \subseteq Nat
      BY <1>1
    <3> HIDE DEF D
    <3>2. QED
      BY <2>1, <3>1, LeastTime
  <2>3. k \in 1..Len(ids)
    BY <1>1, <1>3, <2>2
  <2>4. k - 1 \in 0..Len(ids) /\ ~(k <= k - 1)
    BY <1>1, <2>3
  <2>5. Sifted(k - 1)
    BY <2>2, <2>4
  <2>6. QED
    BY <1>4, <2>2, <2>3, <2>5
<1>6. Sifted(Len(ids))
  BY <1>1, <1>5
<1>7. First(Len(ids)) = s
  BY <1>1
<1> HIDE DEF First
<1>8. QED
  BY <1>2, <1>6, <1>7 DEF Sifted

-----------------------------------------------------------------------------
(* The lists: the place of an order                                         *)

Parts(n) == (0..n) \X (0..n)

\* What the binary search does of a part of the list.
PlaceIn(place, rest, o, low, high) ==
  LET mid == (low + high) \div 2
  IN IF low >= high THEN low
     ELSE IF o > rest[mid + 1] THEN place[<<low, mid>>]
     ELSE place[<<mid + 1, high>>]

LEMMA Midst ==
  ASSUME NEW low \in Nat, NEW high \in Nat, low < high
  PROVE  LET mid == (low + high) \div 2
         IN /\ mid \in Nat /\ low <= mid /\ mid < high
            /\ mid - low < high - low /\ high - (mid + 1) < high - low
  OBVIOUS

\* Searches that agree on smaller parts agree.
LEMMA PlaceAgrees ==
  ASSUME NEW n \in Nat, NEW f, NEW g, NEW rest, NEW o, NEW low \in 0..n, NEW high \in 0..n,
         \A l, h \in 0..n : h - l < high - low => f[<<l, h>>] = g[<<l, h>>]
  PROVE  PlaceIn(f, rest, o, low, high) = PlaceIn(g, rest, o, low, high)
<1> DEFINE mid == (low + high) \div 2
<1>1. CASE low >= high
  BY <1>1 DEF PlaceIn
<1>2. CASE low < high
  <2>1. /\ mid \in 0..n /\ mid + 1 \in 0..n
        /\ mid - low < high - low /\ high - (mid + 1) < high - low
    BY <1>2, Midst
  <2> HIDE DEF mid
  <2>2. f[<<low, mid>>] = g[<<low, mid>>] /\ f[<<mid + 1, high>>] = g[<<mid + 1, high>>]
    BY <2>1
  <2>3. QED
    BY <2>2 DEF PlaceIn, mid
<1>3. QED
  BY <1>1, <1>2

LEMMA PlaceExists ==
  ASSUME NEW n \in Nat, NEW rest, NEW o
  PROVE  \E place : place = [part \in Parts(n) |-> PlaceIn(place, rest, o, part[1], part[2])]
<1> DEFINE Finds(f, l, h) == f[<<l, h>>] = PlaceIn(f, rest, o, l, h)
           Exists(m) == \E f : \A l, h \in 0..n : h - l <= m => Finds(f, l, h)
           D == {m \in Nat : ~Exists(m)}
<1>1. Exists(0)
  <2> DEFINE f == [part \in Parts(n) |-> part[1]]
  <2>1. \A l, h \in 0..n : f[<<l, h>>] = l
    BY DEF Parts
  <2> HIDE DEF f
  <2>2. \A l, h \in 0..n : h - l <= 0 => Finds(f, l, h)
    BY <2>1 DEF PlaceIn
  <2>3. QED
    BY <2>2
<1>2. ASSUME NEW m \in Nat, m # 0, Exists(m - 1)
      PROVE  Exists(m)
  <2>1. PICK g : \A l, h \in 0..n : h - l <= m - 1 => Finds(g, l, h)
    BY <1>2
  <2> DEFINE f == [part \in Parts(n) |-> PlaceIn(g, rest, o, part[1], part[2])]
  <2>2. \A l, h \in 0..n : f[<<l, h>>] = PlaceIn(g, rest, o, l, h)
    BY DEF Parts
  <2> HIDE DEF f
  <2>3. \A l, h \in 0..n : h - l < m => f[<<l, h>>] = g[<<l, h>>]
    BY <2>2, <2>1
  <2>4. ASSUME NEW l \in 0..n, NEW h \in 0..n, h - l <= m
        PROVE  Finds(f, l, h)
    <3>1. f[<<l, h>>] = PlaceIn(g, rest, o, l, h)
      BY <2>2
    <3>2. \A i, j \in 0..n : j - i < h - l => f[<<i, j>>] = g[<<i, j>>]
      BY <2>3, <2>4
    <3>3. PlaceIn(f, rest, o, l, h) = PlaceIn(g, rest, o, l, h)
      BY <3>2, PlaceAgrees
    <3>4. QED
      BY <3>1, <3>3
  <2>5. QED
    BY <2>4
<1> HIDE DEF Exists
<1>3. D = {}
  <2>1. SUFFICES ASSUME D # {} PROVE FALSE
    OBVIOUS
  <2>2. PICK m \in D : \A k \in D : m <= k
    <3>1. D \subseteq Nat
      OBVIOUS
    <3> HIDE DEF D
    <3>2. QED
      BY <2>1, <3>1, LeastTime
  <2>3. m # 0
    BY <1>1, <2>2
  <2>4. m - 1 \in Nat /\ Exists(m - 1)
    BY <2>2, <2>3
  <2>5. QED
    BY <1>2, <2>2, <2>3, <2>4
<1>4. PICK g : \A l, h \in 0..n : h - l <= n => Finds(g, l, h)
  <2>1. Exists(n)
    BY <1>3
  <2>2. QED
    BY <2>1 DEF Exists
<1> DEFINE f == [part \in Parts(n) |-> g[part]]
<1>5. ASSUME NEW l \in 0..n, NEW h \in 0..n
      PROVE  g[<<l, h>>] = PlaceIn(f, rest, o, l, h)
  <2>1. \A i, j \in 0..n : f[<<i, j>>] = g[<<i, j>>]
    BY DEF Parts
  <2> HIDE DEF f
  <2>2. PlaceIn(f, rest, o, l, h) = PlaceIn(g, rest, o, l, h)
    BY <2>1, PlaceAgrees
  <2>3. QED
    BY <1>4, <2>2
<1>6. f = [part \in Parts(n) |-> PlaceIn(f, rest, o, part[1], part[2])]
  <2>1. [part \in Parts(n) |-> g[part]] = [part \in Parts(n) |-> PlaceIn(f, rest, o, part[1], part[2])]
    <3> HIDE DEF f
    <3>1. \A part \in Parts(n) : /\ part[1] \in 0..n /\ part[2] \in 0..n
                                 /\ part = <<part[1], part[2]>>
      BY DEF Parts
    <3>2. \A part \in Parts(n) : g[part] = PlaceIn(f, rest, o, part[1], part[2])
      BY <1>5, <3>1
    <3> QED
      BY <3>2
  <2>2. QED
    BY <2>1
<1> HIDE DEF f
<1>7. QED
  BY <1>6

\* The list with an order at a place.
At(rest, at, o) == SubSeq(rest, 1, at) \o <<o>> \o SubSeq(rest, at + 1, Len(rest))

LEMMA InsertedFinds ==
  ASSUME NEW ids \in Seq(Orders), NEW o, Without(ids, o) \in Seq(Orders)
  PROVE  LET rest == Without(ids, o)
             n == Len(rest)
         IN \E place : /\ Inserted(ids, o) = At(rest, place[<<0, n>>], o)
                       /\ \A l, h \in 0..n : place[<<l, h>>] = PlaceIn(place, rest, o, l, h)
<1> DEFINE rest == Without(ids, o)
           n == Len(rest)
           place == CHOOSE place :
             place = [part \in Parts(n) |-> PlaceIn(place, rest, o, part[1], part[2])]
<1>1. Inserted(ids, o) = At(rest, place[<<0, n>>], o)
  BY Zenon DEF Inserted, PlaceIn, Parts, At
<1> HIDE DEF rest
<1>2. n \in Nat
  BY DEF rest
<1>3. place = [part \in Parts(n) |-> PlaceIn(place, rest, o, part[1], part[2])]
  BY <1>2, PlaceExists
<1> HIDE DEF place, n
<1>4. \A l, h \in 0..n : place[<<l, h>>] = PlaceIn(place, rest, o, l, h)
  BY <1>3 DEF Parts
<1>5. QED
  BY <1>1, <1>4 DEF n, rest

\* The search ends between the newer orders and the others.
LEMMA PlaceSplits ==
  ASSUME NEW rest \in Seq(Orders), Descending(rest), NEW o \in Orders,
         NEW n, n = Len(rest), NEW place,
         \A l, h \in 0..n : place[<<l, h>>] = PlaceIn(place, rest, o, l, h)
  PROVE  /\ place[<<0, n>>] \in 0..n
         /\ \A j \in 1..place[<<0, n>>] : rest[j] >= o
         /\ \A j \in (place[<<0, n>>] + 1)..n : rest[j] < o
<1> DEFINE Splits(l, h) == /\ place[<<l, h>>] \in l..h
                           /\ \A j \in (l + 1)..place[<<l, h>>] : rest[j] >= o
                           /\ \A j \in (place[<<l, h>>] + 1)..h : rest[j] < o
           D == {d \in Nat : \E l, h \in 0..n : h - l = d /\ ~Splits(l, h)}
<1>1. /\ n \in Nat /\ o \in Nat /\ DOMAIN rest = 1..n
      /\ \A j \in 1..n : rest[j] \in Nat
  BY ListShape
<1>2. \A j, k \in 1..n : j <= k => rest[k] <= rest[j]
  <2>1. ASSUME NEW j \in 1..n, NEW k \in 1..n, j < k PROVE rest[j] > rest[k]
    BY <1>1, <2>1 DEF Descending
  <2>2. ASSUME NEW j \in 1..n, NEW k \in 1..n, j <= k PROVE rest[k] <= rest[j]
    <3>1. rest[j] \in Nat /\ rest[k] \in Nat /\ (j = k \/ j < k)
      BY <1>1, <2>2
    <3>2. QED
      BY <2>1, <3>1
  <2>3. QED
    BY <2>2
<1>3. ASSUME NEW l \in 0..n, NEW h \in 0..n, l <= h,
             \A i, j \in 0..n : i <= j /\ j - i < h - l => Splits(i, j)
      PROVE  Splits(l, h)
  <2> DEFINE mid == (l + h) \div 2
  <2>1. place[<<l, h>>] = IF l >= h THEN l
                          ELSE IF o > rest[mid + 1] THEN place[<<l, mid>>]
                          ELSE place[<<mid + 1, h>>]
    BY DEF PlaceIn
  <2>2. CASE l = h
    <3>1. place[<<l, h>>] = l
      BY <1>1, <2>1, <2>2
    <3>2. QED
      BY <1>1, <2>2, <3>1
  <2>3. CASE l < h
    <3>1. /\ mid \in 0..n /\ mid + 1 \in 1..n /\ l <= mid /\ mid + 1 <= h
          /\ mid - l < h - l /\ h - (mid + 1) < h - l
      BY <1>1, <2>3, Midst
    <3> HIDE DEF mid
    <3>2. Splits(l, mid) /\ Splits(mid + 1, h)
      <4>1. mid + 1 \in 0..n
        BY <1>1, <3>1
      <4> HIDE DEF Splits
      <4>2. QED
        BY <1>3, <3>1, <4>1
    <3>3. CASE o > rest[mid + 1]
      <4>1. place[<<l, h>>] = place[<<l, mid>>]
        BY <1>1, <2>1, <2>3, <3>3
      <4>2. \A j \in (mid + 1)..h : rest[j] < o
        <5>1. ASSUME NEW j \in (mid + 1)..h PROVE rest[j] < o
          <6>1. j \in 1..n /\ mid + 1 <= j
            BY <1>1, <3>1
          <6>2. rest[j] <= rest[mid + 1] /\ rest[j] \in Nat /\ rest[mid + 1] \in Nat
            BY <1>1, <1>2, <3>1, <6>1
          <6>3. QED
            BY <1>1, <3>3, <6>2
        <5>2. QED
          BY <5>1
      <4>3. \A j \in (place[<<l, mid>>] + 1)..h : j \in (place[<<l, mid>>] + 1)..mid \/ j \in (mid + 1)..h
        BY <1>1, <3>1, <3>2
      <4>4. place[<<l, mid>>] \in l..h
        BY <1>1, <3>1, <3>2
      <4>5. QED
        BY <3>2, <4>1, <4>2, <4>3, <4>4
    <3>4. CASE ~(o > rest[mid + 1])
      <4>1. place[<<l, h>>] = place[<<mid + 1, h>>]
        BY <1>1, <2>1, <2>3, <3>4
      <4>2. \A j \in (l + 1)..(mid + 1) : rest[j] >= o
        <5>1. ASSUME NEW j \in (l + 1)..(mid + 1) PROVE rest[j] >= o
          <6>1. j \in 1..n /\ j <= mid + 1
            BY <1>1, <3>1
          <6>2. rest[mid + 1] <= rest[j] /\ rest[j] \in Nat /\ rest[mid + 1] \in Nat
            BY <1>1, <1>2, <3>1, <6>1
          <6>3. QED
            BY <1>1, <3>4, <6>2
        <5>2. QED
          BY <5>1
      <4>3. \A j \in (l + 1)..place[<<mid + 1, h>>] :
              j \in (l + 1)..(mid + 1) \/ j \in ((mid + 1) + 1)..place[<<mid + 1, h>>]
        BY <1>1, <3>1, <3>2
      <4>4. place[<<mid + 1, h>>] \in l..h
        BY <1>1, <3>1, <3>2
      <4>5. QED
        BY <3>2, <4>1, <4>2, <4>3, <4>4
    <3>5. QED
      BY <3>3, <3>4
  <2>4. l = h \/ l < h
    BY <1>1, <1>3
  <2> HIDE DEF Splits
  <2>5. QED
    BY <2>2, <2>3, <2>4
<1> HIDE DEF Splits
<1>4. D = {}
  <2>1. SUFFICES ASSUME D # {} PROVE FALSE
    OBVIOUS
  <2>2. PICK d \in D : \A k \in D : d <= k
    <3>1. D \subseteq Nat
      OBVIOUS
    <3> HIDE DEF D
    <3>2. QED
      BY <2>1, <3>1, LeastTime
  <2>3. PICK l \in 0..n, h \in 0..n : h - l = d /\ ~Splits(l, h)
    BY <2>2
  <2>4. l <= h
    BY <1>1, <2>2, <2>3
  <2>5. ASSUME NEW i \in 0..n, NEW j \in 0..n, i <= j, j - i < h - l PROVE Splits(i, j)
    <3>1. j - i \in Nat /\ ~(d <= j - i)
      BY <1>1, <2>2, <2>3, <2>5
    <3>2. j - i \notin D
      <4> HIDE DEF D
      <4> QED
        BY <2>2, <3>1
    <3>3. QED
      BY <3>1, <3>2
  <2>6. QED
    BY <1>3, <2>3, <2>4, <2>5
<1>5. Splits(0, n)
  <2>1. n - 0 \in Nat /\ 0 \in 0..n /\ n \in 0..n
    BY <1>1
  <2>2. QED
    BY <1>4, <2>1
<1>6. QED
  BY <1>5 DEF Splits

LEMMA AtShape ==
  ASSUME NEW rest \in Seq(Orders), NEW at \in 0..Len(rest), NEW o \in Orders
  PROVE  LET all == At(rest, at, o)
         IN /\ all \in Seq(Orders) /\ Len(all) = Len(rest) + 1
            /\ \A k \in 1..at : all[k] = rest[k]
            /\ all[at + 1] = o
            /\ \A k \in (at + 2)..(Len(rest) + 1) : all[k] = rest[k - 1]
<1> DEFINE a == SubSeq(rest, 1, at)
           b == SubSeq(rest, at + 1, Len(rest))
<1>1. /\ a \in Seq(Orders) /\ Len(a) = at /\ \A k \in 1..at : a[k] = rest[k]
  OBVIOUS
<1>2. /\ b \in Seq(Orders) /\ Len(b) = Len(rest) - at
      /\ \A k \in 1..(Len(rest) - at) : b[k] = rest[at + k]
  OBVIOUS
<1>3. At(rest, at, o) = a \o <<o>> \o b
  BY DEF At
<1> HIDE DEF a, b
<1>4. at \in Nat /\ Len(rest) \in Nat
  OBVIOUS
<1> DEFINE c == a \o <<o>>
<1>5. c \in Seq(Orders) /\ Len(c) = at + 1 /\ c[at + 1] = o /\ \A k \in 1..at : c[k] = rest[k]
  BY <1>1, <1>4
<1>6. At(rest, at, o) = c \o b
  BY <1>3
<1> HIDE DEF c
<1> DEFINE all == c \o b
<1>7. all \in Seq(Orders) /\ Len(all) = Len(rest) + 1
  <2>1. b \in Seq(Orders) /\ c \in Seq(Orders)
    BY <1>2, <1>5
  <2>2. all \in Seq(Orders) /\ Len(all) = Len(c) + Len(b)
    BY <2>1
  <2>3. (at + 1) + (Len(rest) - at) = Len(rest) + 1
    BY <1>4
  <2>4. QED
    BY <1>2, <1>5, <2>2, <2>3
<1>8. \A k \in 1..(at + 1) : all[k] = c[k]
  BY <1>2, <1>4, <1>5
<1>9. \A k \in (at + 2)..(Len(rest) + 1) : all[k] = b[k - (at + 1)]
  BY <1>2, <1>4, <1>5
<1> HIDE DEF all
<1>10. \A k \in (at + 2)..(Len(rest) + 1) : all[k] = rest[k - 1]
  <2>1. ASSUME NEW k \in (at + 2)..(Len(rest) + 1) PROVE all[k] = rest[k - 1]
    <3>1. k - (at + 1) \in 1..(Len(rest) - at) /\ at + (k - (at + 1)) = k - 1
      BY <1>4
    <3>2. QED
      BY <1>2, <1>9, <3>1
  <2>2. QED
    BY <2>1
<1>11. /\ \A k \in 1..at : all[k] = rest[k]
       /\ all[at + 1] = o
  BY <1>4, <1>5, <1>8
<1>12. QED
  BY <1>6, <1>7, <1>10, <1>11 DEF all

\* The list with an order inserted is a list of the others and that one.
LEMMA InsertedLists ==
  ASSUME NEW s, NEW ids, IsListOf(ids, s), NEW o \in Orders
  PROVE  IsListOf(Inserted(ids, o), s \cup {o})
<1> DEFINE rest == Without(ids, o)
           n == Len(rest)
<1>1. IsListOf(rest, s \ {o}) /\ ids \in Seq(Orders) /\ rest \in Seq(Orders)
  BY WithoutLists DEF IsListOf
<1>2. PICK place : /\ Inserted(ids, o) = At(rest, place[<<0, n>>], o)
                   /\ \A l, h \in 0..n : place[<<l, h>>] = PlaceIn(place, rest, o, l, h)
  BY <1>1, InsertedFinds
<1> HIDE DEF rest
<1> DEFINE at == place[<<0, n>>]
<1>3. /\ n \in Nat /\ DOMAIN rest = 1..n /\ Descending(rest) /\ o \in Nat
      /\ \A k \in 1..n : rest[k] \in Nat /\ rest[k] \in s \ {o}
      /\ \A p \in s \ {o} : \E k \in 1..n : rest[k] = p
  <2>1. Listed(rest) = s \ {o} /\ Descending(rest)
    BY <1>1 DEF IsListOf
  <2>2. n \in Nat /\ DOMAIN rest = 1..n /\ \A k \in 1..n : rest[k] \in Nat
    BY <1>1, ListShape
  <2>3. QED
    BY <2>1, <2>2 DEF Listed
<1>4. /\ at \in 0..n
      /\ \A j \in 1..at : rest[j] >= o
      /\ \A j \in (at + 1)..n : rest[j] < o
  BY <1>1, <1>2, <1>3, PlaceSplits
<1> DEFINE all == Inserted(ids, o)
<1>5. /\ all \in Seq(Orders) /\ Len(all) = n + 1
      /\ \A k \in 1..at : all[k] = rest[k]
      /\ all[at + 1] = o
      /\ \A k \in (at + 2)..(n + 1) : all[k] = rest[k - 1]
  <2>1. all = At(rest, at, o)
    BY <1>2
  <2> HIDE DEF all, at
  <2>2. QED
    BY <1>1, <1>4, <2>1, AtShape
<1> HIDE DEF all, at, n
<1>6. DOMAIN all = 1..(n + 1)
  BY <1>5
<1>7. \A k \in 1..(n + 1) : k \in 1..at \/ k = at + 1 \/ k \in (at + 2)..(n + 1)
  BY <1>3, <1>4
<1>8. \A k \in (at + 2)..(n + 1) : k - 1 \in (at + 1)..n /\ k - 1 \in 1..n
  BY <1>3, <1>4
<1>9. \A k \in 1..at : k \in 1..n /\ all[k] > o /\ all[k] \in Nat
  <2>1. ASSUME NEW k \in 1..at PROVE k \in 1..n /\ all[k] > o /\ all[k] \in Nat
    <3>1. k \in 1..n
      BY <1>3, <1>4
    <3>2. all[k] = rest[k] /\ rest[k] >= o /\ rest[k] # o /\ rest[k] \in Nat
      BY <1>3, <1>4, <1>5, <3>1
    <3>3. QED
      BY <1>3, <3>1, <3>2
  <2>2. QED
    BY <2>1
<1>10. \A k \in (at + 2)..(n + 1) : all[k] < o /\ all[k] \in Nat
  BY <1>3, <1>4, <1>5, <1>8
<1>11. Descending(all)
  <2>1. ASSUME NEW j \in 1..(n + 1), NEW k \in 1..(n + 1), j < k
        PROVE  all[j] > all[k]
    <3>1. CASE j \in 1..at /\ k \in 1..at
      <4>1. j \in DOMAIN rest /\ k \in DOMAIN rest
        BY <1>3, <1>9, <3>1
      <4>2. rest[j] > rest[k]
        BY <1>3, <2>1, <4>1 DEF Descending
      <4>3. QED
        BY <1>5, <3>1, <4>2
    <3>2. CASE j \in 1..at /\ k = at + 1
      BY <1>5, <1>9, <3>2
    <3>3. CASE j \in 1..at /\ k \in (at + 2)..(n + 1)
      <4>1. all[j] > o /\ all[j] \in Nat /\ all[k] < o /\ all[k] \in Nat
        BY <1>9, <1>10, <3>3
      <4>2. QED
        BY <1>3, <4>1
    <3>4. CASE j = at + 1 /\ k \in (at + 2)..(n + 1)
      BY <1>3, <1>5, <1>10, <3>4
    <3>5. CASE j \in (at + 2)..(n + 1) /\ k \in (at + 2)..(n + 1)
      <4>1. j - 1 \in DOMAIN rest /\ k - 1 \in DOMAIN rest /\ j - 1 < k - 1
        BY <1>3, <1>8, <2>1, <3>5
      <4>2. rest[j - 1] > rest[k - 1]
        BY <1>3, <4>1 DEF Descending
      <4>3. QED
        BY <1>5, <3>5, <4>2
    <3>6. QED
      BY <1>3, <1>4, <1>7, <2>1, <3>1, <3>2, <3>3, <3>4, <3>5
  <2>2. QED
    BY <1>6, <2>1 DEF Descending
<1>12. Listed(all) = s \cup {o}
  <2>1. \A k \in 1..(n + 1) : all[k] \in s \cup {o}
    BY <1>3, <1>5, <1>7, <1>8, <1>9
  <2>2. ASSUME NEW p \in s \ {o} PROVE \E k \in 1..(n + 1) : all[k] = p
    <3>1. PICK k \in 1..n : rest[k] = p
      BY <1>3
    <3>2. CASE k <= at
      <4>1. k \in 1..at /\ k \in 1..(n + 1)
        BY <1>3, <1>4, <3>2
      <4>2. QED
        BY <1>5, <3>1, <4>1
    <3>3. CASE ~(k <= at)
      <4>1. k + 1 \in (at + 2)..(n + 1) /\ k + 1 \in 1..(n + 1) /\ (k + 1) - 1 = k
        BY <1>3, <1>4, <3>3
      <4>2. all[k + 1] = rest[k]
        BY <1>5, <4>1
      <4>3. QED
        BY <3>1, <4>1, <4>2
    <3>4. QED
      BY <3>2, <3>3
  <2>3. at + 1 \in 1..(n + 1)
    BY <1>3, <1>4
  <2>4. QED
    BY <1>5, <1>6, <2>1, <2>2, <2>3 DEF Listed
<1>13. QED
  BY <1>5, <1>11, <1>12 DEF IsListOf, all

-----------------------------------------------------------------------------
(* The lists: sort                                                          *)

LEMMA OrdersFinite ==
  ASSUME NEW s \in SUBSET Orders
  PROVE  IsFiniteSet(s) /\ Cardinality(s) \in Nat
BY FS_Subset, FS_CardinalityType

\* Any orders can be listed.
LEMMA SortExists ==
  ASSUME NEW s \in SUBSET Orders
  PROVE  \E list \in [1..Cardinality(s) -> s] : Descending(list)
<1> DEFINE Sorts(n, list, t) == list \in [1..n -> t] /\ Descending(list)
           Exists(t) == \E list : Sorts(Cardinality(t), list, t)
           D == {n \in Nat : \E t \in SUBSET Orders : Cardinality(t) = n /\ ~Exists(t)}
<1>1. ASSUME NEW t \in SUBSET Orders, t # {},
             \A u \in SUBSET Orders : Cardinality(u) < Cardinality(t) => Exists(u)
      PROVE  Exists(t)
  <2>1. t \subseteq Nat
    OBVIOUS
  <2>2. PICK o \in t : \A p \in t : o <= p
    BY <1>1, <2>1, LeastTime
  <2> DEFINE u == t \ {o}
             n == Cardinality(t)
  <2>3. IsFiniteSet(t) /\ n \in Nat
    BY OrdersFinite
  <2>4. Cardinality(u) = n - 1 /\ u \in SUBSET Orders /\ Cardinality(u) \in Nat
    BY <2>3, FS_RemoveElement, OrdersFinite
  <2>5. n - 1 < n /\ n # 0
    BY <2>3, <2>4
  <2> HIDE DEF Exists, u, n
  <2>6. Exists(u)
    BY <1>1, <2>4, <2>5 DEF n
  <2>7. PICK list : Sorts(n - 1, list, u)
    BY <2>4, <2>6 DEF Exists
  <2> DEFINE all == [k \in 1..n |-> IF k = n THEN o ELSE list[k]]
  <2>8. \A k \in 1..n : k # n => k \in 1..(n - 1)
    BY <2>3
  <2>9. list \in [1..(n - 1) -> u]
    BY <2>7
  <2>10. \A k \in 1..(n - 1) : list[k] \in t /\ list[k] > o /\ list[k] \in Nat
    <3>1. ASSUME NEW p \in u PROVE p \in t /\ p > o /\ p \in Nat
      <4>1. p \in t /\ p # o /\ o <= p /\ p \in Nat /\ o \in Nat
        BY <2>1, <2>2 DEF u
      <4>2. QED
        BY <4>1
    <3>2. QED
      BY <2>9, <3>1
  <2>11. all \in [1..n -> t]
    BY <2>8, <2>10
  <2>12. Descending(all)
    <3>1. ASSUME NEW j \in 1..n, NEW k \in 1..n, j < k
          PROVE  all[j] > all[k]
      <4>1. j # n /\ all[j] = list[j] /\ j \in 1..(n - 1)
        BY <2>3, <2>8, <3>1
      <4>2. CASE k = n
        BY <2>10, <4>1, <4>2
      <4>3. CASE k # n
        <5>1. all[k] = list[k] /\ k \in 1..(n - 1)
          BY <2>8, <4>3
        <5> HIDE DEF all
        <5>2. DOMAIN list = 1..(n - 1) /\ Descending(list)
          BY <2>7, <2>9
        <5>3. QED
          BY <3>1, <4>1, <5>1, <5>2 DEF Descending
      <4>4. QED
        BY <4>2, <4>3
    <3>2. DOMAIN all = 1..n
      OBVIOUS
    <3> HIDE DEF all
    <3>3. QED
      BY <3>1, <3>2 DEF Descending
  <2> HIDE DEF all
  <2>13. QED
    BY <2>11, <2>12 DEF Exists, n
<1>2. Exists({})
  <2>1. Cardinality({}) = 0
    BY FS_EmptySet
  <2>2. <<>> \in [1..0 -> {}] /\ Descending(<<>>)
    BY DEF Descending
  <2>3. QED
    BY <2>1, <2>2
<1> HIDE DEF Exists
<1>3. D = {}
  <2>1. SUFFICES ASSUME D # {} PROVE FALSE
    OBVIOUS
  <2>2. PICK n \in D : \A m \in D : n <= m
    <3>1. D \subseteq Nat
      OBVIOUS
    <3> HIDE DEF D
    <3>2. QED
      BY <2>1, <3>1, LeastTime
  <2>3. PICK t \in SUBSET Orders : Cardinality(t) = n /\ ~Exists(t)
    BY <2>2
  <2>4. ASSUME NEW u \in SUBSET Orders, Cardinality(u) < Cardinality(t) PROVE Exists(u)
    <3>1. Cardinality(u) \in Nat /\ ~(n <= Cardinality(u))
      BY <2>2, <2>3, <2>4, OrdersFinite
    <3>2. Cardinality(u) \notin D
      <4> HIDE DEF D
      <4> QED
        BY <2>2, <3>1
    <3>3. QED
      BY <3>1, <3>2
  <2>5. t # {}
    BY <1>2, <2>3
  <2>6. QED
    BY <1>1, <2>3, <2>4, <2>5
<1>4. Exists(s)
  <2>1. Cardinality(s) \in Nat
    BY OrdersFinite
  <2>2. QED
    BY <1>3, <2>1
<1>5. QED
  BY <1>4 DEF Exists

\* What is sorted is the list of what there was.
LEMMA NewestFirstLists ==
  ASSUME NEW s \in SUBSET Orders
  PROVE  IsListOf(NewestFirst(s), s)
<1> DEFINE n == Cardinality(s)
           list == NewestFirst(s)
<1>1. list \in [1..n -> s] /\ Descending(list)
  BY SortExists, Zenon DEF NewestFirst
<1>2. IsFiniteSet(s) /\ n \in Nat
  BY OrdersFinite
<1> HIDE DEF list, n
<1>3. list \in Seq(Orders)
  <2>1. list \in [1..n -> Orders]
    BY <1>1
  <2>2. QED
    BY <1>2, <2>1
<1>4. \A k \in 1..n : list[k] \in Nat
  BY <1>1
<1>5. \A j, k \in 1..n : list[j] = list[k] => j = k
  <2>1. \A j, k \in 1..n : j < k => list[j] # list[k]
    BY <1>1, <1>4 DEF Descending
  <2>2. QED
    BY <1>2, <2>1
<1>6. list \in Injection(1..n, s)
  BY <1>1, <1>5 DEF Injection, IsInjective
<1>7. Cardinality(1..n) = n
  <2>1. 1 \in Int /\ n \in Int
    BY <1>2
  <2>2. Cardinality(1..n) = IF 1 > n THEN 0 ELSE n - 1 + 1
    BY <2>1, FS_Interval
  <2>3. QED
    BY <1>2, <2>2
<1>8. list \in Surjection(1..n, s)
  BY <1>2, <1>6, <1>7, FS_Injection DEF n
<1>9. Listed(list) = s
  BY <1>1, <1>8 DEF Surjection, Listed
<1>10. QED
  BY <1>1, <1>3, <1>9 DEF IsListOf, list

-----------------------------------------------------------------------------
(* The lists: the invariant                                                 *)

OpenOf(byId)   == {o \in Orders : byId[o] # NoOrder /\ byId[o].status = "OPEN"}
ClosedOf(byId) == {o \in Orders : byId[o] # NoOrder /\ byId[o].status # "OPEN"}

\* What is shown is a list, of orders that were open.
ShowsList(shown, ids) ==
  /\ [k \in DOMAIN shown |-> shown[k][1]] = ids
  /\ \A k \in DOMAIN shown : shown[k][2].status = "OPEN"

\* The lists of a store are those of its orders.
StoreListed(s) ==
  /\ IsListOf(s.pendingIds, OpenOf(s.byId)) /\ IsListOf(s.completedIds, ClosedOf(s.byId))
  /\ s.dirty \in BOOLEAN /\ s.shown \in Seq(Orders \X Order)
  /\ ~s.dirty => ShowsList(s.shown, s.pendingIds)

ListsSound == StoreListed(orders) /\ \A e \in unsent : e.rev # 0

\* The fields of a store that is changed.
HasFields(s, byId, pendingIds, completedIds, shown, dirty) ==
  /\ s.byId = byId /\ s.pendingIds = pendingIds /\ s.completedIds = completedIds
  /\ s.shown = shown /\ s.dirty = dirty

LEMMA OpenFields ==
  ASSUME NEW r, IsStore(r), NEW o, NEW state, NEW x, NEW y
  PROVE  HasFields(WithOpen(r, o, state, x, y), [r.byId EXCEPT ![o] = state], x, y, r.shown, r.dirty)
<1> DEFINE ids == [r.byId EXCEPT ![o] = state]
           s   == WithOpen(r, o, state, x, y)
           all == Stores({r.byId, ids}, {r.pendingIds, x}, {r.completedIds, y}, {r.shown}, {r.dirty})
<1>1. r \in all
  BY DEF IsStore, Stores
<1>2. s.byId = ids /\ s.pendingIds = x /\ s.completedIds = y
  BY <1>1 DEF WithOpen, Stores
<1>3. s.shown = r.shown /\ s.dirty = r.dirty
  BY <1>1 DEF WithOpen, Stores
<1>4. QED
  BY <1>2, <1>3 DEF HasFields

LEMMA ClosedFields ==
  ASSUME NEW r, IsStore(r), NEW o, NEW state, NEW x, NEW y
  PROVE  HasFields(WithClosed(r, o, state, x, y), [r.byId EXCEPT ![o] = state], x, y, r.shown, r.dirty)
<1> DEFINE ids == [r.byId EXCEPT ![o] = state]
           s   == WithClosed(r, o, state, x, y)
           all == Stores({r.byId, ids}, {r.pendingIds, x}, {r.completedIds, y}, {r.shown}, {r.dirty})
<1>1. r \in all
  BY DEF IsStore, Stores
<1>2. s.byId = ids /\ s.pendingIds = x /\ s.completedIds = y
  BY <1>1 DEF WithClosed, Stores
<1>3. s.shown = r.shown /\ s.dirty = r.dirty
  BY <1>1 DEF WithClosed, Stores
<1>4. QED
  BY <1>2, <1>3 DEF HasFields

LEMMA ShownFields ==
  ASSUME NEW r, IsStore(r), NEW x, NEW y
  PROVE  HasFields(WithShown(r, x, y), r.byId, r.pendingIds, r.completedIds, y, x)
<1> DEFINE s   == WithShown(r, x, y)
           all == Stores({r.byId}, {r.pendingIds}, {r.completedIds}, {r.shown, y}, {r.dirty, x})
<1>1. r \in all
  BY DEF IsStore, Stores
<1>2. s.byId = r.byId /\ s.pendingIds = r.pendingIds /\ s.completedIds = r.completedIds
  BY <1>1 DEF WithShown, Stores
<1>3. s.shown = y /\ s.dirty = x
  BY <1>1 DEF WithShown, Stores
<1>4. QED
  BY <1>2, <1>3 DEF HasFields

\* A store whose lists are right, and are marked when the pending ones are
\* others, is right.
LEMMA MarkedListed ==
  ASSUME NEW s, IsStore(s), NEW shown, NEW dirty, NEW byId, NEW pend, NEW comp, NEW old,
         HasFields(s, byId, pend, comp, shown, dirty),
         NEW changed \in BOOLEAN,
         IsListOf(pend, OpenOf(byId)), IsListOf(comp, ClosedOf(byId)),
         dirty \in BOOLEAN, shown \in Seq(Orders \X Order), ~dirty => ShowsList(shown, old),
         ~changed => pend = old
  PROVE  StoreListed(Marked(s, changed))
<1>1. CASE changed
  <2> DEFINE t == WithShown(s, TRUE, <<>>)
  <2>1. Marked(s, changed) = t
    BY <1>1, Zenon DEF Marked, WithShown
  <2>2. HasFields(t, byId, pend, comp, <<>>, TRUE)
    <3>1. HasFields(t, s.byId, s.pendingIds, s.completedIds, <<>>, TRUE)
      BY ShownFields
    <3> HIDE DEF t
    <3>2. QED
      BY <3>1, Zenon DEF HasFields
  <2> HIDE DEF t
  <2>3. <<>> \in Seq(Orders \X Order)
    OBVIOUS
  <2>4. QED
    BY <2>1, <2>2, <2>3 DEF StoreListed, HasFields
<1>2. CASE ~changed
  <2>1. Marked(s, changed) = s
    BY <1>2 DEF Marked
  <2>2. QED
    BY <1>2, <2>1 DEF StoreListed, HasFields
<1>3. QED
  BY <1>1, <1>2

LEMMA UpsertedListed ==
  ASSUME StoreTyped, StoreListed(orders), NEW o \in Orders, NEW state \in Order
  PROVE  StoreListed(Upserted(orders, o, state))
<1> DEFINE pend == Inserted(orders.pendingIds, o)
           comp == Inserted(orders.completedIds, o)
           outp == Without(orders.pendingIds, o)
           outc == Without(orders.completedIds, o)
           wasPending == o \in Listed(orders.pendingIds)
           wasCompleted == o \in Listed(orders.completedIds)
           s1 == WithOpen(orders, o, state, pend, outc)
           s2 == WithClosed(orders, o, state, outp, comp)
           byId == [orders.byId EXCEPT ![o] = state]
           open == OpenOf(orders.byId)
           closed == ClosedOf(orders.byId)
<1>1. Upserted(orders, o, state) = IF state.status = "OPEN"
                                   THEN Marked(s1, ~wasPending \/ wasCompleted)
                                   ELSE Marked(s2, wasPending \/ ~wasCompleted)
  BY Zenon DEF Upserted, WithOpen, WithClosed
<1>2. IsStore(orders) /\ orders.byId \in [Orders -> Order \cup {NoOrder}]
  BY DEF StoreTyped
<1>3. IsListOf(orders.pendingIds, open) /\ IsListOf(orders.completedIds, closed)
  BY DEF StoreListed
<1>4. (wasPending <=> o \in open) /\ (wasCompleted <=> o \in closed)
  BY <1>3 DEF IsListOf
<1>5. /\ IsListOf(pend, open \cup {o}) /\ IsListOf(comp, closed \cup {o})
      /\ IsListOf(outp, open \ {o}) /\ IsListOf(outc, closed \ {o})
  BY <1>3, InsertedLists, WithoutLists
<1>6. /\ HasFields(s1, byId, pend, outc, orders.shown, orders.dirty)
      /\ HasFields(s2, byId, outp, comp, orders.shown, orders.dirty)
      /\ IsStore(s1) /\ IsStore(s2)
  BY <1>2, OpenFields, ClosedFields, StoreWithOpen, StoreWithClosed
<1>7. state # NoOrder
  BY DEF Order, NoOrder
<1>8. \A p \in Orders : byId[p] = IF p = o THEN state ELSE orders.byId[p]
  BY <1>2
<1>9. /\ orders.dirty \in BOOLEAN /\ orders.shown \in Seq(Orders \X Order)
      /\ ~orders.dirty => ShowsList(orders.shown, orders.pendingIds)
  BY DEF StoreListed
<1> HIDE DEF pend, comp, outp, outc, wasPending, wasCompleted, s1, s2, byId
<1>10. CASE state.status = "OPEN"
  <2>1. OpenOf(byId) = open \cup {o} /\ ClosedOf(byId) = closed \ {o}
    BY <1>7, <1>8, <1>10 DEF OpenOf, ClosedOf
  <2> DEFINE changed == ~wasPending \/ wasCompleted
  <2> HIDE DEF open, closed
  <2>2. ~changed => pend = orders.pendingIds
    <3>1. ASSUME o \in open PROVE pend = orders.pendingIds
      <4>1. open \cup {o} = open
        BY <3>1
      <4>2. QED
        BY <1>3, <1>5, <4>1, OneListOf
    <3>2. QED
      BY <1>4, <3>1
  <2>3. changed \in BOOLEAN
    OBVIOUS
  <2>4. Upserted(orders, o, state) = Marked(s1, changed)
    BY <1>1, <1>10
  <2> HIDE DEF changed
  <2>5. IsListOf(pend, OpenOf(byId)) /\ IsListOf(outc, ClosedOf(byId))
    BY <1>5, <2>1
  <2>6. StoreListed(Marked(s1, changed))
    BY <1>6, <1>9, <2>2, <2>3, <2>5, MarkedListed
  <2>7. QED
    BY <2>4, <2>6
<1>11. CASE state.status # "OPEN"
  <2>1. OpenOf(byId) = open \ {o} /\ ClosedOf(byId) = closed \cup {o}
    BY <1>7, <1>8, <1>11 DEF OpenOf, ClosedOf
  <2> DEFINE changed == wasPending \/ ~wasCompleted
  <2> HIDE DEF open, closed
  <2>2. ~changed => outp = orders.pendingIds
    <3>1. ASSUME o \notin open PROVE outp = orders.pendingIds
      <4>1. open \ {o} = open
        BY <3>1
      <4>2. QED
        BY <1>3, <1>5, <4>1, OneListOf
    <3>2. QED
      BY <1>4, <3>1
  <2>3. changed \in BOOLEAN
    OBVIOUS
  <2>4. Upserted(orders, o, state) = Marked(s2, changed)
    BY <1>1, <1>11
  <2> HIDE DEF changed
  <2>5. IsListOf(outp, OpenOf(byId)) /\ IsListOf(comp, ClosedOf(byId))
    BY <1>5, <2>1
  <2>6. StoreListed(Marked(s2, changed))
    BY <1>6, <1>9, <2>2, <2>3, <2>5, MarkedListed
  <2>7. QED
    BY <2>4, <2>6
<1>12. QED
  BY <1>10, <1>11

LEMMA InitLists == Init => ListsSound
<1> SUFFICES ASSUME Init PROVE ListsSound
  OBVIOUS
<1>1. /\ orders.byId = NoOrders /\ orders.pendingIds = <<>> /\ orders.completedIds = <<>>
      /\ orders.shown = <<>> /\ orders.dirty = TRUE /\ unsent = {}
  BY DEF Init
<1>2. OpenOf(NoOrders) = {} /\ ClosedOf(NoOrders) = {}
  BY DEF OpenOf, ClosedOf, NoOrders
<1>3. IsListOf(<<>>, {})
  BY DEF IsListOf, Listed, Descending
<1>4. <<>> \in Seq(Orders \X Order)
  OBVIOUS
<1>5. QED
  BY <1>1, <1>2, <1>3, <1>4 DEF ListsSound, StoreListed

LEMMA PublishListed ==
  ASSUME ViewTyped, StoreListed(orders), NEW e, Publish(e),
         e.order = 0 \/ (e.order \in Orders /\ e.state \in Order)
  PROVE  StoreListed(orders')
<1>1. orders' = orders \/ (e.order # 0 /\ orders' = Upserted(orders, e.order, e.state))
  BY DEF Publish, Apply, store
<1>2. StoreTyped
  BY DEF ViewTyped
<1>3. QED
  BY <1>1, <1>2, UpsertedListed

LEMMA RenderListed ==
  ASSUME ViewTyped, StoreListed(orders), Render
  PROVE  StoreListed(orders')
<1> DEFINE ids == orders.pendingIds
           list == [k \in DOMAIN ids |-> <<ids[k], orders.byId[ids[k]]>>]
<1>1. IsStore(orders) /\ orders.byId \in [Orders -> Order \cup {NoOrder}]
  BY DEF ViewTyped, StoreTyped
<1>2. orders' = WithShown(orders, FALSE, list)
  <2>1. orders' = [orders EXCEPT !.dirty = FALSE, !.shown = list]
    BY DEF Render
  <2> HIDE DEF list
  <2>2. QED
    BY <2>1, Zenon DEF WithShown
<1>3. HasFields(orders', orders.byId, ids, orders.completedIds, list, FALSE)
  <2> HIDE DEF list
  <2> QED
    BY <1>1, <1>2, ShownFields
<1>4. IsListOf(ids, OpenOf(orders.byId))
  BY DEF StoreListed
<1>5. /\ ids \in Seq(Orders) /\ Len(ids) \in Nat /\ DOMAIN ids = 1..Len(ids)
      /\ \A k \in 1..Len(ids) : ids[k] \in OpenOf(orders.byId)
  BY <1>4, ListShape DEF IsListOf, Listed
<1>6. \A k \in 1..Len(ids) : /\ ids[k] \in Orders /\ orders.byId[ids[k]] \in Order
                             /\ orders.byId[ids[k]].status = "OPEN"
  BY <1>1, <1>5 DEF OpenOf
<1>7. list \in Seq(Orders \X Order)
  <2> DEFINE row(k) == <<ids[k], orders.byId[ids[k]]>>
  <2>1. \A k \in 1..Len(ids) : row(k) \in Orders \X Order
    BY <1>6
  <2>2. list = [k \in 1..Len(ids) |-> row(k)]
    BY <1>5
  <2> HIDE DEF row, list
  <2>3. list \in [1..Len(ids) -> Orders \X Order]
    BY <2>1, <2>2
  <2>4. QED
    BY <1>5, <2>3
<1>8. ShowsList(list, ids)
  <2>1. DOMAIN list = 1..Len(ids) /\ \A k \in 1..Len(ids) : list[k][1] = ids[k]
    BY <1>5
  <2>2. \A k \in 1..Len(ids) : list[k][2].status = "OPEN"
    BY <1>5, <1>6
  <2> HIDE DEF list
  <2> DEFINE names == [k \in 1..Len(ids) |-> list[k][1]]
  <2>3. names = ids
    <3>1. names = [k \in 1..Len(ids) |-> ids[k]]
      BY <2>1
    <3> HIDE DEF names
    <3>2. names \in [1..Len(ids) -> Orders]
      BY <1>6, <3>1
    <3>3. names \in Seq(Orders) /\ Len(names) = Len(ids) /\ \A k \in 1..Len(ids) : names[k] = ids[k]
      BY <1>5, <3>1, <3>2
    <3>4. QED
      BY <1>5, <3>3
  <2>4. QED
    BY <2>1, <2>2, <2>3 DEF ShowsList
<1> HIDE DEF list
<1>9. QED
  BY <1>3, <1>7, <1>8 DEF StoreListed, HasFields

LEMMA HydrateListed ==
  ASSUME ViewTyped, Hydrate
  PROVE  StoreListed(orders')
<1> DEFINE known == {o \in Orders : page.orders[o] # NoOrder}
           open == {o \in known : page.orders[o].status = "OPEN"}
           pend == NewestFirst(open)
           comp == NewestFirst(known \ open)
<1>1. orders' = [byId |-> page.orders, shown |-> <<>>, dirty |-> TRUE,
                 pendingIds |-> pend, completedIds |-> comp]
  BY DEF Hydrate
<1>2. open = OpenOf(page.orders) /\ known \ open = ClosedOf(page.orders)
  BY DEF OpenOf, ClosedOf
<1>3. open \in SUBSET Orders /\ known \ open \in SUBSET Orders
  OBVIOUS
<1>4. IsListOf(pend, open) /\ IsListOf(comp, known \ open)
  <2> HIDE DEF open, known
  <2> QED
    BY <1>3, NewestFirstLists
<1> HIDE DEF pend, comp
<1>5. HasFields(orders', page.orders, pend, comp, <<>>, TRUE)
  BY <1>1 DEF HasFields
<1>6. <<>> \in Seq(Orders \X Order)
  OBVIOUS
<1> HIDE DEF open, known
<1>7. QED
  BY <1>2, <1>4, <1>5, <1>6 DEF StoreListed, HasFields

LEMMA NextLists == ViewSound /\ ListsSound /\ [Next]_vars => ListsSound'
<1> SUFFICES ASSUME ViewSound, ListsSound, [Next]_vars PROVE ListsSound'
  OBVIOUS
<1>1. ViewTyped /\ StoreListed(orders) /\ clock \in Nat /\ \A e \in unsent : e.rev # 0
  BY DEF ViewSound, ViewTyped, ListsSound, Revs
<1>2. ASSUME UNCHANGED orders, unsent' \subseteq unsent PROVE ListsSound'
  BY <1>1, <1>2 DEF ListsSound
<1>3. ASSUME NEW e, UNCHANGED orders, unsent' = unsent \cup {e}, e.rev = clock + 1 PROVE ListsSound'
  BY <1>1, <1>3 DEF ListsSound
<1>4. ASSUME NEW o, NEW n, NEW status, NEW fill, NEW changed,
             Commit(o, n, status, fill, changed)
      PROVE  ListsSound'
  <2> DEFINE state == [rev |-> clock + 1, filled |-> n, status |-> status]
             e == [order |-> o, state |-> state, fill |-> fill, rev |-> clock + 1, changed |-> changed]
  <2>1. UNCHANGED orders /\ unsent' = unsent \cup {e}
    BY <1>4 DEF Commit, store
  <2>2. e.rev = clock + 1
    OBVIOUS
  <2> HIDE DEF e
  <2>3. QED
    BY <1>3, <2>1, <2>2
<1>5. ASSUME NEW o \in Orders, CreateOrder(o) \/ MatchOrder(o) \/ CancelOrder(o) PROVE ListsSound'
  BY <1>4, <1>5, Zenon DEF CreateOrder, MatchOrder, CancelOrder
<1>6. ASSUME NEW e \in unsent, PublishCommit(e) PROVE ListsSound'
  <2>1. Publish(e) /\ unsent' = unsent \ {e}
    BY <1>6 DEF PublishCommit
  <2>2. e.order \in Orders /\ e.state \in Order
    <3>1. e.order \in Orders /\ e.state.rev = e.rev
      BY DEF ViewSound, ServerSound
    <3>2. e.state \in Order \cup {NoOrder}
      BY <1>1 DEF ViewTyped, Event
    <3>3. QED
      BY <1>1, <3>1, <3>2 DEF NoOrder
  <2>3. StoreListed(orders')
    BY <1>1, <2>1, <2>2, PublishListed
  <2>4. QED
    BY <1>1, <2>1, <2>3 DEF ListsSound
<1>7. CASE DepositPublishes
  <2> DEFINE e == [order |-> 0, state |-> NoOrder, fill |-> 0, rev |-> clock + 1, changed |-> {KRW}]
  <2>1. Publish(e) /\ unsent' = unsent
    BY <1>7 DEF DepositPublishes
  <2>2. e.order = 0
    OBVIOUS
  <2> HIDE DEF e
  <2>3. StoreListed(orders')
    BY <1>1, <2>1, <2>2, PublishListed
  <2>4. QED
    BY <1>1, <2>1, <2>3 DEF ListsSound
<1>8. CASE DepositCommits \/ DepositFails \/ ServerStops
  BY <1>2, <1>8 DEF DepositCommits, DepositFails, ServerStops, store
<1>9. CASE Load \/ ReadOrders \/ ReadBalances \/ Subscribe \/ Disconnect
  BY <1>2, <1>9 DEF Load, ReadOrders, ReadBalances, Subscribe, Disconnect, store
<1>10. CASE Hydrate
  <2>1. unsent' = unsent
    BY <1>10 DEF Hydrate
  <2>2. QED
    BY <1>1, <1>10, <2>1, HydrateListed DEF ListsSound
<1>11. CASE Render
  <2>1. unsent' = unsent
    BY <1>11 DEF Render
  <2>2. QED
    BY <1>1, <1>11, <2>1, RenderListed DEF ListsSound
<1>12. CASE UNCHANGED vars
  BY <1>2, <1>12 DEF vars, store
<1>13. QED
  BY <1>5, <1>6, <1>7, <1>8, <1>9, <1>10, <1>11, <1>12 DEF Next, Server, Page

LEMMA ListsMatch == ViewSound /\ ListsSound => ListsMatchOrders
<1> SUFFICES ASSUME ViewSound, ListsSound PROVE ListsMatchOrders
  OBVIOUS
<1>1. /\ IsListOf(orders.pendingIds, OpenOf(orders.byId))
      /\ IsListOf(orders.completedIds, ClosedOf(orders.byId))
      /\ orders.dirty \in BOOLEAN /\ orders.shown \in Seq(Orders \X Order)
      /\ ~orders.dirty => ShowsList(orders.shown, orders.pendingIds)
  BY DEF ListsSound, StoreListed
<1>2. ViewTyped
  BY DEF ViewSound
<1>3. orders \in OrdersStore
  <2>1. IsStore(orders) /\ orders.byId \in [Orders -> Order \cup {NoOrder}]
    BY <1>2 DEF ViewTyped, StoreTyped
  <2>2. orders.pendingIds \in Seq(Orders) /\ orders.completedIds \in Seq(Orders)
    BY <1>1 DEF IsListOf
  <2>3. QED
    BY <1>1, <2>1, <2>2 DEF IsStore, OrdersStore
<1>4. fills \in [Orders -> [seen : SUBSET (1..Slices), count : 0..Slices]]
  <2>1. fills \in [Orders -> [seen : SUBSET (1..Slices), count : Nat]]
    BY <1>2 DEF ViewTyped, StoreTyped
  <2>2. ASSUME NEW o \in Orders PROVE fills[o].count \in 0..Slices
    <3>1. fills[o].seen \in SUBSET (1..Slices) /\ fills[o].count \in Nat
      BY <2>1
    <3>2. fills[o].count = Cardinality(fills[o].seen)
      BY DEF ViewSound, FillsSound, FillsCountedOnce
    <3>3. Slices \in Int /\ 1 \in Int /\ Slices \in Nat /\ 1 <= Slices
      OBVIOUS
    <3>4. IsFiniteSet(1..Slices) /\ Cardinality(1..Slices) = IF 1 > Slices THEN 0 ELSE Slices - 1 + 1
      BY <3>3, FS_Interval
    <3>5. Cardinality(fills[o].seen) <= Cardinality(1..Slices)
      BY <3>1, <3>4, FS_Subset
    <3>6. QED
      BY <3>1, <3>2, <3>3, <3>4, <3>5
  <2>3. QED
    BY <2>1, <2>2
<1>5. TypeOK
  BY <1>2, <1>3, <1>4 DEF ViewTyped, StoreTyped, PageState, TypeOK
<1>6. /\ Listed(orders.pendingIds) = OpenOf(orders.byId) /\ Descending(orders.pendingIds)
      /\ Listed(orders.completedIds) = ClosedOf(orders.byId) /\ Descending(orders.completedIds)
  BY <1>1 DEF IsListOf
<1>7. ShownPendingDiffersByFills
  BY <1>1 DEF ShownPendingDiffersByFills, ShowsList
<1>8. QED
  BY <1>5, <1>6, <1>7 DEF ListsMatchOrders, OpenOf, ClosedOf

-----------------------------------------------------------------------------
(* The page's data                                                          *)

\* The invariant of what the page shows, and of what each of its parts reads.
DataSound == ViewSound /\ ListsSound /\ HoldingsSound /\ ChartSound

LEMMA InitData == DataInit => DataSound
BY InitView, InitLists, InitHoldings, InitChart DEF DataInit, DataSound

LEMMA NextData == DataSound /\ [DataNext]_dataVars => DataSound'
<1> SUFFICES ASSUME DataSound, [DataNext]_dataVars PROVE DataSound'
  OBVIOUS
<1>1. [Next]_vars /\ [HoldingsNext]_holdingVars /\ [ChartNext]_chartVars
  BY DEF DataNext, MoveUser, MoveChart, MoveHoldings, dataVars
<1>2. QED
  BY <1>1, NextView, NextLists, NextHoldings, NextChart DEF DataSound

\* What the page shows of the user's money, orders and positions is what the
\* server has, except for what it was told wrong or missed, whatever order the
\* commits, their events, the page's reads, breaks of the stream and stops of
\* the server come in (MarketTradingStore, TradingStreamService).
THEOREM PageFollowsServerHolds == DataSpec => []PageFollowsServer
<1>1. DataSound => PageFollowsServer
  BY ViewFollows DEF DataSound, HoldingsSound, PageFollowsServer
<1>2. QED
  BY <1>1, InitData, NextData, PTL DEF DataSpec

\* The two lists hold every order the store knows once, the open ones and the
\* others, newest first, and a list that is not rebuilt names the same orders,
\* whatever was told or read in whatever order: what the binary search of an
\* insertion, the filter of a removal and the sort of hydration do together
\* (OrdersStore).
THEOREM ListsMatchOrdersHolds == DataSpec => []ListsMatchOrders
<1>1. DataSound => ListsMatchOrders
  BY ListsMatch DEF DataSound
<1>2. QED
  BY <1>1, InitData, NextData, PTL DEF DataSpec

\* A fill is counted once, however often it is read and told, and never before
\* it is committed (FillsStore).
THEOREM FillsCountedOnceHolds == DataSpec => []FillsCountedOnce
<1>1. DataSound => FillsCountedOnce
  BY ViewFollows DEF DataSound
<1>2. QED
  BY <1>1, InitData, NextData, PTL DEF DataSpec

\* A settled chart shows its own market, whole, and stops loading only where
\* nothing older is to be had, over changes of the market, answers that come
\* late or fail, and rows that are written meanwhile (useChartDataV3).
THEOREM ChartIsItsMarketHolds == DataSpec => []ChartIsItsMarket
<1>1. DataSound => ChartIsItsMarket
  BY ChartHolds DEF DataSound
<1>2. QED
  BY <1>1, InitData, NextData, PTL DEF DataSpec
=============================================================================
