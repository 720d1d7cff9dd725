----------------------------- MODULE TradingView -----------------------------
(***************************************************************************)
(* What one page of one market shows its user: the server's commits and    *)
(* the events it publishes about them (TradingStreamService), the page's   *)
(* first reads, the event stream (TradingSseController), and the stores    *)
(* that are fed by both (MarketTradingStore: orders, balances, fills).     *)
(*                                                                         *)
(* Orders are reduced to their fills and status, and every value carries   *)
(* the number of the commit it comes from (rev).  Orders buy; a sell       *)
(* exchanges the roles of the two currencies.  How amounts change is the   *)
(* subject of module Ledger.                                               *)
(*                                                                         *)
(* An event reaches a live page at once: the connection keeps the order,   *)
(* and an event lost with it is one published after Disconnect.            *)
(***************************************************************************)
EXTENDS Integers, Sequences, FiniteSets

CONSTANTS
  Orders,     \* 1..n in the order of createdAt
  Elsewhere,  \* orders of another market than the page's
  Slices,     \* fills that complete an order
  MaxCommits, \* bound: commits
  MaxReads    \* bound: times the page is read

ASSUME TradingViewAssumption ==
  /\ Orders \subseteq Nat \ {0} /\ IsFiniteSet(Orders) /\ Elsewhere \subseteq Orders
  /\ Slices \in Nat \ {0} /\ MaxCommits \in Nat \ {0} /\ MaxReads \in Nat

VARIABLES
  clock,   \* number of the last commit
  db,      \* TRADING_ORDER, with the order's TRADING_FILL rows
  bal,     \* TRADING_BALANCE: the rev of a row; 0 where there is none
  deposit, \* rev of the deposit whose transaction is open, or 0
  unsent,  \* commits whose events are still to be published
  page,    \* the page: its stream, and what is being read for it
  orders,  \* OrdersStore
  cash,    \* BalancesStore, as bal
  fills,   \* FillsStore: fills seen and counted, per order
  told,    \* history: the newest rev published, or lost, of an order or a currency
  doubt    \* history: orders and currencies the page was told wrong

store   == <<orders, cash, fills>>
server  == <<clock, db, bal, deposit>>
history == <<told, doubt>>
vars == <<server, unsent, page, store, history>>

Here       == Orders \ Elsewhere
KRW        == -1   \* currencies: numbers that no order has
Coin       == -2
OtherCoin  == -3
Currencies == {KRW, Coin, OtherCoin}
CoinOf(o)  == IF o \in Elsewhere THEN OtherCoin ELSE Coin
Items      == Orders \cup Currencies
Revs       == 0..MaxCommits

Order == [rev : 1..MaxCommits, filled : 0..Slices,
          status : {"OPEN", "FILLED", "CANCELED"}]
NoOrder == [rev |-> 0, filled |-> 0, status |-> "NONE"]

\* A commit: the order (0: a deposit), its state, the fill if one was made (or
\* 0), and the balances that changed.
Event == [order : Orders \cup {0}, state : Order \cup {NoOrder}, fill : 0..Slices,
          rev : Revs, changed : SUBSET Currencies]

\* shown: what getPending last returned, while it is not dirty.
OrdersStore == [byId : [Orders -> Order \cup {NoOrder}],
                pendingIds : Seq(Orders), completedIds : Seq(Orders),
                shown : Seq(Orders \X Order), dirty : BOOLEAN]
NoOrders == [o \in Orders |-> NoOrder]

TypeOK ==
  /\ clock \in Revs
  /\ db \in [Orders -> Order \cup {NoOrder}]
  /\ bal \in [Currencies -> Revs]
  /\ deposit \in Revs
  /\ unsent \subseteq Event
  /\ page.phase \in {"off", "connecting", "live"} /\ page.loading \in BOOLEAN
  /\ page.todo \subseteq {"orders", "balances"}
  /\ page.orders \in [Orders -> Order \cup {NoOrder}]
  /\ page.cash \in [Currencies -> Revs] /\ page.reads \in 0..MaxReads
  /\ orders \in OrdersStore
  /\ cash \in [Currencies -> Revs]
  /\ fills \in [Orders -> [seen : SUBSET (1..Slices), count : 0..Slices]]
  /\ told \in [Items -> Revs] /\ doubt \subseteq Items

NoFills == [o \in Orders |-> [seen |-> {}, count |-> 0]]
NoCash  == [c \in Currencies |-> 0]

\* The user has been initialized.
Init ==
  /\ clock = 1 /\ deposit = 0
  /\ db = NoOrders
  /\ bal = [NoCash EXCEPT ![KRW] = 1]
  /\ unsent = {}
  /\ page = [phase |-> "off", loading |-> FALSE, todo |-> {}, reads |-> 0,
             orders |-> NoOrders, cash |-> NoCash]
  /\ orders = [byId |-> NoOrders, pendingIds |-> <<>>, completedIds |-> <<>>,
               shown |-> <<>>, dirty |-> TRUE]
  /\ cash = NoCash /\ fills = NoFills
  /\ told = [i \in Items |-> IF i = KRW THEN 1 ELSE 0] /\ doubt = {}

-----------------------------------------------------------------------------
(* The stores                                                               *)

Listed(ids) == {ids[k] : k \in DOMAIN ids}
Descending(ids) == \A j, k \in DOMAIN ids : j < k => ids[j] > ids[k]

\* filter: the others, in the order they have.
Without(ids, o) ==
  LET kept[k \in 0..Len(ids)] ==
        IF k = 0 THEN <<>>
        ELSE IF ids[k] = o THEN kept[k - 1] ELSE Append(kept[k - 1], ids[k])
  IN kept[Len(ids)]

\* insertSortedByCreatedAtDesc: the binary search for the place of o.
Inserted(ids, o) ==
  LET rest == Without(ids, o)
      place[part \in (0..Len(rest)) \X (0..Len(rest))] ==
        LET low == part[1]
            high == part[2]
            mid == (low + high) \div 2
        IN IF low >= high THEN low
           ELSE IF o > rest[mid + 1] THEN place[<<low, mid>>]
           ELSE place[<<mid + 1, high>>]
      at == place[<<0, Len(rest)>>]
  IN SubSeq(rest, 1, at) \o <<o>> \o SubSeq(rest, at + 1, Len(rest))

\* What was shown is not looked at again when the list is dirty.
Marked(s, changed) ==
  IF changed THEN [s EXCEPT !.dirty = TRUE, !.shown = <<>>] ELSE s

\* Mutant: an order that is closed stays among the pending ones.
UpsertedKeepsPending(s, o, state) ==
  LET wasPending == o \in Listed(s.pendingIds)
      wasCompleted == o \in Listed(s.completedIds)
  IN IF state.status = "OPEN"
     THEN Marked([s EXCEPT !.byId[o] = state, !.pendingIds = Inserted(@, o),
                           !.completedIds = Without(@, o)],
                 ~wasPending \/ wasCompleted)
     ELSE Marked([s EXCEPT !.byId[o] = state, !.completedIds = Inserted(@, o)],
                 wasPending \/ ~wasCompleted)

\* OrdersStore.upsertFromStream.  The lists are marked dirty only when an id
\* enters or leaves one.
Upserted(s, o, state) ==
  LET wasPending == o \in Listed(s.pendingIds)
      wasCompleted == o \in Listed(s.completedIds)
  IN IF state.status = "OPEN"
     THEN Marked([s EXCEPT !.byId[o] = state, !.pendingIds = Inserted(@, o),
                           !.completedIds = Without(@, o)],
                 ~wasPending \/ wasCompleted)
     ELSE Marked([s EXCEPT !.byId[o] = state, !.completedIds = Inserted(@, o),
                           !.pendingIds = Without(@, o)],
                 wasPending \/ ~wasCompleted)

\* Mutant: a fill is counted whenever it comes.
CountedAgain(f, new) ==
  [seen |-> f.seen \cup new, count |-> f.count + Cardinality(new)]

\* FillsStore.upsert, for some fills of an order: those seen are not counted.
Counted(f, new) ==
  [seen |-> f.seen \cup new, count |-> f.count + Cardinality(new \ f.seen)]

\* BalancesStore.upsertFromStream: only a currency of which a balance was read.
CashAfter(e) == [c \in Currencies |-> IF c \in e.changed /\ cash[c] # 0 THEN e.rev ELSE cash[c]]

\* MarketTradingStore.apply: the orders of any market.
Apply(e) ==
  /\ orders' = IF e.order = 0 THEN orders ELSE Upserted(orders, e.order, e.state)
  /\ fills' = IF e.fill = 0 THEN fills ELSE [fills EXCEPT ![e.order] = Counted(@, {e.fill})]
  /\ cash' = CashAfter(e)

\* A frame: PendingOrderList asks for the list, which getPending caches.
Render ==
  /\ orders.dirty
  /\ orders' = [orders EXCEPT !.dirty = FALSE,
       !.shown = [k \in DOMAIN orders.pendingIds |->
                    <<orders.pendingIds[k], orders.byId[orders.pendingIds[k]]>>]]
  /\ UNCHANGED <<server, unsent, page, cash, fills, history>>

-----------------------------------------------------------------------------
(* The server: commits, and the events about them                           *)

\* Mutant: nothing is published about a canceled order.
CommitQuietly(o, filled, status, fill, changed) ==
  LET state == [rev |-> clock + 1, filled |-> filled, status |-> status]
      event == [order |-> o, state |-> state, fill |-> fill, rev |-> clock + 1,
                changed |-> changed]
  IN /\ clock < MaxCommits /\ deposit = 0
     /\ clock' = clock + 1
     /\ db' = [db EXCEPT ![o] = state]
     /\ bal' = [c \in Currencies |-> IF c \in changed THEN clock + 1 ELSE bal[c]]
     /\ unsent' = IF status = "CANCELED" THEN unsent ELSE unsent \cup {event}
     /\ UNCHANGED <<deposit, page, store, history>>

\* A transaction on an order.  All of them lock the KRW row.
Commit(o, filled, status, fill, changed) ==
  LET state == [rev |-> clock + 1, filled |-> filled, status |-> status]
      event == [order |-> o, state |-> state, fill |-> fill, rev |-> clock + 1,
                changed |-> changed]
  IN /\ clock < MaxCommits /\ deposit = 0
     /\ clock' = clock + 1
     /\ db' = [db EXCEPT ![o] = state]
     /\ bal' = [c \in Currencies |-> IF c \in changed THEN clock + 1 ELSE bal[c]]
     /\ unsent' = unsent \cup {event}
     /\ UNCHANGED <<deposit, page, store, history>>

CreateOrder(o) ==
  /\ db[o] = NoOrder
  /\ \A p \in Orders : p < o => db[p] # NoOrder
  /\ Commit(o, 0, "OPEN", 0, {KRW})

MatchOrder(o) ==
  LET filled == db[o].filled + 1
  IN /\ db[o].status = "OPEN"
     /\ Commit(o, filled, IF filled = Slices THEN "FILLED" ELSE "OPEN", filled,
               {KRW, CoinOf(o)})

CancelOrder(o) ==
  /\ db[o].status = "OPEN"
  /\ Commit(o, db[o].filled, "CANCELED", 0, {KRW})

About(e) == e.changed \cup (IF e.order = 0 THEN {} ELSE {e.order})

\* The rev of an item in the stores.
Held(i) == IF i \in Orders THEN orders.byId[i].rev ELSE cash[i]

\* publishToUser: to the page if it listens (Subject.next).  In doubt are the
\* items of which the page misses something new, or is told something old.
Publish(e) ==
  /\ told' = [i \in Items |-> IF i \in About(e) /\ e.rev > told[i] THEN e.rev ELSE told[i]]
  /\ IF page.phase = "live"
     THEN /\ Apply(e)
          /\ doubt' = (doubt \ About(e)) \cup {i \in About(e) : e.rev < told[i]}
     ELSE /\ doubt' = doubt \cup {i \in About(e) : e.rev > Held(i)}
          /\ UNCHANGED store

\* After the commit, by whichever request or run gets there first.
PublishCommit(e) ==
  /\ e \in unsent
  /\ unsent' = unsent \ {e}
  /\ Publish(e)
  /\ UNCHANGED <<server, page>>

\* DepositService publishes before it commits.
DepositPublishes ==
  /\ clock < MaxCommits /\ deposit = 0
  /\ clock' = clock + 1 /\ deposit' = clock + 1
  /\ Publish([order |-> 0, state |-> NoOrder, fill |-> 0, rev |-> clock + 1,
              changed |-> {KRW}])
  /\ UNCHANGED <<db, bal, unsent, page>>

DepositCommits ==
  /\ deposit # 0
  /\ bal' = [bal EXCEPT ![KRW] = deposit] /\ deposit' = 0
  /\ UNCHANGED <<clock, db, unsent, page, store, history>>

DepositFails ==
  /\ deposit # 0
  /\ deposit' = 0 /\ doubt' = doubt \cup {KRW}
  /\ UNCHANGED <<clock, db, bal, unsent, page, store, told>>

\* The server stops: an open transaction is rolled back, what was not yet
\* published never is, and the stream breaks.
ServerStops ==
  /\ deposit' = 0 /\ unsent' = {}
  /\ doubt' = doubt \cup (UNION {About(e) : e \in unsent})
                    \cup IF deposit = 0 THEN {} ELSE {KRW}
  /\ told' = [i \in Items |->
       IF \E e \in unsent : i \in About(e) THEN clock ELSE told[i]]
  /\ page' = [page EXCEPT !.phase = IF @ = "live" THEN "connecting" ELSE @]
  /\ UNCHANGED <<clock, db, bal, store>>

-----------------------------------------------------------------------------
(* The page: MarketContent and NewMarketTradingProvider                     *)

\* The page is asked for, or asked for again (router.refresh); until the reads
\* are done it stays as it is.
Load ==
  /\ ~page.loading /\ page.reads < MaxReads
  /\ page' = [page EXCEPT !.loading = TRUE, !.reads = @ + 1,
                          !.todo = {"orders", "balances"}]
  /\ UNCHANGED <<server, unsent, store, history>>

\* GET /orders?market= and GET /balances: two requests, two reads, of which
\* each may fail and then counts as empty.
ReadOrders ==
  /\ "orders" \in page.todo
  /\ \E read \in {NoOrders, [o \in Orders |-> IF o \in Elsewhere THEN NoOrder ELSE db[o]]} :
       page' = [page EXCEPT !.todo = @ \ {"orders"}, !.orders = read]
  /\ UNCHANGED <<server, unsent, store, history>>

ReadBalances ==
  /\ "balances" \in page.todo
  /\ \E read \in {NoCash, bal} :
       page' = [page EXCEPT !.todo = @ \ {"balances"}, !.cash = read]
  /\ UNCHANGED <<server, unsent, store, history>>

\* sort
NewestFirst(ids) == CHOOSE list \in [1..Cardinality(ids) -> ids] : Descending(list)

\* The effect of the provider: the old stream is closed, the orders and the
\* balances are those that were read, fills that were read are counted with
\* those seen before; then a new stream.
Hydrate ==
  LET known == {o \in Orders : page.orders[o] # NoOrder}
      open  == {o \in known : page.orders[o].status = "OPEN"}
  IN /\ page.loading /\ page.todo = {}
     /\ orders' = [byId |-> page.orders, shown |-> <<>>, dirty |-> TRUE,
                   pendingIds |-> NewestFirst(open),
                   completedIds |-> NewestFirst(known \ open)]
     /\ cash' = page.cash
     /\ fills' = [o \in Orders |-> Counted(fills[o], 1..page.orders[o].filled)]
     /\ page' = [page EXCEPT !.phase = "connecting", !.loading = FALSE,
                             !.orders = NoOrders, !.cash = NoCash]
     /\ doubt' = {i \in Items : told[i] > IF i \in Orders THEN page.orders[i].rev
                                                          ELSE page.cash[i]}
     /\ UNCHANGED <<server, unsent, told>>

\* streamTrading subscribes after its own reads, whose snapshot the store
\* ignores.
Subscribe ==
  /\ page.phase = "connecting"
  /\ page' = [page EXCEPT !.phase = "live"]
  /\ UNCHANGED <<server, unsent, store, history>>

\* The stream breaks; the EventSource connects again.
Disconnect ==
  /\ page.phase = "live"
  /\ page' = [page EXCEPT !.phase = "connecting"]
  /\ UNCHANGED <<server, unsent, store, history>>

-----------------------------------------------------------------------------
Server ==
  \/ \E o \in Orders : CreateOrder(o) \/ MatchOrder(o) \/ CancelOrder(o)
  \/ \E e \in unsent : PublishCommit(e)
  \/ DepositPublishes \/ DepositCommits \/ DepositFails \/ ServerStops

Page == Load \/ ReadOrders \/ ReadBalances \/ Hydrate \/ Subscribe \/ Disconnect \/ Render

Next == Server \/ Page

Spec == Init /\ [][Next]_vars

-----------------------------------------------------------------------------
\* A list that is not rebuilt still names the pending orders, and what it shows
\* of one is an earlier or later OPEN state of it: only the filled quantity may
\* be out of date (getPending and pendingDirty).
ShownPendingDiffersByFills ==
  ~orders.dirty =>
    /\ [k \in DOMAIN orders.shown |-> orders.shown[k][1]] = orders.pendingIds
    /\ \A k \in DOMAIN orders.shown : orders.shown[k][2].status = "OPEN"

\* The two lists hold every order the store knows once, the OPEN ones and the
\* others, newest first: whatever came in whatever order, hydration included
\* (OrdersStore).  What the page shows of them differs by fills at most.  The
\* state is typed.
ListsMatchOrders ==
  LET s == orders
      known == {o \in Orders : s.byId[o] # NoOrder}
  IN /\ TypeOK
     /\ Listed(s.pendingIds) = {o \in known : s.byId[o].status = "OPEN"}
     /\ Listed(s.completedIds) = {o \in known : s.byId[o].status # "OPEN"}
     /\ Descending(s.pendingIds) /\ Descending(s.completedIds)
     /\ ShownPendingDiffersByFills

\* However often a fill is read and told, over refreshes and reconnections, it
\* is counted once, and never before it is committed (FillsStore).
FillsCountedOnce ==
  \A o \in Orders :
    /\ fills[o].count = Cardinality(fills[o].seen)
    /\ fills[o].seen \subseteq 1..db[o].filled

\* When every commit has been published and the page listens, it shows the
\* server's state, except for what it was told wrong: an event missed before
\* the subscription or in a break of the stream, an older event after a newer
\* one, a deposit rolled back.  Two things it never shows, even so: a currency
\* it was read without, and orders of other markets it was not told of.
ViewFollowsServer ==
  page.phase = "live" /\ unsent = {} /\ deposit = 0 =>
    /\ \A o \in Orders \ doubt :
         o \in Here \/ orders.byId[o] # NoOrder => orders.byId[o] = db[o]
    /\ \A c \in Currencies \ doubt : cash[c] # 0 => cash[c] = bal[c]
=============================================================================
