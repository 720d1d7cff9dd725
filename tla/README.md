# Formal model of the ChartTraders mock exchange

ChartTraders shows live prices of the Upbit exchange and lets its users trade
against them with play money. This directory specifies, in TLA+, its core:
orders, balances, matching and deposits on the server; the connection to Upbit
and the data that comes over it; and what a user's page makes of both: its
stores, chart, list of markets and order form. TLC
checks the models on small instances; TLAPS proves, for every instance, the
properties that matter most of the ledger, the deposits, the connection to
Upbit and the page.

Paths below are relative to the repository (`src/`); `trading/`, `upbit/`,
`realtime/`, `candles/`, `market/` and `auth/` stand for the directories of
that name in `src/apps/api/src/`, `web/` for `src/apps/web/src/`.

Contents: 1 the system, 2 the modules, 3 the runs, 4 the proofs, 5 what the
code does otherwise than one would think, 6 what is not modelled, 7 what is
left.

## 1 The system

`apps/api` is a NestJS server with an Oracle database (TypeORM), Redis and
BullMQ queues, and one WebSocket to Upbit. `apps/web` is a Next.js client that
keeps stores fed by REST and by server-sent events. `packages/shared-types`
holds the types of both.

| component | state | operations | talks to |
| --- | --- | --- | --- |
| Orders (`trading/orders`) | TRADING_ORDER rows | createOrder, cancelOrder | balances (reserve, restore), active markets (add), trading stream |
| Matching (`trading/matching`, `trading/domain`) | one run's book and candidates in memory; a transaction per order | matchMarket | orders, balances, positions, fills; called by the worker and by administrators |
| Balances (`trading/balances`, `balance.manager.ts`) | available and locked per user and currency | reserve, release, increase, decreaseLocked, restoreFromCancel; setBalance, resetBalances | orders, matching, deposits |
| Positions (`position.manager.ts`) | quantity, average price, cost, profit per user and market | applyFill; listed by the home page and the panel | matching, web |
| Matching worker (`order-matching.processor.ts`, `-bootstrap.service.ts`, `active-market.service.ts`) | set of active markets, in memory | process (a job a second), restore at start, add, remove | matching, orders |
| Deposits (`trading/deposit`) | TRADING_DEPOSIT rows, isInitialized | initialize, deposit | balances, trading stream |
| Decimal arithmetic (`common/helpers/decimal.ts`) | none | formatDecimal and others | everything with amounts |
| Trading stream (`trading/sse`) | subscribers per user | snapshot, publish, subscribe | orders, matching, deposits; the web stores |
| Web stores (`web/utils/stores/new`) | copies of orders, balances, fills, positions, trades, book, tickers | hydrate, upsert from a stream | trading stream, realtime streams |
| Upbit WebSocket client (`upbit/upbit-websocket.client.ts`) | socket, timers, flags | connect, reconnect, close, send | bootstrap, realtime streams |
| Rate limiter and HTTP (`upbit/`) | window of call times, queue | execute, retry | candles, markets |
| Realtime streams and bootstrap (`realtime/`) | latest value per market, the subscribed codes | start, daily sync, watchdog | WebSocket client, markets, matching (order book), web |
| Markets (`market/`) | UPBIT_MARKET rows, list in memory | syncMarket | Upbit, bootstrap |
| Candle tracker (`realtime/candle/`) | current and finalized candles per market in Redis, saved candles | handle 240m messages, init jobs, volume queries | WebSocket client, database, queues |
| Candles over REST (`candles/`) and the chart (`web/hooks/chart`) | candle rows; the page's series | fetch, merge, refresh; first candles, older pages, ticker | Upbit, web |
| Authentication (`auth/`) and web API client | refresh tokens in Redis, cookies | login, refresh, logout | everything |
| Favorites (`trading/favorites`) and the stars of the page | TRADING_FAVORITE rows; the watchlist, the bar's star | toggle | web |
| Indicators (`web/hooks/chart/candleIndicatorsV2.ts`, `IndicatorPanel.tsx`) | options in localStorage; series and panes of the chart | switch, edit, add, remove, reset, apply | chart |
| Order form (`web/components/order`, `orderform.store.ts`) | side, price, quantity; dialogs, requests under way | type, step, pick, confirm, dismiss, send | orders, ticker, order book |
| List of markets (`TickerStore.ts`, `MarketCoinListPanel.tsx`) | tickers, view, cached order | tick, sort, filter, search, star | realtime streams, favorites |
| Coin information (`cmc/`) and its queues | COIN_INFO rows, icons in a bucket, jobs | syncAll, upload, translate | CoinMarketCap, Gemini, markets |
| Mock feed, other pages | caches and rows | replay, draw | web |

**How an order travels.** `createOrder` locks the user's balance row, moves the
reservation from available to locked and inserts the OPEN order, in one
transaction; after the commit it adds the market to the active set and
publishes events. Once a second the worker takes the active markets and calls
`matchMarket` for each with the newest order book. `matchMarket` reads up to 50
candidates per side without a lock and settles them one by one, each in a
transaction that locks the order, the KRW and coin balances (in name order)
and the position, matches against the run's own copy of the book, applies the
fills to the locked rows and saves everything. A cancel locks the order, then
the balance. The events of commits go to the pages of the user that have a
stream open, where stores fold them into what the page has read.

**How a price travels.** The bootstrap reads the active markets, connects one
WebSocket and subscribes their codes; a daily job asks Upbit for its markets,
writes the difference to the database and subscribes again; a watchdog
subscribes again when no message came for 15 seconds. Ticker, trade, order book
and candle messages go to the streams of the server and on to the pages; 4-hour
candles also go to the candle tracker. Older candles are fetched over REST,
through a rate limiter, stored, and drawn by the chart.

**What is hard.** Requests and the worker interleave between transactions;
candidates grow stale; the worker and an administrator's run may match one
market at once; an exception or a crash may end a run between two orders or
within one; the active set lives in memory and is changed after awaits; checks
are made outside the transactions that rely on them; amounts are rounded when
stored and exact when compared; events are published before or after commits
and applied by clients as they come; handlers of old sockets stay attached;
messages of one market are handled concurrently across awaits; answers arrive
after the page has moved on; tokens are renewed by several tabs at once; the
page changes itself before the server has answered, keeps one entry for two
forms, and caches what it shows.
`PROJECT.json` lists these as hazards, each at its line, with the property that
watches it or the reason why none does.

**What makes each component correct.**

- Orders and balances: everything locked belongs to an order; an OPEN order can
  be canceled; money is conserved; a closed order stays closed.
- Matching: fills respect the order's quantity, amount and limit; price-time
  priority; settlement does not throw; a run, however it ends, shows as whole
  trades.
- Positions: agree with the coin balance, rounded or not; the profit is the
  cash that came in; a page shows them as it last read them.
- Worker: a market with OPEN orders is tracked and eventually tried.
- Deposits: three a month, money added once.
- Arithmetic: rounding creates no money, loses a bounded amount, and never
  makes a later check fail.
- Stream and stores: a page whose stream did not break shows the server's
  state; what it lists is consistent in itself whatever arrives.
- WebSocket client: always a connection or another attempt; no live connection
  the client does not know of; the subscription follows the active markets.
- Rate limiter: never more than the limit in a window; every call ends.
- Candle tracker: every closed candle is saved with its volume, and counted
  once.
- Realtime streams: a page has every trade, and the newest book and ticker,
  except for what came while it was not connected.
- Coin information: an icon is that of its logo; nothing is translated twice.
- Chart: shows one market, without holes, up to the oldest candle stored.
- Authentication: a refresh token works once, a session ends when logged out,
  and a user is not logged out otherwise.
- Page: the chart shows the indicators as configured; what is sent is what was
  reviewed, once; the list is in the order asked for; a star is what the server
  has; the price is one the exchange takes.

## 2 The modules

| module | role |
| --- | --- |
| `Ledger` | orders, balances, positions, matching runs, funding, overrides |
| `LedgerProperties` | its properties and the inductive invariant |
| `Exchange` | the abstract exchange that trading on the ledger implements |
| `MCLedger` | order books and prices of the small instances |
| `LedgerProofs` | type correctness, lemmas on sums and the safety invariants; on whole trades: conservation, frozen orders, priority, the refinement |
| `ActiveMarkets` | the worker's active set, crashes, restarts |
| `Deposits` | initialization and deposits under concurrent requests |
| `Rounding` | what rounding to 8 decimals does to the KRW of the buys |
| `Positions`, `PositionsProofs` | on it, the coins and the position, and SELL orders |
| `TradingView` | commits, events, and the stores of one page |
| `ChartData` | candles over REST and the chart that shows them |
| `Holdings` | the positions a page shows, and the tab of held coins |
| `PageData`, `PageDataProofs` | what a page reads: the three above |
| `UpbitSocket`, `UpbitFeed` | the sockets to Upbit; on them, the bootstrap, daily sync and watchdog |
| `CandleTracker` | the 4-hour candles of a market |
| `Streams` | its trades, order books and tickers, from Upbit to the page |
| `MarketFeed`, `FeedProofs` | the messages about a market: the two above |
| `CoinInfo`, `MCCoinInfo`, `CoinInfoProofs` | icons and translations of coins, and the queues of both |
| `UpbitHttp` | the rate limiter and the retries that go past it |
| `ServerProofs` | proofs about `ActiveMarkets`, `Deposits`, `UpbitHttp` and `UpbitFeed` |
| `Sessions` | one browser's tokens, tabs and proxy |
| `IndicatorPanes` | the indicators a user configures, and what is drawn of them |
| `OrderForm` | the order form, its sheet and its dialogs |
| `TickerList` | the list of markets: tickers, view, search, cached order |
| `Favorites` | the star of a market, on the page and on the server |
| `TickSize` | price steps: pure operators |
| `MarketPage`, `MarketPageProofs` | the page put together of `Sessions` and the five above |
| `Tally`, `TallyProofs` | the sum of a function over a finite set |

`PageData`, `MarketFeed` and `MarketPage` put parts together that share no
variable: a ticker, a price picked or a request answered is an input of each
part, open to every value. So one variable (`kind`, `topic`, `focus`) chooses
the part that moves in a behaviour; anything else would multiply their states
and distinguish nothing.

### Ledger and Exchange

| variable | code |
| --- | --- |
| `orders` | TRADING_ORDER, ids in the order of createdAt. `spent`, the value of the fills, stands for the TRADING_FILL rows; `total`, what the order reserved at first, is history |
| `bal` | TRADING_BALANCE; a missing row is a row of zeros |
| `pos` | quantity of TRADING_POSITION |
| `job` | local variables of a `matchMarket` call: its copy of the book and the candidates still to try (`listed` keeps the original list) |
| `tx` | the open settlement transaction of a run: the order and working copies of the locked rows |
| `funded` | history: KRW a user received from outside |

| action | code |
| --- | --- |
| `CreateLimitBuy`, `CreateMarketBuy`, `CreateSell` | the branches of `createOrder` before its transaction; `CreateOrder` is the transaction |
| `CancelOrder` | `cancelOrder` |
| `StartRun` | `matchMarket` up to its loops, with `findMatchableOrders` |
| `SkipOrder` | a candidate that is no longer OPEN |
| `LockOrder` | `getOrderWithLock` and `prepareResources` |
| `Fill` | one level of the matcher, the calculator, `applyFills` for that fill |
| `FillThrows` | an exception of `release`, `decreaseLocked` or `applySell` |
| `Settle`, `NoMatch` | the end of a strategy: status, `persistResults`, commit; or null |
| `FinishRun`, `RunFails` | the end of the loops; a database error or a crash, with rollback |
| `Initialize`, `Deposit` | `DepositService`, as far as balances go |
| `ResetBalances`, `SetBalance` | `BalancesService` |

`Exchange` knows free balances and, per order, its terms, what it still holds,
and the sum of its trades. `LedgerProperties` maps the ledger's committed rows
to it: a free balance is what is available, an order holds what it claims. All
that a run does before `Settle` is a stutter; `Settle` is one `Trade`, however
many fills it had.

Choices to know of:

- A request's transaction is one action, because it reads and writes under row
  locks only; it is blocked while a settlement holds one of its rows
  (`OrderLocked`, `BalanceLocked`). A settlement is many actions, because runs
  overlap and may fail half-way. Settlements lock their rows in one step: the
  order of locking, and deadlocks the database resolves by an abort, are left
  to `RunFails`.
- Matching and applying fills, two loops in the code, are one `Fill` per level.
  Both work on the run's own copies, so nobody sees the difference, and an
  exception discards them all.
- The order book is an input: any book of `Books` at any time.
- The two candidate queries are one read. Orders created in the same instant
  do not exist.
- Amounts are exact whole numbers. Where price times quantity has at most 8
  decimals this is what the code computes; `Rounding` shows what happens
  otherwise, and that no check fails before rounding has taken something
  (`ExceptionsNeedLoss`). Quantities with more than 8 decimals, which
  `parsePositiveDecimal` lets through, are not modelled.
- A MARKET BUY's placeholder price and quantity (1e-8 in the code) are 1.

### ActiveMarkets

`open` counts a market's OPEN orders, `adding` the creates between commit and
`activeMarkets.add`, `active` is the set, `step`/`at`/`todo` the worker's place
in `process` and `matchSingleMarket` (its awaits are the boundaries of the
actions), `phase` and `restore` the bootstrap. `unseen` and `raced` are history:
they mark a market removed although an order was committed there after it was
counted. `Crash` loses the memory; a BullMQ worker takes jobs as soon as it is
up, so `TakeJob` is possible while `Boot` and `Restore` are under way, whereas
requests are served only afterwards (`onModuleInit` is awaited).

### Deposits

One user, several requests. `AskInitialize`/`AskDeposit` are the reads before
the transaction, `Overwrite`, `FindNoRow`/`Insert` and `Deposit` the
transaction; `Fail` is a rollback (also of an insert that finds the primary key
taken). `NextMonth` is the calendar. `grants` and `due` are history: the
initializations that took effect, and what came in with them and the deposits.

### Rounding

The KRW of one user's buys, with `1/Scale` the smallest stored amount and
products in `1/Scale^2`. `Stored` is `formatDecimal` (rounds down); `reserve`,
`restoreFromCancel` and `release` compare the stored amount with the exact one,
as in the code. The book is known only by the levels the matcher comes to.
`exact` is history: the account had nothing been rounded. A settlement of one
user is not interleaved with another here; Ledger does that.

### Positions

Extends `Rounding` by what is rounded on its own: the coins of the balance, and
the position's quantity, average price, cost and profit. `Lock`, `BuyFill`,
`SettleBuy` and `RollBack` are Rounding's actions with what they do to `work`,
the transaction's copies; `CreateSell`, `CancelSell`, `LimitSellFill` and
`MarketSellFill` are the SELL orders, settled one fill at a time.

### TradingView

The server commits (`CreateOrder`, `MatchOrder`, `CancelOrder`, a deposit in
two steps: `DepositPublishes` inside the transaction, then `DepositCommits` or
a rollback) and publishes later, in any order (`PublishCommit`; `ServerStops`
loses what is unsent). The page reads orders and balances in separate requests
(`Load`, `ReadOrders`, `ReadBalances`), puts them in its stores (`Hydrate`),
subscribes, and loses the stream (`Disconnect`). `orders`, `cash` and `fills`
are `OrdersStore`, `BalancesStore` and `FillsStore`, down to the id lists and
the cached list of pending orders. A value carries the number of the commit it
comes from, which is all a client can be told wrong. `told` and `doubt` are
history: the newest thing said of an item, and the items that met a lost event,
an older event after a newer one, a rollback, or a fault of the store.

### Holdings

`held` are the rows of TRADING_POSITION, `visit` a page with its read of them,
`kept` the PositionsStore, which outlives the page and is filled by `ShowPage`
alone, `own` the codes of the coins read, and `tab` the list a user opens, with
its query, sort and rows. `FetchPositions` may fail, a page may be left before
it is shown (`VisitPage`), and `LoadDocument` empties all. `late`, `outdated`
and `ticked` are history: fills since the last read and since the read the
store is from, and prices that changed since the rows were put in order.

### UpbitSocket and UpbitFeed

`link` are the sockets not yet closed, the client's own being `ws`; `Connect`,
`Opened`, `Message`, `Silence`, `Closed` are the handlers of a socket, which
stay attached when it is replaced; `ReconnectTimer` (5 s) and `ReplaceTimer`
(200 ms) the timers. `UpbitFeed` EXTENDS it with the callers: `JobStart`,
`Fetched`, `Insert`, `Update`, `Reload`, `Subscribe` and `Fails` are the steps
of the start and of the daily sync between two awaits, `DogReads` and
`DogSubscribes` the watchdog, `Relisted` and `SocketCloses`/`Stalls` what Upbit
does. `late`, `failed` and `overlap` are history and name the faults after
which the connection may be wrong.

### CandleTracker

`current`, `lastTime` and `finalized` are the Redis keys, `db` the table. A
message starts a handler (`call`); `queue` is the order in which its commands,
those of other handlers, of the init job and of a query reach Redis; the
database answers any time. `InitJob`'s steps, a query in two commands, `Crash`
(handlers are lost, Redis stays) and `Expire` interleave with them.
`disturbed`, `refilled` and `heard` are history; a candle is marked when a
handler overtakes another, when it is saved while in progress, or as it was
before another handler raised it (`Outdated`: the candle is read, the database
asked for a row, and the volume read first is saved), and by the faults. The
last of these races takes three handlers, one more than the run has: the proof
of `CountedOnce` found it missing.

### Streams

`recent`, `book` and `ticker` are what the three services keep
(`HandleRawTrade`, `HandleRawOrderbook`, `HandleRawTicker`), `wire` the events
on their way over the page's connections (`link`). A page is opened, reads the
three in any order, is shown, and only then connects (`Connects`); a connection
breaks, or all do with the server. `OnTrade`, `OnOrderbook` and `OnTicker` are
the stores, `NotifyTrades` and `FlushRows` the frame on which the components
hear of it. The rows of the book are built as the store builds them
(`buildRows`: place, size, width of the bar). `missed` and `behind` are history.

### CoinInfo

`sync` are the calls of `syncAll` under way, each with the entities it read;
`queue` the two BullMQ queues with waiting, active and ended jobs, by job id;
`bucket` the icons. A sync creates rows (`Create`), asks CoinMarketCap
(`IdsAnswered`), and saves and enqueues market by market (`Update`,
`EnqueueIcon`); the workers read a row (`TakeIcon`, `TakeTranslation`), work,
and save the entity they read (`SaveIcon`, `SaveTranslation`), fail
(`JobThrows`) or stop with the process (`Crash`). Only requests queue
translations (`QueueTranslate`): the sync's own call is commented out.
`unheard` and `stale` are history.

### ChartData

Server: `Tick` (a new candle begins) and `Refresh` (the background job that
merges pages of Upbit into `rows`; `latest` is the candle in progress). Page:
`Select` a market, `FirstAnswered` for its first candles, `LoadMore` and
`PageAnswered` while the user scrolls, `TickerSync` for the price of the last
candle. `first` and `empty` are the query cache; `overtaken` and `filled` are
history.

### UpbitHttp

`Execute` puts a callback in the queue and starts the loop unless it runs;
`Proceed` filters the time stamps and sleeps, or starts the callback;
`Answered`, `TooMany` (429) and `Retry` are its outcomes; `Tick` is time, in
fractions of the window.

### Sessions

The browser's cookies, the tokens in Redis, and the requests between them:
`Login`, `OpenTab`, `AccessExpires`, `Call` and `Unauthorized` in a tab, with
its single flight of refreshes; the proxy renews by itself (`ProxyRenews`). A
refresh is `Checked`, `Deleted`, `Issued` and `Answered`, or `Lost`; a logout
has two steps and may be lost. A token is the second it was issued in, since it
is signed over the user and that second only.

### IndicatorPanes

`options` is what the panel edits (`Toggle`, `ToggleAverages`, `AddSma`,
`RemoveSma`, `CommitValue`, `SwitchMa`, `Reset`) and localStorage keeps
(`Reload`). Every change is applied at once if there are candles, and so are
new candles (`DataArrives`): `Apply` is `apply` of the indicator manager, the
lines (`OverlaysDrawn`), then the volume, then RSI and MACD, then the shares of
the height (`PanesDrawn`). Numbers are kept as far as it matters: an
indicator's fields have their default, another value, or a fraction, which
the panel accepts and which indexes a candle that is not there (`Throws`). The
chart library is `With` and `Without`. `late` and `stale` are history: the
volume put behind other panes, and bands edited while drawn.

### OrderForm

`form` is the store, shared by the form of the page (number 0) and by the
sheets a narrow window opens (1, 2, ...: each has a life of its own, and its
request may outlive it). A field commits when it loses the focus (`Type`,
`Commit`); buttons, the order book and the first ticker write to the store
(`StepPrice`, `ShareOfBalance`, `SetSide`, `PickPrice`, `InitPrice`). `Submit`
asks, `Confirm` sends, `Placed` and `Failed` are the answers with what
follows them; `CloseModal`, `CloseSheet` and `Resize` take a dialog or a sheet
away, a request under way or not. `reviewed` and `dismissed` are history.

### TickerList

`UpsertFromStream` is a ticker, `Recompute` the timer that sorts the list
again, `Schedule` what sets it. A market is its place in the order of codes, a
query the market it finds. `StreamSettles` ends the 1.5 s in which tickers do
not reorder; `skipped` is history. The panel's search field has its own text,
and tells the store nothing while a syllable is composed.

### Favorites

`Click` changes the page and sends a request, `ToggleAnswered` undoes the
change if no answer, or a failure, comes back. The server reads (`FindOne`),
then removes the row it found (`RemoveRow`; `RemoveNothing` if another request
did) or inserts (`SaveRow`, refused by the unique index). `strayed` and `mixed`
are history.

### TickSize and MarketPage

`TickOf` is `getKrwTickRule`, `CommitPrice` what becomes of a typed price,
`StepUp` and `StepDown` the buttons, in thousandths of a won. `MarketPage` puts
the six together as `TestMarketPageClient` does.

## 3 The runs

| run | instance | checks |
| --- | --- | --- |
| `ledger_trading` | 2 users, 1 market, 2 runs, 3 orders, crashes, symmetric | the properties of `LedgerProperties` that hold while users trade, and `ImplementsExchange` |
| `ledger_overrides` | 1 user, 2 runs, 2 orders, resets and setBalance | `KrwConserved`, `TerminalOrdersFrozen`, whatever balances become; `FillThrows` is reached |
| `ledger_leftover` | 1 user, 1 run, 2 orders | the violation of section 5 |
| `active_markets` | 2 markets, 2 OPEN orders each, crashes | `ForgottenOnlyInRace`, `OpenOrdersTried` |
| `deposits` | 2 requests at once, 2 months | `MoneyLostOnlyByRace`, `OvershootBounded` |
| `rounding` | 2 buys, 1 sale, unit 1/2, prices 2, 3 and 7 | `NeverMinted`, `LossBounded`, `ExceptionsNeedLoss`, `CoinsAndPositionAgree`, `ProfitIsCash` |
| `page_data` | 2 orders, one of another market, 4 commits, the page read twice; 2 charts, 4 candle times, pages of 2; 2 assets, 2 prices, 2 fills, 2 visits; symmetric | `ListsMatchOrders`, `FillsCountedOnce`, `PageFollowsServer`, `ChartIsItsMarket` |
| `upbit_feed` | 3 sockets, 2 markets, 2 faults, 1 daily sync | `NeverAbandoned`, `ClientKnowsItsSocket`, `NewestListUnlessDisturbed` |
| `upbit_http` | 4 callers, 2 calls per window of 3 ticks, 2 retries | `SentInWindow`, `EveryCallEnds` |
| `market_feed` | 3 candles, 2 handlers, 3 trades, 1 init job, a query, faults; 2 books, 4 messages, 1 break or restart, 2 time stamps, 2 trades and 2 rows a side kept | `CountedOnce`, `AnswerOffByOneCandle`, `PageFollowsFeed` |
| `coin_info` | 2 markets, 1 id, 2 syncs, 1 change at CoinMarketCap, symmetric | `IconsFollowLogos`, `TranslatedOnce` |
| `market_page` | 2 tabs, 2 calls, the proxy, 2 seconds; 3 averages, bands, edits of 3 indicators, all panes; 2 prices, 2 sheets; 2 markets, 3 tickers; 3 clicks; 3 steps around each edge | `SentAwayOnlyIfDisturbed`, `OneLiveToken`, `DrawnAsConfigured`, `SentAsReviewed`, `OneAtATime`, `ListFollowsView`, `StarIsFavorite`, `StepsUndone` |

**The properties.** Type correctness of the ledger is a theorem; elsewhere
`TypeOK` is a conjunct of one of the properties below.

- `LockedIsClaimed`: a locked balance is exactly the sum of what its owner's
  orders claim of it (including what a FILLED MARKET BUY left behind).
- `CoinsMatchPosition`, `KrwConserved`: coins equal the position; KRW equals
  what came from outside, less the buys' fills, plus the sells'.
- `OpenOrdersCancellable`, `SettlementNeverThrows`: the checks in
  BalanceManager and PositionCalculator never fail.
- `FillsHonourOrder`: quantity, amount and limit price. `NoOvertaking`: when a
  run is about to give an order a fill, no candidate before it that is still
  OPEN would take one unit at that level.
- `TerminalOrdersFrozen` (every step): a FILLED or CANCELED order is not
  changed, so a cancel and a run cannot both win.
- `ImplementsExchange`: every behaviour of trading is one of `Exchange`.
- `ForgottenOnlyInRace`, `OpenOrdersTried`: a market with an OPEN order leaves
  the active set only by the count-then-remove race, and is eventually tried
  otherwise.
- `OvershootBounded`, `MoneyLostOnlyByRace`: n deposit requests at once exceed
  the monthly limit by at most n - 1; money brought in is lost only when
  several initializations took effect, and never made.
- `NeverMinted`, `LossBounded`, `ExceptionsNeedLoss`: rounding never gives a
  user money, takes less than two units of 1e-8 per update, and no check of
  BalanceManager fails while it has taken nothing. `CoinsAndPositionAgree`: the
  coins of the balance are the position's, though each is rounded by itself,
  and a sale never throws. `ProfitIsCash` (every step): profit less cost is the
  cash that came in, up to one rounding a fill of a buy, and two roundings and
  what the rounded quantity and average price amount to a sale. Per
  settlement there is no such bound: it grows with the fills.
- `ListsMatchOrders`, `FillsCountedOnce`: the lists of a page agree with the
  orders it knows, whatever order events came in; the cached list differs at
  most in the fills of an order; no fill is counted twice.
- `PageFollowsServer`: a page whose stream runs and that has been told
  everything shows the server's orders and balances, except for what is in
  doubt (`ViewFollowsServer`); its positions are the server's up to fills after
  it read them, over failed reads and pages left early, and the list shows them
  in the order asked for (`HoldingsFollow`).
- `NeverAbandoned`: after the start there is a socket, or a timer that will
  make one. `ClientKnowsItsSocket`: no other socket is alive unless one was
  replaced before its close event. `NewestListUnlessDisturbed`: between jobs
  the subscription is to the active markets, unless a sync failed half way or
  overlapped the watchdog.
- `SentInWindow`: first attempts keep to the limit in every window, all
  attempts exceed it by at most the repeats in it. `EveryCallEnds`: a promise
  is settled.
- `CountedOnce`: a closed candle the tracker heard of is saved with its last
  volume, unless it met one of the races and faults the model names; the set
  has one member per candle, unless an init job put it there beside a handler.
  `AnswerOffByOneCandle`: a query misses or doubles at most the candle that
  moves between the keys meanwhile.
- `PageFollowsFeed`: a page that took every event has the service's trades,
  newest first, its book and its ticker, up to messages between its reads and
  its connections or during a break; a component shows its row unless it is
  about to be told; with a full side the best price is next to the middle.
- `IconsFollowLogos`: at rest a coin's icon is that of its logo, unless its job
  was ignored, lost or spent on another market, or a stale entity was saved.
  `TranslatedOnce` (every step): a translation is never replaced.
- `ChartIsItsMarket`: at rest, a chart shows one market without holes, unless
  the market was changed while a page was on its way; it stops loading only at
  the oldest stored candle, or after a page that failed.
- `SentAwayOnlyIfDisturbed`, `OneLiveToken`: a tab with a session is sent to
  the login page, or a token other than the cookie's stays valid, only after
  requests overlapped or one got lost.
- `DrawnAsConfigured`: lines and panes are those of the options, each in its
  place and with its value, whatever was switched in whatever order, except for
  the two oddities of section 5; only a fractional period, or the cloud over a
  single candle, takes the page with it.
- `SentAsReviewed` (every step): an order sent is the one its dialog was opened
  with, unless the user changed it since; no ticker, answer or other form does.
  `OneAtATime`: two requests are under way only after a dialog was dismissed.
- `ListFollowsView`: with no timer set, the cached list is that of the tickers,
  stars, search and order as they are. `StarIsFavorite`: at rest the list's
  star is the row's unless an answer was lost or one row removed twice.
- `StepsUndone`: the price is on the exchange's grid, and the buttons undo each
  other, also where the step changes.

Properties named ...Unless and ...Only say precisely when the code may go
wrong: the history variable is set in the one action where the race or fault
happens, and TLC finds the property violated when that action is left out of
it. What follows for users is in section 5.

`OpenOrdersCancellable` and `SettlementNeverThrows` do not hold once users
reset balances (section 5), so `ledger_trading` uses `TradingSpec`, without
resets and overrides, and `ledger_overrides` uses `Spec`.

**Bounds.** Each is a CONSTANT, and the module says what it stands for.

- Ledger: `OrderLimit` (orders created), `FundingLimit` (KRW a user may have
  received). Two price levels with up to one unit per level and side are enough
  for a fill at a better price than the limit, a fill over two levels, a
  partial fill that is resumed in a later run, a level used up by an earlier
  candidate, and an order the book cannot satisfy. Three orders allow buying,
  then selling what was bought, with a rival in the list; two runs are enough
  for every pair of steps to interleave. `MaxOrders` is at least the number of
  orders where the cut-off is not the question. `Won` is 1 unit, so that the
  last won of a MARKET BUY is within the instance.
- ActiveMarkets: `OpenLimit` 2, so that one order can be closed while another
  is created. Deposits: two requests suffice for every race of section 5.
- TradingView: 4 commits and 2 fills per order are a create, a partial fill, a
  last fill or cancel, and a rival event; two reads are a page that is
  refreshed. Holdings: two fills are a purchase and a sale, or one of each
  asset; two visits are two pages that share the store.
- UpbitFeed: three sockets are one that is held and two that have not closed
  yet; two faults are a fault while another is being repaired.
- CandleTracker: three candles are one closed, one that closes and one that
  begins; two handlers meet at every await; keys live for two candles, so that
  they expire within a behaviour.
- Streams: two trades kept and four messages push one out; two stamps make a
  tie and an older trade that comes later; the two books differ in one order
  and in every bar, and one has a level without an order. CoinInfo: two markets
  of one id, and a sync that begins while another is at any of its steps;
  `MaxLoad` keeps two overlapping syncs to one listed market.
- ChartData: four times and pages of two are a first page, an older one, and a
  candle that begins meanwhile.
- UpbitHttp: four callers are two more than the limit. Sessions: two tabs and
  the proxy are the three that share the cookies; two seconds are two tokens
  issued in one second and one later.
- IndicatorPanes: three averages are the one that stays, one that is removed
  and comes back, and one that is added; one value differs from the default at
  a time, a band's (drawn once), a line's or a pane's (which may throw). OrderForm: two
  sheets are one with an order under way and the next; of two prices one is
  worth enough with two units. TickerList: two markets are one that passes the
  other; their tickers make a tie, a change that counts for one order only, and
  one that counts for both. Favorites: three requests are two that find the
  same row and one after them. TickSize: all nine edges, three steps to each
  side, and prices between the steps.

The proofs of section 4 have none of these bounds. Deadlock is checked for the
worker, the connection's callers and the rate limiter; in the other modules a
behaviour ends where the bounds are used up, and users owe the system no
further request.

**Fairness** is assumed in two places. `FairMarketsSpec` of ActiveMarkets: weak
fairness of the worker (a job is due every second, the queue keeps it across
restarts, and awaited database calls return or throw), of the continuation of a
committed create, and of the two steps of the bootstrap (a supervisor starts
the process again). `HttpSpec`: weak fairness of the loop, of answers
(`timeout` ends a request that gets none), of the sleeps and of time. Users,
cancels and crashes have none. UpbitFeed has none: in a model without time the
watchdog and a late close event may take turns for ever, which the 15 and 5
seconds of the code make implausible but do not exclude, so what it says of
reconnection is the invariant `NeverAbandoned`.

**Mutants.** For every property of a passing run `PROJECT.json` names an
operator, marked `Mutant` in its module, that changes one definition the way a
plausible bug would (a lock not taken, a refund forgotten, a check dropped, an
off-by-one); with it TLC finds the property violated.

## 4 The proofs

All are for every value of the constants that satisfies the module's ASSUME.

| theorem | statement |
| --- | --- |
| `TypeCorrect` | `Spec => []TypeOK`: with resets and overrides, no amount is ever negative |
| `LockedIsClaimedHolds`, `CoinsMatchPositionHolds`, `OpenOrdersCancellableHolds`, `SettlementNeverThrowsHolds`, `FillsHonourOrderHolds` | the invariants of `ledger_trading`, under `TradingSpec` |
| `KrwConservedHolds`, `TerminalOrdersFrozenHolds` | under `Spec`, with resets and overrides |
| `TradesSoundHolds`, `ImplementsExchangeHolds` | the working copies of a settlement are one trade; trading implements the abstract exchange |
| `NoOvertakingHolds` | price-time priority, for any number of orders, markets and runs, with resets and overrides |
| `ForgottenOnlyInRaceHolds` | the only way to lose a market |
| `OvershootBoundedHolds`, `MoneyLostOnlyByRaceHolds` | n requests at once exceed the limit by less than n; money is lost only by racing initializations |
| `NeverMintedHolds`, `LossBoundedHolds`, `ExceptionsNeedLossHolds` | rounding never gives money, loses less than two units an update, and nothing fails before it has, for every scale, all prices and any number of orders |
| `CoinsAndPositionAgreeHolds`, `ProfitIsCashHolds` | coins and position, profit and cash, likewise |
| `SentInWindowHolds` | the rate limit, for any limit, window, retries and callers |
| `IconsFollowLogosHolds`, `TranslatedOnceHolds` | icons and texts, for any markets, ids, syncs and changes |
| `NeverAbandonedHolds`, `ClientKnowsItsSocketHolds`, `NewestListHolds` | the connection to Upbit, for any number of sockets, markets, syncs and faults |
| `CountedOnceHolds`, `AnswerOffByOneCandleHolds`, `TrackSoundHolds` | the candles of a market and the volumes read of them, for any number of handlers, init jobs, candles and trades |
| `PageFollowsFeedHolds` | trades, book and ticker on a page, for any books, time stamps, sizes of the lists, messages and broken connections |
| `PageFollowsServerHolds`, `FillsCountedOnceHolds`, `ListsMatchOrdersHolds` | what a page shows of orders, balances, fills and positions, and its lists of orders, for any number of orders, commits, reads and visits |
| `ChartIsItsMarketHolds` | the chart, for any markets, candles and page size of at least 2 |
| `OneLiveTokenHolds`, `SentAwayOnlyIfDisturbedHolds` | the session, for any number of tabs and calls |
| `OneAtATimeHolds`, `SentAsReviewedHolds` | the order form, for any prices, quantities and number of sheets |
| `ListFollowsViewHolds` | the list, for any markets and tickers |
| `DrawnAsConfiguredHolds` | the lines and panes of the chart, for any averages and bands |
| `StarIsFavoriteHolds` | the star, for any number of requests |
| `StepsUndoneHolds` | the price field, at every price from a tenth of a won up |

**The ledger.** None of the safety properties is inductive by itself: between
`LockOrder` and `Settle` a run holds working copies that replace rows later.
`LedgerInvariant` adds what connects them. `TxMatches` says that the working
copies differ from the committed order and balances by exactly what the fills
so far have moved, so that writing them back preserves `LockedIsClaimed`;
`TxApart` says that no two open settlements share a user (each holds the
user's KRW row), so that nobody else changed these rows meanwhile;
`OrdersSound` relates quantities, amounts and prices of an order. The lemmas
show each step to preserve the conjuncts it can disturb. Then
`OpenOrdersCancellable` and `SettlementNeverThrows` follow because an order's
own claim is at most the sum of all claims. Sums are counted as tokens
(`Tally`): the lemmas of `TallyProofs` (changing one summand changes the sum by
the difference; a summand is at most the sum) follow from the library's facts
about cardinality, without recursion.

**The refinement** needs one invariant more, `TradesSound`: what an open
settlement would write is one trade of the order as it was read, at its limit
or better, with the free balances moved by exactly what that trade moves. Each
`Fill` extends the trade, and `Settle` makes it the abstract step. `TxMatches`
supplies that the order and the balances read are still those committed.

**Money.** With resets and overrides balances and claims no longer agree, so
`KrwConserved` cannot rest on `LedgerInvariant`. `MoneySound` keeps the part
that survives: the working copies of an open settlement have moved the KRW of
its user by exactly what its order was filled for, its rows are OPEN, and no
two settlements share a user.

**Priority.** `NoOvertaking` speaks of the moment of a fill, and needs for every
candidate of a run that its fate is known (`RunInOrder`): it is still queued, or
is being settled, or is *sated*, that is, no longer OPEN, or takes no unit at
the level the run comes to next. That is inductive because the rows of orders
only shrink and an order that left OPEN never returns (`Later`), and because the
levels of a run's own book only get worse for its orders, so that what takes
nothing at one takes nothing at the next.

**The connection.** A close that shall not reconnect is always that of a closing
socket which is not all there is: a timer runs or there is another socket
(`CloseExpected`); with that `NeverAbandoned` is inductive. For
`NewestListUnlessDisturbed`, `SyncSound` relates rows, memory, the payload and
the variables of the job at each step of a sync that nothing disturbs.

**The page.** Sessions: undisturbed there is one request for tokens at a time,
and it carries the cookie's token (`SessionSound`). OrderForm: what a dialog
showed is what the store holds, or nothing can be sent, and an order under way
is that of the visible, busy form, unless one was dismissed (`FormSound`).
TickerList: what was sorted is still sorted, since a ticker that does not change
an order's key leaves the sorted values as they are and the others set the timer
(`ListSound`). Favorites: star and row differ by the parity of the requests
outstanding (`StarSound`). Price field: every zone of the tick rule is treated
by itself; its edges are multiples of the steps on both sides, so a step never
leaves the grid, and the step back meets the same step.

**What a page reads.** The invariant of `PageData` is that of its three parts
(`DataSound`). Orders and balances (`ViewSound`): what a page holds of an item
carries the number of a commit, and a state with the number of the row is the
row; what is newest has been told or is still to be sent; what the page has
been told is no newer than what it holds, except for balances in doubt. The
numbers make the order of events and reads immaterial, and that is the reason
why the list, the balances and the count of fills come out right. Positions
(`HoldingsSound`): no row of the server disappears, and a read on its way is
what the store is about to get. Chart (`ChartSound`): what is read first of a
market is the newest page of its candles, or all of them; a chart that nothing
overtook is complete between its ends, a page on its way continues exactly what
is drawn, and where loading ended nothing is older. Its lemmas are about the
newest n of a set of times, which exist since the times up to a bound are
finite. Two assumptions are narrower than the model needs to run: a page has at
least two candles (200 in the code), since a page of one candle up to and
including the oldest drawn would bring nothing older; and `MaxCommits` is at
least 1, since the user's initialization is the first commit.

**Lists and panes.** These rest on what a loop computes: the filter, the binary
search and the sort of `OrdersStore`, and the filter that drops empty panes. They
are written as recursive functions over numbers, or pairs of numbers, or
as the one list that is in order. That such a function exists, and what it
returns for every list, is proved by the least argument at which it would
fail, since the induction theorems of the library are out of reach. Without an
order its list is still descending; the binary search ends at the first place that
keeps it so; and two descending lists of the same orders are one list, so a
list kept in order by insertions is the one a read would sort (`ListsSound`).
For the panes, `PaneInv` says that no pane is empty, that a series is in one of
them, that volume and oscillators share none, and that a volume pane which was
not made behind others is the first (`PanesSound`); each step of `apply` is a
lemma about any panes of that shape. Then the volume is 1 pane, RSI and MACD
are those up to 1 + the number of them, and the heights, which go by position,
meet the right ones. The proof found the cases of two definitions to overlap:
the first that applies was meant, and TLA+ leaves open which one is taken. They
are IF ... ELSE now.

**The others.** ActiveMarkets: while booting, what was read is complete, and a
count of zero that no create overtook is true. Deposits: a request is admitted
only while fewer than the limit are used, so those pending and used together
are bounded by the limit and the number of requests; money missing is at most
what was due before an initialization that came second.

**Rounding.** `NeverMinted` is `Stored(x) * Scale <= x`, applied to every update,
with a refund that is never negative because a LIMIT BUY is filled at its price
or below. `LossBounded` is the sum of two roundings per update. A check can fail
only if the account locks less than an order claims, so `ExceptionsNeedLoss`
rests on what is locked, together with what was lost, covering the sum of all
claims (`Met`), within an open settlement too, where one claim is about to be
replaced. For the coins, balance and position agree within an open settlement
as well (`Agree`), and what is locked is the sum of what the open sells have
left (a `Tally`). `ProfitIsCash` rests on the cost being, up to roundings, the
average price of the coins held (`CostNear`).

**The limiter.** `SentInWindow` is about the calls of one window; a repeat is sent
later than the attempt it repeats, when that may have left the window. So the
invariant (`HttpInv`) says for every age a, not only for that of the window: the
repeats not older than a are at most the retries of the attempts not older than
a, and of one attempt before them, less what the present task has left to try.
A tick, which makes everything one older, then keeps it.

**Icons.** `CoinInfoProofs`: the icon of a market is that of its logo, or a sync is
about to queue its job, or its job is waiting or in progress, or the market is
one of those in the history (`Cared`). That needs what a sync and a job know of
the rows they read before (`SyncKnows`, `JobKnows`): ids never change, rows
never disappear, and a translation job read a row that had none.

**The candles.** Every argument about the tracker is one about the queue of its
connection, so the proof first says what joining, leaving and returning to its
end do to who waits before whom. A candle that is not marked is with a handler
(`Coming`), is the current one (`Shown`), or has a row (`Saved`); there is room
in the set for the candle of the one handler that adds it (`SetSound`), since
only the first to insert the row goes on to add. While nothing is marked more
holds (`OrderSound`): the current candle only climbs, rows are of candles up to
it, messages are served in the order they came, and nobody moves the current
candle away from a handler that has yet to add it. So every closed candle is in
the set (`SetIsRight`), and what handlers before the query may still do touches
at most the candle that was current when it read the set (`AskIsRight`).

**The feed.** `ByStamp` sorts by rank, the number of trades that stand before
one. Rank is a bijection onto the places, which gives the sorted list without
induction over it. A trade of the service that the page does not show is
missed, on its way, or older than everything in a full list (`TradesSound`).
A row the page shows is the store's, or its frame is due (`BookSound`). For the
best price it is enough that the rows of a side count the levels on one side of
theirs.

**Model-checked only.** `OpenOrdersTried` and `EveryCallEnds` are liveness under
fairness, which with ENABLED is out of the reach of the prover used here; so is
whatever needs an induction theorem with an operator as parameter, which the
proofs do without. Every invariant and action property that a passing run checks
is a theorem. No module declares a recursive operator.

## 5 What the code does otherwise than one would think

`ledger_leftover` is a run TLC finds violated: a MARKET BUY that uses up the
asks becomes FILLED with the rest of its amount locked for good; the comment
says FILLED at 1 KRW or less. The others were met while modelling; the models
contain them, and the properties of section 3 say what holds nevertheless.

Trading:

- Candidates are cut at `MaxOrders` (50) after LIMIT orders are sorted first; a
  comment (`trading/matching/matching.service.ts:229`) says all MARKET orders
  are included.
- An order committed between the worker's count and its remove waits until
  someone else orders in that market, or a restart (`ForgottenOnlyInRace`).
- Two initializations both take effect, and the second overwrites the balance,
  deposits included (`MoneyLostOnlyByRace`). Two deposits that count together
  both pass the monthly limit (`OvershootBounded`).
- An order worth more than 8 decimals locks less than its fill asks for. It is
  never filled, and its exception ends the market's run, every second, for the
  orders behind it. Its cancel fails for the same reason. While other orders of
  the user lock enough, theirs is used.
- `resetBalances` zeroes locked and keeps OPEN orders, which can then neither be
  canceled nor filled, though the README says an order can be canceled until it
  is filled. `ledger_overrides` shows what holds nevertheless.

Its positions:

- A position's row stays when its coins are sold, so the lists of held coins go
  on showing it, with nothing in it.
- No event of the trading stream reaches the store of positions: what is bought
  is listed after the next page, and what is sold is valued until then.
- After a failed read the home page lists nothing, the panel of a market what
  an earlier page left in the store.
- `resetBalances` leaves the positions.

The page of a market:

- Its list of pending orders keeps the old remaining quantity after a partial
  fill (`OrdersStore.ts:168`); a first balance of a coin is not shown until the
  page is read again (`BalancesStore.ts:21`); orders of other markets appear in
  the list, for the store does not filter.
- What happens between the page's reads and its subscription, or while the
  stream reconnects, is lost: the snapshot event that would repair it is
  ignored by the stores.
- A deposit is published before it commits; a rollback leaves the page with
  money the user does not have.

The connection to Upbit:

- The close event of a replaced socket takes the new one away from the client:
  another is opened, the old one goes on feeding every handler, and the data
  comes twice. `isOpen` is then false, so the watchdog, which asks it first,
  does nothing.
- Relisting a deactivated market fails the daily sync at the unique market
  code, every day from then on; the reactivation in `market.sync.service.ts:116`
  comes after it. Markets added before an error are in the table but were never
  seen as added, so nobody subscribes to them until a restart.
- The watchdog never acts before the first message.
- A comment of the limiter promises ten calls in 1.05 s; retries after a 429
  are sent past it (`SentInWindow`).

Candles:

- A handler may finalize the candle that is in progress, when another moved it
  on meanwhile (comment at `candle-volume-tracker.service.ts:411`). The init
  job's save is all or nothing, where comments (237, 250, 257) say that
  duplicates are ignored or updated. `recoverMissingCandles` is dead code. The
  example of the comment at 642 is wrong.
- A page of candles on its way while the market changes is drawn with the new
  one's market (`ChartIsItsMarket`). A page that failed is cached as empty, so
  the history ends there; first candles that failed leave the previous market's
  drawn. The `?? 400` of the page size never applies: the DTO's default is 200.

Realtime streams:

- A connection begins with a 'snapshot' event that no page listens to. What
  comes between a page's read and its connection is never made up for, nor is
  what comes while EventSource reconnects: a missing trade stays missing.
- While the server has no book, its answer is empty, `res.json()` throws, and
  the page of the market fails.
- Of trades with equal time stamps the first reads show the older first, the
  stream puts the newer first.
- The store builds 60 rows and the page has components for rows 15 to 44. With
  fewer than 30 levels a side the best prices are not next to the middle, with
  15 or fewer they are not shown at all.

Coins:

- `translate/batch` with `force` queues what is translated already, and the
  processor skips it (`cmc/cmc.controller.ts:126` says it forces).
- A job whose id BullMQ still knows is ignored, so a logo that changes soon
  after an upload is not uploaded. A sync or a worker that saves an entity it
  read earlier undoes what the other wrote (`IconsFollowLogos`).
- An icon is served as immutable under a name that does not change with it.

Sessions:

- Two refresh tokens issued to a user in one second are the same token. A
  logout in one tab that crosses a refresh leaves a live session behind. Of two
  refreshes at once with the same token one fails, and its tab logs the whole
  browser out.

The page's controls:

- The volume, switched on again while RSI or MACD are shown, goes below them,
  and the heights are then given by position to the wrong panes. Edits of a
  band's values show only after it was switched off and on. A removed default
  average comes back with the next reload. Average lines and the volume's pane
  do not follow the ticker.
- A fractional period (the field takes 2.5) throws in an effect; it is saved
  first, so the page fails at every reload until localStorage is cleared. The
  Ichimoku cloud does the same to a market with one candle.
- In a narrow window the background and a drag close the dialog although its
  order is being sent; the answer then empties the form, and closes the sheet,
  that are in use for the next one.
- The bar's star goes back to what it was at the click, not to what the row is;
  it does not follow the list's star. Two requests that remove the same row are
  both answered as done, and the star is wrong until the page is read again.
- The minimum of 5000 won is checked by the page alone.
- A quantity below a millionth comes out of `String` in exponential notation,
  and is shown, and committed after an edit, as another number.

## 6 What is not modelled

- decimal.js' 20 significant digits, NUMBER columns read as doubles, and
  quantities with more than 8 decimals.
- The order of row locks: a deadlock the database resolves by an abort is
  `RunFails`.
- The stream of candles, to which no page listens; the fold of the health
  states of the streams; the order book of a stream as an input of Ledger, which
  takes any book.
- Logins: findOrCreateUser, the OAuth providers, the guards.
- The texts of coin information and their translation, priorities and rate
  limits of the queues, the mock feed, formats, the other pages and components,
  shared types: they copy, fetch, convert or draw.
- Of the page: the favorites it was opened with change only in the provider's
  constructor; the home page's explicit sort of its market list; price steps
  below a tenth of a won; the colours of indicators, apart from their being
  values.
- Code no page or service reaches: the older pendingOrders, fills and balances
  stores, `useChartData`, `useNewCandleChart`, V2 of the chart hook,
  `recoverMissingCandles`.

Oracle, Redis, BullMQ and Upbit are external. Of Oracle the row locks and
atomic commits are assumed, of Redis that the commands of one connection are
served in order, of BullMQ one job at a time (a worker's default concurrency)
and a queue that outlives the process, of Upbit nothing but the format of its
answers.

## 7 What is left

The order of row locks, with deadlocks as a state.
