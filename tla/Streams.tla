------------------------------- MODULE Streams -------------------------------
(***************************************************************************)
(* The public feeds of one market, from the messages of Upbit to what the  *)
(* page shows: its recent trades, its order book and its ticker.           *)
(*                                                                         *)
(* Three services keep the newest of each in memory and pass messages on   *)
(* to the connections open at that moment.  The page is made of three      *)
(* reads; its stores are created from them once, and only then does each   *)
(* of their providers open a connection of its own, which the browser      *)
(* opens again when it breaks.  A connection begins with a 'snapshot'      *)
(* event, but the page listens to 'realtime' events alone, so what comes   *)
(* between its read and its connection, or while that is broken, is never  *)
(* made up for.  The stores tell the components on the next frame.         *)
(*                                                                         *)
(* A trade is its id and time stamp, a ticker its number, a side of the    *)
(* book the size of each price.                                            *)
(***************************************************************************)
EXTENDS Integers, Sequences, FiniteSets, SequencesExt, FiniteSetsExt

CONSTANTS
  Books,       \* order books of Upbit
  Half,        \* rows the store keeps for a side (30)
  Stamps,      \* time stamps of trades
  MAX_TRADES,  \* of the service and of the store (50)
  MaxMessages, \* bound: messages in all
  MaxCuts      \* bound: broken connections and restarts of the server

ASSUME StreamsAssumption ==
  /\ Half \in Nat \ {0} /\ MAX_TRADES \in Nat \ {0}
  /\ Stamps \subseteq Nat /\ MaxMessages \in Nat /\ MaxCuts \in Nat
  /\ \A b \in Books : /\ IsFiniteSet(DOMAIN b.asks) /\ DOMAIN b.asks \subseteq Nat
                     /\ IsFiniteSet(DOMAIN b.bids) /\ DOMAIN b.bids \subseteq Nat

VARIABLES
  recent, book, ticker, \* the services: trades, oldest first; newest book and ticker
  messages, cuts,       \* how many there have been
  link,                 \* feeds the page is connected to
  wire,                 \* events on their way to it, per feed
  stage, got, read,     \* the page; the feeds it has read, and what it read
  trades, dueTrades,    \* TradeStore: newest first; a frame is requested
  bookRows, dueRows,    \* OrderbookRowStore: rows, from the top; keys to notify of
  known,                \* TickerStore: the market's ticker, 0 if it has none
  listed, screen,       \* what the components of trades and rows show
  missed, behind        \* history: trades, and feeds whose newest message, that
                        \* came to no connection after they had been read

served     == <<recent, book, ticker>>
fed        == <<trades, dueTrades, bookRows, dueRows, known>>
displayed  == <<listed, screen>>
streamVars == <<served, messages, cuts, link, wire, stage, got, read, fed, displayed,
                missed, behind>>

Feeds      == {"trades", "book", "ticker"}
NoBook     == [asks |-> <<>>, bids |-> <<>>]
NothingRead == [trades |-> <<>>, book |-> NoBook, ticker |-> 0]
NoEvents   == [f \in Feeds |-> <<>>]

-----------------------------------------------------------------------------
(* What the stores make of it                                               *)

\* The trades by time stamp, newest first; of equal ones, the order they are in.
ByStamp(ts) ==
  [k \in DOMAIN ts |->
     ts[CHOOSE i \in DOMAIN ts :
          k = 1 + Cardinality({j \in DOMAIN ts :
                                 ts[j].at > ts[i].at \/ (ts[j].at = ts[i].at /\ j < i)})]]

Trimmed(ts) == SubSeq(ts, 1, IF Len(ts) > MAX_TRADES THEN MAX_TRADES ELSE Len(ts))

Hydrated(ts) == Trimmed(ByStamp(ts))

WithTrade(t) ==
  LET same == {k \in DOMAIN trades : trades[k].id = t.id}
  IN IF same # {} THEN ByStamp([k \in DOMAIN trades |-> IF k \in same THEN t ELSE trades[k]])
                  ELSE Trimmed(ByStamp(<<t>> \o trades))

Levels(side) == {p \in DOMAIN side : side[p] > 0}
Higher(side, p) == {q \in Levels(side) : q > p}
Lower(side, p) == {q \in Levels(side) : q < p}

\* The width of a bar, in hundredths: its share of all sizes, seven times
\* enlarged, and scaled down if that makes one longer than the row.
Width(size, total, largest) ==
  LET Nearest(a, b) == (2 * a + b) \div (2 * b)
  IN IF total = 0 THEN 0
     ELSE IF 7 * largest > total THEN Nearest(10000 * size, largest)
     ELSE Nearest(70000 * size, total)

\* buildRows: asks fill the upper half from its top, bids the lower one from
\* its bottom, each highest price first.
LevelsAt(b, i) ==
  IF i < Half
  THEN {<<p, b.asks[p]>> : p \in {q \in Levels(b.asks) : Cardinality(Higher(b.asks, q)) = i}}
  ELSE {<<p, b.bids[p]>> : p \in {q \in Levels(b.bids) :
                                    Cardinality(Lower(b.bids, q)) = 2 * Half - 1 - i}}

TotalSize(levels) == MapThenSumSet(LAMBDA l : l[2], levels)

RowsOf(b) ==
  LET taken == UNION {LevelsAt(b, i) : i \in 0..2 * Half - 1}
      largest == Max({l[2] : l \in taken} \cup {0})
      RowAt(i) == IF LevelsAt(b, i) = {} THEN [price |-> 0, size |-> 0, width |-> 0]
                  ELSE LET l == CHOOSE l \in LevelsAt(b, i) : TRUE
                       IN [price |-> l[1], size |-> l[2],
                           width |-> Width(l[2], TotalSize(taken), largest)]
  IN [i \in 0..2 * Half - 1 |-> RowAt(i)]

BlankRows == [i \in 0..2 * Half - 1 |-> [price |-> 0, size |-> 0, width |-> 0]]

\* Mutant: forgets that a bar may change with the others.
DiffersInOrders(old, new) == old.price # new.price \/ old.size # new.size
RowDiffers(old, new) ==
  old.price # new.price \/ old.size # new.size \/ old.width # new.width

\* Only the rows that differ are replaced, and their components told.
ApplyUnits(old, b) ==
  LET new == RowsOf(b)
      changed == {i \in DOMAIN old : RowDiffers(old[i], new[i])}
  IN /\ bookRows' = [i \in DOMAIN old |-> IF i \in changed THEN new[i] ELSE old[i]]
     /\ dueRows' = dueRows \cup changed

\* The rows the page has components for: those nearest to the middle.
Displayed == Half \div 2 .. Half + Half \div 2 - 1

StreamsInit ==
  /\ recent = <<>> /\ book = NoBook /\ ticker = 0
  /\ messages = 0 /\ cuts = 0
  /\ link = {} /\ wire = NoEvents
  /\ stage = "none" /\ got = {} /\ read = NothingRead
  /\ trades = <<>> /\ dueTrades = FALSE
  /\ bookRows = BlankRows /\ dueRows = {} /\ known = 0
  /\ listed = <<>> /\ screen = [i \in Displayed |-> BlankRows[i]]
  /\ missed = {} /\ behind = {}

-----------------------------------------------------------------------------
(* Messages of Upbit                                                        *)

Pushed(f, event) ==
  /\ messages < MaxMessages /\ messages' = messages + 1
  /\ wire' = IF f \in link THEN [wire EXCEPT ![f] = Append(@, event)] ELSE wire
  /\ UNCHANGED <<cuts, link, stage, got, read, fed, displayed>>

\* Nobody takes the message to a page that has read the feed already.
Passes(f) == f \in got /\ f \notin link

HandleRawTrade(at) ==
  LET t == [id |-> messages + 1, at |-> at]
      all == Append(recent, t)
  IN /\ recent' = SubSeq(all, IF Len(all) > MAX_TRADES THEN Len(all) - MAX_TRADES + 1 ELSE 1, Len(all))
     /\ Pushed("trades", t)
     /\ missed' = IF Passes("trades") THEN missed \cup {t.id} ELSE missed
     /\ UNCHANGED <<book, ticker, behind>>

HandleRawOrderbook(b) ==
  /\ book' = b
  /\ Pushed("book", b)
  /\ behind' = IF Passes("book") THEN behind \cup {"book"} ELSE behind
  /\ UNCHANGED <<recent, ticker, missed>>

HandleRawTicker ==
  /\ ticker' = messages + 1
  /\ Pushed("ticker", messages + 1)
  /\ behind' = IF Passes("ticker") THEN behind \cup {"ticker"} ELSE behind
  /\ UNCHANGED <<recent, book, missed>>

\* What is on its way over these connections gets lost.
Break(fs) ==
  /\ cuts < MaxCuts /\ cuts' = cuts + 1
  /\ link' = link \ fs
  /\ wire' = [f \in Feeds |-> IF f \in fs THEN <<>> ELSE wire[f]]
  /\ missed' = IF "trades" \in fs THEN missed \cup {t.id : t \in Range(wire["trades"])} ELSE missed
  /\ behind' = behind \cup {f \in fs \ {"trades"} : wire[f] # <<>>}
  /\ UNCHANGED <<messages, stage, got, read, fed, displayed>>

FeedBreaks(f) == f \in link /\ Break({f}) /\ UNCHANGED served
ServerRestarts ==
  /\ recent' = <<>> /\ book' = NoBook /\ ticker' = 0
  /\ Break(Feeds)

-----------------------------------------------------------------------------
(* The page                                                                 *)

\* The page is opened, or read again; what it was before is gone.
OpenMarket ==
  /\ stage \in {"none", "shown", "failed"}
  /\ stage' = "reading" /\ got' = {} /\ read' = NothingRead
  /\ link' = {} /\ wire' = NoEvents
  /\ trades' = <<>> /\ dueTrades' = FALSE
  /\ bookRows' = BlankRows /\ dueRows' = {} /\ known' = 0
  /\ listed' = <<>> /\ screen' = [i \in Displayed |-> BlankRows[i]]
  /\ missed' = {} /\ behind' = {}
  /\ UNCHANGED <<served, messages, cuts>>

Reads(f) ==
  /\ stage = "reading" /\ f \notin got
  /\ got' = got \cup {f}
  /\ UNCHANGED <<served, messages, cuts, link, wire, stage, fed, displayed, missed, behind>>

GetRecentTrades == Reads("trades") /\ read' = [read EXCEPT !.trades = recent]
GetOrderbook    == Reads("book") /\ read' = [read EXCEPT !.book = book]
GetTickers      == Reads("ticker") /\ read' = [read EXCEPT !.ticker = ticker]

\* All reads are done.  The answer without a book is empty, which is no JSON.
CannotShow ==
  /\ stage = "reading" /\ got = Feeds /\ read.book = NoBook
  /\ stage' = "failed" /\ read' = NothingRead
  /\ UNCHANGED <<served, messages, cuts, link, wire, got, fed, displayed, missed, behind>>

\* Each provider creates its store, and the components below it render.
TradeProvider     == trades' = Hydrated(read.trades) /\ listed' = trades'
OrderbookProvider == ApplyUnits(BlankRows, read.book) /\ screen' = [i \in Displayed |-> bookRows'[i]]
TickerProvider    == known' = read.ticker

ShowMarket ==
  /\ stage = "reading" /\ got = Feeds /\ read.book # NoBook
  /\ stage' = "shown" /\ read' = NothingRead
  /\ TradeProvider /\ OrderbookProvider /\ TickerProvider
  /\ UNCHANGED <<served, messages, cuts, link, wire, got, dueTrades, missed, behind>>

\* Effects of the providers, and EventSource's attempts when a connection broke.
Connects(f) ==
  /\ stage = "shown" /\ f \notin link
  /\ link' = link \cup {f}
  /\ UNCHANGED <<served, messages, cuts, wire, stage, got, read, fed, displayed, missed, behind>>

StreamTrades    == Connects("trades")
StreamOrderbook == Connects("book")
StreamTickers   == Connects("ticker")

Takes(f) ==
  /\ wire[f] # <<>>
  /\ wire' = [wire EXCEPT ![f] = Tail(@)]
  /\ UNCHANGED <<served, messages, cuts, link, stage, got, read, displayed, missed>>

OnTrade ==
  /\ Takes("trades")
  /\ trades' = WithTrade(Head(wire["trades"])) /\ dueTrades' = TRUE
  /\ UNCHANGED <<bookRows, dueRows, known, behind>>

OnOrderbook ==
  /\ Takes("book")
  /\ ApplyUnits(bookRows, Head(wire["book"]))
  /\ behind' = behind \ {"book"}
  /\ UNCHANGED <<trades, dueTrades, known>>

\* A ticker of a market the store has none of is ignored.
OnTicker ==
  /\ Takes("ticker")
  /\ known' = IF known = 0 THEN 0 ELSE Head(wire["ticker"])
  /\ behind' = behind \ {"ticker"}
  /\ UNCHANGED <<trades, dueTrades, bookRows, dueRows>>

\* A frame: the components that are told read their store.
NotifyTrades ==
  /\ dueTrades /\ dueTrades' = FALSE
  /\ listed' = trades
  /\ UNCHANGED <<served, messages, cuts, link, wire, stage, got, read, trades, bookRows, dueRows,
                 known, screen, missed, behind>>

FlushRows ==
  /\ dueRows # {} /\ dueRows' = {}
  /\ screen' = [i \in Displayed |-> IF i \in dueRows THEN bookRows[i] ELSE screen[i]]
  /\ UNCHANGED <<served, messages, cuts, link, wire, stage, got, read, trades, dueTrades, bookRows,
                 known, listed, missed, behind>>

StreamsNext ==
  \/ \E at \in Stamps : HandleRawTrade(at)
  \/ \E b \in Books : HandleRawOrderbook(b)
  \/ HandleRawTicker
  \/ \E f \in Feeds : FeedBreaks(f)
  \/ ServerRestarts
  \/ OpenMarket \/ GetRecentTrades \/ GetOrderbook \/ GetTickers \/ CannotShow \/ ShowMarket
  \/ StreamTrades \/ StreamOrderbook \/ StreamTickers
  \/ OnTrade \/ OnOrderbook \/ OnTicker \/ NotifyTrades \/ FlushRows

-----------------------------------------------------------------------------
CaughtUp(f) == f \in link /\ wire[f] = <<>>

\* The trades of the page are newest first, and once it has taken every event
\* they are the service's, except for those it missed and older ones it has no
\* room for.
TradesFollow ==
  /\ \A i, j \in DOMAIN trades :
       i < j => trades[i].at >= trades[j].at /\ trades[i].id # trades[j].id
  /\ CaughtUp("trades") =>
       \A t \in Range(recent) :
         \/ t \in Range(trades) \/ t.id \in missed
         \/ Len(trades) = MAX_TRADES /\ trades[MAX_TRADES].at >= t.at
  /\ dueTrades \/ listed = trades

\* Its rows are those of the service's book, unless it missed the last one; a
\* component shows its row unless it is about to be told; and when a side is
\* full, its best price is next to the middle.
BookFollows ==
  /\ CaughtUp("book") /\ "book" \notin behind /\ book # NoBook => bookRows = RowsOf(book)
  /\ \A i \in Displayed \ dueRows : screen[i] = bookRows[i]
  /\ CaughtUp("book") /\ "book" \notin behind /\ Half > 1 =>
       /\ Cardinality(Levels(book.asks)) = Half => bookRows[Half - 1].price = Min(Levels(book.asks))
       /\ Cardinality(Levels(book.bids)) = Half => bookRows[Half].price = Max(Levels(book.bids))

\* Its ticker is the service's, unless it missed the last one or had none at first.
TickerFollows ==
  CaughtUp("ticker") /\ "ticker" \notin behind /\ ticker # 0 => known \in {0, ticker}

\* What a page shows of a market is what the server has of it, up to the
\* messages that came between a read and its connection, or while that was
\* broken.
PageFollowsFeed == TradesFollow /\ BookFollows /\ TickerFollows
=============================================================================
