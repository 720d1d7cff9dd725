------------------------------ MODULE ChartData ------------------------------
(***************************************************************************)
(* The candles of a chart: the candle table and what fills it              *)
(* (CandlesService, the refresh jobs), and the page that shows one market  *)
(* at a time (useChartDataV3, useChartTickerSync): first candles, older    *)
(* pages while the user scrolls, the price of the last candle.             *)
(*                                                                         *)
(* A candle is its market and its time, in units of the timeframe.  Rows   *)
(* are never deleted.  A request is answered in one step; an answer that   *)
(* fails, for whatever reason, reaches the page as an empty list.          *)
(***************************************************************************)
EXTENDS Integers, FiniteSets, FiniteSetsExt, TLC

CONSTANTS
  Codes,    \* market codes
  Count,    \* candles of a page (200)
  MaxPages, \* bound: pages of a refresh job
  MaxEmpty, \* bound: pages that fail
  MaxTime   \* bound: candle times

ASSUME ChartDataAssumption ==
  /\ IsFiniteSet(Codes)
  /\ Count \in Nat \ {0, 1} /\ MaxPages \in Nat /\ MaxEmpty \in Nat /\ MaxTime \in Nat \ {0}

VARIABLES
  latest,    \* time of the candle in progress
  rows,      \* UPBIT_CANDLE, per market
  sel,       \* the market of the page
  first,     \* query cache, per market: the first candles; unknown, or a set
  series,    \* candleSeriesRef: <<market, time>> of every candle drawn
  volumes,   \* volumeDataRef
  load,      \* the older page being fetched; loadingMoreRef
  hasMore,   \* hasMoreRef
  empty,     \* query cache: pages answered with nothing
  overtaken, \* history: first candles were drawn while a page was loading
  filled     \* history: rows written behind what a chart showed already

chartRows == <<latest, rows>>
drawn     == <<series, volumes, hasMore>>
chartVars == <<chartRows, sel, first, drawn, load, empty, overtaken, filled>>

Alike      == Permutations(Codes)
ChartTimes == 1..MaxTime
Drawable   == Codes \X ChartTimes
Unknown    == {0}   \* no candle has time 0
NoLoad     == [on |-> FALSE]

Of(c, times)  == {<<c, t>> : t \in times}
TimesOf(data) == {p[2] : p \in data}

ChartTypeOK ==
  /\ latest \in ChartTimes /\ rows \in [Codes -> SUBSET ChartTimes]
  /\ sel \in Codes /\ first \in [Codes -> (SUBSET ChartTimes) \cup {Unknown}]
  /\ hasMore \in BOOLEAN /\ overtaken \in BOOLEAN
  /\ series \subseteq Drawable /\ volumes \subseteq Drawable /\ filled \subseteq Drawable
  /\ load.on => load.code \in Codes /\ load.before \in ChartTimes
                /\ load.existing \subseteq Drawable
  /\ empty \subseteq Drawable
  \* One candle per time: the series refuses two.
  /\ Cardinality(TimesOf(series)) = Cardinality(series)

ChartInit ==
  /\ latest = 1 /\ rows = [c \in Codes |-> {}]
  /\ sel \in Codes /\ first = [c \in Codes |-> Unknown]
  /\ series = {} /\ volumes = {} /\ hasMore = TRUE
  /\ load = NoLoad /\ empty = {} /\ overtaken = FALSE /\ filled = {}

-----------------------------------------------------------------------------
(* The server                                                               *)

NewestOf(times, n) == {t \in times : Cardinality({u \in times : u > t}) < n}

\* External: Upbit's newest n candles.
Upbit(n) == NewestOf(1..latest, n)

\* Mutant: the rows in ascending order, cut to the number asked for.
FromDbAscending(c, to) ==
  {t \in rows[c] : t <= to /\ Cardinality({u \in rows[c] : u < t}) < Count}

\* getCandlesFromDb
FromDb(c, to) == NewestOf({t \in rows[c] : t <= to}, Count)

\* mergeCandles: what was missing is saved, the newest are answered.
Saved(c, fetched) ==
  /\ rows' = [rows EXCEPT ![c] = @ \cup fetched]
  /\ filled' = filled \cup
       {p \in Of(c, fetched \ rows[c]) : \E q \in series : q[1] = c /\ q[2] > p[2]}
Merged(c, fetched) == NewestOf(FromDb(c, latest) \cup fetched, Count)

\* refreshMarketCandles, as a job of the queue or as a visit of another user:
\* each page continues before the oldest candle of the last one.
Refresh(c) ==
  /\ \E pages \in 1..MaxPages : Saved(c, Upbit(Count * pages))
  /\ UNCHANGED <<latest, sel, first, drawn, load, empty, overtaken>>

Tick ==
  /\ latest + 1 \in ChartTimes /\ latest' = latest + 1
  /\ UNCHANGED <<rows, sel, first, drawn, load, empty, overtaken, filled>>

-----------------------------------------------------------------------------
(* The page: first candles                                                  *)

\* The effect on initialData.  An empty answer leaves what is drawn.
Draw(c, data) ==
  IF data = {} THEN hasMore' = FALSE /\ UNCHANGED <<series, volumes, overtaken>>
  ELSE /\ series' = Of(c, data) /\ volumes' = Of(c, data)
       /\ hasMore' = (Cardinality(data) >= Count)
       /\ overtaken' = load.on

\* Another market: its first candles are drawn at once when they are in the
\* cache.
Select(c) ==
  /\ c # sel /\ sel' = c
  /\ IF first[c] = Unknown THEN UNCHANGED <<drawn, overtaken>> ELSE Draw(c, first[c])
  /\ UNCHANGED <<chartRows, first, load, empty, filled>>

\* An answer equal to the cached data is no change.
FirstAnswer(data) ==
  /\ first' = [first EXCEPT ![sel] = data]
  /\ IF data = first[sel] THEN UNCHANGED <<drawn, overtaken>> ELSE Draw(sel, data)
  /\ UNCHANGED <<latest, sel, load, empty>>

\* getCandles: the table's candles with Upbit's, the table's alone when Upbit
\* gives none, or an error.  They are asked for when they are not in the cache,
\* and again when they are stale (on focus, on reconnection).
FirstAnswered ==
  \/ Saved(sel, Upbit(Count)) /\ FirstAnswer(Merged(sel, Upbit(Count)))
  \/ \E data \in {FromDb(sel, latest), {}} : FirstAnswer(data) /\ UNCHANGED <<rows, filled>>

-----------------------------------------------------------------------------
(* The page: older candles                                                  *)

\* onLoadMore, up to its await.
LoadMore ==
  /\ ~load.on /\ hasMore /\ series # {}
  /\ load' = [on |-> TRUE, code |-> sel, before |-> Min(TimesOf(series)), existing |-> series]
  /\ UNCHANGED <<chartRows, sel, first, drawn, empty, overtaken, filled>>

\* Mutant: the length of what is new is compared with the page's.
NoMoreAfterNew(data, older) == older = {} \/ Cardinality(older) < Count
NoMoreAfter(data, older) == older = {} \/ Cardinality(data) < Count

Older(data) == {t \in data : t < load.before}

\* onLoadMore, after its await.
PageAnswer(data) ==
  LET older == Of(load.code, Older(data))
  IN /\ IF older = {} THEN UNCHANGED <<series, volumes>>
        ELSE series' = older \cup load.existing /\ volumes' = older \cup volumes
     /\ hasMore' = (hasMore /\ ~NoMoreAfter(data, older))
     /\ load' = NoLoad

\* The answer is kept for good, an empty one too.
PageAnswered ==
  /\ load.on
  /\ LET page == <<load.code, load.before>>
     IN \/ page \notin empty /\ PageAnswer(FromDb(load.code, load.before)) /\ UNCHANGED empty
        \/ /\ PageAnswer({}) /\ empty' = empty \cup {page}
           /\ Cardinality(empty') <= MaxEmpty
  /\ UNCHANGED <<chartRows, sel, first, overtaken, filled>>

\* The ticker of the selected market moves the last candle if it is its time.
TickerSync ==
  /\ series # {} /\ Max(TimesOf(series)) = latest
  /\ series' = {p \in series : p[2] # latest} \cup {<<sel, latest>>}
  /\ UNCHANGED <<chartRows, sel, first, volumes, hasMore, load, empty, overtaken, filled>>

-----------------------------------------------------------------------------

ChartNext ==
  \/ Tick \/ \E c \in Codes : Refresh(c) \/ Select(c)
  \/ FirstAnswered \/ LoadMore \/ PageAnswered \/ TickerSync


-----------------------------------------------------------------------------
(* Properties                                                               *)

\* The page has the first candles of its market, and they were not drawn while
\* an older page was loading: that page would be merged into what was drawn
\* when it was asked for.
Settled == ~load.on /\ ~overtaken /\ first[sel] \notin {Unknown, {}}

KnownRows(c) == {t \in rows[c] : <<c, t>> \notin filled}

Complete ==
  \A t \in KnownRows(sel) :
    Min(TimesOf(series)) <= t /\ t <= Max(TimesOf(series)) => <<sel, t>> \in series

AtItsEnd ==
  LET oldest == Min(TimesOf(series))
  IN <<sel, oldest>> \in empty \/ \A t \in KnownRows(sel) : t >= oldest

\* A settled chart shows candles of the selected market only, without leaving
\* out one the table held when they were read, and a volume for each of them.  It
\* stops loading only when the table holds nothing older, or the page that
\* follows was once answered with nothing.  The state is typed: no chart has two
\* candles of one time.
ChartIsItsMarket ==
  /\ ChartTypeOK
  /\ Settled =>
       /\ \A p \in series : p[1] = sel
       /\ Complete /\ volumes = series
       /\ hasMore \/ AtItsEnd
=============================================================================
