----------------------------- MODULE TickerList -----------------------------
(***************************************************************************)
(* The list of markets beside the chart: the tickers, the view the user    *)
(* chose and the cached order (TickerStore), and the panel's search field  *)
(* (MarketCoinListPanel).                                                  *)
(*                                                                         *)
(* A market is a number, its place in the order of codes; its Korean name  *)
(* has the opposite place.  A query matches one market or, empty, all of   *)
(* them.  Of the numbers of a ticker the model keeps two that the list may *)
(* be sorted by; the change rate is sorted by as the price is.             *)
(***************************************************************************)
EXTENDS Integers, SequencesExt

CONSTANTS
  Markets,  \* markets, a set of positive numbers
  Holding,  \* the ones held when the page was loaded
  Tickers   \* what a market's ticker may say: acc and price

VARIABLES
  tickers,   \* acc and price, of each market
  watchlist, \* starred markets
  view,      \* filter, query, key and dir; uiSort is always key and dir
  cached,    \* cachedCodes
  timer,     \* listRecomputeTimer is set
  early,     \* the first 1500 ms: ticks do not reorder
  skipped,   \* history: one did not, and nothing was computed since
  search     \* the panel: open, typed, composing

listVars == <<tickers, watchlist, view, cached, timer, early, skipped, search>>

NoQuery == 0
DEFAULT_COIN_LIST_VIEW ==
  [filter |-> "all", query |-> NoQuery, key |-> "acc", dir |-> "desc"]
NoSearch == [open |-> FALSE, typed |-> NoQuery, composing |-> FALSE]

-----------------------------------------------------------------------------
(* The order                                                                *)

\* getBaseTickersForFilter
InFilter(c) ==
  \/ view.filter = "all"
  \/ view.filter = "watchlist" /\ c \in watchlist
  \/ view.filter = "holding" /\ c \in Holding

SortValues ==
  [c \in Markets |-> CASE view.key = "acc" -> tickers[c].acc
                      [] view.key = "price" -> tickers[c].price
                      [] view.key = "name" -> 0 - c]

\* By value; those with the same by code.
Sorted(codes, value, dir) ==
  LET Precedes(a, b) == IF value[a] = value[b] THEN a < b
                        ELSE (value[a] < value[b]) <=> (dir = "asc")
  IN SetToSortSeq(codes, Precedes)

\* computeVisibleCodes
VisibleCodes ==
  Sorted({c \in Markets : InFilter(c) /\ view.query \in {NoQuery, c}}, SortValues, view.dir)

ListInit ==
  /\ tickers \in [Markets -> Tickers]
  /\ watchlist \in SUBSET Markets /\ view = DEFAULT_COIN_LIST_VIEW
  /\ cached = VisibleCodes /\ timer = FALSE /\ early = TRUE /\ skipped = FALSE
  /\ search = NoSearch

-----------------------------------------------------------------------------
(* The store                                                                *)

\* scheduleListRecompute: a timer that is set already is left as it is.
Schedule == timer' = TRUE

\* Mutant: a list sorted by price is sorted again when the volume changes.
TickAffectsByVolume(prev, next) ==
  view.key # "name" /\ prev.acc # next.acc
ShouldTickAffectList(prev, next) ==
  \/ view.key = "acc" /\ prev.acc # next.acc
  \/ view.key = "price" /\ prev.price # next.price

UpsertFromStream(c, ticker) ==
  LET affects == ShouldTickAffectList(tickers[c], ticker)
  IN /\ tickers' = [tickers EXCEPT ![c] = ticker]
     /\ timer' = (timer \/ (affects /\ ~early))
     /\ skipped' = (skipped \/ (affects /\ early))
     /\ UNCHANGED <<watchlist, view, cached, early, search>>

\* canReorderFromStream from here on.
StreamSettles ==
  /\ early /\ early' = FALSE
  /\ UNCHANGED <<tickers, watchlist, view, cached, timer, skipped, search>>

\* flushListRecompute
Recompute ==
  /\ timer /\ timer' = FALSE
  /\ cached' = VisibleCodes /\ skipped' = FALSE
  /\ UNCHANGED <<tickers, watchlist, view, early, search>>

ToggleWatchlist(c) ==
  /\ watchlist' = IF c \in watchlist THEN watchlist \ {c} ELSE watchlist \cup {c}
  /\ Schedule
  /\ UNCHANGED <<tickers, view, cached, early, skipped, search>>

View(v) == view' = v /\ Schedule

SetFilter(f) ==
  /\ view.filter # f /\ View([view EXCEPT !.filter = f])
  /\ UNCHANGED <<tickers, watchlist, cached, early, skipped, search>>

\* setSort: descending, ascending, and back to the default.
SetSort(k) ==
  /\ \/ (view.key # k \/ view.dir = "desc") /\
        View([view EXCEPT !.key = k, !.dir = IF view.key = k THEN "asc" ELSE "desc"])
     \/ view.key = k /\ view.dir = "asc" /\
        View([view EXCEPT !.key = DEFAULT_COIN_LIST_VIEW.key, !.dir = DEFAULT_COIN_LIST_VIEW.dir])
  /\ UNCHANGED <<tickers, watchlist, cached, early, skipped, search>>

SetQuery(q) ==
  IF view.query = q THEN UNCHANGED <<view, timer>> ELSE View([view EXCEPT !.query = q])

-----------------------------------------------------------------------------
(* The panel                                                                *)

OpenPanel ==
  /\ ~search.open /\ search' = [NoSearch EXCEPT !.open = TRUE, !.typed = view.query]
  /\ UNCHANGED <<tickers, watchlist, view, cached, timer, early, skipped>>

\* The effect's cleanup.
ClosePanel ==
  /\ search.open /\ search' = NoSearch /\ SetQuery(NoQuery)
  /\ UNCHANGED <<tickers, watchlist, cached, early, skipped>>

\* handleSearchChange: while a syllable is composed the store is not told.
Search(q) ==
  /\ search.open /\ search' = [search EXCEPT !.typed = q]
  /\ IF search.composing THEN UNCHANGED <<view, timer>> ELSE SetQuery(q)
  /\ UNCHANGED <<tickers, watchlist, cached, early, skipped>>

ComposeStart ==
  /\ search.open /\ ~search.composing /\ search' = [search EXCEPT !.composing = TRUE]
  /\ UNCHANGED <<tickers, watchlist, view, cached, timer, early, skipped>>

ComposeEnd ==
  /\ search.composing /\ search' = [search EXCEPT !.composing = FALSE]
  /\ SetQuery(search.typed)
  /\ UNCHANGED <<tickers, watchlist, cached, early, skipped>>

ListNext ==
  \/ \E c \in Markets :
       ToggleWatchlist(c) \/ \E t \in Tickers \ {tickers[c]} : UpsertFromStream(c, t)
  \/ \E f \in {"all", "watchlist", "holding"} : SetFilter(f)
  \/ \E k \in {"acc", "price", "name"} : SetSort(k)
  \/ \E q \in Markets \cup {NoQuery} : Search(q)
  \/ StreamSettles \/ Recompute
  \/ OpenPanel \/ ClosePanel \/ ComposeStart \/ ComposeEnd

-----------------------------------------------------------------------------
(* Properties                                                               *)

\* While no computation is pending, the cached list is the one of the tickers,
\* stars, filter, search and order as they are now, unless a tick of the first
\* moments was passed over; and the store's query is what the open panel shows,
\* empty while it is closed.
ListFollowsView ==
  /\ ~timer /\ ~skipped => cached = VisibleCodes
  /\ ~search.composing => view.query = search.typed
=============================================================================
