----------------------------- MODULE Favorites ------------------------------
(***************************************************************************)
(* The star of one market: the row of the table (FavoritesService), the    *)
(* star of the list of markets, which is the store's watchlist             *)
(* (PanelCoinRow, PanelHoldingRow), and the one of the bar over the chart  *)
(* (CoinInfoBar).  A click changes the page at once and asks the server to *)
(* toggle; a failure changes the page back.                                *)
(*                                                                         *)
(* The server handles requests at the same time, each in two statements;   *)
(* the table refuses a second row of a user and market.                    *)
(***************************************************************************)
EXTENDS Integers, Sequences, SequencesExt

CONSTANT MaxRequests \* bound: requests under way

VARIABLES
  row,      \* TRADING_FAVORITE has the row
  star,     \* the watchlist has the market
  bar,      \* isFavorite of the bar
  requests, \* under way: where from, what the bar was, how far
  strayed,  \* history: an answer was lost, or a row was removed twice
  mixed     \* history: the list's star was used, or requests overlapped

starVars == <<row, star, bar, requests, strayed, mixed>>

StarInit ==
  /\ row \in BOOLEAN /\ star = row /\ bar = row
  /\ requests = <<>> /\ strayed = FALSE /\ mixed = FALSE

-----------------------------------------------------------------------------
(* The page                                                                 *)

\* handleFavoriteClick of the bar, handleStar of the list.
Click(from) ==
  /\ Len(requests) < MaxRequests
  /\ star' = ~star /\ bar' = IF from = "bar" THEN ~bar ELSE bar
  /\ requests' = Append(requests, [from |-> from, prev |-> bar, stage |-> "sent"])
  /\ mixed' = (mixed \/ from = "list" \/ requests # <<>>)
  /\ UNCHANGED <<row, strayed>>

\* Mutant: a failure is only logged.
StarAfterFailureKept == star
StarAfterFailure == ~star

\* The answer, or none: the catch of toggleFavorite.  A request the server has
\* not started on may never reach it; one it has is finished before the page
\* hears that there is no answer.
ToggleAnswered(k) ==
  LET r == requests[k]
  IN /\ requests' = RemoveAt(requests, k)
     /\ \/ r.stage = "done" /\ UNCHANGED <<star, bar, strayed>>
        \/ /\ star' = StarAfterFailure
           /\ bar' = IF r.from = "bar" THEN r.prev ELSE bar
           /\ strayed' = (strayed \/ r.stage = "done")
     /\ r.stage \in {"sent", "failed", "done"}
     /\ UNCHANGED <<row, mixed>>

-----------------------------------------------------------------------------
(* The server: toggle                                                       *)

Reach(k, stage) == requests' = [requests EXCEPT ![k].stage = stage]

FindOne(k) ==
  /\ requests[k].stage = "sent"
  /\ Reach(k, IF row THEN "found" ELSE "not found")
  /\ UNCHANGED <<row, star, bar, strayed, mixed>>

\* By its id: the requests that found the same row have nothing to remove.
RemoveRow(k) ==
  /\ requests[k].stage = "found"
  /\ row' = FALSE
  /\ requests' = [j \in DOMAIN requests |->
       IF j = k THEN [requests[j] EXCEPT !.stage = "done"]
       ELSE IF requests[j].stage = "found" THEN [requests[j] EXCEPT !.stage = "found no more"]
       ELSE requests[j]]
  /\ UNCHANGED <<star, bar, strayed, mixed>>

\* Removing nothing is no error.
RemoveNothing(k) ==
  /\ requests[k].stage = "found no more"
  /\ Reach(k, "done") /\ strayed' = TRUE
  /\ UNCHANGED <<row, star, bar, mixed>>

\* The unique index refuses a second row.
SaveRow(k) ==
  /\ requests[k].stage = "not found"
  /\ row' = TRUE
  /\ Reach(k, IF row THEN "failed" ELSE "done")
  /\ UNCHANGED <<star, bar, strayed, mixed>>

StarNext ==
  \/ \E from \in {"bar", "list"} : Click(from)
  \/ \E k \in DOMAIN requests :
       FindOne(k) \/ RemoveRow(k) \/ RemoveNothing(k) \/ SaveRow(k) \/ ToggleAnswered(k)

-----------------------------------------------------------------------------
(* Properties                                                               *)

\* While nothing is asked, the list's star is the row's, whatever the order the
\* clicks were handled and refused in, unless an answer was lost or two requests
\* removed one row; the bar's too, if it alone was clicked, one click at a time.
StarIsFavorite ==
  requests = <<>> /\ ~strayed => star = row /\ (~mixed => bar = row)
=============================================================================
