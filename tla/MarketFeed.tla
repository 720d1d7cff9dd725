------------------------------ MODULE MarketFeed ------------------------------
(***************************************************************************)
(* What becomes of the messages of Upbit about a market: its 4-hour        *)
(* candles go to the tracker, its trades, order books and tickers to the   *)
(* stream services and from there to the pages.  The two share no state:   *)
(* in a behaviour one of them moves.                                       *)
(***************************************************************************)
EXTENDS CandleTracker, Streams, TLC

VARIABLE topic \* the one that moves

feedVars == <<topic, vars, streamVars>>

\* Two prices a side: one unit of each; a larger order far from the middle and
\* nobody at the best bid.
SmallBooks ==
  {[asks |-> 3 :> 1 @@ 4 :> 1, bids |-> 2 :> 1 @@ 1 :> 1],
   [asks |-> 3 :> 1 @@ 4 :> 3, bids |-> 2 :> 0 @@ 1 :> 1]}

FeedInit == topic \in {"candle", "market"} /\ Init /\ StreamsInit

MoveTracker == topic = "candle" /\ Next /\ UNCHANGED <<topic, streamVars>>
MoveStreams == topic = "market" /\ StreamsNext /\ UNCHANGED <<topic, vars>>

FeedNext == MoveTracker \/ MoveStreams

FeedSpec == FeedInit /\ [][FeedNext]_feedVars
=============================================================================
