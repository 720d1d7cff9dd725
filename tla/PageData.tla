------------------------------- MODULE PageData -------------------------------
(***************************************************************************)
(* What a page reads over REST and keeps up to date: its user's orders and *)
(* balances, by the trading stream, and the candles of its chart, by more  *)
(* pages and the ticker; and the positions, which it does not.  The three  *)
(* share no state, and time has its own unit in each: in a behaviour one   *)
(* of them moves.                                                          *)
(***************************************************************************)
EXTENDS TradingView, ChartData, Holdings

VARIABLE kind \* the one that moves

dataVars == <<kind, vars, chartVars, holdingVars>>

DataInit ==
  /\ kind \in {"user", "chart", "holdings"}
  /\ Init /\ ChartInit /\ HoldingsInit
  /\ kind = "holdings" \/ quotes = [a \in Assets |-> CHOOSE p \in Quotes : TRUE]

MoveUser     == kind = "user" /\ Next /\ UNCHANGED <<kind, chartVars, holdingVars>>
MoveChart    == kind = "chart" /\ ChartNext /\ UNCHANGED <<kind, vars, holdingVars>>
MoveHoldings == kind = "holdings" /\ HoldingsNext /\ UNCHANGED <<kind, vars, chartVars>>

DataNext == MoveUser \/ MoveChart \/ MoveHoldings

DataSpec == DataInit /\ [][DataNext]_dataVars

-----------------------------------------------------------------------------
\* What the page shows of the user's money and orders is the server's, up to
\* the events it was told wrong or missed; what it shows of the positions is
\* the server's, up to the fills after they were read.
PageFollowsServer == ViewFollowsServer /\ HoldingsFollow
=============================================================================
