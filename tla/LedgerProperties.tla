-------------------------- MODULE LedgerProperties --------------------------
(***************************************************************************)
(* What the ledger promises: every locked amount belongs to an order,      *)
(* coins and positions agree, money is conserved, orders can be canceled   *)
(* until filled, settlement does not fail, and price priority is kept.     *)
(***************************************************************************)
EXTENDS Ledger

\* The part of the user's locked balance that is there because of the order:
\* what a cancel would release while it is OPEN, and what a FILLED MARKET BUY
\* left behind, which no code path returns.
Claim(ord) ==
  IF ord.status = "OPEN" THEN ReleaseAmount(ord)
  ELSE IF ord.status = "FILLED" /\ IsMarketBuy(ord) THEN ord.total - ord.spent
  ELSE 0

\* What an order claims of one of its user's assets.
ClaimOn(ord, a) == IF ReservedAsset(ord) = a THEN Claim(ord) ELSE 0

Claims(os, u, a) ==
  [o \in OrderIds |->
     IF os[o] # NoOrder /\ os[o].user = u THEN ClaimOn(os[o], a) ELSE 0]

\* A user's locked balance is exactly what that user's orders claim: reserve,
\* release, decreaseLocked and restoreFromCancel cancel out over any
\* interleaving of creates, cancels and partial fills (balance.manager.ts).
LockedIsClaimed ==
  \A u \in Users, a \in Assets : bal[u][a].locked = Total(Claims(orders, u, a), OrderIds)

\* The coins a user owns, free or locked, are the quantity of the position,
\* although balances and positions are updated by different managers.
CoinsMatchPosition ==
  \A u \in Users, m \in Markets :
    bal[u][m].available + bal[u][m].locked = pos[u][m]

\* An OPEN order can be canceled: its user's locked balance covers what the
\* cancel releases, and it has something left ("can be canceled until it is
\* filled", README).
OpenOrdersCancellable ==
  \A o \in OrderIds :
    IsOpen(o) =>
      /\ bal[orders[o].user][ReservedAsset(orders[o])].locked
           >= ReleaseAmount(orders[o])
      /\ ReleaseAmount(orders[o]) > 0

\* Settlement never meets the exceptions of release, decreaseLocked or
\* applySell, each of which would stop the run for everyone in the market.
SettlementNeverThrows ==
  \A r \in Runs, p \in Prices :
    NextFill(r, p) => ~FillThrowsFor(tx[r], p, NextQty(r, p))

Spent(os, u, side) ==
  [o \in OrderIds |->
     IF os[o] # NoOrder /\ os[o].user = u /\ os[o].side = side
     THEN os[o].spent ELSE 0]

\* A user's KRW, free and locked, is what came from outside, less the value of
\* the buys' fills, plus that of the sells'.
KrwConserved ==
  \A u \in Users :
    bal[u]["KRW"].available + bal[u]["KRW"].locked
        + Total(Spent(orders, u, "BUY"), OrderIds)
      = funded[u] + Total(Spent(orders, u, "SELL"), OrderIds)

\* What the fills of an order add up to: never more than was ordered, never
\* at a worse price than the limit, and all of it once the order is FILLED
\* (a MARKET BUY is bounded by its amount instead).
FillsHonourOrder ==
  \A o \in OrderIds :
    LET ord == orders[o]
    IN ord # NoOrder =>
         IF IsMarketBuy(ord)
         THEN /\ ord.spent <= ord.total
              /\ ord.status = "OPEN" => ord.reserved = ord.total - ord.spent
         ELSE /\ ord.filled + ord.remaining = ord.qty
              /\ ord.status = "FILLED" <=> ord.remaining = 0
              /\ ord.type = "LIMIT" =>
                   IF ord.side = "BUY" THEN ord.spent <= ord.price * ord.filled
                   ELSE ord.spent >= ord.price * ord.filled

-----------------------------------------------------------------------------
(* The inductive invariant behind the properties above.                     *)

\* What holds of an order, and of a run's working copy of one, at any time.
FillsAddUp(ord) ==
  /\ ord.price > 0
  /\ IF IsMarketBuy(ord)
     THEN /\ ord.spent <= ord.total
          /\ ord.status = "OPEN" => ord.reserved + ord.spent = ord.total
     ELSE /\ ord.filled + ord.remaining = ord.qty
          /\ ord.type = "LIMIT" /\ ord.side = "BUY" => ord.spent <= ord.price * ord.filled
          /\ ord.type = "LIMIT" /\ ord.side = "SELL" => ord.spent >= ord.price * ord.filled

\* A committed order is OPEN while something of it is left to match.
StatusIsDue(ord) ==
  IF IsMarketBuy(ord) THEN ord.status = "OPEN" => ord.reserved > 0
  ELSE ord.status = "FILLED" <=> ord.remaining = 0

OrdersSound ==
  \A o \in OrderIds :
    orders[o] # NoOrder => FillsAddUp(orders[o]) /\ StatusIsDue(orders[o])

SameOrder(a, b) ==
  /\ a.user = b.user /\ a.market = b.market /\ a.side = b.side /\ a.type = b.type
  /\ a.price = b.price /\ a.qty = b.qty /\ a.total = b.total /\ a.status = b.status

\* The working copies t of an open transaction differ from the order and the
\* locked balances they were read from by what the fills so far have moved.
TxMatches(t, ord, krw, coin) ==
  /\ ord.status = "OPEN" /\ SameOrder(t.ord, ord)
  /\ FillsAddUp(t.ord)
  /\ t.krw.locked + ClaimOn(ord, "KRW") = krw + ClaimOn(t.ord, "KRW")
  /\ t.coin.locked + ClaimOn(ord, ord.market) = coin + ClaimOn(t.ord, ord.market)
  /\ t.coin.available + t.coin.locked = t.qty

TxSound ==
  \A r \in Runs :
    InTx(r) =>
      LET u == tx[r].ord.user
      IN /\ Running(r)
         /\ TxMatches(tx[r], orders[tx[r].order], bal[u]["KRW"].locked,
                      bal[u][tx[r].ord.market].locked)

\* Two open transactions never hold a row in common.
TxApart ==
  \A r, s \in Runs :
    InTx(r) /\ InTx(s) /\ r # s => tx[r].ord.user # tx[s].ord.user

LedgerInvariant ==
  /\ TypeOK
  /\ OrdersSound
  /\ TxSound
  /\ TxApart
  /\ LockedIsClaimed
  /\ CoinsMatchPosition

-----------------------------------------------------------------------------
\* While a run is about to give an order a fill, no candidate of that run that
\* precedes it on the same side is still OPEN and would take even one unit at
\* that level: price-time priority, whatever was canceled or filled by another
\* run since the candidates were listed.
NoOvertaking ==
  \A r \in Runs, p \in Prices :
    NextFill(r, p)
      => \A o \in job[r].listed :
           /\ IsOpen(o)
           /\ orders[o].side = tx[r].ord.side
           /\ Precedes(o, tx[r].order)
           => FillQty(orders[o], p, 1) = 0

\* A FILLED or CANCELED order is never touched again, so a cancel and a run
\* that race for an order cannot both take effect.
TerminalOrdersFrozen ==
  [][\A o \in OrderIds :
       orders[o].status \in {"FILLED", "CANCELED"} => orders'[o] = orders[o]]_vars

\* "FILLED if 1 won or less is left" (market-buy.execution.ts): what a MARKET
\* BUY leaves unspent when it is FILLED is at most 1 KRW.
FilledMarketBuyIsSpent ==
  \A o \in OrderIds :
    orders[o].status = "FILLED" /\ IsMarketBuy(orders[o])
      => orders[o].total - orders[o].spent <= Won

-----------------------------------------------------------------------------
(* The ledger as module Exchange sees it: what an order claims is what it   *)
(* holds, and what is available is free.                                    *)

Promised(ord) ==
  IF ord = NoOrder THEN NoOrder
  ELSE [user |-> ord.user, market |-> ord.market, side |-> ord.side,
        limit |-> IF ord.type = "LIMIT" THEN ord.price ELSE 0,
        qty |-> IF IsMarketBuy(ord) THEN 0 ELSE ord.qty,
        held |-> Claim(ord), filled |-> ord.filled, spent |-> ord.spent,
        status |-> ord.status]

PromisedOrders == [o \in OrderIds |-> Promised(orders[o])]
FreeBalances   == [u \in Users |-> [a \in Assets |-> bal[u][a].available]]

Abstract == INSTANCE Exchange WITH orders <- PromisedOrders, free <- FreeBalances

\* Trading implements the exchange: runs that interleave, working copies,
\* rollbacks and retries show as nothing but whole trades at the limit or
\* better, and a cancel returns exactly what the order still holds.
ImplementsExchange == Abstract!Spec
=============================================================================
