------------------------------ MODULE Exchange ------------------------------
(***************************************************************************)
(* What the ledger promises its users, whatever goes on inside: an order   *)
(* holds what was taken for it out of the user's free balance; a trade, at *)
(* its limit or better, exchanges part of that, all at once; a cancel      *)
(* gives back exactly what is still held; nothing else moves, except that  *)
(* KRW may be put in or taken out.                                         *)
(*                                                                         *)
(* There are no books, candidates, row locks, working copies or failures   *)
(* here.  An action says what the new order may be, and what follows from  *)
(* it for the free balances.                                               *)
(***************************************************************************)
EXTENDS Integers

CONSTANTS Users, Markets, OrderLimit

VARIABLES
  orders, \* per order: terms, what it holds, and the sum of its trades
  free    \* per user and asset: what may be spent

vars == <<orders, free>>

OrderIds == 1..OrderLimit
Assets   == {"KRW"} \cup Markets
None     == [status |-> "NONE"]

Init ==
  /\ orders = [o \in OrderIds |-> None]
  /\ free = [u \in Users |-> [a \in Assets |-> 0]]

Gives(ord) == IF ord.side = "BUY" THEN "KRW" ELSE ord.market

\* What an order holds at first: the quantity it sells, the most its limit
\* lets it cost, or the amount it is to spend (limit and qty are 0).
Reserve(ord) ==
  IF ord.side = "SELL" THEN ord.held = ord.qty
  ELSE ord.limit > 0 => ord.held = ord.limit * ord.qty

Place(o) ==
  LET new == orders'[o]
  IN /\ orders[o] = None
     /\ new.status = "OPEN" /\ new.filled = 0 /\ new.spent = 0
     /\ new.held > 0 /\ Reserve(new)
     /\ orders' = [orders EXCEPT ![o] = new]
     /\ free[new.user][Gives(new)] >= new.held
     /\ free' = [free EXCEPT ![new.user][Gives(new)] = @ - new.held]

SameTerms(a, b) ==
  /\ a.user = b.user /\ a.market = b.market /\ a.side = b.side
  /\ a.limit = b.limit /\ a.qty = b.qty

Cancel(o) ==
  LET old == orders[o]
      new == orders'[o]
  IN /\ old.status = "OPEN"
     /\ new.status = "CANCELED" /\ new.held = 0
     /\ orders' = [orders EXCEPT ![o] = new] /\ SameTerms(old, new)
     /\ new.filled = old.filled /\ new.spent = old.spent
     /\ free' = [free EXCEPT ![old.user][Gives(old)] = @ + old.held]

\* What a buy of q for v takes from what is held: the most it could have cost.
Takes(ord, q, v) == IF ord.limit > 0 THEN ord.limit * q ELSE v

\* What a trade of q coins for v adds to a free balance of the user: to a buyer
\* the coins and what the buy was spared, to a seller the KRW.
Gain(ord, q, v, a) ==
  IF a = "KRW" THEN IF ord.side = "SELL" THEN v ELSE Takes(ord, q, v) - v
  ELSE IF a = ord.market /\ ord.side = "BUY" THEN q ELSE 0

\* An OPEN order trades q coins for v, at its limit or better.
Trade(o) ==
  LET old == orders[o]
      new == orders'[o]
      q   == new.filled - old.filled
      v   == new.spent - old.spent
      take == IF old.side = "SELL" THEN q ELSE Takes(old, q, v)
  IN /\ old.status = "OPEN" /\ new.status \in {"OPEN", "FILLED"}
     /\ orders' = [orders EXCEPT ![o] = new] /\ SameTerms(old, new)
     /\ q > 0
     /\ IF old.side = "SELL" THEN v >= old.limit * q ELSE v <= take
     /\ new.held = old.held - take /\ new.held >= 0
     /\ old.qty > 0 => (new.status = "FILLED" <=> new.filled = new.qty)
     /\ free' = [free EXCEPT ![old.user] =
                   [a \in Assets |-> free[old.user][a] + Gain(old, q, v, a)]]

\* Deposits put KRW in; they round it down and may take a fraction out.
Fund(u) ==
  /\ free' = [free EXCEPT ![u]["KRW"] = free'[u]["KRW"]]
  /\ UNCHANGED orders

Next ==
  \/ \E o \in OrderIds : Place(o) \/ Cancel(o) \/ Trade(o)
  \/ \E u \in Users : Fund(u)

Spec == Init /\ [][Next]_vars
=============================================================================
