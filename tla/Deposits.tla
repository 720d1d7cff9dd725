------------------------------ MODULE Deposits ------------------------------
(***************************************************************************)
(* The two ways KRW comes into an account: initialize, once, and deposit,  *)
(* three times a month (DepositService).  Both check outside the           *)
(* transaction that acts on the check, so the requests of one user that    *)
(* are under way together (two tabs, a retry after a timeout) interleave   *)
(* between check and transaction.                                          *)
(*                                                                         *)
(* One user; orders and resets, which also move the KRW balance, are in    *)
(* module Ledger.  The locked read and the writes of a transaction are one *)
(* step, for the row lock is held between them; where the row is missing   *)
(* there is nothing to lock, and they are two.                             *)
(***************************************************************************)
EXTENDS Integers, FiniteSets

CONSTANTS
  Requests,  \* requests of the user that may be under way together
  Amounts,
  Months,    \* bound: a behaviour spans the months 1..Months
  DEPOSIT_LIMIT_PER_MONTH

ASSUME DepositsAssumption ==
  /\ IsFiniteSet(Requests) /\ Requests # {}
  /\ Amounts \subseteq Nat \ {0}
  /\ Months \in Nat \ {0}
  /\ DEPOSIT_LIMIT_PER_MONTH \in Nat \ {0}

VARIABLES
  initialized,  \* TRADING_USER.IS_INITIALIZED
  krw,          \* available of the KRW balance row
  used,         \* TRADING_DEPOSIT rows per month
  month,        \* the current one
  req,          \* requests under way
  grants,       \* history: how many initializations took effect
  due           \* history: what they and the deposits brought in

depositVars == <<initialized, krw, used, month, req, grants, due>>

NoRow == -1
NoRequest  == [step |-> "idle", amount |-> 0, month |-> 0]

Request == [step : {"idle", "initialize", "insert", "deposit"},
            amount : Amounts \cup {0}, month : 0..Months]

DepositsTypeOK ==
  /\ initialized \in {0, 1}
  /\ krw \in Nat \cup {NoRow}
  /\ used \in [1..Months -> Nat]
  /\ month \in 1..Months
  /\ req \in [Requests -> Request]
  /\ grants \in Nat /\ due \in Nat

DepositsInit ==
  /\ initialized = 0 /\ krw = NoRow
  /\ used = [m \in 1..Months |-> 0] /\ month = 1
  /\ req = [r \in Requests |-> NoRequest]
  /\ grants = 0 /\ due = 0

Pending(m) == {r \in Requests : req[r].step = "deposit" /\ req[r].month = m}

Step(r, step) == req' = [req EXCEPT ![r].step = step]
Done(r)       == req' = [req EXCEPT ![r] = NoRequest]

-----------------------------------------------------------------------------
\* Mutant: whether the user is initialized is not asked.
AskInitializeAgain(r, amount) ==
  /\ req[r] = NoRequest
  /\ req' = [req EXCEPT ![r] = [step |-> "initialize", amount |-> amount, month |-> 0]]
  /\ UNCHANGED <<initialized, krw, used, month, grants, due>>

\* initialize reads the user, and answers 409 when it is initialized.
AskInitialize(r, amount) ==
  /\ req[r] = NoRequest
  /\ initialized = 0
  /\ req' = [req EXCEPT ![r] = [step |-> "initialize", amount |-> amount, month |-> 0]]
  /\ UNCHANGED <<initialized, krw, used, month, grants, due>>

\* There is a KRW row: it is locked, overwritten, and the user saved.
Overwrite(r) ==
  /\ req[r].step = "initialize"
  /\ krw # NoRow
  /\ krw' = req[r].amount /\ initialized' = 1
  /\ grants' = grants + 1 /\ due' = due + req[r].amount
  /\ Done(r)
  /\ UNCHANGED <<used, month>>

\* There is none yet.
FindNoRow(r) ==
  /\ req[r].step = "initialize"
  /\ krw = NoRow
  /\ Step(r, "insert")
  /\ UNCHANGED <<initialized, krw, used, month, grants, due>>

Insert(r) ==
  /\ req[r].step = "insert"
  /\ krw = NoRow
  /\ krw' = req[r].amount /\ initialized' = 1
  /\ grants' = grants + 1 /\ due' = due + req[r].amount
  /\ Done(r)
  /\ UNCHANGED <<used, month>>

\* Mutant: one deposit too many.
AskDepositAtLimit(r, amount) ==
  /\ req[r] = NoRequest
  /\ used[month] <= DEPOSIT_LIMIT_PER_MONTH
  /\ req' = [req EXCEPT ![r] = [step |-> "deposit", amount |-> amount, month |-> month]]
  /\ UNCHANGED <<initialized, krw, used, month, grants, due>>

\* deposit counts this month's deposits, and answers 400 at the limit.
AskDeposit(r, amount) ==
  /\ req[r] = NoRequest
  /\ used[month] < DEPOSIT_LIMIT_PER_MONTH
  /\ req' = [req EXCEPT ![r] = [step |-> "deposit", amount |-> amount, month |-> month]]
  /\ UNCHANGED <<initialized, krw, used, month, grants, due>>

\* The KRW row is locked and increased, and the deposit recorded.
Deposit(r) ==
  /\ req[r].step = "deposit"
  /\ krw # NoRow
  /\ krw' = krw + req[r].amount
  /\ used' = [used EXCEPT ![req[r].month] = @ + 1]
  /\ due' = due + req[r].amount
  /\ Done(r)
  /\ UNCHANGED <<initialized, month, grants>>

\* The transaction is rolled back: an insert finds another's row (primary
\* key), a deposit finds no row, or anything fails.
Fail(r) ==
  /\ req[r] # NoRequest
  /\ Done(r)
  /\ UNCHANGED <<initialized, krw, used, month, grants, due>>

NextMonth ==
  /\ month < Months
  /\ month' = month + 1
  /\ UNCHANGED <<initialized, krw, used, req, grants, due>>

DepositsNext ==
  \/ \E r \in Requests :
       \/ \E amount \in Amounts : AskInitialize(r, amount) \/ AskDeposit(r, amount)
       \/ Overwrite(r) \/ FindNoRow(r) \/ Insert(r) \/ Deposit(r) \/ Fail(r)
  \/ NextMonth

DepositsSpec == DepositsInit /\ [][DepositsNext]_depositVars

-----------------------------------------------------------------------------
\* "Up to three times a month" (README, deposit.controller.ts) holds of a user
\* who waits for each answer.  Concurrent requests exceed the limit by those
\* that were admitted by a count that had not seen each other: n requests at
\* once by up to n - 1.
OvershootBounded ==
  \A m \in 1..Months :
    used[m] + Cardinality(Pending(m))
      <= DEPOSIT_LIMIT_PER_MONTH - 1 + Cardinality(Requests)

\* An initialization takes effect once ("once", deposit.service.ts) and no
\* deposit is overwritten by one, unless several were admitted before the first
\* took effect; each request can be admitted that way only once, so money is
\* lost at most that often, and never made.
Admitted == {r \in Requests : req[r].step \in {"initialize", "insert"}}

MoneyLostOnlyByRace ==
  /\ grants + Cardinality(Admitted) <= Cardinality(Requests)
  /\ krw # NoRow => krw <= due /\ (grants = 1 => krw = due)
=============================================================================
