---------------------------- MODULE ServerProofs ----------------------------
(***************************************************************************)
(* Machine-checked proofs about the services of the server that hold no    *)
(* ledger: the markets the worker looks at, the deposits, the calls to     *)
(* Upbit's REST API and the connection to its feed, each for every value   *)
(* of its constants.  They share no state; each has a specification of its *)
(* own.                                                                    *)
(***************************************************************************)
EXTENDS ActiveMarkets, Deposits, UpbitHttp, UpbitFeed, TallyProofs, WellFoundedInduction

-----------------------------------------------------------------------------
(* The markets the worker looks at                                          *)

\* While the server starts, what it read from the database is complete, for
\* no order is created then; a count of zero that no create overtook is true.
MarketsInv ==
  /\ MarketsTypeOK
  /\ phase = "booting" => \A m \in Codes : open[m] > 0 => m \in restore
  /\ step = "drop" /\ seen = 0 /\ at \notin unseen => open[at] = 0
  /\ ForgottenOnlyInRace

\* The first start, on a database without orders.
LEMMA MarketsInitInv == MarketsInit => MarketsInv
BY ActiveMarketsAssumption DEF MarketsInit, MarketsInv, MarketsTypeOK, ForgottenOnlyInRace

\* Every step keeps the invariant.
LEMMA MarketsNextInv == MarketsInv /\ [MarketsNext]_marketVars => MarketsInv'
<1> SUFFICES ASSUME MarketsInv, [MarketsNext]_marketVars PROVE MarketsInv'
  OBVIOUS
<1> USE ActiveMarketsAssumption DEF MarketsInv, MarketsTypeOK, ForgottenOnlyInRace
<1>1. ASSUME NEW m \in Codes, CreateCommits(m) PROVE MarketsInv'
  BY <1>1 DEF CreateCommits
<1>2. ASSUME NEW m \in Codes, AddActive(m) PROVE MarketsInv'
  BY <1>2 DEF AddActive, workerVars
<1>3. ASSUME NEW m \in Codes, Close(m) PROVE MarketsInv'
  BY <1>3 DEF Close, workerVars
<1>4. CASE TakeJob
  BY <1>4 DEF TakeJob
<1>5. ASSUME NEW m \in Codes, StartMarket(m) PROVE MarketsInv'
  BY <1>5 DEF StartMarket
<1>6. CASE Match
  BY <1>6 DEF Match
<1>7. CASE SkipMarket
  BY <1>7 DEF SkipMarket
<1>8. CASE Count
  BY <1>8 DEF Count
<1>9. CASE Drop
  BY <1>9 DEF Drop
<1>10. CASE Crash
  BY <1>10 DEF Crash
<1>11. CASE Boot
  BY <1>11 DEF Boot, workerVars
<1>12. CASE Restore
  BY <1>12 DEF Restore, workerVars
<1>13. CASE UNCHANGED marketVars
  BY <1>13 DEF marketVars
<1>14. QED
  BY <1>1, <1>2, <1>3, <1>4, <1>5, <1>6, <1>7, <1>8, <1>9, <1>10, <1>11, <1>12, <1>13
     DEF MarketsNext, Worker

\* A market with an OPEN order is never forgotten except in that race,
\* whatever crashes, failures and restarts come between.
THEOREM ForgottenOnlyInRaceHolds == MarketsSpec => []ForgottenOnlyInRace
<1>1. MarketsInv => ForgottenOnlyInRace
  BY DEF MarketsInv
<1>2. QED
  BY <1>1, MarketsInitInv, MarketsNextInv, PTL DEF MarketsSpec

-----------------------------------------------------------------------------
(* Deposits                                                                 *)

\* The requests waiting to deposit are no more than the requests.
LEMMA PendingFinite ==
  ASSUME NEW m \in Nat
  PROVE  /\ IsFiniteSet(Pending(m)) /\ Cardinality(Pending(m)) \in Nat
         /\ Cardinality(Pending(m)) <= Cardinality(Requests)
         /\ Cardinality(Requests) \in Nat
<1>1. Pending(m) \subseteq Requests
  BY DEF Pending
<1>2. QED
  BY <1>1, DepositsAssumption, FS_Subset, FS_CardinalityType

\* After a step, too.
LEMMA PendingFinite2 ==
  ASSUME NEW m \in Nat
  PROVE  /\ IsFiniteSet(Pending(m)') /\ Cardinality(Pending(m)') \in Nat
         /\ Cardinality(Pending(m)') <= Cardinality(Requests)
<1>1. Pending(m)' \subseteq Requests
  BY DEF Pending
<1>2. QED
  BY <1>1, DepositsAssumption, FS_Subset, FS_CardinalityType

DepositsInv == DepositsTypeOK /\ OvershootBounded

\* Nothing is used and nobody waits.
LEMMA DepositsInitInv == DepositsInit => DepositsInv
<1> SUFFICES ASSUME DepositsInit PROVE DepositsInv
  OBVIOUS
<1>1. DepositsTypeOK
  BY DepositsAssumption DEF DepositsInit, DepositsTypeOK, Request, NoRequest
<1>2. ASSUME NEW m \in 1..Months
      PROVE used[m] + Cardinality(Pending(m))
              <= DEPOSIT_LIMIT_PER_MONTH - 1 + Cardinality(Requests)
  <2>1. used[m] = 0
    BY DEF DepositsInit
  <2>2. QED
    BY <2>1, PendingFinite, DepositsAssumption
<1>3. QED
  BY <1>1, <1>2 DEF DepositsInv, OvershootBounded

\* What a request asks for is an amount.
LEMMA AmountNat ==
  ASSUME DepositsTypeOK, NEW r \in Requests
  PROVE  req[r].amount \in Nat
<1>1. req[r] \in Request
  BY DEF DepositsTypeOK
<1>2. req[r].amount \in Amounts \cup {0}
  BY <1>1 DEF Request
<1>3. \A x \in Amounts \cup {0} : x \in Nat
  BY DepositsAssumption
<1>4. QED
  BY <1>2, <1>3, Zenon

\* Every step keeps the types.
LEMMA NextType == DepositsTypeOK /\ [DepositsNext]_depositVars => DepositsTypeOK'
<1> SUFFICES ASSUME DepositsTypeOK, [DepositsNext]_depositVars PROVE DepositsTypeOK'
  OBVIOUS
<1> USE DepositsAssumption DEF DepositsTypeOK, Request, NoRow
<1>1. ASSUME NEW r \in Requests, NEW a \in Amounts, AskInitialize(r, a) PROVE DepositsTypeOK'
  BY <1>1 DEF AskInitialize
<1>2. ASSUME NEW r \in Requests, NEW a \in Amounts, AskDeposit(r, a) PROVE DepositsTypeOK'
  BY <1>2 DEF AskDeposit
<1>3. ASSUME NEW r \in Requests, Overwrite(r) PROVE DepositsTypeOK'
  <2>1. req[r].amount \in Nat
    BY AmountNat
  <2>2. QED
    BY <1>3, <2>1, SMTT(60) DEF Overwrite, Done, NoRequest
<1>4. ASSUME NEW r \in Requests, FindNoRow(r) PROVE DepositsTypeOK'
  BY <1>4, ZenonT(60) DEF FindNoRow, Step
<1>5. ASSUME NEW r \in Requests, Insert(r) PROVE DepositsTypeOK'
  <2>1. req[r].amount \in Nat
    BY AmountNat
  <2>2. QED
    BY <1>5, <2>1, SMTT(60) DEF Insert, Done, NoRequest
<1>6. ASSUME NEW r \in Requests, Deposit(r) PROVE DepositsTypeOK'
  <2>1. req[r].amount \in Nat
    BY AmountNat
  <2>2. used' \in [1..Months -> Nat]
    <3> DEFINE k == req[r].month
    <3>1. used' = [used EXCEPT ![k] = used[k] + 1]
      BY <1>6 DEF Deposit
    <3> HIDE DEF k
    <3>2. used' = [x \in 1..Months |-> IF x = k THEN used[x] + 1 ELSE used[x]]
      BY <3>1
    <3>3. QED
      BY <3>2
  <2>3. krw' \in Nat /\ due' \in Nat
    BY <1>6, <2>1 DEF Deposit
  <2>4. req' \in [Requests -> Request]
    BY <1>6 DEF Deposit, Done, NoRequest
  <2>5. UNCHANGED <<initialized, month, grants>>
    BY <1>6 DEF Deposit
  <2>6. QED
    BY <2>2, <2>3, <2>4, <2>5
<1>7. ASSUME NEW r \in Requests, Fail(r) PROVE DepositsTypeOK'
  BY <1>7 DEF Fail, Done, NoRequest
<1>8. CASE NextMonth
  BY <1>8 DEF NextMonth
<1>9. CASE UNCHANGED depositVars
  BY <1>9 DEF depositVars
<1>10. QED
  BY <1>1, <1>2, <1>3, <1>4, <1>5, <1>6, <1>7, <1>8, <1>9 DEF DepositsNext

\* Every step keeps the bound.
LEMMA NextBound == DepositsInv /\ [DepositsNext]_depositVars => OvershootBounded'
<1> SUFFICES ASSUME DepositsInv, [DepositsNext]_depositVars, NEW m \in 1..Months
             PROVE used'[m] + Cardinality(Pending(m)')
                     <= DEPOSIT_LIMIT_PER_MONTH - 1 + Cardinality(Requests)
  BY DEF OvershootBounded
<1> DEFINE L == DEPOSIT_LIMIT_PER_MONTH
           n == Cardinality(Pending(m))
           n2 == Cardinality(Pending(m)')
           all == Cardinality(Requests)
<1>0. /\ n \in Nat /\ n2 \in Nat /\ n2 <= all /\ all \in Nat /\ IsFiniteSet(Pending(m))
      /\ L \in Nat \ {0} /\ used[m] \in Nat /\ used[m] + n <= L - 1 + all
  <2>1. m \in Nat
    BY DepositsAssumption
  <2>2. used[m] \in Nat /\ L \in Nat \ {0}
    BY DepositsAssumption DEF DepositsInv, DepositsTypeOK
  <2>3. used[m] + n <= L - 1 + all
    BY DEF DepositsInv, OvershootBounded
  <2>4. QED
    BY <2>1, <2>2, <2>3, PendingFinite, PendingFinite2
<1>1. CASE used' = used /\ used[m] < L
  <2> HIDE DEF n, n2, all, L
  <2>1. used'[m] + n2 <= L - 1 + all
    BY <1>0, <1>1
  <2>2. QED
    BY <2>1 DEF n2, L, all
<1>2. CASE used' = used /\ Pending(m)' \subseteq Pending(m)
  <2>1. n2 <= n
    BY <1>0, <1>2, FS_Subset
  <2> HIDE DEF n, n2, all, L
  <2>2. used'[m] + n2 <= L - 1 + all
    BY <1>0, <1>2, <2>1
  <2>3. QED
    BY <2>2 DEF n2, L, all
<1>3. ASSUME NEW r \in Requests, NEW a \in Amounts, AskDeposit(r, a)
      PROVE used' = used /\ (used[m] < L \/ Pending(m)' \subseteq Pending(m))
  BY <1>3 DEF AskDeposit, Pending, DepositsInv, DepositsTypeOK
<1>4. ASSUME NEW r \in Requests, Deposit(r)
      PROVE used'[m] + n2 <= L - 1 + all
  <2>1. req \in [Requests -> Request] /\ used \in [1..Months -> Nat]
    BY DEF DepositsInv, DepositsTypeOK
  <2>2. CASE req[r].month = m
    <3>1. used'[m] = used[m] + 1
      BY <1>4, <2>1, <2>2 DEF Deposit
    <3>2. r \in Pending(m)
      BY <1>4, <2>2 DEF Deposit, Pending
    <3>3. Pending(m)' = Pending(m) \ {r}
      BY <1>4, <2>1 DEF Deposit, Done, NoRequest, Pending
    <3>4. n2 = n - 1
      BY <1>0, <3>2, <3>3, FS_RemoveElement
    <3> HIDE DEF n, n2, all, L
    <3>5. QED
      BY <1>0, <3>1, <3>4
  <2>3. CASE req[r].month # m
    <3>1. used'[m] = used[m]
      BY <1>4, <2>1, <2>3 DEF Deposit
    <3>2. Pending(m)' = Pending(m)
      BY <1>4, <2>1, <2>3 DEF Deposit, Done, NoRequest, Pending
    <3>3. n2 = n
      BY <3>2
    <3> HIDE DEF n, n2, all, L
    <3>4. QED
      BY <1>0, <3>1, <3>3
  <2>4. QED
    BY <2>2, <2>3
<1>5. ASSUME NEW r \in Requests,
             (\E a \in Amounts : AskInitialize(r, a)) \/ Overwrite(r) \/ FindNoRow(r)
               \/ Insert(r) \/ Fail(r)
      PROVE used' = used /\ Pending(m)' \subseteq Pending(m)
  <2>1. req \in [Requests -> Request]
    BY DEF DepositsInv, DepositsTypeOK
  <2>2. used' = used
    BY <1>5 DEF AskInitialize, Overwrite, FindNoRow, Insert, Fail
  <2>3. \E x : x.step # "deposit" /\ req' = [req EXCEPT ![r] = x]
    <3>1. CASE \E a \in Amounts : AskInitialize(r, a)
      BY <3>1 DEF AskInitialize
    <3>2. CASE Overwrite(r) \/ Insert(r) \/ Fail(r)
      BY <3>2 DEF Overwrite, Insert, Fail, Done, NoRequest
    <3>3. CASE FindNoRow(r)
      <4>1. /\ req' = [req EXCEPT ![r] = [req[r] EXCEPT !.step = "insert"]]
            /\ [req[r] EXCEPT !.step = "insert"].step = "insert"
        BY <2>1, <3>3 DEF FindNoRow, Step, Request
      <4>2. QED
        BY <4>1
    <3>4. QED
      BY <1>5, <3>1, <3>2, <3>3
  <2>4. QED
    BY <2>1, <2>2, <2>3 DEF Pending
<1>6. CASE NextMonth \/ UNCHANGED depositVars
  BY <1>2, <1>6 DEF NextMonth, depositVars, Pending
<1>7. QED
  <2> HIDE DEF n, n2, all, L
  <2>1. CASE \E r \in Requests, a \in Amounts : AskDeposit(r, a)
    BY <1>1, <1>2, <1>3, <2>1 DEF n2, L, all
  <2>2. CASE \E r \in Requests : Deposit(r)
    BY <1>4, <2>2 DEF n2, L, all
  <2>3. CASE \E r \in Requests :
               (\E a \in Amounts : AskInitialize(r, a)) \/ Overwrite(r) \/ FindNoRow(r)
                 \/ Insert(r) \/ Fail(r)
    BY <1>2, <1>5, <2>3
  <2>4. QED
    BY <1>6, <2>1, <2>2, <2>3 DEF DepositsNext

\* However many requests of a user are under way together, a month sees fewer
\* deposits than the limit plus their number.
THEOREM OvershootBoundedHolds == DepositsSpec => []OvershootBounded
<1>1. DepositsInv /\ [DepositsNext]_depositVars => DepositsInv'
  BY NextType, NextBound DEF DepositsInv
<1>2. DepositsInv => OvershootBounded
  BY DEF DepositsInv
<1>3. QED
  BY <1>1, <1>2, DepositsInitInv, PTL DEF DepositsSpec

-----------------------------------------------------------------------------
\* Until an initialization takes effect there is no money and no row.
MoneyInv ==
  /\ DepositsTypeOK
  /\ MoneyLostOnlyByRace
  /\ initialized = 0 => grants = 0
  /\ krw = NoRow <=> grants = 0
  /\ grants = 0 => due = 0

\* The requests admitted to initialize are no more than the requests.
LEMMA AdmittedFinite ==
  /\ IsFiniteSet(Admitted) /\ Cardinality(Admitted) \in Nat
  /\ IsFiniteSet(Admitted') /\ Cardinality(Admitted') \in Nat
  /\ Cardinality(Admitted) <= Cardinality(Requests)
  /\ Cardinality(Admitted') <= Cardinality(Requests)
  /\ Cardinality(Requests) \in Nat
<1>1. Admitted \subseteq Requests /\ Admitted' \subseteq Requests
  BY DEF Admitted
<1>2. QED
  BY <1>1, DepositsAssumption, FS_Subset, FS_CardinalityType

\* A request that is done, or fails, is admitted no longer.
LEMMA DoneAdmitted ==
  ASSUME DepositsTypeOK, NEW r \in Requests, Done(r)
  PROVE  Admitted' = Admitted \ {r}
BY DEF Done, NoRequest, Admitted, DepositsTypeOK

\* An initialization that takes effect is one admitted before.
LEMMA GrantCounted ==
  ASSUME DepositsTypeOK, NEW r \in Requests, Done(r), req[r].step \in {"initialize", "insert"}
  PROVE  Cardinality(Admitted') = Cardinality(Admitted) - 1
<1>1. Admitted' = Admitted \ {r} /\ r \in Admitted
  BY DoneAdmitted DEF Admitted
<1>2. QED
  BY <1>1, AdmittedFinite, FS_RemoveElement

\* Every step keeps the count of what was granted and is about to be.
LEMMA NextGrants ==
  ASSUME MoneyInv, [DepositsNext]_depositVars
  PROVE  grants' + Cardinality(Admitted') <= Cardinality(Requests)
<1> DEFINE n  == Cardinality(Admitted)
           n2 == Cardinality(Admitted')
           all == Cardinality(Requests)
<1>1. /\ n \in Nat /\ n2 \in Nat /\ all \in Nat /\ n2 <= all
      /\ grants \in Nat /\ grants + n <= all
  BY AdmittedFinite DEF MoneyInv, DepositsTypeOK, MoneyLostOnlyByRace
<1>2. req \in [Requests -> Request] /\ DepositsTypeOK
  BY DEF MoneyInv, DepositsTypeOK
<1>3. CASE grants' = grants /\ Admitted' \subseteq Admitted
  <2>1. n2 <= n
    BY <1>3, AdmittedFinite, FS_Subset
  <2> HIDE DEF n, n2, all
  <2>2. grants' + n2 <= all
    BY <1>1, <1>3, <2>1
  <2>3. QED
    BY <2>2 DEF n2, all
<1>4. ASSUME NEW r \in Requests, NEW a \in Amounts, AskInitialize(r, a)
      PROVE  grants' + n2 <= all
  <2>1. grants = 0 /\ grants' = grants
    BY <1>4 DEF AskInitialize, MoneyInv
  <2> HIDE DEF n, n2, all
  <2>2. QED
    BY <1>1, <2>1
<1>5. ASSUME NEW r \in Requests, Overwrite(r) \/ Insert(r)
      PROVE  grants' + n2 <= all
  <2>1. grants' = grants + 1 /\ Done(r) /\ req[r].step \in {"initialize", "insert"}
    BY <1>5 DEF Overwrite, Insert
  <2>2. n2 = n - 1
    BY <1>2, <2>1, GrantCounted
  <2> HIDE DEF n, n2, all
  <2>3. QED
    BY <1>1, <2>1, <2>2
<1>6. ASSUME NEW r \in Requests, NEW a \in Amounts, AskDeposit(r, a)
      PROVE  grants' = grants /\ Admitted' \subseteq Admitted
  BY <1>2, <1>6 DEF AskDeposit, Admitted
<1>7. ASSUME NEW r \in Requests, FindNoRow(r)
      PROVE  grants' = grants /\ Admitted' \subseteq Admitted
  BY <1>2, <1>7 DEF FindNoRow, Step, Admitted
<1>8. ASSUME NEW r \in Requests, Deposit(r) \/ Fail(r)
      PROVE  grants' = grants /\ Admitted' \subseteq Admitted
  BY <1>2, <1>8, DoneAdmitted DEF Deposit, Fail
<1>9. CASE NextMonth \/ UNCHANGED depositVars
  BY <1>3, <1>9 DEF NextMonth, depositVars, Admitted
<1>10. QED
  BY <1>3, <1>4, <1>5, <1>6, <1>7, <1>8, <1>9 DEF DepositsNext

\* Every step keeps account of the money.
LEMMA NextMoney == MoneyInv /\ [DepositsNext]_depositVars => MoneyInv'
<1> SUFFICES ASSUME MoneyInv, [DepositsNext]_depositVars PROVE MoneyInv'
  OBVIOUS
<1>1. DepositsTypeOK' /\ grants' + Cardinality(Admitted') <= Cardinality(Requests)
  BY NextType, NextGrants DEF MoneyInv
<1>2. SUFFICES /\ krw' # NoRow => krw' <= due' /\ (grants' = 1 => krw' = due')
               /\ initialized' = 0 => grants' = 0
               /\ krw' = NoRow <=> grants' = 0
               /\ grants' = 0 => due' = 0
  BY <1>1 DEF MoneyInv, MoneyLostOnlyByRace
<1>3. /\ initialized \in {0, 1} /\ krw \in Nat \cup {NoRow} /\ grants \in Nat /\ due \in Nat
      /\ krw # NoRow => krw <= due /\ (grants = 1 => krw = due)
      /\ initialized = 0 => grants = 0
      /\ krw = NoRow <=> grants = 0
      /\ grants = 0 => due = 0
  BY DEF MoneyInv, MoneyLostOnlyByRace, DepositsTypeOK
<1>4. \A r \in Requests : req[r].amount \in Nat
  BY AmountNat DEF MoneyInv
<1>5. ASSUME NEW r \in Requests, Overwrite(r) \/ Insert(r) \/ Deposit(r)
      PROVE  /\ krw' # NoRow => krw' <= due' /\ (grants' = 1 => krw' = due')
             /\ initialized' = 0 => grants' = 0
             /\ krw' = NoRow <=> grants' = 0
             /\ grants' = 0 => due' = 0
  BY <1>3, <1>4, <1>5 DEF Overwrite, Insert, Deposit, NoRow
<1>6. CASE UNCHANGED <<initialized, krw, grants, due>>
  BY <1>3, <1>6
<1>7. QED
  BY <1>5, <1>6 DEF DepositsNext, depositVars, AskInitialize, AskDeposit, FindNoRow, Fail, NextMonth

\* Money is lost only by initializations that were admitted together, and never
\* made; of n requests under way at most n take effect that way.
THEOREM MoneyLostOnlyByRaceHolds == DepositsSpec => []MoneyLostOnlyByRace
<1>1. DepositsInit => MoneyInv
  <2> SUFFICES ASSUME DepositsInit PROVE MoneyInv
    OBVIOUS
  <2>1. DepositsTypeOK
    BY DepositsInitInv DEF DepositsInv
  <2>2. grants + Cardinality(Admitted) <= Cardinality(Requests)
    BY AdmittedFinite DEF DepositsInit
  <2>3. QED
    BY <2>1, <2>2 DEF MoneyInv, MoneyLostOnlyByRace, DepositsInit
<1>2. MoneyInv => MoneyLostOnlyByRace
  BY DEF MoneyInv
<1>3. QED
  BY <1>1, <1>2, NextMoney, PTL DEF DepositsSpec

-----------------------------------------------------------------------------
(* The rate limiter                                                         *)

Counts == [Ages -> Nat]
Task   == [at : {"none", "calling", "sleeping"}, tries : 0..MaxRetries, sleep : 0..MaxAfter]

\* Nobody waits twice.
Distinct(q) == \A i, j \in DOMAIN q : q[i] = q[j] => i = j

\* Attempts of calls that started up to an age: each has up to MaxRetries, and so
\* has the one before them; the one in progress has those it made.
Repeated(r, s, t) ==
  \A a \in Ages :
    Total(r, 0..a) <= MaxRetries * Total(s, 0..a) + (IF t.at = "none" THEN MaxRetries ELSE t.tries)

HttpInv ==
  /\ HttpTypeOK /\ task \in Task /\ repeats \in Counts /\ Distinct(queue)
  /\ task.at = "sleeping" => task.tries < MaxRetries
  /\ Calls(stamps) <= MaxCalls
  /\ Repeated(repeats, stamps, task)

\* Ages up to one are finitely many ages.
LEMMA AgesUpTo ==
  ASSUME NEW a \in Ages
  PROVE  a \in Nat /\ 0 \in 0..a /\ 0..a \subseteq Ages /\ IsFiniteSet(0..a) /\ IsFiniteSet(Ages)
<1>1. a \in Nat /\ a <= Window - 1 /\ Window \in Nat
  BY UpbitHttpAssumption DEF Ages
<1>2. IsFiniteSet(0..a) /\ IsFiniteSet(Ages)
  BY <1>1, FS_Interval DEF Ages
<1>3. QED
  BY <1>1, <1>2 DEF Ages

LEMMA UpToNat ==
  ASSUME NEW f \in Counts, NEW a \in Ages
  PROVE  Total(f, 0..a) \in Nat
<1>1. IsFiniteSet(0..a) /\ \A x \in 0..a : f[x] \in Nat
  BY AgesUpTo DEF Counts
<1>2. QED
  BY <1>1, TokensFinite

LEMMA CallsUpTo == 0 \in Ages /\ (Window - 1) \in Ages /\ \A f : Calls(f) = Total(f, 0..(Window - 1))
BY UpbitHttpAssumption DEF Ages, Calls

\* One more call of age 0 is one more up to every age.
LEMMA OneMoreUpTo ==
  ASSUME NEW f \in Counts, NEW a \in Ages, NEW g \in Counts, g[0] = f[0] + 1,
         \A x \in Ages \ {0} : f[x] = g[x]
  PROVE  Total(g, 0..a) = Total(f, 0..a) + 1
<1> DEFINE S == 0..a
<1>1. a \in Nat /\ 0 \in S /\ S \subseteq Ages /\ IsFiniteSet(S)
  BY AgesUpTo
<1> HIDE DEF S
<1>3. \A x \in S : f[x] \in Nat
  BY <1>1 DEF Counts
<1>4. \A x \in S : g[x] \in Nat
  BY <1>1 DEF Counts
<1>5. \A x \in S \ {0} : f[x] = g[x]
  BY <1>1
<1>6. PICK e \in S : e = 0
  BY <1>1
<1>7. IsFiniteSet(S) /\ (\A x \in S \ {e} : f[x] = g[x]) /\ g[e] = f[e] + 1
  BY <1>1, <1>5, <1>6
<1>8. Total(g, S) = Total(f, S) + 1
  BY <1>3, <1>4, <1>7, TotalOneMore
<1>9. QED
  BY <1>8 DEF S

LEMMA OneMore ==
  ASSUME NEW f \in Counts, NEW a \in Ages
  PROVE  /\ [f EXCEPT ![0] = @ + 1] \in Counts
         /\ Total([f EXCEPT ![0] = @ + 1], 0..a) = Total(f, 0..a) + 1
<1> DEFINE g == [f EXCEPT ![0] = @ + 1]
<1>1. g \in Counts /\ g[0] = f[0] + 1 /\ \A x \in Ages \ {0} : f[x] = g[x]
  BY CallsUpTo DEF Counts
<1> HIDE DEF g
<1>2. Total(g, 0..a) = Total(f, 0..a) + 1
  BY <1>1, OneMoreUpTo
<1>3. QED
  BY <1>1, <1>2 DEF g

\* A tick later the calls up to an age are those that were up to the age before.
LEMMA AgedUpTo ==
  ASSUME NEW f \in Counts, NEW a \in Ages
  PROVE  /\ Aged(f) \in Counts
         /\ a = 0 => Total(Aged(f), 0..a) = 0
         /\ a # 0 => a - 1 \in Ages /\ Total(Aged(f), 0..a) = Total(f, 0..(a - 1))
<1>1. a \in Nat /\ 0..a \subseteq Ages
  BY AgesUpTo
<1>2. \A x \in Ages : x # 0 => x - 1 \in Ages
  BY UpbitHttpAssumption DEF Ages
<1>3. Aged(f) \in Counts
  BY <1>2 DEF Aged, Counts
<1>4. a = 0 => Total(Aged(f), 0..a) = 0
  <2> HAVE a = 0
  <2>1. \A x \in 0..a : Aged(f)[x] = 0
    BY <1>1 DEF Aged
  <2>2. QED
    BY <2>1, TotalZero
<1>5. ASSUME a # 0 PROVE Total(Aged(f), 0..a) = Total(f, 0..(a - 1))
  <2> DEFINE S == Tokens(f, 0..(a - 1))
             T == Tokens(Aged(f), 0..a)
             h == [t \in S |-> <<t[1] + 1, t[2]>>]
  <2>1. S = {t \in (0..(a - 1)) \X Nat : t[2] \in 1..f[t[1]]}
    <3>1. \A x \in 0..(a - 1) : f[x] \in Nat
      BY <1>1, <1>2, <1>5 DEF Counts
    <3>2. QED
      BY <3>1 DEF Tokens
  <2>2. T = {t \in (1..a) \X Nat : t[2] \in 1..f[t[1] - 1]}
    <3>1. \A x \in 1..a : Aged(f)[x] = f[x - 1] /\ f[x - 1] \in Nat
      BY <1>1, <1>2 DEF Aged, Counts
    <3>2. Aged(f)[0] = 0
      BY CallsUpTo DEF Aged
    <3>3. QED
      BY <3>1, <3>2, <1>1 DEF Tokens
  <2> HIDE DEF S, T
  <2>3. \A t \in S : t = <<t[1], t[2]>> /\ t[1] \in 0..(a - 1) /\ t[2] \in Nat /\ t[2] \in 1..f[t[1]]
    BY <2>1
  <2>4. \A t \in S : h[t] \in T
    BY <2>2, <2>3, <1>1
  <2>5. \A t, u \in S : h[t] = h[u] => t = u
    BY <2>3
  <2>6. ASSUME NEW u \in T PROVE \E t \in S : h[t] = u
    <3>1. u = <<u[1], u[2]>> /\ u[1] \in 1..a /\ u[2] \in Nat /\ u[2] \in 1..f[u[1] - 1]
      BY <2>2
    <3>2. <<u[1] - 1, u[2]>> \in S
      BY <2>1, <3>1, <1>1
    <3>3. QED
      BY <3>1, <3>2
  <2>7. h \in Bijection(S, T)
    <3>1. h \in [S -> T]
      BY <2>4
    <3> HIDE DEF h
    <3>2. QED
      BY <3>1, <2>5, <2>6 DEF Bijection, Injection, Surjection, IsInjective
  <2>8. IsFiniteSet(S)
    <3>1. a - 1 \in Ages
      BY <1>2, <1>5
    <3>2. IsFiniteSet(0..(a - 1)) /\ \A x \in 0..(a - 1) : f[x] \in Nat
      BY <3>1, AgesUpTo DEF Counts
    <3>3. QED
      BY <3>2, TokensFinite DEF S
  <2>9. Cardinality(T) = Cardinality(S)
    BY <2>7, <2>8, FS_Bijection DEF ExistsBijection
  <2>10. QED
    BY <2>9 DEF S, T, Total
<1>6. QED
  BY <1>2, <1>3, <1>4, <1>5

\* The calls up to the age before are no more.
LEMMA UpToGrows ==
  ASSUME NEW f \in Counts, NEW a \in Ages, a # 0
  PROVE  a - 1 \in Ages /\ Total(f, 0..(a - 1)) <= Total(f, 0..a)
<1> DEFINE S == 0..a
<1>1. a \in Nat /\ S \subseteq Ages /\ IsFiniteSet(S) /\ a \in S /\ a - 1 \in Ages
  BY AgesUpTo, UpbitHttpAssumption DEF Ages
<1>2. S \ {a} = 0..(a - 1)
  BY <1>1
<1> HIDE DEF S
<1>3. IsFiniteSet(S) /\ a \in S /\ \A x \in S : f[x] \in Nat
  BY <1>1 DEF Counts
<1>4. Total(f, S \ {a}) \in Nat /\ Total(f, S) = Total(f, S \ {a}) + f[a] /\ f[a] \in Nat
  BY <1>3, TotalSplit
<1>5. Total(f, S \ {a}) <= Total(f, S)
  BY <1>4
<1>6. QED
  BY <1>1, <1>2, <1>5 DEF S

\* Some ages have an oldest.
LEMMA OldestAge ==
  ASSUME NEW T, T \subseteq Ages, T # {}
  PROVE  Max(T) \in Ages
<1> DEFINE D == {Window - 1 - t : t \in T}
<1>1. D \subseteq Nat /\ D # {}
  <2>1. \A t \in T : Window - 1 - t \in Nat
    BY UpbitHttpAssumption DEF Ages
  <2>2. QED
    BY <2>1
<1>2. \E d \in D : \A e \in D : ~(<<e, d>> \in OpToRel(<, Nat))
  <2> HIDE DEF D
  <2>1. QED
    BY <1>1, NatLessThanWellFounded, WFMin, Zenon
<1>3. PICK d \in D : \A e \in D : ~(<<e, d>> \in OpToRel(<, Nat))
  BY <1>2
<1>4. PICK t \in T : d = Window - 1 - t
  BY <1>3
<1>5. ASSUME NEW u \in T PROVE t >= u
  <2>1. Window - 1 - u \in Nat /\ d \in Nat /\ ~(Window - 1 - u < d)
    BY <1>1, <1>3 DEF OpToRel
  <2>2. u \in Int /\ t \in Int /\ Window \in Int
    BY UpbitHttpAssumption DEF Ages
  <2>3. QED
    BY <1>4, <2>1, <2>2
<1>6. Max(T) \in T
  BY <1>5 DEF Max
<1>7. QED
  BY <1>6

\* What the counts are.
LEMMA CountsTyped ==
  ASSUME HttpInv
  PROVE  /\ stamps \in Counts /\ repeats \in Counts /\ MaxCalls \in Nat /\ MaxRetries \in Nat
         /\ Calls(stamps) \in Nat
<1>1. MaxCalls \in Nat /\ MaxRetries \in Nat
  BY UpbitHttpAssumption
<1>2. stamps \in Counts /\ repeats \in Counts
  BY <1>1 DEF HttpInv, HttpTypeOK, Counts
<1>3. Calls(stamps) \in Nat
  BY <1>2, CallsUpTo, UpToNat
<1>4. QED
  BY <1>1, <1>2, <1>3

\* A full window has a call in it.
LEMMA FullWindow ==
  ASSUME HttpInv, Full
  PROVE  Window - Max({a \in Ages : stamps[a] > 0}) \in 0..Window
<1> DEFINE T == {a \in Ages : stamps[a] > 0}
<1>1. T # {}
  <2> SUFFICES ASSUME T = {} PROVE FALSE
    OBVIOUS
  <2>1. \A a \in Ages : stamps[a] = 0
    BY CountsTyped DEF Counts
  <2>2. Calls(stamps) = 0
    BY <2>1, TotalZero DEF Calls
  <2>3. QED
    BY <2>2, UpbitHttpAssumption DEF Full
<1>2. T \subseteq Ages
  OBVIOUS
<1> HIDE DEF T
<1>3. Max(T) \in Ages
  BY <1>1, <1>2, OldestAge
<1>4. Window - Max(T) \in 0..Window
  BY <1>3, UpbitHttpAssumption DEF Ages
<1>5. QED
  BY <1>4 DEF T

\* The queue and who waits stay.
LEMMA WaitingStays ==
  ASSUME HttpInv, UNCHANGED <<waiting, queue>>
  PROVE  /\ waiting' \subseteq Callers /\ queue' \in Seq(Callers) /\ Distinct(queue')
         /\ waiting' = {queue'[k] : k \in DOMAIN queue'} /\ Cardinality(waiting') = Len(queue')
BY DEF HttpInv, HttpTypeOK

LEMMA ExecuteStep ==
  ASSUME HttpInv, NEW c \in Callers, Execute(c)
  PROVE  HttpInv'
<1>1. /\ c \notin waiting /\ waiting' = waiting \cup {c} /\ queue' = Append(queue, c)
      /\ processing' = TRUE /\ looping' = (looping \/ ~processing)
      /\ UNCHANGED <<stamps, task, pause, repeats>>
  BY DEF Execute
<1>2. /\ waiting \subseteq Callers /\ queue \in Seq(Callers) /\ Distinct(queue)
      /\ waiting = {queue[k] : k \in DOMAIN queue} /\ Cardinality(waiting) = Len(queue)
  BY DEF HttpInv, HttpTypeOK
<1>3. /\ queue' \in Seq(Callers) /\ Len(queue') = Len(queue) + 1 /\ DOMAIN queue' = 1..Len(queue) + 1
      /\ queue'[Len(queue) + 1] = c /\ \A k \in 1..Len(queue) : queue'[k] = queue[k]
      /\ DOMAIN queue = 1..Len(queue) /\ Len(queue) \in Nat /\ queue' # <<>>
  BY <1>1, <1>2
<1>4. Distinct(queue')
  BY <1>1, <1>2, <1>3 DEF Distinct
<1>5. waiting' = {queue'[k] : k \in DOMAIN queue'}
  <2>1. ASSUME NEW x \in waiting' PROVE \E k \in DOMAIN queue' : x = queue'[k]
    <3>1. CASE x = c
      BY <1>3, <3>1
    <3>2. CASE x # c
      <4>1. PICK k \in DOMAIN queue : x = queue[k]
        BY <1>1, <1>2, <3>2
      <4>2. QED
        BY <1>3, <4>1
    <3>3. QED
      BY <3>1, <3>2
  <2>2. ASSUME NEW k \in DOMAIN queue' PROVE queue'[k] \in waiting'
    BY <1>1, <1>2, <1>3
  <2>3. QED
    BY <2>1, <2>2
<1>6. Cardinality(waiting') = Len(queue')
  <2>1. IsFiniteSet(waiting)
    BY <1>2, UpbitHttpAssumption, FS_Subset
  <2>2. Cardinality(waiting \cup {c}) = Cardinality(waiting) + 1
    BY <2>1, <1>1, FS_AddElement
  <2>3. QED
    BY <2>2, <1>1, <1>2, <1>3
<1>7. waiting' \subseteq Callers
  BY <1>1, <1>2
<1>8. HttpTypeOK'
  <2>1. looping' \in BOOLEAN /\ processing' \in BOOLEAN /\ (task'.at # "none" => queue' # <<>> /\ looping')
    BY <1>1, <1>3 DEF HttpInv, HttpTypeOK
  <2>2. QED
    BY <1>1, <1>3, <1>5, <1>6, <1>7, <2>1 DEF HttpInv, HttpTypeOK
<1>9. QED
  BY <1>1, <1>4, <1>8 DEF HttpInv

\* A promise settles: the first of the queue leaves it.
LEMMA SettleStep ==
  ASSUME HttpInv, task.at = "calling", Settle
  PROVE  HttpInv'
<1>1. /\ waiting' = waiting \ {Head(queue)} /\ queue' = Tail(queue) /\ task' = NoTask
      /\ looping' = (Len(queue) > 1) /\ processing' = (Len(queue) > 1)
      /\ UNCHANGED <<stamps, pause, repeats>>
  BY DEF Settle, ProcessingAfter
<1>2. /\ waiting \subseteq Callers /\ queue \in Seq(Callers) /\ Distinct(queue) /\ queue # <<>>
      /\ waiting = {queue[k] : k \in DOMAIN queue} /\ Cardinality(waiting) = Len(queue)
  BY DEF HttpInv, HttpTypeOK
<1>3. /\ Len(queue) \in Nat \ {0} /\ DOMAIN queue = 1..Len(queue) /\ Head(queue) = queue[1]
      /\ queue' \in Seq(Callers) /\ Len(queue') = Len(queue) - 1
      /\ DOMAIN queue' = 1..(Len(queue) - 1)
      /\ \A k \in 1..(Len(queue) - 1) : queue'[k] = queue[k + 1]
  BY <1>1, <1>2
<1>4. Distinct(queue')
  <2>1. ASSUME NEW i \in DOMAIN queue', NEW j \in DOMAIN queue', queue'[i] = queue'[j] PROVE i = j
    <3>1. queue[i + 1] = queue[j + 1] /\ i + 1 \in DOMAIN queue /\ j + 1 \in DOMAIN queue
      BY <1>3, <2>1
    <3>2. i + 1 = j + 1
      BY <3>1, <1>2 DEF Distinct
    <3>3. QED
      BY <3>2, <1>3
  <2>2. QED
    BY <2>1 DEF Distinct
<1>5. waiting' = {queue'[k] : k \in DOMAIN queue'}
  <2>1. ASSUME NEW x \in waiting' PROVE \E k \in DOMAIN queue' : x = queue'[k]
    <3>1. PICK k \in DOMAIN queue : x = queue[k]
      BY <1>1, <1>2, <2>1
    <3>2. k # 1 /\ k \in 1..Len(queue)
      BY <3>1, <1>1, <1>3, <2>1
    <3>3. k - 1 \in 1..(Len(queue) - 1) /\ queue'[k - 1] = queue[k]
      BY <3>2, <1>3
    <3>4. QED
      BY <3>1, <3>3, <1>3
  <2>2. ASSUME NEW k \in DOMAIN queue' PROVE queue'[k] \in waiting'
    <3>1. queue'[k] = queue[k + 1] /\ k + 1 \in DOMAIN queue /\ k + 1 # 1 /\ 1 \in DOMAIN queue
      BY <1>3
    <3>2. queue[k + 1] # queue[1]
      BY <3>1, <1>2 DEF Distinct
    <3>3. QED
      BY <3>1, <3>2, <1>1, <1>2, <1>3
  <2>3. QED
    BY <2>1, <2>2
<1>6. Cardinality(waiting') = Len(queue')
  <2>1. IsFiniteSet(waiting) /\ Head(queue) \in waiting
    BY <1>2, <1>3, UpbitHttpAssumption, FS_Subset
  <2>2. Cardinality(waiting \ {Head(queue)}) = Cardinality(waiting) - 1
    BY <2>1, FS_RemoveElement
  <2>3. QED
    BY <2>2, <1>1, <1>2, <1>3
<1>7. waiting' \subseteq Callers
  BY <1>1, <1>2
<1>8. task' \in Task /\ task'.at = "none"
  BY <1>1, UpbitHttpAssumption DEF NoTask, Task
<1>9. looping' \in BOOLEAN /\ processing' \in BOOLEAN
  BY <1>1
<1>10. HttpTypeOK'
  BY <1>1, <1>3, <1>5, <1>6, <1>7, <1>8, <1>9 DEF HttpInv, HttpTypeOK, Task
<1>11. Repeated(repeats', stamps', task')
  <2>1. ASSUME NEW a \in Ages
        PROVE  Total(repeats, 0..a) <= MaxRetries * Total(stamps, 0..a) + MaxRetries
    <3>1. Total(repeats, 0..a) <= MaxRetries * Total(stamps, 0..a) + task.tries
      BY DEF HttpInv, Repeated
    <3>2. task.tries <= MaxRetries /\ task.tries \in Nat
      BY CountsTyped DEF HttpInv, Task
    <3>3. Total(repeats, 0..a) \in Nat /\ Total(stamps, 0..a) \in Nat /\ MaxRetries \in Nat
      BY CountsTyped, UpToNat
    <3>4. MaxRetries * Total(stamps, 0..a) \in Nat
      BY <3>3
    <3>5. QED
      BY <3>1, <3>2, <3>3, <3>4
  <2>2. QED
    BY <1>1, <1>8, <2>1 DEF Repeated
<1>12. QED
  BY <1>1, <1>4, <1>8, <1>10, <1>11 DEF HttpInv

\* A call starts: one more stamp, and it has not tried again yet.
LEMMA ProceedStep ==
  ASSUME HttpInv, Proceed
  PROVE  HttpInv'
<1>1. /\ looping /\ task.at = "none" /\ queue # <<>>
      /\ UNCHANGED <<waiting, queue, processing, looping, repeats>>
  BY DEF Proceed
<1>2. stamps \in Counts /\ repeats \in Counts /\ MaxCalls \in Nat /\ MaxRetries \in Nat
      /\ Calls(stamps) \in Nat
  BY CountsTyped
<1>3. CASE Full
  <2>1. pause' \in 0..Window /\ UNCHANGED <<stamps, task>>
    BY <1>3, FullWindow DEF Proceed
  <2>2. HttpTypeOK'
    BY <1>1, <2>1 DEF HttpInv, HttpTypeOK
  <2>3. QED
    BY <1>1, <2>1, <2>2 DEF HttpInv
<1>4. CASE ~Full
  <2> DEFINE new == [stamps EXCEPT ![0] = @ + 1]
  <2>1. stamps' = new /\ task' = [NoTask EXCEPT !.at = "calling"] /\ UNCHANGED pause
    BY <1>4 DEF Proceed
  <2>2. \A a \in Ages : new \in Counts /\ Total(new, 0..a) = Total(stamps, 0..a) + 1
    BY <1>2, OneMore
  <2> HIDE DEF new
  <2>3. 0 \in Ages /\ Window - 1 \in Ages
    BY CallsUpTo
  <2>4. Calls(new) <= MaxCalls
    <3>1. Calls(new) = Calls(stamps) + 1
      BY <2>2, <2>3, CallsUpTo
    <3>2. Calls(stamps) < MaxCalls
      BY <1>2, <1>4 DEF Full
    <3>3. QED
      BY <3>1, <3>2, <1>2
  <2>5. new \in [Ages -> 0..MaxCalls]
    <3>1. IsFiniteSet(Ages) /\ \A x \in Ages : new[x] \in Nat
      BY <2>2, <2>3, AgesUpTo DEF Counts
    <3>2. \A x \in Ages : new[x] <= Calls(new)
      BY <3>1, TotalBounds DEF Calls
    <3>3. Calls(new) \in Nat
      BY <2>2, <2>3, CallsUpTo, UpToNat
    <3>4. QED
      BY <3>1, <3>2, <3>3, <2>2, <2>3, <2>4, <1>2 DEF Counts
  <2>6. task' \in Task /\ task'.at = "calling" /\ task'.tries = 0
    BY <2>1, UpbitHttpAssumption DEF NoTask, Task
  <2>7. HttpTypeOK'
    BY <1>1, <2>1, <2>5, <2>6 DEF HttpInv, HttpTypeOK, Task
  <2>8. Repeated(repeats', stamps', task')
    <3>1. ASSUME NEW a \in Ages
          PROVE  Total(repeats, 0..a) <= MaxRetries * Total(new, 0..a)
      <4>1. Total(repeats, 0..a) <= MaxRetries * Total(stamps, 0..a) + MaxRetries
        BY <1>1 DEF HttpInv, Repeated
      <4>2. Total(new, 0..a) = Total(stamps, 0..a) + 1 /\ Total(stamps, 0..a) \in Nat
        BY <1>2, <2>2, UpToNat
      <4>3. MaxRetries * (Total(stamps, 0..a) + 1) = MaxRetries * Total(stamps, 0..a) + MaxRetries
        BY <1>2, <4>2
      <4>4. QED
        BY <4>1, <4>2, <4>3
    <3>2. \A a \in Ages : MaxRetries * Total(new, 0..a) \in Nat
      BY <1>2, <2>2, UpToNat
    <3>3. QED
      BY <1>1, <2>1, <2>6, <3>1, <3>2 DEF Repeated
  <2>9. QED
    BY <1>1, <2>1, <2>4, <2>6, <2>7, <2>8 DEF HttpInv
<1>5. QED
  BY <1>3, <1>4

\* After a 429 the call sleeps, or it is over.
LEMMA TooManyStep ==
  ASSUME HttpInv, TooMany
  PROVE  HttpInv'
<1>1. CASE Settle
  BY <1>1, SettleStep DEF TooMany
<1>2. ASSUME NEW after \in 0..MaxAfter, task' = [task EXCEPT !.at = "sleeping", !.sleep = after],
             UNCHANGED <<waiting, queue, processing, looping, stamps, pause, repeats>>
      PROVE  HttpInv'
  <2>1. task.at = "calling" /\ task \in Task
    BY DEF TooMany, HttpInv
  <2>2. task' \in Task /\ task'.at = "sleeping" /\ task'.tries = task.tries
    BY <1>2, <2>1 DEF Task
  <2>6. task.tries < MaxRetries
    <3>1. task' # NoTask
      BY <2>2 DEF NoTask
    <3>2. task.tries # MaxRetries
      BY <3>1 DEF TooMany, Settle
    <3>3. QED
      BY <2>1, <3>2, UpbitHttpAssumption DEF Task
  <2>3. HttpTypeOK'
    BY <1>2, <2>1, <2>2 DEF HttpInv, HttpTypeOK, Task
  <2>4. Repeated(repeats', stamps', task')
    BY <1>2, <2>1, <2>2 DEF HttpInv, Repeated
  <2>5. QED
    BY <1>2, <2>2, <2>3, <2>4, <2>6 DEF HttpInv
<1>3. QED
  BY <1>1, <1>2 DEF TooMany

\* Another attempt: one more is counted, and the call has tried once more; it
\* tries MaxRetries times at most, for it only slept after fewer.
LEMMA RetryStep ==
  ASSUME HttpInv, Retry
  PROVE  HttpInv'
<1> DEFINE new == [repeats EXCEPT ![0] = @ + 1]
<1>1. /\ task.at = "sleeping" /\ task' = [at |-> "calling", tries |-> task.tries + 1, sleep |-> 0]
      /\ repeats' = new /\ UNCHANGED <<waiting, queue, processing, looping, stamps, pause>>
  BY DEF Retry
<1>2. stamps \in Counts /\ repeats \in Counts /\ MaxCalls \in Nat /\ MaxRetries \in Nat
  BY CountsTyped
<1>3. \A a \in Ages : new \in Counts /\ Total(new, 0..a) = Total(repeats, 0..a) + 1
  BY <1>2, OneMore
<1> HIDE DEF new
<1>4. task.tries \in Nat /\ task.tries < MaxRetries
  BY <1>1 DEF HttpInv, Task
<1>5. task' \in Task /\ task'.at = "calling" /\ task'.tries = task.tries + 1
  BY <1>1, <1>2, <1>4, UpbitHttpAssumption DEF Task
<1>6. new \in Counts
  BY <1>3, CallsUpTo
<1>7. HttpTypeOK'
  BY <1>1, <1>5, <1>6 DEF HttpInv, HttpTypeOK, Task, Counts
<1>8. Repeated(repeats', stamps', task')
  <2>1. ASSUME NEW a \in Ages
        PROVE  Total(new, 0..a) <= MaxRetries * Total(stamps, 0..a) + (task.tries + 1)
    <3>1. Total(repeats, 0..a) <= MaxRetries * Total(stamps, 0..a) + task.tries
      BY <1>1 DEF HttpInv, Repeated
    <3>2. Total(repeats, 0..a) \in Nat /\ Total(stamps, 0..a) \in Nat
      BY <1>2, UpToNat
    <3>3. MaxRetries * Total(stamps, 0..a) \in Nat
      BY <1>2, <3>2
    <3>4. QED
      BY <1>3, <1>4, <3>1, <3>2, <3>3
  <2>2. QED
    BY <1>1, <1>5, <2>1 DEF Repeated
<1>9. QED
  BY <1>1, <1>5, <1>6, <1>7, <1>8 DEF HttpInv

LEMMA LessTyped ==
  ASSUME NEW b \in Nat, NEW n \in 0..b
  PROVE  Less(n) \in 0..b
BY DEF Less

\* A tick: everything is one older.
LEMMA TickStep ==
  ASSUME HttpInv, Tick
  PROVE  HttpInv'
<1>1. /\ stamps' = Aged(stamps) /\ repeats' = Aged(repeats) /\ pause' = Less(pause)
      /\ task' = [task EXCEPT !.sleep = Less(@)]
      /\ UNCHANGED <<waiting, queue, processing, looping>>
  BY DEF Tick
<1>2. stamps \in Counts /\ repeats \in Counts /\ MaxCalls \in Nat /\ MaxRetries \in Nat
      /\ Calls(stamps) \in Nat
  BY CountsTyped
<1>3. stamps' \in [Ages -> 0..MaxCalls]
  <2>1. \A a \in Ages : a # 0 => a - 1 \in Ages
    BY UpbitHttpAssumption DEF Ages
  <2>2. QED
    BY <1>1, <1>2, <2>1 DEF HttpInv, HttpTypeOK, Aged
<1>4. repeats' \in Counts /\ stamps' \in Counts
  BY <1>1, <1>2, AgedUpTo, CallsUpTo
<1>5. pause' \in 0..Window /\ task.sleep \in 0..MaxAfter /\ Less(task.sleep) \in 0..MaxAfter
  BY <1>1, LessTyped, UpbitHttpAssumption DEF HttpInv, HttpTypeOK
<1>6. task' \in Task /\ task'.at = task.at /\ task'.tries = task.tries
  BY <1>1, <1>5 DEF HttpInv, Task
<1>7. HttpTypeOK'
  BY <1>1, <1>3, <1>4, <1>5, <1>6 DEF HttpInv, HttpTypeOK, Task, Counts
<1>8. Calls(stamps') <= MaxCalls
  <2> DEFINE w == Window - 1
  <2>1. w \in Ages /\ Calls(stamps) = Total(stamps, 0..w) /\ Calls(stamps') = Total(stamps', 0..w)
    BY CallsUpTo
  <2> HIDE DEF w
  <2>2. CASE w = 0
    <3>1. Total(Aged(stamps), 0..w) = 0
      BY <1>2, <2>1, <2>2, AgedUpTo
    <3>2. Calls(stamps') = 0
      BY <1>1, <2>1, <3>1
    <3>3. QED
      BY <1>2, <3>2
  <2>3. CASE w # 0
    <3>1. w - 1 \in Ages /\ Total(stamps', 0..w) = Total(stamps, 0..(w - 1))
          /\ Total(stamps, 0..(w - 1)) <= Total(stamps, 0..w)
      BY <1>1, <1>2, <2>1, <2>3, AgedUpTo, UpToGrows
    <3>2. Total(stamps, 0..(w - 1)) \in Nat
      BY <1>2, <3>1, UpToNat
    <3>3. QED
      BY <1>2, <2>1, <3>1, <3>2 DEF HttpInv
  <2>4. QED
    BY <2>2, <2>3
<1>9. Repeated(repeats', stamps', task')
  <2> DEFINE left == IF task.at = "none" THEN MaxRetries ELSE task.tries
  <2>1. left \in Nat
    BY <1>2 DEF HttpInv, Task
  <2>2. \A a \in Ages : Total(repeats, 0..a) <= MaxRetries * Total(stamps, 0..a) + left
    BY DEF HttpInv, Repeated
  <2> HIDE DEF left
  <2>3. ASSUME NEW a \in Ages
        PROVE  Total(repeats', 0..a) <= MaxRetries * Total(stamps', 0..a) + left
    <3>1. CASE a = 0
      <4>1. Total(repeats', 0..a) = 0 /\ Total(stamps', 0..a) = 0
        BY <1>1, <1>2, <3>1, AgedUpTo
      <4>2. QED
        BY <1>2, <2>1, <4>1
    <3>2. CASE a # 0
      <4>1. /\ a - 1 \in Ages /\ Total(repeats', 0..a) = Total(repeats, 0..(a - 1))
            /\ Total(stamps', 0..a) = Total(stamps, 0..(a - 1))
        BY <1>1, <1>2, <3>2, AgedUpTo
      <4>2. QED
        BY <2>2, <4>1
    <3>3. QED
      BY <3>1, <3>2
  <2>4. QED
    BY <1>6, <2>3 DEF Repeated, left
<1>10. QED
  BY <1>1, <1>4, <1>6, <1>7, <1>8, <1>9 DEF HttpInv

LEMMA HttpStay ==
  ASSUME HttpInv, UNCHANGED httpVars
  PROVE  HttpInv'
BY DEF httpVars, HttpInv, HttpTypeOK

LEMMA HttpInitInv == HttpInit => HttpInv
<1> SUFFICES ASSUME HttpInit PROVE HttpInv
  OBVIOUS
<1>1. /\ waiting = {} /\ queue = <<>> /\ processing = FALSE /\ looping = FALSE /\ pause = 0
      /\ stamps = [a \in Ages |-> 0] /\ repeats = [a \in Ages |-> 0] /\ task = NoTask
  BY DEF HttpInit
<1>2. stamps \in Counts /\ repeats \in Counts /\ MaxCalls \in Nat /\ MaxRetries \in Nat
  BY <1>1, UpbitHttpAssumption DEF Counts
<1>3. task \in Task /\ task.at = "none"
  BY <1>1, UpbitHttpAssumption DEF NoTask, Task
<1>4. Cardinality(waiting) = 0 /\ Len(queue) = 0 /\ DOMAIN queue = {} /\ queue \in Seq(Callers)
  BY <1>1, FS_EmptySet
<1>5. HttpTypeOK
  <2>1. stamps \in [Ages -> 0..MaxCalls] /\ pause \in 0..Window
    BY <1>1, UpbitHttpAssumption
  <2>2. QED
    BY <2>1, <1>1, <1>2, <1>3, <1>4 DEF HttpTypeOK, Task, Counts
<1>6. ASSUME NEW a \in Ages PROVE Total(stamps, 0..a) = 0 /\ Total(repeats, 0..a) = 0
  <2>1. \A x \in 0..a : stamps[x] = 0 /\ repeats[x] = 0
    BY <1>1, AgesUpTo
  <2>2. QED
    BY <2>1, TotalZero
<1>7. Repeated(repeats, stamps, task)
  BY <1>2, <1>3, <1>6 DEF Repeated
<1>8. Calls(stamps) <= MaxCalls
  BY <1>2, <1>6, CallsUpTo
<1>9. QED
  BY <1>2, <1>3, <1>4, <1>5, <1>7, <1>8 DEF HttpInv, Distinct

LEMMA HttpNextInv == HttpInv /\ [HttpNext]_httpVars => HttpInv'
BY ExecuteStep, ProceedStep, SettleStep, TooManyStep, RetryStep, TickStep, HttpStay
   DEF HttpNext, Answered

LEMMA HttpInvSent == HttpInv => SentInWindow
<1> SUFFICES ASSUME HttpInv PROVE SentInWindow
  OBVIOUS
<1> DEFINE s == Calls(stamps)
           r == Calls(repeats)
<1>1. /\ stamps \in Counts /\ repeats \in Counts /\ MaxRetries \in Nat /\ s \in Nat
      /\ r = Total(repeats, 0..(Window - 1)) /\ s = Total(stamps, 0..(Window - 1))
      /\ Window - 1 \in Ages
  BY CountsTyped, CallsUpTo
<1>2. r \in Nat
  BY <1>1, UpToNat
<1>3. r <= MaxRetries * s + (IF task.at = "none" THEN MaxRetries ELSE task.tries)
  <2> HIDE DEF r, s
  <2>1. QED
    BY <1>1 DEF HttpInv, Repeated
<1>4. task.tries \in Nat /\ task.tries <= MaxRetries
  BY <1>1 DEF HttpInv, Task
<1> HIDE DEF r, s
<1>5. MaxRetries * s \in Nat /\ MaxRetries * (s + 1) = MaxRetries * s + MaxRetries
  BY <1>1
<1>6. r <= MaxRetries * (s + 1)
  BY <1>1, <1>2, <1>3, <1>4, <1>5
<1>7. QED
  BY <1>6 DEF HttpInv, SentInWindow, r, s

\* SentInWindow: UpbitRateLimiter starts at most MaxCalls calls in any window,
\* and the attempts it does not count are bounded by them; the first of its
\* queue is the one that runs.
THEOREM SentInWindowHolds == HttpSpec => []SentInWindow
<1>1. QED
  BY HttpInitInv, HttpNextInv, HttpInvSent, PTL DEF HttpSpec

USE UpbitSocketAssumption, UpbitFeedAssumption

-----------------------------------------------------------------------------
(* The connection to Upbit: its invariants                                  *)

Used == InState({"connecting", "open", "closing"})

\* A close that shall not reconnect has not happened yet, and its socket is not
\* all there is: a timer runs or there is another socket.
CloseExpected ==
  manualClose => \E c \in InState({"closing"}) : later > 0 \/ \E s \in Used : s # c

KnowsItsSocket ==
  ~late => /\ \A s \in Pool : link[s].state # "free" => s = ws
           /\ Held({"open"}) => isOpen
           /\ isOpen => Held({"open", "closing"})

JobTyped ==
  job \in [at : {"idle", "fetch", "insert", "update", "reload", "subscribe"},
           added : SUBSET Markets, removed : SUBSET Markets,
           fetched : SUBSET Markets, after : SUBSET Markets]

SocketSound == SocketTypeOK /\ CloseExpected /\ NeverAbandoned /\ KnowsItsSocket

\* What memory, the database and the subscription have to do with each other in
\* a sync that nothing disturbs.
SyncSound ==
  /\ job.at = "idle" => job = Idle
  /\ ~up => payload = {} /\ ~dog.reading
  /\ dog.reading => job = Idle /\ dog.codes = Active
  /\ up /\ job = Idle => payload = Active
  /\ up /\ job.at \in {"fetch", "insert"} => payload = markets
  /\ job.at = "fetch" => markets = Active
  /\ job.at = "insert" => /\ markets \subseteq Active /\ Active \subseteq markets \cup job.added
                          /\ job.added = job.fetched \ markets
                          /\ job.removed = markets \ job.fetched
  /\ job.at = "subscribe" => job.after = Active

FeedSound ==
  /\ TypeOK /\ JobTyped
  /\ ~up => payload = {} /\ ~dog.reading
  /\ ~failed /\ ~overlap => SyncSound

-----------------------------------------------------------------------------
(* The client                                                               *)

LEMMA SocketInitSound == SocketInit => SocketSound
<1> SUFFICES ASSUME SocketInit PROVE SocketSound
  OBVIOUS
<1>1. SocketTypeOK
  <2>1. link \in [Pool -> [state : States, codes : SUBSET Markets]]
    BY DEF SocketInit, Free, States
  <2>2. ws \in InState(States \ {"free"}) \cup {0}
    BY DEF SocketInit
  <2>3. later \in 0..MaxLater
    BY DEF SocketInit
  <2>4. payload \subseteq Markets /\ heard \in {"never", "fresh", "old"}
    BY DEF SocketInit
  <2>5. isOpen \in BOOLEAN /\ reconnecting \in BOOLEAN /\ manualClose \in BOOLEAN /\ late \in BOOLEAN
    BY DEF SocketInit
  <2> QED BY <2>1, <2>2, <2>3, <2>4, <2>5 DEF SocketTypeOK
<1>2. CloseExpected /\ NeverAbandoned /\ KnowsItsSocket
  BY DEF SocketInit, CloseExpected, NeverAbandoned, KnowsItsSocket, Free, Held
<1> QED BY <1>1, <1>2 DEF SocketSound

\* A socket is made of a free one, and is what the client then holds.
LEMMA NewSocketMade ==
  ASSUME SocketSound, NewSocket
  PROVE  \E s \in Pool :
           /\ s # 0 /\ link[s].state = "free"
           /\ link' = [link EXCEPT ![s].state = "connecting"] /\ ws' = s
BY DEF NewSocket, InState

\* Connecting leaves the client with a socket, and the others as they are.
LEMMA ConnectSound ==
  ASSUME SocketSound, Connect,
         isOpen' = isOpen, heard' = heard, payload' \subseteq Markets,
         later' \in 0..MaxLater, reconnecting' \in BOOLEAN,
         manualClose' = manualClose
  PROVE  SocketSound'
<1> USE DEF SocketSound
<1>1. CASE Held({"connecting", "open"}) /\ UNCHANGED <<link, ws, late>>
  <2>1. ws \in Pool /\ link[ws].state \in {"connecting", "open"}
    BY <1>1 DEF Held, SocketTypeOK, InState
  <2>2. SocketTypeOK'
    BY <1>1 DEF SocketTypeOK, InState
  <2>3. CloseExpected'
    BY <1>1, <2>1 DEF CloseExpected, Used, InState
  <2>4. NeverAbandoned'
    BY <1>1, <2>1 DEF NeverAbandoned, InState
  <2>5. KnowsItsSocket'
    BY <1>1 DEF KnowsItsSocket, Held
  <2> QED BY <2>2, <2>3, <2>4, <2>5
<1>2. CASE ~Held({"connecting", "open"}) /\ NewSocket
  <2>1. PICK s \in Pool :
           /\ s # 0 /\ link[s].state = "free"
           /\ link' = [link EXCEPT ![s].state = "connecting"] /\ ws' = s
    BY <1>2, NewSocketMade
  <2>2. /\ link' \in [Pool -> [state : States, codes : SUBSET Markets]]
        /\ link'[s].state = "connecting"
        /\ \A t \in Pool : t # s => link'[t] = link[t]
    BY <2>1 DEF SocketTypeOK, States
  <2>3. late' = (late \/ Held({"closing"}))
    BY <1>2 DEF NewSocket
  <2>4. SocketTypeOK'
    BY <2>1, <2>2, <2>3 DEF SocketTypeOK, InState, States
  <2>5. CloseExpected'
    BY <2>1, <2>2 DEF CloseExpected, Used, InState
  <2>6. NeverAbandoned'
    BY <2>1, <2>2 DEF NeverAbandoned, InState
  <2>7. KnowsItsSocket'
    <3> SUFFICES ASSUME ~late' PROVE KnowsItsSocket'
      BY DEF KnowsItsSocket
    <3>1. ~late /\ ~Held({"closing"}) /\ ~Held({"connecting", "open"})
      BY <1>2, <2>3
    <3>2. ws = 0
      BY <3>1 DEF Held, SocketTypeOK, InState, States
    <3>3. \A t \in Pool : link[t].state = "free"
      BY <3>1, <3>2 DEF KnowsItsSocket
    <3>4. ~isOpen
      BY <3>1, <3>2 DEF KnowsItsSocket, Held
    <3> QED BY <2>1, <2>2, <3>3, <3>4 DEF KnowsItsSocket, Held
  <2> QED BY <2>4, <2>5, <2>6, <2>7
<1> QED BY <1>1, <1>2 DEF Connect

LEMMA OpenedSound == ASSUME SocketSound, NEW s \in Pool, Opened(s) PROVE SocketSound'
<1> USE DEF SocketSound
<1>1. /\ link' \in [Pool -> [state : States, codes : SUBSET Markets]]
      /\ link'[s].state = "open"
      /\ \A t \in Pool : t # s => link'[t].state = link[t].state
  BY DEF Opened, SocketTypeOK, States
<1>2. /\ link[s].state = "connecting" /\ isOpen' = TRUE
      /\ UNCHANGED <<ws, reconnecting, manualClose, payload, later, heard, late>>
  BY DEF Opened
<1>3. SocketTypeOK'
  BY <1>1, <1>2 DEF SocketTypeOK, InState, States
<1>4. CloseExpected'
  BY <1>1, <1>2 DEF CloseExpected, Used, InState
<1>5. NeverAbandoned'
  BY <1>1, <1>2 DEF NeverAbandoned, InState
<1>6. KnowsItsSocket'
  <2> SUFFICES ASSUME ~late PROVE KnowsItsSocket'
    BY <1>2 DEF KnowsItsSocket
  <2>1. s = ws /\ \A t \in Pool : link[t].state # "free" => t = ws
    BY <1>2 DEF KnowsItsSocket
  <2>2. \A t \in Pool : link'[t].state # "free" => t = ws'
    BY <1>1, <1>2, <2>1
  <2>3. Held({"open", "closing"})'
    BY <1>1, <1>2, <2>1 DEF Held
  <2> QED BY <1>2, <2>2, <2>3 DEF KnowsItsSocket
<1> QED BY <1>3, <1>4, <1>5, <1>6

LEMMA ClosedSound == ASSUME SocketSound, NEW s \in Pool, Closed(s) PROVE SocketSound'
<1> USE DEF SocketSound
<1>1. /\ link' \in [Pool -> [state : States, codes : SUBSET Markets]]
      /\ link[s].state # "free" /\ link'[s].state = "free"
      /\ \A t \in Pool : t # s => link'[t] = link[t]
  BY DEF Closed, SocketTypeOK, States, Free
<1>2. /\ isOpen' = FALSE /\ ws' = 0
      /\ UNCHANGED <<payload, later, heard, late>>
      /\ manualClose => manualClose' = FALSE /\ reconnecting' = reconnecting
      /\ ~manualClose => manualClose' = FALSE /\ reconnecting' = TRUE
  BY DEF Closed, WsAfterClose, ManualCloseUsed, SocketTypeOK
<1>3. SocketTypeOK'
  <2>1. payload' \subseteq Markets /\ later' \in 0..MaxLater /\ heard' \in {"never", "fresh", "old"}
    BY <1>2 DEF SocketTypeOK
  <2>2. /\ manualClose' \in BOOLEAN /\ isOpen' \in BOOLEAN /\ reconnecting' \in BOOLEAN
        /\ late' \in BOOLEAN
    BY <1>2 DEF SocketTypeOK
  <2>3. ws' \in InState(States \ {"free"})' \cup {0}
    BY <1>2
  <2> QED BY <1>1, <2>1, <2>2, <2>3 DEF SocketTypeOK
<1>4. CloseExpected'
  BY <1>2 DEF CloseExpected, SocketTypeOK
<1>5. NeverAbandoned'
  <2>1. CASE manualClose
    <3>1. PICK c \in InState({"closing"}) : later > 0 \/ \E t \in Used : t # c
      BY <2>1 DEF CloseExpected
    <3>2. CASE later > 0
      BY <3>2, <1>2 DEF NeverAbandoned
    <3>3. CASE \E t \in Used : t # c
      BY <3>1, <3>3, <1>1 DEF NeverAbandoned, Used, InState
    <3> QED BY <3>1, <3>2, <3>3
  <2>2. CASE ~manualClose
    BY <2>2, <1>2 DEF NeverAbandoned
  <2> QED BY <2>1, <2>2
<1>6. KnowsItsSocket'
  BY <1>1, <1>2, \A t \in Pool : t # 0 DEF KnowsItsSocket, Held
<1> QED BY <1>3, <1>4, <1>5, <1>6

LEMMA SubscribeSound ==
  ASSUME SocketSound, NEW codes \in SUBSET Markets, Subscribe(codes) PROVE SocketSound'
BY ConnectSound DEF Subscribe, SocketSound, SocketTypeOK

LEMMA ResubscribeSound ==
  ASSUME SocketSound, NEW codes \in SUBSET Markets, Resubscribe(codes) PROVE SocketSound'
<1>1. CASE Held({"connecting", "open"})
  <2> USE DEF SocketSound
  <2>1. ws \in Pool /\ link[ws].state \in {"connecting", "open"}
    BY <1>1 DEF Held, SocketTypeOK, InState
  <2>2. /\ payload' = codes /\ later < MaxLater /\ later' = later + 1 /\ manualClose' = TRUE
        /\ link' = [link EXCEPT ![ws] = [state |-> "closing", codes |-> {}]]
        /\ UNCHANGED <<ws, late, isOpen, reconnecting, heard>>
    BY <1>1 DEF Resubscribe
  <2>3. /\ link' \in [Pool -> [state : States, codes : SUBSET Markets]]
        /\ link'[ws].state = "closing"
        /\ \A t \in Pool : t # ws => link'[t] = link[t]
    BY <2>1, <2>2 DEF SocketTypeOK, States
  <2>4. later' \in 0..MaxLater /\ later' > 0
    BY <2>2 DEF SocketTypeOK
  <2>5. SocketTypeOK'
    BY <2>1, <2>2, <2>3, <2>4 DEF SocketTypeOK, InState, States
  <2>6. CloseExpected' /\ NeverAbandoned'
    BY <2>1, <2>2, <2>3, <2>4 DEF CloseExpected, NeverAbandoned, Used, InState
  <2>7. KnowsItsSocket'
    BY <2>1, <2>2, <2>3 DEF KnowsItsSocket, Held
  <2> QED BY <2>5, <2>6, <2>7
<1>2. CASE ~Held({"connecting", "open"})
  BY <1>2, ConnectSound DEF Resubscribe, SocketSound, SocketTypeOK
<1> QED BY <1>1, <1>2

LEMMA TimerSound == ASSUME SocketSound, ReconnectTimer \/ ReplaceTimer PROVE SocketSound'
<1>1. CASE ReconnectTimer
  BY <1>1, ConnectSound DEF ReconnectTimer, SocketSound, SocketTypeOK
<1>2. CASE ReplaceTimer
  <2>1. later' \in 0..MaxLater
    BY <1>2 DEF ReplaceTimer, SocketSound, SocketTypeOK
  <2> QED BY <1>2, <2>1, ConnectSound DEF ReplaceTimer, SocketSound, SocketTypeOK
<1> QED BY <1>1, <1>2

LEMMA HeardSound ==
  ASSUME SocketSound, UNCHANGED <<link, ws, client, late>>, heard' \in {"never", "fresh", "old"}
  PROVE  SocketSound'
BY DEF SocketSound, SocketTypeOK, CloseExpected, NeverAbandoned, KnowsItsSocket, Used, InState,
       Held, client

LEMMA SocketsStay == ASSUME SocketSound, UNCHANGED socketVars PROVE SocketSound'
BY HeardSound DEF socketVars, SocketSound, SocketTypeOK

-----------------------------------------------------------------------------
(* The feed                                                                 *)

\* Whatever the jobs do, the client stays as it has to be.
LEMMA FeedSocketStep == ASSUME FeedSound, SocketSound, [Next]_vars PROVE SocketSound'
<1>1. job.after \subseteq Markets /\ dog.codes \subseteq Markets
  BY DEF FeedSound, TypeOK
<1>2. CASE JobSubscribe
  BY <1>1, <1>2, ResubscribeSound, SubscribeSound, SocketsStay DEF JobSubscribe
<1>3. CASE DogSubscribes
  BY <1>1, <1>3, ResubscribeSound DEF DogSubscribes
<1>4. CASE SocketCloses
  BY <1>4, ClosedSound DEF SocketCloses
<1>5. CASE Stalls
  BY <1>5, HeardSound DEF Stalls, Silence
<1>6. CASE \E s \in Pool : Opened(s) \/ Message(s)
  BY <1>6, OpenedSound, HeardSound DEF Message
<1>7. CASE ReconnectTimer \/ ReplaceTimer
  BY <1>7, TimerSound
<1>8. CASE \/ JobStart \/ JobFetched \/ (\E m \in Markets : JobInsert(m)) \/ JobUpdate \/ JobReload
           \/ JobFails \/ DogReads \/ Relisted \/ UNCHANGED vars
  BY <1>8, SocketsStay
     DEF JobStart, JobFetched, JobInsert, JobUpdate, JobReload, JobFails, DogReads, Relisted, vars
<1> QED BY <1>2, <1>3, <1>4, <1>5, <1>6, <1>7, <1>8 DEF Next, JobStep

LEMMA FeedInitSound == Init => SocketSound /\ FeedSound
<1> SUFFICES ASSUME Init PROVE SocketSound /\ FeedSound
  OBVIOUS
<1>1. SocketSound
  BY SocketInitSound DEF Init
<1>2. JobTyped
  BY DEF Init, JobTyped, Idle
<1>3. TypeOK
  <2>1. job.at = "idle" /\ \A f \in {job.added, job.removed, job.fetched, job.after} : f \subseteq Markets
    BY DEF Init, Idle
  <2>2. dog.reading = FALSE /\ dog.codes = {}
    BY DEF Init, NoRead
  <2>3. days \in 0..MaxDays /\ faults \in 0..MaxFaults
    BY DEF Init
  <2> QED BY <1>1, <2>1, <2>2, <2>3 DEF Init, TypeOK, SocketSound
<1>4. SyncSound
  BY DEF Init, SyncSound, Idle, NoRead, SocketInit
<1> QED BY <1>1, <1>2, <1>3, <1>4 DEF FeedSound, SyncSound

\* The variables keep their types.
LEMMA FeedTyped == ASSUME FeedSound, SocketSound, [Next]_vars PROVE TypeOK' /\ JobTyped'
<1>1. SocketTypeOK'
  BY FeedSocketStep DEF SocketSound
<1>2. JobTyped'
  <2>1. JobTyped /\ listing \subseteq Markets /\ markets \subseteq Markets
    BY DEF FeedSound, TypeOK
  <2>2. Active \subseteq Markets
    BY DEF Active
  <2>3. CASE JobStart
    BY <2>3 DEF JobStart, JobTyped, Idle
  <2>4. CASE JobFetched
    BY <2>1, <2>4 DEF JobFetched, JobTyped
  <2>5. CASE JobUpdate
    BY <2>1, <2>5 DEF JobUpdate, JobTyped, Idle
  <2>6. CASE JobReload
    BY <2>1, <2>2, <2>6 DEF JobReload, JobTyped
  <2>7. CASE JobSubscribe \/ JobFails
    BY <2>7 DEF JobSubscribe, JobFails, JobTyped, Idle
  <2>8. CASE UNCHANGED job
    BY <2>1, <2>8 DEF JobTyped
  <2> QED BY <2>3, <2>4, <2>5, <2>6, <2>7, <2>8
          DEF Next, JobStep, JobInsert, DogReads, DogSubscribes, Relisted, SocketCloses, Stalls, feedVars, vars
<1>3. /\ job'.at \in {"idle", "fetch", "insert", "update", "reload", "subscribe"}
      /\ \A f \in {job.added, job.removed, job.fetched, job.after}' : f \subseteq Markets
  BY <1>2 DEF JobTyped
<1>4. rows' \in [Markets -> {"none", "active", "inactive"}]
  <2>1. rows \in [Markets -> {"none", "active", "inactive"}]
    BY DEF FeedSound, TypeOK
  <2>2. CASE \E m \in Markets : JobInsert(m)
    BY <2>1, <2>2 DEF JobInsert
  <2>3. CASE JobUpdate
    BY <2>1, <2>3 DEF JobUpdate
  <2>4. CASE UNCHANGED rows
    BY <2>1, <2>4
  <2> QED BY <2>2, <2>3, <2>4
          DEF Next, JobStep, JobStart, JobFetched, JobReload, JobSubscribe, JobFails, DogReads, DogSubscribes,
              Relisted, SocketCloses, Stalls, feedVars, vars
<1>5. /\ markets' \subseteq Markets /\ listing' \subseteq Markets /\ key' \subseteq Markets
      /\ dog'.reading \in BOOLEAN /\ dog'.codes \subseteq Markets
  <2>1. /\ markets \subseteq Markets /\ listing \subseteq Markets /\ key \subseteq Markets
        /\ dog.reading \in BOOLEAN /\ dog.codes \subseteq Markets /\ job.after \subseteq Markets
    BY DEF FeedSound, TypeOK
  <2>2. Active \subseteq Markets
    BY DEF Active
  <2>3. CASE JobStart \/ JobUpdate
    BY <2>1, <2>2, <2>3 DEF JobStart, JobUpdate
  <2>4. CASE JobSubscribe
    BY <2>1, <2>4 DEF JobSubscribe
  <2>5. CASE DogReads
    BY <2>1, <2>2, <2>5 DEF DogReads
  <2>6. CASE DogSubscribes
    BY <2>1, <2>6 DEF DogSubscribes, NoRead
  <2>7. CASE Relisted
    BY <2>1, <2>7 DEF Relisted
  <2>8. CASE UNCHANGED <<markets, listing, key, dog>>
    BY <2>1, <2>8
  <2> QED BY <2>3, <2>4, <2>5, <2>6, <2>7, <2>8
          DEF Next, JobStep, JobFetched, JobInsert, JobReload, JobFails, SocketCloses, Stalls, feedVars, vars
<1>6. /\ up' \in BOOLEAN /\ failed' \in BOOLEAN /\ overlap' \in BOOLEAN
      /\ days' \in 0..MaxDays /\ faults' \in 0..MaxFaults
  <2>1. /\ up \in BOOLEAN /\ failed \in BOOLEAN /\ overlap \in BOOLEAN /\ dog.reading \in BOOLEAN
        /\ days \in 0..MaxDays /\ faults \in 0..MaxFaults
    BY DEF FeedSound, TypeOK
  <2>2. up' \in BOOLEAN /\ failed' \in BOOLEAN
    BY <2>1 DEF Next, JobStep, JobStart, JobFetched, JobInsert, JobUpdate, JobReload, JobSubscribe, JobFails,
       DogReads, DogSubscribes, Relisted, SocketCloses, Stalls, feedVars, vars
  <2>3. overlap' \in BOOLEAN
    BY <2>1 DEF Next, JobStep, JobStart, JobFetched, JobInsert, JobUpdate, JobReload, JobSubscribe, JobFails,
       DogReads, DogSubscribes, Relisted, SocketCloses, Stalls, feedVars, vars
  <2>4. days' \in 0..MaxDays
    BY <2>1 DEF Next, JobStep, JobStart, JobFetched, JobInsert, JobUpdate, JobReload, JobSubscribe, JobFails,
       DogReads, DogSubscribes, Relisted, SocketCloses, Stalls, feedVars, vars
  <2>5. faults' \in 0..MaxFaults
    BY <2>1 DEF Next, JobStep, JobStart, JobFetched, JobInsert, JobUpdate, JobReload, JobSubscribe, JobFails,
       DogReads, DogSubscribes, Relisted, SocketCloses, Stalls, feedVars, vars
  <2> QED BY <2>2, <2>3, <2>4, <2>5
<1> QED BY <1>1, <1>2, <1>3, <1>4, <1>5, <1>6 DEF TypeOK

-----------------------------------------------------------------------------
(* Syncs                                                                    *)

\* Until the start has subscribed, nothing is subscribed to and no watchdog reads.
LEMMA NothingBeforeStart ==
  ASSUME FeedSound, [Next]_vars PROVE (~up => payload = {} /\ ~dog.reading)'
<1>1. ~up => payload = {} /\ ~dog.reading
  BY DEF FeedSound
<1>2. up \in BOOLEAN
  BY DEF FeedSound, TypeOK
<1>3. CASE JobSubscribe
  BY <1>3 DEF JobSubscribe
<1>4. CASE DogReads \/ DogSubscribes
  BY <1>1, <1>2, <1>4 DEF DogReads, DogSubscribes, DogBites
<1>5. CASE UNCHANGED <<up, payload, dog>>
  BY <1>1, <1>5
<1> QED
  BY <1>3, <1>4, <1>5
  DEF Next, JobStep, JobStart, JobFetched, JobInsert, JobUpdate, JobReload, JobFails, Relisted,
      SocketCloses, Closed, Stalls, Silence, Opened, Message, ReconnectTimer, ReplaceTimer,
      feedVars, socketVars, client, vars

\* A sync that nothing disturbs ends with the active markets subscribed to.
LEMMA SyncStep ==
  ASSUME FeedSound, [Next]_vars, ~failed', ~overlap' PROVE SyncSound'
<1>1. ~failed /\ ~overlap
  <2>1. failed \in BOOLEAN /\ overlap \in BOOLEAN
    BY DEF FeedSound, TypeOK
  <2> QED BY <2>1 DEF Next, JobStep, JobStart, JobFetched, JobInsert, JobUpdate, JobReload, JobSubscribe,
      JobFails, DogReads, DogSubscribes, Relisted, SocketCloses, Stalls, feedVars, vars
<1>2. SyncSound /\ TypeOK /\ JobTyped
  BY <1>1 DEF FeedSound
<1>3. (~up => payload = {} /\ ~dog.reading)'
  BY NothingBeforeStart
<1>4. CASE JobStart
  <2>1. job = Idle /\ ~dog.reading /\ markets' = Active /\ UNCHANGED <<payload, up, dog, rows>>
    BY <1>4 DEF JobStart, socketVars, client
  <2>2. \/ ~up /\ job' = [Idle EXCEPT !.at = "reload"]
        \/ job' = [Idle EXCEPT !.at = "fetch"]
    BY <1>4 DEF JobStart
  <2>3. job'.at = "fetch" \/ (~up /\ job'.at = "reload")
    BY <2>2 DEF Idle
  <2>4. up => payload = Active
    BY <1>2, <2>1 DEF SyncSound
  <2>5. Active' = Active
    BY <2>1 DEF Active
  <2> QED BY <1>3, <2>1, <2>3, <2>4, <2>5 DEF SyncSound, Idle
<1>5. CASE JobFetched
  <2>1. /\ job.at = "fetch" /\ job'.at = "insert" /\ job'.fetched = listing
        /\ job'.added = listing \ markets /\ job'.removed = markets \ listing
    BY <1>2, <1>5 DEF JobFetched, JobTyped
  <2>2. UNCHANGED <<payload, up, dog, rows, markets>>
    BY <1>5 DEF JobFetched, socketVars, client
  <2>3. Active' = Active
    BY <2>2 DEF Active
  <2>4. job # Idle /\ job' # Idle
    BY <2>1 DEF Idle
  <2> QED BY <1>2, <1>3, <2>1, <2>2, <2>3, <2>4 DEF SyncSound
<1>6. ASSUME NEW m \in Markets, JobInsert(m) PROVE SyncSound'
  <2>1. /\ job.at = "insert" /\ m \in job.added /\ UNCHANGED <<payload, up, dog, markets, job>>
        /\ rows' = [rows EXCEPT ![m] = "active"]
    BY <1>6 DEF JobInsert, socketVars, client
  <2>2. Active' = Active \cup {m}
    BY <1>2, <2>1 DEF Active, TypeOK
  <2>3. job # Idle
    BY <2>1 DEF Idle
  <2> QED BY <1>2, <1>3, <2>1, <2>2, <2>3 DEF SyncSound
<1>7. CASE JobUpdate
  <2>1. /\ job.at = "insert" /\ \A m \in job.added : rows[m] = "active"
        /\ UNCHANGED <<payload, up, dog>>
        /\ rows' = [m \in Markets |->
                      IF m \in job.removed THEN "inactive"
                      ELSE IF rows[m] = "inactive" /\ m \in job.fetched THEN "active" ELSE rows[m]]
    BY <1>7 DEF JobUpdate, socketVars, client
  <2>2. job # Idle
    BY <2>1 DEF Idle
  <2>3. CASE up /\ ~Changed
    <3>1. job' = Idle /\ job.added = {} /\ job.removed = {}
      BY <1>7, <2>3 DEF JobUpdate, Changed
    <3>2. payload = markets /\ Active = markets /\ job.fetched \subseteq markets
      BY <1>2, <2>1, <2>3, <3>1 DEF SyncSound
    <3>3. \A m \in Markets : rows'[m] = rows[m]
      BY <2>1, <3>1, <3>2 DEF Active
    <3>4. Active' = Active
      BY <3>3 DEF Active
    <3>5. payload' = Active'
      BY <2>1, <3>2, <3>4
    <3>6. job'.at = "idle"
      BY <3>1 DEF Idle
    <3> QED BY <1>2, <1>3, <2>1, <2>2, <3>1, <3>5, <3>6 DEF SyncSound
  <2>4. CASE ~(up /\ ~Changed)
    <3>1. job' = [job EXCEPT !.at = "reload"]
      BY <1>7, <2>4 DEF JobUpdate
    <3>2. job'.at = "reload"
      BY <1>2, <3>1 DEF JobTyped
    <3>3. job' # Idle
      BY <3>2 DEF Idle
    <3> QED BY <1>2, <1>3, <2>1, <2>2, <3>2, <3>3 DEF SyncSound
  <2> QED BY <2>3, <2>4
<1>8. CASE JobReload
  <2>1. /\ job.at = "reload" /\ job'.at = "subscribe" /\ job'.after = Active
        /\ UNCHANGED <<payload, up, dog, rows, markets>>
    BY <1>2, <1>8 DEF JobReload, JobTyped, socketVars, client
  <2>2. job # Idle /\ job' # Idle /\ Active' = Active
    BY <2>1 DEF Idle, Active
  <2> QED BY <1>2, <1>3, <2>1, <2>2 DEF SyncSound
<1>9. CASE JobSubscribe
  <2>1. /\ job.at = "subscribe" /\ job' = Idle /\ up' = TRUE /\ UNCHANGED <<rows, dog>>
    BY <1>9 DEF JobSubscribe
  <2>2. payload' = job.after
    BY <1>2, <1>9 DEF JobSubscribe, Resubscribe, Subscribe, SyncSound, socketVars, client
  <2>3. Active' = Active /\ job # Idle /\ job'.at = "idle"
    BY <2>1 DEF Active, Idle
  <2> QED BY <1>2, <2>1, <2>2, <2>3 DEF SyncSound
<1>10. CASE JobFails
  BY <1>10 DEF JobFails
<1>11. CASE DogReads
  <2>1. /\ up /\ job = Idle /\ dog'.reading = TRUE /\ dog'.codes = Active
        /\ UNCHANGED <<payload, up, job, rows, markets>>
    BY <1>11 DEF DogReads, DogBites, socketVars, client
  <2>2. Active' = Active
    BY <2>1 DEF Active
  <2> QED BY <1>2, <2>1, <2>2 DEF SyncSound
<1>12. CASE DogSubscribes
  <2>1. /\ dog.reading /\ payload' = dog.codes /\ ~dog'.reading /\ UNCHANGED <<up, job, rows>>
    BY <1>12 DEF DogSubscribes, NoRead, Resubscribe
  <2>2. Active' = Active
    BY <2>1 DEF Active
  <2> QED BY <1>2, <1>3, <2>1, <2>2 DEF SyncSound, Idle
<1>13. CASE UNCHANGED <<rows, markets, up, job, dog, payload>>
  BY <1>2, <1>13 DEF SyncSound, Active, Idle
<1> QED
  BY <1>4, <1>5, <1>6, <1>7, <1>8, <1>9, <1>10, <1>11, <1>12, <1>13
  DEF Next, JobStep, Relisted, SocketCloses, Closed, Stalls, Silence, Opened, Message,
      ReconnectTimer, ReplaceTimer, feedVars, socketVars, client, vars

\* The invariant of the feed and of its client.
THEOREM FeedInvariantHolds == Spec => [](SocketSound /\ FeedSound)
<1>1. Init => SocketSound /\ FeedSound
  BY FeedInitSound
<1>2. SocketSound /\ FeedSound /\ [Next]_vars => (SocketSound /\ FeedSound)'
  BY FeedSocketStep, FeedTyped, NothingBeforeStart, SyncStep DEF FeedSound
<1> QED BY <1>1, <1>2, PTL DEF Spec

\* Once subscribed, there is a socket, or a timer that will make one: a close
\* that shall not reconnect (resubscribe) leaves the timer of that
\* resubscription, or a socket made by it.
THEOREM NeverAbandonedHolds == Spec => []NeverAbandoned
<1>1. SocketSound /\ FeedSound => NeverAbandoned
  BY DEF SocketSound
<1> QED BY <1>1, FeedInvariantHolds, PTL

\* As long as no socket was replaced before it had closed, the client holds the
\* only one there is and isOpen tells its state, whatever order its events and
\* the timers of connect come in.
THEOREM ClientKnowsItsSocketHolds == Spec => []ClientKnowsItsSocket
<1>1. SocketSound /\ FeedSound => ClientKnowsItsSocket
  BY DEF SocketSound, FeedSound, ClientKnowsItsSocket, KnowsItsSocket
<1> QED BY <1>1, FeedInvariantHolds, PTL

\* What is subscribed to outside of a sync is what the database calls active,
\* unless a sync failed or overlapped with the read of the watchdog.
THEOREM NewestListHolds == Spec => []NewestListUnlessDisturbed
<1>1. SocketSound /\ FeedSound => NewestListUnlessDisturbed
  BY DEF FeedSound, SyncSound, NewestListUnlessDisturbed
<1> QED BY <1>1, FeedInvariantHolds, PTL
=============================================================================
