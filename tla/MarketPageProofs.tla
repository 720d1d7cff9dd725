-------------------------- MODULE MarketPageProofs --------------------------
(***************************************************************************)
(* Machine-checked proofs about the parts of a market page, for any number *)
(* of tabs, calls, sheets, markets and requests.                           *)
(***************************************************************************)
EXTENDS MarketPage, FiniteSetTheorems, SequenceTheorems,
        WellFoundedInduction, TLAPS

-----------------------------------------------------------------------------
(* The session                                                              *)

USE SessionsAssumption

\* The server knows the token of the cookie and no other.
CookieKnown == valid \subseteq {jar.rt} /\ (jar.rt # 0 => jar.rt \in valid)

LoggingOut(t) == logout[t].at # "none"

\* Undisturbed, one request is under way at most ...
OneRequest ==
  /\ \A a, b \in Actors : Renewing(a) /\ Renewing(b) => a = b
  /\ \A t, u \in Tabs : LoggingOut(t) /\ LoggingOut(u) => t = u
  /\ \A a \in Actors, t \in Tabs : ~(Renewing(a) /\ LoggingOut(t))

\* ... and it carries the token of the cookie, until the server has deleted it;
\* a refresh is refused only if there is none.
RequestSound ==
  /\ ~Busy => CookieKnown
  /\ \A a \in Actors :
       /\ renewal[a].at \in {"sent", "checked"} => renewal[a].rt = jar.rt /\ CookieKnown
       /\ renewal[a].at = "deleted" => valid = {}
       /\ renewal[a].at = "issued" => valid = {renewal[a].new}
       /\ renewal[a].at = "refused" => renewal[a].rt = 0 /\ CookieKnown
  /\ \A t \in Tabs :
       /\ logout[t].at = "sent" => logout[t].rt = jar.rt /\ CookieKnown
       /\ logout[t].at = "deleted" => valid = {}
       /\ logout[t].at \in {"none", "sent", "deleted"}

Undisturbed == OneRequest /\ RequestSound /\ ~sentAway

\* What a refresh has issued is a token.
TokenIssued == \A a \in Actors : renewal[a].at = "issued" => renewal[a].new \in Token

SessionSound == TypeOK /\ TokenIssued /\ (~disturbed => Undisturbed)

LEMMA SentTyped == ASSUME TypeOK PROVE Sent \in Request /\ Sent.at = "sent" /\ Sent.rt = jar.rt
BY DEF TypeOK, Sent, None, Request, Stages, Token

LEMMA NoneTyped == None \in Request /\ None.at = "none"
BY DEF None, Request, Stages, Token

LEMMA SessionInitSound == Init => SessionSound
<1> SUFFICES ASSUME Init PROVE SessionSound
  OBVIOUS
<1>1. TypeOK
  <2>1. sec \in Token /\ jar \in [at : BOOLEAN, rt : Token \cup {0}] /\ (jar.at => jar.rt # 0)
    BY DEF Init, Token, NoCookies
  <2>2. call \in [Tabs -> [Calls -> {"idle", "sent", "waiting"}]]
    BY DEF Init
  <2>3. renewal \in [Actors -> Request] /\ logout \in [Tabs -> Request]
    BY NoneTyped DEF Init
  <2>4. \A t \in Tabs, k \in Calls : call[t][k] # "waiting"
    BY DEF Init
  <2> QED BY <2>1, <2>2, <2>3, <2>4 DEF Init, TypeOK
<1>2. \A a \in Actors : renewal[a].at = "none"
  BY DEF Init, None
<1>3. \A t \in Tabs : logout[t].at = "none"
  BY DEF Init, None
<1>4. CookieKnown
  BY DEF Init, CookieKnown, NoCookies
<1>5. Undisturbed
  BY <1>2, <1>3, <1>4 DEF Undisturbed, OneRequest, RequestSound, Renewing, LoggingOut, Init
<1>6. TokenIssued
  BY <1>2 DEF TokenIssued
<1> QED BY <1>1, <1>5, <1>6 DEF SessionSound

\* Steps that begin nothing: time, a tab, an access token that expires, a call.
LEMMA QuietStepSound ==
  ASSUME SessionSound,
         \/ Tick \/ AccessExpires
         \/ \E t \in Tabs : OpenTab(t) \/ \E k \in Calls : Call(t, k)
  PROVE  SessionSound'
<1>1. /\ valid' = valid /\ jar'.rt = jar.rt /\ UNCHANGED <<renewal, logout, sentAway, disturbed>>
  BY DEF SessionSound, TypeOK, Tick, AccessExpires, OpenTab, Call
<1>2. TypeOK'
  <2>1. CASE Tick
    BY <2>1 DEF SessionSound, TypeOK, Tick, Token
  <2>2. CASE AccessExpires
    BY <2>2 DEF SessionSound, TypeOK, AccessExpires
  <2>3. CASE \E t \in Tabs : OpenTab(t)
    BY <2>3 DEF SessionSound, TypeOK, OpenTab
  <2>4. ASSUME NEW t \in Tabs, NEW k \in Calls, Call(t, k) PROVE TypeOK'
    BY <2>4 DEF SessionSound, TypeOK, Call
  <2> QED BY <2>1, <2>2, <2>3, <2>4
<1>3. ~disturbed' => Undisturbed'
  BY <1>1 DEF SessionSound, Undisturbed, OneRequest, RequestSound, CookieKnown, Renewing, LoggingOut, Busy
<1>4. TokenIssued'
  BY <1>1 DEF SessionSound, TokenIssued
<1> QED BY <1>2, <1>3, <1>4 DEF SessionSound

LEMMA LoginSound == ASSUME SessionSound, NEW t \in Tabs, Login(t) PROVE SessionSound'
<1>1. TypeOK /\ TypeOK'
  BY DEF SessionSound, TypeOK, Login, Token
<1>2. ASSUME ~disturbed' PROVE Undisturbed'
  <2>1. ~disturbed /\ ~Busy
    BY <1>2 DEF Login
  <2>2. Undisturbed /\ CookieKnown /\ UNCHANGED <<renewal, logout, sentAway>>
    BY <2>1 DEF SessionSound, Undisturbed, RequestSound, Login
  <2>3. CookieKnown'
    BY <1>1, <2>2 DEF CookieKnown, Login, TypeOK, Token
  <2>4. \A a \in Actors : renewal'[a].at = "none"
    BY <2>1, <2>2 DEF Busy, Renewing
  <2>5. \A u \in Tabs : logout'[u].at = "none"
    BY <2>1, <2>2 DEF Busy
  <2> QED BY <2>2, <2>3, <2>4, <2>5 DEF Undisturbed, OneRequest, RequestSound, Renewing, LoggingOut
<1>3. TokenIssued'
  BY DEF SessionSound, TokenIssued, Login
<1> QED BY <1>1, <1>2, <1>3 DEF SessionSound

\* A refresh begins: if it disturbs nothing, it is the only request.
LEMMA RenewalBegins ==
  ASSUME SessionSound, NEW a \in Actors, ~Renewing(a), ~disturbed, ~Busy,
         renewal' = [renewal EXCEPT ![a] = Sent],
         UNCHANGED <<valid, jar, logout, sentAway>>
  PROVE  Undisturbed'
<1>1. Undisturbed /\ CookieKnown /\ TypeOK
  BY DEF SessionSound, Undisturbed, RequestSound
<1>2. CookieKnown'
  BY <1>1 DEF CookieKnown
<1>3. renewal'[a].at = "sent" /\ renewal'[a].rt = jar'.rt
  BY <1>1, SentTyped DEF TypeOK
<1>4. \A b \in Actors \ {a} : renewal'[b].at = "none"
  BY <1>1 DEF TypeOK, Busy, Renewing
<1>5. \A u \in Tabs : logout'[u].at = "none"
  BY DEF Busy
<1>6. OneRequest'
  BY <1>4, <1>5 DEF OneRequest, Renewing, LoggingOut
<1>7. RequestSound'
  BY <1>2, <1>3, <1>4, <1>5 DEF RequestSound, Busy, Renewing
<1> QED BY <1>1, <1>6, <1>7 DEF Undisturbed

LEMMA UnauthorizedSound ==
  ASSUME SessionSound, NEW t \in Tabs, NEW k \in Calls, Unauthorized(t, k) PROVE SessionSound'
<1>1. TypeOK
  BY DEF SessionSound
<1>2. call' = [call EXCEPT ![t][k] = "waiting"] /\ UNCHANGED <<sec, valid, jar, logout, away, sentAway>>
  BY DEF Unauthorized
<1>3. call' \in [Tabs -> [Calls -> {"idle", "sent", "waiting"}]]
  BY <1>1, <1>2 DEF TypeOK
<1>4. CASE Renewing(t)
  <2>1. UNCHANGED <<renewal, disturbed>>
    BY <1>4 DEF Unauthorized, StartsRenewal
  <2>2. TypeOK'
    <3>1. \A u \in Tabs, l \in Calls : call'[u][l] = "waiting" => renewal'[u].at # "none"
      BY <1>1, <1>2, <1>4, <2>1 DEF TypeOK, Renewing
    <3> QED BY <1>1, <1>2, <1>3, <2>1, <3>1 DEF TypeOK
  <2>3. ~disturbed' => Undisturbed'
    BY <1>2, <2>1 DEF SessionSound, Undisturbed, OneRequest, RequestSound, CookieKnown, Renewing,
       LoggingOut, Busy
  <2>4. TokenIssued'
    BY <2>1 DEF SessionSound, TokenIssued
  <2> QED BY <2>2, <2>3, <2>4 DEF SessionSound
<1>5. CASE ~Renewing(t)
  <2>1. /\ renewal' = [renewal EXCEPT ![t] = Sent]
        /\ disturbed' = (disturbed \/ \E a \in Actors \ {t} : Renewing(a)
                                   \/ \E u \in Tabs : logout[u].at # "none")
    BY <1>5 DEF Unauthorized, StartsRenewal
  <2>2. t \in Actors
    BY DEF Actors
  <2>3. renewal' \in [Actors -> Request] /\ renewal'[t].at = "sent"
        /\ \A b \in Actors \ {t} : renewal'[b] = renewal[b]
    BY <1>1, <2>1, <2>2, SentTyped DEF TypeOK
  <2>4. TypeOK'
    <3>1. \A u \in Tabs, l \in Calls : call'[u][l] = "waiting" => renewal'[u].at # "none"
      BY <1>1, <1>2, <2>3 DEF TypeOK, Actors
    <3>2. disturbed' \in BOOLEAN
      BY <1>1, <2>1 DEF TypeOK
    <3> QED BY <1>1, <1>2, <1>3, <2>3, <3>1, <3>2 DEF TypeOK
  <2>5. ASSUME ~disturbed' PROVE Undisturbed'
    <3>1. Proxy \in Actors \ {t}
      BY DEF Actors, Proxy
    <3>2. ~disturbed /\ ~Busy
      BY <1>5, <2>1, <2>5, <3>1 DEF Busy
    <3> QED BY <1>2, <1>5, <2>1, <2>2, <3>2, RenewalBegins
  <2>6. TokenIssued'
    BY <2>3 DEF SessionSound, TokenIssued
  <2> QED BY <2>4, <2>5, <2>6 DEF SessionSound
<1> QED BY <1>4, <1>5

LEMMA ProxyRenewsSound == ASSUME SessionSound, ProxyRenews PROVE SessionSound'
<1>1. Proxy \in Actors
  BY DEF Actors
<1>2. TypeOK'
  <2>1. TypeOK /\ Sent \in Request /\ Sent.at = "sent"
    BY SentTyped DEF SessionSound
  <2>2. /\ renewal' = [renewal EXCEPT ![Proxy] = Sent]
        /\ UNCHANGED <<sec, valid, jar, call, logout, away, sentAway>>
        /\ disturbed' = (disturbed \/ Busy)
    BY DEF ProxyRenews
  <2>3. renewal' \in [Actors -> Request] /\ disturbed' \in BOOLEAN
    BY <2>1, <2>2, <1>1 DEF TypeOK
  <2>4. \A t \in Tabs, k \in Calls : call'[t][k] = "waiting" => renewal'[t].at # "none"
    BY <2>1, <2>2, <1>1 DEF TypeOK, Actors
  <2> QED BY <2>1, <2>2, <2>3, <2>4 DEF TypeOK
<1>3. ~disturbed' => Undisturbed'
  BY <1>1, RenewalBegins DEF ProxyRenews
<1>4. TokenIssued'
  <2>1. renewal \in [Actors -> Request] /\ Sent.at = "sent" /\ renewal' = [renewal EXCEPT ![Proxy] = Sent]
    BY SentTyped DEF SessionSound, TypeOK, ProxyRenews
  <2> QED BY <2>1, <1>1 DEF SessionSound, TokenIssued
<1> QED BY <1>2, <1>3, <1>4 DEF SessionSound

\* A refresh goes from one stage to the next.
LEMMA StageSound ==
  ASSUME SessionSound, NEW a \in Actors, Checked(a) \/ Deleted(a) \/ Issued(a)
  PROVE  SessionSound'
<1>1. TypeOK /\ sec \in Token /\ renewal[a] \in Request
  BY DEF SessionSound, TypeOK
<1>2. /\ UNCHANGED <<sec, jar, call, logout, away, sentAway, disturbed>>
      /\ renewal[a].at # "none"
  BY DEF Checked, Deleted, Issued
<1>3. /\ renewal' \in [Actors -> Request] /\ renewal'[a].at # "none"
      /\ renewal'[a].rt = renewal[a].rt
      /\ renewal'[a].at = "issued" => renewal'[a].new \in Token
      /\ \A b \in Actors \ {a} : renewal'[b] = renewal[b]
  <2>1. CASE Checked(a)
    BY <1>1, <2>1 DEF Checked, TypeOK, Request, Stages
  <2>2. CASE Deleted(a)
    BY <1>1, <2>2 DEF Deleted, TypeOK, Request, Stages
  <2>3. CASE Issued(a)
    BY <1>1, <2>3 DEF Issued, TypeOK, Request, Stages
  <2> QED BY <2>1, <2>2, <2>3
<1>4. TypeOK'
  <2>1. valid' \subseteq Token
    BY <1>1 DEF TypeOK, Checked, Deleted, Issued, Rotated
  <2>2. \A t \in Tabs, k \in Calls : call'[t][k] = "waiting" => renewal'[t].at # "none"
    BY <1>1, <1>2, <1>3 DEF TypeOK, Actors
  <2> QED BY <1>1, <1>2, <1>3, <2>1, <2>2 DEF TypeOK
<1>5. ASSUME ~disturbed' PROVE Undisturbed'
  <2>1. ~disturbed /\ Undisturbed
    BY <1>2, <1>5 DEF SessionSound
  <2>2. OneRequest'
    BY <1>2, <1>3, <2>1 DEF Undisturbed, OneRequest, Renewing, LoggingOut
  <2>3. \A b \in Actors \ {a} : renewal'[b].at = "none"
    BY <1>2, <1>3, <2>1 DEF Undisturbed, OneRequest, Renewing
  <2>4. \A t \in Tabs : logout'[t].at = "none"
    BY <1>2, <2>1 DEF Undisturbed, OneRequest, Renewing, LoggingOut
  <2>5. Busy'
    BY <1>3 DEF Busy, Renewing
  <2>6. CASE Checked(a)
    <3>1. /\ renewal[a].at = "sent" /\ valid' = valid
          /\ renewal'[a].at = IF renewal[a].rt \in valid THEN "checked" ELSE "refused"
      BY <1>1, <2>6 DEF Checked, TypeOK
    <3>2. renewal[a].rt = jar.rt /\ CookieKnown
      BY <2>1, <3>1 DEF Undisturbed, RequestSound
    <3>3. CookieKnown'
      BY <1>2, <3>1, <3>2 DEF CookieKnown
    <3>4. renewal[a].rt \notin valid => renewal[a].rt = 0
      BY <3>2 DEF CookieKnown
    <3> QED BY <1>2, <1>3, <2>1, <2>2, <2>3, <2>4, <2>5, <3>1, <3>2, <3>3, <3>4
            DEF Undisturbed, RequestSound
  <2>7. CASE Deleted(a)
    <3>1. /\ renewal[a].at = "checked" /\ valid' = valid \ {renewal[a].rt}
          /\ renewal'[a].at = "deleted"
      BY <1>1, <2>7 DEF Deleted, Rotated, TypeOK
    <3>2. valid' = {}
      BY <2>1, <3>1 DEF Undisturbed, RequestSound, CookieKnown
    <3> QED BY <1>2, <2>1, <2>2, <2>3, <2>4, <2>5, <3>1, <3>2 DEF Undisturbed, RequestSound
  <2>8. CASE Issued(a)
    <3>1. /\ renewal[a].at = "deleted" /\ valid' = valid \cup {sec}
          /\ renewal'[a].at = "issued" /\ renewal'[a].new = sec
      BY <1>1, <2>8 DEF Issued, TypeOK, Request
    <3>2. valid' = {renewal'[a].new}
      BY <2>1, <3>1 DEF Undisturbed, RequestSound
    <3> QED BY <1>2, <2>1, <2>2, <2>3, <2>4, <2>5, <3>1, <3>2 DEF Undisturbed, RequestSound
  <2> QED BY <2>6, <2>7, <2>8
<1>6. TokenIssued'
  BY <1>3 DEF SessionSound, TokenIssued
<1> QED BY <1>4, <1>5, <1>6 DEF SessionSound

\* What the page does when a refresh has ended.
LEMMA ResolvedTyped ==
  ASSUME SessionSound, NEW a \in Actors, NEW ok \in BOOLEAN, Renewing(a), Resolved(a, ok)
  PROVE  /\ renewal' \in [Actors -> Request] /\ renewal'[a].at = "none"
         /\ \A b \in Actors \ {a} : renewal'[b] = renewal[b]
         /\ call' \in [Tabs -> [Calls -> {"idle", "sent", "waiting"}]]
         /\ \A t \in Tabs, k \in Calls : call'[t][k] = "waiting" => renewal'[t].at # "none"
         /\ logout' \in [Tabs -> Request] /\ sentAway' \in BOOLEAN
         /\ \/ logout' = logout /\ sentAway' = sentAway
            \/ /\ ~ok /\ a \in Tabs /\ logout' = [logout EXCEPT ![a] = Sent]
               /\ sentAway' = (sentAway \/ renewal[a].rt # 0)
<1>1. TypeOK
  BY DEF SessionSound
<1>2. /\ renewal' \in [Actors -> Request] /\ renewal'[a].at = "none"
      /\ \A b \in Actors \ {a} : renewal'[b] = renewal[b]
  BY <1>1, NoneTyped DEF Resolved, TypeOK
<1>3. CASE a = Proxy
  <2>1. UNCHANGED <<call, logout, sentAway>>
    BY <1>3 DEF Resolved
  <2>2. \A t \in Tabs : t # a
    BY <1>3 DEF Proxy
  <2>3. \A t \in Tabs, k \in Calls : call'[t][k] = "waiting" => renewal'[t].at # "none"
    BY <1>1, <1>2, <2>1, <2>2 DEF TypeOK, Actors
  <2> QED BY <1>1, <1>2, <2>1, <2>3 DEF TypeOK
<1>4. CASE a # Proxy
  <2>1. a \in Tabs
    BY <1>4 DEF Actors
  <2>2. call' = [call EXCEPT ![a] = [k \in Calls |-> IF @[k] = "waiting" THEN "idle" ELSE @[k]]]
    BY <1>4 DEF Resolved
  <2>3. call' \in [Tabs -> [Calls -> {"idle", "sent", "waiting"}]]
    BY <1>1, <2>1, <2>2 DEF TypeOK
  <2>4. \A t \in Tabs, k \in Calls : call'[t][k] = "waiting" => t # a /\ call[t][k] = "waiting"
    BY <1>1, <2>1, <2>2 DEF TypeOK
  <2>5. \A t \in Tabs, k \in Calls : call'[t][k] = "waiting" => renewal'[t].at # "none"
    BY <1>1, <1>2, <2>4 DEF TypeOK, Actors
  <2>6. CASE UNCHANGED <<logout, sentAway>>
    BY <1>1, <1>2, <2>3, <2>5, <2>6 DEF TypeOK
  <2>7. CASE /\ ~ok /\ logout' = [logout EXCEPT ![a] = Sent]
             /\ sentAway' = (sentAway \/ renewal[a].rt # 0)
    <3>1. logout' \in [Tabs -> Request] /\ sentAway' \in BOOLEAN
      BY <1>1, <2>7, SentTyped DEF TypeOK
    <3> QED BY <1>2, <2>1, <2>3, <2>5, <2>7, <3>1
  <2> QED BY <1>4, <2>6, <2>7 DEF Resolved
<1> QED BY <1>3, <1>4

LEMMA AnsweredSound == ASSUME SessionSound, NEW a \in Actors, Answered(a) PROVE SessionSound'
<1> DEFINE ok == renewal[a].at = "issued"
<1>1. /\ renewal[a].at \in {"issued", "refused"} /\ Resolved(a, ok) /\ ok \in BOOLEAN /\ Renewing(a)
      /\ UNCHANGED <<sec, valid, away, disturbed>>
      /\ jar' = IF ok THEN [at |-> TRUE, rt |-> renewal[a].new] ELSE jar
  BY DEF Answered, Renewing
<1>2. TypeOK
  BY DEF SessionSound
<1> HIDE DEF ok
<1>3. /\ renewal' \in [Actors -> Request] /\ renewal'[a].at = "none"
      /\ \A b \in Actors \ {a} : renewal'[b] = renewal[b]
      /\ call' \in [Tabs -> [Calls -> {"idle", "sent", "waiting"}]]
      /\ \A t \in Tabs, k \in Calls : call'[t][k] = "waiting" => renewal'[t].at # "none"
      /\ logout' \in [Tabs -> Request] /\ sentAway' \in BOOLEAN
      /\ \/ logout' = logout /\ sentAway' = sentAway
         \/ /\ ~ok /\ a \in Tabs /\ logout' = [logout EXCEPT ![a] = Sent]
            /\ sentAway' = (sentAway \/ renewal[a].rt # 0)
  BY <1>1, ResolvedTyped
<1>4. TypeOK'
  <2>1. jar' \in [at : BOOLEAN, rt : Token \cup {0}] /\ (jar'.at => jar'.rt # 0)
    <3>1. CASE ok
      <4>1. renewal[a].new \in Token
        BY <3>1 DEF SessionSound, TokenIssued, ok
      <4> QED BY <1>1, <3>1, <4>1 DEF Token
    <3>2. CASE ~ok
      BY <1>1, <1>2, <3>2 DEF TypeOK
    <3> QED BY <3>1, <3>2
  <2> QED BY <1>1, <1>2, <1>3, <2>1 DEF TypeOK
<1>5. ASSUME ~disturbed' PROVE Undisturbed'
  <2>1. ~disturbed /\ Undisturbed
    BY <1>1, <1>5 DEF SessionSound
  <2>2. \A b \in Actors : renewal'[b].at = "none"
    BY <1>1, <1>3, <2>1 DEF Undisturbed, OneRequest, Renewing
  <2>3. \A t \in Tabs : logout[t].at = "none"
    BY <1>1, <2>1 DEF Undisturbed, OneRequest, LoggingOut
  <2>4. CookieKnown' /\ ~sentAway'
    <3>1. CASE ok
      <4>1. valid = {renewal[a].new} /\ ~sentAway
        BY <3>1, <2>1 DEF Undisturbed, RequestSound, ok
      <4> QED BY <1>1, <1>3, <3>1, <4>1 DEF CookieKnown
    <3>2. CASE ~ok
      <4>1. renewal[a].rt = 0 /\ CookieKnown /\ ~sentAway
        BY <1>1, <3>2, <2>1 DEF Undisturbed, RequestSound, ok
      <4> QED BY <1>1, <1>3, <3>2, <4>1 DEF CookieKnown
    <3> QED BY <3>1, <3>2
  <2>5. CASE logout' = logout
    BY <2>2, <2>3, <2>4, <2>5 DEF Undisturbed, OneRequest, RequestSound, Renewing, LoggingOut
  <2>6. CASE ~ok /\ a \in Tabs /\ logout' = [logout EXCEPT ![a] = Sent]
    <3>1. logout'[a].at = "sent" /\ logout'[a].rt = jar'.rt
      BY <1>1, <1>2, <2>6, SentTyped DEF TypeOK
    <3>2. \A t \in Tabs \ {a} : logout'[t].at = "none"
      BY <1>2, <2>3, <2>6 DEF TypeOK
    <3>3. OneRequest'
      BY <2>2, <3>2 DEF OneRequest, Renewing, LoggingOut
    <3>4. RequestSound'
      BY <2>2, <2>4, <3>1, <3>2 DEF RequestSound
    <3> QED BY <2>4, <3>3, <3>4 DEF Undisturbed
  <2> QED BY <1>3, <2>5, <2>6
<1>6. TokenIssued'
  BY <1>3 DEF SessionSound, TokenIssued
<1> QED BY <1>4, <1>5, <1>6 DEF SessionSound

LEMMA LostSound == ASSUME SessionSound, NEW a \in Actors, Lost(a) PROVE SessionSound'
<1>1. Renewing(a) /\ Resolved(a, FALSE) /\ disturbed' = TRUE /\ UNCHANGED <<sec, valid, jar, away>>
  BY DEF Lost
<1>2. /\ renewal' \in [Actors -> Request] /\ renewal'[a].at = "none"
      /\ \A b \in Actors \ {a} : renewal'[b] = renewal[b]
      /\ call' \in [Tabs -> [Calls -> {"idle", "sent", "waiting"}]]
      /\ \A t \in Tabs, k \in Calls : call'[t][k] = "waiting" => renewal'[t].at # "none"
      /\ logout' \in [Tabs -> Request] /\ sentAway' \in BOOLEAN
  BY <1>1, ResolvedTyped
<1>3. TypeOK'
  BY <1>1, <1>2 DEF SessionSound, TypeOK
<1>4. TokenIssued'
  BY <1>2 DEF SessionSound, TokenIssued
<1> QED BY <1>1, <1>3, <1>4 DEF SessionSound

LEMMA LogoutSound == ASSUME SessionSound, NEW t \in Tabs, Logout(t) PROVE SessionSound'
<1>1. /\ logout' = [logout EXCEPT ![t] = Sent] /\ disturbed' = (disturbed \/ Busy)
      /\ UNCHANGED <<sec, valid, jar, call, renewal, away, sentAway>>
  BY DEF Logout
<1>2. TypeOK /\ Sent \in Request /\ Sent.at = "sent" /\ Sent.rt = jar.rt
  BY SentTyped DEF SessionSound
<1>3. logout' \in [Tabs -> Request] /\ logout'[t] = Sent
      /\ \A u \in Tabs \ {t} : logout'[u] = logout[u]
  BY <1>1, <1>2 DEF TypeOK
<1>4. TypeOK'
  <2>1. disturbed' \in BOOLEAN
    BY <1>1, <1>2 DEF TypeOK
  <2> QED BY <1>1, <1>2, <1>3, <2>1 DEF TypeOK
<1>5. ASSUME ~disturbed' PROVE Undisturbed'
  <2>1. ~disturbed /\ ~Busy
    BY <1>1, <1>5
  <2>2. Undisturbed /\ CookieKnown
    BY <2>1 DEF SessionSound, Undisturbed, RequestSound
  <2>3. \A a \in Actors : renewal'[a].at = "none"
    BY <1>1, <2>1 DEF Busy, Renewing
  <2>4. \A u \in Tabs \ {t} : logout'[u].at = "none"
    BY <1>3, <2>1 DEF Busy
  <2>5. CookieKnown'
    BY <1>1, <2>2 DEF CookieKnown
  <2>6. OneRequest'
    BY <2>3, <2>4 DEF OneRequest, Renewing, LoggingOut
  <2>7. RequestSound'
    BY <1>1, <1>2, <1>3, <2>3, <2>4, <2>5 DEF RequestSound
  <2> QED BY <1>1, <2>2, <2>6, <2>7 DEF Undisturbed
<1>6. TokenIssued'
  BY <1>1 DEF SessionSound, TokenIssued
<1> QED BY <1>4, <1>5, <1>6 DEF SessionSound

LEMMA LogoutHandledSound == ASSUME SessionSound, NEW t \in Tabs, LogoutHandled(t) PROVE SessionSound'
<1>1. /\ logout[t].at = "sent" /\ valid' = valid \ {logout[t].rt}
      /\ logout' = [logout EXCEPT ![t].at = "deleted"]
      /\ UNCHANGED <<sec, jar, call, renewal, away, sentAway, disturbed>>
  BY DEF LogoutHandled
<1>2. TypeOK /\ logout \in [Tabs -> Request]
  BY DEF SessionSound, TypeOK
<1>3. /\ logout' \in [Tabs -> Request] /\ logout'[t].at = "deleted"
      /\ \A u \in Tabs \ {t} : logout'[u] = logout[u]
  BY <1>1, <1>2 DEF Request, Stages
<1>4. TypeOK'
  BY <1>1, <1>2, <1>3 DEF TypeOK
<1>5. ASSUME ~disturbed' PROVE Undisturbed'
  <2>1. Undisturbed /\ LoggingOut(t)
    BY <1>1, <1>5 DEF SessionSound, LoggingOut
  <2>2. \A a \in Actors : renewal'[a].at = "none"
    BY <1>1, <2>1 DEF Undisturbed, OneRequest, Renewing
  <2>3. \A u \in Tabs \ {t} : logout'[u].at = "none"
    BY <1>3, <2>1 DEF Undisturbed, OneRequest, LoggingOut
  <2>4. valid' = {}
    BY <1>1, <2>1 DEF Undisturbed, RequestSound, CookieKnown
  <2>5. OneRequest'
    BY <2>2, <2>3 DEF OneRequest, Renewing, LoggingOut
  <2>6. RequestSound'
    BY <1>3, <2>2, <2>3, <2>4 DEF RequestSound, Busy
  <2> QED BY <1>1, <2>1, <2>5, <2>6 DEF Undisturbed
<1>6. TokenIssued'
  BY <1>1 DEF SessionSound, TokenIssued
<1> QED BY <1>4, <1>5, <1>6 DEF SessionSound

LEMMA LeaveTyped ==
  ASSUME SessionSound, NEW t \in Tabs, Leave(t), renewal' = renewal
  PROVE  /\ logout' \in [Tabs -> Request] /\ logout'[t].at = "none"
         /\ \A u \in Tabs \ {t} : logout'[u] = logout[u]
         /\ away' \subseteq Tabs
         /\ call' \in [Tabs -> [Calls -> {"idle", "sent", "waiting"}]]
         /\ \A u \in Tabs, k \in Calls : call'[u][k] = "waiting" => renewal'[u].at # "none"
<1>1. TypeOK
  BY DEF SessionSound
<1>2. /\ logout' \in [Tabs -> Request] /\ logout'[t].at = "none"
      /\ \A u \in Tabs \ {t} : logout'[u] = logout[u]
  BY <1>1, NoneTyped DEF Leave, TypeOK
<1>3. call' \in [Tabs -> [Calls -> {"idle", "sent", "waiting"}]]
  BY <1>1 DEF Leave, TypeOK
<1>4. \A u \in Tabs, k \in Calls : call'[u][k] = "waiting" => call[u][k] = "waiting"
  BY <1>1 DEF Leave, TypeOK
<1>5. away' \subseteq Tabs
  BY <1>1 DEF Leave, TypeOK
<1> QED BY <1>1, <1>2, <1>3, <1>4, <1>5 DEF TypeOK

LEMMA LogoutEndsSound ==
  ASSUME SessionSound, NEW t \in Tabs, LogoutAnswered(t) \/ LogoutLost(t) PROVE SessionSound'
<1>1. Leave(t) /\ UNCHANGED <<sec, valid, renewal, sentAway>>
  BY DEF LogoutAnswered, LogoutLost
<1>2. /\ logout' \in [Tabs -> Request] /\ logout'[t].at = "none"
      /\ \A u \in Tabs \ {t} : logout'[u] = logout[u]
      /\ away' \subseteq Tabs
      /\ call' \in [Tabs -> [Calls -> {"idle", "sent", "waiting"}]]
      /\ \A u \in Tabs, k \in Calls : call'[u][k] = "waiting" => renewal'[u].at # "none"
  BY <1>1, LeaveTyped
<1>3. TypeOK'
  <2>1. jar' \in [at : BOOLEAN, rt : Token \cup {0}] /\ (jar'.at => jar'.rt # 0)
    <3>1. CASE jar' = jar
      BY <3>1 DEF SessionSound, TypeOK
    <3>2. CASE jar' = NoCookies
      BY <3>2 DEF NoCookies
    <3> QED BY <3>1, <3>2 DEF LogoutAnswered, LogoutLost, Cleared
  <2>2. disturbed' \in BOOLEAN
    BY DEF SessionSound, TypeOK, LogoutAnswered, LogoutLost
  <2> QED BY <1>1, <1>2, <2>1, <2>2 DEF SessionSound, TypeOK
<1>4. ASSUME ~disturbed' PROVE Undisturbed'
  <2>1. ~disturbed /\ logout[t].at = "deleted" /\ jar' = NoCookies
    BY <1>4 DEF LogoutAnswered, LogoutLost, Cleared
  <2>2. Undisturbed /\ LoggingOut(t)
    BY <2>1 DEF SessionSound, LoggingOut
  <2>3. \A a \in Actors : renewal'[a].at = "none"
    BY <1>1, <2>2 DEF Undisturbed, OneRequest, Renewing
  <2>4. \A u \in Tabs : logout'[u].at = "none"
    BY <1>2, <2>2 DEF Undisturbed, OneRequest, LoggingOut
  <2>5. CookieKnown'
    BY <1>1, <2>1, <2>2 DEF Undisturbed, RequestSound, CookieKnown, NoCookies
  <2> QED BY <1>1, <2>2, <2>3, <2>4, <2>5 DEF Undisturbed, OneRequest, RequestSound, Renewing, LoggingOut
<1>5. TokenIssued'
  BY <1>1 DEF SessionSound, TokenIssued
<1> QED BY <1>3, <1>4, <1>5 DEF SessionSound

LEMMA SessionStepSound == ASSUME SessionSound, [Next]_vars PROVE SessionSound'
<1>1. CASE UNCHANGED vars
  BY <1>1 DEF vars, SessionSound, TypeOK, TokenIssued, Undisturbed, OneRequest, RequestSound, CookieKnown,
     Renewing, LoggingOut, Busy
<1>2. CASE Next
  BY <1>2, QuietStepSound, LoginSound, UnauthorizedSound, ProxyRenewsSound, StageSound, AnsweredSound,
     LostSound, LogoutSound, LogoutHandledSound, LogoutEndsSound DEF Next
<1> QED BY <1>1, <1>2

-----------------------------------------------------------------------------
(* The order form                                                           *)

Text == Prices \cup Qtys \cup {Empty}

FormTyped ==
  /\ form \in [side : Sides, price : Text, qty : Text, touched : BOOLEAN]
  /\ typing.text \in Text
  /\ flights \in [Forms -> Nat]
  /\ reviewed \in [Forms -> [side : Sides, price : Text, qty : Text]]

\* What a dialog showed is what the store holds, or nothing can be sent: only
\* the user's changes, which forget what was shown, fill in a quantity.
ReviewedSound ==
  \A i \in Forms :
    \/ reviewed[i] = NoEntry
    \/ form.qty = Empty
    \/ reviewed[i] = Entry /\ form.price # Empty

\* The form of an order under way is the visible one, and is busy.
FlightSound ==
  ~dismissed => \A i \in Forms :
    /\ flights[i] <= 1
    /\ flights[i] > 0 => Visible(i) /\ i \in busy

FormSound == FormTyped /\ ReviewedSound /\ FlightSound

LEMMA FormInitSound == FormInit => FormSound
<1> SUFFICES ASSUME FormInit PROVE FormSound
  OBVIOUS
<1>1. FormTyped
  BY DEF FormInit, FormTyped, Text, Sides, NoEntry, NotTyping
<1>2. ReviewedSound /\ FlightSound
  BY DEF FormInit, ReviewedSound, FlightSound
<1> QED BY <1>1, <1>2 DEF FormSound

LEMMA NoEntryTyped == NoEntry \in [side : Sides, price : Text, qty : Text]
BY DEF NoEntry, Sides, Text

\* The user's changes of the store.
LEMMA EditSound ==
  ASSUME FormTyped, NEW f \in [side : Sides, price : Text, qty : Text, touched : BOOLEAN], Edit(f),
         flights' = flights, typing'.text \in Text
  PROVE  FormTyped' /\ ReviewedSound'
<1>1. form' = f /\ reviewed' = [i \in Forms |-> NoEntry]
  BY DEF Edit
<1>2. FormTyped'
  BY <1>1, NoEntryTyped DEF FormTyped
<1>3. ReviewedSound'
  BY <1>1 DEF ReviewedSound
<1> QED BY <1>2, <1>3

\* Steps that leave the requests and the window alone.
LEMMA FlightsStay ==
  ASSUME FlightSound, UNCHANGED <<window, flights, dismissed>>, busy \subseteq busy'
  PROVE  FlightSound'
BY DEF FlightSound, window, Visible

LEMMA FieldsSound ==
  ASSUME FormSound,
         \/ \E i \in Forms :
              \/ \E p \in {Empty} \cup Prices : Type(i, "price", p)
              \/ \E q \in {Empty} \cup (Qtys \ {0}) : Type(i, "qty", q)
              \/ \E p \in Prices : StepPrice(i, p)
              \/ \E q \in Qtys : ShareOfBalance(i, q)
              \/ \E s \in Sides : SetSide(i, s)
         \/ \E p \in Prices : PickPrice(p) \/ InitPrice(p)
         \/ Commit
  PROVE  FormSound'
<1> USE DEF FormSound
<1>1. FlightSound'
  BY FlightsStay DEF Type, StepPrice, ShareOfBalance, SetSide, PickPrice, InitPrice, Commit, dialogs,
     history
<1>2. FormTyped' /\ ReviewedSound'
  <2>1. ASSUME NEW i \in Forms, NEW field, NEW text \in Text, Type(i, field, text) PROVE FormTyped' /\ ReviewedSound'
    BY <2>1 DEF Type, FormTyped, ReviewedSound, Entry, history
  <2>2. ASSUME NEW i \in Forms, NEW p \in Prices, StepPrice(i, p) PROVE FormTyped' /\ ReviewedSound'
    <3>1. typing'.text \in Text
      BY <2>2 DEF StepPrice, NotTyping, FormTyped, Text
    <3>2. [form EXCEPT !.price = p, !.touched = TRUE]
            \in [side : Sides, price : Text, qty : Text, touched : BOOLEAN]
      BY DEF FormTyped, Text
    <3> QED BY <2>2, <3>1, <3>2, EditSound DEF StepPrice
  <2>3. ASSUME NEW i \in Forms, NEW q \in Qtys, ShareOfBalance(i, q) PROVE FormTyped' /\ ReviewedSound'
    <3>1. [form EXCEPT !.qty = q] \in [side : Sides, price : Text, qty : Text, touched : BOOLEAN]
      BY DEF FormTyped, Text
    <3> QED BY <2>3, <3>1, EditSound DEF ShareOfBalance, FormTyped
  <2>4. ASSUME NEW i \in Forms, NEW s \in Sides, SetSide(i, s) PROVE FormTyped' /\ ReviewedSound'
    <3>1. [form EXCEPT !.side = s, !.qty = Empty]
            \in [side : Sides, price : Text, qty : Text, touched : BOOLEAN]
      BY DEF FormTyped, Text
    <3> QED BY <2>4, <3>1, EditSound DEF SetSide, FormTyped
  <2>5. ASSUME NEW p \in Prices, PickPrice(p) PROVE FormTyped' /\ ReviewedSound'
    <3>1. [form EXCEPT !.price = p, !.touched = TRUE]
            \in [side : Sides, price : Text, qty : Text, touched : BOOLEAN]
      BY DEF FormTyped, Text
    <3> QED BY <2>5, <3>1, EditSound DEF PickPrice, FormTyped
  <2>6. ASSUME NEW p \in Prices, InitPrice(p) PROVE FormTyped' /\ ReviewedSound'
    <3>1. /\ form.price = Empty /\ form' = [form EXCEPT !.price = p]
          /\ UNCHANGED <<typing, flights, reviewed>>
      BY <2>6 DEF InitPrice, PriceUnset, history
    <3>2. FormTyped'
      BY <3>1 DEF FormTyped, Text
    <3>3. ReviewedSound'
      BY <3>1 DEF ReviewedSound, FormTyped
    <3> QED BY <3>2, <3>3
  <2>7. CASE Commit
    <3>1. typing' = NotTyping /\ typing.text \in Text /\ flights' = flights
      BY <2>7 DEF Commit, FormTyped
    <3>2. typing'.text \in Text
      BY <3>1 DEF NotTyping, Text
    <3>3. /\ [form EXCEPT !.price = typing.text, !.touched = TRUE]
               \in [side : Sides, price : Text, qty : Text, touched : BOOLEAN]
          /\ [form EXCEPT !.qty = typing.text]
               \in [side : Sides, price : Text, qty : Text, touched : BOOLEAN]
      BY DEF FormTyped
    <3> QED BY <2>7, <3>1, <3>2, <3>3, EditSound DEF Commit
  <2> QED BY <2>1, <2>2, <2>3, <2>4, <2>5, <2>6, <2>7 DEF Text
<1> QED BY <1>1, <1>2

\* Closing dialogs forgets what they showed.
LEMMA ClosedReviews ==
  ASSUME FormTyped, ReviewedSound, NEW S, Closed(S), form' = form
  PROVE  /\ reviewed' \in [Forms -> [side : Sides, price : Text, qty : Text]]
         /\ ReviewedSound'
<1>1. reviewed' = [i \in Forms |-> IF i \in S THEN NoEntry ELSE reviewed[i]]
  BY DEF Closed
<1> QED BY <1>1, NoEntryTyped DEF FormTyped, ReviewedSound, Entry

LEMMA DialogSound ==
  ASSUME FormSound, NEW i \in Forms, Submit(i) \/ Confirm(i) \/ CloseModal(i)
  PROVE  FormSound'
<1> USE DEF FormSound
<1>1. CASE Submit(i)
  <2>1. /\ Filled /\ reviewed' = [reviewed EXCEPT ![i] = Entry]
        /\ UNCHANGED <<form, typing, window, busy, flights, dismissed>>
    BY <1>1 DEF Submit, CanSubmit
  <2>2. Entry \in [side : Sides, price : Text, qty : Text]
    BY DEF FormTyped, Entry
  <2>3. FormTyped'
    BY <2>1, <2>2 DEF FormTyped
  <2>4. ReviewedSound'
    BY <2>1 DEF ReviewedSound, FormTyped, Entry, Filled
  <2> QED BY <2>1, <2>3, <2>4, FlightsStay
<1>2. CASE Confirm(i)
  <2>1. /\ Visible(i) /\ i \notin busy /\ busy' = busy \cup {i}
        /\ flights' = [flights EXCEPT ![i] = @ + 1]
        /\ UNCHANGED <<form, typing, window, reviewed, dismissed>>
    BY <1>2 DEF Confirm, BusyWith, history
  <2>2. FormTyped'
    BY <2>1 DEF FormTyped
  <2>3. ReviewedSound'
    BY <2>1 DEF ReviewedSound, Entry
  <2>4. FlightSound'
    <3> SUFFICES ASSUME ~dismissed', NEW j \in Forms
                 PROVE  flights'[j] <= 1 /\ (flights'[j] > 0 => Visible(j)' /\ j \in busy')
      BY DEF FlightSound
    <3>1. flights[i] = 0
      BY <2>1 DEF FlightSound, FormTyped
    <3>2. Visible(j)' <=> Visible(j)
      BY <2>1 DEF Visible, window
    <3> QED BY <2>1, <3>1, <3>2 DEF FlightSound, FormTyped
  <2> QED BY <2>2, <2>3, <2>4
<1>3. CASE CloseModal(i)
  <2>1. /\ Closed({i}) /\ dismissed' = (dismissed \/ Pending({i}))
        /\ UNCHANGED <<form, typing, window, busy, flights>>
    BY <1>3 DEF CloseModal
  <2>2. FormTyped' /\ ReviewedSound'
    BY <2>1, ClosedReviews DEF FormTyped
  <2>3. FlightSound'
    BY <2>1 DEF FlightSound, window, Visible
  <2> QED BY <2>2, <2>3
<1> QED BY <1>1, <1>2, <1>3

LEMMA WindowSound ==
  ASSUME FormSound,
         Resize \/ CloseSheet \/ \E i \in Forms, s \in Sides : OpenSheet(i, s)
  PROVE  FormSound'
<1> USE DEF FormSound
<1>1. CASE Resize
  <2>1. PICK closed : Closed(closed)
    BY <1>1 DEF Resize
  <2>2. /\ dismissed' = (dismissed \/ Pending(Forms))
        /\ UNCHANGED <<form, typing, flights>>
    BY <1>1 DEF Resize
  <2>3. FormTyped' /\ ReviewedSound'
    BY <2>1, <2>2, ClosedReviews DEF FormTyped
  <2>4. FlightSound'
    <3> SUFFICES ASSUME ~dismissed', NEW j \in Forms PROVE flights'[j] = 0
      BY DEF FlightSound
    <3>1. ~Pending(Forms)
      BY <2>2
    <3>2. ~(flights[j] > 0) /\ flights[j] \in Nat
      BY <3>1 DEF Pending, FormTyped
    <3> QED BY <2>2, <3>2
  <2> QED BY <2>3, <2>4
<1>2. CASE CloseSheet
  <2>1. /\ sheet' = 0 /\ typing' = NotTyping /\ Closed({sheet}) /\ busy' = busy \ {sheet}
        /\ dismissed' = (dismissed \/ Pending({sheet}))
        /\ UNCHANGED <<form, wide, flights>>
    BY <1>2 DEF CloseSheet
  <2>2. typing'.text \in Text
    BY <2>1 DEF NotTyping, Text
  <2>3. FormTyped' /\ ReviewedSound'
    BY <2>1, <2>2, ClosedReviews DEF FormTyped
  <2>4. FlightSound'
    <3> SUFFICES ASSUME ~dismissed', NEW j \in Forms
                 PROVE  flights[j] <= 1 /\ (flights[j] > 0 => Visible(j)' /\ j \in busy')
      BY <2>1 DEF FlightSound
    <3>1. ~dismissed /\ ~Pending({sheet})
      BY <2>1
    <3>2. flights[j] > 0 => j # sheet
      BY <3>1 DEF Pending
    <3>3. flights[j] <= 1 /\ (flights[j] > 0 => Visible(j) /\ j \in busy)
      BY <3>1 DEF FlightSound
    <3> QED BY <2>1, <3>2, <3>3 DEF Visible
  <2> QED BY <2>3, <2>4
<1>3. ASSUME NEW i \in Forms, NEW s \in Sides, OpenSheet(i, s) PROVE FormSound'
  <2>1. /\ ~wide /\ sheet = 0 /\ Edit([form EXCEPT !.side = s, !.qty = Empty])
        /\ UNCHANGED <<typing, wide, flights, dismissed>>
    BY <1>3 DEF OpenSheet
  <2>2. [form EXCEPT !.side = s, !.qty = Empty]
          \in [side : Sides, price : Text, qty : Text, touched : BOOLEAN]
    BY DEF FormTyped, Text
  <2>3. FormTyped' /\ ReviewedSound'
    BY <2>1, <2>2, EditSound DEF FormTyped
  <2>4. FlightSound'
    BY <2>1 DEF FlightSound, Visible
  <2> QED BY <2>3, <2>4
<1> QED BY <1>1, <1>2, <1>3

LEMMA AnswerSound == ASSUME FormSound, NEW i \in Forms, Placed(i) \/ Failed(i) PROVE FormSound'
<1> USE DEF FormSound
<1>1. /\ flights[i] > 0 /\ flights' = [flights EXCEPT ![i] = @ - 1]
      /\ dismissed' = (dismissed /\ \E j \in Forms : flights'[j] > 0)
  BY DEF Placed, Failed, Landed
<1>2. flights' \in [Forms -> Nat]
  BY <1>1 DEF FormTyped
\* Undisturbed, the answer is to the only order under way.
<1>3. FlightSound'
  <2> SUFFICES ASSUME ~dismissed', NEW j \in Forms PROVE flights'[j] = 0
    BY DEF FlightSound
  <2>1. CASE dismissed
    <3>1. ~\E k \in Forms : flights'[k] > 0
      BY <1>1, <2>1
    <3>2. ~(flights'[j] > 0) /\ flights'[j] \in Nat
      BY <1>2, <3>1
    <3> QED BY <3>2
  <2>2. CASE ~dismissed
    <3>1. flights[i] <= 1 /\ Visible(i) /\ flights[j] <= 1 /\ (flights[j] > 0 => Visible(j))
      BY <1>1, <2>2 DEF FlightSound
    <3>2. flights[j] > 0 => i = j
      BY <3>1 DEF Visible
    <3> QED BY <1>1, <3>1, <3>2 DEF FormTyped
  <2> QED BY <2>1, <2>2
<1>4. CASE Placed(i)
  <2>1. /\ form' = [form EXCEPT !.price = Empty, !.qty = Empty, !.touched = FALSE]
        /\ typing' \in {typing, NotTyping}
    BY <1>4 DEF Placed
  <2>2. PICK gone : Closed(gone)
    BY <1>4 DEF Placed
  <2>3. reviewed' = [k \in Forms |-> IF k \in gone THEN NoEntry ELSE reviewed[k]]
    BY <2>2 DEF Closed
  <2>4. form' \in [side : Sides, price : Text, qty : Text, touched : BOOLEAN] /\ form'.qty = Empty
    BY <2>1 DEF FormTyped, Text
  <2>5. typing'.text \in Text
    BY <2>1 DEF FormTyped, Text, NotTyping
  <2>6. reviewed' \in [Forms -> [side : Sides, price : Text, qty : Text]]
    BY <2>3, NoEntryTyped DEF FormTyped
  <2>7. FormTyped' /\ ReviewedSound'
    BY <1>2, <2>4, <2>5, <2>6 DEF FormTyped, ReviewedSound
  <2> QED BY <1>3, <2>7
<1>5. CASE Failed(i)
  <2>1. UNCHANGED <<form, typing, reviewed>>
    BY <1>5 DEF Failed
  <2>2. FormTyped' /\ ReviewedSound'
    BY <1>2, <2>1 DEF FormTyped, ReviewedSound, Entry
  <2> QED BY <1>3, <2>2
<1> QED BY <1>4, <1>5

LEMMA FormStepSound == ASSUME FormSound, [FormNext]_formVars PROVE FormSound'
<1>1. CASE UNCHANGED formVars
  <2>1. UNCHANGED <<form, typing, flights, reviewed>> /\ UNCHANGED <<window, busy, dismissed>>
    BY <1>1 DEF formVars, dialogs, history
  <2>2. FormTyped' /\ ReviewedSound'
    <3>1. FormTyped'
      BY <2>1 DEF FormSound, FormTyped
    <3>2. ReviewedSound'
      BY <2>1 DEF FormSound, ReviewedSound, Entry
    <3> QED BY <3>1, <3>2
  <2>3. FlightSound'
    BY <2>1, FlightsStay DEF FormSound
  <2> QED BY <2>2, <2>3 DEF FormSound
<1>2. CASE FormNext
  <2>1. \/ \/ \E i \in Forms :
              \/ \E p \in {Empty} \cup Prices : Type(i, "price", p)
              \/ \E q \in {Empty} \cup (Qtys \ {0}) : Type(i, "qty", q)
              \/ \E p \in Prices : StepPrice(i, p)
              \/ \E q \in Qtys : ShareOfBalance(i, q)
              \/ \E s \in Sides : SetSide(i, s)
           \/ \E p \in Prices : PickPrice(p) \/ InitPrice(p)
           \/ Commit
        \/ \E i \in Forms : Submit(i) \/ Confirm(i) \/ CloseModal(i)
        \/ Resize \/ CloseSheet \/ \E i \in Forms, s \in Sides : OpenSheet(i, s)
        \/ \E i \in Forms : Placed(i) \/ Failed(i)
    BY <1>2, Zenon DEF FormNext
  <2> QED BY <2>1, FieldsSound, DialogSound, WindowSound, AnswerSound
<1> QED BY <1>1, <1>2

\* Only a confirmation sends, and only what is filled in.
LEMMA FormSends ==
  ASSUME FormSound, [FormNext]_formVars, NEW i \in Forms, flights'[i] > flights[i]
  PROVE  reviewed[i] \in {NoEntry, Entry}
<1>1. flights \in [Forms -> Nat]
  BY DEF FormSound, FormTyped
<1>2. \A j \in Forms : Confirm(j) /\ flights'[i] > flights[i] => j = i
  BY <1>1 DEF Confirm
<1>3. \A j \in Forms : Landed(j) => ~(flights'[i] > flights[i])
  BY <1>1 DEF Landed
<1>4. Confirm(i) \/ flights' = flights \/ \E j \in Forms : Landed(j)
  BY <1>2 DEF FormNext, Type, StepPrice, ShareOfBalance, SetSide, OpenSheet, Submit, CloseModal, Placed,
     Failed, PickPrice, InitPrice, Commit, Resize, CloseSheet, formVars
<1>5. Confirm(i)
  BY <1>1, <1>3, <1>4
<1>6. Filled
  BY <1>5 DEF Confirm, Asked
<1> QED BY <1>6 DEF FormSound, ReviewedSound, Filled

-----------------------------------------------------------------------------
(* The list of markets                                                      *)

ListTyped ==
  /\ tickers \in [Markets -> Tickers] /\ timer \in BOOLEAN /\ early \in BOOLEAN /\ skipped \in BOOLEAN
  /\ view \in [filter : {"all", "watchlist", "holding"}, query : Markets \cup {NoQuery},
               key : {"acc", "price", "name"}, dir : {"asc", "desc"}]
  /\ search \in [open : BOOLEAN, typed : Markets \cup {NoQuery}, composing : BOOLEAN]

ListSound ==
  /\ ListTyped /\ ListFollowsView
  /\ ~search.open => search = NoSearch
  
LEMMA ListInitSound == ListInit => ListSound
<1> SUFFICES ASSUME ListInit PROVE ListSound
  OBVIOUS
<1>1. ListTyped
  BY DEF ListInit, ListTyped, DEFAULT_COIN_LIST_VIEW, NoSearch
<1>2. ListFollowsView
  BY DEF ListInit, ListFollowsView, DEFAULT_COIN_LIST_VIEW, NoSearch
<1> QED BY <1>1, <1>2 DEF ListSound, ListInit

\* The visible codes are a function of what the view and the tickers say.
LEMMA SameCodes ==
  ASSUME view' = view, watchlist' = watchlist, SortValues' = SortValues
  PROVE  VisibleCodes' = VisibleCodes
<1>1. {c \in Markets : InFilter(c) /\ view.query \in {NoQuery, c}}'
        = {c \in Markets : InFilter(c) /\ view.query \in {NoQuery, c}}
  BY DEF InFilter
<1> QED BY <1>1 DEF VisibleCodes

\* A tick that does not concern the order changes no value sorted by.
LEMMA TickKeepsOrder ==
  ASSUME ListTyped, NEW c \in Markets, NEW t \in Tickers, ~ShouldTickAffectList(tickers[c], t),
         tickers' = [tickers EXCEPT ![c] = t], view' = view
  PROVE  SortValues' = SortValues
<1>1. view.key \in {"acc", "price", "name"}
  BY DEF ListTyped
<1>2. /\ view.key = "acc" => t.acc = tickers[c].acc
      /\ view.key = "price" => t.price = tickers[c].price
  BY DEF ShouldTickAffectList
<1>3. /\ \A d \in Markets \ {c} : tickers'[d] = tickers[d]
      /\ tickers'[c] = t
  BY DEF ListTyped
<1>4. \A d \in Markets : SortValues'[d] = SortValues[d]
  BY <1>1, <1>2, <1>3 DEF SortValues
<1> QED BY <1>4 DEF SortValues

LEMMA UpsertSound ==
  ASSUME ListSound, NEW c \in Markets, NEW t \in Tickers, UpsertFromStream(c, t) PROVE ListSound'
<1> DEFINE affects == ShouldTickAffectList(tickers[c], t)
<1>1. /\ tickers' = [tickers EXCEPT ![c] = t]
      /\ timer' = (timer \/ (affects /\ ~early)) /\ skipped' = (skipped \/ (affects /\ early))
      /\ UNCHANGED <<watchlist, view, cached, early, search>>
  BY DEF UpsertFromStream
<1>2. ListTyped'
  <2>1. tickers' \in [Markets -> Tickers]
    BY <1>1 DEF ListSound, ListTyped
  <2>2. timer' \in BOOLEAN /\ skipped' \in BOOLEAN
    BY <1>1 DEF ListSound, ListTyped
  <2> QED BY <1>1, <2>1, <2>2 DEF ListSound, ListTyped
<1>3. ASSUME ~timer', ~skipped' PROVE cached' = VisibleCodes'
  <2>1. ~timer /\ ~skipped /\ ~affects
    BY <1>1, <1>3 DEF ListSound, ListTyped
  <2>2. SortValues' = SortValues
    BY <1>1, <2>1, TickKeepsOrder DEF ListSound
  <2> QED BY <1>1, <2>1, <2>2, SameCodes DEF ListSound, ListFollowsView
<1> QED BY <1>1, <1>2, <1>3 DEF ListSound, ListFollowsView

\* A changed view or watchlist schedules a computation.
LEMMA ScheduledSound ==
  ASSUME ListSound, ListTyped', timer' = TRUE, search' = search, view'.query = view.query
  PROVE  ListSound'
BY DEF ListSound, ListFollowsView

LEMMA ViewSound ==
  ASSUME ListSound,
         \/ \E c \in Markets : ToggleWatchlist(c)
         \/ \E f \in {"all", "watchlist", "holding"} : SetFilter(f)
         \/ \E k \in {"acc", "price", "name"} : SetSort(k)
  PROVE  ListSound'
<1>1. timer' = TRUE /\ UNCHANGED <<tickers, early, skipped, search>>
  BY DEF ToggleWatchlist, SetFilter, SetSort, View, Schedule
<1>2. view'.query = view.query
      /\ view' \in [filter : {"all", "watchlist", "holding"}, query : Markets \cup {NoQuery},
                    key : {"acc", "price", "name"}, dir : {"asc", "desc"}]
  <2>1. view \in [filter : {"all", "watchlist", "holding"}, query : Markets \cup {NoQuery},
                  key : {"acc", "price", "name"}, dir : {"asc", "desc"}]
    BY DEF ListSound, ListTyped
  <2>2. CASE \E c \in Markets : ToggleWatchlist(c)
    BY <2>1, <2>2 DEF ToggleWatchlist
  <2>3. ASSUME NEW f \in {"all", "watchlist", "holding"}, SetFilter(f)
        PROVE  view' = [view EXCEPT !.filter = f]
    BY <2>3 DEF SetFilter, View
  <2>4. ASSUME NEW k \in {"acc", "price", "name"}, SetSort(k)
        PROVE  \E l \in {"acc", "price", "name"}, d \in {"asc", "desc"} :
                 view' = [view EXCEPT !.key = l, !.dir = d]
    BY <2>4 DEF SetSort, View, DEFAULT_COIN_LIST_VIEW
  <2> QED BY <2>1, <2>2, <2>3, <2>4
<1>3. ListTyped'
  BY <1>1, <1>2 DEF ListSound, ListTyped
<1> QED BY <1>1, <1>2, <1>3, ScheduledSound

\* The query and what the panel shows; a query set anew schedules.
LEMMA QuerySound ==
  ASSUME ListSound, NEW q \in Markets \cup {NoQuery}, SetQuery(q),
         UNCHANGED <<tickers, watchlist, cached, early, skipped>>,
         search' \in [open : BOOLEAN, typed : Markets \cup {NoQuery}, composing : BOOLEAN],
         ~search'.composing => search'.typed = q, ~search'.open => search' = NoSearch
  PROVE  ListSound'
<1>1. CASE view.query = q /\ UNCHANGED <<view, timer>>
  <2>1. VisibleCodes' = VisibleCodes
    BY <1>1, SameCodes DEF SortValues
  <2> QED BY <1>1, <2>1 DEF ListSound, ListTyped, ListFollowsView
<1>2. CASE view' = [view EXCEPT !.query = q] /\ timer' = TRUE
  <2>1. /\ view'.query = q
        /\ view' \in [filter : {"all", "watchlist", "holding"}, query : Markets \cup {NoQuery},
                      key : {"acc", "price", "name"}, dir : {"asc", "desc"}]
    BY <1>2 DEF ListSound, ListTyped
  <2>2. ListTyped'
    BY <1>2, <2>1 DEF ListSound, ListTyped
  <2> QED BY <1>2, <2>1, <2>2 DEF ListSound, ListFollowsView
<1> QED BY <1>1, <1>2 DEF SetQuery, View, Schedule

LEMMA PanelSound ==
  ASSUME ListSound,
         \/ OpenPanel \/ ClosePanel \/ ComposeStart \/ ComposeEnd
         \/ \E q \in Markets \cup {NoQuery} : Search(q)
  PROVE  ListSound'
<1> USE DEF ListSound
<1>1. ListTyped /\ NoSearch \in [open : BOOLEAN, typed : Markets \cup {NoQuery}, composing : BOOLEAN]
  BY DEF NoSearch
<1>2. ASSUME UNCHANGED <<tickers, watchlist, view, cached, timer, early, skipped>>,
             search' \in [open : BOOLEAN, typed : Markets \cup {NoQuery}, composing : BOOLEAN],
             search'.open, ~search'.composing => search'.typed = view.query
      PROVE  ListSound'
  <2>1. VisibleCodes' = VisibleCodes
    BY <1>2, SameCodes DEF SortValues
  <2> QED BY <1>2, <2>1 DEF ListTyped, ListFollowsView
<1>3. CASE OpenPanel
  <2>1. search' = [NoSearch EXCEPT !.open = TRUE, !.typed = view.query]
    BY <1>3 DEF OpenPanel
  <2>2. /\ search' \in [open : BOOLEAN, typed : Markets \cup {NoQuery}, composing : BOOLEAN]
        /\ search'.open /\ search'.typed = view.query
    BY <1>1, <2>1 DEF ListTyped, NoSearch
  <2> QED BY <1>2, <1>3, <2>2 DEF OpenPanel
<1>4. CASE ClosePanel
  <2>1. search' = NoSearch /\ NoSearch.typed = NoQuery
    BY <1>4 DEF ClosePanel, NoSearch
  <2> QED BY <1>1, <1>4, <2>1, QuerySound DEF ClosePanel
<1>5. CASE ComposeStart
  <2>1. /\ search' \in [open : BOOLEAN, typed : Markets \cup {NoQuery}, composing : BOOLEAN]
        /\ search'.open /\ search'.composing
    BY <1>1, <1>5 DEF ComposeStart, ListTyped
  <2> QED BY <1>2, <1>5, <2>1 DEF ComposeStart
<1>6. CASE ComposeEnd
  <2>1. /\ search' \in [open : BOOLEAN, typed : Markets \cup {NoQuery}, composing : BOOLEAN]
        /\ search'.typed = search.typed /\ search'.open = search.open
        /\ search.typed \in Markets \cup {NoQuery} /\ search.composing
    BY <1>1, <1>6 DEF ComposeEnd, ListTyped
  <2>2. search.open
    BY <2>1 DEF NoSearch
  <2>3. search'.open
    BY <2>1, <2>2
  <2> QED BY <1>6, <2>1, <2>3, QuerySound DEF ComposeEnd
<1>7. ASSUME NEW q \in Markets \cup {NoQuery}, Search(q) PROVE ListSound'
  <2>1. /\ search' \in [open : BOOLEAN, typed : Markets \cup {NoQuery}, composing : BOOLEAN]
        /\ search'.typed = q /\ search'.open /\ search'.composing = search.composing
    BY <1>1, <1>7 DEF Search, ListTyped
  <2>2. CASE search.composing
    BY <1>2, <1>7, <2>1, <2>2 DEF Search
  <2>3. CASE ~search.composing
    BY <1>7, <2>1, <2>3, QuerySound DEF Search
  <2> QED BY <2>2, <2>3
<1> QED BY <1>3, <1>4, <1>5, <1>6, <1>7

LEMMA ListStepSound == ASSUME ListSound, [ListNext]_listVars PROVE ListSound'
<1> USE DEF ListSound
<1>1. ASSUME UNCHANGED <<tickers, watchlist, view, cached, timer, skipped, search>>, early' \in BOOLEAN
      PROVE  ListSound'
  <2>1. VisibleCodes' = VisibleCodes
    BY <1>1, SameCodes DEF SortValues
  <2> QED BY <1>1, <2>1 DEF ListTyped, ListFollowsView
<1>2. CASE StreamSettles \/ UNCHANGED listVars
  BY <1>1, <1>2 DEF StreamSettles, listVars, ListTyped
<1>3. CASE Recompute
  <2>1. /\ cached' = VisibleCodes /\ timer' = FALSE /\ skipped' = FALSE
        /\ UNCHANGED <<tickers, watchlist, view, early, search>>
    BY <1>3 DEF Recompute
  <2>2. VisibleCodes' = VisibleCodes
    BY <2>1, SameCodes DEF SortValues
  <2> QED BY <2>1, <2>2 DEF ListTyped, ListFollowsView
<1> QED BY <1>2, <1>3, UpsertSound, ViewSound, PanelSound DEF ListNext

-----------------------------------------------------------------------------
(* The star                                                                 *)

StarRequest == [from : {"bar", "list"}, prev : BOOLEAN,
                stage : {"sent", "found", "found no more", "not found", "failed", "done"}]

\* Requests whose click the row does not know of, or not yet.
Outstanding(rs) == {k \in DOMAIN rs : rs[k].stage # "done"}
Odd(n) == n % 2 = 1

StarTyped ==
  /\ row \in BOOLEAN /\ star \in BOOLEAN /\ bar \in BOOLEAN
  /\ strayed \in BOOLEAN /\ mixed \in BOOLEAN
  /\ requests \in Seq(StarRequest)

\* Each click outstanding makes the star and the row differ once more.
StarSound ==
  /\ StarTyped
  /\ \A k \in DOMAIN requests : requests[k].stage = "found" => row
  /\ ~strayed => (star # row <=> Odd(Cardinality(Outstanding(requests))))
  /\ ~mixed => /\ Len(requests) <= 1 /\ bar = star
               /\ requests # <<>> => requests[1].from = "bar" /\ requests[1].prev = ~bar

LEMMA OutstandingFinite ==
  ASSUME NEW rs \in Seq(StarRequest)
  PROVE  IsFiniteSet(Outstanding(rs)) /\ Cardinality(Outstanding(rs)) \in Nat
<1>1. IsFiniteSet(1..Len(rs))
  BY FS_Interval
<1>2. Outstanding(rs) \subseteq 1..Len(rs)
  BY DEF Outstanding
<1>3. IsFiniteSet(Outstanding(rs))
  BY <1>1, <1>2, FS_Subset
<1> QED BY <1>3, FS_CardinalityType

\* A click is one more.
LEMMA OutstandingAppend ==
  ASSUME NEW rs \in Seq(StarRequest), NEW r \in StarRequest, r.stage # "done"
  PROVE  Cardinality(Outstanding(Append(rs, r))) = Cardinality(Outstanding(rs)) + 1
<1>1. Outstanding(Append(rs, r)) = Outstanding(rs) \cup {Len(rs) + 1}
  BY DEF Outstanding
<1>2. Len(rs) + 1 \notin Outstanding(rs)
  BY DEF Outstanding
<1> QED BY <1>1, <1>2, OutstandingFinite, FS_AddElement

\* A request done is one less.
LEMMA OutstandingDone ==
  ASSUME NEW rs \in Seq(StarRequest), NEW qs \in Seq(StarRequest), NEW k \in Outstanding(rs),
         Outstanding(qs) = Outstanding(rs) \ {k}
  PROVE  Cardinality(Outstanding(qs)) = Cardinality(Outstanding(rs)) - 1
BY OutstandingFinite, FS_RemoveElement

\* What remains when a request is taken out of the sequence.
LEMMA Removed ==
  ASSUME NEW rs \in Seq(StarRequest), NEW k \in DOMAIN rs
  PROVE  /\ RemoveAt(rs, k) \in Seq(StarRequest) /\ Len(RemoveAt(rs, k)) = Len(rs) - 1
         /\ \A j \in 1..(Len(rs) - 1) : RemoveAt(rs, k)[j] = rs[IF j < k THEN j ELSE j + 1]
<1>1. k \in 1..Len(rs) /\ Len(rs) \in Nat
  OBVIOUS
<1>2. SubSeq(rs, 1, k - 1) \in Seq(StarRequest) /\ Len(SubSeq(rs, 1, k - 1)) = k - 1
      /\ \A j \in 1..(k - 1) : SubSeq(rs, 1, k - 1)[j] = rs[j]
  BY <1>1
<1>3. SubSeq(rs, k + 1, Len(rs)) \in Seq(StarRequest) /\ Len(SubSeq(rs, k + 1, Len(rs))) = Len(rs) - k
      /\ \A j \in 1..(Len(rs) - k) : SubSeq(rs, k + 1, Len(rs))[j] = rs[k + j]
  BY <1>1
<1>4. RemoveAt(rs, k) = SubSeq(rs, 1, k - 1) \o SubSeq(rs, k + 1, Len(rs))
  BY DEF RemoveAt
<1> DEFINE a == SubSeq(rs, 1, k - 1)
           b == SubSeq(rs, k + 1, Len(rs))
<1>5. a \in Seq(StarRequest) /\ b \in Seq(StarRequest) /\ Len(a) = k - 1 /\ Len(b) = Len(rs) - k
  BY <1>2, <1>3
<1>6. /\ \A j \in 1..(k - 1) : a[j] = rs[j]
      /\ \A j \in 1..(Len(rs) - k) : b[j] = rs[k + j]
  BY <1>2, <1>3
<1>7. RemoveAt(rs, k) = a \o b
  BY <1>4
<1> HIDE DEF a, b
<1>8. RemoveAt(rs, k) \in Seq(StarRequest) /\ Len(RemoveAt(rs, k)) = Len(rs) - 1
  <2>1. a \o b \in Seq(StarRequest) /\ Len(a \o b) = Len(a) + Len(b)
    BY <1>5, ConcatProperties
  <2> QED BY <1>1, <1>5, <1>7, <2>1
<1>9. ASSUME NEW j \in 1..(Len(rs) - 1) PROVE RemoveAt(rs, k)[j] = rs[IF j < k THEN j ELSE j + 1]
  <2>1. j \in 1..(Len(a) + Len(b))
    BY <1>1, <1>5
  <2>2. (a \o b)[j] = IF j <= Len(a) THEN a[j] ELSE b[j - Len(a)]
    BY <1>5, <2>1, ConcatProperties
  <2>3. CASE j < k
    BY <1>1, <1>5, <1>6, <1>7, <2>2, <2>3
  <2>4. CASE ~(j < k)
    <3>1. j - (k - 1) \in 1..(Len(rs) - k) /\ k + (j - (k - 1)) = j + 1 /\ ~(j <= Len(a))
      BY <1>1, <1>5, <2>4
    <3>2. b[j - (k - 1)] = rs[j + 1]
      BY <1>6, <3>1
    <3> QED BY <1>5, <1>7, <2>2, <2>4, <3>1, <3>2
  <2> QED BY <2>3, <2>4
<1> QED BY <1>8, <1>9

LEMMA OutstandingRemove ==
  ASSUME NEW rs \in Seq(StarRequest), NEW k \in DOMAIN rs
  PROVE  Cardinality(Outstanding(RemoveAt(rs, k))) =
           IF rs[k].stage = "done" THEN Cardinality(Outstanding(rs)) ELSE Cardinality(Outstanding(rs)) - 1
<1> DEFINE O == Outstanding(rs) \ {k}
           R == Outstanding(RemoveAt(rs, k))
           f == [j \in O |-> IF j < k THEN j ELSE j - 1]
<1>1. k \in 1..Len(rs) /\ Len(rs) \in Nat
  OBVIOUS
<1>2. O = {j \in 1..Len(rs) : j # k /\ rs[j].stage # "done"}
  BY DEF Outstanding
<1>3. R = {j \in 1..(Len(rs) - 1) : rs[IF j < k THEN j ELSE j + 1].stage # "done"}
  <2>1. DOMAIN RemoveAt(rs, k) = 1..(Len(rs) - 1)
    BY Removed
  <2> QED BY <2>1, Removed DEF Outstanding
<1> HIDE DEF O, R
<1>4. \A j \in O : f[j] \in R
  BY <1>1, <1>2, <1>3
<1>5. \A i, j \in O : f[i] = f[j] => i = j
  BY <1>1, <1>2
<1>6. \A j \in R : \E i \in O : f[i] = j
  <2> TAKE j \in R
  <2>1. (IF j < k THEN j ELSE j + 1) \in O
    BY <1>1, <1>2, <1>3
  <2>2. f[IF j < k THEN j ELSE j + 1] = j
    BY <1>1, <1>2, <1>3, <2>1
  <2> QED BY <2>1, <2>2
<1>7. f \in Bijection(O, R)
  <2>1. f \in [O -> R]
    BY <1>4
  <2> HIDE DEF f
  <2> QED BY <2>1, <1>5, <1>6 DEF Bijection, Injection, Surjection, IsInjective
<1>8. ExistsBijection(O, R)
  BY <1>7 DEF ExistsBijection
<1>9. IsFiniteSet(O) /\ Cardinality(O) = IF rs[k].stage = "done" THEN Cardinality(Outstanding(rs))
                                        ELSE Cardinality(Outstanding(rs)) - 1
  <2>1. IsFiniteSet(Outstanding(rs)) /\ (k \in Outstanding(rs) <=> rs[k].stage # "done")
    BY OutstandingFinite DEF Outstanding
  <2> QED BY <2>1, FS_RemoveElement DEF O
<1>10. Cardinality(R) = Cardinality(O)
  BY <1>8, <1>9, FS_Bijection
<1> QED BY <1>9, <1>10 DEF R

LEMMA StarInitSound == StarInit => StarSound
<1> SUFFICES ASSUME StarInit PROVE StarSound
  OBVIOUS
<1>1. StarTyped
  <2>1. row \in BOOLEAN /\ star \in BOOLEAN /\ bar \in BOOLEAN /\ strayed \in BOOLEAN /\ mixed \in BOOLEAN
    BY Zenon DEF StarInit
  <2>2. requests \in Seq(StarRequest)
    BY EmptySeq DEF StarInit
  <2> QED BY <2>1, <2>2 DEF StarTyped
<1>2. Outstanding(requests) = {}
  BY DEF StarInit, Outstanding
<1>3. Cardinality(Outstanding(requests)) = 0
  BY <1>2, FS_EmptySet
<1>4. ~Odd(0)
  BY DEF Odd
<1>5. star # row <=> Odd(Cardinality(Outstanding(requests)))
  <2>1. star = row
    BY DEF StarInit
  <2> QED BY <1>3, <1>4, <2>1
<1> QED BY <1>1, <1>5 DEF StarInit, StarSound

LEMMA OddNext == ASSUME NEW n \in Nat PROVE Odd(n + 1) <=> ~Odd(n)
BY DEF Odd

\* One request or one less changes whether their number is odd.
LEMMA ParityFlips ==
  ASSUME NEW m \in Nat, NEW n \in Nat, m = n + 1 \/ n = m - 1 \/ m = n - 1 \/ n = m + 1
  PROVE  Odd(m) <=> ~Odd(n)
BY OddNext

\* The server's steps leave the page and the other requests' origin alone.
LEMMA ReachTyped ==
  ASSUME StarTyped, NEW k \in DOMAIN requests,
         NEW s \in {"found", "found no more", "not found", "failed", "done"}, Reach(k, s)
  PROVE  /\ requests' \in Seq(StarRequest) /\ Len(requests') = Len(requests)
         /\ DOMAIN requests' = DOMAIN requests
         /\ \A j \in DOMAIN requests : requests'[j].stage = IF j = k THEN s ELSE requests[j].stage
         /\ \A j \in DOMAIN requests : /\ requests'[j].from = requests[j].from
                                       /\ requests'[j].prev = requests[j].prev
<1>1. requests \in Seq(StarRequest) /\ DOMAIN requests = 1..Len(requests)
  BY LenProperties DEF StarTyped
<1>2. requests[k] \in StarRequest
  BY <1>1, ElementOfSeq
<1> DEFINE r == [requests[k] EXCEPT !.stage = s]
<1>3. r \in StarRequest /\ r.stage = s /\ r.from = requests[k].from /\ r.prev = requests[k].prev
  BY <1>2 DEF StarRequest
<1>4. requests' = [requests EXCEPT ![k] = r]
  BY DEF Reach
<1> HIDE DEF r
<1>5. /\ requests' \in Seq(StarRequest) /\ Len(requests') = Len(requests)
      /\ \A j \in 1..Len(requests) : requests'[j] = IF j = k THEN r ELSE requests[j]
  BY <1>1, <1>3, <1>4, ExceptSeq
<1>6. DOMAIN requests' = DOMAIN requests
  BY <1>4
<1> QED BY <1>1, <1>3, <1>5, <1>6

\* The conjuncts of StarSound.
FoundIsThere == \A k \in DOMAIN requests : requests[k].stage = "found" => row
Parity       == ~strayed => (star # row <=> Odd(Cardinality(Outstanding(requests))))
OneClick     == ~mixed => /\ Len(requests) <= 1 /\ bar = star
                          /\ requests # <<>> => requests[1].from = "bar" /\ requests[1].prev = ~bar

LEMMA StarParts == StarSound <=> StarTyped /\ FoundIsThere /\ Parity /\ OneClick
BY Zenon DEF StarSound, FoundIsThere, Parity, OneClick

LEMMA NumberOutstanding ==
  StarTyped => Cardinality(Outstanding(requests)) \in Nat /\ Len(requests) \in Nat
BY OutstandingFinite, LenProperties DEF StarTyped

LEMMA ClickSound == ASSUME StarSound, NEW from \in {"bar", "list"}, Click(from) PROVE StarSound'
<1> DEFINE r == [from |-> from, prev |-> bar, stage |-> "sent"]
<1>1. StarTyped /\ FoundIsThere /\ Parity /\ OneClick
  BY StarParts
<1>2. /\ star' = ~star /\ bar' = IF from = "bar" THEN ~bar ELSE bar
      /\ requests' = Append(requests, r)
      /\ mixed' = (mixed \/ from = "list" \/ requests # <<>>)
      /\ row' = row /\ strayed' = strayed
  BY DEF Click
<1>3. r \in StarRequest /\ r.stage = "sent" /\ r.from = from /\ r.prev = bar
  BY <1>1 DEF StarRequest, StarTyped
<1> HIDE DEF r
<1>4. requests \in Seq(StarRequest) /\ DOMAIN requests = 1..Len(requests) /\ Len(requests) \in Nat
  BY <1>1, LenProperties DEF StarTyped
<1>5. /\ requests' \in Seq(StarRequest) /\ Len(requests') = Len(requests) + 1
      /\ DOMAIN requests' = 1..(Len(requests) + 1)
      /\ \A j \in 1..Len(requests) : requests'[j] = requests[j]
      /\ requests'[Len(requests) + 1] = r
  BY <1>2, <1>3, <1>4
<1>6. StarTyped'
  <2>1. star' \in BOOLEAN /\ bar' \in BOOLEAN /\ mixed' \in BOOLEAN
    BY <1>1, <1>2, Zenon DEF StarTyped
  <2> QED BY <1>1, <1>2, <1>5, <2>1 DEF StarTyped
<1>7. FoundIsThere'
  <2> SUFFICES ASSUME NEW j \in 1..(Len(requests) + 1), requests'[j].stage = "found" PROVE row
    BY <1>2, <1>5 DEF FoundIsThere
  <2>1. j \in 1..Len(requests)
    BY <1>3, <1>4, <1>5
  <2> QED BY <1>1, <1>4, <1>5, <2>1 DEF FoundIsThere
<1>8. Parity'
  <2>1. Cardinality(Outstanding(requests')) = Cardinality(Outstanding(requests)) + 1
    BY <1>2, <1>3, <1>4, OutstandingAppend
  <2>2. Odd(Cardinality(Outstanding(requests'))) <=> ~Odd(Cardinality(Outstanding(requests)))
    BY <1>1, <2>1, NumberOutstanding, OddNext
  <2>3. star' # row' <=> ~(star # row)
    BY <1>1, <1>2, Zenon DEF StarTyped
  <2> QED BY <1>1, <1>2, <2>2, <2>3 DEF Parity
<1>9. OneClick'
  <2> SUFFICES ASSUME ~mixed'
               PROVE  Len(requests') <= 1 /\ bar' = star' /\ requests'[1].from = "bar" /\ requests'[1].prev = ~bar'
    BY Zenon DEF OneClick
  <2>1. ~mixed /\ from = "bar" /\ requests = <<>>
    BY <1>2
  <2>2. Len(requests) = 0
    BY <2>1
  <2>3. bar = star
    BY <1>1, <2>1 DEF OneClick
  <2>4. bar' = ~bar /\ star' = ~star
    BY <1>2, <2>1
  <2>5. bar = ~bar'
    BY <1>1, <2>4, Zenon DEF StarTyped
  <2>6. requests'[1] = r
    BY <1>5, <2>2
  <2>7. Len(requests') <= 1
    BY <1>5, <2>2
  <2>8. bar' = star'
    BY <2>3, <2>4
  <2>9. requests'[1].from = "bar" /\ requests'[1].prev = ~bar'
    BY <1>3, <2>1, <2>5, <2>6
  <2> QED BY <2>7, <2>8, <2>9
<1> QED
  <2>1. StarTyped' /\ FoundIsThere' /\ Parity' /\ OneClick'
    BY <1>6, <1>7, <1>8, <1>9
  <2> QED BY <2>1, StarParts, PTL

\* A step of the server leaves what the page asked.
LEMMA OneClickKept ==
  ASSUME OneClick, UNCHANGED <<star, bar, mixed>>, Len(requests') = Len(requests),
         StarTyped, requests' \in Seq(StarRequest),
         \A j \in DOMAIN requests : requests'[j].from = requests[j].from /\ requests'[j].prev = requests[j].prev
  PROVE  OneClick'
<1>1. requests # <<>> => 1 \in DOMAIN requests
  BY LenProperties, EmptySeq DEF StarTyped
<1>2. requests' # <<>> => requests # <<>>
  BY EmptySeq DEF StarTyped
<1> QED BY <1>1, <1>2 DEF OneClick

LEMMA ServerSound ==
  ASSUME StarSound, NEW k \in DOMAIN requests, FindOne(k) \/ RemoveNothing(k) \/ SaveRow(k)
  PROVE  StarSound'
<1>1. StarTyped /\ FoundIsThere /\ Parity /\ OneClick
  BY StarParts
<1>2. PICK s \in {"found", "found no more", "not found", "failed", "done"} : Reach(k, s)
  BY DEF FindOne, RemoveNothing, SaveRow
<1>3. /\ requests' \in Seq(StarRequest) /\ Len(requests') = Len(requests)
      /\ DOMAIN requests' = DOMAIN requests
      /\ \A j \in DOMAIN requests : requests'[j].stage = IF j = k THEN s ELSE requests[j].stage
      /\ \A j \in DOMAIN requests : /\ requests'[j].from = requests[j].from
                                    /\ requests'[j].prev = requests[j].prev
  BY <1>1, <1>2, ReachTyped
<1>4. UNCHANGED <<star, bar, mixed>>
  BY DEF FindOne, RemoveNothing, SaveRow
<1>5. OneClick'
  BY <1>1, <1>3, <1>4, OneClickKept
<1>6. requests'[k].stage = s
  BY <1>3
<1>7. CASE FindOne(k)
  <2>1. /\ requests[k].stage = "sent" /\ row' = row /\ strayed' = strayed
        /\ Reach(k, IF row THEN "found" ELSE "not found")
    BY <1>7 DEF FindOne
  <2>2. requests'[k].stage = IF row THEN "found" ELSE "not found"
    BY <1>1, <2>1, ReachTyped
  <2>3. StarTyped'
    BY <1>1, <1>3, <1>4, <2>1 DEF StarTyped
  <2>4. FoundIsThere'
    BY <1>1, <1>3, <1>6, <2>1, <2>2 DEF FoundIsThere
  <2>5. Outstanding(requests') = Outstanding(requests)
    BY <1>3, <1>6, <2>1, <2>2 DEF Outstanding
  <2>6. Parity'
    BY <1>1, <1>4, <2>1, <2>5 DEF Parity
  <2> QED
    <3>1. StarTyped' /\ FoundIsThere' /\ Parity' /\ OneClick'
      BY <1>5, <2>3, <2>4, <2>6
    <3> QED BY <3>1, StarParts, PTL
<1>8. CASE RemoveNothing(k)
  <2>1. requests[k].stage = "found no more" /\ Reach(k, "done") /\ row' = row /\ strayed' = TRUE
    BY <1>8 DEF RemoveNothing
  <2>2. requests'[k].stage = "done"
    BY <1>1, <2>1, ReachTyped
  <2>3. StarTyped'
    BY <1>1, <1>3, <1>4, <2>1 DEF StarTyped
  <2>4. FoundIsThere'
    BY <1>1, <1>3, <1>6, <2>1, <2>2 DEF FoundIsThere
  <2>5. Parity'
    BY <2>1 DEF Parity
  <2> QED
    <3>1. StarTyped' /\ FoundIsThere' /\ Parity' /\ OneClick'
      BY <1>5, <2>3, <2>4, <2>5
    <3> QED BY <3>1, StarParts, PTL
<1>9. CASE SaveRow(k)
  <2>1. /\ requests[k].stage = "not found" /\ row' = TRUE /\ strayed' = strayed
        /\ Reach(k, IF row THEN "failed" ELSE "done")
    BY <1>9 DEF SaveRow
  <2>2. requests'[k].stage = IF row THEN "failed" ELSE "done"
    BY <1>1, <2>1, ReachTyped
  <2>3. StarTyped'
    BY <1>1, <1>3, <1>4, <2>1 DEF StarTyped
  <2>4. FoundIsThere'
    BY <2>1 DEF FoundIsThere
  <2>5. Parity'
    <3>1. CASE row
      <4>1. Outstanding(requests') = Outstanding(requests)
        BY <1>3, <1>6, <2>1, <2>2, <3>1 DEF Outstanding
      <4> QED BY <1>1, <1>4, <2>1, <3>1, <4>1 DEF Parity
    <3>2. CASE ~row
      <4>1. Outstanding(requests') = Outstanding(requests) \ {k} /\ k \in Outstanding(requests)
        BY <1>3, <1>6, <2>1, <2>2, <3>2 DEF Outstanding
      <4>2. Cardinality(Outstanding(requests')) = Cardinality(Outstanding(requests)) - 1
        BY <1>1, <1>3, <4>1, OutstandingDone DEF StarTyped
      <4>3. Odd(Cardinality(Outstanding(requests'))) <=> ~Odd(Cardinality(Outstanding(requests)))
        BY <1>1, <1>3, <4>2, OutstandingFinite, ParityFlips DEF StarTyped
      <4>4. star' # row' <=> ~(star # row)
        <5>1. star' = star /\ row' = TRUE /\ row = FALSE /\ star \in BOOLEAN
          BY <1>1, <1>4, <2>1, <3>2 DEF StarTyped
        <5> QED BY <5>1
      <4> QED BY <1>1, <2>1, <4>3, <4>4 DEF Parity
    <3> QED BY <3>1, <3>2
  <2> QED
    <3>1. StarTyped' /\ FoundIsThere' /\ Parity' /\ OneClick'
      BY <1>5, <2>3, <2>4, <2>5
    <3> QED BY <3>1, StarParts, PTL
<1> QED BY <1>7, <1>8, <1>9

LEMMA RemoveRowSound == ASSUME StarSound, NEW k \in DOMAIN requests, RemoveRow(k) PROVE StarSound'
<1>1. StarTyped /\ FoundIsThere /\ Parity /\ OneClick
  BY StarParts
<1>2. /\ requests[k].stage = "found" /\ row' = FALSE /\ UNCHANGED <<star, bar, strayed, mixed>>
      /\ requests' = [j \in DOMAIN requests |->
           IF j = k THEN [requests[j] EXCEPT !.stage = "done"]
           ELSE IF requests[j].stage = "found" THEN [requests[j] EXCEPT !.stage = "found no more"]
           ELSE requests[j]]
  BY DEF RemoveRow
<1>3. row
  BY <1>1, <1>2 DEF FoundIsThere
<1>4. requests \in Seq(StarRequest) /\ DOMAIN requests = 1..Len(requests) /\ Len(requests) \in Nat
  BY <1>1, LenProperties DEF StarTyped
<1>5. \A j \in DOMAIN requests :
        /\ requests'[j] \in StarRequest
        /\ requests'[j].stage = IF j = k THEN "done"
                                ELSE IF requests[j].stage = "found" THEN "found no more"
                                ELSE requests[j].stage
        /\ requests'[j].from = requests[j].from /\ requests'[j].prev = requests[j].prev
  <2> TAKE j \in DOMAIN requests
  <2>1. requests[j] \in StarRequest
    BY <1>4, ElementOfSeq
  <2>2. requests'[j] = IF j = k THEN [requests[j] EXCEPT !.stage = "done"]
                       ELSE IF requests[j].stage = "found" THEN [requests[j] EXCEPT !.stage = "found no more"]
                       ELSE requests[j]
    BY <1>2
  <2> QED BY <2>1, <2>2 DEF StarRequest
<1>6. DOMAIN requests' = 1..Len(requests)
  BY <1>2, <1>4
<1>7. requests' \in Seq(StarRequest) /\ Len(requests') = Len(requests)
  <2>1. requests' = [j \in 1..Len(requests) |-> requests'[j]]
    BY <1>2, <1>4
  <2>2. requests' \in [1..Len(requests) -> StarRequest]
    BY <1>4, <1>5, <2>1
  <2> QED BY <1>4, <2>2
<1>8. StarTyped'
  BY <1>1, <1>2, <1>7 DEF StarTyped
<1>9. FoundIsThere'
  BY <1>4, <1>5, <1>6 DEF FoundIsThere
<1>10. Parity'
  <2>1. Outstanding(requests') = Outstanding(requests) \ {k} /\ k \in Outstanding(requests)
    <3>1. Outstanding(requests') = {j \in 1..Len(requests) : requests'[j].stage # "done"}
      BY <1>6 DEF Outstanding
    <3>2. Outstanding(requests) = {j \in 1..Len(requests) : requests[j].stage # "done"}
      BY <1>4 DEF Outstanding
    <3>3. \A j \in 1..Len(requests) : requests'[j].stage # "done" <=> j # k /\ requests[j].stage # "done"
      BY <1>4, <1>5
    <3> QED BY <1>2, <1>4, <3>1, <3>2, <3>3
  <2>2. Cardinality(Outstanding(requests')) = Cardinality(Outstanding(requests)) - 1
    BY <1>4, <1>7, <2>1, OutstandingDone
  <2>3. Odd(Cardinality(Outstanding(requests'))) <=> ~Odd(Cardinality(Outstanding(requests)))
    BY <1>4, <1>7, <2>2, OutstandingFinite, ParityFlips
  <2>4. star' # row' <=> ~(star # row)
    <3>1. star' = star /\ row' = FALSE /\ row = TRUE /\ star \in BOOLEAN
      BY <1>1, <1>2, <1>3 DEF StarTyped
    <3> QED BY <3>1
  <2> QED BY <1>1, <1>2, <2>3, <2>4 DEF Parity
<1>11. OneClick'
  BY <1>1, <1>2, <1>5, <1>7, OneClickKept
<1> QED
  <2>1. StarTyped' /\ FoundIsThere' /\ Parity' /\ OneClick'
    BY <1>8, <1>9, <1>10, <1>11
  <2> QED BY <2>1, StarParts, PTL

LEMMA ToggleAnsweredSound ==
  ASSUME StarSound, NEW k \in DOMAIN requests, ToggleAnswered(k) PROVE StarSound'
<1> DEFINE r == requests[k]
           refused == star' = ~star /\ bar' = IF r.from = "bar" THEN r.prev ELSE bar
<1>1. StarTyped /\ FoundIsThere /\ Parity /\ OneClick
  BY StarParts
<1>2. /\ requests' = RemoveAt(requests, k) /\ row' = row /\ mixed' = mixed
      /\ \/ r.stage = "done" /\ UNCHANGED <<star, bar, strayed>>
         \/ refused /\ strayed' = (strayed \/ r.stage = "done")
  BY DEF ToggleAnswered, StarAfterFailure
<1>3. requests \in Seq(StarRequest) /\ DOMAIN requests = 1..Len(requests) /\ Len(requests) \in Nat
  BY <1>1, LenProperties DEF StarTyped
<1>4. r \in StarRequest
  BY <1>3, ElementOfSeq
<1>5. /\ requests' \in Seq(StarRequest) /\ Len(requests') = Len(requests) - 1
      /\ \A j \in 1..(Len(requests) - 1) : requests'[j] = requests[IF j < k THEN j ELSE j + 1]
  BY <1>2, <1>3, Removed
<1>6. DOMAIN requests' = 1..(Len(requests) - 1)
  BY <1>5, LenProperties
<1>7. StarTyped'
  <2>1. star' \in BOOLEAN /\ bar' \in BOOLEAN
    BY <1>1, <1>2, <1>4 DEF StarTyped, StarRequest
  <2>2. strayed' \in BOOLEAN
    BY <1>1, <1>2, Zenon DEF StarTyped
  <2> QED BY <1>1, <1>2, <1>5, <2>1, <2>2 DEF StarTyped
<1>8. FoundIsThere'
  <2> SUFFICES ASSUME NEW j \in 1..(Len(requests) - 1), requests'[j].stage = "found" PROVE row
    BY <1>2, <1>6 DEF FoundIsThere
  <2>1. (IF j < k THEN j ELSE j + 1) \in 1..Len(requests)
    BY <1>3
  <2> QED BY <1>1, <1>3, <1>5, <2>1 DEF FoundIsThere
<1>9. Cardinality(Outstanding(requests')) =
        IF r.stage = "done" THEN Cardinality(Outstanding(requests)) ELSE Cardinality(Outstanding(requests)) - 1
  BY <1>2, <1>3, OutstandingRemove
<1>10. Parity'
  <2>1. CASE r.stage = "done" /\ UNCHANGED <<star, bar, strayed>>
    BY <1>1, <1>2, <1>9, <2>1 DEF Parity
  <2>2. CASE refused /\ strayed' = (strayed \/ r.stage = "done")
    <3> SUFFICES ASSUME ~strayed' PROVE star' # row' <=> Odd(Cardinality(Outstanding(requests')))
      BY DEF Parity
    <3>1. ~strayed /\ r.stage # "done"
      BY <2>2
    <3>2. Odd(Cardinality(Outstanding(requests'))) <=> ~Odd(Cardinality(Outstanding(requests)))
      BY <1>3, <1>5, <1>9, <3>1, OutstandingFinite, ParityFlips
    <3>3. star' # row' <=> ~(star # row)
      <4>1. star' = ~star /\ row' = row
        BY <1>2, <2>2
      <4> QED BY <1>1, <4>1, Zenon DEF StarTyped
    <3> QED BY <1>1, <3>1, <3>2, <3>3 DEF Parity
  <2> QED BY <1>2, <2>1, <2>2
<1>11. OneClick'
  <2> SUFFICES ASSUME ~mixed' PROVE Len(requests') = 0 /\ bar' = star'
    BY <1>5, EmptySeq DEF OneClick
  <2>1. Len(requests) <= 1 /\ bar = star /\ requests # <<>>
           /\ (requests # <<>> => requests[1].from = "bar" /\ requests[1].prev = ~bar)
    BY <1>1, <1>2, <1>3, EmptySeq DEF OneClick
  <2>2. k = 1 /\ Len(requests) = 1
    BY <1>3, <2>1
  <2>3. bar' = star'
    BY <1>2, <2>1, <2>2
  <2> QED BY <1>5, <2>2, <2>3
<1> QED
  <2>1. StarTyped' /\ FoundIsThere' /\ Parity' /\ OneClick'
    BY <1>7, <1>8, <1>10, <1>11
  <2> QED BY <2>1, StarParts, PTL

LEMMA StarStepSound == ASSUME StarSound, [StarNext]_starVars PROVE StarSound'
<1>1. CASE UNCHANGED starVars
  <2>1. UNCHANGED <<row, star, bar, requests, strayed, mixed>>
    BY <1>1 DEF starVars
  <2> QED BY <2>1 DEF StarSound, StarTyped
<1>2. CASE StarNext
  <2>1. CASE \E from \in {"bar", "list"} : Click(from)
    BY <2>1, ClickSound
  <2>2. ASSUME NEW k \in DOMAIN requests,
               FindOne(k) \/ RemoveRow(k) \/ RemoveNothing(k) \/ SaveRow(k) \/ ToggleAnswered(k)
        PROVE  StarSound'
    BY <2>2, ServerSound, RemoveRowSound, ToggleAnsweredSound
  <2> QED BY <1>2, <2>1, <2>2, Zenon DEF StarNext
<1> QED BY <1>1, <1>2

LEMMA StarHolds == StarSound => StarIsFavorite
<1> SUFFICES ASSUME StarSound, requests = <<>>, ~strayed PROVE star = row /\ (~mixed => bar = row)
  BY DEF StarIsFavorite
<1>1. Outstanding(requests) = {}
  BY DEF Outstanding
<1>2. Cardinality(Outstanding(requests)) = 0
  BY <1>1, FS_EmptySet
<1>3. ~Odd(0)
  BY DEF Odd
<1>4. star = row
  BY <1>2, <1>3 DEF StarSound
<1> QED BY <1>4 DEF StarSound

-----------------------------------------------------------------------------
(* The price field                                                          *)

\* The steps and where they hold.
Zone(v) ==
  \/ TickOf(v) = 1000000 /\ v >= 1000000000
  \/ TickOf(v) = 500000 /\ v >= 500000000 /\ v < 1000000000
  \/ TickOf(v) = 100000 /\ v >= 100000000 /\ v < 500000000
  \/ TickOf(v) = 50000 /\ v >= 50000000 /\ v < 100000000
  \/ TickOf(v) = 10000 /\ v >= 10000000 /\ v < 50000000
  \/ TickOf(v) = 5000 /\ v >= 5000000 /\ v < 10000000
  \/ TickOf(v) = 1000 /\ v >= 100000 /\ v < 5000000
  \/ TickOf(v) = 100 /\ v >= 10000 /\ v < 100000
  \/ TickOf(v) = 10 /\ v >= 1000 /\ v < 10000
  \/ TickOf(v) = 1 /\ v < 1000

LEMMA TickZone == ASSUME NEW p \in Int PROVE Zone(p)
BY SMT DEF Zone, TickOf, Won

\* Rounding to a step does not pass the price where the next one begins, which is
\* a multiple of both.
LEMMA CommitOnGrid == ASSUME NEW p \in Int PROVE CommitPrice(p) \in Int /\ OnGrid(CommitPrice(p))
<1> DEFINE c == Cut(p)
<1>1. c \in Int
  <2> DEFINE unit == IF TickOf(p) < Won THEN TickOf(p) ELSE Won
  <2>1. c = p - (p % unit)
    BY Zenon DEF Cut
  <2>2. unit \in {1, 10, 100, 1000}
    BY TickZone, SMT DEF Zone, Won
  <2> HIDE DEF c, unit
  <2> QED BY <2>1, <2>2, SMT
<1>2. CommitPrice(p) = ((c + TickOf(c) \div 2) \div TickOf(c)) * TickOf(c)
  BY SMT DEF CommitPrice, Snap
<1> HIDE DEF c
<1> SUFFICES ASSUME NEW d \in Int, NEW m, m = ((d + TickOf(d) \div 2) \div TickOf(d)) * TickOf(d)
             PROVE  m \in Int /\ OnGrid(m)
  BY <1>1, <1>2
<1>3. Zone(d)
  BY TickZone
<1>4. m \in Int
  BY <1>3, SMT DEF Zone
<1>5. Zone(m)
  BY <1>4, TickZone
<1> QED BY <1>3, <1>4, <1>5, SMTT(60) DEF OnGrid, Zone

\* A price of the grid is left as it is.
LEMMA Committed == ASSUME NEW p \in Int, OnGrid(p) PROVE CommitPrice(p) = p
<1>1. Cut(p) = p
  BY TickZone, SMTT(30) DEF OnGrid, Cut, Zone, Won
<1>2. CommitPrice(p) = Snap(p)
  BY <1>1 DEF CommitPrice
<1> QED BY <1>2, TickZone, SMTT(30) DEF OnGrid, Snap, Zone, Won

\* The neighbours of a price of the grid are of the grid, where the step changes
\* too.
LEMMA NextPrice ==
  ASSUME NEW p \in Int, OnGrid(p)
  PROVE  p + TickOf(p) \in Int /\ OnGrid(p + TickOf(p))
<1>1. p + TickOf(p) \in Int => Zone(p + TickOf(p))
  BY TickZone
<1> QED BY <1>1, TickZone, SMTT(60) DEF OnGrid, Zone

\* The step down, of the finer tick at an edge.
DownStep(q) == IF TickOf(q - TickOf(q)) < TickOf(q) THEN TickOf(q - TickOf(q)) ELSE TickOf(q)

LEMMA PreviousPrice ==
  ASSUME NEW p \in Int, OnGrid(p)
  PROVE  p - DownStep(p) \in Int /\ OnGrid(p - DownStep(p))
<1>1. TickOf(p) \in Nat
  BY TickZone, SMT DEF Zone
<1>2. p - TickOf(p) \in Int
  BY <1>1
<1>3. Zone(p) /\ Zone(p - TickOf(p))
  BY <1>2, TickZone
<1>4. p - DownStep(p) \in Int
  BY <1>3, SMT DEF Zone, DownStep
<1>5. Zone(p - DownStep(p))
  BY <1>4, TickZone
<1> QED BY <1>3, <1>4, <1>5, SMTT(60) DEF Zone, DownStep, OnGrid

\* What the buttons do.
LEMMA Steps ==
  ASSUME NEW p \in Int, OnGrid(p)
  PROVE  StepUp(p) = p + TickOf(p) /\ StepDown(p) = p - DownStep(p)
<1>1. StepUp(p) = CommitPrice(p + TickOf(p))
  BY Committed, Zenon DEF StepUp
<1>2. StepDown(p) = CommitPrice(p - DownStep(p))
  BY Committed, Zenon DEF StepDown, DownStep
<1> QED BY <1>1, <1>2, PreviousPrice, NextPrice, Committed

\* Each button undoes the other.
LEMMA Undone ==
  ASSUME NEW p \in Int, OnGrid(p)
  PROVE  StepDown(StepUp(p)) = p /\ StepUp(StepDown(p)) = p
<1> DEFINE q == p + TickOf(p)
           r == p - DownStep(p)
<1>1. q \in Int /\ OnGrid(q) /\ StepUp(p) = q /\ StepDown(q) = q - DownStep(q)
  BY NextPrice, Steps
<1>2. r \in Int /\ OnGrid(r) /\ StepDown(p) = r /\ StepUp(r) = r + TickOf(r)
  BY PreviousPrice, NextPrice, Steps
<1>3. q - DownStep(q) = p
  <2>1. Zone(p) /\ Zone(q) /\ Zone(q - TickOf(q))
    <3>1. TickOf(q) \in Nat
      BY <1>1, TickZone, SMT DEF Zone
    <3> QED BY <1>1, <3>1, TickZone
  <2> HIDE DEF q
  <2>2. q = p + TickOf(p)
    BY DEF q
  <2> QED BY <1>1, <2>1, <2>2, SMTT(60) DEF Zone, DownStep, OnGrid
<1>4. r + TickOf(r) = p
  <2>1. Zone(p) /\ Zone(r) /\ Zone(p - TickOf(p))
    <3>1. TickOf(p) \in Nat
      BY TickZone, SMT DEF Zone
    <3> QED BY <1>2, <3>1, TickZone
  <2> QED BY <1>2, <2>1, SMTT(60) DEF Zone, DownStep, OnGrid
<1> QED BY <1>1, <1>2, <1>3, <1>4

PriceSound == price \in Int /\ OnGrid(price)

LEMMA PriceStepSound == ASSUME PriceSound, [PageNext]_pageVars PROVE PriceSound'
<1> USE PageAssumption
<1>1. CASE price' = price
  BY <1>1 DEF PriceSound
<1>2. ASSUME NEW p \in FieldPrices, NEW k \in {0, 1}, TypePrice(p + k) PROVE PriceSound'
  <2>1. p \in Int
    <3>1. PICK e \in Edges, j \in (-Around)..Around : p = Won * e + j * TickOf(Won * e - 1)
      BY <1>2, Zenon DEF FieldPrices
    <3>2. Won * e \in Int /\ Won * e - 1 \in Int /\ j \in Int
      BY SMT DEF Edges, Won
    <3>3. TickOf(Won * e - 1) \in Int
      BY <3>2, TickZone, SMT DEF Zone
    <3> QED BY <3>1, <3>2, <3>3, SMT
  <2>2. p + k \in Int
    BY <2>1, SMT
  <2> QED BY <1>2, <2>2, CommitOnGrid, Zenon DEF TypePrice, PriceSound
<1>3. CASE PressUp \/ PressDown
  <2>1. price' = StepUp(price) \/ price' = StepDown(price)
    BY <1>3 DEF PressUp, PressDown
  <2>2. StepUp(price) = price + TickOf(price) /\ StepDown(price) = price - DownStep(price)
    BY Steps DEF PriceSound
  <2> QED BY <2>1, <2>2, NextPrice, PreviousPrice, Zenon DEF PriceSound
<1>4. price' = price \/ PressUp \/ PressDown \/ \E p \in FieldPrices, k \in {0, 1} : TypePrice(p + k)
  BY Zenon DEF PageNext, pageVars, MoveSession, MovePanes, MoveForm, MoveList, MoveStar, MoveField
<1> QED BY <1>1, <1>2, <1>3, <1>4, Zenon

-----------------------------------------------------------------------------
(* The panes of the chart                                                   *)

Series == Lower \cup {"ma"}
Pane   == [series : SUBSET Series, weight : {"new", "volume", "lower"}]

\* No pane is empty, a series is in one of them, and the volume and the
\* oscillators do not share one.
PanesOk(ps) ==
  /\ ps \in Seq(Pane)
  /\ \A k \in DOMAIN ps :
       /\ ps[k].series # {}
       /\ \A s, t \in Lower \cap ps[k].series : s = t
  /\ \A s \in Series : \A j, k \in DOMAIN ps : s \in ps[j].series /\ s \in ps[k].series => j = k

\* The volume has the first pane, and its average no other.
VolumeFirst(ps) ==
  /\ 1 \in DOMAIN ps /\ "volume" \in ps[1].series
  /\ \A k \in DOMAIN ps : "ma" \in ps[k].series => k = 1

LEMMA PaneShape ==
  ASSUME NEW ps \in Seq(Pane)
  PROVE  /\ Len(ps) \in Nat /\ DOMAIN ps = 1..Len(ps)
         /\ \A k \in 1..Len(ps) :
              /\ ps[k] \in Pane /\ ps[k].series \subseteq Series
              /\ ps[k].weight \in {"new", "volume", "lower"}
<1>1. Len(ps) \in Nat /\ DOMAIN ps = 1..Len(ps) /\ \A k \in 1..Len(ps) : ps[k] \in Pane
  OBVIOUS
<1>2. \A p \in Pane : p.series \subseteq Series /\ p.weight \in {"new", "volume", "lower"}
  BY DEF Pane
<1>3. QED
  BY <1>1, <1>2

LEMMA Smallest ==
  ASSUME NEW S \in SUBSET Nat, S # {}
  PROVE  \E m \in S : \A k \in S : m <= k
<1>1. PICK m \in S : \A k \in S : ~(<<k, m>> \in OpToRel(<, Nat))
  BY NatLessThanWellFounded, WFMin, Zenon
<1>2. \A k \in S : ~(k < m)
  BY <1>1 DEF OpToRel
<1>3. QED
  BY <1>2

-----------------------------------------------------------------------------
(* Panes: a series is removed, and the panes left empty                     *)

\* A pane without the series.
After(ps, s, k) == [ps[k] EXCEPT !.series = @ \ {s}]

\* What is kept of the first k panes.
KeptTo(kept, ps, s, k) ==
  IF k = 0 THEN <<>>
  ELSE IF After(ps, s, k).series = {} THEN kept[k - 1] ELSE Append(kept[k - 1], After(ps, s, k))

LEMMA KeptAgree ==
  ASSUME NEW ps, NEW s, NEW k \in Nat, NEW f, NEW g, k # 0 => f[k - 1] = g[k - 1]
  PROVE  KeptTo(f, ps, s, k) = KeptTo(g, ps, s, k)
BY DEF KeptTo

LEMMA KeptExists ==
  ASSUME NEW n \in Nat, NEW ps, NEW s
  PROVE  \E kept : kept = [k \in 0..n |-> KeptTo(kept, ps, s, k)]
<1> DEFINE Exists(m) == \E kept : \A k \in 0..m : kept[k] = KeptTo(kept, ps, s, k)
           D == {m \in Nat : ~Exists(m)}
<1>1. Exists(0)
  <2> DEFINE g == [k \in 0..0 |-> <<>>]
  <2>1. \A k \in 0..0 : g[k] = KeptTo(g, ps, s, k)
    BY DEF KeptTo
  <2>2. QED
    BY <2>1
<1>2. ASSUME NEW m \in Nat, m # 0, Exists(m - 1)
      PROVE  Exists(m)
  <2>1. PICK g : \A k \in 0..(m - 1) : g[k] = KeptTo(g, ps, s, k)
    BY <1>2
  <2> DEFINE x == KeptTo(g, ps, s, m)
             h == [k \in 0..m |-> IF k = m THEN x ELSE g[k]]
  <2>2. \A k \in 0..m : /\ k # m => k \in 0..(m - 1)
                        /\ k # 0 => k - 1 \in 0..m /\ k - 1 # m
    BY <1>2
  <2> HIDE DEF x
  <2>3. h[m] = x /\ \A k \in 0..m : k # m => h[k] = g[k]
    OBVIOUS
  <2> HIDE DEF h
  <2>4. \A k \in 0..m : KeptTo(h, ps, s, k) = KeptTo(g, ps, s, k)
    <3>1. ASSUME NEW k \in 0..m PROVE KeptTo(h, ps, s, k) = KeptTo(g, ps, s, k)
      <4>1. k \in Nat /\ (k # 0 => h[k - 1] = g[k - 1])
        BY <2>2, <2>3
      <4>2. QED
        BY <4>1, KeptAgree
    <3>2. QED
      BY <3>1
  <2>5. \A k \in 0..m : h[k] = KeptTo(g, ps, s, k)
    BY <2>1, <2>2, <2>3 DEF x
  <2>6. QED
    BY <2>4, <2>5
<1> HIDE DEF Exists
<1>3. D = {}
  <2>1. SUFFICES ASSUME D # {} PROVE FALSE
    OBVIOUS
  <2>2. PICK m \in D : \A k \in D : m <= k
    <3>1. D \subseteq Nat
      OBVIOUS
    <3> HIDE DEF D
    <3>2. QED
      BY <2>1, <3>1, Smallest
  <2>3. m # 0
    BY <1>1, <2>2
  <2>4. m - 1 \in Nat /\ Exists(m - 1)
    BY <2>2, <2>3
  <2>5. QED
    BY <1>2, <2>2, <2>3, <2>4
<1>4. PICK g : \A k \in 0..n : g[k] = KeptTo(g, ps, s, k)
  <2>1. Exists(n)
    BY <1>3
  <2>2. QED
    BY <2>1 DEF Exists
<1> DEFINE h == [k \in 0..n |-> g[k]]
<1>5. \A k \in 0..n : h[k] = g[k]
  OBVIOUS
<1>6. h = [k \in 0..n |-> h[k]]
  OBVIOUS
<1> HIDE DEF h
<1>7. \A k \in 0..n : h[k] = KeptTo(h, ps, s, k)
  <2>1. ASSUME NEW k \in 0..n PROVE KeptTo(h, ps, s, k) = KeptTo(g, ps, s, k)
    <3>1. k \in Nat /\ (k # 0 => h[k - 1] = g[k - 1])
      BY <1>5
    <3>2. QED
      BY <3>1, KeptAgree
  <2>2. QED
    BY <1>4, <1>5, <2>1
<1>8. QED
  BY <1>6, <1>7

LEMMA WithoutKeeps ==
  ASSUME NEW ps \in Seq(Pane), NEW s
  PROVE  \E kept : /\ Without(ps, s) = kept[Len(ps)]
                   /\ \A k \in 0..Len(ps) : kept[k] = KeptTo(kept, ps, s, k)
<1> DEFINE kept == CHOOSE kept : kept = [k \in 0..Len(ps) |-> KeptTo(kept, ps, s, k)]
<1>1. Without(ps, s) = kept[Len(ps)]
  BY Zenon DEF Without, KeptTo, After
<1>2. kept = [k \in 0..Len(ps) |-> KeptTo(kept, ps, s, k)]
  <2>1. Len(ps) \in Nat
    OBVIOUS
  <2>2. QED
    BY <2>1, KeptExists
<1> HIDE DEF kept
<1>3. \A k \in 0..Len(ps) : kept[k] = KeptTo(kept, ps, s, k)
  BY <1>2
<1>4. QED
  BY <1>1, <1>3

\* The panes of q are those of the first k that are not left empty, in their
\* order: h tells which.
Sifted(q, h, ps, s, k) ==
  /\ q \in Seq(Pane) /\ h \in [1..Len(q) -> 1..k]
  /\ \A j \in 1..Len(q) : q[j] = After(ps, s, h[j]) /\ q[j].series # {}
  /\ \A i, j \in 1..Len(q) : i < j => h[i] < h[j]
  /\ \A i \in 1..k : After(ps, s, i).series # {} => \E j \in 1..Len(q) : h[j] = i

LEMMA AfterPane ==
  ASSUME NEW ps \in Seq(Pane), NEW s, NEW k \in 1..Len(ps)
  PROVE  /\ After(ps, s, k) \in Pane /\ After(ps, s, k).series = ps[k].series \ {s}
         /\ After(ps, s, k).weight = ps[k].weight
<1>1. ps[k] \in Pane
  BY PaneShape
<1>2. QED
  BY <1>1 DEF After, Pane

LEMMA SiftedAppend ==
  ASSUME NEW ps \in Seq(Pane), NEW s, NEW k \in 1..Len(ps), NEW q, NEW h,
         Sifted(q, h, ps, s, k - 1), After(ps, s, k).series # {}
  PROVE  \E g : Sifted(Append(q, After(ps, s, k)), g, ps, s, k)
<1> DEFINE p == After(ps, s, k)
           n == Len(q)
           r == Append(q, p)
           g == [j \in 1..(n + 1) |-> IF j = n + 1 THEN k ELSE h[j]]
<1>1. p \in Pane /\ q \in Seq(Pane) /\ n \in Nat /\ k \in Nat /\ h \in [1..n -> 1..(k - 1)]
  BY AfterPane DEF Sifted
<1> HIDE DEF p
<1>2. r \in Seq(Pane) /\ Len(r) = n + 1 /\ r[n + 1] = p /\ \A j \in 1..n : r[j] = q[j]
  BY <1>1
<1> HIDE DEF r, n
<1>3. \A j \in 1..(n + 1) : j = n + 1 \/ (j \in 1..n /\ j # n + 1)
  BY <1>1
<1>4. n + 1 \in 1..(n + 1) /\ \A j \in 1..n : j \in 1..(n + 1) /\ j # n + 1
  BY <1>1
<1>5. g[n + 1] = k /\ \A j \in 1..n : g[j] = h[j] /\ h[j] \in 1..(k - 1)
  BY <1>1, <1>4
<1>6. g \in [1..(n + 1) -> 1..k]
  BY <1>1, <1>3, <1>5
<1> HIDE DEF g
<1>7. \A j \in 1..(n + 1) : r[j] = After(ps, s, g[j]) /\ r[j].series # {}
  BY <1>2, <1>3, <1>5 DEF Sifted, p, n
<1>8. \A i, j \in 1..(n + 1) : i < j => g[i] < g[j]
  <2>1. ASSUME NEW i \in 1..(n + 1), NEW j \in 1..(n + 1), i < j PROVE g[i] < g[j]
    <3>1. i \in 1..n
      BY <1>1, <2>1
    <3>2. CASE j = n + 1
      BY <1>1, <1>5, <3>1, <3>2
    <3>3. CASE j # n + 1
      <4>1. j \in 1..n
        BY <1>3, <3>3
      <4>2. QED
        BY <1>5, <2>1, <3>1, <4>1 DEF Sifted, n
    <3>4. QED
      BY <3>2, <3>3
  <2>2. QED
    BY <2>1
<1>9. \A i \in 1..k : After(ps, s, i).series # {} => \E j \in 1..(n + 1) : g[j] = i
  <2>1. ASSUME NEW i \in 1..k, After(ps, s, i).series # {} PROVE \E j \in 1..(n + 1) : g[j] = i
    <3>1. CASE i = k
      BY <1>4, <1>5, <3>1
    <3>2. CASE i # k
      <4>1. i \in 1..(k - 1)
        BY <1>1, <3>2
      <4>2. PICK j \in 1..n : h[j] = i
        BY <2>1, <4>1 DEF Sifted, n
      <4>3. QED
        BY <1>4, <1>5, <4>2
    <3>3. QED
      BY <3>1, <3>2
  <2>2. QED
    BY <2>1
<1>10. Sifted(r, g, ps, s, k)
  BY <1>2, <1>6, <1>7, <1>8, <1>9 DEF Sifted
<1>11. QED
  BY <1>10 DEF r, p

LEMMA WithoutSifts ==
  ASSUME NEW ps \in Seq(Pane), NEW s
  PROVE  \E h : Sifted(Without(ps, s), h, ps, s, Len(ps))
<1>1. Len(ps) \in Nat
  OBVIOUS
<1>2. PICK kept : /\ Without(ps, s) = kept[Len(ps)]
                  /\ \A k \in 0..Len(ps) : kept[k] = KeptTo(kept, ps, s, k)
  BY WithoutKeeps
<1> DEFINE Sifts(k) == \E h : Sifted(kept[k], h, ps, s, k)
           D == {k \in 0..Len(ps) : ~Sifts(k)}
<1>3. Sifts(0)
  <2>1. kept[0] = <<>>
    BY <1>1, <1>2 DEF KeptTo
  <2>2. Sifted(<<>>, <<>>, ps, s, 0)
    BY DEF Sifted
  <2>3. QED
    BY <2>1, <2>2
<1>4. ASSUME NEW k \in 1..Len(ps), Sifts(k - 1)
      PROVE  Sifts(k)
  <2>1. PICK h : Sifted(kept[k - 1], h, ps, s, k - 1)
    BY <1>4
  <2>2. kept[k] = IF After(ps, s, k).series = {} THEN kept[k - 1]
                  ELSE Append(kept[k - 1], After(ps, s, k))
    BY <1>1, <1>2 DEF KeptTo
  <2>3. CASE After(ps, s, k).series = {}
    <3>1. \A i \in 1..k : i = k \/ i \in 1..(k - 1)
      BY <1>1
    <3>2. \A i \in 1..(k - 1) : i \in 1..k
      BY <1>1
    <3> DEFINE q == kept[k - 1]
    <3> HIDE DEF q
    <3>3. Sifted(q, h, ps, s, k)
      <4>1. Sifted(q, h, ps, s, k - 1)
        BY <2>1 DEF q
      <4>2. h \in [1..Len(q) -> 1..k]
        BY <3>2, <4>1 DEF Sifted
      <4>3. \A i \in 1..k : After(ps, s, i).series # {} => \E j \in 1..Len(q) : h[j] = i
        BY <2>3, <3>1, <4>1 DEF Sifted
      <4>4. QED
        BY <4>1, <4>2, <4>3 DEF Sifted
    <3>4. QED
      BY <2>2, <2>3, <3>3 DEF q
  <2>4. CASE After(ps, s, k).series # {}
    BY <2>1, <2>2, <2>4, SiftedAppend
  <2>5. QED
    BY <2>3, <2>4
<1> HIDE DEF Sifts
<1>5. D = {}
  <2>1. SUFFICES ASSUME D # {} PROVE FALSE
    OBVIOUS
  <2>2. PICK k \in D : \A j \in D : k <= j
    <3>1. D \subseteq Nat
      BY <1>1
    <3> HIDE DEF D
    <3>2. QED
      BY <2>1, <3>1, Smallest
  <2>3. k \in 1..Len(ps)
    BY <1>1, <1>3, <2>2
  <2>4. k - 1 \in 0..Len(ps) /\ ~(k <= k - 1)
    BY <1>1, <2>3
  <2>5. Sifts(k - 1)
    BY <2>2, <2>4
  <2>6. QED
    BY <1>4, <2>2, <2>3, <2>5
<1>6. Sifts(Len(ps))
  BY <1>1, <1>5
<1>7. QED
  BY <1>2, <1>6 DEF Sifts

\* What is left after a series is removed: the other series, where they were.
LEMMA WithoutPanes ==
  ASSUME NEW ps, PanesOk(ps), NEW s
  PROVE  LET qs == Without(ps, s)
         IN /\ PanesOk(qs) /\ ~Has(qs, s)
            /\ \A t \in Series \ {s} : Has(qs, t) <=> Has(ps, t)
            /\ VolumeFirst(ps) /\ s # "volume" => VolumeFirst(qs)
<1> DEFINE qs == Without(ps, s)
           n == Len(ps)
           m == Len(qs)
<1>1. ps \in Seq(Pane)
  BY DEF PanesOk
<1>2. PICK h : Sifted(qs, h, ps, s, n)
  BY <1>1, WithoutSifts
<1> HIDE DEF qs
<1>3. /\ n \in Nat /\ DOMAIN ps = 1..n /\ m \in Nat /\ DOMAIN qs = 1..m /\ qs \in Seq(Pane)
      /\ \A j \in 1..m : h[j] \in 1..n
      /\ \A i, j \in 1..m : i < j => h[i] < h[j]
  BY <1>1, <1>2, PaneShape DEF Sifted
<1>4. \A j \in 1..m : qs[j].series = ps[h[j]].series \ {s} /\ qs[j].series # {}
  <2>1. ASSUME NEW j \in 1..m
        PROVE  qs[j].series = ps[h[j]].series \ {s} /\ qs[j].series # {}
    <3>1. h[j] \in 1..Len(ps) /\ qs[j] = After(ps, s, h[j]) /\ qs[j].series # {}
      BY <1>2, <1>3 DEF Sifted
    <3>2. After(ps, s, h[j]).series = ps[h[j]].series \ {s}
      BY <1>1, <3>1, AfterPane
    <3>3. QED
      BY <3>1, <3>2
  <2>2. QED
    BY <2>1
<1>5. \A i \in 1..n : ps[i].series \ {s} # {} => \E j \in 1..m : h[j] = i
  <2>1. \A i \in 1..n : After(ps, s, i).series = ps[i].series \ {s}
    BY <1>1, AfterPane
  <2>2. \A i \in 1..n : After(ps, s, i).series # {} => \E j \in 1..m : h[j] = i
    BY <1>2 DEF Sifted
  <2>3. QED
    BY <2>1, <2>2
<1> HIDE DEF n, m
<1>6. \A i, j \in 1..m : h[i] = h[j] => i = j
  <2>1. ASSUME NEW i \in 1..m, NEW j \in 1..m, h[i] = h[j], i < j PROVE FALSE
    <3>1. h[i] < h[j] /\ h[i] \in Nat
      BY <1>3, <2>1
    <3>2. QED
      BY <2>1, <3>1
  <2>2. \A i, j \in 1..m : i = j \/ i < j \/ j < i
    BY <1>3
  <2>3. QED
    BY <2>1, <2>2
<1>7. PanesOk(qs)
  <2>1. ASSUME NEW k \in 1..m
        PROVE  qs[k].series # {} /\ \A t, u \in Lower \cap qs[k].series : t = u
    <3>1. h[k] \in DOMAIN ps /\ qs[k].series \subseteq ps[h[k]].series /\ qs[k].series # {}
      BY <1>3, <1>4
    <3>2. \A t, u \in Lower \cap ps[h[k]].series : t = u
      BY <3>1 DEF PanesOk
    <3>3. QED
      BY <3>1, <3>2
  <2>2. ASSUME NEW t \in Series, NEW j \in 1..m, NEW k \in 1..m,
               t \in qs[j].series, t \in qs[k].series
        PROVE  j = k
    <3>1. t \in ps[h[j]].series /\ t \in ps[h[k]].series /\ h[j] \in 1..n /\ h[k] \in 1..n
      BY <1>3, <1>4, <2>2
    <3>2. h[j] = h[k]
      BY <1>3, <3>1 DEF PanesOk
    <3>3. QED
      BY <1>6, <3>2
  <2>3. QED
    BY <1>3, <2>1, <2>2 DEF PanesOk
<1>8. ~Has(qs, s)
  BY <1>3, <1>4 DEF Has
<1>9. ASSUME NEW t \in Series \ {s} PROVE Has(qs, t) <=> Has(ps, t)
  <2>1. ASSUME NEW j \in 1..m, t \in qs[j].series PROVE t \in ps[h[j]].series /\ h[j] \in 1..n
    BY <1>3, <1>4, <2>1
  <2>2. ASSUME NEW i \in 1..n, t \in ps[i].series PROVE \E j \in 1..m : t \in qs[j].series
    BY <1>4, <1>5, <2>2
  <2>3. QED
    BY <1>3, <2>1, <2>2 DEF Has
<1>10. ASSUME VolumeFirst(ps), s # "volume" PROVE VolumeFirst(qs)
  <2>1. 1 \in 1..n /\ "volume" \in ps[1].series /\ \A k \in 1..n : "ma" \in ps[k].series => k = 1
    BY <1>3, <1>10 DEF VolumeFirst
  <2>2. PICK j \in 1..m : h[j] = 1
    BY <1>5, <1>10, <2>1
  <2>3. j = 1
    <3>1. ~(1 < j)
      <4>1. ASSUME 1 < j PROVE FALSE
        <5>1. 1 \in 1..m
          BY <1>3
        <5>2. h[1] < h[j] /\ h[1] \in 1..n
          BY <1>3, <4>1, <5>1
        <5>3. QED
          BY <2>2, <5>2
      <4>2. QED
        BY <4>1
    <3>2. QED
      BY <1>3, <3>1
  <2>4. 1 \in 1..m /\ "volume" \in qs[1].series
    BY <1>4, <1>10, <2>1, <2>2, <2>3
  <2>5. ASSUME NEW k \in 1..m, "ma" \in qs[k].series PROVE k = 1
    <3>1. h[k] = 1
      BY <1>3, <1>4, <2>1, <2>5
    <3>2. QED
      BY <1>6, <2>2, <2>3, <3>1
  <2>6. QED
    BY <1>3, <2>4, <2>5 DEF VolumeFirst
<1>11. QED
  BY <1>7, <1>8, <1>9, <1>10 DEF qs

-----------------------------------------------------------------------------
(* Panes: a series is added                                                 *)

\* A series is put in a pane that is there, as the volume's average is, or in a
\* new one behind the others.
LEMMA WithPanes ==
  ASSUME NEW ps, PanesOk(ps), NEW s \in Series, ~Has(ps, s), NEW k \in Nat \ {0},
         s \in Lower => k > Len(ps)
  PROVE  LET qs == With(ps, k, s)
         IN /\ PanesOk(qs) /\ Has(qs, s)
            /\ \A t \in Series \ {s} : Has(qs, t) <=> Has(ps, t)
            /\ VolumeFirst(ps) /\ (s = "ma" => k = 1) => VolumeFirst(qs)
            /\ s = "volume" /\ ps = <<>> => VolumeFirst(qs)
<1> DEFINE n == Len(ps)
           qs == With(ps, k, s)
<1>1. /\ ps \in Seq(Pane) /\ n \in Nat /\ DOMAIN ps = 1..n
      /\ \A j \in 1..n : ps[j] \in Pane /\ ps[j].series \subseteq Series /\ s \notin ps[j].series
  BY PaneShape DEF PanesOk, Has
<1>2. /\ \A j \in 1..n : ps[j].series # {} /\ \A t, u \in Lower \cap ps[j].series : t = u
      /\ \A t \in Series : \A i, j \in 1..n : t \in ps[i].series /\ t \in ps[j].series => i = j
  BY <1>1 DEF PanesOk
<1>3. CASE k <= n
  <2>1. k \in 1..n /\ s = "ma" /\ s \notin Lower
    BY <1>1, <1>3 DEF Series, Lower
  <2> DEFINE p == [ps[k] EXCEPT !.series = @ \cup {s}]
  <2>2. p \in Pane /\ p.series = ps[k].series \cup {s}
    BY <1>1, <2>1 DEF Pane
  <2>3. qs = [ps EXCEPT ![k] = p]
    BY <1>3 DEF With
  <2> HIDE DEF p, qs
  <2>4. qs \in Seq(Pane) /\ DOMAIN qs = 1..n /\ Len(qs) = n
    BY <1>1, <2>1, <2>2, <2>3
  <2>5. \A j \in 1..n : qs[j].series = IF j = k THEN ps[j].series \cup {s} ELSE ps[j].series
    BY <1>1, <2>1, <2>2, <2>3
  <2>6. \A j \in 1..n : \A t \in Series \ {s} : t \in qs[j].series <=> t \in ps[j].series
    BY <2>5
  <2>7. \A j \in 1..n : s \in qs[j].series <=> j = k
    BY <1>1, <2>5
  <2>8. PanesOk(qs)
    <3>1. ASSUME NEW j \in 1..n
          PROVE  qs[j].series # {} /\ Lower \cap qs[j].series = Lower \cap ps[j].series
      <4>1. qs[j].series = ps[j].series \/ qs[j].series = ps[j].series \cup {s}
        BY <2>5
      <4>2. ps[j].series # {}
        BY <1>2
      <4>3. QED
        BY <2>1, <4>1, <4>2
    <3>2. \A t \in Series : \A i, j \in 1..n : t \in qs[i].series /\ t \in qs[j].series => i = j
      BY <1>2, <2>6, <2>7
    <3>3. QED
      BY <1>2, <2>4, <3>1, <3>2 DEF PanesOk
  <2>9. Has(qs, s) /\ \A t \in Series \ {s} : Has(qs, t) <=> Has(ps, t)
    BY <1>1, <2>1, <2>4, <2>6, <2>7 DEF Has
  <2>10. VolumeFirst(ps) /\ k = 1 => VolumeFirst(qs)
    BY <1>1, <2>1, <2>4, <2>5, <2>7 DEF VolumeFirst
  <2>11. QED
    BY <2>1, <2>8, <2>9, <2>10 DEF qs
<1>4. CASE k > n
  <2> DEFINE p == [series |-> {s}, weight |-> "new"]
  <2>1. p \in Pane /\ p.series = {s}
    BY DEF Pane
  <2>2. qs = Append(ps, p)
    BY <1>1, <1>4 DEF With
  <2> HIDE DEF p, qs
  <2>3. qs \in Seq(Pane) /\ Len(qs) = n + 1 /\ DOMAIN qs = 1..(n + 1)
        /\ qs[n + 1] = p /\ \A j \in 1..n : qs[j] = ps[j]
    BY <1>1, <2>1, <2>2
  <2>4. /\ n + 1 \in 1..(n + 1) /\ (\A j \in 1..n : j \in 1..(n + 1))
        /\ \A j \in 1..(n + 1) : j = n + 1 \/ j \in 1..n
    BY <1>1
  <2>5. qs[n + 1].series = {s} /\ \A j \in 1..n : qs[j].series = ps[j].series
    BY <2>1, <2>3
  <2>6. PanesOk(qs)
    <3>1. \A j \in 1..(n + 1) : qs[j].series # {} /\ \A t, u \in Lower \cap qs[j].series : t = u
      BY <1>2, <2>4, <2>5
    <3>2. \A t \in Series : \A i, j \in 1..(n + 1) : t \in qs[i].series /\ t \in qs[j].series => i = j
      BY <1>1, <1>2, <2>4, <2>5
    <3>3. QED
      BY <2>3, <3>1, <3>2 DEF PanesOk
  <2>7. Has(qs, s) /\ \A t \in Series \ {s} : Has(qs, t) <=> Has(ps, t)
    BY <1>1, <2>3, <2>4, <2>5 DEF Has
  <2>8. ASSUME VolumeFirst(ps), s = "ma" => k = 1 PROVE VolumeFirst(qs)
    <3>1. 1 \in 1..n /\ "volume" \in ps[1].series /\ \A j \in 1..n : "ma" \in ps[j].series => j = 1
      BY <1>1, <2>8 DEF VolumeFirst
    <3>2. s # "ma"
      BY <1>1, <1>4, <2>8, <3>1
    <3>3. QED
      BY <2>3, <2>4, <2>5, <3>1, <3>2 DEF VolumeFirst
  <2>9. ASSUME s = "volume", ps = <<>> PROVE VolumeFirst(qs)
    <3>1. n = 0
      BY <2>9
    <3>2. QED
      BY <2>3, <2>5, <2>9, <3>1 DEF VolumeFirst
  <2>10. QED
    BY <2>6, <2>7, <2>8, <2>9 DEF qs
<1>5. QED
  BY <1>1, <1>3, <1>4

-----------------------------------------------------------------------------
(* Panes: apply                                                             *)

\* ensureRsiPane, ensureMacdPane, removeLowerPane, of one oscillator.
Stepped(o, ps, s) ==
  IF s \notin o.on THEN Without(ps, s)
  ELSE IF Has(ps, s) THEN ps ELSE With(ps, Len(ps) + 1, s)

LEMMA SteppedPanes ==
  ASSUME NEW ps, PanesOk(ps), NEW o, NEW s \in {"rsi", "macd"}
  PROVE  LET qs == Stepped(o, ps, s)
         IN /\ PanesOk(qs) /\ (Has(qs, s) <=> s \in o.on)
            /\ \A t \in Series \ {s} : Has(qs, t) <=> Has(ps, t)
            /\ VolumeFirst(ps) => VolumeFirst(qs)
<1>1. s \in Series /\ s \in Lower /\ s # "volume" /\ s # "ma"
  BY DEF Series, Lower
<1>2. Len(ps) + 1 \in Nat \ {0} /\ Len(ps) + 1 > Len(ps)
  BY PaneShape DEF PanesOk
<1>3. CASE s \notin o.on
  <2>1. Stepped(o, ps, s) = Without(ps, s)
    BY <1>3 DEF Stepped
  <2>2. QED
    BY <1>1, <1>3, <2>1, WithoutPanes
<1>4. CASE s \in o.on /\ Has(ps, s)
  BY <1>4 DEF Stepped
<1>5. CASE s \in o.on /\ ~Has(ps, s)
  <2>1. Stepped(o, ps, s) = With(ps, Len(ps) + 1, s)
    BY <1>5 DEF Stepped
  <2>2. QED
    BY <1>1, <1>2, <1>5, <2>1, WithPanes
<1>6. QED
  BY <1>3, <1>4, <1>5

\* What is known of the panes between two calls of apply.
PanesSound ==
  /\ PanesOk(panes) /\ volPane \in Nat
  /\ Has(panes, "ma") => Has(panes, "volume")
  /\ Has(panes, "volume") => volPane # 0
  /\ Has(panes, "volume") /\ ~late => volPane = 1 /\ VolumeFirst(panes)

\* The volume's pane is not made behind others.
InFront(o) == ~("volume" \in o.on /\ IF Has(panes, "volume") THEN late ELSE panes # <<>>)

LEMMA VolumePanesDrawn ==
  ASSUME PanesSound, NEW o, o.ma \in BOOLEAN
  PROVE  LET qs == VolumePanes(o, panes)
             at == VolumeAt(o, panes)
         IN /\ PanesOk(qs)
            /\ Has(qs, "volume") <=> "volume" \in o.on
            /\ Has(qs, "ma") <=> "volume" \in o.on /\ o.ma
            /\ at \in Nat /\ ("volume" \in o.on => at # 0)
            /\ "volume" \in o.on /\ InFront(o) => at = 1 /\ VolumeFirst(qs)
<1> DEFINE at == VolumeAt(o, panes)
           there == IF Has(panes, "volume") THEN panes ELSE With(panes, at, "volume")
           qs == VolumePanes(o, panes)
<1>1. /\ "volume" \in Series /\ "ma" \in Series /\ "volume" # "ma" /\ "volume" \in Lower
      /\ "ma" \notin Lower
  BY DEF Series, Lower
<1>2. PanesOk(panes) /\ Len(panes) \in Nat
  BY PaneShape DEF PanesSound, PanesOk
<1>3. CASE "volume" \notin o.on
  <2>1. qs = Without(Without(panes, "ma"), "volume") /\ at = 0
    BY <1>3 DEF VolumePanes, VolumeAt
  <2> DEFINE rs == Without(panes, "ma")
  <2>2. PanesOk(rs) /\ ~Has(rs, "ma")
    BY <1>2, WithoutPanes
  <2> HIDE DEF rs
  <2>3. PanesOk(Without(rs, "volume")) /\ ~Has(Without(rs, "volume"), "volume")
        /\ ~Has(Without(rs, "volume"), "ma")
    BY <1>1, <2>2, WithoutPanes
  <2>4. QED
    BY <1>3, <2>1, <2>3 DEF rs
<1>4. CASE "volume" \in o.on
  <2>1. at = IF Has(panes, "volume") THEN volPane ELSE Len(panes) + 1
    BY <1>4 DEF VolumeAt
  <2>2. at \in Nat \ {0}
    BY <1>2, <2>1 DEF PanesSound
  <2>3. /\ PanesOk(there) /\ Has(there, "volume")
        /\ InFront(o) => at = 1 /\ VolumeFirst(there)
    <3>1. CASE Has(panes, "volume")
      BY <1>2, <1>4, <2>1, <3>1 DEF PanesSound, InFront
    <3>2. CASE ~Has(panes, "volume")
      <4>1. at = Len(panes) + 1 /\ at > Len(panes) /\ there = With(panes, at, "volume")
        BY <1>2, <2>1, <3>2
      <4> HIDE DEF at
      <4>2. /\ PanesOk(With(panes, at, "volume")) /\ Has(With(panes, at, "volume"), "volume")
            /\ panes = <<>> => VolumeFirst(With(panes, at, "volume"))
        BY <1>1, <1>2, <2>2, <3>2, <4>1, WithPanes
      <4>3. InFront(o) => panes = <<>>
        BY <1>4, <3>2 DEF InFront
      <4>4. panes = <<>> => at = 1
        BY <4>1
      <4>5. QED
        BY <4>1, <4>2, <4>3, <4>4
    <3>3. QED
      BY <3>1, <3>2
  <2>4. CASE ~o.ma
    <3>1. qs = Without(there, "ma")
      BY <1>4, <2>4 DEF VolumePanes
    <3> HIDE DEF there, at, qs
    <3>2. /\ PanesOk(Without(there, "ma")) /\ ~Has(Without(there, "ma"), "ma")
          /\ Has(Without(there, "ma"), "volume") <=> Has(there, "volume")
          /\ VolumeFirst(there) => VolumeFirst(Without(there, "ma"))
      BY <1>1, <2>3, WithoutPanes
    <3>3. QED
      BY <1>4, <2>2, <2>3, <2>4, <3>1, <3>2 DEF at, qs
  <2>5. CASE o.ma
    <3>1. qs = IF Has(there, "ma") THEN there ELSE With(there, at, "ma")
      BY <1>4, <2>5 DEF VolumePanes
    <3> HIDE DEF there, at, qs
    <3>2. CASE Has(there, "ma")
      BY <1>4, <2>2, <2>3, <2>5, <3>1, <3>2 DEF at, qs
    <3>3. CASE ~Has(there, "ma")
      <4>1. /\ PanesOk(With(there, at, "ma")) /\ Has(With(there, at, "ma"), "ma")
            /\ Has(With(there, at, "ma"), "volume") <=> Has(there, "volume")
            /\ VolumeFirst(there) /\ at = 1 => VolumeFirst(With(there, at, "ma"))
        BY <1>1, <2>2, <2>3, <3>3, WithPanes
      <4>2. QED
        BY <1>4, <2>2, <2>3, <2>5, <3>1, <3>3, <4>1 DEF at, qs
    <3>4. QED
      BY <3>2, <3>3
  <2>6. QED
    BY <2>4, <2>5
<1>5. QED
  BY <1>3, <1>4

LEMMA Oscillators ==
  ASSUME NEW o, NEW ps
  PROVE  OscillatorPanes(o, ps) = Stepped(o, Stepped(o, ps, "rsi"), "macd")
BY DEF OscillatorPanes, Stepped

LEMMA RebalancedPanes ==
  ASSUME NEW o, NEW ps, PanesOk(ps)
  PROVE  LET qs == Rebalanced(o, ps)
             v  == IF "volume" \in o.on THEN 1 ELSE 0
             n  == Cardinality({"rsi", "macd"} \cap o.on)
         IN /\ PanesOk(qs) /\ \A s \in Series : Has(qs, s) <=> Has(ps, s)
            /\ VolumeFirst(ps) => VolumeFirst(qs)
            /\ \A k \in DOMAIN qs : /\ k <= v => qs[k].weight = "volume"
                                    /\ v < k /\ k <= v + n => qs[k].weight = "lower"
<1> DEFINE v == IF "volume" \in o.on THEN 1 ELSE 0
           n == Cardinality({"rsi", "macd"} \cap o.on)
           Weighed(k) == IF k <= v THEN [ps[k] EXCEPT !.weight = "volume"]
                         ELSE IF k <= v + n THEN [ps[k] EXCEPT !.weight = "lower"] ELSE ps[k]
           qs == Rebalanced(o, ps)
<1>1. qs = [k \in DOMAIN ps |-> Weighed(k)]
  BY DEF Rebalanced
<1>2. /\ ps \in Seq(Pane) /\ Len(ps) \in Nat /\ DOMAIN ps = 1..Len(ps)
      /\ \A k \in 1..Len(ps) : ps[k] \in Pane
  BY PaneShape DEF PanesOk
<1> HIDE DEF v, n, qs
<1>3. \A k \in 1..Len(ps) : Weighed(k) \in Pane /\ Weighed(k).series = ps[k].series
  BY <1>2 DEF Pane
<1>4. \A k \in 1..Len(ps) : /\ k <= v => Weighed(k).weight = "volume"
                            /\ v < k /\ k <= v + n => Weighed(k).weight = "lower"
  <2>1. v \in Nat
    BY DEF v
  <2>2. ASSUME NEW k \in 1..Len(ps)
        PROVE  /\ k <= v => Weighed(k).weight = "volume"
               /\ v < k /\ k <= v + n => Weighed(k).weight = "lower"
    <3>1. ps[k] \in Pane /\ (v < k => ~(k <= v))
      BY <1>2, <2>1
    <3>2. QED
      BY <3>1 DEF Pane
  <2>3. QED
    BY <2>2
<1> HIDE DEF Weighed
<1>5. /\ qs \in [1..Len(ps) -> Pane] /\ DOMAIN qs = 1..Len(ps)
      /\ \A k \in 1..Len(ps) : qs[k] = Weighed(k) /\ qs[k].series = ps[k].series
  BY <1>1, <1>2, <1>3
<1>6. qs \in Seq(Pane)
  BY <1>2, <1>5
<1>7. PanesOk(qs)
  <2>1. \A k \in 1..Len(ps) : qs[k].series # {} /\ \A s, t \in Lower \cap qs[k].series : s = t
    BY <1>2, <1>5 DEF PanesOk
  <2>2. \A s \in Series : \A j, k \in 1..Len(ps) : s \in qs[j].series /\ s \in qs[k].series => j = k
    BY <1>2, <1>5 DEF PanesOk
  <2>3. QED
    BY <1>5, <1>6, <2>1, <2>2 DEF PanesOk
<1>8. \A s \in Series : Has(qs, s) <=> Has(ps, s)
  BY <1>2, <1>5 DEF Has
<1>9. VolumeFirst(ps) => VolumeFirst(qs)
  BY <1>2, <1>5 DEF VolumeFirst
<1>10. QED
  BY <1>4, <1>5, <1>7, <1>8, <1>9 DEF qs, v, n

\* The panes of a series.
Where(ps, s) == {k \in DOMAIN ps : s \in ps[k].series}

LEMMA OneOrNone ==
  ASSUME NEW ps, PanesOk(ps), NEW s \in Series
  PROVE  Cardinality(Where(ps, s)) = IF Has(ps, s) THEN 1 ELSE 0
<1>1. CASE Has(ps, s)
  <2>1. PICK k \in DOMAIN ps : s \in ps[k].series
    BY <1>1 DEF Has
  <2>2. Where(ps, s) = {k}
    BY <2>1 DEF Where, PanesOk
  <2>3. QED
    BY <1>1, <2>2, FS_Singleton
<1>2. CASE ~Has(ps, s)
  <2>1. Where(ps, s) = {}
    BY <1>2 DEF Where, Has
  <2>2. QED
    BY <1>2, <2>1, FS_EmptySet
<1>3. QED
  BY <1>1, <1>2

\* Behind the volume's there are no more panes than oscillators.
LEMMA FewPanes ==
  ASSUME NEW ps, PanesOk(ps), NEW v \in Nat, NEW on,
         \A k \in DOMAIN ps : v < k => ps[k].series \in {{"rsi"}, {"macd"}} /\ ps[k].series \subseteq on
  PROVE  \A k \in DOMAIN ps : k <= v + Cardinality({"rsi", "macd"} \cap on)
<1> DEFINE both == {"rsi", "macd"} \cap on
<1>1. DOMAIN ps = 1..Len(ps) /\ Len(ps) \in Nat
  BY PaneShape DEF PanesOk
<1>2. \A j, k \in DOMAIN ps : v < j /\ v < k /\ j # k => ps[j].series # ps[k].series
  <2>1. ASSUME NEW j \in DOMAIN ps, NEW k \in DOMAIN ps, v < j, v < k, ps[j].series = ps[k].series
        PROVE  j = k
    <3>1. PICK s \in {"rsi", "macd"} : s \in ps[j].series
      BY <2>1
    <3>2. s \in Series
      BY DEF Series, Lower
    <3>3. QED
      BY <2>1, <3>1, <3>2 DEF PanesOk
  <2>2. QED
    BY <2>1
<1>3. ASSUME NEW k \in DOMAIN ps, ~(k <= v + Cardinality(both)) PROVE FALSE
  <2>1. Cardinality({}) = 0 /\ Cardinality({"rsi"}) = 1 /\ Cardinality({"macd"}) = 1
        /\ Cardinality({"rsi", "macd"}) = 2
    <3>1. {"rsi", "macd"} = {"rsi"} \cup {"macd"}
      OBVIOUS
    <3>2. IsFiniteSet({"rsi"}) /\ Cardinality({"rsi"}) = 1 /\ Cardinality({"macd"}) = 1
      BY FS_Singleton
    <3>3. Cardinality({"rsi"} \cup {"macd"}) = Cardinality({"rsi"}) + 1
      BY <3>2, FS_AddElement
    <3>4. QED
      BY <3>1, <3>2, <3>3, FS_EmptySet
  <2>2. k \in Nat /\ v + 0 \in Nat /\ v < k
    <3>1. Cardinality(both) \in Nat
      <4>1. both \in {{}, {"rsi"}, {"macd"}, {"rsi", "macd"}}
        OBVIOUS
      <4> HIDE DEF both
      <4>2. \/ both = {} /\ Cardinality(both) = 0
            \/ Cardinality(both) = 1
            \/ Cardinality(both) = 2
        BY <2>1, <4>1, Zenon
      <4>3. QED
        BY <4>2
    <3> HIDE DEF both
    <3>2. QED
      BY <1>1, <1>3, <3>1
  <2>3. CASE both = {}
    <3>1. ps[k].series \in {{"rsi"}, {"macd"}} /\ ps[k].series \subseteq on
      BY <2>2
    <3>2. QED
      BY <2>3, <3>1
  <2>4. ASSUME NEW s, both = {s}, Cardinality(both) = 1 PROVE FALSE
    <3>1. k - 1 \in DOMAIN ps /\ v < k - 1 /\ k - 1 # k
      <4> HIDE DEF both
      <4> QED
        BY <1>1, <1>3, <2>2, <2>4
    <3>2. ps[k].series = {s} /\ ps[k - 1].series = {s}
      BY <2>2, <2>4, <3>1
    <3>3. QED
      BY <1>2, <2>2, <3>1, <3>2
  <2>5. CASE both = {"rsi", "macd"}
    <3>1. Cardinality(both) = 2
      <4> HIDE DEF both
      <4> QED
        BY <2>1, <2>5
    <3>2. /\ k - 1 \in DOMAIN ps /\ v < k - 1 /\ k - 1 # k
          /\ k - 2 \in DOMAIN ps /\ v < k - 2 /\ k - 2 # k /\ k - 2 # k - 1
      <4> HIDE DEF both
      <4> QED
        BY <1>1, <1>3, <2>2, <3>1
    <3>3. /\ ps[k].series \in {{"rsi"}, {"macd"}} /\ ps[k - 1].series \in {{"rsi"}, {"macd"}}
          /\ ps[k - 2].series \in {{"rsi"}, {"macd"}}
      BY <2>2, <3>2
    <3>4. /\ ps[k].series # ps[k - 1].series /\ ps[k].series # ps[k - 2].series
          /\ ps[k - 1].series # ps[k - 2].series
      BY <1>2, <2>2, <3>2
    <3>5. QED
      BY <3>3, <3>4
  <2>6. both = {} \/ both = {"rsi"} \/ both = {"macd"} \/ both = {"rsi", "macd"}
    OBVIOUS
  <2> HIDE DEF both
  <2>7. both = {"rsi"} => FALSE
    BY <2>1, <2>4
  <2>8. both = {"macd"} => FALSE
    BY <2>1, <2>4
  <2>9. QED
    BY <2>3, <2>5, <2>6, <2>7, <2>8
<1>4. QED
  BY <1>3

\* The panes are those of the options; in front, the volume's.
AsOptions(ps, o, front) ==
  /\ \A s \in Lower : Cardinality(Where(ps, s)) = IF s \in o.on THEN 1 ELSE 0
  /\ "volume" \in o.on => Cardinality(Where(ps, "ma")) = IF o.ma THEN 1 ELSE 0
  /\ front => \A k \in DOMAIN ps :
       \/ ps[k].series \in {{"rsi"}, {"macd"}} /\ ps[k].weight = "lower"
       \/ /\ k = 1 /\ ps[k].weight = "volume"
          /\ ps[k].series = IF o.ma THEN {"volume", "ma"} ELSE {"volume"}

LEMMA DrawnPanes ==
  ASSUME PanesSound, NEW o, o.ma \in BOOLEAN
  PROVE  LET ps == PanesDrawn(o)
         IN /\ PanesOk(ps)
            /\ Has(ps, "volume") <=> "volume" \in o.on
            /\ Has(ps, "ma") <=> "volume" \in o.on /\ o.ma
            /\ "volume" \in o.on /\ InFront(o) => VolumeFirst(ps)
            /\ AsOptions(ps, o, InFront(o))
<1> DEFINE ps1 == VolumePanes(o, panes)
           ps2 == Stepped(o, ps1, "rsi")
           ps3 == Stepped(o, ps2, "macd")
           ps  == Rebalanced(o, ps3)
           v   == IF "volume" \in o.on THEN 1 ELSE 0
           n   == Cardinality({"rsi", "macd"} \cap o.on)
<1>1. PanesDrawn(o) = ps
  BY Oscillators DEF PanesDrawn
<1>2. /\ Series = {"volume", "rsi", "macd", "ma"} /\ Lower = {"volume", "rsi", "macd"}
  BY DEF Series, Lower
<1>3. /\ PanesOk(ps1)
      /\ Has(ps1, "volume") <=> "volume" \in o.on
      /\ Has(ps1, "ma") <=> "volume" \in o.on /\ o.ma
      /\ "volume" \in o.on /\ InFront(o) => VolumeFirst(ps1)
  BY VolumePanesDrawn
<1> HIDE DEF ps1
<1>4. /\ PanesOk(ps2) /\ (Has(ps2, "rsi") <=> "rsi" \in o.on)
      /\ \A t \in Series \ {"rsi"} : Has(ps2, t) <=> Has(ps1, t)
      /\ VolumeFirst(ps1) => VolumeFirst(ps2)
  BY <1>3, SteppedPanes
<1> HIDE DEF ps2
<1>5. /\ PanesOk(ps3) /\ (Has(ps3, "macd") <=> "macd" \in o.on)
      /\ \A t \in Series \ {"macd"} : Has(ps3, t) <=> Has(ps2, t)
      /\ VolumeFirst(ps2) => VolumeFirst(ps3)
  BY <1>4, SteppedPanes
<1> HIDE DEF ps3
<1>6. /\ PanesOk(ps) /\ \A s \in Series : Has(ps, s) <=> Has(ps3, s)
      /\ VolumeFirst(ps3) => VolumeFirst(ps)
      /\ \A k \in DOMAIN ps : /\ k <= v => ps[k].weight = "volume"
                              /\ v < k /\ k <= v + n => ps[k].weight = "lower"
  BY <1>5, RebalancedPanes
<1> HIDE DEF ps
<1>7. /\ \A s \in Lower : Has(ps, s) <=> s \in o.on
      /\ Has(ps, "ma") <=> "volume" \in o.on /\ o.ma
      /\ "volume" \in o.on /\ InFront(o) => VolumeFirst(ps)
  BY <1>2, <1>3, <1>4, <1>5, <1>6
<1>8. AsOptions(ps, o, InFront(o))
  <2>1. /\ \A s \in Lower : Cardinality(Where(ps, s)) = IF s \in o.on THEN 1 ELSE 0
        /\ "volume" \in o.on => Cardinality(Where(ps, "ma")) = IF o.ma THEN 1 ELSE 0
    BY <1>2, <1>6, <1>7, OneOrNone
  <2>2. ASSUME InFront(o), NEW k \in DOMAIN ps
        PROVE  \/ ps[k].series \in {{"rsi"}, {"macd"}} /\ ps[k].weight = "lower"
               \/ /\ k = 1 /\ ps[k].weight = "volume"
                  /\ ps[k].series = IF o.ma THEN {"volume", "ma"} ELSE {"volume"}
    <3>1. DOMAIN ps = 1..Len(ps) /\ Len(ps) \in Nat /\ \A j \in 1..Len(ps) : ps[j].series \subseteq Series
      BY <1>6, PaneShape DEF PanesOk
    <3>2. \A j \in DOMAIN ps : /\ ps[j].series # {} /\ \A s, t \in Lower \cap ps[j].series : s = t
                               /\ \A s \in ps[j].series : Has(ps, s)
      BY <1>6 DEF PanesOk, Has
    <3>3. \A i, j \in DOMAIN ps : "volume" \in ps[i].series /\ "volume" \in ps[j].series => i = j
      BY <1>2, <1>6 DEF PanesOk
    <3>4. ASSUME NEW j \in DOMAIN ps, v < j
          PROVE  ps[j].series \in {{"rsi"}, {"macd"}} /\ ps[j].series \subseteq o.on
      <4>1. "volume" \notin ps[j].series /\ "ma" \notin ps[j].series
        <5>1. CASE "volume" \in o.on
          <6>1. VolumeFirst(ps) /\ j # 1
            BY <1>7, <2>2, <3>1, <3>4, <5>1
          <6>2. QED
            BY <3>3, <6>1 DEF VolumeFirst
        <5>2. CASE "volume" \notin o.on
          BY <1>2, <1>7, <3>2, <5>2
        <5>3. QED
          BY <5>1, <5>2
      <4>2. ps[j].series \subseteq {"rsi", "macd"} /\ ps[j].series # {}
            /\ ~("rsi" \in ps[j].series /\ "macd" \in ps[j].series)
        BY <1>2, <3>1, <3>2, <4>1
      <4>3. ps[j].series = {"rsi"} \/ ps[j].series = {"macd"}
        BY <4>2
      <4>4. \A s \in ps[j].series : s \in o.on
        BY <1>2, <1>7, <3>2, <4>2
      <4>5. QED
        BY <4>3, <4>4
    <3>5. v \in Nat /\ (v = 0 \/ v = 1) /\ (v = 1 <=> "volume" \in o.on)
      OBVIOUS
    <3>6. k <= v + n
      BY <1>6, <3>4, <3>5, FewPanes
    <3>7. CASE v < k
      BY <1>6, <3>4, <3>6, <3>7
    <3>8. CASE ~(v < k)
      <4>1. k = 1 /\ v = 1 /\ k <= v
        <5> HIDE DEF v
        <5> QED
          BY <3>1, <3>5, <3>8
      <4>2. "volume" \in ps[1].series /\ \A j \in DOMAIN ps : "ma" \in ps[j].series => j = 1
        BY <1>7, <2>2, <3>5, <4>1 DEF VolumeFirst
      <4>3. "ma" \in ps[1].series <=> o.ma
        BY <1>7, <3>2, <3>5, <4>1, <4>2 DEF Has
      <4>4. ps[1].series \subseteq {"volume", "ma"}
        BY <1>2, <3>1, <3>2, <4>1, <4>2
      <4>5. ps[1].weight = "volume"
        BY <1>6, <4>1
      <4>6. ps[1].series = IF o.ma THEN {"volume", "ma"} ELSE {"volume"}
        BY <4>2, <4>3, <4>4
      <4>7. QED
        BY <4>1, <4>5, <4>6
    <3>9. QED
      BY <3>7, <3>8
  <2>3. QED
    BY <2>1, <2>2 DEF AsOptions
<1>9. QED
  BY <1>1, <1>2, <1>6, <1>7, <1>8

-----------------------------------------------------------------------------
(* The indicators: what is drawn follows the options                        *)

Options ==
  [lines : SUBSET (Lines \cup DefaultLines), ma : BOOLEAN,
   on    : SUBSET (Indicators \cup DefaultLines \cup {"bollinger"}),
   value : [Indicators -> Values]]

\* Without candles nothing is drawn over them; the panes are sound in any case.
PaneInv ==
  /\ options \in Options /\ candles \in {"none", "one", "many"}
  /\ candles = "none" => drawn = NothingDrawn
  /\ PanesSound
  /\ DrawnAsConfigured

LEMMA NoPanes ==
  /\ PanesOk(<<>>)
  /\ \A s : ~Has(<<>>, s)
<1>1. DOMAIN <<>> = {} /\ <<>> \in Seq(Pane)
  OBVIOUS
<1>2. QED
  BY <1>1 DEF PanesOk, Has

LEMMA DefaultOptions == DEFAULT \in Options
<1>1. [i \in Indicators |-> "default"] \in [Indicators -> Values]
  BY DEF Values
<1>2. DefaultLines \cup {"bollinger", "volume"} \subseteq Indicators \cup DefaultLines \cup {"bollinger"}
  BY DEF Indicators, Lower
<1> HIDE DEF Indicators
<1>3. QED
  BY <1>1, <1>2 DEF DEFAULT, Options

LEMMA PaneInitSound ==
  ASSUME PanesInit
  PROVE  PaneInv
<1>1. options \in Options /\ PanesSound
  BY DefaultOptions, NoPanes DEF PanesInit, PanesSound
<1>2. DrawnAsConfigured
  BY DEF PanesInit, DrawnAsConfigured, Shown, DeathIsExplained
<1>3. QED
  BY <1>1, <1>2 DEF PaneInv, PanesInit

\* The lines and bands that are drawn, from those that were.
LEMMA LinesDrawn ==
  ASSUME PaneInv, page = "up", NEW o \in Options,
         drawn' = OverlaysDrawn(o), options' = o,
         stale' = {b \in Bands \cap o.on :
                     drawn[b] # "no" /\ (b \in stale \/ o.value[b] # options.value[b])}
  PROVE  LinesAsConfigured'
<1>1. \A i \in Overlays : o.value[i] # "no" /\ i \in Indicators
  BY DEF Options, Values, Indicators
<1>2. ASSUME NEW b \in Bands, b \in Overlays, drawn[b] # "no", b \notin stale
      PROVE  drawn[b] = options.value[b]
  <2>1. candles # "none"
    BY <1>2 DEF PaneInv, NothingDrawn
  <2>2. LinesAsConfigured
    BY <2>1 DEF PaneInv, DrawnAsConfigured, Shown
  <2>3. QED
    BY <1>2, <2>2 DEF LinesAsConfigured
<1>3. ASSUME NEW i \in Overlays
      PROVE  /\ drawn'[i] # "no" <=> i \in o.on
             /\ i \in o.on \ stale' => drawn'[i] = o.value[i]
  <2>1. drawn'[i] = IF i \notin o.on THEN "no"
                    ELSE IF i \in Bands THEN BandDrawn(o, i)
                    ELSE IF i = "ichimoku" THEN CloudDrawn(o, i)
                    ELSE LineDrawn(o, i)
    BY DEF OverlaysDrawn
  <2>2. CASE i \in Bands
    BY <1>1, <1>2, <2>1, <2>2 DEF BandDrawn
  <2>3. CASE i \notin Bands
    BY <1>1, <2>1, <2>3 DEF CloudDrawn, LineDrawn
  <2>4. QED
    BY <2>2, <2>3
<1>4. QED
  BY <1>3 DEF LinesAsConfigured

\* What apply leaves is sound, and as configured or explained.
LEMMA Applied ==
  ASSUME PaneInv, page = "up", NEW o \in Options, NEW n \in {"one", "many"},
         options' = o, candles' = n, Apply(o, n)
  PROVE  PaneInv'
<1>1. PanesSound /\ o.ma \in BOOLEAN
  BY DEF PaneInv, Options
<1>2. CASE Throws(o, n)
  <2>1. page' = "dead" /\ drawn' = drawn /\ panes' = panes /\ volPane' = volPane /\ late' = late
    BY <1>2 DEF Apply, drawing
  <2>2. PanesSound'
    BY <1>1, <2>1 DEF PanesSound
  <2>3. DeathIsExplained'
    BY <1>2 DEF Throws, SeriesThrows, CloudThrows, VolumeThrows, Fractional, DeathIsExplained
  <2>4. QED
    BY <2>1, <2>2, <2>3 DEF PaneInv, DrawnAsConfigured, Shown
<1>3. CASE ~Throws(o, n)
  <2>1. /\ drawn' = OverlaysDrawn(o) /\ page' = "up"
        /\ panes' = PanesDrawn(o) /\ volPane' = VolumeAt(o, panes)
        /\ late' = ("volume" \in o.on /\ IF Has(panes, "volume") THEN late ELSE panes # <<>>)
        /\ stale' = {b \in Bands \cap o.on :
                       drawn[b] # "no" /\ (b \in stale \/ o.value[b] # options.value[b])}
    BY <1>3 DEF Apply
  <2>2. LinesAsConfigured'
    BY <2>1, LinesDrawn
  <2>3. /\ PanesOk(panes')
        /\ Has(panes', "volume") <=> "volume" \in o.on
        /\ Has(panes', "ma") <=> "volume" \in o.on /\ o.ma
        /\ "volume" \in o.on /\ InFront(o) => VolumeFirst(panes')
        /\ AsOptions(panes', o, InFront(o))
    BY <1>1, <2>1, DrawnPanes
  <2>4. /\ volPane' \in Nat /\ ("volume" \in o.on => volPane' # 0)
        /\ "volume" \in o.on /\ InFront(o) => volPane' = 1
    BY <1>1, <2>1, VolumePanesDrawn
  <2>5. ~late' <=> InFront(o)
    BY <2>1 DEF InFront
  <2>6. PanesSound'
    BY <2>3, <2>4, <2>5 DEF PanesSound
  <2>7. PanesAsConfigured'
    BY <2>3, <2>5 DEF PanesAsConfigured, AsOptions, Where, PanesOf
  <2>8. DrawnAsConfigured'
    BY <2>1, <2>2, <2>7 DEF DrawnAsConfigured, DeathIsExplained
  <2>9. QED
    BY <2>6, <2>8 DEF PaneInv
<1>4. QED
  BY <1>2, <1>3

LEMMA ChangeSound ==
  ASSUME PaneInv, NEW o \in Options, Change(o)
  PROVE  PaneInv'
<1>1. page = "up" /\ options' = o /\ candles' = candles
  BY DEF Change
<1>2. CASE candles = "none"
  <2>1. page' = "up" /\ drawn' = drawn /\ panes' = panes /\ volPane' = volPane /\ late' = late
    BY <1>1, <1>2 DEF Change, drawing
  <2>2. PanesSound'
    BY <2>1 DEF PaneInv, PanesSound
  <2>3. DrawnAsConfigured'
    BY <1>1, <1>2, <2>1 DEF DrawnAsConfigured, Shown, DeathIsExplained
  <2>4. QED
    BY <1>1, <1>2, <2>1, <2>2, <2>3 DEF PaneInv, NothingDrawn
<1>3. CASE candles # "none"
  BY <1>1, <1>3, Applied DEF Change, PaneInv
<1>4. QED
  BY <1>2, <1>3

\* Options are known by their fields.
LEMMA OptionFields ==
  /\ \A o \in Options :
       /\ o = [lines |-> o.lines, ma |-> o.ma, on |-> o.on, value |-> o.value]
       /\ o.lines \subseteq Lines \cup DefaultLines /\ o.ma \in BOOLEAN
       /\ o.on \subseteq Indicators \cup DefaultLines \cup {"bollinger"}
       /\ o.value \in [Indicators -> Values]
  /\ \A ls, ma, on, val :
       /\ ls \subseteq Lines \cup DefaultLines /\ ma \in BOOLEAN
       /\ on \subseteq Indicators \cup DefaultLines \cup {"bollinger"}
       /\ val \in [Indicators -> Values]
       => [lines |-> ls, ma |-> ma, on |-> on, value |-> val] \in Options
BY DEF Options

\* What the user edits, and what a reload completes, are options.
LEMMA SwitchedOptions ==
  ASSUME options \in Options
  PROVE  /\ \A i \in Indicators :
              [options EXCEPT !.on = IF i \in @ THEN @ \ {i} ELSE @ \cup {i}] \in Options
         /\ [options EXCEPT !.on = IF @ \cap Lines # {} THEN @ \ Lines ELSE @ \cup options.lines]
              \in Options
         /\ [options EXCEPT !.ma = ~@] \in Options
<1> DEFINE Set(on)   == [lines |-> options.lines, ma |-> options.ma, on |-> on, value |-> options.value]
           toggle(i) == IF i \in options.on THEN options.on \ {i} ELSE options.on \cup {i}
           averages  == IF options.on \cap Lines # {} THEN options.on \ Lines
                        ELSE options.on \cup options.lines
<1>1. \A on : on \subseteq Indicators \cup DefaultLines \cup {"bollinger"} =>
        [options EXCEPT !.on = on] = Set(on) /\ Set(on) \in Options
  BY OptionFields
<1>2. Lines \subseteq Indicators
  BY DEF Indicators, Overlays
<1>3. ASSUME NEW i \in Indicators
      PROVE  [options EXCEPT !.on = toggle(i)] \in Options
  <2>1. toggle(i) \subseteq Indicators \cup DefaultLines \cup {"bollinger"}
    BY OptionFields
  <2> HIDE DEF toggle
  <2>2. QED
    BY <1>1, <2>1
<1>4. [options EXCEPT !.on = averages] \in Options
  <2>1. averages \subseteq Indicators \cup DefaultLines \cup {"bollinger"}
    BY <1>2, OptionFields
  <2> HIDE DEF averages
  <2>2. QED
    BY <1>1, <2>1
<1>5. [options EXCEPT !.ma = ~options.ma] \in Options
  <2> DEFINE other == ~options.ma
  <2>1. other \in BOOLEAN
    OBVIOUS
  <2> HIDE DEF other
  <2>2. [options EXCEPT !.ma = other] =
          [lines |-> options.lines, ma |-> other, on |-> options.on, value |-> options.value]
    BY OptionFields
  <2>3. [options EXCEPT !.ma = other] \in Options
    BY <2>1, <2>2, OptionFields
  <2>4. QED
    BY <2>3 DEF other
<1>6. QED
  BY <1>3, <1>4, <1>5

LEMMA LineOptions ==
  ASSUME options \in Options, NEW ls \in SUBSET (Lines \cup DefaultLines)
  PROVE  /\ [options EXCEPT !.lines = @ \cup ls, !.on = @ \cup ls] \in Options
         /\ [options EXCEPT !.lines = @ \ ls, !.on = @ \ ls] \in Options
<1>1. Lines \subseteq Indicators
  BY DEF Indicators, Overlays
<1>2. [options EXCEPT !.lines = @ \cup ls, !.on = @ \cup ls] =
        [lines |-> options.lines \cup ls, ma |-> options.ma,
         on |-> options.on \cup ls, value |-> options.value]
  <2> DEFINE lines == options.lines \cup ls
             on    == options.on \cup ls
  <2> HIDE DEF lines, on
  <2>1. [options EXCEPT !.lines = lines, !.on = on] =
          [lines |-> lines, ma |-> options.ma, on |-> on, value |-> options.value]
    <3> DEFINE first == [options EXCEPT !.lines = lines]
               both  == [options EXCEPT !.lines = lines, !.on = on]
    <3>1. both = [first EXCEPT !.on = on]
      OBVIOUS
    <3>2. first = [lines |-> lines, ma |-> options.ma, on |-> options.on, value |-> options.value]
      BY DEF Options
    <3> HIDE DEF first, both
    <3>3. QED
      BY <3>1, <3>2 DEF both
  <2>2. QED
    BY <2>1 DEF lines, on
<1>3. [options EXCEPT !.lines = @ \ ls, !.on = @ \ ls] =
        [lines |-> options.lines \ ls, ma |-> options.ma,
         on |-> options.on \ ls, value |-> options.value]
  BY OptionFields
<1>4. /\ options.lines \cup ls \subseteq Lines \cup DefaultLines
      /\ options.lines \ ls \subseteq Lines \cup DefaultLines
      /\ options.on \cup ls \subseteq Indicators \cup DefaultLines \cup {"bollinger"}
      /\ options.on \ ls \subseteq Indicators \cup DefaultLines \cup {"bollinger"}
      /\ options.ma \in BOOLEAN /\ options.value \in [Indicators -> Values]
  BY <1>1, OptionFields
<1>5. QED
  BY <1>2, <1>3, <1>4, OptionFields

LEMMA ValueOptions ==
  ASSUME NEW o \in Options, NEW i \in Indicators, NEW v \in Values
  PROVE  [o EXCEPT !.value[i] = v] \in Options
<1>1. [o EXCEPT !.value[i] = v] =
        [lines |-> o.lines, ma |-> o.ma, on |-> o.on, value |-> [o.value EXCEPT ![i] = v]]
  BY OptionFields
<1>2. [o.value EXCEPT ![i] = v] \in [Indicators -> Values]
  BY OptionFields
<1>3. QED
  BY <1>1, <1>2, OptionFields

LEMMA PaneStepSound ==
  ASSUME PaneInv, [PanesNext]_paneVars
  PROVE  PaneInv'
<1>1. options \in Options
  BY DEF PaneInv
<1>2. ASSUME NEW i \in Indicators \ Lines, Toggle(i)
      PROVE  PaneInv'
  <2>1. [options EXCEPT !.on = IF i \in @ THEN @ \ {i} ELSE @ \cup {i}] \in Options
    BY <1>1, SwitchedOptions
  <2>2. QED
    BY <1>2, <2>1, ChangeSound DEF Toggle
<1>3. ASSUME NEW l \in Lines, AddSma(l)
      PROVE  PaneInv'
  <2>1. [options EXCEPT !.lines = @ \cup {l}, !.on = @ \cup {l}] \in Options
    BY <1>1, LineOptions
  <2>2. QED
    BY <1>3, <2>1, ChangeSound DEF AddSma
<1>4. ASSUME NEW l \in Lines, RemoveSma(l)
      PROVE  PaneInv'
  <2> DEFINE o == [options EXCEPT !.lines = @ \ {l}, !.on = @ \ {l}]
             p == [options EXCEPT !.lines = @ \ {l}, !.on = @ \ {l}, !.value[l] = "default"]
  <2>1. o \in Options
    BY <1>1, LineOptions
  <2>2. p = [o EXCEPT !.value[l] = "default"]
    BY <1>1, OptionFields
  <2> HIDE DEF o
  <2>3. l \in Indicators /\ "default" \in Values
    BY DEF Indicators, Overlays, Values
  <2>4. p \in Options
    BY <2>1, <2>2, <2>3, ValueOptions
  <2>5. QED
    BY <1>4, <2>4, ChangeSound DEF RemoveSma
<1>5. ASSUME NEW i \in Edited, NEW v \in Values, CommitValue(i, v)
      PROVE  PaneInv'
  <2>1. i \in options.lines \cup {"ema"} \cup Bands \cup {"ichimoku"} \cup Lower
    BY <1>5 DEF CommitValue, AverageFields, BandFields, CloudFields, LowerFields
  <2>2. [options EXCEPT !.value[i] = v] \in Options
    <3>1. CASE i \in Indicators
      BY <1>1, <3>1, ValueOptions
    <3>2. CASE i \notin Indicators
      <4>1. [options EXCEPT !.value[i] = v] =
              [lines |-> options.lines, ma |-> options.ma, on |-> options.on,
               value |-> [options.value EXCEPT ![i] = v]]
        BY <1>1, OptionFields
      <4>2. [options.value EXCEPT ![i] = v] \in [Indicators -> Values]
        BY <1>1, <3>2, OptionFields
      <4>3. QED
        BY <1>1, <4>1, <4>2, OptionFields
    <3>3. QED
      BY <3>1, <3>2
  <2>3. QED
    BY <1>5, <2>2, ChangeSound DEF CommitValue
<1>6. ASSUME NEW n \in {"one", "many"}, DataArrives(n)
      PROVE  PaneInv'
  BY <1>1, <1>6, Applied DEF DataArrives
<1>7. CASE ToggleAverages
  BY <1>1, <1>7, SwitchedOptions, ChangeSound DEF ToggleAverages
<1>8. CASE SwitchMa
  BY <1>1, <1>8, SwitchedOptions, ChangeSound DEF SwitchMa
<1>9. CASE Reset
  BY <1>9, DefaultOptions, ChangeSound DEF Reset
<1>10. CASE Reload
  <2> DEFINE missing == DefaultLines \ options.lines
  <2>1. missing \in SUBSET (Lines \cup DefaultLines)
    OBVIOUS
  <2> HIDE DEF missing
  <2>2. [options EXCEPT !.lines = @ \cup missing, !.on = @ \cup missing] \in Options
    BY <1>1, <2>1, LineOptions
  <2>3. options' \in Options
    BY <1>10, <2>2 DEF Reload, missing
  <2>4. candles' = "none" /\ page' = "up" /\ drawn' = NothingDrawn /\ panes' = <<>> /\ volPane' = 0
    BY <1>10 DEF Reload
  <2>5. PanesSound'
    BY <2>4, NoPanes DEF PanesSound
  <2>6. QED
    BY <2>3, <2>4, <2>5 DEF PaneInv, NothingDrawn, DrawnAsConfigured, Shown, DeathIsExplained
<1>11. CASE UNCHANGED paneVars
  BY <1>11 DEF paneVars, drawing, PaneInv, PanesSound, DrawnAsConfigured, Shown,
       LinesAsConfigured, PanesAsConfigured, PanesOf, DeathIsExplained, NothingDrawn
<1>12. QED
  BY <1>2, <1>3, <1>4, <1>5, <1>6, <1>7, <1>8, <1>9, <1>10, <1>11, Zenon DEF PanesNext

-----------------------------------------------------------------------------
(* The page: in a step, each part moves by one of its own or stays.         *)

LEMMA PartsInit == PageInit => Init /\ PanesInit /\ FormInit /\ ListInit /\ StarInit
BY DEF PageInit

LEMMA PartsStep ==
  ASSUME [PageNext]_pageVars
  PROVE  /\ [Next]_vars /\ [PanesNext]_paneVars /\ [FormNext]_formVars
         /\ [ListNext]_listVars /\ [StarNext]_starVars
<1>1. \/ Next /\ UNCHANGED <<paneVars, formVars, listVars, starVars>>
      \/ PanesNext /\ UNCHANGED <<vars, formVars, listVars, starVars>>
      \/ FormNext /\ UNCHANGED <<vars, paneVars, listVars, starVars>>
      \/ ListNext /\ UNCHANGED <<vars, paneVars, formVars, starVars>>
      \/ StarNext /\ UNCHANGED <<vars, paneVars, formVars, listVars>>
      \/ UNCHANGED <<vars, paneVars, formVars, listVars, starVars>>
  BY Zenon DEF PageNext, pageVars, MoveSession, MovePanes, MoveForm, MoveList, MoveStar, MoveField
<1> QED BY <1>1, Zenon

\* Each part's invariant is one of the page.
LEMMA PartsHold == PageSpec => [](SessionSound /\ PaneInv /\ FormSound /\ ListSound /\ StarSound)
<1> DEFINE Parts == SessionSound /\ PaneInv /\ FormSound /\ ListSound /\ StarSound
<1>1. PageInit => Parts
  BY PartsInit, SessionInitSound, PaneInitSound, FormInitSound, ListInitSound, StarInitSound
<1>2. Parts /\ [PageNext]_pageVars => Parts'
  BY PartsStep, SessionStepSound, PaneStepSound, FormStepSound, ListStepSound, StarStepSound
<1> QED BY <1>1, <1>2, PTL DEF PageSpec

\* Undisturbed, the server knows the token of the cookie, or the one on its way
\* to replace it, and no other (AuthService.refresh and logout, with the API
\* client's and the proxy's requests), for any number of tabs and calls.
THEOREM OneLiveTokenHolds == PageSpec => []OneLiveToken
<1>1. SessionSound => OneLiveToken
  <2> SUFFICES ASSUME SessionSound, ~disturbed
               PROVE  /\ valid \subseteq {jar.rt} \cup {renewal[a].new : a \in Actors}
                      /\ ~Busy /\ jar.rt # 0 => jar.rt \in valid
    BY DEF SessionSound, OneLiveToken
  <2>1. RequestSound
    BY DEF SessionSound, Undisturbed
  <2>2. ~Busy => CookieKnown
    BY <2>1 DEF RequestSound
  <2>3. CASE ~Busy
    BY <2>2, <2>3 DEF CookieKnown
  <2>4. CASE \E a \in Actors : Renewing(a)
    <3>1. PICK a \in Actors : Renewing(a)
      BY <2>4
    <3>2. renewal[a].at \in {"sent", "checked", "deleted", "issued", "refused"}
      BY <3>1 DEF Renewing, SessionSound, TypeOK, Request, Stages
    <3>3. CookieKnown \/ valid = {} \/ valid = {renewal[a].new}
      BY <2>1, <3>2 DEF RequestSound
    <3>4. Busy
      BY <3>1 DEF Busy, Renewing
    <3> QED BY <3>3, <3>4 DEF CookieKnown
  <2>5. CASE \E t \in Tabs : LoggingOut(t)
    <3>1. PICK t \in Tabs : LoggingOut(t)
      BY <2>5
    <3>2. CookieKnown \/ valid = {}
      BY <2>1, <3>1 DEF RequestSound, LoggingOut
    <3>3. Busy
      BY <3>1 DEF Busy, LoggingOut
    <3> QED BY <3>2, <3>3 DEF CookieKnown
  <2> QED BY <2>3, <2>4, <2>5 DEF Busy, Renewing, LoggingOut
<1> QED BY <1>1, PartsHold, PTL

\* A tab that holds a refresh token goes to the login page only after a request
\* was lost or two overlapped (ApiClient's handling of a failed refresh).
THEOREM SentAwayOnlyIfDisturbedHolds == PageSpec => []SentAwayOnlyIfDisturbed
<1>1. SessionSound => SentAwayOnlyIfDisturbed
  BY DEF SessionSound, Undisturbed, SentAwayOnlyIfDisturbed
<1> QED BY <1>1, PartsHold, PTL

\* Two orders are under way at once only if a dialog or sheet was closed, or the
\* window resized, before the answer (isSubmitting of handleConfirmOrder), for
\* any prices, quantities and number of sheets.
THEOREM OneAtATimeHolds == PageSpec => []OneAtATime
<1>1. FormSound => OneAtATime
  <2> SUFFICES ASSUME FormSound, ~dismissed, NEW i \in Forms, NEW j \in Forms,
                      flights[i] > 0, flights[j] > 0, i # j \/ flights[i] > 1
               PROVE  FALSE
    BY DEF OneAtATime
  <2>1. flights[i] <= 1 /\ Visible(i) /\ Visible(j) /\ flights[i] \in Nat
    BY DEF FormSound, FlightSound, FormTyped
  <2>2. i = j
    BY <2>1 DEF Visible
  <2> QED BY <2>1, <2>2
<1> QED BY <1>1, PartsHold, PTL

\* What a confirmation sends is what its dialog showed, unless the user changed
\* the entry since (OrderConfirmModal over OrderFormStore).
THEOREM SentAsReviewedHolds == PageSpec => SentAsReviewed
<1>1. FormSound /\ [PageNext]_pageVars =>
        [\A i \in Forms : flights'[i] > flights[i] => reviewed[i] \in {NoEntry, Entry}]_formVars
  BY PartsStep, FormSends
<1> QED BY <1>1, PartsHold, PTL DEF PageSpec, SentAsReviewed

\* The cached list is the one of the tickers, stars, filter, search and order as
\* they are, while no computation is pending and no early tick was passed over
\* (CoinListStore), for any markets and tickers.
THEOREM ListFollowsViewHolds == PageSpec => []ListFollowsView
<1>1. ListSound => ListFollowsView
  BY DEF ListSound
<1> QED BY <1>1, PartsHold, PTL

\* While nothing is asked, the stars are the row's (FavoritesService.toggle and
\* the handlers of the page), for any number of requests under way.
THEOREM StarIsFavoriteHolds == PageSpec => []StarIsFavorite
<1> QED BY StarHolds, PartsHold, PTL

\* The price in the field is one the exchange takes, and each of the buttons
\* beside it undoes the other (commitInputValue, stepPrice), at any price above a
\* tenth of a won.
THEOREM StepsUndoneHolds == PageSpec => []StepsUndone
<1>1. PageInit => PriceSound
  <2>1. OnGrid(0)
    BY TickZone, SMT DEF Zone, OnGrid
  <2> QED BY <2>1 DEF PageInit, PriceSound
<1>2. PriceSound => StepsUndone
  BY Undone, Zenon DEF PriceSound, StepsUndone
<1> QED BY <1>1, <1>2, PriceStepSound, PTL DEF PageSpec

\* Whatever was switched, added, removed or edited, in whatever order, the
\* lines and bands over the candles and the panes below them are those of the
\* options, and the page dies only of a fraction or of the cloud over a single
\* candle (IndicatorPanel's edits, createCandleIndicatorManagerV2's apply), for
\* any set of moving averages and bands.
THEOREM DrawnAsConfiguredHolds == PageSpec => []DrawnAsConfigured
<1>1. PaneInv => DrawnAsConfigured
  BY DEF PaneInv
<1> QED BY <1>1, PartsHold, PTL
=============================================================================
