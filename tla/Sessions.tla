------------------------------ MODULE Sessions ------------------------------
(***************************************************************************)
(* The session of one browser: its cookies, shared by its tabs and by the  *)
(* proxy in front of the pages; the refresh tokens the server knows        *)
(* (AuthService, in Redis); and the API client of each tab, which renews   *)
(* the access token on a 401 and sends the tab to the login page when that *)
(* fails.                                                                  *)
(*                                                                         *)
(* A refresh token is signed over its user and the second it was issued    *)
(* in, so tokens are seconds: two issued in the same one are equal.  The   *)
(* access token is present and valid, or it is not.                        *)
(***************************************************************************)
EXTENDS Integers, FiniteSets, TLC

CONSTANTS
  Tabs,
  Calls,   \* API calls a tab has going at one time
  MaxSec   \* bound: seconds

ASSUME SessionsAssumption ==
  IsFiniteSet(Tabs) /\ IsFiniteSet(Calls) /\ "proxy" \notin Tabs /\ MaxSec \in Nat \ {0}

VARIABLES
  sec,
  valid,    \* rt: keys in Redis
  jar,      \* cookies: access token there, refresh token or 0
  call,     \* per tab and call: on its way without a token, or awaiting a refresh
  renewal,  \* per tab, and the proxy's: POST /auth/refresh
  logout,   \* per tab: POST /auth/logout
  away,     \* tabs on the login page
  sentAway, \* history: a refresh with a token failed, and the tab left
  disturbed \* history: two of these requests overlapped, or one got lost

vars == <<sec, valid, jar, call, renewal, logout, away, sentAway, disturbed>>

Alike == Permutations(Tabs) \cup Permutations(Calls)
Proxy == "proxy"
Actors == Tabs \cup {Proxy}
Token  == 1..MaxSec
None   == [at |-> "none", rt |-> 0, new |-> 0]
NoCookies == [at |-> FALSE, rt |-> 0]

Stages == {"none", "sent", "checked", "deleted", "issued", "refused"}
Request == [at : Stages, rt : Token \cup {0}, new : Token \cup {0}]

TypeOK ==
  /\ sec \in Token /\ valid \subseteq Token
  /\ jar \in [at : BOOLEAN, rt : Token \cup {0}] /\ (jar.at => jar.rt # 0)
  /\ call \in [Tabs -> [Calls -> {"idle", "sent", "waiting"}]]
  /\ renewal \in [Actors -> Request] /\ logout \in [Tabs -> Request]
  /\ away \subseteq Tabs /\ sentAway \in BOOLEAN /\ disturbed \in BOOLEAN
  \* Calls wait for a refresh that is there.
  /\ \A t \in Tabs, k \in Calls : call[t][k] = "waiting" => renewal[t].at # "none"

Init ==
  /\ sec = 1 /\ valid = {} /\ jar = NoCookies
  /\ call = [t \in Tabs |-> [k \in Calls |-> "idle"]]
  /\ renewal = [a \in Actors |-> None] /\ logout = [t \in Tabs |-> None]
  /\ away = Tabs /\ sentAway = FALSE /\ disturbed = FALSE

-----------------------------------------------------------------------------

\* Bound: nothing begins after the first disturbance; what is going on ends.
MayBegin == ~disturbed

Renewing(t) == renewal[t].at # "none"
Busy == (\E a \in Actors : Renewing(a)) \/ (\E t \in Tabs : logout[t].at # "none")
Sent == [None EXCEPT !.at = "sent", !.rt = jar.rt]

Tick ==
  /\ MayBegin /\ sec < MaxSec /\ sec' = sec + 1
  /\ UNCHANGED <<valid, jar, call, renewal, logout, away, sentAway, disturbed>>

\* The OAuth callback: issueTokens, both cookies, back to the page.
Login(t) ==
  /\ MayBegin /\ t \in away /\ jar.rt = 0
  /\ valid' = valid \cup {sec} /\ jar' = [at |-> TRUE, rt |-> sec]
  /\ away' = away \ {t}
  /\ disturbed' = (disturbed \/ Busy)
  /\ UNCHANGED <<sec, call, renewal, logout, sentAway>>

\* A tab is opened on a page while there is a session.
OpenTab(t) ==
  /\ MayBegin /\ t \in away /\ jar.at /\ away' = away \ {t}
  /\ UNCHANGED <<sec, valid, jar, call, renewal, logout, sentAway, disturbed>>

AccessExpires ==
  /\ MayBegin /\ jar.at /\ jar' = [jar EXCEPT !.at = FALSE]
  /\ UNCHANGED <<sec, valid, call, renewal, logout, away, sentAway, disturbed>>

-----------------------------------------------------------------------------
(* apiClient                                                                *)

\* A call leaves without a valid access token.
Call(t, k) ==
  /\ MayBegin /\ t \notin away /\ ~jar.at /\ call[t][k] = "idle"
  /\ call' = [call EXCEPT ![t][k] = "sent"]
  /\ UNCHANGED <<sec, valid, jar, renewal, logout, away, sentAway, disturbed>>

\* Mutant: every 401 has a refresh of its own.
RenewAgain(t) == TRUE
StartsRenewal(t) == ~Renewing(t)

\* 401: attemptTokenRefresh, one per tab.
Unauthorized(t, k) ==
  /\ call[t][k] = "sent"
  /\ call' = [call EXCEPT ![t][k] = "waiting"]
  /\ IF StartsRenewal(t)
     THEN /\ renewal' = [renewal EXCEPT ![t] = Sent]
          /\ disturbed' = (disturbed \/ \E a \in Actors \ {t} : Renewing(a)
                                     \/ \E u \in Tabs : logout[u].at # "none")
     ELSE UNCHANGED <<renewal, disturbed>>
  /\ UNCHANGED <<sec, valid, jar, logout, away, sentAway>>

\* The login page is asked for with a refresh token only.
ProxyRenews ==
  /\ MayBegin /\ ~jar.at /\ jar.rt # 0 /\ ~Renewing(Proxy)
  /\ renewal' = [renewal EXCEPT ![Proxy] = Sent]
  /\ disturbed' = (disturbed \/ Busy)
  /\ UNCHANGED <<sec, valid, jar, call, logout, away, sentAway>>

\* The calls that waited go on, one answered 401 later renews again.  After a
\* failure each sends a logout, all at once: one request stands for them.
Resolved(a, ok) ==
  /\ renewal' = [renewal EXCEPT ![a] = None]
  /\ IF a = Proxy THEN UNCHANGED <<call, logout, sentAway>>
     ELSE /\ call' = [call EXCEPT ![a] = [k \in Calls |-> IF @[k] = "waiting" THEN "idle" ELSE @[k]]]
          /\ IF ok \/ a \in away \/ logout[a].at # "none" THEN UNCHANGED <<logout, sentAway>>
             ELSE /\ logout' = [logout EXCEPT ![a] = Sent]
                  /\ sentAway' = (sentAway \/ renewal[a].rt # 0)

-----------------------------------------------------------------------------
(* AuthController.refresh and AuthService.refresh                           *)

Checked(a) ==
  /\ renewal[a].at = "sent"
  /\ renewal' = [renewal EXCEPT ![a].at = IF renewal[a].rt \in valid THEN "checked" ELSE "refused"]
  /\ UNCHANGED <<sec, valid, jar, call, logout, away, sentAway, disturbed>>

\* Mutant: the old token stays.
Unrotated(rt) == valid
Rotated(rt) == valid \ {rt}

Deleted(a) ==
  /\ renewal[a].at = "checked"
  /\ valid' = Rotated(renewal[a].rt)
  /\ renewal' = [renewal EXCEPT ![a].at = "deleted"]
  /\ UNCHANGED <<sec, jar, call, logout, away, sentAway, disturbed>>

Issued(a) ==
  /\ renewal[a].at = "deleted"
  /\ valid' = valid \cup {sec}
  /\ renewal' = [renewal EXCEPT ![a].at = "issued", ![a].new = sec]
  /\ UNCHANGED <<sec, jar, call, logout, away, sentAway, disturbed>>

\* The answer arrives.
Answered(a) ==
  /\ renewal[a].at \in {"issued", "refused"}
  /\ jar' = IF renewal[a].at = "issued" THEN [at |-> TRUE, rt |-> renewal[a].new] ELSE jar
  /\ Resolved(a, renewal[a].at = "issued")
  /\ UNCHANGED <<sec, valid, away, disturbed>>

\* The server stops, or the connection fails, before the answer arrives.
Lost(a) ==
  /\ Renewing(a)
  /\ Resolved(a, FALSE)
  /\ disturbed' = TRUE
  /\ UNCHANGED <<sec, valid, jar, away>>

-----------------------------------------------------------------------------
(* Logging out: the tab stays until the answer, and goes to the login page   *)

Logout(t) ==
  /\ MayBegin /\ t \notin away /\ logout[t].at = "none"
  /\ logout' = [logout EXCEPT ![t] = Sent]
  /\ disturbed' = (disturbed \/ Busy)
  /\ UNCHANGED <<sec, valid, jar, call, renewal, away, sentAway>>

LogoutHandled(t) ==
  /\ logout[t].at = "sent"
  /\ valid' = valid \ {logout[t].rt}
  /\ logout' = [logout EXCEPT ![t].at = "deleted"]
  /\ UNCHANGED <<sec, jar, call, renewal, away, sentAway, disturbed>>

\* A refresh of the page it leaves is answered or lost.
Leave(t) ==
  /\ logout' = [logout EXCEPT ![t] = None]
  /\ away' = away \cup {t}
  /\ call' = [call EXCEPT ![t] = [k \in Calls |-> "idle"]]

Cleared == NoCookies

LogoutAnswered(t) ==
  /\ logout[t].at = "deleted"
  /\ jar' = Cleared
  /\ Leave(t)
  /\ UNCHANGED <<sec, valid, renewal, sentAway, disturbed>>

LogoutLost(t) ==
  /\ logout[t].at # "none"
  /\ Leave(t)
  /\ disturbed' = TRUE
  /\ UNCHANGED <<sec, valid, jar, renewal, sentAway>>

-----------------------------------------------------------------------------

Next ==
  \/ Tick \/ AccessExpires \/ ProxyRenews
  \/ \E t \in Tabs :
       \/ Login(t) \/ OpenTab(t) \/ Logout(t)
       \/ LogoutHandled(t) \/ LogoutAnswered(t) \/ LogoutLost(t)
       \/ \E k \in Calls : Call(t, k) \/ Unauthorized(t, k)
  \/ \E a \in Actors : Checked(a) \/ Deleted(a) \/ Issued(a) \/ Answered(a) \/ Lost(a)

Spec == Init /\ [][Next]_vars

-----------------------------------------------------------------------------
(* Properties                                                               *)

\* A tab that holds a refresh token is sent to the login page only after a
\* request was lost, or two tabs (or a tab and the proxy) renewed or logged out
\* at once: the second finds its token rotated, and its logout ends the session
\* the first has just renewed.  The calls of one tab do not disturb each other.
SentAwayOnlyIfDisturbed == sentAway => disturbed

\* Undisturbed, the server knows the token of the cookie, or the one on its way
\* to replace it, and no other; logging out leaves none.  The state is typed:
\* calls wait for a refresh that is there.
OneLiveToken ==
  /\ TypeOK
  /\ ~disturbed => /\ valid \subseteq {jar.rt} \cup {renewal[a].new : a \in Actors}
                   /\ ~Busy /\ jar.rt # 0 => jar.rt \in valid
=============================================================================
