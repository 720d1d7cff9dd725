----------------------------- MODULE UpbitSocket -----------------------------
(***************************************************************************)
(* UpbitWebsocketClient: one logical connection to Upbit, made of sockets  *)
(* that open, fail and close by themselves.  The client keeps one of them  *)
(* in `ws`, but the handlers of every socket it ever made stay attached:   *)
(* a close event clears `ws` and consumes manualClose whichever socket it  *)
(* comes from.                                                             *)
(*                                                                         *)
(* What a caller subscribes to is a set of market codes.  A socket is an   *)
(* entry of a pool; it returns to the pool when its close event is         *)
(* handled.  An error event is followed at once by the close event and     *)
(* changes nothing that one does not.                                      *)
(***************************************************************************)
EXTENDS Integers, FiniteSets

CONSTANTS
  Markets,  \* market codes
  Pool,     \* bound: sockets not closed yet, at one time (1..n)
  MaxLater  \* bound: 200 ms timers running at one time

ASSUME UpbitSocketAssumption ==
  Pool \subseteq Nat \ {0} /\ IsFiniteSet(Pool) /\ MaxLater \in Nat

VARIABLES
  link,         \* per socket: readyState, and the codes Upbit sends on it
  ws,           \* the socket the client holds, 0: undefined
  isOpen,
  reconnecting, \* the 5 s timer runs
  manualClose,
  payload,      \* lastSubscriptionPayload; {}: null
  later,        \* 200 ms timers of resubscribe
  heard,        \* lastMessageAt: never, within 15 s, or before
  late          \* history: a socket was replaced before it had closed

client     == <<isOpen, reconnecting, manualClose, payload, later>>
socketVars == <<link, ws, client, heard, late>>

States == {"free", "connecting", "open", "closing"}
Free   == [state |-> "free", codes |-> {}]

InState(states) == {s \in Pool : link[s].state \in states}

SocketTypeOK ==
  /\ link \in [Pool -> [state : States, codes : SUBSET Markets]]
  /\ ws \in InState(States \ {"free"}) \cup {0}
  /\ isOpen \in BOOLEAN /\ reconnecting \in BOOLEAN /\ manualClose \in BOOLEAN
  /\ payload \subseteq Markets /\ later \in 0..MaxLater
  /\ heard \in {"never", "fresh", "old"} /\ late \in BOOLEAN

SocketInit ==
  /\ link = [s \in Pool |-> Free] /\ ws = 0
  /\ isOpen = FALSE /\ reconnecting = FALSE /\ manualClose = FALSE
  /\ payload = {} /\ later = 0 /\ heard = "never" /\ late = FALSE

Held(states) == ws # 0 /\ link[ws].state \in states

\* The sockets Upbit sends market data on.
Feeding == {s \in InState({"open"}) : link[s].codes # {}}

\* A socket from the pool takes the place of the one held, which may not have
\* closed yet.
NewSocket ==
  /\ \E s \in InState({"free"}) :
       /\ \A t \in InState({"free"}) : s <= t
       /\ link' = [link EXCEPT ![s].state = "connecting"]
       /\ ws' = s
  /\ late' = (late \/ Held({"closing"}))

\* Mutant: connect without its guard.
ConnectAlways == NewSocket

\* connect: nothing while the socket held connects or is open.
Connect ==
  IF Held({"connecting", "open"}) THEN UNCHANGED <<link, ws, late>> ELSE NewSocket

\* The open event of socket s; the payload goes to the socket held.
Opened(s) ==
  /\ link[s].state = "connecting"
  /\ isOpen' = TRUE
  /\ LET now == [link EXCEPT ![s].state = "open"]
     IN link' = IF payload # {} /\ ws # 0 /\ now[ws].state = "open"
                THEN [now EXCEPT ![ws].codes = payload] ELSE now
  /\ UNCHANGED <<ws, reconnecting, manualClose, payload, later, heard, late>>

\* Data arrives on socket s, or none has for 15 s.
Message(s) ==
  /\ s \in Feeding /\ heard' = "fresh"
  /\ UNCHANGED <<link, ws, client, late>>
Silence ==
  /\ heard = "fresh" /\ heard' = "old"
  /\ UNCHANGED <<link, ws, client, late>>

\* Mutant: the flag survives the close it was set for.
ManualCloseKept == manualClose' = manualClose
ManualCloseUsed == manualClose' = FALSE

WsAfterClose == 0

\* The close event of socket s: refused, dropped by the network or by Upbit,
\* or closed by resubscribe.
Closed(s) ==
  /\ link[s].state # "free"
  /\ link' = [link EXCEPT ![s] = Free]
  /\ isOpen' = FALSE /\ ws' = WsAfterClose
  /\ IF manualClose THEN ManualCloseUsed /\ UNCHANGED reconnecting
                    ELSE reconnecting' = TRUE /\ UNCHANGED manualClose
  /\ UNCHANGED <<payload, later, heard, late>>

\* The two timers that connect.
ReconnectTimer ==
  /\ reconnecting /\ reconnecting' = FALSE
  /\ Connect
  /\ UNCHANGED <<isOpen, manualClose, payload, later, heard>>
ReplaceTimer ==
  /\ later > 0 /\ later' = later - 1
  /\ Connect
  /\ UNCHANGED <<isOpen, reconnecting, manualClose, payload, heard>>

Subscribe(codes) ==
  /\ payload' = codes
  /\ Connect
  /\ UNCHANGED <<isOpen, reconnecting, manualClose, later, heard>>

Resubscribe(codes) ==
  /\ payload' = codes
  /\ IF Held({"connecting", "open"})
     THEN /\ later < MaxLater /\ later' = later + 1
          /\ manualClose' = TRUE
          /\ link' = [link EXCEPT ![ws] = [state |-> "closing", codes |-> {}]]
          /\ UNCHANGED <<ws, late>>
     ELSE Connect /\ UNCHANGED <<later, manualClose>>
  /\ UNCHANGED <<isOpen, reconnecting, heard>>
=============================================================================
