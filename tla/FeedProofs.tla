------------------------------ MODULE FeedProofs ------------------------------
(***************************************************************************)
(* Proofs about the messages of a market, for any number of handlers, init *)
(* jobs, candles and trades, and for any books, time stamps and lists.     *)
(*                                                                         *)
(* The tracker: Redis serves its connection's commands in the order they   *)
(* were issued, so everything a handler may find in Redis follows from who *)
(* waits before whom in that queue.  A candle the stream spoke of is with  *)
(* a handler, or is the current one, or has a row; there is room in the    *)
(* set for the candle a handler is about to add; and, as long as nothing   *)
(* is marked, the current candle only climbs, the one before it is in the  *)
(* set, and a query meets at most one that is not.                         *)
(*                                                                         *)
(* The page: sorting trades is by a bijection from places to ranks, and a  *)
(* trade the server has and the page does not show is missed, on its way,  *)
(* or older than a full list.                                              *)
(***************************************************************************)
EXTENDS MarketFeed, FiniteSetTheorems, WellFoundedInduction, TLAPS

-----------------------------------------------------------------------------
(* The connection's queue                                                   *)

Callers == Handlers \cup {"init", "query"}

\* Who waits in a queue, who before whom, and a queue of one place each.
InLine(q, x)      == \E i \in 1..Len(q) : q[i] = x
Precedes(q, x, y) == \E i, j \in 1..Len(q) : i < j /\ q[i] = x /\ q[j] = y
OnePlace(q)       == q \in Seq(Callers) /\ \A i, j \in 1..Len(q) : q[i] = q[j] => i = j

\* What becomes of the places: x comes last, the first one leaves, and it goes
\* to the end.
Joins(q, r, x) ==
  /\ OnePlace(r)
  /\ \A y : InLine(r, y) <=> InLine(q, y) \/ y = x
  /\ \A y, z : Precedes(r, y, z) <=> Precedes(q, y, z) \/ (InLine(q, y) /\ z = x)

Leaves(q, r, x) ==
  /\ OnePlace(r)
  /\ \A y : InLine(r, y) <=> InLine(q, y) /\ y # x
  /\ \A y, z : Precedes(r, y, z) <=> Precedes(q, y, z) /\ y # x

Returns(q, r, x) ==
  /\ OnePlace(r) /\ InLine(q, x)
  /\ \A y : InLine(r, y) <=> InLine(q, y)
  /\ \A y, z : Precedes(r, y, z) <=> \/ Precedes(q, y, z) /\ y # x
                                     \/ InLine(q, y) /\ y # x /\ z = x

LEMMA JoinsAtTheEnd ==
  ASSUME NEW q, OnePlace(q), NEW x \in Callers, ~InLine(q, x)
  PROVE  Joins(q, Append(q, x), x)
<1> DEFINE r == Append(q, x)
<1>1. q \in Seq(Callers) /\ r \in Seq(Callers) /\ Len(q) \in Nat /\ Len(r) = Len(q) + 1
      /\ r[Len(q) + 1] = x /\ \A i \in 1..Len(q) : r[i] = q[i]
  BY DEF OnePlace
<1> HIDE DEF r
<1>2. OnePlace(r)
  BY <1>1 DEF OnePlace, InLine
<1>3. \A y : InLine(r, y) <=> InLine(q, y) \/ y = x
  <2>1. ASSUME NEW y PROVE InLine(r, y) => InLine(q, y) \/ y = x
    BY <1>1 DEF InLine
  <2>2. ASSUME NEW y PROVE InLine(q, y) => InLine(r, y)
    BY <1>1 DEF InLine
  <2>3. InLine(r, x)
    BY <1>1 DEF InLine
  <2>4. QED
    BY <2>1, <2>2, <2>3
<1>4. ASSUME NEW y, NEW z
      PROVE  Precedes(r, y, z) <=> Precedes(q, y, z) \/ (InLine(q, y) /\ z = x)
  <2>1. ASSUME Precedes(r, y, z) PROVE Precedes(q, y, z) \/ (InLine(q, y) /\ z = x)
    <3>1. PICK i, j \in 1..Len(r) : i < j /\ r[i] = y /\ r[j] = z
      BY <2>1 DEF Precedes
    <3>2. i \in 1..Len(q) /\ q[i] = y
      BY <1>1, <3>1
    <3>3. CASE j = Len(q) + 1
      BY <1>1, <3>1, <3>2, <3>3 DEF InLine
    <3>4. CASE j # Len(q) + 1
      <4>1. j \in 1..Len(q) /\ q[j] = z
        BY <1>1, <3>1, <3>4
      <4>2. QED
        BY <3>1, <3>2, <4>1 DEF Precedes
    <3>5. QED
      BY <3>3, <3>4
  <2>2. ASSUME Precedes(q, y, z) PROVE Precedes(r, y, z)
    <3>1. PICK i, j \in 1..Len(q) : i < j /\ q[i] = y /\ q[j] = z
      BY <2>2 DEF Precedes
    <3>2. i \in 1..Len(r) /\ j \in 1..Len(r) /\ r[i] = y /\ r[j] = z
      BY <1>1, <3>1
    <3>3. QED
      BY <3>1, <3>2 DEF Precedes
  <2>3. ASSUME InLine(q, y), z = x PROVE Precedes(r, y, z)
    <3>1. PICK i \in 1..Len(q) : q[i] = y
      BY <2>3 DEF InLine
    <3>2. i \in 1..Len(r) /\ r[i] = y /\ Len(r) \in 1..Len(r) /\ i < Len(r) /\ r[Len(r)] = z
      BY <1>1, <2>3, <3>1
    <3>3. QED
      BY <3>2 DEF Precedes
  <2>4. QED
    BY <2>1, <2>2, <2>3
<1>5. QED
  BY <1>2, <1>3, <1>4 DEF Joins, r

LEMMA FirstLeaves ==
  ASSUME NEW q, OnePlace(q), q # <<>>
  PROVE  /\ Leaves(q, Tail(q), Head(q))
         /\ InLine(q, Head(q)) /\ Head(q) \in Callers
         /\ \A y : InLine(q, y) /\ y # Head(q) => Precedes(q, Head(q), y)
         /\ \A y : ~Precedes(q, y, Head(q))
<1> DEFINE r == Tail(q)
           x == Head(q)
<1>1. /\ q \in Seq(Callers) /\ r \in Seq(Callers) /\ Len(q) \in Nat \ {0} /\ Len(r) = Len(q) - 1
      /\ q[1] = x /\ \A i \in 1..Len(r) : r[i] = q[i + 1]
  BY DEF OnePlace
<1>2. \A i \in 2..Len(q) : q[i] = r[i - 1] /\ i - 1 \in 1..Len(r) /\ q[i] # x
  BY <1>1 DEF OnePlace
<1> HIDE DEF r, x
<1>3. OnePlace(r)
  <2>1. ASSUME NEW i \in 1..Len(r), NEW j \in 1..Len(r), r[i] = r[j] PROVE i = j
    <3>1. i + 1 \in 1..Len(q) /\ j + 1 \in 1..Len(q) /\ q[i + 1] = q[j + 1]
      BY <1>1, <2>1
    <3>2. QED
      BY <3>1 DEF OnePlace
  <2>2. QED
    BY <1>1, <2>1 DEF OnePlace
<1>4. ASSUME NEW y PROVE InLine(r, y) <=> InLine(q, y) /\ y # x
  <2>1. ASSUME NEW i \in 1..Len(r), r[i] = y PROVE InLine(q, y) /\ y # x
    <3>1. i + 1 \in 2..Len(q) /\ i + 1 \in 1..Len(q) /\ q[i + 1] = y
      BY <1>1, <2>1
    <3>2. QED
      BY <1>2, <3>1 DEF InLine
  <2>2. ASSUME NEW i \in 1..Len(q), q[i] = y, y # x PROVE InLine(r, y)
    <3>1. i \in 2..Len(q)
      BY <1>1, <2>2
    <3>2. QED
      BY <1>2, <2>2, <3>1 DEF InLine
  <2>3. QED
    BY <2>1, <2>2 DEF InLine
<1>5. ASSUME NEW y, NEW z PROVE Precedes(r, y, z) <=> Precedes(q, y, z) /\ y # x
  <2>1. ASSUME NEW i \in 1..Len(r), NEW j \in 1..Len(r), i < j, r[i] = y, r[j] = z
        PROVE  Precedes(q, y, z) /\ y # x
    <3>1. i + 1 \in 2..Len(q) /\ i + 1 \in 1..Len(q) /\ q[i + 1] = y
          /\ j + 1 \in 1..Len(q) /\ q[j + 1] = z /\ i + 1 < j + 1
      BY <1>1, <2>1
    <3>2. QED
      BY <1>2, <3>1 DEF Precedes
  <2>2. ASSUME NEW i \in 1..Len(q), NEW j \in 1..Len(q), i < j, q[i] = y, q[j] = z, y # x
        PROVE  Precedes(r, y, z)
    <3>1. i \in 2..Len(q) /\ j \in 2..Len(q) /\ i - 1 < j - 1
      BY <1>1, <2>2
    <3>2. QED
      BY <1>2, <2>2, <3>1 DEF Precedes
  <2>3. QED
    BY <2>1, <2>2 DEF Precedes
<1>6. InLine(q, x) /\ x \in Callers
  BY <1>1 DEF InLine
<1>7. ASSUME NEW y, InLine(q, y), y # x PROVE Precedes(q, x, y)
  <2>1. PICK i \in 1..Len(q) : q[i] = y
    BY <1>7 DEF InLine
  <2>2. 1 \in 1..Len(q) /\ 1 < i
    BY <1>1, <1>7, <2>1
  <2>3. QED
    BY <1>1, <2>1, <2>2 DEF Precedes
<1>8. ASSUME NEW y, Precedes(q, y, x) PROVE FALSE
  <2>1. PICK i, j \in 1..Len(q) : i < j /\ q[i] = y /\ q[j] = x
    BY <1>8 DEF Precedes
  <2>2. j \in 2..Len(q)
    BY <1>1, <2>1
  <2>3. QED
    BY <1>2, <2>1, <2>2
<1>9. QED
  BY <1>3, <1>4, <1>5, <1>6, <1>7, <1>8 DEF Leaves, r, x

LEMMA FirstReturns ==
  ASSUME NEW q, OnePlace(q), q # <<>>
  PROVE  Returns(q, Append(Tail(q), Head(q)), Head(q))
<1> DEFINE r == Tail(q)
           x == Head(q)
<1>1. Leaves(q, r, x) /\ InLine(q, x) /\ x \in Callers
  BY FirstLeaves
<1> HIDE DEF r, x
<1>2. OnePlace(r) /\ ~InLine(r, x)
  BY <1>1 DEF Leaves
<1>3. Joins(r, Append(r, x), x)
  BY <1>1, <1>2, JoinsAtTheEnd
<1> DEFINE s == Append(r, x)
<1> HIDE DEF s
<1>4. Joins(r, s, x)
  BY <1>3 DEF s
<1>5. Returns(q, s, x)
  BY <1>1, <1>4 DEF Leaves, Joins, Returns
<1>6. QED
  BY <1>5 DEF s, r, x

-----------------------------------------------------------------------------
(* What is in the variables                                                 *)

JobSteps == {"setCurrent", "setLast", "remove", "add"}
AskSteps == {"range", "get"}

\* The queue holds those whose step is a command, in one place each.
Queued ==
  /\ OnePlace(queue)
  /\ \A h \in Handlers : InLine(queue, h) <=> call[h].step \in RedisSteps
  /\ InLine(queue, "init") <=> job.step \in JobSteps
  /\ InLine(queue, "query") <=> ask.step \in AskSteps

Stored ==
  /\ now \in Times
  /\ traded \in [Times -> Volumes] /\ heard \in [Times -> Volumes]
  /\ current \in Candle \cup {NoCandle} /\ lastTime \in Times \cup {None}
  /\ finalized \in [Times -> Seq(Volumes)]
  /\ db \in [Times -> Volumes]
  /\ call \in [Handlers -> Call \cup {Idle}]
  /\ job \in Job \cup {NoJob} /\ jobs \in 0..Jobs
  /\ ask \in Ask \cup {NoAsk}
  /\ disturbed \subseteq Times /\ refilled \subseteq Times

\* A job has a candle, and a handler one to finalize while it does, and none
\* before.
Busy ==
  /\ job # NoJob => Known(job.rest) # {}
  /\ \A h \in Handlers :
       /\ call[h].step \in {"find", "save", "zadd", "trim", "expire"} => call[h].prev \in Candle
       /\ call[h].step \in {"getLast", "getCurrent"} => call[h].prev = NoCandle

Typed == Stored /\ Queued /\ Busy

LEMMA TypedIsTyped == Typed => TypeOK
<1> SUFFICES ASSUME Typed PROVE TypeOK
  OBVIOUS
<1>1. ASSUME NEW i \in DOMAIN queue
      PROVE  \/ queue[i] \in Handlers /\ call[queue[i]].step \in RedisSteps
             \/ queue[i] = "init" /\ job.step \in {"setCurrent", "setLast", "remove", "add"}
             \/ queue[i] = "query" /\ ask.step \in {"range", "get"}
  <2>1. i \in 1..Len(queue) /\ queue[i] \in Callers
    BY <1>1 DEF Typed, Queued, OnePlace
  <2>2. InLine(queue, queue[i])
    BY <2>1 DEF InLine
  <2>3. QED
    BY <2>1, <2>2 DEF Typed, Queued, Callers, JobSteps, AskSteps
<1>2. QED
  BY <1>1 DEF Typed, Stored, TypeOK

\* A volume that was traded in its candle, as the clock and the trades are.
Real(x, clock, sold) ==
  x \in Candle /\ x.time <= clock /\ 0 < x.volume /\ x.volume <= sold[x.time]

LEMMA TimesAreNumbers ==
  /\ Times \subseteq Nat /\ Volumes \subseteq Nat /\ None \notin Times /\ None \in Nat
  /\ None \in Volumes
  /\ NoCandle \notin Candle /\ NoCandle.time = None /\ NoCandle.volume = 0
  /\ \A x \in Candle : x.time \in Times /\ x.volume \in Volumes
  /\ \A x, y \in Candle : x.time = y.time /\ x.volume = y.volume => x = y
BY CandleTrackerAssumption DEF Times, Volumes, None, NoCandle, Candle

\* A handler is under way with a candle, or idle.
LEMMA CallShape ==
  ASSUME Stored, NEW h \in Handlers
  PROVE  /\ call[h].step \in {"idle"} \cup DbSteps \cup RedisSteps
         /\ call[h].step = "idle" <=> call[h] = Idle
         /\ call[h].candle = NoCandle <=> call[h] = Idle
         /\ call[h].step # "idle" => call[h].candle \in Candle
         /\ call[h].step = "idle" => call[h].candle = NoCandle /\ call[h].prev = NoCandle
         /\ call[h].prev \in Candle \cup {NoCandle}
<1>1. CASE call[h] = Idle
  BY <1>1 DEF Idle
<1>2. CASE call[h] \in Call
  <2>1. call[h].step # "idle"
    BY <1>2 DEF Call, DbSteps, RedisSteps
  <2>2. QED
    BY <1>2, <2>1, TimesAreNumbers DEF Call, Idle
<1>3. QED
  BY <1>1, <1>2 DEF Stored

-----------------------------------------------------------------------------
(* What a handler's step does to its call and to the queue                  *)

Moves(h, step, prev) ==
  /\ call' \in [Handlers -> Call \cup {Idle}]
  /\ call'[h].step = step /\ call'[h].candle = call[h].candle /\ call'[h].prev = prev
  /\ \A g \in Handlers : g # h => call'[g] = call[g]

LEMMA GotoMoves ==
  ASSUME Stored, NEW h \in Handlers, call[h] # Idle, NEW s \in DbSteps \cup RedisSteps, Goto(h, s)
  PROVE  Moves(h, s, call[h].prev)
<1>1. call \in [Handlers -> Call \cup {Idle}] /\ call[h] \in Call
  BY DEF Stored
<1>2. call' = [call EXCEPT ![h] = [call[h] EXCEPT !.step = s]]
  BY DEF Goto
<1>3. [call[h] EXCEPT !.step = s] \in Call
  BY <1>1 DEF Call
<1>4. /\ [call[h] EXCEPT !.step = s].step = s
      /\ [call[h] EXCEPT !.step = s].candle = call[h].candle
      /\ [call[h] EXCEPT !.step = s].prev = call[h].prev
  BY <1>1 DEF Call
<1>5. QED
  BY <1>1, <1>2, <1>3, <1>4 DEF Moves

\* Whoever is first is in line, and the one whose step is no command is not.
LEMMA FirstInLine ==
  ASSUME Typed, NEW x, First(x)
  PROVE  /\ x \in Callers /\ InLine(queue, x)
         /\ \A y : InLine(queue, y) /\ y # x => Precedes(queue, x, y)
         /\ \A y : ~Precedes(queue, y, x)
         /\ Leave => Leaves(queue, queue', x)
         /\ Issue(x) => Returns(queue, queue', x)
<1>1. OnePlace(queue) /\ queue # <<>> /\ Head(queue) = x
  BY DEF Typed, Queued, First
<1>2. QED
  BY <1>1, FirstLeaves, FirstReturns DEF Leave, Issue

LEMMA GetLastDoes ==
  ASSUME Typed, NEW h \in Handlers, GetLast(h)
  PROVE  /\ call[h].step = "getLast" /\ First(h)
         /\ Returns(queue, queue', h)
         /\ \/ Moves(h, "getCurrent", call[h].prev) /\ lastTime # None
            \/ Moves(h, "setCurrent", call[h].prev)
<1>1. call[h].step = "getLast" /\ First(h) /\ Issue(h) /\ call[h] # Idle
  BY CallShape DEF GetLast, Typed
<1>2. \/ Goto(h, "getCurrent") /\ lastTime # None
      \/ Goto(h, "setCurrent")
  BY DEF GetLast
<1>3. QED
  BY <1>1, <1>2, FirstInLine, GotoMoves DEF Typed, RedisSteps

LEMMA GetCurrentDoes ==
  ASSUME Typed, NEW h \in Handlers, GetCurrent(h)
  PROVE  /\ call[h].step = "getCurrent" /\ First(h)
         /\ \/ /\ current = NoCandle
               /\ Returns(queue, queue', h) /\ Moves(h, "setCurrent", call[h].prev)
            \/ /\ current # NoCandle
               /\ Leaves(queue, queue', h) /\ Moves(h, "find", current)
<1>1. call[h].step = "getCurrent" /\ First(h) /\ call[h] # Idle
  BY CallShape DEF GetCurrent, Typed
<1>2. CASE current = NoCandle
  <2>1. Goto(h, "setCurrent") /\ Issue(h)
    BY <1>2 DEF GetCurrent
  <2>2. QED
    BY <1>1, <1>2, <2>1, FirstInLine, GotoMoves DEF Typed, RedisSteps
<1>3. CASE current # NoCandle
  <2>1. Leave /\ call' = [call EXCEPT ![h].step = "find", ![h].prev = current]
    BY <1>3 DEF GetCurrent
  <2>2. call \in [Handlers -> Call \cup {Idle}] /\ call[h] \in Call /\ current \in Candle
    BY <1>1, <1>3 DEF Typed, Stored
  <2> DEFINE new == [call[h] EXCEPT !.step = "find", !.prev = current]
  <2>3. call' = [call EXCEPT ![h] = new]
    BY <2>1, <2>2
  <2>4. new \in Call /\ new.step = "find" /\ new.candle = call[h].candle /\ new.prev = current
    BY <2>2 DEF Call, DbSteps
  <2> HIDE DEF new
  <2>5. Moves(h, "find", current)
    BY <2>2, <2>3, <2>4 DEF Moves
  <2>6. QED
    BY <1>1, <1>3, <2>1, <2>5, FirstInLine
<1>4. QED
  BY <1>2, <1>3

\* At the database a handler is not in line, and its next command is the last.
LEMMA AfterDatabase ==
  ASSUME Typed, NEW h \in Handlers, call[h].step \in DbSteps
  PROVE  /\ call[h] # Idle
         /\ queue' = Append(queue, h) => Joins(queue, queue', h)
<1>1. call[h].step \notin RedisSteps
  BY DEF DbSteps, RedisSteps
<1>2. ~InLine(queue, h) /\ OnePlace(queue) /\ h \in Callers
  BY <1>1 DEF Typed, Queued, Callers
<1>3. call[h] # Idle
  BY DEF Idle, DbSteps
<1>4. QED
  BY <1>2, <1>3, JoinsAtTheEnd

LEMMA FindDoes ==
  ASSUME Typed, NEW h \in Handlers, Find(h)
  PROVE  /\ call[h].step = "find"
         /\ \/ /\ db[call[h].prev.time] # None
               /\ Joins(queue, queue', h) /\ Moves(h, "setCurrent", call[h].prev)
            \/ /\ db[call[h].prev.time] = None
               /\ queue' = queue /\ Moves(h, "save", call[h].prev)
<1>1. call[h].step = "find" /\ call[h].step \in DbSteps
  BY DEF Find, DbSteps
<1>2. \/ db[call[h].prev.time] # None /\ Goto(h, "setCurrent") /\ queue' = Append(queue, h)
      \/ db[call[h].prev.time] = None /\ Goto(h, "save") /\ queue' = queue
  BY DEF Find
<1>3. QED
  BY <1>1, <1>2, AfterDatabase, GotoMoves DEF Typed, RedisSteps, DbSteps

LEMMA SaveDoes ==
  ASSUME Typed, NEW h \in Handlers, Save(h)
  PROVE  /\ call[h].step = "save" /\ db[call[h].prev.time] = None
         /\ Joins(queue, queue', h) /\ Moves(h, "zadd", call[h].prev)
<1>1. call[h].step = "save" /\ call[h].step \in DbSteps /\ Goto(h, "zadd")
      /\ queue' = Append(queue, h) /\ db[call[h].prev.time] = None
  BY DEF Save, DbSteps
<1>2. QED
  BY <1>1, AfterDatabase, GotoMoves DEF Typed, RedisSteps

LEMMA SaveFailsDoes ==
  ASSUME Typed, NEW h \in Handlers, SaveFails(h)
  PROVE  /\ call[h].step \in DbSteps
         /\ Joins(queue, queue', h) /\ Moves(h, "setCurrent", call[h].prev)
<1>1. call[h].step \in DbSteps /\ Goto(h, "setCurrent") /\ queue' = Append(queue, h)
  BY DEF SaveFails
<1>2. QED
  BY <1>1, AfterDatabase, GotoMoves DEF Typed, RedisSteps

LEMMA ZaddDoes ==
  ASSUME Typed, NEW h \in Handlers, Zadd(h)
  PROVE  /\ call[h].step = "zadd" /\ First(h)
         /\ Returns(queue, queue', h) /\ Moves(h, "trim", call[h].prev)
<1>1. call[h].step = "zadd" /\ First(h) /\ Issue(h) /\ Goto(h, "trim") /\ call[h] # Idle
  BY CallShape DEF Zadd, Typed
<1>2. QED
  BY <1>1, FirstInLine, GotoMoves DEF Typed, RedisSteps

LEMMA TidyDoes ==
  ASSUME Typed, NEW h \in Handlers, Tidy(h)
  PROVE  /\ call[h].step \in {"trim", "expire"} /\ First(h)
         /\ Returns(queue, queue', h)
         /\ \/ Moves(h, "expire", call[h].prev)
            \/ Moves(h, "setCurrent", call[h].prev)
<1>1. call[h].step \in {"trim", "expire"} /\ First(h) /\ Issue(h) /\ call[h] # Idle
  BY CallShape DEF Tidy, Typed
<1>2. Goto(h, "expire") \/ Goto(h, "setCurrent")
  BY DEF Tidy
<1>3. QED
  BY <1>1, <1>2, FirstInLine, GotoMoves DEF Typed, RedisSteps

LEMMA SetCurrentDoes ==
  ASSUME Typed, NEW h \in Handlers, SetCurrent(h)
  PROVE  /\ call[h].step = "setCurrent" /\ First(h) /\ call[h].candle \in Candle
         /\ Returns(queue, queue', h) /\ Moves(h, "setLast", call[h].prev)
<1>1. call[h].step = "setCurrent" /\ First(h) /\ Issue(h) /\ Goto(h, "setLast") /\ call[h] # Idle
  BY CallShape DEF SetCurrent, Typed
<1>2. QED
  BY <1>1, FirstInLine, GotoMoves, CallShape DEF Typed, RedisSteps

LEMMA SetLastDoes ==
  ASSUME Typed, NEW h \in Handlers, SetLast(h)
  PROVE  /\ call[h].step = "setLast" /\ First(h) /\ call[h].candle \in Candle
         /\ Leaves(queue, queue', h)
         /\ call' \in [Handlers -> Call \cup {Idle}] /\ call'[h] = Idle
         /\ \A g \in Handlers : g # h => call'[g] = call[g]
<1>1. call[h].step = "setLast" /\ First(h) /\ Leave /\ call[h].candle \in Candle
  BY CallShape DEF SetLast, Typed
<1>2. call' = [call EXCEPT ![h] = Idle] /\ call \in [Handlers -> Call \cup {Idle}]
  BY DEF SetLast, Typed, Stored
<1>3. QED
  BY <1>1, <1>2, FirstInLine

-----------------------------------------------------------------------------
(* The other steps                                                          *)

\* There is room for a trade while there are fewer than MaxTrades.
LEMMA TradesBounded ==
  ASSUME Stored, Cardinality({t \in Times \X Volumes : t[2] < traded[t[1]]}) < MaxTrades
  PROVE  traded[now] + 1 \in Volumes
<1> DEFINE S == {t \in Times \X Volumes : t[2] < traded[t[1]]}
           n == traded[now]
           T == {t \in {now} \X (0..n - 1) : TRUE}
<1>1. now \in Times /\ n \in Volumes /\ n \in Nat /\ n <= MaxTrades /\ MaxTrades \in Nat
  BY CandleTrackerAssumption DEF Stored, Volumes
<1>2. IsFiniteSet(Times) /\ IsFiniteSet(Volumes) /\ IsFiniteSet(0..n - 1)
      /\ Cardinality(0..n - 1) = n
  <2>1. IsFiniteSet(Times) /\ IsFiniteSet(Volumes)
    BY FS_Interval, CandleTrackerAssumption DEF Times, Volumes
  <2> HIDE DEF n
  <2>2. 0 \in Int /\ n - 1 \in Int
    BY <1>1
  <2>3. /\ IsFiniteSet(0..n - 1)
        /\ Cardinality(0..n - 1) = IF 0 > n - 1 THEN 0 ELSE (n - 1) - 0 + 1
    BY <2>2, FS_Interval, Zenon
  <2>4. QED
    BY <1>1, <2>1, <2>3
<1>3. IsFiniteSet(S)
  <2>1. IsFiniteSet(Times \X Volumes)
    BY <1>2, FS_Product
  <2>2. QED
    BY <2>1, FS_Subset
<1>4. {now} \X (0..n - 1) \in SUBSET S
  <2>1. ASSUME NEW t \in {now} \X (0..n - 1) PROVE t \in S
    <3>1. t[1] = now /\ t[2] \in 0..n - 1 /\ t = <<t[1], t[2]>>
      OBVIOUS
    <3>2. t[2] \in Volumes /\ t[2] < n
      BY <1>1, <3>1 DEF Volumes
    <3>3. QED
      BY <1>1, <3>1, <3>2
  <2>2. QED
    BY <2>1
<1>5. Cardinality({now} \X (0..n - 1)) = n
  <2>1. IsFiniteSet({now}) /\ Cardinality({now}) = 1
    BY FS_Singleton
  <2>2. Cardinality({now} \X (0..n - 1)) = Cardinality({now}) * Cardinality(0..n - 1)
    BY <1>2, <2>1, FS_Product
  <2>3. QED
    BY <1>1, <1>2, <2>1, <2>2
<1>6. n <= Cardinality(S) /\ Cardinality(S) \in Nat
  BY <1>3, <1>4, <1>5, FS_Subset, FS_CardinalityType
<1>7. Cardinality(S) < MaxTrades
  OBVIOUS
<1> HIDE DEF S
<1>8. QED
  BY <1>1, <1>6, <1>7 DEF Volumes

NewCall == [step |-> "getLast", prev |-> NoCandle,
            candle |-> [time |-> now, volume |-> traded[now] + 1]]

LEMMA TradeDoes ==
  ASSUME Typed, Trade
  PROVE  /\ traded[now] + 1 \in Volumes
         /\ traded' = [traded EXCEPT ![now] = traded[now] + 1]
         /\ \/ UNCHANGED <<queue, call, heard>>
            \/ \E h \in Handlers :
                 /\ call[h].step = "idle"
                 /\ call' \in [Handlers -> Call \cup {Idle}]
                 /\ call'[h].step = "getLast" /\ call'[h].prev = NoCandle
                 /\ call'[h].candle = [time |-> now, volume |-> traded[now] + 1]
                 /\ \A g \in Handlers : g # h => call'[g] = call[g]
                 /\ Joins(queue, queue', h)
                 /\ heard' = [heard EXCEPT ![now] = traded[now] + 1]
<1>1. traded[now] + 1 \in Volumes
  BY TradesBounded DEF Typed, Trade
<1>2. traded' = [traded EXCEPT ![now] = traded[now] + 1]
  BY DEF Trade
<1>3. ASSUME ~UNCHANGED <<queue, call, heard>>
      PROVE  \E h \in Handlers :
                 /\ call[h].step = "idle"
                 /\ call' \in [Handlers -> Call \cup {Idle}]
                 /\ call'[h].step = "getLast" /\ call'[h].prev = NoCandle
                 /\ call'[h].candle = [time |-> now, volume |-> traded[now] + 1]
                 /\ \A g \in Handlers : g # h => call'[g] = call[g]
                 /\ Joins(queue, queue', h)
                 /\ heard' = [heard EXCEPT ![now] = traded[now] + 1]
  <2>1. PICK h \in Handlers :
          /\ call[h] = Idle
          /\ call' = [call EXCEPT ![h] = NewCall]
          /\ queue' = Append(queue, h)
          /\ heard' = [heard EXCEPT ![now] = traded[now] + 1]
    BY <1>3 DEF Trade, NewCall
  <2>2. call[h].step = "idle" /\ call[h].step \notin RedisSteps
    BY <2>1 DEF Idle, RedisSteps
  <2>3. Joins(queue, queue', h)
    BY <2>1, <2>2, JoinsAtTheEnd DEF Typed, Queued, Callers
  <2>4. call \in [Handlers -> Call \cup {Idle}] /\ now \in Times
    BY DEF Typed, Stored
  <2>5. /\ NewCall \in Call /\ NewCall.step = "getLast" /\ NewCall.prev = NoCandle
        /\ NewCall.candle = [time |-> now, volume |-> traded[now] + 1]
    BY <1>1, <2>4 DEF NewCall, Call, RedisSteps, Candle
  <2>6. /\ call' \in [Handlers -> Call \cup {Idle}] /\ call'[h] = NewCall
        /\ \A g \in Handlers : g # h => call'[g] = call[g]
    BY <2>1, <2>4, <2>5
  <2>7. QED
    BY <2>1, <2>2, <2>3, <2>5, <2>6
<1>4. QED
  BY <1>1, <1>2, <1>3

\* The newest candle with a trade.
LEMMA NewestIsLast ==
  ASSUME NEW rest \in [Times -> Volumes], Known(rest) # {}
  PROVE  /\ Newest(rest) \in Times /\ rest[Newest(rest)] > 0
         /\ \A c \in Times : rest[c] > 0 => c <= Newest(rest)
         /\ \A c \in Times : c \in Closed(rest) <=> rest[c] > 0 /\ c < Newest(rest)
         /\ Closed(rest) \subseteq Times
<1> DEFINE K == Known(rest)
           D == {LastCandle - c : c \in K}
<1>1. K \subseteq Times /\ LastCandle \in Nat /\ Times = 1..LastCandle
  BY CandleTrackerAssumption DEF Known, Times
<1>2. D \subseteq Nat /\ D # {}
  BY <1>1
<1>3. PICK d \in D : \A e \in D : ~(<<e, d>> \in OpToRel(<, Nat))
  <2> HIDE DEF D
  <2>1. QED
    BY <1>2, NatLessThanWellFounded, WFMin, Zenon
<1>4. \A e \in D : ~(e < d)
  <2> HIDE DEF D
  <2>1. QED
    BY <1>2, <1>3 DEF OpToRel
<1>5. PICK m \in K : d = LastCandle - m
  BY <1>3
<1>6. ASSUME NEW c \in K PROVE c <= m
  <2>1. LastCandle - c \in D
    OBVIOUS
  <2>2. ~(LastCandle - c < LastCandle - m)
    BY <1>4, <1>5, <2>1
  <2>3. c \in Nat /\ m \in Nat
    BY <1>1
  <2>4. QED
    BY <1>1, <2>2, <2>3
<1>7. Newest(rest) \in K /\ \A c \in K : c <= Newest(rest)
  BY <1>6 DEF Newest
<1>8. \A c \in Times : rest[c] > 0 <=> c \in K
  BY DEF Known
<1>9. \A c \in Times : c \in Closed(rest) <=> c \in K /\ c # Newest(rest)
  BY <1>1 DEF Closed
<1> HIDE DEF K
<1>10. QED
  BY <1>1, <1>7, <1>8, <1>9 DEF Closed, K

JobMoves(step) == job' \in Job /\ job'.step = step /\ job'.rest = job.rest

LEMMA JobShape ==
  ASSUME Stored
  PROVE  /\ job.step = "idle" <=> job = NoJob
         /\ job.step # "idle" => job \in Job
         /\ job.step \in {"idle", "save"} \cup JobSteps
         /\ job.rest \in [Times -> Volumes]
<1>1. CASE job = NoJob
  <2>1. 0 \in Volumes
    BY TimesAreNumbers DEF None
  <2>2. job.step = "idle" /\ job.rest = [c \in Times |-> 0]
    BY <1>1 DEF NoJob
  <2>3. job.rest \in [Times -> Volumes]
    BY <2>1, <2>2
  <2>4. QED
    BY <1>1, <2>2, <2>3
<1>2. CASE job \in Job
  <2>1. job.step # "idle" /\ job.step \in {"save"} \cup JobSteps /\ job.rest \in [Times -> Volumes]
    BY <1>2 DEF Job, JobSteps
  <2>2. QED
    BY <1>2, <2>1 DEF NoJob
<1>3. QED
  BY <1>1, <1>2 DEF Stored

LEMMA JobAtMoves ==
  ASSUME Stored, job.step # "idle", NEW s \in {"save"} \cup JobSteps, JobAt(s)
  PROVE  JobMoves(s)
<1>1. job \in Job
  BY JobShape
<1>2. QED
  BY <1>1 DEF JobAt, JobMoves, Job, JobSteps

LEMMA FetchDoes ==
  ASSUME Typed, Fetch
  PROVE  /\ job = NoJob /\ job.step = "idle" /\ ask.step \notin AskSteps
         /\ jobs' = jobs - 1 /\ jobs > 0
         /\ \/ UNCHANGED <<queue, job>>
            \/ /\ Known(traded) # {}
               /\ job' = [step |-> "setCurrent", rest |-> traded]
               /\ job' \in Job /\ job'.step = "setCurrent" /\ job'.rest = traded
               /\ Joins(queue, queue', "init")
<1>1. job = NoJob /\ job.step = "idle" /\ ask.step \notin AskSteps
  BY DEF Fetch, NoJob, AskSteps
<1>2. ~InLine(queue, "init") /\ OnePlace(queue) /\ "init" \in Callers
  BY <1>1 DEF Typed, Queued, JobSteps, Callers
<1>3. [step |-> "setCurrent", rest |-> traded] \in Job
  BY DEF Typed, Stored, Job
<1>4. jobs' = jobs - 1 /\ jobs > 0
  BY DEF Fetch
<1>5. \/ UNCHANGED <<queue, job>>
      \/ /\ Known(traded) # {}
         /\ job' = [step |-> "setCurrent", rest |-> traded]
         /\ queue' = Append(queue, "init")
  BY DEF Fetch
<1>6. Joins(queue, Append(queue, "init"), "init")
  BY <1>2, JoinsAtTheEnd
<1>7. CASE UNCHANGED <<queue, job>>
  BY <1>1, <1>4, <1>7
<1>8. CASE ~UNCHANGED <<queue, job>>
  <2>1. /\ Known(traded) # {}
        /\ job' = [step |-> "setCurrent", rest |-> traded]
        /\ queue' = Append(queue, "init")
    BY <1>5, <1>8
  <2>2. job'.step = "setCurrent" /\ job'.rest = traded
    BY <2>1
  <2>3. Joins(queue, queue', "init") /\ job' \in Job
    BY <1>3, <1>6, <2>1, Zenon
  <2>4. QED
    BY <1>1, <1>4, <2>1, <2>2, <2>3, Zenon
<1>9. QED
  BY <1>7, <1>8, Zenon

LEMMA JobSetsCurrentDoes ==
  ASSUME Typed, JobSetsCurrent
  PROVE  /\ job.step = "setCurrent" /\ First("init")
         /\ Returns(queue, queue', "init") /\ JobMoves("setLast")
<1>1. job.step = "setCurrent" /\ First("init") /\ Issue("init") /\ JobAt("setLast")
  BY DEF JobSetsCurrent
<1>2. QED
  BY <1>1, FirstInLine, JobAtMoves DEF Typed, JobSteps

LEMMA JobSetsLastDoes ==
  ASSUME Typed, JobSetsLast
  PROVE  /\ job.step = "setLast" /\ First("init")
         /\ \/ Closed(job.rest) = {} /\ Returns(queue, queue', "init") /\ JobMoves("add")
            \/ Closed(job.rest) # {} /\ Leaves(queue, queue', "init") /\ JobMoves("save")
<1>1. job.step = "setLast" /\ First("init")
  BY DEF JobSetsLast
<1>2. \/ Closed(job.rest) = {} /\ JobAt("add") /\ Issue("init")
      \/ Closed(job.rest) # {} /\ JobAt("save") /\ Leave
  BY DEF JobSetsLast
<1>3. QED
  BY <1>1, <1>2, FirstInLine, JobAtMoves DEF Typed, JobSteps

LEMMA JobSavesDoes ==
  ASSUME Typed, JobSaves
  PROVE  /\ job.step = "save"
         /\ Joins(queue, queue', "init") /\ JobMoves("remove")
<1>1. job.step = "save" /\ JobAt("remove") /\ queue' = Append(queue, "init")
  BY DEF JobSaves
<1>2. ~InLine(queue, "init") /\ OnePlace(queue) /\ "init" \in Callers
  BY <1>1 DEF Typed, Queued, JobSteps, Callers
<1>3. QED
  BY <1>1, <1>2, JoinsAtTheEnd, JobAtMoves DEF Typed, JobSteps

LEMMA JobRemovesDoes ==
  ASSUME Typed, JobRemoves
  PROVE  /\ job.step = "remove" /\ First("init")
         /\ Returns(queue, queue', "init") /\ JobMoves("add")
<1>1. job.step = "remove" /\ First("init") /\ Issue("init") /\ JobAt("add")
  BY DEF JobRemoves
<1>2. QED
  BY <1>1, FirstInLine, JobAtMoves DEF Typed, JobSteps

LEMMA JobAddsDoes ==
  ASSUME Typed, JobAdds
  PROVE  /\ job.step = "add" /\ First("init")
         /\ Leaves(queue, queue', "init") /\ job' = NoJob
<1>1. job.step = "add" /\ First("init") /\ Leave /\ job' = NoJob
  BY DEF JobAdds
<1>2. QED
  BY <1>1, FirstInLine

-----------------------------------------------------------------------------
(* Queries                                                                  *)

AskMoves(step, count) ==
  /\ ask' \in Ask
  /\ ask'.step = step /\ ask'.of = ask.of /\ ask'.known = ask.known /\ ask'.count = count

LEMMA AskShape ==
  ASSUME Stored
  PROVE  /\ ask.step = "idle" <=> ask = NoAsk
         /\ ask.step # "idle" => ask \in Ask
         /\ ask.step \in {"idle", "done"} \cup AskSteps
         /\ ask.known \subseteq Times /\ ask.of \subseteq Times /\ ask.count \in [Times -> Nat]
<1>1. CASE ask = NoAsk
  <2>1. /\ ask.step = "idle" /\ ask.known = {} /\ ask.of = {}
        /\ ask.count = [c \in Times |-> 0]
    BY <1>1 DEF NoAsk
  <2>2. ask.count \in [Times -> Nat]
    BY <2>1
  <2>3. QED
    BY <1>1, <2>1, <2>2
<1>2. CASE ask \in Ask
  BY <1>2 DEF Ask, NoAsk, AskSteps
<1>3. QED
  BY <1>1, <1>2 DEF Stored

LEMMA AskVolumeDoes ==
  ASSUME Typed, AskVolume
  PROVE  /\ ask.step = "idle" /\ job = NoJob
         /\ ask' \in Ask /\ ask'.step = "range" /\ ask'.known \subseteq ask'.of
         /\ \A c \in ask'.known : /\ c \in Times /\ heard[c] > 0
                                  /\ \A h \in Handlers : call[h].candle.time # c
         /\ Joins(queue, queue', "query")
<1>1. ask = NoAsk /\ ask.step = "idle" /\ job = NoJob
  BY DEF AskVolume, NoAsk
<1>2. PICK start \in Starts :
       LET of == {c \in Times : Hour(c) >= start}
           told == {c \in of : /\ heard[c] > 0
                               /\ \A h \in Handlers : call[h].candle.time # c}
       IN ask' = [step |-> "range", of |-> of, known |-> told,
                  count |-> [c \in Times |-> 0]]
  BY DEF AskVolume
<1> DEFINE of == {c \in Times : Hour(c) >= start}
           told == {c \in of : /\ heard[c] > 0
                               /\ \A h \in Handlers : call[h].candle.time # c}
<1>3. of \subseteq Times /\ told \subseteq of /\ told \subseteq Times
  OBVIOUS
<1>4. [c \in Times |-> 0] \in [Times -> Nat]
  OBVIOUS
<1>5. \A c \in told : c \in Times /\ heard[c] > 0 /\ \A h \in Handlers : call[h].candle.time # c
  OBVIOUS
<1>6. ask' = [step |-> "range", of |-> of, known |-> told, count |-> [c \in Times |-> 0]]
  BY <1>2
<1> HIDE DEF of, told
<1>7. ask' \in Ask /\ ask'.step = "range" /\ ask'.known = told /\ ask'.of = of
  BY <1>3, <1>4, <1>6 DEF Ask
<1>8. Joins(queue, queue', "query")
  <2>1. ~InLine(queue, "query") /\ OnePlace(queue) /\ "query" \in Callers
    BY <1>1 DEF Typed, Queued, AskSteps, Callers
  <2>2. QED
    BY <2>1, JoinsAtTheEnd DEF AskVolume
<1>9. QED
  BY <1>1, <1>3, <1>5, <1>7, <1>8

LEMMA ReadSetDoes ==
  ASSUME Typed, ReadSet
  PROVE  /\ ask.step = "range" /\ First("query")
         /\ AskMoves("get", [c \in Times |-> IF c \in ask.of THEN Len(finalized[c]) ELSE 0])
         /\ Returns(queue, queue', "query")
<1> DEFINE n == [c \in Times |-> IF c \in ask.of THEN Len(finalized[c]) ELSE 0]
<1>1. ask.step = "range" /\ First("query") /\ Issue("query")
      /\ ask' = [ask EXCEPT !.step = "get", !.count = n]
  BY DEF ReadSet
<1>2. n \in [Times -> Nat]
  BY DEF Typed, Stored
<1>3. ask \in Ask
  BY <1>1, AskShape DEF Typed
<1> HIDE DEF n
<1>4. AskMoves("get", n)
  BY <1>1, <1>2, <1>3 DEF AskMoves, Ask
<1>5. QED
  BY <1>1, <1>4, FirstInLine DEF n

LEMMA AnswerDoes ==
  ASSUME Typed, Answer
  PROVE  /\ ask.step = "get" /\ First("query")
         /\ AskMoves("done", [c \in Times |-> IF c = current.time /\ c \in ask.of
                                               THEN ask.count[c] + 1 ELSE ask.count[c]])
         /\ Leaves(queue, queue', "query")
<1> DEFINE n == [c \in Times |-> IF c = current.time /\ c \in ask.of
                                  THEN ask.count[c] + 1 ELSE ask.count[c]]
<1>1. ask.step = "get" /\ First("query") /\ Leave
      /\ ask' = [ask EXCEPT !.step = "done", !.count = n]
  BY DEF Answer
<1>2. n \in [Times -> Nat]
  BY AskShape DEF Typed
<1>3. ask \in Ask
  BY <1>1, AskShape DEF Typed
<1> HIDE DEF n
<1>4. AskMoves("done", n)
  BY <1>1, <1>2, <1>3 DEF AskMoves, Ask
<1>5. QED
  BY <1>1, <1>4, FirstInLine DEF n

-----------------------------------------------------------------------------
(* The types are kept                                                       *)

LEMMA NamesDiffer == "init" \notin Handlers /\ "query" \notin Handlers /\ "init" # "query"
BY CandleTrackerAssumption

\* A handler is in line when its next step is a command.
LEMMA QueuedAfterMove ==
  ASSUME Typed, NEW h \in Handlers, NEW s, call'[h].step = s,
         \A g \in Handlers : g # h => call'[g] = call[g],
         UNCHANGED <<job, ask>>, OnePlace(queue'),
         \A y : InLine(queue', y) <=> (y = h /\ s \in RedisSteps) \/ (y # h /\ InLine(queue, y))
  PROVE  Queued'
BY NamesDiffer DEF Typed, Queued

LEMMA QueuedAfterMoves ==
  ASSUME Typed, NEW h \in Handlers, NEW s, NEW p, Moves(h, s, p), UNCHANGED <<job, ask>>,
         \/ s \in RedisSteps /\ (Joins(queue, queue', h) \/ Returns(queue, queue', h))
         \/ s \notin RedisSteps /\ Leaves(queue, queue', h)
         \/ s \notin RedisSteps /\ call[h].step \notin RedisSteps /\ queue' = queue
  PROVE  Queued'
<1>1. Queued
  BY DEF Typed
<1>2. /\ OnePlace(queue')
      /\ \A y : InLine(queue', y) <=> (y = h /\ s \in RedisSteps) \/ (y # h /\ InLine(queue, y))
  <2>1. CASE s \in RedisSteps /\ Joins(queue, queue', h)
    BY <2>1 DEF Joins
  <2>2. CASE s \in RedisSteps /\ Returns(queue, queue', h)
    BY <2>2 DEF Returns
  <2>3. CASE s \notin RedisSteps /\ Leaves(queue, queue', h)
    BY <2>3 DEF Leaves
  <2>4. CASE s \notin RedisSteps /\ call[h].step \notin RedisSteps /\ queue' = queue
    BY <1>1, <2>4 DEF Queued
  <2>5. QED
    BY <2>1, <2>2, <2>3, <2>4
<1>3. QED
  BY <1>2, QueuedAfterMove DEF Moves

\* The queue and the roles of its callers.
LEMMA QueueStays == Typed /\ Next => Queued'
<1> SUFFICES ASSUME Typed, Next PROVE Queued'
  OBVIOUS
<1> USE DEF stores, history
<1>1. CASE Trade
  <2>1. UNCHANGED <<job, ask>>
    BY <1>1 DEF Trade
  <2>2. CASE UNCHANGED <<queue, call, heard>>
    BY <2>1, <2>2 DEF Typed, Queued
  <2>3. CASE \E h \in Handlers :
               /\ call'[h].step = "getLast"
               /\ \A g \in Handlers : g # h => call'[g] = call[g]
               /\ Joins(queue, queue', h)
    BY <2>1, <2>3, QueuedAfterMove DEF Joins, RedisSteps
  <2>4. QED
    BY <1>1, <2>2, <2>3, TradeDoes
<1>2. CASE Close
  BY <1>2 DEF Close, Typed, Queued
<1>3. CASE \E h \in Handlers : Handle(h)
  <2>1. PICK h \in Handlers : Handle(h)
    BY <1>3
  <2> USE DEF RedisSteps, DbSteps
  <2>2. CASE GetLast(h)
    <3>1. UNCHANGED <<job, ask>>
      BY <2>2 DEF GetLast
    <3>2. QED
      BY <2>2, <3>1, GetLastDoes, QueuedAfterMoves
  <2>3. CASE GetCurrent(h)
    <3>1. UNCHANGED <<job, ask>>
      BY <2>3 DEF GetCurrent
    <3>2. QED
      BY <2>3, <3>1, GetCurrentDoes, QueuedAfterMoves
  <2>4. CASE Find(h)
    <3>1. UNCHANGED <<job, ask>>
      BY <2>4 DEF Find
    <3>2. QED
      BY <2>4, <3>1, FindDoes, QueuedAfterMoves
  <2>5. CASE Save(h)
    <3>1. UNCHANGED <<job, ask>>
      BY <2>5 DEF Save
    <3>2. QED
      BY <2>5, <3>1, SaveDoes, QueuedAfterMoves
  <2>6. CASE SaveFails(h)
    <3>1. UNCHANGED <<job, ask>>
      BY <2>6 DEF SaveFails
    <3>2. QED
      BY <2>6, <3>1, SaveFailsDoes, QueuedAfterMoves
  <2>7. CASE Zadd(h)
    <3>1. UNCHANGED <<job, ask>>
      BY <2>7 DEF Zadd
    <3>2. QED
      BY <2>7, <3>1, ZaddDoes, QueuedAfterMoves
  <2>8. CASE Tidy(h)
    <3>1. UNCHANGED <<job, ask>>
      BY <2>8 DEF Tidy
    <3>2. QED
      BY <2>8, <3>1, TidyDoes, QueuedAfterMoves
  <2>9. CASE SetCurrent(h)
    <3>1. UNCHANGED <<job, ask>>
      BY <2>9 DEF SetCurrent
    <3>2. QED
      BY <2>9, <3>1, SetCurrentDoes, QueuedAfterMoves
  <2>10. CASE SetLast(h)
    <3>1. UNCHANGED <<job, ask>>
      BY <2>10 DEF SetLast
    <3>2. call'[h].step = "idle"
      BY <2>10, SetLastDoes DEF Idle
    <3>3. QED
      BY <2>10, <3>1, <3>2, SetLastDoes, QueuedAfterMove DEF Leaves
  <2>11. QED
    BY <2>1, <2>2, <2>3, <2>4, <2>5, <2>6, <2>7, <2>8, <2>9, <2>10 DEF Handle
<1> USE NamesDiffer DEF JobSteps, AskSteps
<1>4. CASE Fetch
  <2>1. UNCHANGED <<call, ask>>
    BY <1>4 DEF Fetch
  <2>2. QED
    BY <1>4, <2>1, FetchDoes DEF Typed, Queued, Joins
<1>5. CASE InitJob
  <2>1. CASE JobSetsCurrent
    <3>1. UNCHANGED <<call, ask>>
      BY <2>1 DEF JobSetsCurrent
    <3>2. QED
      BY <2>1, <3>1, JobSetsCurrentDoes DEF Typed, Queued, Returns, JobMoves
  <2>2. CASE JobSetsLast
    <3>1. UNCHANGED <<call, ask>>
      BY <2>2 DEF JobSetsLast
    <3>2. QED
      BY <2>2, <3>1, JobSetsLastDoes DEF Typed, Queued, Returns, Leaves, JobMoves
  <2>3. CASE JobSaves
    <3>1. UNCHANGED <<call, ask>>
      BY <2>3 DEF JobSaves
    <3>2. QED
      BY <2>3, <3>1, JobSavesDoes DEF Typed, Queued, Joins, JobMoves
  <2>4. CASE JobRemoves
    <3>1. UNCHANGED <<call, ask>>
      BY <2>4 DEF JobRemoves
    <3>2. QED
      BY <2>4, <3>1, JobRemovesDoes DEF Typed, Queued, Returns, JobMoves
  <2>5. CASE JobAdds
    <3>1. UNCHANGED <<call, ask>>
      BY <2>5 DEF JobAdds
    <3>2. job'.step = "idle"
      BY <2>5, JobAddsDoes DEF NoJob
    <3>3. QED
      BY <2>5, <3>1, <3>2, JobAddsDoes DEF Typed, Queued, Leaves
  <2>6. QED
    BY <1>5, <2>1, <2>2, <2>3, <2>4, <2>5 DEF InitJob
<1>6. CASE AskVolume
  <2>1. UNCHANGED <<call, job>>
    BY <1>6 DEF AskVolume
  <2>2. QED
    BY <1>6, <2>1, AskVolumeDoes DEF Typed, Queued, Joins
<1>7. CASE Query
  <2>1. CASE ReadSet
    <3>1. UNCHANGED <<call, job>>
      BY <2>1 DEF ReadSet
    <3>2. QED
      BY <2>1, <3>1, ReadSetDoes DEF Typed, Queued, Returns, AskMoves
  <2>2. CASE Answer
    <3>1. UNCHANGED <<call, job>>
      BY <2>2 DEF Answer
    <3>2. QED
      BY <2>2, <3>1, AnswerDoes DEF Typed, Queued, Leaves, AskMoves
  <2>3. QED
    BY <1>7, <2>1, <2>2 DEF Query
<1>8. CASE Crash
  <2>1. /\ \A h \in Handlers : call'[h].step = "idle"
        /\ queue' = <<>> /\ job'.step = "idle" /\ ask'.step = "idle"
    BY <1>8 DEF Crash, Idle, NoJob, NoAsk
  <2>2. OnePlace(queue') /\ \A y : ~InLine(queue', y)
    BY <2>1 DEF OnePlace, InLine
  <2>3. QED
    BY <2>1, <2>2 DEF Queued, RedisSteps
<1>9. CASE Expire
  BY <1>9 DEF Expire, Typed, Queued
<1>10. QED
  BY <1>1, <1>2, <1>3, <1>4, <1>5, <1>6, <1>7, <1>8, <1>9 DEF Next

LEMMA StoredStays == Typed /\ Next => Stored' /\ (job' # NoJob => Known(job'.rest) # {})
<1> SUFFICES ASSUME Typed, Next PROVE Stored' /\ (job' # NoJob => Known(job'.rest) # {})
  OBVIOUS
<1>0. Stored /\ (job # NoJob => Known(job.rest) # {})
  BY DEF Typed, Busy
<1> USE DEF stores, history
<1>1. CASE Trade
  <2>1. UNCHANGED <<now, stores, job, jobs, ask, disturbed, refilled>>
    BY <1>1 DEF Trade
  <2>2. traded' \in [Times -> Volumes] /\ traded[now] + 1 \in Volumes /\ now \in Times
    BY <1>0, <1>1, TradeDoes DEF Stored
  <2>3. heard' \in [Times -> Volumes] /\ call' \in [Handlers -> Call \cup {Idle}]
    BY <1>0, <1>1, <2>2, TradeDoes DEF Stored
  <2>4. QED
    BY <1>0, <2>1, <2>2, <2>3 DEF Stored
<1>2. CASE Close
  BY <1>0, <1>2, CandleTrackerAssumption DEF Close, Stored, Times
<1>3. CASE \E h \in Handlers : Handle(h)
  <2>1. PICK h \in Handlers : Handle(h)
    BY <1>3
  <2> USE DEF Moves
  <2>2. CASE GetLast(h)
    <3>1. UNCHANGED <<now, traded, stores, job, jobs, ask, history>>
      BY <2>2 DEF GetLast
    <3>2. QED
      BY <1>0, <2>2, <3>1, GetLastDoes DEF Stored
  <2>3. CASE GetCurrent(h)
    <3>1. UNCHANGED <<now, traded, stores, job, jobs, ask, history>>
      BY <2>3 DEF GetCurrent
    <3>2. QED
      BY <1>0, <2>3, <3>1, GetCurrentDoes DEF Stored
  <2>4. CASE Find(h)
    <3>1. UNCHANGED <<now, traded, stores, job, jobs, ask, history>>
      BY <2>4 DEF Find
    <3>2. QED
      BY <1>0, <2>4, <3>1, FindDoes DEF Stored
  <2>5. CASE Save(h)
    <3>1. /\ UNCHANGED <<now, traded, current, lastTime, finalized, job, jobs, ask, heard, refilled>>
          /\ db' = [db EXCEPT ![call[h].prev.time] = call[h].prev.volume]
          /\ disturbed' = disturbed \/ disturbed' = disturbed \cup {call[h].prev.time}
      BY <2>5 DEF Save
    <3>2. call[h].prev.volume \in Volumes
      BY <1>0, CallShape, TimesAreNumbers, 0 \in Volumes DEF None
    <3>3. db' \in [Times -> Volumes]
      BY <1>0, <3>1, <3>2 DEF Stored
    <3>4. disturbed' \subseteq Times
      <4>1. call[h].prev \in Candle
        BY <2>5, SaveDoes DEF Typed, Busy
      <4>2. call[h].prev.time \in Times /\ disturbed \subseteq Times
        BY <1>0, <4>1, TimesAreNumbers DEF Stored
      <4>3. QED
        BY <3>1, <4>2
    <3>5. QED
      BY <1>0, <2>5, <3>1, <3>3, <3>4, SaveDoes DEF Stored
  <2>6. CASE SaveFails(h)
    <3>1. /\ UNCHANGED <<now, traded, stores, job, jobs, ask, heard, refilled>>
          /\ disturbed' = disturbed \/ disturbed' = disturbed \cup {call[h].prev.time}
      BY <2>6 DEF SaveFails
    <3>2. disturbed' \subseteq Times
      <4>1. call[h].prev \in Candle
        BY <2>6, SaveFailsDoes DEF Typed, Busy, DbSteps
      <4>2. call[h].prev.time \in Times /\ disturbed \subseteq Times
        BY <1>0, <4>1, TimesAreNumbers DEF Stored
      <4>3. QED
        BY <3>1, <4>2
    <3>3. QED
      BY <1>0, <2>6, <3>1, <3>2, SaveFailsDoes DEF Stored
  <2>7. CASE Zadd(h)
    <3>1. /\ UNCHANGED <<now, traded, current, lastTime, db, job, jobs, ask, history>>
          /\ finalized' = [finalized EXCEPT ![call[h].prev.time] =
                             Append(finalized[call[h].prev.time], call[h].prev.volume)]
      BY <2>7 DEF Zadd
    <3>2. call[h].prev.volume \in Volumes
      BY <1>0, CallShape, TimesAreNumbers, 0 \in Volumes DEF None
    <3>3. finalized' \in [Times -> Seq(Volumes)]
      <4>1. call[h].prev.time \in Times
        BY <2>7, ZaddDoes, TimesAreNumbers DEF Typed, Busy
      <4>2. Append(finalized[call[h].prev.time], call[h].prev.volume) \in Seq(Volumes)
        BY <1>0, <3>2, <4>1 DEF Stored
      <4>3. QED
        BY <1>0, <3>1, <4>2 DEF Stored
    <3>4. QED
      BY <1>0, <2>7, <3>1, <3>3, ZaddDoes DEF Stored
  <2>8. CASE Tidy(h)
    <3>1. UNCHANGED <<now, traded, stores, job, jobs, ask, history>>
      BY <2>8 DEF Tidy
    <3>2. QED
      BY <1>0, <2>8, <3>1, TidyDoes DEF Stored
  <2>9. CASE SetCurrent(h)
    <3>1. /\ UNCHANGED <<now, traded, lastTime, finalized, db, job, jobs, ask, heard, refilled>>
          /\ current' = call[h].candle
          /\ disturbed' \subseteq disturbed \cup Times
      BY <2>9 DEF SetCurrent, Harmed
    <3>2. QED
      BY <1>0, <2>9, <3>1, SetCurrentDoes DEF Stored
  <2>10. CASE SetLast(h)
    <3>1. /\ UNCHANGED <<now, traded, current, finalized, db, job, jobs, ask, history>>
          /\ lastTime' = call[h].candle.time
      BY <2>10 DEF SetLast
    <3>2. lastTime' \in Times
      BY <2>10, <3>1, SetLastDoes, TimesAreNumbers
    <3>3. QED
      BY <1>0, <2>10, <3>1, <3>2, SetLastDoes DEF Stored
  <2>11. QED
    BY <2>1, <2>2, <2>3, <2>4, <2>5, <2>6, <2>7, <2>8, <2>9, <2>10 DEF Handle
<1>4. CASE Fetch
  <2>1. UNCHANGED <<now, traded, stores, call, ask, history>>
    BY <1>4 DEF Fetch
  <2>2. jobs' \in 0..Jobs /\ job' \in Job \cup {NoJob} /\ (job' # NoJob => Known(job'.rest) # {})
    <3>1. jobs' = jobs - 1 /\ jobs > 0 /\ jobs \in 0..Jobs /\ Jobs \in Nat
      BY <1>0, <1>4, FetchDoes, CandleTrackerAssumption DEF Stored
    <3>2. \/ job' = job
          \/ job' \in Job /\ job'.rest = traded /\ Known(traded) # {}
      BY <1>4, FetchDoes, Zenon
    <3>3. job' \in Job \cup {NoJob} /\ (job' # NoJob => Known(job'.rest) # {})
      BY <1>0, <3>2 DEF Stored
    <3>4. QED
      BY <3>1, <3>3
  <2>3. QED
    BY <1>0, <2>1, <2>2 DEF Stored
<1>5. CASE InitJob
  <2>0. /\ job.step # "idle" => /\ Newest(job.rest) \in Times /\ job.rest \in [Times -> Volumes]
                                /\ Closed(job.rest) \subseteq Times
        /\ job.step = "idle" <=> job = NoJob
    BY <1>0, JobShape, NewestIsLast
  <2> USE DEF JobMoves
  <2>1. CASE JobSetsCurrent
    <3>1. /\ UNCHANGED <<now, traded, lastTime, finalized, db, call, jobs, ask, heard, refilled>>
          /\ current' = [time |-> Newest(job.rest), volume |-> job.rest[Newest(job.rest)]]
          /\ disturbed' \subseteq disturbed \cup Times
      BY <2>1 DEF JobSetsCurrent, Harmed
    <3>2. current' \in Candle
      BY <2>0, <2>1, <3>1, JobSetsCurrentDoes DEF Candle
    <3>3. job' \in Job /\ Known(job'.rest) # {}
      BY <1>0, <2>0, <2>1, JobSetsCurrentDoes
    <3>4. QED
      BY <1>0, <3>1, <3>2, <3>3 DEF Stored
  <2>2. CASE JobSetsLast
    <3>1. /\ UNCHANGED <<now, traded, current, finalized, db, call, jobs, ask, history>>
          /\ lastTime' = Newest(job.rest)
      BY <2>2 DEF JobSetsLast
    <3>2. job' \in Job /\ Known(job'.rest) # {} /\ lastTime' \in Times
      BY <1>0, <2>0, <2>2, <3>1, JobSetsLastDoes
    <3>3. QED
      BY <1>0, <3>1, <3>2 DEF Stored
  <2>3. CASE JobSaves
    <3>1. /\ UNCHANGED <<now, traded, current, lastTime, finalized, call, jobs, ask, history>>
          /\ \/ db' = [c \in Times |-> IF c \in Closed(job.rest) THEN job.rest[c] ELSE db[c]]
             \/ db' = db
      BY <2>3 DEF JobSaves
    <3>2. job' \in Job /\ Known(job'.rest) # {}
      BY <1>0, <2>0, <2>3, JobSavesDoes
    <3>3. job.rest \in [Times -> Volumes] /\ db \in [Times -> Volumes]
      BY <1>0, <2>0, <2>3, JobSavesDoes DEF Stored
    <3>4. db' \in [Times -> Volumes]
      BY <3>1, <3>3
    <3>5. QED
      BY <1>0, <3>1, <3>2, <3>4 DEF Stored
  <2>4. CASE JobRemoves
    <3>1. PICK gone \in SUBSET Times :
            /\ finalized' = [c \in Times |-> IF c \in gone THEN <<>> ELSE finalized[c]]
            /\ refilled' = refilled \cup gone
      BY <2>4 DEF JobRemoves
    <3>2. UNCHANGED <<now, traded, current, lastTime, db, call, jobs, ask, heard, disturbed>>
      BY <2>4 DEF JobRemoves
    <3>3. job' \in Job /\ Known(job'.rest) # {}
      BY <1>0, <2>0, <2>4, JobRemovesDoes
    <3>4. finalized' \in [Times -> Seq(Volumes)]
      BY <1>0, <3>1 DEF Stored
    <3>5. QED
      BY <1>0, <3>1, <3>2, <3>3, <3>4 DEF Stored
  <2>5. CASE JobAdds
    <3>1. /\ finalized' = [c \in Times |->
               IF c \in Closed(job.rest) THEN Append(finalized[c], job.rest[c]) ELSE finalized[c]]
          /\ UNCHANGED <<now, traded, current, lastTime, db, call, jobs, ask, history>>
      BY <2>5 DEF JobAdds
    <3>2. job' = NoJob /\ job.rest \in [Times -> Volumes]
      BY <2>0, <2>5, JobAddsDoes
    <3>3. finalized' \in [Times -> Seq(Volumes)]
      BY <1>0, <3>1, <3>2 DEF Stored
    <3>4. QED
      BY <1>0, <3>1, <3>2, <3>3 DEF Stored
  <2>6. QED
    BY <1>5, <2>1, <2>2, <2>3, <2>4, <2>5 DEF InitJob
<1>6. CASE AskVolume
  <2>1. UNCHANGED <<now, traded, stores, call, job, jobs, history>>
    BY <1>6 DEF AskVolume
  <2>2. QED
    BY <1>0, <1>6, <2>1, AskVolumeDoes DEF Stored
<1>7. CASE Query
  <2>1. UNCHANGED <<now, traded, stores, call, job, jobs, history>>
    BY <1>7 DEF Query, ReadSet, Answer
  <2>2. ask' \in Ask
    BY <1>7, ReadSetDoes, AnswerDoes DEF Query, AskMoves
  <2>3. QED
    BY <1>0, <2>1, <2>2 DEF Stored
<1>8. CASE Crash
  <2>1. /\ call' = [h \in Handlers |-> Idle] /\ job' = NoJob /\ ask' = NoAsk
        /\ UNCHANGED <<now, traded, stores, jobs, heard, refilled>>
        /\ disturbed' \subseteq disturbed \cup Times
    BY <1>8 DEF Crash
  <2>2. call' \in [Handlers -> Call \cup {Idle}]
    BY <2>1
  <2>3. QED
    BY <1>0, <2>1, <2>2 DEF Stored
<1>9. CASE Expire
  <2>1. /\ current' = NoCandle /\ lastTime' \in {lastTime, None}
        /\ finalized' = finalized \/ finalized' = [c \in Times |-> <<>>]
        /\ UNCHANGED <<now, traded, db, queue, call, job, jobs, ask, heard, refilled>>
        /\ disturbed' = disturbed \cup {current.time} /\ current # NoCandle
    BY <1>9 DEF Expire
  <2>2. finalized' \in [Times -> Seq(Volumes)]
    <3>1. [c \in Times |-> <<>>] \in [Times -> Seq(Volumes)]
      OBVIOUS
    <3>2. QED
      BY <1>0, <2>1, <3>1 DEF Stored
  <2>3. current.time \in Times
    BY <1>0, <2>1, TimesAreNumbers DEF Stored
  <2>4. QED
    BY <1>0, <2>1, <2>2, <2>3 DEF Stored
<1>10. QED
  BY <1>1, <1>2, <1>3, <1>4, <1>5, <1>6, <1>7, <1>8, <1>9 DEF Next

LEMMA BusyStays ==
  Typed /\ Next => \A g \in Handlers :
    /\ call'[g].step \in {"find", "save", "zadd", "trim", "expire"} => call'[g].prev \in Candle
    /\ call'[g].step \in {"getLast", "getCurrent"} => call'[g].prev = NoCandle
<1> DEFINE Fine(x) == /\ x.step \in {"find", "save", "zadd", "trim", "expire"} => x.prev \in Candle
                      /\ x.step \in {"getLast", "getCurrent"} => x.prev = NoCandle
<1> SUFFICES ASSUME Typed, Next, NEW g \in Handlers
             PROVE  Fine(call'[g])
  OBVIOUS
<1>0. Fine(call[g])
  BY DEF Typed, Busy
<1>1. CASE call' = call
  BY <1>0, <1>1
<1>2. CASE Trade
  BY <1>0, <1>2, TradeDoes
<1>3. ASSUME NEW h \in Handlers, Handle(h) PROVE Fine(call'[g])
  <2> USE DEF Moves, DbSteps
  <2>1. CASE GetLast(h)
    BY <1>0, <2>1, GetLastDoes
  <2>2. CASE GetCurrent(h)
    BY <1>0, <2>2, GetCurrentDoes DEF Typed, Stored
  <2>3. CASE Find(h)
    BY <1>0, <2>3, FindDoes
  <2>4. CASE Save(h)
    BY <1>0, <2>4, SaveDoes
  <2>5. CASE SaveFails(h)
    BY <1>0, <2>5, SaveFailsDoes
  <2>6. CASE Zadd(h)
    BY <1>0, <2>6, ZaddDoes
  <2>7. CASE Tidy(h)
    BY <1>0, <2>7, TidyDoes
  <2>8. CASE SetCurrent(h)
    BY <1>0, <2>8, SetCurrentDoes
  <2>9. CASE SetLast(h)
    BY <1>0, <2>9, SetLastDoes DEF Idle
  <2>10. QED
    BY <1>3, <2>1, <2>2, <2>3, <2>4, <2>5, <2>6, <2>7, <2>8, <2>9 DEF Handle
<1>4. CASE Crash
  BY <1>4 DEF Crash, Idle
<1>5. QED
  BY <1>1, <1>2, <1>3, <1>4 DEF Next, Close, Fetch, InitJob, JobSetsCurrent, JobSetsLast,
        JobSaves, JobRemoves, JobAdds, AskVolume, Query, ReadSet, Answer, Expire

LEMMA TypedStays == Typed /\ Next => Typed'
BY QueueStays, StoredStays, BusyStays DEF Typed, Busy

-----------------------------------------------------------------------------
(* Volumes                                                                  *)

\* No volume anywhere is above what was traded, and a job knows all of the
\* candles before its newest.
VolumesSound ==
  /\ \A h \in Handlers : call[h].candle \in Candle => Real(call[h].candle, now, traded)
  /\ \A h \in Handlers : call[h].prev \in Candle => Real(call[h].prev, now, traded)
  /\ current \in Candle => Real(current, now, traded)
  /\ \A c \in Times : /\ db[c] <= traded[c] /\ heard[c] <= traded[c]
                      /\ job.rest[c] <= traded[c]
                      /\ c > now => traded[c] = 0
  /\ job # NoJob => \A c \in Times : c < Newest(job.rest) => job.rest[c] = traded[c]

LEMMA MarketGrows ==
  ASSUME Typed, Next
  PROVE  /\ now <= now' /\ now' \in Times
         /\ \A c \in Times : /\ traded[c] <= traded'[c] /\ traded'[c] \in Volumes
                             /\ c # now => traded'[c] = traded[c]
<1>0. /\ now \in Times /\ now \in Nat /\ traded \in [Times -> Volumes]
      /\ \A c \in Times : traded[c] \in Nat
  BY TimesAreNumbers DEF Typed, Stored
<1>1. now' \in Times /\ traded' \in [Times -> Volumes]
  BY TypedStays DEF Typed, Stored
<1>2. CASE Trade
  <2>1. now' = now /\ traded' = [traded EXCEPT ![now] = traded[now] + 1]
    BY <1>2, TradeDoes DEF Trade
  <2>2. traded'[now] = traded[now] + 1 /\ \A c \in Times : c # now => traded'[c] = traded[c]
    BY <1>0, <2>1
  <2>3. \A c \in Times : traded[c] <= traded'[c]
    BY <1>0, <2>2
  <2>4. QED
    BY <1>0, <1>1, <2>1, <2>2, <2>3
<1>3. CASE UNCHANGED traded /\ (now' = now \/ now' = now + 1)
  <2>1. \A c \in Times : traded[c] <= traded'[c] /\ traded'[c] = traded[c] /\ traded'[c] \in Volumes
    BY <1>0, <1>1, <1>3
  <2>2. now <= now'
    BY <1>0, <1>3
  <2>3. QED
    BY <1>1, <2>1, <2>2
<1>4. QED
  BY <1>2, <1>3 DEF Next, Close, Handle, GetLast, GetCurrent, Find, Save, SaveFails, Zadd, Tidy,
     SetCurrent, SetLast, Fetch, InitJob, JobSetsCurrent, JobSetsLast, JobSaves, JobRemoves,
     JobAdds, AskVolume, Query, ReadSet, Answer, Crash, Expire

LEMMA RealStays ==
  ASSUME Typed, Next, NEW x, Real(x, now, traded)
  PROVE  Real(x, now', traded')
<1>1. /\ x \in Candle /\ x.time \in Times /\ x.time \in Nat /\ x.volume \in Nat
      /\ traded[x.time] \in Nat /\ now \in Nat
  BY TimesAreNumbers DEF Real, Typed, Stored
<1>2. traded[x.time] <= traded'[x.time] /\ traded'[x.time] \in Nat /\ now <= now' /\ now' \in Nat
  BY <1>1, MarketGrows, TimesAreNumbers
<1>3. x.volume <= traded'[x.time] /\ x.time <= now' /\ 0 < x.volume
  BY <1>1, <1>2 DEF Real
<1>4. QED
  BY <1>1, <1>3 DEF Real

\* Where the candles of a handler come from.
LEMMA CandlesFlow ==
  ASSUME Typed, Next, NEW g \in Handlers
  PROVE  /\ \/ call'[g].candle = call[g].candle \/ call'[g].candle = NoCandle
            \/ Trade /\ call'[g].candle = [time |-> now, volume |-> traded[now] + 1]
         /\ call'[g].prev \in {call[g].prev, NoCandle, current}
<1>1. CASE call' = call
  BY <1>1
<1>2. CASE Trade
  BY <1>2, TradeDoes
<1>3. ASSUME NEW h \in Handlers, Handle(h)
      PROVE  /\ call'[g].candle = call[g].candle \/ call'[g].candle = NoCandle
             /\ call'[g].prev \in {call[g].prev, NoCandle, current}
  <2> USE DEF Moves
  <2>1. CASE GetLast(h)
    BY <2>1, GetLastDoes
  <2>2. CASE GetCurrent(h)
    BY <2>2, GetCurrentDoes
  <2>3. CASE Find(h)
    BY <2>3, FindDoes
  <2>4. CASE Save(h)
    BY <2>4, SaveDoes
  <2>5. CASE SaveFails(h)
    BY <2>5, SaveFailsDoes
  <2>6. CASE Zadd(h)
    BY <2>6, ZaddDoes
  <2>7. CASE Tidy(h)
    BY <2>7, TidyDoes
  <2>8. CASE SetCurrent(h)
    BY <2>8, SetCurrentDoes
  <2>9. CASE SetLast(h)
    BY <2>9, SetLastDoes DEF Idle
  <2>10. QED
    BY <1>3, <2>1, <2>2, <2>3, <2>4, <2>5, <2>6, <2>7, <2>8, <2>9 DEF Handle
<1>4. CASE Crash
  BY <1>4 DEF Crash, Idle
<1>5. QED
  BY <1>1, <1>2, <1>3, <1>4 DEF Next, Close, Fetch, InitJob, JobSetsCurrent, JobSetsLast,
        JobSaves, JobRemoves, JobAdds, AskVolume, Query, ReadSet, Answer, Expire

\* The current candle is written by a handler or the job, or expires; a row is
\* written by a handler or the job; who is heard of is traded.
LEMMA StoresFlow ==
  ASSUME Typed, Next
  PROVE  /\ \/ current' = current \/ current' = NoCandle
            \/ \E h \in Handlers : SetCurrent(h) /\ current' = call[h].candle
            \/ JobSetsCurrent /\ current' = [time |-> Newest(job.rest),
                                             volume |-> job.rest[Newest(job.rest)]]
         /\ \/ db' = db
            \/ \E h \in Handlers : Save(h) /\ db' = [db EXCEPT ![call[h].prev.time] = call[h].prev.volume]
            \/ /\ JobSaves
               /\ db' = [c \in Times |-> IF c \in Closed(job.rest) THEN job.rest[c] ELSE db[c]]
         /\ \/ heard' = heard
            \/ Trade /\ heard' = [heard EXCEPT ![now] = traded[now] + 1]
<1>1. CASE Trade
  BY <1>1 DEF Trade, stores
<1>2. CASE \E h \in Handlers : SetCurrent(h)
  BY <1>2 DEF SetCurrent
<1>3. CASE JobSetsCurrent
  BY <1>3 DEF JobSetsCurrent
<1>4. CASE \E h \in Handlers : Save(h)
  BY <1>4 DEF Save
<1>5. CASE JobSaves
  BY <1>5 DEF JobSaves, history
<1>6. CASE Expire
  BY <1>6 DEF Expire
<1>7. CASE UNCHANGED <<current, db, heard>>
  BY <1>7
<1>8. QED
  BY <1>1, <1>2, <1>3, <1>4, <1>5, <1>6, <1>7
     DEF Next, Close, Handle, GetLast, GetCurrent, Find, SaveFails, Zadd, Tidy, SetLast, Fetch,
         InitJob, JobSetsLast, JobRemoves, JobAdds, AskVolume, Query, ReadSet, Answer, Crash,
         stores, history

\* What a job knows does not change.
LEMMA JobFlow ==
  ASSUME Typed, Next
  PROVE  \/ job'.rest = job.rest /\ job.step # "idle"
         \/ job' = NoJob
         \/ Fetch /\ job'.rest = traded /\ job'.step = "setCurrent"
<1>0. job.step = "idle" <=> job = NoJob
  BY JobShape DEF Typed
<1>1. CASE job' = job
  BY <1>0, <1>1
<1>2. CASE Fetch
  BY <1>0, <1>2, FetchDoes
<1>3. CASE InitJob
  BY <1>3, JobSetsCurrentDoes, JobSetsLastDoes, JobSavesDoes, JobRemovesDoes, JobAddsDoes
     DEF InitJob, JobMoves
<1>4. CASE Crash
  BY <1>4 DEF Crash
<1>5. QED
  BY <1>1, <1>2, <1>3, <1>4
     DEF Next, Trade, Close, Handle, GetLast, GetCurrent, Find, Save, SaveFails, Zadd, Tidy,
         SetCurrent, SetLast, AskVolume, Query, ReadSet, Answer, Expire

LEMMA JobIsPast ==
  ASSUME Typed, VolumesSound, job # NoJob
  PROVE  /\ Newest(job.rest) \in Times /\ Newest(job.rest) <= now
         /\ 0 < job.rest[Newest(job.rest)] /\ Closed(job.rest) \subseteq Times
         /\ \A c \in Closed(job.rest) : c < Newest(job.rest) /\ job.rest[c] > 0 /\ job.rest[c] = traded[c]
<1> DEFINE n == Newest(job.rest)
<1>1. /\ n \in Times /\ job.rest[n] > 0 /\ Closed(job.rest) \subseteq Times
      /\ \A c \in Closed(job.rest) : job.rest[c] > 0 /\ c < n
  BY JobShape, NewestIsLast DEF Typed, Busy
<1>2. job.rest[n] <= traded[n] /\ job.rest[n] \in Nat /\ traded[n] \in Nat /\ n \in Nat /\ now \in Nat
  BY <1>1, JobShape, TimesAreNumbers DEF Typed, Stored, VolumesSound
<1>3. n <= now
  BY <1>1, <1>2 DEF VolumesSound
<1>4. QED
  BY <1>1, <1>3 DEF VolumesSound

LEMMA VolumesStay == Typed /\ VolumesSound /\ Next => VolumesSound'
<1> SUFFICES ASSUME Typed, VolumesSound, Next PROVE VolumesSound'
  OBVIOUS
<1>0. Typed'
  BY TypedStays
<1>1. NoCandle \notin Candle /\ now \in Times
  BY TimesAreNumbers DEF Typed, Stored
<1>2. ASSUME Trade
      PROVE  Real([time |-> now, volume |-> traded[now] + 1], now', traded')
  <2>1. now' = now /\ traded' = [traded EXCEPT ![now] = traded[now] + 1]
        /\ traded[now] + 1 \in Volumes
    BY <1>2, TradeDoes DEF Trade
  <2>2. now \in Nat /\ traded[now] \in Nat /\ traded'[now] = traded[now] + 1
    BY <1>1, <2>1, TimesAreNumbers DEF Typed, Stored
  <2>3. [time |-> now, volume |-> traded[now] + 1] \in Candle
    BY <1>1, <2>1 DEF Candle
  <2>4. QED
    BY <2>1, <2>2, <2>3 DEF Real
<1>3. ASSUME NEW g \in Handlers, call'[g].candle \in Candle
      PROVE  Real(call'[g].candle, now', traded')
  <2>1. CASE call'[g].candle = call[g].candle
    BY <1>3, <2>1, RealStays DEF VolumesSound
  <2>2. CASE Trade /\ call'[g].candle = [time |-> now, volume |-> traded[now] + 1]
    BY <1>2, <2>2
  <2>3. QED
    BY <1>1, <1>3, <2>1, <2>2, CandlesFlow
<1>4. ASSUME NEW g \in Handlers, call'[g].prev \in Candle
      PROVE  Real(call'[g].prev, now', traded')
  <2>1. CASE call'[g].prev = call[g].prev
    BY <1>4, <2>1, RealStays DEF VolumesSound
  <2>2. CASE call'[g].prev = current
    BY <1>4, <2>2, RealStays DEF VolumesSound
  <2>3. QED
    BY <1>1, <1>4, <2>1, <2>2, CandlesFlow
<1>5. ASSUME current' \in Candle PROVE Real(current', now', traded')
  <2>1. CASE current' = current
    BY <1>5, <2>1, RealStays DEF VolumesSound
  <2>2. CASE \E h \in Handlers : current' = call[h].candle
    BY <1>5, <2>2, RealStays DEF VolumesSound
  <2>3. CASE JobSetsCurrent /\ current' = [time |-> Newest(job.rest),
                                          volume |-> job.rest[Newest(job.rest)]]
    <3> DEFINE n == Newest(job.rest)
    <3>1. job # NoJob
      BY <2>3, JobSetsCurrentDoes DEF NoJob
    <3>2. n \in Times /\ n <= now /\ 0 < job.rest[n] /\ job.rest[n] <= traded[n]
      BY <3>1, JobIsPast DEF VolumesSound
    <3>3. Real(current', now, traded)
      <4> HIDE DEF n
      <4>1. current'.time = n /\ current'.volume = job.rest[n]
        BY <2>3 DEF n
      <4>2. QED
        BY <1>5, <3>2, <4>1 DEF Real
    <3>4. QED
      BY <3>3, RealStays
  <2>4. QED
    BY <1>1, <1>5, <2>1, <2>2, <2>3, StoresFlow
<1>6. ASSUME NEW c \in Times
      PROVE  /\ db'[c] <= traded'[c] /\ heard'[c] <= traded'[c] /\ job'.rest[c] <= traded'[c]
             /\ c > now' => traded'[c] = 0
  <2>0. /\ db[c] \in Nat /\ heard[c] \in Nat /\ job.rest[c] \in Nat /\ traded[c] \in Nat
        /\ db'[c] \in Nat /\ heard'[c] \in Nat /\ job'.rest[c] \in Nat /\ traded'[c] \in Nat
        /\ c \in Nat /\ now \in Nat /\ now' \in Nat
    <3>1. /\ db[c] \in Nat /\ heard[c] \in Nat /\ traded[c] \in Nat /\ c \in Nat /\ now \in Nat
          /\ db'[c] \in Nat /\ heard'[c] \in Nat /\ traded'[c] \in Nat /\ now' \in Nat
      BY <1>0, TimesAreNumbers DEF Typed, Stored
    <3>2. job.rest[c] \in Nat
      BY JobShape, TimesAreNumbers DEF Typed
    <3>3. NoJob.rest[c] = 0
      BY DEF NoJob
    <3>4. job'.rest[c] \in Nat
      BY <3>1, <3>2, <3>3, JobFlow
    <3>5. QED
      BY <3>1, <3>2, <3>4
  <2>1. traded[c] <= traded'[c] /\ now <= now' /\ (c # now => traded'[c] = traded[c])
    BY MarketGrows
  <2>2. /\ db[c] <= traded[c] /\ heard[c] <= traded[c] /\ job.rest[c] <= traded[c]
        /\ c > now => traded[c] = 0
    BY DEF VolumesSound
  <2>3. db'[c] <= traded'[c]
    <3>1. CASE db'[c] = db[c]
      BY <2>0, <2>1, <2>2, <3>1
    <3>2. ASSUME NEW h \in Handlers, Save(h), db' = [db EXCEPT ![call[h].prev.time] = call[h].prev.volume],
                 c = call[h].prev.time
          PROVE  db'[c] <= traded'[c]
      <4>1. call[h].prev \in Candle
        BY <3>2, SaveDoes DEF Typed, Busy
      <4>2. call[h].prev.volume <= traded'[c]
        BY <3>2, <4>1, RealStays DEF VolumesSound, Real
      <4>3. db'[c] = call[h].prev.volume
        BY <3>2 DEF Typed, Stored
      <4>4. QED
        BY <4>2, <4>3
    <3>3. CASE db'[c] = job.rest[c]
      BY <2>0, <2>1, <2>2, <3>3
    <3>4. \/ db'[c] = db[c] \/ db'[c] = job.rest[c]
          \/ \E h \in Handlers : Save(h) /\ db' = [db EXCEPT ![call[h].prev.time] = call[h].prev.volume]
                                           /\ c = call[h].prev.time
      <4>1. db \in [Times -> Volumes]
        BY DEF Typed, Stored
      <4>2. CASE \E h \in Handlers : Save(h) /\ db' = [db EXCEPT ![call[h].prev.time] = call[h].prev.volume]
        BY <4>1, <4>2
      <4>3. CASE db' = db \/ db' = [d \in Times |-> IF d \in Closed(job.rest) THEN job.rest[d] ELSE db[d]]
        BY <4>3
      <4>4. QED
        BY <4>2, <4>3, StoresFlow
    <3>5. QED
      BY <3>1, <3>2, <3>3, <3>4
  <2>4. heard'[c] <= traded'[c]
    <3>1. CASE heard' = heard
      BY <2>0, <2>1, <2>2, <3>1
    <3>2. CASE Trade /\ heard' = [heard EXCEPT ![now] = traded[now] + 1]
      <4>1. traded' = [traded EXCEPT ![now] = traded[now] + 1]
        BY <3>2, TradeDoes
      <4>2. CASE c = now
        <5>1. heard'[c] = traded[now] + 1 /\ traded'[c] = traded[now] + 1
          BY <3>2, <4>1, <4>2 DEF Typed, Stored
        <5>2. QED
          BY <2>0, <5>1
      <4>3. CASE c # now
        <5>1. heard'[c] = heard[c]
          BY <3>2, <4>3 DEF Typed, Stored
        <5>2. QED
          BY <2>0, <2>1, <2>2, <5>1
      <4>4. QED
        BY <4>2, <4>3
    <3>3. QED
      BY <3>1, <3>2, StoresFlow
  <2>5. job'.rest[c] <= traded'[c]
    <3>1. CASE job'.rest = job.rest \/ job'.rest = traded
      BY <2>0, <2>1, <2>2, <3>1
    <3>2. CASE job' = NoJob
      <4>1. job'.rest[c] = 0
        BY <3>2 DEF NoJob
      <4>2. QED
        BY <2>0, <4>1
    <3>3. QED
      BY <3>1, <3>2, JobFlow
  <2>6. c > now' => traded'[c] = 0
    BY <2>0, <2>1, <2>2
  <2>7. QED
    BY <2>3, <2>4, <2>5, <2>6
<1>7. ASSUME job' # NoJob, NEW c \in Times, c < Newest(job'.rest)
      PROVE  job'.rest[c] = traded'[c]
  <2>1. CASE job'.rest = job.rest /\ job.step # "idle"
    <3>1. job # NoJob
      BY <2>1 DEF NoJob
    <3>2. Newest(job.rest) <= now /\ Newest(job.rest) \in Times /\ job.rest[c] = traded[c]
      BY <1>7, <2>1, <3>1, JobIsPast DEF VolumesSound
    <3>3. c \in Nat /\ now \in Nat /\ Newest(job.rest) \in Nat
      BY <1>1, <3>2, TimesAreNumbers
    <3>4. c # now
      BY <1>7, <2>1, <3>2, <3>3
    <3>5. QED
      BY <2>1, <3>2, <3>4, MarketGrows
  <2>2. CASE Fetch /\ job'.rest = traded
    <3>1. traded' = traded
      BY <2>2 DEF Fetch
    <3>2. QED
      BY <2>2, <3>1
  <2>3. QED
    BY <1>7, <2>1, <2>2, JobFlow
<1>8. QED
  BY <1>3, <1>4, <1>5, <1>6, <1>7 DEF VolumesSound

-----------------------------------------------------------------------------
(* How often a candle is in the set                                         *)

Zadds(h, c) == call[h].step = "zadd" /\ call[h].prev.time = c

\* An init job has emptied the set for candle c and will fill it again.
Refilling(c) == job.step = "add" /\ c \in Closed(job.rest)

Room(c) == IF c \in refilled /\ ~Refilling(c) THEN 2 ELSE 1

\* There is room for a candle without a row, and for one that a handler, which
\* is the only one, is about to add.
SetSound ==
  /\ \A c \in Times : Len(finalized[c]) <= Room(c)
  /\ \A c \in Times : db[c] = None \/ (\E h \in Handlers : Zadds(h, c))
                        => Len(finalized[c]) < Room(c)
  /\ \A c \in Times : \A g, h \in Handlers : Zadds(g, c) /\ Zadds(h, c) => g = h
  /\ \A c \in Times : \A h \in Handlers : Zadds(h, c) => db[c] # None
  /\ job.step = "add" => Closed(job.rest) \subseteq refilled

LEMMA RoomIs == \A c : Room(c) \in 1..2
BY DEF Room

\* Steps that touch neither the set nor the rows.
LEMMA SetFrame ==
  ASSUME Typed, SetSound, UNCHANGED <<finalized, db, refilled>>,
         \A h \in Handlers : call'[h].step = "zadd" =>
           call[h].step = "zadd" /\ call'[h].prev = call[h].prev,
         job' = job \/ job'.step # "add" \/ Closed(job'.rest) = {}
  PROVE  SetSound'
<1>1. \A c, h : h \in Handlers /\ Zadds(h, c)' => Zadds(h, c)
  BY DEF Zadds
<1>2. \A c : Room(c) <= Room(c)' /\ Room(c) \in Nat /\ Room(c)' \in Nat
  BY DEF Room, Refilling
<1>3. \A c \in Times : Len(finalized[c]) \in Nat
  BY DEF Typed, Stored
<1>4. \A c \in Times : Len(finalized'[c]) <= Room(c)'
  BY <1>2, <1>3 DEF SetSound
<1>5. \A c \in Times : db'[c] = None \/ (\E h \in Handlers : Zadds(h, c)')
                        => Len(finalized'[c]) < Room(c)'
  BY <1>1, <1>2, <1>3 DEF SetSound
<1>6. /\ \A c \in Times : \A g, h \in Handlers : Zadds(g, c)' /\ Zadds(h, c)' => g = h
      /\ \A c \in Times : \A h \in Handlers : Zadds(h, c)' => db'[c] # None
  BY <1>1 DEF SetSound
<1>7. job'.step = "add" => Closed(job'.rest) \subseteq refilled'
  BY DEF SetSound
<1>8. QED
  BY <1>4, <1>5, <1>6, <1>7 DEF SetSound

LEMMA SetSaved ==
  ASSUME Typed, VolumesSound, SetSound, NEW h \in Handlers, Save(h)
  PROVE  SetSound'
<1> DEFINE d == call[h].prev.time
<1>1. /\ UNCHANGED <<finalized, refilled, job>> /\ d \in Times /\ db[d] = None
      /\ db' = [db EXCEPT ![d] = call[h].prev.volume]
      /\ call[h].prev \in Candle
  BY SaveDoes, TimesAreNumbers DEF Save, Typed, Busy
<1>2. Moves(h, "zadd", call[h].prev)
  BY SaveDoes
<1>3. \A c \in Times : \A g \in Handlers : Zadds(g, c)' <=> Zadds(g, c) \/ (g = h /\ c = d)
  <2>1. ~\E c : Zadds(h, c)
    BY SaveDoes DEF Zadds
  <2>2. QED
    BY <1>2, <2>1 DEF Zadds, Moves
<1>4. \A c \in Times : c # d => db'[c] = db[c]
  BY <1>1 DEF Typed, Stored
<1>5. db'[d] # None
  <2>1. call[h].prev.volume # 0
    BY <1>1 DEF VolumesSound, Real
  <2>2. db'[d] = call[h].prev.volume
    BY <1>1 DEF Typed, Stored
  <2>3. QED
    BY <2>1, <2>2 DEF None
<1>6. \A c : Room(c)' = Room(c)
  BY <1>1 DEF Room, Refilling
<1>7. \A g \in Handlers : ~Zadds(g, d)
  BY <1>1 DEF SetSound
<1>8. Len(finalized[d]) < Room(d)
  BY <1>1 DEF SetSound
<1> HIDE DEF d
<1>9. \A c \in Times : Len(finalized'[c]) <= Room(c)'
  BY <1>1, <1>6 DEF SetSound
<1>10. \A c \in Times : db'[c] = None \/ (\E g \in Handlers : Zadds(g, c)')
                        => Len(finalized'[c]) < Room(c)'
  BY <1>1, <1>3, <1>4, <1>5, <1>6, <1>8 DEF SetSound
<1>11. \A c \in Times : \A f, g \in Handlers : Zadds(f, c)' /\ Zadds(g, c)' => f = g
  BY <1>3, <1>7 DEF SetSound
<1>12. \A c \in Times : \A g \in Handlers : Zadds(g, c)' => db'[c] # None
  BY <1>3, <1>4, <1>5 DEF SetSound
<1>13. job'.step = "add" => Closed(job'.rest) \subseteq refilled'
  BY <1>1 DEF SetSound
<1>14. QED
  BY <1>9, <1>10, <1>11, <1>12, <1>13 DEF SetSound

LEMMA SetAdded ==
  ASSUME Typed, SetSound, NEW h \in Handlers, Zadd(h)
  PROVE  SetSound'
<1> DEFINE d == call[h].prev.time
<1>1. /\ UNCHANGED <<db, refilled, job>> /\ d \in Times /\ Zadds(h, d)
      /\ finalized' = [finalized EXCEPT ![d] = Append(finalized[d], call[h].prev.volume)]
      /\ call[h].prev \in Candle /\ Moves(h, "trim", call[h].prev)
  BY ZaddDoes, TimesAreNumbers DEF Zadd, Typed, Busy, history, Zadds
<1>2. \A c \in Times : \A g \in Handlers : Zadds(g, c)' => Zadds(g, c) /\ g # h
  BY <1>1 DEF Zadds, Moves
<1>3. /\ Len(finalized'[d]) = Len(finalized[d]) + 1
      /\ \A c \in Times : c # d => finalized'[c] = finalized[c]
      /\ \A c \in Times : Len(finalized[c]) \in Nat
  <2>1. finalized \in [Times -> Seq(Volumes)] /\ call[h].prev.volume \in Volumes
    BY <1>1, TimesAreNumbers DEF Typed, Stored
  <2> HIDE DEF d
  <2>2. finalized'[d] = Append(finalized[d], call[h].prev.volume) /\ finalized[d] \in Seq(Volumes)
    BY <1>1, <2>1
  <2>3. QED
    BY <1>1, <2>1, <2>2
<1>4. \A c : Room(c)' = Room(c) /\ Room(c) \in 1..2
  BY <1>1, RoomIs DEF Room, Refilling
<1>5. Len(finalized[d]) < Room(d)
  BY <1>1 DEF SetSound
<1>6. \A c \in Times : c = d => \A g \in Handlers : ~Zadds(g, c)'
  BY <1>1, <1>2 DEF SetSound
<1>7. db[d] # None
  BY <1>1 DEF SetSound
<1> HIDE DEF d
<1>8. \A c \in Times : Len(finalized'[c]) <= Room(c)'
  <2>1. ASSUME NEW c \in Times, c = d PROVE Len(finalized'[c]) <= Room(c)'
    <3>1. Len(finalized'[c]) = Len(finalized[c]) + 1 /\ Len(finalized[c]) < Room(c)
      BY <1>3, <1>5, <2>1
    <3>2. Room(c)' = Room(c) /\ Room(c) \in 1..2 /\ Len(finalized[c]) \in Nat
      BY <1>3, <1>4
    <3>3. QED
      BY <3>1, <3>2
  <2>2. ASSUME NEW c \in Times, c # d PROVE Len(finalized'[c]) <= Room(c)'
    BY <1>3, <1>4, <2>2 DEF SetSound
  <2>3. QED
    BY <2>1, <2>2
<1>9. \A c \in Times : db'[c] = None \/ (\E g \in Handlers : Zadds(g, c)')
                        => Len(finalized'[c]) < Room(c)'
  BY <1>1, <1>2, <1>3, <1>4, <1>6, <1>7 DEF SetSound
<1>10. \A c \in Times : \A f, g \in Handlers : Zadds(f, c)' /\ Zadds(g, c)' => f = g
  BY <1>2 DEF SetSound
<1>11. \A c \in Times : \A g \in Handlers : Zadds(g, c)' => db'[c] # None
  BY <1>1, <1>2 DEF SetSound
<1>12. job'.step = "add" => Closed(job'.rest) \subseteq refilled'
  BY <1>1 DEF SetSound
<1>13. QED
  BY <1>8, <1>9, <1>10, <1>11, <1>12 DEF SetSound

\* Rows the job writes, and the set it empties and fills.
LEMMA SetByJob ==
  ASSUME Typed, VolumesSound, SetSound, Next, InitJob
  PROVE  SetSound'
<1>0. /\ \A c \in Times : finalized[c] \in Seq(Volumes) /\ Len(finalized[c]) \in Nat
      /\ finalized \in [Times -> Seq(Volumes)] /\ db \in [Times -> Volumes]
  BY DEF Typed, Stored
<1>j. job # NoJob => /\ Closed(job.rest) \subseteq Times
                     /\ \A c \in Closed(job.rest) : job.rest[c] # None
                     /\ job.rest \in [Times -> Volumes]
  BY JobIsPast, JobShape DEF None, Typed
<1>1. CASE JobSetsCurrent
  <2>1. job'.step = "setLast" /\ UNCHANGED <<finalized, db, refilled, call>>
    BY <1>1, JobSetsCurrentDoes DEF JobMoves, JobSetsCurrent
  <2>2. QED
    BY <2>1, SetFrame
<1>2. CASE JobSetsLast
  <2>1. UNCHANGED <<finalized, db, refilled, call>> /\ (job'.step # "add" \/ Closed(job'.rest) = {})
    BY <1>2, JobSetsLastDoes DEF JobMoves, JobSetsLast, history
  <2>2. QED
    BY <2>1, SetFrame
<1>3. CASE JobSaves
  <2>1. job'.step = "remove" /\ job # NoJob /\ UNCHANGED <<finalized, refilled, call>>
        /\ job.step = "save"
    BY <1>3, JobSavesDoes DEF JobMoves, JobSaves, history, NoJob
  <2>2. CASE db' = db
    BY <2>1, <2>2, SetFrame
  <2>3. CASE /\ \A c \in Closed(job.rest) : db[c] = None
             /\ db' = [c \in Times |-> IF c \in Closed(job.rest) THEN job.rest[c] ELSE db[c]]
    <3>1. \A c \in Times : db'[c] = None => db[c] = None
      BY <1>j, <2>1, <2>3
    <3>2. \A c \in Times : \A h \in Handlers : Zadds(h, c)' <=> Zadds(h, c)
      BY <2>1 DEF Zadds
    <3>3. \A c \in Times : Room(c) = Room(c)'
      BY <2>1 DEF Room, Refilling
    <3>4. \A c \in Times : Len(finalized'[c]) <= Room(c)'
      BY <2>1, <3>3 DEF SetSound
    <3>5. \A c \in Times : db'[c] = None \/ (\E h \in Handlers : Zadds(h, c)')
                            => Len(finalized'[c]) < Room(c)'
      BY <2>1, <3>1, <3>2, <3>3 DEF SetSound
    <3>6. /\ \A c \in Times : \A g, h \in Handlers : Zadds(g, c)' /\ Zadds(h, c)' => g = h
          /\ \A c \in Times : \A h \in Handlers : Zadds(h, c)' => db'[c] # None
      BY <3>1, <3>2 DEF SetSound
    <3>7. QED
      BY <2>1, <3>4, <3>5, <3>6 DEF SetSound
  <2>4. QED
    BY <1>3, <2>2, <2>3 DEF JobSaves
<1>4. CASE JobRemoves
  <2> DEFINE gone == {c \in Times : \E d, e \in Closed(job.rest) : d <= c /\ c <= e}
  <2>1. /\ finalized' = [c \in Times |-> IF c \in gone THEN <<>> ELSE finalized[c]]
        /\ refilled' = refilled \cup gone /\ UNCHANGED <<db, call>>
    BY <1>4 DEF JobRemoves
  <2>2. job # NoJob /\ job'.step = "add" /\ job'.rest = job.rest /\ job.step = "remove"
    BY <1>4, JobRemovesDoes DEF JobMoves, NoJob
  <2>3. Closed(job.rest) \subseteq gone
    <3>1. ASSUME NEW c \in Closed(job.rest) PROVE c \in Times /\ c <= c
      <4> HIDE DEF gone
      <4>1. c \in Times
        BY <1>j, <2>2, <3>1
      <4>2. c \in Nat
        BY <4>1, TimesAreNumbers
      <4>3. QED
        BY <4>1, <4>2
    <3>2. QED
      BY <3>1
  <2> HIDE DEF gone
  <2>4. \A c \in Times : /\ c \in gone => Len(finalized'[c]) = 0
                         /\ c \notin gone => finalized'[c] = finalized[c] /\ Room(c)' = Room(c)
    <3>1. \A c \in Times : c \notin gone => c \notin Closed(job'.rest)
      BY <2>2, <2>3
    <3>2. QED
      BY <2>1, <2>2, <3>1 DEF Room, Refilling
  <2>5. \A c \in Times : c \in gone => Len(finalized'[c]) < Room(c)'
    BY <2>4, RoomIs DEF Room
  <2>6. \A c \in Times : Len(finalized'[c]) <= Room(c)'
    <3>1. \A c : Room(c)' \in {1, 2}
      BY DEF Room
    <3>2. QED
      BY <2>4, <3>1 DEF SetSound
  <2>7. \A c \in Times : \A h \in Handlers : Zadds(h, c)' <=> Zadds(h, c)
    BY <2>1 DEF Zadds
  <2>8. \A c \in Times : db'[c] = None \/ (\E h \in Handlers : Zadds(h, c)')
                            => Len(finalized'[c]) < Room(c)'
    BY <2>1, <2>4, <2>5, <2>7 DEF SetSound
  <2>9. /\ \A c \in Times : \A g, h \in Handlers : Zadds(g, c)' /\ Zadds(h, c)' => g = h
        /\ \A c \in Times : \A h \in Handlers : Zadds(h, c)' => db'[c] # None
    BY <2>1, <2>7 DEF SetSound
  <2>10. QED
    BY <2>1, <2>2, <2>3, <2>6, <2>8, <2>9 DEF SetSound
<1>5. CASE JobAdds
  <2>1. /\ finalized' = [c \in Times |->
             IF c \in Closed(job.rest) THEN Append(finalized[c], job.rest[c]) ELSE finalized[c]]
        /\ UNCHANGED <<db, call, refilled>>
    BY <1>5 DEF JobAdds, history
  <2>2. job.step = "add" /\ job # NoJob /\ job'.step = "idle"
    BY <1>5, JobAddsDoes DEF NoJob
  <2>3. ASSUME NEW c \in Times, c \in Closed(job.rest)
        PROVE  Room(c) = 1 /\ Room(c)' = 2 /\ Len(finalized'[c]) = Len(finalized[c]) + 1
    <3>1. c \in refilled /\ Refilling(c) /\ ~Refilling(c)'
      BY <2>2, <2>3 DEF SetSound, Refilling
    <3>2. finalized'[c] = Append(finalized[c], job.rest[c]) /\ job.rest[c] \in Volumes
      BY <1>j, <2>1, <2>2, <2>3
    <3>3. Len(finalized'[c]) = Len(finalized[c]) + 1
      BY <1>0, <3>2
    <3>4. QED
      BY <2>1, <3>1, <3>3 DEF Room
  <2>4. ASSUME NEW c \in Times, c \notin Closed(job.rest)
        PROVE  Room(c) = Room(c)' /\ finalized'[c] = finalized[c]
    BY <2>1, <2>2, <2>4 DEF Room, Refilling
  <2>5. \A c \in Times : \A h \in Handlers : Zadds(h, c)' <=> Zadds(h, c)
    BY <2>1 DEF Zadds
  <2>6. ASSUME NEW c \in Times PROVE Len(finalized'[c]) <= Room(c)'
    <3>1. Len(finalized[c]) <= Room(c) /\ Len(finalized[c]) \in Nat
      BY <1>0 DEF SetSound
    <3>2. QED
      BY <2>3, <2>4, <3>1
  <2>7. ASSUME NEW c \in Times, db'[c] = None \/ (\E h \in Handlers : Zadds(h, c)')
        PROVE  Len(finalized'[c]) < Room(c)'
    <3>1. Len(finalized[c]) < Room(c) /\ Len(finalized[c]) \in Nat
      BY <1>0, <2>1, <2>5, <2>7 DEF SetSound
    <3>2. QED
      BY <2>3, <2>4, <3>1
  <2>8. /\ \A c \in Times : \A g, h \in Handlers : Zadds(g, c)' /\ Zadds(h, c)' => g = h
        /\ \A c \in Times : \A h \in Handlers : Zadds(h, c)' => db'[c] # None
    BY <2>1, <2>5 DEF SetSound
  <2>9. QED
    BY <2>2, <2>6, <2>7, <2>8 DEF SetSound
<1>6. QED
  BY <1>1, <1>2, <1>3, <1>4, <1>5 DEF InitJob

LEMMA SetStays == Typed /\ VolumesSound /\ SetSound /\ Next => SetSound'
<1> SUFFICES ASSUME Typed, VolumesSound, SetSound, Next PROVE SetSound'
  OBVIOUS
<1> USE DEF stores, history
<1>1. CASE Trade
  <2>1. UNCHANGED <<finalized, db, refilled, job>>
    BY <1>1 DEF Trade
  <2>2. \A h \in Handlers : call'[h].step = "zadd" => call[h].step = "zadd" /\ call'[h].prev = call[h].prev
    BY <1>1, TradeDoes
  <2>3. QED
    BY <2>1, <2>2, SetFrame
<1>2. CASE Close \/ AskVolume \/ Query
  <2>1. UNCHANGED <<finalized, db, refilled, job, call>>
    BY <1>2 DEF Close, AskVolume, Query, ReadSet, Answer
  <2>2. QED
    BY <2>1, SetFrame
<1>3. ASSUME NEW h \in Handlers, Handle(h) PROVE SetSound'
  <2>1. CASE Save(h)
    BY <2>1, SetSaved
  <2>2. CASE Zadd(h)
    BY <2>2, SetAdded
  <2>3. CASE ~Save(h) /\ ~Zadd(h)
    <3>1. UNCHANGED <<finalized, db, refilled, job>>
      BY <1>3, <2>3 DEF Handle, GetLast, GetCurrent, Find, SaveFails, Tidy, SetCurrent, SetLast
    <3>2. /\ call'[h].step # "zadd"
          /\ \A g \in Handlers : g # h => call'[g] = call[g]
      BY <1>3, <2>3, GetLastDoes, GetCurrentDoes, FindDoes, SaveFailsDoes, TidyDoes,
         SetCurrentDoes, SetLastDoes DEF Handle, Moves, Idle
    <3>3. QED
      BY <3>1, <3>2, SetFrame
  <2>4. QED
    BY <2>1, <2>2, <2>3
<1>4. CASE Fetch
  <2>1. UNCHANGED <<finalized, db, refilled, call>> /\ (job' = job \/ job'.step # "add")
    BY <1>4, FetchDoes DEF Fetch
  <2>2. QED
    BY <2>1, SetFrame
<1>5. CASE InitJob
  BY <1>5, SetByJob
<1>6. CASE Crash
  <2>1. /\ UNCHANGED <<finalized, db, refilled>> /\ job'.step # "add"
        /\ \A h \in Handlers : call'[h].step # "zadd"
    BY <1>6 DEF Crash, NoJob, Idle
  <2>2. QED
    BY <2>1, SetFrame
<1>7. CASE Expire
  <2>1. UNCHANGED <<db, refilled, job, call>>
    BY <1>7 DEF Expire
  <2>2. finalized' = finalized \/ finalized' = [c \in Times |-> <<>>]
    BY <1>7 DEF Expire
  <2>3. CASE finalized' = finalized
    BY <2>1, <2>3, SetFrame
  <2>4. CASE finalized' = [c \in Times |-> <<>>]
    <3>1. \A c \in Times : Len(finalized'[c]) = 0
      BY <2>4
    <3>2. \A c : Room(c)' \in {1, 2} /\ Room(c)' = Room(c)
      BY <2>1 DEF Room, Refilling
    <3>3. \A c \in Times : \A h \in Handlers : Zadds(h, c)' <=> Zadds(h, c)
      BY <2>1 DEF Zadds
    <3>4. \A c \in Times : Len(finalized'[c]) <= Room(c)' /\ Len(finalized'[c]) < Room(c)'
      BY <3>1, <3>2
    <3>5. /\ \A c \in Times : \A g, h \in Handlers : Zadds(g, c)' /\ Zadds(h, c)' => g = h
          /\ \A c \in Times : \A h \in Handlers : Zadds(h, c)' => db'[c] # None
      BY <2>1, <3>3 DEF SetSound
    <3>6. QED
      BY <2>1, <3>4, <3>5 DEF SetSound
  <2>5. QED
    BY <2>2, <2>3, <2>4
<1>8. QED
  BY <1>1, <1>2, <1>3, <1>4, <1>5, <1>6, <1>7 DEF Next

\* Times and volumes are numbers, of no candle too.
LEMMA NumbersStored ==
  ASSUME Typed
  PROVE  /\ now \in Nat /\ lastTime \in Nat
         /\ current.time \in Nat /\ current.volume \in Nat
         /\ current = NoCandle \/ current.time \in Times
         /\ \A c \in Times : db[c] \in Nat /\ heard[c] \in Nat /\ traded[c] \in Nat
         /\ \A h \in Handlers : /\ call[h].candle.time \in Nat /\ call[h].candle.volume \in Nat
                                /\ call[h].prev.time \in Nat /\ call[h].prev.volume \in Nat
                                /\ call[h].prev = NoCandle \/ call[h].prev.time \in Times
<1>1. \A x \in Candle \cup {NoCandle} : /\ x.time \in Nat /\ x.volume \in Nat
                                        /\ x = NoCandle \/ x.time \in Times
  <2>1. 0 \in Nat
    OBVIOUS
  <2>2. ASSUME NEW x \in Candle PROVE x.time \in Nat /\ x.volume \in Nat /\ x.time \in Times
    BY TimesAreNumbers
  <2>3. QED
    BY <2>1, <2>2, TimesAreNumbers DEF None
<1>2. current \in Candle \cup {NoCandle}
  BY DEF Typed, Stored
<1>3. ASSUME NEW h \in Handlers
      PROVE  call[h].candle \in Candle \cup {NoCandle} /\ call[h].prev \in Candle \cup {NoCandle}
  BY CallShape DEF Typed
<1>4. now \in Nat /\ lastTime \in Nat
  BY TimesAreNumbers DEF Typed, Stored
<1>5. \A c \in Times : db[c] \in Nat /\ heard[c] \in Nat /\ traded[c] \in Nat
  BY TimesAreNumbers DEF Typed, Stored
<1>6. QED
  BY <1>1, <1>2, <1>3, <1>4, <1>5

-----------------------------------------------------------------------------
(* No candle is lost                                                        *)

\* A handler brings the last volume the stream gave for candle c; the current
\* candle has it; or the row has.
Coming(c) == \E h \in Handlers : /\ call[h].candle.time = c /\ call[h].candle.volume = heard[c]
                                 /\ call[h].step # "setLast"
Shown(c)  == current.time = c /\ heard[c] <= current.volume
Saved(c)  == heard[c] <= db[c]

Finalized == {"zadd", "trim", "expire", "setCurrent"}

\* What holds of a candle that met none of the races and faults.  Its row is
\* not behind the current candle, and a handler that has finalized it leaves a
\* row.
LostSound ==
  \A c \in Times \ disturbed :
    /\ heard[c] > 0 => Coming(c) \/ Shown(c) \/ Saved(c)
    /\ current.time = c /\ db[c] # None => current.volume <= db[c]
    /\ \A h \in Handlers : call[h].step \in Finalized /\ call[h].prev.time = c => db[c] # None

\* Marks stay, and so do rows.
LEMMA MarksAndRowsStay ==
  ASSUME Typed, VolumesSound, Next
  PROVE  /\ disturbed \subseteq disturbed' /\ refilled \subseteq refilled'
         /\ \A c \in Times : db[c] # None => db'[c] = db[c]
<1>1. disturbed \subseteq disturbed' /\ refilled \subseteq refilled'
  BY DEF Next, Trade, Close, Handle, GetLast, GetCurrent, Find, Save, SaveFails, Zadd, Tidy,
     SetCurrent, SetLast, Fetch, InitJob, JobSetsCurrent, JobSetsLast, JobSaves, JobRemoves,
     JobAdds, AskVolume, Query, ReadSet, Answer, Crash, Expire, history
<1>2. ASSUME NEW c \in Times, db[c] # None PROVE db'[c] = db[c]
  <2>0. db \in [Times -> Volumes]
    BY DEF Typed, Stored
  <2>1. ASSUME NEW h \in Handlers, Save(h) PROVE db'[c] = db[c]
    <3>1. db[call[h].prev.time] = None /\ db' = [db EXCEPT ![call[h].prev.time] = call[h].prev.volume]
      BY <2>1 DEF Save
    <3>2. QED
      BY <1>2, <2>0, <3>1
  <2>2. CASE JobSaves
    <3>1. \/ db' = db
          \/ /\ \A d \in Closed(job.rest) : db[d] = None
             /\ db' = [d \in Times |-> IF d \in Closed(job.rest) THEN job.rest[d] ELSE db[d]]
      BY <2>2 DEF JobSaves
    <3>2. QED
      BY <1>2, <2>0, <3>1
  <2>3. QED
    BY <2>1, <2>2, StoresFlow
<1>3. QED
  BY <1>1, <1>2

\* A handler keeps its candle until it is done.
LEMMA HandlerKeeps ==
  ASSUME Typed, NEW h \in Handlers, Handle(h)
  PROVE  /\ \A g \in Handlers : g # h => call'[g] = call[g]
         /\ \/ SetLast(h) /\ call[h].step = "setLast" /\ call'[h] = Idle
            \/ /\ ~SetLast(h) /\ call[h].step \notin {"idle", "setLast"}
               /\ call'[h].candle = call[h].candle
               /\ call'[h].step = "setLast" <=> SetCurrent(h)
<1> USE DEF Moves, DbSteps
<1>1. CASE GetLast(h)
  BY <1>1, GetLastDoes, SetLastDoes, SetCurrentDoes
<1>2. CASE GetCurrent(h)
  BY <1>2, GetCurrentDoes, SetLastDoes, SetCurrentDoes
<1>3. CASE Find(h)
  BY <1>3, FindDoes, SetLastDoes, SetCurrentDoes
<1>4. CASE Save(h)
  BY <1>4, SaveDoes, SetLastDoes, SetCurrentDoes
<1>5. CASE SaveFails(h)
  BY <1>5, SaveFailsDoes, SetLastDoes, SetCurrentDoes
<1>6. CASE Zadd(h)
  BY <1>6, ZaddDoes, SetLastDoes, SetCurrentDoes
<1>7. CASE Tidy(h)
  BY <1>7, TidyDoes, SetLastDoes, SetCurrentDoes
<1>8. CASE SetCurrent(h)
  BY <1>8, SetCurrentDoes, SetLastDoes
<1>9. CASE SetLast(h)
  BY <1>9, SetLastDoes
<1>10. QED
  BY <1>1, <1>2, <1>3, <1>4, <1>5, <1>6, <1>7, <1>8, <1>9 DEF Handle

\* Who writes the current candle, without harm to candle c.
LEMMA HarmlessWrite ==
  ASSUME Typed, NEW new \in Candle, NEW finalizing, NEW c \in Times, c \notin Harmed(new, finalizing)
  PROVE  /\ c = current.time => \/ current = finalizing
                                \/ c = new.time /\ current.volume <= new.volume
         /\ c = new.time /\ db[c] # None => new.volume <= db[c]
<1>1. new.volume \in Nat /\ db[c] \in Nat /\ current.volume \in Nat
  BY TimesAreNumbers, NumbersStored
<1>2. QED
  BY <1>1 DEF Harmed

\* The volume a row is written with is not behind the current candle.
LEMMA RowsFollow ==
  ASSUME Typed, VolumesSound, LostSound, Next
  PROVE  \A c \in Times \ disturbed' :
           current'.time = c /\ db'[c] # None => current'.volume <= db'[c]
<1> SUFFICES ASSUME NEW c \in Times \ disturbed', current'.time = c, db'[c] # None
             PROVE  current'.volume <= db'[c]
  OBVIOUS
<1>0. /\ c \in Times /\ c \notin disturbed /\ c # None /\ NoCandle.time = None
      /\ current.volume \in Nat /\ db \in [Times -> Volumes]
      /\ c = current.time => current \in Candle
  BY MarksAndRowsStay, TimesAreNumbers, NumbersStored DEF Typed, Stored
<1>1. CASE current' = current /\ db[c] # None
  BY <1>0, <1>1, MarksAndRowsStay DEF LostSound
<1>2. ASSUME current' = current, NEW h \in Handlers, Save(h), db[c] = None
      PROVE  current'.volume <= db'[c]
  <2>1. db' = [db EXCEPT ![call[h].prev.time] = call[h].prev.volume]
        /\ disturbed' = IF Outdated(call[h].prev) THEN disturbed \cup {call[h].prev.time} ELSE disturbed
    BY <1>2 DEF Save
  <2>2. call[h].prev.time = c /\ db'[c] = call[h].prev.volume
    BY <1>0, <1>2, <2>1
  <2>3. ~Outdated(call[h].prev)
    BY <2>1, <2>2
  <2>4. ~(current.volume > call[h].prev.volume)
    BY <1>2, <2>2, <2>3 DEF Outdated
  <2>5. call[h].prev.volume \in Nat
    BY <1>2, SaveDoes, TimesAreNumbers DEF Typed, Busy
  <2>6. QED
    BY <1>0, <1>2, <2>2, <2>4, <2>5
<1>3. ASSUME current' = current, JobSaves, db[c] = None
      PROVE  current'.volume <= db'[c]
  <2>1. db' = [d \in Times |-> IF d \in Closed(job.rest) THEN job.rest[d] ELSE db[d]]
    BY <1>3 DEF JobSaves
  <2>2. c \in Closed(job.rest) /\ db'[c] = job.rest[c]
    BY <1>0, <1>3, <2>1
  <2>3. job # NoJob
    BY <1>3, JobSavesDoes DEF NoJob
  <2>4. db'[c] = traded[c]
    BY <2>2, <2>3, JobIsPast
  <2>5. Real(current, now, traded)
    BY <1>0, <1>3 DEF VolumesSound
  <2>6. QED
    BY <1>3, <2>4, <2>5 DEF Real
<1>4. CASE current' = current
  BY <1>0, <1>1, <1>2, <1>3, <1>4, StoresFlow
<1>5. ASSUME NEW h \in Handlers, SetCurrent(h) PROVE current'.volume <= db'[c]
  <2>1. /\ current' = call[h].candle /\ call[h].candle \in Candle /\ db' = db
        /\ c \notin Harmed(call[h].candle, call[h].prev)
    BY <1>5, SetCurrentDoes DEF SetCurrent
  <2>2. QED
    BY <2>1, HarmlessWrite
<1>6. CASE JobSetsCurrent
  <2>1. /\ current' = [time |-> Newest(job.rest), volume |-> job.rest[Newest(job.rest)]]
        /\ db' = db /\ c \notin Harmed(current', NoCandle)
    BY <1>6 DEF JobSetsCurrent
  <2>2. current' \in Candle
    BY <1>0, TypedStays DEF Typed, Stored
  <2>3. QED
    BY <2>1, <2>2, HarmlessWrite
<1>7. QED
  BY <1>0, <1>4, <1>5, <1>6, StoresFlow

\* A handler that has been through finalizeCandle leaves a row.
LEMMA FinalizersLeaveRows ==
  ASSUME Typed, VolumesSound, LostSound, Next
  PROVE  \A c \in Times \ disturbed' : \A g \in Handlers :
           call'[g].step \in Finalized /\ call'[g].prev.time = c => db'[c] # None
<1> SUFFICES ASSUME NEW c \in Times \ disturbed', NEW g \in Handlers,
                    call'[g].step \in Finalized, call'[g].prev.time = c
             PROVE  db'[c] # None
  OBVIOUS
<1>0. c \in Times /\ c \notin disturbed /\ c # None /\ NoCandle.time = None
  BY MarksAndRowsStay, TimesAreNumbers
<1>1. CASE call[g].step \in Finalized /\ call[g].prev = call'[g].prev
  BY <1>0, <1>1, MarksAndRowsStay DEF LostSound
<1>2. CASE call'[g] = call[g]
  BY <1>1, <1>2
<1>3. CASE Trade
  BY <1>2, <1>3, TradeDoes DEF Finalized
<1>4. CASE Crash
  BY <1>4 DEF Crash, Idle, Finalized
<1>5. CASE Handle(g)
  <2> USE DEF Moves, Finalized
  <2>1. CASE GetLast(g)
    BY <1>0, <2>1, GetLastDoes DEF Typed, Busy
  <2>2. CASE GetCurrent(g)
    BY <1>0, <2>2, GetCurrentDoes DEF Typed, Busy
  <2>3. CASE Find(g)
    <3>1. db[c] # None
      BY <2>3, FindDoes
    <3>2. QED
      BY <1>0, <3>1, MarksAndRowsStay
  <2>4. CASE Save(g)
    <3>1. call[g].prev \in Candle /\ call[g].prev.time = c
      BY <2>4, SaveDoes DEF Typed, Busy
    <3>2. call[g].prev.volume # 0
      BY <3>1 DEF VolumesSound, Real
    <3>3. db'[c] = call[g].prev.volume
      BY <1>0, <2>4, <3>1 DEF Save, Typed, Stored
    <3>4. QED
      BY <3>2, <3>3 DEF None
  <2>5. CASE SaveFails(g)
    <3>1. db[c] # None
      BY <1>0, <2>5, SaveFailsDoes DEF SaveFails
    <3>2. QED
      BY <1>0, <3>1, MarksAndRowsStay
  <2>6. CASE Zadd(g)
    BY <1>1, <2>6, ZaddDoes
  <2>7. CASE Tidy(g)
    BY <1>1, <2>7, TidyDoes
  <2>8. CASE SetCurrent(g)
    BY <2>8, SetCurrentDoes
  <2>9. CASE SetLast(g)
    BY <2>9, SetLastDoes DEF Idle
  <2>10. QED
    BY <1>5, <2>1, <2>2, <2>3, <2>4, <2>5, <2>6, <2>7, <2>8, <2>9 DEF Handle
<1>6. CASE \E h \in Handlers : Handle(h)
  BY <1>2, <1>5, <1>6, HandlerKeeps
<1>7. CASE UNCHANGED call
  BY <1>2, <1>7
<1>8. QED
  BY <1>3, <1>4, <1>6, <1>7 DEF Next, Close, Fetch, InitJob, JobSetsCurrent, JobSetsLast,
        JobSaves, JobRemoves, JobAdds, AskVolume, Query, ReadSet, Answer, Expire

\* The last volume of a candle does not vanish unmarked.
LEMMA NothingVanishes ==
  ASSUME Typed, VolumesSound, LostSound, Next
  PROVE  \A c \in Times \ disturbed' :
           heard'[c] > 0 => Coming(c)' \/ Shown(c)' \/ Saved(c)'
<1> SUFFICES ASSUME NEW c \in Times \ disturbed', heard'[c] > 0
             PROVE  Coming(c)' \/ Shown(c)' \/ Saved(c)'
  OBVIOUS
<1>0. /\ c \in Times /\ c \notin disturbed /\ c # None /\ NoCandle.time = None
      /\ heard[c] \in Nat /\ db[c] \in Nat /\ current.volume \in Nat
      /\ heard \in [Times -> Volumes]
  BY MarksAndRowsStay, TimesAreNumbers, NumbersStored DEF Typed, Stored
<1>1. CASE heard'[c] # heard[c]
  <2>1. Trade /\ heard' = [heard EXCEPT ![now] = traded[now] + 1] /\ heard' # heard
    BY <1>1, StoresFlow
  <2>2. c = now /\ heard'[c] = traded[now] + 1
    BY <1>0, <1>1, <2>1
  <2>3. \E h \in Handlers : call'[h].step = "getLast"
                            /\ call'[h].candle = [time |-> now, volume |-> traded[now] + 1]
    BY <2>1, TradeDoes
  <2>4. Coming(c)'
    BY <2>2, <2>3 DEF Coming
  <2>5. QED
    BY <2>4
<1>2. CASE heard'[c] = heard[c]
  <2>0. Coming(c) \/ Shown(c) \/ Saved(c)
    BY <1>0, <1>2 DEF LostSound
  <2>1. CASE Saved(c)
    <3>1. db[c] # None
      BY <1>0, <1>2, <2>1 DEF Saved, None
    <3>2. db'[c] = db[c]
      BY <1>0, <3>1, MarksAndRowsStay
    <3>3. QED
      BY <1>2, <2>1, <3>2 DEF Saved
  <2>2. CASE Shown(c)
    <3>1. CASE current' = current
      BY <1>2, <2>2, <3>1 DEF Shown
    <3>2. ASSUME NEW h \in Handlers, SetCurrent(h) PROVE Shown(c)' \/ Saved(c)
      <4>1. /\ current' = call[h].candle /\ call[h].candle \in Candle
            /\ c \notin Harmed(call[h].candle, call[h].prev) /\ call[h].step = "setCurrent"
        BY <3>2, SetCurrentDoes DEF SetCurrent
      <4>2. CASE current = call[h].prev
        <5>1. db[c] # None
          BY <1>0, <2>2, <4>1, <4>2 DEF LostSound, Finalized, Shown
        <5>2. current.volume <= db[c]
          BY <1>0, <2>2, <5>1 DEF LostSound, Shown
        <5>3. QED
          BY <1>0, <2>2, <5>2 DEF Shown, Saved
      <4>3. CASE c = call[h].candle.time /\ current.volume <= call[h].candle.volume
        <5>1. call[h].candle.volume \in Nat
          BY <4>1, TimesAreNumbers
        <5>2. heard[c] <= call[h].candle.volume
          BY <1>0, <2>2, <4>3, <5>1 DEF Shown
        <5>3. QED
          BY <1>2, <4>1, <4>3, <5>2 DEF Shown
      <4>4. QED
        BY <1>0, <2>2, <4>1, <4>2, <4>3, HarmlessWrite DEF Shown
    <3>3. CASE JobSetsCurrent
      <4>1. /\ current' = [time |-> Newest(job.rest), volume |-> job.rest[Newest(job.rest)]]
            /\ c \notin Harmed(current', NoCandle)
        BY <3>3 DEF JobSetsCurrent
      <4>2. job # NoJob
        BY <3>3, JobSetsCurrentDoes DEF NoJob
      <4>3. Newest(job.rest) \in Times /\ job.rest[Newest(job.rest)] \in Volumes
        BY <4>2, JobIsPast, JobShape DEF Typed
      <4>4. current' \in Candle
        BY <4>1, <4>3 DEF Candle
      <4>5. c = current'.time /\ current.volume <= current'.volume
        BY <1>0, <2>2, <4>1, <4>4, HarmlessWrite DEF Shown
      <4>6. current'.volume \in Nat
        BY <4>4, TimesAreNumbers
      <4>7. heard[c] <= current'.volume
        BY <1>0, <2>2, <4>5, <4>6 DEF Shown
      <4>8. QED
        BY <1>2, <4>5, <4>7 DEF Shown
    <3>4. CASE Expire
      BY <1>0, <2>2, <3>4 DEF Expire, Shown
    <3>5. current' = current \/ (\E h \in Handlers : SetCurrent(h)) \/ JobSetsCurrent \/ Expire
      BY DEF Next, Trade, Close, Handle, GetLast, GetCurrent, Find, Save, SaveFails, Zadd, Tidy,
         SetLast, Fetch, InitJob, JobSetsLast, JobSaves, JobRemoves, JobAdds, AskVolume, Query,
         ReadSet, Answer, Crash, stores
    <3>6. QED
      BY <2>1, <3>1, <3>2, <3>3, <3>4, <3>5
  <2>3. CASE Coming(c)
    <3>1. PICK g \in Handlers : /\ call[g].candle.time = c /\ call[g].candle.volume = heard[c]
                                /\ call[g].step # "setLast"
      BY <2>3 DEF Coming
    <3>2. call[g].step # "idle"
      BY <1>0, <3>1, CallShape DEF Typed
    <3>3. CASE call'[g] = call[g]
      BY <1>2, <3>1, <3>3 DEF Coming
    <3>4. CASE Trade
      BY <3>2, <3>3, <3>4, TradeDoes
    <3>5. CASE Crash
      BY <1>0, <3>1, <3>5 DEF Crash
    <3>6. CASE Handle(g)
      <4>1. CASE SetCurrent(g)
        <5>1. current' = call[g].candle
          BY <4>1 DEF SetCurrent
        <5>2. QED
          BY <1>0, <1>2, <3>1, <5>1 DEF Shown
      <4>2. CASE ~SetCurrent(g)
        BY <1>2, <3>1, <3>6, <4>2, HandlerKeeps DEF Coming
      <4>3. QED
        BY <4>1, <4>2
    <3>7. CASE \E h \in Handlers : Handle(h)
      BY <3>3, <3>6, <3>7, HandlerKeeps
    <3>8. CASE UNCHANGED call
      BY <3>3, <3>8
    <3>9. QED
      BY <3>4, <3>5, <3>7, <3>8 DEF Next, Close, Fetch, InitJob, JobSetsCurrent, JobSetsLast,
        JobSaves, JobRemoves, JobAdds, AskVolume, Query, ReadSet, Answer, Expire
  <2>4. QED
    BY <2>0, <2>1, <2>2, <2>3
<1>3. QED
  BY <1>1, <1>2

LEMMA LostStays == Typed /\ VolumesSound /\ LostSound /\ Next => LostSound'
BY NothingVanishes, RowsFollow, FinalizersLeaveRows DEF LostSound

-----------------------------------------------------------------------------
(* The order of things, as long as nothing is marked                        *)

Clean == disturbed = {} /\ refilled = {}

Beyond == {"setLast", "save", "remove", "add"}

RowsBehind == \A c \in Times : db[c] # None => c <= current.time

Unset ==
  current = NoCandle =>
    /\ lastTime = None
    /\ \A h \in Handlers : /\ call[h].step \in {"idle", "getLast", "setCurrent"}
                           /\ call[h].prev = NoCandle

JobBehind == job.step \in Beyond => Newest(job.rest) <= current.time

\* A handler that will read the current candle is not older.
NotOlder(h) ==
  call[h].step \in {"getLast", "getCurrent"} => current.time <= call[h].candle.time

\* A handler that has read it finalizes it, or finds a row.
Finalizes(h) ==
  call[h].prev # NoCandle /\ call[h].step # "setLast" =>
    /\ call[h].prev.time <= call[h].candle.time
    /\ \/ call[h].prev.time = current.time
       \/ call[h].prev.time < current.time /\ db[call[h].prev.time] # None

\* Messages are served in the order they came: the older first, and nobody
\* moves the current candle away from one who is about to add it to the set.
Follows(g, h) ==
  call[h].step = "getLast" /\ call[h].candle.time < call[g].candle.time
    => call[g].step = "getLast"

InTurn(g, h) ==
  /\ call[g].step = "getLast" /\ call[h].step = "getLast"
       => call[g].candle.time <= call[h].candle.time
  /\ call[g].step = "setCurrent" /\ call[h].step = "getCurrent"
       => call[g].candle.time <= call[h].candle.time
  /\ ~(/\ call[g].step = "setCurrent" /\ call[g].prev # NoCandle
       /\ Zadds(h, call[g].prev.time))

JobInTurn(h) ==
  job.step = "setCurrent" /\ Precedes(queue, "init", h) /\ call[h].step = "getLast"
    => Newest(job.rest) <= call[h].candle.time

\* The current candle only climbs, and rows are of candles up to it.
OrderSound ==
  /\ RowsBehind /\ Unset /\ JobBehind
  /\ \A h \in Handlers : NotOlder(h) /\ Finalizes(h) /\ JobInTurn(h)
  /\ \A g, h \in Handlers : Follows(g, h)
  /\ \A g, h \in Handlers : Precedes(queue, g, h) => InTurn(g, h)

\* Rows and set agree: the candle that is finalized now is the current one, and
\* every other one is in the set once.
AddsCurrent(h) == call[h].step = "zadd" => call[h].prev.time = current.time

CurrentInSet(c) ==
  c = current.time /\ db[c] # None => Len(finalized[c]) = 1 \/ \E h \in Handlers : Zadds(h, c)

OtherInSet(c) ==
  /\ heard[c] > 0 /\ c # current.time
  /\ \A h \in Handlers : call[h].candle.time = c => call[h].step = "setLast"
  => Len(finalized[c]) = 1

SetIsRight ==
  /\ \A h \in Handlers : AddsCurrent(h)
  /\ \A c \in Times : CurrentInSet(c) /\ OtherInSet(c)

\* A handler that started after the query is behind it.  Of the candles the
\* query knows, at most one is current or not counted once.
Ranging ==
  /\ \A c \in ask.known : c # current.time => Len(finalized[c]) = 1
  /\ \A h \in Handlers : call[h].candle.time \in ask.known
       => call[h].step = "getLast" /\ ~Precedes(queue, h, "query")

Getting ==
  /\ \E a \in Times : \A c \in ask.known \ {a} : ask.count[c] = 1 /\ c # current.time
  /\ \A h \in Handlers : call[h].candle.time \in ask.known =>
       /\ call[h].step \in {"getLast", "getCurrent", "setCurrent"}
       /\ Precedes(queue, h, "query") => call[h].step = "getLast"

Answered == \E a \in Times : \A c \in ask.known \ {a} : ask.count[c] = 1

AskIsRight ==
  /\ ask.known \subseteq ask.of
  /\ ask.step \in AskSteps => job = NoJob
  /\ ask.step = "range" => Ranging
  /\ ask.step = "get" => Getting
  /\ ask.step = "done" => Answered

Basics == Typed /\ VolumesSound /\ SetSound /\ LostSound

\* What one who waits at the head, joins, or is not in line may change.
Reorders(x) ==
  \A y, z : Precedes(queue', y, z) =>
    y # x /\ (IF z = x THEN InLine(queue, y) ELSE Precedes(queue, y, z))

LEMMA PrecedesInLine == \A q, x, y : Precedes(q, x, y) => InLine(q, x) /\ InLine(q, y)
BY DEF Precedes, InLine

LEMMA ActorReorders ==
  ASSUME Typed, NEW x,
         \/ ~InLine(queue, x) /\ (Joins(queue, queue', x) \/ queue' = queue)
         \/ First(x) /\ (Leaves(queue, queue', x) \/ Returns(queue, queue', x))
  PROVE  Reorders(x)
<1>1. CASE ~InLine(queue, x) /\ Joins(queue, queue', x)
  BY <1>1, PrecedesInLine DEF Joins, Reorders
<1>2. CASE ~InLine(queue, x) /\ queue' = queue
  BY <1>2, PrecedesInLine DEF Reorders
<1>3. CASE First(x) /\ Leaves(queue, queue', x)
  BY <1>3, FirstInLine DEF Leaves, Reorders
<1>4. CASE First(x) /\ Returns(queue, queue', x)
  BY <1>4, FirstInLine DEF Returns, Reorders
<1>5. QED
  BY <1>1, <1>2, <1>3, <1>4

LEMMA HandlerReorders ==
  ASSUME Typed, NEW h \in Handlers, Handle(h)
  PROVE  Reorders(h)
<1>0. call[h].step \in DbSteps => ~InLine(queue, h)
  BY DEF Typed, Queued, DbSteps, RedisSteps
<1> USE DEF DbSteps
<1>1. CASE GetLast(h)
  BY <1>1, GetLastDoes, ActorReorders
<1>2. CASE GetCurrent(h)
  BY <1>2, GetCurrentDoes, ActorReorders
<1>3. CASE Find(h)
  BY <1>0, <1>3, FindDoes, ActorReorders
<1>4. CASE Save(h)
  BY <1>0, <1>4, SaveDoes, ActorReorders
<1>5. CASE SaveFails(h)
  BY <1>0, <1>5, SaveFailsDoes, ActorReorders
<1>6. CASE Zadd(h)
  BY <1>6, ZaddDoes, ActorReorders
<1>7. CASE Tidy(h)
  BY <1>7, TidyDoes, ActorReorders
<1>8. CASE SetCurrent(h)
  BY <1>8, SetCurrentDoes, ActorReorders
<1>9. CASE SetLast(h)
  BY <1>9, SetLastDoes, ActorReorders
<1>10. QED
  BY <1>1, <1>2, <1>3, <1>4, <1>5, <1>6, <1>7, <1>8, <1>9 DEF Handle

LEMMA JobReorders ==
  ASSUME Typed, InitJob \/ (Fetch /\ ~UNCHANGED <<queue, job>>)
  PROVE  Reorders("init")
<1>0. job.step \notin JobSteps => ~InLine(queue, "init")
  BY DEF Typed, Queued
<1> USE DEF JobSteps
<1>1. CASE JobSetsCurrent
  BY <1>1, JobSetsCurrentDoes, ActorReorders
<1>2. CASE JobSetsLast
  BY <1>2, JobSetsLastDoes, ActorReorders
<1>3. CASE JobSaves
  BY <1>0, <1>3, JobSavesDoes, ActorReorders
<1>4. CASE JobRemoves
  BY <1>4, JobRemovesDoes, ActorReorders
<1>5. CASE JobAdds
  BY <1>5, JobAddsDoes, ActorReorders
<1>6. CASE Fetch /\ ~UNCHANGED <<queue, job>>
  <2>1. job.step = "idle" /\ Joins(queue, queue', "init")
    BY <1>6, FetchDoes, Zenon
  <2>2. QED
    BY <1>0, <2>1, ActorReorders
<1>7. QED
  BY <1>1, <1>2, <1>3, <1>4, <1>5, <1>6 DEF InitJob

LEMMA QueryReorders ==
  ASSUME Typed, AskVolume \/ Query
  PROVE  Reorders("query")
<1>0. ask.step \notin AskSteps => ~InLine(queue, "query")
  BY DEF Typed, Queued
<1>1. CASE AskVolume
  <2>1. ask.step = "idle" /\ Joins(queue, queue', "query")
    BY <1>1, AskVolumeDoes
  <2>2. QED
    BY <1>0, <2>1, ActorReorders DEF AskSteps
<1>2. CASE ReadSet
  BY <1>2, ReadSetDoes, ActorReorders
<1>3. CASE Answer
  BY <1>3, AnswerDoes, ActorReorders
<1>4. QED
  BY <1>1, <1>2, <1>3 DEF Query

\* Who leaves the set and the current candle alone.
LEMMA CleanWrites ==
  ASSUME Basics, OrderSound, Clean, Clean', Next
  PROVE  /\ ~Expire
         /\ Crash => \A h \in Handlers : call[h].step = "idle"
         /\ \/ current' = current
            \/ \E h \in Handlers :
                 /\ SetCurrent(h) /\ current' = call[h].candle
                 /\ \/ current = NoCandle \/ current'.time = current.time
                    \/ current.time < current'.time /\ current = call[h].prev /\ db[current.time] # None
            \/ /\ JobSetsCurrent /\ current'.time = Newest(job.rest) /\ current'.time \in Times
               /\ current = NoCandle \/ current'.time = current.time
<1> USE DEF Basics
<1>0. /\ current = NoCandle \/ current.time \in Times
      /\ current.time \in Nat /\ NoCandle.time = None /\ None \notin Times
      /\ disturbed = {} /\ disturbed' = {}
  BY NumbersStored, TimesAreNumbers DEF Clean
<1>1. ~Expire
  BY <1>0 DEF Expire
<1>2. ASSUME Crash, NEW h \in Handlers PROVE call[h].step = "idle"
  <2>1. call[h].candle.time \notin Times
    BY <1>0, <1>2 DEF Crash
  <2>2. QED
    BY <2>1, CallShape, TimesAreNumbers DEF Typed
<1>3. ASSUME NEW h \in Handlers, SetCurrent(h)
      PROVE  /\ current' = call[h].candle
             /\ \/ current = NoCandle \/ current'.time = current.time
                \/ current.time < current'.time /\ current = call[h].prev /\ db[current.time] # None
  <2>1. /\ current' = call[h].candle /\ call[h].candle \in Candle
        /\ Harmed(call[h].candle, call[h].prev) = {} /\ call[h].step = "setCurrent"
    BY <1>0, <1>3, SetCurrentDoes DEF SetCurrent
  <2>2. CASE current # NoCandle /\ current'.time # current.time
    <3>1. current = call[h].prev
      BY <1>0, <2>1, <2>2, HarmlessWrite
    <3>2. db[current.time] # None
      BY <1>0, <2>1, <2>2, <3>1 DEF LostSound, Finalized
    <3>3. current.time <= call[h].candle.time
      BY <2>1, <2>2, <3>1 DEF OrderSound, Finalizes
    <3>4. call[h].candle.time \in Nat
      BY NumbersStored
    <3>5. QED
      BY <1>0, <2>1, <2>2, <3>1, <3>2, <3>3, <3>4
  <2>3. QED
    BY <2>1, <2>2
<1>4. ASSUME JobSetsCurrent
      PROVE  /\ current'.time = Newest(job.rest) /\ current'.time \in Times
             /\ current = NoCandle \/ current'.time = current.time
  <2>1. /\ current' = [time |-> Newest(job.rest), volume |-> job.rest[Newest(job.rest)]]
        /\ Harmed(current', NoCandle) = {} /\ job # NoJob
    BY <1>0, <1>4, JobSetsCurrentDoes DEF JobSetsCurrent, NoJob
  <2>2. current'.time = Newest(job.rest) /\ Newest(job.rest) \in Times /\ current' \in Candle
    <3>1. current' \in Candle \cup {NoCandle}
      BY TypedStays DEF Typed, Stored
    <3>2. Newest(job.rest) \in Times
      BY <2>1, JobIsPast
    <3>3. current' # NoCandle
      BY <1>0, <2>1, <3>2
    <3>4. QED
      BY <2>1, <3>1, <3>2, <3>3
  <2>3. QED
    BY <1>0, <2>1, <2>2, HarmlessWrite
<1>5. current' = current \/ (\E h \in Handlers : SetCurrent(h)) \/ JobSetsCurrent
  BY <1>1 DEF Next, Trade, Close, Handle, GetLast, GetCurrent, Find, Save, SaveFails, Zadd, Tidy,
         SetLast, Fetch, InitJob, JobSetsLast, JobSaves, JobRemoves, JobAdds, AskVolume, Query,
         ReadSet, Answer, Crash, stores
<1>6. QED
  BY <1>1, <1>2, <1>3, <1>4, <1>5

\* Who acts: a handler, one that a trade starts, the job, the query, or nobody.
Begins(x) ==
  /\ Trade /\ call[x].step = "idle"
  /\ call'[x].step = "getLast" /\ call'[x].prev = NoCandle
  /\ call'[x].candle = [time |-> now, volume |-> traded[now] + 1]

HandlerActs(x) ==
  /\ Handle(x) \/ Begins(x)
  /\ Reorders(x) /\ job' = job /\ ask' = ask
  /\ \A g \in Handlers : g # x => call'[g] = call[g]

LEMMA WhoActs ==
  ASSUME Typed, Next
  PROVE  \/ \E x \in Handlers : HandlerActs(x)
         \/ call' = call /\ ask' = ask /\ Reorders("init") /\ (InitJob \/ Fetch)
         \/ call' = call /\ job' = job /\ Reorders("query") /\ (AskVolume \/ Query)
         \/ UNCHANGED <<queue, call, job, ask>>
         \/ Crash /\ queue' = <<>> /\ job' = NoJob /\ ask' = NoAsk
            /\ \A g \in Handlers : call'[g] = Idle
<1>1. CASE Trade
  <2>1. job' = job /\ ask' = ask
    BY <1>1 DEF Trade
  <2>2. ASSUME NEW x \in Handlers, call[x].step = "idle", Joins(queue, queue', x)
        PROVE  Reorders(x)
    <3>1. ~InLine(queue, x)
      BY <2>2 DEF Typed, Queued, RedisSteps
    <3>2. QED
      BY <2>2, <3>1, ActorReorders
  <2>3. QED
    BY <1>1, <2>1, <2>2, TradeDoes DEF HandlerActs, Begins
<1>2. ASSUME NEW x \in Handlers, Handle(x) PROVE HandlerActs(x)
  <2>1. job' = job /\ ask' = ask
    BY <1>2 DEF Handle, GetLast, GetCurrent, Find, Save, SaveFails, Zadd, Tidy, SetCurrent, SetLast
  <2>2. QED
    BY <1>2, <2>1, HandlerReorders, HandlerKeeps DEF HandlerActs
<1>3. CASE InitJob \/ Fetch
  <2>1. call' = call /\ ask' = ask
    BY <1>3 DEF InitJob, JobSetsCurrent, JobSetsLast, JobSaves, JobRemoves, JobAdds, Fetch
  <2>2. QED
    BY <1>3, <2>1, JobReorders
<1>4. CASE AskVolume \/ Query
  <2>1. call' = call /\ job' = job
    BY <1>4 DEF AskVolume, Query, ReadSet, Answer
  <2>2. QED
    BY <1>4, <2>1, QueryReorders
<1>5. CASE Close \/ Expire
  BY <1>5 DEF Close, Expire
<1>6. CASE Crash
  BY <1>6 DEF Crash
<1>7. QED
  BY <1>1, <1>2, <1>3, <1>4, <1>5, <1>6 DEF Next

LEMMA CurrentClimbs ==
  ASSUME Basics, OrderSound, Clean, Clean', Next
  PROVE  /\ current.time <= current'.time /\ current.time \in Nat /\ current'.time \in Nat
         /\ current' = NoCandle => current = NoCandle
         /\ current # NoCandle /\ current'.time # current.time =>
              /\ db[current.time] # None /\ current.time \in Times
              /\ \E h \in Handlers : SetCurrent(h) /\ current = call[h].prev
<1>1. current.time \in Nat /\ (current = NoCandle \/ current.time \in Times)
  BY NumbersStored DEF Basics
<1>2. current'.time \in Nat /\ (current' = NoCandle \/ current'.time \in Times)
  <2>1. current' \in Candle \cup {NoCandle}
    BY TypedStays DEF Basics, Typed, Stored
  <2>2. QED
    BY <2>1, TimesAreNumbers
<1>3. NoCandle.time = None /\ None = 0 /\ None \notin Times
  BY TimesAreNumbers DEF None
<1>4. current.time <= current'.time
  BY <1>1, <1>2, <1>3, CleanWrites
<1>5. ASSUME current' = NoCandle PROVE current = NoCandle
  BY <1>1, <1>3, <1>4, <1>5, TimesAreNumbers
<1>6. QED
  BY <1>1, <1>2, <1>4, <1>5, CleanWrites

\* Where a handler may go.
LEMMA HandlerSteps ==
  ASSUME Typed, NEW h \in Handlers, Handle(h)
  PROVE  \/ GetLast(h) /\ call[h].step = "getLast" /\ call'[h].prev = call[h].prev
            /\ \/ call'[h].step = "getCurrent" /\ lastTime # None
               \/ call'[h].step = "setCurrent"
         \/ GetCurrent(h) /\ call[h].step = "getCurrent" /\ current = NoCandle
            /\ call'[h].step = "setCurrent" /\ call'[h].prev = call[h].prev
         \/ GetCurrent(h) /\ call[h].step = "getCurrent" /\ current # NoCandle
            /\ call'[h].step = "find" /\ call'[h].prev = current
         \/ (Find(h) \/ SaveFails(h)) /\ call[h].step \in DbSteps
            /\ call'[h].step \in {"save", "setCurrent"} /\ call'[h].prev = call[h].prev
         \/ Save(h) /\ call[h].step = "save" /\ db[call[h].prev.time] = None
            /\ call'[h].step = "zadd" /\ call'[h].prev = call[h].prev
         \/ Zadd(h) /\ call[h].step = "zadd"
            /\ call'[h].step = "trim" /\ call'[h].prev = call[h].prev
         \/ Tidy(h) /\ call[h].step \in {"trim", "expire"}
            /\ call'[h].step \in {"expire", "setCurrent"} /\ call'[h].prev = call[h].prev
         \/ SetCurrent(h) /\ call[h].step = "setCurrent"
            /\ call'[h].step = "setLast" /\ call'[h].prev = call[h].prev
         \/ SetLast(h) /\ call[h].step = "setLast" /\ call'[h] = Idle
<1> USE DEF Moves, DbSteps
<1>1. CASE GetLast(h)
  BY <1>1, GetLastDoes
<1>2. CASE GetCurrent(h)
  BY <1>2, GetCurrentDoes
<1>3. CASE Find(h)
  BY <1>3, FindDoes
<1>4. CASE Save(h)
  BY <1>4, SaveDoes
<1>5. CASE SaveFails(h)
  BY <1>5, SaveFailsDoes
<1>6. CASE Zadd(h)
  BY <1>6, ZaddDoes
<1>7. CASE Tidy(h)
  BY <1>7, TidyDoes
<1>8. CASE SetCurrent(h)
  BY <1>8, SetCurrentDoes
<1>9. CASE SetLast(h)
  BY <1>9, SetLastDoes
<1>10. QED
  BY <1>1, <1>2, <1>3, <1>4, <1>5, <1>6, <1>7, <1>8, <1>9 DEF Handle

LEMMA RowsBehindStays ==
  ASSUME Basics, OrderSound, Clean, Clean', Next
  PROVE  RowsBehind'
<1> SUFFICES ASSUME NEW c \in Times, db'[c] # None PROVE c <= current'.time
  BY DEF RowsBehind
<1> USE DEF Basics
<1>1. current.time <= current'.time /\ current.time \in Nat /\ current'.time \in Nat /\ c \in Nat
  BY CurrentClimbs, TimesAreNumbers
<1>2. c <= current.time
  <2>1. CASE db' = db
    BY <2>1 DEF OrderSound, RowsBehind
  <2>2. ASSUME NEW h \in Handlers, Save(h), db' = [db EXCEPT ![call[h].prev.time] = call[h].prev.volume]
        PROVE  c <= current.time
    <3>1. call[h].step = "save" /\ call[h].prev \in Candle /\ call[h].prev # NoCandle
      BY <2>2, SaveDoes, TimesAreNumbers DEF Typed, Busy
    <3>2. call[h].prev.time <= current.time
      BY <3>1, <1>1, NumbersStored DEF OrderSound, Finalizes
    <3>3. CASE c = call[h].prev.time
      BY <3>2, <3>3
    <3>4. CASE c # call[h].prev.time
      <4>1. db'[c] = db[c]
        BY <2>2, <3>4 DEF Typed, Stored
      <4>2. QED
        BY <4>1 DEF OrderSound, RowsBehind
    <3>5. QED
      BY <3>3, <3>4
  <2>3. ASSUME JobSaves, db' = [d \in Times |-> IF d \in Closed(job.rest) THEN job.rest[d] ELSE db[d]]
        PROVE  c <= current.time
    <3>1. job # NoJob /\ Newest(job.rest) <= current.time
      BY <2>3, JobSavesDoes, JobShape DEF OrderSound, JobBehind, Beyond, Typed
    <3>2. CASE c \in Closed(job.rest)
      <4>1. c < Newest(job.rest) /\ Newest(job.rest) \in Nat
        BY <3>1, <3>2, JobIsPast, TimesAreNumbers
      <4>2. QED
        BY <1>1, <3>1, <4>1
    <3>3. CASE c \notin Closed(job.rest)
      BY <2>3, <3>3 DEF OrderSound, RowsBehind
    <3>4. QED
      BY <3>2, <3>3
  <2>4. QED
    BY <2>1, <2>2, <2>3, StoresFlow
<1>3. QED
  BY <1>1, <1>2

LEMMA UnsetStays ==
  ASSUME Basics, OrderSound, Clean, Clean', Next
  PROVE  Unset'
<1> SUFFICES ASSUME current' = NoCandle
             PROVE  /\ lastTime' = None
                    /\ \A h \in Handlers : /\ call'[h].step \in {"idle", "getLast", "setCurrent"}
                                           /\ call'[h].prev = NoCandle
  BY DEF Unset
<1> USE DEF Basics
<1>1. /\ current = NoCandle /\ current.time = 0 /\ lastTime = None
      /\ \A h \in Handlers : /\ call[h].step \in {"idle", "getLast", "setCurrent"}
                             /\ call[h].prev = NoCandle
  BY CurrentClimbs, TimesAreNumbers DEF OrderSound, Unset, None
<1>2. \A h \in Handlers : ~SetCurrent(h)
  BY SetCurrentDoes, TimesAreNumbers DEF SetCurrent
<1>3. ASSUME NEW h \in Handlers, Handle(h)
      PROVE  GetLast(h) /\ call'[h].step = "setCurrent" /\ call'[h].prev = NoCandle
  BY <1>1, <1>2, <1>3, HandlerSteps DEF DbSteps
<1>4. ASSUME NEW h \in Handlers
      PROVE  call'[h].step \in {"idle", "getLast", "setCurrent"} /\ call'[h].prev = NoCandle
  <2>1. CASE \E x \in Handlers : HandlerActs(x)
    <3>1. PICK x \in Handlers : HandlerActs(x)
      BY <2>1
    <3>2. CASE h # x
      BY <1>1, <3>1, <3>2 DEF HandlerActs
    <3>3. CASE h = x
      BY <1>3, <3>1, <3>3 DEF HandlerActs, Begins
    <3>4. QED
      BY <3>2, <3>3
  <2>2. CASE call' = call
    BY <1>1, <2>2
  <2>3. CASE call'[h] = Idle
    BY <2>3 DEF Idle
  <2>4. QED
    BY <2>1, <2>2, <2>3, WhoActs
<1>5. lastTime' = None
  <2>1. ASSUME JobSetsLast PROVE FALSE
    <3>1. job # NoJob /\ Newest(job.rest) <= current.time
      BY <2>1, JobSetsLastDoes, JobShape DEF OrderSound, JobBehind, Beyond, Typed
    <3>2. QED
      BY <1>1, <3>1, JobIsPast, CandleTrackerAssumption DEF Times
  <2>2. lastTime' = lastTime
    <3>1. ~Expire
      BY CleanWrites
    <3>2. ASSUME NEW h \in Handlers, Handle(h) PROVE UNCHANGED lastTime
      BY <1>3, <3>2 DEF GetLast, stores
    <3>3. QED
      BY <2>1, <3>1, <3>2 DEF Next, Trade, Close, Fetch, InitJob, JobSetsCurrent, JobSaves, JobRemoves,
         JobAdds, AskVolume, Query, ReadSet, Answer, Crash, stores
  <2>3. QED
    BY <1>1, <2>2
<1>6. QED
  BY <1>4, <1>5

LEMMA JobBehindStays ==
  ASSUME Basics, OrderSound, Clean, Clean', Next
  PROVE  JobBehind'
<1> SUFFICES ASSUME job'.step \in Beyond PROVE Newest(job'.rest) <= current'.time
  BY DEF JobBehind
<1> USE DEF Basics
<1>1. job' # NoJob /\ job'.step # "setCurrent"
  BY DEF NoJob, Beyond
<1>2. job'.rest = job.rest /\ job # NoJob
  BY <1>1, JobFlow, JobShape DEF Typed
<1>3. current.time <= current'.time /\ current.time \in Nat /\ current'.time \in Nat
      /\ Newest(job.rest) \in Nat
  BY <1>2, CurrentClimbs, JobIsPast, TimesAreNumbers
<1>4. CASE job.step \in Beyond
  BY <1>2, <1>3, <1>4 DEF OrderSound, JobBehind
<1>5. CASE job.step \notin Beyond
  <2>1. job.step = "setCurrent"
    BY <1>2, <1>5, JobShape DEF Typed, JobSteps, Beyond
  <2>2. job' # job
    BY <1>5
  <2>3. JobSetsCurrent
    BY <2>1, <2>2, <1>1, <1>2, JobSetsLastDoes, JobSavesDoes, JobRemovesDoes, JobAddsDoes, FetchDoes
       DEF Next, Trade, Close, Handle, GetLast, GetCurrent, Find, Save, SaveFails, Zadd, Tidy,
         SetCurrent, SetLast, InitJob, AskVolume, Query, ReadSet, Answer, Crash, Expire
  <2>4. current'.time = Newest(job.rest)
    BY <2>3 DEF JobSetsCurrent
  <2>5. QED
    BY <1>2, <1>3, <2>4
<1>6. QED
  BY <1>4, <1>5

\* Nobody who still has to read the current candle is older than the one that
\* is first and writes it.
LEMMA WriterIsOldest ==
  ASSUME Basics, OrderSound, NEW g \in Handlers, NEW h \in Handlers, SetCurrent(h),
         call[g].step \in {"getLast", "getCurrent"}
  PROVE  call[h].candle.time <= call[g].candle.time
<1> USE DEF Basics
<1>1. First(h) /\ call[h].step = "setCurrent" /\ g # h
  BY SetCurrentDoes
<1>2. call[h].candle.time \in Nat /\ call[g].candle.time \in Nat
  BY NumbersStored
<1>3. CASE call[g].step = "getLast"
  BY <1>1, <1>2, <1>3 DEF OrderSound, Follows
<1>4. CASE call[g].step = "getCurrent"
  <2>1. InLine(queue, g)
    BY <1>4 DEF Typed, Queued, RedisSteps
  <2>2. Precedes(queue, h, g)
    BY <1>1, <2>1, FirstInLine
  <2>3. QED
    BY <1>1, <1>4, <2>2 DEF OrderSound, InTurn
<1>5. QED
  BY <1>3, <1>4

LEMMA NotOlderStays ==
  ASSUME Basics, OrderSound, Clean, Clean', Next, NEW g \in Handlers
  PROVE  NotOlder(g)'
<1> SUFFICES ASSUME call'[g].step \in {"getLast", "getCurrent"}
             PROVE  current'.time <= call'[g].candle.time
  BY DEF NotOlder
<1> USE DEF Basics
<1>1. CASE call'[g] = call[g]
  <2>1. current.time <= call[g].candle.time
    BY <1>1 DEF OrderSound, NotOlder
  <2>2. ASSUME NEW h \in Handlers, SetCurrent(h) PROVE current'.time <= call[g].candle.time
    <3>1. call[h].candle.time <= call[g].candle.time /\ current' = call[h].candle
      BY <1>1, <2>2, WriterIsOldest DEF SetCurrent
    <3>2. QED
      BY <3>1
  <2>3. ASSUME JobSetsCurrent, current = NoCandle PROVE current'.time <= call[g].candle.time
    <3>1. call[g].step = "getLast" /\ InLine(queue, g)
      BY <1>1, <2>3 DEF OrderSound, Unset, Typed, Queued, RedisSteps
    <3>2. Precedes(queue, "init", g) /\ job.step = "setCurrent"
      BY <2>3, <3>1, FirstInLine, JobSetsCurrentDoes, NamesDiffer
    <3>3. Newest(job.rest) <= call[g].candle.time
      BY <3>1, <3>2 DEF OrderSound, JobInTurn
    <3>4. QED
      BY <2>3, <3>3 DEF JobSetsCurrent
  <2>4. QED
    BY <1>1, <2>1, <2>2, <2>3, CleanWrites
<1>2. CASE Begins(g)
  <2>1. current' = current /\ call'[g].candle.time = now
    BY <1>2 DEF Begins, Trade, stores
  <2>2. current.time <= now
    <3>1. current = NoCandle \/ current \in Candle
      BY DEF Typed, Stored
    <3>2. NoCandle.time <= now
      BY NumbersStored DEF NoCandle, None
    <3>3. QED
      BY <3>1, <3>2 DEF VolumesSound, Real
  <2>3. QED
    BY <2>1, <2>2
<1>3. CASE Handle(g)
  <2>1. GetLast(g) /\ call[g].step = "getLast"
    BY <1>3, HandlerSteps DEF Idle
  <2>2. current' = current /\ call'[g].candle = call[g].candle
    BY <1>3, <2>1, HandlerKeeps DEF GetLast, stores
  <2>3. QED
    BY <2>1, <2>2 DEF OrderSound, NotOlder
<1>4. CASE call'[g] = Idle
  BY <1>4 DEF Idle
<1>5. QED
  BY <1>1, <1>2, <1>3, <1>4, WhoActs DEF HandlerActs

LEMMA FinalizesStays ==
  ASSUME Basics, OrderSound, Clean, Clean', Next, NEW g \in Handlers
  PROVE  Finalizes(g)'
<1> SUFFICES ASSUME call'[g].prev # NoCandle, call'[g].step # "setLast"
             PROVE  /\ call'[g].prev.time <= call'[g].candle.time
                    /\ \/ call'[g].prev.time = current'.time
                       \/ call'[g].prev.time < current'.time /\ db'[call'[g].prev.time] # None
  BY DEF Finalizes
<1> USE DEF Basics
<1>1. CASE call'[g] = call[g]
  <2>1. /\ call[g].prev.time <= call[g].candle.time
        /\ \/ call[g].prev.time = current.time
           \/ call[g].prev.time < current.time /\ db[call[g].prev.time] # None
    BY <1>1 DEF OrderSound, Finalizes
  <2>2. current # NoCandle
    BY <1>1 DEF OrderSound, Unset
  <2>3. call[g].prev.time \in Times /\ call[g].prev.time \in Nat
    BY <1>1, NumbersStored
  <2>4. current.time <= current'.time /\ current.time \in Nat /\ current'.time \in Nat
    BY CurrentClimbs
  <2>5. current'.time # current.time => db[current.time] # None /\ current.time \in Times
    BY <2>2, CurrentClimbs
  <2>6. \A c \in Times : db[c] # None => db'[c] # None
    BY MarksAndRowsStay
  <2>7. QED
    BY <1>1, <2>1, <2>3, <2>4, <2>5, <2>6
<1>2. CASE Begins(g)
  BY <1>2 DEF Begins
<1>3. CASE Handle(g)
  <2>0. ~SetCurrent(g)
    BY SetCurrentDoes DEF Moves
  <2>1. CASE call'[g].prev = call[g].prev /\ call[g].step # "setLast"
    <3>1. current' = current /\ call'[g].candle = call[g].candle
      BY <1>3, <2>0, <2>1, HandlerKeeps DEF Handle, GetLast, GetCurrent, Find, Save, SaveFails, Zadd, Tidy,
         SetLast, stores
    <3>2. call[g].prev.time \in Times
      BY <2>1, NumbersStored
    <3>3. QED
      BY <2>1, <3>1, <3>2, MarksAndRowsStay DEF OrderSound, Finalizes
  <2>2. CASE GetCurrent(g) /\ call[g].step = "getCurrent" /\ call'[g].prev = current
    <3>1. current' = current /\ call'[g].candle = call[g].candle
      BY <1>3, <2>2, HandlerKeeps, SetLastDoes DEF GetCurrent, stores
    <3>2. QED
      BY <2>2, <3>1 DEF OrderSound, NotOlder
  <2>3. QED
    BY <1>3, <2>1, <2>2, HandlerSteps DEF Idle, DbSteps
<1>4. CASE call'[g] = Idle
  BY <1>4 DEF Idle
<1>5. QED
  BY <1>1, <1>2, <1>3, <1>4, WhoActs DEF HandlerActs

LEMMA FollowsStays ==
  ASSUME Basics, OrderSound, Next, NEW g \in Handlers, NEW h \in Handlers
  PROVE  Follows(g, h)'
<1> SUFFICES ASSUME call'[h].step = "getLast", call'[h].candle.time < call'[g].candle.time
             PROVE  call'[g].step = "getLast"
  BY DEF Follows
<1> USE DEF Basics
<1>1. ASSUME call'[h] = call[h], call'[g] = call[g] PROVE call'[g].step = "getLast"
  BY <1>1 DEF OrderSound, Follows
<1>2. ASSUME NEW x \in Handlers, HandlerActs(x) PROVE call'[g].step = "getLast"
  <2>1. CASE g # x /\ h # x
    BY <1>1, <1>2, <2>1 DEF HandlerActs
  <2>2. CASE g = x /\ Begins(x)
    BY <2>2 DEF Begins
  <2>3. CASE h = x /\ g # x /\ Begins(x)
    <3>1. call'[g] = call[g] /\ call'[h].candle.time = now
      BY <1>2, <2>3 DEF HandlerActs, Begins
    <3>2. call[g].candle = NoCandle \/ call[g].candle \in Candle
      BY CallShape DEF Typed
    <3>3. call[g].candle.time <= now
      BY <3>2, NumbersStored, TimesAreNumbers DEF VolumesSound, Real, None
    <3>4. call[g].candle.time \in Nat /\ now \in Nat
      BY NumbersStored
    <3>5. QED
      BY <3>1, <3>3, <3>4
  <2>4. CASE h = x /\ Handle(x)
    <3>1. call'[x].step # "getLast"
      BY <2>4, HandlerSteps DEF Idle
    <3>2. QED
      BY <2>4, <3>1
  <2>5. CASE g = x /\ h # x /\ Handle(x)
    <3>1. call'[h] = call[h] /\ call[h].candle.time \in Nat
      BY <2>5, HandlerKeeps, NumbersStored
    <3>2. call'[g] # Idle
      BY <3>1, CandleTrackerAssumption DEF Idle, NoCandle, None
    <3>3. call'[g].candle = call[g].candle
      BY <2>5, <3>2, HandlerKeeps
    <3>4. call[g].step = "getLast"
      BY <3>1, <3>3 DEF OrderSound, Follows
    <3>5. GetLast(g) /\ First(g)
      BY <2>5, <3>4, HandlerSteps, GetLastDoes DEF DbSteps
    <3>6. InLine(queue, h)
      BY <3>1 DEF Typed, Queued, RedisSteps
    <3>7. Precedes(queue, g, h)
      BY <2>5, <3>5, <3>6, FirstInLine
    <3>8. call[g].candle.time <= call[h].candle.time
      BY <3>1, <3>4, <3>7 DEF OrderSound, InTurn
    <3>9. call[g].candle.time \in Nat
      BY NumbersStored
    <3>10. QED
      BY <3>1, <3>3, <3>8, <3>9
  <2>6. QED
    BY <1>2, <2>1, <2>2, <2>3, <2>4, <2>5 DEF HandlerActs
<1>3. ASSUME \A x \in Handlers : call'[x] = Idle PROVE call'[g].step = "getLast"
  BY <1>3 DEF Idle
<1>4. QED
  BY <1>1, <1>2, <1>3, WhoActs

LEMMA InTurnStays ==
  ASSUME Basics, OrderSound, Clean, Next, NEW g \in Handlers, NEW h \in Handlers,
         Precedes(queue', g, h)
  PROVE  InTurn(g, h)'
<1> USE DEF Basics
<1>0. g # "init" /\ g # "query" /\ h # "init" /\ h # "query"
  BY NamesDiffer
<1>1. ASSUME Precedes(queue, g, h), call'[g] = call[g], call'[h] = call[h] PROVE InTurn(g, h)'
  BY <1>1 DEF OrderSound, InTurn, Zadds
<1>2. ASSUME NEW x \in Handlers, HandlerActs(x) PROVE InTurn(g, h)'
  <2>1. g # x /\ call'[g] = call[g] /\ (IF h = x THEN InLine(queue, g) ELSE Precedes(queue, g, h))
    BY <1>2 DEF HandlerActs, Reorders
  <2>2. CASE h # x
    BY <1>1, <1>2, <2>1, <2>2 DEF HandlerActs
  <2>3. CASE h = x /\ Begins(x)
    <3>1. call'[h].step = "getLast" /\ call'[h].candle.time = now
      BY <2>3 DEF Begins
    <3>2. call[g].candle = NoCandle \/ call[g].candle \in Candle
      BY CallShape DEF Typed
    <3>3. call[g].candle.time <= now
      BY <3>2, NumbersStored, TimesAreNumbers DEF VolumesSound, Real, None
    <3>4. QED
      BY <2>1, <3>1, <3>3 DEF InTurn, Zadds
  <2>4. CASE h = x /\ Handle(x)
    <3>1. call'[h].step # "getLast"
      BY <2>4, HandlerSteps DEF Idle
    <3>2. ASSUME call'[g].step = "setCurrent", call'[h].step = "getCurrent"
          PROVE  call'[g].candle.time <= call'[h].candle.time
      <4>1. call[h].step = "getLast" /\ GetLast(h)
        BY <2>4, <3>2, HandlerSteps DEF Idle
      <4>2. call'[h].candle = call[h].candle
        BY <2>4, <4>1, HandlerKeeps
      <4>3. call[g].candle.time \in Nat /\ call[h].candle.time \in Nat
        BY NumbersStored
      <4>4. ~(call[h].candle.time < call[g].candle.time)
        BY <2>1, <3>2, <4>1 DEF OrderSound, Follows
      <4>5. QED
        BY <2>1, <4>2, <4>3, <4>4
    <3>3. ASSUME call'[g].step = "setCurrent", call'[g].prev # NoCandle, Zadds(h, call[g].prev.time)'
          PROVE  FALSE
      <4>1. Save(h) /\ db[call[h].prev.time] = None /\ call'[h].prev = call[h].prev
        BY <2>4, <3>3, HandlerSteps DEF Zadds, Idle
      <4>2. call'[h].prev.time = call'[g].prev.time
        BY <3>3 DEF Zadds
      <4>3. call[g].prev.time \in Times
        BY <2>1, <3>3, NumbersStored
      <4>4. db[call[g].prev.time] # None
        BY <2>1, <3>3, <4>3 DEF LostSound, Finalized, Clean
      <4>5. QED
        BY <2>1, <4>1, <4>2, <4>4
    <3>4. QED
      BY <2>1, <3>1, <3>2, <3>3 DEF InTurn, Zadds
  <2>5. QED
    BY <1>2, <2>2, <2>3, <2>4 DEF HandlerActs
<1>3. CASE call' = call /\ (Reorders("init") \/ Reorders("query"))
  BY <1>0, <1>1, <1>3 DEF Reorders
<1>4. CASE call' = call /\ queue' = queue
  BY <1>1, <1>4
<1>5. CASE queue' = <<>>
  BY <1>5 DEF Precedes
<1>6. QED
  BY <1>2, <1>3, <1>4, <1>5, WhoActs

LEMMA JobInTurnStays ==
  ASSUME Basics, OrderSound, Next, NEW h \in Handlers
  PROVE  JobInTurn(h)'
<1> SUFFICES ASSUME job'.step = "setCurrent", Precedes(queue', "init", h), call'[h].step = "getLast"
             PROVE  Newest(job'.rest) <= call'[h].candle.time
  BY DEF JobInTurn
<1> USE DEF Basics
<1>0. h # "init" /\ h # "query" /\ "init" \notin Handlers
  BY NamesDiffer
<1>1. ASSUME Precedes(queue, "init", h), call'[h] = call[h], job' = job
      PROVE  Newest(job'.rest) <= call'[h].candle.time
  BY <1>1 DEF OrderSound, JobInTurn
<1>2. ASSUME NEW x \in Handlers, HandlerActs(x) PROVE Newest(job'.rest) <= call'[h].candle.time
  <2>1. CASE h # x
    BY <1>1, <1>2, <2>1 DEF HandlerActs, Reorders
  <2>2. CASE h = x /\ Begins(x)
    <3>1. job' = job /\ job # NoJob /\ call'[h].candle.time = now
      BY <1>2, <2>2 DEF HandlerActs, Begins, NoJob
    <3>2. QED
      BY <3>1, JobIsPast
  <2>3. CASE h = x /\ Handle(x)
    <3>1. call'[h].step # "getLast"
      BY <2>3, HandlerSteps DEF Idle
    <3>2. QED
      BY <3>1
  <2>4. QED
    BY <1>2, <2>1, <2>2, <2>3 DEF HandlerActs
<1>3. CASE Reorders("init")
  BY <1>3 DEF Reorders
<1>4. CASE call' = call /\ job' = job /\ (Reorders("query") \/ queue' = queue)
  BY <1>0, <1>1, <1>4 DEF Reorders
<1>5. CASE queue' = <<>>
  BY <1>5 DEF Precedes
<1>6. QED
  BY <1>2, <1>3, <1>4, <1>5, WhoActs

LEMMA OrderStays ==
  ASSUME Basics, OrderSound, Clean, Clean', Next
  PROVE  OrderSound'
<1>1. RowsBehind' /\ Unset' /\ JobBehind'
  BY RowsBehindStays, UnsetStays, JobBehindStays
<1>2. \A h \in Handlers : NotOlder(h)' /\ Finalizes(h)' /\ JobInTurn(h)'
  BY NotOlderStays, FinalizesStays, JobInTurnStays
<1>3. \A g, h \in Handlers : Follows(g, h)'
  BY FollowsStays
<1>4. \A g, h \in Handlers : Precedes(queue', g, h) => InTurn(g, h)'
  BY InTurnStays
<1>5. QED
  BY <1>1, <1>2, <1>3, <1>4 DEF OrderSound

-----------------------------------------------------------------------------
(* The set and the rows agree                                               *)

LEMMA NoRoom ==
  ASSUME Basics, Clean, NEW c \in Times
  PROVE  /\ Len(finalized[c]) \in Nat /\ Len(finalized[c]) <= 1
         /\ \A h \in Handlers : Zadds(h, c) => Len(finalized[c]) = 0
<1>1. Room(c) = 1
  BY DEF Room, Clean
<1>2. Len(finalized[c]) \in Nat
  BY DEF Basics, Typed, Stored
<1>3. QED
  BY <1>1, <1>2 DEF Basics, SetSound

\* Only a handler adds to the set, and only the current candle.
LEMMA SetFlow ==
  ASSUME Basics, OrderSound, SetIsRight, Clean, Clean', Next
  PROVE  \/ finalized' = finalized
         \/ \E h \in Handlers :
              /\ Zadd(h) /\ call[h].step = "zadd" /\ call[h].prev.time = current.time
              /\ finalized' = [finalized EXCEPT ![current.time] = Append(@, call[h].prev.volume)]
<1> USE DEF Basics
<1>1. ASSUME NEW h \in Handlers, Zadd(h)
      PROVE  /\ call[h].step = "zadd" /\ call[h].prev.time = current.time
             /\ finalized' = [finalized EXCEPT ![current.time] = Append(@, call[h].prev.volume)]
  <2>1. call[h].step = "zadd" /\ call[h].prev.time = current.time
    BY <1>1, ZaddDoes DEF SetIsRight, AddsCurrent
  <2>2. finalized' = [finalized EXCEPT ![call[h].prev.time] = Append(@, call[h].prev.volume)]
    BY <1>1 DEF Zadd
  <2>3. QED
    BY <2>1, <2>2
<1>2. ASSUME JobRemoves PROVE finalized' = finalized
  <2> DEFINE gone == {c \in Times : \E d, e \in Closed(job.rest) : d <= c /\ c <= e}
  <2>1. /\ gone \subseteq refilled'
        /\ finalized' = [c \in Times |-> IF c \in gone THEN <<>> ELSE finalized[c]]
    BY <1>2 DEF JobRemoves
  <2> HIDE DEF gone
  <2>2. gone = {}
    BY <2>1 DEF Clean
  <2>3. QED
    BY <2>1, <2>2 DEF Typed, Stored
<1>3. ASSUME JobAdds PROVE finalized' = finalized
  <2>1. Closed(job.rest) = {}
    BY <1>3, JobAddsDoes DEF SetSound, Clean
  <2>2. QED
    BY <1>3, <2>1 DEF JobAdds, Typed, Stored
<1>4. ~Expire
  BY CleanWrites
<1>5. QED
  BY <1>1, <1>2, <1>3, <1>4
     DEF Next, Trade, Close, Handle, GetLast, GetCurrent, Find, Save, SaveFails, Tidy, SetCurrent,
         SetLast, Fetch, InitJob, JobSetsCurrent, JobSetsLast, JobSaves, AskVolume, Query, ReadSet,
         Answer, Crash, stores

\* When another candle becomes current, the one before is in the set, and
\* nobody is about to add one.
LEMMA MovesOn ==
  ASSUME Basics, OrderSound, SetIsRight, Clean, Clean', Next, current'.time # current.time
  PROVE  /\ \A h \in Handlers : call[h].step # "zadd"
         /\ current # NoCandle => current.time \in Times /\ Len(finalized[current.time]) = 1
         /\ finalized' = finalized /\ db' = db
<1> USE DEF Basics
<1>1. ASSUME current = NoCandle PROVE \A h \in Handlers : call[h].step # "zadd"
  BY <1>1 DEF OrderSound, Unset
<1>2. ASSUME current # NoCandle
      PROVE  /\ \A h \in Handlers : call[h].step # "zadd"
             /\ current.time \in Times /\ Len(finalized[current.time]) = 1
  <2>1. PICK g \in Handlers : SetCurrent(g) /\ current = call[g].prev
    BY <1>2, CurrentClimbs
  <2>2. current.time \in Times /\ db[current.time] # None
    BY <1>2, CurrentClimbs
  <2>3. First(g) /\ call[g].step = "setCurrent"
    BY <2>1, SetCurrentDoes
  <2>4. ASSUME NEW h \in Handlers, call[h].step = "zadd" PROVE FALSE
    <3>1. Zadds(h, call[g].prev.time)
      BY <2>1, <2>4 DEF SetIsRight, AddsCurrent, Zadds
    <3>2. InLine(queue, h) /\ g # h
      BY <2>3, <2>4 DEF Typed, Queued, RedisSteps
    <3>3. Precedes(queue, g, h)
      BY <2>3, <3>2, FirstInLine
    <3>4. QED
      BY <1>2, <2>1, <2>3, <3>1, <3>3 DEF OrderSound, InTurn
  <2>5. Len(finalized[current.time]) = 1
    BY <2>2, <2>4 DEF SetIsRight, CurrentInSet, Zadds
  <2>6. QED
    BY <2>2, <2>4, <2>5
<1>3. \A h \in Handlers : call[h].step # "zadd"
  BY <1>1, <1>2
<1>4. finalized' = finalized
  BY <1>3, SetFlow
<1>5. db' = db
  <2>1. (\E h \in Handlers : SetCurrent(h)) \/ JobSetsCurrent
    BY CleanWrites
  <2>2. QED
    BY <2>1 DEF SetCurrent, JobSetsCurrent
<1>6. QED
  BY <1>1, <1>2, <1>3, <1>4, <1>5

LEMMA SetKept ==
  ASSUME Basics, OrderSound, SetIsRight, Clean, Clean', Next,
         NEW c \in Times, c # current.time \/ current'.time # current.time,
         Len(finalized[c]) = 1 \/ c = current.time
  PROVE  Len(finalized'[c]) = 1
<1> USE DEF Basics
<1>1. CASE c = current.time /\ current'.time # current.time
  <2>1. current # NoCandle
    BY <1>1, TimesAreNumbers
  <2>2. QED
    BY <1>1, <2>1, MovesOn
<1>2. CASE c # current.time
  <2>1. finalized'[c] = finalized[c]
    BY <1>2, SetFlow DEF Typed, Stored
  <2>2. QED
    BY <1>2, <2>1
<1>3. QED
  BY <1>1, <1>2

LEMMA AddsCurrentStays ==
  ASSUME Basics, OrderSound, SetIsRight, Clean, Clean', Next, NEW h \in Handlers
  PROVE  AddsCurrent(h)'
<1> SUFFICES ASSUME call'[h].step = "zadd" PROVE call'[h].prev.time = current'.time
  BY DEF AddsCurrent
<1> USE DEF Basics
<1>1. CASE call'[h] = call[h]
  BY <1>1, MovesOn DEF SetIsRight, AddsCurrent
<1>2. CASE Begins(h)
  BY <1>2 DEF Begins
<1>3. CASE Handle(h)
  <2>1. Save(h) /\ call[h].step = "save" /\ db[call[h].prev.time] = None /\ call'[h].prev = call[h].prev
    BY <1>3, HandlerSteps DEF Idle
  <2>2. call[h].prev # NoCandle
    BY <2>1, TimesAreNumbers DEF Typed, Busy
  <2>3. call[h].prev.time = current.time
    BY <2>1, <2>2 DEF OrderSound, Finalizes
  <2>4. current' = current
    BY <2>1 DEF Save
  <2>5. QED
    BY <2>1, <2>3, <2>4
<1>4. CASE call'[h] = Idle
  BY <1>4 DEF Idle
<1>5. QED
  BY <1>1, <1>2, <1>3, <1>4, WhoActs DEF HandlerActs

LEMMA CurrentInSetStays ==
  ASSUME Basics, OrderSound, SetIsRight, Clean, Clean', Next, NEW c \in Times
  PROVE  CurrentInSet(c)'
<1> SUFFICES ASSUME c = current'.time, db'[c] # None
             PROVE  Len(finalized'[c]) = 1 \/ \E h \in Handlers : Zadds(h, c)'
  BY DEF CurrentInSet
<1> USE DEF Basics
<1>1. current.time <= current'.time /\ current.time \in Nat /\ current'.time \in Nat
  BY CurrentClimbs
<1>2. CASE current'.time # current.time
  <2>1. db[c] # None
    BY <1>2, MovesOn
  <2>2. QED
    BY <1>1, <1>2, <2>1 DEF OrderSound, RowsBehind
<1>3. CASE c = current.time /\ db[c] = None
  <2>1. ASSUME NEW h \in Handlers, Save(h), db' = [db EXCEPT ![call[h].prev.time] = call[h].prev.volume]
        PROVE  Zadds(h, c)'
    <3>1. c = call[h].prev.time
      BY <1>3, <2>1 DEF Typed, Stored
    <3>2. call'[h].step = "zadd" /\ call'[h].prev = call[h].prev
      BY <2>1, SaveDoes DEF Moves
    <3>3. QED
      BY <3>1, <3>2 DEF Zadds
  <2>2. ASSUME JobSaves, db' = [d \in Times |-> IF d \in Closed(job.rest) THEN job.rest[d] ELSE db[d]]
        PROVE  FALSE
    <3>1. job # NoJob /\ Newest(job.rest) <= current.time
      BY <2>2, JobSavesDoes, JobShape DEF OrderSound, JobBehind, Beyond, Typed
    <3>2. c \in Closed(job.rest)
      BY <1>3, <2>2
    <3>3. c < Newest(job.rest) /\ Newest(job.rest) \in Nat
      BY <3>1, <3>2, JobIsPast, TimesAreNumbers
    <3>4. QED
      BY <1>1, <1>3, <3>1, <3>3
  <2>3. QED
    BY <1>3, <2>1, <2>2, StoresFlow
<1>4. CASE c = current.time /\ db[c] # None
  <2>1. ASSUME NEW h \in Handlers, Zadd(h),
               finalized' = [finalized EXCEPT ![current.time] = Append(@, call[h].prev.volume)],
               call[h].step = "zadd", call[h].prev.time = current.time
        PROVE  Len(finalized'[c]) = 1
    <3>1. Len(finalized[c]) = 0
      BY <1>4, <2>1, NoRoom DEF Zadds
    <3>2. finalized'[c] = Append(finalized[c], call[h].prev.volume) /\ finalized[c] \in Seq(Volumes)
      BY <1>4, <2>1 DEF Typed, Stored
    <3>3. QED
      BY <3>1, <3>2
  <2>2. ASSUME finalized' = finalized, ~Crash
        PROVE  Len(finalized'[c]) = 1 \/ \E h \in Handlers : Zadds(h, c)'
    <3>1. CASE Len(finalized[c]) = 1
      BY <2>2, <3>1
    <3>2. ASSUME NEW h \in Handlers, Zadds(h, c) PROVE Zadds(h, c)'
      <4>1. CASE call'[h] = call[h]
        BY <3>2, <4>1 DEF Zadds
      <4>2. CASE Handle(h)
        <5>1. Zadd(h)
          BY <3>2, <4>2, HandlerSteps DEF Zadds, DbSteps
        <5>2. finalized'[c] = Append(finalized[c], call[h].prev.volume) /\ finalized[c] \in Seq(Volumes)
          BY <3>2, <5>1 DEF Zadd, Zadds, Typed, Stored
        <5>3. Len(finalized'[c]) = Len(finalized[c]) + 1 /\ Len(finalized[c]) \in Nat
          BY <5>2
        <5>4. QED
          BY <2>2, <5>3
      <4>3. CASE Begins(h)
        BY <3>2, <4>3 DEF Begins, Zadds
      <4>4. QED
        BY <2>2, <4>1, <4>2, <4>3, WhoActs DEF HandlerActs
    <3>3. QED
      BY <1>4, <3>1, <3>2 DEF SetIsRight, CurrentInSet
  <2>3. ASSUME Crash PROVE Len(finalized'[c]) = 1
    <3>1. \A h \in Handlers : call[h].step = "idle"
      BY <2>3, CleanWrites
    <3>2. finalized' = finalized
      BY <2>3 DEF Crash, stores
    <3>3. QED
      BY <1>4, <3>1, <3>2 DEF SetIsRight, CurrentInSet, Zadds
  <2>4. QED
    BY <2>1, <2>2, <2>3, SetFlow
<1>5. QED
  BY <1>2, <1>3, <1>4

LEMMA OtherInSetStays ==
  ASSUME Basics, OrderSound, SetIsRight, Clean, Clean', Next, NEW c \in Times
  PROVE  OtherInSet(c)'
<1> SUFFICES ASSUME heard'[c] > 0, c # current'.time,
                    \A h \in Handlers : call'[h].candle.time = c => call'[h].step = "setLast"
             PROVE  Len(finalized'[c]) = 1
  BY DEF OtherInSet
<1> USE DEF Basics
<1>1. CASE c = current.time
  BY <1>1, SetKept
<1>2. CASE c # current.time /\ heard[c] > 0
  <2>1. ASSUME NEW h \in Handlers, call[h].candle.time = c PROVE call[h].step = "setLast"
    <3>1. CASE call'[h] = call[h]
      BY <2>1, <3>1
    <3>2. CASE Handle(h)
      <4>1. CASE SetCurrent(h)
        BY <2>1, <4>1 DEF SetCurrent
      <4>2. CASE ~SetCurrent(h)
        BY <2>1, <3>2, <4>2, HandlerKeeps
      <4>3. QED
        BY <4>1, <4>2
    <3>3. CASE call[h].step = "idle"
      BY <2>1, <3>3, CallShape, TimesAreNumbers DEF Typed
    <3>4. QED
      BY <3>1, <3>2, <3>3, WhoActs, CleanWrites DEF HandlerActs, Begins
  <2>2. Len(finalized[c]) = 1
    BY <1>2, <2>1 DEF SetIsRight, OtherInSet
  <2>3. QED
    BY <1>2, <2>2, SetKept
<1>3. CASE ~(heard[c] > 0)
  <2>1. Trade /\ heard' # heard
    BY <1>3, StoresFlow
  <2>2. PICK h \in Handlers : /\ call'[h].step = "getLast"
                              /\ call'[h].candle = [time |-> now, volume |-> traded[now] + 1]
                              /\ heard' = [heard EXCEPT ![now] = traded[now] + 1]
    BY <2>1, TradeDoes
  <2>3. c = now
    BY <1>3, <2>2 DEF Typed, Stored
  <2>4. QED
    BY <2>2, <2>3
<1>4. QED
  BY <1>1, <1>2, <1>3

LEMMA SetStaysRight ==
  ASSUME Basics, OrderSound, SetIsRight, Clean, Clean', Next
  PROVE  SetIsRight'
BY AddsCurrentStays, CurrentInSetStays, OtherInSetStays DEF SetIsRight

-----------------------------------------------------------------------------
(* What a query counts                                                      *)

\* While a query is in line, it stays the same but for its own steps.
LEMMA AskFlow ==
  ASSUME Typed, Next, ask'.step \in AskSteps
  PROVE  AskVolume \/ ReadSet \/ (ask' = ask /\ ~Query /\ ~AskVolume)
<1>1. ask'.step \notin {"idle", "done"}
  BY DEF AskSteps
<1>2. ASSUME NEW x \in Handlers, HandlerActs(x) PROVE ask' = ask
  BY <1>2 DEF HandlerActs
<1>3. ~Answer /\ ~Crash
  BY <1>1, AnswerDoes DEF AskMoves, Crash, NoAsk
<1>4. QED
  BY <1>3 DEF Next, Trade, Close, Handle, GetLast, GetCurrent, Find, Save, SaveFails, Zadd, Tidy,
     SetCurrent, SetLast, Fetch, InitJob, JobSetsCurrent, JobSetsLast, JobSaves, JobRemoves, JobAdds,
     Query, Expire

LEMMA QueryAlone ==
  ASSUME Typed, AskIsRight, Next, ask'.step \in AskSteps
  PROVE  job' = NoJob
<1>1. CASE AskVolume
  BY <1>1, AskVolumeDoes DEF AskVolume
<1>2. CASE ReadSet
  BY <1>2, ReadSetDoes DEF ReadSet, AskIsRight, AskSteps
<1>3. CASE ask' = ask
  <2>1. job = NoJob /\ ~Fetch
    BY <1>3, FetchDoes DEF AskIsRight
  <2>2. QED
    BY <2>1, JobFlow, JobShape DEF Typed
<1>4. QED
  BY <1>1, <1>2, <1>3, AskFlow

\* A handler that acts while the query is in line stands before it if it is the
\* first, and after it from then on.
LEMMA BesideQuery ==
  ASSUME Basics, Next, ask' = ask, ask.step \in AskSteps, ~Query, ~AskVolume, NEW h \in Handlers,
         call'[h].candle.time \in Times
  PROVE  \/ call'[h] = call[h] /\ (Precedes(queue', h, "query") => Precedes(queue, h, "query"))
         \/ Begins(h) /\ ~Precedes(queue', h, "query")
         \/ /\ Handle(h) /\ ~Precedes(queue', h, "query")
            /\ call'[h].candle = call[h].candle
            /\ call[h].step \in RedisSteps => Precedes(queue, h, "query")
<1> USE DEF Basics
<1>0. InLine(queue, "query") /\ h # "query" /\ h # "init"
  BY NamesDiffer DEF Typed, Queued
<1>1. call'[h] # Idle
  BY TimesAreNumbers DEF Idle
<1>2. ASSUME NEW x \in Handlers, HandlerActs(x), h # x
      PROVE  call'[h] = call[h] /\ (Precedes(queue', h, "query") => Precedes(queue, h, "query"))
  BY <1>2, NamesDiffer DEF HandlerActs, Reorders
<1>3. ASSUME HandlerActs(h), Begins(h)
      PROVE  Begins(h) /\ ~Precedes(queue', h, "query")
  BY <1>3 DEF HandlerActs, Reorders
<1>4. ASSUME HandlerActs(h), Handle(h)
      PROVE  /\ Handle(h) /\ ~Precedes(queue', h, "query")
             /\ call'[h].candle = call[h].candle
             /\ call[h].step \in RedisSteps => Precedes(queue, h, "query")
  <2>1. ~Precedes(queue', h, "query") /\ call'[h].candle = call[h].candle
    BY <1>1, <1>4, HandlerKeeps DEF HandlerActs, Reorders
  <2>2. call[h].step \in RedisSteps => First(h)
    BY <1>1, <1>4, HandlerSteps, GetLastDoes, GetCurrentDoes, ZaddDoes, TidyDoes, SetCurrentDoes
       DEF RedisSteps, DbSteps
  <2>3. QED
    BY <1>0, <1>4, <2>1, <2>2, FirstInLine
<1>5. CASE call' = call /\ Reorders("init")
  BY <1>0, <1>5, NamesDiffer DEF Reorders
<1>6. CASE UNCHANGED <<queue, call, job, ask>>
  BY <1>6
<1>7. QED
  BY <1>1, <1>2, <1>3, <1>4, <1>5, <1>6, WhoActs DEF HandlerActs

LEMMA RangingStays ==
  ASSUME Basics, OrderSound, SetIsRight, AskIsRight, Clean, Clean', Next, ask'.step = "range"
  PROVE  Ranging'
<1> USE DEF Basics
<1>1. CASE AskVolume
  <2>1. /\ call' = call /\ current' = current /\ finalized' = finalized
        /\ \A c \in ask'.known : /\ c \in Times /\ heard[c] > 0
                                 /\ \A h \in Handlers : call[h].candle.time # c
    BY <1>1, AskVolumeDoes DEF AskVolume, stores
  <2>2. \A c \in ask'.known : c # current.time => Len(finalized[c]) = 1
    BY <2>1 DEF SetIsRight, OtherInSet
  <2>3. QED
    BY <2>1, <2>2 DEF Ranging
<1>2. CASE ask' = ask /\ ~Query /\ ~AskVolume
  <2>0. Ranging /\ ask.step = "range" /\ ask.step \in AskSteps /\ ask.known \subseteq Times
    BY <1>2, AskShape DEF AskIsRight, AskSteps, Typed
  <2>1. ASSUME NEW c \in ask.known, c # current'.time PROVE Len(finalized'[c]) = 1
    BY <2>0, <2>1, SetKept DEF Ranging
  <2>2. ASSUME NEW h \in Handlers, call'[h].candle.time \in ask.known
        PROVE  call'[h].step = "getLast" /\ ~Precedes(queue', h, "query")
    <3>1. CASE call'[h] = call[h] /\ (Precedes(queue', h, "query") => Precedes(queue, h, "query"))
      BY <2>0, <2>2, <3>1 DEF Ranging
    <3>2. CASE Begins(h) /\ ~Precedes(queue', h, "query")
      BY <3>2 DEF Begins
    <3>3. CASE /\ Handle(h) /\ call'[h].candle = call[h].candle
               /\ call[h].step \in RedisSteps => Precedes(queue, h, "query")
      BY <2>0, <2>2, <3>3 DEF Ranging, RedisSteps
    <3>4. QED
      BY <1>2, <2>0, <2>2, <3>1, <3>2, <3>3, BesideQuery
  <2>3. QED
    BY <1>2, <2>1, <2>2 DEF Ranging
<1>3. QED
  BY <1>1, <1>2, AskFlow, ReadSetDoes DEF AskSteps, AskMoves

LEMMA GettingStays ==
  ASSUME Basics, OrderSound, SetIsRight, AskIsRight, Clean, Clean', Next, ask'.step = "get"
  PROVE  Getting'
<1> USE DEF Basics
<1>1. CASE ReadSet
  <2>1. /\ Ranging /\ ask.known \subseteq ask.of /\ ask.known \subseteq Times
        /\ ask'.known = ask.known
        /\ ask'.count = [c \in Times |-> IF c \in ask.of THEN Len(finalized[c]) ELSE 0]
        /\ call' = call /\ current' = current
    BY <1>1, ReadSetDoes, AskShape DEF AskIsRight, AskMoves, ReadSet, stores, Typed
  <2>2. \A c \in ask.known : c # current.time => ask'.count[c] = 1
    BY <2>1 DEF Ranging
  <2>3. \E a \in Times : a = current.time \/ current.time \notin Times
    BY NumbersStored DEF Typed, Stored
  <2>4. \E a \in Times : \A c \in ask.known \ {a} : ask'.count[c] = 1 /\ c # current.time
    BY <2>1, <2>2, <2>3
  <2>5. QED
    BY <2>1, <2>4 DEF Getting, Ranging
<1>2. CASE ask' = ask /\ ~Query /\ ~AskVolume
  <2>0. /\ Getting /\ ask.step = "get" /\ ask.step \in AskSteps /\ ask.known \subseteq Times
        /\ job = NoJob /\ InLine(queue, "query")
    BY <1>2, AskShape DEF AskIsRight, AskSteps, Typed, Queued
  <2>1. ASSUME current'.time # current.time PROVE current'.time \notin ask.known
    <3>1. ~JobSetsCurrent
      BY <2>0, JobSetsCurrentDoes DEF NoJob
    <3>2. PICK g \in Handlers : SetCurrent(g) /\ current' = call[g].candle
      BY <2>1, <3>1, CleanWrites
    <3>3. First(g) /\ call[g].step = "setCurrent" /\ g # "query"
      BY <3>2, SetCurrentDoes, NamesDiffer
    <3>4. Precedes(queue, g, "query")
      BY <2>0, <3>3, FirstInLine
    <3>5. QED
      BY <2>0, <3>2, <3>3, <3>4 DEF Getting
  <2>2. PICK a \in Times : \A c \in ask.known \ {a} : ask.count[c] = 1 /\ c # current.time
    BY <2>0 DEF Getting
  <2>3. \A c \in ask.known \ {a} : ask.count[c] = 1 /\ c # current'.time
    BY <2>1, <2>2
  <2>4. ASSUME NEW h \in Handlers, call'[h].candle.time \in ask.known
        PROVE  /\ call'[h].step \in {"getLast", "getCurrent", "setCurrent"}
               /\ Precedes(queue', h, "query") => call'[h].step = "getLast"
    <3>1. CASE call'[h] = call[h] /\ (Precedes(queue', h, "query") => Precedes(queue, h, "query"))
      BY <2>0, <2>4, <3>1 DEF Getting
    <3>2. CASE Begins(h)
      BY <3>2 DEF Begins
    <3>3. CASE /\ Handle(h) /\ ~Precedes(queue', h, "query") /\ call'[h].candle = call[h].candle
               /\ call[h].step \in RedisSteps => Precedes(queue, h, "query")
      <4>1. call[h].step = "getLast"
        BY <2>0, <2>4, <3>3 DEF Getting, RedisSteps
      <4>2. call'[h].step \in {"getCurrent", "setCurrent"}
        BY <3>3, <4>1, HandlerSteps DEF DbSteps
      <4>3. QED
        BY <3>3, <4>2
    <3>4. QED
      BY <1>2, <2>0, <2>4, <3>1, <3>2, <3>3, BesideQuery
  <2>5. QED
    BY <1>2, <2>3, <2>4 DEF Getting
<1>3. QED
  BY <1>1, <1>2, AskFlow, AskVolumeDoes DEF AskSteps

LEMMA AnsweredStays ==
  ASSUME Basics, AskIsRight, Next, ask'.step = "done"
  PROVE  Answered'
<1> USE DEF Basics
<1>1. CASE Answer
  <2>1. /\ Getting /\ ask.known \subseteq Times /\ ask'.known = ask.known
        /\ ask'.count = [c \in Times |-> IF c = current.time /\ c \in ask.of
                                          THEN ask.count[c] + 1 ELSE ask.count[c]]
    BY <1>1, AnswerDoes, AskShape DEF AskIsRight, AskMoves, Typed
  <2>2. PICK a \in Times : \A c \in ask.known \ {a} : ask.count[c] = 1 /\ c # current.time
    BY <2>1 DEF Getting
  <2>3. \A c \in ask'.known \ {a} : ask'.count[c] = 1
    BY <2>1, <2>2
  <2>4. QED
    BY <2>3 DEF Answered
<1>2. CASE ask' = ask
  BY <1>2 DEF AskIsRight, Answered
<1>3. CASE AskVolume \/ ReadSet
  BY <1>3, AskVolumeDoes, ReadSetDoes DEF AskMoves
<1>4. CASE ask' = NoAsk
  BY <1>4 DEF NoAsk
<1>5. QED
  BY <1>1, <1>2, <1>3, <1>4, WhoActs DEF HandlerActs, Query

LEMMA AskStaysRight ==
  ASSUME Basics, OrderSound, SetIsRight, AskIsRight, Clean, Clean', Next
  PROVE  AskIsRight'
<1> USE DEF Basics
<1>1. ask'.known \subseteq ask'.of
  <2>1. CASE ask' = ask
    BY <2>1 DEF AskIsRight
  <2>2. CASE AskVolume
    BY <2>2, AskVolumeDoes
  <2>3. CASE ReadSet \/ Answer
    BY <2>3, ReadSetDoes, AnswerDoes DEF AskMoves, AskIsRight
  <2>4. CASE ask' = NoAsk
    BY <2>4 DEF NoAsk
  <2>5. QED
    BY <2>1, <2>2, <2>3, <2>4, WhoActs DEF HandlerActs, Query
<1>2. ask'.step \in AskSteps => job' = NoJob
  BY QueryAlone
<1>3. QED
  BY <1>1, <1>2, RangingStays, GettingStays, AnsweredStays DEF AskIsRight

-----------------------------------------------------------------------------
(* The tracker's invariant                                                  *)

TrackSound == Basics /\ (Clean => OrderSound /\ SetIsRight /\ AskIsRight)

LEMMA TrackSoundInit == Init => TrackSound
<1> SUFFICES ASSUME Init PROVE TrackSound
  OBVIOUS
<1>1. /\ now = 1 /\ traded = [c \in Times |-> 0] /\ heard = [c \in Times |-> 0]
      /\ current = NoCandle /\ lastTime = None
      /\ finalized = [c \in Times |-> <<>>] /\ db = [c \in Times |-> None]
      /\ queue = <<>> /\ job = NoJob /\ jobs = Jobs /\ ask = NoAsk
      /\ disturbed = {} /\ refilled = {}
      /\ call = [h \in Handlers |-> Idle]
  BY DEF Init
<1>2. /\ 1 \in Times /\ 0 \in Volumes /\ None = 0 /\ Times \subseteq Nat /\ NoCandle \notin Candle
      /\ NoCandle.time = 0 /\ 0 \notin Times /\ Jobs \in 0..Jobs
  BY CandleTrackerAssumption, TimesAreNumbers DEF Times, Volumes, None
<1>3. \A h \in Handlers : call[h] = Idle /\ call[h].step = "idle" /\ call[h].candle = NoCandle
                          /\ call[h].prev = NoCandle
  BY <1>1 DEF Idle
<1>4. /\ job.step = "idle" /\ job.rest = [c \in Times |-> 0] /\ ask.step = "idle"
      /\ ask.known = {} /\ ask.of = {}
  BY <1>1 DEF NoJob, NoAsk
<1>5. \A x : ~InLine(queue, x) /\ \A y : ~Precedes(queue, x, y)
  BY <1>1 DEF InLine, Precedes
<1>6. OnePlace(queue)
  BY <1>1 DEF OnePlace
<1>7. Stored
  BY <1>1, <1>2 DEF Stored
<1>8. Queued /\ Busy
  BY <1>1, <1>3, <1>4, <1>5, <1>6 DEF Queued, Busy, RedisSteps, JobSteps, AskSteps
<1>9. VolumesSound
  BY <1>1, <1>2, <1>3, <1>4 DEF VolumesSound
<1>10. \A c \in Times : /\ finalized[c] = <<>> /\ Len(finalized[c]) = 0
                        /\ Room(c) = 1 /\ \A h \in Handlers : ~Zadds(h, c)
  BY <1>1, <1>3 DEF Room, Zadds
<1>11. SetSound
  BY <1>4, <1>10 DEF SetSound
<1>12. LostSound
  BY <1>1, <1>2, <1>3 DEF LostSound, Finalized
<1>13. OrderSound
  BY <1>1, <1>2, <1>3, <1>4, <1>5
     DEF OrderSound, RowsBehind, Unset, JobBehind, Beyond, NotOlder, Finalizes, JobInTurn, Follows
<1>14. SetIsRight
  BY <1>1, <1>2, <1>3 DEF SetIsRight, AddsCurrent, CurrentInSet, OtherInSet
<1>15. AskIsRight
  BY <1>4 DEF AskIsRight, AskSteps
<1>16. QED
  BY <1>7, <1>8, <1>9, <1>11, <1>12, <1>13, <1>14, <1>15 DEF TrackSound, Basics, Typed

LEMMA TrackSoundStays == TrackSound /\ Next => TrackSound'
<1> SUFFICES ASSUME TrackSound, Next PROVE TrackSound'
  OBVIOUS
<1>1. Basics
  BY DEF TrackSound
<1>2. Basics'
  BY <1>1, TypedStays, VolumesStay, SetStays, LostStays DEF Basics
<1>3. ASSUME Clean' PROVE OrderSound' /\ SetIsRight' /\ AskIsRight'
  <2>1. Clean
    BY <1>1, <1>3, MarksAndRowsStay DEF Basics, Clean
  <2>2. OrderSound /\ SetIsRight /\ AskIsRight
    BY <2>1 DEF TrackSound
  <2>3. QED
    BY <1>1, <1>3, <2>1, <2>2, OrderStays, SetStaysRight, AskStaysRight
<1>4. QED
  BY <1>2, <1>3 DEF TrackSound

\* Steps of others leave it.
LEMMA TrackSoundFrame == TrackSound /\ UNCHANGED vars => TrackSound'
<1> SUFFICES ASSUME TrackSound, UNCHANGED vars PROVE TrackSound'
  OBVIOUS
<1>1. /\ UNCHANGED <<now, traded, current, lastTime, finalized, db, queue, call>>
      /\ UNCHANGED <<job, jobs, ask, heard, disturbed, refilled>>
  BY DEF vars, stores, history
<1>2. Typed' = Typed
  BY <1>1 DEF Typed, Stored, Queued, Busy
<1>3. VolumesSound' = VolumesSound
  BY <1>1 DEF VolumesSound
<1>4. SetSound' = SetSound
  BY <1>1 DEF SetSound, Room, Refilling, Zadds
<1>5. LostSound' = LostSound
  BY <1>1 DEF LostSound, Coming, Shown, Saved
<1>6. Clean' = Clean
  BY <1>1 DEF Clean
<1>7. OrderSound' = OrderSound
  BY <1>1 DEF OrderSound, RowsBehind, Unset, JobBehind, NotOlder, Finalizes, JobInTurn, Follows,
              InTurn, Zadds
<1>8. SetIsRight' = SetIsRight
  BY <1>1 DEF SetIsRight, AddsCurrent, CurrentInSet, OtherInSet, Zadds
<1>9. AskIsRight' = AskIsRight
  BY <1>1 DEF AskIsRight, Ranging, Getting, Answered
<1>10. QED
  BY <1>2, <1>3, <1>4, <1>5, <1>6, <1>7, <1>8, <1>9 DEF TrackSound, Basics

\* When nothing is under way, nobody brings a candle: what was heard of it is
\* in its row.
LEMMA SoundIsCounted == TrackSound => CountedOnce
<1> SUFFICES ASSUME TrackSound PROVE CountedOnce
  OBVIOUS
<1> USE DEF TrackSound, Basics
<1>1. ASSUME Quiet, NEW c \in Times \ (disturbed \cup {current.time}), heard[c] > 0
      PROVE  heard[c] <= db[c] /\ db[c] <= traded[c]
  <2>1. Coming(c) \/ Shown(c) \/ Saved(c)
    BY <1>1 DEF LostSound
  <2>2. ~Coming(c)
    BY <1>1, CandleTrackerAssumption DEF Coming, Quiet, Idle, NoCandle, None, Times
  <2>3. ~Shown(c)
    BY <1>1 DEF Shown
  <2>4. QED
    BY <2>1, <2>2, <2>3 DEF Saved, VolumesSound
<1>2. TypeOK
  BY TypedIsTyped
<1>3. ASSUME NEW c \in Times
      PROVE  Len(finalized[c]) <= 2 /\ (Len(finalized[c]) = 2 => c \in refilled)
  <2>1. Len(finalized[c]) <= Room(c) /\ Len(finalized[c]) \in Nat
    BY DEF SetSound, Typed, Stored
  <2>2. QED
    BY <2>1 DEF Room
<1>4. QED
  BY <1>1, <1>2, <1>3 DEF CountedOnce, LostOnlyIfDisturbed, DoubledOnlyByRefill

LEMMA SoundIsAnswered == TrackSound => AnswerOffByOneCandle
<1> SUFFICES ASSUME TrackSound, ask.step = "done", Clean
             PROVE  Cardinality({c \in ask.known : ask.count[c] # 1}) <= 1
  BY DEF AnswerOffByOneCandle, Clean
<1>1. PICK a \in Times : \A c \in ask.known \ {a} : ask.count[c] = 1
  BY DEF TrackSound, AskIsRight, Answered
<1> DEFINE wrong == {c \in ask.known : ask.count[c] # 1}
<1>2. wrong \subseteq {a}
  BY <1>1
<1>3. IsFiniteSet({a}) /\ Cardinality({a}) = 1
  BY FS_Singleton
<1> HIDE DEF wrong
<1>4. Cardinality(wrong) <= 1
  BY <1>2, <1>3, FS_Subset
<1>5. QED
  BY <1>4 DEF wrong

-----------------------------------------------------------------------------
(* Sorting trades                                                           *)

TradeType == [id : Nat, at : Nat]

\* A list of trades with one entry per trade, and one whose newest are first.
Single(ts) == ts \in Seq(TradeType) /\ \A i, j \in DOMAIN ts : ts[i].id = ts[j].id => i = j
Sorted(ts) == \A i, j \in DOMAIN ts : i < j => ts[i].at >= ts[j].at

\* What stands before the i-th entry when they are sorted.
Before(ts, j, i) == ts[j].at > ts[i].at \/ (ts[j].at = ts[i].at /\ j < i)
Ahead(ts, i)     == {j \in DOMAIN ts : Before(ts, j, i)}
Rank(ts)         == [i \in DOMAIN ts |-> 1 + Cardinality(Ahead(ts, i))]

\* Of two entries one stands before the other, and this is an order.
LEMMA BeforeOrders ==
  ASSUME NEW ts \in Seq(TradeType), NEW i \in DOMAIN ts, NEW j \in DOMAIN ts
  PROVE  /\ i # j => Before(ts, i, j) \/ Before(ts, j, i)
         /\ ~Before(ts, i, i)
         /\ Before(ts, i, j) => ~Before(ts, j, i)
         /\ \A k \in DOMAIN ts : Before(ts, k, i) /\ Before(ts, i, j) => Before(ts, k, j)
<1>1. /\ DOMAIN ts = 1..Len(ts) /\ Len(ts) \in Nat
      /\ \A k \in DOMAIN ts : ts[k] \in TradeType
  OBVIOUS
<1>2. \A k \in DOMAIN ts : k \in Nat /\ ts[k].at \in Nat
  BY <1>1 DEF TradeType
<1>3. QED
  BY <1>2 DEF Before

\* Entries ahead are finitely many, and more of them the later the place.
LEMMA AheadCounts ==
  ASSUME NEW ts \in Seq(TradeType), NEW i \in DOMAIN ts
  PROVE  /\ Rank(ts)[i] \in 1..Len(ts)
         /\ \A j \in DOMAIN ts : Before(ts, i, j) => Rank(ts)[i] < Rank(ts)[j]
<1>1. DOMAIN ts = 1..Len(ts) /\ Len(ts) \in Nat /\ i \in DOMAIN ts
  OBVIOUS
<1>2. IsFiniteSet(DOMAIN ts) /\ Cardinality(DOMAIN ts) = Len(ts)
  <2>1. \A n \in Nat : IsFiniteSet(1..n) /\ Cardinality(1..n) = n
    BY FS_Interval
  <2>2. QED
    BY <1>1, <2>1
<1>3. \A k \in DOMAIN ts : IsFiniteSet(Ahead(ts, k)) /\ Cardinality(Ahead(ts, k)) \in Nat
  BY <1>2, FS_Subset, FS_CardinalityType DEF Ahead
<1>4. /\ Cardinality(Ahead(ts, i) \cup {i}) = Cardinality(Ahead(ts, i)) + 1
      /\ IsFiniteSet(Ahead(ts, i) \cup {i})
  BY <1>3, FS_AddElement, BeforeOrders DEF Ahead
<1>5. Cardinality(Ahead(ts, i)) + 1 <= Len(ts)
  <2>1. Ahead(ts, i) \cup {i} \in SUBSET (DOMAIN ts)
    BY DEF Ahead
  <2>2. QED
    BY <1>2, <1>4, <2>1, FS_Subset
<1>6. ASSUME NEW j \in DOMAIN ts, Before(ts, i, j) PROVE Rank(ts)[i] < Rank(ts)[j]
  <2>1. Ahead(ts, i) \cup {i} \in SUBSET Ahead(ts, j)
    BY <1>6, BeforeOrders DEF Ahead
  <2>2. Cardinality(Ahead(ts, i)) + 1 <= Cardinality(Ahead(ts, j))
    BY <1>3, <1>4, <2>1, FS_Subset
  <2>3. QED
    BY <1>3, <2>2 DEF Rank
<1>7. QED
  BY <1>1, <1>3, <1>5, <1>6 DEF Rank

\* So every place is taken by one entry.
LEMMA RankBijects ==
  ASSUME NEW ts \in Seq(TradeType)
  PROVE  /\ \A i, j \in DOMAIN ts : Rank(ts)[i] = Rank(ts)[j] => i = j
         /\ \A k \in DOMAIN ts : \E i \in DOMAIN ts : k = Rank(ts)[i]
<1> DEFINE D == DOMAIN ts
<1>1. D = 1..Len(ts) /\ Len(ts) \in Nat
  OBVIOUS
<1>2. IsFiniteSet(D)
  BY <1>1, FS_Interval
<1>3. ASSUME NEW i \in D, NEW j \in D, Rank(ts)[i] = Rank(ts)[j] PROVE i = j
  <2>1. Rank(ts)[i] \in Nat /\ Rank(ts)[j] \in Nat
    BY AheadCounts
  <2>2. ~Before(ts, i, j) /\ ~Before(ts, j, i)
    BY <1>3, <2>1, AheadCounts
  <2>3. QED
    BY <2>2, BeforeOrders
<1>4. Rank(ts) \in [D -> D]
  <2>1. \A i \in D : Rank(ts)[i] \in D
    BY <1>1, AheadCounts
  <2>2. QED
    BY <2>1 DEF Rank
<1>5. Rank(ts) \in Injection(D, D)
  BY <1>3, <1>4 DEF Injection, IsInjective
<1>6. Rank(ts) \in Surjection(D, D)
  BY <1>2, <1>5, FS_Injection
<1>7. QED
  BY <1>3, <1>6 DEF Surjection

\* Sorting keeps the entries and puts the newest first.
LEMMA ByStampSorts ==
  ASSUME NEW ts, Single(ts)
  PROVE  /\ Single(ByStamp(ts)) /\ Sorted(ByStamp(ts)) /\ Len(ByStamp(ts)) = Len(ts)
         /\ Range(ByStamp(ts)) = Range(ts)
<1> DEFINE D == DOMAIN ts
           R == ByStamp(ts)
           At(k) == CHOOSE i \in D : k = Rank(ts)[i]
<1>1. D = 1..Len(ts) /\ Len(ts) \in Nat /\ ts \in Seq(TradeType)
  BY DEF Single
<1>2. \A k \in D : R[k] = ts[At(k)]
  BY DEF ByStamp, Rank, Ahead, Before
<1>3. \A k \in D : At(k) \in D /\ k = Rank(ts)[At(k)]
  BY <1>1, RankBijects
<1>4. DOMAIN R = D
  BY DEF ByStamp
<1>5. \A k \in D : R[k] \in TradeType
  BY <1>1, <1>2, <1>3
<1>6. R \in Seq(TradeType) /\ Len(R) = Len(ts)
  <2>1. R = [k \in 1..Len(ts) |-> R[k]]
    BY <1>1, <1>4 DEF ByStamp
  <2> HIDE DEF R
  <2>2. QED
    BY <1>1, <1>5, <2>1
<1>7. \A k, l \in D : At(k) = At(l) => k = l
  BY <1>3
<1>8. Single(R)
  <2>1. ASSUME NEW k \in D, NEW l \in D, R[k].id = R[l].id PROVE k = l
    <3>1. ts[At(k)].id = ts[At(l)].id
      BY <1>2, <2>1
    <3>2. At(k) = At(l)
      BY <1>3, <3>1 DEF Single
    <3>3. QED
      BY <1>7, <3>2
  <2>2. QED
    BY <1>4, <1>6, <2>1 DEF Single
<1>9. Sorted(R)
  <2>1. ASSUME NEW k \in D, NEW l \in D, k < l PROVE R[k].at >= R[l].at
    <3> DEFINE i == At(k)
               j == At(l)
    <3>1. i \in D /\ j \in D /\ k = Rank(ts)[i] /\ l = Rank(ts)[j]
      BY <1>3
    <3>2. R[k] = ts[i] /\ R[l] = ts[j]
      BY <1>2
    <3> HIDE DEF i, j, R
    <3>3. k \in Nat /\ l \in Nat
      BY <1>1
    <3>4. ~Before(ts, j, i) /\ i # j
      BY <1>1, <2>1, <3>1, <3>3, AheadCounts
    <3>5. Before(ts, i, j)
      BY <1>1, <3>1, <3>4, BeforeOrders
    <3>6. ts[i].at \in Nat /\ ts[j].at \in Nat
      <4>1. ts[i] \in TradeType /\ ts[j] \in TradeType
        BY <1>1, <3>1
      <4>2. QED
        BY <4>1 DEF TradeType
    <3>7. QED
      BY <3>2, <3>5, <3>6 DEF Before
  <2>2. QED
    BY <1>4, <2>1 DEF Sorted
<1>10. Range(R) = Range(ts)
  <2>1. ASSUME NEW i \in D PROVE ts[i] \in Range(R)
    <3> DEFINE k == Rank(ts)[i]
    <3>1. k \in D
      BY <1>1, AheadCounts
    <3>2. At(k) = i
      BY <1>1, <1>3, <3>1, RankBijects
    <3>3. QED
      BY <1>2, <1>4, <3>1, <3>2 DEF Range
  <2>2. ASSUME NEW k \in D PROVE R[k] \in Range(ts)
    BY <1>2, <1>3 DEF Range
  <2>3. QED
    BY <1>4, <2>1, <2>2 DEF Range
<1>11. QED
  BY <1>6, <1>8, <1>9, <1>10
-----------------------------------------------------------------------------
(* The list of trades                                                       *)

\* A trade is in the list, or the list is full of newer ones.
Kept(t, ts) == t \in Range(ts) \/ (Len(ts) = MAX_TRADES /\ ts[MAX_TRADES].at >= t.at)

\* Trimming drops older trades, and only when there is no room.
LEMMA TrimmedKeeps ==
  ASSUME NEW ts, Single(ts), Sorted(ts)
  PROVE  /\ Single(Trimmed(ts)) /\ Sorted(Trimmed(ts)) /\ Len(Trimmed(ts)) <= MAX_TRADES
         /\ Range(Trimmed(ts)) \subseteq Range(ts)
         /\ \A t \in Range(ts) : Kept(t, Trimmed(ts))
         /\ \A i \in DOMAIN Trimmed(ts) : i \in DOMAIN ts /\ Trimmed(ts)[i] = ts[i]
         /\ Len(Trimmed(ts)) = IF Len(ts) > MAX_TRADES THEN MAX_TRADES ELSE Len(ts)
<1> DEFINE n == IF Len(ts) > MAX_TRADES THEN MAX_TRADES ELSE Len(ts)
           T == Trimmed(ts)
<1>1. /\ ts \in Seq(TradeType) /\ Len(ts) \in Nat /\ DOMAIN ts = 1..Len(ts)
      /\ MAX_TRADES \in Nat \ {0}
  BY StreamsAssumption DEF Single
<1>2. n \in Nat /\ n <= Len(ts) /\ n <= MAX_TRADES /\ (n < Len(ts) => n = MAX_TRADES)
  <2>1. \A l, m \in Nat :
          LET k == IF l > m THEN m ELSE l
          IN k \in Nat /\ k <= l /\ k <= m /\ (k < l => k = m)
    OBVIOUS
  <2>2. Len(ts) \in Nat /\ MAX_TRADES \in Nat
    BY <1>1
  <2>3. QED
    BY <2>1, <2>2, Zenon
<1>3. T = SubSeq(ts, 1, n)
  BY DEF Trimmed
<1> HIDE DEF n, T
<1>4. /\ T \in Seq(TradeType) /\ Len(T) = n /\ DOMAIN T = 1..n
      /\ \A i \in 1..n : T[i] = ts[i]
  BY <1>1, <1>2, <1>3
<1>5. \A i \in 1..n : i \in DOMAIN ts
  BY <1>1, <1>2
<1>6. Single(T) /\ Sorted(T)
  BY <1>4, <1>5 DEF Single, Sorted
<1>7. Range(T) \subseteq Range(ts)
  BY <1>4, <1>5 DEF Range
<1>8. ASSUME NEW i \in DOMAIN ts PROVE Kept(ts[i], T)
  <2>1. CASE i <= n
    BY <1>1, <1>4, <2>1 DEF Kept, Range
  <2>2. CASE i > n
    <3>1. n = MAX_TRADES /\ n \in DOMAIN ts /\ T[n] = ts[n] /\ n < i
      BY <1>1, <1>2, <1>4, <2>2
    <3>2. ts[n].at >= ts[i].at
      BY <3>1 DEF Sorted
    <3>3. QED
      BY <1>4, <3>1, <3>2 DEF Kept
  <2>3. QED
    BY <1>1, <1>2, <2>1, <2>2
<1>9. QED
  BY <1>2, <1>4, <1>5, <1>6, <1>7, <1>8 DEF Range, n, T

\* What the store makes of the trades read.
LEMMA HydratedKeeps ==
  ASSUME NEW ts, Single(ts)
  PROVE  /\ Single(Hydrated(ts)) /\ Sorted(Hydrated(ts)) /\ Len(Hydrated(ts)) <= MAX_TRADES
         /\ Range(Hydrated(ts)) \subseteq Range(ts)
         /\ \A t \in Range(ts) : Kept(t, Hydrated(ts))
<1>1. /\ Single(ByStamp(ts)) /\ Sorted(ByStamp(ts))
      /\ Range(ByStamp(ts)) = Range(ts)
  BY ByStampSorts
<1> DEFINE R == ByStamp(ts)
<1>2. Hydrated(ts) = Trimmed(R)
  BY DEF Hydrated
<1> HIDE DEF R
<1>3. Single(R) /\ Sorted(R) /\ Range(R) = Range(ts)
  BY <1>1 DEF R
<1>4. QED
  BY <1>2, <1>3, TrimmedKeeps

\* What it makes of one more.
LEMMA WithTradeKeeps ==
  ASSUME Single(trades), Sorted(trades), Len(trades) <= MAX_TRADES, NEW t \in TradeType,
         \A x \in Range(trades) : x.id = t.id => x = t
  PROVE  /\ Single(WithTrade(t)) /\ Sorted(WithTrade(t)) /\ Len(WithTrade(t)) <= MAX_TRADES
         /\ Range(WithTrade(t)) \subseteq Range(trades) \cup {t}
         /\ Kept(t, WithTrade(t))
         /\ \A x \in TradeType : Kept(x, trades) => Kept(x, WithTrade(t))
<1> DEFINE same == {k \in DOMAIN trades : trades[k].id = t.id}
<1>1. /\ trades \in Seq(TradeType) /\ Len(trades) \in Nat /\ DOMAIN trades = 1..Len(trades)
      /\ MAX_TRADES \in Nat \ {0}
      /\ \A k \in DOMAIN trades : trades[k] \in TradeType /\ trades[k] \in Range(trades)
  BY StreamsAssumption DEF Single, Range
<1>2. CASE same # {}
  <2>1. \A k \in same : trades[k] = t
    BY <1>1
  <2>2. [k \in DOMAIN trades |-> IF k \in same THEN t ELSE trades[k]] = trades
    BY <1>1, <2>1
  <2>3. WithTrade(t) = ByStamp(trades)
    BY <1>2, <2>2 DEF WithTrade
  <2> DEFINE R == ByStamp(trades)
  <2>4. Single(R) /\ Sorted(R) /\ Len(R) = Len(trades) /\ Range(R) = Range(trades)
    BY ByStampSorts
  <2> HIDE DEF R
  <2>5. t \in Range(R)
    BY <1>1, <1>2, <2>1, <2>4
  <2>6. ASSUME NEW x \in TradeType, Kept(x, trades) PROVE Kept(x, R)
    <3>1. CASE x \in Range(trades)
      BY <2>4, <3>1 DEF Kept
    <3>2. CASE Len(trades) = MAX_TRADES /\ trades[MAX_TRADES].at >= x.at
      <4>1. R \in Seq(TradeType) /\ Len(R) = MAX_TRADES /\ MAX_TRADES \in DOMAIN R
        BY <1>1, <2>4, <3>2 DEF Single
      <4>2. PICK i \in DOMAIN trades : R[MAX_TRADES] = trades[i]
        BY <2>4, <4>1 DEF Range
      <4>3. trades[i].at >= trades[MAX_TRADES].at
        <5>1. i = MAX_TRADES \/ i < MAX_TRADES
          BY <1>1, <3>2
        <5>2. trades[i].at \in Nat /\ MAX_TRADES \in DOMAIN trades
          BY <1>1, <3>2 DEF TradeType
        <5>3. QED
          BY <5>1, <5>2 DEF Sorted
      <4>4. /\ trades[i].at \in Nat /\ trades[MAX_TRADES].at \in Nat /\ x.at \in Nat
        BY <1>1, <3>2 DEF TradeType
      <4>5. QED
        BY <3>2, <4>1, <4>2, <4>3, <4>4 DEF Kept
    <3>3. QED
      BY <2>6, <3>1, <3>2 DEF Kept
  <2>7. WithTrade(t) = R
    BY <2>3 DEF R
  <2>8. QED
    BY <2>4, <2>5, <2>6, <2>7 DEF Kept
<1>3. CASE same = {}
  <2> DEFINE s == <<t>> \o trades
             R == ByStamp(s)
  <2>1. WithTrade(t) = Trimmed(R)
    BY <1>3 DEF WithTrade
  <2>2. /\ s \in Seq(TradeType) /\ Len(s) = Len(trades) + 1
        /\ DOMAIN s = 1..Len(trades) + 1
        /\ s[1] = t
        /\ \A k \in 2..Len(trades) + 1 : s[k] = trades[k - 1] /\ k - 1 \in DOMAIN trades
    BY <1>1
  <2>3. Single(s)
    <3>1. ASSUME NEW i \in DOMAIN s, NEW j \in DOMAIN s, s[i].id = s[j].id PROVE i = j
      <4>1. \A k \in DOMAIN trades : trades[k].id # t.id
        BY <1>3
      <4>2. CASE i = 1 \/ j = 1
        <5>1. \A k \in DOMAIN s : k # 1 => k \in 2..Len(trades) + 1
          BY <1>1, <2>2
        <5>2. \A k \in DOMAIN s : k # 1 => s[k].id # t.id
          BY <2>2, <4>1, <5>1
        <5>3. QED
          BY <2>2, <3>1, <4>2, <5>2
      <4>3. CASE i # 1 /\ j # 1
        <5>1. i \in 2..Len(trades) + 1 /\ j \in 2..Len(trades) + 1
          BY <1>1, <2>2, <4>3
        <5>2. trades[i - 1].id = trades[j - 1].id /\ i - 1 \in DOMAIN trades /\ j - 1 \in DOMAIN trades
          BY <2>2, <3>1, <5>1
        <5>3. i - 1 = j - 1
          BY <5>2 DEF Single
        <5>4. QED
          BY <5>1, <5>3
      <4>4. QED
        BY <4>2, <4>3
    <3>2. QED
      BY <2>2, <3>1 DEF Single
  <2>4. Range(s) = Range(trades) \cup {t}
    <3>1. \A k \in DOMAIN s : s[k] \in Range(trades) \cup {t}
      <4>1. \A k \in DOMAIN s : k = 1 \/ k \in 2..Len(trades) + 1
        BY <1>1, <2>2
      <4>2. QED
        BY <1>1, <2>2, <4>1
    <3>2. \A k \in DOMAIN trades : trades[k] \in Range(s)
      <4>1. \A k \in DOMAIN trades : k + 1 \in 2..Len(trades) + 1 /\ (k + 1) - 1 = k
        BY <1>1
      <4>2. \A k \in DOMAIN trades : k + 1 \in DOMAIN s /\ s[k + 1] = trades[k]
        BY <1>1, <2>2, <4>1
      <4>3. QED
        BY <4>2 DEF Range
    <3>3. 1 \in DOMAIN s
      BY <1>1, <2>2
    <3>4. t \in Range(s)
      BY <2>2, <3>3 DEF Range
    <3> HIDE DEF s
    <3>5. Range(s) \subseteq Range(trades) \cup {t}
      BY <3>1 DEF Range
    <3>6. Range(trades) \subseteq Range(s)
      BY <3>2 DEF Range
    <3>7. QED
      BY <3>4, <3>5, <3>6
  <2> HIDE DEF s
  <2>5. Single(R) /\ Sorted(R) /\ Len(R) = Len(trades) + 1 /\ Range(R) = Range(trades) \cup {t}
    BY <2>2, <2>3, <2>4, ByStampSorts
  <2> HIDE DEF R
  <2> DEFINE T == Trimmed(R)
  <2>6. /\ Single(T) /\ Sorted(T) /\ Len(T) <= MAX_TRADES /\ Range(T) \subseteq Range(R)
        /\ \A x \in Range(R) : Kept(x, T)
        /\ \A i \in DOMAIN T : i \in DOMAIN R /\ T[i] = R[i]
        /\ Len(T) = IF Len(R) > MAX_TRADES THEN MAX_TRADES ELSE Len(R)
    BY <2>5, TrimmedKeeps
  <2> HIDE DEF T
  <2>7. ASSUME NEW x \in TradeType, Kept(x, trades) PROVE Kept(x, T)
    <3>1. CASE x \in Range(trades)
      BY <2>5, <2>6, <3>1
    <3>2. CASE Len(trades) = MAX_TRADES /\ trades[MAX_TRADES].at >= x.at
      <4> DEFINE m == MAX_TRADES
      <4>1. /\ Len(R) = m + 1 /\ Len(T) = m /\ m \in Nat
            /\ R \in Seq(TradeType) /\ T \in Seq(TradeType)
        BY <1>1, <2>5, <2>6, <3>2 DEF Single
      <4>2. m \in DOMAIN R /\ m + 1 \in DOMAIN R /\ T[m] = R[m] /\ R[m].at >= R[m + 1].at
        <5>1. m \in DOMAIN R /\ m + 1 \in DOMAIN R /\ m \in DOMAIN T
          BY <1>1, <4>1
        <5>2. QED
          BY <2>5, <2>6, <4>1, <5>1 DEF Sorted
      <4>3. \A k \in DOMAIN trades : trades[k].at >= trades[m].at
        <5>1. \A k \in DOMAIN trades : trades[k].at \in Nat
          BY <1>1 DEF TradeType
        <5>2. m \in DOMAIN trades /\ \A k \in DOMAIN trades : k < m \/ k = m
          BY <1>1, <3>2
        <5>3. QED
          BY <5>1, <5>2 DEF Sorted
      <4>4. /\ R[m].at \in Nat /\ R[m + 1].at \in Nat /\ x.at \in Nat /\ trades[m].at \in Nat
        <5>1. R[m] \in TradeType /\ R[m + 1] \in TradeType /\ trades[m] \in TradeType
          BY <1>1, <3>2, <4>1, <4>2
        <5>2. QED
          BY <5>1 DEF TradeType
      <4>5. ~(R[m] = t /\ R[m + 1] = t)
        BY <2>5, <4>1, <4>2 DEF Single
      <4>6. R[m].at >= trades[m].at
        <5>1. R[m] \in Range(trades) \cup {t} /\ R[m + 1] \in Range(trades) \cup {t}
          BY <2>5, <4>2 DEF Range
        <5>2. \A y \in Range(trades) : y.at >= trades[m].at
          BY <4>3 DEF Range
        <5>3. R[m].at >= trades[m].at \/ R[m + 1].at >= trades[m].at
          BY <4>5, <5>1, <5>2
        <5>4. QED
          BY <4>2, <4>4, <5>3
      <4>7. T[m].at >= x.at
        BY <3>2, <4>2, <4>4, <4>6
      <4>8. QED
        BY <4>1, <4>7 DEF Kept
    <3>3. QED
      BY <2>7, <3>1, <3>2 DEF Kept
  <2>8. WithTrade(t) = T
    BY <2>1 DEF T
  <2>9. QED
    BY <2>5, <2>6, <2>7, <2>8
<1>4. QED
  BY <1>2, <1>3
-----------------------------------------------------------------------------
(* The rows of the order book                                               *)

\* A side of a book has finitely many prices.
IsSide(side) == IsFiniteSet(DOMAIN side) /\ DOMAIN side \subseteq Nat

LEMMA LevelsFinite ==
  ASSUME NEW side, IsSide(side)
  PROVE  /\ IsFiniteSet(Levels(side)) /\ Levels(side) \subseteq Nat
         /\ \A p : /\ IsFiniteSet(Higher(side, p)) /\ IsFiniteSet(Lower(side, p))
                   /\ Cardinality(Higher(side, p)) \in Nat /\ Cardinality(Lower(side, p)) \in Nat
<1>1. IsFiniteSet(Levels(side)) /\ Levels(side) \subseteq Nat
  BY FS_Subset DEF IsSide, Levels
<1>2. ASSUME NEW p PROVE Higher(side, p) \in SUBSET Levels(side) /\ Lower(side, p) \in SUBSET Levels(side)
  BY DEF Higher, Lower
<1>3. QED
  BY <1>1, <1>2, FS_Subset, FS_CardinalityType

\* The lowest and the highest of finitely many prices.
LEMMA LowestPrice ==
  ASSUME NEW S, S \subseteq Nat, S # {}
  PROVE  Min(S) \in S /\ \A y \in S : Min(S) <= y
<1>1. PICK m \in S : \A y \in S : ~(<<y, m>> \in OpToRel(<, Nat))
  BY NatLessThanWellFounded, WFMin, Zenon
<1>2. \A y \in S : ~(y < m)
  BY <1>1 DEF OpToRel
<1>3. \A y \in S : m <= y
  BY <1>2
<1>4. QED
  BY <1>3 DEF Min

LEMMA HighestPrice ==
  ASSUME NEW side, IsSide(side), Levels(side) # {}
  PROVE  Max(Levels(side)) \in Levels(side) /\ \A y \in Levels(side) : Max(Levels(side)) >= y
<1> DEFINE L == Levels(side)
           C == {Cardinality(Higher(side, p)) : p \in L}
<1>1. L \subseteq Nat /\ IsFiniteSet(L)
  BY LevelsFinite
<1>2. C \subseteq Nat /\ C # {}
  BY LevelsFinite
<1>3. Min(C) \in C /\ \A y \in C : Min(C) <= y
  <2> HIDE DEF C
  <2>1. QED
    BY <1>2, LowestPrice
<1>4. PICK m \in L : Min(C) = Cardinality(Higher(side, m))
  BY <1>3
<1>5. ASSUME NEW y \in L, y > m PROVE FALSE
  <2>1. Higher(side, y) \cup {y} \in SUBSET Higher(side, m) /\ y \notin Higher(side, y)
    BY <1>1, <1>5 DEF Higher
  <2>2. Cardinality(Higher(side, y) \cup {y}) = Cardinality(Higher(side, y)) + 1
    BY <2>1, LevelsFinite, FS_AddElement
  <2>3. Cardinality(Higher(side, y)) + 1 <= Cardinality(Higher(side, m))
    BY <2>1, <2>2, LevelsFinite, FS_Subset
  <2>4. Cardinality(Higher(side, m)) <= Cardinality(Higher(side, y))
    BY <1>3, <1>4
  <2>5. Cardinality(Higher(side, m)) \in Nat /\ Cardinality(Higher(side, y)) \in Nat
    BY LevelsFinite
  <2>6. QED
    BY <2>3, <2>4, <2>5
<1>6. \A y \in L : m >= y
  BY <1>1, <1>5
<1>7. QED
  BY <1>6 DEF Max

\* Every row has a price, a size and a width.
RowShaped(rows) ==
  /\ DOMAIN rows = 0..2 * Half - 1
  /\ \A i \in DOMAIN rows :
       rows[i] = [price |-> rows[i].price, size |-> rows[i].size, width |-> rows[i].width]

LEMMA RowsShaped == (\A b : RowShaped(RowsOf(b))) /\ RowShaped(BlankRows)
<1>1. ASSUME NEW b PROVE RowShaped(RowsOf(b))
  BY DEF RowsOf, RowShaped
<1>2. RowShaped(BlankRows)
  BY DEF BlankRows, RowShaped
<1>3. QED
  BY <1>1, <1>2

\* Replacing the rows that differ gives the rows of the new book.
LEMMA ApplyUnitsGives ==
  ASSUME NEW old, RowShaped(old), NEW b, ApplyUnits(old, b)
  PROVE  /\ bookRows' = RowsOf(b) /\ RowShaped(bookRows')
         /\ \A i \in DOMAIN old : i \in dueRows' \/ bookRows'[i] = old[i]
         /\ dueRows \subseteq dueRows'
<1> DEFINE new == RowsOf(b)
           changed == {i \in DOMAIN old : RowDiffers(old[i], new[i])}
<1>1. RowShaped(new)
  BY RowsShaped
<1>2. /\ bookRows' = [i \in DOMAIN old |-> IF i \in changed THEN new[i] ELSE old[i]]
      /\ dueRows' = dueRows \cup changed
  BY DEF ApplyUnits
<1> HIDE DEF new
<1>3. DOMAIN old = 0..2 * Half - 1 /\ DOMAIN new = 0..2 * Half - 1
  BY <1>1 DEF RowShaped
<1>4. ASSUME NEW i \in DOMAIN old, i \notin changed PROVE old[i] = new[i]
  <2>1. old[i].price = new[i].price /\ old[i].size = new[i].size /\ old[i].width = new[i].width
    BY <1>4 DEF RowDiffers
  <2>2. QED
    BY <1>1, <1>3, <2>1 DEF RowShaped
<1>5. bookRows' = [i \in 0..2 * Half - 1 |-> new[i]]
  BY <1>2, <1>3, <1>4
<1>6. new = [i \in 0..2 * Half - 1 |-> new[i]]
  BY DEF new, RowsOf
<1>7. bookRows' = new
  BY <1>5, <1>6
<1>8. QED
  BY <1>1, <1>2, <1>7 DEF new

\* With a full side its best price is next to the middle.
LEMMA BestAsk ==
  ASSUME NEW b, IsSide(b.asks), Half > 1, Cardinality(Levels(b.asks)) = Half
  PROVE  RowsOf(b)[Half - 1].price = Min(Levels(b.asks))
<1> DEFINE L == Levels(b.asks)
           m == Min(L)
           Rest(q) == Cardinality(Higher(b.asks, q))
<1>1. L \subseteq Nat /\ IsFiniteSet(L) /\ Half \in Nat
  BY LevelsFinite, StreamsAssumption
<1>2. L # {}
  BY <1>1, FS_EmptySet
<1>3. m \in L /\ \A y \in L : m <= y
  <2> HIDE DEF L
  <2>1. QED
    BY <1>1, <1>2, LowestPrice
<1>4. IsFiniteSet(L \ {m}) /\ Cardinality(L \ {m}) = Half - 1
  BY <1>1, <1>3, FS_RemoveElement
<1>5. Higher(b.asks, m) = L \ {m}
  <2> HIDE DEF m
  <2>1. QED
    BY <1>1, <1>3 DEF Higher
<1>6. ASSUME NEW q \in L, q # m PROVE Rest(q) # Half - 1
  <2>1. q \in L \ {m}
    BY <1>6
  <2>2. Cardinality((L \ {m}) \ {q}) = Half - 2 /\ IsFiniteSet((L \ {m}) \ {q})
    <3> DEFINE R == L \ {m}
    <3>1. IsFiniteSet(R) /\ Cardinality(R) = Half - 1 /\ q \in R
      BY <1>4, <2>1
    <3> HIDE DEF L, m, R
    <3>2. IsFiniteSet(R \ {q}) /\ Cardinality(R \ {q}) = (Half - 1) - 1
      BY <3>1, FS_RemoveElement
    <3>3. QED
      BY <1>1, <3>2 DEF R
  <2>3. Higher(b.asks, q) \in SUBSET ((L \ {m}) \ {q})
    <3>1. q \in Nat /\ \A r \in Higher(b.asks, q) : r \in L /\ r > q
      BY <1>1 DEF Higher
    <3> HIDE DEF L, m
    <3>2. \A r \in L : r > q => r # m /\ r # q
      BY <1>1, <1>3, <3>1
    <3>3. QED
      BY <3>1, <3>2
  <2>4. Cardinality(Higher(b.asks, q)) <= Half - 2
    BY <2>2, <2>3, FS_Subset
  <2>5. QED
    BY <1>1, <2>4, LevelsFinite
<1>7. {q \in L : Rest(q) = Half - 1} = {m}
  BY <1>3, <1>4, <1>5, <1>6
<1>8. LevelsAt(b, Half - 1) = {<<m, b.asks[m]>>}
  <2>1. LevelsAt(b, Half - 1) = {<<p, b.asks[p]>> : p \in {q \in L : Rest(q) = Half - 1}}
    BY <1>1 DEF LevelsAt
  <2> HIDE DEF L, m, Rest
  <2>2. QED
    BY <1>7, <2>1
<1> HIDE DEF m
<1>9. (CHOOSE l \in LevelsAt(b, Half - 1) : TRUE) = <<m, b.asks[m]>>
  BY <1>8
<1>10. Half - 1 \in 0..2 * Half - 1
  BY <1>1
<1>11. RowsOf(b)[Half - 1].price = (CHOOSE l \in LevelsAt(b, Half - 1) : TRUE)[1]
  BY <1>8, <1>10 DEF RowsOf
<1>12. <<m, b.asks[m]>>[1] = m
  OBVIOUS
<1>13. RowsOf(b)[Half - 1].price = m
  BY <1>9, <1>11, <1>12
<1>14. QED
  BY <1>13 DEF m

LEMMA BestBid ==
  ASSUME NEW b, IsSide(b.bids), Half > 1, Cardinality(Levels(b.bids)) = Half
  PROVE  RowsOf(b)[Half].price = Max(Levels(b.bids))
<1> DEFINE L == Levels(b.bids)
           m == Max(L)
           Rest(q) == Cardinality(Lower(b.bids, q))
<1>1. L \subseteq Nat /\ IsFiniteSet(L) /\ Half \in Nat
  BY LevelsFinite, StreamsAssumption
<1>2. L # {}
  BY <1>1, FS_EmptySet
<1>3. m \in L /\ \A y \in L : m >= y
  BY <1>2, HighestPrice
<1>4. IsFiniteSet(L \ {m}) /\ Cardinality(L \ {m}) = Half - 1
  BY <1>1, <1>3, FS_RemoveElement
<1>5. Lower(b.bids, m) = L \ {m}
  <2> HIDE DEF m
  <2>1. QED
    BY <1>1, <1>3 DEF Lower
<1>6. ASSUME NEW q \in L, q # m PROVE Rest(q) # Half - 1
  <2>1. q \in L \ {m}
    BY <1>6
  <2>2. Cardinality((L \ {m}) \ {q}) = Half - 2 /\ IsFiniteSet((L \ {m}) \ {q})
    <3> DEFINE R == L \ {m}
    <3>1. IsFiniteSet(R) /\ Cardinality(R) = Half - 1 /\ q \in R
      BY <1>4, <2>1
    <3> HIDE DEF L, m, R
    <3>2. IsFiniteSet(R \ {q}) /\ Cardinality(R \ {q}) = (Half - 1) - 1
      BY <3>1, FS_RemoveElement
    <3>3. QED
      BY <1>1, <3>2 DEF R
  <2>3. Lower(b.bids, q) \in SUBSET ((L \ {m}) \ {q})
    <3>1. q \in Nat /\ \A r \in Lower(b.bids, q) : r \in L /\ r < q
      BY <1>1 DEF Lower
    <3> HIDE DEF L, m
    <3>2. \A r \in L : r < q => r # m /\ r # q
      BY <1>1, <1>3, <3>1
    <3>3. QED
      BY <3>1, <3>2
  <2>4. Cardinality(Lower(b.bids, q)) <= Half - 2
    BY <2>2, <2>3, FS_Subset
  <2>5. QED
    BY <1>1, <2>4, LevelsFinite
<1>7. {q \in L : Rest(q) = Half - 1} = {m}
  BY <1>3, <1>4, <1>5, <1>6
<1>8. LevelsAt(b, Half) = {<<m, b.bids[m]>>}
  <2>1. ~(Half < Half) /\ 2 * Half - 1 - Half = Half - 1
    BY <1>1
  <2>2. LevelsAt(b, Half) = {<<p, b.bids[p]>> : p \in {q \in L : Rest(q) = Half - 1}}
    BY <2>1 DEF LevelsAt
  <2> HIDE DEF L, m, Rest
  <2>3. QED
    BY <1>7, <2>2
<1> HIDE DEF m
<1>9. (CHOOSE l \in LevelsAt(b, Half) : TRUE) = <<m, b.bids[m]>>
  BY <1>8
<1>10. Half \in 0..2 * Half - 1
  BY <1>1
<1>11. RowsOf(b)[Half].price = (CHOOSE l \in LevelsAt(b, Half) : TRUE)[1]
  BY <1>8, <1>10 DEF RowsOf
<1>12. <<m, b.bids[m]>>[1] = m
  OBVIOUS
<1>13. RowsOf(b)[Half].price = m
  BY <1>9, <1>11, <1>12
<1>14. QED
  BY <1>13 DEF m
-----------------------------------------------------------------------------
(* The invariant                                                            *)

\* The trades there are anywhere.
Around == Range(recent) \cup Range(read.trades) \cup Range(wire["trades"]) \cup Range(trades)

ReadType == [trades : Seq(TradeType), book : Books \cup {NoBook}, ticker : Nat]

\* Only a page that is shown has connections, and it has read everything;
\* events are on their way over connections there are.
PageSound ==
  /\ messages \in Nat
  /\ stage \in {"none", "reading", "failed", "shown"}
  /\ got \subseteq Feeds /\ link \subseteq Feeds /\ read \in ReadType
  /\ DOMAIN wire = Feeds
  /\ stage # "shown" => link = {}
  /\ \A f \in Feeds : wire[f] # <<>> => f \in link
  /\ stage = "shown" => got = Feeds

\* A trade is known by its id, and one the page has not got was missed, is on
\* its way to it, or is older than all in its full list.
TradesSound ==
  /\ Single(recent) /\ Single(read.trades) /\ wire["trades"] \in Seq(TradeType)
  /\ Single(trades) /\ Sorted(trades) /\ Len(trades) <= MAX_TRADES
  /\ \A x \in Around : x.id <= messages
  /\ \A x, y \in Around : x.id = y.id => x = y
  /\ stage = "reading" /\ "trades" \in got =>
       \A t \in Range(recent) : t \in Range(read.trades) \/ t.id \in missed
  /\ stage = "shown" =>
       \A t \in Range(recent) : Kept(t, trades) \/ t.id \in missed \/ t \in Range(wire["trades"])
  /\ dueTrades \/ listed = trades

\* The last event on its way is the newest message; without one, and unless the
\* newest was missed, the page has it.
BookSound ==
  /\ book \in Books \cup {NoBook} /\ wire["book"] \in Seq(Books)
  /\ wire["book"] # <<>> => wire["book"][Len(wire["book"])] = book
  /\ "book" \notin behind /\ book # NoBook =>
       /\ stage = "reading" /\ "book" \in got => read.book = book
       /\ stage = "shown" /\ wire["book"] = <<>> => bookRows = RowsOf(book)
  /\ RowShaped(bookRows)
  /\ \A i \in Displayed \ dueRows : screen[i] = bookRows[i]

TickerSound ==
  /\ ticker \in Nat /\ wire["ticker"] \in Seq(Nat)
  /\ wire["ticker"] # <<>> => wire["ticker"][Len(wire["ticker"])] = ticker
  /\ "ticker" \notin behind /\ ticker # 0 =>
       /\ stage = "reading" /\ "ticker" \in got => read.ticker = ticker
       /\ stage = "shown" /\ wire["ticker"] = <<>> => known \in {0, ticker}

StreamsSound == PageSound /\ TradesSound /\ BookSound /\ TickerSound

LEMMA InList ==
  \A q \in Seq(TradeType) : \A x \in Range(q) : x \in TradeType /\ x.id \in Nat /\ x.at \in Nat
<1>1. ASSUME NEW q \in Seq(TradeType), NEW x \in Range(q) PROVE x \in TradeType
  BY DEF Range
<1>2. \A x \in TradeType : x.id \in Nat /\ x.at \in Nat
  BY DEF TradeType
<1>3. QED
  BY <1>1, <1>2

LEMMA StreamsInitSound == StreamsInit => StreamsSound
<1> SUFFICES ASSUME StreamsInit PROVE StreamsSound
  OBVIOUS
<1> USE DEF StreamsInit, NoEvents, NothingRead, Feeds
<1>1. /\ recent = <<>> /\ read.trades = <<>> /\ wire["trades"] = <<>> /\ trades = <<>>
      /\ wire["book"] = <<>> /\ wire["ticker"] = <<>> /\ stage = "none" /\ got = {}
  OBVIOUS
<1>2. Single(<<>>) /\ Sorted(<<>>) /\ Range(<<>>) = {} /\ Len(<<>>) = 0
  BY DEF Single, Sorted, Range
<1>3. PageSound
  BY DEF PageSound, ReadType
<1>4. Around = {}
  BY <1>1, <1>2 DEF Around
<1>5. listed = trades /\ 0 <= MAX_TRADES /\ <<>> \in Seq(TradeType)
  BY StreamsAssumption
<1>6. TradesSound
  BY <1>1, <1>2, <1>4, <1>5 DEF TradesSound
<1>7. \A i \in Displayed : screen[i] = bookRows[i]
  OBVIOUS
<1>8. BookSound
  BY <1>1, <1>7, RowsShaped DEF BookSound
<1>9. TickerSound
  BY <1>1 DEF TickerSound
<1>10. QED
  BY <1>3, <1>6, <1>8, <1>9 DEF StreamsSound

\* What one message, or one event, does to a queue of events.
LEMMA QueueFacts ==
  ASSUME NEW S, NEW q \in Seq(S), NEW e \in S
  PROVE  /\ Append(q, e) \in Seq(S) /\ Append(q, e) # <<>>
         /\ Append(q, e)[Len(Append(q, e))] = e
         /\ Range(Append(q, e)) = Range(q) \cup {e}
         /\ q # <<>> => /\ Head(q) \in S /\ Tail(q) \in Seq(S) /\ Head(q) \in Range(q)
                        /\ Range(q) = {Head(q)} \cup Range(Tail(q))
                        /\ Tail(q) # <<>> => Tail(q)[Len(Tail(q))] = q[Len(q)]
                        /\ Tail(q) = <<>> => Head(q) = q[Len(q)]
<1>1. /\ q \in Seq(S) /\ Len(q) \in Nat /\ DOMAIN q = 1..Len(q)
      /\ \A i \in 1..Len(q) : q[i] \in S
  OBVIOUS
<1>2. /\ Append(q, e) \in Seq(S) /\ Len(Append(q, e)) = Len(q) + 1
      /\ DOMAIN Append(q, e) = 1..Len(q) + 1
      /\ Append(q, e)[Len(q) + 1] = e
      /\ \A i \in 1..Len(q) : Append(q, e)[i] = q[i]
  BY <1>1
<1>3. Append(q, e) # <<>>
  BY <1>1, <1>2
<1>4. Range(Append(q, e)) = Range(q) \cup {e}
  <2>1. \A i \in 1..Len(q) + 1 : i = Len(q) + 1 \/ i \in 1..Len(q)
    BY <1>1
  <2>2. Range(Append(q, e)) \subseteq Range(q) \cup {e}
    BY <1>1, <1>2, <2>1 DEF Range
  <2>3. \A i \in 1..Len(q) : i \in 1..Len(q) + 1
    BY <1>1
  <2>4. Len(q) + 1 \in 1..Len(q) + 1
    BY <1>1
  <2>5. Range(q) \subseteq Range(Append(q, e))
    BY <1>1, <1>2, <2>3 DEF Range
  <2>6. e \in Range(Append(q, e))
    BY <1>2, <2>4 DEF Range
  <2>7. QED
    BY <2>2, <2>5, <2>6
<1>5. ASSUME q # <<>>
      PROVE  /\ Head(q) \in S /\ Tail(q) \in Seq(S) /\ Head(q) \in Range(q)
             /\ Range(q) = {Head(q)} \cup Range(Tail(q))
             /\ Tail(q) # <<>> => Tail(q)[Len(Tail(q))] = q[Len(q)]
             /\ Tail(q) = <<>> => Head(q) = q[Len(q)]
  <2>1. Len(q) >= 1 /\ 1 \in 1..Len(q)
    BY <1>1, <1>5
  <2>2. /\ Tail(q) \in Seq(S) /\ Len(Tail(q)) = Len(q) - 1 /\ DOMAIN Tail(q) = 1..Len(q) - 1
        /\ \A i \in 1..Len(q) - 1 : Tail(q)[i] = q[i + 1]
        /\ Head(q) = q[1]
    BY <1>1, <1>5
  <2>3. Head(q) \in S /\ Head(q) \in Range(q)
    BY <1>1, <2>1, <2>2 DEF Range
  <2>4. Range(q) \subseteq {Head(q)} \cup Range(Tail(q))
    <3>1. ASSUME NEW i \in 1..Len(q) PROVE q[i] \in {Head(q)} \cup Range(Tail(q))
      <4>1. CASE i = 1
        BY <2>2, <4>1
      <4>2. CASE i # 1
        <5>1. i - 1 \in 1..Len(q) - 1 /\ (i - 1) + 1 = i
          BY <1>1, <4>2
        <5>2. QED
          BY <2>2, <5>1 DEF Range
      <4>3. QED
        BY <4>1, <4>2
    <3>2. QED
      BY <1>1, <3>1 DEF Range
  <2>5. Range(Tail(q)) \subseteq Range(q)
    <3>1. \A i \in 1..Len(q) - 1 : i + 1 \in 1..Len(q)
      BY <1>1
    <3>2. QED
      BY <1>1, <2>2, <3>1 DEF Range
  <2>6. ASSUME Tail(q) # <<>> PROVE Tail(q)[Len(Tail(q))] = q[Len(q)]
    <3>1. Len(q) - 1 \in 1..Len(q) - 1
      BY <1>1, <2>1, <2>2, <2>6
    <3>2. (Len(q) - 1) + 1 = Len(q)
      BY <1>1
    <3>3. QED
      BY <2>2, <3>1, <3>2
  <2>7. ASSUME Tail(q) = <<>> PROVE Head(q) = q[Len(q)]
    <3>1. \A s \in Seq(S) : s = <<>> => Len(s) = 0
      OBVIOUS
    <3>2. Len(Tail(q)) = 0
      BY <2>2, <2>7, <3>1, Zenon
    <3>3. Len(q) - 1 = 0
      BY <2>2, <3>2, Zenon
    <3>4. Len(q) \in Nat
      BY <1>1
    <3>5. Len(q) = 1
      BY <3>3, <3>4
    <3>6. QED
      BY <2>2, <3>5
  <2>8. QED
    BY <2>2, <2>3, <2>4, <2>5, <2>6, <2>7
<1>6. QED
  BY <1>2, <1>3, <1>4, <1>5
-----------------------------------------------------------------------------
(* Its parts, step by step                                                  *)

LEMMA PageStep ==
  ASSUME StreamsSound, StreamsNext
  PROVE  PageSound'
<1> USE DEF PageSound, fed, served, displayed
<1>1. PageSound /\ recent \in Seq(TradeType) /\ book \in Books \cup {NoBook} /\ ticker \in Nat
  BY DEF StreamsSound, TradesSound, BookSound, TickerSound, Single
<1>2. /\ NothingRead \in ReadType /\ DOMAIN NoEvents = Feeds
      /\ \A f \in Feeds : NoEvents[f] = <<>>
  BY DEF NothingRead, ReadType, NoEvents
<1>3. ASSUME NEW f, NEW e, Pushed(f, e), UNCHANGED <<>> PROVE PageSound'
  <2>1. wire' = wire \/ (f \in link /\ wire' = [wire EXCEPT ![f] = Append(@, e)])
    BY <1>3 DEF Pushed
  <2>2. DOMAIN wire' = Feeds /\ \A g \in Feeds : wire'[g] # <<>> => g \in link
    BY <1>1, <2>1
  <2>3. QED
    BY <1>1, <1>3, <2>2 DEF Pushed
<1>4. ASSUME NEW fs, Break(fs) PROVE PageSound'
  <2>1. DOMAIN wire' = Feeds /\ \A f \in Feeds : wire'[f] # <<>> => f \in link'
    BY <1>1, <1>4 DEF Break
  <2>2. QED
    BY <1>1, <1>4, <2>1 DEF Break
<1>5. ASSUME NEW at \in Stamps, HandleRawTrade(at) PROVE PageSound'
  BY <1>3, <1>5 DEF HandleRawTrade
<1>6. ASSUME NEW b \in Books, HandleRawOrderbook(b) PROVE PageSound'
  BY <1>3, <1>6 DEF HandleRawOrderbook
<1>7. ASSUME HandleRawTicker PROVE PageSound'
  BY <1>3, <1>7 DEF HandleRawTicker
<1>8. ASSUME NEW f \in Feeds, FeedBreaks(f) PROVE PageSound'
  BY <1>4, <1>8 DEF FeedBreaks
<1>9. ASSUME ServerRestarts PROVE PageSound'
  BY <1>4, <1>9 DEF ServerRestarts
<1>10. ASSUME OpenMarket PROVE PageSound'
  BY <1>1, <1>2, <1>10 DEF OpenMarket
<1>11. ASSUME NEW f \in Feeds, Reads(f), read' \in ReadType PROVE PageSound'
  BY <1>1, <1>11 DEF Reads
<1>12. ASSUME GetRecentTrades \/ GetOrderbook \/ GetTickers PROVE PageSound'
  <2>1. read' \in ReadType
    BY <1>1, <1>12 DEF GetRecentTrades, GetOrderbook, GetTickers, ReadType
  <2>2. \E f \in Feeds : Reads(f)
    BY <1>12 DEF GetRecentTrades, GetOrderbook, GetTickers, Feeds
  <2>3. QED
    BY <1>11, <2>1, <2>2
<1>13. ASSUME CannotShow PROVE PageSound'
  BY <1>1, <1>2, <1>13 DEF CannotShow
<1>14. ASSUME ShowMarket PROVE PageSound'
  BY <1>1, <1>2, <1>14 DEF ShowMarket
<1>15. ASSUME StreamTrades \/ StreamOrderbook \/ StreamTickers PROVE PageSound'
  <2>1. \E f \in Feeds : Connects(f)
    BY <1>15 DEF StreamTrades, StreamOrderbook, StreamTickers, Feeds
  <2>2. QED
    BY <1>1, <2>1 DEF Connects
<1>16. ASSUME NEW f \in Feeds, Takes(f) PROVE PageSound'
  <2>1. /\ DOMAIN wire' = Feeds /\ f \in link
        /\ \A g \in Feeds : wire'[g] # <<>> => g \in link
    BY <1>1, <1>16 DEF Takes
  <2>2. QED
    BY <1>1, <1>16, <2>1 DEF Takes
<1>17. ASSUME OnTrade \/ OnOrderbook \/ OnTicker PROVE PageSound'
  <2>1. \E f \in Feeds : Takes(f)
    BY <1>17 DEF OnTrade, OnOrderbook, OnTicker, Feeds
  <2>2. QED
    BY <1>16, <2>1
<1>18. ASSUME NotifyTrades \/ FlushRows PROVE PageSound'
  BY <1>1, <1>18 DEF NotifyTrades, FlushRows
<1>19. QED
  BY <1>5, <1>6, <1>7, <1>8, <1>9, <1>10, <1>12, <1>13, <1>14, <1>15, <1>17, <1>18
     DEF StreamsNext

\* Steps that are not about trades.
LEMMA TradesFrame ==
  ASSUME PageSound, TradesSound, UNCHANGED <<recent, trades, dueTrades, listed, missed, stage>>,
         read'.trades = read.trades, wire'["trades"] = wire["trades"],
         messages' \in {messages, messages + 1}, "trades" \in got' => "trades" \in got
  PROVE  TradesSound'
<1>1. Around' = Around
  BY DEF Around
<1>2. \A x \in Around : x.id <= messages'
  <2>1. \A x \in Around : x.id \in Nat
    <3>1. \A q \in Seq(TradeType) : \A x \in Range(q) : x.id \in Nat
      BY InList
    <3>2. QED
      BY <3>1 DEF Around, TradesSound, Single
  <2>2. QED
    BY <2>1 DEF TradesSound, PageSound
<1>3. \A t \in TradeType : Kept(t, trades)' <=> Kept(t, trades)
  BY DEF Kept
<1>4. QED
  BY <1>1, <1>2 DEF TradesSound, Kept, Single, Sorted

\* A trade of Upbit: one more in the service's list, and one more event or one
\* more missed.
LEMMA RawTradeStep ==
  ASSUME StreamsSound, NEW at \in Stamps, HandleRawTrade(at)
  PROVE  TradesSound'
<1> DEFINE t == [id |-> messages + 1, at |-> at]
           all == Append(recent, t)
           n == IF Len(all) > MAX_TRADES THEN Len(all) - MAX_TRADES + 1 ELSE 1
<1>1. PageSound /\ TradesSound
  BY DEF StreamsSound
<1>2. messages \in Nat /\ t \in TradeType /\ at \in Nat
  BY <1>1, StreamsAssumption DEF PageSound, TradeType
<1>3. /\ recent' = SubSeq(all, n, Len(all)) /\ messages' = messages + 1
      /\ UNCHANGED <<trades, dueTrades, listed, stage, got, read>>
      /\ wire'["trades"] = IF "trades" \in link THEN Append(wire["trades"], t) ELSE wire["trades"]
      /\ missed' = IF "trades" \in got /\ "trades" \notin link THEN missed \cup {t.id} ELSE missed
  <2>1. wire' = IF "trades" \in link THEN [wire EXCEPT !["trades"] = Append(@, t)] ELSE wire
    BY DEF HandleRawTrade, Pushed
  <2>2. wire'["trades"] = IF "trades" \in link THEN Append(wire["trades"], t) ELSE wire["trades"]
    BY <1>1, <2>1 DEF PageSound, Feeds
  <2>3. QED
    BY <2>2 DEF HandleRawTrade, Pushed, Passes, fed, displayed
<1>4. /\ all \in Seq(TradeType) /\ Range(all) = Range(recent) \cup {t}
      /\ Len(all) = Len(recent) + 1
  BY <1>1, <1>2, QueueFacts DEF TradesSound, Single
<1>5. \A x \in Around : x.id \in Nat /\ x.id # t.id
  <2>1. \A q \in Seq(TradeType) : \A x \in Range(q) : x.id \in Nat
    BY InList
  <2>2. \A x \in Around : x.id \in Nat /\ x.id <= messages
    BY <1>1, <2>1 DEF Around, TradesSound, Single
  <2>3. QED
    BY <1>2, <2>2
<1>6. Single(all)
  <2>1. recent \in Seq(TradeType) /\ \A i \in DOMAIN recent : recent[i].id # t.id
    BY <1>1, <1>5 DEF Around, Range, TradesSound, Single
  <2>2. \A i, j \in DOMAIN recent : recent[i].id = recent[j].id => i = j
    BY <1>1 DEF TradesSound, Single
  <2> HIDE DEF t
  <2>3. /\ DOMAIN all = 1..Len(recent) + 1 /\ all[Len(recent) + 1] = t
        /\ \A i \in DOMAIN recent : all[i] = recent[i]
    BY <1>2, <2>1
  <2>4. \A i \in DOMAIN all : i \in DOMAIN recent \/ i = Len(recent) + 1
    BY <2>1, <2>3
  <2> HIDE DEF all
  <2>5. \A i, j \in DOMAIN all : all[i].id = all[j].id => i = j
    BY <2>1, <2>2, <2>3, <2>4
  <2>6. QED
    BY <1>4, <2>5 DEF Single
<1>7. n \in Nat \ {0} /\ n <= Len(all) /\ Len(all) \in Nat
  <2>1. \A l, m \in Nat \ {0} : LET k == IF l > m THEN l - m + 1 ELSE 1
                                IN k \in Nat \ {0} /\ k <= l
    OBVIOUS
  <2>2. Len(all) \in Nat \ {0} /\ MAX_TRADES \in Nat \ {0}
    BY <1>1, <1>4, StreamsAssumption DEF TradesSound, Single
  <2> HIDE DEF all
  <2>3. QED
    BY <2>1, <2>2, Zenon
<1> HIDE DEF all, n
<1>8. /\ recent' \in Seq(TradeType) /\ Len(recent') = Len(all) - n + 1
      /\ \A i \in 1..Len(all) - n + 1 : recent'[i] = all[i + n - 1] /\ i + n - 1 \in 1..Len(all)
  BY <1>3, <1>4, <1>7
<1>9. DOMAIN recent' = 1..Len(all) - n + 1 /\ DOMAIN all = 1..Len(all)
  BY <1>4, <1>7, <1>8
<1>10. Single(recent') /\ Range(recent') \subseteq Range(recent) \cup {t}
  <2>1. \A i, j \in DOMAIN recent' : recent'[i].id = recent'[j].id => i = j
    <3>1. ASSUME NEW i \in DOMAIN recent', NEW j \in DOMAIN recent', recent'[i].id = recent'[j].id
          PROVE  i = j
      <4>1. i + n - 1 = j + n - 1
        BY <1>6, <1>8, <1>9, <3>1 DEF Single
      <4>2. i \in Nat /\ j \in Nat
        BY <1>7, <1>9
      <4>3. QED
        BY <1>7, <4>1, <4>2
    <3>2. QED
      BY <3>1
  <2>2. Range(recent') \subseteq Range(all)
    BY <1>8, <1>9 DEF Range
  <2>3. QED
    BY <1>4, <1>8, <2>1, <2>2 DEF Single
<1> HIDE DEF t
<1>11. /\ wire'["trades"] \in Seq(TradeType) /\ Range(wire["trades"]) \subseteq Range(wire'["trades"])
       /\ Range(wire'["trades"]) \subseteq Range(wire["trades"]) \cup {t}
       /\ "trades" \in link => t \in Range(wire'["trades"])
  BY <1>1, <1>2, <1>3, QueueFacts DEF TradesSound
<1>12. Around' \subseteq Around \cup {t}
  BY <1>3, <1>10, <1>11 DEF Around
<1>13. t.id = messages'
  BY <1>3 DEF t
<1>14. \A x \in Around' : x.id <= messages'
  <2>1. \A x \in Around : x.id <= messages'
    BY <1>1, <1>2, <1>3, <1>5 DEF TradesSound
  <2>2. QED
    BY <1>2, <1>3, <1>12, <1>13, <2>1
<1>15. \A x, y \in Around' : x.id = y.id => x = y
  <2>1. \A x, y \in Around : x.id = y.id => x = y
    BY <1>1 DEF TradesSound
  <2>2. QED
    BY <1>5, <1>12, <2>1
<1>16. ASSUME stage' = "reading", "trades" \in got', NEW x \in Range(recent')
       PROVE  x \in Range(read.trades)' \/ x.id \in missed'
  <2>1. "trades" \notin link
    BY <1>1, <1>3, <1>16 DEF PageSound
  <2>2. x \in Range(recent) => x \in Range(read.trades) \/ x.id \in missed
    BY <1>1, <1>3, <1>16 DEF TradesSound
  <2>3. QED
    BY <1>3, <1>10, <1>16, <2>1, <2>2
<1>17. ASSUME stage' = "shown", NEW x \in Range(recent')
       PROVE  Kept(x, trades)' \/ x.id \in missed' \/ x \in Range(wire["trades"])'
  <2>1. "trades" \in got
    BY <1>1, <1>3, <1>17 DEF PageSound, Feeds
  <2>2. x \in Range(recent) => Kept(x, trades) \/ x.id \in missed \/ x \in Range(wire["trades"])
    BY <1>1, <1>3, <1>17 DEF TradesSound
  <2>3. Kept(x, trades) => Kept(x, trades)'
    BY <1>3 DEF Kept
  <2>4. QED
    BY <1>3, <1>10, <1>11, <1>17, <2>1, <2>2, <2>3
<1>18. Single(read.trades)' /\ Single(trades)' /\ Sorted(trades)'
  BY <1>1, <1>3 DEF TradesSound, Single, Sorted
<1>19. QED
  BY <1>1, <1>3, <1>10, <1>11, <1>14, <1>15, <1>16, <1>17, <1>18 DEF TradesSound
\* Broken connections: what was on its way is missed.
LEMMA TradesBreak ==
  ASSUME StreamsSound, NEW fs, Break(fs), recent' \in {recent, <<>>}
  PROVE  TradesSound'
<1>1. PageSound /\ TradesSound
  BY DEF StreamsSound
<1>2. UNCHANGED <<messages, stage, got, read, trades, dueTrades, listed>>
  BY DEF Break, fed, displayed
<1>3. /\ wire'["trades"] = IF "trades" \in fs THEN <<>> ELSE wire["trades"]
      /\ missed' = IF "trades" \in fs THEN missed \cup {t.id : t \in Range(wire["trades"])} ELSE missed
  BY DEF Break, Feeds
<1>4. Single(<<>>) /\ Range(<<>>) = {} /\ <<>> \in Seq(TradeType)
  BY DEF Single, Range
<1>5. Single(recent') /\ Range(recent') \subseteq Range(recent)
  BY <1>1, <1>4 DEF TradesSound
<1>6. /\ wire'["trades"] \in Seq(TradeType) /\ Range(wire'["trades"]) \subseteq Range(wire["trades"])
      /\ missed \subseteq missed'
      /\ \A t \in Range(wire["trades"]) : t \in Range(wire'["trades"]) \/ t.id \in missed'
  BY <1>1, <1>3, <1>4 DEF TradesSound
<1>7. Around' \subseteq Around
  BY <1>2, <1>5, <1>6 DEF Around
<1>8. \A t : Kept(t, trades)' <=> Kept(t, trades)
  BY <1>2 DEF Kept
<1>9. Single(read.trades)' /\ Single(trades)' /\ Sorted(trades)'
  BY <1>1, <1>2 DEF TradesSound, Single, Sorted
<1>10. \A x \in Around' : x.id <= messages'
  BY <1>1, <1>2, <1>7 DEF TradesSound
<1>11. \A x, y \in Around' : x.id = y.id => x = y
  BY <1>1, <1>7 DEF TradesSound
<1>12. stage' = "reading" /\ "trades" \in got' =>
         \A t \in Range(recent') : t \in Range(read'.trades) \/ t.id \in missed'
  BY <1>1, <1>2, <1>5, <1>6 DEF TradesSound
<1>13. stage' = "shown" =>
         \A t \in Range(recent') : Kept(t, trades)' \/ t.id \in missed' \/ t \in Range(wire'["trades"])
  BY <1>1, <1>2, <1>5, <1>6, <1>8 DEF TradesSound
<1>14. (dueTrades \/ listed = trades)' /\ (Len(trades) <= MAX_TRADES)'
  BY <1>1, <1>2 DEF TradesSound
<1>15. QED
  BY <1>5, <1>6, <1>9, <1>10, <1>11, <1>12, <1>13, <1>14 DEF TradesSound

\* The page is opened, reads, and fails or is shown.
LEMMA TradesOpen ==
  ASSUME StreamsSound, OpenMarket
  PROVE  TradesSound'
<1>1. PageSound /\ TradesSound
  BY DEF StreamsSound
<1>2. /\ UNCHANGED <<recent, messages>> /\ stage' = "reading" /\ got' = {}
      /\ read'.trades = <<>> /\ wire'["trades"] = <<>> /\ trades' = <<>> /\ listed' = <<>>
  BY DEF OpenMarket, served, NothingRead, NoEvents, Feeds
<1>3. /\ Single(<<>>) /\ Sorted(<<>>) /\ Range(<<>>) = {} /\ <<>> \in Seq(TradeType)
      /\ Len(<<>>) <= MAX_TRADES
  BY StreamsAssumption DEF Single, Sorted, Range
<1>4. Around' \subseteq Around
  BY <1>2, <1>3 DEF Around
<1>5. \A x \in Around' : x.id <= messages'
  BY <1>1, <1>2, <1>4 DEF TradesSound
<1>6. \A x, y \in Around' : x.id = y.id => x = y
  BY <1>1, <1>4 DEF TradesSound
<1>7. /\ Single(recent') /\ Single(read'.trades) /\ wire'["trades"] \in Seq(TradeType)
      /\ Single(trades') /\ Sorted(trades') /\ Len(trades') <= MAX_TRADES
  BY <1>1, <1>2, <1>3 DEF TradesSound
<1>8. QED
  BY <1>2, <1>5, <1>6, <1>7 DEF TradesSound

LEMMA TradesRead ==
  ASSUME StreamsSound, GetRecentTrades
  PROVE  TradesSound'
<1>1. PageSound /\ TradesSound
  BY DEF StreamsSound
<1>2. /\ UNCHANGED <<recent, messages, wire, stage, trades, dueTrades, listed, missed>>
      /\ stage = "reading" /\ read'.trades = recent
  BY <1>1 DEF GetRecentTrades, Reads, served, fed, displayed, PageSound, ReadType
<1>3. Around' \subseteq Around
  BY <1>2 DEF Around
<1>4. \A x \in Around' : x.id <= messages'
  BY <1>1, <1>2, <1>3 DEF TradesSound
<1>5. \A x, y \in Around' : x.id = y.id => x = y
  BY <1>1, <1>3 DEF TradesSound
<1>6. /\ Single(recent') /\ Single(read'.trades) /\ wire'["trades"] \in Seq(TradeType)
      /\ Single(trades') /\ Sorted(trades') /\ Len(trades') <= MAX_TRADES
  BY <1>1, <1>2 DEF TradesSound
<1>7. QED
  BY <1>1, <1>2, <1>4, <1>5, <1>6 DEF TradesSound

LEMMA TradesCannotShow ==
  ASSUME StreamsSound, CannotShow
  PROVE  TradesSound'
<1>1. PageSound /\ TradesSound
  BY DEF StreamsSound
<1>2. /\ UNCHANGED <<recent, messages, wire, got, trades, dueTrades, listed, missed>>
      /\ stage' = "failed" /\ read'.trades = <<>>
  BY DEF CannotShow, served, fed, displayed, NothingRead
<1>3. Single(<<>>) /\ Range(<<>>) = {}
  BY DEF Single, Range
<1>4. Around' \subseteq Around
  BY <1>2, <1>3 DEF Around
<1>5. \A x \in Around' : x.id <= messages'
  BY <1>1, <1>2, <1>4 DEF TradesSound
<1>6. \A x, y \in Around' : x.id = y.id => x = y
  BY <1>1, <1>4 DEF TradesSound
<1>7. /\ Single(recent') /\ Single(read'.trades) /\ wire'["trades"] \in Seq(TradeType)
      /\ Single(trades') /\ Sorted(trades') /\ Len(trades') <= MAX_TRADES
  BY <1>1, <1>2, <1>3 DEF TradesSound
<1>8. QED
  BY <1>1, <1>2, <1>5, <1>6, <1>7 DEF TradesSound

LEMMA TradesShow ==
  ASSUME StreamsSound, ShowMarket
  PROVE  TradesSound'
<1>1. PageSound /\ TradesSound
  BY DEF StreamsSound
<1>2. /\ UNCHANGED <<recent, messages, wire, got, missed>>
      /\ stage = "reading" /\ got = Feeds /\ stage' = "shown" /\ read'.trades = <<>>
      /\ trades' = Hydrated(read.trades) /\ listed' = trades'
  BY DEF ShowMarket, TradeProvider, served, NothingRead
<1>3. Single(<<>>) /\ Range(<<>>) = {}
  BY DEF Single, Range
<1>4. /\ Single(trades') /\ Sorted(trades') /\ Len(trades') <= MAX_TRADES
      /\ Range(trades') \subseteq Range(read.trades)
      /\ \A t \in Range(read.trades) : Kept(t, trades')
  BY <1>1, <1>2, HydratedKeeps DEF TradesSound
<1>5. Around' \subseteq Around
  BY <1>2, <1>3, <1>4 DEF Around
<1>6. \A x \in Around' : x.id <= messages'
  BY <1>1, <1>2, <1>5 DEF TradesSound
<1>7. \A x, y \in Around' : x.id = y.id => x = y
  BY <1>1, <1>5 DEF TradesSound
<1>8. Single(recent') /\ Single(read'.trades) /\ wire'["trades"] \in Seq(TradeType)
  BY <1>1, <1>2, <1>3 DEF TradesSound
<1>9. \A t \in Range(recent') : Kept(t, trades') \/ t.id \in missed'
  BY <1>1, <1>2, <1>4 DEF TradesSound, Feeds
<1>10. QED
  BY <1>2, <1>4, <1>6, <1>7, <1>8, <1>9 DEF TradesSound

\* The page takes a trade.
LEMMA TradesTake ==
  ASSUME StreamsSound, OnTrade
  PROVE  TradesSound'
<1> DEFINE q == wire["trades"]
           t == Head(q)
<1>1. PageSound /\ TradesSound
  BY DEF StreamsSound
<1>2. /\ UNCHANGED <<recent, messages, stage, got, read, missed>>
      /\ q # <<>> /\ wire'["trades"] = Tail(q) /\ trades' = WithTrade(t) /\ dueTrades'
  BY <1>1 DEF OnTrade, Takes, served, PageSound, Feeds
<1>3. /\ q \in Seq(TradeType) /\ t \in TradeType /\ Tail(q) \in Seq(TradeType) /\ t \in Range(q)
      /\ Range(q) = {t} \cup Range(Tail(q))
  <2>1. q \in Seq(TradeType)
    BY <1>1 DEF TradesSound
  <2> HIDE DEF q
  <2>2. \E e : e \in TradeType
    <3>1. [id |-> 0, at |-> 0] \in TradeType
      BY DEF TradeType
    <3>2. QED
      BY <3>1
  <2>3. QED
    BY <1>2, <2>1, <2>2, QueueFacts
<1> HIDE DEF q, t
<1>4. \A x \in Range(trades) : x.id = t.id => x = t
  <2>1. Range(trades) \subseteq Around /\ t \in Around
    BY <1>3 DEF Around, q
  <2>2. QED
    BY <1>1, <2>1 DEF TradesSound
<1>5. /\ Single(trades') /\ Sorted(trades') /\ Len(trades') <= MAX_TRADES
      /\ Range(trades') \subseteq Range(trades) \cup {t}
      /\ Kept(t, trades')
      /\ \A x \in TradeType : Kept(x, trades) => Kept(x, trades')
  BY <1>1, <1>2, <1>3, <1>4, WithTradeKeeps DEF TradesSound
<1>6. Around' \subseteq Around
  BY <1>2, <1>3, <1>5 DEF Around, q
<1>7. \A x \in Around' : x.id <= messages'
  BY <1>1, <1>2, <1>6 DEF TradesSound
<1>8. \A x, y \in Around' : x.id = y.id => x = y
  BY <1>1, <1>6 DEF TradesSound
<1>9. Single(recent') /\ Single(read'.trades) /\ wire'["trades"] \in Seq(TradeType)
  BY <1>1, <1>2, <1>3 DEF TradesSound
<1>10. ASSUME stage' = "shown", NEW x \in Range(recent')
       PROVE  Kept(x, trades') \/ x.id \in missed' \/ x \in Range(wire'["trades"])
  <2>1. x \in TradeType
    BY <1>1, <1>2, <1>10, InList DEF TradesSound, Single
  <2>2. Kept(x, trades) \/ x.id \in missed \/ x \in Range(q)
    BY <1>1, <1>2, <1>10 DEF TradesSound, q
  <2>3. QED
    BY <1>2, <1>3, <1>5, <2>1, <2>2
<1>11. stage' # "reading"
  <2>1. "trades" \in link
    BY <1>1, <1>2 DEF q, PageSound, Feeds
  <2>2. QED
    BY <1>1, <1>2, <2>1 DEF PageSound
<1>12. QED
  BY <1>2, <1>5, <1>7, <1>8, <1>9, <1>10, <1>11 DEF TradesSound

LEMMA TradesNotified ==
  ASSUME StreamsSound, NotifyTrades
  PROVE  TradesSound'
<1>1. PageSound /\ TradesSound
  BY DEF StreamsSound
<1>2. /\ UNCHANGED <<recent, messages, wire, stage, got, read, trades, missed>>
      /\ listed' = trades
  BY DEF NotifyTrades, served
<1>3. Around' = Around
  BY <1>2 DEF Around
<1>4. QED
  BY <1>1, <1>2, <1>3 DEF TradesSound, Kept, Single, Sorted

LEMMA TradesStep ==
  ASSUME StreamsSound, StreamsNext
  PROVE  TradesSound'
<1> USE DEF fed, served, displayed
<1>1. PageSound /\ TradesSound
  BY DEF StreamsSound
<1>2. ASSUME NEW f \in {"book", "ticker"}, NEW e, Pushed(f, e), UNCHANGED <<recent, missed>>
      PROVE  TradesSound'
  <2>1. wire' = wire \/ wire' = [wire EXCEPT ![f] = Append(@, e)]
    BY <1>2 DEF Pushed
  <2>2. wire'["trades"] = wire["trades"]
    BY <1>1, <1>2, <2>1 DEF PageSound, Feeds
  <2>3. messages' = messages + 1 /\ UNCHANGED <<stage, got, read, trades, dueTrades, listed>>
    BY <1>2 DEF Pushed
  <2>4. QED
    BY <1>1, <1>2, <2>2, <2>3, TradesFrame
<1>3. ASSUME NEW f \in {"book", "ticker"}, Takes(f), UNCHANGED <<trades, dueTrades>>
      PROVE  TradesSound'
  <2>1. wire'["trades"] = wire["trades"]
    BY <1>3 DEF Takes
  <2>2. UNCHANGED <<recent, messages, stage, got, read, listed, missed>>
    BY <1>3 DEF Takes
  <2>3. QED
    BY <1>1, <1>3, <2>1, <2>2, TradesFrame
<1>4. ASSUME NEW at \in Stamps, HandleRawTrade(at) PROVE TradesSound'
  BY <1>4, RawTradeStep
<1>5. ASSUME NEW b \in Books, HandleRawOrderbook(b) PROVE TradesSound'
  BY <1>2, <1>5 DEF HandleRawOrderbook
<1>6. ASSUME HandleRawTicker PROVE TradesSound'
  BY <1>2, <1>6 DEF HandleRawTicker
<1>7. ASSUME NEW f \in Feeds, FeedBreaks(f) PROVE TradesSound'
  BY <1>7, TradesBreak DEF FeedBreaks
<1>8. ASSUME ServerRestarts PROVE TradesSound'
  BY <1>8, TradesBreak DEF ServerRestarts
<1>9. ASSUME GetOrderbook \/ GetTickers PROVE TradesSound'
  <2>1. /\ UNCHANGED <<recent, messages, stage, wire, trades, dueTrades, listed, missed>>
        /\ read'.trades = read.trades
        /\ "trades" \in got' => "trades" \in got
    BY <1>1, <1>9 DEF GetOrderbook, GetTickers, Reads, PageSound, ReadType
  <2>2. QED
    BY <1>1, <2>1, TradesFrame
<1>10. ASSUME StreamTrades \/ StreamOrderbook \/ StreamTickers PROVE TradesSound'
  <2>1. UNCHANGED <<recent, messages, stage, wire, got, read, trades, dueTrades, listed, missed>>
    BY <1>10 DEF StreamTrades, StreamOrderbook, StreamTickers, Connects
  <2>2. QED
    BY <1>1, <2>1, TradesFrame
<1>11. ASSUME OnOrderbook \/ OnTicker PROVE TradesSound'
  <2>1. (Takes("book") \/ Takes("ticker")) /\ UNCHANGED <<trades, dueTrades>>
    BY <1>11 DEF OnOrderbook, OnTicker
  <2>2. QED
    BY <1>3, <2>1
<1>12. ASSUME FlushRows PROVE TradesSound'
  <2>1. UNCHANGED <<recent, messages, stage, wire, got, read, trades, dueTrades, listed, missed>>
    BY <1>12 DEF FlushRows
  <2>2. QED
    BY <1>1, <2>1, TradesFrame
<1>13. QED
  BY <1>4, <1>5, <1>6, <1>7, <1>8, <1>9, <1>10, <1>11, <1>12, TradesOpen, TradesRead,
     TradesCannotShow, TradesShow, TradesTake, TradesNotified
     DEF StreamsNext
\* The page has components for rows there are.
LEMMA DisplayedRows == Displayed \subseteq 0..2 * Half - 1
<1>1. \A h \in Nat \ {0} : \A i \in h \div 2 .. h + h \div 2 - 1 : i \in 0..2 * h - 1
  <2>1. ASSUME NEW h \in Nat \ {0}, NEW i \in h \div 2 .. h + h \div 2 - 1 PROVE i \in 0..2 * h - 1
    <3>1. h \div 2 \in Nat /\ h \div 2 <= h
      OBVIOUS
    <3>2. QED
      BY <3>1
  <2>2. QED
    BY <2>1
<1>2. QED
  BY <1>1, StreamsAssumption DEF Displayed

\* Steps that are not about the book.
LEMMA BookFrame ==
  ASSUME BookSound, UNCHANGED <<book, bookRows, dueRows, screen, stage>>,
         read'.book = read.book, wire'["book"] = wire["book"],
         "book" \in got' => "book" \in got, "book" \in behind => "book" \in behind'
  PROVE  BookSound'
BY DEF BookSound, RowShaped

LEMMA BookStep ==
  ASSUME StreamsSound, StreamsNext
  PROVE  BookSound'
<1> USE DEF fed, served, displayed
<1>1. PageSound /\ BookSound
  BY DEF StreamsSound
<1>2. ASSUME NEW f \in {"trades", "ticker"}, NEW e, Pushed(f, e), UNCHANGED book,
             "book" \in behind => "book" \in behind'
      PROVE  BookSound'
  <2>1. wire' = wire \/ wire' = [wire EXCEPT ![f] = Append(@, e)]
    BY <1>2 DEF Pushed
  <2>2. wire'["book"] = wire["book"]
    BY <1>1, <1>2, <2>1 DEF PageSound, Feeds
  <2>3. UNCHANGED <<stage, got, read, bookRows, dueRows, screen>>
    BY <1>2 DEF Pushed
  <2>4. QED
    BY <1>1, <1>2, <2>2, <2>3, BookFrame
<1>3. ASSUME NEW f \in {"trades", "ticker"}, Takes(f), UNCHANGED <<bookRows, dueRows>>,
             "book" \in behind => "book" \in behind'
      PROVE  BookSound'
  <2>1. wire'["book"] = wire["book"]
    BY <1>1, <1>3 DEF Takes, PageSound, Feeds
  <2>2. UNCHANGED <<book, stage, got, read, screen>>
    BY <1>3 DEF Takes
  <2>3. QED
    BY <1>1, <1>3, <2>1, <2>2, BookFrame
<1>4. ASSUME NEW at \in Stamps, HandleRawTrade(at) PROVE BookSound'
  BY <1>2, <1>4 DEF HandleRawTrade
<1>5. ASSUME HandleRawTicker PROVE BookSound'
  <2>1. "book" \in behind => "book" \in behind'
    BY <1>5 DEF HandleRawTicker
  <2>2. QED
    BY <1>2, <1>5, <2>1 DEF HandleRawTicker
<1>6. ASSUME NEW b \in Books, HandleRawOrderbook(b) PROVE BookSound'
  <2>1. /\ book' = b /\ UNCHANGED <<stage, got, read, bookRows, dueRows, screen>>
        /\ wire' = IF "book" \in link THEN [wire EXCEPT !["book"] = Append(@, b)] ELSE wire
        /\ "book" \in got /\ "book" \notin link => "book" \in behind'
    BY <1>6 DEF HandleRawOrderbook, Pushed, Passes
  <2>2. wire'["book"] = IF "book" \in link THEN Append(wire["book"], b) ELSE wire["book"]
    BY <1>1, <2>1 DEF PageSound, Feeds
  <2>3. /\ Append(wire["book"], b) \in Seq(Books) /\ Append(wire["book"], b) # <<>>
        /\ Append(wire["book"], b)[Len(Append(wire["book"], b))] = b
    <3>1. wire["book"] \in Seq(Books)
      BY <1>1 DEF BookSound
    <3>2. QED
      BY <3>1, QueueFacts
  <2>4. CASE "book" \in link
    <3>1. stage = "shown" /\ wire'["book"] = Append(wire["book"], b)
      BY <1>1, <2>2, <2>4 DEF PageSound
    <3>2. wire'["book"] \in Seq(Books) /\ wire'["book"] # <<>>
          /\ wire'["book"][Len(wire'["book"])] = b
      BY <2>3, <3>1
    <3>3. stage' = "shown" /\ RowShaped(bookRows)' /\ book' = b
      BY <1>1, <2>1, <3>1 DEF BookSound, RowShaped
    <3>4. \A i \in Displayed \ dueRows' : screen'[i] = bookRows'[i]
      BY <1>1, <2>1 DEF BookSound
    <3>5. QED
      BY <3>2, <3>3, <3>4 DEF BookSound
  <2>5. CASE "book" \notin link
    <3>1. wire' = wire
      BY <2>1, <2>5
    <3>2. wire["book"] = <<>>
      BY <1>1, <2>5 DEF PageSound, Feeds
    <3>3. "book" \in got' /\ stage' \in {"reading", "shown"} => "book" \in behind'
      BY <1>1, <2>1, <2>5
    <3>4. stage' = "shown" => "book" \in got'
      BY <1>1, <2>1 DEF PageSound, Feeds
    <3>5. /\ book' \in Books \cup {NoBook} /\ wire'["book"] \in Seq(Books) /\ wire'["book"] = <<>>
          /\ RowShaped(bookRows)'
          /\ \A i \in Displayed \ dueRows' : screen'[i] = bookRows'[i]
      BY <1>1, <2>1, <3>1, <3>2 DEF BookSound, RowShaped
    <3>6. QED
      BY <3>3, <3>4, <3>5 DEF BookSound
  <2>6. QED
    BY <2>4, <2>5
<1>7. ASSUME NEW fs, Break(fs), book' = book \/ (book' = NoBook /\ fs = Feeds) PROVE BookSound'
  <2>1. /\ UNCHANGED <<stage, got, read, bookRows, dueRows, screen>>
        /\ wire'["book"] = IF "book" \in fs THEN <<>> ELSE wire["book"]
        /\ "book" \in fs /\ wire["book"] # <<>> => "book" \in behind'
        /\ "book" \in behind => "book" \in behind'
    BY <1>7 DEF Break, Feeds
  <2>2. /\ book' \in Books \cup {NoBook} /\ RowShaped(bookRows)'
        /\ \A i \in Displayed \ dueRows' : screen'[i] = bookRows'[i]
    BY <1>1, <1>7, <2>1 DEF BookSound, RowShaped
  <2>3. wire'["book"] \in Seq(Books) /\ (wire'["book"] # <<>> => wire'["book"] = wire["book"] /\ book' = book)
    BY <1>1, <1>7, <2>1 DEF BookSound, Feeds
  <2>4. wire'["book"] # <<>> => wire'["book"][Len(wire'["book"])] = book'
    BY <1>1, <2>3 DEF BookSound
  <2>5. ASSUME "book" \notin behind', book' # NoBook
        PROVE  /\ stage' = "reading" /\ "book" \in got' => read'.book = book'
               /\ stage' = "shown" /\ wire'["book"] = <<>> => bookRows' = RowsOf(book)'
    <3>1. "book" \notin behind /\ book # NoBook /\ book' = book
      BY <1>7, <2>1, <2>5
    <3>2. wire'["book"] = <<>> => wire["book"] = <<>>
      BY <2>1, <2>5
    <3>3. RowsOf(book)' = RowsOf(book)
      BY <3>1
    <3>4. QED
      BY <1>1, <2>1, <3>1, <3>2, <3>3 DEF BookSound
  <2>6. QED
    BY <2>2, <2>3, <2>4, <2>5 DEF BookSound
<1>8. ASSUME NEW f \in Feeds, FeedBreaks(f) PROVE BookSound'
  <2>1. Break({f}) /\ book' = book
    BY <1>8 DEF FeedBreaks
  <2>2. QED
    BY <1>7, <2>1
<1>9. ASSUME ServerRestarts PROVE BookSound'
  BY <1>7, <1>9 DEF ServerRestarts
<1>10. ASSUME OpenMarket PROVE BookSound'
  <2>1. /\ book' = book /\ stage' = "reading" /\ got' = {} /\ wire'["book"] = <<>>
        /\ bookRows' = BlankRows /\ screen' = [i \in Displayed |-> BlankRows[i]]
    BY <1>10 DEF OpenMarket, NoEvents, Feeds
  <2>2. RowShaped(bookRows)'
    BY <2>1, RowsShaped DEF RowShaped
  <2>3. \A i \in Displayed : screen'[i] = bookRows'[i]
    BY <2>1
  <2>4. book' \in Books \cup {NoBook} /\ wire'["book"] \in Seq(Books)
    BY <1>1, <2>1 DEF BookSound
  <2>5. QED
    BY <2>1, <2>2, <2>3, <2>4 DEF BookSound
<1>11. ASSUME GetRecentTrades \/ GetTickers PROVE BookSound'
  <2>1. /\ UNCHANGED <<book, bookRows, dueRows, screen, stage, wire, behind>>
        /\ read'.book = read.book /\ ("book" \in got' => "book" \in got)
    BY <1>1, <1>11 DEF GetRecentTrades, GetTickers, Reads, PageSound, ReadType
  <2>2. QED
    BY <1>1, <2>1, BookFrame
<1>12. ASSUME GetOrderbook PROVE BookSound'
  <2>1. /\ UNCHANGED <<book, bookRows, dueRows, screen, stage, wire, behind>>
        /\ read'.book = book /\ stage = "reading"
    BY <1>1, <1>12 DEF GetOrderbook, Reads, PageSound, ReadType
  <2>2. QED
    BY <1>1, <2>1 DEF BookSound, RowShaped
<1>13. ASSUME CannotShow PROVE BookSound'
  <2>1. UNCHANGED <<book, bookRows, dueRows, screen, wire, behind>> /\ stage' = "failed"
    BY <1>13 DEF CannotShow
  <2>2. QED
    BY <1>1, <2>1 DEF BookSound, RowShaped
<1>14. ASSUME ShowMarket PROVE BookSound'
  <2>1. /\ UNCHANGED <<book, wire, behind>> /\ stage = "reading" /\ "book" \in got
        /\ stage' = "shown" /\ ApplyUnits(BlankRows, read.book)
        /\ screen' = [i \in Displayed |-> bookRows'[i]]
    BY <1>14 DEF ShowMarket, OrderbookProvider, Feeds
  <2>2. bookRows' = RowsOf(read.book) /\ RowShaped(bookRows')
    BY <2>1, RowsShaped, ApplyUnitsGives
  <2>3. \A i \in Displayed : screen'[i] = bookRows'[i]
    BY <2>1
  <2>4. "book" \notin behind' /\ book' # NoBook => bookRows' = RowsOf(book')
    BY <1>1, <2>1, <2>2 DEF BookSound
  <2>5. RowShaped(bookRows)'
    BY <2>2 DEF RowShaped
  <2>6. /\ book' \in Books \cup {NoBook} /\ wire'["book"] \in Seq(Books)
        /\ wire'["book"] # <<>> => wire'["book"][Len(wire'["book"])] = book'
    BY <1>1, <2>1 DEF BookSound
  <2>7. QED
    BY <2>1, <2>3, <2>4, <2>5, <2>6 DEF BookSound
<1>15. ASSUME StreamTrades \/ StreamOrderbook \/ StreamTickers PROVE BookSound'
  <2>1. UNCHANGED <<book, stage, wire, got, read, bookRows, dueRows, screen, behind>>
    BY <1>15 DEF StreamTrades, StreamOrderbook, StreamTickers, Connects
  <2>2. QED
    BY <1>1, <2>1, BookFrame
<1>16. ASSUME OnTrade PROVE BookSound'
  BY <1>3, <1>16 DEF OnTrade
<1>17. ASSUME OnTicker PROVE BookSound'
  <2>1. "book" \in behind => "book" \in behind'
    BY <1>17 DEF OnTicker
  <2>2. QED
    BY <1>3, <1>17, <2>1 DEF OnTicker
<1>18. ASSUME OnOrderbook PROVE BookSound'
  <2> DEFINE q == wire["book"]
  <2>1. /\ UNCHANGED <<book, stage, got, read, screen>> /\ q # <<>> /\ wire'["book"] = Tail(q)
        /\ ApplyUnits(bookRows, Head(q))
    BY <1>1, <1>18 DEF OnOrderbook, Takes, PageSound, Feeds
  <2>2. q \in Seq(Books) /\ q[Len(q)] = book
    BY <1>1, <2>1 DEF BookSound
  <2>3. stage = "shown"
    BY <1>1, <2>1 DEF PageSound, Feeds
  <2> HIDE DEF q
  <2>4. /\ Tail(q) \in Seq(Books) /\ Head(q) \in Books
        /\ Tail(q) # <<>> => Tail(q)[Len(Tail(q))] = q[Len(q)]
        /\ Tail(q) = <<>> => Head(q) = q[Len(q)]
    <3>1. \E e : e \in Books
      <4>1. q[1] \in Books
        BY <2>1, <2>2
      <4>2. QED
        BY <4>1
    <3>2. QED
      BY <2>1, <2>2, <3>1, QueueFacts
  <2>5. /\ bookRows' = RowsOf(Head(q)) /\ RowShaped(bookRows')
        /\ \A i \in DOMAIN bookRows : i \in dueRows' \/ bookRows'[i] = bookRows[i]
        /\ dueRows \subseteq dueRows'
    BY <1>1, <2>1, ApplyUnitsGives DEF BookSound
  <2>6. \A i \in Displayed \ dueRows' : screen'[i] = bookRows'[i]
    <3>1. Displayed \subseteq DOMAIN bookRows
      BY <1>1, DisplayedRows DEF BookSound, RowShaped
    <3>2. QED
      BY <1>1, <2>1, <2>5, <3>1 DEF BookSound
  <2>7. book' \in Books \cup {NoBook} /\ RowShaped(bookRows)'
    BY <1>1, <2>1, <2>5 DEF BookSound, RowShaped
  <2>8. wire'["book"] \in Seq(Books) /\ (wire'["book"] # <<>> => wire'["book"][Len(wire'["book"])] = book')
    BY <2>1, <2>2, <2>4
  <2>9. stage' = "shown" /\ (wire'["book"] = <<>> => bookRows' = RowsOf(book'))
    BY <2>1, <2>2, <2>3, <2>4, <2>5
  <2>10. QED
    BY <2>6, <2>7, <2>8, <2>9 DEF BookSound
<1>19. ASSUME NotifyTrades PROVE BookSound'
  <2>1. UNCHANGED <<book, stage, wire, got, read, bookRows, dueRows, screen, behind>>
    BY <1>19 DEF NotifyTrades
  <2>2. QED
    BY <1>1, <2>1, BookFrame
<1>20. ASSUME FlushRows PROVE BookSound'
  <2>1. /\ UNCHANGED <<book, stage, wire, got, read, bookRows, behind>>
        /\ screen' = [i \in Displayed |-> IF i \in dueRows THEN bookRows[i] ELSE screen[i]]
    BY <1>20 DEF FlushRows
  <2>2. \A i \in Displayed : screen'[i] = bookRows'[i]
    BY <1>1, <2>1 DEF BookSound
  <2>3. QED
    BY <1>1, <2>1, <2>2 DEF BookSound, RowShaped
<1>21. QED
  BY <1>4, <1>5, <1>6, <1>8, <1>9, <1>10, <1>11, <1>12, <1>13, <1>14, <1>15, <1>16, <1>17, <1>18,
     <1>19, <1>20
     DEF StreamsNext
\* Steps that are not about the ticker.
LEMMA TickerFrame ==
  ASSUME TickerSound, UNCHANGED <<ticker, known, stage>>,
         read'.ticker = read.ticker, wire'["ticker"] = wire["ticker"],
         "ticker" \in got' => "ticker" \in got, "ticker" \in behind => "ticker" \in behind'
  PROVE  TickerSound'
BY DEF TickerSound

LEMMA TickerStep ==
  ASSUME StreamsSound, StreamsNext
  PROVE  TickerSound'
<1> USE DEF fed, served, displayed
<1>1. PageSound /\ TickerSound
  BY DEF StreamsSound
<1>2. ASSUME NEW f \in {"trades", "book"}, NEW e, Pushed(f, e), UNCHANGED ticker,
             "ticker" \in behind => "ticker" \in behind'
      PROVE  TickerSound'
  <2>1. wire' = wire \/ wire' = [wire EXCEPT ![f] = Append(@, e)]
    BY <1>2 DEF Pushed
  <2>2. wire'["ticker"] = wire["ticker"]
    BY <1>1, <1>2, <2>1 DEF PageSound, Feeds
  <2>3. UNCHANGED <<stage, got, read, known>>
    BY <1>2 DEF Pushed
  <2>4. QED
    BY <1>1, <1>2, <2>2, <2>3, TickerFrame
<1>3. ASSUME NEW f \in {"trades", "book"}, Takes(f), UNCHANGED known,
             "ticker" \in behind => "ticker" \in behind'
      PROVE  TickerSound'
  <2>1. wire'["ticker"] = wire["ticker"]
    BY <1>1, <1>3 DEF Takes, PageSound, Feeds
  <2>2. UNCHANGED <<ticker, stage, got, read>>
    BY <1>3 DEF Takes
  <2>3. QED
    BY <1>1, <1>3, <2>1, <2>2, TickerFrame
<1>4. ASSUME NEW at \in Stamps, HandleRawTrade(at) PROVE TickerSound'
  BY <1>2, <1>4 DEF HandleRawTrade
<1>5. ASSUME NEW b \in Books, HandleRawOrderbook(b) PROVE TickerSound'
  <2>1. "ticker" \in behind => "ticker" \in behind'
    BY <1>5 DEF HandleRawOrderbook
  <2>2. QED
    BY <1>2, <1>5, <2>1 DEF HandleRawOrderbook
<1>6. ASSUME HandleRawTicker PROVE TickerSound'
  <2> DEFINE n == messages + 1
  <2>1. /\ ticker' = n /\ n \in Nat /\ UNCHANGED <<stage, got, read, known>>
        /\ wire' = IF "ticker" \in link THEN [wire EXCEPT !["ticker"] = Append(@, n)] ELSE wire
        /\ "ticker" \in got /\ "ticker" \notin link => "ticker" \in behind'
    BY <1>1, <1>6 DEF HandleRawTicker, Pushed, Passes, PageSound
  <2> HIDE DEF n
  <2>2. wire'["ticker"] = IF "ticker" \in link THEN Append(wire["ticker"], n) ELSE wire["ticker"]
    BY <1>1, <2>1 DEF PageSound, Feeds
  <2>3. /\ Append(wire["ticker"], n) \in Seq(Nat) /\ Append(wire["ticker"], n) # <<>>
        /\ Append(wire["ticker"], n)[Len(Append(wire["ticker"], n))] = n
    <3>1. wire["ticker"] \in Seq(Nat)
      BY <1>1 DEF TickerSound
    <3>2. QED
      BY <2>1, <3>1, QueueFacts
  <2>4. CASE "ticker" \in link
    <3>1. stage' = "shown" /\ wire'["ticker"] = Append(wire["ticker"], n)
      BY <1>1, <2>1, <2>2, <2>4 DEF PageSound
    <3>2. /\ wire'["ticker"] \in Seq(Nat) /\ wire'["ticker"] # <<>>
          /\ wire'["ticker"][Len(wire'["ticker"])] = n
      BY <2>3, <3>1
    <3>3. QED
      BY <2>1, <3>1, <3>2 DEF TickerSound
  <2>5. CASE "ticker" \notin link
    <3>1. wire'["ticker"] = <<>> /\ wire'["ticker"] \in Seq(Nat)
      BY <1>1, <2>2, <2>5 DEF PageSound, TickerSound, Feeds
    <3>2. "ticker" \in got' /\ stage' \in {"reading", "shown"} => "ticker" \in behind'
      BY <2>1, <2>5
    <3>3. stage' = "shown" => "ticker" \in got'
      BY <1>1, <2>1 DEF PageSound, Feeds
    <3>4. QED
      BY <2>1, <3>1, <3>2, <3>3 DEF TickerSound
  <2>6. QED
    BY <2>4, <2>5
<1>7. ASSUME NEW fs, Break(fs), ticker' = ticker \/ (ticker' = 0 /\ fs = Feeds) PROVE TickerSound'
  <2>1. /\ UNCHANGED <<stage, got, read, known>>
        /\ wire'["ticker"] = IF "ticker" \in fs THEN <<>> ELSE wire["ticker"]
        /\ "ticker" \in fs /\ wire["ticker"] # <<>> => "ticker" \in behind'
        /\ "ticker" \in behind => "ticker" \in behind'
    BY <1>7 DEF Break, Feeds
  <2>2. ticker' \in Nat
    BY <1>1, <1>7 DEF TickerSound
  <2>3. /\ wire'["ticker"] \in Seq(Nat)
        /\ wire'["ticker"] # <<>> => wire'["ticker"] = wire["ticker"] /\ ticker' = ticker
    BY <1>1, <1>7, <2>1 DEF TickerSound, Feeds
  <2>4. wire'["ticker"] # <<>> => wire'["ticker"][Len(wire'["ticker"])] = ticker'
    BY <1>1, <2>3 DEF TickerSound
  <2>5. ASSUME "ticker" \notin behind', ticker' # 0
        PROVE  /\ stage' = "reading" /\ "ticker" \in got' => read'.ticker = ticker'
               /\ stage' = "shown" /\ wire'["ticker"] = <<>> => known' \in {0, ticker'}
    <3>1. "ticker" \notin behind /\ ticker # 0 /\ ticker' = ticker
      BY <1>7, <2>1, <2>5
    <3>2. wire'["ticker"] = <<>> => wire["ticker"] = <<>>
      BY <2>1, <2>5
    <3>3. QED
      BY <1>1, <2>1, <3>1, <3>2 DEF TickerSound
  <2>6. QED
    BY <2>2, <2>3, <2>4, <2>5 DEF TickerSound
<1>8. ASSUME NEW f \in Feeds, FeedBreaks(f) PROVE TickerSound'
  <2>1. Break({f}) /\ ticker' = ticker
    BY <1>8 DEF FeedBreaks
  <2>2. QED
    BY <1>7, <2>1
<1>9. ASSUME ServerRestarts PROVE TickerSound'
  BY <1>7, <1>9 DEF ServerRestarts
<1>10. ASSUME OpenMarket PROVE TickerSound'
  <2>1. ticker' = ticker /\ stage' = "reading" /\ got' = {} /\ wire'["ticker"] = <<>>
    BY <1>10 DEF OpenMarket, NoEvents, Feeds
  <2>2. QED
    BY <1>1, <2>1 DEF TickerSound
<1>11. ASSUME GetRecentTrades \/ GetOrderbook PROVE TickerSound'
  <2>1. /\ UNCHANGED <<ticker, known, stage, wire, behind>>
        /\ read'.ticker = read.ticker /\ ("ticker" \in got' => "ticker" \in got)
    BY <1>1, <1>11 DEF GetRecentTrades, GetOrderbook, Reads, PageSound, ReadType
  <2>2. QED
    BY <1>1, <2>1, TickerFrame
<1>12. ASSUME GetTickers PROVE TickerSound'
  <2>1. /\ UNCHANGED <<ticker, known, stage, wire, behind>>
        /\ read'.ticker = ticker /\ stage = "reading"
    BY <1>1, <1>12 DEF GetTickers, Reads, PageSound, ReadType
  <2>2. QED
    BY <1>1, <2>1 DEF TickerSound
<1>13. ASSUME CannotShow PROVE TickerSound'
  <2>1. UNCHANGED <<ticker, wire, behind>> /\ stage' = "failed"
    BY <1>13 DEF CannotShow
  <2>2. QED
    BY <1>1, <2>1 DEF TickerSound
<1>14. ASSUME ShowMarket PROVE TickerSound'
  <2>1. /\ UNCHANGED <<ticker, wire, behind>> /\ stage = "reading" /\ "ticker" \in got
        /\ stage' = "shown" /\ known' = read.ticker
    BY <1>14 DEF ShowMarket, TickerProvider, Feeds
  <2>2. QED
    BY <1>1, <2>1 DEF TickerSound
<1>15. ASSUME StreamTrades \/ StreamOrderbook \/ StreamTickers PROVE TickerSound'
  <2>1. UNCHANGED <<ticker, stage, wire, got, read, known, behind>>
    BY <1>15 DEF StreamTrades, StreamOrderbook, StreamTickers, Connects
  <2>2. QED
    BY <1>1, <2>1, TickerFrame
<1>16. ASSUME OnTrade PROVE TickerSound'
  BY <1>3, <1>16 DEF OnTrade
<1>17. ASSUME OnOrderbook PROVE TickerSound'
  <2>1. "ticker" \in behind => "ticker" \in behind'
    BY <1>17 DEF OnOrderbook
  <2>2. QED
    BY <1>3, <1>17, <2>1 DEF OnOrderbook
<1>18. ASSUME OnTicker PROVE TickerSound'
  <2> DEFINE q == wire["ticker"]
  <2>1. /\ UNCHANGED <<ticker, stage, got, read>> /\ q # <<>> /\ wire'["ticker"] = Tail(q)
        /\ known' = IF known = 0 THEN 0 ELSE Head(q)
    BY <1>1, <1>18 DEF OnTicker, Takes, PageSound, Feeds
  <2>2. q \in Seq(Nat) /\ q[Len(q)] = ticker /\ ticker \in Nat
    BY <1>1, <2>1 DEF TickerSound
  <2>3. stage = "shown"
    BY <1>1, <2>1 DEF PageSound, Feeds
  <2> HIDE DEF q
  <2>4. /\ Tail(q) \in Seq(Nat)
        /\ Tail(q) # <<>> => Tail(q)[Len(Tail(q))] = q[Len(q)]
        /\ Tail(q) = <<>> => Head(q) = q[Len(q)]
    BY <2>1, <2>2, QueueFacts
  <2>5. wire'["ticker"] \in Seq(Nat) /\ (wire'["ticker"] # <<>> => wire'["ticker"][Len(wire'["ticker"])] = ticker')
    BY <2>1, <2>2, <2>4
  <2>6. stage' = "shown" /\ (wire'["ticker"] = <<>> => known' \in {0, ticker'})
    BY <2>1, <2>2, <2>3, <2>4
  <2>7. QED
    BY <2>1, <2>2, <2>5, <2>6 DEF TickerSound
<1>19. ASSUME NotifyTrades \/ FlushRows PROVE TickerSound'
  <2>1. UNCHANGED <<ticker, stage, wire, got, read, known, behind>>
    BY <1>19 DEF NotifyTrades, FlushRows
  <2>2. QED
    BY <1>1, <2>1, TickerFrame
<1>20. QED
  BY <1>4, <1>5, <1>6, <1>8, <1>9, <1>10, <1>11, <1>12, <1>13, <1>14, <1>15, <1>16, <1>17, <1>18,
     <1>19
     DEF StreamsNext

-----------------------------------------------------------------------------
(* What the page shows                                                      *)

LEMMA StreamsSoundFollows == StreamsSound => PageFollowsFeed
<1> SUFFICES ASSUME StreamsSound PROVE PageFollowsFeed
  OBVIOUS
<1>1. PageSound /\ TradesSound /\ BookSound /\ TickerSound
  BY DEF StreamsSound
<1>2. \A f \in Feeds : CaughtUp(f) => stage = "shown" /\ wire[f] = <<>>
  BY <1>1 DEF CaughtUp, PageSound
<1>3. TradesFollow
  <2>1. \A i, j \in DOMAIN trades :
          i < j => trades[i].at >= trades[j].at /\ trades[i].id # trades[j].id
    <3>1. \A i \in DOMAIN trades : i \in Nat
      BY <1>1 DEF TradesSound, Single
    <3>2. QED
      BY <1>1, <3>1 DEF TradesSound, Single, Sorted
  <2>2. CaughtUp("trades") =>
          \A t \in Range(recent) :
            \/ t \in Range(trades) \/ t.id \in missed
            \/ Len(trades) = MAX_TRADES /\ trades[MAX_TRADES].at >= t.at
    <3>1. ASSUME CaughtUp("trades") PROVE stage = "shown" /\ wire["trades"] = <<>>
      BY <1>2, <3>1 DEF Feeds
    <3>2. Range(<<>>) = {}
      BY DEF Range
    <3>3. QED
      BY <1>1, <3>1, <3>2 DEF TradesSound, Kept
  <2>3. QED
    BY <1>1, <2>1, <2>2 DEF TradesFollow, TradesSound
<1>4. BookFollows
  <2>1. ASSUME CaughtUp("book"), "book" \notin behind, book # NoBook
        PROVE  bookRows = RowsOf(book)
    BY <1>1, <1>2, <2>1 DEF BookSound, Feeds
  <2>2. ASSUME CaughtUp("book"), "book" \notin behind, Half > 1
        PROVE  /\ Cardinality(Levels(book.asks)) = Half =>
                    bookRows[Half - 1].price = Min(Levels(book.asks))
               /\ Cardinality(Levels(book.bids)) = Half =>
                    bookRows[Half].price = Max(Levels(book.bids))
    <3>1. CASE book = NoBook
      <4>1. Levels(book.asks) = {} /\ Levels(book.bids) = {}
        BY <3>1 DEF NoBook, Levels
      <4>2. Cardinality({}) # Half
        BY <2>2, FS_EmptySet, StreamsAssumption
      <4>3. QED
        BY <4>1, <4>2
    <3>2. CASE book # NoBook
      <4>1. bookRows = RowsOf(book) /\ book \in Books
        BY <1>1, <2>1, <2>2, <3>2 DEF BookSound
      <4>2. IsSide(book.asks) /\ IsSide(book.bids)
        BY <4>1, StreamsAssumption DEF IsSide
      <4>3. QED
        BY <2>2, <4>1, <4>2, BestAsk, BestBid
    <3>3. QED
      BY <3>1, <3>2
  <2>3. QED
    BY <1>1, <2>1, <2>2 DEF BookFollows, BookSound
<1>5. TickerFollows
  BY <1>1, <1>2 DEF TickerFollows, TickerSound, Feeds
<1>6. QED
  BY <1>3, <1>4, <1>5 DEF PageFollowsFeed

LEMMA StreamsSoundStays == StreamsSound /\ [StreamsNext]_streamVars => StreamsSound'
<1> SUFFICES ASSUME StreamsSound, [StreamsNext]_streamVars PROVE StreamsSound'
  OBVIOUS
<1>1. CASE StreamsNext
  BY <1>1, PageStep, TradesStep, BookStep, TickerStep DEF StreamsSound
<1>2. CASE UNCHANGED streamVars
  <2>1. /\ UNCHANGED <<recent, book, ticker, messages, link, wire, stage, got, read, trades>>
        /\ UNCHANGED <<dueTrades, bookRows, dueRows, known, listed, screen, missed, behind>>
    BY <1>2 DEF streamVars, served, fed, displayed
  <2>2. PageSound /\ TradesSound /\ BookSound /\ TickerSound
    BY DEF StreamsSound
  <2>3. PageSound'
    BY <2>1, <2>2 DEF PageSound
  <2>4. TradesSound'
    BY <2>1, <2>2, TradesFrame
  <2>5. BookSound' /\ TickerSound'
    BY <2>1, <2>2, BookFrame, TickerFrame
  <2>6. QED
    BY <2>3, <2>4, <2>5 DEF StreamsSound
<1>3. QED
  BY <1>1, <1>2

-----------------------------------------------------------------------------
(* The market                                                               *)

\* One of the two moves, and the other keeps its invariant.
LEMMA FeedStays ==
  /\ TrackSound /\ [FeedNext]_feedVars => TrackSound'
  /\ StreamsSound /\ [FeedNext]_feedVars => StreamsSound'
<1>1. ASSUME TrackSound, [FeedNext]_feedVars PROVE TrackSound'
  <2>1. CASE MoveTracker
    BY <1>1, <2>1, TrackSoundStays DEF MoveTracker
  <2>2. CASE MoveStreams \/ UNCHANGED feedVars
    BY <1>1, <2>2, TrackSoundFrame DEF MoveStreams, feedVars
  <2>3. QED
    BY <1>1, <2>1, <2>2 DEF FeedNext
<1>2. ASSUME StreamsSound, [FeedNext]_feedVars PROVE StreamsSound'
  <2>1. CASE MoveStreams
    BY <1>2, <2>1, StreamsSoundStays DEF MoveStreams
  <2>2. CASE MoveTracker \/ UNCHANGED feedVars
    BY <1>2, <2>2, StreamsSoundStays DEF MoveTracker, feedVars
  <2>3. QED
    BY <1>2, <2>1, <2>2 DEF FeedNext
<1>3. QED
  BY <1>1, <1>2

\* What the tracker keeps of a market (CandleVolumeTracker), with any number of
\* handlers and init jobs meeting at their awaits, crashes and expired keys.
THEOREM TrackSoundHolds == FeedSpec => []TrackSound
<1>1. FeedInit => TrackSound
  BY TrackSoundInit DEF FeedInit
<1>2. TrackSound /\ [FeedNext]_feedVars => TrackSound'
  BY FeedStays
<1>3. QED
  BY <1>1, <1>2, PTL DEF FeedSpec

\* Every candle the stream spoke of is saved once another has taken its place,
\* and is in the set once, but for the races and faults that mark it
\* (finalizeCandle, CandleInitProcessor).
THEOREM CountedOnceHolds == FeedSpec => []CountedOnce
BY TrackSoundHolds, SoundIsCounted, PTL

\* The volume of a day, week or month is off by one candle at most, while no
\* candle met a race or a fault (getDailyVolume, getWeeklyVolume,
\* getMonthlyVolume).
THEOREM AnswerOffByOneCandleHolds == FeedSpec => []AnswerOffByOneCandle
BY TrackSoundHolds, SoundIsAnswered, PTL

\* What a page shows of a market follows the server's trades, book and ticker
\* (TradeStore, OrderbookRowStore, TickerStore), up to the messages that came
\* to no connection: for any books and time stamps, any number of messages,
\* broken connections and pages, and any sizes of the lists.
THEOREM PageFollowsFeedHolds == FeedSpec => []PageFollowsFeed
<1>1. FeedInit => StreamsSound
  BY StreamsInitSound DEF FeedInit
<1>2. StreamsSound /\ [FeedNext]_feedVars => StreamsSound'
  BY FeedStays
<1>3. QED
  BY <1>1, <1>2, StreamsSoundFollows, PTL DEF FeedSpec
=============================================================================
