---------------------------- MODULE CandleTracker ----------------------------
(***************************************************************************)
(* The 4-hour candles of one market (CandleVolumeTracker): the candle in   *)
(* progress is kept in Redis, and saved when the stream speaks of another. *)
(*                                                                         *)
(* Every message starts a handler, and nothing serializes the handlers of  *)
(* a market: they meet at every await.  Redis serves the commands of its   *)
(* one connection in the order they were issued (queue: the calls that     *)
(* wait for an answer, each for one), so a handler's next command comes    *)
(* after those already issued by others; the database answers any time.    *)
(* An init job writes what the REST service says of the market; a query    *)
(* adds up the volumes of a period.                                        *)
(*                                                                         *)
(* Time is counted in candles, and a volume in trades.  The horizon is     *)
(* below MAX_FINALIZED_CACHE, so trimming the set removes nothing.         *)
(***************************************************************************)
EXTENDS Integers, Sequences, FiniteSets

CONSTANTS
  Handlers,   \* messages that may be handled at once
  LastCandle, \* bound: a behaviour spans the candles 1..LastCandle
  MaxTrades,  \* bound: trades in all
  Lifetime,   \* candles after which the keys of Redis expire (48 hours: 12)
  Jobs,       \* bound: init jobs
  Origin      \* hour, counted from a Sunday 00:00 UTC, of candle 0

ASSUME CandleTrackerAssumption ==
  /\ IsFiniteSet(Handlers) /\ {"init", "query"} \cap Handlers = {}
  /\ LastCandle \in Nat \ {0} /\ MaxTrades \in Nat /\ Jobs \in Nat
  /\ Origin \in Nat
  /\ Lifetime \in Nat \ {0}

VARIABLES
  now,       \* the candle in progress
  traded,    \* what Upbit knows: trades per candle
  current,   \* Redis: candle:240m:<market>:current
  lastTime,  \* Redis: ...:last-time
  finalized, \* Redis: ...:finalized, the volumes of the members per candle
  db,        \* CANDLE_240M_FINALIZED: the volume saved for a candle
  queue,     \* calls with a command at Redis
  call,      \* handlers under way
  job,       \* the init job
  jobs,      \* init jobs still to come
  ask,       \* the query
  heard,     \* history: the largest volume a message gave for a candle
  disturbed, \* history: candles that met one of the races and faults below
  refilled   \* history: candles an init job has put into the set

stores  == <<current, lastTime, finalized, db>>
history == <<heard, disturbed, refilled>>
vars == <<now, traded, stores, queue, call, job, jobs, ask, history>>

Times   == 1..LastCandle
Volumes == 0..MaxTrades
None    == 0
Candle  == [time : Times, volume : Volumes]
NoCandle == [time |-> None, volume |-> 0]

DbSteps    == {"find", "save"}
RedisSteps == {"getLast", "getCurrent", "zadd", "trim", "expire", "setCurrent", "setLast"}

Call == [step : DbSteps \cup RedisSteps, candle : Candle, prev : Candle \cup {NoCandle}]
Idle == [step |-> "idle", candle |-> NoCandle, prev |-> NoCandle]

Job == [step : {"setCurrent", "setLast", "save", "remove", "add"},
        rest : [Times -> Volumes]]
NoJob == [step |-> "idle", rest |-> [c \in Times |-> 0]]

Ask == [step : {"range", "get", "done"}, of : SUBSET Times, known : SUBSET Times,
        count : [Times -> Nat]]
NoAsk == [step |-> "idle", of |-> {}, known |-> {}, count |-> [c \in Times |-> 0]]

TypeOK ==
  /\ now \in Times
  /\ traded \in [Times -> Volumes] /\ heard \in [Times -> Volumes]
  /\ current \in Candle \cup {NoCandle} /\ lastTime \in Times \cup {None}
  /\ finalized \in [Times -> Seq(Volumes)]
  /\ db \in [Times -> Volumes]
  /\ call \in [Handlers -> Call \cup {Idle}]
  /\ job \in Job \cup {NoJob} /\ jobs \in 0..Jobs
  /\ ask \in Ask \cup {NoAsk}
  /\ \A i \in DOMAIN queue :
       \/ queue[i] \in Handlers /\ call[queue[i]].step \in RedisSteps
       \/ queue[i] = "init" /\ job.step \in {"setCurrent", "setLast", "remove", "add"}
       \/ queue[i] = "query" /\ ask.step \in {"range", "get"}
  /\ disturbed \subseteq Times /\ refilled \subseteq Times

Init ==
  /\ now = 1
  /\ traded = [c \in Times |-> 0] /\ heard = [c \in Times |-> 0]
  /\ current = NoCandle /\ lastTime = None
  /\ finalized = [c \in Times |-> <<>>]
  /\ db = [c \in Times |-> None]
  /\ queue = <<>> /\ call = [h \in Handlers |-> Idle]
  /\ job = NoJob /\ jobs = Jobs /\ ask = NoAsk
  /\ disturbed = {} /\ refilled = {}

-----------------------------------------------------------------------------
(* The market                                                               *)

\* A trade, which the stream tells (a handler starts) or loses.  A candle of
\* volume 0 does not exist.
Trade ==
  /\ Cardinality({t \in Times \X Volumes : t[2] < traded[t[1]]}) < MaxTrades
  /\ traded' = [traded EXCEPT ![now] = @ + 1]
  /\ \/ UNCHANGED <<queue, call, heard>>
     \/ \E h \in Handlers :
          /\ call[h] = Idle
          /\ call' = [call EXCEPT ![h] =
                        [step |-> "getLast", prev |-> NoCandle,
                         candle |-> [time |-> now, volume |-> traded[now] + 1]]]
          /\ queue' = Append(queue, h)
          /\ heard' = [heard EXCEPT ![now] = traded[now] + 1]
  /\ UNCHANGED <<now, stores, job, jobs, ask, disturbed, refilled>>

\* No call takes as long as a candle: what is under way began in this one.
Close ==
  /\ now < LastCandle
  /\ \A h \in Handlers : call[h] # Idle => call[h].candle.time = now
  /\ job.step # "idle" => \A c \in Times : c < now => job.rest[c] = traded[c]
  /\ now' = now + 1
  /\ UNCHANGED <<traded, stores, queue, call, job, jobs, ask, history>>

-----------------------------------------------------------------------------
(* handleCandle240m and finalizeCandle                                      *)

First(h) == queue # <<>> /\ Head(queue) = h

\* The call's next command goes to the end of the queue, or it waits for
\* something else.
Issue(h) == queue' = Append(Tail(queue), h)
Leave    == queue' = Tail(queue)

Goto(h, step) == call' = [call EXCEPT ![h].step = step]

GetLast(h) ==
  /\ First(h) /\ call[h].step = "getLast"
  /\ Goto(h, IF lastTime \notin {None, call[h].candle.time} THEN "getCurrent"
                                                             ELSE "setCurrent")
  /\ Issue(h)
  /\ UNCHANGED <<now, traded, stores, job, jobs, ask, history>>

\* The candle to finalize, if its key has not expired.
GetCurrent(h) ==
  /\ First(h) /\ call[h].step = "getCurrent"
  /\ IF current = NoCandle
     THEN Goto(h, "setCurrent") /\ Issue(h)
     ELSE /\ call' = [call EXCEPT ![h].step = "find", ![h].prev = current]
          /\ Leave
  /\ UNCHANGED <<now, traded, stores, job, jobs, ask, history>>

\* finalizeCandle: a candle that has a row is left alone.
Find(h) ==
  /\ call[h].step = "find"
  /\ IF db[call[h].prev.time] # None
     THEN Goto(h, "setCurrent") /\ queue' = Append(queue, h)
     ELSE Goto(h, "save") /\ UNCHANGED queue
  /\ UNCHANGED <<now, traded, stores, job, jobs, ask, history>>

\* Another handler has raised the candle since it was read.
Outdated(read) == current.time = read.time /\ current.volume > read.volume

\* Mutant: the volume of the new candle is saved for the old one.
SaveNew(h) ==
  LET c == call[h].prev.time
  IN /\ call[h].step = "save"
     /\ db[c] = None
     /\ db' = [db EXCEPT ![c] = call[h].candle.volume]
     /\ disturbed' = IF Outdated(call[h].prev) THEN disturbed \cup {c} ELSE disturbed
     /\ Goto(h, "zadd") /\ queue' = Append(queue, h)
     /\ UNCHANGED <<now, traded, current, lastTime, finalized, job, jobs, ask,
                    heard, refilled>>

\* The index on market and time is unique.  What is saved was read before the
\* database was asked for a row.
Save(h) ==
  LET c == call[h].prev.time
  IN /\ call[h].step = "save"
     /\ db[c] = None
     /\ db' = [db EXCEPT ![c] = call[h].prev.volume]
     /\ disturbed' = IF Outdated(call[h].prev) THEN disturbed \cup {c} ELSE disturbed
     /\ Goto(h, "zadd") /\ queue' = Append(queue, h)
     /\ UNCHANGED <<now, traded, current, lastTime, finalized, job, jobs, ask,
                    heard, refilled>>

\* The row is there by now, or the database fails: logged, and the handler
\* goes on.
SaveFails(h) ==
  LET c == call[h].prev.time
  IN /\ call[h].step \in DbSteps
     /\ disturbed' = IF db[c] = None THEN disturbed \cup {c} ELSE disturbed
     /\ Goto(h, "setCurrent") /\ queue' = Append(queue, h)
     /\ UNCHANGED <<now, traded, stores, job, jobs, ask, heard, refilled>>

\* Mutant: the new candle goes into the set instead of the one it follows.
ZaddNew(h) ==
  /\ First(h) /\ call[h].step = "zadd"
  /\ finalized' = [finalized EXCEPT ![call[h].candle.time] =
                     Append(@, call[h].candle.volume)]
  /\ Goto(h, "trim") /\ Issue(h)
  /\ UNCHANGED <<now, traded, current, lastTime, db, job, jobs, ask, history>>

Zadd(h) ==
  /\ First(h) /\ call[h].step = "zadd"
  /\ finalized' = [finalized EXCEPT ![call[h].prev.time] =
                     Append(@, call[h].prev.volume)]
  /\ Goto(h, "trim") /\ Issue(h)
  /\ UNCHANGED <<now, traded, current, lastTime, db, job, jobs, ask, history>>

\* zremrangebyrank and expire, which change nothing here.
Tidy(h) ==
  /\ First(h) /\ call[h].step \in {"trim", "expire"}
  /\ Goto(h, IF call[h].step = "trim" THEN "expire" ELSE "setCurrent")
  /\ Issue(h)
  /\ UNCHANGED <<now, traded, stores, job, jobs, ask, history>>

\* Candles a write of the current one does harm to: the one kept so far, when
\* nobody finalizes it or when it is set back; the new one, when it has been
\* saved with less.
Harmed(new, finalizing) ==
  {c \in Times :
     \/ c = current.time /\ current # finalizing
        /\ (c # new.time \/ current.volume > new.volume)
     \/ c = new.time /\ db[c] # None /\ db[c] < new.volume}

SetCurrent(h) ==
  /\ First(h) /\ call[h].step = "setCurrent"
  /\ disturbed' = disturbed \cup Harmed(call[h].candle, call[h].prev)
  /\ current' = call[h].candle
  /\ Goto(h, "setLast") /\ Issue(h)
  /\ UNCHANGED <<now, traded, lastTime, finalized, db, job, jobs, ask, heard, refilled>>

SetLast(h) ==
  /\ First(h) /\ call[h].step = "setLast"
  /\ lastTime' = call[h].candle.time
  /\ call' = [call EXCEPT ![h] = Idle]
  /\ Leave
  /\ UNCHANGED <<now, traded, current, finalized, db, job, jobs, ask, history>>

-----------------------------------------------------------------------------
(* CandleInitProcessor and saveMarketCandles                                *)

Known(rest) == {c \in Times : rest[c] > 0}
Newest(rest) == CHOOSE c \in Known(rest) : \A d \in Known(rest) : d <= c
Closed(rest) == Known(rest) \ {Newest(rest)}

JobAt(step) == job' = [job EXCEPT !.step = step]

\* A job is queued at every start, and when the daily sync brings the market.
\* No candle, or a failing REST service: it is over.
Fetch ==
  /\ job = NoJob /\ jobs > 0 /\ ask.step \in {"idle", "done"}
  /\ jobs' = jobs - 1
  /\ \/ UNCHANGED <<queue, job>>
     \/ /\ Known(traded) # {}
        /\ job' = [step |-> "setCurrent", rest |-> traded]
        /\ queue' = Append(queue, "init")
  /\ UNCHANGED <<now, traded, stores, call, ask, history>>

JobSetsCurrent ==
  LET new == [time |-> Newest(job.rest), volume |-> job.rest[Newest(job.rest)]]
  IN /\ First("init") /\ job.step = "setCurrent"
     /\ current' = new
     /\ disturbed' = disturbed \cup Harmed(new, NoCandle)
     /\ JobAt("setLast") /\ Issue("init")
     /\ UNCHANGED <<now, traded, lastTime, finalized, db, call, jobs, ask, heard, refilled>>

JobSetsLast ==
  /\ First("init") /\ job.step = "setLast"
  /\ lastTime' = Newest(job.rest)
  /\ IF Closed(job.rest) = {} THEN JobAt("add") /\ Issue("init")
                              ELSE JobAt("save") /\ Leave
  /\ UNCHANGED <<now, traded, current, finalized, db, call, jobs, ask, history>>

\* One transaction inserts them all, or none: any row that is there already,
\* or any failure, undoes the insertion.
JobSaves ==
  /\ job.step = "save"
  /\ \/ /\ \A c \in Closed(job.rest) : db[c] = None
        /\ db' = [c \in Times |-> IF c \in Closed(job.rest) THEN job.rest[c] ELSE db[c]]
     \/ UNCHANGED db
  /\ JobAt("remove") /\ queue' = Append(queue, "init")
  /\ UNCHANGED <<now, traded, current, lastTime, finalized, call, jobs, ask, history>>

\* zremrangebyscore, from the oldest to the newest closed candle.
JobRemoves ==
  /\ First("init") /\ job.step = "remove"
  /\ LET gone == {c \in Times : \E d, e \in Closed(job.rest) : d <= c /\ c <= e}
     IN /\ finalized' = [c \in Times |-> IF c \in gone THEN <<>> ELSE finalized[c]]
        /\ refilled' = refilled \cup gone
  /\ JobAt("add") /\ Issue("init")
  /\ UNCHANGED <<now, traded, current, lastTime, db, call, jobs, ask, heard, disturbed>>

JobAdds ==
  /\ First("init") /\ job.step = "add"
  /\ finalized' = [c \in Times |->
       IF c \in Closed(job.rest) THEN Append(finalized[c], job.rest[c]) ELSE finalized[c]]
  /\ job' = NoJob /\ Leave
  /\ UNCHANGED <<now, traded, current, lastTime, db, call, jobs, ask, history>>

-----------------------------------------------------------------------------
(* getDailyVolume, getWeeklyVolume, getMonthlyVolume                        *)

\* getTodayStartUTC in hours: to Korean time, the 09:00 before, and back.
TodayStart(hour) ==
  LET kst    == hour + 9
      target == IF kst % 24 < 9 THEN kst \div 24 - 1 ELSE kst \div 24
  IN target * 24 + 9 - 9

\* getWeekStartUTC; day 0 is a Sunday here.
WeekStart(hour) ==
  LET day  == (hour \div 24) % 7
      diff == IF day = 0 THEN -6 ELSE 1 - day
  IN (hour \div 24 + diff) * 24

Hour(c) == Origin + 4 * c

\* The first hour of the period: day, week, or month (of which the first
\* day is in the past).
Starts == {TodayStart(Hour(now)), WeekStart(Hour(now)), Hour(1)}

AskVolume ==
  /\ ask = NoAsk /\ job = NoJob
  /\ \E start \in Starts :
       LET of == {c \in Times : Hour(c) >= start}
           known == {c \in of : /\ heard[c] > 0
                                /\ \A h \in Handlers : call[h].candle.time # c}
       IN ask' = [step |-> "range", of |-> of, known |-> known,
                  count |-> [c \in Times |-> 0]]
  /\ queue' = Append(queue, "query")
  /\ UNCHANGED <<now, traded, stores, call, job, jobs, history>>

ReadSet ==
  /\ First("query") /\ ask.step = "range"
  /\ ask' = [ask EXCEPT !.step = "get",
               !.count = [c \in Times |-> IF c \in ask.of THEN Len(finalized[c]) ELSE 0]]
  /\ Issue("query")
  /\ UNCHANGED <<now, traded, stores, call, job, jobs, history>>

Answer ==
  /\ First("query") /\ ask.step = "get"
  /\ ask' = [ask EXCEPT !.step = "done",
               !.count = [c \in Times |->
                  IF c = current.time /\ c \in ask.of THEN @[c] + 1 ELSE @[c]]]
  /\ Leave
  /\ UNCHANGED <<now, traded, stores, call, job, jobs, history>>

-----------------------------------------------------------------------------
(* Faults                                                                   *)

\* The server stops; Redis and the database stay.
Crash ==
  /\ disturbed' = disturbed \cup
       {c \in Times : \E h \in Handlers : c \in {call[h].candle.time, call[h].prev.time}}
  /\ call' = [h \in Handlers |-> Idle]
  /\ queue' = <<>> /\ job' = NoJob /\ ask' = NoAsk
  /\ UNCHANGED <<now, traded, stores, jobs, heard, refilled>>

\* The keys of a market without trades expire, at about the same time.
Expire ==
  /\ current # NoCandle /\ now - current.time >= Lifetime
  /\ disturbed' = disturbed \cup {current.time}
  /\ current' = NoCandle
  /\ lastTime' \in {lastTime, None}
  /\ finalized' \in {finalized, [c \in Times |-> <<>>]}
  /\ UNCHANGED <<now, traded, db, queue, call, job, jobs, ask, heard, refilled>>

-----------------------------------------------------------------------------
Handle(h) ==
  \/ GetLast(h) \/ GetCurrent(h) \/ Find(h) \/ Save(h) \/ SaveFails(h)
  \/ Zadd(h) \/ Tidy(h) \/ SetCurrent(h) \/ SetLast(h)

InitJob == JobSetsCurrent \/ JobSetsLast \/ JobSaves \/ JobRemoves \/ JobAdds

Query == ReadSet \/ Answer

Next ==
  \/ Trade \/ Close
  \/ \E h \in Handlers : Handle(h)
  \/ Fetch \/ InitJob
  \/ AskVolume \/ Query
  \/ Crash \/ Expire

Spec == Init /\ [][Next]_vars

-----------------------------------------------------------------------------
Quiet == queue = <<>> /\ job = NoJob /\ \A h \in Handlers : call[h] = Idle

\* A candle the stream spoke of is saved with at least the volume the stream
\* last gave for it, once another has taken its place: unless it met one of
\* the races and faults marked in disturbed (a handler overtook another, it was
\* saved while in progress or as it was before another handler raised it, an
\* init job replaced it, the save failed, a crash, 48 hours without a trade).
\* Nothing else loses a candle.
LostOnlyIfDisturbed ==
  Quiet =>
    \A c \in Times \ (disturbed \cup {current.time}) :
      heard[c] > 0 => heard[c] <= db[c] /\ db[c] <= traded[c]

\* Overlapping handlers never add a candle to the set twice, also when both
\* have found no row; an init job beside them doubles it at most.  The state is
\* typed: the connection's queue holds commands of those at such a step only.
DoubledOnlyByRefill ==
  /\ TypeOK
  /\ \A c \in Times : /\ Len(finalized[c]) <= 2
                      /\ Len(finalized[c]) = 2 => c \in refilled

\* Every closed candle the stream spoke of is saved, and in the set once, but for
\* the races and faults named.
CountedOnce == LostOnlyIfDisturbed /\ DoubledOnlyByRefill

\* A volume misses, or counts twice, at most the one candle that was being
\* finalized, as long as no candle is disturbed and no init job was at work.
AnswerOffByOneCandle ==
  ask.step = "done" /\ disturbed = {} /\ refilled = {}
    => Cardinality({c \in ask.known : ask.count[c] # 1}) <= 1
=============================================================================
