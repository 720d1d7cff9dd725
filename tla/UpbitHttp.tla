------------------------------ MODULE UpbitHttp ------------------------------
(***************************************************************************)
(* Calls to Upbit's REST API: UpbitHttpService's two calls, each run in    *)
(* turn by the queue of UpbitRateLimiter, which starts at most MaxCalls    *)
(* of them in any Window.  A call for candles tries again after a 429 and  *)
(* gives up after a time limit; the market listing does neither.           *)
(*                                                                         *)
(* Time passes in ticks; only how many calls have which age is kept.       *)
(***************************************************************************)
EXTENDS Integers, Sequences, FiniteSetsExt, Tally

CONSTANTS
  Callers,    \* jobs and requests that call
  Listers,    \* those that ask for the market listing
  MaxCalls,   \* MAX_CALLS_PER_SECOND
  Window,     \* WINDOW_MS, in ticks
  MaxRetries, \* maxRetries
  MaxAfter    \* bound: Retry-After, in ticks

ASSUME UpbitHttpAssumption ==
  /\ IsFiniteSet(Callers) /\ Listers \subseteq Callers
  /\ MaxCalls \in Nat \ {0} /\ Window \in Nat \ {0}
  /\ MaxRetries \in Nat /\ MaxAfter \in Nat

VARIABLES
  waiting,    \* callers whose promise is pending
  queue,
  processing,
  looping,    \* a run of processQueue is in its loop
  stamps,     \* callTimestamps: calls per age; older ones are filtered out
  task,       \* the callback being awaited
  pause,      \* ticks left of the limiter's sleep
  repeats     \* history: attempts after the first, per age

httpVars == <<waiting, queue, processing, looping, stamps, task, pause, repeats>>

Ages  == 0..(Window - 1)
Calls(counts) == Total(counts, Ages)

\* at: the callback is waiting for an answer, or sleeping before an attempt.
NoTask == [at |-> "none", tries |-> 0, sleep |-> 0]

HttpTypeOK ==
  /\ waiting \subseteq Callers /\ queue \in Seq(Callers) 
  /\ processing \in BOOLEAN /\ looping \in BOOLEAN
  /\ stamps \in [Ages -> 0..MaxCalls]
  /\ task.at \in {"none", "calling", "sleeping"} /\ task.tries \in 0..MaxRetries
  /\ task.sleep \in 0..MaxAfter /\ pause \in 0..Window
  /\ DOMAIN repeats = Ages /\ \A a \in Ages : repeats[a] \in Nat
  /\ task.at # "none" => queue # <<>> /\ looping
  \* The promises pending are those of the queue, the first of which may run.
  /\ waiting = {queue[k] : k \in DOMAIN queue} /\ Cardinality(waiting) = Len(queue)

HttpInit ==
  /\ waiting = {} /\ queue = <<>> /\ processing = FALSE /\ looping = FALSE
  /\ stamps = [a \in Ages |-> 0] /\ repeats = stamps
  /\ task = NoTask /\ pause = 0

-----------------------------------------------------------------------------

\* execute: the loop is started unless it runs.
Execute(c) ==
  /\ c \notin waiting
  /\ waiting' = waiting \cup {c} /\ queue' = Append(queue, c)
  /\ processing' = TRUE /\ looping' = (looping \/ ~processing)
  /\ UNCHANGED <<stamps, task, pause, repeats>>

\* Mutant: one call too many.
FullLate == Calls(stamps) > MaxCalls
Full == Calls(stamps) >= MaxCalls

\* An iteration of the loop: too many calls in the window, sleep until the
\* oldest leaves it; or start the first of the queue (it leaves the queue here
\* when it is answered).
Proceed ==
  /\ looping /\ task.at = "none" /\ pause = 0 /\ queue # <<>>
  /\ IF Full
     THEN /\ pause' = Window - Max({a \in Ages : stamps[a] > 0})
          /\ UNCHANGED <<stamps, task>>
     ELSE /\ stamps' = [stamps EXCEPT ![0] = @ + 1]
          /\ task' = [NoTask EXCEPT !.at = "calling"]
          /\ UNCHANGED pause
  /\ UNCHANGED <<waiting, queue, processing, looping, repeats>>

\* Mutant: the flag stays when the loop ends.
ProcessingKept == TRUE
ProcessingAfter == Len(queue) > 1

\* The callback returns or throws: its promise settles, and the loop goes on or
\* ends.
Settle ==
  /\ waiting' = waiting \ {Head(queue)} /\ queue' = Tail(queue) /\ task' = NoTask
  /\ looping' = (Len(queue) > 1) /\ processing' = ProcessingAfter
  /\ UNCHANGED <<stamps, pause, repeats>>

\* Any other answer, or the time limit of a call for candles.
Answered == task.at = "calling" /\ Settle

\* 429: sleep for Retry-After, or give up.  The listing throws.
TooMany ==
  /\ task.at = "calling"
  /\ IF Head(queue) \in Listers \/ task.tries = MaxRetries THEN Settle
     ELSE /\ \E after \in 0..MaxAfter : task' = [task EXCEPT !.at = "sleeping", !.sleep = after]
          /\ UNCHANGED <<waiting, queue, processing, looping, stamps, pause, repeats>>

\* Another attempt, which the limiter does not count.
Retry ==
  /\ task.at = "sleeping" /\ task.sleep = 0
  /\ task' = [at |-> "calling", tries |-> task.tries + 1, sleep |-> 0]
  /\ repeats' = [repeats EXCEPT ![0] = @ + 1]
  /\ UNCHANGED <<waiting, queue, processing, looping, stamps, pause>>

Aged(counts) == [a \in Ages |-> IF a = 0 THEN 0 ELSE counts[a - 1]]
Less(n) == IF n = 0 THEN 0 ELSE n - 1

Tick ==
  /\ stamps' = Aged(stamps) /\ repeats' = Aged(repeats)
  /\ pause' = Less(pause) /\ task' = [task EXCEPT !.sleep = Less(@)]
  /\ UNCHANGED <<waiting, queue, processing, looping>>

HttpNext == (\E c \in Callers : Execute(c)) \/ Proceed \/ Answered \/ TooMany \/ Retry \/ Tick

\* Timers fire, and every call ends: one for candles at its time limit, the
\* listing when the HTTP library gives up.
HttpFairness == WF_httpVars(Proceed) /\ WF_httpVars(Answered) /\ WF_httpVars(Retry) /\ WF_httpVars(Tick)

HttpSpec == HttpInit /\ [][HttpNext]_httpVars /\ HttpFairness

-----------------------------------------------------------------------------
(* Properties                                                               *)

\* At most MaxCalls calls start in any window; with the attempts that are not
\* counted, each may be sent MaxRetries more times, and so may the one that was
\* running when the window began.  The state is typed: the calls that wait are
\* those of the queue.
SentInWindow ==
  /\ HttpTypeOK
  /\ Calls(stamps) <= MaxCalls
  /\ Calls(repeats) <= MaxRetries * (Calls(stamps) + 1)

\* Whoever calls is answered: the loop neither stops with calls in its queue
\* nor waits for one that waits for it.
EveryCallEnds == \A c \in Callers : c \in waiting ~> c \notin waiting
=============================================================================
