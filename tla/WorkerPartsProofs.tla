-------------------------- MODULE WorkerPartsProofs --------------------------
(***************************************************************************)
(* Theorems about the two helpers of a worker, its time limiter (module    *)
(* TimeLimiter), for all lifespans, jitter ratios and any number of        *)
(* overlapping calls of Monitor, and its log streams (module LogStream),   *)
(* for any number of lines of any kind; and about the two workers of the   *)
(* tests, the in-memory worker (module InMemoryWorker) and the program     *)
(* processbin (module Processbin), for any number of signals.              *)
(***************************************************************************)
EXTENDS TimeLimiter, LogStream, InMemoryWorker, Processbin, SequenceTheorems, TLAPS

USE DEF object, events, outside, flow

-------------------------------------------------------------------------------
\* The time limiter.

\* A call that has got past a timer has waited for it.
Waited ==
  \A c \in Call :
    /\ call[c] \in {"fired", "sending", "sent"} => clock >= began[c] + timeout
    /\ call[c] # "called" => limiter = "made"
    /\ c \in received => call[c] \in {"sent", "returned"}

LimiterInv == LimiterTypeOK /\ OneMonitor /\ JitterInRange /\ Waited /\ NotTooEarly

-------------------------------------------------------------------------------

\* rand.Intn(r) added to the lifespan stays within the ratio.
LEMMA JitterArithmetic ==
  ASSUME NEW t \in Nat, NEW j \in Nat
  PROVE  /\ JitterBound(t, j) \in Nat
         /\ JitterBound(t, j) = 0 => j * t < 100
         /\ \A k \in 0 .. JitterBound(t, j) - 1 : k \in Nat /\ 100 * k < j * t
<1> DEFINE x == j * t
<1>1. x \in Nat
  OBVIOUS
<1> HIDE DEF x
<1>2. /\ x \div 100 \in Nat
      /\ x \div 100 = 0 => x < 100
      /\ \A k \in 0 .. (x \div 100) - 1 : k \in Nat /\ 100 * k < x
  BY <1>1
<1> QED
  BY <1>2 DEF JitterBound, x

LEMMA LimiterInitInv == LimiterConstants /\ LimiterInit => LimiterInv
<1> SUFFICES ASSUME LimiterConstants, LimiterInit
             PROVE  LimiterInv
  OBVIOUS
<1>1. LimiterTypeOK
  BY DEF LimiterConstants, LimiterInit, LimiterTypeOK, CallState
<1>2. OneMonitor
  BY DEF LimiterInit, OneMonitor, Monitors
<1>3. JitterInRange /\ Waited /\ NotTooEarly
  BY DEF LimiterInit, JitterInRange, Waited, NotTooEarly
<1> QED
  BY <1>1, <1>2, <1>3 DEF LimiterInv

-------------------------------------------------------------------------------
\* The timeout is chosen while every call still waits for the limiter.

LEMMA NewTimeLimiterStep ==
  ASSUME LimiterInv, NewTimeLimiter
  PROVE  LimiterInv'
<1>1. /\ UNCHANGED <<lifespan, jitter, isMonitoring, call, began, cancelled, clock,
                     received, limitCounter>>
      /\ limiter' \in {"made", "panicked"}
      /\ limiter = "new"
  BY DEF NewTimeLimiter
<1>2. /\ timeout' \in Nat
      /\ limiter' = "made" =>
           /\ timeout' >= lifespan
           /\ jitter > 0 => 100 * (timeout' - lifespan) < jitter * lifespan
      /\ limiter' = "panicked" => jitter * lifespan < 100
  <2>1. lifespan \in Nat /\ jitter \in Nat /\ timeout \in Nat
    BY DEF LimiterInv, LimiterTypeOK
  <2>2. CASE jitter = 0
    BY <2>1, <2>2 DEF NewTimeLimiter
  <2>3. CASE jitter # 0 /\ JitterBound(lifespan, jitter) = 0
    BY <2>1, <2>3, JitterArithmetic DEF NewTimeLimiter
  <2>4. CASE jitter # 0 /\ JitterBound(lifespan, jitter) # 0
    <3>1. PICK k \in 0 .. JitterBound(lifespan, jitter) - 1 : timeout' = lifespan + k
      BY <2>4 DEF NewTimeLimiter
    <3>2. k \in Nat /\ 100 * k < jitter * lifespan
      BY <2>1, <3>1, JitterArithmetic
    <3>3. timeout' - lifespan = k /\ timeout' \in Nat /\ timeout' >= lifespan
      BY <2>1, <3>1, <3>2
    <3>4. limiter' = "made"
      BY <2>4 DEF NewTimeLimiter
    <3> QED
      BY <3>2, <3>3, <3>4
  <2> QED
    BY <2>2, <2>3, <2>4
<1>3. LimiterTypeOK'
  BY <1>1, <1>2 DEF LimiterInv, LimiterTypeOK
<1>4. OneMonitor'
  BY <1>1 DEF LimiterInv, OneMonitor, Monitors
<1>5. JitterInRange'
  BY <1>1, <1>2 DEF JitterInRange
<1>6. Waited' /\ NotTooEarly'
  BY <1>1 DEF LimiterInv, Waited, NotTooEarly
<1> QED
  BY <1>3, <1>4, <1>5, <1>6 DEF LimiterInv

\* The steps of a call change neither the limiter nor the clock.
LEMMA MonitorStepTypes ==
  ASSUME LimiterInv, NEW c \in Call, MonitorStep(c) \/ ReceiveEvent(c)
  PROVE  /\ LimiterTypeOK' /\ JitterInRange'
         /\ limiter = "made"
         /\ UNCHANGED <<lifespan, jitter, timeout, limiter, clock>>
<1> USE DEF LimiterInv, LimiterTypeOK, JitterInRange, CallState, Goto
<1>1. CASE MonitorBegin(c)
  BY <1>1 DEF MonitorBegin
<1>2. CASE CompareAndSwap(c)
  BY <1>2 DEF CompareAndSwap
<1>3. CASE TimerFires(c)
  BY <1>3 DEF TimerFires
<1>4. CASE ContextDone(c)
  BY <1>4 DEF ContextDone
<1>5. CASE StoreFalse(c)
  BY <1>5 DEF StoreFalse
<1>6. CASE ReceiveEvent(c)
  BY <1>6 DEF ReceiveEvent
<1>7. CASE CountLimit(c)
  BY <1>7 DEF CountLimit
<1> QED
  BY <1>1, <1>2, <1>3, <1>4, <1>5, <1>6, <1>7 DEF MonitorStep

\* The flag is taken by one call at a time and released by the one that has it.
LEMMA MonitorStepFlag ==
  ASSUME LimiterInv, NEW c \in Call, MonitorStep(c) \/ ReceiveEvent(c)
  PROVE  OneMonitor'
<1> USE DEF LimiterInv, LimiterTypeOK, OneMonitor, Monitors, CallState, Goto
<1>1. CASE MonitorBegin(c)
  BY <1>1 DEF MonitorBegin
<1>2. CASE CompareAndSwap(c)
  BY <1>2 DEF CompareAndSwap
<1>3. CASE TimerFires(c)
  BY <1>3 DEF TimerFires
<1>4. CASE ContextDone(c)
  BY <1>4 DEF ContextDone
<1>5. CASE StoreFalse(c)
  BY <1>5 DEF StoreFalse
<1>6. CASE ReceiveEvent(c)
  BY <1>6 DEF ReceiveEvent
<1>7. CASE CountLimit(c)
  BY <1>7 DEF CountLimit
<1> QED
  BY <1>1, <1>2, <1>3, <1>4, <1>5, <1>6, <1>7 DEF MonitorStep

\* An event is behind its timer, and a timer is never started twice.
LEMMA MonitorStepTime ==
  ASSUME LimiterInv, NEW c \in Call, MonitorStep(c) \/ ReceiveEvent(c)
  PROVE  Waited' /\ NotTooEarly'
<1> USE DEF LimiterInv, LimiterTypeOK, JitterInRange, Waited, NotTooEarly, CallState, Goto
<1>1. CASE MonitorBegin(c)
  BY <1>1 DEF MonitorBegin
<1>2. CASE CompareAndSwap(c)
  BY <1>2 DEF CompareAndSwap
<1>3. CASE TimerFires(c)
  BY <1>3 DEF TimerFires
<1>4. CASE ContextDone(c)
  BY <1>4 DEF ContextDone
<1>5. CASE StoreFalse(c)
  BY <1>5 DEF StoreFalse
<1>6. CASE ReceiveEvent(c)
  BY <1>6 DEF ReceiveEvent
<1>7. CASE CountLimit(c)
  BY <1>7 DEF CountLimit
<1> QED
  BY <1>1, <1>2, <1>3, <1>4, <1>5, <1>6, <1>7 DEF MonitorStep

LEMMA LimiterNextInv == LimiterInv /\ [LimiterNext]_limiterVars => LimiterInv'
<1> SUFFICES ASSUME LimiterInv, [LimiterNext]_limiterVars
             PROVE  LimiterInv'
  OBVIOUS
<1>1. CASE NewTimeLimiter
  BY <1>1, NewTimeLimiterStep
<1>2. ASSUME NEW c \in Call, MonitorStep(c) \/ ReceiveEvent(c)
      PROVE  LimiterInv'
  BY <1>2, MonitorStepTypes, MonitorStepFlag, MonitorStepTime DEF LimiterInv
<1>3. CASE Cancel
  BY <1>3 DEF Cancel, LimiterInv, LimiterTypeOK, OneMonitor, Monitors, JitterInRange, Waited,
              NotTooEarly
<1>4. CASE Tick
  <2>1. LimiterTypeOK' /\ OneMonitor' /\ JitterInRange'
    BY <1>4 DEF Tick, LimiterInv, LimiterTypeOK, OneMonitor, Monitors, JitterInRange
  <2>2. Waited' /\ NotTooEarly'
    BY <1>4 DEF Tick, LimiterInv, LimiterTypeOK, Waited, NotTooEarly
  <2> QED
    BY <2>1, <2>2 DEF LimiterInv
<1>5. CASE UNCHANGED limiterVars
  BY <1>5 DEF limiterVars, LimiterInv, LimiterTypeOK, OneMonitor, Monitors, JitterInRange, Waited,
              NotTooEarly
<1> QED
  BY <1>1, <1>2, <1>3, <1>4, <1>5 DEF LimiterNext

LEMMA LimiterInvariant == LimiterConstants /\ LimiterSpec => []LimiterInv
BY LimiterInitInv, LimiterNextInv, PTL DEF LimiterSpec

-------------------------------------------------------------------------------

\* Overlapping calls of Monitor never monitor twice, and IsMonitoring tells
\* whether one of them does, for any number of calls.
THEOREM FlagIsExact == LimiterConstants /\ LimiterSpec => []OneMonitor
<1>1. LimiterInv => OneMonitor
  BY DEF LimiterInv
<1> QED
  BY <1>1, LimiterInvariant, PTL

\* For every lifespan and jitter ratio, no ProcessExceededLimit is received
\* before the lifespan is over.
THEOREM NeverTooEarly == LimiterConstants /\ LimiterSpec => []NotTooEarly
<1>1. LimiterInv => NotTooEarly
  BY DEF LimiterInv
<1> QED
  BY <1>1, LimiterInvariant, PTL

\* For every lifespan and jitter ratio, the jitter stays below the ratio, and
\* rand.Intn panics only if it amounts to less than a millisecond.
THEOREM JitterBounded == LimiterConstants /\ LimiterSpec => []JitterInRange
<1>1. LimiterInv => JitterInRange
  BY DEF LimiterInv
<1> QED
  BY <1>1, LimiterInvariant, PTL

\* The limiter, its flag and its goroutines keep their types.
THEOREM LimiterTypeCorrect == LimiterConstants /\ LimiterSpec => []LimiterTypeOK
<1>1. LimiterInv => LimiterTypeOK
  BY DEF LimiterInv
<1> QED
  BY <1>1, LimiterInvariant, PTL

-------------------------------------------------------------------------------
\* The log streams.

\* The lines w are those of the entries g followed by the lines c.
Split(w, g, c) ==
  /\ Len(w) = Len(g) + Len(c)
  /\ \A i \in 1 .. Len(g) : g[i].line = w[i]
  /\ \A i \in 1 .. Len(c) : c[i] = w[Len(g) + i]

\* What has been written on s is what has been logged, then what the channel
\* holds.
InFlight(s) == Split(written[s], logged[s], chan[s])

\* A stream is given up, and the wait ends, only behind the last line.
DrainedFirst ==
  /\ \A s \in Stream : s \notin reading => chan[s] = <<>> /\ cmd = "exited"
  /\ streamer = "done" /\ streaming => reading = {}
  /\ waiter = "returned" => ~streaming \/ streamer = "done"
  /\ ~streaming => \A s \in Stream : written[s] = <<>>

LogInv == LogTypeOK /\ (\A s \in Stream : InFlight(s)) /\ DrainedFirst

-------------------------------------------------------------------------------

\* A line that is appended on both sides leaves a split.
LEMMA SplitAppend ==
  ASSUME NEW w \in Seq(Line), NEW g \in Seq(Entry), NEW c \in Seq(Line),
         NEW l \in Line, Split(w, g, c)
  PROVE  Split(Append(w, l), g, Append(c, l))
<1>1. Len(w) \in Nat /\ Len(g) \in Nat /\ Len(c) \in Nat
  BY LenProperties
<1>2. /\ Len(Append(w, l)) = Len(w) + 1
      /\ \A i \in 1 .. Len(w) : Append(w, l)[i] = w[i]
      /\ Append(w, l)[Len(w) + 1] = l
  BY AppendProperties
<1>3. /\ Len(Append(c, l)) = Len(c) + 1
      /\ \A i \in 1 .. Len(c) : Append(c, l)[i] = c[i]
      /\ Append(c, l)[Len(c) + 1] = l
  BY AppendProperties
<1>4. ASSUME NEW i \in 1 .. Len(g)
      PROVE  g[i].line = Append(w, l)[i]
  BY <1>1, <1>2 DEF Split
<1>5. ASSUME NEW i \in 1 .. Len(c) + 1
      PROVE  Append(c, l)[i] = Append(w, l)[Len(g) + i]
  <2>1. CASE i = Len(c) + 1
    <3>1. Len(g) + i = Len(w) + 1
      BY <1>1, <2>1 DEF Split
    <3> QED
      BY <1>2, <1>3, <2>1, <3>1
  <2>2. CASE i # Len(c) + 1
    <3>1. i \in 1 .. Len(c) /\ Len(g) + i \in 1 .. Len(w)
      BY <1>1, <2>2 DEF Split
    <3> QED
      BY <1>2, <1>3, <3>1 DEF Split
  <2> QED
    BY <2>1, <2>2
<1>6. Len(Append(w, l)) = Len(g) + Len(Append(c, l))
  <2>1. Len(w) = Len(g) + Len(c)
    BY DEF Split
  <2> QED
    BY <1>1, <1>2, <1>3, <2>1
<1>7. \A i \in 1 .. Len(Append(c, l)) : Append(c, l)[i] = Append(w, l)[Len(g) + i]
  BY <1>3, <1>5
<1> QED
  BY <1>4, <1>6, <1>7 DEF Split

\* The first line of the channel may go to the entries.
LEMMA SplitMove ==
  ASSUME NEW w \in Seq(Line), NEW g \in Seq(Entry), NEW c \in Seq(Line), c # <<>>,
         NEW e \in Entry, e.line = Head(c), Split(w, g, c)
  PROVE  Split(w, Append(g, e), Tail(c))
<1>1. Len(w) \in Nat /\ Len(g) \in Nat /\ Len(c) \in Nat /\ Len(c) # 0
  BY LenProperties, EmptySeq
<1>2. /\ Len(Append(g, e)) = Len(g) + 1
      /\ \A i \in 1 .. Len(g) : Append(g, e)[i] = g[i]
      /\ Append(g, e)[Len(g) + 1] = e
  BY AppendProperties
<1>3. /\ Len(Tail(c)) = Len(c) - 1
      /\ \A i \in 1 .. Len(Tail(c)) : Tail(c)[i] = c[i + 1]
  BY HeadTailProperties
<1>4. ASSUME NEW i \in 1 .. Len(g) + 1
      PROVE  Append(g, e)[i].line = w[i]
  <2>1. CASE i = Len(g) + 1
    <3>1. e.line = c[1]
      BY <1>1
    <3>2. c[1] = w[Len(g) + 1]
      BY <1>1 DEF Split
    <3> QED
      BY <1>2, <2>1, <3>1, <3>2
  <2>2. CASE i # Len(g) + 1
    <3>1. i \in 1 .. Len(g)
      BY <1>1, <2>2
    <3> QED
      BY <1>2, <3>1 DEF Split
  <2> QED
    BY <2>1, <2>2
<1>5. ASSUME NEW i \in 1 .. Len(c) - 1
      PROVE  Tail(c)[i] = w[Len(g) + 1 + i]
  <2>1. i + 1 \in 1 .. Len(c) /\ Len(g) + (i + 1) = Len(g) + 1 + i
    BY <1>1
  <2>2. c[i + 1] = w[Len(g) + (i + 1)]
    BY <2>1 DEF Split
  <2> QED
    BY <1>3, <2>1, <2>2
<1> QED
  BY <1>1, <1>2, <1>3, <1>4, <1>5 DEF Split

LEMMA LogInitInv == LogInit => LogInv
<1> SUFFICES ASSUME LogInit PROVE LogInv
  OBVIOUS
<1>1. LogTypeOK
  BY DEF LogInit, LogTypeOK, Stream
<1>2. \A s \in Stream : InFlight(s)
  BY DEF LogInit, InFlight, Split
<1>3. DrainedFirst
  BY DEF LogInit, DrainedFirst
<1> QED
  BY <1>1, <1>2, <1>3 DEF LogInv

\* A line that is written goes to the end of the channel.
LEMMA WriteStep ==
  ASSUME LogInv, NEW s \in Stream, NEW l \in Line, Write(s, l)
  PROVE  LogInv'
<1>1. /\ written[s] \in Seq(Line) /\ chan[s] \in Seq(Line)
      /\ logged[s] \in Seq(Entry) /\ InFlight(s)
  BY DEF LogInv, LogTypeOK
<1>2. Append(written[s], l) \in Seq(Line) /\ Append(chan[s], l) \in Seq(Line)
  BY <1>1, AppendProperties
<1>3. /\ written' = [written EXCEPT ![s] = Append(written[s], l)]
      /\ chan' = [chan EXCEPT ![s] = Append(chan[s], l)]
      /\ streaming /\ cmd = "running"
      /\ UNCHANGED <<cmd, reading, logged, failures, streamer, waiter, streaming>>
  BY DEF Write
<1>4. LogTypeOK'
  BY <1>2, <1>3 DEF LogInv, LogTypeOK
<1>5. ASSUME NEW r \in Stream PROVE InFlight(r)'
  <2>1. CASE r # s
    BY <1>3, <2>1 DEF InFlight, LogInv, LogTypeOK
  <2>2. CASE r = s
    <3>1. Split(Append(written[s], l), logged[s], Append(chan[s], l))
      BY <1>1, SplitAppend DEF InFlight
    <3>2. /\ written'[s] = Append(written[s], l)
          /\ chan'[s] = Append(chan[s], l)
          /\ logged'[s] = logged[s]
      BY <1>3 DEF LogInv, LogTypeOK
    <3> QED
      BY <2>2, <3>1, <3>2 DEF InFlight
  <2> QED
    BY <2>1, <2>2
<1>6. DrainedFirst'
  <2>1. \A r \in Stream : r \in reading
    BY <1>3 DEF LogInv, DrainedFirst
  <2> QED
    BY <1>3, <2>1 DEF DrainedFirst, LogInv
<1> QED
  BY <1>4, <1>5, <1>6 DEF LogInv

\* The line that is logged is the first of the channel.
LEMMA LogLineStep ==
  ASSUME LogInv, NEW s \in Stream, LogLine(s)
  PROVE  LogInv'
<1> DEFINE e == [line |-> Head(chan[s]), form |-> Form(Head(chan[s]))]
<1>1. /\ written[s] \in Seq(Line) /\ chan[s] \in Seq(Line) /\ chan[s] # <<>>
      /\ logged[s] \in Seq(Entry) /\ InFlight(s)
  BY DEF LogInv, LogTypeOK, LogLine
<1>2. e \in Entry /\ e.line = Head(chan[s])
  <2>1. Head(chan[s]) \in Line
    BY <1>1, HeadTailProperties
  <2> QED
    BY <2>1 DEF Entry, Form
<1>3. /\ chan' = [chan EXCEPT ![s] = Tail(chan[s])]
      /\ logged' = [logged EXCEPT ![s] = Append(logged[s], e)]
      /\ failures' \in {failures, failures + 1}
      /\ UNCHANGED <<cmd, written, reading, streamer, waiter, streaming>>
      /\ s \in reading
  BY DEF LogLine
<1> HIDE DEF e
<1>4. LogTypeOK'
  <2>1. Append(logged[s], e) \in Seq(Entry)
    BY <1>1, <1>2, AppendProperties
  <2>2. Tail(chan[s]) \in Seq(Line)
    BY <1>1, HeadTailProperties
  <2> QED
    BY <1>3, <2>1, <2>2 DEF LogInv, LogTypeOK
<1>5. ASSUME NEW r \in Stream PROVE InFlight(r)'
  <2>1. CASE r # s
    BY <1>3, <2>1 DEF InFlight, LogInv, LogTypeOK
  <2>2. CASE r = s
    <3>1. Split(written[s], Append(logged[s], e), Tail(chan[s]))
      BY <1>1, <1>2, SplitMove DEF InFlight
    <3>2. /\ written'[s] = written[s]
          /\ chan'[s] = Tail(chan[s])
          /\ logged'[s] = Append(logged[s], e)
      BY <1>3 DEF LogInv, LogTypeOK
    <3> QED
      BY <2>2, <3>1, <3>2 DEF InFlight
  <2> QED
    BY <2>1, <2>2
<1>6. DrainedFirst'
  <2>1. \A r \in Stream : r \notin reading => chan'[r] = chan[r]
    BY <1>3 DEF LogInv, LogTypeOK
  <2> QED
    BY <1>3, <2>1 DEF DrainedFirst, LogInv
<1> QED
  BY <1>4, <1>5, <1>6 DEF LogInv

\* The other steps move no line.
LEMMA OtherSteps ==
  ASSUME LogInv,
         \/ ProcessExits \/ StreamLogsReturns \/ Wait \/ WaitReturns \/ Finished
         \/ \E s \in Stream : LogNull(s) \/ StreamClosed(s)
         \/ UNCHANGED logVars
  PROVE  LogInv'
<1>1. UNCHANGED <<written, chan, logged, failures, streaming>>
  BY DEF ProcessExits, StreamLogsReturns, Wait, WaitReturns, Finished, LogNull,
         StreamClosed, logVars
<1>2. \A s \in Stream : InFlight(s)'
  BY <1>1 DEF LogInv, InFlight
<1>3. LogTypeOK'
  BY <1>1 DEF ProcessExits, StreamLogsReturns, Wait, WaitReturns, Finished, LogNull,
              StreamClosed, logVars, LogInv, LogTypeOK
<1>4. DrainedFirst'
  BY <1>1 DEF ProcessExits, StreamLogsReturns, Wait, WaitReturns, Finished, LogNull,
              StreamClosed, logVars, LogInv, LogTypeOK, DrainedFirst
<1> QED
  BY <1>2, <1>3, <1>4 DEF LogInv

LEMMA LogNextInv == LogInv /\ [LogNext]_logVars => LogInv'
BY WriteStep, LogLineStep, OtherSteps DEF LogNext

LEMMA LogInvariant == LogSpec => []LogInv
BY LogInitInv, LogNextInv, PTL DEF LogSpec

-------------------------------------------------------------------------------

\* For any number of lines on either stream, a worker is replaced only after
\* all of them were logged, in order.
THEOREM NoLineLost == LogSpec => []NothingLost
<1>1. LogInv => NothingLost
  <2> SUFFICES ASSUME LogInv, NEW s \in Stream
               PROVE  /\ LoggedInOrder(s)
                      /\ waiter = "returned" => Len(logged[s]) = Len(written[s])
    BY DEF NothingLost
  <2>1. /\ logged[s] \in Seq(Entry) /\ chan[s] \in Seq(Line)
        /\ written[s] \in Seq(Line) /\ InFlight(s)
    BY DEF LogInv, LogTypeOK
  <2> DEFINE w == Len(written[s])
             g == Len(logged[s])
             c == Len(chan[s])
  <2>a. w \in Nat /\ g \in Nat /\ c \in Nat
    BY <2>1, LenProperties
  <2>b. w = g + c
    BY <2>1 DEF InFlight, Split
  <2> HIDE DEF w, g, c
  <2>c. g <= w
    BY <2>a, <2>b
  <2>2. LoggedInOrder(s)
    BY <2>1, <2>c DEF InFlight, Split, LoggedInOrder, w, g
  <2>3. CASE waiter = "returned"
    <3>1. CASE streaming
      <4>1. c = 0
        BY <2>3, <3>1, EmptySeq DEF LogInv, DrainedFirst, c
      <4> QED
        <5>1. g = w
          BY <2>a, <2>b, <4>1
        <5> QED
          BY <2>2, <5>1 DEF w, g
    <3>2. CASE ~streaming
      <4>1. w = 0
        BY <3>2, EmptySeq DEF LogInv, DrainedFirst, w
      <4>2. g = w
        BY <2>a, <2>b, <4>1
      <4> QED
        BY <2>2, <4>2 DEF w, g
    <3> QED
      BY <3>1, <3>2 DEF LogInv, LogTypeOK
  <2> QED
    BY <2>2, <2>3
<1> QED
  BY <1>1, LogInvariant, PTL

\* The channels, the streamer and the waiter keep their types.
THEOREM LogTypeCorrect == LogSpec => []LogTypeOK
<1>1. LogInv => LogTypeOK
  BY DEF LogInv
<1> QED
  BY <1>1, LogInvariant, PTL

-------------------------------------------------------------------------------
(***************************************************************************)
(* The in-memory worker.  An event announces an end only once the status   *)
(* is Terminated, and the one step that sets it to Running is Run.  The    *)
(* property is inductive together with the fact that nothing has happened  *)
(* before Run: no timer, no send.                                          *)
(***************************************************************************)
NotRunYet ==
  loop = "starting" =>
    /\ memExitTimer = "none" /\ monitor = "none" /\ killTimers = 0
    /\ \A e \in Event : sends[e] = 0 /\ got[e] = 0

MemoryInv == MemoryTypeOK /\ NotRunYet /\ EndedNotRunning

\* A new in-memory worker satisfies the invariant.
LEMMA MemoryInitInv == MemoryInit => MemoryInv
  <1> SUFFICES ASSUME MemoryInit PROVE MemoryInv
    OBVIOUS
  <1>1. /\ exitAfter \in BOOLEAN /\ ignoreTerm \in BOOLEAN /\ hasLifespan \in BOOLEAN
        /\ memCancelled \in BOOLEAN /\ memLogged \in BOOLEAN /\ held \in BOOLEAN
    BY Zenon DEF MemoryInit
  <1>2. /\ memStatus = "PrepareWorkers" /\ loop = "starting"
        /\ memExitTimer = "none" /\ killTimers = 0 /\ monitor = "none"
        /\ ticker = "none"
        /\ sends = [e \in Event |-> 0] /\ got = [e \in Event |-> 0]
    BY Zenon DEF MemoryInit
  <1> QED
    BY <1>1, <1>2
       DEF MemoryInv, MemoryTypeOK, NotRunYet, EndedNotRunning, Event, Phase

\* Every step of the worker's goroutines and of the loop preserves it.
LEMMA MemoryNextInv == MemoryInv /\ [MemoryNext]_memoryVars => MemoryInv'
  <1> SUFFICES ASSUME MemoryInv, [MemoryNext]_memoryVars PROVE MemoryInv'
    OBVIOUS
  <1> USE DEF MemoryInv, MemoryTypeOK, NotRunYet, EndedNotRunning, Event, Phase,
              settings, logging, caller
  <1>1. CASE StreamLogs
    BY <1>1 DEF StreamLogs
  <1>2. CASE LogTick
    <2>1. memLogged' \in BOOLEAN
      BY <1>2, Zenon DEF LogTick
    <2>2. /\ ticker' \in {ticker, "over"}
          /\ UNCHANGED <<settings, memStatus, memCancelled, memExitTimer,
                         killTimers, monitor, sends, caller>>
      BY <1>2, Zenon DEF LogTick
    <2> QED
      BY <2>1, <2>2
  <1>3. CASE ExitTimer
    BY <1>3 DEF ExitTimer
  <1>4. CASE KillTimer
    BY <1>4 DEF KillTimer
  <1>5. CASE LifespanOver
    BY <1>5 DEF LifespanOver
  <1>6. CASE Run
    BY <1>6 DEF Run
  <1>7. CASE InterruptAll
    <2>1. CASE held
      BY <1>7, <2>1 DEF InterruptAll, Terminate
    <2>2. CASE ~held
      BY <1>7, <2>2 DEF InterruptAll, NoCall
    <2> QED
      BY <2>1, <2>2
  <1>8. CASE \E e \in Event : Receive(e)
    <2> PICK e \in Event : Receive(e)
      BY <1>8
    <2> DEFINE s == [sends EXCEPT ![e] = sends[e] - 1]
    <2>0. /\ s \in [Event -> Nat]
          /\ got' = [got EXCEPT ![e] = got[e] + 1] /\ got' \in [Event -> Nat]
          /\ s[e] + got'[e] = sends[e] + got[e]
          /\ e # "ProcessEnd" => /\ s["ProcessEnd"] = sends["ProcessEnd"]
                                 /\ got'["ProcessEnd"] = got["ProcessEnd"]
          /\ loop # "starting" /\ loop' = loop
      BY DEF Receive
    <2>1. UNCHANGED <<settings, memExitTimer, monitor, logging, loop>>
      BY DEF Receive
    <2>2. held' \in BOOLEAN
      BY DEF Receive
    <2>3. CASE NoCall(s)
      BY <2>0, <2>1, <2>2, <2>3 DEF NoCall
    <2>4. CASE e # "ProcessEnd" /\ Terminate(s)
      BY <2>0, <2>1, <2>2, <2>4 DEF Terminate
    <2>5. CASE e # "ProcessEnd" /\ ForceTerminateWorker(s)
      BY <2>0, <2>1, <2>2, <2>5 DEF ForceTerminateWorker
    <2> QED
      BY <2>3, <2>4, <2>5 DEF Receive
  <1>9. CASE UNCHANGED memoryVars
    BY <1>9 DEF memoryVars
  <1> QED
    BY <1>1, <1>2, <1>3, <1>4, <1>5, <1>6, <1>7, <1>8, <1>9 DEF MemoryNext

\* The invariant holds in every state of every behaviour of the in-memory worker.
THEOREM MemoryInvariant == MemorySpec => []MemoryInv
  BY MemoryInitInv, MemoryNextInv, PTL DEF MemorySpec

\* The goroutines of the in-memory worker keep its types: in particular a counter
\* of waiting senders never falls below zero.
THEOREM MemoryTypeCorrect == MemorySpec => []MemoryTypeOK
  <1>1. MemoryInv => MemoryTypeOK
    BY DEF MemoryInv
  <1> QED
    BY <1>1, MemoryInvariant, PTL

\* An in-memory worker whose end is announced or received is never Running, in
\* whatever order its timers, the limiter and the shutdown come: the count with
\* which Supervisor.Run ends does not find it.
THEOREM EndedStaysEnded == MemorySpec => []EndedNotRunning
  <1>1. MemoryInv => EndedNotRunning
    BY DEF MemoryInv
  <1> QED
    BY <1>1, MemoryInvariant, PTL

-------------------------------------------------------------------------------
(***************************************************************************)
(* processbin.  The channel holds one signal and drops the others, so what *)
(* waits in it is the first that was sent as long as main has not taken    *)
(* one; a process that obeys signals takes at most one and never goes back *)
(* to its loop.  The exit status is set at the very end.                   *)
(***************************************************************************)
FirstWaits ==
  binMain = "select" /\ ~ignoreSignals =>
    IF osCh = <<>> THEN sent = <<>> ELSE sent # <<>> /\ Head(osCh) = Head(sent)

FirstTaken ==
  (binMain \in {"shutdown", "wait"} /\ why # "timeout" /\ ~ignoreSignals) =>
    (sent # <<>> /\ why = Head(sent))

WaitsForSignal == binMain = "wait" => ~ignoreSignals /\ why # "timeout"

NoCodeBefore == Alive => code = 0

\* Shutdown closes the listeners first and returns when no request is left, so
\* none can come after it.
ServerDown ==
  /\ binMain \in {"shutdown", "wait", "exited"} => srv \in {"none", "closed"}
  /\ binMain \in {"wait", "exited"} => ~request

BinInv ==
  /\ BinTypeOK /\ FirstWaits /\ FirstTaken /\ WaitsForSignal /\ NoCodeBefore
  /\ ServerDown /\ FirstSignalDecides

\* A process that has just started satisfies the invariant.
LEMMA BinInitInv == BinInit => BinInv
  <1> SUFFICES ASSUME BinInit PROVE BinInv
    OBVIOUS
  <1>1. ignoreSignals \in BOOLEAN /\ request \in BOOLEAN /\ ~request
    BY Zenon DEF BinInit
  <1>2. /\ exitTimer \in {"none", "waiting"} /\ timeoutCh = 0 /\ logTimer = 1
        /\ logCh = 0 /\ osCh = <<>> /\ sent = <<>> /\ srv \in {"none", "new"}
        /\ binMain = "select" /\ why = "timeout" /\ code = 0
    BY Zenon DEF BinInit
  <1> QED
    BY <1>1, <1>2
       DEF BinInv, BinTypeOK, FirstWaits, FirstTaken, WaitsForSignal,
           NoCodeBefore, ServerDown, FirstSignalDecides, Alive, EndSignal

\* A signal that comes later does not change which one came first.
LEMMA HeadStays ==
  ASSUME NEW S, NEW q \in Seq(S), q # <<>>, NEW x \in S
  PROVE  Append(q, x) # <<>> /\ Head(Append(q, x)) = Head(q)
  OBVIOUS

\* Every step of processbin and of its environment preserves the invariant.
LEMMA BinNextInv == BinInv /\ [BinNext]_binVars => BinInv'
  <1> SUFFICES ASSUME BinInv, [BinNext]_binVars PROVE BinInv'
    OBVIOUS
  <1> USE DEF BinInv, BinTypeOK, FirstWaits, FirstTaken, WaitsForSignal,
              NoCodeBefore, ServerDown, FirstSignalDecides, Alive,
              time, lines, signals, outcome
  <1>1. CASE \E s \in EndSignal : Deliver(s)
    <2> PICK s \in EndSignal : Deliver(s)
      BY <1>1
    <2>1. sent' = Append(sent, s) /\ sent' \in Seq(EndSignal) /\ sent' # <<>>
      BY DEF Deliver
    <2>2. osCh' \in Seq(EndSignal) /\ Len(osCh') <= 1 /\ osCh' # <<>>
      BY DEF Deliver
    <2>3. sent # <<>> => Head(sent') = Head(sent)
      BY <2>1, HeadStays
    <2>4. sent = <<>> => Head(sent') = s
      BY <2>1
    <2>5. osCh # <<>> => osCh' = osCh
      BY DEF Deliver
    <2>6. osCh = <<>> => Head(osCh') = s
      BY DEF Deliver
    <2>7. Alive /\ UNCHANGED <<ignoreSignals, time, lines, srv, request, outcome>>
      BY DEF Deliver
    <2> QED
      BY <2>1, <2>2, <2>3, <2>4, <2>5, <2>6, <2>7
  <1>2. CASE ExitAfter
    BY <1>2 DEF ExitAfter
  <1>3. CASE logTimeoutFunc
    BY <1>3 DEF logTimeoutFunc
  <1>4. CASE startHttpServer
    BY <1>4 DEF startHttpServer
  <1>5. CASE Request
    <2>1. request' \in BOOLEAN
      BY <1>5, Zenon DEF Request
    <2>2. /\ Alive /\ srv = "listening"
          /\ UNCHANGED <<ignoreSignals, time, lines, signals, srv, outcome>>
      BY <1>5, Zenon DEF Request
    <2> QED
      BY <2>1, <2>2
  <1>6. CASE Answer
    <2>1. request' \in BOOLEAN /\ ~request'
      BY <1>6, Zenon DEF Answer
    <2>2. UNCHANGED <<ignoreSignals, time, lines, signals, srv, outcome>>
      BY <1>6, Zenon DEF Answer
    <2> QED
      BY <2>1, <2>2
  <1>7. CASE TakeSignal
    BY <1>7 DEF TakeSignal, CloseListeners, EndSignal
  <1>8. CASE TakeTimeout
    BY <1>8 DEF TakeTimeout, CloseListeners
  <1>9. CASE Log
    BY <1>9 DEF Log
  <1>10. CASE ShutdownReturns
    BY <1>10 DEF ShutdownReturns
  <1>11. CASE SignalTimeout
    BY <1>11 DEF SignalTimeout, CodeOf, EndSignal
  <1>12. CASE UNCHANGED binVars
    BY <1>12 DEF binVars
  <1> QED
    BY <1>1, <1>2, <1>3, <1>4, <1>5, <1>6, <1>7, <1>8, <1>9, <1>10, <1>11, <1>12
       DEF BinNext

\* The invariant holds in every state of every behaviour of processbin.
THEOREM BinInvariant == BinSpec => []BinInv
  BY BinInitInv, BinNextInv, PTL DEF BinSpec

\* processbin keeps its types, and no channel is ever over its capacity.
THEOREM BinTypeCorrect == BinSpec => []BinTypeOK
  <1>1. BinInv => BinTypeOK
    BY DEF BinInv
  <1> QED
    BY <1>1, BinInvariant, PTL

\* For any number of signals, in any order and at any time: a process that ends
\* on a signal has the status of the first one, which tells SIGTERM from SIGINT.
THEOREM FirstSignalCounts == BinSpec => []FirstSignalDecides
  <1>1. BinInv => FirstSignalDecides
    BY DEF BinInv
  <1> QED
    BY <1>1, BinInvariant, PTL

\* processbin never exits while it serves a request, unless it panics.
THEOREM RequestsAreAnswered == BinSpec => []NoRequestCut
  <1>1. BinInv => NoRequestCut
    BY DEF BinInv, ServerDown, NoRequestCut
  <1> QED
    BY <1>1, BinInvariant, PTL

===============================================================================
