----------------------------- MODULE TimeLimiter -----------------------------
(***************************************************************************)
(* One TimeLimiter (internal/worker/limiter_time.go): the choice of its    *)
(* timeout, and the goroutines that call Monitor on it.  Time is counted   *)
(* in milliseconds, the jitter ratio in hundredths.  Monitor is meant to   *)
(* be safe to call again; Call is the set of its calls.                    *)
(***************************************************************************)
EXTENDS Naturals

CONSTANTS
  Lifespans,   \* values of limits.lifespan, in milliseconds
  Jitters,     \* values of limits.jitter_ratio, in hundredths
  Call,        \* the calls of Monitor
  MaxTime      \* bound: the clock stops here unless a timer is running

\* What is assumed of the constants.
LimiterConstants ==
  /\ Lifespans \subseteq Nat
  /\ Jitters \subseteq Nat
  /\ MaxTime \in Nat

VARIABLES
  lifespan, jitter,   \* the configuration
  timeout,            \* TimeLimiter.timeout
  limiter,            \* the object: new, made, or panicked (in rand.Intn)
  isMonitoring,
  call,               \* where each call of Monitor or its goroutine is
  began,              \* when its timer was started
  cancelled,          \* the worker's context is done
  clock,
  received,           \* the calls whose ProcessExceededLimit was received
  limitCounter        \* limits_events_total

object  == <<lifespan, jitter, timeout, limiter>>
events  == <<received, limitCounter>>
outside == <<cancelled, clock>>
limiterVars == <<object, isMonitoring, call, began, outside, events>>

CallState == {"called", "checked", "select", "fired", "stopped", "sending",
              "sent", "returned"}

LimiterInit ==
  /\ lifespan \in Lifespans /\ jitter \in Jitters
  /\ timeout = 0 /\ limiter = "new"
  /\ isMonitoring = FALSE
  /\ call = [c \in Call |-> "called"]
  /\ began = [c \in Call |-> 0]
  /\ cancelled = FALSE
  /\ clock = 0
  /\ received = {}
  /\ limitCounter = 0

\* r: the exclusive upper bound of the jitter, in milliseconds.
JitterBound(t, j) == (j * t) \div 100

\* Mutant of NewTimeLimiter: the bound of the jitter is included.
NewTimeLimiterInclusive ==
  /\ limiter = "new"
  /\ limiter' = "made"
  /\ \E k \in 0 .. JitterBound(lifespan, jitter) : timeout' = lifespan + k
  /\ UNCHANGED <<lifespan, jitter, isMonitoring, call, began, outside, events>>

\* newTimeLimiter, called because lifespan # 0.  rand.Intn panics if r <= 0.
NewTimeLimiter ==
  /\ limiter = "new"
  /\ IF jitter = 0
       THEN limiter' = "made" /\ timeout' = lifespan
     ELSE IF JitterBound(lifespan, jitter) = 0
       THEN limiter' = "panicked" /\ timeout' = timeout
       ELSE /\ limiter' = "made"
            /\ \E k \in 0 .. JitterBound(lifespan, jitter) - 1 :
                 timeout' = lifespan + k
  /\ UNCHANGED <<lifespan, jitter, isMonitoring, call, began, outside, events>>

Goto(c, from, to) ==
  /\ limiter = "made"
  /\ call[c] = from
  /\ call' = [call EXCEPT ![c] = to]

\* The test of timeout at the beginning of Monitor.
MonitorBegin(c) ==
  /\ Goto(c, "called", IF timeout = 0 THEN "returned" ELSE "checked")
  /\ UNCHANGED <<object, isMonitoring, began, outside, events>>

\* Mutant of CompareAndSwap: the flag is not tested.
CompareAndSwapBlind(c) ==
  /\ Goto(c, "checked", "select")
  /\ isMonitoring' = TRUE
  /\ began' = [began EXCEPT ![c] = clock]
  /\ UNCHANGED <<object, outside, events>>

\* isMonitoring.CompareAndSwap(false, true); the winner's goroutine starts the
\* timer and waits.
CompareAndSwap(c) ==
  /\ Goto(c, "checked", IF isMonitoring THEN "returned" ELSE "select")
  /\ isMonitoring' = TRUE
  /\ began' = [began EXCEPT ![c] = IF isMonitoring THEN @ ELSE clock]
  /\ UNCHANGED <<object, outside, events>>

\* Mutant of TimerFires: the timer is a millisecond short.
TimerFiresEarly(c) ==
  /\ clock + 1 >= began[c] + timeout
  /\ Goto(c, "select", "fired")
  /\ UNCHANGED <<object, isMonitoring, began, outside, events>>

\* <-timer.C
TimerFires(c) ==
  /\ clock >= began[c] + timeout
  /\ Goto(c, "select", "fired")
  /\ UNCHANGED <<object, isMonitoring, began, outside, events>>

\* <-ctx.Done()
ContextDone(c) ==
  /\ cancelled
  /\ Goto(c, "select", "stopped")
  /\ UNCHANGED <<object, isMonitoring, began, outside, events>>

\* Mutant of StoreFalse: when the context is done the loop goes on.
StoreFalseContinues(c) ==
  /\ \/ Goto(c, "fired", "sending") /\ isMonitoring' = FALSE
     \/ Goto(c, "stopped", "select") /\ UNCHANGED isMonitoring
  /\ UNCHANGED <<object, began, outside, events>>

\* isMonitoring.Store(false), in either case.
StoreFalse(c) ==
  /\ \/ Goto(c, "fired", "sending")
     \/ Goto(c, "stopped", "returned")
  /\ isMonitoring' = FALSE
  /\ UNCHANGED <<object, began, outside, events>>

\* The supervisor receives the event, whether or not the context is done.
ReceiveEvent(c) ==
  /\ Goto(c, "sending", "sent")
  /\ received' = received \cup {c}
  /\ UNCHANGED <<object, isMonitoring, began, outside, limitCounter>>

CountLimit(c) ==
  /\ Goto(c, "sent", "returned")
  /\ limitCounter' = limitCounter + 1
  /\ UNCHANGED <<object, isMonitoring, began, outside, received>>

\* Terminate of the worker.
Cancel ==
  /\ ~cancelled
  /\ cancelled' = TRUE
  /\ UNCHANGED <<object, isMonitoring, call, began, clock, events>>

Tick ==
  /\ clock < MaxTime \/ \E c \in Call : call[c] = "select" /\ clock < began[c] + timeout
  /\ clock' = clock + 1
  /\ UNCHANGED <<object, isMonitoring, call, began, cancelled, events>>

\* What a call of Monitor and its goroutine do by themselves.
MonitorStep(c) ==
  \/ MonitorBegin(c) \/ CompareAndSwap(c)
  \/ TimerFires(c) \/ ContextDone(c)
  \/ StoreFalse(c) \/ CountLimit(c)

LimiterNext ==
  \/ NewTimeLimiter
  \/ \E c \in Call : MonitorStep(c) \/ ReceiveEvent(c)
  \/ Cancel
  \/ Tick

LimiterSpec == LimiterInit /\ [][LimiterNext]_limiterVars

-------------------------------------------------------------------------------
\* Correctness.

\* Every variable has its type: the limiter, its flag and its goroutines.
LimiterTypeOK ==
  /\ lifespan \in Nat /\ jitter \in Nat /\ timeout \in Nat
  /\ limiter \in {"new", "made", "panicked"}
  /\ isMonitoring \in BOOLEAN /\ cancelled \in BOOLEAN
  /\ call \in [Call -> CallState]
  /\ began \in [Call -> Nat]
  /\ clock \in Nat
  /\ received \in SUBSET Call
  /\ limitCounter \in Nat

\* The goroutine of this call holds the flag.
Monitors(c) == call[c] \in {"select", "fired", "stopped"}

\* IsMonitoring "returns true if the limiter is currently monitoring a
\* process" (types.go): it tells whether a goroutine holds the flag, and at
\* most one does, however the calls of Monitor interleave.
OneMonitor ==
  /\ isMonitoring <=> \E c \in Call : Monitors(c)
  /\ \A c, d \in Call : Monitors(c) /\ Monitors(d) => c = d

\* No event reaches the supervisor before the configured lifespan is over: the
\* jitter only ever lengthens a life.
NotTooEarly ==
  \A c \in received : clock >= began[c] + lifespan

\* The jitter lengthens a life by less than the ratio asked for, and rand.Intn
\* panics only where the jitter does not amount to one millisecond.
JitterInRange ==
  /\ limiter = "made" => /\ timeout >= lifespan
                         /\ jitter > 0 => 100 * (timeout - lifespan) < jitter * lifespan
  /\ limiter = "panicked" => jitter * lifespan < 100

\* Every call of Monitor gives the flag back and comes to its end or to its
\* send, when the lifespan is over or the context done.  The send does not look
\* at the context: a goroutine whose event Run no longer receives stays in it.
MonitorEnds ==
  limiter = "made" ~>
    ~isMonitoring /\ \A c \in Call : call[c] \in {"sending", "returned"}

===============================================================================
