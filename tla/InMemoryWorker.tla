---------------------------- MODULE InMemoryWorker ----------------------------
(***************************************************************************)
(* The worker that the tests of the pool and of the supervisor put in      *)
(* place of a process (internal/worker/worker_memory.go): one object, its  *)
(* goroutines, and the calls that the supervisor's event loop makes on it  *)
(* (internal/supervisor/supervisor.go).  The channel has no buffer: a      *)
(* goroutine that sends an event waits until the loop receives it.         *)
(***************************************************************************)
EXTENDS Naturals

Event == {"ProcessEnd", "ProcessNeedsTermination", "ProcessExceededLimit"}

VARIABLES
  exitAfter,    \* ExitAfter is not 0
  ignoreTerm,   \* IgnoreTerm
  hasLifespan,  \* there is a lifespan limiter
  memStatus,    \* ProcessStatus; "PrepareWorkers" is its zero value
  memCancelled, \* the context of the limiters is cancelled
  memExitTimer, \* the goroutine of Run: none, waiting, over
  killTimers,   \* the goroutines of Terminate that wait for its timeout
  monitor,      \* the lifespan limiter's goroutine: none, waiting, over
  ticker,       \* the goroutine of StreamLogs: none, waiting, over
  memLogged,    \* it has written a line
  sends,        \* the goroutines that wait to send an event, of each type
  got,          \* the events the loop has received, of each type
  loop,         \* the event loop: starting, serving, draining
  held          \* the pool's map still holds this object

settings == <<exitAfter, ignoreTerm, hasLifespan>>
logging  == <<ticker, memLogged>>
caller   == <<got, loop, held>>
memoryVars == <<settings, memStatus, memCancelled, memExitTimer, killTimers,
                monitor, logging, sends, caller>>

\* NewInMemoryWorker, the fields set by the tests, and prepareWorkerInternal,
\* which starts StreamLogs in a goroutine of its own.
MemoryInit ==
  /\ exitAfter \in BOOLEAN /\ ignoreTerm \in BOOLEAN /\ hasLifespan \in BOOLEAN
  /\ memStatus = "PrepareWorkers"
  /\ memCancelled = FALSE
  /\ memExitTimer = "none" /\ killTimers = 0 /\ monitor = "none"
  /\ ticker = "none" /\ memLogged = FALSE
  /\ sends = [e \in Event |-> 0] /\ got = [e \in Event |-> 0]
  /\ loop = "starting"
  /\ held = TRUE

-------------------------------------------------------------------------------
\* The object's own goroutines.

\* LogInterval is not 0.
StreamLogs ==
  /\ ticker = "none"
  /\ ticker' = "waiting"
  /\ UNCHANGED <<settings, memStatus, memCancelled, memExitTimer, killTimers,
                 monitor, memLogged, sends, caller>>

LogTick ==
  /\ ticker = "waiting"
  /\ IF memStatus = "Running"
       THEN memLogged' = TRUE /\ UNCHANGED ticker
       ELSE ticker' = "over" /\ UNCHANGED memLogged
  /\ UNCHANGED <<settings, memStatus, memCancelled, memExitTimer, killTimers,
                 monitor, sends, caller>>

\* Mutant of ExitTimer: the status is left for the receiver to set.
ExitTimerOnlySends ==
  /\ memExitTimer = "waiting"
  /\ memExitTimer' = "over"
  /\ sends' = [sends EXCEPT !["ProcessEnd"] = @ + 1]
  /\ UNCHANGED <<settings, memStatus, memCancelled, killTimers, monitor, logging,
                 caller>>

\* The goroutine of Run after ExitAfter.
ExitTimer ==
  /\ memExitTimer = "waiting"
  /\ memExitTimer' = "over"
  /\ memStatus' = "Terminated"
  /\ sends' = [sends EXCEPT !["ProcessEnd"] = @ + 1]
  /\ UNCHANGED <<settings, memCancelled, killTimers, monitor, logging, caller>>


\* The goroutine of Terminate after the timeout.
KillTimer ==
  /\ killTimers > 0
  /\ killTimers' = killTimers - 1
  /\ IF memStatus # "Terminated"
       THEN sends' = [sends EXCEPT !["ProcessNeedsTermination"] = @ + 1]
       ELSE UNCHANGED sends
  /\ UNCHANGED <<settings, memStatus, memCancelled, memExitTimer, monitor, logging,
                 caller>>

\* TimeLimiter.Monitor: the lifespan is over, or the context is cancelled.
LifespanOver ==
  /\ monitor = "waiting"
  /\ monitor' = "over"
  /\ \/ sends' = [sends EXCEPT !["ProcessExceededLimit"] = @ + 1]
     \/ memCancelled /\ UNCHANGED sends
  /\ UNCHANGED <<settings, memStatus, memCancelled, memExitTimer, killTimers,
                 logging, caller>>

-------------------------------------------------------------------------------
\* What the event loop does to the object.

\* RunAll, and the loop is entered.
Run ==
  /\ loop = "starting"
  /\ loop' = "serving"
  /\ monitor' = IF hasLifespan THEN "waiting" ELSE "none"
  /\ memStatus' = "Running"
  /\ memExitTimer' = IF exitAfter THEN "waiting" ELSE "none"
  /\ UNCHANGED <<settings, memCancelled, killTimers, logging, sends, got, held>>

\* Terminate, for the object the map holds; s: the sends it finds.
Terminate(s) ==
  /\ memCancelled' = TRUE
  /\ IF ignoreTerm
       THEN /\ killTimers' = killTimers + 1
            /\ memStatus' = "Terminating"
            /\ sends' = s
       ELSE /\ memStatus' = "Terminated"
            /\ sends' = [s EXCEPT !["ProcessEnd"] = @ + 1]
            /\ UNCHANGED killTimers

ForceTerminateWorker(s) ==
  /\ memStatus' = "Terminated"
  /\ sends' = [s EXCEPT !["ProcessEnd"] = @ + 1]
  /\ UNCHANGED <<memCancelled, killTimers>>

\* The call concerns another object, or there is none.
NoCall(s) == sends' = s /\ UNCHANGED <<memCancelled, memStatus, killTimers>>

(***************************************************************************)
(* The loop receives an event of type e.  An end makes it put another      *)
(* object in this one's place, or give the worker up, after which this one *)
(* stays in the map.                                                       *)
(***************************************************************************)
Receive(e) ==
  LET s == [sends EXCEPT ![e] = @ - 1] IN
  /\ loop # "starting" /\ sends[e] > 0
  /\ got' = [got EXCEPT ![e] = @ + 1]
  /\ \/ e = "ProcessEnd" /\ NoCall(s) /\ held' \in {held, held /\ loop = "draining"}
     \/ e = "ProcessExceededLimit" /\ UNCHANGED held
        /\ IF held /\ loop = "serving" THEN Terminate(s) ELSE NoCall(s)
     \/ e = "ProcessNeedsTermination" /\ UNCHANGED held
        /\ IF held THEN ForceTerminateWorker(s) ELSE NoCall(s)
  /\ UNCHANGED <<settings, memExitTimer, monitor, logging, loop>>

InterruptAll ==
  /\ loop = "serving"
  /\ loop' = "draining"
  /\ IF held THEN Terminate(sends) ELSE NoCall(sends)
  /\ UNCHANGED <<settings, memExitTimer, monitor, logging, got, held>>

MemoryNext ==
  \/ StreamLogs \/ LogTick \/ ExitTimer \/ KillTimer \/ LifespanOver
  \/ Run \/ InterruptAll
  \/ \E e \in Event : Receive(e)

MemorySpec == MemoryInit /\ [][MemoryNext]_memoryVars

-------------------------------------------------------------------------------
\* Correctness.

Phase == {"none", "waiting", "over"}

\* Every variable has its type, and there is a goroutine behind every event.
MemoryTypeOK ==
  /\ exitAfter \in BOOLEAN /\ ignoreTerm \in BOOLEAN /\ hasLifespan \in BOOLEAN
  /\ memStatus \in {"PrepareWorkers", "Running", "Terminating", "Terminated"}
  /\ memCancelled \in BOOLEAN
  /\ memExitTimer \in Phase /\ monitor \in Phase /\ ticker \in Phase
  /\ killTimers \in Nat
  /\ memLogged \in BOOLEAN
  /\ sends \in [Event -> Nat] /\ got \in [Event -> Nat]
  /\ loop \in {"starting", "serving", "draining"}
  /\ held \in BOOLEAN

\* The check with which Supervisor.Run ends adds up the workers that are Running
\* after all ends have come: a worker whose end is announced is not one of them.
EndedNotRunning ==
  sends["ProcessEnd"] + got["ProcessEnd"] > 0 => memStatus # "Running"


===============================================================================
