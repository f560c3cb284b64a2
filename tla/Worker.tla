-------------------------------- MODULE Worker --------------------------------
(***************************************************************************)
(* The processes that Monoceros supervises, as realProcessWorker           *)
(* (internal/worker/worker_real.go) sees them, with the go-cmd Cmd each    *)
(* one wraps, its lifespan limiter (limiter_time.go), the goroutines that  *)
(* Terminate spawns, and the unbuffered channel on which all of them send  *)
(* events to the supervisor.                                               *)
(*                                                                         *)
(* A restart replaces the worker object registered under a name by a new   *)
(* one, but goroutines of the old object live on and their events carry    *)
(* only the name.  The module therefore tells apart the senders that       *)
(* belong to the registered object (pending) and those whose object has    *)
(* been replaced (stale); the code cannot.                                 *)
(***************************************************************************)
EXTENDS Naturals

CONSTANTS
  Proc,      \* names of all supervised processes, of all pools
  Proxies,   \* those that are the Envoy proxy of their pool (ProxyId)
  Limited,   \* those that get a lifespan limiter (limits.lifespan # 0)
  MaxGen     \* bound: from this generation on a process no longer ends, fails
             \* to start or outlives its lifespan of its own accord

ASSUME WorkerAssumption ==
  /\ Proxies \subseteq Proc
  /\ Limited \subseteq Proc \ Proxies
  /\ MaxGen \in Nat

VARIABLES
  worker,    \* the worker object registered under each name
  orphans,   \* limiter goroutines of replaced objects, never cancelled
  pending,   \* goroutines blocked on a send for the registered object
  stale      \* goroutines blocked on a send for an object since replaced

workerVars == <<worker, orphans, pending, stale>>

ProcessEnd              == "ProcessEnd"
ProcessNeedsTermination == "ProcessNeedsTermination"
ProcessExceededLimit    == "ProcessExceededLimit"
ProcessNeedsInterrupt   == "ProcessNeedsInterrupt"

EventType == {ProcessEnd, ProcessNeedsTermination,
              ProcessExceededLimit, ProcessNeedsInterrupt}

(***************************************************************************)
(* The states of a go-cmd Cmd: no worker registered yet; created; Start()  *)
(* called but no process yet (PID 0, Stop() answers ErrNotStarted);        *)
(* process running; process gone; exec failed (StopTs set, PID still 0).   *)
(***************************************************************************)
CmdState == {"none", "prepared", "starting", "running", "exited", "startFailed"}

WorkerObject ==
  [gen      : Nat,        \* how many objects this name has had before
   cmd      : CmdState,
   sigterm  : BOOLEAN,    \* SIGTERM has been sent to the process
   sigkill  : BOOLEAN,    \* SIGKILL has been sent to the process
   drained  : BOOLEAN,    \* stdStreamChan is closed
   armed    : BOOLEAN,    \* its limiter goroutine waits in Monitor's select
   timers   : Nat]        \* goroutines of Terminate waiting for the timeout

Senders == [Proc -> [EventType -> Nat]]

NoSenders == [t \in EventType |-> 0]

Send(ch, q, t) == [ch EXCEPT ![q][t] = @ + 1]

Take(ch, q, t) == [ch EXCEPT ![q][t] = @ - 1]

-------------------------------------------------------------------------------

(***************************************************************************)
(* newWorkerInstance, together with the `go StreamLogs` its callers start: *)
(* without streaming StreamLogs closes stdStreamChan at once.              *)
(***************************************************************************)
NewWorker(g, streaming) ==
  [gen |-> g, cmd |-> "prepared", sigterm |-> FALSE, sigkill |-> FALSE,
   drained |-> ~streaming, armed |-> FALSE, timers |-> 0]

\* The name is not in the pool's map yet.
NoWorker == [NewWorker(0, FALSE) EXCEPT !.cmd = "none"]

\* The two answers of realProcessWorker.Status that its callers ask for.
Terminated(w) == w.cmd \in {"exited", "startFailed"}

Running(w) == w.cmd = "running"

HasPid(w) == w.cmd \in {"running", "exited"}

\* realProcessWorker.Restarts: prepareProxy leaves the field at its zero value.
Restarts(q) == IF q \in Proxies THEN 0 ELSE worker[q].gen

\* realProcessWorker.Run, on the object it is called on.
Run(q, w) == [w EXCEPT !.cmd = "starting", !.armed = q \in Limited]

\* Mutant of Terminate: no goroutine waits for the timeout.
TerminateNoTimer(q, ch) ==
  /\ worker' = IF Terminated(worker[q]) THEN worker
               ELSE [worker EXCEPT ![q].armed = FALSE,
                                   ![q].sigterm = Running(worker[q])]
  /\ pending' = IF Terminated(worker[q]) \/ Running(worker[q])
                  THEN ch
                  ELSE Send(ch, q, ProcessNeedsInterrupt)

\* Mutant of Terminate: ErrNotStarted is not reported back.
TerminateNoRetry(q, ch) ==
  /\ worker' = CASE Terminated(worker[q]) -> worker
                 [] Running(worker[q]) ->
                      [worker EXCEPT ![q].armed = FALSE, ![q].sigterm = TRUE,
                                     ![q].timers = @ + 1]
                 [] OTHER -> [worker EXCEPT ![q].armed = FALSE]
  /\ pending' = ch

(***************************************************************************)
(* realProcessWorker.Terminate(q), where ch is the channel as the caller   *)
(* leaves it.  Cancelling the context makes the limiter goroutine return.  *)
(***************************************************************************)
Terminate(q, ch) ==
  LET w == worker[q] IN
  IF Terminated(w)
    THEN worker' = worker /\ pending' = ch
  ELSE IF ~Running(w)
    THEN /\ worker' = [worker EXCEPT ![q].armed = FALSE]
         /\ pending' = Send(ch, q, ProcessNeedsInterrupt)
    ELSE /\ worker' = [worker EXCEPT ![q].armed = FALSE,
                                     ![q].sigterm = TRUE,
                                     ![q].timers = @ + 1]
         /\ pending' = ch

(***************************************************************************)
(* The worker factory and Run under a name that already has a worker: what *)
(* the old object still has in flight becomes stale, its limiter goroutine *)
(* (if Terminate never cancelled it) an orphan.  The old timers need not   *)
(* be kept: when they wake they find their object Terminated and return.   *)
(***************************************************************************)
Replace(q, ch) ==
  /\ worker' = [worker EXCEPT ![q] = Run(q, NewWorker(worker[q].gen + 1, TRUE))]
  /\ orphans' = [orphans EXCEPT ![q] = IF worker[q].armed THEN @ + 1 ELSE @]
  /\ stale' = [stale EXCEPT ![q] = [t \in EventType |-> @[t] + ch[q][t]]]
  /\ pending' = [ch EXCEPT ![q] = NoSenders]

-------------------------------------------------------------------------------

\* The operating system has started the process; go-cmd records its PID.
OSStart(q) ==
  /\ worker[q].cmd = "starting"
  /\ worker' = [worker EXCEPT ![q].cmd = "running"]
  /\ UNCHANGED <<orphans, pending, stale>>

\* exec failed: go-cmd reports the final status and closes the streams.
OSStartFail(q) ==
  /\ worker[q].cmd = "starting"
  /\ worker[q].gen < MaxGen
  /\ worker' = [worker EXCEPT ![q].cmd = "startFailed"]
  /\ pending' = Send(pending, q, ProcessEnd)
  /\ UNCHANGED <<orphans, stale>>

\* Mutant of OSExit: the exit is reported twice.
OSExitTwice(q) ==
  /\ Running(worker[q])
  /\ worker[q].gen < MaxGen \/ worker[q].sigterm \/ worker[q].sigkill
  /\ worker' = [worker EXCEPT ![q].cmd = "exited"]
  /\ pending' = Send(Send(pending, q, ProcessEnd), q, ProcessEnd)
  /\ UNCHANGED <<orphans, stale>>

(***************************************************************************)
(* The process ends: by itself, on the SIGTERM it chose to obey, or by     *)
(* SIGKILL.  go-cmd delivers one final status, which                       *)
(* sendUpdatesToAggrChannel turns into one ProcessEnd.                     *)
(***************************************************************************)
OSExit(q) ==
  /\ Running(worker[q])
  /\ worker[q].gen < MaxGen \/ worker[q].sigterm \/ worker[q].sigkill
  /\ worker' = [worker EXCEPT ![q].cmd = "exited"]
  /\ pending' = Send(pending, q, ProcessEnd)
  /\ UNCHANGED <<orphans, stale>>

\* StreamLogs has logged the last line of both streams and closes its channel.
StreamLogsDone(q) ==
  /\ Terminated(worker[q])
  /\ ~worker[q].drained
  /\ worker' = [worker EXCEPT ![q].drained = TRUE]
  /\ UNCHANGED <<orphans, pending, stale>>

\* signalTimeout has elapsed in a goroutine that Terminate left behind.
SignalTimeout(q) ==
  /\ worker[q].timers > 0
  /\ worker' = [worker EXCEPT ![q].timers = @ - 1]
  /\ pending' = IF Terminated(worker[q])
                  THEN pending
                  ELSE Send(pending, q, ProcessNeedsTermination)
  /\ UNCHANGED <<orphans, stale>>

\* TimeLimiter.Monitor: the lifespan timer of the registered object fires.
LimiterFire(q) ==
  /\ worker[q].armed
  /\ worker[q].gen < MaxGen
  /\ worker' = [worker EXCEPT ![q].armed = FALSE]
  /\ pending' = Send(pending, q, ProcessExceededLimit)
  /\ UNCHANGED <<orphans, stale>>

\* TimeLimiter.Monitor: the lifespan timer of a replaced object fires.
OrphanLimiterFire(q) ==
  /\ orphans[q] > 0
  /\ orphans' = [orphans EXCEPT ![q] = @ - 1]
  /\ stale' = Send(stale, q, ProcessExceededLimit)
  /\ UNCHANGED <<worker, pending>>

Environment(q) ==
  \/ OSStart(q)
  \/ OSStartFail(q)
  \/ OSExit(q)
  \/ StreamLogsDone(q)
  \/ SignalTimeout(q)
  \/ LimiterFire(q)
  \/ OrphanLimiterFire(q)

WorkerTypeOK ==
  /\ worker  \in [Proc -> WorkerObject]
  /\ orphans \in [Proc -> Nat]
  /\ pending \in Senders
  /\ stale   \in Senders

===============================================================================
