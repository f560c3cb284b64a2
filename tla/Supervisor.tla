------------------------------ MODULE Supervisor ------------------------------
(***************************************************************************)
(* The supervisor's control loop (internal/supervisor/supervisor.go) over  *)
(* the pools of WorkerPool and the processes of Worker.                    *)
(*                                                                         *)
(* Supervisor.Run is one goroutine; pc says where it is:                   *)
(*   create        createAndPreparePools                                   *)
(*   runAll        the loop over p.pool.RunAll()                           *)
(*   loop          the select of the main loop (s.terminating is false)    *)
(*   interruptAll  the loop over p.pool.InterruptAll()                     *)
(*   proxyDrain    InterruptAll, waiting for the answer of Envoy's admin   *)
(*   drain         the second event loop                                   *)
(*   returned, failed, leaked   Run has returned nil, the error of         *)
(*                 createAndPreparePools, the error of its sanity check    *)
(*   panicked      handleProcessEnd has panicked                           *)
(*   killed        Monoceros has sent SIGKILL to its own process group     *)
(***************************************************************************)
EXTENDS WorkerPool

VARIABLES
  pc,
  ctxDone,              \* the supervisor's context has been cancelled
  poolsLeft,            \* pools RunAll/InterruptAll is still to be called on
  left,                 \* workers the current RunAll/InterruptAll has left
  handling,             \* {q}: blocked in WaitForWorkerToCleanBuffer(q)
  terminatedProcesses,
  runningProcesses      \* WorkerPoolInfo.runningProcesses

controlVars == <<pc, ctxDone, poolsLeft, left, handling>>
countVars   == <<terminatedProcesses, runningProcesses>>
vars == <<workerVars, poolVars, controlVars, countVars>>

Final == {"returned", "failed", "leaked", "panicked", "killed"}

Terminating == {"interruptAll", "proxyDrain", "drain"}

PC == {"create", "runAll", "loop"} \cup Terminating \cup Final

TotalProcesses == Cardinality(Proc)

PoolTotal(p) == Cardinality(ProcsOf(p))

Init ==
  /\ worker  = [q \in Proc |-> NoWorker]
  /\ orphans = [q \in Proc |-> 0]
  /\ pending = [q \in Proc |-> NoSenders]
  /\ stale   = [q \in Proc |-> NoSenders]
  /\ poolState       = [p \in Pools |-> "Init"]
  /\ runningGauge    = [p \in Pools |-> 0]
  /\ terminatedGauge = [p \in Pools |-> 0]
  /\ pc = "create"
  /\ ctxDone = FALSE
  /\ poolsLeft = {}
  /\ left = {}
  /\ handling = {}
  /\ terminatedProcesses = 0
  /\ runningProcesses = [p \in Pools |-> 0]

-------------------------------------------------------------------------------
\* Starting up.

CreateAndPreparePools ==
  /\ pc = "create"
  /\ pc' = "runAll"
  /\ worker' = PrepareWorkers
  /\ poolState' = [p \in Pools |-> "Prepared"]
  /\ runningProcesses' = [p \in Pools |-> PoolTotal(p)]
  /\ poolsLeft' = Pools
  /\ UNCHANGED <<orphans, pending, stale, runningGauge, terminatedGauge,
                 ctxDone, left, handling, terminatedProcesses>>

\* A pool could not be made or prepared; s.pools stays empty.
CreateError ==
  /\ pc = "create"
  /\ pc' = "failed"
  /\ UNCHANGED <<workerVars, poolVars, ctxDone, poolsLeft, left, handling,
                 countVars>>

RunAllPool(p) ==
  /\ pc = "runAll" /\ left = {}
  /\ p \in poolsLeft
  /\ poolsLeft' = poolsLeft \ {p}
  /\ left' = ProcsOf(p)
  /\ UNCHANGED <<workerVars, poolVars, pc, ctxDone, handling, countVars>>

RunAllWorker(q) ==
  /\ pc = "runAll"
  /\ q \in left
  /\ left' = left \ {q}
  /\ RunOne(q)
  /\ UNCHANGED <<pc, ctxDone, poolsLeft, handling, countVars>>

RunAllDone ==
  /\ pc = "runAll" /\ left = {} /\ poolsLeft = {}
  /\ pc' = "loop"
  /\ UNCHANGED <<workerVars, poolVars, ctxDone, poolsLeft, left, handling,
                 countVars>>

-------------------------------------------------------------------------------
\* Receiving from s.ch.

\* The goroutine is at a receive: in the select, or in the second loop.
Receiving ==
  /\ handling = {}
  /\ \/ pc = "loop"
     \/ pc = "drain" /\ terminatedProcesses # TotalProcesses

(***************************************************************************)
(* What is left of the blocked senders once one event of type t for q has  *)
(* been received; the receiver cannot tell which object it is about.       *)
(***************************************************************************)
Receive(q, t) ==
  {c \in {<<Take(pending, q, t), stale>>} : pending[q][t] > 0} \cup
  {c \in {<<pending, Take(stale, q, t)>>} : stale[q][t] > 0}

\* <-ctx.Done() in the main loop's select.
ReceiveCtxDone ==
  /\ Receiving /\ pc = "loop"
  /\ ctxDone
  /\ pc' = "interruptAll"
  /\ poolsLeft' = Pools
  /\ UNCHANGED <<workerVars, poolVars, ctxDone, left, handling, countVars>>

(***************************************************************************)
(* handleProcessEnd, up to the wait for the log streams.  A worker that is *)
(* not Terminated makes WaitForWorkerToCleanBuffer fail, and it panics.    *)
(***************************************************************************)
ReceiveProcessEnd(q) ==
  /\ Receiving
  /\ \E c \in Receive(q, ProcessEnd) : pending' = c[1] /\ stale' = c[2]
  /\ IF Terminated(worker[q])
       THEN handling' = {q} /\ pc' = pc
       ELSE handling' = {} /\ pc' = "panicked"
  /\ UNCHANGED <<worker, orphans, poolVars, ctxDone, poolsLeft, left,
                 countVars>>

ReceiveExceededLimit(q) ==
  /\ Receiving
  /\ \E c \in Receive(q, ProcessExceededLimit) :
       /\ stale' = c[2]
       /\ IF pc = "loop"
            THEN InterruptWorker(q, c[1])
            ELSE worker' = worker /\ pending' = c[1]
  /\ UNCHANGED <<orphans, poolVars, controlVars, countVars>>

ReceiveNeedsInterrupt(q) ==
  /\ Receiving
  /\ \E c \in Receive(q, ProcessNeedsInterrupt) :
       stale' = c[2] /\ InterruptWorker(q, c[1])
  /\ UNCHANGED <<orphans, poolVars, controlVars, countVars>>

ReceiveNeedsTermination(q) ==
  /\ Receiving
  /\ \E c \in Receive(q, ProcessNeedsTermination) :
       pending' = c[1] /\ stale' = c[2]
  /\ ForceTerminateWorker(q)
  /\ pc' = IF HasPid(worker[q]) THEN pc ELSE "killed"
  /\ UNCHANGED <<orphans, poolVars, ctxDone, poolsLeft, left, handling,
                 countVars>>

-------------------------------------------------------------------------------
\* The rest of handleProcessEnd, once the log streams have been drained.

Drained(q) ==
  /\ handling = {q}
  /\ worker[q].drained
  /\ handling' = {}

\* RestartWorker returned nil.
Restart(q) ==
  /\ pc = "loop"
  /\ Drained(q)
  /\ \E result \in RestartResults(q) \cap {"restarted", "skipped"} :
       RestartWorker(q, result)
  /\ UNCHANGED <<poolVars, pc, ctxDone, poolsLeft, left, countVars>>

\* Mutant of HandleTermination: the copy of the pool's info is not stored back.
HandleTerminationLost(p) ==
  /\ UNCHANGED runningProcesses
  /\ IF HasProxy(p)
       THEN InterruptWorker(ProxyOf(p), pending)
       ELSE worker' = worker /\ pending' = pending

\* Mutant of HandleTermination: the proxy waits for its own end.
HandleTerminationLate(p) ==
  /\ runningProcesses' = Add(runningProcesses, p, -1)
  /\ IF HasProxy(p) /\ runningProcesses'[p] = 0
       THEN InterruptWorker(ProxyOf(p), pending)
       ELSE worker' = worker /\ pending' = pending

(***************************************************************************)
(* handleProcessTerminationDuringShutdown for a process of pool p.         *)
(***************************************************************************)
HandleTermination(p) ==
  /\ runningProcesses' = Add(runningProcesses, p, -1)
  /\ IF HasProxy(p) /\ runningProcesses'[p] = PoolTotal(p) - 1
       THEN InterruptWorker(ProxyOf(p), pending)
       ELSE worker' = worker /\ pending' = pending

\* Mutant of GiveUp: too many restarts do not cancel the context.
GiveUpQuietly(q) ==
  /\ pc \in {"loop", "drain"}
  /\ Drained(q)
  /\ pc = "loop" => RestartResults(q) \ {"restarted", "skipped"} # {}
  /\ terminatedProcesses' = terminatedProcesses + 1
  /\ runningGauge' = Add(runningGauge, PoolOf[q], -1)
  /\ terminatedGauge' = Add(terminatedGauge, PoolOf[q], 1)
  /\ HandleTermination(PoolOf[q])
  /\ UNCHANGED <<orphans, stale, poolState, pc, ctxDone, poolsLeft, left>>

\* Mutant of GiveUp: the end is taken off the processes that have ended.
GiveUpCountingDown(q) ==
  /\ pc \in {"loop", "drain"}
  /\ Drained(q)
  /\ \E result \in IF pc = "loop" THEN RestartResults(q) ELSE {"terminating"} :
       /\ result \notin {"restarted", "skipped"}
       /\ ctxDone' = (ctxDone \/ result = "tooManyRestarts")
  /\ terminatedProcesses' = terminatedProcesses - 1
  /\ runningGauge' = Add(runningGauge, PoolOf[q], -1)
  /\ terminatedGauge' = Add(terminatedGauge, PoolOf[q], 1)
  /\ HandleTermination(PoolOf[q])
  /\ UNCHANGED <<orphans, stale, poolState, pc, poolsLeft, left>>

\* The process will not be restarted: handleProcessEnd returned an error.
GiveUp(q) ==
  LET p == PoolOf[q] IN
  /\ pc \in {"loop", "drain"}
  /\ Drained(q)
  /\ \E result \in IF pc = "loop" THEN RestartResults(q) ELSE {"terminating"} :
       /\ result \notin {"restarted", "skipped"}
       /\ ctxDone' = (ctxDone \/ result = "tooManyRestarts")
  /\ terminatedProcesses' = terminatedProcesses + 1
  /\ runningGauge' = Add(runningGauge, p, -1)
  /\ terminatedGauge' = Add(terminatedGauge, p, 1)
  /\ HandleTermination(p)
  /\ UNCHANGED <<orphans, stale, poolState, pc, poolsLeft, left>>

-------------------------------------------------------------------------------
\* Shutting down.

\* Mutant of InterruptPool: the proxy is interrupted along with the workers.
InterruptPoolWithProxy(p) ==
  /\ pc = "interruptAll" /\ left = {}
  /\ p \in poolsLeft
  /\ poolsLeft' = poolsLeft \ {p}
  /\ poolState' = [poolState EXCEPT ![p] = "Draining"]
  /\ left' = ProcsOf(p)
  /\ pc' = IF HasProxy(p) THEN "proxyDrain" ELSE pc
  /\ UNCHANGED <<workerVars, runningGauge, terminatedGauge, ctxDone, handling,
                 countVars>>

\* InterruptAll of one pool, up to the drain request to its proxy.
InterruptPool(p) ==
  /\ pc = "interruptAll" /\ left = {}
  /\ p \in poolsLeft
  /\ poolsLeft' = poolsLeft \ {p}
  /\ poolState' = [poolState EXCEPT ![p] = "Draining"]
  /\ left' = ProcsOf(p) \ Proxies
  /\ pc' = IF HasProxy(p) THEN "proxyDrain" ELSE pc
  /\ UNCHANGED <<workerVars, runningGauge, terminatedGauge, ctxDone, handling,
                 countVars>>

\* proxyDrain returns, with or without an error (which is only logged).
ProxyDrainReturns ==
  /\ pc = "proxyDrain"
  /\ pc' = "interruptAll"
  /\ UNCHANGED <<workerVars, poolVars, ctxDone, poolsLeft, left, handling,
                 countVars>>

InterruptAllWorker(q) ==
  /\ pc = "interruptAll"
  /\ q \in left
  /\ left' = left \ {q}
  /\ Terminate(q, pending)
  /\ UNCHANGED <<orphans, stale, poolVars, pc, ctxDone, poolsLeft, handling,
                 countVars>>

\* Mutant of InterruptAllDone: the early return is off by one.
InterruptAllDoneEarly ==
  /\ pc = "interruptAll" /\ left = {} /\ poolsLeft = {}
  /\ pc' = IF terminatedProcesses + 1 >= TotalProcesses THEN "returned" ELSE "drain"
  /\ UNCHANGED <<workerVars, poolVars, ctxDone, poolsLeft, left, handling,
                 countVars>>

InterruptAllDone ==
  /\ pc = "interruptAll" /\ left = {} /\ poolsLeft = {}
  /\ pc' = IF terminatedProcesses = TotalProcesses THEN "returned" ELSE "drain"
  /\ UNCHANGED <<workerVars, poolVars, ctxDone, poolsLeft, left, handling,
                 countVars>>

\* The second loop ends; the sanity check on RunningCount decides the result.
CheckCleanup ==
  /\ pc = "drain" /\ handling = {}
  /\ terminatedProcesses = TotalProcesses
  /\ pc' = IF RunningCount = 0 THEN "returned" ELSE "leaked"
  /\ UNCHANGED <<workerVars, poolVars, ctxDone, poolsLeft, left, handling,
                 countVars>>

-------------------------------------------------------------------------------

\* mainCore cancels the context: a signal arrived, or the admin server ended.
Cancel ==
  /\ pc \notin Final
  /\ ~ctxDone
  /\ ctxDone' = TRUE
  /\ UNCHANGED <<workerVars, poolVars, pc, poolsLeft, left, handling,
                 countVars>>

\* The processes and the other goroutines, as long as Run has not returned.
EnvironmentStep(q) ==
  /\ pc \notin Final
  /\ Environment(q)
  /\ UNCHANGED <<poolVars, controlVars, countVars>>

\* Run has returned, or Monoceros is gone.
Finished ==
  /\ pc \in Final
  /\ UNCHANGED vars

Sequential ==
  \/ CreateAndPreparePools
  \/ CreateError
  \/ \E p \in Pools : RunAllPool(p)
  \/ \E q \in Proc : RunAllWorker(q)
  \/ RunAllDone
  \/ \E q \in Proc : Restart(q)
  \/ \E q \in Proc : GiveUp(q)
  \/ \E p \in Pools : InterruptPool(p)
  \/ \E q \in Proc : InterruptAllWorker(q)
  \/ InterruptAllDone
  \/ CheckCleanup

ReceiveEvent(q) ==
  \/ ReceiveProcessEnd(q)
  \/ ReceiveExceededLimit(q)
  \/ ReceiveNeedsInterrupt(q)
  \/ ReceiveNeedsTermination(q)

Next ==
  \/ Sequential
  \/ ReceiveCtxDone
  \/ \E q \in Proc : ReceiveEvent(q)
  \/ ProxyDrainReturns
  \/ Cancel
  \/ \E q \in Proc : EnvironmentStep(q)
  \/ Finished

Spec == Init /\ [][Next]_vars

-------------------------------------------------------------------------------
\* Correctness.

ControlTypeOK ==
  /\ pc \in PC
  /\ ctxDone \in BOOLEAN
  /\ poolsLeft \in SUBSET Pools
  /\ left \in SUBSET Proc
  /\ handling \in SUBSET Proc
  /\ terminatedProcesses \in Nat
  /\ runningProcesses \in [Pools -> Int]

\* Every variable has its type (the fields of Supervisor, WorkerPoolInfo,
\* WorkerPool and realProcessWorker, and the senders blocked on the channel).
TypeOK == WorkerTypeOK /\ PoolTypeOK /\ ControlTypeOK

\* The last ProcessEnd of q has been handled and no worker has replaced q's.
GivenUp(q) ==
  /\ Terminated(worker[q])
  /\ pending[q][ProcessEnd] = 0
  /\ q \notin handling

GivenUpIn(p) == {q \in ProcsOf(p) : GivenUp(q)}

\* handleProcessEnd never panics: whenever a ProcessEnd is received, the worker
\* now registered under its name has terminated, although the event carries
\* only the name and other events of replaced workers are still in flight.
NoPanic == pc # "panicked"

\* terminatedProcesses and every pool's runningProcesses, which decide when Run
\* returns and when the proxy is interrupted, count exactly the processes that
\* ended for good: none twice, none forgotten.
CountersExact ==
  /\ terminatedProcesses = Cardinality({q \in Proc : GivenUp(q)})
  /\ pc \notin {"create", "failed"} =>
       \A p \in Pools :
         runningProcesses[p] = PoolTotal(p) - Cardinality(GivenUpIn(p))

\* Run returns nil only when every process has terminated, also when it returns
\* before its sanity check, and the sanity check never reports a leak.
CleanShutdown ==
  /\ pc # "leaked"
  /\ pc = "returned" => \A q \in Proc : Terminated(worker[q])

\* A process that was sent SIGTERM and still runs is on its way to SIGKILL:
\* a timeout goroutine waits, its event is in flight, or SIGKILL was sent.
EscalationArmed ==
  \A q \in Proc :
    /\ Running(worker[q]) /\ worker[q].sigterm
    => \/ worker[q].timers > 0
       \/ pending[q][ProcessNeedsTermination] > 0
       \/ worker[q].sigkill

\* Someone has asked q to end, or will on an event already in flight.
AskedToEnd(q) ==
  \/ Terminated(worker[q])
  \/ worker[q].sigterm
  \/ worker[q].sigkill
  \/ pending[q][ProcessNeedsInterrupt] + stale[q][ProcessNeedsInterrupt] > 0

\* Once InterruptAll is over no worker is forgotten, not even one that had not
\* started when it was interrupted.
NoWorkerForgotten ==
  pc = "drain" => \A q \in Proc \ Proxies : AskedToEnd(q)

\* The supervisor gives up on a worker only when it is about to shut down: a
\* crash within the restart budget never loses a replica silently.
NoWorkerAbandoned ==
  \A q \in Proc \ Proxies : GivenUp(q) /\ pc \notin Final => ctxDone

\* The worker_state gauges agree with the processes: terminated counts those
\* given up, running all other processes that were started.
GaugesExact ==
  \A p \in Pools :
    /\ terminatedGauge[p] = Cardinality(GivenUpIn(p))
    /\ runningGauge[p] =
         Cardinality({q \in ProcsOf(p) : worker[q].cmd \notin {"none", "prepared"}})
           - Cardinality(GivenUpIn(p))

\* A SIGTERM reaches a proxy only after some worker of its pool is gone for
\* good, so a proxy is never taken away from a pool that is fully up.
ProxyAfterAWorker ==
  [][\A q \in Proxies :
       ~worker[q].sigterm /\ worker'[q].sigterm
         => \E r \in ProcsOf(PoolOf[q]) \ Proxies : GivenUp(r)']_vars

\* A SIGKILL goes only to a process that was sent SIGTERM before
\* (handleProcessNeedsTermination): it had its signalTimeout to obey.  True only
\* where no such event outlives its worker; in general see StrayKill.
KillOnlyAfterTerm ==
  \A q \in Proc : worker[q].sigkill => worker[q].sigterm

\* What remains of KillOnlyAfterTerm in every configuration: a SIGKILL that no
\* SIGTERM announced never hits the first process under a name, only one that
\* replaced another, and Monoceros kills itself (kill(-0),
\* ForceTerminateWorker) only while a replacement has no PID.
StrayKill ==
  /\ \A q \in Proc : worker[q].sigkill /\ ~worker[q].sigterm => worker[q].gen > 0
  /\ pc = "killed" => \E q \in Proc : worker[q].gen > 0 /\ ~HasPid(worker[q])

(***************************************************************************)
(* The supervisor implements the abstract process group.                   *)
(***************************************************************************)
GroupProcess ==
  [q \in Proc |-> CASE worker[q].cmd \in {"none", "prepared"}    -> "absent"
                    [] worker[q].cmd \in {"starting", "running"} -> "up"
                    [] GivenUp(q)                                 -> "gone"
                    [] OTHER                                      -> "down"]

GroupPhase ==
  CASE pc \in {"create", "runAll"} -> "starting"
    [] pc = "loop"                 -> "up"
    [] pc \in Terminating          -> "stopping"
    [] pc = "returned"             -> "done"
    [] pc \in {"failed", "killed"} -> "dead"
    [] OTHER                       -> pc

Group == INSTANCE ProcessGroup WITH
           Process <- Proc, Optional <- Proxies,
           process <- GroupProcess, phase <- GroupPhase, closing <- ctxDone

\* Every step of the event loop, the goroutines and the processes is a step of
\* the abstract group or invisible to it: an ended process is replaced until the
\* group closes, nothing is started while it comes down, and Run returns nil
\* exactly when all processes are gone.
Implements == Group!GroupSpec

-------------------------------------------------------------------------------
\* Why: the facts that the invariants above rest on, inductive together.

\* The end of a process is announced once, while its object is registered, so
\* no ProcessEnd ever outlives the object it is about.
EndOnce ==
  \A q \in Proc :
    /\ stale[q][ProcessEnd] = 0
    /\ pending[q][ProcessEnd] \in {0, 1}
    /\ pending[q][ProcessEnd] = 1 => Terminated(worker[q])

\* The process whose end is being handled is still the one that ended.
HandledOnce ==
  /\ \A q \in handling : Terminated(worker[q]) /\ pending[q][ProcessEnd] = 0
  /\ \A q, r \in handling : q = r
  /\ handling # {} => pc \in {"loop", "drain"}

\* RunAll runs every worker once.
RunOnce ==
  /\ pc \in {"create", "failed"} =>
       left = {} /\ \A q \in Proc : worker[q].cmd = "none"
  /\ pc = "runAll" =>
       /\ \A q \in left : PoolOf[q] \notin poolsLeft
       /\ \A q \in Proc : q \in left \/ PoolOf[q] \in poolsLeft
                           => worker[q].cmd = "prepared"

EndInv == EndOnce /\ HandledOnce /\ RunOnce /\ NoPanic

\* No pool drains while the main loop runs: RestartWorker never skips a restart.
PoolsUp ==
  pc \in {"create", "runAll", "loop"} =>
    \A p \in Pools : poolState[p] \notin {"Draining", "Stopped"}

\* Only a process that runs is sent SIGTERM.
TermWhenRunning ==
  \A q \in Proc : worker[q].sigterm => worker[q].cmd \in {"running", "exited"}

-------------------------------------------------------------------------------
\* What comments, tests and documents say and the code does not do.

\* supervisor.go: "We want to shutdown the proxy after all the workers are
\* done": the proxy is sent SIGTERM only once every worker of its pool ended.
ProxyLast ==
  [][\A q \in Proxies :
       ~worker[q].sigterm /\ worker'[q].sigterm
         => \A r \in ProcsOf(PoolOf[q]) \ Proxies : Terminated(worker'[r])]_vars

\* types.go, ForceTerminateWorker: "Send a SIGKILL to the process", never to
\* the process group of Monoceros itself, which is what kill(-0) does.
NoSelfKill == pc # "killed"

-------------------------------------------------------------------------------
\* Liveness.

(***************************************************************************)
(* The supervisor's goroutine runs until it blocks.  Go serves the senders *)
(* blocked on a channel in FIFO order and select picks at random among the *)
(* cases that are ready, so a ready receive is not passed over forever.    *)
(* The operating system starts a process or fails to and ends one that got *)
(* SIGKILL; log streams reach their end and timers fire.  Nothing obliges  *)
(* a process to end by itself or to obey SIGTERM, a lifespan to run out,   *)
(* or anyone to cancel the context.                                        *)
(***************************************************************************)
SupervisorFairness ==
  /\ WF_vars(Sequential)
  /\ WF_vars(ReceiveCtxDone)
  /\ \A q \in Proc :
       /\ WF_vars(ReceiveProcessEnd(q))
       /\ WF_vars(ReceiveExceededLimit(q))
       /\ WF_vars(ReceiveNeedsInterrupt(q))
       /\ WF_vars(ReceiveNeedsTermination(q))

OSFairness ==
  \A q \in Proc :
    /\ WF_vars(EnvironmentStep(q) /\ worker[q].cmd = "starting"
                                  /\ worker'[q].cmd # "starting")
    /\ WF_vars(EnvironmentStep(q) /\ worker[q].sigkill
                                  /\ Terminated(worker'[q]))
    /\ WF_vars(EnvironmentStep(q) /\ worker'[q].drained # worker[q].drained)
    /\ WF_vars(EnvironmentStep(q) /\ worker'[q].timers < worker[q].timers)

FairSpec ==
  Spec /\ SupervisorFairness /\ OSFairness /\ WF_vars(ProxyDrainReturns)

\* docs/shutdown.md: Monoceros "terminates eventually even if the workers are
\* not responding": once the context is cancelled Run comes to its end.
Terminates == ctxDone ~> pc \in Final

\* A worker that ended runs again or is being restarted, unless the supervisor
\* shuts down (handleProcessEnd): none is lost while the group is up.
KeptAlive ==
  \A q \in Proc \ Proxies :
    Terminated(worker[q])
      ~> ~Terminated(worker[q]) \/ ctxDone \/ pc \in Final

\* A worker that exceeded its lifespan ends, even if it ignores SIGTERM, and
\* even if it had not started yet when the limiter fired.
LimitEnforced ==
  \A q \in Limited :
    pending[q][ProcessExceededLimit] > 0
      ~> Terminated(worker[q]) \/ pc \in Final

===============================================================================
