------------------------------ MODULE WorkerPool ------------------------------
(***************************************************************************)
(* The worker pools (internal/worker/worker_pool.go): each one owns the    *)
(* workers registered under its names and, in proxy mode, the Envoy proxy  *)
(* in front of them.  The operations are called by one goroutine, the      *)
(* supervisor's; what happens between them is the Environment of Worker.   *)
(***************************************************************************)
EXTENDS Worker, Integers, FiniteSets

CONSTANTS
  Pools,         \* names of the pools
  PoolOf,        \* the pool of each process
  MaxRestarts    \* max_restarts of each pool

ProcsOf(p) == {q \in Proc : PoolOf[q] = p}

ASSUME PoolAssumption ==
  /\ IsFiniteSet(Proc)
  /\ PoolOf \in [Proc -> Pools]
  /\ MaxRestarts \in [Pools -> Nat]
  \* Replicas > 0
  /\ \A p \in Pools : ProcsOf(p) \ Proxies # {}
  /\ \A q, r \in Proxies : PoolOf[q] = PoolOf[r] => q = r

VARIABLES
  poolState,          \* WorkerPool.state
  runningGauge,       \* workersStateGauge{state="running"}, per pool
  terminatedGauge     \* workersStateGauge{state="terminated"}, per pool

poolVars == <<poolState, runningGauge, terminatedGauge>>

PoolState == {"Init", "Prepared", "Started", "Draining", "Stopped"}

HasProxy(p) == ProcsOf(p) \cap Proxies # {}

ProxyOf(p) == CHOOSE q \in Proxies : PoolOf[q] = p

Add(f, p, n) == [f EXCEPT ![p] = @ + n]

-------------------------------------------------------------------------------

\* WorkerPool.PrepareWorkers of all pools: the logs of a proxy are not streamed
\* (until it is restarted with the options of the workers, see Replace).
PrepareWorkers == [q \in Proc |-> NewWorker(0, q \notin Proxies)]

\* WorkerPool.prepareProxy: rendering one of the three Envoy files may fail.
PrepareProxy == {"restarted", "configError"}

\* Mutant of RunOne: the gauge is not incremented.
RunOneUncounted(q) ==
  /\ worker' = [worker EXCEPT ![q] = Run(q, @)]
  /\ UNCHANGED <<orphans, pending, stale, poolVars>>

\* WorkerPool.RunAll, one turn of its loop.
RunOne(q) ==
  /\ worker' = [worker EXCEPT ![q] = Run(q, @)]
  /\ runningGauge' = Add(runningGauge, PoolOf[q], 1)
  /\ UNCHANGED <<orphans, pending, stale, poolState, terminatedGauge>>

\* Mutant of RestartResults: only a Started pool restarts (no pool ever is).
RestartResultsIfStarted(q) ==
  IF poolState[PoolOf[q]] # "Started"
    THEN {"skipped"}
  ELSE IF q \notin Proxies /\ Restarts(q) + 1 > MaxRestarts[PoolOf[q]]
    THEN {"tooManyRestarts"}
    ELSE {"restarted"}

(***************************************************************************)
(* What WorkerPool.RestartWorker may return for q.  Proxies have no        *)
(* restart budget.                                                         *)
(***************************************************************************)
RestartResults(q) ==
  IF poolState[PoolOf[q]] \in {"Draining", "Stopped"}
    THEN {"skipped"}
  ELSE IF q \in Proxies
    THEN PrepareProxy
  ELSE IF Restarts(q) + 1 > MaxRestarts[PoolOf[q]]
    THEN {"tooManyRestarts"}
    ELSE {"restarted"}

\* WorkerPool.RestartWorker with that result.
RestartWorker(q, result) ==
  IF result = "restarted"
    THEN Replace(q, pending)
    ELSE UNCHANGED workerVars

(***************************************************************************)
(* WorkerPool.ForceTerminateWorker: kill(-PID, SIGKILL).  With PID 0 that  *)
(* is kill(0, SIGKILL), which the caller has to look out for.              *)
(***************************************************************************)
ForceTerminateWorker(q) ==
  worker' = IF Running(worker[q])
              THEN [worker EXCEPT ![q].sigkill = TRUE]
              ELSE worker

\* Mutant of InterruptWorker: SIGKILL at once.
InterruptWorkerByKill(q, ch) == ForceTerminateWorker(q) /\ pending' = ch

\* WorkerPool.InterruptWorker.
InterruptWorker(q, ch) == Terminate(q, ch)

RunningCount == Cardinality({q \in Proc : Running(worker[q])})

PoolTypeOK ==
  /\ poolState       \in [Pools -> PoolState]
  /\ runningGauge    \in [Pools -> Int]
  /\ terminatedGauge \in [Pools -> Int]

===============================================================================
