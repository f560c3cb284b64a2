---------------------------- MODULE ShutdownProofs ----------------------------
(***************************************************************************)
(* Theorems about the way into and through the shutdown: no worker is      *)
(* given up while the group is meant to be up, the gauges that operators   *)
(* watch tell what the processes do, once InterruptAll is over every       *)
(* worker has been asked to end and the second loop is never stuck on one, *)
(* who may be killed without a warning, and the life of the processes      *)
(* under one name. They rest on those of SupervisorProofs and hold for     *)
(* every set of processes and pools, every restart budget and every bound  *)
(* MaxGen.                                                                 *)
(***************************************************************************)
EXTENDS SupervisorProofs

-------------------------------------------------------------------------------
\* No worker is given up unless the supervisor is about to shut down.

\* The loop is left for good only through a cancelled context.
ClosingInv == pc \in Terminating => ctxDone

\* A context that was cancelled stays so, and a supervisor that came to its end
\* takes no further step.
LEMMA ControlFrame ==
  ASSUME TypeOK, [Next]_vars
  PROVE  /\ ctxDone => ctxDone'
         /\ pc \in Final => pc' \in Final
         /\ pc' \in Terminating => pc \in Terminating \/ ctxDone
<1> USE DEF Final, Terminating
<1>1. CASE \/ CreateAndPreparePools \/ CreateError \/ RunAllDone
           \/ \E p \in Pools : RunAllPool(p)
           \/ \E q \in Proc : RunAllWorker(q)
  BY <1>1 DEF CreateAndPreparePools, CreateError, RunAllDone, RunAllPool,
              RunAllWorker
<1>2. ASSUME NEW q \in Proc, Restart(q) \/ GiveUp(q) \/ InterruptAllWorker(q)
      PROVE  pc' = pc /\ (ctxDone => ctxDone')
  <2>1. pc' = pc
    BY <1>2 DEF Restart, GiveUp, InterruptAllWorker
  <2>2. ctxDone => ctxDone'
    BY <1>2, Zenon DEF Restart, GiveUp, InterruptAllWorker
  <2> QED
    BY <2>1, <2>2
<1>3. CASE \E q \in Proc : ReceiveEvent(q)
  BY <1>3 DEF ReceiveEvent, ReceiveProcessEnd, ReceiveExceededLimit,
              ReceiveNeedsInterrupt, ReceiveNeedsTermination, Receiving,
              controlVars
<1>4. CASE \/ \E p \in Pools : InterruptPool(p)
           \/ InterruptAllDone \/ CheckCleanup \/ ReceiveCtxDone
           \/ ProxyDrainReturns
  BY <1>4 DEF InterruptPool, InterruptAllDone, CheckCleanup, ReceiveCtxDone,
              ProxyDrainReturns
<1>5. CASE \/ Cancel \/ Finished \/ UNCHANGED vars
           \/ \E q \in Proc : EnvironmentStep(q)
  BY <1>5 DEF Cancel, Finished, EnvironmentStep, vars, controlVars
<1> QED
  BY <1>1, <1>2, <1>3, <1>4, <1>5 DEF Next, Sequential

LEMMA ClosingStep ==
  ASSUME TypeOK, ClosingInv, [Next]_vars
  PROVE  ClosingInv'
BY ControlFrame DEF ClosingInv

\* Too many restarts cancel the context in the same step; in the second loop it
\* has been cancelled before.
LEMMA GiveUpCloses ==
  ASSUME TypeOK, PoolsUp, ClosingInv, NEW q \in Proc \ Proxies, GiveUp(q)
  PROVE  ctxDone'
<1>1. CASE pc = "loop"
  <2>1. poolState[PoolOf[q]] \notin {"Draining", "Stopped"}
    BY <1>1, PoolAssumption DEF PoolsUp
  <2>2. RestartResults(q) \subseteq {"tooManyRestarts", "restarted"}
    BY <2>1 DEF RestartResults
  <2> QED
    BY <1>1, <2>2 DEF GiveUp
<1>2. CASE pc = "drain"
  BY <1>2 DEF GiveUp, ClosingInv, Terminating
<1> QED
  BY <1>1, <1>2 DEF GiveUp

\* A crash within the restart budget never loses a replica silently
\* (handleProcessEnd): a worker is given up only when the context is cancelled.
THEOREM CrashesAreRepaired == Spec => []NoWorkerAbandoned
<1> DEFINE Inv == ClosingInv /\ NoWorkerAbandoned
<1>1. Init => Inv
  BY DEF Init, ClosingInv, Terminating, NoWorkerAbandoned, GivenUp, NoWorker,
         NewWorker, Terminated
<1>2. TypeOK /\ EndInv /\ PoolsUp /\ Inv /\ [Next]_vars => Inv'
  <2> SUFFICES ASSUME TypeOK, EndInv, PoolsUp, Inv, [Next]_vars PROVE Inv'
    OBVIOUS
  <2>1. ClosingInv'
    BY ClosingStep
  <2>2. ASSUME NEW r \in Proc \ Proxies, GivenUp(r)', pc' \notin Final
        PROVE  ctxDone'
    <3>1. CASE GivenUp(r)
      BY <2>2, <3>1, ControlFrame DEF NoWorkerAbandoned
    <3>2. CASE ~GivenUp(r)
      <4>1. PICK q \in Proc : GiveUp(q)
        BY <2>2, <3>2, GivenUpFrame DEF SameGivenUp
      <4>2. r = q
        BY <2>2, <3>2, <4>1, GiveUpAdds
      <4> QED
        BY <4>1, <4>2, GiveUpCloses
    <3> QED
      BY <3>1, <3>2
  <2> QED
    BY <2>1, <2>2 DEF NoWorkerAbandoned
<1> QED
  BY TypeCorrect, EndsHandledOnce, PoolsStayUp, <1>1, <1>2, PTL DEF Spec

-------------------------------------------------------------------------------
\* The gauges.

Started(q) == worker[q].cmd \notin {"none", "prepared"}

StartedIn(p) == {q \in ProcsOf(p) : Started(q)}

\* Only a turn of RunAll's loop starts a process that had not been started.
LEMMA StartedFrame ==
  ASSUME TypeOK, EndInv, PoolsUp, [Next]_vars,
         ~\E q \in Proc : RunAllWorker(q)
  PROVE  \A r \in Proc : Started(r)' <=> Started(r)
<1> USE DEF Started
<1>0. WorkerTypeOK
  BY DEF TypeOK
<1>1. CASE CreateAndPreparePools
  BY <1>1 DEF CreateAndPreparePools, PrepareWorkers, NewWorker, EndInv, RunOnce
<1>2. ASSUME NEW q \in Proc, Restart(q)
      PROVE  \A r \in Proc : Started(r)' <=> Started(r)
  <2>1. Terminated(worker[q])
    BY <1>2 DEF Restart, Drained, EndInv, HandledOnce
  <2>2. PoolOf[q] \in Pools
    BY PoolAssumption
  <2>3. Replace(q, pending)
    BY <1>2, <2>2 DEF Restart, RestartWorker, RestartResults, PrepareProxy, PoolsUp
  <2>4. /\ worker'[q].cmd = "starting"
        /\ \A r \in Proc \ {q} : worker'[r] = worker[r]
    BY <1>0, <2>3 DEF Replace, Run, NewWorker, WorkerTypeOK
  <2> QED
    BY <2>1, <2>4 DEF Terminated
<1>3. ASSUME NEW q \in Proc, EnvironmentStep(q)
      PROVE  \A r \in Proc : Started(r)' <=> Started(r)
  <2>1. CASE OSStart(q) \/ OSStartFail(q) \/ OSExit(q)
    BY <1>0, <2>1 DEF OSStart, OSStartFail, OSExit, Running, WorkerTypeOK,
                      WorkerObject
  <2>2. CASE \/ StreamLogsDone(q) \/ SignalTimeout(q)
             \/ LimiterFire(q) \/ OrphanLimiterFire(q)
    BY <1>0, <2>2, EnvironmentFrame DEF SameEnds
  <2> QED
    BY <1>3, <2>1, <2>2 DEF EnvironmentStep, Environment
<1>4. ASSUME NEW q \in Proc,
             \/ ReceiveExceededLimit(q) \/ ReceiveNeedsInterrupt(q)
             \/ ReceiveNeedsTermination(q) \/ InterruptAllWorker(q) \/ GiveUp(q)
      PROVE  \A r \in Proc : Started(r)' <=> Started(r)
  BY <1>0, <1>4, ReceiveSameEnds, InterruptSameEnds DEF SameEnds
<1>5. CASE \/ CreateError \/ RunAllDone \/ InterruptAllDone \/ CheckCleanup
           \/ ReceiveCtxDone \/ ProxyDrainReturns \/ Cancel \/ Finished
           \/ \E p \in Pools : InterruptPool(p) \/ RunAllPool(p)
           \/ \E q \in Proc : ReceiveProcessEnd(q)
           \/ UNCHANGED vars
  BY <1>5 DEF CreateError, RunAllDone, InterruptAllDone, CheckCleanup,
              ReceiveCtxDone, ProxyDrainReturns, Cancel, Finished, InterruptPool,
              RunAllPool, ReceiveProcessEnd, vars, workerVars
<1> QED
  BY <1>1, <1>2, <1>3, <1>4, <1>5 DEF Next, Sequential, ReceiveEvent

\* Only RunAll and the giving up of a process move the gauges.
LEMMA GaugesFrame ==
  ASSUME [Next]_vars, ~\E q \in Proc : RunAllWorker(q) \/ GiveUp(q)
  PROVE  UNCHANGED <<runningGauge, terminatedGauge>>
<1>1. CASE \/ CreateAndPreparePools \/ CreateError \/ RunAllDone
           \/ InterruptAllDone \/ CheckCleanup \/ ReceiveCtxDone
           \/ ProxyDrainReturns \/ Cancel \/ Finished
           \/ \E p \in Pools : InterruptPool(p) \/ RunAllPool(p)
           \/ UNCHANGED vars
  BY <1>1 DEF CreateAndPreparePools, CreateError, RunAllDone, InterruptAllDone,
              CheckCleanup, ReceiveCtxDone, ProxyDrainReturns, Cancel, Finished,
              InterruptPool, RunAllPool, vars, poolVars
<1>2. CASE \E q \in Proc : \/ Restart(q) \/ InterruptAllWorker(q)
                           \/ EnvironmentStep(q) \/ ReceiveEvent(q)
  BY <1>2 DEF Restart, InterruptAllWorker, EnvironmentStep, ReceiveEvent,
              ReceiveProcessEnd, ReceiveExceededLimit, ReceiveNeedsInterrupt,
              ReceiveNeedsTermination, poolVars
<1> QED
  BY <1>1, <1>2 DEF Next, Sequential

LEMMA FiniteStarted ==
  \A p \in Pools : IsFiniteSet(StartedIn(p)) /\ Cardinality(StartedIn(p)) \in Nat
<1>1. \A p \in Pools : StartedIn(p) \subseteq Proc
  BY DEF StartedIn, ProcsOf
<1> QED
  BY <1>1, PoolAssumption, FS_Subset, FS_CardinalityType

\* A turn of RunAll's loop.
LEMMA GaugesRun ==
  ASSUME TypeOK, EndInv, PoolsUp, GaugesExact, [Next]_vars,
         NEW q \in Proc, RunAllWorker(q)
  PROVE  GaugesExact'
<1> DEFINE p == PoolOf[q]
<1>0. p \in Pools /\ q \in ProcsOf(p)
  BY PoolAssumption DEF ProcsOf
<1>1. SameGivenUp
  <2>1. pc = "runAll"
    BY DEF RunAllWorker
  <2>2. ~\E r \in Proc : GiveUp(r)
    BY <2>1 DEF GiveUp
  <2> QED
    BY <2>2, GivenUpFrame
<1>2. /\ ~Started(q) /\ Started(q)'
      /\ \A r \in Proc \ {q} : Started(r)' <=> Started(r)
  BY DEF RunAllWorker, RunOne, Run, EndInv, RunOnce, TypeOK, WorkerTypeOK,
         WorkerObject, Started
<1>3. /\ runningGauge' = [runningGauge EXCEPT ![p] = @ + 1]
      /\ terminatedGauge' = terminatedGauge
  BY DEF RunAllWorker, RunOne, Add
<1>4. ASSUME NEW r \in Pools
      PROVE  /\ terminatedGauge'[r] = Cardinality(GivenUpIn(r)')
             /\ runningGauge'[r] = Cardinality(StartedIn(r)')
                                     - Cardinality(GivenUpIn(r)')
  <2>1. GivenUpIn(r)' = GivenUpIn(r)
    BY <1>1 DEF SameGivenUp, GivenUpIn, ProcsOf
  <2>2. /\ terminatedGauge[r] = Cardinality(GivenUpIn(r))
        /\ runningGauge[r] = Cardinality(StartedIn(r)) - Cardinality(GivenUpIn(r))
    BY DEF GaugesExact, StartedIn, Started
  <2>3. CASE r # p
    <3>1. StartedIn(r)' = StartedIn(r)
      BY <1>2, <2>3 DEF StartedIn, ProcsOf
    <3> QED
      BY <1>3, <2>1, <2>2, <2>3, <3>1 DEF TypeOK, PoolTypeOK
  <2>4. CASE r = p
    <3>1. StartedIn(p)' = StartedIn(p) \cup {q}
      BY <1>0, <1>2 DEF StartedIn, ProcsOf
    <3>2. q \notin StartedIn(p)
      BY <1>2 DEF StartedIn
    <3>3. Cardinality(StartedIn(p)') = Cardinality(StartedIn(p)) + 1
      BY <1>0, <3>1, <3>2, CountOneMore, FiniteStarted
    <3>4. runningGauge'[p] = runningGauge[p] + 1
      BY <1>0, <1>3 DEF TypeOK, PoolTypeOK
    <3>5. Cardinality(StartedIn(p)) \in Nat /\ Cardinality(GivenUpIn(p)) \in Nat
      BY <1>0, FiniteStarted, FiniteGivenUp, FS_CardinalityType
    <3> HIDE DEF p
    <3> QED
      BY <1>3, <2>1, <2>2, <2>4, <3>3, <3>4, <3>5
  <2> QED
    BY <2>3, <2>4
<1> QED
  BY <1>4 DEF GaugesExact, StartedIn, Started, ProcsOf

\* A process is given up.
LEMMA GaugesGiveUp ==
  ASSUME TypeOK, EndInv, PoolsUp, GaugesExact, [Next]_vars,
         NEW q \in Proc, GiveUp(q)
  PROVE  GaugesExact'
<1> DEFINE p == PoolOf[q]
<1>0. p \in Pools /\ q \in ProcsOf(p)
  BY PoolAssumption DEF ProcsOf
<1>1. /\ ~GivenUp(q) /\ GivenUp(q)'
      /\ \A r \in Proc \ {q} : GivenUp(r)' <=> GivenUp(r)
  BY GiveUpAdds
<1>2. \A r \in Proc : Started(r)' <=> Started(r)
  BY InterruptSameEnds DEF TypeOK, SameEnds, Started
<1>3. /\ runningGauge' = [runningGauge EXCEPT ![p] = @ + -1]
      /\ terminatedGauge' = [terminatedGauge EXCEPT ![p] = @ + 1]
  BY DEF GiveUp, Add
<1>4. ASSUME NEW r \in Pools
      PROVE  /\ terminatedGauge'[r] = Cardinality(GivenUpIn(r)')
             /\ runningGauge'[r] = Cardinality(StartedIn(r)')
                                     - Cardinality(GivenUpIn(r)')
  <2>1. StartedIn(r)' = StartedIn(r)
    BY <1>2 DEF StartedIn, ProcsOf
  <2>2. /\ terminatedGauge[r] = Cardinality(GivenUpIn(r))
        /\ runningGauge[r] = Cardinality(StartedIn(r)) - Cardinality(GivenUpIn(r))
    BY DEF GaugesExact, StartedIn, Started
  <2>3. CASE r # p
    <3>1. GivenUpIn(r)' = GivenUpIn(r)
      BY <1>1, <2>3 DEF GivenUpIn, ProcsOf
    <3> QED
      BY <1>3, <2>1, <2>2, <2>3, <3>1 DEF TypeOK, PoolTypeOK
  <2>4. CASE r = p
    <3>1. GivenUpIn(p)' = GivenUpIn(p) \cup {q}
      BY <1>0, <1>1 DEF GivenUpIn, ProcsOf
    <3>2. q \notin GivenUpIn(p)
      BY <1>1 DEF GivenUpIn
    <3>3. Cardinality(GivenUpIn(p)') = Cardinality(GivenUpIn(p)) + 1
      BY <1>0, <3>1, <3>2, CountOneMore, FiniteGivenUp
    <3>4. /\ runningGauge'[p] = runningGauge[p] + -1
          /\ terminatedGauge'[p] = terminatedGauge[p] + 1
      BY <1>0, <1>3 DEF TypeOK, PoolTypeOK
    <3>5. Cardinality(StartedIn(p)) \in Nat /\ Cardinality(GivenUpIn(p)) \in Nat
      BY <1>0, FiniteStarted, FiniteGivenUp, FS_CardinalityType
    <3> HIDE DEF p
    <3> QED
      BY <2>1, <2>2, <2>4, <3>3, <3>4, <3>5
  <2> QED
    BY <2>3, <2>4
<1> QED
  BY <1>4 DEF GaugesExact, StartedIn, Started, ProcsOf

\* The worker_state gauges agree with the processes at every moment: running
\* counts the started ones that will not be given up for good, terminated the
\* others, through crashes, restarts and the shutdown.
THEOREM GaugesCorrect == Spec => []GaugesExact
<1>1. Init => GaugesExact
  <2> SUFFICES ASSUME Init PROVE GaugesExact
    OBVIOUS
  <2>1. \A p \in Pools : GivenUpIn(p) = {} /\ StartedIn(p) = {}
    BY DEF Init, GivenUpIn, GivenUp, StartedIn, Started, ProcsOf, NoWorker,
           NewWorker, Terminated
  <2>2. \A p \in Pools : terminatedGauge[p] = 0 /\ runningGauge[p] = 0
    BY DEF Init
  <2>3. Cardinality({}) = 0
    BY FS_EmptySet
  <2> QED
    BY <2>1, <2>2, <2>3 DEF GaugesExact, StartedIn, Started
<1>2. TypeOK /\ EndInv /\ PoolsUp /\ GaugesExact /\ [Next]_vars => GaugesExact'
  <2> SUFFICES ASSUME TypeOK, EndInv, PoolsUp, GaugesExact, [Next]_vars
               PROVE  GaugesExact'
    OBVIOUS
  <2>1. CASE \E q \in Proc : RunAllWorker(q)
    BY <2>1, GaugesRun
  <2>2. CASE \E q \in Proc : GiveUp(q)
    BY <2>2, GaugesGiveUp
  <2>3. CASE ~\E q \in Proc : RunAllWorker(q) \/ GiveUp(q)
    <3>1. \A p \in Pools : GivenUpIn(p)' = GivenUpIn(p)
      BY <2>3, GivenUpFrame DEF SameGivenUp, GivenUpIn, ProcsOf
    <3>2. \A p \in Pools : StartedIn(p)' = StartedIn(p)
      BY <2>3, StartedFrame DEF StartedIn, ProcsOf
    <3>3. UNCHANGED <<runningGauge, terminatedGauge>>
      BY <2>3, GaugesFrame
    <3> QED
      BY <3>1, <3>2, <3>3 DEF GaugesExact, StartedIn, Started, ProcsOf
  <2> QED
    BY <2>1, <2>2, <2>3
<1> QED
  BY TypeCorrect, EndsHandledOnce, PoolsStayUp, <1>1, <1>2, PTL DEF Spec

-------------------------------------------------------------------------------
\* No worker is forgotten by InterruptAll.

\* What InterruptAll has still to do covers every worker that was not asked.
AskedInv ==
  /\ pc \in Terminating =>
       \A q \in Proc \ Proxies :
         q \in left \/ PoolOf[q] \in poolsLeft \/ AskedToEnd(q)
  /\ pc = "drain" => left = {} /\ poolsLeft = {}

\* No step of the shutdown forgets a request to end.
StillAsked == \A r \in Proc : AskedToEnd(r) => AskedToEnd(r)'

\* The effect on one worker that keeps what makes it asked.
KeepsAsked(r) ==
  /\ Terminated(worker[r]) => Terminated(worker'[r])
  /\ worker[r].sigterm => worker'[r].sigterm
  /\ worker[r].sigkill => worker'[r].sigkill
  /\ pending'[r][ProcessNeedsInterrupt] >= pending[r][ProcessNeedsInterrupt]
  /\ stale'[r][ProcessNeedsInterrupt] >= stale[r][ProcessNeedsInterrupt]

LEMMA KeepsAskedAll ==
  ASSUME WorkerTypeOK, WorkerTypeOK', NEW r \in Proc, KeepsAsked(r), AskedToEnd(r)
  PROVE  AskedToEnd(r)'
<1>1. /\ pending[r][ProcessNeedsInterrupt] \in Nat
      /\ stale[r][ProcessNeedsInterrupt] \in Nat
      /\ pending'[r][ProcessNeedsInterrupt] \in Nat
      /\ stale'[r][ProcessNeedsInterrupt] \in Nat
  BY EventTypes DEF WorkerTypeOK, Senders
<1> QED
  BY <1>1 DEF KeepsAsked, AskedToEnd, Terminated

\* Terminate asks the worker it is called on, or has it asked again, and takes
\* nothing back from any other.
LEMMA TerminateAsks ==
  ASSUME WorkerTypeOK, NEW q \in Proc, NEW ch \in Senders, Terminate(q, ch)
  PROVE  /\ \A r \in Proc :
              /\ Terminated(worker[r]) => Terminated(worker'[r])
              /\ worker[r].sigterm => worker'[r].sigterm
              /\ worker[r].sigkill => worker'[r].sigkill
              /\ pending'[r][ProcessNeedsInterrupt] >= ch[r][ProcessNeedsInterrupt]
         /\ \/ Terminated(worker'[q])
            \/ worker'[q].sigterm
            \/ pending'[q][ProcessNeedsInterrupt] > 0
<1> USE EventTypes
<1>1. \A r \in Proc : ch[r][ProcessNeedsInterrupt] \in Nat
  BY DEF Senders
<1>2. CASE Terminated(worker[q])
  BY <1>1, <1>2 DEF Terminate
<1>3. CASE ~Terminated(worker[q]) /\ ~Running(worker[q])
  <2>1. /\ worker' = [worker EXCEPT ![q].armed = FALSE]
        /\ pending' = Send(ch, q, ProcessNeedsInterrupt)
    BY <1>3 DEF Terminate
  <2>2. \A r \in Proc : /\ worker'[r].cmd = worker[r].cmd
                        /\ worker'[r].sigterm = worker[r].sigterm
                        /\ worker'[r].sigkill = worker[r].sigkill
    BY <2>1 DEF WorkerTypeOK, WorkerObject
  <2>3. \A r \in Proc :
          pending'[r][ProcessNeedsInterrupt] >= ch[r][ProcessNeedsInterrupt]
    BY <1>1, <2>1 DEF Send, Senders
  <2>4. pending'[q][ProcessNeedsInterrupt] > 0
    BY <1>1, <2>1 DEF Send, Senders
  <2> QED
    BY <2>2, <2>3, <2>4 DEF Terminated
<1>4. CASE ~Terminated(worker[q]) /\ Running(worker[q])
  <2>1. /\ worker' = [worker EXCEPT ![q].armed = FALSE, ![q].sigterm = TRUE,
                                    ![q].timers = @ + 1]
        /\ pending' = ch
    BY <1>4 DEF Terminate
  <2>2. \A r \in Proc : /\ worker'[r].cmd = worker[r].cmd
                        /\ worker'[r].sigkill = worker[r].sigkill
    BY <2>1 DEF WorkerTypeOK, WorkerObject
  <2>3. worker'[q].sigterm /\ \A r \in Proc \ {q} : worker'[r] = worker[r]
    BY <2>1 DEF WorkerTypeOK, WorkerObject
  <2>4. \A r \in Proc : /\ worker[r].sigterm => worker'[r].sigterm
                        /\ worker[r].sigkill => worker'[r].sigkill
                        /\ Terminated(worker[r]) => Terminated(worker'[r])
    BY <2>2, <2>3, Zenon DEF Terminated
  <2>5. \A r \in Proc :
          pending'[r][ProcessNeedsInterrupt] >= ch[r][ProcessNeedsInterrupt]
    BY <1>1, <2>1
  <2> QED
    <3>1. \/ Terminated(worker'[q])
          \/ worker'[q].sigterm
          \/ pending'[q][ProcessNeedsInterrupt] > 0
      BY <2>3
    <3>2. ASSUME NEW r \in Proc
          PROVE  /\ Terminated(worker[r]) => Terminated(worker'[r])
                 /\ worker[r].sigterm => worker'[r].sigterm
                 /\ worker[r].sigkill => worker'[r].sigkill
                 /\ pending'[r][ProcessNeedsInterrupt] >= ch[r][ProcessNeedsInterrupt]
      BY <2>4, <2>5
    <3> QED
      BY <3>1, <3>2
<1> QED
  BY <1>2, <1>3, <1>4

LEMMA EnvironmentAsked ==
  ASSUME WorkerTypeOK, NEW q \in Proc, Environment(q)
  PROVE  \A r \in Proc : KeepsAsked(r)
<1> USE EventTypes
<1>1. /\ ProcessNeedsInterrupt # ProcessEnd
      /\ ProcessNeedsInterrupt # ProcessNeedsTermination
      /\ ProcessNeedsInterrupt # ProcessExceededLimit
  BY DEF ProcessEnd, ProcessExceededLimit, ProcessNeedsInterrupt,
         ProcessNeedsTermination
<1>2. \A r \in Proc :
        /\ pending'[r][ProcessNeedsInterrupt] = pending[r][ProcessNeedsInterrupt]
        /\ stale'[r][ProcessNeedsInterrupt] = stale[r][ProcessNeedsInterrupt]
        /\ pending[r][ProcessNeedsInterrupt] \in Nat
        /\ stale[r][ProcessNeedsInterrupt] \in Nat
  BY <1>1 DEF Environment, OSStart, OSStartFail, OSExit, StreamLogsDone,
              SignalTimeout, LimiterFire, OrphanLimiterFire, Send, WorkerTypeOK,
              Senders
<1>3. \A r \in Proc : /\ worker'[r].sigterm = worker[r].sigterm
                      /\ worker'[r].sigkill = worker[r].sigkill
                      /\ Terminated(worker[r]) => Terminated(worker'[r])
  BY DEF Environment, OSStart, OSStartFail, OSExit, StreamLogsDone, SignalTimeout,
         LimiterFire, OrphanLimiterFire, Running, Terminated, WorkerTypeOK,
         WorkerObject
<1> QED
  BY <1>2, <1>3 DEF KeepsAsked

\* While the supervisor shuts down nobody's request to end gets lost: not when a
\* worker's own retry is received, not when the proxy is interrupted, not when
\* processes start, end or are killed.
LEMMA AskedStays ==
  ASSUME TypeOK, TypeOK', pc \in Terminating, [Next]_vars
  PROVE  StillAsked
<1> USE EventTypes
<1>0. WorkerTypeOK /\ WorkerTypeOK'
  BY DEF TypeOK
<1>1. ASSUME \A r \in Proc : KeepsAsked(r)
      PROVE  StillAsked
  BY <1>0, <1>1, KeepsAskedAll DEF StillAsked
<1>2. CASE UNCHANGED <<worker, pending, stale>>
  BY <1>2 DEF StillAsked, AskedToEnd, Terminated
<1>3. \A r \in Proc : /\ pending[r][ProcessNeedsInterrupt] \in Nat
                      /\ stale[r][ProcessNeedsInterrupt] \in Nat
  BY <1>0 DEF WorkerTypeOK, Senders
<1>4. ASSUME NEW q \in Proc, EnvironmentStep(q)
      PROVE  StillAsked
  BY <1>0, <1>1, <1>4, EnvironmentAsked DEF EnvironmentStep
<1>5. ASSUME NEW q \in Proc, GiveUp(q) \/ InterruptAllWorker(q)
      PROVE  StillAsked
  <2>1. stale' = stale
    BY <1>5 DEF GiveUp, InterruptAllWorker
  <2>2. \/ UNCHANGED <<worker, pending, stale>>
        \/ \E s \in Proc : Terminate(s, pending)
    <3>1. PoolOf[q] \in Pools
      BY PoolAssumption
    <3> QED
      BY <1>5, <2>1, <3>1, ProxyOfPool
         DEF GiveUp, HandleTermination, InterruptWorker, InterruptAllWorker
  <2>3. ASSUME NEW s \in Proc, Terminate(s, pending)
        PROVE  \A r \in Proc : KeepsAsked(r)
    BY <1>0, <1>3, <2>1, <2>3, TerminateAsks DEF KeepsAsked, WorkerTypeOK
  <2> QED
    BY <1>1, <1>2, <2>2, <2>3
<1>6. ASSUME NEW q \in Proc, ReceiveProcessEnd(q) \/ ReceiveExceededLimit(q)
      PROVE  StillAsked
  <2>1. PICK t \in {ProcessEnd, ProcessExceededLimit} : \E c \in Receive(q, t) :
          worker' = worker /\ pending' = c[1] /\ stale' = c[2]
    BY <1>6 DEF ReceiveProcessEnd, ReceiveExceededLimit, Terminating
  <2>2. ProcessNeedsInterrupt # t
    BY DEF ProcessEnd, ProcessExceededLimit, ProcessNeedsInterrupt
  <2> QED
    BY <1>0, <1>1, <1>3, <2>1, <2>2, ReceiveFrame DEF KeepsAsked
<1>7. ASSUME NEW q \in Proc, ReceiveNeedsTermination(q)
      PROVE  StillAsked
  <2>1. PICK c \in Receive(q, ProcessNeedsTermination) :
          pending' = c[1] /\ stale' = c[2]
    BY <1>7 DEF ReceiveNeedsTermination
  <2>2. ProcessNeedsInterrupt # ProcessNeedsTermination
    BY DEF ProcessNeedsTermination, ProcessNeedsInterrupt
  <2>3. \A r \in Proc : /\ worker'[r].cmd = worker[r].cmd
                        /\ worker'[r].sigterm = worker[r].sigterm
                        /\ worker[r].sigkill => worker'[r].sigkill
    BY <1>0, <1>7 DEF ReceiveNeedsTermination, ForceTerminateWorker, WorkerTypeOK,
                      WorkerObject
  <2> QED
    <3>1. \A r \in Proc :
            /\ pending'[r][ProcessNeedsInterrupt] >= pending[r][ProcessNeedsInterrupt]
            /\ stale'[r][ProcessNeedsInterrupt] >= stale[r][ProcessNeedsInterrupt]
      BY <1>0, <1>3, <2>1, <2>2, ReceiveFrame
    <3>2. ASSUME NEW r \in Proc
          PROVE  KeepsAsked(r)
      <4>1. Terminated(worker[r]) => Terminated(worker'[r])
        BY <2>3 DEF Terminated
      <4>2. worker[r].sigterm => worker'[r].sigterm
        BY <2>3, Zenon
      <4>3. worker[r].sigkill => worker'[r].sigkill
        BY <2>3, Zenon
      <4> QED
        BY <3>1, <4>1, <4>2, <4>3 DEF KeepsAsked
    <3> QED
      BY <1>1, <3>2
<1>8. ASSUME NEW q \in Proc, ReceiveNeedsInterrupt(q)
      PROVE  StillAsked
  <2>1. PICK c \in Receive(q, ProcessNeedsInterrupt) :
          stale' = c[2] /\ Terminate(q, c[1])
    BY <1>8 DEF ReceiveNeedsInterrupt, InterruptWorker
  <2>2. c[1] \in Senders
    BY <1>0, ReceiveType
  <2>3. \A r \in Proc \ {q} : c[1][r] = pending[r] /\ c[2][r] = stale[r]
    BY <1>0 DEF Receive, Take, WorkerTypeOK, Senders
  <2>4. \A r \in Proc \ {q} : KeepsAsked(r)
    BY <1>0, <1>3, <2>1, <2>2, <2>3, TerminateAsks DEF KeepsAsked
  <2>5. AskedToEnd(q)'
    <3>1. \/ Terminated(worker'[q]) \/ worker'[q].sigterm
          \/ pending'[q][ProcessNeedsInterrupt] > 0
      BY <1>0, <2>1, <2>2, TerminateAsks
    <3>2. /\ pending'[q][ProcessNeedsInterrupt] \in Nat
          /\ stale'[q][ProcessNeedsInterrupt] \in Nat
      BY <1>0 DEF WorkerTypeOK, Senders
    <3> QED
      BY <3>1, <3>2 DEF AskedToEnd, Terminated
  <2> QED
    BY <1>0, <2>4, <2>5, KeepsAskedAll DEF StillAsked
<1>9. CASE \/ InterruptAllDone \/ CheckCleanup \/ ProxyDrainReturns \/ Cancel
           \/ Finished \/ UNCHANGED vars \/ \E p \in Pools : InterruptPool(p)
  BY <1>2, <1>9 DEF InterruptAllDone, CheckCleanup, ProxyDrainReturns, Cancel,
                    Finished, InterruptPool, vars, workerVars
<1> QED
  BY <1>4, <1>5, <1>6, <1>7, <1>8, <1>9
     DEF Next, Sequential, ReceiveEvent, Terminating, CreateAndPreparePools,
         CreateError, RunAllPool, RunAllWorker, RunAllDone, Restart, ReceiveCtxDone

LEMMA AskedStep ==
  ASSUME TypeOK, TypeOK', AskedInv, [Next]_vars
  PROVE  AskedInv'
<1> USE DEF Terminating
<1>1. CASE ReceiveCtxDone
  BY <1>1, PoolAssumption DEF ReceiveCtxDone, AskedInv
<1>2. CASE pc' \notin Terminating
  BY <1>2 DEF AskedInv
<1>3. ASSUME pc \in Terminating, StillAsked, left' = left, poolsLeft' = poolsLeft,
             pc' = "drain" => left = {} /\ poolsLeft = {}
      PROVE  AskedInv'
  BY <1>3 DEF AskedInv, StillAsked
<1>4. ASSUME NEW p \in Pools, InterruptPool(p)
      PROVE  AskedInv'
  <2>1. StillAsked /\ pc' # "drain"
    BY <1>4, AskedStays DEF InterruptPool
  <2>2. ASSUME NEW q \in Proc \ Proxies
        PROVE  q \in left' \/ PoolOf[q] \in poolsLeft' \/ AskedToEnd(q)'
    BY <1>4, <2>1, <2>2 DEF InterruptPool, ProcsOf, AskedInv, StillAsked
  <2> QED
    BY <2>1, <2>2 DEF AskedInv
<1>5. ASSUME NEW q \in Proc, InterruptAllWorker(q)
      PROVE  AskedInv'
  <2>1. StillAsked /\ pc \in Terminating /\ pc' # "drain"
    BY <1>5, AskedStays DEF InterruptAllWorker
  <2>2. AskedToEnd(q)'
    <3>1. \/ Terminated(worker'[q]) \/ worker'[q].sigterm
          \/ pending'[q][ProcessNeedsInterrupt] > 0
      BY <1>5, TerminateAsks DEF InterruptAllWorker, TypeOK, WorkerTypeOK
    <3>2. /\ pending'[q][ProcessNeedsInterrupt] \in Nat
          /\ stale'[q][ProcessNeedsInterrupt] \in Nat
      BY EventTypes DEF TypeOK, WorkerTypeOK, Senders
    <3> QED
      BY <3>1, <3>2 DEF AskedToEnd, Terminated
  <2>3. left' = left \ {q} /\ poolsLeft' = poolsLeft
    BY <1>5 DEF InterruptAllWorker
  <2> QED
    BY <2>1, <2>2, <2>3 DEF AskedInv, StillAsked
<1>6. CASE InterruptAllDone
  BY <1>3, <1>6, AskedStays DEF InterruptAllDone
<1>7. ASSUME pc' = pc, left' = left, poolsLeft' = poolsLeft
      PROVE  AskedInv'
  BY <1>2, <1>3, <1>7, AskedStays DEF AskedInv
<1>8. CASE ProxyDrainReturns
  BY <1>3, <1>8, AskedStays DEF ProxyDrainReturns
<1>9. CASE \/ Cancel \/ Finished \/ UNCHANGED vars
           \/ \E q \in Proc : GiveUp(q) \/ EnvironmentStep(q)
  BY <1>7, <1>9 DEF Cancel, Finished, GiveUp, EnvironmentStep, vars, controlVars
<1>10. CASE \E q \in Proc : ReceiveEvent(q)
  <2>1. pc' = pc \/ pc' \in {"panicked", "killed"}
    BY <1>10 DEF ReceiveEvent, ReceiveProcessEnd, ReceiveExceededLimit,
                 ReceiveNeedsInterrupt, ReceiveNeedsTermination, controlVars
  <2>2. left' = left /\ poolsLeft' = poolsLeft
    BY <1>10 DEF ReceiveEvent, ReceiveProcessEnd, ReceiveExceededLimit,
                 ReceiveNeedsInterrupt, ReceiveNeedsTermination, controlVars
  <2> QED
    BY <1>2, <1>7, <2>1, <2>2
<1>11. CASE \/ CreateAndPreparePools \/ CreateError \/ RunAllDone \/ CheckCleanup
            \/ \E p \in Pools : RunAllPool(p)
            \/ \E q \in Proc : RunAllWorker(q) \/ Restart(q)
  BY <1>2, <1>11 DEF CreateAndPreparePools, CreateError, RunAllDone, CheckCleanup,
                     RunAllPool, RunAllWorker, Restart
<1> QED
  BY <1>1, <1>4, <1>5, <1>6, <1>8, <1>9, <1>10, <1>11 DEF Next, Sequential

\* Once InterruptAll is over every worker has ended, was signalled, or will be
\* on an event in flight: also one that had no PID when its turn came, and one
\* whose retry is received while processes start and end.
THEOREM NobodyForgotten == Spec => []NoWorkerForgotten
<1>1. Init => AskedInv
  BY DEF Init, AskedInv, Terminating
<1>2. TypeOK /\ TypeOK' /\ AskedInv /\ [Next]_vars => AskedInv'
  BY AskedStep
<1>3. AskedInv => NoWorkerForgotten
  BY DEF AskedInv, NoWorkerForgotten, Terminating
<1> QED
  BY TypeCorrect, <1>1, <1>2, <1>3, PTL DEF Spec

-------------------------------------------------------------------------------
\* A proxy is not taken away from a pool that is fully up.

\* A proxy has no lifespan, so no limiter speaks for it.
NoProxyLimit ==
  \A q \in Proxies :
    /\ worker[q].armed = FALSE
    /\ orphans[q] = 0
    /\ pending[q][ProcessExceededLimit] = 0
    /\ stale[q][ProcessExceededLimit] = 0

\* InterruptAll passes over the proxies.
NoProxyLeft ==
  /\ pc = "loop" => left = {}
  /\ pc \in Terminating => left \cap Proxies = {}

\* What a step has to leave to the proxies.
LimitFrame(q) ==
  /\ worker'[q].armed = FALSE \/ worker'[q].armed = worker[q].armed
  /\ orphans'[q] = orphans[q]
  /\ pending'[q][ProcessExceededLimit] = pending[q][ProcessExceededLimit]
  /\ stale'[q][ProcessExceededLimit] = stale[q][ProcessExceededLimit]

LEMMA ProxyProc == \A q \in Proxies : q \in Proc /\ q \notin Limited
BY WorkerAssumption

LEMMA ProxyRun ==
  ASSUME NEW q \in Proxies, NEW w
  PROVE  Run(q, w) = [w EXCEPT !.cmd = "starting", !.armed = FALSE]
<1>1. (q \in Limited) = FALSE
  BY ProxyProc
<1> QED
  BY <1>1, Zenon DEF Run

LEMMA TerminateLimit ==
  ASSUME WorkerTypeOK, NEW s \in Proc, NEW ch \in Senders, Terminate(s, ch),
         NEW q \in Proc
  PROVE  /\ worker'[q].armed = FALSE \/ worker'[q].armed = worker[q].armed
         /\ pending'[q][ProcessExceededLimit] = ch[q][ProcessExceededLimit]
<1>1. pending'[q][ProcessExceededLimit] = ch[q][ProcessExceededLimit]
  <2>1. ProcessExceededLimit \in EventType \ {ProcessNeedsInterrupt}
    BY DEF EventType, ProcessExceededLimit, ProcessNeedsInterrupt
  <2> QED
    BY <2>1, TerminateFrame
<1>2. worker'[q].armed = FALSE \/ worker'[q].armed = worker[q].armed
  BY DEF Terminate, WorkerTypeOK, WorkerObject
<1> QED
  BY <1>1, <1>2

LEMMA EnvironmentLimit ==
  ASSUME WorkerTypeOK, NoProxyLimit, NEW s \in Proc, Environment(s),
         NEW q \in Proxies
  PROVE  LimitFrame(q)
<1> USE EventTypes, ProxyProc
<1>1. /\ worker[q].armed = FALSE
      /\ orphans[q] = 0
  BY DEF NoProxyLimit
<1>2. ~LimiterFire(q) /\ ~OrphanLimiterFire(q)
  BY <1>1 DEF LimiterFire, OrphanLimiterFire
<1>3. /\ ProcessExceededLimit # ProcessEnd
      /\ ProcessExceededLimit # ProcessNeedsTermination
  BY DEF ProcessEnd, ProcessExceededLimit, ProcessNeedsTermination
<1>4. CASE OSStart(s) \/ OSStartFail(s) \/ OSExit(s)
  <2>1. worker'[q].armed = worker[q].armed
    BY <1>4 DEF OSStart, OSStartFail, OSExit, WorkerTypeOK, WorkerObject
  <2>2. pending'[q][ProcessExceededLimit] = pending[q][ProcessExceededLimit]
    BY <1>3, <1>4 DEF OSStart, OSStartFail, OSExit, Send, WorkerTypeOK, Senders
  <2> QED
    BY <1>4, <2>1, <2>2 DEF OSStart, OSStartFail, OSExit, LimitFrame
<1>5. CASE StreamLogsDone(s) \/ SignalTimeout(s)
  <2>1. worker'[q].armed = worker[q].armed
    BY <1>5 DEF StreamLogsDone, SignalTimeout, WorkerTypeOK, WorkerObject
  <2>2. pending'[q][ProcessExceededLimit] = pending[q][ProcessExceededLimit]
    <3>1. \/ pending' = pending
          \/ pending' = Send(pending, s, ProcessNeedsTermination)
      BY <1>5 DEF StreamLogsDone, SignalTimeout
    <3> QED
      BY <1>3, <3>1 DEF Send, WorkerTypeOK, Senders
  <2> QED
    BY <1>5, <2>1, <2>2 DEF StreamLogsDone, SignalTimeout, LimitFrame
<1>6. CASE LimiterFire(s) \/ OrphanLimiterFire(s)
  <2>1. s # q
    BY <1>2, <1>6
  <2> QED
    BY <1>6, <2>1 DEF LimiterFire, OrphanLimiterFire, LimitFrame, Send,
                      WorkerTypeOK, WorkerObject, Senders
<1> QED
  BY <1>4, <1>5, <1>6 DEF Environment

LEMMA NoProxyLimitStep ==
  ASSUME TypeOK, NoProxyLimit, [Next]_vars
  PROVE  NoProxyLimit'
<1> USE EventTypes, ProxyProc
<1>0. WorkerTypeOK
  BY DEF TypeOK
<1>1. ASSUME \A q \in Proxies : LimitFrame(q)
      PROVE  NoProxyLimit'
  BY <1>1 DEF NoProxyLimit, LimitFrame
<1>2. CASE CreateAndPreparePools
  BY <1>2 DEF CreateAndPreparePools, PrepareWorkers, NewWorker, NoProxyLimit
<1>3. ASSUME NEW s \in Proc, RunAllWorker(s)
      PROVE  NoProxyLimit'
  <2>1. \A q \in Proxies : worker'[q].armed = FALSE \/ worker'[q] = worker[q]
    <3>1. CASE s \in Proxies
      <4>1. worker' = [worker EXCEPT ![s] = [worker[s] EXCEPT !.cmd = "starting",
                                                             !.armed = FALSE]]
        BY <1>0, <1>3, <3>1, ProxyRun DEF RunAllWorker, RunOne
      <4> QED
        BY <1>0, <4>1 DEF WorkerTypeOK, WorkerObject
    <3>2. CASE s \notin Proxies
      BY <1>0, <1>3, <3>2 DEF RunAllWorker, RunOne, WorkerTypeOK
    <3> QED
      BY <3>1, <3>2
  <2> QED
    BY <1>1, <1>3, <2>1 DEF RunAllWorker, RunOne, LimitFrame
<1>4. ASSUME NEW s \in Proc, Restart(s)
      PROVE  NoProxyLimit'
  <2>1. CASE Replace(s, pending)
    <3>1. \A q \in Proxies : worker'[q].armed = FALSE
      <4>1. CASE s \in Proxies
        <5>1. Run(s, NewWorker(worker[s].gen + 1, TRUE)).armed = FALSE
          BY <4>1, ProxyRun DEF NewWorker
        <5> QED
          BY <1>0, <2>1, <5>1 DEF Replace, WorkerTypeOK, NoProxyLimit
      <4>2. CASE s \notin Proxies
        BY <1>0, <2>1, <4>2 DEF Replace, WorkerTypeOK, NoProxyLimit
      <4> QED
        BY <4>1, <4>2
    <3>2. \A q \in Proxies : orphans'[q] = 0
      BY <1>0, <2>1 DEF Replace, WorkerTypeOK, NoProxyLimit
    <3>3. \A q \in Proxies : pending'[q][ProcessExceededLimit] = 0
      BY <1>0, <2>1 DEF Replace, NoSenders, WorkerTypeOK, Senders, NoProxyLimit
    <3>4. \A q \in Proxies : stale'[q][ProcessExceededLimit] = 0
      BY <1>0, <2>1 DEF Replace, WorkerTypeOK, Senders, NoProxyLimit
    <3> QED
      BY <3>1, <3>2, <3>3, <3>4 DEF NoProxyLimit
  <2>2. CASE UNCHANGED workerVars
    BY <2>2 DEF workerVars, NoProxyLimit
  <2> QED
    BY <1>4, <2>1, <2>2 DEF Restart, RestartWorker
<1>5. ASSUME NEW s \in Proc, GiveUp(s) \/ InterruptAllWorker(s)
      PROVE  NoProxyLimit'
  <2>1. stale' = stale /\ orphans' = orphans
    BY <1>5 DEF GiveUp, InterruptAllWorker
  <2>2. \/ UNCHANGED <<worker, pending>>
        \/ \E u \in Proc : Terminate(u, pending)
    <3>1. PoolOf[s] \in Pools
      BY PoolAssumption
    <3> QED
      BY <1>5, <2>1, <3>1, ProxyOfPool
         DEF GiveUp, HandleTermination, InterruptWorker, InterruptAllWorker
  <2> QED
    BY <1>0, <1>1, <2>1, <2>2, TerminateLimit DEF LimitFrame, WorkerTypeOK
<1>6. ASSUME NEW s \in Proc, NEW t \in EventType, NEW c \in Receive(s, t),
             stale' = c[2], orphans' = orphans,
             \/ Terminate(s, c[1])
             \/ /\ \A q \in Proc : worker'[q].armed = worker[q].armed
                /\ pending' = c[1]
      PROVE  NoProxyLimit'
  <2>1. c[1] \in Senders
    BY <1>0, ReceiveType
  <2>2. \A q \in Proxies :
          /\ c[1][q][ProcessExceededLimit] = pending[q][ProcessExceededLimit]
          /\ c[2][q][ProcessExceededLimit] = stale[q][ProcessExceededLimit]
    <3>1. CASE t # ProcessExceededLimit
      BY <1>0, <3>1, ReceiveFrame
    <3>2. CASE t = ProcessExceededLimit
      <4>1. s \notin Proxies
        BY <3>2 DEF Receive, NoProxyLimit
      <4> QED
        BY <1>0, <4>1 DEF Receive, Take, WorkerTypeOK, Senders
    <3> QED
      BY <3>1, <3>2
  <2> QED
    BY <1>0, <1>1, <1>6, <2>1, <2>2, TerminateLimit DEF LimitFrame
<1>7. ASSUME NEW s \in Proc, ReceiveEvent(s)
      PROVE  NoProxyLimit'
  <2>1. CASE ReceiveProcessEnd(s)
    BY <1>6, <2>1 DEF ReceiveProcessEnd
  <2>2. CASE ReceiveExceededLimit(s)
    BY <1>6, <2>2 DEF ReceiveExceededLimit, InterruptWorker
  <2>3. CASE ReceiveNeedsInterrupt(s)
    BY <1>6, <2>3 DEF ReceiveNeedsInterrupt, InterruptWorker
  <2>4. CASE ReceiveNeedsTermination(s)
    <3>1. \A q \in Proc : worker'[q].armed = worker[q].armed
      BY <1>0, <2>4 DEF ReceiveNeedsTermination, ForceTerminateWorker,
                        WorkerTypeOK, WorkerObject
    <3> QED
      BY <1>6, <2>4, <3>1 DEF ReceiveNeedsTermination
  <2> QED
    BY <1>7, <2>1, <2>2, <2>3, <2>4 DEF ReceiveEvent
<1>8. ASSUME NEW s \in Proc, EnvironmentStep(s)
      PROVE  NoProxyLimit'
  BY <1>0, <1>1, <1>8, EnvironmentLimit DEF EnvironmentStep
<1>9. CASE \/ CreateError \/ RunAllDone \/ InterruptAllDone \/ CheckCleanup
           \/ ReceiveCtxDone \/ ProxyDrainReturns \/ Cancel \/ Finished
           \/ \E p \in Pools : InterruptPool(p) \/ RunAllPool(p)
           \/ UNCHANGED vars
  BY <1>9 DEF CreateError, RunAllDone, InterruptAllDone, CheckCleanup,
              ReceiveCtxDone, ProxyDrainReturns, Cancel, Finished, InterruptPool,
              RunAllPool, vars, workerVars, NoProxyLimit
<1> QED
  BY <1>2, <1>3, <1>4, <1>5, <1>7, <1>8, <1>9 DEF Next, Sequential

LEMMA NoProxyLeftStep ==
  ASSUME TypeOK, NoProxyLeft, [Next]_vars
  PROVE  NoProxyLeft'
<1> USE DEF NoProxyLeft, Terminating
<1>1. CASE \/ CreateAndPreparePools \/ CreateError \/ RunAllDone
           \/ \E p \in Pools : RunAllPool(p)
           \/ \E q \in Proc : RunAllWorker(q)
  BY <1>1 DEF CreateAndPreparePools, CreateError, RunAllDone, RunAllPool,
              RunAllWorker
<1>2. CASE \E q \in Proc : Restart(q) \/ GiveUp(q) \/ InterruptAllWorker(q)
  BY <1>2 DEF Restart, GiveUp, InterruptAllWorker
<1>3. CASE \E q \in Proc : ReceiveEvent(q)
  BY <1>3 DEF ReceiveEvent, ReceiveProcessEnd, ReceiveExceededLimit,
              ReceiveNeedsInterrupt, ReceiveNeedsTermination, controlVars
<1>4. CASE \/ \E p \in Pools : InterruptPool(p)
           \/ InterruptAllDone \/ CheckCleanup \/ ReceiveCtxDone
           \/ ProxyDrainReturns
  BY <1>4 DEF InterruptPool, InterruptAllDone, CheckCleanup, ReceiveCtxDone,
              ProxyDrainReturns
<1>5. CASE \/ Cancel \/ Finished \/ UNCHANGED vars
           \/ \E q \in Proc : EnvironmentStep(q)
  BY <1>5 DEF Cancel, Finished, EnvironmentStep, vars, controlVars
<1> QED
  BY <1>1, <1>2, <1>3, <1>4, <1>5 DEF Next, Sequential

\* Some worker of the pool of proxy q is gone for good.
AWorkerIsGone(q) == \E r \in ProcsOf(PoolOf[q]) \ Proxies : GivenUp(r)

\* Nobody has asked proxy q to end.
Unasked(q) ==
  /\ pending[q][ProcessNeedsInterrupt] = 0
  /\ stale[q][ProcessNeedsInterrupt] = 0

ProxyInv ==
  /\ NoProxyLimit
  /\ NoProxyLeft
  /\ \A q \in Proxies : Unasked(q) \/ AWorkerIsGone(q)

\* A process that ended for good stays so.
LEMMA GivenUpStays ==
  ASSUME TypeOK, EndInv, PoolsUp, [Next]_vars, NEW r \in Proc, GivenUp(r)
  PROVE  GivenUp(r)'
<1>1. CASE \E q \in Proc : GiveUp(q)
  BY <1>1, GiveUpAdds
<1>2. CASE ~\E q \in Proc : GiveUp(q)
  BY <1>2, GivenUpFrame DEF SameGivenUp
<1> QED
  BY <1>1, <1>2

\* A call of Terminate on another worker does not touch q.
LEMMA TerminateOther ==
  ASSUME WorkerTypeOK, NEW s \in Proc, NEW ch \in Senders, Terminate(s, ch),
         NEW q \in Proc, q # s
  PROVE  worker'[q] = worker[q] /\ pending'[q] = ch[q]
<1>1. worker'[q] = worker[q]
  BY DEF Terminate, WorkerTypeOK
<1>2. pending'[q] = ch[q]
  BY DEF Terminate, Send, Senders
<1> QED
  BY <1>1, <1>2

\* What may become of a proxy that nobody has asked to end: only the giving up of
\* a worker of its own pool can have it interrupted.
Untouched(q) ==
  /\ Unasked(q)'
  /\ worker'[q].sigterm => worker[q].sigterm

LEMMA GiveUpProxy ==
  ASSUME TypeOK, EndInv, NEW q \in Proxies, Unasked(q), NEW s \in Proc, GiveUp(s)
  PROVE  Untouched(q) \/ AWorkerIsGone(q)'
<1> USE ProxyProc
<1>0. WorkerTypeOK /\ pending \in Senders
  BY DEF TypeOK, WorkerTypeOK
<1>1. PoolOf[s] \in Pools /\ s \in ProcsOf(PoolOf[s])
  BY PoolAssumption DEF ProcsOf
<1>2. GivenUp(s)' /\ Terminated(worker[s])
  BY GiveUpAdds DEF GiveUp, Drained, EndInv, HandledOnce
<1>3. stale' = stale
  BY DEF GiveUp
<1>4. CASE worker' = worker /\ pending' = pending
  BY <1>3, <1>4 DEF Untouched, Unasked
<1>5. CASE HasProxy(PoolOf[s]) /\ Terminate(ProxyOf(PoolOf[s]), pending)
  <2> DEFINE x == ProxyOf(PoolOf[s])
  <2>1. x \in Proxies /\ x \in Proc /\ PoolOf[x] = PoolOf[s]
    BY <1>1, <1>5, ProxyOfPool
  <2>2. CASE q # x
    <3>1. worker'[q] = worker[q] /\ pending'[q] = pending[q]
      BY <1>0, <1>5, <2>1, <2>2, TerminateOther
    <3> QED
      BY <1>3, <3>1 DEF Untouched, Unasked
  <2>3. CASE q = x /\ Terminated(worker[x])
    <3>1. worker' = worker /\ pending' = pending
      BY <1>5, <2>3 DEF Terminate
    <3> QED
      BY <1>3, <3>1 DEF Untouched, Unasked
  <2>4. CASE q = x /\ ~Terminated(worker[x])
    <3>1. s # x
      BY <1>2, <2>4
    <3>2. s \notin Proxies
      BY <2>1, <3>1, PoolAssumption
    <3>3. s \in ProcsOf(PoolOf[q]) \ Proxies
      BY <1>1, <2>1, <2>4, <3>2
    <3> QED
      BY <1>2, <3>3 DEF AWorkerIsGone, ProcsOf
  <2> QED
    BY <2>2, <2>3, <2>4
<1> QED
  BY <1>4, <1>5 DEF GiveUp, HandleTermination, InterruptWorker

LEMMA EnvironmentProxy ==
  ASSUME TypeOK, NEW q \in Proxies, Unasked(q), NEW s \in Proc, Environment(s)
  PROVE  Untouched(q)
<1> USE ProxyProc, EventTypes
<1>0. WorkerTypeOK
  BY DEF TypeOK
<1>1. /\ ProcessNeedsInterrupt # ProcessEnd
      /\ ProcessNeedsInterrupt # ProcessNeedsTermination
      /\ ProcessNeedsInterrupt # ProcessExceededLimit
  BY DEF ProcessEnd, ProcessExceededLimit, ProcessNeedsInterrupt,
         ProcessNeedsTermination
<1>2. /\ pending'[q][ProcessNeedsInterrupt] = pending[q][ProcessNeedsInterrupt]
      /\ stale'[q][ProcessNeedsInterrupt] = stale[q][ProcessNeedsInterrupt]
  BY <1>0, <1>1
     DEF Environment, OSStart, OSStartFail, OSExit, StreamLogsDone, SignalTimeout,
         LimiterFire, OrphanLimiterFire, Send, WorkerTypeOK, Senders
<1>3. worker'[q].sigterm = worker[q].sigterm
  BY <1>0 DEF Environment, OSStart, OSStartFail, OSExit, StreamLogsDone,
              SignalTimeout, LimiterFire, OrphanLimiterFire, WorkerTypeOK,
              WorkerObject
<1> QED
  BY <1>2, <1>3 DEF Untouched, Unasked

LEMMA ReceiveProxy ==
  ASSUME TypeOK, NoProxyLimit, NEW q \in Proxies, Unasked(q),
         NEW s \in Proc, ReceiveEvent(s)
  PROVE  Untouched(q)
<1> USE ProxyProc, EventTypes
<1>0. WorkerTypeOK
  BY DEF TypeOK
<1>1. ASSUME NEW t \in EventType \ {ProcessNeedsInterrupt}, NEW c \in Receive(s, t),
             pending' = c[1], stale' = c[2],
             worker'[q].sigterm = worker[q].sigterm
      PROVE  Untouched(q)
  BY <1>0, <1>1, ReceiveFrame DEF Untouched, Unasked
<1>2. ASSUME NEW t \in EventType, NEW c \in Receive(s, t), s # q,
             stale' = c[2], Terminate(s, c[1])
      PROVE  Untouched(q)
  <2>1. c[1] \in Senders
    BY <1>0, ReceiveType
  <2>2. c[1][q] = pending[q] /\ c[2][q] = stale[q]
    BY <1>0, <1>2 DEF Receive, Take, WorkerTypeOK, Senders
  <2> QED
    BY <1>0, <1>2, <2>1, <2>2, TerminateOther DEF Untouched, Unasked
<1>3. CASE ReceiveProcessEnd(s)
  BY <1>1, <1>3 DEF ReceiveProcessEnd, ProcessEnd, ProcessNeedsInterrupt
<1>4. CASE ReceiveNeedsTermination(s)
  <2>1. worker'[q].sigterm = worker[q].sigterm
    BY <1>0, <1>4 DEF ReceiveNeedsTermination, ForceTerminateWorker, WorkerTypeOK,
                      WorkerObject
  <2> QED
    BY <1>1, <1>4, <2>1 DEF ReceiveNeedsTermination, ProcessNeedsTermination,
                            ProcessNeedsInterrupt
<1>5. CASE ReceiveExceededLimit(s)
  <2>1. PICK c \in Receive(s, ProcessExceededLimit) :
          /\ stale' = c[2]
          /\ Terminate(s, c[1]) \/ (worker' = worker /\ pending' = c[1])
    BY <1>5 DEF ReceiveExceededLimit, InterruptWorker
  <2>2. s # q
    BY <2>1 DEF Receive, NoProxyLimit
  <2>3. ProcessExceededLimit # ProcessNeedsInterrupt
    BY DEF ProcessExceededLimit, ProcessNeedsInterrupt
  <2> QED
    BY <1>1, <1>2, <2>1, <2>2, <2>3
<1>6. CASE ReceiveNeedsInterrupt(s)
  <2>1. PICK c \in Receive(s, ProcessNeedsInterrupt) :
          stale' = c[2] /\ Terminate(s, c[1])
    BY <1>6 DEF ReceiveNeedsInterrupt, InterruptWorker
  <2>2. s # q
    BY <2>1 DEF Receive, Unasked
  <2> QED
    BY <1>2, <2>1, <2>2
<1> QED
  BY <1>3, <1>4, <1>5, <1>6 DEF ReceiveEvent

LEMMA RestartProxy ==
  ASSUME TypeOK, NEW q \in Proxies, Unasked(q), NEW s \in Proc, Restart(s)
  PROVE  Untouched(q)
<1> USE ProxyProc, EventTypes
<1>0. WorkerTypeOK
  BY DEF TypeOK
<1>1. CASE UNCHANGED workerVars
  BY <1>1 DEF workerVars, Untouched, Unasked
<1>2. CASE Replace(s, pending) /\ s # q
  BY <1>0, <1>2 DEF Replace, Untouched, Unasked, WorkerTypeOK, Senders
<1>3. CASE Replace(s, pending) /\ s = q
  <2>1. worker'[q].sigterm = FALSE
    BY <1>0, <1>3 DEF Replace, Run, NewWorker, WorkerTypeOK
  <2>2. pending'[q][ProcessNeedsInterrupt] = 0
    BY <1>0, <1>3 DEF Replace, NoSenders, WorkerTypeOK, Senders
  <2>3. stale'[q][ProcessNeedsInterrupt] = 0
    BY <1>0, <1>3 DEF Replace, Unasked, WorkerTypeOK, Senders
  <2> QED
    BY <2>1, <2>2, <2>3 DEF Untouched, Unasked
<1> QED
  BY <1>1, <1>2, <1>3 DEF Restart, RestartWorker

LEMMA ProxyStep ==
  ASSUME TypeOK, EndInv, PoolsUp, ProxyInv, [Next]_vars, NEW q \in Proxies
  PROVE  Untouched(q) \/ AWorkerIsGone(q)'
<1> USE ProxyProc
<1>0. WorkerTypeOK /\ pending \in Senders
  BY DEF TypeOK, WorkerTypeOK
<1>1. CASE AWorkerIsGone(q)
  BY <1>1, GivenUpStays DEF AWorkerIsGone, ProcsOf
<1>2. CASE Unasked(q)
  <2> USE <1>2
  <2>1. CASE CreateAndPreparePools
    BY <2>1 DEF CreateAndPreparePools, PrepareWorkers, NewWorker, Untouched, Unasked
  <2>2. ASSUME NEW s \in Proc, RunAllWorker(s)
        PROVE  Untouched(q)
    <3>1. worker'[q].sigterm = worker[q].sigterm
      BY <1>0, <2>2 DEF RunAllWorker, RunOne, Run, WorkerTypeOK, WorkerObject
    <3> QED
      BY <2>2, <3>1 DEF RunAllWorker, RunOne, Untouched, Unasked
  <2>3. ASSUME NEW s \in Proc, InterruptAllWorker(s)
        PROVE  Untouched(q)
    <3>1. s # q
      BY <2>3 DEF InterruptAllWorker, ProxyInv, NoProxyLeft, Terminating
    <3> QED
      BY <1>0, <2>3, <3>1, TerminateOther DEF InterruptAllWorker, Untouched, Unasked
  <2>4. CASE \E s \in Proc : GiveUp(s)
    BY <2>4, GiveUpProxy
  <2>5. CASE \E s \in Proc : Restart(s) \/ ReceiveEvent(s) \/ EnvironmentStep(s)
    BY <2>5, RestartProxy, ReceiveProxy, EnvironmentProxy
       DEF ProxyInv, EnvironmentStep
  <2>6. CASE \/ CreateError \/ RunAllDone \/ InterruptAllDone \/ CheckCleanup
             \/ ReceiveCtxDone \/ ProxyDrainReturns \/ Cancel \/ Finished
             \/ \E p \in Pools : InterruptPool(p) \/ RunAllPool(p)
             \/ UNCHANGED vars
    BY <2>6 DEF CreateError, RunAllDone, InterruptAllDone, CheckCleanup,
                ReceiveCtxDone, ProxyDrainReturns, Cancel, Finished, InterruptPool,
                RunAllPool, vars, workerVars, Untouched, Unasked
  <2> QED
    BY <2>1, <2>2, <2>3, <2>4, <2>5, <2>6 DEF Next, Sequential
<1> QED
  BY <1>1, <1>2 DEF ProxyInv

\* A proxy is sent SIGTERM only after some worker of its pool is gone for good,
\* whatever is still in flight for it or for the objects it replaced.
THEOREM ProxyOutlivesAWorker == Spec => ProxyAfterAWorker
<1>1. Init => ProxyInv
  BY EventTypes, ProxyProc
     DEF Init, ProxyInv, NoProxyLimit, NoProxyLeft, Unasked, Terminating, NoWorker,
         NewWorker, NoSenders
<1>2. TypeOK /\ EndInv /\ PoolsUp /\ ProxyInv /\ [Next]_vars => ProxyInv'
  <2> SUFFICES ASSUME TypeOK, EndInv, PoolsUp, ProxyInv, [Next]_vars PROVE ProxyInv'
    OBVIOUS
  <2>1. NoProxyLimit' /\ NoProxyLeft'
    BY NoProxyLimitStep, NoProxyLeftStep DEF ProxyInv
  <2>2. \A q \in Proxies : Unasked(q)' \/ AWorkerIsGone(q)'
    BY ProxyStep DEF Untouched
  <2> QED
    BY <2>1, <2>2 DEF ProxyInv
<1>3. TypeOK /\ EndInv /\ PoolsUp /\ ProxyInv /\ [Next]_vars
        => [\A q \in Proxies :
              ~worker[q].sigterm /\ worker'[q].sigterm
                => \E r \in ProcsOf(PoolOf[q]) \ Proxies : GivenUp(r)']_vars
  BY ProxyStep DEF Untouched, AWorkerIsGone, ProcsOf
<1> QED
  BY TypeCorrect, EndsHandledOnce, PoolsStayUp, <1>1, <1>2, <1>3, PTL
     DEF Spec, ProxyAfterAWorker

-------------------------------------------------------------------------------
\* A SIGKILL comes after a SIGTERM.

Up == {"create", "runAll", "loop"}

(***************************************************************************)
(* The processes that are never interrupted while the group is up: workers *)
(* without a lifespan, and the proxy of a pool of such workers whose       *)
(* budget covers all the crashes they may have.  The other ones can be     *)
(* interrupted and then restarted with an event of the old object still in *)
(* flight, and the statement below fails for them.                         *)
(***************************************************************************)
Spared ==
  {q \in Proc \ Limited :
     q \in Proxies => /\ ProcsOf(PoolOf[q]) \cap Limited = {}
                      /\ MaxGen <= MaxRestarts[PoolOf[q]]}

\* No limiter speaks for q, and nothing of a replaced object is in flight.
Undisturbed(q) ==
  /\ worker[q].armed = FALSE
  /\ orphans[q] = 0
  /\ pending[q][ProcessExceededLimit] = 0
  /\ \A t \in EventType : stale[q][t] = 0

\* Whatever leads to SIGKILL, and SIGKILL itself, comes after SIGTERM.
Announced(q) ==
  worker[q].timers > 0 \/ pending[q][ProcessNeedsTermination] > 0 \/ worker[q].sigkill
    => worker[q].sigterm

\* Nobody has asked q to end, and its crashes stay within MaxGen.
LeftAlone(q) ==
  /\ ~worker[q].sigterm
  /\ pending[q][ProcessNeedsInterrupt] = 0
  /\ worker[q].gen <= MaxGen
  /\ Terminated(worker[q]) => worker[q].gen < MaxGen

KillInvOf(q) == Undisturbed(q) /\ Announced(q) /\ (pc \in Up => LeftAlone(q))

KillInv == \A q \in Spared : KillInvOf(q)

LEMMA SparedProc ==
  \A q \in Spared : q \in Proc /\ q \notin Limited /\ (q \in Limited) = FALSE
BY DEF Spared

\* A step that does not touch q.
LEMMA KillSame ==
  ASSUME NEW q \in Spared, KillInvOf(q), pc' \in Up => pc \in Up,
         worker'[q] = worker[q], orphans'[q] = orphans[q],
         pending'[q] = pending[q], stale'[q] = stale[q]
  PROVE  KillInvOf(q)'
BY DEF KillInvOf, Undisturbed, Announced, LeftAlone, Terminated

\* Terminate is called on q, by a supervisor that is shutting down.
LEMMA KillTerminate ==
  ASSUME WorkerTypeOK, NEW q \in Spared, KillInvOf(q), pc' \notin Up,
         NEW ch \in Senders, Terminate(q, ch),
         \A t \in EventType \ {ProcessNeedsInterrupt} : ch[q][t] = pending[q][t],
         orphans'[q] = orphans[q], stale'[q] = stale[q]
  PROVE  KillInvOf(q)'
<1> USE SparedProc, EventTypes
<1>1. /\ pending'[q][ProcessExceededLimit] = pending[q][ProcessExceededLimit]
      /\ pending'[q][ProcessNeedsTermination] = pending[q][ProcessNeedsTermination]
  <2>1. /\ ProcessExceededLimit \in EventType \ {ProcessNeedsInterrupt}
        /\ ProcessNeedsTermination \in EventType \ {ProcessNeedsInterrupt}
    BY DEF EventType, ProcessExceededLimit, ProcessNeedsInterrupt,
           ProcessNeedsTermination
  <2> QED
    BY <2>1, TerminateFrame
<1>2. worker'[q].armed = FALSE
  BY TerminateLimit DEF KillInvOf, Undisturbed
<1>3. Undisturbed(q)'
  BY <1>1, <1>2 DEF KillInvOf, Undisturbed
<1>4. Announced(q)'
  <2>1. CASE ~Terminated(worker[q]) /\ Running(worker[q])
    BY <2>1 DEF Terminate, Announced, WorkerTypeOK, WorkerObject
  <2>2. CASE Terminated(worker[q]) \/ ~Running(worker[q])
    <3>1. /\ worker'[q].timers = worker[q].timers
          /\ worker'[q].sigterm = worker[q].sigterm
          /\ worker'[q].sigkill = worker[q].sigkill
      BY <2>2 DEF Terminate, WorkerTypeOK, WorkerObject
    <3> QED
      BY <1>1, <3>1 DEF KillInvOf, Announced
  <2> QED
    BY <2>1, <2>2
<1> QED
  BY <1>3, <1>4 DEF KillInvOf

\* The operating system, the log streams and the timers.
LEMMA KillEnvironment ==
  ASSUME WorkerTypeOK, EndInv, NEW q \in Spared, KillInvOf(q), pc' = pc,
         NEW s \in Proc, Environment(s)
  PROVE  KillInvOf(q)'
<1> USE SparedProc, EventTypes
<1>1. CASE s # q
  <2>1. /\ worker'[q] = worker[q] /\ orphans'[q] = orphans[q]
        /\ pending'[q] = pending[q] /\ stale'[q] = stale[q]
    BY <1>1 DEF Environment, OSStart, OSStartFail, OSExit, StreamLogsDone,
                SignalTimeout, LimiterFire, OrphanLimiterFire, Send, WorkerTypeOK,
                Senders
  <2> QED
    BY <2>1, KillSame
<1>2. CASE OSStart(q) \/ StreamLogsDone(q)
  <2>1. /\ UNCHANGED <<orphans, pending, stale>>
        /\ worker'[q].armed = worker[q].armed
        /\ worker'[q].timers = worker[q].timers
        /\ worker'[q].sigterm = worker[q].sigterm
        /\ worker'[q].sigkill = worker[q].sigkill
        /\ worker'[q].gen = worker[q].gen
        /\ Terminated(worker'[q]) => Terminated(worker[q])
    BY <1>2 DEF OSStart, StreamLogsDone, Terminated, WorkerTypeOK, WorkerObject
  <2> QED
    BY <2>1 DEF KillInvOf, Undisturbed, Announced, LeftAlone
<1>3. CASE OSStartFail(q) \/ OSExit(q)
  <2>1. /\ UNCHANGED <<orphans, stale>>
        /\ worker'[q].armed = worker[q].armed
        /\ worker'[q].timers = worker[q].timers
        /\ worker'[q].sigterm = worker[q].sigterm
        /\ worker'[q].sigkill = worker[q].sigkill
        /\ worker'[q].gen = worker[q].gen
    BY <1>3 DEF OSStartFail, OSExit, WorkerTypeOK, WorkerObject
  <2>2. \A t \in EventType \ {ProcessEnd} : pending'[q][t] = pending[q][t]
    BY <1>3 DEF OSStartFail, OSExit, Send, WorkerTypeOK, Senders
  <2>3. /\ ProcessExceededLimit # ProcessEnd
        /\ ProcessNeedsTermination # ProcessEnd
        /\ ProcessNeedsInterrupt # ProcessEnd
    BY DEF ProcessEnd, ProcessExceededLimit, ProcessNeedsInterrupt,
           ProcessNeedsTermination
  <2>4. pc \in Up => worker[q].gen < MaxGen
    BY <1>3 DEF OSStartFail, OSExit, KillInvOf, Announced, LeftAlone
  <2> QED
    BY <2>1, <2>2, <2>3, <2>4 DEF KillInvOf, Undisturbed, Announced, LeftAlone
<1>4. CASE SignalTimeout(q)
  <2>1. worker[q].sigterm /\ pc \notin Up
    BY <1>4 DEF SignalTimeout, KillInvOf, Announced, LeftAlone
  <2>2. /\ UNCHANGED <<orphans, stale>>
        /\ worker'[q].armed = worker[q].armed
        /\ worker'[q].sigterm = worker[q].sigterm
    BY <1>4 DEF SignalTimeout, WorkerTypeOK, WorkerObject
  <2>3. pending'[q][ProcessExceededLimit] = pending[q][ProcessExceededLimit]
    BY <1>4 DEF SignalTimeout, Send, WorkerTypeOK, Senders, ProcessExceededLimit,
                ProcessNeedsTermination
  <2>4. Undisturbed(q)'
    BY <2>2, <2>3 DEF KillInvOf, Undisturbed
  <2> QED
    BY <2>1, <2>2, <2>4 DEF KillInvOf, Announced
<1>5. ~LimiterFire(q) /\ ~OrphanLimiterFire(q)
  BY DEF LimiterFire, OrphanLimiterFire, KillInvOf, Undisturbed
<1> QED
  BY <1>1, <1>2, <1>3, <1>4, <1>5 DEF Environment

\* An event for s is received.
LEMMA KillReceive ==
  ASSUME TypeOK, EndInv, NEW q \in Spared, KillInvOf(q), NEW s \in Proc,
         ReceiveEvent(s)
  PROVE  KillInvOf(q)'
<1> USE SparedProc, EventTypes
<1>0. WorkerTypeOK
  BY DEF TypeOK
<1>1. pc' = pc \/ pc' \in {"panicked", "killed"}
  BY DEF ReceiveEvent, ReceiveProcessEnd, ReceiveExceededLimit,
         ReceiveNeedsInterrupt, ReceiveNeedsTermination, controlVars
<1>2. pc' \in Up => pc \in Up
  BY <1>1 DEF Up
<1>3. orphans' = orphans
  BY DEF ReceiveEvent, ReceiveProcessEnd, ReceiveExceededLimit,
         ReceiveNeedsInterrupt, ReceiveNeedsTermination
<1>4. ASSUME NEW t \in EventType, NEW c \in Receive(s, t)
      PROVE  /\ c[1] \in Senders
             /\ s # q => c[1][q] = pending[q] /\ c[2][q] = stale[q]
             /\ s = q => /\ pending[q][t] > 0 /\ c[2] = stale
                         /\ \A u \in EventType \ {t} : c[1][q][u] = pending[q][u]
  <2>1. c[1] \in Senders
    BY <1>0, ReceiveType
  <2>2. s # q => c[1][q] = pending[q] /\ c[2][q] = stale[q]
    BY <1>0 DEF Receive, Take, WorkerTypeOK, Senders
  <2>3. ASSUME s = q
        PROVE  c = <<Take(pending, q, t), stale>> /\ pending[q][t] > 0
    BY <2>3 DEF Receive, KillInvOf, Undisturbed
  <2>4. s = q => \A u \in EventType \ {t} : c[1][q][u] = pending[q][u]
    BY <1>0, ReceiveFrame
  <2> QED
    BY <2>1, <2>2, <2>3, <2>4
<1>5. CASE s # q
  <2>1. /\ worker'[q] = worker[q]
        /\ pending'[q] = pending[q] /\ stale'[q] = stale[q]
    <3>1. CASE ReceiveProcessEnd(s)
      BY <1>4, <1>5, <3>1 DEF ReceiveProcessEnd
    <3>2. CASE ReceiveNeedsTermination(s)
      BY <1>0, <1>4, <1>5, <3>2 DEF ReceiveNeedsTermination, ForceTerminateWorker,
                                    WorkerTypeOK
    <3>3. CASE ReceiveNeedsInterrupt(s)
      BY <1>0, <1>4, <1>5, <3>3, TerminateOther DEF ReceiveNeedsInterrupt,
                                                    InterruptWorker
    <3>4. CASE ReceiveExceededLimit(s)
      <4>1. PICK c \in Receive(s, ProcessExceededLimit) :
              /\ stale' = c[2]
              /\ Terminate(s, c[1]) \/ (worker' = worker /\ pending' = c[1])
        BY <3>4 DEF ReceiveExceededLimit, InterruptWorker
      <4> QED
        BY <1>0, <1>4, <1>5, <4>1, TerminateOther
    <3> QED
      BY <3>1, <3>2, <3>3, <3>4 DEF ReceiveEvent
  <2> QED
    BY <1>2, <1>3, <2>1, KillSame
<1>6. CASE s = q /\ ReceiveProcessEnd(q)
  <2>1. PICK c \in Receive(q, ProcessEnd) : pending' = c[1] /\ stale' = c[2]
    BY <1>6 DEF ReceiveProcessEnd
  <2>2. /\ stale' = stale /\ worker' = worker
        /\ \A u \in EventType \ {ProcessEnd} : pending'[q][u] = pending[q][u]
    BY <1>4, <1>6, <2>1 DEF ReceiveProcessEnd
  <2>3. /\ ProcessExceededLimit # ProcessEnd
        /\ ProcessNeedsTermination # ProcessEnd
        /\ ProcessNeedsInterrupt # ProcessEnd
    BY DEF ProcessEnd, ProcessExceededLimit, ProcessNeedsInterrupt,
           ProcessNeedsTermination
  <2> QED
    BY <1>2, <1>3, <2>2, <2>3 DEF KillInvOf, Undisturbed, Announced, LeftAlone,
                                  Terminated
<1>7. CASE s = q /\ ReceiveExceededLimit(q)
  BY <1>4, <1>7 DEF ReceiveExceededLimit, KillInvOf, Undisturbed
<1>8. CASE s = q /\ ReceiveNeedsInterrupt(q)
  <2>1. PICK c \in Receive(q, ProcessNeedsInterrupt) :
          stale' = c[2] /\ Terminate(q, c[1])
    BY <1>8 DEF ReceiveNeedsInterrupt, InterruptWorker
  <2>2. pc \notin Up
    BY <1>4, <1>8, <2>1 DEF KillInvOf, LeftAlone
  <2> QED
    BY <1>0, <1>2, <1>3, <1>4, <1>8, <2>1, <2>2, KillTerminate
<1>9. CASE s = q /\ ReceiveNeedsTermination(q)
  <2>1. PICK c \in Receive(q, ProcessNeedsTermination) :
          pending' = c[1] /\ stale' = c[2]
    BY <1>9 DEF ReceiveNeedsTermination
  <2>2. worker[q].sigterm /\ pc \notin Up
    BY <1>4, <1>9, <2>1 DEF KillInvOf, Announced, LeftAlone
  <2>3. /\ worker'[q].sigterm = worker[q].sigterm
        /\ worker'[q].armed = worker[q].armed
    BY <1>0, <1>9 DEF ReceiveNeedsTermination, ForceTerminateWorker, WorkerTypeOK,
                      WorkerObject
  <2>4. /\ stale' = stale
        /\ pending'[q][ProcessExceededLimit] = pending[q][ProcessExceededLimit]
    BY <1>4, <1>9, <2>1 DEF ProcessExceededLimit, ProcessNeedsTermination
  <2>5. Undisturbed(q)'
    BY <1>3, <2>3, <2>4 DEF KillInvOf, Undisturbed
  <2> QED
    BY <1>2, <2>2, <2>3, <2>5 DEF KillInvOf, Announced
<1> QED
  BY <1>5, <1>6, <1>7, <1>8, <1>9 DEF ReceiveEvent

\* A process is restarted.
LEMMA KillRestart ==
  ASSUME TypeOK, EndInv, NEW q \in Spared, KillInvOf(q), NEW s \in Proc, Restart(s)
  PROVE  KillInvOf(q)'
<1> USE SparedProc, EventTypes
<1>0. WorkerTypeOK
  BY DEF TypeOK
<1>1. pc = "loop" /\ pc' = pc /\ pc \in Up
  BY DEF Restart, Up
<1>2. CASE UNCHANGED workerVars
  BY <1>1, <1>2, KillSame DEF workerVars
<1>3. CASE Replace(s, pending) /\ s # q
  <2>1. /\ worker'[q] = worker[q] /\ orphans'[q] = orphans[q]
        /\ pending'[q] = pending[q] /\ stale'[q] = stale[q]
    BY <1>0, <1>3 DEF Replace, WorkerTypeOK, Senders
  <2> QED
    BY <1>1, <2>1, KillSame
<1>4. CASE Replace(s, pending) /\ s = q
  <2>1. Terminated(worker[q]) /\ pending[q][ProcessEnd] = 0
    BY <1>4 DEF Restart, Drained, EndInv, HandledOnce
  <2>2. LeftAlone(q) /\ Undisturbed(q) /\ Announced(q)
    BY <1>1 DEF KillInvOf
  <2>3. worker[q].gen \in Nat /\ MaxGen \in Nat
    BY <1>0, WorkerAssumption DEF WorkerTypeOK, WorkerObject
  <2>4. /\ worker'[q].gen = worker[q].gen + 1
        /\ worker'[q].cmd = "starting"
        /\ worker'[q].sigterm = FALSE
        /\ worker'[q].sigkill = FALSE
        /\ worker'[q].timers = 0
        /\ worker'[q].armed = (q \in Limited)
    BY <1>0, <1>4 DEF Replace, Run, NewWorker, WorkerTypeOK
  <2>5. worker'[q].armed = FALSE
    BY <2>4
  <2>6. \A t \in EventType : pending'[q][t] = 0
    BY <1>0, <1>4 DEF Replace, NoSenders, WorkerTypeOK, Senders
  <2>7. \A t \in EventType : pending[q][t] = 0
    <3>1. pending[q][ProcessNeedsTermination] = 0
      BY <1>0, <2>2 DEF Announced, LeftAlone, WorkerTypeOK, Senders
    <3> QED
      BY <2>1, <2>2, <3>1 DEF EventType, LeftAlone, Undisturbed
  <2>8. \A t \in EventType : stale'[q][t] = 0
    BY <1>0, <1>4, <2>2, <2>7 DEF Replace, WorkerTypeOK, Senders, Undisturbed
  <2>9. orphans'[q] = 0
    BY <1>0, <1>4, <2>2 DEF Replace, WorkerTypeOK, Undisturbed
  <2>10. Undisturbed(q)'
    BY <2>5, <2>6, <2>8, <2>9 DEF Undisturbed
  <2>11. LeftAlone(q)'
    BY <2>1, <2>2, <2>3, <2>4, <2>6 DEF LeftAlone, Terminated
  <2>12. Announced(q)'
    BY <2>4, <2>6 DEF Announced
  <2> QED
    BY <2>10, <2>11, <2>12 DEF KillInvOf
<1> QED
  BY <1>2, <1>3, <1>4 DEF Restart, RestartWorker

\* A process is given up: in the main loop this interrupts no spared proxy,
\* because the workers of its pool have not used up their budget.
LEMMA KillGiveUp ==
  ASSUME TypeOK, EndInv, PoolsUp, KillInv, NEW q \in Spared, NEW s \in Proc,
         GiveUp(s)
  PROVE  KillInvOf(q)'
<1> USE SparedProc, EventTypes
<1>0. WorkerTypeOK /\ pending \in Senders /\ KillInvOf(q)
  BY DEF TypeOK, WorkerTypeOK, KillInv
<1>1. /\ pc \in {"loop", "drain"} /\ pc' = pc
      /\ stale' = stale /\ orphans' = orphans
  BY DEF GiveUp
<1>2. PoolOf[s] \in Pools /\ s \in ProcsOf(PoolOf[s])
  BY PoolAssumption DEF ProcsOf
<1>3. Terminated(worker[s])
  BY DEF GiveUp, Drained, EndInv, HandledOnce
<1>4. CASE worker' = worker /\ pending' = pending
  BY <1>0, <1>1, <1>4, KillSame
<1>5. CASE HasProxy(PoolOf[s]) /\ Terminate(ProxyOf(PoolOf[s]), pending)
  <2> DEFINE x == ProxyOf(PoolOf[s])
  <2>1. x \in Proxies /\ x \in Proc /\ PoolOf[x] = PoolOf[s]
    BY <1>2, <1>5, ProxyOfPool
  <2>2. CASE q # x
    <3>1. worker'[q] = worker[q] /\ pending'[q] = pending[q]
      BY <1>0, <1>5, <2>1, <2>2, TerminateOther
    <3> QED
      BY <1>0, <1>1, <3>1, KillSame
  <2>3. CASE Terminated(worker[x])
    <3>1. worker' = worker /\ pending' = pending
      BY <1>5, <2>3 DEF Terminate
    <3> QED
      BY <1>4, <3>1
  <2>4. CASE q = x /\ ~Terminated(worker[x])
    <3>1. s \notin Proxies
      BY <1>3, <2>1, <2>4, PoolAssumption
    <3>2. s \in Spared
      BY <1>2, <2>1, <2>4, <3>1 DEF Spared
    <3>3. pc # "loop"
      <4>1. SUFFICES ASSUME pc = "loop" PROVE FALSE
        OBVIOUS
      <4>2. worker[s].gen < MaxGen /\ MaxGen <= MaxRestarts[PoolOf[s]]
        BY <1>3, <2>1, <2>4, <3>2, <4>1 DEF KillInv, KillInvOf, LeftAlone, Spared, Up
      <4>3. /\ worker[s].gen \in Nat /\ MaxGen \in Nat
            /\ MaxRestarts[PoolOf[s]] \in Nat
        BY <1>0, <1>2, WorkerAssumption, PoolAssumption DEF WorkerTypeOK, WorkerObject
      <4>4. poolState[PoolOf[s]] \notin {"Draining", "Stopped"}
        BY <1>2, <4>1 DEF PoolsUp
      <4>5. RestartResults(s) = {"restarted"}
        BY <3>1, <4>2, <4>3, <4>4 DEF RestartResults, Restarts
      <4> QED
        BY <4>1, <4>5 DEF GiveUp
    <3>4. pc' \notin Up
      BY <1>1, <3>3 DEF Up
    <3> QED
      BY <1>0, <1>1, <1>5, <2>4, <3>4, KillTerminate
  <2> QED
    BY <2>2, <2>3, <2>4
<1> QED
  BY <1>4, <1>5 DEF GiveUp, HandleTermination, InterruptWorker

LEMMA KillStep ==
  ASSUME TypeOK, EndInv, PoolsUp, KillInv, [Next]_vars, NEW q \in Spared
  PROVE  KillInvOf(q)'
<1> USE SparedProc, EventTypes
<1>0. WorkerTypeOK /\ pending \in Senders /\ KillInvOf(q)
  BY DEF TypeOK, WorkerTypeOK, KillInv
<1>1. CASE CreateAndPreparePools
  <2>1. worker'[q] = NewWorker(0, q \notin Proxies)
    BY <1>1 DEF CreateAndPreparePools, PrepareWorkers
  <2>2. /\ UNCHANGED <<orphans, pending, stale>> /\ pc \in Up
    BY <1>1 DEF CreateAndPreparePools, Up
  <2>3. /\ worker'[q].gen = 0 /\ worker'[q].cmd = "prepared"
        /\ worker'[q].sigterm = FALSE /\ worker'[q].sigkill = FALSE
        /\ worker'[q].armed = FALSE /\ worker'[q].timers = 0
    BY <2>1 DEF NewWorker
  <2>4. pending[q][ProcessNeedsTermination] \in Nat
    BY <1>0 DEF Senders
  <2> QED
    BY <1>0, <2>2, <2>3, <2>4, WorkerAssumption
       DEF KillInvOf, Undisturbed, Announced, LeftAlone, Terminated
<1>2. ASSUME NEW s \in Proc, RunAllWorker(s)
      PROVE  KillInvOf(q)'
  <2>1. UNCHANGED <<orphans, pending, stale, pc>>
    BY <1>2 DEF RunAllWorker, RunOne
  <2>2. CASE s # q
    BY <1>0, <1>2, <2>1, <2>2, KillSame DEF RunAllWorker, RunOne, WorkerTypeOK
  <2>3. CASE s = q
    <3>1. /\ worker'[q].gen = worker[q].gen
          /\ worker'[q].cmd = "starting"
          /\ worker'[q].sigterm = worker[q].sigterm
          /\ worker'[q].sigkill = worker[q].sigkill
          /\ worker'[q].timers = worker[q].timers
          /\ worker'[q].armed = (q \in Limited)
      BY <1>0, <1>2, <2>3 DEF RunAllWorker, RunOne, Run, WorkerTypeOK, WorkerObject
    <3>2. worker'[q].armed = FALSE
      BY <3>1
    <3> QED
      BY <1>0, <2>1, <3>1, <3>2
         DEF KillInvOf, Undisturbed, Announced, LeftAlone, Terminated
  <2> QED
    BY <2>2, <2>3
<1>3. ASSUME NEW s \in Proc, InterruptAllWorker(s)
      PROVE  KillInvOf(q)'
  <2>1. /\ UNCHANGED <<orphans, stale, pc>> /\ pc' \notin Up
        /\ Terminate(s, pending)
    BY <1>3 DEF InterruptAllWorker, Up
  <2>2. CASE s # q
    BY <1>0, <2>1, <2>2, TerminateOther, KillSame
  <2>3. CASE s = q
    BY <1>0, <2>1, <2>3, KillTerminate
  <2> QED
    BY <2>2, <2>3
<1>4. CASE \E s \in Proc : Restart(s) \/ GiveUp(s) \/ ReceiveEvent(s)
  BY <1>0, <1>4, KillRestart, KillGiveUp, KillReceive
<1>5. ASSUME NEW s \in Proc, EnvironmentStep(s)
      PROVE  KillInvOf(q)'
  BY <1>0, <1>5, KillEnvironment DEF EnvironmentStep, controlVars
<1>6. CASE \/ CreateError \/ RunAllDone \/ InterruptAllDone \/ CheckCleanup
           \/ ReceiveCtxDone \/ ProxyDrainReturns \/ Cancel \/ Finished
           \/ \E p \in Pools : InterruptPool(p) \/ RunAllPool(p)
           \/ UNCHANGED vars
  <2>1. UNCHANGED workerVars /\ (pc' \in Up => pc \in Up)
    BY <1>6 DEF CreateError, RunAllDone, InterruptAllDone, CheckCleanup,
                ReceiveCtxDone, ProxyDrainReturns, Cancel, Finished, InterruptPool,
                RunAllPool, vars, controlVars, Up
  <2> QED
    BY <1>0, <2>1, KillSame DEF workerVars
<1> QED
  BY <1>1, <1>2, <1>3, <1>4, <1>5, <1>6 DEF Next, Sequential

\* The invariant behind the two theorems below: whatever may end in SIGKILL was
\* preceded by SIGTERM, for every process that is spared while the group is up.
THEOREM KillsComeFromTerms == Spec => []KillInv
<1>1. Init => KillInv
  <2> SUFFICES ASSUME Init, NEW q \in Spared PROVE KillInvOf(q)
    BY DEF KillInv
  <2>1. q \in Proc /\ MaxGen \in Nat
    BY SparedProc, WorkerAssumption
  <2>2. /\ worker[q].gen = 0 /\ worker[q].cmd = "none" /\ worker[q].timers = 0
        /\ worker[q].sigterm = FALSE /\ worker[q].sigkill = FALSE
        /\ worker[q].armed = FALSE
    BY <2>1 DEF Init, NoWorker, NewWorker
  <2>3. /\ orphans[q] = 0
        /\ \A t \in EventType : pending[q][t] = 0 /\ stale[q][t] = 0
    BY <2>1 DEF Init, NoSenders
  <2> QED
    BY <2>1, <2>2, <2>3, EventTypes
       DEF KillInvOf, Undisturbed, Announced, LeftAlone, Terminated
<1>2. TypeOK /\ EndInv /\ PoolsUp /\ KillInv /\ [Next]_vars => KillInv'
  BY KillStep DEF KillInv
<1> QED
  BY TypeCorrect, EndsHandledOnce, PoolsStayUp, <1>1, <1>2, PTL DEF Spec

\* No process has a lifespan, and the restart budget of every pool behind a proxy
\* covers the crashes its workers may have.
AllSpared ==
  /\ Limited = {}
  /\ \A q \in Proxies : MaxGen <= MaxRestarts[PoolOf[q]]

\* Without lifespans and with sufficient budgets no process is sent SIGKILL that
\* was not sent SIGTERM before: ProcessNeedsTermination always finds the object
\* whose timeout sent it.
THEOREM KilledAfterTerm == AllSpared => (Spec => []KillOnlyAfterTerm)
<1> SUFFICES ASSUME AllSpared PROVE Spec => []KillOnlyAfterTerm
  OBVIOUS
<1>1. Spared = Proc
  BY DEF AllSpared, Spared
<1>2. KillInv => KillOnlyAfterTerm
  BY <1>1 DEF KillInv, KillInvOf, Announced, KillOnlyAfterTerm
<1> QED
  BY KillsComeFromTerms, <1>2, PTL

\* Under the same conditions the supervisor never sends SIGKILL to its own
\* process group: a ProcessNeedsTermination finds a process that has a PID.
THEOREM NeverKillsItself == AllSpared => (Spec => []NoSelfKill)
<1> SUFFICES ASSUME AllSpared PROVE Spec => []NoSelfKill
  OBVIOUS
<1>1. Spared = Proc
  BY DEF AllSpared, Spared
<1>2. Init => NoSelfKill
  BY DEF Init, NoSelfKill
<1>3. TypeOK /\ EscalationInv /\ KillInv /\ NoSelfKill /\ [Next]_vars => NoSelfKill'
  <2> SUFFICES ASSUME TypeOK, EscalationInv, KillInv, NoSelfKill, [Next]_vars
               PROVE  NoSelfKill'
    OBVIOUS
  <2> USE DEF NoSelfKill
  <2>1. ASSUME NEW q \in Proc, ReceiveNeedsTermination(q)
        PROVE  NoSelfKill'
    <3>1. PICK c \in Receive(q, ProcessNeedsTermination) : TRUE
      BY <2>1 DEF ReceiveNeedsTermination
    <3>2. pending[q][ProcessNeedsTermination] > 0
      BY <1>1, <3>1, EventTypes DEF Receive, KillInv, KillInvOf, Undisturbed
    <3>3. HasPid(worker[q])
      BY <1>1, <3>2 DEF KillInv, KillInvOf, Announced, EscalationInv,
                        TermWhenRunning, HasPid
    <3> QED
      BY <2>1, <3>3 DEF ReceiveNeedsTermination
  <2>2. CASE \E q \in Proc : \/ ReceiveProcessEnd(q) \/ ReceiveExceededLimit(q)
                             \/ ReceiveNeedsInterrupt(q)
    BY <2>2 DEF ReceiveProcessEnd, ReceiveExceededLimit, ReceiveNeedsInterrupt,
                controlVars
  <2>3. CASE \/ CreateAndPreparePools \/ CreateError \/ RunAllDone
             \/ InterruptAllDone \/ CheckCleanup \/ ReceiveCtxDone
             \/ ProxyDrainReturns \/ Cancel \/ Finished
             \/ \E p \in Pools : InterruptPool(p) \/ RunAllPool(p)
             \/ UNCHANGED vars
    BY <2>3 DEF CreateAndPreparePools, CreateError, RunAllDone, InterruptAllDone,
                CheckCleanup, ReceiveCtxDone, ProxyDrainReturns, Cancel, Finished,
                InterruptPool, RunAllPool, vars, controlVars
  <2>4. CASE \E q \in Proc : \/ RunAllWorker(q) \/ Restart(q) \/ GiveUp(q)
                             \/ InterruptAllWorker(q) \/ EnvironmentStep(q)
    BY <2>4 DEF RunAllWorker, Restart, GiveUp, InterruptAllWorker, EnvironmentStep,
                controlVars
  <2> QED
    BY <2>1, <2>2, <2>3, <2>4 DEF Next, Sequential, ReceiveEvent
<1> QED
  BY TypeCorrect, EscalationInvariant, KillsComeFromTerms, <1>2, <1>3, PTL DEF Spec

-------------------------------------------------------------------------------
\* The life of a worker object.

\* All that a step of the program can do to the workers and to the events.
LEMMA WorkerSteps ==
  ASSUME [Next]_vars
  PROVE  \/ UNCHANGED workerVars
         \/ CreateAndPreparePools
         \/ \E q \in Proc : RunAllWorker(q)
         \/ \E q \in Proc : /\ Restart(q) /\ Replace(q, pending)
                            /\ "restarted" \in RestartResults(q)
         \/ \E q \in Proc : Environment(q)
         \/ \E q \in Proc : Terminate(q, pending) /\ UNCHANGED <<orphans, stale>>
         \/ \E q \in Proc, t \in {ProcessExceededLimit, ProcessNeedsInterrupt} :
              \E c \in Receive(q, t) :
                Terminate(q, c[1]) /\ stale' = c[2] /\ UNCHANGED orphans
         \/ \E q \in Proc, t \in {ProcessEnd, ProcessExceededLimit} :
              \E c \in Receive(q, t) :
                pending' = c[1] /\ stale' = c[2] /\ UNCHANGED <<worker, orphans>>
         \/ \E q \in Proc : ReceiveNeedsTermination(q)
<1>1. ASSUME NEW q \in Proc, GiveUp(q)
      PROVE  \/ UNCHANGED workerVars
             \/ \E r \in Proc : Terminate(r, pending) /\ UNCHANGED <<orphans, stale>>
  <2>1. PoolOf[q] \in Pools
    BY PoolAssumption
  <2>2. /\ UNCHANGED <<orphans, stale>>
        /\ \/ UNCHANGED <<worker, pending>>
           \/ HasProxy(PoolOf[q]) /\ Terminate(ProxyOf(PoolOf[q]), pending)
    BY <1>1 DEF GiveUp, HandleTermination, InterruptWorker
  <2> QED
    BY <2>1, <2>2, ProxyOfPool DEF workerVars
<1>2. ASSUME NEW q \in Proc, Restart(q)
      PROVE  \/ UNCHANGED workerVars
             \/ Replace(q, pending) /\ "restarted" \in RestartResults(q)
  BY <1>2 DEF Restart, RestartWorker
<1>3. ASSUME NEW q \in Proc, ReceiveProcessEnd(q)
      PROVE  \E c \in Receive(q, ProcessEnd) :
               pending' = c[1] /\ stale' = c[2] /\ UNCHANGED <<worker, orphans>>
  BY <1>3 DEF ReceiveProcessEnd
<1>4. ASSUME NEW q \in Proc, ReceiveExceededLimit(q)
      PROVE  \E c \in Receive(q, ProcessExceededLimit) :
               /\ stale' = c[2] /\ UNCHANGED orphans
               /\ Terminate(q, c[1]) \/ (pending' = c[1] /\ UNCHANGED worker)
  BY <1>4 DEF ReceiveExceededLimit, InterruptWorker
<1>5. ASSUME NEW q \in Proc, ReceiveNeedsInterrupt(q)
      PROVE  \E c \in Receive(q, ProcessNeedsInterrupt) :
               Terminate(q, c[1]) /\ stale' = c[2] /\ UNCHANGED orphans
  BY <1>5 DEF ReceiveNeedsInterrupt, InterruptWorker
<1>6. ASSUME NEW q \in Proc, InterruptAllWorker(q)
      PROVE  Terminate(q, pending) /\ UNCHANGED <<orphans, stale>>
  BY <1>6 DEF InterruptAllWorker
<1>7. ASSUME NEW q \in Proc, EnvironmentStep(q)
      PROVE  Environment(q)
  BY <1>7 DEF EnvironmentStep
<1>8. CASE \/ CreateError \/ RunAllDone \/ InterruptAllDone \/ CheckCleanup
           \/ ReceiveCtxDone \/ ProxyDrainReturns \/ Cancel \/ Finished
           \/ \E p \in Pools : InterruptPool(p) \/ RunAllPool(p)
           \/ UNCHANGED vars
  BY <1>8 DEF CreateError, RunAllDone, InterruptAllDone, CheckCleanup,
              ReceiveCtxDone, ProxyDrainReturns, Cancel, Finished, InterruptPool,
              RunAllPool, vars
<1>9. CASE \E q \in Proc : ReceiveEvent(q)
  BY <1>3, <1>4, <1>5, <1>9, Zenon DEF ReceiveEvent
<1> QED
  BY <1>1, <1>2, <1>6, <1>7, <1>8, <1>9, Zenon DEF Next, Sequential

\* What a step may do to the object w registered under a name while it stays
\* registered: its process starts once and ends once, a signal is not taken back,
\* and signals go only to a process that runs.
Ages(w, v) ==
  /\ v.gen = w.gen
  /\ v.cmd = w.cmd \/ <<w.cmd, v.cmd>> \in
       {<<"none", "prepared">>, <<"prepared", "starting">>, <<"starting", "running">>,
        <<"starting", "startFailed">>, <<"running", "exited">>}
  /\ w.sigterm => v.sigterm
  /\ w.sigkill => v.sigkill
  /\ v.sigterm /\ ~w.sigterm => w.cmd = "running" /\ v.cmd = "running"
  /\ v.sigkill /\ ~w.sigkill => w.cmd = "running" /\ v.cmd = "running"

\* The object of q is replaced: its process has ended, its logs are written, and
\* the main loop is handling its end within the budget.  No signal has been sent
\* to the new one.
Replaced(q) ==
  /\ pc = "loop" /\ handling = {q}
  /\ Terminated(worker[q]) /\ worker[q].drained
  /\ q \notin Proxies => worker[q].gen < MaxRestarts[PoolOf[q]]
  /\ worker'[q].gen = worker[q].gen + 1
  /\ worker'[q].cmd = "starting"
  /\ ~worker'[q].sigterm /\ ~worker'[q].sigkill

\* The life of the processes under one name: one at a time.
LifeCycle == [][\A q \in Proc : Ages(worker[q], worker'[q]) \/ Replaced(q)]_vars

LEMMA AgesSame ==
  ASSUME NEW w, NEW v, v.gen = w.gen, v.cmd = w.cmd, v.sigterm = w.sigterm,
         v.sigkill = w.sigkill
  PROVE  Ages(w, v)
BY DEF Ages

LEMMA TerminateAges ==
  ASSUME WorkerTypeOK, NEW s \in Proc, NEW ch, Terminate(s, ch), NEW q \in Proc
  PROVE  Ages(worker[q], worker'[q])
<1>1. CASE Terminated(worker[s]) \/ ~Running(worker[s])
  <2>1. /\ worker'[q].gen = worker[q].gen /\ worker'[q].cmd = worker[q].cmd
        /\ worker'[q].sigterm = worker[q].sigterm
        /\ worker'[q].sigkill = worker[q].sigkill
    BY <1>1 DEF Terminate, WorkerTypeOK, WorkerObject
  <2> QED
    BY <2>1, AgesSame
<1>2. CASE ~Terminated(worker[s]) /\ Running(worker[s])
  <2>1. CASE q # s
    BY <1>2, <2>1, AgesSame DEF Terminate, WorkerTypeOK
  <2>2. CASE q = s
    BY <1>2, <2>2 DEF Terminate, Ages, Running, WorkerTypeOK, WorkerObject
  <2> QED
    BY <2>1, <2>2
<1> QED
  BY <1>1, <1>2

LEMMA EnvironmentAges ==
  ASSUME WorkerTypeOK, NEW s \in Proc, Environment(s), NEW q \in Proc
  PROVE  Ages(worker[q], worker'[q])
<1> USE DEF WorkerTypeOK, WorkerObject
<1>1. CASE OSStart(s)
  BY <1>1 DEF OSStart, Ages
<1>2. CASE OSStartFail(s)
  BY <1>2 DEF OSStartFail, Ages
<1>3. CASE OSExit(s)
  BY <1>3 DEF OSExit, Running, Ages
<1>4. CASE StreamLogsDone(s) \/ SignalTimeout(s) \/ LimiterFire(s) \/ OrphanLimiterFire(s)
  <2>1. /\ worker'[q].gen = worker[q].gen /\ worker'[q].cmd = worker[q].cmd
        /\ worker'[q].sigterm = worker[q].sigterm
        /\ worker'[q].sigkill = worker[q].sigkill
    BY <1>4 DEF StreamLogsDone, SignalTimeout, LimiterFire, OrphanLimiterFire
  <2> QED
    BY <2>1, AgesSame
<1> QED
  BY <1>1, <1>2, <1>3, <1>4 DEF Environment

\* A name that has no worker yet has a clean slate.
Unused == \A q \in Proc : worker[q].cmd = "none" =>
            worker[q].gen = 0 /\ ~worker[q].sigterm /\ ~worker[q].sigkill

LEMMA LifeCycleStep ==
  ASSUME TypeOK, EndInv, Unused, [Next]_vars, NEW q \in Proc
  PROVE  Ages(worker[q], worker'[q]) \/ Replaced(q)
<1>0. WorkerTypeOK
  BY DEF TypeOK
<1>1. CASE worker' = worker
  BY <1>1, AgesSame
<1>2. CASE CreateAndPreparePools
  <2>1. worker[q].cmd = "none"
    BY <1>2 DEF CreateAndPreparePools, EndInv, RunOnce
  <2>2. worker[q].gen = 0 /\ ~worker[q].sigterm /\ ~worker[q].sigkill
    BY <2>1 DEF Unused
  <2>3. /\ worker'[q].gen = 0 /\ worker'[q].cmd = "prepared"
        /\ worker'[q].sigterm = FALSE /\ worker'[q].sigkill = FALSE
    BY <1>2 DEF CreateAndPreparePools, PrepareWorkers, NewWorker
  <2> QED
    BY <2>1, <2>2, <2>3 DEF Ages
<1>3. ASSUME NEW s \in Proc, RunAllWorker(s)
      PROVE  Ages(worker[q], worker'[q])
  <2>1. worker[s].cmd = "prepared"
    BY <1>3 DEF RunAllWorker, EndInv, RunOnce
  <2>2. /\ worker'[s].gen = worker[s].gen /\ worker'[s].cmd = "starting"
        /\ worker'[s].sigterm = worker[s].sigterm
        /\ worker'[s].sigkill = worker[s].sigkill
        /\ q # s => worker'[q] = worker[q]
    BY <1>0, <1>3 DEF RunAllWorker, RunOne, Run, WorkerTypeOK, WorkerObject
  <2> QED
    BY <2>1, <2>2 DEF Ages
<1>4. ASSUME NEW s \in Proc, Restart(s), Replace(s, pending),
             "restarted" \in RestartResults(s)
      PROVE  Ages(worker[q], worker'[q]) \/ Replaced(q)
  <2>1. CASE q # s
    BY <1>0, <1>4, <2>1, AgesSame DEF Replace, WorkerTypeOK
  <2>2. CASE q = s
    <3>1. /\ pc = "loop" /\ handling = {q} /\ worker[q].drained
          /\ Terminated(worker[q])
      BY <1>4, <2>2 DEF Restart, Drained, EndInv, HandledOnce
    <3>2. /\ worker'[q].gen = worker[q].gen + 1 /\ worker'[q].cmd = "starting"
          /\ worker'[q].sigterm = FALSE /\ worker'[q].sigkill = FALSE
      BY <1>0, <1>4, <2>2 DEF Replace, Run, NewWorker, WorkerTypeOK
    <3>3. q \notin Proxies => worker[q].gen < MaxRestarts[PoolOf[q]]
      <4>1. worker[q].gen \in Nat /\ MaxRestarts[PoolOf[q]] \in Nat
        BY <1>0, PoolAssumption DEF WorkerTypeOK, WorkerObject
      <4> QED
        BY <1>4, <2>2, <4>1 DEF RestartResults, Restarts
    <3> QED
      BY <3>1, <3>2, <3>3 DEF Replaced
  <2> QED
    BY <2>1, <2>2
<1>5. ASSUME NEW s \in Proc, ReceiveNeedsTermination(s)
      PROVE  Ages(worker[q], worker'[q])
  <2>1. CASE q = s /\ Running(worker[s])
    BY <1>0, <1>5, <2>1 DEF ReceiveNeedsTermination, ForceTerminateWorker, Ages,
                            Running, WorkerTypeOK, WorkerObject
  <2>2. CASE q # s \/ ~Running(worker[s])
    BY <1>0, <1>5, <2>2, AgesSame DEF ReceiveNeedsTermination, ForceTerminateWorker,
                                      WorkerTypeOK
  <2> QED
    BY <2>1, <2>2
<1> QED
  BY <1>0, <1>1, <1>2, <1>3, <1>4, <1>5, WorkerSteps, TerminateAges, EnvironmentAges
     DEF workerVars

LEMMA UnusedInvariant == Spec => []Unused
<1>1. Init => Unused
  BY DEF Init, Unused, NoWorker, NewWorker
<1>2. TypeOK /\ EndInv /\ Unused /\ [Next]_vars => Unused'
  <2> SUFFICES ASSUME TypeOK, EndInv, Unused, [Next]_vars, NEW q \in Proc,
                      worker'[q].cmd = "none"
               PROVE  /\ worker'[q].gen = 0
                      /\ ~worker'[q].sigterm /\ ~worker'[q].sigkill
    BY DEF Unused
  <2>1. Ages(worker[q], worker'[q])
    BY LifeCycleStep DEF Replaced
  <2>2. worker[q].cmd = "none"
    BY <2>1 DEF Ages
  <2> QED
    BY <2>1, <2>2 DEF Ages, Unused
<1> QED
  BY TypeCorrect, EndsHandledOnce, <1>1, <1>2, PTL DEF Spec

\* The life of the processes under one name (the workers map of WorkerPool): at
\* no time are there two of them.  A process is started once and ends once, is
\* sent signals only while it runs, and is replaced only by the main loop, when
\* its end is handled, its last log line is written and the budget is not used up.
THEOREM OneProcessAtATime == Spec => LifeCycle
<1>1. TypeOK /\ EndInv /\ Unused /\ [Next]_vars =>
        [\A q \in Proc : Ages(worker[q], worker'[q]) \/ Replaced(q)]_vars
  BY LifeCycleStep
<1> QED
  BY TypeCorrect, EndsHandledOnce, UnusedInvariant, <1>1, PTL DEF Spec, LifeCycle

Budget == \A q \in Proc \ Proxies : worker[q].gen <= MaxRestarts[PoolOf[q]]

\* The restart budget (max_restarts, RestartWorker) bounds how often a worker is
\* replaced, whatever ends it and whichever events are stale; a proxy has none.
THEOREM BudgetIsKept == Spec => []Budget
<1>1. Init => Budget
  <2> SUFFICES ASSUME Init, NEW q \in Proc \ Proxies
               PROVE  worker[q].gen <= MaxRestarts[PoolOf[q]]
    BY Zenon DEF Budget
  <2>1. worker[q].gen = 0
    BY DEF Init, NoWorker, NewWorker
  <2>2. MaxRestarts[PoolOf[q]] \in Nat
    BY PoolAssumption
  <2> QED
    BY <2>1, <2>2
<1>2. TypeOK /\ EndInv /\ Unused /\ Budget /\ [Next]_vars => Budget'
  <2> SUFFICES ASSUME TypeOK, EndInv, Unused, Budget, [Next]_vars,
                      NEW q \in Proc \ Proxies
               PROVE  worker'[q].gen <= MaxRestarts[PoolOf[q]]
    BY DEF Budget
  <2>1. worker[q].gen \in Nat /\ MaxRestarts[PoolOf[q]] \in Nat
    BY PoolAssumption DEF TypeOK, WorkerTypeOK, WorkerObject
  <2> QED
    BY <2>1, LifeCycleStep DEF Ages, Replaced, Budget
<1> QED
  BY TypeCorrect, EndsHandledOnce, UnusedInvariant, <1>1, <1>2, PTL DEF Spec

-------------------------------------------------------------------------------
\* Where a SIGKILL without SIGTERM comes from.

\* A worker object w with n senders of ProcessNeedsTermination in flight for it
\* and s of them for the objects it replaced: its own stem from a SIGTERM it was
\* sent, and there is nothing of another object before the first restart.
Traced(w, n, s) ==
  /\ w.timers > 0 \/ n > 0 => w.sigterm
  /\ s > 0 => w.gen > 0
  /\ w.sigkill => w.sigterm \/ w.gen > 0

TracedAt(q) ==
  Traced(worker[q], pending[q][ProcessNeedsTermination],
         stale[q][ProcessNeedsTermination])

TracedInv == \A q \in Proc : TracedAt(q)

\* No step of one of the other events sends or takes a ProcessNeedsTermination.
SameKillers ==
  \A r \in Proc :
    /\ pending'[r][ProcessNeedsTermination] = pending[r][ProcessNeedsTermination]
    /\ stale'[r][ProcessNeedsTermination] = stale[r][ProcessNeedsTermination]

LEMMA TracedTerminate ==
  ASSUME WorkerTypeOK, TracedInv, NEW s \in Proc, NEW ch, Terminate(s, ch),
         SameKillers
  PROVE  TracedInv'
<1> SUFFICES ASSUME NEW q \in Proc PROVE TracedAt(q)'
  BY DEF TracedInv
<1>0. TracedAt(q) /\ TracedAt(s)
  BY DEF TracedInv
<1>1. CASE q # s \/ Terminated(worker[s]) \/ ~Running(worker[s])
  <2>1. /\ worker'[q].gen = worker[q].gen /\ worker'[q].timers = worker[q].timers
        /\ worker'[q].sigterm = worker[q].sigterm
        /\ worker'[q].sigkill = worker[q].sigkill
    BY <1>1 DEF Terminate, WorkerTypeOK, WorkerObject
  <2> QED
    BY <1>0, <2>1 DEF TracedAt, Traced, SameKillers
<1>2. CASE q = s /\ ~Terminated(worker[s]) /\ Running(worker[s])
  <2>1. worker'[q].sigterm = TRUE /\ worker'[q].gen = worker[q].gen
    BY <1>2 DEF Terminate, WorkerTypeOK, WorkerObject
  <2> QED
    BY <1>0, <2>1 DEF TracedAt, Traced, SameKillers
<1> QED
  BY <1>1, <1>2

LEMMA TracedEnvironment ==
  ASSUME WorkerTypeOK, TracedInv, NEW s \in Proc, Environment(s)
  PROVE  TracedInv'
<1> USE EventTypes
<1> SUFFICES ASSUME NEW q \in Proc PROVE TracedAt(q)'
  BY DEF TracedInv
<1>0. TracedAt(q)
  BY DEF TracedInv
<1>1. CASE q = s /\ SignalTimeout(q)
  <2>1. /\ worker'[q].gen = worker[q].gen /\ worker[q].timers > 0
        /\ worker'[q].sigterm = worker[q].sigterm
        /\ worker'[q].sigkill = worker[q].sigkill
        /\ stale' = stale
    BY <1>1 DEF SignalTimeout, WorkerTypeOK, WorkerObject
  <2> QED
    BY <1>0, <2>1 DEF TracedAt, Traced
<1>2. CASE ~(q = s /\ SignalTimeout(q))
  <2>1. /\ worker'[q].gen = worker[q].gen /\ worker'[q].timers = worker[q].timers
        /\ worker'[q].sigterm = worker[q].sigterm
        /\ worker'[q].sigkill = worker[q].sigkill
    BY <1>2 DEF Environment, OSStart, OSStartFail, OSExit, StreamLogsDone,
                SignalTimeout, LimiterFire, OrphanLimiterFire, WorkerTypeOK,
                WorkerObject
  <2>2. /\ pending'[q][ProcessNeedsTermination] = pending[q][ProcessNeedsTermination]
        /\ stale'[q][ProcessNeedsTermination] = stale[q][ProcessNeedsTermination]
    BY <1>2 DEF Environment, OSStart, OSStartFail, OSExit, StreamLogsDone,
                SignalTimeout, LimiterFire, OrphanLimiterFire, WorkerTypeOK, Senders,
                Send, ProcessEnd, ProcessExceededLimit, ProcessNeedsTermination,
                EventType
  <2> QED
    BY <1>0, <2>1, <2>2 DEF TracedAt, Traced
<1> QED
  BY <1>1, <1>2

\* ProcessNeedsTermination was sent for the registered object, which was sent
\* SIGTERM, or for one that it replaced.
LEMMA TracedReceive ==
  ASSUME WorkerTypeOK, TracedInv, NEW s \in Proc, ReceiveNeedsTermination(s)
  PROVE  TracedInv' /\ (worker[s].sigterm \/ worker[s].gen > 0)
<1> USE EventTypes
<1>1. PICK c \in Receive(s, ProcessNeedsTermination) : pending' = c[1] /\ stale' = c[2]
  BY DEF ReceiveNeedsTermination
<1>2. \/ pending[s][ProcessNeedsTermination] > 0
      \/ stale[s][ProcessNeedsTermination] > 0
  BY <1>1 DEF Receive
<1>3. worker[s].sigterm \/ worker[s].gen > 0
  BY <1>2 DEF TracedInv, TracedAt, Traced
<1>4. ASSUME NEW q \in Proc
      PROVE  TracedAt(q)'
  <2>0. TracedAt(q)
    BY DEF TracedInv
  <2>1. /\ pending'[q][ProcessNeedsTermination] <= pending[q][ProcessNeedsTermination]
        /\ stale'[q][ProcessNeedsTermination] <= stale[q][ProcessNeedsTermination]
        /\ pending[q][ProcessNeedsTermination] \in Nat
        /\ stale[q][ProcessNeedsTermination] \in Nat
        /\ pending'[q][ProcessNeedsTermination] \in Int
        /\ stale'[q][ProcessNeedsTermination] \in Int
    <3>1. c = <<Take(pending, s, ProcessNeedsTermination), stale>> \/
          c = <<pending, Take(stale, s, ProcessNeedsTermination)>>
      BY <1>1 DEF Receive
    <3>2. CASE c = <<Take(pending, s, ProcessNeedsTermination), stale>>
      BY <1>1, <3>2 DEF Take, WorkerTypeOK, Senders
    <3>3. CASE c = <<pending, Take(stale, s, ProcessNeedsTermination)>>
      BY <1>1, <3>3 DEF Take, WorkerTypeOK, Senders
    <3> QED
      BY <3>1, <3>2, <3>3
  <2>2. /\ worker'[q].gen = worker[q].gen /\ worker'[q].timers = worker[q].timers
        /\ worker'[q].sigterm = worker[q].sigterm
        /\ q # s => worker'[q].sigkill = worker[q].sigkill
    BY DEF ReceiveNeedsTermination, ForceTerminateWorker, WorkerTypeOK, WorkerObject
  <2> QED
    BY <1>3, <2>0, <2>1, <2>2 DEF TracedAt, Traced
<1> QED
  BY <1>3, <1>4 DEF TracedInv

LEMMA TracedStep ==
  ASSUME TypeOK, EndInv, Unused, TracedInv, [Next]_vars
  PROVE  TracedInv'
<1> USE EventTypes
<1>0. WorkerTypeOK
  BY DEF TypeOK
<1>1. CASE UNCHANGED workerVars
  BY <1>1 DEF workerVars, TracedInv, TracedAt
<1>2. CASE CreateAndPreparePools
  <2> SUFFICES ASSUME NEW q \in Proc PROVE TracedAt(q)'
    BY DEF TracedInv
  <2>1. worker[q].gen = 0 /\ ~worker[q].sigterm
    BY <1>2 DEF CreateAndPreparePools, EndInv, RunOnce, Unused
  <2>2. /\ pending[q][ProcessNeedsTermination] \in Nat
        /\ stale[q][ProcessNeedsTermination] \in Nat
        /\ pending' = pending /\ stale' = stale
    BY <1>0, <1>2 DEF WorkerTypeOK, Senders, CreateAndPreparePools
  <2>3. /\ pending'[q][ProcessNeedsTermination] = 0
        /\ stale'[q][ProcessNeedsTermination] = 0
    BY <2>1, <2>2 DEF TracedInv, TracedAt, Traced
  <2>4. worker'[q].timers = 0 /\ worker'[q].sigkill = FALSE
    BY <1>2 DEF CreateAndPreparePools, PrepareWorkers, NewWorker
  <2> QED
    BY <2>3, <2>4 DEF TracedAt, Traced
<1>3. ASSUME NEW s \in Proc, RunAllWorker(s)
      PROVE  TracedInv'
  <2> SUFFICES ASSUME NEW q \in Proc PROVE TracedAt(q)'
    BY DEF TracedInv
  <2>1. /\ worker'[q].gen = worker[q].gen /\ worker'[q].timers = worker[q].timers
        /\ worker'[q].sigterm = worker[q].sigterm
        /\ worker'[q].sigkill = worker[q].sigkill
        /\ pending' = pending /\ stale' = stale
    BY <1>0, <1>3 DEF RunAllWorker, RunOne, Run, WorkerTypeOK, WorkerObject
  <2> QED
    BY <2>1 DEF TracedInv, TracedAt, Traced
<1>4. ASSUME NEW s \in Proc, Replace(s, pending)
      PROVE  TracedInv'
  <2> SUFFICES ASSUME NEW q \in Proc PROVE TracedAt(q)'
    BY DEF TracedInv
  <2>1. CASE q # s
    <3>1. worker'[q] = worker[q] /\ pending'[q] = pending[q] /\ stale'[q] = stale[q]
      BY <1>0, <1>4, <2>1 DEF Replace, WorkerTypeOK, Senders
    <3> QED
      BY <3>1 DEF TracedInv, TracedAt
  <2>2. CASE q = s
    <3>1. worker[q].gen \in Nat
      BY <1>0 DEF WorkerTypeOK, WorkerObject
    <3>2. /\ worker'[q].gen = worker[q].gen + 1 /\ worker'[q].timers = 0
          /\ worker'[q].sigkill = FALSE
      BY <1>0, <1>4, <2>2 DEF Replace, Run, NewWorker, WorkerTypeOK
    <3>3. pending'[q][ProcessNeedsTermination] = 0
      BY <1>0, <1>4, <2>2 DEF Replace, NoSenders, WorkerTypeOK, Senders
    <3> QED
      BY <3>1, <3>2, <3>3 DEF TracedAt, Traced
  <2> QED
    BY <2>1, <2>2
<1>5. ASSUME NEW s \in Proc, Terminate(s, pending), UNCHANGED <<orphans, stale>>
      PROVE  TracedInv'
  <2>1. SameKillers
    BY <1>0, <1>5, TerminateFrame
       DEF SameKillers, WorkerTypeOK, ProcessNeedsTermination, ProcessNeedsInterrupt
  <2> QED
    BY <1>0, <1>5, <2>1, TracedTerminate
<1>6. ASSUME NEW s \in Proc, NEW t \in EventType \ {ProcessNeedsTermination},
             NEW c \in Receive(s, t), Terminate(s, c[1]), stale' = c[2]
      PROVE  TracedInv'
  <2>1. \A r \in Proc :
          /\ c[1][r][ProcessNeedsTermination] = pending[r][ProcessNeedsTermination]
          /\ c[2][r][ProcessNeedsTermination] = stale[r][ProcessNeedsTermination]
    BY <1>0, ReceiveFrame
  <2>2. c[1] \in Senders
    BY <1>0, ReceiveType
  <2>3. SameKillers
    BY <1>0, <1>6, <2>1, <2>2, TerminateFrame
       DEF SameKillers, ProcessNeedsTermination, ProcessNeedsInterrupt
  <2> QED
    BY <1>0, <1>6, <2>3, TracedTerminate
<1>7. ASSUME NEW s \in Proc, NEW t \in EventType \ {ProcessNeedsTermination},
             NEW c \in Receive(s, t), pending' = c[1], stale' = c[2], worker' = worker
      PROVE  TracedInv'
  <2>1. SameKillers
    BY <1>0, <1>7, ReceiveFrame DEF SameKillers
  <2> QED
    BY <1>7, <2>1 DEF SameKillers, TracedInv, TracedAt
<1>8. {ProcessEnd, ProcessExceededLimit, ProcessNeedsInterrupt}
        \subseteq EventType \ {ProcessNeedsTermination}
  BY DEF EventType, ProcessEnd, ProcessExceededLimit, ProcessNeedsInterrupt,
         ProcessNeedsTermination
<1> QED
  BY <1>0, <1>1, <1>2, <1>3, <1>4, <1>5, <1>6, <1>7, <1>8, WorkerSteps,
     TracedEnvironment, TracedReceive

\* A SIGKILL that no SIGTERM announced (handleProcessNeedsTermination) hits only
\* a process that replaced another, for which the event was meant; and Monoceros
\* kills its own process group only in place of such a process, while it has no
\* PID.  Unlike KilledAfterTerm this holds for all lifespans and budgets.
THEOREM StrayKillsHitReplacements == Spec => []StrayKill
<1> DEFINE SelfKill == pc = "killed" =>
             \E q \in Proc : worker[q].gen > 0 /\ ~HasPid(worker[q])
<1>1. Init => TracedInv /\ SelfKill
  <2> SUFFICES ASSUME Init PROVE TracedInv /\ SelfKill
    OBVIOUS
  <2>1. ASSUME NEW q \in Proc
        PROVE  TracedAt(q)
    <3>1. /\ worker[q].timers = 0 /\ worker[q].sigkill = FALSE
          /\ pending[q][ProcessNeedsTermination] = 0
          /\ stale[q][ProcessNeedsTermination] = 0
      BY EventTypes DEF Init, NoWorker, NewWorker, NoSenders
    <3> QED
      BY <3>1 DEF TracedAt, Traced
  <2>2. SelfKill
    BY DEF Init
  <2> QED
    BY <2>1, <2>2 DEF TracedInv
<1>2. TypeOK /\ EndInv /\ Unused /\ TracedInv /\ [Next]_vars => TracedInv'
  BY TracedStep
<1>3. ASSUME TypeOK, EscalationInv, TracedInv, SelfKill, [Next]_vars
      PROVE  SelfKill'
  <2>1. ASSUME NEW q \in Proc, ReceiveNeedsTermination(q)
        PROVE  SelfKill'
    <3>1. worker[q].sigterm \/ worker[q].gen > 0
      BY <1>3, <2>1, TracedReceive DEF TypeOK
    <3>2. worker[q].sigterm => HasPid(worker[q])
      BY <1>3 DEF EscalationInv, TermWhenRunning, HasPid
    <3>3. pc # "killed"
      BY <2>1 DEF ReceiveNeedsTermination, Receiving
    <3>4. CASE HasPid(worker[q])
      BY <2>1, <3>3, <3>4 DEF ReceiveNeedsTermination
    <3>5. CASE ~HasPid(worker[q])
      <4>1. worker' = worker
        BY <2>1, <3>5 DEF ReceiveNeedsTermination, ForceTerminateWorker, HasPid,
                          Running
      <4> QED
        BY <3>1, <3>2, <3>5, <4>1
    <3> QED
      BY <3>4, <3>5
  <2>2. CASE pc' = "killed" /\ ~\E q \in Proc : ReceiveNeedsTermination(q)
    <3>1. pc = "killed"
      BY <1>3, <2>2
         DEF Next, Sequential, ReceiveEvent, CreateAndPreparePools, CreateError,
             RunAllPool, RunAllWorker, RunAllDone, Restart, GiveUp, InterruptPool,
             InterruptAllWorker, InterruptAllDone, CheckCleanup, ReceiveCtxDone,
             ReceiveProcessEnd, ReceiveExceededLimit, ReceiveNeedsInterrupt,
             ProxyDrainReturns, Cancel, EnvironmentStep, Finished, vars, controlVars
    <3>2. UNCHANGED vars
      BY <1>3, <3>1
         DEF Next, Sequential, ReceiveEvent, CreateAndPreparePools, CreateError,
             RunAllPool, RunAllWorker, RunAllDone, Restart, GiveUp, InterruptPool,
             InterruptAllWorker, InterruptAllDone, CheckCleanup, ReceiveCtxDone,
             ReceiveProcessEnd, ReceiveExceededLimit, ReceiveNeedsInterrupt,
             ReceiveNeedsTermination, Receiving, Final,
             ProxyDrainReturns, Cancel, EnvironmentStep, Finished
    <3> QED
      BY <1>3, <3>2 DEF vars, workerVars, controlVars
  <2> QED
    BY <2>1, <2>2
<1>4. TracedInv /\ SelfKill => StrayKill
  BY DEF TracedInv, TracedAt, Traced, StrayKill
<1> QED
  BY TypeCorrect, EndsHandledOnce, UnusedInvariant, EscalationInvariant, <1>1, <1>2,
     <1>3, <1>4, PTL DEF Spec

\* Workers that are never restarted, lifespan or not, are killed only after
\* SIGTERM, and Monoceros never in their place: only RestartWorker leaves an
\* event behind whose object is gone.
THEOREM WithoutRestartsNoStrayKill ==
  Proxies = {} /\ (\A p \in Pools : MaxRestarts[p] = 0)
    => (Spec => [](KillOnlyAfterTerm /\ NoSelfKill))
<1> SUFFICES ASSUME Proxies = {}, \A p \in Pools : MaxRestarts[p] = 0
             PROVE  Spec => [](KillOnlyAfterTerm /\ NoSelfKill)
  OBVIOUS
<1>1. ASSUME TypeOK, Budget, StrayKill
      PROVE  KillOnlyAfterTerm /\ NoSelfKill
  <2>1. ASSUME NEW q \in Proc
        PROVE  ~(worker[q].gen > 0)
    <3>1. q \in Proc \ Proxies /\ PoolOf[q] \in Pools
      BY PoolAssumption
    <3>2. worker[q].gen <= MaxRestarts[PoolOf[q]] /\ MaxRestarts[PoolOf[q]] = 0
      BY <1>1, <3>1 DEF Budget
    <3>3. worker[q].gen \in Nat
      BY <1>1 DEF TypeOK, WorkerTypeOK, WorkerObject
    <3> QED
      BY <3>2, <3>3
  <2> QED
    BY <1>1, <2>1, Zenon DEF StrayKill, KillOnlyAfterTerm, NoSelfKill
<1> QED
  BY TypeCorrect, BudgetIsKept, StrayKillsHitReplacements, <1>1, PTL

-------------------------------------------------------------------------------
\* What the second loop waits for.

\* SIGKILL goes only to a process that runs.
KillWhenRunning ==
  \A q \in Proc : worker[q].sigkill => worker[q].cmd \in {"running", "exited"}

LEMMA KillWhenRunningInvariant == Spec => []KillWhenRunning
<1>1. Init => KillWhenRunning
  BY DEF Init, KillWhenRunning, NoWorker, NewWorker
<1>2. TypeOK /\ EndInv /\ Unused /\ KillWhenRunning /\ [Next]_vars
        => KillWhenRunning'
  <2> SUFFICES ASSUME TypeOK, EndInv, Unused, KillWhenRunning, [Next]_vars,
                      NEW q \in Proc, worker'[q].sigkill
               PROVE  worker'[q].cmd \in {"running", "exited"}
    BY DEF KillWhenRunning
  <2>1. Ages(worker[q], worker'[q])
    BY LifeCycleStep DEF Replaced
  <2> QED
    BY <2>1 DEF Ages, KillWhenRunning
<1> QED
  BY TypeCorrect, EndsHandledOnce, UnusedInvariant, <1>1, <1>2, PTL DEF Spec

\* Something is on its way for q: its end, an interrupt to be tried again, or the
\* signal, timer or event by which a process that runs is killed in the end.
Moving(q) ==
  \/ pending[q][ProcessEnd] > 0
  \/ pending[q][ProcessNeedsInterrupt] + stale[q][ProcessNeedsInterrupt] > 0
  \/ /\ Running(worker[q])
     /\ \/ worker[q].timers > 0
        \/ pending[q][ProcessNeedsTermination] > 0
        \/ worker[q].sigkill

\* In the second loop every worker has been dealt with or moves; and a supervisor
\* that waits there for an event waits for something that moves, or for a proxy
\* that has not ended (which may be in vain: ProxyRestartHang.cfg).
NeverStuck ==
  pc = "drain" =>
    /\ \A q \in Proc \ Proxies : GivenUp(q) \/ q \in handling \/ Moving(q)
    /\ handling = {} /\ terminatedProcesses # TotalProcesses =>
         \E q \in Proc : Moving(q) \/ (q \in Proxies /\ ~Terminated(worker[q]))

LEMMA TerminatedMoves ==
  ASSUME TypeOK, NEW q \in Proc, Terminated(worker[q])
  PROVE  GivenUp(q) \/ q \in handling \/ Moving(q)
<1>1. pending[q][ProcessEnd] \in Nat
  BY EventTypes DEF TypeOK, WorkerTypeOK, Senders
<1> QED
  BY <1>1 DEF GivenUp, Moving

LEMMA AskedMoves ==
  ASSUME TypeOK, EscalationInv, KillWhenRunning, NEW q \in Proc, AskedToEnd(q)
  PROVE  GivenUp(q) \/ q \in handling \/ Moving(q)
<1>1. CASE Terminated(worker[q])
  BY <1>1, TerminatedMoves
<1>2. CASE ~Terminated(worker[q]) /\ worker[q].sigterm
  <2>1. Running(worker[q])
    BY <1>2 DEF EscalationInv, TermWhenRunning, Terminated, Running
  <2> QED
    BY <1>2, <2>1 DEF EscalationInv, EscalationArmed, Moving
<1>3. CASE ~Terminated(worker[q]) /\ worker[q].sigkill
  BY <1>3 DEF KillWhenRunning, Terminated, Running, Moving
<1> QED
  BY <1>1, <1>2, <1>3 DEF AskedToEnd, Moving

\* The safety core of Terminates: the second loop of Supervisor.Run never waits
\* on its channel with every worker silent.  Whoever has not ended has its end,
\* an interrupt, a timer or a SIGKILL under way; proxies alone are excepted.
THEOREM SecondLoopIsNeverStuck == Spec => []NeverStuck
<1>1. ASSUME TypeOK, CountersExact, EscalationInv, KillWhenRunning,
             NoWorkerForgotten, pc = "drain"
      PROVE  NeverStuck
  <2>1. \A q \in Proc \ Proxies : GivenUp(q) \/ q \in handling \/ Moving(q)
    <3> SUFFICES ASSUME NEW q \in Proc \ Proxies
                 PROVE  GivenUp(q) \/ q \in handling \/ Moving(q)
      BY Zenon
    <3>1. AskedToEnd(q)
      BY <1>1 DEF NoWorkerForgotten
    <3> QED
      BY <1>1, <3>1, AskedMoves
  <2>2. ASSUME handling = {}, terminatedProcesses # TotalProcesses
        PROVE  \E q \in Proc : Moving(q) \/ (q \in Proxies /\ ~Terminated(worker[q]))
    <3>1. {q \in Proc : GivenUp(q)} # Proc
      BY <1>1, <2>2 DEF CountersExact, TotalProcesses
    <3>2. PICK q \in Proc : ~GivenUp(q)
      BY <3>1
    <3>3. CASE q \notin Proxies
      BY <2>1, <2>2, <3>2, <3>3
    <3>4. CASE q \in Proxies
      BY <1>1, <2>2, <3>2, <3>4, TerminatedMoves
    <3> QED
      BY <3>3, <3>4
  <2> QED
    BY <2>1, <2>2 DEF NeverStuck
<1>2. TypeOK /\ CountersExact /\ EscalationInv /\ KillWhenRunning
        /\ NoWorkerForgotten => NeverStuck
  BY <1>1 DEF NeverStuck
<1> QED
  BY TypeCorrect, CountersCorrect, EscalationInvariant, KillWhenRunningInvariant,
     NobodyForgotten, <1>2, PTL

===============================================================================
