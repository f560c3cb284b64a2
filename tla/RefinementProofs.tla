--------------------------- MODULE RefinementProofs ---------------------------
(***************************************************************************)
(* The supervisor implements ProcessGroup, for every set of processes and  *)
(* pools, every restart budget and every bound MaxGen.  The mapping is     *)
(* that of the instance Group in Supervisor: a process is gone once its    *)
(* last end has been handled.                                              *)
(***************************************************************************)
EXTENDS ShutdownProofs

\* What the refinement rests on; each conjunct is an invariant.
Facts ==
  TypeOK /\ EndInv /\ PoolsUp /\ ClosingInv /\ CountersExact /\ CleanShutdown

\* RunAll has started every process that it has not before it.
AllRun ==
  pc = "runAll" =>
    \A q \in Proc : Started(q) \/ q \in left \/ PoolOf[q] \in poolsLeft

-------------------------------------------------------------------------------
\* The mapping.

\* How a process looks from the state of its command and whether it ended for
\* good, in this state and in the next.
LEMMA View ==
  ASSUME NEW q \in Proc
  PROVE  /\ ~Started(q) => GroupProcess[q] = "absent"
         /\ worker[q].cmd \in {"starting", "running"} => GroupProcess[q] = "up"
         /\ GivenUp(q) => GroupProcess[q] = "gone"
         /\ Terminated(worker[q]) /\ ~GivenUp(q) => GroupProcess[q] = "down"
BY DEF GroupProcess, Started, GivenUp, Terminated

LEMMA ViewNext ==
  ASSUME NEW q \in Proc
  PROVE  /\ ~Started(q)' => GroupProcess'[q] = "absent"
         /\ worker'[q].cmd \in {"starting", "running"} => GroupProcess'[q] = "up"
         /\ GivenUp(q)' => GroupProcess'[q] = "gone"
         /\ Terminated(worker'[q]) /\ ~GivenUp(q)' => GroupProcess'[q] = "down"
BY DEF GroupProcess, Started, GivenUp, Terminated

LEMMA ViewDomain ==
  /\ GroupProcess = [q \in Proc |-> GroupProcess[q]]
  /\ GroupProcess' = [q \in Proc |-> GroupProcess'[q]]
BY DEF GroupProcess

\* A process whose command and final end do not change looks the same.
LEMMA SameView ==
  ASSUME NEW q \in Proc, worker'[q].cmd = worker[q].cmd, GivenUp(q)' <=> GivenUp(q)
  PROVE  GroupProcess'[q] = GroupProcess[q]
BY DEF GroupProcess

\* A step that changes the look of one process only.
LEMMA OneView ==
  ASSUME NEW q \in Proc, NEW from, NEW to,
         GroupProcess[q] = from, GroupProcess'[q] = to,
         \A r \in Proc \ {q} : GroupProcess'[r] = GroupProcess[r]
  PROVE  Group!Set(q, from, to)
BY ViewDomain DEF Group!Set

LEMMA AllView ==
  ASSUME \A r \in Proc : GroupProcess'[r] = GroupProcess[r]
  PROVE  GroupProcess' = GroupProcess
BY ViewDomain

-------------------------------------------------------------------------------
\* RunAll.

LEMMA AllRunStep ==
  ASSUME TypeOK, EndInv, PoolsUp, AllRun, [Next]_vars
  PROVE  AllRun'
<1>1. CASE CreateAndPreparePools
  BY <1>1, PoolAssumption DEF CreateAndPreparePools, AllRun
<1>2. ASSUME NEW p \in Pools, RunAllPool(p)
      PROVE  AllRun'
  <2>1. \A r \in Proc : Started(r)' <=> Started(r)
    BY <1>2 DEF RunAllPool, workerVars, Started
  <2> QED
    BY <1>2, <2>1 DEF RunAllPool, ProcsOf, AllRun
<1>3. ASSUME NEW q \in Proc, RunAllWorker(q)
      PROVE  AllRun'
  <2>1. /\ Started(q)'
        /\ \A r \in Proc \ {q} : Started(r)' <=> Started(r)
    BY <1>3 DEF RunAllWorker, RunOne, Run, TypeOK, WorkerTypeOK, WorkerObject,
                Started
  <2> QED
    BY <1>3, <2>1 DEF RunAllWorker, AllRun
<1>4. CASE pc' # "runAll"
  BY <1>4 DEF AllRun
<1>5. ASSUME pc = "runAll", ~\E q \in Proc : RunAllWorker(q),
             left' = left, poolsLeft' = poolsLeft
      PROVE  AllRun'
  BY <1>5, StartedFrame DEF AllRun
<1>6. CASE \/ CreateError \/ RunAllDone \/ InterruptAllDone \/ CheckCleanup
           \/ ReceiveCtxDone \/ ProxyDrainReturns
           \/ \E p \in Pools : InterruptPool(p)
           \/ \E q \in Proc : \/ Restart(q) \/ GiveUp(q) \/ InterruptAllWorker(q)
                              \/ ReceiveEvent(q)
  BY <1>4, <1>6 DEF CreateError, RunAllDone, InterruptAllDone, CheckCleanup,
                    ReceiveCtxDone, ProxyDrainReturns, InterruptPool, Restart,
                    GiveUp, InterruptAllWorker, ReceiveEvent, ReceiveProcessEnd,
                    ReceiveExceededLimit, ReceiveNeedsInterrupt,
                    ReceiveNeedsTermination, Receiving, controlVars
<1>7. CASE \/ Cancel \/ Finished \/ UNCHANGED vars
           \/ \E q \in Proc : EnvironmentStep(q)
  <2>1. pc' = pc /\ left' = left /\ poolsLeft' = poolsLeft
    BY <1>7 DEF Cancel, Finished, EnvironmentStep, vars, controlVars
  <2> QED
    BY <1>3, <1>4, <1>5, <2>1
<1> QED
  BY <1>1, <1>2, <1>3, <1>6, <1>7 DEF Next, Sequential

-------------------------------------------------------------------------------
\* Every step is a step of the group or leaves it as it is.

GroupStep == [Group!GroupNext]_(Group!groupVars)

\* A step that starts and ends nothing, gives nothing up, and leaves the phase.
LEMMA QuietStep ==
  ASSUME \A r \in Proc : worker'[r].cmd = worker[r].cmd,
         SameGivenUp, GroupPhase' = GroupPhase, ctxDone' = ctxDone
  PROVE  GroupStep
<1>1. \A r \in Proc : GroupProcess'[r] = GroupProcess[r]
  BY SameView DEF SameGivenUp
<1>2. GroupProcess' = GroupProcess
  BY <1>1, AllView
<1> QED
  BY <1>2 DEF GroupStep, Group!groupVars

\* Monoceros ends before its time.
LEMMA DieStep ==
  ASSUME \A r \in Proc : worker'[r].cmd = worker[r].cmd,
         SameGivenUp, GroupPhase \in {"starting", "up", "stopping"},
         GroupPhase' = "dead", ctxDone' = ctxDone
  PROVE  GroupStep
<1>1. \A r \in Proc : GroupProcess'[r] = GroupProcess[r]
  BY SameView DEF SameGivenUp
<1>2. GroupProcess' = GroupProcess
  BY <1>1, AllView
<1> QED
  BY <1>2 DEF GroupStep, Group!GroupNext, Group!Die

LEMMA StartupStep ==
  ASSUME Facts, AllRun, [Next]_vars,
         \/ CreateAndPreparePools \/ CreateError \/ RunAllDone
         \/ \E p \in Pools : RunAllPool(p)
         \/ \E q \in Proc : RunAllWorker(q)
  PROVE  GroupStep
<1> USE DEF Facts
<1>0. SameGivenUp
  <2>1. ~\E q \in Proc : GiveUp(q)
    BY DEF CreateAndPreparePools, CreateError, RunAllDone, RunAllPool, RunAllWorker,
           GiveUp
  <2> QED
    BY <2>1, GivenUpFrame
<1>1. CASE CreateAndPreparePools
  <2>1. \A r \in Proc : ~Started(r) /\ ~Started(r)'
    BY <1>1 DEF CreateAndPreparePools, PrepareWorkers, NewWorker, EndInv, RunOnce,
                Started
  <2>2. \A r \in Proc : GroupProcess'[r] = GroupProcess[r]
    BY <2>1, View, ViewNext
  <2>3. GroupPhase' = GroupPhase /\ ctxDone' = ctxDone
    BY <1>1 DEF CreateAndPreparePools, GroupPhase, Terminating
  <2> QED
    BY <2>2, <2>3, AllView DEF GroupStep, Group!groupVars
<1>2. CASE CreateError
  BY <1>0, <1>2, DieStep DEF CreateError, workerVars, GroupPhase, Terminating
<1>3. ASSUME NEW p \in Pools, RunAllPool(p)
      PROVE  GroupStep
  BY <1>0, <1>3, QuietStep DEF RunAllPool, workerVars, GroupPhase
<1>4. ASSUME NEW q \in Proc, RunAllWorker(q)
      PROVE  GroupStep
  <2>1. /\ ~Started(q) /\ worker'[q].cmd = "starting"
        /\ \A r \in Proc \ {q} : worker'[r] = worker[r]
    <3>1. ~Started(q)
      BY <1>4 DEF RunAllWorker, EndInv, RunOnce, Started
    <3>2. worker'[q].cmd = "starting"
      <4>1. worker \in [Proc -> WorkerObject]
        BY DEF TypeOK, WorkerTypeOK
      <4>2. worker' = [worker EXCEPT ![q] = Run(q, @)]
        BY <1>4 DEF RunAllWorker, RunOne
      <4>3. Run(q, worker[q]).cmd = "starting"
        BY <4>1 DEF Run, WorkerObject
      <4> QED
        BY <4>1, <4>2, <4>3
    <3>3. \A r \in Proc \ {q} : worker'[r] = worker[r]
      BY <1>4 DEF RunAllWorker, RunOne, TypeOK, WorkerTypeOK
    <3> QED
      BY <3>1, <3>2, <3>3
  <2>2. /\ GroupProcess[q] = "absent" /\ GroupProcess'[q] = "up"
        /\ \A r \in Proc \ {q} : GroupProcess'[r] = GroupProcess[r]
    BY <1>0, <2>1, View, ViewNext, SameView DEF SameGivenUp
  <2>3. GroupPhase = "starting" /\ GroupPhase' = GroupPhase /\ ctxDone' = ctxDone
    BY <1>4 DEF RunAllWorker, GroupPhase, Terminating
  <2>4. Group!Launch(q)
    BY <2>2, <2>3, OneView DEF Group!Launch
  <2> QED
    BY <2>4 DEF GroupStep, Group!GroupNext
<1>5. CASE RunAllDone
  <2>1. \A r \in Proc : worker'[r].cmd = worker[r].cmd
    BY <1>5 DEF RunAllDone, workerVars
  <2>2. \A r \in Proc : GroupProcess'[r] = GroupProcess[r]
    BY <1>0, <2>1, SameView DEF SameGivenUp
  <2>3. \A r \in Proc : GroupProcess[r] # "absent"
    <3>1. \A r \in Proc : Started(r)
      BY <1>5 DEF RunAllDone, AllRun
    <3> QED
      BY <3>1 DEF GroupProcess, Started
  <2>4. GroupPhase = "starting" /\ GroupPhase' = "up" /\ ctxDone' = ctxDone
    BY <1>5 DEF RunAllDone, GroupPhase, Terminating
  <2>5. Group!Launched
    BY <2>2, <2>3, <2>4, AllView DEF Group!Launched
  <2> QED
    BY <2>5 DEF GroupStep, Group!GroupNext
<1> QED
  BY <1>1, <1>2, <1>3, <1>4, <1>5

\* An end that is handled, in either loop.
LEMMA HandledStep ==
  ASSUME Facts, [Next]_vars, NEW q \in Proc, Restart(q) \/ GiveUp(q)
  PROVE  GroupStep
<1> USE DEF Facts
<1>1. Terminated(worker[q]) /\ ~GivenUp(q)
  BY DEF Restart, GiveUp, Drained, EndInv, HandledOnce, GivenUp
<1>2. GroupProcess[q] = "down"
  BY <1>1, View
<1>3. CASE Restart(q)
  <2>1. PoolOf[q] \in Pools
    BY PoolAssumption
  <2>2. Replace(q, pending)
    BY <1>3, <2>1 DEF Restart, RestartWorker, RestartResults, PrepareProxy, PoolsUp
  <2>3. /\ worker'[q].cmd = "starting"
        /\ \A r \in Proc \ {q} : worker'[r] = worker[r]
    BY <2>2 DEF Replace, Run, NewWorker, TypeOK, WorkerTypeOK
  <2>4. SameGivenUp
    <3>1. ~\E r \in Proc : GiveUp(r)
      <4>1. ASSUME NEW r \in Proc, GiveUp(r)
            PROVE  FALSE
        <5>1. /\ terminatedProcesses' = terminatedProcesses
              /\ terminatedProcesses' = terminatedProcesses + 1
          BY <1>3, <4>1 DEF Restart, GiveUp, countVars
        <5> QED
          BY <5>1 DEF TypeOK, ControlTypeOK
      <4> QED
        BY <4>1
    <3> QED
      BY <3>1, GivenUpFrame
  <2>5. /\ GroupProcess'[q] = "up"
        /\ \A r \in Proc \ {q} : GroupProcess'[r] = GroupProcess[r]
    BY <2>3, <2>4, ViewNext, SameView DEF SameGivenUp
  <2>6. GroupPhase = "up" /\ GroupPhase' = GroupPhase /\ ctxDone' = ctxDone
    BY <1>3 DEF Restart, GroupPhase, Terminating
  <2>7. Group!Respawn(q)
    BY <1>2, <2>5, <2>6, OneView DEF Group!Respawn
  <2> QED
    BY <2>7 DEF GroupStep, Group!GroupNext
<1>4. CASE GiveUp(q)
  <2>1. /\ GivenUp(q)'
        /\ \A r \in Proc \ {q} : GivenUp(r)' <=> GivenUp(r)
    BY <1>4, GiveUpAdds
  <2>2. \A r \in Proc : worker'[r].cmd = worker[r].cmd
    BY <1>4, InterruptSameEnds DEF TypeOK, SameEnds
  <2>3. /\ GroupProcess'[q] = "gone"
        /\ \A r \in Proc \ {q} : GroupProcess'[r] = GroupProcess[r]
    BY <2>1, <2>2, ViewNext, SameView
  <2>4. GroupPhase \in {"up", "stopping"} /\ GroupPhase' = GroupPhase
    BY <1>4 DEF GiveUp, GroupPhase, Terminating
  <2>5. ctxDone' \in {ctxDone, TRUE}
    <3>1. ctxDone => ctxDone'
      BY ControlFrame
    <3>2. ctxDone \in BOOLEAN /\ ctxDone' \in BOOLEAN
      BY <1>4 DEF GiveUp, TypeOK, ControlTypeOK
    <3> QED
      BY <3>1, <3>2
  <2>6. q \in Proxies \/ ctxDone'
    BY <1>4, GiveUpCloses
  <2>7. Group!Set(q, "down", "gone")
    BY <1>2, <2>3, OneView
  <2>8. Group!Lose(q)
    BY <2>4, <2>5, <2>6, <2>7 DEF Group!Lose
  <2> QED
    BY <2>8 DEF GroupStep, Group!GroupNext
<1> QED
  BY <1>3, <1>4

\* A process starts, ends, or a goroutine does something.
LEMMA EnvironmentGroupStep ==
  ASSUME Facts, [Next]_vars, NEW q \in Proc, EnvironmentStep(q)
  PROVE  GroupStep
<1> USE DEF Facts
<1>0. WorkerTypeOK /\ handling' = handling
  BY DEF TypeOK, EnvironmentStep, controlVars
<1>1. /\ GroupPhase \in {"starting", "up", "stopping"} /\ GroupPhase' = GroupPhase
      /\ ctxDone' = ctxDone
  <2>1. pc' = pc /\ ctxDone' = ctxDone /\ pc \notin Final /\ pc \in PC
    BY DEF EnvironmentStep, controlVars, TypeOK, ControlTypeOK
  <2> QED
    BY <2>1 DEF GroupPhase, PC, Final, Terminating
<1>2. SameGivenUp
  <2>1. ~\E r \in Proc : GiveUp(r)
    <3>1. terminatedProcesses' = terminatedProcesses
      BY DEF EnvironmentStep, countVars
    <3> QED
      BY <3>1 DEF GiveUp, TypeOK, ControlTypeOK
  <2> QED
    BY <2>1, GivenUpFrame
<1>3. CASE OSStart(q)
  <2>1. /\ worker[q].cmd = "starting" /\ worker'[q].cmd = "running"
        /\ \A r \in Proc \ {q} : worker'[r] = worker[r]
    BY <1>0, <1>3 DEF OSStart, WorkerTypeOK, WorkerObject
  <2>2. \A r \in Proc : GroupProcess'[r] = GroupProcess[r]
    BY <1>2, <2>1, View, ViewNext, SameView DEF SameGivenUp
  <2> QED
    BY <1>1, <2>2, AllView DEF GroupStep, Group!groupVars
<1>4. CASE OSStartFail(q) \/ OSExit(q)
  <2>1. /\ worker[q].cmd \in {"starting", "running"} /\ Terminated(worker'[q])
        /\ \A r \in Proc \ {q} : worker'[r] = worker[r]
    BY <1>0, <1>4 DEF OSStartFail, OSExit, Running, Terminated, WorkerTypeOK,
                      WorkerObject
  <2>2. ~GivenUp(q)'
    BY <1>2, <2>1 DEF SameGivenUp, GivenUp, Terminated
  <2>3. /\ GroupProcess[q] = "up" /\ GroupProcess'[q] = "down"
        /\ \A r \in Proc \ {q} : GroupProcess'[r] = GroupProcess[r]
    BY <1>2, <2>1, <2>2, View, ViewNext, SameView DEF SameGivenUp
  <2>4. Group!End(q)
    BY <1>1, <2>3, OneView DEF Group!End
  <2> QED
    BY <2>4 DEF GroupStep, Group!GroupNext
<1>5. CASE \/ StreamLogsDone(q) \/ SignalTimeout(q)
           \/ LimiterFire(q) \/ OrphanLimiterFire(q)
  BY <1>0, <1>1, <1>2, <1>5, EnvironmentFrame, QuietStep DEF SameEnds
<1> QED
  BY <1>3, <1>4, <1>5 DEF EnvironmentStep, Environment

\* An event is received: nothing changes for the group, unless it is the one that
\* makes Monoceros kill itself.
LEMMA ReceiveGroupStep ==
  ASSUME Facts, NoPanic', [Next]_vars, NEW q \in Proc, ReceiveEvent(q)
  PROVE  GroupStep
<1> USE DEF Facts
<1>0. WorkerTypeOK
  BY DEF TypeOK
<1>1. /\ pc \in {"loop", "drain"} /\ ctxDone' = ctxDone
      /\ pc' = pc \/ pc' = "killed"
  BY DEF ReceiveEvent, ReceiveProcessEnd, ReceiveExceededLimit,
         ReceiveNeedsInterrupt, ReceiveNeedsTermination, Receiving, controlVars,
         NoPanic
<1>2. SameGivenUp
  <2>1. ~\E r \in Proc : GiveUp(r)
    <3>1. terminatedProcesses' = terminatedProcesses
      BY DEF ReceiveEvent, ReceiveProcessEnd, ReceiveExceededLimit,
             ReceiveNeedsInterrupt, ReceiveNeedsTermination, countVars
    <3> QED
      BY <3>1 DEF GiveUp, TypeOK, ControlTypeOK
  <2> QED
    BY <2>1, GivenUpFrame
<1>3. \A r \in Proc : worker'[r].cmd = worker[r].cmd
  <2>1. CASE ReceiveProcessEnd(q)
    BY <2>1 DEF ReceiveProcessEnd
  <2> QED
    BY <1>0, <2>1, ReceiveSameEnds DEF ReceiveEvent, SameEnds
<1>4. CASE pc' = pc
  <2>1. GroupPhase' = GroupPhase
    BY <1>4 DEF GroupPhase
  <2> QED
    BY <1>1, <1>2, <1>3, <2>1, QuietStep
<1>5. CASE pc' = "killed"
  <2>1. GroupPhase \in {"starting", "up", "stopping"} /\ GroupPhase' = "dead"
    BY <1>1, <1>5 DEF GroupPhase, Terminating
  <2> QED
    BY <1>1, <1>2, <1>3, <2>1, DieStep
<1> QED
  BY <1>1, <1>4, <1>5

\* The steps into, through and out of the shutdown.
LEMMA ShutdownGroupStep ==
  ASSUME Facts, CleanShutdown', [Next]_vars,
         \/ ReceiveCtxDone \/ ProxyDrainReturns \/ InterruptAllDone
         \/ CheckCleanup \/ Cancel \/ Finished \/ UNCHANGED vars
         \/ \E p \in Pools : InterruptPool(p)
         \/ \E q \in Proc : InterruptAllWorker(q)
  PROVE  GroupStep
<1> USE DEF Facts
<1>0. WorkerTypeOK
  BY DEF TypeOK
<1>1. \A r \in Proc : worker'[r].cmd = worker[r].cmd
  <2>1. CASE \E q \in Proc : InterruptAllWorker(q)
    BY <1>0, <2>1, InterruptSameEnds DEF SameEnds
  <2> QED
    BY <2>1 DEF ReceiveCtxDone, ProxyDrainReturns, InterruptAllDone, CheckCleanup,
                Cancel, Finished, InterruptPool, vars, workerVars
<1>2. SameGivenUp
  <2>1. ~\E r \in Proc : GiveUp(r)
    <3>1. terminatedProcesses' = terminatedProcesses
      BY DEF ReceiveCtxDone, ProxyDrainReturns, InterruptAllDone, CheckCleanup,
             Cancel, Finished, InterruptPool, InterruptAllWorker, vars, countVars
    <3> QED
      BY <3>1 DEF GiveUp, TypeOK, ControlTypeOK
  <2> QED
    BY <2>1, GivenUpFrame
<1>3. GroupProcess' = GroupProcess
  BY <1>1, <1>2, SameView, AllView DEF SameGivenUp
<1>4. CASE \/ ProxyDrainReturns \/ Finished \/ UNCHANGED vars
           \/ \E p \in Pools : InterruptPool(p)
           \/ \E q \in Proc : InterruptAllWorker(q)
  <2>1. GroupPhase' = GroupPhase
    BY <1>4 DEF ProxyDrainReturns, Finished, vars, controlVars, InterruptPool,
                InterruptAllWorker, GroupPhase, Terminating
  <2>2. ctxDone' = ctxDone
    BY <1>4 DEF ProxyDrainReturns, Finished, vars, controlVars, InterruptPool,
                InterruptAllWorker
  <2> QED
    BY <1>1, <1>2, <2>1, <2>2, QuietStep
<1>5. CASE ReceiveCtxDone
  <2>1. GroupPhase = "up" /\ GroupPhase' = "stopping"
    BY <1>5 DEF ReceiveCtxDone, GroupPhase, Terminating
  <2>2. ctxDone /\ ctxDone' = ctxDone
    BY <1>5 DEF ReceiveCtxDone
  <2>3. Group!Stop
    BY <1>3, <2>1, <2>2 DEF Group!Stop
  <2> QED
    BY <2>3 DEF GroupStep, Group!GroupNext
<1>6. CASE Cancel
  <2>1. /\ GroupPhase \in {"starting", "up", "stopping"}
        /\ GroupPhase' = GroupPhase
    <3>1. pc' = pc /\ pc \notin Final /\ pc \in PC
      BY <1>6 DEF Cancel, TypeOK, ControlTypeOK
    <3> QED
      BY <3>1 DEF GroupPhase, PC, Final, Terminating
  <2>2. ctxDone' = TRUE
    BY <1>6 DEF Cancel
  <2>3. Group!Close
    BY <1>3, <2>1, <2>2 DEF Group!Close
  <2> QED
    BY <2>3 DEF GroupStep, Group!GroupNext
<1>7. CASE InterruptAllDone \/ CheckCleanup
  <2>1. /\ pc \in {"interruptAll", "drain"} /\ ctxDone' = ctxDone
        /\ \/ pc' = "drain" /\ InterruptAllDone
           \/ pc' = "returned" /\ terminatedProcesses = TotalProcesses
    BY <1>7 DEF InterruptAllDone, CheckCleanup, CleanShutdown
  <2>2. CASE pc' = "drain"
    <3>1. GroupPhase' = GroupPhase
      BY <2>1, <2>2 DEF GroupPhase, Terminating
    <3> QED
      BY <1>1, <1>2, <2>1, <3>1, QuietStep
  <2>3. CASE pc' = "returned" /\ terminatedProcesses = TotalProcesses
    <3>1. {q \in Proc : GivenUp(q)} = Proc
      BY <2>3, PoolAssumption, FS_Subset DEF CountersExact, TotalProcesses
    <3>2. \A q \in Proc : GroupProcess[q] = "gone"
      BY <3>1, View
    <3>3. GroupPhase = "stopping" /\ GroupPhase' = "done"
      BY <2>1, <2>3 DEF GroupPhase, Terminating
    <3>4. Group!Finish
      BY <1>3, <2>1, <3>2, <3>3 DEF Group!Finish
    <3> QED
      BY <3>4 DEF GroupStep, Group!GroupNext
  <2> QED
    BY <2>1, <2>2, <2>3
<1> QED
  BY <1>4, <1>5, <1>6, <1>7

\* The event loop with its goroutines, signals, timers and late events implements
\* the abstract group of ProcessGroup: every behaviour of it is one of the group.
THEOREM ImplementsGroup == Spec => Implements
<1>1. Init => Group!GroupInit
  <2> SUFFICES ASSUME Init PROVE Group!GroupInit
    OBVIOUS
  <2>1. GroupProcess = [q \in Proc |-> "absent"]
    <3>1. \A q \in Proc : ~Started(q)
      BY DEF Init, NoWorker, NewWorker, Started
    <3> QED
      BY <3>1, View, ViewDomain
  <2>2. GroupPhase = "starting"
    BY DEF Init, GroupPhase, Terminating
  <2>3. ctxDone = FALSE
    BY DEF Init
  <2> QED
    BY <2>1, <2>2, <2>3 DEF Group!GroupInit
<1>2. Init => AllRun /\ ClosingInv
  BY DEF Init, AllRun, ClosingInv, Terminating
<1>3. Facts /\ AllRun /\ [Next]_vars => AllRun'
  BY AllRunStep DEF Facts
<1>4. TypeOK /\ ClosingInv /\ [Next]_vars => ClosingInv'
  BY ClosingStep
<1>5. Facts /\ Facts' /\ AllRun /\ [Next]_vars
        => [Group!GroupNext]_(Group!groupVars)
  <2> SUFFICES ASSUME Facts, Facts', AllRun, [Next]_vars PROVE GroupStep
    BY DEF GroupStep
  <2>1. CleanShutdown' /\ NoPanic'
    BY DEF Facts, EndInv
  <2> QED
    BY <2>1, StartupStep, HandledStep, EnvironmentGroupStep, ReceiveGroupStep,
       ShutdownGroupStep DEF Next, Sequential
<1> QED
  BY TypeCorrect, EndsHandledOnce, PoolsStayUp, CountersCorrect, ShutdownIsClean,
     <1>1, <1>2, <1>3, <1>4, <1>5, PTL
     DEF Spec, Facts, Implements, Group!GroupSpec

===============================================================================
