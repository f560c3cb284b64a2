--------------------------- MODULE SupervisorProofs ---------------------------
(***************************************************************************)
(* Theorems about the supervisor for every set of processes and pools,     *)
(* every restart budget and every bound MaxGen.                            *)
(***************************************************************************)
EXTENDS Supervisor, FiniteSetTheorems, TLAPS

-------------------------------------------------------------------------------
\* What the operators of Worker and WorkerPool return.

\* A send leaves a well-formed channel.
LEMMA SendType ==
  ASSUME NEW ch \in Senders, NEW q \in Proc, NEW t \in EventType
  PROVE  Send(ch, q, t) \in Senders
BY DEF Send, Senders

\* So does a receive, if someone is sending.
LEMMA TakeType ==
  ASSUME NEW ch \in Senders, NEW q \in Proc, NEW t \in EventType, ch[q][t] > 0
  PROVE  Take(ch, q, t) \in Senders
<1>1. ch[q][t] - 1 \in Nat
  BY DEF Senders
<1>2. [ch[q] EXCEPT ![t] = @ - 1] \in [EventType -> Nat]
  BY <1>1 DEF Senders
<1> QED
  BY <1>2 DEF Take, Senders

\* What a receive of type t leaves: one sender less, of either kind.
LEMMA ReceiveType ==
  ASSUME WorkerTypeOK, NEW q \in Proc, NEW t \in EventType,
         NEW c \in Receive(q, t)
  PROVE  c[1] \in Senders /\ c[2] \in Senders
<1>1. CASE pending[q][t] > 0 /\ c = <<Take(pending, q, t), stale>>
  BY <1>1, TakeType DEF WorkerTypeOK
<1>2. CASE stale[q][t] > 0 /\ c = <<pending, Take(stale, q, t)>>
  BY <1>2, TakeType DEF WorkerTypeOK
<1> QED
  BY <1>1, <1>2 DEF Receive

LEMMA TerminateType ==
  ASSUME WorkerTypeOK, NEW q \in Proc, NEW ch \in Senders, Terminate(q, ch)
  PROVE  worker' \in [Proc -> WorkerObject] /\ pending' \in Senders
<1> ProcessNeedsInterrupt \in EventType
  BY DEF EventType
<1>1. CASE Terminated(worker[q])
  BY <1>1 DEF Terminate, WorkerTypeOK
<1>2. CASE ~Terminated(worker[q]) /\ ~Running(worker[q])
  <2>1. [worker EXCEPT ![q].armed = FALSE] \in [Proc -> WorkerObject]
    BY DEF WorkerTypeOK, WorkerObject
  <2>2. Send(ch, q, ProcessNeedsInterrupt) \in Senders
    BY SendType
  <2> QED
    BY <1>2, <2>1, <2>2 DEF Terminate
<1>3. CASE ~Terminated(worker[q]) /\ Running(worker[q])
  BY <1>3 DEF Terminate, WorkerTypeOK, WorkerObject
<1> QED
  BY <1>1, <1>2, <1>3

LEMMA NewWorkerType ==
  ASSUME NEW g \in Nat, NEW b \in BOOLEAN
  PROVE  NewWorker(g, b) \in WorkerObject
BY DEF NewWorker, WorkerObject, CmdState

LEMMA RunType ==
  ASSUME NEW q \in Proc, NEW w \in WorkerObject
  PROVE  Run(q, w) \in WorkerObject
<1>1. ASSUME NEW b \in BOOLEAN
      PROVE  [w EXCEPT !.cmd = "starting", !.armed = b] \in WorkerObject
  BY DEF WorkerObject, CmdState
<1>2. (q \in Limited) \in BOOLEAN
  OBVIOUS
<1> QED
  BY <1>1, <1>2, Zenon DEF Run

LEMMA ReplaceType ==
  ASSUME WorkerTypeOK, NEW q \in Proc, Replace(q, pending)
  PROVE  WorkerTypeOK'
<1>1. Run(q, NewWorker(worker[q].gen + 1, TRUE)) \in WorkerObject
  <2>1. worker[q].gen + 1 \in Nat
    BY DEF WorkerTypeOK, WorkerObject
  <2> QED
    BY <2>1, NewWorkerType, RunType
<1>2. worker' \in [Proc -> WorkerObject]
  BY <1>1 DEF Replace, WorkerTypeOK
<1>3. orphans' \in [Proc -> Nat]
  BY DEF Replace, WorkerTypeOK
<1>4. pending' \in Senders
  BY DEF Replace, WorkerTypeOK, Senders, NoSenders
<1>5. stale' \in Senders
  <2>1. [t \in EventType |-> stale[q][t] + pending[q][t]] \in [EventType -> Nat]
    BY DEF WorkerTypeOK, Senders
  <2> QED
    BY <2>1 DEF Replace, WorkerTypeOK, Senders
<1> QED
  BY <1>2, <1>3, <1>4, <1>5 DEF WorkerTypeOK

LEMMA EventTypes ==
  /\ ProcessEnd \in EventType
  /\ ProcessNeedsTermination \in EventType
  /\ ProcessExceededLimit \in EventType
  /\ ProcessNeedsInterrupt \in EventType
BY DEF EventType

LEMMA EnvironmentType ==
  ASSUME WorkerTypeOK, NEW q \in Proc, Environment(q)
  PROVE  WorkerTypeOK'
<1> USE EventTypes
<1>1. CASE OSStart(q)
  BY <1>1 DEF OSStart, WorkerTypeOK, WorkerObject, CmdState
<1>2. CASE OSStartFail(q)
  <2>1. worker' \in [Proc -> WorkerObject]
    BY <1>2 DEF OSStartFail, WorkerTypeOK, WorkerObject, CmdState
  <2> QED
    BY <1>2, <2>1, SendType DEF OSStartFail, WorkerTypeOK
<1>3. CASE OSExit(q)
  <2>1. worker' \in [Proc -> WorkerObject]
    BY <1>3 DEF OSExit, WorkerTypeOK, WorkerObject, CmdState
  <2> QED
    BY <1>3, <2>1, SendType DEF OSExit, WorkerTypeOK
<1>4. CASE StreamLogsDone(q)
  BY <1>4 DEF StreamLogsDone, WorkerTypeOK, WorkerObject
<1>5. CASE SignalTimeout(q)
  <2>1. worker' \in [Proc -> WorkerObject]
    BY <1>5 DEF SignalTimeout, WorkerTypeOK, WorkerObject
  <2>2. pending' \in Senders
    BY <1>5, SendType DEF SignalTimeout, WorkerTypeOK
  <2> QED
    BY <1>5, <2>1, <2>2 DEF SignalTimeout, WorkerTypeOK
<1>6. CASE LimiterFire(q)
  <2>1. worker' \in [Proc -> WorkerObject]
    BY <1>6 DEF LimiterFire, WorkerTypeOK, WorkerObject
  <2> QED
    BY <1>6, <2>1, SendType DEF LimiterFire, WorkerTypeOK
<1>7. CASE OrphanLimiterFire(q)
  <2>1. orphans' \in [Proc -> Nat]
    BY <1>7 DEF OrphanLimiterFire, WorkerTypeOK
  <2> QED
    BY <1>7, <2>1, SendType DEF OrphanLimiterFire, WorkerTypeOK
<1> QED
  BY <1>1, <1>2, <1>3, <1>4, <1>5, <1>6, <1>7 DEF Environment

\* A pool with a proxy has exactly the one that ProxyOf names.
LEMMA ProxyOfPool ==
  ASSUME NEW p \in Pools, HasProxy(p)
  PROVE  /\ ProxyOf(p) \in Proxies
         /\ ProxyOf(p) \in Proc
         /\ PoolOf[ProxyOf(p)] = p
BY WorkerAssumption, PoolAssumption DEF HasProxy, ProxyOf, ProcsOf

\* The number of processes of a pool is a number.
LEMMA PoolTotalType ==
  ASSUME NEW p \in Pools
  PROVE  PoolTotal(p) \in Nat
<1>1. ProcsOf(p) \subseteq Proc
  BY DEF ProcsOf
<1> QED
  BY <1>1, PoolAssumption, FS_Subset, FS_CardinalityType DEF PoolTotal

-------------------------------------------------------------------------------
\* Type correctness.

LEMMA TypeOKInit == Init => TypeOK
<1> SUFFICES ASSUME Init PROVE TypeOK
  OBVIOUS
<1>1. NoWorker \in WorkerObject
  BY DEF NoWorker, NewWorker, WorkerObject, CmdState
<1>2. WorkerTypeOK
  BY <1>1 DEF Init, WorkerTypeOK, Senders, NoSenders
<1>3. PoolTypeOK
  BY DEF Init, PoolTypeOK, PoolState
<1>4. ControlTypeOK
  <2>1. ctxDone \in BOOLEAN
    BY DEF Init
  <2>2. pc \in PC
    BY DEF Init, PC
  <2>3. runningProcesses \in [Pools -> Int]
    BY DEF Init
  <2>4. terminatedProcesses \in Nat
    BY DEF Init
  <2> QED
    BY <2>1, <2>2, <2>3, <2>4 DEF Init, ControlTypeOK
<1> QED
  BY <1>2, <1>3, <1>4 DEF TypeOK

\* The variables of the processes and the channel keep their types.
LEMMA WorkerTypeStep ==
  ASSUME TypeOK, [Next]_vars
  PROVE  WorkerTypeOK'
<1> USE EventTypes
<1>0. WorkerTypeOK
  BY DEF TypeOK
<1>1. CASE UNCHANGED workerVars
  BY <1>0, <1>1 DEF workerVars, WorkerTypeOK
<1>2. CASE CreateAndPreparePools
  <2>1. \A q \in Proc : NewWorker(0, q \notin Proxies) \in WorkerObject
    BY NewWorkerType
  <2> QED
    BY <1>0, <1>2, <2>1 DEF CreateAndPreparePools, PrepareWorkers, WorkerTypeOK
<1>3. ASSUME NEW q \in Proc, RunAllWorker(q)
      PROVE  WorkerTypeOK'
  <2>1. Run(q, worker[q]) \in WorkerObject
    BY <1>0, RunType DEF WorkerTypeOK
  <2> QED
    BY <1>0, <1>3, <2>1 DEF RunAllWorker, RunOne, WorkerTypeOK
<1>4. ASSUME NEW q \in Proc, Restart(q)
      PROVE  WorkerTypeOK'
  BY <1>0, <1>1, <1>4, ReplaceType DEF Restart, RestartWorker
<1>5. ASSUME NEW q \in Proc, GiveUp(q)
      PROVE  WorkerTypeOK'
  <2>1. PoolOf[q] \in Pools
    BY PoolAssumption
  <2>2. worker' \in [Proc -> WorkerObject] /\ pending' \in Senders
    BY <1>0, <1>5, <2>1, TerminateType, ProxyOfPool
       DEF GiveUp, HandleTermination, InterruptWorker, WorkerTypeOK
  <2> QED
    BY <1>0, <1>5, <2>2 DEF GiveUp, WorkerTypeOK
<1>6. ASSUME NEW q \in Proc, InterruptAllWorker(q)
      PROVE  WorkerTypeOK'
  <2>1. worker' \in [Proc -> WorkerObject] /\ pending' \in Senders
    BY <1>0, <1>6, TerminateType DEF InterruptAllWorker, WorkerTypeOK
  <2> QED
    BY <1>0, <1>6, <2>1 DEF InterruptAllWorker, WorkerTypeOK
<1>7. ASSUME NEW q \in Proc, ReceiveProcessEnd(q)
      PROVE  WorkerTypeOK'
  BY <1>0, <1>7, ReceiveType DEF ReceiveProcessEnd, WorkerTypeOK
<1>8. ASSUME NEW q \in Proc, ReceiveExceededLimit(q)
      PROVE  WorkerTypeOK'
  <2>1. PICK c \in Receive(q, ProcessExceededLimit) :
          /\ stale' = c[2]
          /\ IF pc = "loop" THEN InterruptWorker(q, c[1])
                            ELSE worker' = worker /\ pending' = c[1]
    BY <1>8 DEF ReceiveExceededLimit
  <2>2. c[1] \in Senders /\ c[2] \in Senders
    BY <1>0, ReceiveType
  <2>3. worker' \in [Proc -> WorkerObject] /\ pending' \in Senders
    BY <1>0, <2>1, <2>2, TerminateType DEF InterruptWorker, WorkerTypeOK
  <2> QED
    BY <1>0, <1>8, <2>1, <2>2, <2>3 DEF ReceiveExceededLimit, WorkerTypeOK
<1>9. ASSUME NEW q \in Proc, ReceiveNeedsInterrupt(q)
      PROVE  WorkerTypeOK'
  <2>1. PICK c \in Receive(q, ProcessNeedsInterrupt) :
          stale' = c[2] /\ InterruptWorker(q, c[1])
    BY <1>9 DEF ReceiveNeedsInterrupt
  <2>2. c[1] \in Senders /\ c[2] \in Senders
    BY <1>0, ReceiveType
  <2>3. worker' \in [Proc -> WorkerObject] /\ pending' \in Senders
    BY <1>0, <2>1, <2>2, TerminateType DEF InterruptWorker
  <2> QED
    BY <1>0, <1>9, <2>1, <2>2, <2>3 DEF ReceiveNeedsInterrupt, WorkerTypeOK
<1>10. ASSUME NEW q \in Proc, ReceiveNeedsTermination(q)
       PROVE  WorkerTypeOK'
  <2>1. worker' \in [Proc -> WorkerObject]
    BY <1>0, <1>10
       DEF ReceiveNeedsTermination, ForceTerminateWorker, WorkerTypeOK, WorkerObject
  <2> QED
    BY <1>0, <1>10, <2>1, ReceiveType DEF ReceiveNeedsTermination, WorkerTypeOK
<1>11. ASSUME NEW q \in Proc, EnvironmentStep(q)
       PROVE  WorkerTypeOK'
  BY <1>0, <1>11, EnvironmentType DEF EnvironmentStep
<1>12. CASE \/ CreateError
            \/ \E p \in Pools : RunAllPool(p) \/ InterruptPool(p)
            \/ RunAllDone \/ InterruptAllDone \/ CheckCleanup
            \/ ReceiveCtxDone \/ ProxyDrainReturns \/ Cancel \/ Finished
            \/ UNCHANGED vars
  BY <1>1, <1>12
     DEF CreateError, RunAllPool, InterruptPool, RunAllDone, InterruptAllDone,
         CheckCleanup, ReceiveCtxDone, ProxyDrainReturns, Cancel, Finished, vars
<1> QED
  BY <1>2, <1>3, <1>4, <1>5, <1>6, <1>7, <1>8, <1>9, <1>10, <1>11, <1>12
     DEF Next, Sequential, ReceiveEvent

\* So do the pools' variables.
LEMMA PoolTypeStep ==
  ASSUME TypeOK, [Next]_vars
  PROVE  PoolTypeOK'
<1>0. PoolTypeOK
  BY DEF TypeOK
<1>1. CASE UNCHANGED poolVars
  BY <1>0, <1>1 DEF poolVars, PoolTypeOK
<1>2. CASE CreateAndPreparePools
  BY <1>0, <1>2 DEF CreateAndPreparePools, PoolTypeOK, PoolState
<1>3. ASSUME NEW q \in Proc, RunAllWorker(q)
      PROVE  PoolTypeOK'
  BY <1>0, <1>3, PoolAssumption DEF RunAllWorker, RunOne, PoolTypeOK, Add
<1>4. ASSUME NEW q \in Proc, GiveUp(q)
      PROVE  PoolTypeOK'
  BY <1>0, <1>4, PoolAssumption DEF GiveUp, PoolTypeOK, Add
<1>5. ASSUME NEW p \in Pools, InterruptPool(p)
      PROVE  PoolTypeOK'
  BY <1>0, <1>5 DEF InterruptPool, PoolTypeOK, PoolState
<1>6. CASE \/ CreateError \/ \E p \in Pools : RunAllPool(p)
           \/ RunAllDone \/ InterruptAllDone \/ CheckCleanup
           \/ \E q \in Proc : \/ Restart(q) \/ InterruptAllWorker(q)
                             \/ ReceiveEvent(q) \/ EnvironmentStep(q)
           \/ ReceiveCtxDone \/ ProxyDrainReturns \/ Cancel \/ Finished
           \/ UNCHANGED vars
  BY <1>1, <1>6
     DEF CreateError, RunAllPool, RunAllDone, InterruptAllDone, CheckCleanup,
         Restart, InterruptAllWorker, ReceiveEvent, ReceiveProcessEnd,
         ReceiveExceededLimit, ReceiveNeedsInterrupt, ReceiveNeedsTermination,
         EnvironmentStep, ReceiveCtxDone, ProxyDrainReturns, Cancel, Finished, vars
<1> QED
  BY <1>2, <1>3, <1>4, <1>5, <1>6 DEF Next, Sequential

\* And those of the supervisor's goroutine.
LEMMA ControlTypeStep ==
  ASSUME TypeOK, [Next]_vars
  PROVE  ControlTypeOK'
<1> USE DEF PC, Terminating, Final
<1>0. ControlTypeOK
  BY DEF TypeOK
<1>1. CASE CreateAndPreparePools \/ CreateError
  <2>1. runningProcesses' \in [Pools -> Int]
    BY <1>0, <1>1, PoolTotalType
       DEF CreateAndPreparePools, CreateError, ControlTypeOK, countVars
  <2> QED
    BY <1>0, <1>1, <2>1
       DEF CreateAndPreparePools, CreateError, ControlTypeOK, countVars
<1>2. CASE \/ RunAllDone \/ InterruptAllDone \/ CheckCleanup \/ ReceiveCtxDone
           \/ ProxyDrainReturns \/ Cancel \/ Finished \/ UNCHANGED vars
  BY <1>0, <1>2
     DEF RunAllDone, InterruptAllDone, CheckCleanup, ReceiveCtxDone, Cancel,
         ProxyDrainReturns, Finished, vars, controlVars, countVars, ControlTypeOK
<1>3. ASSUME NEW p \in Pools, RunAllPool(p) \/ InterruptPool(p)
      PROVE  ControlTypeOK'
  BY <1>0, <1>3 DEF RunAllPool, InterruptPool, ProcsOf, countVars, ControlTypeOK
<1>4. ASSUME NEW q \in Proc,
             RunAllWorker(q) \/ Restart(q) \/ InterruptAllWorker(q)
      PROVE  ControlTypeOK'
  BY <1>0, <1>4
     DEF RunAllWorker, Restart, Drained, InterruptAllWorker, countVars, ControlTypeOK
<1>5. ASSUME NEW q \in Proc, GiveUp(q)
      PROVE  ControlTypeOK'
  <2>1. runningProcesses' \in [Pools -> Int]
    BY <1>0, <1>5, PoolAssumption DEF GiveUp, HandleTermination, Add, ControlTypeOK
  <2>2. ctxDone' \in BOOLEAN
    BY <1>5 DEF GiveUp
  <2> QED
    BY <1>0, <1>5, <2>1, <2>2 DEF GiveUp, Drained, ControlTypeOK
<1>6. ASSUME NEW q \in Proc, ReceiveEvent(q) \/ EnvironmentStep(q)
      PROVE  ControlTypeOK'
  BY <1>0, <1>6
     DEF ReceiveEvent, ReceiveProcessEnd, ReceiveExceededLimit,
         ReceiveNeedsInterrupt, ReceiveNeedsTermination, EnvironmentStep,
         controlVars, countVars, ControlTypeOK
<1> QED
  BY <1>1, <1>2, <1>3, <1>4, <1>5, <1>6 DEF Next, Sequential

\* Every variable keeps its type, for all processes, pools and budgets: in
\* particular no count of blocked senders or timers ever goes below zero.
THEOREM TypeCorrect == Spec => []TypeOK
<1>1. TypeOK /\ [Next]_vars => TypeOK'
  BY WorkerTypeStep, PoolTypeStep, ControlTypeStep DEF TypeOK
<1> QED
  BY TypeOKInit, <1>1, PTL DEF Spec

-------------------------------------------------------------------------------
\* Which steps start or end a process, or announce or handle its end.

\* No process starts or ends and no ProcessEnd is sent or received.
SameEnds ==
  \A r \in Proc :
    /\ worker'[r].cmd = worker[r].cmd
    /\ pending'[r][ProcessEnd] = pending[r][ProcessEnd]
    /\ stale'[r][ProcessEnd] = stale[r][ProcessEnd]

\* Terminate starts and ends nothing, and sends nothing but ProcessNeedsInterrupt.
LEMMA TerminateFrame ==
  ASSUME WorkerTypeOK, NEW q \in Proc, NEW ch \in Senders, Terminate(q, ch)
  PROVE  /\ \A r \in Proc : worker'[r].cmd = worker[r].cmd
         /\ \A r \in Proc, t \in EventType \ {ProcessNeedsInterrupt} :
              pending'[r][t] = ch[r][t]
<1>1. CASE Terminated(worker[q])
  BY <1>1 DEF Terminate
<1>2. CASE ~Terminated(worker[q]) /\ ~Running(worker[q])
  <2>1. /\ worker' = [worker EXCEPT ![q].armed = FALSE]
        /\ pending' = Send(ch, q, ProcessNeedsInterrupt)
    BY <1>2 DEF Terminate
  <2>2. \A r \in Proc : worker'[r].cmd = worker[r].cmd
    BY <2>1 DEF WorkerTypeOK, WorkerObject
  <2>3. \A r \in Proc, t \in EventType \ {ProcessNeedsInterrupt} :
          pending'[r][t] = ch[r][t]
    BY <2>1 DEF Send, Senders
  <2> QED
    BY <2>2, <2>3
<1>3. CASE ~Terminated(worker[q]) /\ Running(worker[q])
  BY <1>3 DEF Terminate, WorkerTypeOK, WorkerObject
<1> QED
  BY <1>1, <1>2, <1>3

\* Receiving an event of type t leaves the senders of the other types alone.
LEMMA ReceiveFrame ==
  ASSUME WorkerTypeOK, NEW q \in Proc, NEW t \in EventType,
         NEW c \in Receive(q, t)
  PROVE  \A r \in Proc, u \in EventType \ {t} :
           c[1][r][u] = pending[r][u] /\ c[2][r][u] = stale[r][u]
<1>1. CASE c = <<Take(pending, q, t), stale>>
  BY <1>1 DEF Take, WorkerTypeOK, Senders
<1>2. CASE c = <<pending, Take(stale, q, t)>>
  BY <1>2 DEF Take, WorkerTypeOK, Senders
<1> QED
  BY <1>1, <1>2 DEF Receive

\* The steps of the goroutines other than starts and ends of processes.
LEMMA EnvironmentFrame ==
  ASSUME WorkerTypeOK, NEW q \in Proc,
         \/ StreamLogsDone(q) \/ SignalTimeout(q)
         \/ LimiterFire(q) \/ OrphanLimiterFire(q)
  PROVE  SameEnds
<1> USE DEF WorkerTypeOK, WorkerObject, Senders
<1>1. CASE StreamLogsDone(q)
  BY <1>1 DEF StreamLogsDone, SameEnds
<1>2. CASE SignalTimeout(q)
  BY <1>2 DEF SignalTimeout, SameEnds, Send, EventType, ProcessEnd,
              ProcessNeedsTermination
<1>3. CASE LimiterFire(q)
  BY <1>3 DEF LimiterFire, SameEnds, Send, EventType, ProcessEnd,
              ProcessExceededLimit
<1>4. CASE OrphanLimiterFire(q)
  BY <1>4 DEF OrphanLimiterFire, SameEnds, Send, EventType, ProcessEnd,
              ProcessExceededLimit
<1> QED
  BY <1>1, <1>2, <1>3, <1>4

\* The receives other than that of ProcessEnd.
LEMMA ReceiveSameEnds ==
  ASSUME WorkerTypeOK, NEW q \in Proc,
         \/ ReceiveExceededLimit(q) \/ ReceiveNeedsInterrupt(q)
         \/ ReceiveNeedsTermination(q)
  PROVE  SameEnds
<1> USE EventTypes
<1>1. /\ ProcessEnd # ProcessExceededLimit
      /\ ProcessEnd # ProcessNeedsInterrupt
      /\ ProcessEnd # ProcessNeedsTermination
  BY DEF ProcessEnd, ProcessExceededLimit, ProcessNeedsInterrupt,
         ProcessNeedsTermination
<1>2. CASE ReceiveExceededLimit(q)
  <2>1. PICK c \in Receive(q, ProcessExceededLimit) :
          /\ stale' = c[2]
          /\ \/ Terminate(q, c[1])
             \/ worker' = worker /\ pending' = c[1]
    BY <1>2 DEF ReceiveExceededLimit, InterruptWorker
  <2>2. c[1] \in Senders
    BY ReceiveType
  <2> QED
    BY <1>1, <2>1, <2>2, ReceiveFrame, TerminateFrame DEF SameEnds
<1>3. CASE ReceiveNeedsInterrupt(q)
  <2>1. PICK c \in Receive(q, ProcessNeedsInterrupt) :
          stale' = c[2] /\ Terminate(q, c[1])
    BY <1>3 DEF ReceiveNeedsInterrupt, InterruptWorker
  <2>2. c[1] \in Senders
    BY ReceiveType
  <2> QED
    BY <1>1, <2>1, <2>2, ReceiveFrame, TerminateFrame DEF SameEnds
<1>4. CASE ReceiveNeedsTermination(q)
  <2>1. PICK c \in Receive(q, ProcessNeedsTermination) :
          pending' = c[1] /\ stale' = c[2]
    BY <1>4 DEF ReceiveNeedsTermination
  <2>2. \A r \in Proc : worker'[r].cmd = worker[r].cmd
    BY <1>4 DEF ReceiveNeedsTermination, ForceTerminateWorker, WorkerTypeOK,
                WorkerObject
  <2> QED
    BY <1>1, <2>1, <2>2, ReceiveFrame DEF SameEnds
<1> QED
  BY <1>2, <1>3, <1>4

\* handleProcessTerminationDuringShutdown and InterruptAll.
LEMMA InterruptSameEnds ==
  ASSUME WorkerTypeOK, NEW q \in Proc, GiveUp(q) \/ InterruptAllWorker(q)
  PROVE  SameEnds
<1> USE EventTypes
<1>1. ProcessEnd # ProcessNeedsInterrupt
  BY DEF ProcessEnd, ProcessNeedsInterrupt
<1>2. CASE GiveUp(q)
  <2>1. PoolOf[q] \in Pools
    BY PoolAssumption
  <2>2. /\ stale' = stale
        /\ \/ worker' = worker /\ pending' = pending
           \/ HasProxy(PoolOf[q]) /\ Terminate(ProxyOf(PoolOf[q]), pending)
    BY <1>2 DEF GiveUp, HandleTermination, InterruptWorker
  <2> QED
    BY <1>1, <2>1, <2>2, ProxyOfPool, TerminateFrame DEF SameEnds, WorkerTypeOK
<1>3. CASE InterruptAllWorker(q)
  BY <1>1, <1>3, TerminateFrame DEF InterruptAllWorker, SameEnds, WorkerTypeOK
<1> QED
  BY <1>2, <1>3

-------------------------------------------------------------------------------
\* Every end is announced once and handled once.

LEMMA EndInvInit == Init => EndInv
BY EventTypes
   DEF Init, EndInv, EndOnce, HandledOnce, RunOnce, NoPanic, NoWorker, NewWorker,
       NoSenders, Terminated

\* A process starts or ends.
LEMMA EndInvOS ==
  ASSUME TypeOK, EndInv, NEW q \in Proc, EnvironmentStep(q),
         OSStart(q) \/ OSStartFail(q) \/ OSExit(q)
  PROVE  EndInv'
<1> USE EventTypes
<1>0. WorkerTypeOK
  BY DEF TypeOK
<1>1. ~Terminated(worker[q]) /\ worker[q].cmd \in {"starting", "running"}
  BY DEF OSStart, OSStartFail, OSExit, Terminated, Running
<1>2. \A r \in Proc \ {q} : /\ worker'[r] = worker[r]
                           /\ pending'[r] = pending[r]
  BY <1>0 DEF OSStart, OSStartFail, OSExit, Send, WorkerTypeOK, Senders
<1>3. UNCHANGED <<stale, pc, poolsLeft, left, handling>>
  BY DEF OSStart, OSStartFail, OSExit, EnvironmentStep, controlVars
<1>4. /\ worker'[q].cmd \in {"running", "exited", "startFailed"}
      /\ pending'[q][ProcessEnd] = IF Terminated(worker'[q]) THEN 1 ELSE 0
  <2>1. pending[q][ProcessEnd] = 0
    BY <1>1 DEF EndInv, EndOnce
  <2>2. CASE OSStart(q)
    BY <1>0, <2>1, <2>2 DEF OSStart, Terminated, WorkerTypeOK, WorkerObject
  <2>3. CASE OSStartFail(q)
    BY <1>0, <2>1, <2>3
       DEF OSStartFail, Terminated, Send, WorkerTypeOK, WorkerObject, Senders
  <2>4. CASE OSExit(q)
    BY <1>0, <2>1, <2>4
       DEF OSExit, Terminated, Send, WorkerTypeOK, WorkerObject, Senders
  <2> QED
    BY <2>2, <2>3, <2>4
<1>5. EndOnce'
  BY <1>2, <1>3, <1>4 DEF EndInv, EndOnce, Terminated
<1>6. HandledOnce'
  BY <1>1, <1>2, <1>3 DEF EndInv, HandledOnce, Terminated, TypeOK, ControlTypeOK
<1>7. RunOnce' /\ NoPanic'
  BY <1>1, <1>2, <1>3 DEF EndInv, RunOnce, NoPanic
<1> QED
  BY <1>5, <1>6, <1>7 DEF EndInv

\* A ProcessEnd is received: it is about the registered object, which has ended.
LEMMA EndInvReceive ==
  ASSUME TypeOK, EndInv, NEW q \in Proc, ReceiveProcessEnd(q)
  PROVE  EndInv'
<1> USE EventTypes
<1>0. WorkerTypeOK
  BY DEF TypeOK
<1>1. pending[q][ProcessEnd] > 0 /\ pending' = Take(pending, q, ProcessEnd)
      /\ stale' = stale
  BY DEF ReceiveProcessEnd, Receive, EndInv, EndOnce
<1>2. pending[q][ProcessEnd] = 1 /\ Terminated(worker[q])
  BY <1>1 DEF EndInv, EndOnce
<1>3. handling' = {q} /\ pc' = pc /\ pc \in {"loop", "drain"}
  BY <1>2 DEF ReceiveProcessEnd, Receiving
<1>4. /\ pending'[q][ProcessEnd] = 0
      /\ \A r \in Proc \ {q} : pending'[r] = pending[r]
  BY <1>0, <1>1, <1>2 DEF Take, WorkerTypeOK, Senders
<1>5. worker' = worker
  BY DEF ReceiveProcessEnd
<1>6. EndOnce'
  BY <1>1, <1>4, <1>5 DEF EndInv, EndOnce, Terminated
<1>7. HandledOnce'
  BY <1>2, <1>3, <1>4, <1>5 DEF HandledOnce, Terminated
<1>8. RunOnce' /\ NoPanic'
  BY <1>3 DEF RunOnce, NoPanic
<1> QED
  BY <1>6, <1>7, <1>8 DEF EndInv

\* A worker is replaced: nothing it left in flight is a ProcessEnd.
LEMMA EndInvRestart ==
  ASSUME TypeOK, EndInv, NEW q \in Proc, Restart(q)
  PROVE  EndInv'
<1> USE EventTypes
<1>0. WorkerTypeOK
  BY DEF TypeOK
<1>1. handling = {q} /\ handling' = {} /\ pc = "loop" /\ pc' = pc
  BY DEF Restart, Drained
<1>2. CASE UNCHANGED workerVars
  BY <1>1, <1>2
     DEF EndInv, EndOnce, HandledOnce, RunOnce, NoPanic, Terminated, workerVars
<1>3. CASE Replace(q, pending)
  <2>1. pending[q][ProcessEnd] = 0 /\ stale[q][ProcessEnd] = 0
    BY <1>1 DEF EndInv, EndOnce, HandledOnce
  <2>2. stale'[q][ProcessEnd] = 0
    BY <1>0, <1>3, <2>1 DEF Replace, WorkerTypeOK, Senders
  <2>3. pending'[q][ProcessEnd] = 0
    BY <1>0, <1>3 DEF Replace, NoSenders, WorkerTypeOK, Senders
  <2>4. \A r \in Proc \ {q} : /\ worker'[r] = worker[r]
                             /\ pending'[r] = pending[r]
                             /\ stale'[r] = stale[r]
    BY <1>0, <1>3 DEF Replace, WorkerTypeOK, Senders
  <2>5. EndOnce'
    BY <2>2, <2>3, <2>4 DEF EndInv, EndOnce, Terminated
  <2> QED
    BY <1>1, <2>5 DEF EndInv, HandledOnce, RunOnce, NoPanic
<1> QED
  BY <1>2, <1>3 DEF Restart, RestartWorker

\* createAndPreparePools and RunAll.
LEMMA EndInvStartup ==
  ASSUME TypeOK, EndInv,
         \/ CreateAndPreparePools
         \/ \E q \in Proc : RunAllWorker(q)
         \/ \E p \in Pools : RunAllPool(p)
  PROVE  EndInv'
<1> USE EventTypes
<1>0. WorkerTypeOK
  BY DEF TypeOK
<1>1. CASE CreateAndPreparePools
  <2>1. /\ \A q \in Proc : /\ worker'[q].cmd = "prepared"
                           /\ worker[q].cmd = "none"
        /\ handling = {} /\ left = {}
    BY <1>1 DEF CreateAndPreparePools, PrepareWorkers, NewWorker, EndInv,
                HandledOnce, RunOnce
  <2>2. UNCHANGED <<pending, stale, handling, left>> /\ pc' = "runAll"
    BY <1>1 DEF CreateAndPreparePools
  <2>3. EndOnce'
    BY <2>1, <2>2 DEF EndInv, EndOnce, Terminated
  <2> QED
    BY <2>1, <2>2, <2>3 DEF EndInv, HandledOnce, RunOnce, NoPanic
<1>2. ASSUME NEW q \in Proc, RunAllWorker(q)
      PROVE  EndInv'
  <2>1. worker[q].cmd = "prepared" /\ PoolOf[q] \notin poolsLeft /\ handling = {}
    BY <1>2 DEF RunAllWorker, EndInv, RunOnce, HandledOnce
  <2>2. /\ worker'[q].cmd = "starting"
        /\ \A r \in Proc \ {q} : worker'[r] = worker[r]
    BY <1>0, <1>2 DEF RunAllWorker, RunOne, Run, WorkerTypeOK, WorkerObject
  <2>3. UNCHANGED <<pending, stale, pc, handling, poolsLeft>>
        /\ left' = left \ {q}
    BY <1>2 DEF RunAllWorker, RunOne
  <2>4. EndOnce'
    BY <2>1, <2>2, <2>3 DEF EndInv, EndOnce, Terminated
  <2>5. HandledOnce' /\ NoPanic'
    BY <2>1, <2>3 DEF EndInv, HandledOnce, NoPanic
  <2>6. RunOnce'
    BY <1>2, <2>1, <2>2, <2>3 DEF EndInv, RunOnce, RunAllWorker
  <2> QED
    BY <2>4, <2>5, <2>6 DEF EndInv
<1>3. ASSUME NEW p \in Pools, RunAllPool(p)
      PROVE  EndInv'
  <2>1. UNCHANGED workerVars /\ UNCHANGED <<pc, handling>>
    BY <1>3 DEF RunAllPool
  <2>2. RunOnce'
    BY <1>3, <2>1 DEF RunAllPool, EndInv, RunOnce, ProcsOf, workerVars
  <2> QED
    BY <2>1, <2>2 DEF EndInv, EndOnce, HandledOnce, NoPanic, workerVars, Terminated
<1> QED
  BY <1>1, <1>2, <1>3

\* The other steps neither start nor end a process nor handle an end, except
\* that GiveUp finishes the handling of one.
LEMMA EndInvQuiet ==
  ASSUME TypeOK, EndInv, SameEnds, handling' \in {handling, {}},
         handling' # {} => pc' = pc,
         pc' # "panicked",
         pc' \in {"create", "runAll"} => UNCHANGED <<pc, left, poolsLeft>>,
         pc' = "failed" => pc \in {"create", "failed"} /\ left' = left
  PROVE  EndInv'
<1> USE EventTypes
<1>1. EndOnce'
  BY DEF EndInv, EndOnce, SameEnds, Terminated
<1>2. HandledOnce'
  BY DEF EndInv, HandledOnce, SameEnds, Terminated, TypeOK, ControlTypeOK
<1>3. RunOnce'
  BY DEF EndInv, RunOnce, SameEnds
<1>4. NoPanic'
  BY DEF NoPanic
<1> QED
  BY <1>1, <1>2, <1>3, <1>4 DEF EndInv

LEMMA EndInvStep ==
  ASSUME TypeOK, EndInv, [Next]_vars
  PROVE  EndInv'
<1>0. WorkerTypeOK
  BY DEF TypeOK
<1>1. ASSUME NEW q \in Proc, GiveUp(q)
      PROVE  EndInv'
  <2>1. SameEnds
    BY <1>0, <1>1, InterruptSameEnds
  <2>2. handling' = {} /\ pc' = pc /\ pc \in {"loop", "drain"}
    BY <1>1 DEF GiveUp, Drained
  <2> QED
    BY <2>1, <2>2, EndInvQuiet
<1>2. ASSUME NEW q \in Proc, InterruptAllWorker(q)
      PROVE  EndInv'
  <2>1. SameEnds
    BY <1>0, <1>2, InterruptSameEnds
  <2>2. UNCHANGED <<pc, handling>> /\ pc = "interruptAll"
    BY <1>2 DEF InterruptAllWorker
  <2> QED
    BY <2>1, <2>2, EndInvQuiet
<1>3. ASSUME NEW q \in Proc,
             \/ ReceiveExceededLimit(q) \/ ReceiveNeedsInterrupt(q)
             \/ ReceiveNeedsTermination(q)
      PROVE  EndInv'
  <2>1. SameEnds
    BY <1>0, <1>3, ReceiveSameEnds
  <2>2. /\ pc \in {"loop", "drain"} /\ pc' \in {pc, "killed"}
        /\ handling = {} /\ handling' = {}
    BY <1>3 DEF ReceiveExceededLimit, ReceiveNeedsInterrupt, ReceiveNeedsTermination,
                Receiving, controlVars
  <2> QED
    BY <2>1, <2>2, EndInvQuiet
<1>4. ASSUME NEW q \in Proc, EnvironmentStep(q)
      PROVE  EndInv'
  <2>1. CASE OSStart(q) \/ OSStartFail(q) \/ OSExit(q)
    BY <1>4, <2>1, EndInvOS
  <2>2. CASE \/ StreamLogsDone(q) \/ SignalTimeout(q)
             \/ LimiterFire(q) \/ OrphanLimiterFire(q)
    <3>1. SameEnds
      BY <1>0, <2>2, EnvironmentFrame
    <3>2. UNCHANGED controlVars
      BY <1>4 DEF EnvironmentStep
    <3>3. pc # "panicked"
      BY DEF EndInv, NoPanic
    <3> QED
      BY <3>1, <3>2, <3>3, EndInvQuiet DEF controlVars
  <2> QED
    BY <1>4, <2>1, <2>2 DEF EnvironmentStep, Environment
<1>5. CASE \/ CreateError \/ RunAllDone \/ InterruptAllDone \/ CheckCleanup
           \/ ReceiveCtxDone \/ ProxyDrainReturns \/ Cancel \/ Finished
           \/ \E p \in Pools : InterruptPool(p)
           \/ UNCHANGED vars
  <2>1. SameEnds
    BY <1>5 DEF CreateError, RunAllDone, InterruptAllDone, CheckCleanup,
                ReceiveCtxDone, ProxyDrainReturns, Cancel, Finished, InterruptPool,
                vars, workerVars, SameEnds
  <2>2. UNCHANGED handling /\ pc # "panicked"
    BY <1>5 DEF CreateError, RunAllDone, InterruptAllDone, CheckCleanup,
                ReceiveCtxDone, ProxyDrainReturns, Cancel, Finished, InterruptPool,
                vars, controlVars, EndInv, NoPanic
  <2>3. pc' # "panicked" /\ (handling' # {} => pc' = pc)
    BY <1>5, <2>2
       DEF CreateError, RunAllDone, InterruptAllDone, CheckCleanup,
           ReceiveCtxDone, ProxyDrainReturns, Cancel, Finished, InterruptPool,
           Receiving, vars, controlVars, EndInv, HandledOnce
  <2>4. /\ pc' \in {"create", "runAll"} => UNCHANGED <<pc, left, poolsLeft>>
        /\ pc' = "failed" => pc \in {"create", "failed"} /\ left' = left
    BY <1>5
       DEF CreateError, RunAllDone, InterruptAllDone, CheckCleanup,
           ReceiveCtxDone, ProxyDrainReturns, Cancel, Finished, InterruptPool,
           vars, controlVars
  <2> QED
    BY <2>1, <2>2, <2>3, <2>4, EndInvQuiet
<1> QED
  BY <1>1, <1>2, <1>3, <1>4, <1>5, EndInvStartup, EndInvReceive, EndInvRestart
     DEF Next, Sequential, ReceiveEvent

\* EndInv is an invariant.
THEOREM EndsHandledOnce == Spec => []EndInv
<1>1. TypeOK /\ EndInv /\ [Next]_vars => EndInv'
  BY EndInvStep
<1> QED
  BY EndInvInit, TypeCorrect, <1>1, PTL DEF Spec

\* handleProcessEnd never panics, however the events of replaced workers, of
\* limiters and of timeouts interleave with ends and restarts.
THEOREM NeverPanics == Spec => []NoPanic
<1>1. EndInv => NoPanic
  BY DEF EndInv
<1> QED
  BY EndsHandledOnce, <1>1, PTL

-------------------------------------------------------------------------------
\* The counters.

\* In the main loop no pool drains, so RestartWorker never skips a restart.
THEOREM PoolsStayUp == Spec => []PoolsUp
<1>1. Init => PoolsUp
  BY DEF Init, PoolsUp
<1>2. TypeOK /\ PoolsUp /\ [Next]_vars => PoolsUp'
  <2> SUFFICES ASSUME TypeOK, PoolsUp, [Next]_vars PROVE PoolsUp'
    OBVIOUS
  <2>1. CASE \/ CreateAndPreparePools \/ \E q \in Proc : RunAllWorker(q)
             \/ \E p \in Pools : InterruptPool(p)
             \/ \E q \in Proc : GiveUp(q)
    BY <2>1 DEF CreateAndPreparePools, RunAllWorker, RunOne, InterruptPool, GiveUp,
                PoolsUp
  <2>2. CASE /\ poolState' = poolState
             /\ pc' = pc \/ pc' \notin {"create", "runAll", "loop"}
    BY <2>2 DEF PoolsUp
  <2>3. CASE \/ CreateError \/ InterruptAllDone \/ CheckCleanup \/ ReceiveCtxDone
             \/ ProxyDrainReturns \/ Cancel \/ Finished \/ UNCHANGED vars
             \/ \E p \in Pools : RunAllPool(p)
             \/ \E q \in Proc : \/ Restart(q) \/ InterruptAllWorker(q)
                               \/ ReceiveEvent(q) \/ EnvironmentStep(q)
    BY <2>2, <2>3
       DEF CreateError, InterruptAllDone, CheckCleanup, ReceiveCtxDone,
           ProxyDrainReturns, Cancel, Finished, vars, poolVars, controlVars,
           RunAllPool, Restart, InterruptAllWorker, ReceiveEvent,
           ReceiveProcessEnd, ReceiveExceededLimit, ReceiveNeedsInterrupt,
           ReceiveNeedsTermination, EnvironmentStep
  <2>4. CASE RunAllDone
    BY <2>4 DEF RunAllDone, PoolsUp, poolVars
  <2> QED
    BY <2>1, <2>3, <2>4 DEF Next, Sequential
<1> QED
  BY TypeCorrect, <1>1, <1>2, PTL DEF Spec

\* No process becomes, or stops being, one that ended for good.
SameGivenUp == \A r \in Proc : GivenUp(r)' <=> GivenUp(r)

\* Only the handling of an end that is not followed by a restart counts.
LEMMA GivenUpFrame ==
  ASSUME TypeOK, EndInv, PoolsUp, [Next]_vars, ~\E q \in Proc : GiveUp(q)
  PROVE  SameGivenUp /\ terminatedProcesses' = terminatedProcesses
<1> USE EventTypes
<1>0. WorkerTypeOK
  BY DEF TypeOK
<1>1. ASSUME SameEnds, handling' = handling
      PROVE  SameGivenUp
  BY <1>1 DEF SameEnds, SameGivenUp, GivenUp, Terminated
<1>2. CASE CreateAndPreparePools
  <2>1. \A q \in Proc : ~Terminated(worker[q]) /\ ~Terminated(worker'[q])
    BY <1>2 DEF CreateAndPreparePools, PrepareWorkers, NewWorker, EndInv, RunOnce,
                Terminated
  <2> QED
    BY <1>2, <2>1 DEF CreateAndPreparePools, SameGivenUp, GivenUp
<1>3. ASSUME NEW q \in Proc, RunAllWorker(q)
      PROVE  SameGivenUp /\ terminatedProcesses' = terminatedProcesses
  <2>1. worker[q].cmd = "prepared"
    BY <1>3 DEF RunAllWorker, EndInv, RunOnce
  <2>2. /\ worker'[q].cmd = "starting"
        /\ \A r \in Proc \ {q} : worker'[r] = worker[r]
    BY <1>0, <1>3 DEF RunAllWorker, RunOne, Run, WorkerTypeOK, WorkerObject
  <2>3. UNCHANGED <<pending, handling, terminatedProcesses>>
    BY <1>3 DEF RunAllWorker, RunOne, countVars
  <2> QED
    BY <2>1, <2>2, <2>3 DEF SameGivenUp, GivenUp, Terminated
<1>4. ASSUME NEW q \in Proc, Restart(q)
      PROVE  SameGivenUp /\ terminatedProcesses' = terminatedProcesses
  <2>1. PoolOf[q] \in Pools
    BY PoolAssumption
  <2>2. Replace(q, pending)
    BY <1>4, <2>1 DEF Restart, RestartWorker, RestartResults, PrepareProxy, PoolsUp
  <2>3. /\ ~Terminated(worker'[q])
        /\ \A r \in Proc \ {q} : worker'[r] = worker[r] /\ pending'[r] = pending[r]
    BY <1>0, <2>2
       DEF Replace, Run, NewWorker, Terminated, WorkerTypeOK, Senders
  <2>4. /\ handling = {q} /\ handling' = {}
        /\ terminatedProcesses' = terminatedProcesses
    BY <1>4 DEF Restart, Drained, countVars
  <2> QED
    BY <2>3, <2>4 DEF SameGivenUp, GivenUp, Terminated
<1>5. ASSUME NEW q \in Proc, ReceiveProcessEnd(q)
      PROVE  SameGivenUp /\ terminatedProcesses' = terminatedProcesses
  <2>1. pending[q][ProcessEnd] > 0 /\ pending' = Take(pending, q, ProcessEnd)
    BY <1>5 DEF ReceiveProcessEnd, Receive, EndInv, EndOnce
  <2>2. Terminated(worker[q])
    BY <2>1 DEF EndInv, EndOnce
  <2>3. /\ handling = {} /\ handling' = {q} /\ worker' = worker
        /\ terminatedProcesses' = terminatedProcesses
    BY <1>5, <2>2 DEF ReceiveProcessEnd, Receiving, countVars
  <2>4. \A r \in Proc \ {q} : pending'[r] = pending[r]
    BY <1>0, <2>1 DEF Take, WorkerTypeOK, Senders
  <2> QED
    BY <2>1, <2>3, <2>4 DEF SameGivenUp, GivenUp, Terminated
<1>6. ASSUME NEW q \in Proc, EnvironmentStep(q)
      PROVE  SameGivenUp /\ terminatedProcesses' = terminatedProcesses
  <2>1. UNCHANGED <<handling, terminatedProcesses>>
    BY <1>6 DEF EnvironmentStep, controlVars, countVars
  <2>2. CASE OSStart(q) \/ OSStartFail(q) \/ OSExit(q)
    <3>1. ~Terminated(worker[q])
      BY <2>2 DEF OSStart, OSStartFail, OSExit, Terminated, Running
    <3>2. Terminated(worker'[q]) => pending'[q][ProcessEnd] # 0
      <4>1. pending[q][ProcessEnd] = 0
        BY <3>1 DEF EndInv, EndOnce
      <4> QED
        BY <1>0, <2>2, <4>1
           DEF OSStart, OSStartFail, OSExit, Terminated, Send, WorkerTypeOK,
               WorkerObject, Senders
    <3>3. \A r \in Proc \ {q} : worker'[r] = worker[r] /\ pending'[r] = pending[r]
      BY <1>0, <2>2 DEF OSStart, OSStartFail, OSExit, Send, WorkerTypeOK, Senders
    <3> QED
      BY <2>1, <3>1, <3>2, <3>3 DEF SameGivenUp, GivenUp, Terminated
  <2>3. CASE \/ StreamLogsDone(q) \/ SignalTimeout(q)
             \/ LimiterFire(q) \/ OrphanLimiterFire(q)
    BY <1>0, <1>1, <2>1, <2>3, EnvironmentFrame
  <2> QED
    BY <1>6, <2>1, <2>2, <2>3 DEF EnvironmentStep, Environment
<1>7. ASSUME NEW q \in Proc,
             \/ ReceiveExceededLimit(q) \/ ReceiveNeedsInterrupt(q)
             \/ ReceiveNeedsTermination(q) \/ InterruptAllWorker(q)
      PROVE  SameGivenUp /\ terminatedProcesses' = terminatedProcesses
  <2>1. UNCHANGED <<handling, terminatedProcesses>>
    BY <1>7 DEF ReceiveExceededLimit, ReceiveNeedsInterrupt, ReceiveNeedsTermination,
                InterruptAllWorker, controlVars, countVars
  <2> QED
    BY <1>0, <1>1, <1>7, <2>1, ReceiveSameEnds, InterruptSameEnds
<1>8. CASE \/ CreateError \/ RunAllDone \/ InterruptAllDone \/ CheckCleanup
           \/ ReceiveCtxDone \/ ProxyDrainReturns \/ Cancel \/ Finished
           \/ \E p \in Pools : InterruptPool(p) \/ RunAllPool(p)
           \/ UNCHANGED vars
  <2>1. UNCHANGED <<workerVars, handling, terminatedProcesses>>
    BY <1>8 DEF CreateError, RunAllDone, InterruptAllDone, CheckCleanup,
                ReceiveCtxDone, ProxyDrainReturns, Cancel, Finished, InterruptPool,
                RunAllPool, vars, controlVars, countVars
  <2> QED
    BY <1>1, <2>1 DEF workerVars, SameEnds
<1> QED
  BY <1>2, <1>3, <1>4, <1>5, <1>6, <1>7, <1>8
     DEF Next, Sequential, ReceiveEvent, CreateAndPreparePools

\* GiveUp(q) adds q, and only q, to the processes that ended for good.
LEMMA GiveUpAdds ==
  ASSUME TypeOK, EndInv, NEW q \in Proc, GiveUp(q)
  PROVE  /\ ~GivenUp(q) /\ GivenUp(q)'
         /\ \A r \in Proc \ {q} : GivenUp(r)' <=> GivenUp(r)
<1>1. handling = {q} /\ handling' = {}
  BY DEF GiveUp, Drained
<1>2. SameEnds
  BY InterruptSameEnds DEF TypeOK
<1>3. Terminated(worker[q]) /\ pending[q][ProcessEnd] = 0
  BY <1>1 DEF EndInv, HandledOnce
<1> QED
  BY <1>1, <1>2, <1>3 DEF SameEnds, GivenUp, Terminated

\* Counting: a set that gains one element, a set that stays the same.
LEMMA CountOneMore ==
  ASSUME NEW S, NEW T, IsFiniteSet(S), NEW q, q \notin S, T = S \cup {q}
  PROVE  Cardinality(T) = Cardinality(S) + 1
BY FS_AddElement

LEMMA FiniteGivenUp ==
  /\ IsFiniteSet({q \in Proc : GivenUp(q)})
  /\ \A p \in Pools : IsFiniteSet(GivenUpIn(p))
<1>1. {q \in Proc : GivenUp(q)} \subseteq Proc
  OBVIOUS
<1>2. \A p \in Pools : GivenUpIn(p) \subseteq Proc
  BY DEF GivenUpIn, ProcsOf
<1> QED
  BY <1>1, <1>2, PoolAssumption, FS_Subset

LEMMA CountersGiveUp ==
  ASSUME TypeOK, EndInv, CountersExact, NEW q \in Proc, GiveUp(q)
  PROVE  CountersExact'
<1> DEFINE p == PoolOf[q]
           All == {r \in Proc : GivenUp(r)}
<1>1. p \in Pools /\ q \in ProcsOf(p)
  BY PoolAssumption DEF ProcsOf
<1>2. /\ ~GivenUp(q) /\ GivenUp(q)'
      /\ \A r \in Proc \ {q} : GivenUp(r)' <=> GivenUp(r)
  BY GiveUpAdds
<1>3. terminatedProcesses' = Cardinality({r \in Proc : GivenUp(r)'})
  <2>1. {r \in Proc : GivenUp(r)'} = All \cup {q}
    BY <1>2
  <2>2. Cardinality(All \cup {q}) = Cardinality(All) + 1
    <3>1. IsFiniteSet(All) /\ q \notin All
      BY <1>2, FiniteGivenUp
    <3> QED
      BY <3>1, CountOneMore
  <2>3. terminatedProcesses' = terminatedProcesses + 1
    BY DEF GiveUp
  <2> QED
    BY <2>1, <2>2, <2>3 DEF CountersExact
<1>4. ASSUME NEW r \in Pools
      PROVE  runningProcesses'[r] = PoolTotal(r) - Cardinality(GivenUpIn(r)')
  <2>0. pc \notin {"create", "failed"}
    BY DEF GiveUp
  <2>1. runningProcesses[r] = PoolTotal(r) - Cardinality(GivenUpIn(r))
    BY <2>0 DEF CountersExact
  <2>2. runningProcesses' = [runningProcesses EXCEPT ![p] = @ + -1]
    BY DEF GiveUp, HandleTermination, Add
  <2>3. CASE r # p
    <3>1. GivenUpIn(r)' = GivenUpIn(r)
      BY <1>2, <2>3 DEF GivenUpIn, ProcsOf
    <3> QED
      BY <2>1, <2>2, <2>3, <3>1 DEF TypeOK, ControlTypeOK
  <2>4. CASE r = p
    <3>1. GivenUpIn(p)' = GivenUpIn(p) \cup {q}
      BY <1>1, <1>2 DEF GivenUpIn, ProcsOf
    <3>2. Cardinality(GivenUpIn(p) \cup {q}) = Cardinality(GivenUpIn(p)) + 1
      <4>1. IsFiniteSet(GivenUpIn(p)) /\ q \notin GivenUpIn(p)
        BY <1>1, <1>2, FiniteGivenUp DEF GivenUpIn
      <4> QED
        BY <4>1, CountOneMore
    <3>3. runningProcesses'[p] = runningProcesses[p] + -1
      BY <1>1, <2>2 DEF TypeOK, ControlTypeOK
    <3>4. PoolTotal(p) \in Nat /\ Cardinality(GivenUpIn(p)) \in Nat
      BY <1>1, PoolTotalType, FiniteGivenUp, FS_CardinalityType
    <3> HIDE DEF p
    <3> QED
      BY <2>1, <2>4, <3>1, <3>2, <3>3, <3>4
  <2> QED
    BY <2>3, <2>4
<1> QED
  BY <1>3, <1>4 DEF CountersExact, PoolTotal, ProcsOf

LEMMA CountersStep ==
  ASSUME TypeOK, EndInv, PoolsUp, CountersExact, [Next]_vars
  PROVE  CountersExact'
<1>1. CASE \E q \in Proc : GiveUp(q)
  BY <1>1, CountersGiveUp
<1>2. CASE ~\E q \in Proc : GiveUp(q)
  <2>1. SameGivenUp /\ terminatedProcesses' = terminatedProcesses
    BY <1>2, GivenUpFrame
  <2>2. {q \in Proc : GivenUp(q)'} = {q \in Proc : GivenUp(q)}
    BY <2>1 DEF SameGivenUp
  <2>3. \A p \in Pools : GivenUpIn(p)' = GivenUpIn(p)
    BY <2>1 DEF SameGivenUp, GivenUpIn, ProcsOf
  <2>4. CASE CreateAndPreparePools
    <3>1. \A p \in Pools : GivenUpIn(p) = {}
      BY <2>4 DEF CreateAndPreparePools, EndInv, RunOnce, GivenUpIn, GivenUp,
                  ProcsOf, Terminated
    <3>2. \A p \in Pools : runningProcesses'[p] = PoolTotal(p) - 0
      BY <2>4, PoolTotalType DEF CreateAndPreparePools
    <3> QED
      BY <2>1, <2>2, <2>3, <3>1, <3>2, FS_EmptySet DEF CountersExact, PoolTotal, ProcsOf
  <2>5. CASE /\ runningProcesses' = runningProcesses
             /\ pc \in {"create", "failed"} => pc' \in {"create", "failed"}
    BY <2>1, <2>2, <2>3, <2>5 DEF CountersExact, PoolTotal, ProcsOf
  <2>6. CASE \/ CreateError \/ RunAllDone \/ InterruptAllDone \/ CheckCleanup
             \/ ReceiveCtxDone \/ ProxyDrainReturns \/ Cancel \/ Finished
             \/ \E p \in Pools : InterruptPool(p) \/ RunAllPool(p)
             \/ \E q \in Proc : \/ RunAllWorker(q) \/ Restart(q)
                               \/ InterruptAllWorker(q) \/ EnvironmentStep(q)
                               \/ ReceiveEvent(q)
             \/ UNCHANGED vars
    BY <2>5, <2>6
       DEF CreateError, RunAllDone, InterruptAllDone, CheckCleanup, ReceiveCtxDone,
           ProxyDrainReturns, Cancel, Finished, InterruptPool, RunAllPool,
           RunAllWorker, Restart, InterruptAllWorker, EnvironmentStep,
           ReceiveEvent, ReceiveProcessEnd, ReceiveExceededLimit,
           ReceiveNeedsInterrupt, ReceiveNeedsTermination, Receiving, vars,
           controlVars, countVars
  <2> QED
    BY <1>2, <2>4, <2>6 DEF Next, Sequential
<1> QED
  BY <1>1, <1>2

\* The counters are exact, whatever crashes, limits, restarts and signals do.
THEOREM CountersCorrect == Spec => []CountersExact
<1>1. Init => CountersExact
  <2> SUFFICES ASSUME Init PROVE CountersExact
    OBVIOUS
  <2>1. {q \in Proc : GivenUp(q)} = {}
    BY DEF Init, GivenUp, NoWorker, NewWorker, Terminated
  <2> QED
    BY <2>1, FS_EmptySet DEF Init, CountersExact
<1>2. TypeOK /\ EndInv /\ PoolsUp /\ CountersExact /\ [Next]_vars => CountersExact'
  BY CountersStep
<1> QED
  BY TypeCorrect, EndsHandledOnce, PoolsStayUp, <1>1, <1>2, PTL DEF Spec

-------------------------------------------------------------------------------
\* Run returns nil only when all processes have ended.

\* When the count is complete every process has ended.
LEMMA AllGivenUp ==
  ASSUME CountersExact, terminatedProcesses = TotalProcesses
  PROVE  \A q \in Proc : Terminated(worker[q])
<1>1. {q \in Proc : GivenUp(q)} = Proc
  BY PoolAssumption, FS_Subset DEF CountersExact, TotalProcesses
<1> QED
  BY <1>1 DEF GivenUp

\* Run returns nil only when every process has terminated, and its sanity check
\* never fails.
THEOREM ShutdownIsClean == Spec => []CleanShutdown
<1>1. Init => CleanShutdown
  BY DEF Init, CleanShutdown
<1>2. CountersExact /\ CleanShutdown /\ [Next]_vars => CleanShutdown'
  <2> SUFFICES ASSUME CountersExact, CleanShutdown, [Next]_vars
               PROVE  CleanShutdown'
    OBVIOUS
  <2>1. CASE InterruptAllDone
    BY <2>1, AllGivenUp DEF InterruptAllDone, CleanShutdown, workerVars, Terminated
  <2>2. CASE CheckCleanup
    <3>1. \A q \in Proc : Terminated(worker[q])
      BY <2>2, AllGivenUp DEF CheckCleanup
    <3>2. {q \in Proc : Running(worker[q])} = {}
      BY <3>1 DEF Running, Terminated
    <3>3. RunningCount = 0
      BY <3>2, FS_EmptySet DEF RunningCount
    <3> QED
      BY <2>2, <3>1, <3>3 DEF CheckCleanup, CleanShutdown, workerVars, Terminated
  <2>3. CASE Finished \/ UNCHANGED vars
    BY <2>3 DEF Finished, vars, workerVars, controlVars, CleanShutdown, Terminated
  <2>4. CASE pc' \notin {"returned", "leaked"}
    BY <2>4 DEF CleanShutdown
  <2>5. CASE \/ CreateAndPreparePools \/ CreateError \/ RunAllDone
             \/ ReceiveCtxDone \/ ProxyDrainReturns \/ Cancel
             \/ \E p \in Pools : InterruptPool(p) \/ RunAllPool(p)
             \/ \E q \in Proc : \/ RunAllWorker(q) \/ Restart(q) \/ GiveUp(q)
                               \/ InterruptAllWorker(q) \/ EnvironmentStep(q)
                               \/ ReceiveEvent(q)
    BY <2>4, <2>5
       DEF CreateAndPreparePools, CreateError, RunAllDone, ReceiveCtxDone,
           ProxyDrainReturns, Cancel, InterruptPool, RunAllPool, RunAllWorker,
           Restart, GiveUp, InterruptAllWorker, EnvironmentStep, ReceiveEvent,
           ReceiveProcessEnd, ReceiveExceededLimit, ReceiveNeedsInterrupt,
           ReceiveNeedsTermination, Receiving, controlVars, Final, CleanShutdown
  <2> QED
    BY <2>1, <2>2, <2>3, <2>5 DEF Next, Sequential
<1> QED
  BY CountersCorrect, <1>1, <1>2, PTL DEF Spec

-------------------------------------------------------------------------------
\* A process that ignores SIGTERM is on its way to SIGKILL.

EscalationInv == TermWhenRunning /\ EscalationArmed

\* The two facts for one process, as every step has to leave them.
Escalating(w, ch) ==
  /\ w.sigterm => w.cmd \in {"running", "exited"}
  /\ w.cmd = "running" /\ w.sigterm
       => w.timers > 0 \/ ch[ProcessNeedsTermination] > 0 \/ w.sigkill

LEMMA EscalationInvEach ==
  EscalationInv <=> \A q \in Proc : Escalating(worker[q], pending[q])
BY DEF EscalationInv, TermWhenRunning, EscalationArmed, Escalating, Running

\* Terminate arms the escalation of the process it sends SIGTERM to.
LEMMA TerminateEscalation ==
  ASSUME WorkerTypeOK, NEW q \in Proc, NEW ch \in Senders, Terminate(q, ch),
         \A r \in Proc : Escalating(worker[r], pending[r]),
         \A r \in Proc : ch[r][ProcessNeedsTermination]
                             = pending[r][ProcessNeedsTermination]
  PROVE  \A r \in Proc : Escalating(worker'[r], pending'[r])
<1>1. \A r \in Proc : pending'[r][ProcessNeedsTermination]
                         = pending[r][ProcessNeedsTermination]
  <2>1. ProcessNeedsTermination \in EventType \ {ProcessNeedsInterrupt}
    BY DEF EventType, ProcessNeedsTermination, ProcessNeedsInterrupt
  <2> QED
    BY <2>1, TerminateFrame
<1>2. ASSUME NEW r \in Proc, r # q
      PROVE  worker'[r] = worker[r]
  BY <1>2 DEF Terminate, WorkerTypeOK
<1>3. Escalating(worker'[q], pending'[q])
  <2>1. CASE Terminated(worker[q])
    BY <1>1, <2>1 DEF Terminate, Escalating
  <2>2. CASE ~Terminated(worker[q]) /\ ~Running(worker[q])
    BY <1>1, <2>2
       DEF Terminate, Escalating, Running, Terminated, WorkerTypeOK, WorkerObject
  <2>3. CASE ~Terminated(worker[q]) /\ Running(worker[q])
    <3>1. worker'[q].timers > 0 /\ worker'[q].cmd = "running"
      BY <2>3 DEF Terminate, Running, WorkerTypeOK, WorkerObject
    <3> QED
      BY <3>1 DEF Escalating
  <2> QED
    BY <2>1, <2>2, <2>3
<1> QED
  BY <1>1, <1>2, <1>3 DEF Escalating

LEMMA EscalationEnvironment ==
  ASSUME WorkerTypeOK, NEW q \in Proc, Environment(q),
         \A r \in Proc : Escalating(worker[r], pending[r])
  PROVE  \A r \in Proc : Escalating(worker'[r], pending'[r])
<1> USE EventTypes
<1>1. \A r \in Proc \ {q} : worker'[r] = worker[r] /\ pending'[r] = pending[r]
  BY DEF Environment, OSStart, OSStartFail, OSExit, StreamLogsDone, SignalTimeout,
         LimiterFire, OrphanLimiterFire, Send, WorkerTypeOK, Senders
<1>2. Escalating(worker[q], pending[q])
  OBVIOUS
<1> USE DEF Escalating, WorkerTypeOK, WorkerObject, Senders, Send
<1>3. CASE OSStart(q)
  BY <1>1, <1>2, <1>3 DEF OSStart
<1>4. CASE OSStartFail(q)
  BY <1>1, <1>2, <1>4 DEF OSStartFail, ProcessEnd, ProcessNeedsTermination
<1>5. CASE OSExit(q)
  BY <1>1, <1>2, <1>5 DEF OSExit, Running
<1>6. CASE StreamLogsDone(q)
  BY <1>1, <1>2, <1>6 DEF StreamLogsDone
<1>7. CASE SignalTimeout(q)
  <2>1. CASE Terminated(worker[q])
    BY <1>1, <1>2, <1>7, <2>1 DEF SignalTimeout, Terminated
  <2>2. CASE ~Terminated(worker[q])
    <3>1. pending'[q][ProcessNeedsTermination] > 0
      BY <1>7, <2>2 DEF SignalTimeout
    <3>2. /\ worker'[q].cmd = worker[q].cmd
          /\ worker'[q].sigterm = worker[q].sigterm
      BY <1>7 DEF SignalTimeout
    <3> QED
      BY <1>1, <1>2, <3>1, <3>2
  <2> QED
    BY <2>1, <2>2
<1>8. CASE LimiterFire(q)
  <2>1. pending'[q][ProcessNeedsTermination] = pending[q][ProcessNeedsTermination]
    BY <1>8 DEF LimiterFire, ProcessExceededLimit, ProcessNeedsTermination, EventType
  <2>2. /\ worker'[q].cmd = worker[q].cmd
        /\ worker'[q].sigterm = worker[q].sigterm
        /\ worker'[q].sigkill = worker[q].sigkill
        /\ worker'[q].timers = worker[q].timers
    BY <1>8 DEF LimiterFire
  <2> QED
    BY <1>1, <1>2, <2>1, <2>2
<1>9. CASE OrphanLimiterFire(q)
  BY <1>1, <1>2, <1>9 DEF OrphanLimiterFire
<1> QED
  BY <1>3, <1>4, <1>5, <1>6, <1>7, <1>8, <1>9 DEF Environment

LEMMA EscalationStep ==
  ASSUME TypeOK, EndInv, EscalationInv, [Next]_vars
  PROVE  EscalationInv'
<1> USE EventTypes
<1>0. WorkerTypeOK /\ \A r \in Proc : Escalating(worker[r], pending[r])
  BY EscalationInvEach DEF TypeOK
<1> SUFFICES \A r \in Proc : Escalating(worker'[r], pending'[r])
  BY DEF EscalationInv, TermWhenRunning, EscalationArmed, Escalating, Running
<1>1. CASE UNCHANGED <<worker, pending>>
  BY <1>0, <1>1
<1>2. CASE CreateAndPreparePools
  BY <1>2 DEF CreateAndPreparePools, PrepareWorkers, NewWorker, Escalating
<1>3. ASSUME NEW q \in Proc, RunAllWorker(q)
      PROVE  \A r \in Proc : Escalating(worker'[r], pending'[r])
  <2>1. worker[q].cmd = "prepared"
    BY <1>3 DEF RunAllWorker, EndInv, RunOnce
  <2>2. ~worker[q].sigterm
    BY <1>0, <2>1 DEF Escalating
  <2>3. /\ worker'[q].sigterm = worker[q].sigterm
        /\ \A r \in Proc \ {q} : worker'[r] = worker[r]
        /\ pending' = pending
    BY <1>0, <1>3 DEF RunAllWorker, RunOne, Run, WorkerTypeOK, WorkerObject
  <2> QED
    BY <1>0, <2>2, <2>3 DEF Escalating
<1>4. ASSUME NEW q \in Proc, Restart(q)
      PROVE  \A r \in Proc : Escalating(worker'[r], pending'[r])
  <2>1. CASE Replace(q, pending)
    <3>1. /\ worker'[q].sigterm = FALSE
          /\ \A r \in Proc \ {q} : worker'[r] = worker[r] /\ pending'[r] = pending[r]
      BY <1>0, <2>1 DEF Replace, Run, NewWorker, WorkerTypeOK, Senders
    <3> QED
      BY <1>0, <3>1 DEF Escalating
  <2> QED
    BY <1>1, <1>4, <2>1 DEF Restart, RestartWorker, workerVars
<1>5. ASSUME NEW q \in Proc, GiveUp(q)
      PROVE  \A r \in Proc : Escalating(worker'[r], pending'[r])
  <2>1. PoolOf[q] \in Pools
    BY PoolAssumption
  <2>2. \/ UNCHANGED <<worker, pending>>
        \/ HasProxy(PoolOf[q]) /\ Terminate(ProxyOf(PoolOf[q]), pending)
    BY <1>5 DEF GiveUp, HandleTermination, InterruptWorker
  <2> QED
    BY <1>0, <1>1, <2>1, <2>2, ProxyOfPool, TerminateEscalation DEF WorkerTypeOK
<1>6. ASSUME NEW q \in Proc, InterruptAllWorker(q)
      PROVE  \A r \in Proc : Escalating(worker'[r], pending'[r])
  BY <1>0, <1>6, TerminateEscalation DEF InterruptAllWorker, WorkerTypeOK
<1>7. ASSUME NEW q \in Proc, ReceiveProcessEnd(q)
      PROVE  \A r \in Proc : Escalating(worker'[r], pending'[r])
  <2>1. PICK c \in Receive(q, ProcessEnd) : pending' = c[1]
    BY <1>7 DEF ReceiveProcessEnd
  <2>2. \A r \in Proc : c[1][r][ProcessNeedsTermination]
                           = pending[r][ProcessNeedsTermination]
    BY <1>0, ReceiveFrame DEF ProcessEnd, ProcessNeedsTermination
  <2> QED
    BY <1>0, <1>7, <2>1, <2>2 DEF ReceiveProcessEnd, Escalating
<1>8. ASSUME NEW q \in Proc, ReceiveExceededLimit(q)
      PROVE  \A r \in Proc : Escalating(worker'[r], pending'[r])
  <2>1. PICK c \in Receive(q, ProcessExceededLimit) :
          Terminate(q, c[1]) \/ (worker' = worker /\ pending' = c[1])
    BY <1>8 DEF ReceiveExceededLimit, InterruptWorker
  <2>2. \A r \in Proc : c[1][r][ProcessNeedsTermination]
                           = pending[r][ProcessNeedsTermination]
    BY <1>0, ReceiveFrame DEF ProcessExceededLimit, ProcessNeedsTermination
  <2>3. c[1] \in Senders
    BY <1>0, ReceiveType
  <2>4. CASE Terminate(q, c[1])
    BY <1>0, <2>2, <2>3, <2>4, TerminateEscalation
  <2>5. CASE worker' = worker /\ pending' = c[1]
    BY <1>0, <2>2, <2>5 DEF Escalating
  <2> QED
    BY <2>1, <2>4, <2>5
<1>9. ASSUME NEW q \in Proc, ReceiveNeedsInterrupt(q)
      PROVE  \A r \in Proc : Escalating(worker'[r], pending'[r])
  <2>1. PICK c \in Receive(q, ProcessNeedsInterrupt) : Terminate(q, c[1])
    BY <1>9 DEF ReceiveNeedsInterrupt, InterruptWorker
  <2>2. \A r \in Proc : c[1][r][ProcessNeedsTermination]
                           = pending[r][ProcessNeedsTermination]
    BY <1>0, ReceiveFrame DEF ProcessNeedsInterrupt, ProcessNeedsTermination
  <2>3. c[1] \in Senders
    BY <1>0, ReceiveType
  <2> QED
    BY <1>0, <2>1, <2>2, <2>3, TerminateEscalation
<1>10. ASSUME NEW q \in Proc, ReceiveNeedsTermination(q)
       PROVE  \A r \in Proc : Escalating(worker'[r], pending'[r])
  <2>1. \A r \in Proc \ {q} : worker'[r] = worker[r] /\ pending'[r] = pending[r]
    BY <1>0, <1>10
       DEF ReceiveNeedsTermination, ForceTerminateWorker, Receive, Take,
           WorkerTypeOK, Senders
  <2>2. /\ worker'[q].cmd = worker[q].cmd
        /\ worker'[q].sigterm = worker[q].sigterm
        /\ worker'[q].cmd = "running" => worker'[q].sigkill
    BY <1>0, <1>10
       DEF ReceiveNeedsTermination, ForceTerminateWorker, Running, WorkerTypeOK,
           WorkerObject
  <2> QED
    BY <1>0, <2>1, <2>2 DEF Escalating
<1>11. ASSUME NEW q \in Proc, EnvironmentStep(q)
       PROVE  \A r \in Proc : Escalating(worker'[r], pending'[r])
  BY <1>0, <1>11, EscalationEnvironment DEF EnvironmentStep
<1>12. CASE \/ CreateError
            \/ \E p \in Pools : RunAllPool(p) \/ InterruptPool(p)
            \/ RunAllDone \/ InterruptAllDone \/ CheckCleanup
            \/ ReceiveCtxDone \/ ProxyDrainReturns \/ Cancel \/ Finished
            \/ UNCHANGED vars
  BY <1>1, <1>12
     DEF CreateError, RunAllPool, InterruptPool, RunAllDone, InterruptAllDone,
         CheckCleanup, ReceiveCtxDone, ProxyDrainReturns, Cancel, Finished, vars,
         workerVars
<1> QED
  BY <1>2, <1>3, <1>4, <1>5, <1>6, <1>7, <1>8, <1>9, <1>10, <1>11, <1>12
     DEF Next, Sequential, ReceiveEvent

\* The inductive invariant behind EscalationNeverLost: a SIGTERM goes only to a
\* process that has been started, and never without its timer.
THEOREM EscalationInvariant == Spec => []EscalationInv
<1>1. Init => EscalationInv
  BY DEF Init, EscalationInv, TermWhenRunning, EscalationArmed, NoWorker, NewWorker,
         Running
<1>2. TypeOK /\ EndInv /\ EscalationInv /\ [Next]_vars => EscalationInv'
  BY EscalationStep
<1> QED
  BY TypeCorrect, EndsHandledOnce, <1>1, <1>2, PTL DEF Spec

\* Every process that was sent SIGTERM and does not end is sent SIGKILL, or an
\* event or timer that leads to it is outstanding: Terminate never loses one.
THEOREM EscalationNeverLost == Spec => []EscalationArmed
<1>1. EscalationInv => EscalationArmed
  BY DEF EscalationInv
<1> QED
  BY EscalationInvariant, <1>1, PTL

===============================================================================
