----------------------------- MODULE HealthProofs -----------------------------
(***************************************************************************)
(* Theorems about GET /health: a probe does not disturb the supervisor,    *)
(* and an answer 200 that looked at pools means that the desired share of  *)
(* each has been started, although the workers are looked at one by one    *)
(* while they crash and are replaced.  A 200 given before there are pools  *)
(* means nothing.                                                          *)
(***************************************************************************)
EXTENDS Health, SupervisorProofs, HealthRatioProofs

-------------------------------------------------------------------------------
\* The probe and the supervisor.

\* A probe only reads: with its steps hidden, the supervisor behaves as without
\* an admin server, so all its theorems hold for the program that answers /health.
THEOREM ProbesAreInvisible == HealthSpec => Spec
<1>1. HealthInit => Init
  BY DEF HealthInit
<1>2. [HealthNext]_<<vars, healthVars>> => [Next]_vars
  BY DEF HealthNext, Probe, SupervisorStep, Dead
<1> QED
  BY <1>1, <1>2, PTL DEF HealthSpec, Spec

\* The request and its answer have their types, whatever the supervisor does
\* between two steps of IsHealthy.
THEOREM HealthTypeCorrect == HealthSpec => []HealthTypeOK
<1> DEFINE ProbeTypeOK ==
             /\ probe \in [at : {"idle", "pools", "workers"}, todo : SUBSET Pools,
                           pool : SUBSET Pools, left : SUBSET Proc, running : Nat]
             /\ answer \in {"none", "ok", "unavailable"}
             /\ basis \in SUBSET Pools
             /\ fatal \in BOOLEAN
<1>0. Idle \in [at : {"idle", "pools", "workers"}, todo : SUBSET Pools,
               pool : SUBSET Pools, left : SUBSET Proc, running : Nat]
  BY DEF Idle
<1>1. HealthInit => ProbeTypeOK
  BY <1>0 DEF HealthInit
<1>2. ProbeTypeOK /\ [HealthNext]_<<vars, healthVars>> => ProbeTypeOK'
  <2> SUFFICES ASSUME ProbeTypeOK, [HealthNext]_<<vars, healthVars>>
               PROVE  ProbeTypeOK'
    OBVIOUS
  <2>0. ASSUME NEW a, Answer(a)
        PROVE  answer' = a /\ basis' \in SUBSET Pools
    BY <2>0 DEF Answer, VisiblePools
  <2>1. CASE ProbeBegin /\ UNCHANGED fatal
    BY <2>0, <2>1 DEF ProbeBegin, VisiblePools
  <2>2. ASSUME NEW p \in Pools, ProbePool(p), UNCHANGED fatal
        PROVE  ProbeTypeOK'
    BY <2>2 DEF ProbePool, ProcsOf
  <2>3. ASSUME NEW q \in Proc, ProbeWorker(q), UNCHANGED fatal
        PROVE  ProbeTypeOK'
    <3> DEFINE k == IF Running(worker[q]) THEN probe.running + 1 ELSE probe.running
    <3>1. probe' = [probe EXCEPT !.left = probe.left \ {q}, !.running = k]
      BY <2>3 DEF ProbeWorker
    <3>2. k \in Nat
      OBVIOUS
    <3> HIDE DEF k
    <3> QED
      BY <2>3, <3>1, <3>2 DEF ProbeWorker
  <2>4. CASE ProbeVerdict /\ UNCHANGED fatal
    <3>1. \/ /\ probe' = [probe EXCEPT !.at = "pools", !.pool = {}]
             /\ UNCHANGED <<answer, basis>>
          \/ probe' = Idle /\ Answer("unavailable")
      BY <2>4 DEF ProbeVerdict
    <3> QED
      BY <1>0, <2>0, <2>4, <3>1
  <2>5. CASE ProbeEnd /\ UNCHANGED fatal
    BY <1>0, <2>0, <2>5 DEF ProbeEnd
  <2>6. CASE SupervisorStep
    <3>1. fatal' \in BOOLEAN
      BY <2>6 DEF SupervisorStep, RacingWrite
    <3> QED
      BY <2>6, <3>1 DEF SupervisorStep
  <2>7. CASE Dead \/ UNCHANGED <<vars, healthVars>>
    BY <2>7 DEF Dead, healthVars
  <2> QED
    BY <2>1, <2>2, <2>3, <2>4, <2>5, <2>6, <2>7 DEF HealthNext, Probe
<1>3. TypeOK /\ ProbeTypeOK => HealthTypeOK
  BY DEF HealthTypeOK
<1> QED
  BY TypeCorrect, ProbesAreInvisible, <1>1, <1>2, <1>3, PTL DEF HealthSpec

-------------------------------------------------------------------------------
\* A process that has been started stays so.

\* What a step has to leave to worker r.
KeepsStarted(r) ==
  /\ worker'[r].gen = worker[r].gen
  /\ HasPid(worker[r]) => HasPid(worker'[r])

LEMMA TerminateGen ==
  ASSUME WorkerTypeOK, NEW q \in Proc, NEW ch, Terminate(q, ch)
  PROVE  \A r \in Proc : worker'[r].gen = worker[r].gen
BY DEF Terminate, WorkerTypeOK, WorkerObject

LEMMA EverStartedStays ==
  ASSUME TypeOK, EndInv, pc # "create", [Next]_vars, NEW r \in Proc, EverStarted(r)
  PROVE  EverStarted(r)'
<1>0. WorkerTypeOK
  BY DEF TypeOK
<1>1. ASSUME KeepsStarted(r)
      PROVE  EverStarted(r)'
  BY <1>1 DEF KeepsStarted, EverStarted
<1>2. ASSUME SameEnds, worker'[r].gen = worker[r].gen
      PROVE  EverStarted(r)'
  BY <1>1, <1>2 DEF SameEnds, KeepsStarted, HasPid
<1>3. ASSUME NEW q \in Proc, RunAllWorker(q)
      PROVE  EverStarted(r)'
  <2>1. worker[q].cmd = "prepared"
    BY <1>3 DEF RunAllWorker, EndInv, RunOnce
  <2>2. /\ worker'[q].gen = worker[q].gen
        /\ \A s \in Proc \ {q} : worker'[s] = worker[s]
    BY <1>0, <1>3 DEF RunAllWorker, RunOne, Run, WorkerTypeOK, WorkerObject
  <2> QED
    BY <1>1, <2>1, <2>2 DEF KeepsStarted, HasPid
<1>4. ASSUME NEW q \in Proc, Restart(q)
      PROVE  EverStarted(r)'
  <2>1. CASE UNCHANGED workerVars
    BY <1>1, <2>1 DEF workerVars, KeepsStarted
  <2>2. CASE Replace(q, pending)
    <3>1. /\ worker'[q].gen = worker[q].gen + 1
          /\ worker[q].gen \in Nat
          /\ \A s \in Proc \ {q} : worker'[s] = worker[s]
      BY <1>0, <2>2 DEF Replace, Run, NewWorker, WorkerTypeOK, WorkerObject
    <3> QED
      BY <3>1 DEF EverStarted
  <2> QED
    BY <1>4, <2>1, <2>2 DEF Restart, RestartWorker
<1>5. ASSUME NEW q \in Proc, GiveUp(q) \/ InterruptAllWorker(q)
      PROVE  EverStarted(r)'
  <2>1. PoolOf[q] \in Pools
    BY PoolAssumption
  <2>2. worker' = worker \/ \E s \in Proc : Terminate(s, pending)
    BY <1>5, <2>1, ProxyOfPool
       DEF GiveUp, HandleTermination, InterruptWorker, InterruptAllWorker
  <2> QED
    BY <1>0, <1>2, <1>5, <2>2, InterruptSameEnds, TerminateGen
<1>6. ASSUME NEW q \in Proc, ReceiveEvent(q)
      PROVE  EverStarted(r)'
  <2>1. CASE ReceiveProcessEnd(q)
    BY <1>1, <2>1 DEF ReceiveProcessEnd, KeepsStarted
  <2>2. CASE ReceiveNeedsTermination(q)
    <3>1. worker'[r].gen = worker[r].gen
      BY <1>0, <2>2 DEF ReceiveNeedsTermination, ForceTerminateWorker, WorkerTypeOK,
                        WorkerObject
    <3> QED
      BY <1>0, <1>2, <2>2, <3>1, ReceiveSameEnds
  <2>3. CASE ReceiveExceededLimit(q) \/ ReceiveNeedsInterrupt(q)
    <3>1. worker' = worker \/ \E ch : Terminate(q, ch)
      BY <2>3 DEF ReceiveExceededLimit, ReceiveNeedsInterrupt, InterruptWorker
    <3> QED
      BY <1>0, <1>2, <2>3, <3>1, ReceiveSameEnds, TerminateGen
  <2> QED
    BY <1>6, <2>1, <2>2, <2>3 DEF ReceiveEvent
<1>7. ASSUME NEW q \in Proc, EnvironmentStep(q)
      PROVE  EverStarted(r)'
  <2>1. worker'[r].gen = worker[r].gen
    BY <1>0, <1>7 DEF EnvironmentStep, Environment, OSStart, OSStartFail, OSExit,
                      StreamLogsDone, SignalTimeout, LimiterFire, OrphanLimiterFire,
                      WorkerTypeOK, WorkerObject
  <2>2. HasPid(worker[r]) => HasPid(worker'[r])
    BY <1>0, <1>7 DEF EnvironmentStep, Environment, OSStart, OSStartFail, OSExit,
                      StreamLogsDone, SignalTimeout, LimiterFire, OrphanLimiterFire,
                      WorkerTypeOK, WorkerObject, HasPid
  <2> QED
    BY <1>1, <2>1, <2>2 DEF KeepsStarted
<1>8. CASE \/ CreateError \/ RunAllDone \/ InterruptAllDone \/ CheckCleanup
           \/ ReceiveCtxDone \/ ProxyDrainReturns \/ Cancel \/ Finished
           \/ \E p \in Pools : InterruptPool(p) \/ RunAllPool(p)
           \/ UNCHANGED vars
  <2>1. UNCHANGED workerVars
    BY <1>8 DEF CreateError, RunAllDone, InterruptAllDone, CheckCleanup,
                ReceiveCtxDone, ProxyDrainReturns, Cancel, Finished, InterruptPool,
                RunAllPool, vars
  <2> QED
    BY <1>1, <2>1 DEF workerVars, KeepsStarted
<1> QED
  BY <1>3, <1>4, <1>5, <1>6, <1>7, <1>8 DEF Next, Sequential, CreateAndPreparePools

-------------------------------------------------------------------------------
\* An answer 200 tells the truth.

EverStartedOf(p) == {q \in ProcsOf(p) : EverStarted(q)}

EnoughStarted(p) == Enough(p, {q \in Proc : EverStarted(q)})

(***************************************************************************)
(* What a probe has seen so far is still true: the workers it counted as   *)
(* running have been started, and so has the desired share of the pools it *)
(* found healthy.                                                          *)
(***************************************************************************)
ProbeInv ==
  /\ pc \in {"create", "failed"} => probe.at = "idle" /\ basis = {}
  /\ probe.at # "workers" => probe.pool = {}
  /\ probe.at = "workers" =>
       \E p \in Pools :
         /\ probe.pool = {p}
         /\ probe.left \subseteq ProcsOf(p)
         /\ probe.running <= Cardinality(EverStartedOf(p) \ probe.left)
  /\ probe.at # "idle" =>
       \A p \in Pools \ (probe.todo \cup probe.pool) : EnoughStarted(p)
  /\ answer = "ok" => \A p \in basis : EnoughStarted(p)

\* The pools whose verdict Percentage can compute.
SmallPools == \A p \in Pools : PoolTotal(p) <= 128

LEMMA StartedFinite ==
  ASSUME NEW p \in Pools, NEW S \in SUBSET ProcsOf(p)
  PROVE  /\ IsFiniteSet(S) /\ Cardinality(S) \in Nat
         /\ Cardinality(S) <= PoolTotal(p)
<1>1. ProcsOf(p) \subseteq Proc
  BY DEF ProcsOf
<1>2. IsFiniteSet(ProcsOf(p))
  BY <1>1, PoolAssumption, FS_Subset
<1> QED
  BY <1>2, FS_Subset, FS_CardinalityType DEF PoolTotal

LEMMA EnoughCount ==
  ASSUME NEW p \in Pools
  PROVE  EnoughStarted(p) <=>
           100 * Cardinality(EverStartedOf(p)) >= Desired[p] * PoolTotal(p)
<1>1. {q \in Proc : EverStarted(q)} \cap ProcsOf(p) = EverStartedOf(p)
  BY DEF EverStartedOf, ProcsOf
<1> QED
  BY <1>1 DEF EnoughStarted, Enough, PoolTotal

LEMMA DemandType ==
  ASSUME NEW p \in Pools
  PROVE  Desired[p] * PoolTotal(p) \in Int
BY PoolTotalType, HealthAssumption

\* The supervisor takes a step.
LEMMA ProbeInvNext ==
  ASSUME TypeOK, EndInv, HealthTypeOK, ProbeInv, [Next]_vars,
         UNCHANGED <<probe, answer, basis>>
  PROVE  ProbeInv'
<1>1. CASE pc = "create"
  <2>1. probe.at = "idle" /\ basis = {}
    BY <1>1 DEF ProbeInv
  <2> QED
    BY <2>1 DEF ProbeInv
<1>2. CASE pc # "create"
  <2>1. \A r \in Proc : EverStarted(r) => EverStarted(r)'
    BY <1>2, EverStartedStays
  <2>2. ASSUME NEW p \in Pools
        PROVE  /\ EverStartedOf(p) \subseteq EverStartedOf(p)'
               /\ EverStartedOf(p)' \subseteq ProcsOf(p)
    BY <2>1 DEF EverStartedOf, ProcsOf
  <2>3. ASSUME NEW p \in Pools, EnoughStarted(p)
        PROVE  EnoughStarted(p)'
    <3>1. /\ Cardinality(EverStartedOf(p)) \in Nat
          /\ Cardinality(EverStartedOf(p)') \in Nat
          /\ Cardinality(EverStartedOf(p)) <= Cardinality(EverStartedOf(p)')
      BY <2>2, StartedFinite, FS_Subset DEF EverStartedOf
    <3>2. 100 * Cardinality(EverStartedOf(p)') >= Desired[p] * PoolTotal(p)
      BY <2>3, <3>1, EnoughCount, DemandType
    <3>3. {q \in Proc : EverStarted(q)'} \cap ProcsOf(p) = EverStartedOf(p)'
      BY DEF EverStartedOf, ProcsOf
    <3> QED
      BY <3>2, <3>3 DEF EnoughStarted, Enough, PoolTotal, ProcsOf
  <2>4. ASSUME NEW p \in Pools,
               probe.running <= Cardinality(EverStartedOf(p) \ probe.left)
        PROVE  probe.running <= Cardinality(EverStartedOf(p)' \ probe.left)
    <3> DEFINE S == EverStartedOf(p) \ probe.left
               T == EverStartedOf(p)' \ probe.left
    <3>1. S \subseteq T /\ T \subseteq ProcsOf(p)
      BY <2>2
    <3>2. /\ Cardinality(S) \in Nat /\ Cardinality(T) \in Nat
          /\ Cardinality(S) <= Cardinality(T)
      BY <3>1, StartedFinite, FS_Subset
    <3>3. probe.running \in Nat
      BY DEF HealthTypeOK
    <3> HIDE DEF S, T
    <3> QED
      BY <2>4, <3>2, <3>3 DEF S, T
  <2>5. pc' \in {"create", "failed"} => pc \in {"create", "failed"}
    <3>1. CASE \/ CreateAndPreparePools \/ CreateError \/ RunAllDone
               \/ InterruptAllDone \/ CheckCleanup \/ ReceiveCtxDone
               \/ ProxyDrainReturns \/ Cancel \/ Finished
               \/ \E p \in Pools : InterruptPool(p) \/ RunAllPool(p)
               \/ UNCHANGED vars
      BY <3>1 DEF CreateAndPreparePools, CreateError, RunAllDone, InterruptAllDone,
                  CheckCleanup, ReceiveCtxDone, ProxyDrainReturns, Cancel, Finished,
                  InterruptPool, RunAllPool, vars, controlVars
    <3>2. CASE \E q \in Proc : \/ RunAllWorker(q) \/ Restart(q) \/ GiveUp(q)
                               \/ InterruptAllWorker(q) \/ EnvironmentStep(q)
                               \/ ReceiveEvent(q)
      BY <3>2 DEF RunAllWorker, Restart, GiveUp, InterruptAllWorker, EnvironmentStep,
                  ReceiveEvent, ReceiveProcessEnd, ReceiveExceededLimit,
                  ReceiveNeedsInterrupt, ReceiveNeedsTermination, controlVars
    <3> QED
      BY <3>1, <3>2 DEF Next, Sequential
  <2>6. probe.at = "workers" =>
          \E p \in Pools :
            /\ probe.pool = {p}
            /\ probe.left \subseteq ProcsOf(p)
            /\ probe.running <= Cardinality(EverStartedOf(p)' \ probe.left)
    BY <2>4 DEF ProbeInv
  <2> QED
    BY <2>3, <2>5, <2>6 DEF ProbeInv, ProcsOf, HealthTypeOK
<1> QED
  BY <1>1, <1>2

\* IsHealthy has counted one more worker.
LEMMA ProbeInvWorker ==
  ASSUME HealthTypeOK, ProbeInv, NEW q \in Proc, ProbeWorker(q), UNCHANGED vars
  PROVE  ProbeInv'
<1>0. UNCHANGED <<worker, pc, answer, basis>>
  BY DEF ProbeWorker, vars, workerVars, controlVars
<1>1. PICK p \in Pools : /\ probe.pool = {p} /\ probe.left \subseteq ProcsOf(p)
                         /\ probe.running
                              <= Cardinality(EverStartedOf(p) \ probe.left)
  BY DEF ProbeWorker, ProbeInv
<1>2. /\ probe'.at = "workers" /\ probe'.todo = probe.todo
      /\ probe'.pool = probe.pool /\ probe'.left = probe.left \ {q}
      /\ probe'.running = IF Running(worker[q]) THEN probe.running + 1
                                                ELSE probe.running
  BY DEF ProbeWorker, HealthTypeOK
<1>3. EverStarted(q)' = EverStarted(q) /\ EverStartedOf(p)' = EverStartedOf(p)
  BY <1>0 DEF EverStartedOf, EverStarted
<1>4. probe'.running <= Cardinality(EverStartedOf(p) \ probe'.left)
  <2> DEFINE S == EverStartedOf(p) \ probe.left
             T == EverStartedOf(p) \ (probe.left \ {q})
  <2>1. S \subseteq T /\ T \subseteq ProcsOf(p) /\ q \notin S
    BY DEF EverStartedOf, ProbeWorker
  <2>2. /\ IsFiniteSet(S) /\ Cardinality(S) \in Nat /\ Cardinality(T) \in Nat
        /\ Cardinality(S) <= Cardinality(T)
    BY <2>1, StartedFinite, FS_Subset
  <2>3. Running(worker[q]) => Cardinality(T) = Cardinality(S) + 1
    <3> SUFFICES ASSUME Running(worker[q]) PROVE Cardinality(T) = Cardinality(S) + 1
      OBVIOUS
    <3>1. q \in EverStartedOf(p)
      BY <1>1 DEF EverStartedOf, EverStarted, Running, HasPid, ProbeWorker
    <3>2. T = S \cup {q}
      BY <3>1
    <3> HIDE DEF S, T
    <3> QED
      BY <2>1, <2>2, <3>2, CountOneMore
  <2>4. probe.running \in Nat
    BY DEF HealthTypeOK
  <2> HIDE DEF S, T
  <2>5. probe'.running <= Cardinality(T)
    BY <1>1, <1>2, <2>2, <2>3, <2>4 DEF S
  <2> QED
    BY <1>2, <2>5 DEF T
<1>5. \A x \in Pools : EnoughStarted(x)' <=> EnoughStarted(x)
  BY <1>0 DEF EnoughStarted, Enough, EverStarted, ProcsOf
<1>6. pc' \notin {"create", "failed"}
  BY <1>0 DEF ProbeInv, ProbeWorker
<1>7. \E x \in Pools : /\ probe'.pool = {x} /\ probe'.left \subseteq ProcsOf(x)
                       /\ probe'.running <= Cardinality(EverStartedOf(x)' \ probe'.left)
  BY <1>1, <1>2, <1>3, <1>4
<1>8. \A x \in Pools \ (probe'.todo \cup probe'.pool) : EnoughStarted(x)'
  BY <1>2, <1>5 DEF ProbeInv, ProbeWorker
<1>9. answer' = "ok" => \A x \in basis' : EnoughStarted(x)'
  BY <1>0, <1>5 DEF ProbeInv, HealthTypeOK
<1> QED
  BY <1>2, <1>6, <1>7, <1>8, <1>9 DEF ProbeInv, ProcsOf

\* IsHealthy has looked at every worker of a pool.
LEMMA ProbeInvVerdict ==
  ASSUME SmallPools, HealthTypeOK, ProbeInv, ProbeVerdict, UNCHANGED vars
  PROVE  ProbeInv'
<1>0. UNCHANGED <<worker, pc>>
  BY DEF vars, workerVars, controlVars
<1>1. PICK p \in Pools : /\ probe.pool = {p}
                         /\ probe.running
                              <= Cardinality(EverStartedOf(p) \ probe.left)
  BY DEF ProbeVerdict, ProbeInv
<1>2. \A x \in Pools : EnoughStarted(x)' <=> EnoughStarted(x)
  BY <1>0 DEF EnoughStarted, Enough, EverStarted, ProcsOf
<1>3. CASE probe' = Idle /\ Answer("unavailable")
  BY <1>0, <1>3 DEF ProbeInv, Idle, Answer, VisiblePools
<1>4. CASE /\ Healthy(probe.running, Cardinality(ProcsOf(p)), Desired[p])
           /\ probe' = [probe EXCEPT !.at = "pools", !.pool = {}]
           /\ UNCHANGED <<answer, basis>>
  <2> DEFINE n == PoolTotal(p)
             c == Cardinality(EverStartedOf(p))
  <2>1. n \in 1 .. 128
    <3>1. ProcsOf(p) # {} /\ ProcsOf(p) \subseteq Proc
      BY PoolAssumption DEF ProcsOf
    <3>2. IsFiniteSet(ProcsOf(p))
      BY <3>1, PoolAssumption, FS_Subset
    <3>3. n \in Nat /\ n # 0
      BY <3>1, <3>2, FS_CardinalityType, FS_EmptySet DEF PoolTotal
    <3> QED
      BY <3>3 DEF SmallPools
  <2>2. probe.left = {}
    BY DEF ProbeVerdict
  <2>3. EverStartedOf(p) \ probe.left = EverStartedOf(p)
    BY <2>2
  <2>4. c \in Nat /\ c <= n
    BY StartedFinite DEF EverStartedOf
  <2>5. probe.running \in Nat /\ probe.running <= c
    BY <1>1, <2>3 DEF HealthTypeOK
  <2>6. Desired[p] \in Int
    BY HealthAssumption
  <2>7. Healthy(probe.running, n, Desired[p])
    BY <1>4 DEF PoolTotal
  <2> HIDE DEF n, c
  <2>8. 100 * probe.running >= Desired[p] * n /\ Desired[p] * n \in Int
    <3>1. probe.running \in 0 .. n
      BY <2>1, <2>4, <2>5
    <3>2. Desired[p] * n \in Int
      BY <2>1, <2>6
    <3> QED
      BY <2>1, <2>6, <2>7, <3>1, <3>2, HealthyBounds
  <2>9. 100 * c >= Desired[p] * n
    BY <2>4, <2>5, <2>8
  <2>10. EnoughStarted(p)
    BY <2>9, EnoughCount DEF n, c
  <2>11. /\ probe'.at = "pools" /\ probe'.pool = {} /\ probe'.todo = probe.todo
    BY <1>4 DEF HealthTypeOK
  <2>12. \A x \in Pools \ probe.todo : EnoughStarted(x)
    BY <1>1, <2>10 DEF ProbeInv, ProbeVerdict
  <2>13. pc' \notin {"create", "failed"}
    BY <1>0 DEF ProbeInv, ProbeVerdict
  <2> QED
    BY <1>2, <1>4, <2>11, <2>12, <2>13 DEF ProbeInv, HealthTypeOK
<1> QED
  BY <1>1, <1>3, <1>4 DEF ProbeVerdict

LEMMA ProbeInvStep ==
  ASSUME SmallPools, TypeOK, EndInv, HealthTypeOK, ProbeInv,
         [HealthNext]_<<vars, healthVars>>
  PROVE  ProbeInv'
<1>1. CASE SupervisorStep \/ Dead \/ UNCHANGED <<vars, healthVars>>
  BY <1>1, ProbeInvNext DEF SupervisorStep, Dead, healthVars
<1>2. ASSUME UNCHANGED vars
      PROVE  /\ UNCHANGED <<worker, pc>>
             /\ \A x \in Pools : EnoughStarted(x)' <=> EnoughStarted(x)
  BY <1>2 DEF vars, workerVars, controlVars, EnoughStarted, Enough, EverStarted,
              ProcsOf
<1>3. CASE ProbeBegin /\ UNCHANGED vars
  <2>1. CASE probe' = probe /\ Answer("ok") /\ VisiblePools = {}
    BY <1>2, <1>3, <2>1 DEF ProbeInv, ProbeBegin, Answer
  <2>2. CASE /\ VisiblePools # {} /\ UNCHANGED <<answer, basis>>
             /\ probe' = [probe EXCEPT !.at = "pools", !.todo = VisiblePools]
    <3>1. VisiblePools = Pools /\ pc \notin {"create", "failed"}
      BY <2>2 DEF VisiblePools
    <3>2. probe'.at = "pools" /\ probe'.todo = Pools /\ probe'.pool = probe.pool
      BY <2>2, <3>1 DEF HealthTypeOK
    <3>3. probe.pool = {}
      BY <1>3 DEF ProbeBegin, ProbeInv
    <3> QED
      BY <1>2, <1>3, <2>2, <3>1, <3>2, <3>3 DEF ProbeInv, HealthTypeOK
  <2> QED
    BY <1>3, <2>1, <2>2 DEF ProbeBegin
<1>4. ASSUME NEW p \in Pools, ProbePool(p), UNCHANGED vars
      PROVE  ProbeInv'
  <2>1. /\ probe'.at = "workers" /\ probe'.todo = probe.todo \ {p}
        /\ probe'.pool = {p} /\ probe'.left = ProcsOf(p) /\ probe'.running = 0
        /\ probe.at = "pools" /\ UNCHANGED <<answer, basis>>
    BY <1>4 DEF ProbePool
  <2>2. 0 <= Cardinality(EverStartedOf(p)' \ ProcsOf(p))
    BY StartedFinite DEF EverStartedOf
  <2>3. pc' \notin {"create", "failed"}
    BY <1>2, <1>4, <2>1 DEF ProbeInv
  <2>4. \A x \in Pools \ (probe'.todo \cup probe'.pool) : EnoughStarted(x)'
    BY <1>2, <1>4, <2>1 DEF ProbeInv
  <2>5. answer' = "ok" => \A x \in basis' : EnoughStarted(x)'
    BY <1>2, <1>4, <2>1 DEF ProbeInv, HealthTypeOK
  <2> QED
    BY <2>1, <2>2, <2>3, <2>4, <2>5 DEF ProbeInv, ProcsOf
<1>5. ASSUME NEW q \in Proc, ProbeWorker(q), UNCHANGED vars
      PROVE  ProbeInv'
  BY <1>5, ProbeInvWorker
<1>6. CASE ProbeVerdict /\ UNCHANGED vars
  BY <1>6, ProbeInvVerdict
<1>7. CASE ProbeEnd /\ UNCHANGED vars
  <2>1. /\ probe'.at = "idle" /\ probe'.pool = {} /\ answer' = "ok"
        /\ probe.at = "pools" /\ probe.todo = {} /\ basis' \subseteq Pools
    BY <1>7 DEF ProbeEnd, Idle, Answer, VisiblePools
  <2>2. \A x \in Pools : EnoughStarted(x)
    BY <2>1 DEF ProbeInv
  <2>3. pc' \notin {"create", "failed"}
    BY <1>2, <1>7, <2>1 DEF ProbeInv
  <2> QED
    BY <1>2, <1>7, <2>1, <2>2, <2>3 DEF ProbeInv
<1> QED
  BY <1>1, <1>3, <1>4, <1>5, <1>6, <1>7 DEF HealthNext, Probe

\* A 200 of a request that found pools means that the desired share of every
\* pool has been started, in spite of the rounding of IsHealthy and of everything
\* that happens between its looks at two workers, for pools of up to 128
\* processes.  The 200s given before there are pools are not covered.
THEOREM HealthyIsEarned == SmallPools => (HealthSpec => []HealthyMeansStarted)
<1> SUFFICES ASSUME SmallPools PROVE HealthSpec => []HealthyMeansStarted
  OBVIOUS
<1>1. HealthInit => ProbeInv
  BY DEF HealthInit, ProbeInv, Idle
<1>2. /\ TypeOK /\ EndInv /\ HealthTypeOK /\ ProbeInv
      /\ [HealthNext]_<<vars, healthVars>>
      => ProbeInv'
  BY ProbeInvStep
<1>3. ProbeInv => HealthyMeansStarted
  BY DEF ProbeInv, HealthyMeansStarted, EnoughStarted
<1> QED
  BY TypeCorrect, EndsHandledOnce, ProbesAreInvisible, HealthTypeCorrect, <1>1, <1>2,
     <1>3, PTL DEF HealthSpec

===============================================================================
