----------------------------- MODULE PartsProofs -----------------------------
(***************************************************************************)
(* Theorems about the components around the supervisor in the composition  *)
(* of module MCParts.  First those about the monoceros command, for every  *)
(* group of processes.  Then, because the components share no state, the   *)
(* theorems about each of them are carried over to the composition that    *)
(* TLC checks.                                                             *)
(***************************************************************************)
EXTENDS MCParts, WorkerPartsProofs, ConfigurationProofs, HealthRatioProofs

-------------------------------------------------------------------------------
\* The monoceros command: the inductive invariant, in parts.

\* The result of the supervisor is the phase it returned in, and what that
\* phase says of the processes.  A crash is a death without a result, with the
\* processes in any state.
SupervisorResult ==
  /\ phase \notin {"done", "dead"} => result["supervisor"] = "none"
  /\ phase = "done" <=> result["supervisor"] = "nil"
  /\ phase = "done" => \A q \in Process : process[q] = "gone"
  /\ result["supervisor"] = "error" =>
       phase = "dead" /\ \A q \in Process : process[q] = "absent"

\* How far main is, and what it has seen.
MainProgress ==
  /\ main = "config" => \A q \in Process : process[q] = "absent"
  /\ main \in {"config", "select"} => firstError = "none"
  /\ main = "wait" => firstError # "none"
  /\ main = "exited" /\ firstError = "none" => \A q \in Process : process[q] = "absent"
  /\ main = "exited" /\ firstError # "none" => result["supervisor"] # "none"
  /\ main = "exited" /\ firstError = "error" => status = 1

\* A signal, or the supervisor's return, is behind everything that cancels the
\* admin server or makes it return nil.
CancelledForAReason ==
  /\ sigCh => signalled
  /\ sigGo = "caught" => signalled
  /\ adminCtx => signalled \/ (firstError # "none" /\ result["supervisor"] # "none")
  /\ admin = "shutdown" => adminCtx
  /\ result["admin"] = "nil" => adminCtx
  /\ firstError = "nil" => signalled \/ phase = "done"

IInv == MainTypeOK /\ SupervisorResult /\ MainProgress /\ CancelledForAReason

-------------------------------------------------------------------------------

LEMMA InitIInv == MainInit => IInv
BY DEF MainInit, GroupInit, IInv, MainTypeOK, SupervisorResult, MainProgress,
       CancelledForAReason, Goroutine, Result

\* main and the signal goroutine leave the group and the results alone.
LEMMA SignalSteps ==
  ASSUME IInv,
         \/ LoadConfError \/ ValidateOnly \/ StartCore
         \/ Signal \/ CatchSignal \/ CancelAdmin \/ SignalGoroutineReturns
  PROVE  IInv'
<1> USE DEF IInv, MainTypeOK, SupervisorResult, MainProgress, CancelledForAReason,
            Goroutine, Result, groupVars, signalVars, adminVars, mainVars, InCore
<1>1. CASE LoadConfError
  BY <1>1 DEF LoadConfError
<1>2. CASE ValidateOnly
  BY <1>2 DEF ValidateOnly
<1>3. CASE StartCore
  BY <1>3 DEF StartCore
<1>4. CASE Signal
  BY <1>4 DEF Signal
<1>5. CASE CatchSignal
  <2>1. UNCHANGED <<process, phase, signalled, adminVars, mainVars, result>>
    BY <1>5 DEF CatchSignal
  <2>2. signalled /\ sigGo' = "caught" /\ ~sigCh' /\ sigCh' \in BOOLEAN
        /\ closing' \in BOOLEAN
    BY <1>5 DEF CatchSignal
  <2>3. MainTypeOK'
    BY <2>1, <2>2
  <2>4. SupervisorResult' /\ MainProgress'
    BY <2>1
  <2>5. CancelledForAReason'
    BY <2>1, <2>2
  <2> QED
    BY <2>3, <2>4, <2>5
<1>6. CASE CancelAdmin
  BY <1>6 DEF CancelAdmin
<1>7. CASE SignalGoroutineReturns
  BY <1>7 DEF SignalGoroutineReturns
<1> QED
  BY <1>1, <1>2, <1>3, <1>4, <1>5, <1>6, <1>7

\* The admin server returns nil only after its context was cancelled.
LEMMA AdminSteps ==
  ASSUME IInv,
         ListenAndServe \/ AdminError \/ AdminShutdown \/ AdminShutdownReturns
  PROVE  IInv'
<1> USE DEF IInv, MainTypeOK, SupervisorResult, MainProgress, CancelledForAReason,
            Goroutine, Result, groupVars, signalVars, adminVars, mainVars, InCore,
            Return
<1>1. CASE ListenAndServe
  BY <1>1 DEF ListenAndServe
<1>2. CASE AdminError
  BY <1>2 DEF AdminError
<1>3. CASE AdminShutdown
  BY <1>3 DEF AdminShutdown
<1>4. CASE AdminShutdownReturns
  BY <1>4 DEF AdminShutdownReturns
<1> QED
  BY <1>1, <1>2, <1>3, <1>4

\* The supervisor returns an error before the first process is started, and
\* nil after the last one is gone; a crash is not a return.
LEMMA SupervisorSteps ==
  ASSUME IInv,
         \/ SupervisorError \/ SupervisorUp \/ SupervisorStops \/ SupervisorReturns
         \/ Crash
         \/ \E q \in Process : SupervisorWorks(q)
  PROVE  IInv'
<1> USE DEF IInv, MainTypeOK, SupervisorResult, MainProgress, CancelledForAReason,
            Goroutine, Result, signalVars, adminVars, mainVars, InCore, Others,
            Return
<1>1. CASE SupervisorError
  BY <1>1 DEF SupervisorError, Die
<1>2. CASE SupervisorUp
  BY <1>2 DEF SupervisorUp, Launched
<1>3. CASE SupervisorStops
  BY <1>3 DEF SupervisorStops, Stop
<1>4. CASE SupervisorReturns
  BY <1>4 DEF SupervisorReturns, Finish
<1>5. ASSUME NEW q \in Process, SupervisorWorks(q)
      PROVE  IInv'
  <2>1. CASE Launch(q)
    BY <1>5, <2>1 DEF SupervisorWorks, Launch, Set
  <2>2. CASE End(q)
    BY <1>5, <2>2 DEF SupervisorWorks, End, Set
  <2>3. CASE Respawn(q)
    BY <1>5, <2>3 DEF SupervisorWorks, Respawn, Set
  <2>4. CASE Lose(q)
    <3>1. closing' \in BOOLEAN
      <4>1. closing \in BOOLEAN
        BY DEF MainTypeOK
      <4> QED
        BY <2>4, <4>1 DEF Lose
    <3>2. process' = [process EXCEPT ![q] = "gone"] /\ phase \in {"up", "stopping"}
      BY <2>4 DEF Lose, Set
    <3>3. UNCHANGED <<phase, Others, result>>
      BY <1>5, <2>4 DEF SupervisorWorks, Lose
    <3> QED
      BY <1>5, <3>1, <3>2, <3>3 DEF SupervisorWorks
  <2> QED
    BY <1>5, <2>1, <2>2, <2>3, <2>4 DEF SupervisorWorks
<1>6. CASE Crash
  BY <1>6 DEF Crash, Die
<1> QED
  BY <1>1, <1>2, <1>3, <1>4, <1>5, <1>6

\* The first result: nil from the admin server before the supervisor has
\* returned means that a signal came.
LEMMA MainSteps ==
  ASSUME IInv, Exit \/ Exited \/ \E g \in Goroutine : FirstResult(g)
  PROVE  IInv'
<1> USE DEF IInv, MainTypeOK, SupervisorResult, MainProgress, CancelledForAReason,
            Goroutine, Result, groupVars, signalVars, adminVars, mainVars
<1>1. CASE Exit
  BY <1>1 DEF Exit
<1>2. CASE Exited
  BY <1>2 DEF Exited, Over, coreVars
<1>3. ASSUME NEW g \in Goroutine, FirstResult(g)
      PROVE  IInv'
  <2>1. CASE g = "admin"
    BY <1>3, <2>1 DEF FirstResult
  <2>2. CASE g = "supervisor"
    BY <1>3, <2>2 DEF FirstResult
  <2> QED
    BY <2>1, <2>2
<1> QED
  BY <1>1, <1>2, <1>3

LEMMA NextIInv == IInv /\ [MainNext]_coreVars => IInv'
<1> SUFFICES ASSUME IInv, [MainNext]_coreVars
             PROVE  IInv'
  OBVIOUS
<1>1. CASE UNCHANGED coreVars
  BY <1>1 DEF coreVars, groupVars, signalVars, adminVars, mainVars, IInv, MainTypeOK,
              SupervisorResult, MainProgress, CancelledForAReason
<1> QED
  BY <1>1, SignalSteps, AdminSteps, SupervisorSteps, MainSteps DEF MainNext

LEMMA Inductive == MainSpec => []IInv
BY InitIInv, NextIInv, PTL DEF MainSpec

-------------------------------------------------------------------------------

\* mainCore's contexts, channels and results, and its goroutines, keep their
\* types, for every group of processes.
THEOREM MonocerosTypes == MainSpec => []MainTypeOK
<1>1. IInv => MainTypeOK
  BY DEF IInv
<1> QED
  BY <1>1, Inductive, PTL

\* However many processes there are and whichever of its goroutines ends first,
\* mainCore returns only when each process is gone or was never started, although
\* the program may also crash at any point and leave them behind.
THEOREM NothingLeftBehind == MainSpec => []NoProcessLeftBehind
<1>1. IInv => NoProcessLeftBehind
  BY DEF IInv, MainTypeOK, Result, Goroutine, SupervisorResult, MainProgress,
         NoProcessLeftBehind
<1> QED
  BY <1>1, Inductive, PTL

\* Without a signal the admin server is cancelled only when the supervisor has
\* returned.
THEOREM AdminOutlivesSupervisor == MainSpec => []AdminServesToTheEnd
<1>1. IInv => AdminServesToTheEnd
  BY DEF IInv, CancelledForAReason, AdminServesToTheEnd
<1> QED
  BY <1>1, Inductive, PTL

\* Without a signal the exit status is 0 only after the supervisor has ended
\* all processes.
THEOREM StatusIsTrue == MainSpec => []CleanExit
<1>1. IInv => CleanExit
  BY DEF IInv, MainTypeOK, Result, MainProgress, CancelledForAReason, CleanExit
<1> QED
  BY <1>1, Inductive, PTL

-------------------------------------------------------------------------------
\* The composition.

\* A step of the composition is a step of the component, or leaves it alone.
LEMMA StepOfEach ==
  ASSUME [Next]_vars
  PROVE  /\ [MainNext]_coreVars /\ [LogNext]_logVars /\ [LimiterNext]_limiterVars
         /\ [EnvoyNext]_envoyVars /\ [ConfNext]_confVars
         /\ [MemoryNext]_memoryVars /\ [BinNext]_binVars /\ [RatioNext]_ratioVars
<1>1. CASE Moves("main", MainNext)
  BY <1>1, Zenon DEF Moves
<1>2. CASE Moves("log", LogNext)
  BY <1>2, Zenon DEF Moves
<1>3. CASE Moves("limiter", LimiterNext)
  BY <1>3, Zenon DEF Moves
<1>4. CASE Moves("envoy", EnvoyNext)
  BY <1>4, Zenon DEF Moves
<1>5. CASE Moves("conf", ConfNext)
  BY <1>5, Zenon DEF Moves
<1>6. CASE Moves("memory", MemoryNext)
  BY <1>6, Zenon DEF Moves
<1>7. CASE Moves("bin", BinNext)
  BY <1>7, Zenon DEF Moves
<1>8. CASE Moves("ratio", RatioNext)
  BY <1>8, Zenon DEF Moves
<1>9. CASE UNCHANGED vars
  BY <1>9, Zenon DEF vars
<1> QED
  BY <1>1, <1>2, <1>3, <1>4, <1>5, <1>6, <1>7, <1>8, <1>9, Zenon DEF Next

\* Whichever component moves, every component follows its own specification.
LEMMA EachFollowsItsSpec ==
  Spec => /\ MainSpec /\ LogSpec /\ LimiterSpec /\ EnvoySpec /\ ConfSpec
          /\ MemorySpec /\ BinSpec /\ RatioSpec
<1>1. Init => /\ MainInit /\ LogInit /\ LimiterInit /\ EnvoyInit /\ ConfInit
              /\ MemoryInit /\ BinInit /\ RatioInit
  BY Zenon DEF Init
<1>2. [Next]_vars =>
        /\ [MainNext]_coreVars /\ [LogNext]_logVars /\ [LimiterNext]_limiterVars
        /\ [EnvoyNext]_envoyVars /\ [ConfNext]_confVars
        /\ [MemoryNext]_memoryVars /\ [BinNext]_binVars /\ [RatioNext]_ratioVars
  BY StepOfEach
<1> QED
  BY <1>1, <1>2, PTL
     DEF Spec, MainSpec, LogSpec, LimiterSpec, EnvoySpec, ConfSpec, MemorySpec, BinSpec,
         RatioSpec

\* All components keep their types in the composition, for all values of its
\* constants that PartsAssumption admits.
THEOREM PartsTypeCorrect == Spec => []TypeOK
<1>1. LimiterConstants /\ EnvoyConstants
  BY PartsAssumption
<1>2. EnvoySpec => []EnvoyTypeOK
  BY <1>1, EnvoyTypeCorrect
<1>3. MainTypeOK /\ LogTypeOK /\ LimiterTypeOK /\ EnvoyTypeOK /\ MemoryTypeOK /\ BinTypeOK
        => TypeOK
  BY DEF TypeOK
<1> QED
  BY <1>1, <1>2, <1>3, EachFollowsItsSpec, MonocerosTypes, LogTypeCorrect,
     LimiterTypeCorrect, MemoryTypeCorrect, BinTypeCorrect, PTL

\* The theorems about the components, in the composition: this is what the run
\* checks on a small instance.
COROLLARY PartsAreSafe ==
  Spec => /\ [](NoProcessLeftBehind /\ AdminServesToTheEnd /\ CleanExit)
          /\ [](NothingLost /\ OneMonitor /\ NotTooEarly /\ JitterInRange)
          /\ [](OwnConfig /\ NotRefusedLater)
          /\ [](EndedNotRunning /\ FirstSignalDecides /\ NoRequestCut)
<1>1. LimiterConstants /\ EnvoyConstants /\ ConfigConstants
  BY PartsAssumption
<1>2. EnvoySpec => []OwnConfig
  BY <1>1, ProxiesKeepApart
<1> QED
  BY <1>1, <1>2, EachFollowsItsSpec,
     NothingLeftBehind, AdminOutlivesSupervisor, StatusIsTrue, NoLineLost, FlagIsExact,
     NeverTooEarly, JitterBounded, AcceptedIsNotRefused, EndedStaysEnded,
     FirstSignalCounts, RequestsAreAnswered, PTL

\* However processes start and end, and whatever desired_healthy_percentage is,
\* IsHealthy answers as exact arithmetic would, but for 53 and 59 of a hundred.
THEOREM VerdictIsExact == Spec => []ExactVerdict
<1> DEFINE InPool == size \in 1 .. MaxPool /\ running \in 0 .. size
<1>1. RatioInit => InPool
  BY DEF RatioInit
<1>2. InPool /\ [RatioNext]_ratioVars => InPool'
  BY DEF RatioNext, ratioVars
<1>3. InPool => ExactVerdict
  <2> SUFFICES ASSUME InPool, NEW d \in Percent
               PROVE  Healthy(running, size, d) <=>
                        100 * running >= d * size /\ ~Late(running, size, d)
    BY DEF ExactVerdict
  <2>1. size \in 1 .. 128 /\ running \in 0 .. size /\ d \in Int
    BY PartsAssumption DEF RatioConstants, Percent
  <2> QED
    BY <2>1, HealthyExactly
<1> QED
  BY <1>1, <1>2, <1>3, EachFollowsItsSpec, PTL DEF RatioSpec

===============================================================================
