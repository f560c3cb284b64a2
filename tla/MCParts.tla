------------------------------- MODULE MCParts -------------------------------
(***************************************************************************)
(* The components around the supervisor share no state with each other, so *)
(* a behaviour of all of them is an interleaving of behaviours of each,    *)
(* and a property of one of them holds in the interleaving if it holds of  *)
(* the component alone.  They are therefore checked one at a time: part    *)
(* says which one moves, the others rest in an initial state.              *)
(***************************************************************************)
EXTENDS Monoceros, LogStream, TimeLimiter, EnvoyConfig, Config, InMemoryWorker,
        Processbin, MCHealthRatio

CONSTANTS
  p1, p2,              \* Monoceros: a worker and a proxy
  c1, c2,              \* TimeLimiter: two calls of Monitor
  a, b, d1, d2         \* EnvoyConfig: two pools, two directories

\* A negative number, zero and a positive one.
MCInts == {-1, 0, 2}

VARIABLE part

ASSUME PartsAssumption ==
  /\ LogConstants /\ LimiterConstants /\ EnvoyConstants
  /\ ConfigConstants /\ ProcessbinConstants /\ RatioConstants

-------------------------------------------------------------------------------

Part == {"main", "log", "limiter", "envoy", "conf", "memory", "bin", "ratio"}

\* A part that does not move is in one of its initial states.
Init ==
  /\ part \in Part
  /\ part # "log"     => streaming = TRUE
  /\ part # "limiter" => lifespan = 2 /\ jitter = 0
  /\ part # "envoy"   => dir = {} /\ path = [p \in Pool |-> d1]
  /\ part # "conf"    => config = Base /\ adminPort = 0
  /\ part # "memory"  => exitAfter = FALSE /\ ignoreTerm = FALSE /\ hasLifespan = FALSE
  /\ part # "bin"     => ignoreSignals = FALSE /\ exitTimer = "none" /\ srv = "none"
  /\ part # "ratio"   => size = 1 /\ running = 0
  /\ MainInit /\ LogInit /\ LimiterInit /\ EnvoyInit /\ ConfInit
  /\ MemoryInit /\ BinInit /\ RatioInit

\* A step A of the part q: the others rest.
Moves(q, A) ==
  /\ part = q
  /\ A
  /\ q # "main"    => UNCHANGED coreVars
  /\ q # "log"     => UNCHANGED logVars
  /\ q # "limiter" => UNCHANGED limiterVars
  /\ q # "envoy"   => UNCHANGED envoyVars
  /\ q # "conf"    => UNCHANGED confVars
  /\ q # "memory"  => UNCHANGED memoryVars
  /\ q # "bin"     => UNCHANGED binVars
  /\ q # "ratio"   => UNCHANGED ratioVars
  /\ UNCHANGED part

Next ==
  \/ Moves("main", MainNext)
  \/ Moves("log", LogNext)
  \/ Moves("limiter", LimiterNext)
  \/ Moves("envoy", EnvoyNext)
  \/ Moves("conf", ConfNext)
  \/ Moves("memory", MemoryNext)
  \/ Moves("bin", BinNext)
  \/ Moves("ratio", RatioNext)

vars == <<part, coreVars, logVars, limiterVars, envoyVars, confVars, memoryVars,
          binVars, ratioVars>>

(***************************************************************************)
(* Fairness of the part that moves.                                        *)
(***************************************************************************)

\* Goroutines that can go on do, and Shutdown gives up after two seconds.  The
\* supervisor starts what it is to start, notices its context, and returns when
\* its processes are gone; that they ever are is not assumed, nor that a signal
\* comes, a port is taken or a start fails.
MainFairness ==
  /\ WF_vars(Moves("main", CatchSignal))
  /\ WF_vars(Moves("main", CancelAdmin))
  /\ WF_vars(Moves("main", AdminError))
  /\ WF_vars(Moves("main", AdminShutdown))
  /\ WF_vars(Moves("main", AdminShutdownReturns))
  /\ WF_vars(Moves("main", SupervisorUp))
  /\ WF_vars(Moves("main", SupervisorStops))
  /\ WF_vars(Moves("main", SupervisorReturns))
  /\ \A q \in Process :
       WF_vars(Moves("main", SupervisorWorks(q) /\ process[q] = "absent"))
  /\ \A g \in Goroutine : WF_vars(Moves("main", FirstResult(g)))
  /\ WF_vars(Moves("main", Exit))

\* StreamLogs and handleProcessEnd go on when they can.  A process need not
\* write or exit.
LogFairness ==
  /\ \A s \in Stream :
       /\ WF_vars(Moves("log", LogLine(s) \/ LogNull(s)))
       /\ WF_vars(Moves("log", StreamClosed(s)))
  /\ WF_vars(Moves("log", StreamLogsReturns))
  /\ WF_vars(Moves("log", Wait))
  /\ WF_vars(Moves("log", WaitReturns))

\* Goroutines go on and time passes.  Run need not receive the event: it stops
\* receiving when all processes have ended.
LimiterFairness ==
  /\ WF_vars(Moves("limiter", Tick))
  /\ WF_vars(Moves("limiter", NewTimeLimiter))
  /\ \A c \in Call : WF_vars(Moves("limiter", MonitorStep(c)))

\* The goroutine does not stop between two files.  The ends of two proxies wait
\* on one channel, which serves its senders first in, first out: none is passed
\* over forever, although the goroutine is busy with the other in between.
EnvoyFairness ==
  /\ \A p \in Pool :
       /\ SF_vars(Moves("envoy", PrepareProxy(p)))
       /\ WF_vars(Moves("envoy", \/ Render(p)
                                \/ RenderFails(p)
                                \/ ProxyPrepared(p)))
  /\ WF_vars(Moves("envoy", RunAll))

\* Goroutines are scheduled and timers expire; the loop reaches its channel and
\* the senders waiting there.  A shutdown need not come.
MemoryFairness ==
  /\ WF_vars(Moves("memory", StreamLogs))
  /\ WF_vars(Moves("memory", LogTick))
  /\ WF_vars(Moves("memory", ExitTimer))
  /\ WF_vars(Moves("memory", KillTimer))
  /\ WF_vars(Moves("memory", LifespanOver))
  /\ WF_vars(Moves("memory", Run))
  /\ \A e \in Event : WF_vars(Moves("memory", Receive(e)))

\* Timers expire, requests are answered (the server has a read timeout), and
\* select chooses at random among the channels that are ready.
BinFairness ==
  /\ WF_vars(Moves("bin", ExitAfter))
  /\ WF_vars(Moves("bin", logTimeoutFunc))
  /\ WF_vars(Moves("bin", Answer))
  /\ WF_vars(Moves("bin", TakeSignal))
  /\ WF_vars(Moves("bin", TakeTimeout))
  /\ WF_vars(Moves("bin", Log))
  /\ WF_vars(Moves("bin", ShutdownReturns))
  /\ WF_vars(Moves("bin", SignalTimeout))

Fairness ==
  /\ MainFairness /\ LogFairness /\ LimiterFairness /\ EnvoyFairness
  /\ MemoryFairness /\ BinFairness

Spec == Init /\ [][Next]_vars /\ Fairness

-------------------------------------------------------------------------------
\* The properties of the parts are in their modules.

\* Each part that moves in time keeps its types.  (Config and HealthRatio, which
\* only carry inputs, have none of their own.)
TypeOK ==
  /\ MainTypeOK /\ LogTypeOK /\ LimiterTypeOK /\ EnvoyTypeOK
  /\ MemoryTypeOK /\ BinTypeOK

===============================================================================
