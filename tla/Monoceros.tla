------------------------------ MODULE Monoceros ------------------------------
(***************************************************************************)
(* The monoceros command (cmd/monoceros/main.go): mainCore with its signal *)
(* goroutine, the admin server (internal/admin/admin.go) and the           *)
(* supervisor.  The supervisor is taken at its word: it is the process     *)
(* group of ProcessGroup, which the module Supervisor implements; closing  *)
(* is its context, phase and process say how far it is.                    *)
(***************************************************************************)
EXTENDS ProcessGroup, Naturals

VARIABLES
  main,         \* config, select, wait (in wg.Wait), exited, crashed
  status,       \* the exit status, once main has exited
  firstError,   \* none, nil or error
  sigCh,        \* a signal waits in the channel of signal.Notify (capacity 1)
  sigGo,        \* the signal goroutine: select, caught, done
  signalled,    \* history: a signal has arrived
  adminCtx,     \* the admin server's context has been cancelled
  admin,        \* AdminInterface.Run: idle, select, shutdown, returned
  listener,     \* server.ListenAndServe: none, opening, open, failed, closed
  result        \* what each Run has returned: none, nil or error

signalVars == <<sigCh, sigGo, signalled>>
adminVars  == <<adminCtx, admin, listener>>
mainVars   == <<main, status, firstError>>
coreVars == <<groupVars, signalVars, adminVars, mainVars, result>>

Goroutine == {"admin", "supervisor"}

MainInit ==
  /\ GroupInit
  /\ main = "config" /\ status = 0 /\ firstError = "none"
  /\ sigCh = FALSE /\ sigGo = "none" /\ signalled = FALSE
  /\ adminCtx = FALSE /\ admin = "idle" /\ listener = "none"
  /\ result = [g \in Goroutine |-> "none"]

\* mainCore has begun and the program has not ended.
InCore == main \in {"select", "wait"}

-------------------------------------------------------------------------------
\* main and the beginning of mainCore.

\* LoadConf fails: logger.Fatal.
LoadConfError ==
  /\ main = "config"
  /\ main' = "exited" /\ status' = 1
  /\ UNCHANGED <<groupVars, signalVars, adminVars, firstError, result>>

\* --validate: the configuration has been read and is valid.
ValidateOnly ==
  /\ main = "config"
  /\ main' = "exited"
  /\ UNCHANGED <<groupVars, signalVars, adminVars, status, firstError, result>>

\* mainCore, up to its select: three goroutines have been started.
StartCore ==
  /\ main = "config"
  /\ main' = "select"
  /\ sigGo' = "select"
  /\ admin' = "select" /\ listener' = "opening"
  /\ UNCHANGED <<groupVars, sigCh, signalled, adminCtx, status, firstError,
                 result>>

-------------------------------------------------------------------------------
\* The signal goroutine.

\* SIGINT or SIGTERM arrives; signal.Notify drops it if one is waiting already.
Signal ==
  /\ InCore /\ ~sigCh
  /\ sigCh' = TRUE /\ signalled' = TRUE
  /\ UNCHANGED <<groupVars, sigGo, adminVars, mainVars, result>>

\* The goroutine takes the signal and calls supervisorCancel.
CatchSignal ==
  /\ InCore /\ sigGo = "select" /\ sigCh
  /\ sigGo' = "caught" /\ sigCh' = FALSE
  /\ closing' = TRUE
  /\ UNCHANGED <<process, phase, signalled, adminVars, mainVars, result>>

\* It calls adminCancel and returns.
CancelAdmin ==
  /\ InCore /\ sigGo = "caught"
  /\ sigGo' = "done" /\ adminCtx' = TRUE
  /\ UNCHANGED <<groupVars, sigCh, signalled, admin, listener, mainVars, result>>

\* Mutant of SignalGoroutineReturns: the admin server is cancelled as well.
SignalGoroutineReturnsCancelling ==
  /\ InCore /\ sigGo = "select"
  /\ closing \/ adminCtx
  /\ sigGo' = "done" /\ adminCtx' = TRUE
  /\ UNCHANGED <<groupVars, sigCh, signalled, admin, listener, mainVars, result>>

\* One of the contexts is done without a signal: nobody reads signals any more.
SignalGoroutineReturns ==
  /\ InCore /\ sigGo = "select"
  /\ closing \/ adminCtx
  /\ sigGo' = "done"
  /\ UNCHANGED <<groupVars, sigCh, signalled, adminVars, mainVars, result>>

-------------------------------------------------------------------------------
\* AdminInterface.Run.

Return(g, r) == result' = [result EXCEPT ![g] = r]

\* ListenAndServe: the port is bound, or the server fails, now or later.
ListenAndServe ==
  /\ InCore
  /\ \/ listener = "opening" /\ listener' \in {"open", "failed"}
     \/ listener = "open" /\ listener' = "failed"
  /\ UNCHANGED <<groupVars, signalVars, adminCtx, admin, mainVars, result>>

\* err := <-errs
AdminError ==
  /\ InCore /\ admin = "select" /\ listener = "failed"
  /\ admin' = "returned" /\ Return("admin", "error")
  /\ UNCHANGED <<groupVars, signalVars, adminCtx, listener, mainVars>>

\* <-ctx.Done(): Shutdown closes the listener, or keeps it from opening.
AdminShutdown ==
  /\ InCore /\ admin = "select" /\ adminCtx
  /\ admin' = "shutdown"
  /\ listener' = IF listener = "failed" THEN listener ELSE "closed"
  /\ UNCHANGED <<groupVars, signalVars, adminCtx, mainVars, result>>

\* Shutdown returns: no request is left, or defaultDrainDuration is over.
AdminShutdownReturns ==
  /\ InCore /\ admin = "shutdown"
  /\ admin' = "returned"
  /\ \E r \in {"nil", "error"} : Return("admin", r)
  /\ UNCHANGED <<groupVars, signalVars, adminCtx, listener, mainVars>>

-------------------------------------------------------------------------------
\* Supervisor.Run.

Others == <<signalVars, adminVars, mainVars>>

\* createAndPreparePools fails before any process has been started.
SupervisorError ==
  /\ InCore /\ phase = "starting"
  /\ \A q \in Process : process[q] = "absent"
  /\ Die /\ Return("supervisor", "error")
  /\ UNCHANGED <<Others>>

\* RunAll, the processes, and the handlers of the event loops.
SupervisorWorks(q) ==
  /\ InCore
  /\ Launch(q) \/ End(q) \/ Respawn(q) \/ Lose(q)
  /\ UNCHANGED <<Others, result>>

SupervisorUp ==
  /\ InCore /\ Launched
  /\ UNCHANGED <<Others, result>>

\* <-ctx.Done() in the main loop.
SupervisorStops ==
  /\ InCore /\ Stop
  /\ UNCHANGED <<Others, result>>

SupervisorReturns ==
  /\ InCore /\ Finish /\ Return("supervisor", "nil")
  /\ UNCHANGED <<Others>>

(***************************************************************************)
(* The program dies while the supervisor works: kill(0, SIGKILL) instead   *)
(* of a worker, a panic nobody recovers (a log line, the jitter of a       *)
(* limiter, the arguments of a worker), or the runtime's fatal error for   *)
(* a map that is read and written.  The processes, in process groups of    *)
(* their own, stay as they are.                                            *)
(***************************************************************************)
Crash ==
  /\ InCore /\ Die
  /\ main' = "crashed"
  /\ UNCHANGED <<signalVars, adminVars, status, firstError, result>>

-------------------------------------------------------------------------------
\* The end of mainCore and main.

\* Mutant of FirstResult: the other goroutine is not cancelled.
FirstResultAlone(g) ==
  /\ main = "select" /\ result[g] # "none"
  /\ main' = "wait" /\ firstError' = result[g]
  /\ UNCHANGED <<groupVars, signalVars, adminVars, status, result>>

\* Mutant of FirstResult: an error of the supervisor is only logged.
FirstResultLogged(g) ==
  /\ main = "select" /\ result[g] # "none"
  /\ main' = "wait"
  /\ firstError' = IF g = "admin" THEN result[g] ELSE "nil"
  /\ closing' = (closing \/ g = "admin")
  /\ adminCtx' = (adminCtx \/ g = "supervisor")
  /\ UNCHANGED <<process, phase, signalVars, admin, listener, status, result>>

\* The select: the first result is kept and the other goroutine cancelled.
FirstResult(g) ==
  /\ main = "select" /\ result[g] # "none"
  /\ main' = "wait"
  /\ firstError' = result[g]
  /\ closing' = (closing \/ g = "admin")
  /\ adminCtx' = (adminCtx \/ g = "supervisor")
  /\ UNCHANGED <<process, phase, signalVars, admin, listener, status, result>>

\* Mutant of Exit: wg.Wait is missing.
ExitAtOnce ==
  /\ main = "wait"
  /\ main' = "exited" /\ status' = IF firstError = "error" THEN 1 ELSE 0
  /\ UNCHANGED <<groupVars, signalVars, adminVars, firstError, result>>

\* Mutant of Exit: the error is turned into status -1, which is 255.
ExitMinusOne ==
  /\ main = "wait" /\ \A g \in Goroutine : result[g] # "none"
  /\ main' = "exited"
  /\ status' = IF firstError = "error" THEN 255 ELSE 0
  /\ UNCHANGED <<groupVars, signalVars, adminVars, firstError, result>>

\* wg.Wait returns, mainCore returns firstError, main turns it into a status.
Exit ==
  /\ main = "wait" /\ \A g \in Goroutine : result[g] # "none"
  /\ main' = "exited"
  /\ status' = IF firstError = "error" THEN 1 ELSE 0
  /\ UNCHANGED <<groupVars, signalVars, adminVars, firstError, result>>

Over == main \in {"exited", "crashed"}

Exited == Over /\ UNCHANGED coreVars

MainNext ==
  \/ LoadConfError \/ ValidateOnly \/ StartCore
  \/ Signal \/ CatchSignal \/ CancelAdmin \/ SignalGoroutineReturns
  \/ ListenAndServe \/ AdminError \/ AdminShutdown \/ AdminShutdownReturns
  \/ SupervisorError \/ SupervisorUp \/ SupervisorStops \/ SupervisorReturns
  \/ \E q \in Process : SupervisorWorks(q)
  \/ \E g \in Goroutine : FirstResult(g)
  \/ Exit
  \/ Crash
  \/ Exited

MainSpec == MainInit /\ [][MainNext]_coreVars

-------------------------------------------------------------------------------
\* Correctness.

Result == {"none", "nil", "error"}

\* Every variable has its type: the contexts, channels and results of mainCore
\* and the states of the goroutines it starts.
MainTypeOK ==
  /\ process \in [Process -> {"absent", "up", "down", "gone"}]
  /\ phase \in {"starting", "up", "stopping", "done", "dead"}
  /\ closing \in BOOLEAN /\ adminCtx \in BOOLEAN
  /\ sigCh \in BOOLEAN /\ signalled \in BOOLEAN
  /\ main \in {"config", "select", "wait", "exited", "crashed"}
  /\ status \in {0, 1}
  /\ firstError \in Result
  /\ sigGo \in {"none", "select", "caught", "done"}
  /\ admin \in {"idle", "select", "shutdown", "returned"}
  /\ listener \in {"none", "opening", "open", "failed", "closed"}
  /\ result \in [Goroutine -> Result]

\* mainCore never returns while a process it started is still there: wg.Wait
\* waits for the supervisor, also when the admin server failed first.  A program
\* that crashes does not return, and leaves what runs behind.
NoProcessLeftBehind ==
  main = "exited" => \A q \in Process : process[q] \in {"absent", "gone"}

\* Without a signal /metrics and /health stay up until the supervisor is done:
\* while a used-up restart budget brings the processes down, for instance.
AdminServesToTheEnd ==
  adminCtx => signalled \/ result["supervisor"] # "none"

\* Unless a signal came in between, mainCore returns nil only after the
\* supervisor has ended all processes: a pool that cannot be created or a port
\* that is taken makes the exit status 1, whichever result comes first.
CleanExit ==
  main = "exited" /\ status = 0 /\ firstError # "none" /\ ~signalled
    => phase = "done"

\* The first signal and the failure of the admin server each stop the
\* supervisor, and once it has returned or all its processes are gone, the whole
\* program ends, however they overlap.  That the processes do end after that is
\* not claimed here: a proxy may keep Run waiting.
EveryEndEndsAll ==
  /\ signalled \/ listener = "failed" ~> phase = "stopping" \/ Over
  /\ \/ result["supervisor"] # "none"
     \/ phase = "stopping" /\ \A q \in Process : process[q] = "gone"
     ~> Over

===============================================================================
