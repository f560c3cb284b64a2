------------------------------ MODULE Processbin ------------------------------
(***************************************************************************)
(* processbin, the program that stands for a worker in the end-to-end      *)
(* tests (cmd/processbin/main.go): its loop over signals, the end of its   *)
(* time and the next log line, and the HTTP server it may run.  What a log *)
(* line looks like and where it goes is left out.                          *)
(***************************************************************************)
EXTENDS Naturals, Sequences

CONSTANTS
  MaxSignals   \* bound on the signals sent to the process

\* What is assumed of the constant.
ProcessbinConstants == MaxSignals \in Nat

EndSignal == {"SIGTERM", "SIGINT"}

CodeOf(s) == IF s = "SIGTERM" THEN 143 ELSE 130

VARIABLES
  ignoreSignals,  \* --ignore-signals
  exitTimer,      \* --exit-after: none, waiting, over
  timeoutCh,      \* its channel, of capacity 1
  logTimer,       \* goroutines of logTimeoutFunc
  logCh,          \* their channel, of capacity 1
  osCh,           \* the signals not yet taken, at most 1
  sent,           \* all signals, as they came
  srv,            \* the HTTP server: none, new, listening, closed
  request,        \* it is serving a request
  binMain,        \* main: select, shutdown, wait, exited, panicked
  why,            \* what main is shutting down for: a signal, or "timeout"
  code            \* the exit status

time    == <<exitTimer, timeoutCh>>
lines   == <<logTimer, logCh>>
signals == <<osCh, sent>>
outcome == <<binMain, why, code>>
binVars == <<ignoreSignals, time, lines, signals, srv, request, outcome>>

\* main has read its flags, written its first line and started its goroutines.
BinInit ==
  /\ ignoreSignals \in BOOLEAN
  /\ exitTimer \in {"none", "waiting"} /\ timeoutCh = 0
  /\ logTimer = 1 /\ logCh = 0
  /\ osCh = <<>> /\ sent = <<>>
  /\ srv \in {"none", "new"} /\ request = FALSE
  /\ binMain = "select" /\ why = "timeout"
  /\ code = 0

Alive == binMain \notin {"exited", "panicked"}

-------------------------------------------------------------------------------
\* Around main: the operating system, the timers and the HTTP server.

\* signal.Notify does not wait: a signal that finds the channel full is lost.
Deliver(s) ==
  /\ Alive /\ Len(sent) < MaxSignals
  /\ sent' = Append(sent, s)
  /\ osCh' = IF osCh = <<>> THEN <<s>> ELSE osCh
  /\ UNCHANGED <<ignoreSignals, time, lines, srv, request, outcome>>

ExitAfter ==
  /\ Alive /\ exitTimer = "waiting"
  /\ exitTimer' = "over" /\ timeoutCh' = 1
  /\ UNCHANGED <<ignoreSignals, lines, signals, srv, request, outcome>>

logTimeoutFunc ==
  /\ Alive /\ logTimer > 0 /\ logCh = 0
  /\ logTimer' = logTimer - 1 /\ logCh' = 1
  /\ UNCHANGED <<ignoreSignals, time, signals, srv, request, outcome>>

\* startHttpServer's goroutine.  ListenAndServe may fail, and after Shutdown it
\* returns ErrServerClosed at once, which is no failure.
startHttpServer ==
  /\ Alive /\ srv = "new"
  /\ \/ srv' = "listening" /\ UNCHANGED <<binMain, code>>
     \/ binMain' = "panicked" /\ code' = 2 /\ UNCHANGED srv
  /\ UNCHANGED <<ignoreSignals, time, lines, signals, request, why>>

Request ==
  /\ Alive /\ srv = "listening" /\ ~request
  /\ request' = TRUE
  /\ UNCHANGED <<ignoreSignals, time, lines, signals, srv, outcome>>

Answer ==
  /\ Alive /\ request
  /\ request' = FALSE
  /\ UNCHANGED <<ignoreSignals, time, lines, signals, srv, outcome>>

-------------------------------------------------------------------------------
\* The loop of main.

\* The first part of Shutdown: no connection is accepted any more.
CloseListeners == srv' = IF srv = "none" THEN "none" ELSE "closed"

TakeSignal ==
  /\ binMain = "select" /\ osCh # <<>>
  /\ why' = Head(osCh) /\ osCh' = <<>>
  /\ binMain' = "shutdown"
  /\ CloseListeners
  /\ UNCHANGED <<ignoreSignals, time, lines, sent, request, code>>

\* Mutant of TakeTimeout: the program ends without a Shutdown.
TakeTimeoutAtOnce ==
  /\ binMain = "select" /\ timeoutCh > 0
  /\ timeoutCh' = 0
  /\ binMain' = "exited"
  /\ UNCHANGED <<ignoreSignals, exitTimer, lines, signals, srv, request, why, code>>

TakeTimeout ==
  /\ binMain = "select" /\ timeoutCh > 0
  /\ why' = "timeout" /\ timeoutCh' = 0
  /\ binMain' = "shutdown"
  /\ CloseListeners
  /\ UNCHANGED <<ignoreSignals, exitTimer, lines, signals, request, code>>

\* log, and the timer of the next line.
Log ==
  /\ binMain = "select" /\ logCh > 0
  /\ logCh' = 0 /\ logTimer' = logTimer + 1
  /\ UNCHANGED <<ignoreSignals, time, signals, srv, request, outcome>>

\* Mutant of ShutdownReturns: a signal takes the HTTP server down, no more.
ShutdownReturnsToLoop ==
  /\ binMain = "shutdown" /\ ~request
  /\ binMain' = IF why = "timeout" THEN "exited" ELSE "select"
  /\ UNCHANGED <<ignoreSignals, time, lines, signals, srv, request, why, code>>

\* Shutdown returns once no request is being served; if closing a listener
\* failed it returns that error, and so does main, with status 0.
ShutdownReturns ==
  /\ binMain = "shutdown" /\ ~request
  /\ \/ binMain' = CASE why = "timeout" -> "exited"
                     [] why # "timeout" /\ ignoreSignals -> "select"
                     [] OTHER -> "wait"
     \/ srv # "none" /\ binMain' = "exited"
  /\ UNCHANGED <<ignoreSignals, time, lines, signals, srv, request, why, code>>

\* Mutant of SignalTimeout: the status is that of the signal that came last.
SignalTimeoutLast ==
  /\ binMain = "wait"
  /\ binMain' = "exited"
  /\ code' = IF osCh # <<>> THEN CodeOf(Head(osCh)) ELSE CodeOf(why)
  /\ UNCHANGED <<ignoreSignals, time, lines, signals, srv, request, why>>

\* The --signal-timeout is over: os.Exit.
SignalTimeout ==
  /\ binMain = "wait"
  /\ binMain' = "exited"
  /\ code' = CodeOf(why)
  /\ UNCHANGED <<ignoreSignals, time, lines, signals, srv, request, why>>

BinNext ==
  \/ \E s \in EndSignal : Deliver(s)
  \/ ExitAfter \/ logTimeoutFunc \/ startHttpServer \/ Request \/ Answer
  \/ TakeSignal \/ TakeTimeout \/ Log \/ ShutdownReturns \/ SignalTimeout

BinSpec == BinInit /\ [][BinNext]_binVars

-------------------------------------------------------------------------------
\* Correctness.

\* Every variable has its type, and no channel is over its capacity.
BinTypeOK ==
  /\ ignoreSignals \in BOOLEAN
  /\ exitTimer \in {"none", "waiting", "over"}
  /\ timeoutCh \in 0..1 /\ logCh \in 0..1 /\ logTimer \in Nat
  /\ osCh \in Seq(EndSignal) /\ Len(osCh) <= 1
  /\ sent \in Seq(EndSignal)
  /\ srv \in {"none", "new", "listening", "closed"}
  /\ request \in BOOLEAN
  /\ binMain \in {"select", "shutdown", "wait", "exited", "panicked"}
  /\ why \in EndSignal \cup {"timeout"}
  /\ code \in {0, 2, 130, 143}

\* A process that a signal ended has the status of the first signal it was sent,
\* whatever came while it shut down or waited: the supervisor's SIGTERM shows.
FirstSignalDecides ==
  binMain = "exited" /\ code # 0 => ~ignoreSignals /\ code = CodeOf(Head(sent))

\* Shutdown comes before every end but a panic: no request is cut off.
NoRequestCut == binMain = "exited" => ~request

\* The program ends: on a signal, unless it ignores signals, and when its time is
\* over ("Time in seconds until the program exists"), in any case.
AlwaysEnds ==
  (~ignoreSignals /\ sent # <<>>) \/ exitTimer = "over" ~> ~Alive

===============================================================================
