------------------------------ MODULE LogStream ------------------------------
(***************************************************************************)
(* The output of one worker on its way to the output of Monoceros:         *)
(* realProcessWorker.StreamLogs reads the lines that go-cmd sends on the   *)
(* channels of the two streams, LogStdOut and LogStdErr                    *)
(* (worker_log_streamer.go) log them, and WaitForWorkerToCleanBuffer       *)
(* (worker_real.go) keeps handleProcessEnd from replacing the worker       *)
(* before the last line is out.                                            *)
(***************************************************************************)
EXTENDS Naturals, Sequences

CONSTANTS
  Line,       \* the kinds of lines the worker writes
  MaxLines    \* bound: how many lines it writes on each stream

(***************************************************************************)
(* The kinds of lines logJson tells apart: no JSON; a JSON object; an      *)
(* object that has a worker_id already; JSON that is no object and cannot  *)
(* be unmarshalled into a map; and null, which can, and leaves the map     *)
(* nil.                                                                    *)
(***************************************************************************)
LineKind == {"text", "object", "labelled", "scalar", "null"}

\* What is assumed of the constants.
LogConstants == Line \subseteq LineKind /\ MaxLines \in Nat

Stream == {"Stdout", "Stderr"}

VARIABLES
  cmd,         \* running, or exited (and its streams closed)
  written,     \* history: the lines written on each stream
  chan,        \* cmd.Stdout and cmd.Stderr: lines sent and not yet received
  reading,     \* the streams StreamLogs has not set to nil
  logged,      \* what has been logged of each stream, in which form
  failures,    \* failedToParseLogsCounter
  streamer,    \* StreamLogs: streaming, done (stdStreamChan closed), panicked
  waiter,      \* WaitForWorkerToCleanBuffer: none, waiting, returned
  streaming    \* isStreamingLogs: FALSE for the first proxy of a pool

flow == <<written, chan, logged, failures, streaming>>
logVars == <<flow, cmd, reading, streamer, waiter>>

LogInit ==
  /\ cmd = "running"
  /\ written = [s \in Stream |-> <<>>]
  /\ chan    = [s \in Stream |-> <<>>]
  /\ logged  = [s \in Stream |-> <<>>]
  /\ reading = Stream
  /\ failures = 0
  /\ streamer = "streaming"
  /\ waiter = "none"
  /\ streaming \in BOOLEAN

-------------------------------------------------------------------------------
\* The process and go-cmd.

Write(s, l) ==
  /\ cmd = "running" /\ streaming
  /\ Len(written[s]) < MaxLines
  /\ written' = [written EXCEPT ![s] = Append(@, l)]
  /\ chan' = [chan EXCEPT ![s] = Append(@, l)]
  /\ UNCHANGED <<cmd, reading, logged, failures, streamer, waiter, streaming>>

\* The process ends; go-cmd closes both channels behind the last line.
ProcessExits ==
  /\ cmd = "running"
  /\ cmd' = "exited"
  /\ UNCHANGED <<flow, reading, streamer, waiter>>

-------------------------------------------------------------------------------
\* StreamLogs.

\* logJson gives up on a line that is JSON, and counts it.
ParseFailure(l) == l \in {"scalar", "labelled"}

\* Flattened into the worker's own structure, or nested in a message of zap's.
Form(l) == IF l = "object" THEN "flat" ELSE "nested"

\* A line is received and logged, in LogStdOut or LogStdErr.
LogLine(s) ==
  /\ streamer = "streaming" /\ streaming
  /\ s \in reading /\ chan[s] # <<>>
  /\ LET l == Head(chan[s]) IN
       /\ l # "null"
       /\ chan' = [chan EXCEPT ![s] = Tail(@)]
       /\ logged' = [logged EXCEPT ![s] = Append(@, [line |-> l, form |-> Form(l)])]
       /\ failures' = IF ParseFailure(l) THEN failures + 1 ELSE failures
  /\ UNCHANGED <<cmd, written, reading, streamer, waiter, streaming>>

\* logJson assigns to an entry of the nil map that null was unmarshalled into.
LogNull(s) ==
  /\ streamer = "streaming" /\ streaming
  /\ s \in reading /\ chan[s] # <<>> /\ Head(chan[s]) = "null"
  /\ streamer' = "panicked"
  /\ UNCHANGED <<cmd, flow, reading, waiter>>

\* Mutant of StreamClosed: a closed stream is not set to nil.
StreamClosedAgain(s) ==
  /\ streamer = "streaming" /\ streaming
  /\ s \in reading /\ chan[s] = <<>> /\ cmd = "exited"
  /\ UNCHANGED logVars

\* The receive finds the channel closed and empty.
StreamClosed(s) ==
  /\ streamer = "streaming" /\ streaming
  /\ s \in reading /\ chan[s] = <<>> /\ cmd = "exited"
  /\ reading' = reading \ {s}
  /\ UNCHANGED <<cmd, flow, streamer, waiter>>

\* Mutant of StreamLogsReturns: one closed stream ends the loop.
StreamLogsReturnsEarly ==
  /\ streamer = "streaming"
  /\ streaming => reading # Stream
  /\ streamer' = "done"
  /\ UNCHANGED <<cmd, flow, reading, waiter>>

\* The loop ends, or is never entered; the deferred close of stdStreamChan.
StreamLogsReturns ==
  /\ streamer = "streaming"
  /\ streaming => reading = {}
  /\ streamer' = "done"
  /\ UNCHANGED <<cmd, flow, reading, waiter>>

-------------------------------------------------------------------------------
\* WaitForWorkerToCleanBuffer, called once the ProcessEnd has been received.

Wait ==
  /\ waiter = "none" /\ cmd = "exited" /\ streamer # "panicked"
  /\ waiter' = "waiting"
  /\ UNCHANGED <<cmd, flow, reading, streamer>>

WaitReturns ==
  /\ waiter = "waiting"
  /\ ~streaming \/ streamer = "done"
  /\ waiter' = "returned"
  /\ UNCHANGED <<cmd, flow, reading, streamer>>

\* The worker is replaced, or the panic has ended Monoceros.
Finished ==
  /\ (waiter = "returned" /\ streamer = "done") \/ streamer = "panicked"
  /\ UNCHANGED logVars

LogNext ==
  \/ \E s \in Stream, l \in Line : Write(s, l)
  \/ ProcessExits
  \/ \E s \in Stream : LogLine(s) \/ LogNull(s) \/ StreamClosed(s)
  \/ StreamLogsReturns
  \/ Wait \/ WaitReturns
  \/ Finished

LogSpec == LogInit /\ [][LogNext]_logVars

-------------------------------------------------------------------------------
\* Correctness.

\* A line as it was logged.
Entry == [line : Line, form : {"flat", "nested"}]

\* Every variable has its type: the channels, the streamer and the waiter.
LogTypeOK ==
  /\ cmd \in {"running", "exited"}
  /\ written \in [Stream -> Seq(Line)]
  /\ chan \in [Stream -> Seq(Line)]
  /\ reading \in SUBSET Stream
  /\ logged \in [Stream -> Seq(Entry)]
  /\ failures \in Nat
  /\ streamer \in {"streaming", "done", "panicked"}
  /\ waiter \in {"none", "waiting", "returned"}
  /\ streaming \in BOOLEAN

\* The lines of s that have been logged are the first that were written, in
\* the same order.
LoggedInOrder(s) ==
  /\ Len(logged[s]) <= Len(written[s])
  /\ \A i \in 1 .. Len(logged[s]) : logged[s][i].line = written[s][i]

\* WaitForWorkerToCleanBuffer returns, and the worker may be replaced, only
\* when every line it wrote has been logged, in order, on both streams.
NothingLost ==
  \A s \in Stream :
    /\ LoggedInOrder(s)
    /\ waiter = "returned" => Len(logged[s]) = Len(written[s])

\* worker_log_streamer.go: "We always attempt to flatten the log line if it is
\* a valid json and if not we log it as nested message": no line is fatal.
NoLineIsFatal == streamer # "panicked"

\* handleProcessEnd is not blocked forever by the wait for the log streams
\* ("there is no-one on the other side than can makes wait indefinitely"),
\* unless a line has ended Monoceros.
BufferEmptied ==
  cmd = "exited" ~> waiter = "returned" \/ streamer = "panicked"

===============================================================================
