----------------------------- MODULE ProcessGroup -----------------------------
(***************************************************************************)
(* What Monoceros promises about the group of processes it supervises,     *)
(* without events, signals, timers or goroutines: a process that ended is  *)
(* replaced as long as the group is up, a process is given up only once    *)
(* the group has to come down (or, for a proxy, when it cannot be set up   *)
(* again), no process is started while the group comes down, and the       *)
(* supervisor is done exactly when all of its processes are.               *)
(***************************************************************************)
CONSTANTS
  Process,    \* the supervised processes
  Optional    \* those the group may lose without coming down

VARIABLES
  process,    \* each process: absent, up, down (ended, not yet dealt with), gone
  phase,      \* the supervisor: starting, up, stopping, done, dead
  closing     \* the group has been told to come down

groupVars == <<process, phase, closing>>

GroupInit ==
  /\ process = [q \in Process |-> "absent"]
  /\ phase = "starting"
  /\ closing = FALSE

Set(q, from, to) ==
  /\ process[q] = from
  /\ process' = [process EXCEPT ![q] = to]

Launch(q) ==
  /\ phase = "starting"
  /\ Set(q, "absent", "up")
  /\ UNCHANGED <<phase, closing>>

Launched ==
  /\ phase = "starting"
  /\ \A q \in Process : process[q] # "absent"
  /\ phase' = "up"
  /\ UNCHANGED <<process, closing>>

End(q) ==
  /\ phase \in {"starting", "up", "stopping"}
  /\ Set(q, "up", "down")
  /\ UNCHANGED <<phase, closing>>

Respawn(q) ==
  /\ phase = "up"
  /\ Set(q, "down", "up")
  /\ UNCHANGED <<phase, closing>>

Lose(q) ==
  /\ phase \in {"up", "stopping"}
  /\ Set(q, "down", "gone")
  /\ closing' \in {closing, TRUE}
  /\ q \in Optional \/ closing'
  /\ UNCHANGED phase

Close ==
  /\ phase \in {"starting", "up", "stopping"}
  /\ closing' = TRUE
  /\ UNCHANGED <<process, phase>>

Stop ==
  /\ phase = "up" /\ closing
  /\ phase' = "stopping"
  /\ UNCHANGED <<process, closing>>

Finish ==
  /\ phase = "stopping"
  /\ \A q \in Process : process[q] = "gone"
  /\ phase' = "done"
  /\ UNCHANGED <<process, closing>>

\* The configuration was rejected before any process was started, or Monoceros
\* itself was killed.
Die ==
  /\ phase \in {"starting", "up", "stopping"}
  /\ phase' = "dead"
  /\ UNCHANGED <<process, closing>>

GroupNext ==
  \/ \E q \in Process : Launch(q) \/ End(q) \/ Respawn(q) \/ Lose(q)
  \/ Launched
  \/ Close
  \/ Stop
  \/ Finish
  \/ Die

GroupSpec == GroupInit /\ [][GroupNext]_groupVars

===============================================================================
