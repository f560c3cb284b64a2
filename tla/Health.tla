-------------------------------- MODULE Health --------------------------------
(***************************************************************************)
(* GET /health: a goroutine of the admin server runs Supervisor.IsHealthy, *)
(* which ranges over s.pools and, for each pool, over sw.workers, while    *)
(* the supervisor's goroutine goes on and writes both maps.                *)
(*                                                                         *)
(* Go leaves unsynchronised map accesses undefined.  The runtime's own     *)
(* check ends the program ("concurrent map iteration and map write") if    *)
(* it notices a write in the middle of a range, so such a write either     *)
(* goes unnoticed or is fatal.                                             *)
(***************************************************************************)
EXTENDS Supervisor, HealthRatio

CONSTANT
  Desired      \* desired_healthy_percentage of each pool

ASSUME HealthAssumption == Desired \in [Pools -> Int]

VARIABLES
  probe,       \* the request being answered
  answer,      \* the last answer: none, ok (200) or unavailable (503)
  basis,       \* history: the pools in s.pools when that answer was given
  fatal        \* the runtime has ended the program

healthVars == <<probe, answer, basis, fatal>>

Idle == [at |-> "idle", todo |-> {}, pool |-> {}, left |-> {}, running |-> 0]

HealthInit ==
  /\ Init
  /\ probe = Idle /\ answer = "none" /\ basis = {} /\ fatal = FALSE

\* s.pools, which is nil until createAndPreparePools has returned.
VisiblePools == IF pc \in {"create", "failed"} THEN {} ELSE Pools

\* The admin server answers.  s.pools is assigned once, so a request that has
\* ranged over pools is answered with the same pools there.
Answer(a) == answer' = a /\ basis' = VisiblePools

\* The range over s.pools begins; over no pools it is over at once, with a 200.
ProbeBegin ==
  /\ probe.at = "idle"
  /\ IF VisiblePools = {}
       THEN Answer("ok") /\ UNCHANGED probe
       ELSE /\ probe' = [probe EXCEPT !.at = "pools", !.todo = VisiblePools]
            /\ UNCHANGED <<answer, basis>>

\* WorkerPool.IsHealthy of one pool begins.
ProbePool(p) ==
  /\ probe.at = "pools" /\ p \in probe.todo
  /\ probe' = [at |-> "workers", todo |-> probe.todo \ {p}, pool |-> {p},
               left |-> ProcsOf(p), running |-> 0]
  /\ UNCHANGED <<answer, basis>>

\* Mutant of ProbeWorker: a worker that does not run counts against the others.
ProbeWorkerDown(q) ==
  /\ probe.at = "workers" /\ q \in probe.left
  /\ probe' = [probe EXCEPT !.left = @ \ {q},
                            !.running = IF Running(worker[q]) THEN @ + 1 ELSE @ - 1]
  /\ UNCHANGED <<answer, basis>>

ProbeWorker(q) ==
  /\ probe.at = "workers" /\ q \in probe.left
  /\ probe' = [probe EXCEPT !.left = @ \ {q},
                            !.running = IF Running(worker[q]) THEN @ + 1 ELSE @]
  /\ UNCHANGED <<answer, basis>>

\* Mutant of ProbeVerdict: an unhealthy pool does not end the loop.
ProbeVerdictLast ==
  /\ probe.at = "workers" /\ probe.left = {}
  /\ probe' = [probe EXCEPT !.at = "pools", !.pool = {}]
  /\ UNCHANGED <<answer, basis>>

\* The pool's verdict; the first unhealthy pool ends the loop with a 503.
ProbeVerdict ==
  /\ probe.at = "workers" /\ probe.left = {}
  /\ \E p \in probe.pool :
       IF Healthy(probe.running, Cardinality(ProcsOf(p)), Desired[p])
         THEN /\ probe' = [probe EXCEPT !.at = "pools", !.pool = {}]
              /\ UNCHANGED <<answer, basis>>
         ELSE probe' = Idle /\ Answer("unavailable")

\* Mutant of ProbeEnd: a 503 is never taken back.
ProbeEndSticky ==
  /\ probe.at = "pools" /\ probe.todo = {}
  /\ probe' = Idle
  /\ Answer(IF answer = "unavailable" THEN answer ELSE "ok")

ProbeEnd ==
  /\ probe.at = "pools" /\ probe.todo = {}
  /\ probe' = Idle /\ Answer("ok")

Probe ==
  /\ ~fatal
  /\ \/ ProbeBegin \/ ProbeVerdict \/ ProbeEnd
     \/ \E p \in Pools : ProbePool(p)
     \/ \E q \in Proc : ProbeWorker(q)
  /\ UNCHANGED <<vars, fatal>>

(***************************************************************************)
(* The step writes a map that the probe is ranging over: the info of a     *)
(* pool is stored back into s.pools, or a worker is replaced in sw.workers *)
(***************************************************************************)
RacingWrite ==
  \/ probe.at # "idle" /\ pc # "create" /\ runningProcesses' # runningProcesses
  \/ \E p \in probe.pool : \E q \in ProcsOf(p) : worker'[q].gen # worker[q].gen

SupervisorStep ==
  /\ ~fatal
  /\ Next
  /\ fatal' \in {FALSE, RacingWrite}
  /\ UNCHANGED <<probe, answer, basis>>

Dead == fatal /\ UNCHANGED <<vars, healthVars>>

HealthNext == Probe \/ SupervisorStep \/ Dead

HealthSpec == HealthInit /\ [][HealthNext]_<<vars, healthVars>>

-------------------------------------------------------------------------------
\* Correctness.

\* The request and its answer have their types, whatever the supervisor does.
HealthTypeOK ==
  /\ TypeOK
  /\ probe \in [at : {"idle", "pools", "workers"}, todo : SUBSET Pools,
                pool : SUBSET Pools, left : SUBSET Proc, running : Nat]
  /\ answer \in {"none", "ok", "unavailable"}
  /\ basis \in SUBSET Pools
  /\ fatal \in BOOLEAN

\* The process has a PID, or one of its predecessors had.
EverStarted(q) == worker[q].gen > 0 \/ HasPid(worker[q])

\* The share of p's processes that satisfy the predicate is what is desired.
Enough(p, S) == 100 * Cardinality(S \cap ProcsOf(p))
                  >= Desired[p] * Cardinality(ProcsOf(p))

\* A 200 given for pools that are there means that the desired share of each
\* has been started, although IsHealthy sees every worker at a different moment.
\* It says nothing of a 200 given while s.pools is empty.
HealthyMeansStarted ==
  answer = "ok" =>
    \A p \in basis : Enough(p, {q \in Proc : EverStarted(q)})

\* "Percentage of workers that should be started before declaring the pool
\* healthy" (internal/worker/config.go): every 200, also one given before
\* createAndPreparePools has filled s.pools.
NeverHealthyTooEarly ==
  answer = "ok" =>
    \A p \in Pools : Enough(p, {q \in Proc : EverStarted(q)})

\* Somebody keeps asking for the health; nothing is assumed of the supervisor.
HealthFairSpec == HealthSpec /\ WF_<<vars, healthVars>>(Probe)

\* Once there are pools and the processes no longer change, the answer is right
\* and stays right: it does not get stuck on what earlier requests saw.
AnswerConverges ==
  <>[]( \/ fatal \/ VisiblePools = {}
        \/ (answer = "ok") <=>
             \A p \in Pools : Enough(p, {q \in Proc : Running(worker[q])}))

===============================================================================
