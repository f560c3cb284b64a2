---------------------------- MODULE MCHealthRatio ----------------------------
(***************************************************************************)
(* The verdict of IsHealthy for pools of every size up to MaxPool and      *)
(* every number of running processes.                                      *)
(***************************************************************************)
EXTENDS HealthRatio

CONSTANT MaxPool    \* bound: the largest pool, its proxy included

\* Above 128 the shares need exponents that HealthRatio does not have.
RatioConstants == MaxPool \in 1 .. 128

VARIABLES running, size

\* The values of desired_healthy_percentage looked at; 101 can never be met.
Percent == 0 .. 101

RatioInit == size \in 1 .. MaxPool /\ running \in 0 .. size

\* A process starts or ends.
RatioNext ==
  running' \in {running - 1, running + 1} \cap (0 .. size) /\ UNCHANGED size

ratioVars == <<running, size>>

RatioSpec == RatioInit /\ [][RatioNext]_ratioVars

\* config.go: "Percentage of workers that should be started before declaring the
\* pool healthy": the verdict is the one of exact arithmetic, for every number
\* of processes that run and every percentage.  It comes one process late for
\* two percentages of a pool of exactly a hundred, and never too early.
ExactVerdict ==
  \A d \in Percent :
    Healthy(running, size, d) <=>
      100 * running >= d * size /\ ~Late(running, size, d)

===============================================================================
