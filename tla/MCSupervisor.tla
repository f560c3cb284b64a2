----------------------------- MODULE MCSupervisor -----------------------------
(***************************************************************************)
(* Small instances of Supervisor for TLC.  Processes and pools are model   *)
(* values; the workers of one pool are interchangeable.                    *)
(***************************************************************************)
EXTENDS Supervisor, TLC

CONSTANTS
  a1, a2, ap,   \* workers and proxy of the first pool
  b1, bp,       \* worker and proxy of the second pool
  a, b

\* A process belongs to the pool its name starts with.
MCPoolOf == [q \in Proc |-> IF q \in {a1, a2, ap} THEN a ELSE b]

\* No restarts, one, none in the first pool only, or more than a run can use up.
NoRestart    == [p \in Pools |-> 0]
OneRestart   == [p \in Pools |-> 1]
MixedRestart == [p \in Pools |-> IF p = a THEN 0 ELSE 1]
ManyRestart  == [p \in Pools |-> 9]

\* The two workers of pool a are set up alike.
WorkerSymmetry == Permutations({a1, a2})

===============================================================================
