SPECIFICATION Spec
CONSTANTS
  a1 = a1
  a2 = a2
  ap = ap
  b1 = b1
  bp = bp
  a = a
  b = b
  Proc = {a1, a2}
  Proxies = {}
  Limited = {a1, a2}
  Pools = {a}
  PoolOf <- MCPoolOf
  MaxRestarts <- OneRestart
  MaxGen = 2
SYMMETRY WorkerSymmetry
INVARIANTS
  TypeOK
  NoPanic
  CountersExact
  CleanShutdown
  EscalationArmed
  NoWorkerForgotten
  NoWorkerAbandoned
  StrayKill
