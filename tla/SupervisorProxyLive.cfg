SPECIFICATION FairSpec
CONSTANTS
  a1 = a1
  a2 = a2
  ap = ap
  b1 = b1
  bp = bp
  a = a
  b = b
  Proc = {a1, ap}
  Proxies = {ap}
  Limited = {}
  Pools = {a}
  PoolOf <- MCPoolOf
  MaxRestarts <- ManyRestart
  MaxGen = 2
INVARIANTS
  KillOnlyAfterTerm
PROPERTIES
  Terminates
