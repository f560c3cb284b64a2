SPECIFICATION Spec
CONSTANTS
  a1 = a1
  a2 = a2
  ap = ap
  b1 = b1
  bp = bp
  a = a
  b = b
  Proc = {a1}
  Proxies = {}
  Limited = {a1}
  Pools = {a}
  PoolOf <- MCPoolOf
  MaxRestarts <- OneRestart
  MaxGen = 1
INVARIANTS
  NoSelfKill
