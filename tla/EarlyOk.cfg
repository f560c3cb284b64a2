SPECIFICATION HealthSpec
CONSTANTS
  a1 = a1
  a2 = a2
  ap = ap
  b1 = b1
  bp = bp
  a = a
  b = b
  Proc = {a1, b1}
  Proxies = {}
  Limited = {}
  Pools = {a, b}
  PoolOf <- MCPoolOf
  MaxRestarts <- OneRestart
  MaxGen = 1
  Desired <- MCDesired
INVARIANT
  NeverHealthyTooEarly
