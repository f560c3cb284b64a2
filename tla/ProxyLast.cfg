SPECIFICATION Spec
CONSTANTS
  a1 = a1
  a2 = a2
  ap = ap
  b1 = b1
  bp = bp
  a = a
  b = b
  Proc = {a1, a2, ap}
  Proxies = {ap}
  Limited = {}
  Pools = {a}
  PoolOf <- MCPoolOf
  MaxRestarts <- OneRestart
  MaxGen = 0
PROPERTIES
  ProxyLast
