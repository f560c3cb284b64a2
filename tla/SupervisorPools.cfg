SPECIFICATION Spec
CONSTANTS
  a1 = a1
  a2 = a2
  ap = ap
  b1 = b1
  bp = bp
  a = a
  b = b
  Proc = {a1, b1, bp}
  Proxies = {bp}
  Limited = {a1}
  Pools = {a, b}
  PoolOf <- MCPoolOf
  MaxRestarts <- MixedRestart
  MaxGen = 1
INVARIANTS
  CountersExact
  GaugesExact
PROPERTIES
  Implements
  ProxyAfterAWorker
