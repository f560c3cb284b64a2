SPECIFICATION Spec
CONSTANTS
  p1 = p1
  p2 = p2
  Process = {p1, p2}
  Optional = {p2}
  Line = {"text", "object", "labelled", "scalar", "null"}
  MaxLines = 2
  c1 = c1
  c2 = c2
  Call = {c1, c2}
  Lifespans = {2, 4}
  Jitters = {0, 10, 50}
  MaxTime = 3
  a = a
  b = b
  d1 = d1
  d2 = d2
  Pool = {a, b}
  NoPool = NoPool
  Path = {d1, d2}
  Ints <- MCInts
  MaxSignals = 3
  MaxPool = 127
INVARIANT
  OwnConfigAlways
CHECK_DEADLOCK FALSE
