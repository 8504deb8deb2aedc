CONSTANTS
  k1 = k1
  k2 = k2
  c1 = c1
  c2 = c2
  q1 = q1
  i1 = i1
  Klouds = {k1, k2}
  Core = {c1, c2}
  Infos = {}
  Queues = {q1}
  Home <- MCHome
  Methods = {"stop"}
  MaxCrashes = 1
  MaxFaults = 1
  MaxConsole = 1
SPECIFICATION Spec
INVARIANTS
  LockExclusive
PROPERTIES
  LockPromise
CHECK_DEADLOCK FALSE
