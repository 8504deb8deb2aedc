CONSTANTS
  t1 = t1
  t2 = t2
  c1 = c1
  r1 = r1
  r2 = r2
  Tasks = {t1, t2}
  Contents = {c1}
  Asks <- MCSame
  Kinds = {"apply", "destroy"}
  Resources = {r1, r2}
  MaxSignals = 0
  MaxFaults = 0
SPECIFICATION Spec
INVARIANT NothingForgotten
CHECK_DEADLOCK FALSE
