CONSTANTS
  t1 = t1
  t2 = t2
  c1 = c1
  r1 = r1
  r2 = r2
  Tasks = {t1, t2}
  Contents = {c1}
  Asks <- MCSame
  Kinds = {"plan", "apply", "destroy"}
  Resources = {r1}
  MaxSignals = 2
  MaxFaults = 1
SPECIFICATION Spec
INVARIANTS
  TypeOK
  ContentExclusive
  WaitGroupCounts
  SuccessIsRecorded
  SuccessIsComplete
PROPERTIES
  JobsPromise
SYMMETRY MCSymmetry
CHECK_DEADLOCK FALSE
