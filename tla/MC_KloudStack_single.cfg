CONSTANTS
  k1 = k1
  k2 = k2
  t1 = t1
  t2 = t2
  Klouds = {k1}
  Tasks = {t1}
  Home <- MCOneHome
  Kinds = {"apply", "destroy"}
  MaxCrashes = 1
  MaxFaults = 0
  MaxDrops = 1
SPECIFICATION Spec
INVARIANTS
  SuccessIsTrue
  WorkIsGuarded
PROPERTIES
  FollowsLifecycle
CHECK_DEADLOCK FALSE
