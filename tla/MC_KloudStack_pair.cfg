CONSTANTS
  k1 = k1
  k2 = k2
  t1 = t1
  t2 = t2
  Klouds = {k1, k2}
  Tasks = {t1, t2}
  Home <- MCHome
  Kinds = {"apply", "destroy"}
  MaxCrashes = 0
  MaxFaults = 1
  MaxDrops = 0
SPECIFICATION FairSpec
INVARIANTS
  TypeOK
  BuildingHasWorker
PROPERTIES
  DeletedForGood
  BuildingEnds
CHECK_DEADLOCK FALSE
