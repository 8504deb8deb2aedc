CONSTANTS
  k1 = k1
  k2 = k2
  c1 = c1
  c2 = c2
  q1 = q1
  i1 = i1
  Klouds = {k1}
  Core = {c1, c2}
  Infos = {i1}
  Queues = {}
  Home <- MCOneHome
  Methods = {"start", "stop", "resize"}
  MaxCrashes = 0
  MaxFaults = 0
  MaxConsole = 1
SPECIFICATION FairSpec
INVARIANTS
  TypeOK
  FinalEventAgreesUnlessStartFailed
  EventerOwned
  NoDanglingEvent
PROPERTIES
  StrayWritesAreKnown
  LockReleased
  EventFinishes
