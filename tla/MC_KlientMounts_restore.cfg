CONSTANTS
  m1 = m1
  m2 = m2
  p1 = p1
  p2 = p2
  t1 = t1
  t2 = t2
  home = home
  Boot = Boot
  NoMount = NoMount
  Machines = {m1, m2}
  Paths = {p1, p2}
  Folders = {home}
  Tasks = {t1}
  MaxAttempts = 2
  MaxMounts = 2
  MaxFaults = 1
  MaxCrashes = 1
SPECIFICATION FairSpec
INVARIANTS
  TypeOK
  QuietSaved
  QuietServed
PROPERTIES
  EveryoneFinishes
  OnlyUnmountForgets
CHECK_DEADLOCK FALSE
