CONSTANTS
  free = free
  payer = payer
  c1 = c1
  e1 = e1
  w1 = w1
  NoUser = NoUser
  Users = {free}
  Paid = {}
  Exempt = {}
  Custom <- NoCustom
  Limits <- TwoLimits
  PaidMultiplier = 2
  Collectors = {c1}
  Enforcers = {e1}
  Workers = {w1}
  MaxUsage = 2
  MaxWeeks = 1
  MaxFaults = 1
SPECIFICATION FairSpec
INVARIANTS
  TypeOK
  OnlyOverusersPunished
  ScoreNeverInflated
PROPERTIES
  OverusersStopped
