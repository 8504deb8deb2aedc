CONSTANTS
  i1 = i1
  i2 = i2
  i3 = i3
  v1 = v1
  ssh = ssh
  web = web
  Kite = Kite
  NoIdent = NoIdent
  NoVHost = NoVHost
  NoName = NoName
  NotPending = NotPending
  Idents = {i1, i2}
  VHosts = {v1}
  Host = v1
  Names = {ssh, web}
  From = 1
  To = 3
  MaxEvents = 3
  MaxRetries = 1
SPECIFICATION FairSpec
INVARIANTS
  TypeOK
  QuietAgrees
  QuietRouted
PROPERTIES
  ServicesRestored
CHECK_DEADLOCK FALSE
