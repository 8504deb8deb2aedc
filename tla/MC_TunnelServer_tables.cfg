CONSTANTS
  i1 = i1
  i2 = i2
  i3 = i3
  v1 = v1
  v2 = v2
  ssh = ssh
  Kite = Kite
  NoIdent = NoIdent
  NoVHost = NoVHost
  Idents = {i1, i2, i3}
  VHosts = {v1, v2}
  Names = {ssh}
  From = 1
  To = 3
  Requests <- MCRequests
SPECIFICATION Spec
INVARIANTS
  TypeOK
  HostsAgree
  SessionHasHost
  PortRouted
PROPERTIES
  PortsChangeHands
SYMMETRY MCSymmetry
