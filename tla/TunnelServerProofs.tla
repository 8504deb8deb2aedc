------------------------- MODULE TunnelServerProofs ------------------------
(***************************************************************************)
(* Proofs about TunnelServer: for any number of clients, hosts, services   *)
(* and ports, and whatever ports the clients ask for.                      *)
(***************************************************************************)
EXTENDS TunnelServer, TLAPS

(* The search for a port finds a free one of the range, or none.           *)
LEMMA PickedPort ==
  ASSUME TypeOK
  PROVE  PickPort \in Ports \cup {None} /\ (PickPort # None => Free(PickPort))
<1> USE TunnelAssumption
<1>1. ASSUME NEW k \in 0 .. (To - From - 1) PROVE Try(k) \in Ports
  BY DEF TypeOK, Try, Ports, None
<1>2. CASE First = {}
  BY <1>2 DEF PickPort
<1>3. CASE First # {}
  <2>1. PICK k \in First : PickPort = Try(k)
    BY <1>3 DEF PickPort
  <2>2. k \in 0 .. (To - From - 1) /\ Free(Try(k))
    BY DEF First, Tries
  <2> QED BY <1>1, <2>1, <2>2
<1> QED BY <1>2, <1>3

LEMMA TakenPort ==
  ASSUME TypeOK, NEW r \in Requests
  PROVE  /\ r.port \in Ports \cup {None}
         /\ Take(r.port) \in {r.port, None}
         /\ Take(r.port) # None => Free(Take(r.port))
BY TunnelAssumption DEF Take

(* Ports are positive numbers, so none is None or Closed.                  *)
LEMMA PortsAreNot ==
  None \notin Ports /\ Closed \notin Ports /\ Absent \notin Ports /\ None # Absent
BY TunnelAssumption DEF Ports, None, Closed, Absent

-----------------------------------------------------------------------------
(* Types.                                                                  *)

LEMMA TypeRegister ==
  ASSUME TypeOK, NEW i \in Idents, NEW v \in VHosts, NEW services0 \in {{}, {Kite}},
         Register(i, v, services0)
  PROVE  TypeOK'
BY DEF TypeOK, Register

LEMMA TypeConnect ==
  ASSUME TypeOK, NEW i \in Idents, Connect(i)
  PROVE  TypeOK'
BY DEF TypeOK, Connect, tables

LEMMA TypeDelClient ==
  ASSUME TypeOK, NEW i \in Idents, DelClient(i), control' \in SUBSET Idents, ordered' \in BOOLEAN
  PROVE  TypeOK'
<1> USE TunnelAssumption DEF TypeOK
<1>1. CASE i \notin live
  BY <1>1 DEF DelClient, tables
<1>2. CASE i \in live
  <2>1. ASSUME NEW ls \in SUBSET Ports
        PROVE  /\ Shut(ls) \in [Ports -> Idents \cup {NoIdent}]
               /\ OnFile(ls) \in [Ports \cup {None} -> Ports \cup {None, Closed}]
    BY DEF Shut, OnFile
  <2>2. route' \in [Ports -> Idents \cup {NoIdent}]
        /\ services' \in [Ports \cup {None} -> Ports \cup {None, Closed}]
    <3> DEFINE gone == {services[p] : p \in LookedUp(i)} \cap Ports
    <3>1. route' = Shut(gone) /\ services' = OnFile(gone)
      BY <1>2 DEF DelClient
    <3>2. gone \in SUBSET Ports
      OBVIOUS
    <3> HIDE DEF gone
    <3> QED BY <2>1, <3>1, <3>2
  <2>3. /\ idents' \in [VHosts -> Idents \cup {NoIdent}]
        /\ hosts' \in [VHosts -> Idents \cup {NoIdent}]
    BY <1>2 DEF DelClient, DeleteHost
  <2>4. tun' \in [Idents -> [Entries -> Ports \cup {None, Absent}]]
    BY <1>2 DEF DelClient
  <2>5. live' \in SUBSET Idents /\ plain' \in BOOLEAN /\ UNCHANGED <<vhost, last>>
    BY <1>2 DEF DelClient
  <2> QED BY <2>2, <2>3, <2>4, <2>5
<1> QED BY <1>1, <1>2

LEMMA TypeDisconnect ==
  ASSUME TypeOK, NEW i \in Idents, Disconnect(i) \/ Refuse(i)
  PROVE  TypeOK'
<1>1. control' \in SUBSET Idents /\ ordered' \in BOOLEAN /\ DelClient(i)
  BY DEF Disconnect, Refuse, TypeOK
<1> QED BY <1>1, TypeDelClient

LEMMA TypeAddNew ==
  ASSUME TypeOK, NEW i \in Idents, NEW s \in Names, NEW r \in Requests, AddNew(i, s, r)
  PROVE  TypeOK'
<1> DEFINE wanted == Take(r.port)
           l == IF wanted # None THEN wanted ELSE PickPort
<1>1. l \in Ports \cup {None} /\ r.port \in Ports \cup {None}
  BY PickedPort, TakenPort
<1>2. Last(l) = l
  BY DEF Last
<1>3. tun' = [tun EXCEPT ![i][s] = IF l = None THEN r.port ELSE l]
  BY DEF AddNew
<1>4. tun' \in [Idents -> [Entries -> Ports \cup {None, Absent}]]
  BY <1>1, <1>3 DEF TypeOK, Entries
<1>5. plain' \in BOOLEAN /\ UNCHANGED <<live, vhost, idents, hosts, control, ordered>>
  BY DEF AddNew, TypeOK
<1>6. CASE l = None
  <2>1. UNCHANGED <<services, route, last>>
    BY <1>6 DEF AddNew
  <2> QED BY <1>4, <1>5, <2>1 DEF TypeOK
<1>7. CASE l # None
  <2>1. services' = [services EXCEPT ![r.port] = l] /\ route' = Opened(l, i)
        /\ last' = IF wanted = None THEN Last(l) ELSE last
    BY <1>7 DEF AddNew
  <2>2. route' \in [Ports -> Idents \cup {NoIdent}]
    BY <2>1 DEF Opened, TypeOK
  <2>3. services' \in [Ports \cup {None} -> Ports \cup {None, Closed}]
    BY <1>1, <2>1 DEF TypeOK
  <2>4. last' \in Ports \cup {None}
    BY <1>1, <1>2, <2>1 DEF TypeOK
  <2> QED BY <1>4, <1>5, <2>2, <2>3, <2>4 DEF TypeOK
<1> QED BY <1>6, <1>7

LEMMA TypeUpgrade ==
  ASSUME TypeOK, NEW i \in Idents, NEW s \in Names, NEW r \in Requests, Upgrade(i, s, r)
  PROVE  TypeOK'
<1> USE TunnelAssumption
<1>1. r.port \in Ports
  BY TakenPort DEF Upgrade, Upgrades
<1>2. ASSUME NEW ls \in SUBSET Ports
      PROVE  /\ Shut(ls) \in [Ports -> Idents \cup {NoIdent}]
             /\ OnFile(ls) \in [Ports \cup {None} -> Ports \cup {None, Closed}]
  BY DEF Shut, OnFile, TypeOK
<1>3. route' \in [Ports -> Idents \cup {NoIdent}]
      /\ services' \in [Ports \cup {None} -> Ports \cup {None, Closed}]
  BY <1>1, <1>2 DEF Upgrade
<1>4. tun' \in [Idents -> [Entries -> Ports \cup {None, Absent}]]
  BY <1>1 DEF Upgrade, TypeOK, Entries
<1> QED BY <1>3, <1>4 DEF Upgrade, TypeOK

LEMMA TypeRestart ==
  ASSUME TypeOK, Restart
  PROVE  TypeOK'
BY DEF TypeOK, Restart

LEMMA TypeStep ==
  ASSUME TypeOK, [Next]_serverVars
  PROVE  TypeOK'
<1>1. CASE UNCHANGED serverVars
  BY <1>1 DEF TypeOK, serverVars
<1>2. CASE Next
  <2>1. CASE \E i \in Idents, s \in Names, r \in Requests : Known(i, s, r)
    BY <2>1, <1>1 DEF Known
  <2> QED BY <1>2, <2>1, TypeRegister, TypeConnect, TypeDisconnect, TypeAddNew,
             TypeUpgrade, TypeRestart DEF Next
<1> QED BY <1>1, <1>2

(* Every table holds what its type says, for any number of clients and     *)
(* any range of ports: property TypeOK of the runs.                        *)
THEOREM TypeCorrect == Spec => []TypeOK
<1>1. Init => TypeOK
  BY TunnelAssumption DEF Init, TypeOK
<1>2. TypeOK /\ [Next]_serverVars => TypeOK'
  BY TypeStep
<1> QED BY <1>1, <1>2, PTL DEF Spec

-----------------------------------------------------------------------------
(* A port changes hands only by way of nobody: property PortsChangeHands.  *)
(* A listener is opened only on a free port.                               *)

HandsChange == \A p \in Ports : route[p] # NoIdent => route'[p] \in {route[p], NoIdent}

LEMMA HandsStep ==
  ASSUME TypeOK, [Next]_serverVars
  PROVE  HandsChange
<1> USE DEF HandsChange
<1>1. ASSUME NEW ls, NEW p \in Ports PROVE Shut(ls)[p] \in {route[p], NoIdent}
  BY DEF Shut
<1>2. ASSUME NEW i \in Idents, Disconnect(i) \/ Refuse(i) PROVE HandsChange
  BY <1>1, <1>2 DEF Disconnect, Refuse, DelClient, tables
<1>3. ASSUME NEW i \in Idents, NEW s \in Names, NEW r \in Requests, AddNew(i, s, r)
      PROVE  HandsChange
  <2> DEFINE l == IF Take(r.port) # None THEN Take(r.port) ELSE PickPort
  <2>1. CASE l = None
    BY <1>3, <2>1 DEF AddNew
  <2>2. CASE l # None
    <3>1. Free(l)
      BY <2>2, PickedPort, TakenPort
    <3>2. route' = [route EXCEPT ![l] = i]
      BY <1>3, <2>2 DEF AddNew, Opened
    <3> QED BY <3>1, <3>2 DEF Free, TypeOK
  <2> QED BY <2>1, <2>2
<1>4. ASSUME NEW i \in Idents, NEW s \in Names, NEW r \in Requests, Upgrade(i, s, r)
      PROVE  HandsChange
  <2> DEFINE gone == {services[tun[i][s]]} \cap Ports
  <2>1. route' = [Shut(gone) EXCEPT ![r.port] = i]
    BY <1>4 DEF Upgrade
  <2>2. Free(r.port)
    BY <1>4, TakenPort DEF Upgrade, Upgrades
  <2>3. ASSUME NEW p \in Ports, route[p] # NoIdent PROVE route'[p] = Shut(gone)[p]
    BY <2>1, <2>2, <2>3 DEF Free, Shut
  <2> QED BY <1>1, <2>3
<1>5. ASSUME UNCHANGED route PROVE HandsChange
  BY <1>5
<1>6. ASSUME Restart PROVE HandsChange
  BY <1>6 DEF Restart
<1> QED BY <1>2, <1>3, <1>4, <1>5, <1>6 DEF Next, Register, Connect, Known, serverVars

THEOREM PortsChangeHandsOnlyFreely == Spec => PortsChangeHands
<1>1. TypeOK /\ [Next]_serverVars => [HandsChange]_serverVars
  BY HandsStep
<1> QED BY <1>1, TypeCorrect, PTL DEF Spec, PortsChangeHands, HandsChange

-----------------------------------------------------------------------------
(* Virtual hosts.  A client with a control connection was issued a host,   *)
(* which makes HostsAgree and SessionHasHost inductive.                    *)

HostInv ==
  /\ TypeOK /\ HostsAgree /\ SessionHasHost
  /\ \A i \in control : vhost[i] # NoVHost

LEMMA HostRegister ==
  ASSUME HostInv, NEW i \in Idents, NEW v \in VHosts, NEW services0 \in {{}, {Kite}},
         Register(i, v, services0)
  PROVE  HostInv'
<1> USE TunnelAssumption
<1>1. TypeOK'
  BY TypeRegister DEF HostInv
<1>2. HostsAgree'
  BY DEF HostInv, TypeOK, HostsAgree, Register
<1>3. i \notin control
  BY DEF HostInv, Register
<1>4. \A j \in control' : vhost'[j] = vhost[j] /\ vhost'[j] # NoVHost
  BY <1>3 DEF HostInv, TypeOK, Register
<1>5. SessionHasHost'
  <2> SUFFICES ASSUME ordered', NEW j \in control' PROVE hosts'[vhost'[j]] = j
    BY DEF SessionHasHost
  <2>1. ordered /\ j \in control /\ vhost[j] # v
    BY DEF Register
  <2>2. hosts[vhost[j]] = j /\ vhost[j] \in VHosts
    BY <2>1 DEF HostInv, SessionHasHost, TypeOK
  <2> QED BY <1>4, <2>1, <2>2 DEF Register, HostInv, TypeOK
<1> QED BY <1>1, <1>2, <1>4, <1>5 DEF HostInv

LEMMA HostConnect ==
  ASSUME HostInv, NEW i \in Idents, Connect(i)
  PROVE  HostInv'
<1> USE TunnelAssumption
<1>1. TypeOK' /\ HostsAgree'
  BY TypeConnect DEF HostInv, HostsAgree, Connect, tables
<1>2. PICK v \in VHosts : hosts[v] = i
  BY DEF Connect, Hosted
<1>3. vhost[i] = v
  BY <1>2 DEF HostInv, HostsAgree
<1>4. SessionHasHost'
  BY <1>2, <1>3 DEF HostInv, SessionHasHost, Connect, tables
<1>5. \A j \in control' : vhost'[j] # NoVHost
  BY <1>3 DEF HostInv, Connect, tables
<1> QED BY <1>1, <1>4, <1>5 DEF HostInv

(* The host of the client that is deleted is deleted.                      *)
LEMMA HostDelClient ==
  ASSUME HostInv, NEW i \in Idents, vhost[i] # NoVHost, DelClient(i)
  PROVE  /\ HostsAgree' /\ vhost' = vhost
         /\ \A v \in VHosts : v # vhost[i] => hosts'[v] = hosts[v]
         /\ i \notin live => hosts' = hosts
<1> USE TunnelAssumption
<1>1. vhost[i] \in VHosts
  BY DEF HostInv, TypeOK
<1>2. CASE i \notin live
  BY <1>2 DEF HostInv, HostsAgree, DelClient, tables
<1>3. CASE i \in live
  <2>1. /\ live' = live \ {i} /\ vhost' = vhost
        /\ idents' = [idents EXCEPT ![vhost[i]] = NoIdent]
        /\ hosts' = [hosts EXCEPT ![vhost[i]] = NoIdent]
    BY <1>3 DEF DelClient, DeleteHost
  <2>2. HostsAgree'
    BY <1>1, <2>1 DEF HostInv, TypeOK, HostsAgree
  <2> QED BY <1>1, <1>3, <2>1, <2>2 DEF HostInv, TypeOK
<1> QED BY <1>2, <1>3

LEMMA HostDisconnect ==
  ASSUME HostInv, NEW i \in Idents, Disconnect(i)
  PROVE  HostInv'
<1>1. TypeOK'
  BY TypeDisconnect DEF HostInv
<1>2. vhost[i] # NoVHost /\ DelClient(i) /\ control' = control \ {i} /\ ordered' = ordered
  BY DEF HostInv, Disconnect
<1>3. SessionHasHost'
  <2> SUFFICES ASSUME ordered', NEW j \in control' PROVE hosts'[vhost'[j]] = j
    BY DEF SessionHasHost
  <2>1. hosts[vhost[i]] = i /\ hosts[vhost[j]] = j /\ j # i /\ j \in Idents
    BY <1>2, i \in control DEF HostInv, TypeOK, SessionHasHost, Disconnect
  <2>2. vhost[j] \in VHosts
    BY <1>2, <2>1 DEF HostInv, TypeOK
  <2> QED BY <1>2, <2>1, <2>2, HostDelClient
<1> QED BY <1>1, <1>2, <1>3, HostDelClient DEF HostInv

(* A refused client takes the host of another with it only when it is out  *)
(* of order.                                                               *)
LEMMA HostRefuse ==
  ASSUME HostInv, NEW i \in Idents, Refuse(i)
  PROVE  HostInv'
<1>1. TypeOK'
  BY TypeDisconnect DEF HostInv
<1>2. /\ vhost[i] # NoVHost /\ DelClient(i) /\ control' \subseteq control
      /\ Hosted(i) => i \notin control'
      /\ ordered' = (ordered /\ (i \in live => \A j \in control \ {i} : vhost[j] # vhost[i]))
  BY DEF Refuse
<1>3. SessionHasHost'
  <2> SUFFICES ASSUME ordered', NEW j \in control' PROVE hosts'[vhost'[j]] = j
    BY DEF SessionHasHost
  <2>1. ordered /\ j \in control /\ j \in Idents
    BY <1>2 DEF HostInv, TypeOK
  <2>2. vhost[j] \in VHosts /\ hosts[vhost[j]] = j
    BY <2>1 DEF HostInv, TypeOK, SessionHasHost
  <2>3. j # i
    BY <1>2, <2>2 DEF Hosted
  <2> QED BY <1>2, <2>1, <2>2, <2>3, HostDelClient
<1> QED BY <1>1, <1>2, <1>3, HostDelClient DEF HostInv

LEMMA HostStep ==
  ASSUME HostInv, [Next]_serverVars
  PROVE  HostInv'
<1>1. ASSUME UNCHANGED <<live, vhost, idents, hosts, control, ordered>>
      PROVE  HostInv'
  BY <1>1, TypeStep DEF HostInv, HostsAgree, SessionHasHost
<1>2. ASSUME Restart PROVE HostInv'
  BY <1>2, TypeRestart, TunnelAssumption DEF HostInv, HostsAgree, SessionHasHost, Restart
<1>3. ASSUME NEW i \in Idents, NEW s \in Names, NEW r \in Requests,
             AddNew(i, s, r) \/ Upgrade(i, s, r) \/ Known(i, s, r)
      PROVE  HostInv'
  BY <1>1, <1>3 DEF AddNew, Upgrade, Known, serverVars
<1>4. CASE UNCHANGED serverVars
  BY <1>1, <1>4 DEF serverVars
<1> QED BY <1>2, <1>3, <1>4, HostRegister, HostConnect, HostDisconnect, HostRefuse
    DEF Next

LEMMA HostAlways == Spec => []HostInv
<1>1. Init => HostInv
  BY TunnelAssumption DEF Init, HostInv, TypeOK, HostsAgree, SessionHasHost
<1>2. HostInv /\ [Next]_serverVars => HostInv'
  BY HostStep
<1> QED BY <1>1, <1>2, PTL DEF Spec

(* The two tables of virtual hosts lead to the same, registered client:    *)
(* property HostsAgree of the runs.                                        *)
THEOREM HostsAlwaysAgree == Spec => []HostsAgree
<1>1. HostInv => HostsAgree
  BY DEF HostInv
<1> QED BY <1>1, HostAlways, PTL

(* A connected client keeps its virtual host, whatever else is registered, *)
(* ends and is refused, unless another of its machine registered or came   *)
(* late to connect meanwhile: property SessionHasHost of the runs.         *)
THEOREM SessionsHaveHosts == Spec => []SessionHasHost
<1>1. HostInv => SessionHasHost
  BY DEF HostInv
<1> QED BY <1>1, HostAlways, PTL

-----------------------------------------------------------------------------
(* Ports.  While plain holds, every service was filed under None, so a     *)
(* lookup under a real port finds nothing to close.                        *)

PlainInv ==
  /\ TypeOK
  /\ plain =>
       /\ \A p \in Ports : services[p] = None
       /\ \A i \in Idents : tun[i][Kite] \in {None, Absent}
       /\ \A i \in live, s \in Names :
            tun[i][s] # Absent => tun[i][s] \in Ports /\ route[tun[i][s]] = i

LEMMA PlainRegister ==
  ASSUME PlainInv, NEW i \in Idents, NEW v \in VHosts, NEW services0 \in {{}, {Kite}},
         Register(i, v, services0)
  PROVE  PlainInv'
<1> USE TunnelAssumption, PortsAreNot
<1>1. TypeOK'
  BY TypeRegister DEF PlainInv
<1> SUFFICES ASSUME plain' PROVE PlainInv!2!2'
  BY <1>1 DEF PlainInv
<1>2. plain /\ PlainInv!2!2 /\ UNCHANGED <<services, route>>
  BY DEF PlainInv, Register
<1>3. tun'[i] = [s \in Entries |-> IF s \in services0 THEN None ELSE Absent]
      /\ \A j \in Idents \ {i} : tun'[j] = tun[j]
  BY DEF Register, PlainInv, TypeOK
<1>4. tun'[i][Kite] \in {None, Absent} /\ \A s \in Names : tun'[i][s] = Absent
  BY <1>3 DEF Entries
<1> QED BY <1>2, <1>3, <1>4 DEF Register, PlainInv, TypeOK

LEMMA PlainDisconnect ==
  ASSUME PlainInv, NEW i \in Idents, Disconnect(i) \/ Refuse(i)
  PROVE  PlainInv'
<1> USE TunnelAssumption, PortsAreNot
<1>1. TypeOK'
  BY TypeDisconnect DEF PlainInv
<1>2. DelClient(i)
  BY DEF Disconnect, Refuse
<1>3. CASE i \notin live
  BY <1>1, <1>2, <1>3 DEF DelClient, tables, PlainInv
<1>4. CASE i \in live
  <2> SUFFICES ASSUME plain' PROVE PlainInv!2!2'
    BY <1>1 DEF PlainInv
  <2>1. plain /\ PlainInv!2!2 /\ None \notin LookedUp(i)
    BY <1>2, <1>4 DEF PlainInv, DelClient
  <2>2. LookedUp(i) \subseteq Ports
    BY <2>1 DEF LookedUp, PlainInv, TypeOK
  <2> DEFINE gone == {services[p] : p \in LookedUp(i)} \cap Ports
  <2>3. gone = {}
    BY <2>1, <2>2
  <2>4. services' = services /\ route' = route
    BY <1>2, <1>4, <2>3 DEF DelClient, Shut, OnFile, PlainInv, TypeOK
  <2>5. tun'[i] = [s \in Entries |-> Absent] /\ (\A j \in Idents \ {i} : tun'[j] = tun[j])
        /\ live' = live \ {i}
    BY <1>2, <1>4 DEF DelClient, PlainInv, TypeOK
  <2> QED BY <2>1, <2>4, <2>5 DEF Entries, PlainInv, TypeOK
<1> QED BY <1>3, <1>4

LEMMA PlainAddNew ==
  ASSUME PlainInv, NEW i \in Idents, NEW s \in Names, NEW r \in Requests, AddNew(i, s, r)
  PROVE  PlainInv'
<1> USE TunnelAssumption, PortsAreNot
<1>1. TypeOK'
  BY TypeAddNew DEF PlainInv
<1> DEFINE l == IF Take(r.port) # None THEN Take(r.port) ELSE PickPort
<1> SUFFICES ASSUME plain' PROVE PlainInv!2!2'
  BY <1>1 DEF PlainInv
<1>2. plain /\ PlainInv!2!2 /\ r.port = None /\ l # None
  BY DEF PlainInv, AddNew
<1>3. l \in Ports /\ Free(l)
  BY <1>2, PickedPort, TakenPort DEF PlainInv
<1>4. tun' = [tun EXCEPT ![i][s] = l] /\ services' = [services EXCEPT ![None] = l]
      /\ route' = [route EXCEPT ![l] = i] /\ live' = live
  BY <1>2 DEF AddNew, Opened
<1>5. \A p \in Ports : services'[p] = None
  BY <1>2, <1>4 DEF PlainInv, TypeOK
<1>6. \A j \in Idents : tun'[j][Kite] \in {None, Absent}
  BY <1>2, <1>4 DEF PlainInv, TypeOK, Entries
<1>7. ASSUME NEW j \in live', NEW t \in Names, tun'[j][t] # Absent
      PROVE  tun'[j][t] \in Ports /\ route'[tun'[j][t]] = j
  <2>1. CASE j = i /\ t = s
    BY <2>1, <1>3, <1>4 DEF PlainInv, TypeOK, Entries
  <2>2. CASE ~(j = i /\ t = s)
    <3>1. tun'[j][t] = tun[j][t] /\ j \in live /\ j \in Idents
      BY <2>2, <1>4 DEF PlainInv, TypeOK, Entries
    <3>2. tun[j][t] \in Ports /\ route[tun[j][t]] = j
      BY <3>1, <1>2, <1>7
    <3>3. tun[j][t] # l
      BY <1>3, <3>1, <3>2 DEF Free
    <3> QED BY <3>1, <3>2, <3>3, <1>4 DEF PlainInv, TypeOK
  <2> QED BY <2>1, <2>2
<1> QED BY <1>5, <1>6, <1>7

LEMMA PlainStep ==
  ASSUME PlainInv, [Next]_serverVars
  PROVE  PlainInv'
<1> USE TunnelAssumption
<1>1. TypeOK'
  BY TypeStep DEF PlainInv
<1>2. ASSUME UNCHANGED <<live, tun, services, route, plain>> PROVE PlainInv'
  BY <1>1, <1>2 DEF PlainInv
<1>3. ASSUME NEW i \in Idents, NEW s \in Names, NEW r \in Requests, Upgrade(i, s, r)
      PROVE  PlainInv'
  BY <1>1, <1>3 DEF PlainInv, Upgrade
<1>4. ASSUME Restart PROVE PlainInv'
  BY <1>1, <1>4 DEF PlainInv, Restart, Entries
<1> QED BY <1>2, <1>3, <1>4, PlainRegister, PlainDisconnect, PlainAddNew
    DEF Next, Connect, Known, serverVars, tables

(* As long as clients ask for any port and get one, the port each was told *)
(* leads to it: property PortRouted of the runs.                           *)
THEOREM PortsAreRouted == Spec => []PortRouted
<1>1. Init => PlainInv
  BY TunnelAssumption DEF Init, PlainInv, TypeOK, Entries
<1>2. PlainInv /\ [Next]_serverVars => PlainInv'
  BY PlainStep
<1>3. PlainInv => PortRouted
  BY DEF PlainInv, PortRouted
<1> QED BY <1>1, <1>2, <1>3, PTL DEF Spec
=============================================================================
