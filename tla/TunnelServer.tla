---------------------------- MODULE TunnelServer ---------------------------
(***************************************************************************)
(* tunnelproxy: the server that gives machines behind a NAT a public name  *)
(* and public TCP ports.                                                   *)
(*                                                                         *)
(* A client registers, which gives it a fresh identifier and its virtual   *)
(* host, opens a control connection under the identifier, and asks for a   *)
(* port per service.  When the control connection ends, or is refused, the *)
(* client is deleted.  Four tables say who is who: tunnels, idents and     *)
(* services of Server, and the hosts and ports of the tunnel library,      *)
(* which route connections.  Every handler holds Server.mu around its      *)
(* tables.                                                                 *)
(*                                                                         *)
(* A listener is known by its port: two open listeners never share one.    *)
(***************************************************************************)
EXTENDS Integers, FiniteSets

CONSTANTS
  Idents,    \* the random identifiers, each issued once
  VHosts,    \* <tunnelName>.<username>.<base>: one per machine
  Names,     \* names of services
  Kite,      \* the internal service a klient registers with: it has no port
  From, To,  \* the range of ports for services that ask for none
  Requests,  \* what clients ask for: [port, restore]
  NoIdent, NoVHost

None   == 0   \* no port, no listener
Closed == -1  \* a listener that was closed but is still on file
Absent == -1  \* a service the client does not have

Ports == From .. To
Entries == Names \cup {Kite}

ASSUME TunnelAssumption ==
  /\ From \in Nat /\ To \in Nat /\ 0 < From /\ From < To
  /\ Requests \subseteq [port : Ports \cup {None}, restore : BOOLEAN]
  /\ NoIdent \notin Idents
  /\ NoVHost \notin VHosts
  /\ Kite \notin Names

VARIABLES
  live,      \* the clients of tunnels: DOMAIN tunnels.m
  vhost,     \* the virtual host each identifier was issued for
  tun,       \* the port of each service of each client, Absent or None
  idents,    \* the client of each virtual host
  services,  \* the listener on file under each port
  last,      \* the last port that was picked from the range
  hosts,     \* the library's table: whom requests for a host go to
  route,     \* ... and connections to a port; NoIdent: nobody listens
  control,   \* the clients with a control connection
  plain,     \* history: no lookup of services could find a foreign listener
  ordered    \* history: no client came to register, or came late to connect,
             \* while its host had another connection

tables == <<live, vhost, tun, idents, services, last>>
library == <<hosts, route, control>>
serverVars == <<live, vhost, tun, idents, services, last, hosts, route, control,
                plain, ordered>>

-----------------------------------------------------------------------------
(* Listening.                                                              *)

Free(p) == route[p] = NoIdent

(* The range is searched from the port picked last, with To - From tries:  *)
(* one fewer than it has ports.                                            *)
Try(k) == LET start == IF last \in Ports THEN last ELSE From
          IN  IF start + k > To THEN start + k - (To - From + 1) ELSE start + k

(* Mutant: a port is picked whether or not somebody listens there.         *)
TriesUnchecked == 0 .. (To - From - 1)
Tries == {k \in 0 .. (To - From - 1) : Free(Try(k))}

First == {k \in Tries : \A j \in Tries : k <= j}
PickPort == IF First = {} THEN None ELSE Try(CHOOSE k \in First : TRUE)

(* The port remembered for the next search.                                *)
(* Mutant: the one after it.                                               *)
NextLast(l) == l + 1
Last(l) == l

(* net.Listen on one port.                                                 *)
(* Mutant: a port may be listened on twice.                                *)
TakeBusy(p) == p
Take(p) == IF p # None /\ Free(p) THEN p ELSE None

(* The library and its listener l for client i.                            *)
Opened(l, i) == [route EXCEPT ![l] = i]

(* The listeners ls are no longer routed, and closed.                      *)
Shut(ls) == [p \in Ports |-> IF p \in ls THEN NoIdent ELSE route[p]]
OnFile(ls) == [k \in Ports \cup {None} |->
                 IF services[k] \in ls THEN Closed ELSE services[k]]

-----------------------------------------------------------------------------
(* Registration and the control connection.                                *)

(* register: addClient, then OnDisconnect.  The reply that carries the     *)
(* identifier may be lost; the client then registers again.                *)
Register(i, v, services0) ==
  /\ vhost[i] = NoVHost
  /\ vhost' = [vhost EXCEPT ![i] = v]
  /\ live' = live \cup {i}
  /\ tun' = [tun EXCEPT ![i] = [s \in Entries |-> IF s \in services0 THEN None ELSE Absent]]
  /\ idents' = [idents EXCEPT ![v] = i]
  /\ hosts' = [hosts EXCEPT ![v] = i]
  /\ ordered' = (ordered /\ \A j \in control : vhost[j] # v)
  /\ UNCHANGED <<services, last, route, control, plain>>

(* controlHandler: only an identifier some virtual host leads to.          *)
(* Mutant: a client that was registered, whatever host it has now.         *)
HostedOnce(i) == i \in live
Hosted(i) == \E v \in VHosts : hosts[v] = i

Connect(i) ==
  /\ i \in Idents \ control
  /\ Hosted(i)
  /\ control' = control \cup {i}
  /\ UNCHANGED <<tables, hosts, route, plain, ordered>>

(* The ports under which delClient looks for the listeners of i.           *)
LookedUp(i) == {tun[i][s] : s \in Entries} \ {Absent}

(* The virtual host of i is deleted, whoever has it now.                   *)
(* Mutant: the server keeps its own entry for the host.                    *)
DeleteHostOnly(i) ==
  hosts' = [hosts EXCEPT ![vhost[i]] = NoIdent] /\ UNCHANGED idents
DeleteHost(i) ==
  /\ idents' = [idents EXCEPT ![vhost[i]] = NoIdent]
  /\ hosts' = [hosts EXCEPT ![vhost[i]] = NoIdent]

(* The callback given to OnDisconnect, which is called once: delClient     *)
(* closes the listeners it finds but leaves their entries.                 *)
DelClient(i) ==
  IF i \notin live
    THEN UNCHANGED <<tables, hosts, route, plain>>
    ELSE /\ live' = live \ {i}
         /\ tun' = [tun EXCEPT ![i] = [s \in Entries |-> Absent]]
         /\ DeleteHost(i)
         /\ LET gone == {services[p] : p \in LookedUp(i)} \cap Ports
            IN  /\ route' = Shut(gone)
                /\ services' = OnFile(gone)
         /\ plain' = (plain /\ None \notin LookedUp(i))
         /\ UNCHANGED <<vhost, last>>

(* listenControl sees the connection end.                                  *)
Disconnect(i) ==
  /\ i \in control
  /\ control' = control \ {i}
  /\ DelClient(i)
  /\ UNCHANGED ordered

(* controlHandler refuses a connection: no host leads to the client, it    *)
(* has a connection, which is closed, or the handshake fails.  The answer  *)
(* is the error, but first the client is deleted as if it had left.        *)
Refuse(i) ==
  /\ i \in Idents /\ vhost[i] # NoVHost
  /\ control' = IF Hosted(i) THEN control \ {i} ELSE control
  /\ DelClient(i)
  /\ ordered' = (ordered /\ (i \in live => \A j \in control \ {i} : vhost[j] # vhost[i]))

-----------------------------------------------------------------------------
(* registerServices, one service at a time: each call of addClientService  *)
(* is one critical section.                                                *)

Has(i, s) == i \in live /\ tun[i][s] # Absent

(* A new service is entered in the tunnels first.  Its listener is filed   *)
(* under the port that was asked for, not under the one it got; when none  *)
(* can be opened the call fails but the entry stays.                       *)
AddNew(i, s, r) ==
  /\ i \in live /\ ~Has(i, s)
  /\ LET wanted == Take(r.port)
         l == IF wanted # None THEN wanted ELSE PickPort
     IN  /\ tun' = [tun EXCEPT ![i][s] = IF l = None THEN r.port ELSE l]
         /\ IF l = None
              THEN UNCHANGED <<services, route, last>>
              ELSE /\ services' = [services EXCEPT ![r.port] = l]
                   /\ route' = Opened(l, i)
                   /\ last' = IF wanted = None THEN Last(l) ELSE last
         /\ plain' = (plain /\ r.port = None /\ l # None)
  /\ UNCHANGED <<live, vhost, idents, hosts, control, ordered>>

(* A known service is moved to the port a client wants back.               *)
Upgrades(i, s, r) ==
  /\ Has(i, s)
  /\ r.restore /\ r.port # None /\ r.port # tun[i][s]
  /\ Take(r.port) # None

Upgrade(i, s, r) ==
  /\ Upgrades(i, s, r)
  /\ LET gone == {services[tun[i][s]]} \cap Ports
     IN  /\ route' = [Shut(gone) EXCEPT ![r.port] = i]
         /\ services' = [OnFile(gone) EXCEPT ![tun[i][s]] = None, ![r.port] = r.port]
  /\ tun' = [tun EXCEPT ![i][s] = r.port]
  /\ plain' = FALSE
  /\ UNCHANGED <<live, vhost, idents, last, hosts, control, ordered>>

(* Otherwise the answer is the port the service has.                       *)
Known(i, s, r) ==
  /\ Has(i, s) /\ ~Upgrades(i, s, r)
  /\ UNCHANGED serverVars

(* The server is killed and started again: its tables and its listeners    *)
(* are gone.                                                               *)
Restart ==
  /\ live' = {}
  /\ tun' = [i \in Idents |-> [s \in Entries |-> Absent]]
  /\ idents' = [v \in VHosts |-> NoIdent]
  /\ services' = [p \in Ports \cup {None} |-> None]
  /\ last' = None
  /\ hosts' = [v \in VHosts |-> NoIdent]
  /\ route' = [p \in Ports |-> NoIdent]
  /\ control' = {}
  /\ plain' = TRUE
  /\ ordered' = TRUE
  /\ UNCHANGED vhost

-----------------------------------------------------------------------------

Init ==
  /\ live = {}
  /\ vhost = [i \in Idents |-> NoVHost]
  /\ tun = [i \in Idents |-> [s \in Entries |-> Absent]]
  /\ idents = [v \in VHosts |-> NoIdent]
  /\ services = [p \in Ports \cup {None} |-> None]
  /\ last = None
  /\ hosts = [v \in VHosts |-> NoIdent]
  /\ route = [p \in Ports |-> NoIdent]
  /\ control = {}
  /\ plain = TRUE
  /\ ordered = TRUE

Next ==
  \/ \E i \in Idents, v \in VHosts, services0 \in {{}, {Kite}} : Register(i, v, services0)
  \/ \E i \in Idents : Connect(i) \/ Disconnect(i) \/ Refuse(i)
  \/ \E i \in Idents, s \in Names, r \in Requests :
       AddNew(i, s, r) \/ Upgrade(i, s, r) \/ Known(i, s, r)
  \/ Restart

Spec == Init /\ [][Next]_serverVars

-----------------------------------------------------------------------------
(* Properties.                                                             *)

(* Every table holds what its type says; a listener on file is a port of   *)
(* the range, nothing, or one that was closed.                             *)
TypeOK ==
  /\ live \in SUBSET Idents /\ control \in SUBSET Idents
  /\ vhost \in [Idents -> VHosts \cup {NoVHost}]
  /\ tun \in [Idents -> [Entries -> Ports \cup {None, Absent}]]
  /\ idents \in [VHosts -> Idents \cup {NoIdent}]
  /\ hosts \in [VHosts -> Idents \cup {NoIdent}]
  /\ services \in [Ports \cup {None} -> Ports \cup {None, Closed}]
  /\ route \in [Ports -> Idents \cup {NoIdent}]
  /\ last \in Ports \cup {None}
  /\ plain \in BOOLEAN /\ ordered \in BOOLEAN

(* The server's table of virtual hosts (for discovery) and the library's   *)
(* (for requests) lead to the same client, one that is registered and was  *)
(* given that virtual host: addClient and delClient change three tables.   *)
HostsAgree ==
  /\ idents = hosts
  /\ \A v \in VHosts : hosts[v] # NoIdent =>
       hosts[v] \in live /\ vhost[hosts[v]] = v

(* A client with a control connection is reached under its virtual host,   *)
(* whatever connections end, fail and are refused, as long as no client    *)
(* registers for the host, and none that did comes late to connect, while  *)
(* another is connected: the first takes the host over, and the refusal of *)
(* the second deletes it whoever has it now, as the end of an older        *)
(* connection does (delClient).                                            *)
SessionHasHost ==
  ordered => \A i \in control : hosts[vhost[i]] = i

(* The port a client was told leads to that client, whatever others come,  *)
(* go and ask for, as long as all ask for any port, get one, and none that *)
(* registered an internal service has left: only then does services, filed *)
(* under the wrong ports, give delClient a foreign listener to close.      *)
PortRouted ==
  plain => \A i \in live, s \in Names : tun[i][s] # Absent => route[tun[i][s]] = i

(* A port changes hands only by way of nobody: addClientService never      *)
(* routes a port under somebody's open listener.                           *)
PortsChangeHands ==
  [][\A p \in Ports : route[p] # NoIdent => route'[p] \in {route[p], NoIdent}]_serverVars
=============================================================================
