------------------------- MODULE TunnelClientProofs ------------------------
(***************************************************************************)
(* Proofs about TunnelClient: for any number of identifiers, hosts,        *)
(* services and ports, with or without a klient.                           *)
(***************************************************************************)
EXTENDS TunnelClient, TLAPS

\* The theorems about the server, for the server of this client.
Proved == INSTANCE TunnelServerProofs

(* What the server's theorems assume of the constants holds here.          *)
LEMMA ServerAssumption ==
  /\ From \in Nat /\ To \in Nat /\ 0 < From /\ From < To
  /\ Requests \subseteq [port : Proved!Ports \cup {Proved!None}, restore : BOOLEAN]
  /\ NoIdent \notin Idents /\ NoVHost \notin VHosts /\ Kite \notin Names
BY ClientAssumption DEF Requests, Ports, Proved!Ports, None, Proved!None

(* Server and Proved are two names for the same server.                    *)
LEMMA SameServer ==
  /\ Server!TypeOK <=> Proved!TypeOK
  /\ \A i, v, S : Server!Register(i, v, S) <=> Proved!Register(i, v, S)
  /\ \A i : Server!Connect(i) <=> Proved!Connect(i)
  /\ \A i : Server!Disconnect(i) <=> Proved!Disconnect(i)
  /\ \A i : Server!Refuse(i) <=> Proved!Refuse(i)
  /\ \A i, s, r : Server!AddNew(i, s, r) <=> Proved!AddNew(i, s, r)
  /\ \A i, s, r : Server!Upgrade(i, s, r) <=> Proved!Upgrade(i, s, r)
  /\ Server!Restart <=> Proved!Restart
<1> USE DEF Server!None, Proved!None, Server!Absent, Proved!Absent, Server!Closed, Proved!Closed,
    Server!Ports, Proved!Ports, Server!Entries, Proved!Entries
<1>1. Server!TypeOK <=> Proved!TypeOK
  BY DEF Server!TypeOK, Proved!TypeOK
<1>2. ASSUME NEW i, NEW v, NEW S PROVE Server!Register(i, v, S) <=> Proved!Register(i, v, S)
  BY DEF Server!Register, Proved!Register
<1>3. ASSUME NEW i PROVE Server!Connect(i) <=> Proved!Connect(i)
  BY DEF Server!Connect, Proved!Connect, Server!Hosted, Proved!Hosted, Server!tables, Proved!tables
<1>4. ASSUME NEW i PROVE Server!DelClient(i) <=> Proved!DelClient(i)
  BY DEF Server!DelClient, Proved!DelClient, Server!DeleteHost, Proved!DeleteHost,
     Server!LookedUp, Proved!LookedUp, Server!Shut, Proved!Shut, Server!OnFile, Proved!OnFile,
     Server!tables, Proved!tables
<1>8. ASSUME NEW i
      PROVE  /\ Server!Disconnect(i) <=> Proved!Disconnect(i)
             /\ Server!Refuse(i) <=> Proved!Refuse(i)
  BY <1>4 DEF Server!Disconnect, Proved!Disconnect, Server!Refuse, Proved!Refuse, Server!Hosted,
     Proved!Hosted
<1>5. ASSUME NEW i, NEW s, NEW r PROVE Server!AddNew(i, s, r) <=> Proved!AddNew(i, s, r)
  BY DEF Server!AddNew, Proved!AddNew, Server!Has, Proved!Has, Server!Take, Proved!Take,
     Server!Free, Proved!Free, Server!PickPort, Proved!PickPort, Server!First, Proved!First,
     Server!Tries, Proved!Tries, Server!Try, Proved!Try, Server!Opened, Proved!Opened,
     Server!Last, Proved!Last
<1>6. ASSUME NEW i, NEW s, NEW r PROVE Server!Upgrade(i, s, r) <=> Proved!Upgrade(i, s, r)
  BY DEF Server!Upgrade, Proved!Upgrade, Server!Upgrades, Proved!Upgrades, Server!Has, Proved!Has,
     Server!Take, Proved!Take, Server!Free, Proved!Free, Server!Shut, Proved!Shut,
     Server!OnFile, Proved!OnFile
<1>7. Server!Restart <=> Proved!Restart
  BY DEF Server!Restart, Proved!Restart
<1> QED BY <1>1, <1>2, <1>3, <1>5, <1>6, <1>7, <1>8

-----------------------------------------------------------------------------
(* Types.                                                                  *)

States == {"connecting", "connected", "disconnected"}
Ends == Ports \cup {None}  \* the ports a service may have

DialOK ==
  /\ klient \in BOOLEAN
  /\ dial \in {"register", "restore", "connect", "session"}
  /\ registered \in Idents \cup {NoIdent} /\ cident \in Idents \cup {NoIdent}
  /\ late \in SUBSET Idents
EventsOK ==
  /\ events \in Seq(States) /\ Len(events) <= MaxEvents
  /\ event \in {"none"} \cup States
  /\ loop \in {"select", "forward", "call", "callback"}
LoopOK ==
  /\ ident \in Idents \cup {NoIdent}
  /\ token \in {"nil", "empty", "full"}
  /\ pending \in [Names -> Requests \cup {NotPending}]
  /\ retries \in 0 .. MaxRetries
CallOK ==
  /\ asked \in SUBSET Names /\ astray \in BOOLEAN
  /\ answer \in [Names -> Ends \cup {Absent, Failed}]
SharedOK ==
  /\ regserv \in [Names -> Requests \cup {NotPending}]
  /\ remote \in [Names -> Ends \cup {Absent, NoAddr}]
  /\ routes \in [Ends -> Names \cup {NoName}]
  /\ user \in Names \cup {NoName}
KlientOK == reader \in {"idle", "lock"} /\ saved \in [Names -> Ends]

LEMMA TypeParts ==
  TypeOK <=> Server!TypeOK /\ DialOK /\ EventsOK /\ LoopOK /\ CallOK /\ SharedOK /\ KlientOK
BY DEF TypeOK, DialOK, EventsOK, LoopOK, CallOK, SharedOK, KlientOK, States, Ends

(* The same of the next state, where each part has a proof of its own.     *)
LEMMA NextParts ==
  ASSUME Server!TypeOK', DialOK', EventsOK', LoopOK', CallOK', SharedOK', KlientOK'
  PROVE  TypeOK'
BY DEF TypeOK, DialOK, EventsOK, LoopOK, CallOK, SharedOK, KlientOK, States, Ends

(* What is known of the server's tables.                                   *)
LEMMA ServerShape ==
  ASSUME Server!TypeOK
  PROVE  /\ live \in SUBSET Idents /\ control \in SUBSET Idents
         /\ vhost \in [Idents -> VHosts \cup {NoVHost}]
         /\ tun \in [Idents -> [Names \cup {Kite} -> Ends \cup {Absent}]]
BY DEF Server!TypeOK, Server!Entries, Server!Ports, Server!None, Server!Absent, Ends, Ports, None,
       Absent

LEMMA PortsAreNot ==
  /\ Ports \subseteq Nat /\ Absent \notin Ends /\ NoAddr \notin Ends /\ Failed \notin Ends
  /\ Absent # NoAddr /\ Absent # Failed
BY ClientAssumption DEF Ends, Ports, None, Absent, NoAddr, Failed

-----------------------------------------------------------------------------
(* Every step is a step of the server or leaves the server alone.          *)

(* What the event loop asks for, it asks for while it waits for it.        *)
AskedPending == loop = "call" => \A s \in asked : pending[s] # NotPending

LEMMA ServeIsServer ==
  ASSUME TypeOK, AskedPending, NEW s \in Names, Serve(s)
  PROVE  \E r \in Requests :
           ident \in Idents /\ (Server!AddNew(ident, s, r) \/ Server!Upgrade(ident, s, r)
                                \/ Server!Known(ident, s, r))
<1>1. pending[s] \in Requests
  BY TypeParts DEF Serve, AskedPending, LoopOK
<1>2. \/ Server!AddNew(ident, s, pending[s]) \/ Server!Upgrade(ident, s, pending[s])
      \/ Server!Known(ident, s, pending[s])
  BY DEF Serve
<1>3. ident \in live
  BY <1>2 DEF Server!AddNew, Server!Upgrade, Server!Upgrades, Server!Known, Server!Has
<1> QED BY <1>1, <1>2, <1>3, TypeParts, ServerShape

LEMMA ServerStep ==
  ASSUME TypeOK, AskedPending, [Next]_vars
  PROVE  [Server!Next]_(Server!serverVars)
<1>1. CASE Next
  <2>1. ASSUME NEW i \in Idents, Register(i) PROVE Server!Next
    BY <2>1, ClientAssumption DEF Register, Server!Next
  <2>2. CASE Dial
    BY <2>1, <2>2, TypeParts
    DEF Dial, RegisterDone, RegisterLost, SendRestore, Connect, ConnectFails, SessionEnds, Server!Next,
        Server!Connect, Server!Refuse, DialOK, serverVars, Server!serverVars
  <2>3. CASE \E s \in Names : Serve(s)
    BY <2>3, ServeIsServer DEF Server!Next
  <2>4. CASE \E i \in Idents : Disconnect(i) \/ LateRefused(i)
    BY <2>4 DEF Disconnect, LateRefused, Server!Next
  <2>5. CASE Restart
    BY <2>5 DEF Restart, Server!Next
  <2>6. CASE \/ TakeEvent \/ Forward \/ TakeServices \/ TakeToken \/ CallFails
             \/ Replied \/ CallReturns \/ ReadState \/ Retry
             \/ \E s \in Names : RegisterService(s)
             \/ SendService \/ Crash
    <3>1. UNCHANGED serverVars
      BY <2>6 DEF TakeEvent, Forward, TakeServices, TakeToken, CallFails, Replied, CallReturns,
                  ReadState, Retry, RegisterService, SendService, Crash
    <3> QED BY <3>1 DEF serverVars, Server!serverVars
  <2> QED BY <1>1, <2>2, <2>3, <2>4, <2>5, <2>6 DEF Next, Loop
<1>2. CASE UNCHANGED vars
  BY <1>2 DEF vars, serverVars, Server!serverVars
<1> QED BY <1>1, <1>2

LEMMA ProvedStep ==
  ASSUME TypeOK, AskedPending, [Next]_vars
  PROVE  [Proved!Next]_(Proved!serverVars)
<1>1. UNCHANGED Server!serverVars => UNCHANGED Proved!serverVars
  BY DEF Server!serverVars, Proved!serverVars
<1>2. Server!Next => Proved!Next
  BY SameServer DEF Server!Next, Proved!Next, Server!Known, Proved!Known, Server!Has, Proved!Has,
     Server!Upgrades, Proved!Upgrades, Server!Take, Proved!Take, Server!Free, Proved!Free,
     Server!None, Proved!None, Server!Absent, Proved!Absent, Server!serverVars, Proved!serverVars
<1> QED BY <1>1, <1>2, ServerStep

LEMMA ServerTypes ==
  ASSUME TypeOK, AskedPending, [Next]_vars
  PROVE  Server!TypeOK'
<1>1. Proved!TypeOK
  BY SameServer, TypeParts
<1>2. Proved!TypeOK'
  BY <1>1, ProvedStep, ServerAssumption, Proved!TypeStep
<1>3. Server!TypeOK' <=> Proved!TypeOK'
  BY DEF Server!TypeOK, Proved!TypeOK, Server!None, Proved!None, Server!Absent, Proved!Absent,
     Server!Closed, Proved!Closed, Server!Ports, Proved!Ports, Server!Entries, Proved!Entries
<1> QED BY <1>2, <1>3

-----------------------------------------------------------------------------
(* The channel of state changes.                                           *)

Queued(es) == \E k \in 1 .. Len(es) : es[k] = "connected"

LEMMA Appended ==
  ASSUME EventsOK, NEW es \in Seq(States), Notify(es)
  PROVE  /\ events' \in Seq(States) /\ Len(events') <= MaxEvents
         /\ Queued(events) => Queued(events')
BY ClientAssumption DEF EventsOK, Notify, Queued

LEMMA ConnectedQueued ==
  ASSUME EventsOK, Notify(<<"connected">>)
  PROVE  Queued(events')
<1>1. events' = events \o <<"connected">> /\ events \in Seq(States) /\ "connected" \in States
  BY DEF Notify, EventsOK, States
<1>2. Len(events') = Len(events) + 1 /\ events'[Len(events) + 1] = "connected"
  BY <1>1
<1> QED BY <1>1, <1>2 DEF Queued

LEMMA Taken ==
  ASSUME EventsOK, events # <<>>
  PROVE  /\ Tail(events) \in Seq(States) /\ Len(Tail(events)) <= MaxEvents
         /\ Head(events) \in States
         /\ Queued(events) => Head(events) = "connected" \/ Queued(Tail(events))
<1>1. /\ Tail(events) \in Seq(States) /\ Len(Tail(events)) = Len(events) - 1
      /\ Head(events) = events[1] /\ Head(events) \in States
      /\ Len(events) \in Nat
      /\ \A k \in 2 .. Len(events) : events[k] = Tail(events)[k - 1]
  BY DEF EventsOK
<1>2. ASSUME NEW k \in 1 .. Len(events), events[k] = "connected", Head(events) # "connected"
      PROVE  Queued(Tail(events))
  <2>1. k \in 2 .. Len(events) /\ k - 1 \in 1 .. Len(Tail(events))
    BY <1>1, <1>2
  <2> QED BY <1>1, <1>2, <2>1 DEF Queued
<1> QED BY <1>1, <1>2, ClientAssumption DEF EventsOK, Queued

-----------------------------------------------------------------------------
LEMMA HandleTypes ==
  ASSUME TypeOK, NEW e \in States, Handle(e)
  PROVE  /\ ident' \in Idents \cup {NoIdent} /\ token' \in {"nil", "empty", "full"}
         /\ pending' \in [Names -> Requests \cup {NotPending}]
         /\ routes' \in [Ends -> Names \cup {NoName}]
<1> USE TypeParts
<1>1. PendingAgain \in [Names -> Requests \cup {NotPending}]
  BY DEF PendingAgain, Restore, Requests, LoopOK, SharedOK, Ends
<1>2. CASE e = "connected"
  BY <1>1, <1>2 DEF Handle, DialOK, SharedOK
<1>3. CASE e = "disconnected"
  BY <1>3 DEF Handle, LoopOK, Ends
<1>4. CASE e \notin {"connected", "disconnected"}
  BY <1>4 DEF Handle, LoopOK, SharedOK
<1> QED BY <1>2, <1>3, <1>4

LEMMA TypeDial ==
  ASSUME TypeOK, Dial, Server!TypeOK', dial = "connect" => registered \in Idents
  PROVE  TypeOK'
<1> USE TypeParts
<1>1. DialOK'
  BY DEF Dial, RegisterDone, RegisterLost, SendRestore, Connect, ConnectFails, SessionEnds, DialOK,
         dialVars, klientVars
<1>2. EventsOK'
  <2>1. UNCHANGED <<event, loop>>
    BY DEF Dial, RegisterDone, RegisterLost, SendRestore, Connect, ConnectFails, SessionEnds, loopVars
  <2>2. UNCHANGED events \/ \E es \in Seq(States) : Notify(es)
    <3>1. /\ <<"connecting">> \in Seq(States) /\ <<"connected">> \in Seq(States)
          /\ <<"disconnected", "connecting">> \in Seq(States)
      BY DEF States
    <3> QED BY <3>1 DEF Dial, RegisterDone, RegisterLost, SendRestore, Connect, ConnectFails,
                        SessionEnds
  <2> QED BY <2>1, <2>2, Appended DEF EventsOK
<1>3. LoopOK' /\ CallOK'
  BY DEF Dial, RegisterDone, RegisterLost, SendRestore, Connect, ConnectFails, SessionEnds, loopVars,
         LoopOK, CallOK
<1>4. SharedOK'
  <2>1. Restoring \in [Names -> Requests \cup {NotPending}]
    BY DEF Restoring, Requests, KlientOK, Ends
  <2>2. ResetAddr \in [Names -> Ends \cup {Absent, NoAddr}]
    BY DEF ResetAddr
  <2>3. regserv' \in [Names -> Requests \cup {NotPending}] /\ UNCHANGED <<routes, user>>
    BY <2>1 DEF Dial, RegisterDone, RegisterLost, SendRestore, Connect, ConnectFails, SessionEnds,
                sharedVars, SharedOK
  <2>4. remote' \in [Names -> Ends \cup {Absent, NoAddr}]
    BY <2>2 DEF Dial, RegisterDone, RegisterLost, SendRestore, Connect, ConnectFails, SessionEnds,
                sharedVars, SharedOK
  <2> QED BY <2>3, <2>4 DEF SharedOK
<1>5. KlientOK'
  BY DEF Dial, RegisterDone, RegisterLost, SendRestore, Connect, ConnectFails, SessionEnds, klientVars,
         KlientOK
<1> QED BY <1>1, <1>2, <1>3, <1>4, <1>5, NextParts

LEMMA TypeEvents ==
  ASSUME TypeOK, TakeEvent \/ Forward, Server!TypeOK'
  PROVE  TypeOK'
<1> USE TypeParts
<1>1. CASE TakeEvent
  <2>1. EventsOK'
    BY <1>1, Taken DEF TakeEvent, EventsOK
  <2>2. LoopOK' /\ routes' \in [Ends -> Names \cup {NoName}]
    BY <1>1, Taken, HandleTypes DEF TakeEvent, LoopOK, SharedOK
  <2>3. UNCHANGED <<dialVars, asked, answer, astray, regserv, remote, user, klientVars>>
    BY <1>1 DEF TakeEvent
  <2> QED BY <2>1, <2>2, <2>3, NextParts
          DEF DialOK, CallOK, SharedOK, KlientOK, dialVars, klientVars
<1>2. CASE Forward
  <2>0. CASE event \in States
    <3>1. LoopOK' /\ routes' \in [Ends -> Names \cup {NoName}]
      BY <1>2, <2>0, HandleTypes DEF Forward, LoopOK
    <3>2. EventsOK' /\ KlientOK' /\ UNCHANGED <<dialVars, asked, answer, astray, regserv, remote, user,
                                                klient>>
      BY <1>2 DEF Forward, EventsOK, KlientOK
    <3> QED BY <3>1, <3>2, NextParts DEF DialOK, CallOK, SharedOK, dialVars
  <2>1. CASE event = "none"
    <3>1. UNCHANGED <<pending, ident, token, routes>>
      BY <1>2, <2>1 DEF Forward, Handle
    <3>2. EventsOK' /\ KlientOK' /\ retries' = retries
          /\ UNCHANGED <<dialVars, asked, answer, astray, regserv, remote, user,
                                                klient>>
      BY <1>2 DEF Forward, EventsOK, KlientOK
    <3> QED BY <3>1, <3>2, NextParts DEF DialOK, CallOK, SharedOK, LoopOK, dialVars
  <2> QED BY <2>0, <2>1 DEF EventsOK
<1> QED BY <1>1, <1>2

(* What the answered services got is a port, or None.                      *)
LEMMA AnsweredEnds ==
  ASSUME TypeOK, NEW s \in Answered
  PROVE  s \in Names /\ answer[s] \in Ends
BY TypeParts DEF Answered, CallOK

LEMMA TypeServe ==
  ASSUME TypeOK, NEW s \in Names, Serve(s), Server!TypeOK'
  PROVE  TypeOK'
<1> USE TypeParts
<1>1. UNCHANGED <<dialVars, events, loop, event, ident, token, pending, retries, sharedVars,
                  klientVars>>
  BY DEF Serve
<1>2. asked' \in SUBSET Names /\ astray' \in BOOLEAN
  BY DEF Serve, CallOK
<1>3. answer' \in [Names -> Ends \cup {Absent, Failed}]
  <2>1. CASE answer' = [answer EXCEPT ![s] = Failed]
    BY <2>1 DEF CallOK
  <2>2. CASE /\ \/ Server!Known(ident, s, pending[s])
                \/ Server!Upgrade(ident, s, pending[s])
                \/ Server!AddNew(ident, s, pending[s])
             /\ answer' = [answer EXCEPT ![s] = tun'[ident][s]]
    <3>1. ident \in live
      BY <2>2 DEF Server!AddNew, Server!Upgrade, Server!Upgrades, Server!Known, Server!Has
    <3>2. ident \in Idents
      BY <3>1, ServerShape
    <3>3. tun' \in [Idents -> [Names \cup {Kite} -> Ends \cup {Absent}]]
      BY DEF Server!TypeOK, Server!Entries, Server!Ports, Server!None, Server!Absent, Ends, Ports,
             None, Absent
    <3>4. tun'[ident][s] \in Ends \cup {Absent}
      BY <3>2, <3>3
    <3> QED BY <2>2, <3>4 DEF CallOK
  <2> QED BY <2>1, <2>2 DEF Serve
<1> QED BY <1>1, <1>2, <1>3, NextParts
        DEF DialOK, EventsOK, LoopOK, CallOK, SharedOK, KlientOK, dialVars, sharedVars, klientVars

LEMMA TypeCall ==
  ASSUME TypeOK, TakeServices \/ TakeToken \/ CallFails \/ Replied \/ Retry, Server!TypeOK'
  PROVE  TypeOK'
<1> USE TypeParts
<1>1. UNCHANGED <<dialVars, events, event, ident, remote, routes, user, klientVars>>
  BY DEF TakeServices, TakeToken, CallFails, Replied, Retry, sharedVars, klientVars
<1>2. loop' \in {"select", "forward", "call", "callback"} /\ token' \in {"nil", "empty", "full"}
  BY DEF TakeServices, TakeToken, CallFails, Replied, Retry, Tick, EventsOK, LoopOK
<1>3. retries' \in 0 .. MaxRetries
  BY ClientAssumption DEF TakeServices, TakeToken, CallFails, Replied, Retry, Sleep, LoopOK
<1>4. CallOK'
  BY DEF TakeServices, TakeToken, CallFails, Replied, Retry, CallOK
<1>5. pending' \in [Names -> Requests \cup {NotPending}]
      /\ regserv' \in [Names -> Requests \cup {NotPending}]
  <2>1. CASE TakeServices
    BY <2>1 DEF TakeServices, LoopOK, SharedOK, Idle
  <2>2. CASE UNCHANGED <<pending, regserv>>
    BY <2>2 DEF LoopOK, SharedOK
  <2> QED BY <2>1, <2>2 DEF TakeToken, CallFails, Replied, Retry, sharedVars
<1> QED BY <1>1, <1>2, <1>3, <1>4, <1>5, NextParts
        DEF DialOK, EventsOK, LoopOK, SharedOK, KlientOK, dialVars, klientVars

LEMMA TypeReturns ==
  ASSUME TypeOK, CallReturns, Server!TypeOK'
  PROVE  TypeOK'
<1> USE TypeParts
<1>1. UNCHANGED <<dialVars, events, event, ident, token, asked, astray, regserv, user,
                  reader>>
      /\ loop' = "select" /\ answer' = [s \in Names |-> Absent]
  BY DEF CallReturns, dialVars
<1>2. saved' \in [Names -> Ends] /\ remote' \in [Names -> Ends \cup {Absent, NoAddr}]
  BY AnsweredEnds DEF CallReturns, KlientOK, SharedOK
<1>3. pending' \in [Names -> Requests \cup {NotPending}]
  BY DEF CallReturns, LoopOK
<1>4. retries' \in 0 .. MaxRetries
  BY ClientAssumption DEF CallReturns, Sleep, LoopOK
<1>5. routes' \in [Ends -> Names \cup {NoName}]
  <2>1. ASSUME NEW p \in Ends, \E s \in Answered : answer[s] = p
        PROVE  (CHOOSE s \in Answered : answer[s] = p) \in Names
    BY <2>1, AnsweredEnds
  <2> QED BY <2>1 DEF CallReturns, RouteAdded, SharedOK, Ends
<1>6. klient' = klient
  BY DEF CallReturns
<1> QED BY <1>1, <1>2, <1>3, <1>4, <1>5, <1>6, NextParts
        DEF DialOK, EventsOK, LoopOK, CallOK, SharedOK, KlientOK, dialVars

LEMMA TypeOthers ==
  ASSUME TypeOK, Server!TypeOK',
         \/ ReadState \/ SendService \/ Crash \/ Restart
         \/ \E i \in Idents : Disconnect(i) \/ LateRefused(i)
         \/ \E s \in Names : RegisterService(s)
  PROVE  TypeOK'
<1> USE TypeParts
<1>1. CASE ReadState
  BY <1>1, NextParts DEF ReadState, DialOK, EventsOK, LoopOK, CallOK, SharedOK, KlientOK, dialVars,
     loopVars, sharedVars
<1>2. CASE SendService
  <2>1. [Idle EXCEPT ![user] = [port |-> None, restore |-> FALSE]]
          \in [Names -> Requests \cup {NotPending}]
    BY DEF Idle, Requests
  <2>2. regserv' \in [Names -> Requests \cup {NotPending}] /\ user' = NoName
    BY <1>2, <2>1 DEF SendService
  <2> QED BY <1>2, <2>2, NextParts DEF SendService, DialOK, EventsOK, LoopOK, CallOK, SharedOK,
             KlientOK, dialVars, loopVars, klientVars
<1>3. CASE Crash
  <2>1. <<"connecting">> \in Seq(States) /\ Len(<<"connecting">>) = 1
    BY DEF States
  <2>2. DialOK' /\ EventsOK' /\ LoopOK' /\ CallOK' /\ KlientOK'
    BY <1>3, <2>1, ClientAssumption DEF Crash, DialOK, EventsOK, LoopOK, CallOK, KlientOK, Idle, States
  <2>3. SharedOK'
    BY <1>3 DEF Crash, SharedOK, Idle, Ends
  <2> QED BY <2>2, <2>3, NextParts
<1>4. CASE Restart \/ \E i \in Idents : Disconnect(i) \/ LateRefused(i)
  BY <1>4, NextParts DEF Restart, Disconnect, LateRefused, DialOK, EventsOK, LoopOK, CallOK, SharedOK, KlientOK,
     dialVars, loopVars, sharedVars, klientVars
<1>5. CASE \E s \in Names : RegisterService(s)
  BY <1>5, NextParts DEF RegisterService, DialOK, EventsOK, LoopOK, CallOK, SharedOK, KlientOK,
     dialVars, loopVars, klientVars
<1> QED BY <1>1, <1>2, <1>3, <1>4, <1>5

LEMMA TypeNext ==
  ASSUME TypeOK, AskedPending, [Next]_vars, dial = "connect" => registered \in Idents
  PROVE  TypeOK'
<1>1. Server!TypeOK'
  BY ServerTypes
<1>2. CASE Next
  BY <1>1, <1>2, TypeDial, TypeEvents, TypeServe, TypeCall, TypeReturns, TypeOthers DEF Next, Loop
<1>3. CASE UNCHANGED vars
  BY <1>1, <1>3, TypeParts, NextParts DEF vars, DialOK, EventsOK, LoopOK, CallOK, SharedOK, KlientOK,
     dialVars, loopVars, sharedVars, klientVars
<1> QED BY <1>2, <1>3

-----------------------------------------------------------------------------
(* The invariant.                                                          *)

(* An identifier the client has, or the server knows, was issued.          *)
Issued == \A i \in live \cup ({registered, cident, ident} \ {NoIdent}) : vhost[i] # NoVHost

(* Who may be where.                                                       *)
Places ==
  /\ event # "none" => loop = "forward"
  /\ dial = "restore" => klient
  /\ user # NoName => ~klient
  /\ dial \in {"connect", "session"} => cident = registered

(* The event loop has not heard of the latest connection yet.              *)
Coming == Queued(events) \/ event = "connected"

(* Once it has, it asks with the identifier of that connection.            *)
SessionAgrees == dial = "session" /\ ~Coming => ident = registered

(* The answers are what the server has on file, while it has the client.   *)
AnswersAgree ==
  loop \in {"call", "callback"} /\ ident \in live =>
    \A s \in Answered : answer[s] = tun[ident][s]

(* A service without an address is on its way to the server.               *)
Asking ==
  \A s \in Names : remote[s] = NoAddr =>
    pending[s] # NotPending \/ regserv[s] # NotPending \/ user = s \/ dial = "restore"

(* In a session the event loop knows of, what is not asked for again is on *)
(* file.                                                                   *)
RemoteAgrees ==
  dial = "session" /\ ~Coming /\ registered \in control =>
    \A s \in Names : remote[s] \in Ends /\ pending[s] = NotPending =>
      remote[s] = tun[registered][s]

SavedAgrees == klient => \A s \in Names : remote[s] \in Ends => saved[s] = remote[s]

(* A connection is asked for once per identifier.                          *)
Once ==
  /\ late \cap control = {} /\ \A i \in late : vhost[i] # NoVHost
  /\ dial \in {"restore", "connect"} =>
       registered \in Idents /\ registered \notin control \cup late

ClientInv ==
  /\ TypeOK /\ Proved!HostInv /\ AskedPending /\ control \subseteq live /\ Issued /\ Places /\ Once
  /\ SessionAgrees /\ AnswersAgree /\ Asking /\ RemoteAgrees /\ SavedAgrees

LEMMA InvInit == Init => ClientInv
<1> SUFFICES ASSUME Init PROVE ClientInv
  OBVIOUS
<1>1. /\ Server!Init /\ Started /\ late = {} /\ klient \in BOOLEAN /\ astray = FALSE
      /\ saved = [s \in Names |-> None]
  BY DEF Init
<1>2. Proved!HostInv
  BY <1>1, ClientAssumption
  DEF Server!Init, Proved!HostInv, Proved!TypeOK, Proved!HostsAgree, Proved!SessionHasHost,
      Server!None, Proved!None, Server!Absent, Proved!Absent, Server!Entries, Proved!Entries,
      Server!Ports, Proved!Ports, Proved!Closed
<1>3. TypeOK
  <2>1. Server!TypeOK
    BY <1>2, SameServer DEF Proved!HostInv
  <2>2. DialOK /\ KlientOK
    BY <1>1 DEF Started, DialOK, KlientOK, Ends
  <2>5. LoopOK
    BY <1>1, ClientAssumption DEF Started, LoopOK, Idle
  <2>6. CallOK
    BY <1>1 DEF Started, CallOK
  <2>4. SharedOK
    BY <1>1 DEF Started, SharedOK, Idle, Ends
  <2>3. EventsOK
    <3>1. <<"connecting">> \in Seq(States) /\ Len(<<"connecting">>) = 1
      BY DEF States
    <3> QED BY <1>1, <3>1, ClientAssumption DEF Started, EventsOK
  <2> QED BY <2>1, <2>2, <2>3, <2>4, <2>5, <2>6, TypeParts
<1>4. AskedPending /\ Places /\ SessionAgrees /\ AnswersAgree /\ RemoteAgrees
  BY <1>1 DEF Started, AskedPending, Places, SessionAgrees, AnswersAgree, RemoteAgrees
<1>5. control \subseteq live /\ Issued /\ Once
  BY <1>1 DEF Server!Init, Started, Issued, Once
<1>6. Asking /\ SavedAgrees
  BY <1>1, PortsAreNot DEF Started, Asking, SavedAgrees, None, NoAddr, Absent
<1> QED BY <1>2, <1>3, <1>4, <1>5, <1>6 DEF ClientInv

(* What a step does to the server's tables.                                *)
LEMMA ServerEffect ==
  ASSUME ClientInv, [Next]_vars
  PROVE  /\ \A i \in Idents : vhost[i] # NoVHost => vhost'[i] = vhost[i]
         /\ \A i \in live' : i \in Idents /\ vhost'[i] # NoVHost
         /\ \A i \in live' : i \in live \/ vhost[i] = NoVHost
         /\ \A i \in live \cap live', s \in Names :
              tun'[i][s] = tun[i][s] \/ (i = ident /\ s \in asked /\ Serve(s))
         /\ control' \subseteq live'
         /\ control' \subseteq control \cup {registered}
         /\ dial # "connect" => control' \subseteq control
<1>0. TypeOK /\ AskedPending /\ control \subseteq live
  BY DEF ClientInv
<1>s. /\ live \in SUBSET Idents /\ control \in SUBSET Idents
      /\ vhost \in [Idents -> VHosts \cup {NoVHost}]
      /\ tun \in [Idents -> [Names \cup {Kite} -> Ends \cup {Absent}]]
  BY <1>0, TypeParts, ServerShape
<1>i. \A i \in live : i \in Idents /\ vhost[i] # NoVHost
  BY <1>s DEF ClientInv, Issued
<1>1. ASSUME NEW s \in Names, Serve(s)
      PROVE  /\ UNCHANGED <<vhost, live, control>>
             /\ \A i \in Idents, z \in Names :
                  tun'[i][z] = tun[i][z] \/ (i = ident /\ z = s /\ s \in asked)
  <2>1. UNCHANGED <<vhost, live, control>> /\ s \in asked
    BY <1>1 DEF Serve, Server!Known, Server!Upgrade, Server!AddNew, Server!serverVars
  <2>2. tun' = tun \/ \E p : tun' = [tun EXCEPT ![ident][s] = p]
    BY <1>1 DEF Serve, Server!Known, Server!Upgrade, Server!AddNew, Server!serverVars
  <2> QED BY <1>s, <2>1, <2>2
<1>2. ASSUME NEW i \in Idents, Server!Register(i, Host, IF klient THEN {Kite} ELSE {})
      PROVE  /\ vhost[i] = NoVHost /\ live' = live \cup {i} /\ control' = control
             /\ vhost'[i] # NoVHost
             /\ \A j \in Idents \ {i} : vhost'[j] = vhost[j] /\ tun'[j] = tun[j]
  BY <1>s, <1>2, ClientAssumption DEF Server!Register
<1>3. ASSUME NEW i \in Idents, Server!Disconnect(i) \/ (Server!Refuse(i) /\ i \notin control)
      PROVE  /\ vhost' = vhost /\ live' = live \ {i} /\ control' = control \ {i}
             /\ \A j \in Idents \ {i} : tun'[j] = tun[j]
  <2>1. Server!DelClient(i) /\ control' = control \ {i}
    BY <1>3 DEF Server!Disconnect, Server!Refuse
  <2>2. vhost' = vhost /\ live' = live \ {i} /\ \A j \in Idents \ {i} : tun'[j] = tun[j]
    BY <1>s, <2>1 DEF Server!DelClient, Server!tables
  <2> QED BY <2>1, <2>2
<1>4. ASSUME Server!Connect(registered)
      PROVE  /\ UNCHANGED <<vhost, live, tun>> /\ control' \subseteq live
             /\ control' = control \cup {registered}
  <2>1. registered \in live
    BY <1>4, ClientAssumption DEF ClientInv, Proved!HostInv, Proved!HostsAgree, Server!Connect,
       Server!Hosted
  <2> QED BY <1>0, <1>4, <2>1 DEF Server!Connect, Server!tables
<1>5. ASSUME Server!Restart PROVE live' = {} /\ control' = {} /\ vhost' = vhost
  BY <1>5 DEF Server!Restart
<1>6. \/ UNCHANGED <<vhost, live, control, tun>>
      \/ \E s \in Names : Serve(s)
      \/ \E i \in Idents : Server!Register(i, Host, IF klient THEN {Kite} ELSE {})
      \/ \E i \in Idents : Server!Disconnect(i) \/ (Server!Refuse(i) /\ i \notin control)
      \/ dial = "connect" /\ Server!Connect(registered)
      \/ Server!Restart
  BY DEF ClientInv, Once, Next, Dial, Loop, RegisterDone, RegisterLost, Register, SendRestore, Connect, ConnectFails,
         SessionEnds, TakeEvent, Forward, TakeServices, TakeToken, CallFails, Replied, CallReturns,
         ReadState, Retry, Disconnect, LateRefused, RegisterService, SendService, Crash, Restart, serverVars, vars
<1>7. CASE UNCHANGED <<vhost, live, control, tun>>
  BY <1>0, <1>i, <1>7
<1>8. CASE \E s \in Names : Serve(s)
  BY <1>0, <1>i, <1>1, <1>8, <1>s
<1>9. CASE \E i \in Idents : Server!Register(i, Host, IF klient THEN {Kite} ELSE {})
  BY <1>0, <1>i, <1>2, <1>9, <1>s
<1>10. CASE \E i \in Idents : Server!Disconnect(i) \/ (Server!Refuse(i) /\ i \notin control)
  BY <1>0, <1>i, <1>3, <1>10, <1>s
<1> QED BY <1>0, <1>i, <1>4, <1>5, <1>6, <1>7, <1>8, <1>9, <1>10

LEMMA HostNext ==
  ASSUME ClientInv, [Next]_vars
  PROVE  Proved!HostInv'
BY ProvedStep, ServerAssumption, Proved!HostStep DEF ClientInv

LEMMA AskedNext ==
  ASSUME ClientInv, [Next]_vars
  PROVE  AskedPending'
<1> USE DEF AskedPending
<1>0. AskedPending
  BY DEF ClientInv
<1>1. CASE \E s \in Names : Serve(s)
  BY <1>0, <1>1 DEF Serve
<1>2. CASE TakeToken
  BY <1>2 DEF TakeToken
<1>3. CASE loop' # "call"
  BY <1>3
<1>4. CASE UNCHANGED <<loop, asked, pending>>
  BY <1>0, <1>4
<1> QED
  BY <1>1, <1>2, <1>3, <1>4
  DEF Next, Dial, Loop, RegisterDone, RegisterLost, SendRestore, Connect, ConnectFails,
      SessionEnds, TakeEvent, Forward, TakeServices, CallFails, Replied, CallReturns, ReadState,
      Retry, Disconnect, LateRefused, RegisterService, SendService, Crash, Restart, loopVars, vars

LEMMA PlacesNext ==
  ASSUME ClientInv, [Next]_vars
  PROVE  Places'
<1> USE DEF Places
<1>0. Places
  BY DEF ClientInv
<1>1. CASE Dial
  BY <1>0, <1>1 DEF Dial, RegisterDone, RegisterLost, SendRestore, Connect, ConnectFails,
                    SessionEnds, dialVars, loopVars, sharedVars, klientVars
<1>2. CASE Loop \/ ReadState \/ Retry
  BY <1>0, <1>2 DEF Loop, TakeEvent, Forward, TakeServices, TakeToken, CallFails, Replied,
                    CallReturns, Serve, ReadState, Retry, dialVars, loopVars, sharedVars, klientVars
<1>3. CASE \/ \E i \in Idents : Disconnect(i) \/ LateRefused(i)
           \/ \E s \in Names : RegisterService(s)
           \/ SendService \/ Crash \/ Restart \/ UNCHANGED vars
  BY <1>0, <1>3 DEF Disconnect, LateRefused, RegisterService, SendService, Crash, Restart, dialVars, loopVars,
                    sharedVars, klientVars, vars
<1> QED BY <1>1, <1>2, <1>3 DEF Next

LEMMA IssuedNext ==
  ASSUME ClientInv, [Next]_vars
  PROVE  Issued'
<1>0. TypeOK /\ Issued
  BY DEF ClientInv
<1>1. \A i \in live' : vhost'[i] # NoVHost
  BY ServerEffect
<1>2. registered' \in {registered, NoIdent} \cup live'
  BY DEF Next, Dial, Loop, RegisterDone, Register, Server!Register, RegisterLost, SendRestore, Connect,
         ConnectFails, SessionEnds, TakeEvent, Forward, TakeServices, TakeToken, CallFails, Replied,
         CallReturns, Serve, ReadState, Retry, Disconnect, LateRefused, RegisterService, SendService, Crash,
         Restart, dialVars, vars
<1>3. cident' \in {cident, registered, NoIdent} \cup live'
  BY DEF Next, Dial, Loop, RegisterDone, Register, Server!Register, RegisterLost, SendRestore, Connect,
         ConnectFails, SessionEnds, TakeEvent, Forward, TakeServices, TakeToken, CallFails, Replied,
         CallReturns, Serve, ReadState, Retry, Disconnect, LateRefused, RegisterService, SendService, Crash,
         Restart, dialVars, vars
<1>4. ident' \in {ident, cident, NoIdent}
  BY DEF Next, Dial, Loop, RegisterDone, RegisterLost, SendRestore, Connect,
         ConnectFails, SessionEnds, TakeEvent, Forward, Handle, TakeServices, TakeToken, CallFails,
         Replied, CallReturns, Serve, ReadState, Retry, Disconnect, LateRefused, RegisterService, SendService,
         Crash, Restart, loopVars, vars
<1>5. \A i \in {registered, cident, ident} \ {NoIdent} : i \in Idents /\ vhost[i] # NoVHost
  BY <1>0, TypeParts DEF Issued, DialOK, LoopOK
<1>6. \A i \in {registered, cident, ident} \ {NoIdent} : vhost'[i] # NoVHost
  BY <1>5, ServerEffect
<1> QED BY <1>1, <1>2, <1>3, <1>4, <1>6 DEF Issued

LEMMA OnceNext ==
  ASSUME ClientInv, [Next]_vars
  PROVE  Once'
<1>0. /\ TypeOK /\ control \subseteq live /\ Issued
      /\ late \cap control = {} /\ \A i \in late : i \in Idents /\ vhost[i] # NoVHost
      /\ dial \in {"restore", "connect"} =>
           registered \in Idents /\ registered \notin control \cup late
  BY TypeParts DEF ClientInv, Once, DialOK
<1>1. ASSUME NEW i \in Idents, Register(i) PROVE control' = control /\ i \notin control \cup late
  BY <1>0, <1>1 DEF Register, Server!Register, Issued
<1>2. CASE \E i \in Idents : RegisterDone(i)
  <2>1. PICK i \in Idents : RegisterDone(i)
    BY <1>2
  <2>2. registered' = i /\ late' = late /\ control' = control /\ i \notin control \cup late
    BY <1>1, <2>1 DEF RegisterDone
  <2> QED BY <1>0, <2>2, ServerEffect DEF Once
<1>3. CASE ConnectFails
  <2>1. dial' = "register" /\ registered \in Idents /\ vhost[registered] # NoVHost
    BY <1>0, <1>3, ClientAssumption DEF ConnectFails, Issued
  <2>2. CASE late' = late \cup {registered} /\ UNCHANGED serverVars
    BY <1>0, <1>3, <2>1, <2>2 DEF Once, ConnectFails, serverVars
  <2>3. CASE late' = late
    BY <1>0, <1>3, <2>1, <2>3, ServerEffect DEF Once, ConnectFails
  <2> QED BY <1>3, <2>2, <2>3 DEF ConnectFails
<1>4. CASE Connect
  BY <1>0, <1>4, ServerEffect DEF Connect, Once
<1>5. CASE late' \subseteq late /\ dial # "connect" /\ dial' \notin {"restore", "connect"}
  BY <1>0, <1>5, ServerEffect DEF Once
<1>6. CASE /\ late' \subseteq late /\ control' \subseteq control
           /\ dial' \in {"restore", "connect"} =>
                dial \in {"restore", "connect"} /\ registered' = registered
  BY <1>0, <1>6, ServerEffect DEF Once
<1>7. ASSUME NEW i \in Idents, Server!Disconnect(i) \/ Server!Refuse(i) PROVE control' \subseteq control
  BY <1>7 DEF Server!Disconnect, Server!Refuse
<1> QED
  BY <1>1, <1>2, <1>3, <1>4, <1>5, <1>6, <1>7
  DEF Next, Dial, Loop, RegisterLost, SendRestore, SessionEnds, TakeEvent, Forward, TakeServices,
      TakeToken, CallFails, Replied, CallReturns, Serve, ReadState, Retry, Disconnect, LateRefused,
      RegisterService, SendService, Crash, Restart, dialVars, vars, serverVars, Server!Known,
      Server!AddNew, Server!Upgrade, Server!Restart, Server!serverVars

(* The event loop learns of a connection.                                  *)
Hears ==
  \/ TakeEvent /\ ~klient /\ Head(events) = "connected"
  \/ Forward /\ event = "connected"

LEMMA HearsEffect ==
  ASSUME Hears
  PROVE  pending' = PendingAgain /\ ident' = cident /\ UNCHANGED <<serverVars, dialVars, remote>>
BY DEF Hears, TakeEvent, Forward, Handle

(* The state the client is in during a session that it knows of.           *)
LEMMA SessionKept ==
  ASSUME ClientInv, [Next]_vars, dial' = "session", ~Coming'
  PROVE  /\ dial = "session" /\ UNCHANGED <<dial, registered, cident>>
         /\ ~Coming \/ Hears
<1>0. EventsOK /\ Places
  BY TypeParts DEF ClientInv
<1>1. ~Connect
  BY <1>0, ConnectedQueued DEF Connect, Coming
<1>2. dial = "session" /\ UNCHANGED <<dial, registered, cident>>
  BY <1>1 DEF Next, Dial, Loop, RegisterDone, RegisterLost, SendRestore,
         ConnectFails, SessionEnds, TakeEvent, Forward, TakeServices, TakeToken, CallFails, Replied,
         CallReturns, Serve, ReadState, Retry, Disconnect, LateRefused, RegisterService, SendService, Crash,
         Restart, dialVars, vars
<1>3. CASE UNCHANGED <<events, event>>
  BY <1>2, <1>3 DEF Coming, Queued
<1>4. CASE TakeEvent
  <2>1. events' = Tail(events) /\ (Queued(events) => Head(events) = "connected" \/ Queued(events'))
    BY <1>0, <1>4, Taken DEF TakeEvent
  <2>2. event = "none"
    BY <1>0, <1>4 DEF Places, TakeEvent
  <2>3. klient => event' = Head(events)
    BY <1>4 DEF TakeEvent
  <2> QED BY <1>2, <1>4, <2>1, <2>2, <2>3 DEF Coming, Hears
<1>5. CASE Forward
  BY <1>2, <1>5 DEF Forward, Coming, Queued, Hears
<1>6. ~Dial
  BY <1>2 DEF Dial, RegisterDone, RegisterLost, Register, SendRestore, Connect, ConnectFails,
              SessionEnds, dialVars
<1> QED
  BY <1>2, <1>3, <1>4, <1>5, <1>6
  DEF Next, Loop, TakeServices, TakeToken, CallFails, Replied, CallReturns, Serve, ReadState, Retry,
      Disconnect, LateRefused, RegisterService, SendService, Crash, Restart, loopVars, dialVars, vars

LEMMA SessionNext ==
  ASSUME ClientInv, [Next]_vars
  PROVE  SessionAgrees'
<1> SUFFICES ASSUME dial' = "session", ~Coming' PROVE ident' = registered'
  BY DEF SessionAgrees
<1>1. dial = "session" /\ UNCHANGED <<dial, registered, cident>> /\ (~Coming \/ Hears)
  BY SessionKept
<1>2. cident = registered /\ registered' = registered
  BY <1>1 DEF ClientInv, Places, dialVars
<1>3. ident' \in {ident, cident} \/ Crash
  BY DEF Next, Dial, Loop, RegisterDone, RegisterLost, SendRestore, Connect,
         ConnectFails, SessionEnds, TakeEvent, Forward, Handle, TakeServices, TakeToken, CallFails,
         Replied, CallReturns, Serve, ReadState, Retry, Disconnect, LateRefused, RegisterService, SendService,
         Restart, loopVars, vars
<1>4. ~Crash
  BY DEF Crash
<1>5. CASE ~Coming
  BY <1>1, <1>2, <1>3, <1>4, <1>5 DEF ClientInv, SessionAgrees
<1> QED BY <1>1, <1>2, <1>5, HearsEffect

LEMMA AnswersNext ==
  ASSUME ClientInv, [Next]_vars
  PROVE  AnswersAgree'
<1> SUFFICES ASSUME loop' \in {"call", "callback"}, ident' \in live', NEW z \in Answered'
             PROVE  answer'[z] = tun'[ident'][z]
  BY DEF AnswersAgree
<1>0. TypeOK /\ AnswersAgree
  BY DEF ClientInv
<1>z. z \in Names /\ answer'[z] \notin {Absent, Failed}
  BY DEF Answered
<1>1. CASE TakeToken
  BY <1>1, <1>z DEF TakeToken
<1>2. ASSUME NEW s \in Names, Serve(s) PROVE answer'[z] = tun'[ident'][z]
  <2>1. loop = "call" /\ ident' = ident /\ answer \in [Names -> Ends \cup {Absent, Failed}]
    BY <1>0, <1>2, TypeParts DEF Serve, CallOK
  <2>2. ident \in live
    BY <1>2 DEF Serve, Server!AddNew, Server!Upgrade, Server!Upgrades, Server!Known, Server!Has
  <2>3. CASE Serve(z)
    BY <1>z, <2>1, <2>3 DEF Serve
  <2>4. CASE ~Serve(z)
    <3>1. z # s
      BY <1>2, <2>4
    <3>2. answer'[z] = answer[z]
      BY <1>2, <1>z, <2>1, <3>1 DEF Serve
    <3>3. tun'[ident][z] = tun[ident][z]
      BY <1>z, <2>1, <2>2, <2>4, ServerEffect
    <3> QED BY <1>0, <1>z, <2>1, <2>2, <3>2, <3>3 DEF AnswersAgree, Answered
  <2> QED BY <2>3, <2>4
<1>3. CASE loop' = "select"
  BY <1>3
<1>4. CASE /\ UNCHANGED <<ident, answer>> /\ loop \in {"call", "callback"}
           /\ ~\E s \in Names : Serve(s)
  <2>1. ident \in Idents /\ ident # NoIdent
    BY <1>4, ServerEffect, ClientAssumption
  <2>2. ident \in live
    BY <1>4, <2>1, ServerEffect DEF ClientInv, Issued
  <2>3. tun'[ident][z] = tun[ident][z]
    BY <1>4, <1>z, <2>2, ServerEffect
  <2> QED BY <1>0, <1>4, <1>z, <2>2, <2>3 DEF AnswersAgree, Answered
<1>5. \/ TakeToken \/ (\E s \in Names : Serve(s)) \/ loop' = "select"
      \/ loop' = "forward"
      \/ UNCHANGED <<ident, answer>> /\ loop \in {"call", "callback"}
  BY DEF Next, Dial, Loop, RegisterDone, RegisterLost, SendRestore, Connect,
         ConnectFails, SessionEnds, TakeEvent, Forward, Handle, TakeServices, CallFails,
         Replied, CallReturns, ReadState, Retry, Disconnect, LateRefused, RegisterService, SendService,
         Crash, Restart, loopVars, vars
<1> QED BY <1>1, <1>2, <1>3, <1>4, <1>5

LEMMA SavedNext ==
  ASSUME ClientInv, [Next]_vars
  PROVE  SavedAgrees'
<1>0. TypeOK /\ SavedAgrees
  BY DEF ClientInv
<1>1. CASE CallReturns
  BY <1>0, <1>1, TypeParts DEF CallReturns, SavedAgrees, SharedOK, KlientOK
<1>2. CASE UNCHANGED <<klient, saved>> /\ \A s \in Names : remote'[s] \in {remote[s], NoAddr, Absent}
  BY <1>0, <1>2, PortsAreNot DEF SavedAgrees
<1>3. ASSUME NEW s \in Names, RegisterService(s)
      PROVE  \A z \in Names : remote'[z] \in {remote[z], NoAddr, Absent}
  BY <1>0, <1>3, TypeParts DEF RegisterService, SharedOK
<1>4. CallReturns \/ (UNCHANGED <<klient, saved>>
                     /\ \A s \in Names : remote'[s] \in {remote[s], NoAddr, Absent})
  BY <1>3
  DEF Next, Dial, Loop, RegisterDone, ResetAddr, RegisterLost, SendRestore, Connect,
      ConnectFails, SessionEnds, TakeEvent, Forward, TakeServices, TakeToken, CallFails,
      Replied, Serve, ReadState, Retry, Disconnect, LateRefused, RegisterService, SendService,
      Crash, Restart, sharedVars, klientVars, vars
<1> QED BY <1>1, <1>2, <1>4

LEMMA AskingNext ==
  ASSUME ClientInv, [Next]_vars
  PROVE  Asking'
<1> SUFFICES ASSUME NEW s \in Names, remote'[s] = NoAddr
             PROVE  pending'[s] # NotPending \/ regserv'[s] # NotPending \/ user' = s
                    \/ dial' = "restore"
  BY DEF Asking
<1>0. TypeOK /\ Asking /\ Places
  BY DEF ClientInv
<1>t. /\ pending \in [Names -> Requests \cup {NotPending}]
      /\ regserv \in [Names -> Requests \cup {NotPending}]
      /\ remote \in [Names -> Ends \cup {Absent, NoAddr}] /\ saved \in [Names -> Ends]
  BY <1>0, TypeParts DEF LoopOK, SharedOK, KlientOK
<1>1. CASE Dial
  <2>1. CASE \E i \in Idents : RegisterDone(i)
    BY <1>0, <2>1 DEF RegisterDone, Register, Asking, loopVars
  <2>2. CASE SendRestore
    <3>1. Restoring[s] \in Requests
      BY <1>t DEF Restoring, Requests, Ends
    <3> QED BY <2>2, <3>1, ClientAssumption DEF SendRestore
  <2>3. CASE UNCHANGED <<loopVars, sharedVars>> /\ dial # "restore"
    BY <1>0, <2>3 DEF Asking, loopVars, sharedVars
  <2> QED BY <1>1, <2>1, <2>2, <2>3
          DEF Dial, RegisterLost, Register, Connect, ConnectFails, SessionEnds
<1>2. CASE TakeEvent \/ Forward
  <2>1. \A z \in Names : pending[z] # NotPending => pending'[z] # NotPending
    BY <1>2, <1>t DEF TakeEvent, Forward, Handle, PendingAgain
  <2> QED BY <1>0, <1>2, <2>1 DEF Asking, TakeEvent, Forward, dialVars
<1>3. CASE TakeServices
  BY <1>0, <1>3, <1>t DEF TakeServices, Asking, dialVars
<1>4. CASE CallReturns
  <2>1. s \notin Answered /\ remote[s] = NoAddr
    <3>1. s \in Answered => answer[s] \in Ends
      BY <1>0, AnsweredEnds
    <3>2. remote'[s] = IF s \in Answered THEN answer[s] ELSE remote[s]
      BY <1>4 DEF CallReturns
    <3> QED BY <3>1, <3>2, PortsAreNot
  <2>2. pending'[s] = pending[s] /\ UNCHANGED <<regserv, user, dialVars>>
    BY <1>4, <2>1 DEF CallReturns
  <2> QED BY <1>0, <2>1, <2>2 DEF Asking, dialVars
<1>5. CASE \E z \in Names : RegisterService(z)
  BY <1>0, <1>5, <1>t, ClientAssumption DEF RegisterService, Asking, dialVars, loopVars
<1>6. CASE SendService
  <2>1. [port |-> None, restore |-> FALSE] \in Requests
    BY DEF Requests
  <2>2. Idle \in [Names -> {NotPending}] /\ regserv = Idle
    BY <1>6 DEF SendService, Idle
  <2>3. user \in Names
    BY <1>0, <1>6, TypeParts DEF SendService, SharedOK
  <2>4. regserv' = [Idle EXCEPT ![user] = [port |-> None, restore |-> FALSE]]
        /\ UNCHANGED <<pending, remote, dial>>
    BY <1>6 DEF SendService, loopVars, dialVars
  <2>5. s = user => regserv'[s] # NotPending
    BY <2>1, <2>2, <2>3, <2>4, ClientAssumption
  <2> QED BY <1>0, <2>2, <2>4, <2>5 DEF Asking
<1>7. CASE Crash
  BY <1>7, PortsAreNot DEF Crash
<1>8. CASE UNCHANGED <<remote, pending, regserv, user, dial>>
  BY <1>0, <1>8 DEF Asking
<1> QED
  BY <1>1, <1>2, <1>3, <1>4, <1>5, <1>6, <1>7, <1>8
  DEF Next, Loop, TakeToken, CallFails, Replied, Serve, ReadState, Retry, Disconnect, LateRefused, Restart,
      loopVars, sharedVars, dialVars, vars

LEMMA RemoteNext ==
  ASSUME ClientInv, [Next]_vars
  PROVE  RemoteAgrees'
<1> SUFFICES ASSUME dial' = "session", ~Coming', registered' \in control',
                    NEW s \in Names, remote'[s] \in Ends, pending'[s] = NotPending
             PROVE  remote'[s] = tun'[registered'][s]
  BY DEF RemoteAgrees
<1>0. TypeOK
  BY DEF ClientInv
<1>t. /\ pending \in [Names -> Requests \cup {NotPending}]
      /\ regserv \in [Names -> Requests \cup {NotPending}]
      /\ remote \in [Names -> Ends \cup {Absent, NoAddr}]
  BY <1>0, TypeParts DEF LoopOK, SharedOK
<1>1. dial = "session" /\ UNCHANGED <<dial, registered, cident>> /\ (~Coming \/ Hears)
  BY SessionKept
<1>2. ~Hears
  <2> SUFFICES ASSUME Hears PROVE FALSE
    OBVIOUS
  <2>1. pending' = PendingAgain /\ remote' = remote
    BY HearsEffect
  <2>2. pending[s] = NotPending /\ remote[s] \notin {Absent, NoAddr} => pending'[s] = Restore(s)
    BY <2>1 DEF PendingAgain
  <2>3. remote[s] \in Ends => Restore(s) \in Requests
    BY DEF Restore, Requests, Ends
  <2>4. pending[s] # NotPending => pending'[s] = pending[s]
    BY <2>1 DEF PendingAgain
  <2> QED BY <2>1, <2>2, <2>3, <2>4, PortsAreNot, ClientAssumption
<1>3. ~Coming /\ registered' = registered /\ ident = registered
  BY <1>1, <1>2 DEF dialVars, ClientInv, SessionAgrees
<1>4. registered \in control /\ registered \in live /\ registered \in live'
  BY <1>1, <1>3, ServerEffect DEF ClientInv
<1>5. CASE CallReturns
  <2>1. tun' = tun /\ remote'[s] = IF s \in Answered THEN answer[s] ELSE remote[s]
    BY <1>5 DEF CallReturns, serverVars
  <2>2. CASE s \in Answered
    <3>1. answer[s] = tun[ident][s]
      BY <1>3, <1>4, <1>5, <2>2 DEF CallReturns, ClientInv, AnswersAgree
    <3> QED BY <1>3, <2>1, <2>2, <3>1
  <2>3. CASE s \notin Answered
    <3>1. pending[s] = NotPending
      BY <1>5, <2>3 DEF CallReturns
    <3> QED BY <1>1, <1>3, <1>4, <2>1, <2>3, <3>1 DEF ClientInv, RemoteAgrees
  <2> QED BY <2>2, <2>3
<1>6. CASE remote'[s] = remote[s] /\ pending[s] = NotPending
  <2>1. ~(s \in asked /\ Serve(s))
    BY <1>6 DEF ClientInv, AskedPending, Serve
  <2>2. tun'[registered][s] = tun[registered][s]
    BY <1>4, <2>1, ServerEffect
  <2> QED BY <1>1, <1>3, <1>4, <1>6, <2>2 DEF ClientInv, RemoteAgrees
<1>7. ASSUME NEW z \in Names, RegisterService(z) PROVE remote'[s] = remote[s]
  <2>1. remote' = [remote EXCEPT ![z] = NoAddr]
    BY <1>7 DEF RegisterService
  <2> QED BY <1>t, <2>1, PortsAreNot
<1>8. ASSUME TakeEvent \/ Forward PROVE remote'[s] = remote[s] /\ pending[s] = NotPending
  BY <1>8, <1>2, <1>t DEF TakeEvent, Forward, Handle, Hears
<1>9. ASSUME TakeServices PROVE remote'[s] = remote[s] /\ pending[s] = NotPending
  BY <1>9 DEF TakeServices
<1>10. ~Dial /\ ~Crash
  BY <1>1 DEF Dial, RegisterDone, RegisterLost, Register, SendRestore, Connect, ConnectFails,
              SessionEnds, dialVars, Crash
<1>11. CallReturns \/ (remote'[s] = remote[s] /\ pending[s] = NotPending)
  BY <1>7, <1>8, <1>9, <1>10
  DEF Next, Loop, TakeToken, CallFails, Replied, Serve, ReadState, Retry, Disconnect, LateRefused, RegisterService,
      SendService, Restart, loopVars, sharedVars, vars
<1> QED BY <1>5, <1>6, <1>11

LEMMA InvNext ==
  ASSUME ClientInv, [Next]_vars
  PROVE  ClientInv'
<1>1. TypeOK' /\ control' \subseteq live'
  BY TypeNext, ServerEffect DEF ClientInv, Once
<1> QED BY <1>1, HostNext, AskedNext, IssuedNext, PlacesNext, OnceNext, SessionNext, AnswersNext, AskingNext,
           RemoteNext, SavedNext DEF ClientInv

LEMMA InvAlways == Spec => []ClientInv
BY InvInit, InvNext, PTL DEF Spec

(* Every variable keeps its type.                                          *)
THEOREM TypeCorrect == Spec => []TypeOK
<1>1. ClientInv => TypeOK
  BY DEF ClientInv
<1> QED BY <1>1, InvAlways, PTL

(* When the client is done, it, the server and klient's database agree     *)
(* about every service, through lost connections, calls and answers, and   *)
(* crashes of both sides: property QuietAgrees.                            *)
THEOREM QuietClientAgrees == Spec => []QuietAgrees
<1>1. ClientInv => QuietAgrees
  <2> SUFFICES ASSUME ClientInv, Quiet, NEW s \in Names, Known(s)
               PROVE  remote[s] = tun[registered][s] /\ (klient => saved[s] = remote[s])
    BY DEF QuietAgrees
  <2>1. pending[s] = NotPending /\ regserv[s] = NotPending /\ user # s
    BY ClientAssumption DEF Quiet, Idle
  <2>2. remote[s] \in Ends
    BY <2>1, TypeParts DEF ClientInv, Asking, Quiet, Known, SharedOK
  <2>3. ~Coming
    <3>1. Len(events) = 0 /\ event = "none"
      BY DEF Quiet, ClientInv, Places
    <3> QED BY <3>1 DEF Coming, Queued
  <2> QED BY <2>1, <2>2, <2>3 DEF ClientInv, RemoteAgrees, SavedAgrees, Quiet
<1> QED BY <1>1, InvAlways, PTL

(* Every behaviour of the client is one of the server: what is proved of   *)
(* TunnelServer holds here too.                                            *)
THEOREM ServerRefinement == Spec => Server!Spec
<1>1. Init => Server!Init
  BY DEF Init
<1>2. ClientInv /\ [Next]_vars => [Server!Next]_(Server!serverVars)
  BY ServerStep DEF ClientInv
<1> QED BY <1>1, <1>2, InvAlways, PTL DEF Spec, Server!Spec

-----------------------------------------------------------------------------
(* Routes.  An identifier has no services before the event loop asks with  *)
(* it, and one that is asked with is not asked with again later.           *)
NewIdents ==
  /\ registered = ident => cident = ident
  /\ \A i \in {cident, registered} \ {ident, NoIdent} : \A s \in Names : tun[i][s] = Absent

OneHost == \A i \in Idents : vhost[i] \in {Host, NoVHost}

(* The client the host leads to is the one the event loop asks for.        *)
Reached == ident # NoIdent /\ hosts[Host] = ident /\ ~astray

(* Each of its services has a listener of its own.                         *)
PortsOwned ==
  Reached => \A s \in Names : tun[ident][s] # Absent =>
    /\ tun[ident][s] \in Ports /\ route[tun[ident][s]] = ident
    /\ \A z \in Names \ {s} : tun[ident][z] # tun[ident][s]

(* In a session, the news of a lost one is followed by that of another.    *)
InOrder(es) ==
  \A k \in 1 .. Len(es) : es[k] = "disconnected" =>
    \E j \in k + 1 .. Len(es) : es[j] = "connected"

Followed ==
  dial = "session" => InOrder(events) /\ (event = "disconnected" => Queued(events))

(* What is not asked for again is passed on to the service.                *)
RoutesAgree ==
  Reached /\ dial = "session" /\ ~Coming /\ registered \in control =>
    \A s \in Names : remote[s] \in Ports /\ pending[s] = NotPending => routes[remote[s]] = s

RoutesInv == NewIdents /\ OneHost /\ PortsOwned /\ Followed /\ RoutesAgree

(* What a new service and a moved one do to the ports.                     *)
LEMMA PortAdded ==
  ASSUME TypeOK, NEW i \in Idents, NEW s \in Names, NEW r \in Requests, Server!AddNew(i, s, r),
         route' # route
  PROVE  \E l \in Ports : /\ route[l] = NoIdent
                          /\ tun' = [tun EXCEPT ![i][s] = l] /\ route' = [route EXCEPT ![l] = i]
<1>1. Proved!TypeOK /\ Proved!AddNew(i, s, r)
  BY SameServer, TypeParts
<1> DEFINE wanted == Proved!Take(r.port)
           l == IF wanted # Proved!None THEN wanted ELSE Proved!PickPort
<1>2. l # Proved!None
  BY <1>1 DEF Proved!AddNew
<1>3. tun' = [tun EXCEPT ![i][s] = l] /\ route' = Proved!Opened(l, i)
  BY <1>1, <1>2 DEF Proved!AddNew
<1>4. Proved!PickPort \in Proved!Ports \cup {Proved!None}
      /\ (Proved!PickPort # Proved!None => Proved!Free(Proved!PickPort))
  BY <1>1, ServerAssumption, Proved!PickedPort
<1>5. wanted # Proved!None => wanted \in Ports /\ Proved!Free(wanted)
  BY DEF Proved!Take, Requests, Proved!None, None
<1>6. l \in Ports /\ Proved!Free(l)
  BY <1>2, <1>4, <1>5 DEF Ports, Proved!Ports, Proved!None
<1> QED BY <1>3, <1>6 DEF Proved!Opened, Proved!Free

LEMMA PortMoved ==
  ASSUME TypeOK, NEW i \in Idents, NEW s \in Names, NEW r \in Requests, Server!Upgrade(i, s, r)
  PROVE  /\ r.port \in Ports /\ route[r.port] = NoIdent /\ tun' = [tun EXCEPT ![i][s] = r.port]
         /\ route'[r.port] = i
         /\ \A p \in Ports : p # r.port /\ p # services[tun[i][s]] => route'[p] = route[p]
<1>1. r.port \in Ports /\ route[r.port] = NoIdent
  BY DEF Server!Upgrade, Server!Upgrades, Server!Take, Server!Free, Requests, Server!None, None
<1>2. tun' = [tun EXCEPT ![i][s] = r.port]
      /\ route' = [Server!Shut({services[tun[i][s]]} \cap Server!Ports) EXCEPT ![r.port] = i]
  BY DEF Server!Upgrade
<1>3. \A ls : Server!Shut(ls) = [p \in Ports |-> IF p \in ls THEN NoIdent ELSE route[p]]
  BY DEF Server!Shut, Server!Ports, Ports
<1> QED BY <1>1, <1>2, <1>3

(* A name other than the one the event loop asks with gains no services.   *)
LEMMA OthersGainNothing ==
  ASSUME ClientInv, [Next]_vars, NEW i \in Idents, NEW s \in Names,
         i # ident, tun[i][s] = Absent
  PROVE  tun'[i][s] = Absent
<1>s. tun \in [Idents -> [Names \cup {Kite} -> Ends \cup {Absent}]]
  BY TypeParts, ServerShape DEF ClientInv
<1>1. ASSUME NEW z \in Names, Serve(z) PROVE tun'[i][s] = Absent
  <2>1. tun' = tun \/ \E p : tun' = [tun EXCEPT ![ident][z] = p]
    BY <1>1 DEF Serve, Server!Known, Server!Upgrade, Server!AddNew, Server!serverVars
  <2> QED BY <1>s, <2>1
<1>2. ASSUME NEW j \in Idents, Server!Register(j, Host, IF klient THEN {Kite} ELSE {})
      PROVE  tun'[i][s] = Absent
  <2>1. tun' = [tun EXCEPT ![j] = [z \in Names \cup {Kite} |->
                  IF z \in (IF klient THEN {Kite} ELSE {}) THEN None ELSE Absent]]
    BY <1>2 DEF Server!Register, Server!Entries, Server!None, Server!Absent, None, Absent
  <2>2. s \notin (IF klient THEN {Kite} ELSE {})
    BY ClientAssumption
  <2> QED BY <1>s, <2>1, <2>2
<1>3. ASSUME NEW j \in Idents, Server!DelClient(j) PROVE tun'[i][s] = Absent
  BY <1>s, <1>3 DEF Server!DelClient, Server!Entries, Server!Absent, Absent, Server!tables
<1>4. CASE Server!Restart
  BY <1>4 DEF Server!Restart, Server!Entries, Server!Absent, Absent
<1>5. \/ UNCHANGED tun
      \/ \E z \in Names : Serve(z)
      \/ \E j \in Idents : Server!Register(j, Host, IF klient THEN {Kite} ELSE {})
      \/ \E j \in Idents : Server!DelClient(j)
      \/ Server!Restart
  BY DEF Next, Dial, Loop, RegisterDone, RegisterLost, Register, SendRestore, Connect, ConnectFails,
         SessionEnds, TakeEvent, Forward, TakeServices, TakeToken, CallFails, Replied, CallReturns,
         ReadState, Retry, Disconnect, LateRefused, RegisterService, SendService, Crash, Restart, serverVars, vars,
         Server!Connect, Server!Disconnect, Server!Refuse, Server!tables
<1> QED BY <1>1, <1>2, <1>3, <1>4, <1>5

LEMMA NewIdentsNext ==
  ASSUME ClientInv, NewIdents, [Next]_vars
  PROVE  NewIdents'
<1>i. \A i \in {registered, cident, ident} \ {NoIdent} : i \in Idents /\ vhost[i] # NoVHost
  BY TypeParts DEF ClientInv, Issued, DialOK, LoopOK
<1>a. /\ registered = ident => cident = ident
      /\ \A i \in {cident, registered} \ {ident, NoIdent} : \A s \in Names : tun[i][s] = Absent
  BY DEF NewIdents
<1>b. \A i \in {cident, registered} \ {ident, NoIdent} : \A s \in Names : tun'[i][s] = Absent
  BY <1>a, <1>i, OthersGainNothing
<1>1. CASE UNCHANGED <<registered, cident, ident>>
  BY <1>a, <1>b, <1>1 DEF NewIdents
<1>2. ASSUME NEW i \in Idents, RegisterDone(i) PROVE NewIdents'
  <2>1. vhost[i] = NoVHost /\ registered' = i /\ ident' = ident /\ cident' \in {cident, i}
    BY <1>2 DEF RegisterDone, Register, Server!Register, loopVars
  <2>2. i # ident /\ i # NoIdent
    BY <1>i, <2>1, ClientAssumption
  <2>3. \A s \in Names : tun'[i][s] = Absent
    <3>1. tun' = [tun EXCEPT ![i] = [z \in Names \cup {Kite} |->
                    IF z \in (IF klient THEN {Kite} ELSE {}) THEN None ELSE Absent]]
      BY <1>2 DEF RegisterDone, Register, Server!Register, Server!Entries, Server!None,
         Server!Absent, None, Absent
    <3>2. tun \in [Idents -> [Names \cup {Kite} -> Ends \cup {Absent}]]
      BY TypeParts, ServerShape DEF ClientInv
    <3>3. \A s \in Names : s \notin (IF klient THEN {Kite} ELSE {})
      BY ClientAssumption
    <3> QED BY <3>1, <3>2, <3>3
  <2> QED BY <1>b, <2>1, <2>2, <2>3 DEF NewIdents
<1>3. CASE SendRestore
  <2>1. registered' = registered /\ cident' = registered /\ ident' = ident
    BY <1>3 DEF SendRestore, loopVars
  <2> QED BY <1>b, <2>1 DEF NewIdents
<1>4. CASE Hears
  <2>1. ident' = cident /\ UNCHANGED <<registered, cident, tun>>
    BY <1>4, HearsEffect DEF serverVars, dialVars
  <2> QED BY <1>a, <2>1 DEF NewIdents
<1>5. CASE Crash
  BY <1>5 DEF Crash, NewIdents
<1>6. \/ UNCHANGED <<registered, cident, ident>> \/ SendRestore \/ Hears \/ Crash
      \/ \E i \in Idents : RegisterDone(i)
  BY DEF Next, Dial, Loop, RegisterLost, Connect, ConnectFails, SessionEnds, TakeEvent, Forward,
         Handle, Hears, TakeServices, TakeToken, CallFails, Replied, CallReturns, Serve, ReadState,
         Retry, Disconnect, LateRefused, RegisterService, SendService, Restart, loopVars, dialVars, vars
<1> QED BY <1>1, <1>2, <1>3, <1>4, <1>5, <1>6

LEMMA OneHostNext ==
  ASSUME ClientInv, OneHost, [Next]_vars
  PROVE  OneHost'
<1>1. vhost \in [Idents -> VHosts \cup {NoVHost}]
  BY TypeParts, ServerShape DEF ClientInv
<1>2. UNCHANGED vhost \/ \E i \in Idents : vhost' = [vhost EXCEPT ![i] = Host]
  BY DEF Next, Dial, Loop, RegisterDone, RegisterLost, Register, SendRestore, Connect, ConnectFails,
         SessionEnds, TakeEvent, Forward, TakeServices, TakeToken, CallFails, Replied, CallReturns,
         ReadState, Retry, Disconnect, LateRefused, RegisterService, SendService, Crash, Restart, Serve,
         serverVars, vars, Server!Register, Server!Connect, Server!Disconnect, Server!Refuse, Server!DelClient, Server!Known,
         Server!AddNew, Server!Upgrade, Server!Restart, Server!serverVars, Server!tables
<1> QED BY <1>1, <1>2 DEF OneHost

(* As long as the host leads to the client, only its calls change its      *)
(* ports.                                                                  *)
LEMMA ReachedKept ==
  ASSUME ClientInv, OneHost, [Next]_vars, Reached', ~Hears
  PROVE  /\ Reached /\ ident' = ident
         /\ UNCHANGED <<tun, route, services>> \/ \E s \in Names : Serve(s)
<1>1. ident' = ident
  <2>1. ident' # NoIdent
    BY DEF Reached
  <2> QED
    BY <2>1
    DEF Next, Dial, Loop, RegisterDone, RegisterLost, SendRestore, Connect, ConnectFails, SessionEnds,
        TakeEvent, Forward, Handle, Hears, TakeServices, TakeToken, CallFails, Replied, CallReturns,
        Serve, ReadState, Retry, Disconnect, LateRefused, RegisterService, SendService, Crash, Restart, loopVars,
        dialVars, vars
<1>2. ident \in Idents /\ vhost[ident] # NoVHost
  BY <1>1, TypeParts DEF Reached, ClientInv, LoopOK, Issued
<1>3. ~astray
  <2>1. ~astray'
    BY DEF Reached
  <2> QED
    BY <2>1
    DEF Next, Dial, Loop, RegisterDone, RegisterLost, SendRestore, Connect, ConnectFails, SessionEnds,
        TakeEvent, Forward, TakeServices, TakeToken, CallFails, Replied, CallReturns,
        Serve, ReadState, Retry, Disconnect, LateRefused, RegisterService, SendService, Crash, Restart, loopVars, vars
<1>4. hosts'[Host] = ident
  BY <1>1 DEF Reached
<1>s. hosts \in [VHosts -> Idents \cup {NoIdent}] /\ Host \in VHosts
  BY TypeParts, ClientAssumption DEF ClientInv, Server!TypeOK
<1>5. \A i \in Idents : ~Server!Register(i, Host, IF klient THEN {Kite} ELSE {})
  <2> SUFFICES ASSUME NEW i \in Idents, Server!Register(i, Host, IF klient THEN {Kite} ELSE {})
               PROVE  FALSE
    OBVIOUS
  <2>1. vhost[i] = NoVHost /\ hosts'[Host] = i
    BY <1>s DEF Server!Register
  <2> QED BY <1>2, <1>4, <2>1
<1>6. ASSUME NEW i \in Idents, Server!DelClient(i), vhost[i] # NoVHost
      PROVE  UNCHANGED <<tun, route, services, hosts>>
  <2>1. CASE i \in live
    <3>1. vhost[i] = Host
      BY <1>6 DEF OneHost
    <3>2. hosts'[Host] = NoIdent
      BY <1>s, <1>6, <2>1, <3>1 DEF Server!DelClient, Server!DeleteHost
    <3> QED BY <1>2, <1>4, <3>2, ClientAssumption
  <2>2. CASE i \notin live
    BY <1>6, <2>2 DEF Server!DelClient, Server!tables
  <2> QED BY <2>1, <2>2
<1>7. ASSUME NEW i \in Idents, Server!Disconnect(i)
      PROVE  UNCHANGED <<tun, route, services, hosts>>
  BY <1>6, <1>7 DEF Server!Disconnect, ClientInv, Proved!HostInv
<1>8. ASSUME NEW i, Server!Refuse(i)
      PROVE  UNCHANGED <<tun, route, services, hosts>>
  BY <1>6, <1>8 DEF Server!Refuse
<1>9. ~Server!Restart
  BY <1>2, <1>4, <1>s, ClientAssumption DEF Server!Restart
<1>10. UNCHANGED <<tun, route, services, hosts>> \/ \E s \in Names : Serve(s)
  BY <1>5, <1>7, <1>8, <1>9
  DEF Next, Dial, Loop, RegisterDone, RegisterLost, Register, SendRestore, Connect, ConnectFails,
      SessionEnds, TakeEvent, Forward, TakeServices, TakeToken, CallFails, Replied, CallReturns,
      ReadState, Retry, Disconnect, LateRefused, RegisterService, SendService, Crash, Restart,
      serverVars, vars, Server!Connect, Server!tables
<1>11. hosts' = hosts
  BY <1>10 DEF Serve, Server!Known, Server!AddNew, Server!Upgrade, Server!serverVars
<1> QED BY <1>1, <1>2, <1>3, <1>4, <1>10, <1>11, ClientAssumption DEF Reached

(* Each listener of the client goes on being that of one service.          *)
LEMMA PortsOwnedNext ==
  ASSUME ClientInv, NewIdents, OneHost, PortsOwned, [Next]_vars
  PROVE  PortsOwned'
<1> SUFFICES ASSUME Reached', NEW s \in Names, tun'[ident'][s] # Absent
             PROVE  /\ tun'[ident'][s] \in Ports /\ route'[tun'[ident'][s]] = ident'
                    /\ \A z \in Names \ {s} : tun'[ident'][z] # tun'[ident'][s]
  BY DEF PortsOwned
<1>1. CASE Hears
  <2>1. ident' = cident /\ UNCHANGED <<tun, route, hosts, astray>>
    <3>1. UNCHANGED <<serverVars, astray>>
      BY <1>1 DEF Hears, TakeEvent, Forward
    <3> QED BY <1>1, <3>1, HearsEffect DEF serverVars
  <2>2. cident # NoIdent
    BY <2>1 DEF Reached
  <2>3. cident = ident
    BY <2>1, <2>2 DEF NewIdents
  <2> QED BY <2>1, <2>3 DEF PortsOwned, Reached
<1>2. CASE ~Hears
  <2>1. Reached /\ ident' = ident
    BY <1>2, ReachedKept
  <2>2. \A z \in Names : tun[ident][z] # Absent =>
          /\ tun[ident][z] \in Ports /\ route[tun[ident][z]] = ident
          /\ \A y \in Names \ {z} : tun[ident][y] # tun[ident][z]
    BY <2>1 DEF PortsOwned
  <2>3. TypeOK /\ ident \in Idents /\ ident # NoIdent
    BY <2>1, TypeParts DEF Reached, ClientInv, LoopOK
  <2>s. /\ tun \in [Idents -> [Names \cup {Kite} -> Ends \cup {Absent}]]
        /\ route \in [Ports -> Idents \cup {NoIdent}]
    BY <2>3, TypeParts, ServerShape DEF Server!TypeOK, Server!Ports, Ports
  <2>4. CASE UNCHANGED <<tun, route>>
    BY <2>1, <2>2, <2>4
  <2>5. ASSUME NEW z \in Names, Serve(z), ~UNCHANGED <<tun, route>>
        PROVE  /\ tun'[ident'][s] \in Ports /\ route'[tun'[ident'][s]] = ident'
               /\ \A y \in Names \ {s} : tun'[ident'][y] # tun'[ident'][s]
    <3>1. pending[z] \in Requests
      BY <2>3, <2>5, TypeParts DEF Serve, AskedPending, LoopOK, ClientInv
    <3>2. ~Server!Known(ident, z, pending[z])
      BY <2>5 DEF Server!Known, Server!serverVars
    <3>3. ~astray'
      BY DEF Reached
    <3>4. CASE Server!Upgrade(ident, z, pending[z]) /\ ~Crosses(z)
      <4> DEFINE r == pending[z]
                 l == services[tun[ident][z]]
      <4>1. /\ r.port \in Ports /\ route[r.port] = NoIdent
            /\ tun' = [tun EXCEPT ![ident][z] = r.port] /\ route'[r.port] = ident
            /\ \A p \in Ports : p # r.port /\ p # l => route'[p] = route[p]
        BY <2>3, <3>1, <3>4, PortMoved
      <4>2. tun[ident][z] # Absent
        BY <3>4 DEF Server!Upgrade, Server!Upgrades, Server!Has, Server!Absent, Absent
      <4>3. \A y \in Names \ {z} : tun[ident][y] # Absent =>
              /\ tun[ident][y] # r.port /\ tun[ident][y] # l
              /\ route'[tun[ident][y]] = ident
        <5> SUFFICES ASSUME NEW y \in Names \ {z}, tun[ident][y] # Absent
                     PROVE  /\ tun[ident][y] # r.port /\ tun[ident][y] # l
                            /\ route'[tun[ident][y]] = ident
          OBVIOUS
        <5>1. tun[ident][y] \in Ports /\ route[tun[ident][y]] = ident /\ tun[ident][y] # tun[ident][z]
          BY <2>2
        <5>2. tun[ident][y] # l
          BY <3>4, <5>1 DEF Crosses
        <5> QED BY <2>3, <4>1, <5>1, <5>2
      <4>4. tun'[ident][z] = r.port /\ \A y \in Names \ {z} : tun'[ident][y] = tun[ident][y]
        BY <2>3, <2>s, <4>1
      <4>5. CASE s = z
        <5>1. \A y \in Names \ {z} : tun'[ident][y] # r.port
          BY <4>1, <4>3, <4>4, PortsAreNot DEF Ends
        <5> QED BY <2>1, <4>1, <4>4, <4>5, <5>1
      <4>6. CASE s # z
        <5>1. tun'[ident][s] = tun[ident][s] /\ tun[ident][s] # Absent
          BY <2>1, <4>4, <4>6
        <5>2. tun[ident][s] \in Ports /\ tun[ident][s] # r.port /\ route'[tun[ident][s]] = ident
              /\ \A y \in Names \ {s} : tun[ident][y] # tun[ident][s]
          BY <2>2, <4>3, <4>6, <5>1
        <5> QED BY <2>1, <4>4, <4>6, <5>1, <5>2
      <4> QED BY <4>5, <4>6
    <3>5. CASE Server!AddNew(ident, z, pending[z]) /\ route' # route
      <4>1. PICK l \in Ports : /\ route[l] = NoIdent /\ tun' = [tun EXCEPT ![ident][z] = l]
                               /\ route' = [route EXCEPT ![l] = ident]
        BY <2>3, <3>1, <3>5, PortAdded
      <4>2. tun'[ident][z] = l /\ \A y \in Names \ {z} : tun'[ident][y] = tun[ident][y]
        BY <2>3, <2>s, <4>1
      <4>3. route'[l] = ident /\ \A p \in Ports \ {l} : route'[p] = route[p]
        BY <2>s, <4>1
      <4>4. \A y \in Names \ {z} : tun[ident][y] # l
        BY <2>2, <2>3, <4>1, PortsAreNot DEF Ends
      <4>5. CASE s = z
        BY <2>1, <4>2, <4>3, <4>4, <4>5
      <4>6. CASE s # z
        <5>1. tun'[ident][s] = tun[ident][s] /\ tun[ident][s] # Absent /\ tun[ident][s] # l
          BY <2>1, <4>2, <4>4, <4>6
        <5>2. tun[ident][s] \in Ports /\ route'[tun[ident][s]] = ident
              /\ \A y \in Names \ {s} : tun[ident][y] # tun[ident][s]
          BY <2>2, <4>3, <5>1
        <5> QED BY <2>1, <4>2, <4>6, <5>1, <5>2
      <4> QED BY <4>5, <4>6
    <3> QED BY <2>5, <3>2, <3>3, <3>4, <3>5 DEF Serve
  <2> QED BY <1>2, <2>4, <2>5, ReachedKept
<1> QED BY <1>1, <1>2

(* What the channel keeps of the order of the state changes.               *)
LEMMA InOrderTaken ==
  ASSUME EventsOK, events # <<>>, InOrder(events)
  PROVE  /\ InOrder(Tail(events))
         /\ Head(events) = "disconnected" => Queued(Tail(events))
<1>1. /\ Tail(events) \in Seq(States) /\ Len(Tail(events)) = Len(events) - 1
      /\ Head(events) = events[1] /\ Len(events) \in Nat \ {0}
      /\ \A k \in 1 .. Len(events) - 1 : Tail(events)[k] = events[k + 1]
  BY DEF EventsOK
<1>2. ASSUME NEW k \in 1 .. Len(Tail(events)), Tail(events)[k] = "disconnected"
      PROVE  \E j \in k + 1 .. Len(Tail(events)) : Tail(events)[j] = "connected"
  <2>1. k + 1 \in 1 .. Len(events) /\ events[k + 1] = "disconnected"
    BY <1>1, <1>2
  <2>2. PICK j \in k + 2 .. Len(events) : events[j] = "connected"
    BY <2>1 DEF InOrder
  <2>3. j - 1 \in k + 1 .. Len(Tail(events)) /\ Tail(events)[j - 1] = "connected"
    BY <1>1, <1>2, <2>2
  <2> QED BY <2>3
<1>3. ASSUME Head(events) = "disconnected" PROVE Queued(Tail(events))
  <2>1. PICK j \in 2 .. Len(events) : events[j] = "connected"
    BY <1>1, <1>3 DEF InOrder
  <2>2. j - 1 \in 1 .. Len(Tail(events)) /\ Tail(events)[j - 1] = "connected"
    BY <1>1, <2>1
  <2> QED BY <2>2 DEF Queued
<1> QED BY <1>2, <1>3 DEF InOrder

LEMMA InOrderConnected ==
  ASSUME EventsOK, Notify(<<"connected">>)
  PROVE  InOrder(events')
<1>1. events' = events \o <<"connected">> /\ events \in Seq(States) /\ "connected" \in States
  BY DEF Notify, EventsOK, States
<1>2. /\ Len(events) \in Nat /\ Len(events') = Len(events) + 1
      /\ events'[Len(events) + 1] = "connected"
  BY <1>1
<1>3. ASSUME NEW k \in 1 .. Len(events'), events'[k] = "disconnected"
      PROVE  \E j \in k + 1 .. Len(events') : events'[j] = "connected"
  <2>1. k # Len(events')
    BY <1>2, <1>3
  <2>2. Len(events') \in k + 1 .. Len(events')
    BY <1>2, <1>3, <2>1
  <2> QED BY <1>2, <2>2
<1> QED BY <1>3 DEF InOrder

LEMMA FollowedNext ==
  ASSUME ClientInv, Followed, [Next]_vars
  PROVE  Followed'
<1> SUFFICES ASSUME dial' = "session"
             PROVE  InOrder(events') /\ (event' = "disconnected" => Queued(events'))
  BY DEF Followed
<1>0. EventsOK /\ Places
  BY TypeParts DEF ClientInv
<1>1. CASE Connect
  BY <1>0, <1>1, InOrderConnected, ConnectedQueued DEF Connect
<1>2. CASE ~Connect
  <2>1. dial = "session"
    BY <1>2 DEF Next, Dial, Loop, RegisterDone, RegisterLost, Register, SendRestore,
       ConnectFails, SessionEnds, TakeEvent, Forward, TakeServices, TakeToken, CallFails, Replied,
       CallReturns, Serve, ReadState, Retry, Disconnect, LateRefused, RegisterService, SendService, Crash,
       Restart, dialVars, vars
  <2>2. InOrder(events) /\ (event = "disconnected" => Queued(events))
    BY <2>1 DEF Followed
  <2>3. CASE TakeEvent
    <3>1. events # <<>> /\ events' = Tail(events) /\ loop = "select"
          /\ event' \in {event, Head(events)}
      BY <2>3 DEF TakeEvent
    <3>2. event = "none"
      BY <1>0, <3>1 DEF Places
    <3> QED BY <1>0, <2>2, <3>1, <3>2, InOrderTaken
  <2>4. CASE Forward
    BY <2>2, <2>4 DEF Forward
  <2>5. ~Dial /\ ~Crash
    BY <1>2, <2>1 DEF Dial, RegisterDone, RegisterLost, Register, SendRestore, ConnectFails,
                SessionEnds, Crash
  <2>6. TakeEvent \/ Forward \/ UNCHANGED <<events, event>>
    BY <2>5 DEF Next, Loop, TakeServices, TakeToken, CallFails, Replied, CallReturns, Serve,
       ReadState, Retry, Disconnect, LateRefused, RegisterService, SendService, Restart, loopVars, vars
  <2> QED BY <2>2, <2>3, <2>4, <2>6
<1> QED BY <1>1, <1>2

(* A service whose address is kept goes on getting its connections.        *)
LEMMA RoutesNext ==
  ASSUME ClientInv, RoutesInv, [Next]_vars
  PROVE  RoutesAgree'
<1> SUFFICES ASSUME Reached', dial' = "session", ~Coming', registered' \in control',
                    NEW s \in Names, remote'[s] \in Ports, pending'[s] = NotPending
             PROVE  routes'[remote'[s]] = s
  BY DEF RoutesAgree
<1>0. TypeOK /\ OneHost /\ PortsOwned /\ Followed /\ RoutesAgree
  BY DEF ClientInv, RoutesInv
<1>t. /\ pending \in [Names -> Requests \cup {NotPending}]
      /\ regserv \in [Names -> Requests \cup {NotPending}]
      /\ remote \in [Names -> Ends \cup {Absent, NoAddr}]
      /\ EventsOK /\ Places
  BY <1>0, TypeParts DEF LoopOK, SharedOK, ClientInv
<1>1. dial = "session" /\ UNCHANGED <<dial, registered, cident>> /\ (~Coming \/ Hears)
  BY SessionKept
<1>2. ~Hears
  <2> SUFFICES ASSUME Hears PROVE FALSE
    OBVIOUS
  <2>1. pending' = PendingAgain /\ remote' = remote
    BY HearsEffect
  <2>2. pending[s] = NotPending /\ remote[s] \notin {Absent, NoAddr} => pending'[s] = Restore(s)
    BY <2>1 DEF PendingAgain
  <2>3. remote[s] \in Ends => Restore(s) \in Requests
    BY DEF Restore, Requests, Ends
  <2>4. pending[s] # NotPending => pending'[s] = pending[s]
    BY <2>1 DEF PendingAgain
  <2>5. remote[s] \in Ends
    BY <2>1 DEF Ends
  <2> QED BY <2>1, <2>2, <2>3, <2>4, <2>5, PortsAreNot, ClientAssumption
<1>3. ~Coming /\ registered' = registered /\ ident = registered /\ Reached
  BY <1>0, <1>1, <1>2, ReachedKept DEF dialVars, ClientInv, SessionAgrees
<1>4. registered \in control /\ registered \in live
  BY <1>1, <1>3, ServerEffect DEF ClientInv
<1>5. CASE CallReturns
  <2>1. /\ remote'[s] = IF s \in Answered THEN answer[s] ELSE remote[s]
        /\ routes' = RouteAdded
    BY <1>5 DEF CallReturns
  <2>2. \A z \in Answered : answer[z] = tun[ident][z]
    BY <1>3, <1>4, <1>5 DEF CallReturns, ClientInv, AnswersAgree
  <2>3. remote'[s] = tun[ident][s]
    <3>1. CASE s \in Answered
      BY <2>1, <2>2, <3>1
    <3>2. CASE s \notin Answered
      <4>1. pending[s] = NotPending /\ remote'[s] = remote[s]
        BY <1>5, <2>1, <3>2 DEF CallReturns
      <4>2. remote[s] \in Ends
        BY <4>1 DEF Ends
      <4> QED BY <1>1, <1>3, <1>4, <4>1, <4>2 DEF ClientInv, RemoteAgrees
    <3> QED BY <3>1, <3>2
  <2>4. \A z \in Names \ {s} : tun[ident][z] # tun[ident][s]
    BY <1>0, <1>3, <2>3, PortsAreNot DEF PortsOwned, Ends
  <2>5. \A z \in Answered : answer[z] = remote'[s] => z = s
    BY <2>2, <2>3, <2>4 DEF Answered
  <2>6. routes'[remote'[s]] = IF \E z \in Answered : answer[z] = remote'[s]
                                THEN CHOOSE z \in Answered : answer[z] = remote'[s]
                                ELSE routes[remote'[s]]
    BY <2>1 DEF RouteAdded
  <2>7. CASE \E z \in Answered : answer[z] = remote'[s]
    BY <2>5, <2>6, <2>7
  <2>8. CASE ~\E z \in Answered : answer[z] = remote'[s]
    <3>1. s \notin Answered
      BY <2>1, <2>8
    <3>2. pending[s] = NotPending /\ remote'[s] = remote[s]
      BY <1>5, <2>1, <3>1 DEF CallReturns
    <3> QED BY <1>0, <1>1, <1>3, <1>4, <2>6, <2>8, <3>2 DEF RoutesAgree
  <2> QED BY <2>7, <2>8
<1>6. CASE routes' = routes /\ remote'[s] = remote[s] /\ pending[s] = NotPending
  BY <1>0, <1>1, <1>3, <1>4, <1>6 DEF RoutesAgree
<1>7. ASSUME NEW z \in Names, RegisterService(z)
      PROVE  routes' = routes /\ remote'[s] = remote[s] /\ pending[s] = NotPending
  <2>1. remote' = [remote EXCEPT ![z] = NoAddr] /\ UNCHANGED <<routes, pending>>
    BY <1>7 DEF RegisterService, loopVars
  <2> QED BY <1>t, <2>1, PortsAreNot DEF Ends
<1>8. ASSUME TakeEvent
      PROVE  routes' = routes /\ remote'[s] = remote[s] /\ pending[s] = NotPending
  <2>1. events # <<>> /\ events' = Tail(events)
    BY <1>8 DEF TakeEvent
  <2>2. Head(events) # "disconnected"
    BY <1>0, <1>1, <1>t, <2>1, InOrderTaken DEF Followed, Coming
  <2> QED BY <1>2, <1>8, <2>2 DEF TakeEvent, Handle, Hears
<1>9. ASSUME Forward
      PROVE  routes' = routes /\ remote'[s] = remote[s] /\ pending[s] = NotPending
  <2>1. event # "disconnected"
    BY <1>0, <1>1, <1>9 DEF Followed, Coming, Forward
  <2> QED BY <1>2, <1>9, <2>1 DEF Forward, Handle, Hears
<1>10. ASSUME TakeServices
       PROVE  routes' = routes /\ remote'[s] = remote[s] /\ pending[s] = NotPending
  BY <1>10, <1>t DEF TakeServices
<1>11. ~Dial /\ ~Crash
  BY <1>1 DEF Dial, RegisterDone, RegisterLost, Register, SendRestore, Connect, ConnectFails,
              SessionEnds, dialVars, Crash
<1>12. CallReturns \/ (routes' = routes /\ remote'[s] = remote[s] /\ pending[s] = NotPending)
  BY <1>7, <1>8, <1>9, <1>10, <1>11
  DEF Next, Loop, TakeToken, CallFails, Replied, Serve, ReadState, Retry, Disconnect, LateRefused, RegisterService,
      SendService, Restart, loopVars, sharedVars, vars
<1> QED BY <1>5, <1>6, <1>12

LEMMA RoutesInit == Init => RoutesInv
<1> SUFFICES ASSUME Init PROVE RoutesInv
  OBVIOUS
<1>1. /\ ident = NoIdent /\ registered = NoIdent /\ cident = NoIdent /\ dial = "register"
      /\ \A i \in Idents : vhost[i] = NoVHost
  BY DEF Init, Started, Server!Init
<1> QED BY <1>1 DEF RoutesInv, NewIdents, OneHost, Reached, PortsOwned, Followed, RoutesAgree

LEMMA RoutesAlways == Spec => [](ClientInv /\ RoutesInv)
<1>1. Init => ClientInv /\ RoutesInv
  BY InvInit, RoutesInit
<1>2. (ClientInv /\ RoutesInv) /\ [Next]_vars => (ClientInv /\ RoutesInv)'
  <2> SUFFICES ASSUME ClientInv, RoutesInv, [Next]_vars PROVE ClientInv' /\ RoutesInv'
    OBVIOUS
  <2> QED BY InvNext, NewIdentsNext, OneHostNext, PortsOwnedNext, FollowedNext, RoutesNext
          DEF RoutesInv
<1> QED BY <1>1, <1>2, PTL DEF Spec

(* When the client is done, connections to the port of each of its         *)
(* services reach that service by way of this session, through lost        *)
(* connections, calls and answers, unless the server saw the client come   *)
(* back too early or left a service without a listener: property           *)
(* QuietRouted.                                                            *)
THEOREM QuietClientRouted == Spec => []QuietRouted
<1>1. ClientInv /\ RoutesInv => QuietRouted
  <2> SUFFICES ASSUME ClientInv, RoutesInv, ordered, ~astray, Quiet, NEW s \in Names,
                      remote[s] \in Ports
               PROVE  route[remote[s]] = registered /\ routes[remote[s]] = s
    BY DEF QuietRouted
  <2>1. dial = "session" /\ registered \in control /\ pending[s] = NotPending
    BY DEF Quiet, Idle
  <2>2. ~Coming
    <3>1. Len(events) = 0 /\ event = "none"
      BY DEF Quiet, ClientInv, Places
    <3> QED BY <3>1 DEF Coming, Queued
  <2>3. ident = registered
    BY <2>1, <2>2 DEF ClientInv, SessionAgrees
  <2>4. registered \in Idents /\ registered # NoIdent /\ vhost[registered] # NoVHost
    <3>1. registered \in Idents
      BY <2>1, TypeParts, ServerShape DEF ClientInv
    <3> QED BY <2>1, <3>1, ClientAssumption DEF ClientInv, Issued
  <2>5. hosts[Host] = registered
    BY <2>1, <2>4 DEF ClientInv, Proved!HostInv, Proved!SessionHasHost, RoutesInv, OneHost
  <2>6. Reached
    BY <2>3, <2>4, <2>5 DEF Reached
  <2>7. remote[s] = tun[ident][s]
    BY <2>1, <2>2, <2>3 DEF ClientInv, RemoteAgrees, Ends
  <2>8. route[remote[s]] = ident
    BY <2>6, <2>7, PortsAreNot DEF RoutesInv, PortsOwned, Ends
  <2> QED BY <2>1, <2>2, <2>3, <2>6, <2>8 DEF RoutesInv, RoutesAgree
<1> QED BY <1>1, RoutesAlways, PTL
=============================================================================
