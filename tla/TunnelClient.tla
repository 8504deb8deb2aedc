---------------------------- MODULE TunnelClient ---------------------------
(***************************************************************************)
(* One client of the tunnel server, with the server it talks to.           *)
(*                                                                         *)
(* Two goroutines of the client work side by side: the redial loop, which  *)
(* registers and connects again whenever the control connection ends, and  *)
(* the event loop, which asks the server for ports.  They meet in the      *)
(* channels stateChanges and regserv.  When the client belongs to a        *)
(* klient, both also call back into it, under its mutex, and klient reads  *)
(* the state changes in a loop of its own.                                 *)
(*                                                                         *)
(* The network may end a connection, refuse a call or lose its answer.  A  *)
(* call that was given up is not carried out later, but a connection may   *)
(* be asked for that late.                                                 *)
(***************************************************************************)
EXTENDS Integers, Sequences, FiniteSets

CONSTANTS
  Idents, VHosts, Names, Kite, From, To, NoIdent, NoVHost,  \* see TunnelServer
  Host,        \* the virtual host of this client
  NoName,
  NotPending,  \* a service that waits for nothing
  MaxEvents,   \* bounds the buffer of stateChanges, which holds 128
  MaxRetries   \* bounds the retries that sleep at once

None   == 0
Absent == -1  \* the client has no such service
NoAddr == -2  \* the service has no remote address yet
Failed == -3  \* the server's answer was an error

Ports == From .. To
Requests == [port : Ports \cup {None}, restore : BOOLEAN]
Idle == [s \in Names |-> NotPending]

ASSUME ClientAssumption ==
  /\ Host \in VHosts /\ NotPending \notin Requests
  /\ From \in Nat /\ To \in Nat /\ 0 < From /\ From < To
  /\ NoIdent \notin Idents /\ NoVHost \notin VHosts /\ NoName \notin Names
  /\ Kite \notin Names
  /\ MaxEvents \in Nat \ {0} /\ MaxRetries \in Nat

VARIABLES
  live, vhost, tun, idents, services, last, hosts, route, control, plain, ordered,
  klient,      \* whether the client belongs to a klient
  dial,        \* what the redial loop does
  registered,  \* connected.Ident, the identifier the redial loop has
  cident,      \* ident of Client
  late,        \* the connections given up before the server came to them
  events,      \* the channel stateChanges
  loop,        \* what the event loop does
  event,       \* the state change it passes on to klient
  ident,       \* the identifier it asks with
  token,       \* handlePending: "nil", "empty" or "full"
  pending,     \* the services it has to ask for
  asked,       \* of them, those the server has not come to
  answer,      \* the server's answer about the others
  retries,     \* the retries that sleep
  astray,      \* history: the server left a service without a listener, see Serve
  regserv,     \* the channel of new services; Idle when empty
  remote,      \* the port in RemoteAddr of each service
  routes,      \* the service connections to a port are passed to
  user,        \* the service somebody is registering
  reader,      \* klient's loop: "idle", or "lock" as it waits for the mutex
  saved        \* the port of each service in klient's database

Server == INSTANCE TunnelServer

serverVars == <<live, vhost, tun, idents, services, last, hosts, route, control,
                plain, ordered>>
dialVars == <<dial, registered, cident, late>>
loopVars == <<loop, event, ident, token, pending, asked, answer, retries, astray>>
sharedVars == <<regserv, remote, routes, user>>
klientVars == <<klient, reader, saved>>
vars == <<serverVars, dialVars, events, loopVars, sharedVars, klientVars>>

Unused == {i \in Idents : vhost[i] = NoVHost}

(* updateOptions holds klient's mutex until regserv took the services.     *)
MutexFree == dial # "restore"

(* changeState, while there is room: its drop of a state change when 128   *)
(* wait is out of the bounds.                                              *)
Notify(es) ==
  /\ Len(events) + Len(es) <= MaxEvents
  /\ events' = events \o es

-----------------------------------------------------------------------------
(* The redial loop.                                                        *)

(* What a klient asks for after each registration: the ports it saved.     *)
Restoring == [s \in Names |-> [port |-> saved[s], restore |-> saved[s] # None]]

(* The services of a klient start anew, without their remote address.      *)
ResetAddr == [s \in Names |-> NoAddr]

(* Identifiers are random: any unused one is like another.                 *)
Register(i) ==
  /\ dial = "register" /\ Unused # {}
  /\ i = CHOOSE j \in Unused : TRUE
  /\ Server!Register(i, Host, IF klient THEN {Kite} ELSE {})

(* fetchIdent, with klient's updateOptions up to the send to regserv.      *)
RegisterDone(i) ==
  /\ Register(i)
  /\ registered' = i
  /\ IF klient
       THEN /\ dial' = "restore" /\ remote' = ResetAddr
            /\ UNCHANGED cident
       ELSE /\ dial' = "connect" /\ cident' = i
            /\ UNCHANGED remote
  /\ UNCHANGED <<late, events, loopVars, regserv, routes, user, klientVars>>

(* The answer, and with it the identifier, is lost.                        *)
RegisterLost(i) ==
  /\ Register(i)
  /\ Notify(<<"connecting">>)
  /\ UNCHANGED <<dialVars, loopVars, sharedVars, klientVars>>

SendRestore ==
  /\ dial = "restore" /\ regserv = Idle
  /\ regserv' = Restoring
  /\ dial' = "connect"
  /\ cident' = registered
  /\ UNCHANGED <<serverVars, registered, late, events, loopVars, remote, routes, user,
                 klientVars>>

Connect ==
  /\ dial = "connect"
  /\ Server!Connect(registered)
  /\ Notify(<<"connected">>)
  /\ dial' = "session"
  /\ UNCHANGED <<registered, cident, late, loopVars, sharedVars, klientVars>>

(* The server refuses, or the client gives up, whether or not the server   *)
(* has the connection.                                                     *)
ConnectFails ==
  /\ dial = "connect"
  /\ \/ Server!Connect(registered) /\ UNCHANGED late
     \/ Server!Refuse(registered) /\ UNCHANGED late
     \/ late' = late \cup {registered} /\ UNCHANGED serverVars
  /\ Notify(<<"connecting">>)
  /\ dial' = "register"
  /\ UNCHANGED <<registered, cident, loopVars, sharedVars, klientVars>>

(* The server comes to a connection nobody waits for.  No handshake        *)
(* follows, so it refuses even a client that a host leads to.              *)
LateRefused(i) ==
  /\ i \in late
  /\ Server!Refuse(i)
  /\ late' = late \ {i}
  /\ UNCHANGED <<dial, registered, cident, events, loopVars, sharedVars, klientVars>>

(* Bound: no session is lost when no identifier is left for another.       *)
Spare == Unused # {}

(* listenControl ends; when a stream cannot be opened it says nothing.     *)
SessionEnds ==
  /\ dial = "session"
  /\ Spare \/ registered \notin control
  /\ Notify(<<"disconnected", "connecting">>) \/ Notify(<<"connecting">>)
  /\ dial' = "register"
  /\ UNCHANGED <<serverVars, registered, cident, late, loopVars, sharedVars, klientVars>>

(* The server sees the end of a connection, at its own time.               *)
Disconnect(i) ==
  /\ Spare \/ ~(dial = "session" /\ i = registered)
  /\ Server!Disconnect(i)
  /\ UNCHANGED <<dialVars, events, loopVars, sharedVars, klientVars>>

-----------------------------------------------------------------------------
(* The event loop.                                                         *)

Restore(s) == [port |-> remote[s], restore |-> TRUE]

(* Connected again: what was registered is asked for again.                *)
(* Mutants: they are not; or those without an address are, too.            *)
PendingKept == pending
PendingUnchecked ==
  [s \in Names |-> IF pending[s] = NotPending /\ remote[s] # Absent THEN Restore(s)
                   ELSE pending[s]]
PendingAgain ==
  [s \in Names |-> IF pending[s] = NotPending /\ remote[s] \notin {Absent, NoAddr}
                     THEN Restore(s) ELSE pending[s]]

(* A message for handlePending, which takes one and only after a connect.  *)
(* Mutant: none is sent.                                                   *)
TickNever == token' = token
Tick == token' = IF token = "empty" THEN "full" ELSE token

Handle(e) ==
  CASE e = "connected" ->
         /\ pending' = PendingAgain
         /\ ident' = cident
         /\ token' = "full"
         /\ UNCHANGED routes
    [] e = "disconnected" ->
         /\ routes' = [p \in Ports \cup {None} |-> NoName]
         /\ token' = "nil"
         /\ UNCHANGED <<pending, ident>>
    [] OTHER -> UNCHANGED <<pending, ident, token, routes>>

TakeEvent ==
  /\ loop = "select" /\ events # <<>>
  /\ events' = Tail(events)
  /\ IF klient
       THEN /\ loop' = "forward" /\ event' = Head(events)
            /\ UNCHANGED <<pending, ident, token, routes>>
       ELSE Handle(Head(events)) /\ UNCHANGED <<loop, event>>
  /\ UNCHANGED <<serverVars, dialVars, asked, answer, retries, astray, regserv, remote,
                 user, klientVars>>

(* The state change is passed on when klient's loop is ready for it.       *)
Forward ==
  /\ loop = "forward" /\ reader = "idle"
  /\ reader' = "lock"
  /\ Handle(event)
  /\ loop' = "select" /\ event' = "none"
  /\ UNCHANGED <<serverVars, dialVars, events, asked, answer, retries, astray, regserv,
                 remote, user, klient, saved>>

ReadState ==
  /\ reader = "lock" /\ MutexFree
  /\ reader' = "idle"
  /\ UNCHANGED <<serverVars, dialVars, events, loopVars, sharedVars, klient, saved>>

TakeServices ==
  /\ loop = "select" /\ regserv # Idle
  /\ pending' = [s \in Names |-> IF regserv[s] # NotPending THEN regserv[s] ELSE pending[s]]
  /\ regserv' = Idle
  /\ Tick
  /\ UNCHANGED <<serverVars, dialVars, events, loop, event, ident, asked, answer, retries,
                 astray, remote, routes, user, klientVars>>

TakeToken ==
  /\ loop = "select" /\ token = "full"
  /\ token' = "empty"
  /\ asked' = {s \in Names : pending[s] # NotPending}
  /\ answer' = [s \in Names |-> Absent]
  /\ loop' = IF pending = Idle THEN "select" ELSE "call"
  /\ UNCHANGED <<serverVars, dialVars, events, event, ident, pending, retries, astray,
                 sharedVars, klientVars>>

(* The listener on file under the port of s, which a move of s closes, is  *)
(* another one of the client.                                              *)
Crosses(s) ==
  LET l == services[tun[ident][s]] IN
  l \in Ports /\ l # tun[ident][s] /\ route[l] = ident

(* registerServices of the server comes to service s.                      *)
Serve(s) ==
  /\ loop = "call" /\ s \in asked
  /\ \/ /\ \/ Server!Known(ident, s, pending[s]) /\ UNCHANGED astray
           \/ Server!Upgrade(ident, s, pending[s]) /\ astray' = (astray \/ Crosses(s))
           \/ Server!AddNew(ident, s, pending[s]) /\ route' # route /\ UNCHANGED astray
        /\ answer' = [answer EXCEPT ![s] = tun'[ident][s]]
     \/ /\ Server!AddNew(ident, s, pending[s]) /\ route' = route
        /\ answer' = [answer EXCEPT ![s] = Failed] /\ astray' = TRUE
  /\ asked' = asked \ {s}
  /\ UNCHANGED <<dialVars, events, loop, event, ident, token, pending, retries, sharedVars,
                 klientVars>>

Sleep == retries < MaxRetries /\ retries' = retries + 1

Answered == {s \in Names : answer[s] \notin {Absent, Failed}}

(* The call fails, on the way or because the server panics on an           *)
(* identifier it does not know; or nothing could be registered.            *)
CallFails ==
  /\ loop = "call"
  /\ Sleep
  /\ loop' = "select" /\ asked' = {}
  /\ answer' = [s \in Names |-> Absent]
  /\ UNCHANGED <<serverVars, dialVars, events, event, ident, token, pending, astray,
                 sharedVars, klientVars>>

(* OnRegisterServices, which is klient's updateServices, then the loop's   *)
(* own tables; those that failed stay pending.                             *)
(* Mutant: connections to the new port are not passed on.                  *)
RouteForgotten == routes
RouteAdded ==
  [p \in Ports \cup {None} |->
     IF \E s \in Answered : answer[s] = p THEN CHOOSE s \in Answered : answer[s] = p
     ELSE routes[p]]

Replied ==
  /\ loop = "call" /\ asked = {} /\ Answered # {}
  /\ loop' = "callback"
  /\ UNCHANGED <<serverVars, dialVars, events, event, ident, token, pending, asked, answer,
                 retries, astray, sharedVars, klientVars>>

CallReturns ==
  /\ loop = "callback"
  /\ klient => MutexFree
  /\ saved' = [s \in Names |-> IF klient /\ s \in Answered THEN answer[s] ELSE saved[s]]
  /\ remote' = [s \in Names |-> IF s \in Answered THEN answer[s] ELSE remote[s]]
  /\ routes' = RouteAdded
  /\ pending' = [s \in Names |-> IF s \in Answered THEN NotPending ELSE pending[s]]
  /\ IF \E s \in Names : answer[s] = Failed THEN Sleep ELSE UNCHANGED retries
  /\ loop' = "select"
  /\ answer' = [s \in Names |-> Absent]
  /\ UNCHANGED <<serverVars, dialVars, events, event, ident, token, asked, astray, regserv,
                 user, klient, reader>>

Retry ==
  /\ retries > 0 /\ retries' = retries - 1
  /\ Tick
  /\ UNCHANGED <<serverVars, dialVars, events, loop, event, ident, pending, asked, answer,
                 astray, sharedVars, klientVars>>

-----------------------------------------------------------------------------
(* Others.                                                                 *)

(* RegisterService, called once for each service of a client without a     *)
(* klient: the service is there before regserv has it.                     *)
RegisterService(s) ==
  /\ ~klient /\ user = NoName /\ remote[s] = Absent
  /\ remote' = [remote EXCEPT ![s] = NoAddr]
  /\ user' = s
  /\ UNCHANGED <<serverVars, dialVars, events, loopVars, regserv, routes, klientVars>>

SendService ==
  /\ user # NoName /\ regserv = Idle
  /\ regserv' = [Idle EXCEPT ![user] = [port |-> None, restore |-> FALSE]]
  /\ user' = NoName
  /\ UNCHANGED <<serverVars, dialVars, events, loopVars, remote, routes, klientVars>>

Started ==
  /\ dial = "register" /\ registered = NoIdent /\ cident = NoIdent
  /\ events = <<"connecting">>
  /\ loop = "select" /\ event = "none" /\ ident = NoIdent /\ token = "nil"
  /\ pending = Idle /\ asked = {} /\ answer = [s \in Names |-> Absent] /\ retries = 0
  /\ regserv = Idle /\ user = NoName
  /\ remote = [s \in Names |-> Absent]
  /\ routes = [p \in Ports \cup {None} |-> NoName]
  /\ reader = "idle"

(* The client's process dies and is started again.                         *)
Crash ==
  /\ Spare
  /\ dial' = "register" /\ registered' = NoIdent /\ cident' = NoIdent
  /\ events' = <<"connecting">>
  /\ loop' = "select" /\ event' = "none" /\ ident' = NoIdent /\ token' = "nil"
  /\ pending' = Idle /\ asked' = {} /\ answer' = [s \in Names |-> Absent] /\ retries' = 0
  /\ regserv' = Idle /\ user' = NoName
  /\ remote' = [s \in Names |-> Absent]
  /\ routes' = [p \in Ports \cup {None} |-> NoName]
  /\ reader' = "idle"
  /\ UNCHANGED <<serverVars, late, astray, klient, saved>>

Restart ==
  /\ Spare
  /\ Server!Restart
  /\ UNCHANGED <<dialVars, events, loopVars, sharedVars, klientVars>>

-----------------------------------------------------------------------------

Init ==
  /\ Server!Init
  /\ Started /\ late = {}
  /\ klient \in BOOLEAN /\ astray = FALSE
  /\ saved = [s \in Names |-> None]

Dial == \/ \E i \in Idents : RegisterDone(i) \/ RegisterLost(i)
        \/ SendRestore \/ Connect \/ ConnectFails \/ SessionEnds
Loop == \/ TakeEvent \/ Forward \/ TakeServices \/ TakeToken \/ CallFails
        \/ Replied \/ CallReturns
        \/ \E s \in Names : Serve(s)

Next ==
  \/ Dial \/ Loop \/ ReadState \/ Retry
  \/ \E i \in Idents : Disconnect(i) \/ LateRefused(i)
  \/ \E s \in Names : RegisterService(s)
  \/ SendService \/ Crash \/ Restart

Spec == Init /\ [][Next]_vars

(* Goroutines that can run do run, and select takes every ready case in    *)
(* the end.  What is asked of the server again and again succeeds once,    *)
(* and the end of a connection is seen on both sides.                      *)
Fairness ==
  /\ SF_vars(\E i \in Idents : RegisterDone(i))
  /\ SF_vars(Connect) /\ WF_vars(ConnectFails) /\ WF_vars(SendRestore)
  /\ WF_vars(SessionEnds /\ registered \notin control)
  /\ WF_vars(\E i \in Idents : Disconnect(i) /\ ~(dial = "session" /\ registered = i))
  /\ SF_vars(TakeEvent) /\ SF_vars(TakeServices) /\ SF_vars(TakeToken)
  /\ WF_vars(Forward) /\ WF_vars(ReadState) /\ WF_vars(Retry) /\ WF_vars(SendService)
  /\ SF_vars(\E s \in Names : Serve(s)) /\ SF_vars(\E s \in Names : Serve(s) /\ asked' = {})
  /\ SF_vars(Replied)
  /\ WF_vars(CallFails) /\ WF_vars(CallReturns)

FairSpec == Spec /\ Fairness

-----------------------------------------------------------------------------
(* Properties.                                                             *)

TypeOK ==
  /\ Server!TypeOK
  /\ klient \in BOOLEAN /\ astray \in BOOLEAN
  /\ dial \in {"register", "restore", "connect", "session"}
  /\ registered \in Idents \cup {NoIdent} /\ cident \in Idents \cup {NoIdent}
  /\ late \in SUBSET Idents
  /\ events \in Seq({"connecting", "connected", "disconnected"}) /\ Len(events) <= MaxEvents
  /\ loop \in {"select", "forward", "call", "callback"}
  /\ event \in {"none", "connecting", "connected", "disconnected"}
  /\ ident \in Idents \cup {NoIdent}
  /\ token \in {"nil", "empty", "full"}
  /\ pending \in [Names -> Requests \cup {NotPending}]
  /\ regserv \in [Names -> Requests \cup {NotPending}]
  /\ asked \in SUBSET Names
  /\ answer \in [Names -> Ports \cup {None, Absent, Failed}]
  /\ retries \in 0 .. MaxRetries
  /\ remote \in [Names -> Ports \cup {None, Absent, NoAddr}]
  /\ routes \in [Ports \cup {None} -> Names \cup {NoName}]
  /\ user \in Names \cup {NoName}
  /\ reader \in {"idle", "lock"}
  /\ saved \in [Names -> Ports \cup {None}]

(* Nothing is left to do for this session, on either side.                 *)
Quiet ==
  /\ dial = "session" /\ registered \in control
  /\ events = <<>> /\ loop = "select" /\ pending = Idle /\ regserv = Idle /\ user = NoName

Known(s) == remote[s] # Absent

(* When the client is done, every service has a remote address, it is the  *)
(* port the server has on file for this very session, and klient saved it: *)
(* whatever was registered, answered late or restored while the connection *)
(* went and came back.                                                     *)
QuietAgrees ==
  Quiet => \A s \in Names : Known(s) =>
             /\ remote[s] = tun[registered][s]
             /\ klient => saved[s] = remote[s]

(* ... and connections to that port reach that service, by way of this     *)
(* session, if the server never saw a client come back before its last     *)
(* connection ended, always had a port to give, and closed no listener of  *)
(* another service when it moved one: a call that finds no port leaves the *)
(* one that was asked for on file, which the next is told, and listeners   *)
(* are filed under the port that was asked for (addClientService).         *)
QuietRouted ==
  ordered /\ ~astray /\ Quiet => \A s \in Names : remote[s] \in Ports =>
                        route[remote[s]] = registered /\ routes[remote[s]] = s

(* A client for which no identifier is left to connect with.               *)
Exhausted == Unused = {} /\ dial \in {"register", "connect"}

(* Once connections stop being lost, a client without a klient has its     *)
(* services restored, whatever became of connections, calls and answers    *)
(* before.                                                                 *)
ServicesRestored == ~klient => <>[](Quiet \/ Exhausted)

(* "If we were disconnected and connected again, we need to restore        *)
(* already registered services" (client.go:310), of a client with a        *)
(* klient: false, since the redial loop and the event loop may wait for    *)
(* each other for ever.                                                    *)
KlientRestored == klient => <>[](Quiet \/ Exhausted)
=============================================================================
