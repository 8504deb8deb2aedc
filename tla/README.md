# Formal models of Koding's machine and stack management

Koding gives its users cloud machines. `kloud` is the service that builds,
starts, stops and destroys them; `terraformer` runs Terraform for it; `klient`
runs on every machine, and on the user's own to mount folders of others;
`tunnelproxy` gives machines behind a NAT a public name; `vmwatcher` stops
those that send too much; the website and the social API drive all of them. This
directory holds TLA+ models of the parts where several processes share state,
the TLC configurations that check them on small instances, and theorems that
TLAPS proves for instances of every size. `PROJECT.json` maps every definition
to the source lines it models.

## 1. Inventory

| Part | State it keeps | Operations | Talks to |
|---|---|---|---|
| kloud, machine methods (`kites/kloud/stack/controller.go`, `methods.go`) | `Kloud.Eventers`; in Mongo the `jMachines` document: `status.state`, `assignee.inProgress` (a distributed lock) | build, start, stop, restart, resize, reinit, destroy, create/deleteSnapshot, info, event | Mongo, EC2 or a Vagrant host's klient, the machine's klient |
| kloud, queue checker (`queue/`) | `assignee.assignedAt` | every tick: pick a running, unlocked machine, ask its klient for the usage, stop it | the same document, without the lock |
| kloud, stacks (`provider/builder.go`, `stackplan/`, `stackstate/`) | the `jComputeStack` document and its machines, the status cache | plan, apply, destroy, describeStack, authenticate, bootstrap, migrate | terraformer, Mongo, the klients of the new machines |
| kloud, domains and tunnels (`stack/domain.go`, `stack/admin.go`, `dnsstorage/`) | Route53 records, `jDomains` | domain.set, unset, add, remove; admin.add, remove | Route53, tunnelserver |
| terraformer (`kites/terraformer`) | per-content shutdown channels and wait group, a local directory per content, a remote store | plan, apply, destroy, Close on a signal | S3 or the file system, the terraform library |
| kloud helpers (`eventer`, `waitstate`, `pkg/idlock`, `stackcred`, `keygen`) | event lists, poll timers, per-id locks, credentials | | |
| vmwatcher (`vmwatcher/`) | redis: sets of users to measure and of users over each limit, scores per week | queue, measure, judge, stop or block | kloud, CloudWatch, Mongo, redis |
| tunnelproxy, server (`kites/tunnelproxy/server.go`, `tunnelproxy.go`) | tunnels, identifiers, listeners; in the tunnel library virtual hosts, ports, control connections | register, registerServices, the end of a connection | its clients, Route53 |
| tunnelproxy, client (`kites/tunnelproxy/client.go`, `klient/tunnel`) | services with their remote ports, pending registrations; the saved ports in klient's database | the redial loop, the event loop, klient's callbacks | the server, klient |
| klient, mounts (`klient/remote`) | the list of mounts in memory and in the database, a lock per machine, FUSE mounts of the system | mount, unmount, remount, restore after a start | the klients of other machines, the system |
| klient, the rest (`klient/`) | usage, terminal sessions, files, the updater | one handler per kite method | kloud, kontrol, tunnelserver |
| klientctl, fuseklient | mounts, cached nodes | command line; FUSE callbacks | klient |
| kontrol, broker, rerouting | registered kites, AMQP bindings | register, forward | all kites |
| socialapi, website workers (`socialapi/`, `workers/`, `client/`) | channels, messages, sessions, the web client | REST handlers, AMQP workers | Postgres, Mongo, redis |

What is hard in them: handlers and goroutines of several processes that share
one Mongo document and only sometimes lock it; state read before a minute-long
EC2 or Terraform call and written back after it; failure paths that clean up
part of what was done; processes that die while they own something; timeouts
that race the thing they wait for. `PROJECT.json`, "hazards", lists each at its
line, with the property that watches it, and with a note where the property only
excepts or bounds what the code gets wrong.

## 2. Modules

| Module | What it is |
|---|---|
| `MachineState` | the machine states and what kloud's tables say of them (package `machinestate`, `controller.go`) |
| `KloudMachine` | one machine document, its EC2 instance, the kloud processes, their requests, eventers and queue checkers |
| `MachineLock` | what the distributed lock promises: held by one client at a time, possibly orphaned |
| `KloudMachineProofs` | theorems about `KloudMachine`, one of them that it implements `MachineLock` |
| `KloudStack` | one stack document, its machines and resources, the requests that build and destroy it, terraformer's job |
| `StackLifecycle` | how package `stackstate` says a stack moves |
| `KloudStackProofs` | theorems about `KloudStack`, one of them that it implements `StackLifecycle` |
| `Terraformer` | the terraformer process: content locks, stores, terraform runs, signals and shutdown |
| `TerraformJobs` | what terraformer promises kloud about its jobs |
| `TerraformerProofs` | theorems about `Terraformer`, one of them that it implements `TerraformJobs` |
| `TunnelServer` | the tables of the tunnel server and of the library it uses, under registration, lost connections and restarts |
| `TunnelServerProofs` | theorems about `TunnelServer` |
| `TunnelClient` | one client, its two goroutines, the klient it may belong to, composed with `TunnelServer` (`Server == INSTANCE TunnelServer`) |
| `TunnelClientProofs` | theorems about `TunnelClient`, one of them that it implements `TunnelServer` |
| `KlientMounts` | the mounts a klient keeps, in memory, in the database and in the system |
| `KlientMountsProofs` | theorems about `KlientMounts` |
| `VmWatcher` | users, their machines, the redis sets and the jobs that measure, judge and punish |
| `VmWatcherProofs` | theorems about `VmWatcher` |
| `MC_*` | the small instances that TLC checks; one `.cfg` per run |

The models meet in these places. `KloudMachine` and `KloudStack` write
`status.state` of the same machine documents, and nothing in the code keeps a
destroy of a stack and a core method on one of its machines apart; that
composition is not modelled (see the plan). `KloudStack` sees terraformer as one
job at a time for its content, which goes on without its client; `Terraformer`
is where that is modelled in detail, and `TerraformJobs` is what it promises: it
implements that module (`JobsPromise`), and the job of `KloudStack` is one of its
jobs, except that there a destroy that ends well leaves no resources, where
terraformer only promises that none is left on record (`NothingForgotten` is the
difference, and is violated).
`VmWatcher` sees kloud as a service that stops a machine some time after it was
asked, or refuses. `TunnelClient` is composed with `TunnelServer` itself: every
call it makes is an action of the server.

### 2.1 The machine model

| Code | Model |
|---|---|
| `status.state`, `assignee.inProgress` | `status`, `locked` |
| the EC2 instance | `inst`, moved by EC2 (`InstanceSettles`), by its owner (`Console`) and by kloud |
| `Kloud.Eventers` of each process | `eventer[k][m]`: the phase and status a poller sees, and the task whose eventer it is |
| a goroutine (a core request, an Info request, a checker run) | a task with a `pc`, its method `op`, the status it read (`snap`), `latestState` (`latest`) and its error (`ok`) |
| `coreMethods` | `Lock`, `Prepare`, `Admit`/`Refuse`, `Reject`, then the method, `PushFinal`, `Unlock` |
| `Machine.start`, `Machine.stop` of the AWS provider | `Mark`, `Describe`, `Launch`, `AwaitBoot`, `Probe`, `Halt`, `AwaitStop`, `Save`, `Restore` |
| `Machine.Info` | `InfoFetch`, `Inspect`, `Bury`, `Correct` |
| `Queue.CheckAWS` | `Pick`, `Attach`, `CheckUsage`, then stop, `Leave` |
| a process dies | `Crash(k)`: its tasks and eventers are gone, the document stays |

A step ends where another process can see the difference: at a Mongo write, at
an EC2 call, at a change of the eventer map. The methods the registered
providers do not implement (build, resize, reinit, ...) are admitted and fail,
as in the code (`Unsupported`). Percentages, messages, IP addresses and reasons
are left out.

### 2.2 The stack model

| Code | Model |
|---|---|
| `status.state` of the `jComputeStack` and of its machines | `doc`, `machines` ("deleted" when the documents are gone) |
| resources in the user's AWS account | `resources` |
| the terraform job of the stack's content | `job`; it ends by itself (`JobEnds`) |
| `Kloud.Eventers["apply-<stack>"]` | `eventer[k]` |
| a request and its goroutine | a task: `pc`, `kind`, the state read (`snap`), the error (`ok`) |
| the goroutine that pushes percentages | membership in `ticker` |
| `Kloud.stackMethod`, `BaseStack.Apply` | `Request`, `Load`, `Refuse`, `Mark` |
| `applyAsync` | `BuildMachines`, `Prepare`, `Send`, `WaitResources`, `UpdateResources`, `UpdateStack`, `Record`, `PushFinal` |
| `destroyAsync` | `Detach`, `Disown`, `Credentials`, `Send`, `DeleteMachines`, `DeleteStack`, `PushFinal` |
| the kite client loses its connection | `Disconnect`: the pending call is answered, or never is |

The two documents a stack consists of have one variable each; its machines are
marked and deleted together in the code and are one variable here.

### 2.3 The terraformer model

| Code | Model |
|---|---|
| `shutdownChans`, `shutdownChansWG` | `chans`, `wg` |
| the directory of a content in the two stores | `local`, `remote`: main file, and a state file that lists resources |
| `KodingContext.run`, `Apply`, `Plan` | `CloneIn`, `Setup`, `Start`, the run, `CloneOut`, `Open` |
| `ApplyCommand`, `PlanCommand` and the state hook | `run`, `seen`, `hit`; `Create`, `Delete`, `Refresh`, `Save`, `Finish` |
| `KodingContext.Close` | `Unregister` (with the mutex), `Remove` (after it) |
| the post handler `handleState` | `Answer` |
| `handleSignals`, `Close`, `Shutdown`, `main` | `SignalTaken`, `SignalKills`, `Broadcast` at 15 and 25 seconds, `Drained`, `Deadline` at 30, `Exit`, `Boot` |

A content's template describes one resource. That is enough to tell made from
not made, known from forgotten, and made twice. Terraform may create the
resource, find it, fail before or after it, or be stopped before it did
anything, which it reports as success; each is a disjunct. The timers of
`Shutdown` are ordered but may fire at any time.
`TerraformJobs` sees of all this the jobs that hold a content (`JobsNow`), those
that ended well and were not answered yet (`EndedWell`), the resources and the
ones on record in the remote store (`OnRecord`). Its jobs start and end under the
lock: `Get` is `Begin`, `Unregister` ends the job, well or badly; a terraform
goroutine does the `Work`, `CloneOut` the `Record`, `Answer` tells the client; the
second broadcast abandons the jobs, and the end of the process ends them.
Left out: debug mode, which keeps local directories, variables, apply without
content, and a file half-written by a failing copy (an S3 put is atomic).

### 2.4 The tunnel server

| Code | Model |
|---|---|
| `tunnels.m` | `live` (the clients), `tun` (their services with their ports) |
| `Server.idents`, `Server.services` | `idents`, `services`: the listener on file under each port, `None` for no port |
| `vhostStorage`, `virtualAddrs` of the tunnel library | `hosts`, `route` |
| the control connections of the library | `control` |
| `listen`, its search from the port picked last | `Try`, `PickPort`, `Take`, `last` |
| `register`: `addClient`, `OnDisconnect` | `Register` |
| `controlHandler`, `listenControl` | `Connect`, `Disconnect`; a connection that ends runs `delClient` (`DelClient`), once per client |
| `checkConnect` | `Refuse`: a connection that is refused, or whose handshake fails, runs `delClient` too |
| `registerServices`, `addClientService` | `AddNew`, `Upgrade`, `Known`, each one critical section |
| the process dies | `Restart` |

Handlers hold `Server.mu` around their tables, so that each is one step, except
`registerServices`, which is one step per service. What a client does is not
constrained here: any client may call anything at any time, and ask for its
connection as late as it likes. DNS records, the HTTP discovery endpoint and
metrics read or write none of the tables.

### 2.5 The tunnel client

| Code | Model |
|---|---|
| the redial loop of the library's client, `fetchIdent` | `dial`: `RegisterDone`, `RegisterLost`, `SendRestore`, `Connect`, `ConnectFails`, `SessionEnds` |
| a CONNECT the client gave up before the server came to it | `late`, `LateRefused` |
| the event loop (`Client.eventLoop`) | `loop`: `TakeEvent`, `Forward`, `TakeServices`, `TakeToken`, `Serve`, `CallFails`, `Replied`, `CallReturns`, `Retry` |
| the channels `stateChanges`, `regserv`, `handlePending` | `events`, `regserv`, `token` |
| `services`, `routes`, `connected.Ident`, `ident` of `Client` | `remote`, `routes`, `registered`, `cident` |
| klient's mutex, its loop over state changes, its database | `MutexFree`, `reader`, `saved` |
| `RegisterService` | `RegisterService`, `SendService` |

`klient` is chosen at the start: a client of a klient, or one used alone. A
connection that was asked for and given up may reach the server at any later
time; it is then refused, since no handshake follows, and the refusal deletes
the client it was for. A kite call (`register`, `registerServices`) may be
carried out and its answer lost, but one that was given up is not carried out
later. The identifiers a client gets are taken in an arbitrary fixed order,
which their being random allows. `astray` is history: the server left a service
without a listener, because it found no port for it or closed the listener when
it moved another service (`Crosses`). Left out: the choice of the server's
address after failed calls, `Close`, and the forwarded connections themselves.

### 2.6 The mounts

| Code | Model |
|---|---|
| `Remote.mounts`, the list under `mountsStorageKey` | `mounts`, `db` |
| the mounts of the system on a path | `fs`, the visible one last; dead ones are those of a process that ended |
| `mountLocker` of each machine | `lock` |
| a request's goroutine, and the one of `Initialize` | `run[t]`: where it is, the mount it works on, the list it made |
| `remote.mountFolder` | `MountFolder`, `LockMounting`, `MountExisting`, `AddMount`, `AddSaved`, `AddKept` |
| `remote.unmountFolder`, `remote.remount` | `UnmountFolder`, `RemoveMount`, `RemoveSaved`, `RemoveKept`, `Unmount`; then, for remount, as above |
| `loadMounts`, `restoreMounts`, `restoreMount` | `LoadMounts`, `LoadMissed`, `RestoreMounts`, `RestoreNext`, `RestoreDialed`, `RestoreLock`, `RestoreClear`, `Restored` |
| an error of storage, mount or unmount | `AddNotSaved`, `RemoveNotSaved`, `MountFails`, `RestoreRefused`, `NotRestored`, and the second disjuncts of `Unmount` and `RestoreClear` |
| an error of reading or decoding the saved list; of the loads between it and the restoration | `LoadMissed`; `InitializeFails` |
| klient dies, or its updater replaces it; its machine restarts | `Restart`: the mounts of the system are dead (`Killed`), or gone (`Rebooted`) |

An edit of the list is three steps in the code, the read, the save and the
assignment, and three here. `RemoveByName` appends to a prefix of the list it is
called on, so it changes what others see before it returns (`Shifted`). The
history variables `mangled` (two edits overlapped, a removal was not saved, or a
saved list that was not the one in memory could not be read) and `spoiled`
(paths where two operations met, an error was ignored, or a mount was removed
from the list in the place of another of the same name) are the exceptions the
properties make. The database is the one on disk: when klient cannot open it,
its storage is in memory (`storage.go:34-38`) and nothing it saved survives a
restart, which is left out. So are one-way sync mounts, the status and the cache
of machines, `remote.exec`, `remote.cache`.

### 2.7 vmwatcher

| Code | Model |
|---|---|
| `queue:get`, `queue:stop`, `queue:block`, the sorted set of the week | `toGet`, `over`, `score` |
| the timed jobs of `main` | `QueueUsernamesForMetricGet`, the runs `Collectors` and `Enforcers` |
| `getAndSaveQueueMachineMetrics` and its workers | `Collect`, `PopForMetricGet`, `Measure`, `SaveScore`, `Fetched` |
| `queueOverlimitUsers` | `QueueOverlimitUsers`, `Judge`, `Queue` |
| `dealWithMachinesOverLimit`, `act`, `stopVMIfRunning`, `blockUserAndDestroyVm` | `Deal`, `PopOverLimit`, `BlockUser`, `LookAtMachine`, `TellStop` |
| an error of Mongo, redis, CloudWatch or kloud; the process dies | `Fault` in every such action; `Restart` |

Every user has one machine, all scores are read in one step, and each run of a
job has one pool of workers where the code has one per queue.

## 3. Runs

| Run | Instance | Distinct states | Shows |
|---|---|---|---|
| `machine_locked` | one process, two core methods (start, stop, resize), one Info; EC2 may fail at every call, the owner may stop or terminate the instance; fair scheduling | 142,811 | `FinalEventAgreesUnlessStartFailed`: the final event and the document agree; `EventerOwned`, `NoDanglingEvent`: a poller's event is the right one and will be finished; `StrayWritesAreKnown`: who else may write the status of a locked machine (of queue checkers, which this run has none of, the theorem says it); `LockReleased`, `EventFinishes` |
| `machine_crash` | two processes, two stops and a queue checker, a death, a lost write, an owner's action | 275,381 | `LockExclusive`, `LockPromise` (refinement of `MachineLock`) |
| `stack_single` | one request at a time, a death, a lost connection | 457 | `SuccessIsTrue`, `WorkIsGuarded`, `FollowsLifecycle` (refinement of `StackLifecycle`) |
| `stack_pair` | two requests in two processes, a lost write, fair scheduling | 87,999 | `BuildingHasWorker`, `DeletedForGood`, `BuildingEnds` |
| `terraformer_close` | two requests (plan, apply, destroy) for one content, a failing copy, two signals | 1,284,240 | `ContentExclusive`, `WaitGroupCounts`, `SuccessIsRecorded`, `SuccessIsComplete`: locks and wait group are exact, and what clients are told is true and kept; `JobsPromise` (refinement of `TerraformJobs`) |
| `tunnel_tables` | three clients, two virtual hosts, three ports, one service, connections refused or asked for late, a restart at any time | 32,994 | `HostsAgree`, `SessionHasHost`, `PortRouted`, `PortsChangeHands` |
| `tunnel_client` | one client with two services, with or without a klient, two identifiers, calls, answers and connections lost, both sides crashing | 120,247 | `QuietAgrees`, `QuietRouted`: when the client is done, it, the server and the database agree; `ServicesRestored`: it is done in the end |
| `klient_mounts` | one request at a time beside the restoration, two machines, two paths, two mounts, a failure (of a read too) and a restart of klient or its machine | 394,781 | `QuietSaved`, `QuietServed`: when nothing runs, list, database and system agree; `OnlyUnmountForgets`, `EveryoneFinishes` |
| `vmwatcher` | one user, a run that measures and one that only deals, one worker each, a new week, a failure or restart | 533,527 | `OnlyOverusersPunished`, `ScoreNeverInflated`, `OverusersStopped` |

Three runs end in a counterexample, each to a sentence of a comment of the code:

| Run | Property | What the code does |
|---|---|---|
| `terraformer_late_remove` | `NothingForgotten` | Close unlocks a content before it removes its directory, so it can remove that of the next request, whose state is then never stored |
| `tunnel_wedge` | `KlientRestored` | klient restores its services with its mutex held, which can make the redial loop, the event loop and klient's loop wait for each other for ever |
| `mounts_shared_path` | `PathsAreDistinct` | two machines can be mounted on one path: the test for duplicates is made under a lock per machine and before the mount is listed |

### Bounds

Two core methods, two stack requests or two requests for a content are enough
for every pairwise race; the properties about them speak of one request and
another, or of one and the document. One death and one lost write reach every
place where either can happen, since they may happen at any step; two of them
only repeat what a restarted process, which is like a fresh one, already does.
Tasks begin again when they are over, so a run is a sequence of requests of any
length. Two signals are what a process can tell apart: the first, and any later
one. One resource id is enough for what `terraformer_close` says of a request and
its state; `terraformer_late_remove` has two, so that a resource can be made
twice. `terraformer_close` uses the symmetry of requests for the same content,
`tunnel_tables` that of clients and hosts, under invariants, an action property
and `JobsPromise`, which speaks of initial states and steps only and is the same
for every request.

`tunnel_tables` needs three clients: one that left a listener behind, one whose
port is at stake and one that comes back. In `tunnel_client` an identifier is
used up by each registration: a client may crash, lose a session or see the
server restart only while one is left (`Spare`), so two allow one of these, and
registrations whose answer is lost. The buffer
of state changes, 128 in the code, is bounded to three (`MaxEvents`); an instance
where it fills is out of reach, and so is its dropping of a change. Three ports
are few enough for two services to use the range up, which the history variable
`astray` records: the code then answers a retry with a port nobody listens on
(see 5), and `QuietRouted` excepts it. The other exception, a move that closes
the listener of another service, takes three services to do harm. Two services
are all the run has, and the proof covers any number; with three, from the
server's restart that this exception was found after, `QuietRouted` also held in
all 3.2 million states that neither exception applies to.
`tunnel_wedge` has one service, which its counterexample needs no more than.

`klient_mounts` makes at most two mounts, enough for one to be restored while
another is requested, and two attempts for its queue. The single request of the
run meets only the restoration; the exceptions `mangled` and `spoiled` are what
two requests need. Its safety properties and the invariant they are proved from
also held with two overlapping requests that start from two listed mounts and
may make a third, with a failure and a restart (8.7 million states). In
`vmwatcher`, `MaxUsage` = 2 passes both limits (0 and 1), `MaxWeeks` = 1 has one
change of week, and `MaxFaults` counts restarts as well. One user is enough
because users meet only in the sets, where they are independent.

`CHECK_DEADLOCK FALSE` is set where a run can really stop: when the bounds are
used up, a stack is deleted, or a client has no identifier left.

### Fairness

`KloudMachine` and `KloudStack` have `FairSpec`: every goroutine that can take a
step eventually does (the Go scheduler), EC2 finishes what it was asked for
(`InstanceSettles`), and a terraform job ends (`JobEnds`; terraform's own waits
have timeouts). Nothing makes clients call, processes die, or calls fail.
`Disconnect` and `Crash` are never fair. All waits in `KloudMachine` are
bounded by timeouts in the code, so weak fairness of `Continue` is justified
even where EC2 never answers. The call to terraformer has no timeout, and
`BuildingEnds` is checked where no connection is lost.

`KlientMounts`: goroutines run (weak fairness of each request and of the
restoration); `lock` is not a queue, and needs none, since a request that does
not get it has the attempts of the restoration to wait for, which are limited.

`TunnelClient`: goroutines run; a `select` that finds a case ready again and
again takes it in the end, since Go chooses at random (strong fairness of its
cases); what is asked of the server again and again succeeds once (strong
fairness of registration, connection, of serving the last service of a call, and
of its reply), without which no program could promise anything; the end of a
connection is seen by both sides. `ServicesRestored` leaves out the client of a
klient, for which it is false (`tunnel_wedge`).

`VmWatcher`: the timer starts the jobs again and again, goroutines run, kloud
stops what it accepted, and the queue that is refilled every four minutes runs
dry in between (strong fairness of `Fetched`): a run that never drained its
queue would never judge anybody.

## 4. Proofs

All theorems hold for every set of processes, tasks, methods and contents and
every bound; their assumptions are the `ASSUME` of each module, which only give
constants their types.

**Machines.** `KloudMachineProofs` proves `TypeOK`, `LockExclusive`,
`EventerOwned`, `NoDanglingEvent`, `StrayWritesAreKnown` and `LockPromise`. The
invariant is the conjunction of `TypeOK`, `LockExclusive`, `TaskPlaces` (which
kind of task may be where), `EventerOwned` and `ProgressOwned` (an eventer in
progress names a running task of that process and method). `EventerOwned` needs
`LockExclusive`: `cleanupEventers` drops the eventers of all methods, and does
so only under the lock. The stray writes follow from the same invariant: every
write of the status is made by the lock holder, by a checker, or is Info's.
`FinalEventIsTrue` proves `FinalEventAgreesUnlessStartFailed` where there are no
queue checkers and no lost writes, the instance the run checks: `FinalInv` says
what the lock holder knows of the document at each step of its method, and the
stray writes say that others can only have made it Terminated meanwhile.

**Stacks.** `KloudStackProofs` proves `TypeOK`, `BuildingHasWorker` and
`DeletedForGood` for any number of overlapping requests, and `FollowsLifecycle`,
`SuccessIsTrue` and `WorkIsGuarded` for requests that do not overlap and lose no
Mongo write. For `FollowsLifecycle`, `SeqInv` is `TypeOK`, `KindsAgree` (what a
task does fits where it stands) and `DocAgrees` (the document's state is the one
the only active task left there); each step is then a step of `StackLifecycle` or
a stutter. For the other two, `TruthInv` adds that past its check of the state
the request is the only one that can have a job (`JobAgrees`), and what its
result says of the resources and the machines at each later step
(`ResultAgrees`). `DocAgrees` is not an
invariant that overlapping requests have: two can pass the check of the state
before either marks it, and the second mark takes the document from Building to
Destroying.

**terraformer.** `TerraformerProofs` proves all five invariants of
`terraformer_close`, and `JobsPromise`. The invariant adds to `TypeOK`: `Clock`
(timers only move while the process closes, and nobody was interrupted more
often than they fired), `Locks` (`ContentExclusive` and `WaitGroupCounts`),
`Goroutines` (a terraform goroutine belongs to a request that waits for it,
unless that was interrupted twice), `Completes` (a run without an error that was
not interrupted did what its request asked for, and so did one whose client was
told of success) and `Records` (a request past its copy has its state in the
remote store; before it, in the local one or in none). `Records` rests on
`Locks`: only the owner of a content writes its remote directory. `Completes` is
where the answer of a closing process matters: an interrupted run may report
success having done nothing, but an interrupt is only sent while the process
closes, and `handleState` turns the answer into an error. `JobsAreKept` rests on
the same invariant. That a new job is alone with its content needs `Locks`; that
work is done for a job which holds it, `Goroutines` before the second broadcast;
that a job which ends well did and recorded what it was asked for, `Completes`
and `Records`; and that only such a job is told of success, `Clock`: a process
that is up has interrupted nobody. `AloneNothingForgotten` is the other side of
`terraformer_late_remove`: where requests are for different contents, copies
succeed and no signal comes, `NothingForgotten` holds. `Secure` says in which
state the resources are at each step of the request: the remote one, the local
one or the one terraform holds.

**Tunnel server.** `TunnelServerProofs` proves every property of
`tunnel_tables`, for any range of ports and any number of clients, hosts and
services. `HostInv` is `HostsAgree` and `SessionHasHost`, and that every client
with a control connection was issued a host. Whatever runs `delClient`, the end
of a connection (`HostDisconnect`) or a refusal (`HostRefuse`), takes the host
from its present owner; `ordered` is what makes that nobody who is connected.
`PortRouted` is inductive together with what `services` holds while `plain` is
true (`PlainInv`): nothing under a real port, because every service is filed
under no port, so that a lookup under the port a client asks for finds nobody to
close; Kite never has a port; and every port of a connected client's services is
routed to it.

**Tunnel client.** `TunnelClientProofs` proves `TypeOK`, `QuietAgrees` and
`QuietRouted`, and that every behaviour of the client is one of the server
(`ServerRefinement`), so that what is proved of the server holds here; the
server's lemmas are used by way of `Proved == INSTANCE TunnelServerProofs`,
whose assumption `ServerAssumption` derives. `QuietAgrees` speaks of the quiet
end; `ClientInv` says what holds on the way: a service without an address is on
its way to the server (`Asking`); the answers the event loop holds are the
server's while the server knows the identifier it asked with (`AnswersAgree`);
once the event loop has heard of the session's connection (`~Coming`) it asks
with its identifier (`SessionAgrees`), and what it does not ask for again is on
file (`RemoteAgrees`). That works because hearing of a connection makes every
service with an address pending. For `QuietRouted`, `RoutesInv` says that while
the client's host leads to the client the event loop asks for (`Reached`), each
of its services has a port that is routed to it and is no other service's
(`PortsOwned`), and in a session what is not asked for again is passed on to its
service (`RoutesAgree`). Three facts carry it: an identifier has no services
before the event loop asks with it (`NewIdents`), so it may start with none; as
long as the host leads to the client only its own calls change its ports
(`ReachedKept`); and the news of a lost connection, which empties the routes,
reaches the event loop before that of the next one (`Followed`), which makes
everything pending again. A connection refused late does no harm to the client
that asked for it: it was for an identifier the client has given up (`Once`).

**Mounts.** `KlientMountsProofs` proves `TypeOK`, `QuietSaved`, `QuietServed`
and `OnlyUnmountForgets`. The invariant `SyncInv` says that while no edits
overlapped at most one thread edits the list, that outside an edit the list and
its copy are equal (before `loadMounts` the list is empty and nobody edits; a
read that fails where there was something to read sets `mangled`), and how far
the two are apart at each step of an edit (`EditStage`): before the save the new
list is the saved one with one entry more, or holds every saved entry but those
of the unmounted name; after it, the saved one is the new one. It rests on
lemmas about the lists themselves (`Removal`, `Appended`, `IndexInList`). For
`QuietServed`, `ServedIInv` adds what a path is like that is not spoiled
(`PathOK`), and that threads which meet have spoiled theirs (`Met`): at most one
thread works there (`Alone`), at most one entry of the list names the path, a
mount that works is listed, or its request has still to list or to unmount it
(`FsOn`), and a listed mount works, waits to be restored, or is being removed
(`ListOn`). It also says exactly what the list in memory shows at each step of
an edit (`Shown`), because requests and the restoration read it in the middle: a
removal shows the last entry twice, so what is read is still in the database or
is the mount being edited (`Views`). From the same invariant
`PathsAreDistinctWhereClean` follows, the other side of `mounts_shared_path`: on
a path that is not spoiled the saved list, and between two edits the one in
memory, has at most one mount.

**vmwatcher.** `VmWatcherProofs` proves all three invariants of the run, for any
users, limits and plans. For `OnlyOverusersPunished`, `SeenInv` says that
everybody in a queue, found by a run, or in a worker's hands was over the limit,
that the same goes for every usage and every score above it, and that a user over
the limit to block is over the limit to stop: the assumption that the limits are
ordered, as they are in `plan.go`. For `ScoreNeverInflated`, `ScoreInv` says that
what a worker measured this week is no more than was used in it.

Model-checked only: liveness (`LockReleased`, `EventFinishes`, `BuildingEnds`,
`ServicesRestored`, `EveryoneFinishes`, `OverusersStopped`), since the prover
handles neither fairness nor ENABLED. Every invariant, action property and
refinement of a passing run is proved.

## 5. Seen while modelling, not a run of its own

Machines and stacks:

- The queue checker stops a machine without taking its lock
  (`queue/aws.go:121`): a core method admitted after the checker picked the
  machine has its status overwritten. `StrayWritesAreKnown` names it.
- A start whose first DescribeInstances fails returns before its deferred
  restore is registered (`provider/aws/start.go:45`), and the machine stays
  Starting; hence the exception in `FinalEventAgreesUnlessStartFailed`.
- A process that dies leaves `assignee.inProgress` set; the cleaner that would
  clear it (`provider/solo/koding/cleaners.go`) is not run by anything.
- `Info` stores a transitional state it observed; later calls answer from it.
- A build that fails late is recorded as NotInitialized (`builder.go:183`), and
  destroy skips terraform for such a stack (`builder.go:91`): its resources
  outlive its documents.
- A request that will be refused first replaces the eventer of the one that runs
  (`stackcontroller.go:106`), whose result no client can see.
- The call to terraformer has no timeout (`terraformer.go:66`), and a call
  pending when the connection is lost may never be answered (kite's
  `client.go:336`): the build then waits for ever.
- Two overlapping applies mark the stack in turn (`FollowsLifecycle` fails with
  two tasks), and a destroy that fails half-way leaves it Destroying for good.
- The percentage goroutine of a build is not waited for; its last event can
  follow the final one.
- terraformer admits requests while it closes, carries them out, and answers
  them with an error; the first signal of any kind, SIGCHLD or SIGWINCH too,
  ends its handling of signals.

Tunnels:

- A listener is filed under the port that was asked for, not the one it got
  (`server.go:410`), so `delClient` may close a foreign one, or none: the
  exception `plain` of `PortRouted`.
- A client alone asks for its port back on reconnection
  (`client.go:202-205`), and while the old listener is open gets another.
- For the same reason a move of one service to a port it wants back
  (`server.go:380-387`) may close the listener of another service of the same
  client, filed under the port of the first. A third service can then get the
  port the second was told. The proof of `QuietRouted` found this, as the second
  exception of `astray`; it takes a klient with three services, a server that
  restarted and a call whose answer was lost.
- When no port is left the entry of the service stays, and a retry is told
  success with a port nobody listens on. The search tries one port fewer than
  the range has.
- The end of an old connection deletes the virtual host of a client that
  registered again before it (`server.go:324`): the exception `ordered`.
- So does the refusal of a connection. `controlHandler` refuses a client no host
  leads to, and `checkConnect` then calls `onDisconnect` for it (vendored
  `server.go:396-399`, `689-694`), which deletes the host whoever has it: register
  i1 and i2 for one host, connect i2, and let the CONNECT of i1 come late; i2
  keeps its session and has lost its host. `ordered` excepts this too.
- `registerServices` reads the tunnels without the mutex, and uses a nil entry
  for an identifier it does not know. `addClient` drops errors
  (`server.go:303-305`), registrations whose client never connects are never
  removed, and `delClientService` is not called.

Mounts:

- `unmountFolder` and `remount` neither take nor test the mount lock, though
  `machine.go:458` says "unmount included"; requests are served before the list
  is loaded, and may then be overwritten by it.
- `loadMounts` drops the error of the read (`mounts.go:86-88`, where a TODO
  asks for a way to tell a missing key from other errors). After a read that failed klient
  starts with an empty list, and the next mount saves a list of one over the one
  it could not read: all saved mounts are forgotten with no unmount. `mangled`
  excepts this from `QuietSaved`, `QuietServed` and `OnlyUnmountForgets`. An
  error of `loadMachineNames` or `loadMachines` skips the restoration without
  another attempt (`remote.go:180-187`).
- An unmount between `ContainsMount` and the mount of the restoration leaves a
  mount nobody lists. The error of `Unmount` is ignored (`mount.go:110`); a
  failed `AddMount` leaves the folder mounted and unlisted; a removal that cannot
  be saved leaves the list with its last entry twice; two edits that overlap lose
  one of them; a remount that fails has forgotten its mount.
- Mounts are found and removed by the name of their machine, first match
  (`RemoveByName`). Two requests that found the same mount of a machine with
  several remove two of them: the second takes another mount from the list and
  the database, whose folder stays mounted and is never restored or unmounted
  again. The proof of `QuietServed` found this; the single request of the run
  cannot meet it.

vmwatcher:

- An error of one lookup ends the whole pass, taken for the end of the queue,
  though the comment says "ran out of usernames" (`vmwatcher.go:58`). What was
  popped is not acknowledged, and an error other than the end is retried at once
  and for ever (`vmwatcher.go:110`).
- A machine CloudWatch cannot measure counts as zero and lowers the score. A
  measurement that crosses the end of a week is saved under the new one
  (`straddled`). Users queued over last week's limit are stopped without another
  check.
- A user's own limit replaces both limits, so stopping and blocking coincide,
  and one below the base limit only counts once the base is reached
  (`GetFromScore`).
- vmwatcher asks for machines of provider "koding", which this kloud does not
  register, and does nothing when its kite client is nil.

## 6. Not modelled

`PROJECT.json`, "components", lists every part with the reason. Outside the
machine management: the social API, the website, the node workers. Inside it:
the Vagrant provider, whose methods have the shape of the AWS ones; the stack
status cache and the stack methods that change nothing shared; domains, one
request and one write each under the machine's lock; klient's updater, usage and
terminal. Of the mounts, one-way sync, the status of machines, and the storage
in memory klient falls back to when it cannot open its database; of the tunnel
client, the choice of an address and `Close`. Not worth a model: pure I/O (log
fetcher, uploader, files), code nothing registers (the solo providers), vendored
code, of which the parts the models rest on are mapped. The modelled parts are a
small share of the repository's lines, most of which are REST handlers, storage
models, wire formats and command lines that keep no shared state of their own.

## 7. Plan

Done, in this order: `MachineState`, `KloudMachine`, `MachineLock`;
`KloudStack`, `StackLifecycle`; `Terraformer`, `TerraformJobs`; `TunnelServer`,
`TunnelClient`; `KlientMounts`; `VmWatcher`; and the proofs about each. What
would add most next:

1. A composition of `KloudMachine` and `KloudStack` over one machine document:
   a destroy of the stack while a start or a stop of its machine runs.
2. The Vagrant provider as a second instance of `KloudMachine`'s provider steps,
   and the stack status cache in `KloudStack`.
3. `Waiting` (`waitstate`): ticker, timeout and poll as an abstract wait that
   `AwaitBoot` and `AwaitStop` implement.
4. `KloudStack` over an instance of `TerraformJobs` in the place of `job` and
   `JobEnds`.
5. Liveness of terraformer's shutdown: it ends within its timers, whatever its
   requests do.
