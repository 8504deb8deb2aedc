---------------------------- MODULE KloudMachine ----------------------------
(***************************************************************************)
(* The life of one cloud machine under kloud, the AWS provider.            *)
(*                                                                         *)
(* Several kloud processes share one jMachines document.  A core method    *)
(* (start, stop, ...) takes the document's distributed lock, validates the *)
(* method against a snapshot of the document, runs in a goroutine of its   *)
(* own, pushes a final event and unlocks.  Info calls and the queue        *)
(* checker, which stops inactive machines, work on the same document       *)
(* without the lock.  EC2 moves the instance on its own; a kloud process   *)
(* may die at any point; a Mongo write may fail.                           *)
(*                                                                         *)
(* Each task is a goroutine: a handler of one request at a time, or one    *)
(* run of the queue checker.  Machines do not interact (the document, the  *)
(* lock and the eventers are keyed by machine id), so one is modelled.     *)
(***************************************************************************)
EXTENDS MachineState, Naturals, FiniteSets

CONSTANTS
  Klouds,      \* the kloud processes
  Core,        \* tasks that serve core methods
  Infos,       \* tasks that serve "info"
  Queues,      \* tasks that run the queue checker
  Home,        \* the process each task belongs to
  Methods,     \* the core methods clients call
  MaxCrashes,  \* bound: process deaths
  MaxFaults,   \* bound: failed Mongo writes
  MaxConsole   \* bound: instance changes made outside of kloud

Tasks == Core \cup Infos \cup Queues

ASSUME TasksAssumption ==
  /\ Core \cap Infos = {}
  /\ Core \cap Queues = {}
  /\ Infos \cap Queues = {}
  /\ Home \in [Tasks -> Klouds]

ASSUME MethodsAssumption == Methods \subseteq AllMethods

ASSUME BoundsAssumption ==
  MaxCrashes \in Nat /\ MaxFaults \in Nat /\ MaxConsole \in Nat

VARIABLES
  status,    \* the document's status.state
  locked,    \* the document's assignee.inProgress
  inst,      \* the EC2 instance
  pc,        \* where each task stands
  op,        \* the method each task runs
  snap,      \* the status each task read when it fetched the document
  latest,    \* latestState of start and stop, resultState of Info
  ok,        \* whether the method of each task returned no error
  eventer,   \* Kloud.Eventers: for each process and method, the eventer
  crashes, faults, console   \* the counters of the bounds

docVars  == <<status, locked>>
taskVars == <<pc, op, snap, latest, ok>>
bounds   == <<crashes, faults, console>>
vars     == <<status, locked, inst, pc, op, snap, latest, ok, eventer,
              crashes, faults, console>>

None == "none"

(* What a poller sees of an eventer: nothing registered, no event yet,     *)
(* progress, or the final event with its status.  The owner is the task    *)
(* that holds a pointer to it.                                             *)
Absent == [phase |-> "absent", owner |-> None, status |-> "Unknown"]

Eventer(t, phase, s) == [phase |-> phase, owner |-> t, status |-> s]

(* Where a task holds the document's lock, and where its goroutine runs.   *)
RunningPCs == {"run", "describe", "launch", "boot", "probe", "halt", "drain",
               "save", "restore", "push"}
HoldingPCs == RunningPCs \cup {"prepare", "fetch", "reject", "unlock"}

Holds(t) == t \in Core /\ pc[t] \in HoldingPCs

Init ==
  /\ \/ status = "Running" /\ inst = "running"
     \/ status = "Stopped" /\ inst = "stopped"
  /\ locked = FALSE
  /\ pc     = [t \in Tasks |-> "idle"]
  /\ op     = [t \in Tasks |-> None]
  /\ snap   = [t \in Tasks |-> "Unknown"]
  /\ latest = [t \in Tasks |-> "Unknown"]
  /\ ok     = [t \in Tasks |-> TRUE]
  /\ eventer = [k \in Klouds |-> [m \in AllMethods |-> Absent]]
  /\ crashes = 0 /\ faults = 0 /\ console = 0

-----------------------------------------------------------------------------
(* Steps of a task and writes to the document.                             *)

Goto(t, from, to) == pc[t] = from /\ pc' = [pc EXCEPT ![t] = to]

(* A write of the status that Mongo performs, and one it refuses.          *)
Write(s)   == status' = s /\ UNCHANGED <<locked, crashes, faults, console>>
WriteFails == /\ faults < MaxFaults
              /\ faults' = faults + 1
              /\ UNCHANGED <<status, locked, crashes, console>>

(* The task forgets the request it served.                                 *)
Forget(t) ==
  /\ op'     = [op EXCEPT ![t] = None]
  /\ snap'   = [snap EXCEPT ![t] = "Unknown"]
  /\ latest' = [latest EXCEPT ![t] = "Unknown"]
  /\ ok'     = [ok EXCEPT ![t] = TRUE]

(* Where a failed or finished method goes: a core method pushes its final  *)
(* event, the queue checker only logs.                                     *)
After(t) == IF t \in Core THEN "push" ELSE "leave"

-----------------------------------------------------------------------------
(* Core methods: admission under the lock (coreMethods up to "started").   *)

(* Mutant: the lock is taken without looking whether it is free.           *)
LockUnchecked(t, m) ==
  /\ t \in Core /\ m \in Methods
  /\ locked' = TRUE
  /\ Goto(t, "idle", "prepare")
  /\ op' = [op EXCEPT ![t] = m]
  /\ UNCHANGED <<status, inst, snap, latest, ok, eventer, bounds>>

(* Mutant: the deferred Unlock is registered before Lock's error is        *)
(* checked, so a refused request unlocks.                                  *)
LockRefusalUnlocks(t, m) ==
  \/ ~locked /\ LockUnchecked(t, m)
  \/ /\ t \in Core /\ pc[t] = "idle"
     /\ locked /\ locked' = FALSE
     /\ UNCHANGED <<status, inst, taskVars, eventer, bounds>>

(* A second request for a locked machine is refused: no step.              *)
Lock(t, m) ==
  /\ t \in Core /\ m \in Methods
  /\ ~locked
  /\ locked' = TRUE
  /\ Goto(t, "idle", "prepare")
  /\ op' = [op EXCEPT ![t] = m]
  /\ UNCHANGED <<status, inst, snap, latest, ok, eventer, bounds>>

(* Old eventers of the machine are dropped and a new one is registered,    *)
(* before the document is read.  An unknown provider is refused earlier.   *)
Prepare(t) ==
  /\ t \in Core
  /\ \/ /\ Goto(t, "prepare", "fetch")
        /\ eventer' = [eventer EXCEPT ![Home[t]] =
                         [m \in AllMethods |-> IF m = op[t]
                                               THEN Eventer(t, "empty", "Unknown")
                                               ELSE Absent]]
     \/ Goto(t, "prepare", "reject") /\ UNCHANGED eventer
  /\ UNCHANGED <<docVars, inst, op, snap, latest, ok, bounds>>

(* The last event of the task's own eventer.  A push reaches pollers only  *)
(* while the task's eventer is the registered one.                         *)
PushEvent(t, phase, s) ==
  eventer' = IF eventer[Home[t]][op[t]].owner = t
             THEN [eventer EXCEPT ![Home[t]][op[t]] = Eventer(t, phase, s)]
             ELSE eventer

Admit(t) ==
  /\ t \in Core
  /\ op[t] \in ValidMethods(status)
  /\ Goto(t, "fetch", "run")
  /\ snap' = [snap EXCEPT ![t] = status]
  /\ PushEvent(t, "progress", "Unknown")
  /\ UNCHANGED <<docVars, inst, op, latest, ok, bounds>>

(* The machine cannot be read or is another provider's, or its state does  *)
(* not admit the method.                                                   *)
Refuse(t) ==
  /\ t \in Core
  /\ Goto(t, "fetch", "reject")
  /\ UNCHANGED <<docVars, inst, op, snap, latest, ok, eventer, bounds>>

(* Unlock ignores the error of its write.                                  *)
ReleaseLock ==
  \/ locked' = FALSE /\ UNCHANGED <<status, bounds>>
  \/ WriteFails

(* Mutant: a refused method keeps the lock.                                *)
RejectKeepsLock(t) ==
  /\ t \in Core
  /\ Goto(t, "reject", "idle")
  /\ Forget(t)
  /\ UNCHANGED <<docVars, bounds, inst, eventer>>

Reject(t) ==
  /\ t \in Core
  /\ Goto(t, "reject", "idle")
  /\ ReleaseLock
  /\ Forget(t)
  /\ UNCHANGED <<inst, eventer>>

-----------------------------------------------------------------------------
(* Core methods: the goroutine.  Start and Stop of the AWS provider; the   *)
(* queue checker runs Stop too, from "run" on.                             *)

Fail(t, from, to) ==
  /\ Goto(t, from, to)
  /\ ok' = [ok EXCEPT ![t] = FALSE]

(* The provider does not implement the other methods.                      *)
Unsupported(t) ==
  /\ op[t] \notin {"start", "stop"}
  /\ Fail(t, "run", "push")
  /\ UNCHANGED <<docVars, inst, op, snap, latest, eventer, bounds>>

Mark(t) ==
  /\ op[t] \in {"start", "stop"}
  /\ \/ /\ Write(IF op[t] = "start" THEN "Starting" ELSE "Stopping")
        /\ Goto(t, "run", IF op[t] = "start" THEN "describe" ELSE "halt")
        /\ latest' = [latest EXCEPT ![t] = snap[t]]
        /\ UNCHANGED ok
     \/ WriteFails /\ Fail(t, "run", After(t)) /\ UNCHANGED latest
  /\ UNCHANGED <<inst, op, snap, eventer>>

(* A missing or terminated instance, or an EC2 error, returns before the   *)
(* deferred restore is registered.                                         *)
Describe(t) ==
  /\ \/ /\ inst \in {"stopped", "stopping"}
        /\ Goto(t, "describe", "launch") /\ UNCHANGED ok
     \/ /\ inst \in {"pending", "running", "shutting-down"}
        /\ Goto(t, "describe", "probe") /\ UNCHANGED ok
     \/ Fail(t, "describe", "push")
  /\ UNCHANGED <<docVars, inst, op, snap, latest, eventer, bounds>>

(* EC2 starts a stopped instance; every other call, or an instance it      *)
(* cannot start, is an error.                                              *)
Launch(t) ==
  /\ \/ /\ inst \in {"stopped", "pending", "running"}
        /\ inst' = IF inst = "stopped" THEN "pending" ELSE inst
        /\ Goto(t, "launch", "boot") /\ UNCHANGED ok
     \/ Fail(t, "launch", "restore") /\ UNCHANGED inst
  /\ UNCHANGED <<docVars, op, snap, latest, eventer, bounds>>

(* WaitState polls until the instance runs, or an error or its timeout.    *)
AwaitBoot(t) ==
  /\ \/ inst = "running" /\ Goto(t, "boot", "probe") /\ UNCHANGED ok
     \/ Fail(t, "boot", "restore")
  /\ UNCHANGED <<docVars, inst, op, snap, latest, eventer, bounds>>

(* WaitKlientReady: klient answers only on a running instance.             *)
Probe(t) ==
  /\ \/ inst = "running" /\ Goto(t, "probe", "save") /\ UNCHANGED ok
     \/ Fail(t, "probe", "restore")
  /\ UNCHANGED <<docVars, inst, op, snap, latest, eventer, bounds>>

(* StopInstance, tried twice.                                              *)
Halt(t) ==
  /\ \/ /\ inst \in {"running", "stopping", "stopped"}
        /\ inst' = IF inst = "running" THEN "stopping" ELSE inst
        /\ Goto(t, "halt", "drain") /\ UNCHANGED ok
     \/ Fail(t, "halt", "restore") /\ UNCHANGED inst
  /\ UNCHANGED <<docVars, op, snap, latest, eventer, bounds>>

AwaitStop(t) ==
  /\ \/ /\ inst = "stopped"
        /\ Goto(t, "drain", "save")
        /\ latest' = [latest EXCEPT ![t] = "Stopped"]
        /\ UNCHANGED ok
     \/ Fail(t, "drain", "restore") /\ UNCHANGED latest
  /\ UNCHANGED <<docVars, inst, op, snap, eventer, bounds>>

Save(t) ==
  /\ \/ Write(FinalState(op[t])) /\ Goto(t, "save", After(t)) /\ UNCHANGED ok
     \/ WriteFails /\ Fail(t, "save", "restore")
  /\ UNCHANGED <<inst, op, snap, latest, eventer>>

(* Mutant: a failed method leaves its mark in the document.                *)
RestoreSkipped(t) ==
  /\ Goto(t, "restore", After(t))
  /\ UNCHANGED <<docVars, bounds, inst, op, snap, latest, ok, eventer>>

(* The deferred write of latestState ignores its own error.                *)
Restore(t) ==
  /\ Goto(t, "restore", After(t))
  /\ Write(latest[t]) \/ WriteFails
  /\ UNCHANGED <<inst, op, snap, latest, ok, eventer>>

(* Mutant: a failed method returns before it pushes its final event.       *)
PushFinalOnSuccess(t) ==
  /\ t \in Core
  /\ Goto(t, "push", "unlock")
  /\ IF ok[t] THEN PushEvent(t, "final", FinalState(op[t]))
              ELSE UNCHANGED eventer
  /\ UNCHANGED <<docVars, inst, op, snap, latest, ok, bounds>>

(* A failed method reports the status of the snapshot.                     *)
PushFinal(t) ==
  /\ t \in Core
  /\ Goto(t, "push", "unlock")
  /\ PushEvent(t, "final", IF ok[t] THEN FinalState(op[t]) ELSE snap[t])
  /\ UNCHANGED <<docVars, inst, op, snap, latest, ok, bounds>>

Unlock(t) ==
  /\ t \in Core
  /\ Goto(t, "unlock", "idle")
  /\ ReleaseLock
  /\ Forget(t)
  /\ UNCHANGED <<inst, eventer>>

-----------------------------------------------------------------------------
(* The queue checker: picks a running, unlocked machine, reads its         *)
(* document again, asks its klient for the usage and stops it if inactive. *)

Pick(t) ==
  /\ t \in Queues
  /\ status = "Running" /\ ~locked
  /\ Goto(t, "idle", "attach")
  /\ UNCHANGED <<docVars, inst, op, snap, latest, ok, eventer, bounds>>

Attach(t) ==
  /\ t \in Queues
  /\ \/ /\ Goto(t, "attach", "usage")
        /\ snap' = [snap EXCEPT ![t] = status]
     \/ Goto(t, "attach", "leave") /\ UNCHANGED snap
  /\ UNCHANGED <<docVars, inst, op, latest, ok, eventer, bounds>>

CheckUsage(t) ==
  /\ t \in Queues
  /\ \/ /\ inst = "running"
        /\ Goto(t, "usage", "run")
        /\ op' = [op EXCEPT ![t] = "stop"]
     \/ Goto(t, "usage", "leave") /\ UNCHANGED op
  /\ UNCHANGED <<docVars, inst, snap, latest, ok, eventer, bounds>>

Leave(t) ==
  /\ Goto(t, "leave", "idle")
  /\ Forget(t)
  /\ UNCHANGED <<docVars, inst, eventer, bounds>>

-----------------------------------------------------------------------------
(* Info: compares the document with the instance and corrects it.          *)

(* Nothing to do for an in-progress or an uninitialized machine: no step.  *)
InfoFetch(t) ==
  /\ t \in Infos
  /\ status \notin InProgress \cup {"NotInitialized"}
  /\ Goto(t, "idle", "inspect")
  /\ snap' = [snap EXCEPT ![t] = status]
  /\ UNCHANGED <<docVars, inst, op, latest, ok, eventer, bounds>>

(* Mutant: the EC2 state name is used as it comes.                         *)
ObservedRaw == inst

(* What Info takes the instance to be.                                     *)
Observed ==
  CASE inst = "missing"       -> "NotInitialized"
    [] inst = "shutting-down" -> "Terminated"
    [] OTHER                  -> StatusToState(inst)

(* The deferred correction runs when the result differs from the snapshot. *)
Corrects(t) == IF latest'[t] = snap[t] THEN "leave" ELSE "correct"

Inspect(t) ==
  /\ t \in Infos
  /\ \/ /\ latest' = [latest EXCEPT ![t] = Observed]
        /\ Goto(t, "inspect", IF Observed = "Terminated" THEN "bury" ELSE Corrects(t))
     \/ Goto(t, "inspect", "leave") /\ UNCHANGED latest
  /\ UNCHANGED <<docVars, inst, op, snap, ok, eventer, bounds>>

(* ChangeMachineState(Terminated), whoever holds the lock.                 *)
Bury(t) ==
  /\ t \in Infos
  /\ UNCHANGED latest
  /\ Goto(t, "bury", Corrects(t))
  /\ Write("Terminated") \/ WriteFails
  /\ UNCHANGED <<inst, op, snap, ok, eventer>>

(* Mutant: the correction does not look at the lock.                       *)
CorrectIgnoresLock(t) ==
  /\ t \in Infos
  /\ Goto(t, "correct", "leave")
  /\ Write(latest[t]) \/ WriteFails
  /\ UNCHANGED <<inst, op, snap, latest, ok, eventer>>

(* CheckAndUpdateState: only a document nobody has locked.                 *)
Correct(t) ==
  /\ t \in Infos
  /\ Goto(t, "correct", "leave")
  /\ \/ ~locked /\ Write(latest[t])
     \/ locked  /\ UNCHANGED <<docVars, bounds>>
     \/ WriteFails
  /\ UNCHANGED <<inst, op, snap, latest, ok, eventer>>

-----------------------------------------------------------------------------
(* The environment.                                                        *)

(* EC2 finishes what it was asked for.                                     *)
InstanceSettles ==
  /\ inst' = CASE inst = "pending"       -> "running"
               [] inst = "stopping"      -> "stopped"
               [] inst = "shutting-down" -> "terminated"
               [] OTHER                  -> inst
  /\ inst' # inst
  /\ UNCHANGED <<docVars, taskVars, eventer, bounds>>

(* A terminated instance is gone from EC2 after an hour.                   *)
InstanceForgotten ==
  /\ inst = "terminated" /\ inst' = "missing"
  /\ UNCHANGED <<docVars, taskVars, eventer, bounds>>

(* The owner of the AWS account acts on the instance.                      *)
ConsoleMoves ==
  {<<"running", "stopping">>, <<"stopped", "pending">>,
   <<"running", "shutting-down">>, <<"stopped", "shutting-down">>}

Console ==
  /\ console < MaxConsole
  /\ console' = console + 1
  /\ \E i \in InstanceStates : <<inst, i>> \in ConsoleMoves /\ inst' = i
  /\ UNCHANGED <<docVars, taskVars, eventer, crashes, faults>>

(* The process dies and comes back with no goroutine and no eventer; what  *)
(* it wrote to the document, the lock included, stays.                     *)
Crash(k) ==
  /\ crashes < MaxCrashes
  /\ crashes' = crashes + 1
  /\ pc'     = [t \in Tasks |-> IF Home[t] = k THEN "idle" ELSE pc[t]]
  /\ op'     = [t \in Tasks |-> IF Home[t] = k THEN None ELSE op[t]]
  /\ snap'   = [t \in Tasks |-> IF Home[t] = k THEN "Unknown" ELSE snap[t]]
  /\ latest' = [t \in Tasks |-> IF Home[t] = k THEN "Unknown" ELSE latest[t]]
  /\ ok'     = [t \in Tasks |-> IF Home[t] = k THEN TRUE ELSE ok[t]]
  /\ eventer' = [eventer EXCEPT ![k] = [m \in AllMethods |-> Absent]]
  /\ UNCHANGED <<docVars, inst, faults, console>>

-----------------------------------------------------------------------------
(* What a task does once it has begun, and what it begins.                 *)

Method(t) ==
  \/ Unsupported(t) \/ Mark(t) \/ Describe(t) \/ Launch(t) \/ AwaitBoot(t)
  \/ Probe(t) \/ Halt(t) \/ AwaitStop(t) \/ Save(t) \/ Restore(t)

Continue(t) ==
  \/ Prepare(t) \/ Admit(t) \/ Refuse(t) \/ Reject(t)
  \/ Method(t)
  \/ PushFinal(t) \/ Unlock(t)
  \/ Attach(t) \/ CheckUsage(t) \/ Leave(t)
  \/ Inspect(t) \/ Bury(t) \/ Correct(t)

Begin(t) ==
  \/ \E m \in Methods : Lock(t, m)
  \/ Pick(t)
  \/ InfoFetch(t)

Next ==
  \/ \E t \in Tasks : Continue(t) \/ Begin(t)
  \/ \E k \in Klouds : Crash(k)
  \/ InstanceSettles
  \/ InstanceForgotten
  \/ Console

Spec == Init /\ [][Next]_vars

(* The Go scheduler runs every goroutine, every wait has a timeout, and    *)
(* EC2 settles.  Nobody has to call kloud and nothing has to fail.         *)
Fairness ==
  /\ \A t \in Tasks : WF_vars(Continue(t))
  /\ WF_vars(InstanceSettles)

FairSpec == Spec /\ Fairness

-----------------------------------------------------------------------------
(* Properties.                                                             *)

PCs == HoldingPCs \cup {"idle", "attach", "usage", "leave", "inspect", "bury",
                        "correct"}

Eventers == [phase : {"absent", "empty", "progress", "final"},
             owner : Core \cup {None}, status : States]

(* Every variable keeps to the values the code can give it.                *)
TypeOK ==
  /\ status \in States /\ locked \in BOOLEAN /\ inst \in InstanceStates
  /\ pc \in [Tasks -> PCs]
  /\ op \in [Tasks -> AllMethods \cup {None}]
  /\ snap \in [Tasks -> States] /\ latest \in [Tasks -> States]
  /\ ok \in [Tasks -> BOOLEAN]
  /\ eventer \in [Klouds -> [AllMethods -> Eventers]]
  /\ crashes \in 0..MaxCrashes /\ faults \in 0..MaxFaults
  /\ console \in 0..MaxConsole

(* The lock does its work: of all the core methods that kloud processes    *)
(* have admitted or are admitting, one at most is past Lock and before     *)
(* Unlock, and the document says so (provider/locker.go).                  *)
LockExclusive ==
  \A t \in Core : Holds(t) =>
    locked /\ \A u \in Core : Holds(u) => u = t

(* Who holds the lock, as MachineLock sees it.                             *)
LockHolder ==
  IF \E t \in Core : Holds(t) THEN CHOOSE t \in Core : Holds(t)
  ELSE IF locked THEN "orphan" ELSE "nobody"

(* kloud implements the promise of MachineLock through every crash, lost   *)
(* write and interleaving.                                                 *)
Promise == INSTANCE MachineLock WITH Clients <- Core, Nobody <- "nobody",
                                     Orphan <- "orphan", holder <- LockHolder

LockPromise == Promise!Spec

(* The eventer a method pushes to stays the registered one until it has    *)
(* unlocked: no other request replaces or drops it, though cleanupEventers *)
(* drops those of every method (controller.go, event.go).                  *)
EventerOwned ==
  \A t \in Core : pc[t] \in RunningPCs \cup {"fetch", "unlock"} =>
    eventer[Home[t]][op[t]].owner = t

(* A client that polls an event in progress polls one that somebody will   *)
(* finish: its method still runs.                                          *)
NoDanglingEvent ==
  \A k \in Klouds, m \in AllMethods :
    LET e == eventer[k][m]
    IN  e.phase = "progress" =>
          pc[e.owner] \in RunningPCs /\ op[e.owner] = m

(* The writes that get past the lock are two: those of a queue checker's   *)
(* stop and Info's Terminated.  CheckAndUpdateState respects it.           *)
StrayWritesAreKnown ==
  [][\A t \in Core :
       Holds(t) /\ status' # status /\ pc'[t] = pc[t] =>
         status' = "Terminated" \/ \E q \in Queues : pc'[q] # pc[q]]_vars

(* When a method has pushed its final event, the document holds the status *)
(* that event reports, unless it was a start that failed, which may leave  *)
(* Starting behind, or Info has marked the machine terminated since        *)
(* (Machine.start, coreMethods).                                           *)
FinalEventAgreesUnlessStartFailed ==
  \A t \in Core :
    pc[t] = "unlock" /\ (ok[t] \/ op[t] # "start") /\ status # "Terminated" =>
      status = eventer[Home[t]][op[t]].status

(* Every machine that is locked is unlocked again.                         *)
LockReleased == locked ~> ~locked

(* Every method a client was told has started gets its final event, in the *)
(* eventer the client polls.                                               *)
EventFinishes ==
  \A k \in Klouds, m \in Methods :
    eventer[k][m].phase = "progress" ~> eventer[k][m].phase = "final"
=============================================================================
