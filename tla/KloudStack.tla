----------------------------- MODULE KloudStack -----------------------------
(***************************************************************************)
(* The life of one compute stack under kloud's apply method.               *)
(*                                                                         *)
(* apply builds a stack, or destroys it when called with Destroy.  Either  *)
(* way a request reads the jComputeStack document, refuses when its state  *)
(* is in progress, and only then marks it; there is no lock.  The          *)
(* resources are made and removed by terraformer, which runs one job at a  *)
(* time per content and goes on when its client is gone.  A kloud process  *)
(* may die, a Mongo write may be lost, and the connection to terraformer   *)
(* may drop.                                                               *)
(*                                                                         *)
(* Each task is a request: its handler and, after it, its goroutine.  The  *)
(* machines of a stack are marked and deleted together, so one stands for  *)
(* all of them.                                                            *)
(***************************************************************************)
EXTENDS Naturals, FiniteSets

CONSTANTS
  Klouds,      \* the kloud processes
  Tasks,       \* the requests that may be under way at the same time
  Home,        \* the process that serves each of them
  Kinds,       \* what clients ask for: a subset of {"apply", "destroy"}
  MaxCrashes,  \* bound: process deaths
  MaxFaults,   \* bound: lost Mongo writes
  MaxDrops     \* bound: lost connections to terraformer

ASSUME StackAssumption ==
  /\ Home \in [Tasks -> Klouds]
  /\ Kinds \subseteq {"apply", "destroy"}
  /\ MaxCrashes \in Nat /\ MaxFaults \in Nat /\ MaxDrops \in Nat

VARIABLES
  doc,        \* status.state of the jComputeStack, or "deleted"
  machines,   \* status.state of its jMachines, or "deleted"
  resources,  \* whether cloud resources of the stack exist
  job,        \* the terraform job running for the stack's content
  pc,         \* where each task stands
  kind,       \* what each task does
  snap,       \* the stack state each task read
  ok,         \* whether each task has met no error so far
  ticker,     \* tasks whose percentage goroutine still runs
  eventer,    \* Kloud.Eventers["apply-<stack>"] of each process
  crashes, faults, drops  \* the counters of the bounds

docs     == <<doc, machines>>
taskVars == <<pc, kind, snap, ok>>
terra    == <<resources, job>>
events   == <<ticker, eventer>>
bounds   == <<crashes, faults, drops>>
vars     == <<doc, machines, resources, job, pc, kind, snap, ok, ticker,
              eventer, crashes, faults, drops>>

None == "none"

Settled    == {"NotInitialized", "Initialized"}
InProgress == {"Building", "Destroying"}
StackStates == Settled \cup InProgress

NoJob     == [owner |-> None, kind |-> None]
Job(t)    == [owner |-> t, kind |-> kind[t]]
NoEvents  == [owner |-> None, phase |-> "absent"]

(* The last event of an eventer: none yet, progress, the final one of a    *)
(* success, or the final one with Error set.                               *)
Eventer(t, phase) == [owner |-> t, phase |-> phase]

Init ==
  /\ \/ doc = "NotInitialized" /\ machines = "NotInitialized" /\ resources = FALSE
     \/ doc = "Initialized" /\ machines = "Running" /\ resources = TRUE
  /\ job     = NoJob
  /\ pc      = [t \in Tasks |-> "idle"]
  /\ kind    = [t \in Tasks |-> None]
  /\ snap    = [t \in Tasks |-> None]
  /\ ok      = [t \in Tasks |-> TRUE]
  /\ ticker  = {}
  /\ eventer = [k \in Klouds |-> NoEvents]
  /\ crashes = 0 /\ faults = 0 /\ drops = 0

-----------------------------------------------------------------------------
(* Steps of a task, writes to the documents, events.                       *)

Goto(t, from, to) == pc[t] = from /\ pc' = [pc EXCEPT ![t] = to]

Fail(t, from, to) == /\ Goto(t, from, to)
                     /\ ok' = [ok EXCEPT ![t] = FALSE]

WriteFails == faults < MaxFaults /\ faults' = faults + 1

(* Mutant: the state is upserted, which brings a deleted stack back.       *)
SetStackStateUpserts(s) ==
  /\ UNCHANGED <<machines, crashes, drops>>
  /\ doc' = s /\ UNCHANGED faults

(* Updates the document if it is there; callers ignore the error.          *)
SetStackState(s) ==
  /\ UNCHANGED <<machines, crashes, drops>>
  /\ \/ /\ doc' = IF doc = "deleted" THEN "deleted" ELSE s
        /\ UNCHANGED faults
     \/ WriteFails /\ UNCHANGED doc

(* A push reaches pollers only while the task's eventer is the registered  *)
(* one.                                                                    *)
PushEvent(t, phase) ==
  eventer' = IF eventer[Home[t]].owner = t
             THEN [eventer EXCEPT ![Home[t]] = Eventer(t, phase)]
             ELSE eventer

Forget(t) ==
  /\ kind' = [kind EXCEPT ![t] = None]
  /\ snap' = [snap EXCEPT ![t] = None]
  /\ ok'   = [ok EXCEPT ![t] = TRUE]

(* A request that fails before its goroutine returns its error and pushes  *)
(* no event.                                                               *)
Return(t, from) ==
  /\ Goto(t, from, "idle")
  /\ Forget(t)
  /\ UNCHANGED <<docs, terra, events, bounds>>

(* Where an error leads: a build is recorded as failed, a destroy only     *)
(* reports it.                                                             *)
Failed(t) == IF kind[t] = "apply" THEN "record" ELSE "push"

-----------------------------------------------------------------------------
(* The handler.                                                            *)

(* The eventer of the stack is replaced before the request is looked at.   *)
(* The goroutine of an earlier request of the task keeps pushing to an     *)
(* eventer nobody polls.                                                   *)
Request(t, what) ==
  /\ what \in Kinds
  /\ Goto(t, "idle", "load")
  /\ kind' = [kind EXCEPT ![t] = what]
  /\ eventer' = [eventer EXCEPT ![Home[t]] = Eventer(t, "empty")]
  /\ ticker' = ticker \ {t}
  /\ UNCHANGED <<docs, terra, snap, ok, bounds>>

(* Mutant: the state of the stack is not looked at.                        *)
LoadUnchecked(t) ==
  /\ doc # "deleted"
  /\ Goto(t, "load", "mark")
  /\ snap' = [snap EXCEPT ![t] = doc]
  /\ PushEvent(t, "progress")
  /\ UNCHANGED <<docs, terra, kind, ok, ticker, bounds>>

Load(t) ==
  /\ doc \in Settled
  /\ Goto(t, "load", "mark")
  /\ snap' = [snap EXCEPT ![t] = doc]
  /\ PushEvent(t, "progress")
  /\ UNCHANGED <<docs, terra, kind, ok, ticker, bounds>>

(* The stack is gone or in progress, or its template cannot be read.       *)
Refuse(t) == Return(t, "load")

(* A destroy is marked by the handler, a build by its goroutine.           *)
Mark(t) ==
  /\ \/ /\ kind[t] = "apply" /\ SetStackState("Building")
        /\ Goto(t, "mark", "prepare")
     \/ /\ kind[t] = "destroy" /\ SetStackState("Destroying")
        /\ Goto(t, "mark", "machines")
  /\ UNCHANGED <<terra, kind, snap, ok, events>>

(* Destroy fetches the machines and detaches the stack synchronously.  An  *)
(* error leaves the stack as marked.                                       *)
BuildMachines(t) ==
  \/ /\ machines # "deleted"
     /\ Goto(t, "machines", "detach")
     /\ UNCHANGED <<docs, terra, kind, snap, ok, events, bounds>>
  \/ Return(t, "machines")

Detach(t) ==
  \/ /\ Goto(t, "detach", "disown")
     /\ SetStackState("Destroying")
     /\ UNCHANGED <<terra, kind, snap, ok, events>>
  \/ Return(t, "detach")

(* Users are taken off the machines; the error is only logged.             *)
Disown(t) ==
  /\ Goto(t, "disown", "creds")
  /\ \/ /\ machines' = IF machines = "deleted" THEN machines ELSE "Terminated"
        /\ UNCHANGED faults
     \/ WriteFails /\ UNCHANGED machines
  /\ UNCHANGED <<doc, terra, kind, snap, ok, events, crashes, drops>>

-----------------------------------------------------------------------------
(* The goroutine.                                                          *)

(* Build: machines, credentials, a connection, the template; then the      *)
(* percentage goroutine starts.                                            *)
Prepare(t) ==
  /\ \/ /\ machines # "deleted"
        /\ Goto(t, "prepare", "request")
        /\ ticker' = ticker \cup {t}
        /\ UNCHANGED ok
     \/ Fail(t, "prepare", "record") /\ UNCHANGED ticker
  /\ UNCHANGED <<docs, terra, kind, snap, eventer, bounds>>

(* Mutant: terraform is skipped for every stack.                           *)
CredentialsSkip(t) ==
  /\ \/ Goto(t, "creds", "purge") /\ UNCHANGED ok
     \/ Fail(t, "creds", "push")
  /\ UNCHANGED <<docs, terra, kind, snap, events, bounds>>

(* Destroy: terraform is skipped for a stack that was read as not built.   *)
Credentials(t) ==
  /\ \/ /\ Goto(t, "creds", IF snap[t] = "NotInitialized" THEN "purge" ELSE "request")
        /\ UNCHANGED ok
     \/ Fail(t, "creds", "push")
  /\ UNCHANGED <<docs, terra, kind, snap, events, bounds>>

(* Terraformer refuses a content that is locked by another job.            *)
Send(t) ==
  /\ \/ /\ job = NoJob
        /\ job' = Job(t)
        /\ Goto(t, "request", "wait") /\ UNCHANGED ok
     \/ Fail(t, "request", Failed(t)) /\ UNCHANGED job
  /\ UNCHANGED <<docs, resources, kind, snap, events, bounds>>

(* The job of a client that still listens tells it the outcome.            *)
Answer(t, success) ==
  IF t \in Tasks /\ pc[t] = "wait"
  THEN /\ pc' = [pc EXCEPT ![t] = IF ~success THEN Failed(t)
                                  ELSE IF kind[t] = "apply" THEN "dial" ELSE "purge"]
       /\ ok' = [ok EXCEPT ![t] = success]
  ELSE UNCHANGED <<pc, ok>>

(* A failed job may have made, or left, resources.                         *)
JobEnds ==
  /\ job # NoJob
  /\ job' = NoJob
  /\ \/ resources' = (job.kind = "apply") /\ Answer(job.owner, TRUE)
     \/ /\ resources' \in IF job.kind = "apply" THEN {resources, TRUE} ELSE {resources}
        /\ Answer(job.owner, FALSE)
  /\ UNCHANGED <<docs, kind, snap, events, bounds>>

(* The connection drops.  The client's run loop waits for the lock that    *)
(* the pending call holds, so the call neither fails nor is it answered.   *)
Disconnect(t) ==
  /\ drops < MaxDrops /\ drops' = drops + 1
  /\ Goto(t, "wait", "hung")
  /\ UNCHANGED <<docs, terra, kind, snap, ok, events, crashes, faults>>

(* WaitResources: one klient that does not answer fails the build.         *)
WaitResources(t) ==
  /\ \/ Goto(t, "dial", "update") /\ UNCHANGED ok
     \/ Fail(t, "dial", "record")
  /\ UNCHANGED <<docs, terra, kind, snap, events, bounds>>

(* The machines are updated, all or, with an error, some of them.          *)
UpdateResources(t) ==
  /\ \/ /\ machines # "deleted" /\ machines' = "Running"
        /\ Goto(t, "update", "save") /\ UNCHANGED ok
     \/ /\ machines' \in IF machines = "deleted" THEN {machines} ELSE {machines, "Running"}
        /\ Fail(t, "update", "save")
  /\ UNCHANGED <<doc, terra, kind, snap, events, bounds>>

UpdateStack(t) ==
  /\ \/ doc # "deleted" /\ Goto(t, "save", "record") /\ UNCHANGED ok
     \/ Fail(t, "save", "record")
  /\ UNCHANGED <<docs, terra, kind, snap, events, bounds>>

(* Mutant: a failed build does not touch the state.                        *)
RecordSuccessOnly(t) ==
  /\ Goto(t, "record", "push")
  /\ IF ok[t] THEN SetStackState("Initialized") ELSE UNCHANGED <<docs, bounds>>
  /\ UNCHANGED <<terra, kind, snap, ok, events>>

(* The outcome of a build.                                                 *)
Record(t) ==
  /\ Goto(t, "record", "push")
  /\ SetStackState(IF ok[t] THEN "Initialized" ELSE "NotInitialized")
  /\ UNCHANGED <<terra, kind, snap, ok, events>>

(* Database.Destroy: the machines, then the stack, whatever fails.         *)
DeleteMachines(t) ==
  /\ \/ /\ machines # "deleted" /\ machines' = "deleted"
        /\ Goto(t, "purge", "delete") /\ UNCHANGED ok
     \/ Fail(t, "purge", "delete") /\ UNCHANGED machines
  /\ UNCHANGED <<doc, terra, kind, snap, events, bounds>>

DeleteStack(t) ==
  /\ \/ /\ doc # "deleted" /\ doc' = "deleted"
        /\ Goto(t, "delete", "push") /\ UNCHANGED ok
     \/ Fail(t, "delete", "push") /\ UNCHANGED doc
  /\ UNCHANGED <<machines, terra, kind, snap, events, bounds>>

PushFinal(t) ==
  /\ Goto(t, "push", "idle")
  /\ PushEvent(t, IF ok[t] THEN "done" ELSE "error")
  /\ Forget(t)
  /\ UNCHANGED <<docs, terra, ticker, bounds>>

-----------------------------------------------------------------------------
(* The percentage goroutine of a build: select picks the tick or done, and *)
(* nothing orders its last push and the events that follow done.           *)

Tick(t) ==
  /\ t \in ticker
  /\ PushEvent(t, "progress")
  /\ UNCHANGED <<docs, terra, taskVars, ticker, bounds>>

TickerStops(t) ==
  /\ t \in ticker
  /\ pc[t] \notin {"request", "wait", "hung"}
  /\ ticker' = ticker \ {t}
  /\ UNCHANGED <<docs, terra, taskVars, eventer, bounds>>

-----------------------------------------------------------------------------
(* A process dies and comes back with no goroutine and no eventer.  What   *)
(* it wrote, and the terraform job it started, stay.                       *)
Crash(k) ==
  /\ crashes < MaxCrashes
  /\ crashes' = crashes + 1
  /\ pc'   = [t \in Tasks |-> IF Home[t] = k THEN "idle" ELSE pc[t]]
  /\ kind' = [t \in Tasks |-> IF Home[t] = k THEN None ELSE kind[t]]
  /\ snap' = [t \in Tasks |-> IF Home[t] = k THEN None ELSE snap[t]]
  /\ ok'   = [t \in Tasks |-> IF Home[t] = k THEN TRUE ELSE ok[t]]
  /\ ticker' = {t \in ticker : Home[t] # k}
  /\ eventer' = [eventer EXCEPT ![k] = NoEvents]
  /\ UNCHANGED <<docs, terra, faults, drops>>

Continue(t) ==
  \/ Load(t) \/ Refuse(t) \/ Mark(t) \/ BuildMachines(t) \/ Detach(t) \/ Disown(t)
  \/ Prepare(t) \/ Credentials(t) \/ Send(t)
  \/ WaitResources(t) \/ UpdateResources(t) \/ UpdateStack(t) \/ Record(t)
  \/ DeleteMachines(t) \/ DeleteStack(t) \/ PushFinal(t)

Next ==
  \/ \E t \in Tasks :
       \/ \E what \in Kinds : Request(t, what)
       \/ Continue(t)
       \/ Disconnect(t)
       \/ Tick(t) \/ TickerStops(t)
  \/ JobEnds
  \/ \E k \in Klouds : Crash(k)

Spec == Init /\ [][Next]_vars

(* Goroutines are scheduled, and every terraform job comes to an end.      *)
Fairness ==
  /\ \A t \in Tasks : WF_vars(Continue(t)) /\ WF_vars(TickerStops(t))
  /\ WF_vars(JobEnds)

FairSpec == Spec /\ Fairness

-----------------------------------------------------------------------------
(* Properties.                                                             *)

PCs == {"idle", "load", "mark", "machines", "detach", "disown", "creds",
        "prepare", "request", "wait", "hung", "dial", "update", "save",
        "record", "purge", "delete", "push"}

(* Every variable keeps to the values the code can give it.                *)
TypeOK ==
  /\ doc \in StackStates \cup {"deleted"}
  /\ machines \in {"NotInitialized", "Running", "Terminated", "deleted"}
  /\ resources \in BOOLEAN
  /\ job \in [owner : Tasks \cup {None}, kind : {"apply", "destroy", None}]
  /\ pc \in [Tasks -> PCs]
  /\ kind \in [Tasks -> {"apply", "destroy", None}]
  /\ snap \in [Tasks -> Settled \cup {None}]
  /\ ok \in [Tasks -> BOOLEAN]
  /\ ticker \subseteq Tasks
  /\ eventer \in [Klouds -> [owner : Tasks \cup {None},
                             phase : {"absent", "empty", "progress", "done", "error"}]]
  /\ crashes \in 0..MaxCrashes /\ faults \in 0..MaxFaults /\ drops \in 0..MaxDrops

(* Where a build has marked the stack and not yet recorded its outcome.    *)
BuildPCs == {"prepare", "request", "wait", "hung", "dial", "update", "save", "record"}

Builds(t) == kind[t] = "apply" /\ pc[t] \in BuildPCs

(* As long as no process has died and no write was lost, a stack that says *)
(* Building is being built, however many requests overlap: the last mark   *)
(* always belongs to a build that has yet to record its outcome.           *)
BuildingHasWorker ==
  crashes = 0 /\ faults = 0 /\ doc = "Building" => \E t \in Tasks : Builds(t)

(* A running terraform job is visible in the state of the stack, so that   *)
(* requests are refused until it is over: whoever started it may have died *)
(* or lost its connection.                                                 *)
WorkIsGuarded == job # NoJob => doc \in InProgress

(* A final event without an error tells the truth: the stack is built, or  *)
(* it is gone, and its resources too if it was built.                      *)
SuccessIsTrue ==
  \A t \in Tasks : pc[t] = "push" /\ ok[t] =>
    IF kind[t] = "apply"
    THEN doc = "Initialized" /\ machines = "Running" /\ resources
    ELSE doc = "deleted" /\ machines = "deleted"
         /\ (resources => snap[t] = "NotInitialized")

(* The state of the stack moves as package stackstate says.                *)
Lifecycle == INSTANCE StackLifecycle WITH state <- doc, Deleted <- "deleted"

FollowsLifecycle == Lifecycle!Spec

(* A deleted stack and its machines stay deleted, even when a build or     *)
(* another destroy that overlapped goes on to update them (SetStackState,  *)
(* UpdateMachine).                                                         *)
DeletedForGood ==
  [][/\ doc = "deleted" => doc' = "deleted"
     /\ machines = "deleted" => machines' = "deleted"]_vars

(* A build ends: the stack does not stay Building, unless its process died *)
(* or a write of its state was lost.                                       *)
BuildingEnds ==
  doc = "Building" ~> doc # "Building" \/ crashes + faults > 0
=============================================================================
