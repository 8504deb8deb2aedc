---------------------------- MODULE Terraformer ----------------------------
(***************************************************************************)
(* terraformer: the process that runs Terraform for kloud.                 *)
(*                                                                         *)
(* A request locks its content (shutdownChans), copies the content's       *)
(* directory from the remote store to the local one, runs terraform there, *)
(* copies the directory back, unlocks, and only then removes the local     *)
(* directory.  A signal closes the process: Shutdown waits for the         *)
(* requests under way, interrupts them after 15 and 25 seconds and gives   *)
(* up after 30.  Files outlive the process; it is started again.           *)
(*                                                                         *)
(* The template of a content describes one resource; a state file lists    *)
(* the resources terraform knows of.                                       *)
(***************************************************************************)
EXTENDS Integers, FiniteSets

CONSTANTS
  Tasks,       \* requests that may be under way at the same time
  Contents,    \* content ids
  Asks,        \* the content each of them is about
  Kinds,       \* a subset of {"plan", "apply", "destroy"}
  Resources,   \* bound: ids of resources in the cloud
  MaxSignals,  \* bound: signals sent to the processes
  MaxFaults    \* bound: copies between the stores that fail

ASSUME TerraformerAssumption ==
  /\ IsFiniteSet(Tasks)
  /\ Asks \in [Tasks -> Contents]
  /\ Kinds \subseteq {"plan", "apply", "destroy"}
  /\ MaxSignals \in Nat /\ MaxFaults \in Nat

VARIABLES
  phase,      \* of the process: up, closing, stopping (closeChan closed), down
  listening,  \* whether handleSignals still waits for its signal
  timer,      \* the last timer of Shutdown that fired
  chans,      \* the contents locked in shutdownChans
  wg,         \* the counter of shutdownChansWG
  local,      \* the directory of each content in the local store
  remote,     \* ... and in the remote one
  made,       \* the resources of each content that exist in the cloud
  pc,         \* where each request stands
  kind,       \* what it does
  ok,         \* whether it has met no error so far; its outcome at the end
  run,        \* its terraform goroutine
  seen,       \* the state terraform holds in memory
  hit,        \* how many interrupts its terraform run received
  signals, faults  \* the counters of the bounds

procVars == <<phase, listening, timer, signals>>
lockVars == <<chans, wg>>
stores   == <<local, remote>>
runVars  == <<run, seen, hit>>
vars     == <<phase, listening, timer, chans, wg, local, remote, made, pc,
              kind, ok, run, seen, hit, signals, faults>>

(* A directory: whether main.tf.json is there, and the state file, if any. *)
(* A missing directory is like an empty one.                               *)
Directories == [main : BOOLEAN, state : SUBSET (SUBSET Resources)]

Empty == [main |-> FALSE, state |-> {}]

(* What Clone leaves in the target.                                        *)
Overlay(new, old) ==
  [main  |-> new.main \/ old.main,
   state |-> IF new.state = {} THEN old.state ELSE new.state]

(* Where a failing Clone may stop: files are copied in alphabetical order. *)
Partial(new, old) == {old, [old EXCEPT !.main = new.main \/ old.main]}

(* A request that is over was told of success, or is forgotten.            *)
Idle == {"idle", "success"}

-----------------------------------------------------------------------------
(* A request.                                                              *)

Goto(t, from, to) == pc[t] = from /\ pc' = [pc EXCEPT ![t] = to]

Fail(t, from, to) == Goto(t, from, to) /\ ok' = [ok EXCEPT ![t] = FALSE]

CopyFails == faults < MaxFaults /\ faults' = faults + 1

(* Any time but when the process is down: nothing asks whether it closes.  *)
Admit(t, what) ==
  /\ phase # "down"
  /\ pc[t] \in Idle /\ run[t] = "off"
  /\ pc'   = [pc EXCEPT ![t] = "clonein"]
  /\ kind' = [kind EXCEPT ![t] = what]
  /\ ok'   = [ok EXCEPT ![t] = TRUE]
  /\ seen' = [seen EXCEPT ![t] = {}]
  /\ hit'  = [hit EXCEPT ![t] = 0]
  /\ chans' = chans \cup {Asks[t]}
  /\ UNCHANGED <<procVars, stores, made, run, faults>>

(* Mutant: the content may be locked already.                              *)
GetUnchecked(t, what) == Admit(t, what) /\ wg' = wg + 1

(* Mutant: shutdownChansWG.Add is missing.                                 *)
GetForgetsAdd(t, what) ==
  Admit(t, what) /\ Asks[t] \notin chans /\ UNCHANGED wg

(* A request for a locked content is refused and changes nothing.          *)
Get(t, what) == Admit(t, what) /\ Asks[t] \notin chans /\ wg' = wg + 1

CloneIn(t) ==
  /\ LET c == Asks[t]
     IN  \/ /\ local' = [local EXCEPT ![c] = Overlay(remote[c], local[c])]
            /\ Goto(t, "clonein", "setup")
            /\ UNCHANGED <<ok, faults>>
         \/ /\ \E d \in Partial(remote[c], local[c]) : local' = [local EXCEPT ![c] = d]
            /\ CopyFails
            /\ Fail(t, "clonein", "close")
  /\ UNCHANGED <<procVars, lockVars, remote, made, kind, runVars>>

(* The main file is written, except for a destroy.                         *)
Setup(t) ==
  /\ \/ /\ local' = [local EXCEPT ![Asks[t]].main = @ \/ kind[t] # "destroy"]
        /\ Goto(t, "setup", "start")
        /\ UNCHANGED <<ok, faults>>
     \/ /\ CopyFails
        /\ Fail(t, "setup", "close")
        /\ UNCHANGED local
  /\ UNCHANGED <<procVars, lockVars, remote, made, kind, runVars>>

(* Terraform loads the main file and the state; a missing state file is an *)
(* empty state.  Loading, refreshing and planning may fail.                *)
Start(t) ==
  /\ LET d == local[Asks[t]]
     IN  \/ /\ d.main
            /\ Goto(t, "start", "running")
            /\ seen' = [seen EXCEPT ![t] = UNION d.state]
            /\ run'  = [run EXCEPT ![t] = "on"]
            /\ UNCHANGED ok
         \/ Fail(t, "start", "cloneout") /\ UNCHANGED <<seen, run>>
  /\ UNCHANGED <<procVars, lockVars, stores, made, kind, hit, faults>>

-----------------------------------------------------------------------------
(* The terraform goroutine of a request: on, made (the cloud has changed,  *)
(* the state file has not), saved.  After a second interrupt it goes on    *)
(* without its request.                                                    *)

Known(t) == seen[t] \cap made[Asks[t]]

Changes(t, resources, state) ==
  /\ run[t] = "on"
  /\ run'  = [run EXCEPT ![t] = "made"]
  /\ made' = [made EXCEPT ![Asks[t]] = resources]
  /\ seen' = [seen EXCEPT ![t] = state]
  /\ UNCHANGED <<procVars, lockVars, stores, pc, kind, hit, faults>>

(* apply makes what the state lacks; a resource whose creation fails       *)
(* half-way is still in the state.                                         *)
Create(t) ==
  /\ kind[t] = "apply"
  /\ \/ Known(t) # {} /\ Changes(t, made[Asks[t]], Known(t)) /\ UNCHANGED ok
     \/ /\ Known(t) = {}
        /\ \E r \in Resources \ UNION {made[c] : c \in Contents} :
             Changes(t, made[Asks[t]] \cup {r}, {r})
        /\ \E good \in {ok[t], FALSE} : ok' = [ok EXCEPT ![t] = good]

Delete(t) ==
  /\ kind[t] = "destroy"
  /\ Changes(t, made[Asks[t]] \ seen[t], {}) /\ UNCHANGED ok

(* plan refreshes the state; an apply or destroy may fail at once, or be   *)
(* stopped by an interrupt, which terraform does not count as an error.    *)
Refresh(t) ==
  /\ Changes(t, made[Asks[t]], Known(t))
  /\ \/ (kind[t] = "plan" \/ hit[t] > 0) /\ UNCHANGED ok
     \/ ok' = [ok EXCEPT ![t] = FALSE]

(* The state hook, which makes the directory again when it is gone.        *)
Save(t) ==
  /\ run[t] = "made"
  /\ run' = [run EXCEPT ![t] = IF pc[t] = "running" THEN "saved" ELSE "off"]
  /\ local' = [local EXCEPT ![Asks[t]].state = {seen[t]}]
  /\ UNCHANGED <<procVars, lockVars, remote, made, pc, kind, ok, seen, hit, faults>>

(* The goroutine is done: an apply or destroy persists the state again.    *)
Finish(t) ==
  /\ run[t] = "saved" /\ run' = [run EXCEPT ![t] = "off"]
  /\ Goto(t, "running", "cloneout")
  /\ local' = IF kind[t] = "plan" THEN local
              ELSE [local EXCEPT ![Asks[t]].state = {seen[t]}]
  /\ UNCHANGED <<procVars, lockVars, remote, made, kind, ok, seen, hit, faults>>

-----------------------------------------------------------------------------
(* After terraform.                                                        *)

(* Mutant: an error of the copy is dropped.                                *)
CloneOutDropsError(t) ==
  /\ LET c == Asks[t]
     IN  \/ remote' = [remote EXCEPT ![c] = Overlay(local[c], remote[c])] /\ UNCHANGED faults
         \/ /\ \E d \in Partial(local[c], remote[c]) : remote' = [remote EXCEPT ![c] = d]
            /\ CopyFails
  /\ Goto(t, "cloneout", IF ok[t] THEN "open" ELSE "close")
  /\ UNCHANGED <<procVars, lockVars, local, made, kind, ok, runVars>>

(* The directory is copied back, whatever terraform's exit code.           *)
CloneOut(t) ==
  /\ LET c == Asks[t]
     IN  \/ /\ remote' = [remote EXCEPT ![c] = Overlay(local[c], remote[c])]
            /\ Goto(t, "cloneout", IF ok[t] THEN "open" ELSE "close")
            /\ UNCHANGED <<ok, faults>>
         \/ /\ \E d \in Partial(local[c], remote[c]) : remote' = [remote EXCEPT ![c] = d]
            /\ CopyFails
            /\ Fail(t, "cloneout", "close")
  /\ UNCHANGED <<procVars, lockVars, local, made, kind, runVars>>

(* Mutant: a missing state file is no error.                               *)
OpenUnread(t) ==
  /\ Goto(t, "open", "close")
  /\ UNCHANGED <<procVars, lockVars, stores, made, kind, ok, runVars, faults>>

(* The answer is read from the local state file, or plan file.             *)
Open(t) ==
  /\ \/ /\ kind[t] # "plan" => local[Asks[t]].state # {}
        /\ Goto(t, "open", "close") /\ UNCHANGED ok
     \/ /\ kind[t] = "plan" \/ local[Asks[t]].state = {}
        /\ Fail(t, "open", "close")
  /\ UNCHANGED <<procVars, lockVars, stores, made, kind, runVars, faults>>

(* Mutant: shutdownChansWG.Done is missing.                                *)
UnregisterForgetsDone(t) ==
  /\ Goto(t, "close", "remove")
  /\ chans' = chans \ {Asks[t]} /\ UNCHANGED wg
  /\ UNCHANGED <<procVars, stores, made, kind, ok, runVars, faults>>

(* Close, its locked half.                                                 *)
Unregister(t) ==
  /\ Goto(t, "close", "remove")
  /\ chans' = chans \ {Asks[t]} /\ wg' = wg - 1
  /\ UNCHANGED <<procVars, stores, made, kind, ok, runVars, faults>>

(* Close, the rest: the directory is removed after the unlock.             *)
Remove(t) ==
  /\ Goto(t, "remove", "answer")
  /\ local' = [local EXCEPT ![Asks[t]] = Empty]
  /\ UNCHANGED <<procVars, lockVars, remote, made, kind, ok, runVars, faults>>

(* What the request did is forgotten, unless its terraform goes on.        *)
Reply(t, success) ==
  /\ pc[t] = "answer"
  /\ pc'   = [pc EXCEPT ![t] = IF success THEN "success" ELSE "idle"]
  /\ ok'   = [ok EXCEPT ![t] = TRUE]
  /\ IF success \/ run[t] # "off" THEN UNCHANGED <<kind, seen, hit>>
     ELSE /\ kind' = [kind EXCEPT ![t] = "plan"]
          /\ seen' = [seen EXCEPT ![t] = {}]
          /\ hit'  = [hit EXCEPT ![t] = 0]
  /\ UNCHANGED <<procVars, lockVars, stores, made, run, faults>>

(* Mutant: handleState is not called.                                      *)
AnswerUnchecked(t) == Reply(t, ok[t])

(* handleState runs after the handler and turns its answer into an error   *)
(* while the process closes.                                               *)
Answer(t) == Reply(t, ok[t] /\ phase = "up")

-----------------------------------------------------------------------------
(* The process.                                                            *)

Die ==
  /\ phase' = "down" /\ listening' = FALSE /\ timer' = 0
  /\ chans' = {} /\ wg' = 0
  /\ pc'   = [t \in Tasks |-> "idle"]
  /\ kind' = [t \in Tasks |-> "plan"]
  /\ ok'   = [t \in Tasks |-> TRUE]
  /\ run'  = [t \in Tasks |-> "off"]
  /\ seen' = [t \in Tasks |-> {}]
  /\ hit'  = [t \in Tasks |-> 0]
  /\ UNCHANGED <<stores, made, faults>>

(* handleSignals takes one signal, of any kind, and then restores the      *)
(* default handling.                                                       *)
SignalTaken ==
  /\ phase # "down" /\ listening
  /\ signals < MaxSignals /\ signals' = signals + 1
  /\ listening' = FALSE
  /\ phase' \in {"closing", phase}
  /\ UNCHANGED <<timer, lockVars, stores, made, pc, kind, ok, runVars, faults>>

SignalKills ==
  /\ phase # "down" /\ ~listening
  /\ signals < MaxSignals /\ signals' = signals + 1
  /\ Die

(* BroadcastForceShutdown reaches the requests that wait for terraform; it *)
(* is lost on the others.  The second interrupt fails the request at once. *)
Listens(t) == pc[t] = "running" /\ kind[t] # "plan"

Broadcast(from, to) ==
  /\ phase = "closing" /\ timer = from /\ timer' = to
  /\ hit' = [t \in Tasks |-> IF Listens(t) THEN hit[t] + 1 ELSE hit[t]]
  /\ LET gone(t) == Listens(t) /\ hit[t] = 1
     IN  /\ pc'  = [t \in Tasks |-> IF gone(t) THEN "cloneout" ELSE pc[t]]
         /\ ok'  = [t \in Tasks |-> IF gone(t) THEN FALSE ELSE ok[t]]
         /\ run' = [t \in Tasks |-> IF gone(t) /\ run[t] = "saved" THEN "off" ELSE run[t]]
  /\ UNCHANGED <<phase, listening, signals, lockVars, stores, made, kind, seen, faults>>

Stop ==
  /\ phase = "closing" /\ phase' = "stopping"
  /\ UNCHANGED <<listening, timer, signals, lockVars, stores, made, pc, kind,
                 ok, runVars, faults>>

(* The wait group reached zero.                                            *)
Drained == wg = 0 /\ Stop

(* Shutdown gives up.                                                      *)
Deadline == timer = 25 /\ Stop

(* main returns once closeChan is closed.                                  *)
Exit == phase = "stopping" /\ Die /\ UNCHANGED signals

Boot ==
  /\ phase = "down" /\ phase' = "up" /\ listening' = TRUE
  /\ UNCHANGED <<timer, signals, lockVars, stores, made, pc, kind, ok, runVars, faults>>

-----------------------------------------------------------------------------
Init ==
  /\ phase = "up" /\ listening = TRUE /\ timer = 0 /\ signals = 0
  /\ chans = {} /\ wg = 0
  /\ local = [c \in Contents |-> Empty]
  /\ remote = [c \in Contents |-> Empty]
  /\ made = [c \in Contents |-> {}]
  /\ pc   = [t \in Tasks |-> "idle"]
  /\ kind = [t \in Tasks |-> "plan"]
  /\ ok   = [t \in Tasks |-> TRUE]
  /\ run  = [t \in Tasks |-> "off"]
  /\ seen = [t \in Tasks |-> {}]
  /\ hit  = [t \in Tasks |-> 0]
  /\ faults = 0

Continue(t) ==
  \/ CloneIn(t) \/ Setup(t) \/ Start(t)
  \/ Create(t) \/ Delete(t) \/ Refresh(t) \/ Save(t) \/ Finish(t)
  \/ CloneOut(t) \/ Open(t) \/ Unregister(t) \/ Remove(t) \/ Answer(t)

Timers == Broadcast(0, 15) \/ Broadcast(15, 25) \/ Deadline

Next ==
  \/ \E t \in Tasks : Continue(t) \/ \E what \in Kinds : Get(t, what)
  \/ Timers \/ Drained \/ Exit \/ Boot
  \/ SignalTaken \/ SignalKills

Spec == Init /\ [][Next]_vars

-----------------------------------------------------------------------------
(* Properties.                                                             *)

PCs == {"idle", "clonein", "setup", "start", "running", "cloneout", "open",
        "close", "remove", "answer", "success"}

(* Between Get and the locked half of Close.                               *)
RegisteredPCs == {"clonein", "setup", "start", "running", "cloneout", "open", "close"}

Registered == {t \in Tasks : pc[t] \in RegisteredPCs}

(* Every variable keeps to the values the code can give it; in particular  *)
(* the wait group, which panics below zero, does not get there.            *)
TypeOK ==
  /\ phase \in {"up", "closing", "stopping", "down"}
  /\ listening \in BOOLEAN /\ timer \in {0, 15, 25}
  /\ chans \subseteq Contents /\ wg \in Nat
  /\ local \in [Contents -> Directories] /\ remote \in [Contents -> Directories]
  /\ made \in [Contents -> SUBSET Resources]
  /\ pc \in [Tasks -> PCs]
  /\ kind \in [Tasks -> {"plan", "apply", "destroy"}]
  /\ ok \in [Tasks -> BOOLEAN]
  /\ run \in [Tasks -> {"off", "on", "made", "saved"}]
  /\ seen \in [Tasks -> SUBSET Resources]
  /\ hit \in [Tasks -> 0..2]
  /\ signals \in 0..MaxSignals /\ faults \in 0..MaxFaults

(* Two requests never run terraform on the same content ("content is       *)
(* already locked", context.go), and a content that is locked is locked by *)
(* a request that will unlock it.                                          *)
ContentExclusive ==
  /\ \A t, u \in Registered : Asks[t] = Asks[u] => t = u
  /\ chans = {Asks[t] : t \in Registered}

(* The wait group counts the requests Shutdown has to wait for.            *)
WaitGroupCounts == wg = Cardinality(Registered)

(* An apply or destroy that is about to be answered without an error has   *)
(* its state in the remote store, where the next one starts from, and the  *)
(* resources it reports exist: through failing copies, requests whose      *)
(* directory a late Remove takes away, and restarts; up to the second      *)
(* broadcast, after which terraform goroutines may outlive their requests. *)
SuccessIsRecorded ==
  \A t \in Tasks : pc[t] = "close" /\ ok[t] /\ kind[t] # "plan" /\ timer < 25 =>
    remote[Asks[t]].state = {seen[t]} /\ seen[t] \subseteq made[Asks[t]]

(* A client told of success has what it asked for, although terraform      *)
(* reports an interrupted run, which may have done nothing, as a success.  *)
SuccessIsComplete ==
  \A t \in Tasks : pc[t] = "success" =>
    /\ kind[t] = "apply" => seen[t] # {}
    /\ kind[t] = "destroy" => seen[t] = {}

(* What kloud sees of the requests: their jobs run while they have their   *)
(* content, and ended well if they met neither an error nor an interrupt.  *)
Job(t) == [request |-> t, kind |-> kind[t]]
JobsNow == {Job(t) : t \in Registered}
EndedWell == {Job(t) : t \in {u \in Tasks : pc[u] \in {"remove", "answer"} /\ ok[u] /\ hit[u] = 0}}
OnRecord == [c \in Contents |-> UNION remote[c].state]

(* terraformer keeps the promise of TerraformJobs, which KloudStack relies *)
(* on, through failing copies, signals, restarts and the late removal of   *)
(* directories; its jobs are out of hand from the second broadcast to the  *)
(* end of the process.                                                     *)
Jobs == INSTANCE TerraformJobs WITH
  Requests <- Tasks, jobs <- JobsNow, resources <- made, state <- OnRecord, good <- EndedWell,
  told <- {t \in Tasks : pc[t] = "success"}, abandoned <- (timer = 25)

JobsPromise == Jobs!Spec

(* A content at rest has all its resources in its remote state, so that a  *)
(* later apply does not make them twice and a destroy removes them: "copy  *)
(* all contents from local to remote for later operating" (cmd.go).        *)
NothingForgotten ==
  \A c \in Contents : c \notin chans => made[c] \subseteq UNION remote[c].state
=============================================================================
