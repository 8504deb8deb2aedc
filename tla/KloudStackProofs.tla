--------------------------- MODULE KloudStackProofs ---------------------------
(***************************************************************************)
(* Proofs about KloudStack: for any number of requests and processes and   *)
(* every bound, except SequentialLifecycle, which is about requests that   *)
(* never overlap.                                                          *)
(***************************************************************************)
EXTENDS KloudStack, TLAPS

(* Updating the state of the stack keeps its type and the bounds.          *)
LEMMA SetStackStateType ==
  ASSUME TypeOK, NEW s \in StackStates, SetStackState(s)
  PROVE  /\ doc' \in StackStates \cup {"deleted"}
         /\ machines' = machines
         /\ crashes' \in 0..MaxCrashes /\ faults' \in 0..MaxFaults
         /\ drops' \in 0..MaxDrops
  BY StackAssumption DEF TypeOK, SetStackState, WriteFails

(* A push keeps the type of the eventers.                                  *)
LEMMA PushType ==
  ASSUME TypeOK, NEW t \in Tasks, NEW p \in {"progress", "done", "error"},
         PushEvent(t, p)
  PROVE  eventer' \in [Klouds -> [owner : Tasks \cup {None},
                                  phase : {"absent", "empty", "progress", "done", "error"}]]
  BY DEF TypeOK, PushEvent, Eventer

LEMMA TypeInit == Init => TypeOK
<1> SUFFICES ASSUME Init PROVE TypeOK
  OBVIOUS
<1>1. /\ eventer \in [Klouds -> [owner : Tasks \cup {None},
                     phase : {"absent", "empty", "progress", "done", "error"}]]
      /\ job \in [owner : Tasks \cup {None}, kind : {"apply", "destroy", None}]
  BY DEF Init, NoEvents, NoJob
<1>2. /\ crashes \in 0..MaxCrashes /\ faults \in 0..MaxFaults
      /\ drops \in 0..MaxDrops
  BY StackAssumption DEF Init
<1> QED
  BY <1>1, <1>2 DEF Init, TypeOK, StackStates, Settled, InProgress, PCs, None

(* Steps of a request keep the types.                                      *)
LEMMA TypeContinue ==
  ASSUME TypeOK, NEW t \in Tasks, Continue(t)
  PROVE  TypeOK'
<1> USE StackAssumption, SetStackStateType, PushType
<1> USE DEF TypeOK, PCs, Goto, Fail, Forget, Return, docs, terra, events, bounds,
            StackStates, Settled, InProgress, Failed
<1>1. CASE Load(t)
  BY <1>1 DEF Load
<1>2. CASE Refuse(t)
  BY <1>2 DEF Refuse
<1>3. CASE Mark(t)
  BY <1>3 DEF Mark
<1>4. CASE BuildMachines(t)
  BY <1>4 DEF BuildMachines
<1>5. CASE Detach(t)
  BY <1>5 DEF Detach
<1>6. CASE Disown(t)
  BY <1>6 DEF Disown, WriteFails
<1>7. CASE Prepare(t)
  BY <1>7 DEF Prepare
<1>8. CASE Credentials(t)
  BY <1>8 DEF Credentials
<1>9. CASE Send(t)
  <2>1. job' \in [owner : Tasks \cup {None}, kind : {"apply", "destroy", None}]
    BY <1>9 DEF Send, Job
  <2>2. pc' \in [Tasks -> PCs] /\ ok' \in [Tasks -> BOOLEAN]
    BY <1>9 DEF Send
  <2> QED BY <1>9, <2>1, <2>2 DEF Send
<1>10. CASE WaitResources(t)
  BY <1>10 DEF WaitResources
<1>11. CASE UpdateResources(t)
  BY <1>11 DEF UpdateResources
<1>12. CASE UpdateStack(t)
  BY <1>12 DEF UpdateStack
<1>13. CASE Record(t)
  BY <1>13 DEF Record
<1>14. CASE DeleteMachines(t)
  BY <1>14 DEF DeleteMachines
<1>15. CASE DeleteStack(t)
  BY <1>15 DEF DeleteStack
<1>16. CASE PushFinal(t)
  BY <1>16 DEF PushFinal
<1> QED
  BY <1>1, <1>2, <1>3, <1>4, <1>5, <1>6, <1>7, <1>8, <1>9, <1>10, <1>11,
     <1>12, <1>13, <1>14, <1>15, <1>16 DEF Continue

(* The end of a terraform job keeps the types.                             *)
LEMMA TypeJobEnds ==
  ASSUME TypeOK, JobEnds
  PROVE  TypeOK'
<1> USE DEF JobEnds, TypeOK
<1>1. job' \in [owner : Tasks \cup {None}, kind : {"apply", "destroy", None}]
  BY DEF NoJob
<1>2. pc' \in [Tasks -> PCs] /\ ok' \in [Tasks -> BOOLEAN]
  BY DEF Answer, Failed, PCs
<1>3. resources' \in BOOLEAN
  OBVIOUS
<1> QED BY <1>1, <1>2, <1>3 DEF docs, events, bounds

LEMMA TypeNext == TypeOK /\ [Next]_vars => TypeOK'
<1> SUFFICES ASSUME TypeOK, [Next]_vars PROVE TypeOK'
  OBVIOUS
<1> USE StackAssumption
<1> USE DEF TypeOK, PCs, Goto, docs, taskVars, terra, events, bounds
<1>1. ASSUME NEW t \in Tasks, Continue(t) PROVE TypeOK'
  BY <1>1, TypeContinue
<1>2. ASSUME NEW t \in Tasks, NEW what \in Kinds, Request(t, what) PROVE TypeOK'
  BY <1>2 DEF Request, Eventer
<1>3. ASSUME NEW t \in Tasks, Disconnect(t) PROVE TypeOK'
  BY <1>3 DEF Disconnect
<1>4. ASSUME NEW t \in Tasks, Tick(t) PROVE TypeOK'
  BY <1>4, PushType DEF Tick
<1>5. ASSUME NEW t \in Tasks, TickerStops(t) PROVE TypeOK'
  BY <1>5 DEF TickerStops
<1>6. ASSUME JobEnds PROVE TypeOK'
  BY <1>6, TypeJobEnds
<1>7. ASSUME NEW k \in Klouds, Crash(k) PROVE TypeOK'
  <2>1. eventer' \in [Klouds -> [owner : Tasks \cup {None},
                       phase : {"absent", "empty", "progress", "done", "error"}]]
    BY <1>7 DEF Crash, NoEvents
  <2>2. crashes' \in 0..MaxCrashes
    BY <1>7 DEF Crash
  <2> QED BY <1>7, <2>1, <2>2 DEF Crash
<1>8. UNCHANGED vars => TypeOK'
  BY DEF vars
<1> QED
  BY <1>1, <1>2, <1>3, <1>4, <1>5, <1>6, <1>7, <1>8 DEF Next

(* Every variable keeps its type in every behaviour.                       *)
THEOREM TypeCorrect == Spec => []TypeOK
  BY TypeInit, TypeNext, PTL DEF Spec

-----------------------------------------------------------------------------
(* Overlapping builds.  BuildingHasWorker is inductive with the types: a   *)
(* build leaves BuildPCs only by recording an outcome other than Building. *)

(* A step of a request that leaves the stack Building leaves the request   *)
(* building, if it was or if it is the one that marked the stack.          *)
LEMMA BuildingStep ==
  ASSUME TypeOK, NEW t \in Tasks, Continue(t), faults' = 0, doc' = "Building"
  PROVE  /\ Builds(t)' \/ (doc = "Building" /\ ~Builds(t))
         /\ \A u \in Tasks : u # t => pc'[u] = pc[u] /\ kind'[u] = kind[u]
         /\ faults = 0 /\ crashes' = crashes
<1> USE StackAssumption
<1> USE DEF TypeOK, PCs, Builds, BuildPCs, Goto, Fail, Forget, Return, docs, terra,
            events, bounds, Failed, SetStackState, WriteFails, Settled
<1>1. CASE Load(t)
  BY <1>1 DEF Load
<1>2. CASE Refuse(t)
  BY <1>2 DEF Refuse
<1>3. CASE Mark(t)
  BY <1>3 DEF Mark
<1>4. CASE BuildMachines(t)
  BY <1>4 DEF BuildMachines
<1>5. CASE Detach(t)
  BY <1>5 DEF Detach
<1>6. CASE Disown(t)
  BY <1>6 DEF Disown
<1>7. CASE Prepare(t)
  BY <1>7 DEF Prepare
<1>8. CASE Credentials(t)
  BY <1>8 DEF Credentials
<1>9. CASE Send(t)
  BY <1>9 DEF Send
<1>10. CASE WaitResources(t)
  BY <1>10 DEF WaitResources
<1>11. CASE UpdateResources(t)
  BY <1>11 DEF UpdateResources
<1>12. CASE UpdateStack(t)
  BY <1>12 DEF UpdateStack
<1>13. CASE Record(t)
  BY <1>13 DEF Record
<1>14. CASE DeleteMachines(t)
  BY <1>14 DEF DeleteMachines
<1>15. CASE DeleteStack(t)
  BY <1>15 DEF DeleteStack
<1>16. CASE PushFinal(t)
  BY <1>16 DEF PushFinal
<1> QED
  BY <1>1, <1>2, <1>3, <1>4, <1>5, <1>6, <1>7, <1>8, <1>9, <1>10, <1>11,
     <1>12, <1>13, <1>14, <1>15, <1>16 DEF Continue

LEMMA BuildingNext ==
  TypeOK /\ BuildingHasWorker /\ [Next]_vars => BuildingHasWorker'
<1> SUFFICES ASSUME TypeOK, BuildingHasWorker, [Next]_vars,
                    crashes' = 0, faults' = 0, doc' = "Building"
             PROVE  \E t \in Tasks : Builds(t)'
  BY DEF BuildingHasWorker, Builds
<1> USE StackAssumption
<1> USE DEF BuildingHasWorker, TypeOK, Builds, Goto, docs, taskVars, terra, events,
            bounds
<1>1. ASSUME NEW t \in Tasks, Continue(t) PROVE \E u \in Tasks : Builds(u)'
  BY <1>1, BuildingStep
<1>2. ASSUME NEW t \in Tasks, NEW what \in Kinds, Request(t, what)
      PROVE  \E u \in Tasks : Builds(u)'
  BY <1>2 DEF Request, BuildPCs
<1>3. ASSUME NEW t \in Tasks, Disconnect(t) PROVE \E u \in Tasks : Builds(u)'
  BY <1>3 DEF Disconnect, BuildPCs
<1>4. ASSUME NEW t \in Tasks, Tick(t) \/ TickerStops(t)
      PROVE  \E u \in Tasks : Builds(u)'
  BY <1>4 DEF Tick, TickerStops
<1>5. ASSUME JobEnds PROVE \E u \in Tasks : Builds(u)'
  <2>1. PICK u \in Tasks : Builds(u)
    BY <1>5 DEF JobEnds
  <2>2. Builds(u)'
    BY <1>5, <2>1 DEF JobEnds, Answer, Failed, BuildPCs
  <2> QED BY <2>2
<1>6. ASSUME NEW k \in Klouds, Crash(k) PROVE FALSE
  BY <1>6 DEF Crash
<1>7. UNCHANGED vars => \E u \in Tasks : Builds(u)'
  BY DEF vars
<1> QED
  BY <1>1, <1>2, <1>3, <1>4, <1>5, <1>6, <1>7 DEF Next

(* As long as no process has died and no write was lost, a stack that says *)
(* Building is being built, whatever requests overlap.                     *)
THEOREM BuildingIsOngoing == Spec => []BuildingHasWorker
<1>1. Init => BuildingHasWorker
  BY DEF Init, BuildingHasWorker
<1> QED
  BY <1>1, TypeInit, TypeNext, BuildingNext, PTL DEF Spec

-----------------------------------------------------------------------------
(* Nothing brings a deleted stack or machine back.                         *)

LEMMA DeletedStep ==
  TypeOK /\ [Next]_vars =>
    /\ doc = "deleted" => doc' = "deleted"
    /\ machines = "deleted" => machines' = "deleted"
<1> SUFFICES ASSUME TypeOK, [Next]_vars
             PROVE  /\ doc = "deleted" => doc' = "deleted"
                    /\ machines = "deleted" => machines' = "deleted"
  OBVIOUS
<1> USE DEF docs, Return
<1>1. ASSUME NEW t \in Tasks, Continue(t)
      PROVE  /\ doc = "deleted" => doc' = "deleted"
             /\ machines = "deleted" => machines' = "deleted"
  <2>1. CASE UNCHANGED docs
    BY <2>1
  <2>2. CASE Mark(t) \/ Detach(t) \/ Record(t)
    BY <2>2 DEF Mark, Detach, Record, SetStackState
  <2>3. CASE Disown(t)
    BY <2>3 DEF Disown
  <2>4. CASE UpdateResources(t)
    BY <2>4 DEF UpdateResources
  <2>5. CASE DeleteMachines(t) \/ DeleteStack(t)
    BY <2>5 DEF DeleteMachines, DeleteStack
  <2> QED
    BY <1>1, <2>1, <2>2, <2>3, <2>4, <2>5
    DEF Continue, Load, Refuse, BuildMachines, Prepare, Credentials, Send,
        WaitResources, UpdateStack, PushFinal
<1>2. ASSUME NEW t \in Tasks,
             \/ \E what \in Kinds : Request(t, what)
             \/ Disconnect(t) \/ Tick(t) \/ TickerStops(t)
      PROVE  UNCHANGED docs
  BY <1>2 DEF Request, Disconnect, Tick, TickerStops
<1>3. JobEnds => UNCHANGED docs
  BY DEF JobEnds
<1>4. ASSUME NEW k \in Klouds, Crash(k) PROVE UNCHANGED docs
  BY <1>4 DEF Crash
<1>5. UNCHANGED vars => UNCHANGED docs
  BY DEF vars
<1> QED
  BY <1>1, <1>2, <1>3, <1>4, <1>5 DEF Next

(* A deleted stack and its machines stay deleted, whatever requests        *)
(* overlap with the one that deleted them.                                 *)
THEOREM StaysDeleted == Spec => DeletedForGood
<1>1. TypeOK /\ [Next]_vars =>
        [/\ doc = "deleted" => doc' = "deleted"
         /\ machines = "deleted" => machines' = "deleted"]_vars
  BY DeletedStep
<1> QED
  BY <1>1, TypeCorrect, PTL DEF Spec, DeletedForGood
-----------------------------------------------------------------------------
(* Requests that do not overlap.  The state of the stack then tells what   *)
(* the one request does, unless a write was lost.                          *)

DestroyPCs == {"machines", "detach", "disown", "creds", "request", "wait",
               "hung", "purge", "delete"}

Destroys(t) == kind[t] = "destroy" /\ pc[t] \in DestroyPCs

(* The steps of a build and of a destroy are taken by requests of the kind. *)
KindsAgree ==
  \A t \in Tasks :
    /\ pc[t] \in {"prepare", "dial", "update", "save", "record"} => kind[t] = "apply"
    /\ pc[t] \in DestroyPCs \ {"request", "wait", "hung"} => kind[t] = "destroy"
    /\ pc[t] # "idle" => kind[t] \in {"apply", "destroy"}

(* The document is as the request found or marked it.                      *)
DocAgrees ==
  \A t \in Tasks :
    /\ pc[t] = "mark" => doc \in Settled
    /\ Builds(t) => doc = "Building"
    /\ Destroys(t) => doc = "Destroying"

SeqInv == TypeOK /\ KindsAgree /\ DocAgrees

(* A step of the one request keeps SeqInv and follows the lifecycle.       *)
LEMMA SeqContinue ==
  ASSUME SeqInv, NEW t, Tasks = {t}, MaxFaults = 0, Continue(t)
  PROVE  KindsAgree' /\ DocAgrees' /\ [Lifecycle!Next]_doc
<1>0. TypeOK /\ faults = 0 /\ ~WriteFails
  BY StackAssumption DEF SeqInv, TypeOK, WriteFails
<1> USE <1>0
<1> USE DEF SeqInv, KindsAgree, DocAgrees, TypeOK, PCs, Builds, BuildPCs, Destroys, DestroyPCs,
            Goto, Fail, Forget, Return, docs, terra, events, bounds, Failed,
            SetStackState, Settled
<1> USE DEF Lifecycle!Next, Lifecycle!Begin, Lifecycle!Built, Lifecycle!Removed,
            Lifecycle!Settled, Lifecycle!InProgress
<1>1. CASE Load(t)
  BY <1>1 DEF Load
<1>2. CASE Refuse(t)
  BY <1>2 DEF Refuse
<1>3. CASE Mark(t)
  BY <1>3 DEF Mark
<1>4. CASE BuildMachines(t)
  BY <1>4 DEF BuildMachines
<1>5. CASE Detach(t)
  BY <1>5 DEF Detach
<1>6. CASE Disown(t)
  BY <1>6 DEF Disown
<1>7. CASE Prepare(t)
  BY <1>7 DEF Prepare
<1>8. CASE Credentials(t)
  BY <1>8 DEF Credentials
<1>9. CASE Send(t)
  BY <1>9 DEF Send
<1>10. CASE WaitResources(t)
  BY <1>10 DEF WaitResources
<1>11. CASE UpdateResources(t)
  BY <1>11 DEF UpdateResources
<1>12. CASE UpdateStack(t)
  BY <1>12 DEF UpdateStack
<1>13. CASE Record(t)
  BY <1>13 DEF Record
<1>14. CASE DeleteMachines(t)
  BY <1>14 DEF DeleteMachines
<1>15. CASE DeleteStack(t)
  BY <1>15 DEF DeleteStack
<1>16. CASE PushFinal(t)
  BY <1>16 DEF PushFinal
<1> QED
  BY <1>1, <1>2, <1>3, <1>4, <1>5, <1>6, <1>7, <1>8, <1>9, <1>10, <1>11,
     <1>12, <1>13, <1>14, <1>15, <1>16 DEF Continue

(* The other steps leave the document alone; a crash forgets the request.  *)
LEMMA SeqNext ==
  ASSUME SeqInv, NEW t0, Tasks = {t0}, MaxFaults = 0, [Next]_vars
  PROVE  SeqInv' /\ [Lifecycle!Next]_doc
<1>0. TypeOK'
  BY TypeNext DEF SeqInv
<1> USE StackAssumption
<1> USE DEF SeqInv, KindsAgree, DocAgrees, TypeOK, Builds, BuildPCs, Destroys, DestroyPCs,
            Goto, docs, taskVars, terra, events, bounds
<1> DEFINE Good == KindsAgree' /\ DocAgrees' /\ [Lifecycle!Next]_doc
<1>1. ASSUME NEW t \in Tasks, Continue(t) PROVE Good
  <2>1. Tasks = {t}
    OBVIOUS
  <2> QED BY <1>1, <2>1, SeqContinue
<1>2. ASSUME NEW t \in Tasks, NEW what \in Kinds, Request(t, what) PROVE Good
  BY <1>2 DEF Request
<1>3. ASSUME NEW t \in Tasks, Disconnect(t) PROVE Good
  BY <1>3 DEF Disconnect
<1>4. ASSUME NEW t \in Tasks, Tick(t) \/ TickerStops(t) PROVE Good
  BY <1>4 DEF Tick, TickerStops
<1>5. ASSUME JobEnds PROVE Good
  <2>1. UNCHANGED <<doc, kind>>
    BY <1>5 DEF JobEnds
  <2>2. CASE UNCHANGED pc
    BY <2>1, <2>2
  <2>3. CASE pc[t0] = "wait" /\ pc'[t0] \in {Failed(t0), IF kind[t0] = "apply" THEN "dial" ELSE "purge"}
    BY <2>1, <2>3 DEF Failed
  <2>4. CASE job.owner \in Tasks /\ pc[job.owner] = "wait"
    <3>1. job.owner = t0 /\ t0 \in Tasks
      BY <2>4
    <3>2. Answer(t0, TRUE) \/ Answer(t0, FALSE)
      BY <1>5, <3>1 DEF JobEnds
    <3>3. pc'[t0] \in {Failed(t0), IF kind[t0] = "apply" THEN "dial" ELSE "purge"}
      BY <2>4, <3>1, <3>2 DEF Answer
    <3> QED BY <2>3, <2>4, <3>1, <3>3
  <2>5. CASE ~(job.owner \in Tasks /\ pc[job.owner] = "wait")
    BY <1>5, <2>2, <2>5 DEF JobEnds, Answer
  <2> QED
    BY <2>4, <2>5
<1>6. ASSUME NEW k \in Klouds, Crash(k) PROVE Good
  BY <1>6 DEF Crash
<1>7. UNCHANGED vars => Good
  BY DEF vars
<1>8. Good
  BY <1>1, <1>2, <1>3, <1>4, <1>5, <1>6, <1>7 DEF Next
<1> QED BY <1>0, <1>8

(* Requests that never overlap take the stack through the lifecycle of     *)
(* package stackstate, whatever fails and whoever dies, as long as no      *)
(* Mongo write is lost.                                                    *)
THEOREM SequentialLifecycle ==
  ASSUME NEW t0, Tasks = {t0}, MaxFaults = 0
  PROVE  Spec => FollowsLifecycle
<1>1. Init => SeqInv /\ Lifecycle!Init
  BY TypeInit DEF Init, SeqInv, KindsAgree, DocAgrees, Builds, Destroys, BuildPCs,
                  DestroyPCs, Lifecycle!Init, Lifecycle!Settled
<1>2. SeqInv /\ [Next]_vars => SeqInv' /\ [Lifecycle!Next]_doc
  BY SeqNext
<1> QED
  BY <1>1, <1>2, PTL DEF Spec, FollowsLifecycle, Lifecycle!Spec
-----------------------------------------------------------------------------
(* What the one request knows at each step, which makes its success true   *)
(* and its terraform job visible.                                          *)

(* Past its check of the state, the request is the only one that can have  *)
(* a job.                                                                  *)
JobAgrees ==
  \A t \in Tasks :
    /\ pc[t] \notin {"idle", "load", "wait", "hung"} => job = NoJob
    /\ pc[t] = "wait" => job = Job(t)

ResultAgrees ==
  \A t \in Tasks :
    /\ pc[t] \in {"dial", "update"} => resources
    /\ pc[t] \in {"save", "record"} /\ ok[t] => machines = "Running" /\ resources
    /\ pc[t] \in {"purge", "delete"} /\ resources => snap[t] = "NotInitialized"
    /\ pc[t] = "delete" /\ ok[t] => machines = "deleted"

TruthInv == WorkIsGuarded /\ JobAgrees /\ ResultAgrees /\ SuccessIsTrue

LEMMA TruthInit == Init => TruthInv
<1> SUFFICES ASSUME Init PROVE TruthInv
  OBVIOUS
<1>1. job = NoJob /\ \A t \in Tasks : pc[t] = "idle"
  BY DEF Init
<1> QED BY <1>1 DEF TruthInv, WorkIsGuarded, JobAgrees, ResultAgrees, SuccessIsTrue

LEMMA TruthContinue ==
  ASSUME SeqInv, TruthInv, NEW t, Tasks = {t}, MaxFaults = 0, Continue(t)
  PROVE  TruthInv'
<1>0. TypeOK /\ faults = 0 /\ ~WriteFails
  BY StackAssumption DEF SeqInv, TypeOK, WriteFails
<1> USE <1>0
<1> USE DEF SeqInv, TruthInv, WorkIsGuarded, JobAgrees, ResultAgrees, SuccessIsTrue,
            KindsAgree, DocAgrees, TypeOK, PCs, Builds, BuildPCs, Destroys, DestroyPCs,
            Goto, Fail, Forget, Return, docs, terra, events, bounds, Failed,
            SetStackState, Settled, InProgress
<1>1. CASE Load(t)
  BY <1>1 DEF Load
<1>2. CASE Refuse(t)
  BY <1>2 DEF Refuse
<1>3. CASE Mark(t)
  BY <1>3 DEF Mark
<1>4. CASE BuildMachines(t)
  BY <1>4 DEF BuildMachines
<1>5. CASE Detach(t)
  BY <1>5 DEF Detach
<1>6. CASE Disown(t)
  BY <1>6 DEF Disown
<1>7. CASE Prepare(t)
  BY <1>7 DEF Prepare
<1>8. CASE Credentials(t)
  BY <1>8 DEF Credentials
<1>9. CASE Send(t)
  BY <1>9 DEF Send, Job
<1>10. CASE WaitResources(t)
  BY <1>10 DEF WaitResources
<1>11. CASE UpdateResources(t)
  BY <1>11 DEF UpdateResources
<1>12. CASE UpdateStack(t)
  BY <1>12 DEF UpdateStack
<1>13. CASE Record(t)
  BY <1>13 DEF Record
<1>14. CASE DeleteMachines(t)
  BY <1>14 DEF DeleteMachines
<1>15. CASE DeleteStack(t)
  BY <1>15 DEF DeleteStack
<1>16. CASE PushFinal(t)
  BY <1>16 DEF PushFinal
<1> QED
  BY <1>1, <1>2, <1>3, <1>4, <1>5, <1>6, <1>7, <1>8, <1>9, <1>10, <1>11,
     <1>12, <1>13, <1>14, <1>15, <1>16 DEF Continue

(* The end of a job finds its request waiting, or gone.                    *)
LEMMA TruthJobEnds ==
  ASSUME SeqInv, TruthInv, NEW t, Tasks = {t}, JobEnds
  PROVE  TruthInv'
<1>0. /\ t \in Tasks /\ job # NoJob /\ job' = NoJob
      /\ UNCHANGED <<doc, machines, kind, snap>>
      /\ pc \in [Tasks -> PCs] /\ ok \in [Tasks -> BOOLEAN]
  BY DEF JobEnds, docs, SeqInv, TypeOK
<1>1. pc[t] \in {"idle", "load", "wait", "hung"}
  BY <1>0 DEF TruthInv, JobAgrees
<1>2. CASE pc[t] = "wait"
  <2>1. job.owner = t /\ job.kind = kind[t]
    BY <1>0, <1>2 DEF TruthInv, JobAgrees, Job
  <2>2. kind[t] \in {"apply", "destroy"}
    BY <1>0, <1>2 DEF SeqInv, KindsAgree
  <2>3. CASE resources' = (kind[t] = "apply") /\ Answer(t, TRUE)
    <3>1. pc'[t] = (IF kind[t] = "apply" THEN "dial" ELSE "purge") /\ ok'[t] = TRUE
      BY <1>0, <1>2, <2>3 DEF Answer
    <3>2. CASE kind[t] = "apply"
      BY <1>0, <2>3, <3>1, <3>2 DEF TruthInv, WorkIsGuarded, JobAgrees, ResultAgrees, SuccessIsTrue
    <3>3. CASE kind[t] = "destroy"
      BY <1>0, <2>3, <3>1, <3>3 DEF TruthInv, WorkIsGuarded, JobAgrees, ResultAgrees, SuccessIsTrue
    <3> QED BY <2>2, <3>2, <3>3
  <2>4. CASE Answer(t, FALSE)
    <3>1. pc'[t] \in {"record", "push"} /\ ok'[t] = FALSE
      BY <1>0, <1>2, <2>4 DEF Answer, Failed
    <3> QED BY <1>0, <3>1 DEF TruthInv, WorkIsGuarded, JobAgrees, ResultAgrees, SuccessIsTrue
  <2> QED BY <2>1, <2>3, <2>4 DEF JobEnds
<1>3. CASE pc[t] # "wait"
  <2>1. UNCHANGED <<pc, ok>>
    <3>1. ~(job.owner \in Tasks /\ pc[job.owner] = "wait")
      BY <1>3
    <3> QED BY <3>1 DEF JobEnds, Answer
  <2> QED BY <1>0, <1>1, <1>3, <2>1 DEF TruthInv, WorkIsGuarded, JobAgrees, ResultAgrees, SuccessIsTrue
<1> QED BY <1>2, <1>3

LEMMA TruthNext ==
  ASSUME SeqInv, TruthInv, NEW t0, Tasks = {t0}, MaxFaults = 0, [Next]_vars
  PROVE  TruthInv'
<1> USE DEF TruthInv, WorkIsGuarded, JobAgrees, ResultAgrees, SuccessIsTrue
<1>0. TypeOK
  BY DEF SeqInv
<1>1. ASSUME NEW t \in Tasks, Continue(t) PROVE TruthInv'
  <2>1. Tasks = {t}
    OBVIOUS
  <2> QED BY <1>1, <2>1, TruthContinue
<1>2. ASSUME NEW t \in Tasks, NEW what \in Kinds, Request(t, what) PROVE TruthInv'
  BY <1>0, <1>2 DEF Request, Goto, docs, terra, bounds, TypeOK
<1>3. ASSUME NEW t \in Tasks, Disconnect(t) PROVE TruthInv'
  BY <1>0, <1>3 DEF Disconnect, Goto, docs, terra, events, TypeOK
<1>4. ASSUME NEW t \in Tasks, Tick(t) \/ TickerStops(t) PROVE TruthInv'
  BY <1>0, <1>4 DEF Tick, TickerStops, docs, terra, taskVars, bounds, Job
<1>5. ASSUME JobEnds PROVE TruthInv'
  BY <1>5, TruthJobEnds
<1>6. ASSUME NEW k \in Klouds, Crash(k) PROVE TruthInv'
  <2>1. CASE Home[t0] = k
    BY <1>0, <1>6, <2>1 DEF Crash, docs, terra, TypeOK
  <2>2. CASE Home[t0] # k
    BY <1>0, <1>6, <2>2 DEF Crash, docs, terra, TypeOK, Job
  <2> QED BY <2>1, <2>2
<1>7. UNCHANGED vars => TruthInv'
  BY DEF vars, Job
<1> QED BY <1>1, <1>2, <1>3, <1>4, <1>5, <1>6, <1>7 DEF Next

LEMMA SequentialTruth ==
  ASSUME NEW t0, Tasks = {t0}, MaxFaults = 0
  PROVE  Spec => []TruthInv
<1>1. Init => SeqInv
  BY TypeInit DEF Init, SeqInv, KindsAgree, DocAgrees, Builds, Destroys, BuildPCs, DestroyPCs
<1>2. SeqInv /\ TruthInv /\ [Next]_vars => (SeqInv /\ TruthInv)'
  BY SeqNext, TruthNext
<1> QED BY <1>1, <1>2, TruthInit, PTL DEF Spec

(* A request that does not overlap another tells its client of success     *)
(* only when it is true, whatever failed, died or lost its connection, as  *)
(* long as no Mongo write is lost.                                         *)
THEOREM SequentialSuccess ==
  ASSUME NEW t0, Tasks = {t0}, MaxFaults = 0
  PROVE  Spec => []SuccessIsTrue
<1>1. TruthInv => SuccessIsTrue
  BY DEF TruthInv
<1> QED BY <1>1, SequentialTruth, PTL

(* ... and no other is admitted while its terraform job runs, even if it   *)
(* died or lost the connection.                                            *)
THEOREM SequentialGuard ==
  ASSUME NEW t0, Tasks = {t0}, MaxFaults = 0
  PROVE  Spec => []WorkIsGuarded
<1>1. TruthInv => WorkIsGuarded
  BY DEF TruthInv
<1> QED BY <1>1, SequentialTruth, PTL
=============================================================================
