------------------------- MODULE KloudMachineProofs -------------------------
(***************************************************************************)
(* Proofs about KloudMachine, for every set of processes and tasks, every  *)
(* set of methods and every bound.                                         *)
(***************************************************************************)
EXTENDS KloudMachine, TLAPS

(* The tables of machinestate and amazon return states.                    *)
LEMMA TablesType ==
  /\ \A m : FinalState(m) \in States
  /\ \A i : StatusToState(i) \in States
  /\ Observed \in States
  /\ \A s : ValidMethods(s) \subseteq AllMethods
<1>1. \A m : FinalState(m) \in States
  BY DEF FinalState, States
<1>2. \A i : StatusToState(i) \in States
  BY DEF StatusToState, States
<1>3. Observed \in States
  BY <1>2 DEF Observed, States
<1>4. \A s : ValidMethods(s) \subseteq AllMethods
  BY DEF ValidMethods, AllMethods
<1> QED BY <1>1, <1>2, <1>3, <1>4

LEMMA StatesType ==
  {"Unknown", "NotInitialized", "Starting", "Running", "Stopping", "Stopped",
   "Terminated"} \subseteq States
  BY DEF States

LEMMA EventerType ==
  /\ Absent \in Eventers
  /\ \A t \in Core, s \in States, p \in {"empty", "progress", "final"} :
       Eventer(t, p, s) \in Eventers
  BY StatesType DEF Absent, Eventer, Eventers

(* A push keeps the type of the eventers.                                  *)
LEMMA PushType ==
  ASSUME TypeOK, NEW t \in Core, NEW s \in States,
         NEW p \in {"empty", "progress", "final"}, PushEvent(t, p, s)
  PROVE  eventer' \in [Klouds -> [AllMethods -> Eventers]]
  BY EventerType DEF TypeOK, PushEvent

LEMMA TypeInit == Init => TypeOK
<1> SUFFICES ASSUME Init PROVE TypeOK
  OBVIOUS
<1>1. eventer \in [Klouds -> [AllMethods -> Eventers]]
  BY EventerType DEF Init
<1>2. inst \in InstanceStates /\ status \in States /\ locked \in BOOLEAN
  BY StatesType DEF Init, InstanceStates
<1>3. crashes \in 0..MaxCrashes /\ faults \in 0..MaxFaults /\ console \in 0..MaxConsole
  BY BoundsAssumption DEF Init
<1> QED BY <1>1, <1>2, <1>3, StatesType DEF Init, TypeOK, PCs

(* A write that Mongo performs, or refuses, keeps the bounds.              *)
LEMMA WriteType ==
  ASSUME TypeOK
  PROVE  /\ \A s \in States : Write(s) =>
              /\ status' \in States /\ locked' \in BOOLEAN
              /\ crashes' \in 0..MaxCrashes /\ faults' \in 0..MaxFaults
              /\ console' \in 0..MaxConsole
         /\ WriteFails =>
              /\ status' \in States /\ locked' \in BOOLEAN
              /\ crashes' \in 0..MaxCrashes /\ faults' \in 0..MaxFaults
              /\ console' \in 0..MaxConsole
         /\ ReleaseLock =>
              /\ status' \in States /\ locked' \in BOOLEAN
              /\ crashes' \in 0..MaxCrashes /\ faults' \in 0..MaxFaults
              /\ console' \in 0..MaxConsole
<1> USE BoundsAssumption DEF TypeOK
<1>1. \A s \in States : Write(s) =>
        /\ status' \in States /\ locked' \in BOOLEAN
        /\ crashes' \in 0..MaxCrashes /\ faults' \in 0..MaxFaults
        /\ console' \in 0..MaxConsole
  BY DEF Write
<1>2. WriteFails =>
        /\ status' \in States /\ locked' \in BOOLEAN
        /\ crashes' \in 0..MaxCrashes /\ faults' \in 0..MaxFaults
        /\ console' \in 0..MaxConsole
  BY DEF WriteFails
<1> QED BY <1>1, <1>2 DEF ReleaseLock, bounds

(* Steps of a task keep the types.                                         *)
LEMMA TypeContinue ==
  ASSUME TypeOK, NEW t \in Tasks, Continue(t)
  PROVE  TypeOK'
<1> USE TasksAssumption, TablesType, StatesType, EventerType, WriteType
<1> USE DEF TypeOK, PCs, HoldingPCs, RunningPCs, Goto, docVars, bounds
<1>1. CASE Prepare(t)
  <2>1. eventer' \in [Klouds -> [AllMethods -> Eventers]]
    <3> DEFINE row == [m \in AllMethods |-> IF m = op[t]
                                            THEN Eventer(t, "empty", "Unknown")
                                            ELSE Absent]
    <3>1. t \in Core
      BY <1>1 DEF Prepare
    <3>2. row \in [AllMethods -> Eventers]
      BY <3>1
    <3>3. eventer' = [eventer EXCEPT ![Home[t]] = row] \/ eventer' = eventer
      BY <1>1 DEF Prepare
    <3> QED BY <3>2, <3>3
  <2> QED BY <1>1, <2>1 DEF Prepare
<1>2. CASE Admit(t)
  BY <1>2, PushType DEF Admit
<1>3. CASE Refuse(t)
  BY <1>3 DEF Refuse
<1>4. CASE Reject(t)
  BY <1>4 DEF Reject, Forget
<1>5. CASE Unsupported(t)
  BY <1>5 DEF Unsupported, Fail
<1>6. CASE Mark(t)
  BY <1>6 DEF Mark, Fail, After
<1>7. CASE Describe(t)
  BY <1>7 DEF Describe, Fail
<1>8. CASE Launch(t)
  BY <1>8 DEF Launch, Fail, InstanceStates
<1>9. CASE AwaitBoot(t)
  BY <1>9 DEF AwaitBoot, Fail
<1>10. CASE Probe(t)
  BY <1>10 DEF Probe, Fail
<1>11. CASE Halt(t)
  BY <1>11 DEF Halt, Fail, InstanceStates
<1>12. CASE AwaitStop(t)
  <2>1. latest' \in [Tasks -> States]
    BY <1>12 DEF AwaitStop
  <2>2. pc' \in [Tasks -> PCs] /\ ok' \in [Tasks -> BOOLEAN]
    BY <1>12 DEF AwaitStop, Fail
  <2> QED BY <1>12, <2>1, <2>2 DEF AwaitStop
<1>13. CASE Save(t)
  BY <1>13 DEF Save, Fail, After
<1>14. CASE Restore(t)
  BY <1>14 DEF Restore, After
<1>15. CASE PushFinal(t)
  BY <1>15, PushType DEF PushFinal
<1>16. CASE Unlock(t)
  BY <1>16 DEF Unlock, Forget
<1>17. CASE Attach(t)
  <2>1. snap' \in [Tasks -> States]
    BY <1>17 DEF Attach
  <2>2. pc' \in [Tasks -> PCs]
    BY <1>17 DEF Attach
  <2> QED BY <1>17, <2>1, <2>2 DEF Attach
<1>18. CASE CheckUsage(t)
  BY <1>18 DEF CheckUsage, AllMethods
<1>19. CASE Leave(t)
  BY <1>19 DEF Leave, Forget
<1>20. CASE Inspect(t)
  <2>1. latest' \in [Tasks -> States]
    BY <1>20 DEF Inspect
  <2>2. pc' \in [Tasks -> PCs]
    BY <1>20 DEF Inspect, Corrects
  <2> QED BY <1>20, <2>1, <2>2 DEF Inspect
<1>21. CASE Bury(t)
  BY <1>21 DEF Bury, Corrects
<1>22. CASE Correct(t)
  BY <1>22 DEF Correct
<1> QED
  BY <1>1, <1>2, <1>3, <1>4, <1>5, <1>6, <1>7, <1>8, <1>9, <1>10, <1>11, <1>12, <1>13, <1>14, <1>15, <1>16, <1>17, <1>18, <1>19, <1>20, <1>21, <1>22 DEF Continue, Method

(* Every step keeps the types.                                             *)
LEMMA TypeNext == TypeOK /\ [Next]_vars => TypeOK'
<1> SUFFICES ASSUME TypeOK, [Next]_vars PROVE TypeOK'
  OBVIOUS
<1> USE TasksAssumption, MethodsAssumption, BoundsAssumption, StatesType,
        EventerType
<1> USE DEF Goto, docVars, bounds, PCs, HoldingPCs, RunningPCs
<1>1. ASSUME NEW t \in Tasks, Continue(t) PROVE TypeOK'
  BY <1>1, TypeContinue
<1>2. ASSUME NEW t \in Tasks, NEW m \in Methods, Lock(t, m) PROVE TypeOK'
  BY <1>2 DEF TypeOK, Lock, Tasks
<1>3. ASSUME NEW t \in Tasks, Pick(t) PROVE TypeOK'
  BY <1>3 DEF TypeOK, Pick, Tasks
<1>4. ASSUME NEW t \in Tasks, InfoFetch(t) PROVE TypeOK'
  BY <1>4 DEF TypeOK, InfoFetch, Tasks
<1>5. ASSUME NEW k \in Klouds, Crash(k) PROVE TypeOK'
  <2>1. eventer' \in [Klouds -> [AllMethods -> Eventers]]
    BY <1>5 DEF TypeOK, Crash
  <2>2. crashes' \in 0..MaxCrashes
    BY <1>5 DEF TypeOK, Crash
  <2> QED BY <1>5, <2>1, <2>2 DEF TypeOK, Crash
<1>6. InstanceSettles => TypeOK'
  BY DEF TypeOK, InstanceSettles, InstanceStates, taskVars
<1>7. InstanceForgotten => TypeOK'
  BY DEF TypeOK, InstanceForgotten, InstanceStates, taskVars
<1>8. Console => TypeOK'
  BY DEF TypeOK, Console, taskVars
<1>9. UNCHANGED vars => TypeOK'
  BY DEF TypeOK, vars
<1> QED
  BY <1>1, <1>2, <1>3, <1>4, <1>5, <1>6, <1>7, <1>8, <1>9 DEF Next, Begin

(* Every variable of kloud, of its tasks and of the document keeps its     *)
(* type in every behaviour.                                                *)
THEOREM TypeCorrect == Spec => []TypeOK
  BY TypeInit, TypeNext, PTL DEF Spec

-----------------------------------------------------------------------------
(* The inductive invariant.  LockExclusive needs nothing but the types; the *)
(* eventers need to know whom they belong to.                               *)

InfoPCs == {"idle", "inspect", "bury", "correct", "leave"}

(* Info never runs a method, and a task that holds the lock has one.       *)
TaskPlaces ==
  /\ \A t \in Infos : pc[t] \in InfoPCs
  /\ \A t \in Core : Holds(t) => op[t] \in AllMethods

(* NoDanglingEvent, with the process the owner of the event belongs to.    *)
ProgressOwned ==
  \A k \in Klouds, m \in AllMethods :
    eventer[k][m].phase = "progress" =>
      LET t == eventer[k][m].owner
      IN  t \in Core /\ Home[t] = k /\ pc[t] \in RunningPCs /\ op[t] = m

IInv == TypeOK /\ LockExclusive /\ TaskPlaces /\ EventerOwned /\ ProgressOwned

(* What a step of a task does to the lock, the status and the eventers.    *)
LEMMA StepEffect ==
  ASSUME TypeOK, NEW t \in Tasks, Continue(t)
  PROVE  /\ \A u \in Tasks : u # t => pc'[u] = pc[u] /\ op'[u] = op[u]
         /\ t \in Core /\ pc'[t] \in HoldingPCs =>
              pc[t] \in HoldingPCs /\ op'[t] = op[t]
         /\ locked' # locked => Holds(t) /\ pc'[t] \notin HoldingPCs
         /\ t \in Infos /\ pc[t] \in InfoPCs => pc'[t] \in InfoPCs
         /\ status' # status =>
              /\ pc'[t] # pc[t]
              /\ t \in Core => Holds(t)
              /\ t \in Infos /\ pc[t] \in InfoPCs =>
                   status' = "Terminated" \/ ~locked
         /\ \/ Prepare(t)
            \/ Admit(t)
            \/ PushFinal(t)
            \/ /\ eventer' = eventer
               /\ pc[t] \in RunningPCs /\ t \in Core => pc'[t] \in RunningPCs
               /\ pc'[t] \in RunningPCs \cup {"fetch", "unlock"} /\ t \in Core =>
                    pc[t] \in RunningPCs \cup {"fetch", "unlock"}
<1> USE TasksAssumption
<1> USE DEF TypeOK, HoldingPCs, RunningPCs, InfoPCs, Holds, Goto, docVars, bounds
<1>1. CASE Prepare(t)
  BY <1>1 DEF Prepare
<1>2. CASE Admit(t)
  BY <1>2 DEF Admit
<1>3. CASE Refuse(t)
  BY <1>3 DEF Refuse
<1>4. CASE Reject(t)
  BY <1>4 DEF Reject, ReleaseLock, WriteFails, Forget
<1>5. CASE Unsupported(t)
  BY <1>5 DEF Unsupported, Fail
<1>6. CASE Mark(t)
  BY <1>6 DEF Mark, Write, WriteFails, Fail, After
<1>7. CASE Describe(t)
  BY <1>7 DEF Describe, Fail
<1>8. CASE Launch(t)
  BY <1>8 DEF Launch, Fail
<1>9. CASE AwaitBoot(t)
  BY <1>9 DEF AwaitBoot, Fail
<1>10. CASE Probe(t)
  BY <1>10 DEF Probe, Fail
<1>11. CASE Halt(t)
  BY <1>11 DEF Halt, Fail
<1>12. CASE AwaitStop(t)
  BY <1>12 DEF AwaitStop, Fail
<1>13. CASE Save(t)
  BY <1>13 DEF Save, Fail, Write, WriteFails, After
<1>14. CASE Restore(t)
  BY <1>14 DEF Restore, Write, WriteFails, After
<1>15. CASE PushFinal(t)
  BY <1>15 DEF PushFinal
<1>16. CASE Unlock(t)
  BY <1>16 DEF Unlock, ReleaseLock, WriteFails, Forget
<1>17. CASE Attach(t)
  BY <1>17 DEF Attach
<1>18. CASE CheckUsage(t)
  BY <1>18 DEF CheckUsage
<1>19. CASE Leave(t)
  BY <1>19 DEF Leave, Forget
<1>20. CASE Inspect(t)
  BY <1>20 DEF Inspect, Corrects
<1>21. CASE Bury(t)
  BY <1>21 DEF Bury, Corrects, Write, WriteFails
<1>22. CASE Correct(t)
  BY <1>22 DEF Correct, Write, WriteFails
<1> QED
  BY <1>1, <1>2, <1>3, <1>4, <1>5, <1>6, <1>7, <1>8, <1>9, <1>10, <1>11, <1>12, <1>13, <1>14, <1>15, <1>16, <1>17, <1>18, <1>19, <1>20, <1>21, <1>22 DEF Continue, Method

LEMMA InvInit == Init => IInv
<1> SUFFICES ASSUME Init PROVE IInv
  OBVIOUS
<1> USE TasksAssumption DEF Init, HoldingPCs, RunningPCs
<1>1. TypeOK
  BY TypeInit
<1>2. LockExclusive /\ TaskPlaces
  BY DEF LockExclusive, TaskPlaces, InfoPCs, Holds, Tasks
<1>3. EventerOwned
  BY DEF EventerOwned, Tasks
<1>4. ProgressOwned
  BY DEF ProgressOwned, Absent
<1> QED BY <1>1, <1>2, <1>3, <1>4 DEF IInv

(* Of the steps of a task, only Prepare, Admit and PushFinal touch the     *)
(* eventers, and the lock makes sure that nobody else is using them.       *)
LEMMA InvContinue ==
  ASSUME IInv, NEW t \in Tasks, Continue(t)
  PROVE  IInv'
<1> USE TasksAssumption
<1>0. TypeOK /\ TypeOK'
  BY TypeContinue DEF IInv
<1>1. /\ \A u \in Tasks : u # t => pc'[u] = pc[u] /\ op'[u] = op[u]
      /\ t \in Core /\ pc'[t] \in HoldingPCs =>
           pc[t] \in HoldingPCs /\ op'[t] = op[t]
      /\ locked' # locked => Holds(t) /\ pc'[t] \notin HoldingPCs
      /\ t \in Infos /\ pc[t] \in InfoPCs => pc'[t] \in InfoPCs
      /\ \/ Prepare(t)
         \/ Admit(t)
         \/ PushFinal(t)
         \/ /\ eventer' = eventer
            /\ pc[t] \in RunningPCs /\ t \in Core => pc'[t] \in RunningPCs
            /\ pc'[t] \in RunningPCs \cup {"fetch", "unlock"} /\ t \in Core =>
                 pc[t] \in RunningPCs \cup {"fetch", "unlock"}
  BY <1>0, StepEffect
<1>2. \A u \in Core : Holds(u)' => Holds(u) /\ op'[u] = op[u]
  BY <1>1 DEF Holds, Tasks
<1>3. LockExclusive'
  BY <1>1, <1>2 DEF IInv, LockExclusive, Holds, Tasks
<1>4. TaskPlaces'
  BY <1>1, <1>2 DEF IInv, TaskPlaces, Tasks
<1>5. \A u \in Core : u # t /\ Holds(t) => ~Holds(u)
  BY DEF IInv, LockExclusive, Holds
<1>6. EventerOwned' /\ ProgressOwned'
  <2>1. CASE Prepare(t)
    <3>1. t \in Core /\ Holds(t) /\ pc'[t] \in {"fetch", "reject"}
      BY <2>1, <1>0 DEF Prepare, Holds, HoldingPCs, Goto, TypeOK
    <3>2. \A u \in Core : ~Holds(u)' \/ u = t
      BY <3>1, <1>2, <1>5
    <3>3. EventerOwned'
      BY <2>1, <3>1, <3>2, <1>0
      DEF Prepare, EventerOwned, Holds, HoldingPCs, RunningPCs, TypeOK, Eventer,
          Goto, IInv, TaskPlaces, Tasks
    <3>4. \A k \in Klouds, m \in AllMethods : eventer[k][m].phase # "progress"
      BY <2>1, <3>1, <1>5
      DEF IInv, ProgressOwned, Prepare, Goto, Holds, HoldingPCs, RunningPCs
    <3>5. \A k \in Klouds, m \in AllMethods : eventer'[k][m].phase # "progress"
      <4> DEFINE row == [m \in AllMethods |->
                          IF m = op[t] THEN Eventer(t, "empty", "Unknown")
                                       ELSE Absent]
      <4>1. \A m \in AllMethods : row[m].phase # "progress"
        BY DEF Eventer, Absent
      <4>2. eventer' = [eventer EXCEPT ![Home[t]] = row] \/ eventer' = eventer
        BY <2>1 DEF Prepare
      <4> HIDE DEF row
      <4> QED BY <4>1, <4>2, <3>4, <1>0 DEF TypeOK
    <3> QED BY <3>3, <3>5 DEF ProgressOwned
  <2>2. CASE Admit(t)
    <3>1. /\ t \in Core /\ Holds(t) /\ op[t] \in AllMethods /\ op'[t] = op[t]
          /\ pc'[t] = "run" /\ eventer[Home[t]][op[t]].owner = t
      BY <2>2, <1>0
      DEF Admit, Holds, HoldingPCs, Goto, TypeOK, IInv, TaskPlaces, EventerOwned
    <3>2. eventer' = [eventer EXCEPT ![Home[t]][op[t]] =
                                       Eventer(t, "progress", "Unknown")]
      BY <2>2, <3>1 DEF Admit, PushEvent
    <3>3. Home[t] \in Klouds
      BY DEF Tasks
    <3>4. \A k \in Klouds, m \in AllMethods :
            IF k = Home[t] /\ m = op[t]
            THEN eventer'[k][m] = Eventer(t, "progress", "Unknown")
            ELSE eventer'[k][m] = eventer[k][m]
      BY <3>1, <3>2, <3>3, <1>0 DEF TypeOK
    <3>5. \A u \in Core : ~Holds(u)' \/ u = t
      BY <3>1, <1>2, <1>5
    <3>6. EventerOwned'
      BY <3>1, <3>3, <3>4, <3>5
      DEF EventerOwned, Eventer, Holds, HoldingPCs, RunningPCs
    <3>7. \A k \in Klouds, m \in AllMethods : eventer[k][m].phase # "progress"
      BY <2>2, <3>1, <1>5
      DEF IInv, ProgressOwned, Admit, Goto, Holds, HoldingPCs, RunningPCs
    <3>8. ProgressOwned'
      BY <3>1, <3>4, <3>7 DEF ProgressOwned, Eventer, RunningPCs
    <3> QED BY <3>6, <3>8
  <2>3. CASE PushFinal(t)
    <3>1. /\ t \in Core /\ Holds(t) /\ op[t] \in AllMethods /\ op'[t] = op[t]
          /\ pc'[t] = "unlock" /\ eventer[Home[t]][op[t]].owner = t
      BY <2>3, <1>0
      DEF PushFinal, Holds, HoldingPCs, RunningPCs, Goto, TypeOK, IInv,
          TaskPlaces, EventerOwned
    <3>2. PICK s : eventer' = [eventer EXCEPT ![Home[t]][op[t]] =
                                               Eventer(t, "final", s)]
      BY <2>3, <3>1 DEF PushFinal, PushEvent
    <3>3. Home[t] \in Klouds
      BY DEF Tasks
    <3>4. \A k \in Klouds, m \in AllMethods :
            IF k = Home[t] /\ m = op[t]
            THEN eventer'[k][m] = Eventer(t, "final", s)
            ELSE eventer'[k][m] = eventer[k][m]
      BY <3>1, <3>2, <3>3, <1>0 DEF TypeOK
    <3>5. \A u \in Core : ~Holds(u)' \/ u = t
      BY <3>1, <1>2, <1>5
    <3>6. EventerOwned'
      BY <3>1, <3>3, <3>4, <3>5
      DEF EventerOwned, Eventer, Holds, HoldingPCs, RunningPCs
    <3>7. \A k \in Klouds, m \in AllMethods :
            eventer[k][m].phase = "progress" => k = Home[t] /\ m = op[t]
      BY <3>1, <1>5 DEF IInv, ProgressOwned, Holds, HoldingPCs
    <3>8. ProgressOwned'
      BY <3>4, <3>7 DEF ProgressOwned, Eventer
    <3> QED BY <3>6, <3>8
  <2>4. CASE /\ eventer' = eventer
             /\ pc[t] \in RunningPCs /\ t \in Core => pc'[t] \in RunningPCs
             /\ pc'[t] \in RunningPCs \cup {"fetch", "unlock"} /\ t \in Core =>
                  pc[t] \in RunningPCs \cup {"fetch", "unlock"}
    <3>1. EventerOwned'
      BY <2>4, <1>1, <1>2 DEF IInv, EventerOwned, Holds, HoldingPCs, Tasks
    <3>2. ProgressOwned'
      BY <2>4, <1>1, <1>2 DEF IInv, ProgressOwned, Holds, HoldingPCs, Tasks
    <3> QED BY <3>1, <3>2
  <2> QED BY <1>1, <2>1, <2>2, <2>3, <2>4
<1> QED BY <1>0, <1>3, <1>4, <1>6 DEF IInv

LEMMA InvNext == IInv /\ [Next]_vars => IInv'
<1> SUFFICES ASSUME IInv, [Next]_vars PROVE IInv'
  OBVIOUS
<1> USE TasksAssumption, MethodsAssumption
<1>0. TypeOK /\ TypeOK'
  BY TypeNext DEF IInv
<1>1. ASSUME NEW t \in Tasks, Continue(t) PROVE IInv'
  BY <1>1, InvContinue
<1>2. ASSUME NEW t \in Tasks, NEW m \in Methods, Lock(t, m) PROVE IInv'
  <2> USE <1>2, <1>0 DEF Lock, Goto, TypeOK, IInv
  <2>1. \A u \in Core : ~Holds(u)
    BY DEF LockExclusive
  <2>2. \A u \in Tasks : u # t => pc'[u] = pc[u] /\ op'[u] = op[u]
    OBVIOUS
  <2>3. LockExclusive' /\ TaskPlaces'
    BY <2>1, <2>2 DEF LockExclusive, TaskPlaces, Holds, Tasks
  <2>4. EventerOwned'
    BY <2>1, <2>2 DEF EventerOwned, Holds, HoldingPCs, RunningPCs, Tasks
  <2>5. ProgressOwned'
    BY <2>1 DEF ProgressOwned, Holds, HoldingPCs
  <2> QED BY <2>3, <2>4, <2>5
<1>3. ASSUME NEW t \in Tasks, Pick(t) PROVE IInv'
  <2> USE <1>3, <1>0 DEF Pick, Goto, TypeOK, IInv, docVars
  <2>1. \A u \in Tasks : u # t => pc'[u] = pc[u] /\ op'[u] = op[u]
    OBVIOUS
  <2> QED
    BY <2>1 DEF LockExclusive, TaskPlaces, EventerOwned, ProgressOwned, Holds, Tasks
<1>4. ASSUME NEW t \in Tasks, InfoFetch(t) PROVE IInv'
  <2> USE <1>4, <1>0 DEF InfoFetch, Goto, TypeOK, IInv, docVars
  <2>1. \A u \in Tasks : u # t => pc'[u] = pc[u] /\ op'[u] = op[u]
    OBVIOUS
  <2> QED
    BY <2>1 DEF LockExclusive, TaskPlaces, EventerOwned, ProgressOwned, Holds, Tasks, InfoPCs
<1>5. ASSUME NEW k \in Klouds, Crash(k) PROVE IInv'
  <2> USE <1>5, <1>0 DEF Crash, TypeOK, IInv, docVars
  <2>1. \A u \in Tasks : IF Home[u] = k THEN pc'[u] = "idle"
                         ELSE pc'[u] = pc[u] /\ op'[u] = op[u]
    OBVIOUS
  <2>2. LockExclusive' /\ TaskPlaces'
    BY <2>1 DEF LockExclusive, TaskPlaces, Holds, Tasks, InfoPCs, HoldingPCs, RunningPCs
  <2>3. EventerOwned'
    BY <2>1 DEF EventerOwned, RunningPCs, Tasks
  <2>4. \A j \in Klouds, m \in AllMethods :
          eventer'[j][m] = IF j = k THEN Absent ELSE eventer[j][m]
    OBVIOUS
  <2>5. ProgressOwned'
    BY <2>1, <2>4 DEF ProgressOwned, Absent, RunningPCs, Tasks
  <2> QED BY <2>2, <2>3, <2>5
<1>6. UNCHANGED <<docVars, taskVars, eventer>> => IInv'
  BY <1>0 DEF IInv, LockExclusive, TaskPlaces, EventerOwned, ProgressOwned, Holds,
              docVars, taskVars
<1> QED
  BY <1>1, <1>2, <1>3, <1>4, <1>5, <1>6
  DEF Next, Begin, InstanceSettles, InstanceForgotten, Console, vars, docVars,
      taskVars

(* The lock of a machine is never held by two core methods, through every  *)
(* crash and every lost write.                                             *)
THEOREM LockIsExclusive == Spec => []LockExclusive
<1>1. IInv => LockExclusive
  BY DEF IInv
<1> QED BY <1>1, InvInit, InvNext, PTL DEF Spec

(* The eventer a running method pushes to is the one clients poll.         *)
THEOREM EventerIsOwned == Spec => []EventerOwned
<1>1. IInv => EventerOwned
  BY DEF IInv
<1> QED BY <1>1, InvInit, InvNext, PTL DEF Spec

(* No client polls an event in progress whose method is gone.              *)
THEOREM NoEventDangles == Spec => []NoDanglingEvent
<1>1. IInv => NoDanglingEvent
  BY DEF IInv, ProgressOwned, NoDanglingEvent
<1> QED BY <1>1, InvInit, InvNext, PTL DEF Spec

(* Nobody writes the status of a machine that a core method holds but that *)
(* method, a queue checker and Info marking it terminated.                 *)
THEOREM StrayWrites == Spec => StrayWritesAreKnown
<1> DEFINE Known ==
      \A t \in Core :
        Holds(t) /\ status' # status /\ pc'[t] = pc[t] =>
          status' = "Terminated" \/ \E q \in Queues : pc'[q] # pc[q]
<1>1. IInv /\ [Next]_vars => Known
  <2> SUFFICES ASSUME IInv, [Next]_vars, NEW c \in Core, Holds(c),
                      status' # status, pc'[c] = pc[c]
               PROVE  status' = "Terminated" \/ \E q \in Queues : pc'[q] # pc[q]
    OBVIOUS
  <2>1. PICK t \in Tasks : Continue(t)
    BY DEF Next, Begin, Lock, Pick, InfoFetch, Crash, InstanceSettles,
           InstanceForgotten, Console, vars, docVars
  <2>2. /\ pc'[t] # pc[t]
        /\ t \in Core => Holds(t)
        /\ t \in Infos /\ pc[t] \in InfoPCs => status' = "Terminated" \/ ~locked
    BY <2>1, StepEffect DEF IInv
  <2>3. CASE t \in Core
    BY <2>2, <2>3 DEF IInv, LockExclusive
  <2>4. CASE t \in Infos
    BY <2>2, <2>4 DEF IInv, LockExclusive, TaskPlaces
  <2>5. CASE t \in Queues
    BY <2>2, <2>5
  <2> QED BY <2>3, <2>4, <2>5 DEF Tasks
<1>2. IInv /\ [Next]_vars => [Known]_vars
  BY <1>1
<1> QED BY <1>2, InvInit, InvNext, PTL DEF Spec, StrayWritesAreKnown

-----------------------------------------------------------------------------
(* kloud implements MachineLock.                                           *)

(* The holder of the lock, read off the state.                             *)
HolderFacts ==
  /\ \A t \in Core : Holds(t) => LockHolder = t /\ locked
  /\ (\A t \in Core : ~Holds(t)) /\ locked => LockHolder = "orphan"
  /\ (\A t \in Core : ~Holds(t)) /\ ~locked => LockHolder = "nobody"

LEMMA HolderCases == LockExclusive => HolderFacts
<1>1. ASSUME LockExclusive, NEW t \in Core, Holds(t)
      PROVE  LockHolder = t /\ locked
  <2>1. \A u \in Core : Holds(u) <=> u = t
    BY <1>1 DEF LockExclusive
  <2>2. (CHOOSE u \in Core : Holds(u)) = t
    BY <2>1
  <2> QED BY <1>1, <2>2 DEF LockHolder, LockExclusive
<1> QED BY <1>1 DEF LockHolder, HolderFacts

LEMMA HolderPrimed == IInv' => HolderFacts'
<1>1. IInv => HolderFacts
  BY HolderCases DEF IInv
<1> QED BY <1>1, PTL

(* Every step hands the lock over as MachineLock allows, or leaves it.     *)
LEMMA LockStep == IInv /\ IInv' /\ [Next]_vars => [Promise!Next]_LockHolder
<1> SUFFICES ASSUME IInv, IInv', [Next]_vars
             PROVE  Promise!Next \/ LockHolder' = LockHolder
  OBVIOUS
<1> USE TasksAssumption
<1>0. /\ TypeOK
      /\ \A t \in Core : Holds(t) => LockHolder = t /\ locked
      /\ (\A t \in Core : ~Holds(t)) /\ locked => LockHolder = "orphan"
      /\ (\A t \in Core : ~Holds(t)) /\ ~locked => LockHolder = "nobody"
  BY HolderCases DEF IInv, HolderFacts
<1>1. HolderFacts'
  BY HolderPrimed
<1>2. /\ \A t \in Core : Holds(t)' => LockHolder' = t /\ locked'
      /\ (\A t \in Core : ~Holds(t)') /\ locked' => LockHolder' = "orphan"
      /\ (\A t \in Core : ~Holds(t)') /\ ~locked' => LockHolder' = "nobody"
  BY <1>1 DEF HolderFacts
<1>3. ASSUME \A t \in Core : Holds(t)' <=> Holds(t), locked' = locked
      PROVE  LockHolder' = LockHolder
  BY <1>0, <1>2, <1>3
<1>4. ASSUME NEW t \in Tasks, Continue(t)
      PROVE  Promise!Next \/ LockHolder' = LockHolder
  <2>1. /\ \A u \in Core : u # t => (Holds(u)' <=> Holds(u))
        /\ Holds(t)' => Holds(t)
        /\ locked' # locked => Holds(t) /\ ~Holds(t)'
    BY <1>0, <1>4, StepEffect DEF Holds, Tasks
  <2>2. CASE Holds(t) /\ ~Holds(t)'
    <3>1. t \in Core /\ LockHolder = t
      BY <1>0, <2>2 DEF Holds
    <3>2. \A u \in Core : ~Holds(u)'
      BY <2>1, <2>2, <3>1, <1>0
    <3>3. LockHolder' \in {"orphan", "nobody"}
      BY <1>2, <3>2
    <3> QED BY <3>1, <3>3 DEF Promise!Next, Promise!Release, Promise!Abandon
  <2>3. CASE ~(Holds(t) /\ ~Holds(t)')
    BY <2>1, <2>3, <1>3
  <2> QED BY <2>2, <2>3
<1>5. ASSUME NEW t \in Tasks, NEW m \in Methods, Lock(t, m)
      PROVE  Promise!Next \/ LockHolder' = LockHolder
  <2>1. t \in Core /\ LockHolder = "nobody"
    BY <1>5, <1>0 DEF Lock
  <2>2. Holds(t)'
    BY <1>5, <1>0 DEF Lock, Goto, Holds, HoldingPCs, TypeOK
  <2> QED BY <2>1, <2>2, <1>2 DEF Promise!Next, Promise!Acquire
<1>6. ASSUME NEW t \in Tasks, Pick(t) \/ InfoFetch(t)
      PROVE  LockHolder' = LockHolder
  <2>1. \A u \in Core : Holds(u)' <=> Holds(u)
    BY <1>0, <1>6 DEF Pick, InfoFetch, Goto, Holds, TypeOK, Tasks
  <2> QED BY <1>3, <1>6, <2>1 DEF Pick, InfoFetch, docVars
<1>7. ASSUME NEW k \in Klouds, Crash(k)
      PROVE  Promise!Next \/ LockHolder' = LockHolder
  <2>1. /\ locked' = locked
        /\ \A u \in Core : Holds(u)' <=> Holds(u) /\ Home[u] # k
    BY <1>7, <1>0 DEF Crash, Holds, HoldingPCs, RunningPCs, TypeOK, docVars, Tasks
  <2>2. CASE \E t \in Core : Holds(t) /\ Home[t] = k
    <3>1. PICK t \in Core : Holds(t) /\ Home[t] = k
      BY <2>2
    <3>2. LockHolder = t /\ locked'
      BY <3>1, <2>1, <1>0
    <3>3. \A u \in Core : ~Holds(u)'
      BY <3>1, <2>1, <1>0
    <3> QED BY <3>2, <3>3, <1>2 DEF Promise!Next, Promise!Abandon
  <2>3. CASE \A t \in Core : Holds(t) => Home[t] # k
    BY <2>1, <2>3, <1>3
  <2> QED BY <2>2, <2>3
<1>8. ASSUME UNCHANGED <<docVars, taskVars>> PROVE LockHolder' = LockHolder
  BY <1>3, <1>8 DEF docVars, taskVars, Holds
<1> QED
  BY <1>4, <1>5, <1>6, <1>7, <1>8
  DEF Next, Begin, InstanceSettles, InstanceForgotten, Console, vars, docVars,
      taskVars

(* kloud keeps the promise of MachineLock: the lock goes from nobody to    *)
(* one method and back, or is orphaned by a death or a lost write.         *)
THEOREM LockRefinement == Spec => LockPromise
<1>1. Init => Promise!Init
  BY HolderCases, InvInit
  DEF Init, IInv, HolderFacts, Promise!Init, Holds, HoldingPCs, RunningPCs, Tasks
<1> QED
  BY <1>1, InvInit, InvNext, LockStep, PTL DEF Spec, LockPromise, Promise!Spec
-----------------------------------------------------------------------------
(* The final event and the document, without queue checkers and with a     *)
(* Mongo that performs every write.                                        *)

(* What the holder of the lock knows of the document at each step; Info    *)
(* may mark the machine terminated at any of them.                         *)
Still(s) == status = s \/ status = "Terminated"

FinalKnown(t) ==
  /\ pc[t] \notin {"restore", "push", "unlock"} => ok[t]
  /\ pc[t] = "run" => Still(snap[t])
  /\ pc[t] \in {"describe", "launch", "boot", "probe"} => op[t] = "start"
  /\ pc[t] \in {"halt", "drain"} => latest[t] = snap[t]
  /\ pc[t] = "restore" => ~ok[t] /\ (op[t] = "start" \/ latest[t] = snap[t])
  /\ pc[t] = "push" /\ ok[t] => Still(FinalState(op[t]))
  /\ pc[t] = "push" /\ ~ok[t] /\ op[t] # "start" => Still(snap[t])
  /\ pc[t] = "unlock" /\ (ok[t] \/ op[t] # "start") =>
       Still(eventer[Home[t]][op[t]].status)

FinalInv == \A t \in Core : FinalKnown(t)

LEMMA FinalInit == Init => FinalInv
BY DEF Init, FinalInv, FinalKnown, Tasks

(* A step of a task is a step of no other.                                 *)
LEMMA OthersKept ==
  ASSUME TypeOK, NEW t \in Tasks, Continue(t), NEW u \in Tasks, u # t
  PROVE  snap'[u] = snap[u] /\ latest'[u] = latest[u] /\ ok'[u] = ok[u]
<1> USE DEF TypeOK
<1>1. snap' = snap \/ \E s : snap' = [snap EXCEPT ![t] = s]
  BY DEF Continue, Method, Prepare, Admit, Refuse, Reject, Unsupported, Mark, Describe, Launch,
     AwaitBoot, Probe, Halt, AwaitStop, Save, Restore, PushFinal, Unlock, Attach, CheckUsage,
     Leave, Inspect, Bury, Correct, Forget
<1>2. latest' = latest \/ \E s : latest' = [latest EXCEPT ![t] = s]
  BY DEF Continue, Method, Prepare, Admit, Refuse, Reject, Unsupported, Mark, Describe, Launch,
     AwaitBoot, Probe, Halt, AwaitStop, Save, Restore, PushFinal, Unlock, Attach, CheckUsage,
     Leave, Inspect, Bury, Correct, Forget
<1>3. ok' = ok \/ \E s : ok' = [ok EXCEPT ![t] = s]
  BY DEF Continue, Method, Prepare, Admit, Refuse, Reject, Unsupported, Mark, Describe, Launch,
     AwaitBoot, Probe, Halt, AwaitStop, Save, Restore, PushFinal, Unlock, Attach, CheckUsage,
     Leave, Inspect, Bury, Correct, Forget, Fail
<1> QED BY <1>1, <1>2, <1>3

(* The holder's own steps.                                                 *)
LEMMA FinalOwn ==
  ASSUME IInv, MaxFaults = 0, NEW t \in Core, FinalKnown(t), Continue(t)
  PROVE  FinalKnown(t)'
<1>0. /\ TypeOK /\ ~WriteFails /\ t \in Tasks /\ t \notin Infos /\ t \notin Queues
      /\ Home[t] \in Klouds
  BY BoundsAssumption, TasksAssumption DEF IInv, TypeOK, WriteFails, Tasks
<1> USE <1>0
<1> USE DEF TypeOK, FinalKnown, Still, Goto, docVars, bounds, Fail, Write
<1>1. CASE Prepare(t)
  BY <1>1 DEF Prepare
<1>2. CASE Admit(t)
  BY <1>2 DEF Admit
<1>3. CASE Refuse(t)
  BY <1>3 DEF Refuse
<1>4. CASE Reject(t)
  BY <1>4 DEF Reject, Forget
<1>5. CASE Unsupported(t)
  BY <1>5 DEF Unsupported
<1>6. CASE Mark(t)
  BY <1>6 DEF Mark
<1>7. CASE Describe(t)
  BY <1>7 DEF Describe
<1>8. CASE Launch(t)
  BY <1>8 DEF Launch
<1>9. CASE AwaitBoot(t)
  BY <1>9 DEF AwaitBoot
<1>10. CASE Probe(t)
  BY <1>10 DEF Probe
<1>11. CASE Halt(t)
  BY <1>11 DEF Halt
<1>12. CASE AwaitStop(t)
  BY <1>12 DEF AwaitStop
<1>13. CASE Save(t)
  <2>1. /\ status' = FinalState(op[t]) /\ pc[t] = "save" /\ pc'[t] = "push"
        /\ UNCHANGED <<op, snap, latest, ok, eventer>>
    BY <1>13 DEF Save, After
  <2>2. ok[t]
    BY <2>1
  <2> QED BY <2>1, <2>2
<1>14. CASE Restore(t)
  BY <1>14 DEF Restore, After
<1>15. CASE PushFinal(t)
  <2> DEFINE s == IF ok[t] THEN FinalState(op[t]) ELSE snap[t]
  <2>1. /\ pc[t] = "push" /\ pc'[t] = "unlock" /\ PushEvent(t, "final", s)
        /\ UNCHANGED <<status, op, ok>>
    BY <1>15 DEF PushFinal
  <2>2. op[t] \in AllMethods /\ eventer[Home[t]][op[t]].owner = t
    BY <2>1 DEF IInv, TaskPlaces, EventerOwned, Holds, HoldingPCs, RunningPCs
  <2>3. eventer'[Home[t]][op[t]] = Eventer(t, "final", s)
    BY <2>1, <2>2 DEF PushEvent
  <2>4. eventer'[Home[t]][op[t]].status = s
    BY <2>3 DEF Eventer
  <2> QED BY <2>1, <2>4
<1>16. CASE Unlock(t)
  BY <1>16 DEF Unlock, Forget
<1>17. ~Attach(t) /\ ~CheckUsage(t) /\ ~Inspect(t) /\ ~Bury(t) /\ ~Correct(t)
  BY DEF Attach, CheckUsage, Inspect, Bury, Correct
<1>18. CASE Leave(t)
  BY <1>18 DEF Leave, Forget
<1> QED
  BY <1>1, <1>2, <1>3, <1>4, <1>5, <1>6, <1>7, <1>8, <1>9, <1>10, <1>11, <1>12, <1>13, <1>14,
     <1>15, <1>16, <1>17, <1>18 DEF Continue, Method

(* The steps of others, whom the lock keeps from the document and from the *)
(* eventers.                                                               *)
LEMMA FinalOther ==
  ASSUME IInv, Queues = {}, NEW t \in Core, FinalKnown(t), NEW u \in Tasks, u # t, Continue(u)
  PROVE  FinalKnown(t)'
<1>0. TypeOK /\ t \in Tasks
  BY DEF IInv, Tasks
<1>1. /\ pc'[t] = pc[t] /\ op'[t] = op[t] /\ snap'[t] = snap[t] /\ latest'[t] = latest[t]
      /\ ok'[t] = ok[t]
  BY <1>0, StepEffect, OthersKept
<1>2. CASE ~Holds(t)
  BY <1>1, <1>2 DEF FinalKnown, Holds, HoldingPCs, RunningPCs
<1>3. CASE Holds(t)
  <2>1. locked /\ ~Holds(u)
    BY <1>3 DEF IInv, LockExclusive, Holds
  <2>2. status' = status \/ status' = "Terminated"
    <3>1. status' # status => (u \in Core => Holds(u))
                              /\ (u \in Infos /\ pc[u] \in InfoPCs => status' = "Terminated" \/ ~locked)
      BY <1>0, StepEffect
    <3>2. u \in Core \/ (u \in Infos /\ pc[u] \in InfoPCs)
      BY DEF Tasks, IInv, TaskPlaces
    <3> QED BY <2>1, <3>1, <3>2
  <2>3. eventer' = eventer
    <3>1. ~Prepare(u) /\ ~Admit(u) /\ ~PushFinal(u)
      BY <2>1 DEF Prepare, Admit, PushFinal, Goto, Holds, HoldingPCs, RunningPCs
    <3> QED BY <1>0, <3>1, StepEffect
  <2> QED BY <1>1, <2>2, <2>3 DEF FinalKnown, Still
<1> QED BY <1>2, <1>3

LEMMA FinalNext ==
  ASSUME IInv, FinalInv, Queues = {}, MaxFaults = 0, [Next]_vars
  PROVE  FinalInv'
<1> USE TasksAssumption
<1>0. TypeOK
  BY DEF IInv
<1> SUFFICES ASSUME NEW c \in Core PROVE FinalKnown(c)'
  BY DEF FinalInv
<1>k. FinalKnown(c) /\ c \in Tasks
  BY DEF FinalInv, Tasks
<1>1. ASSUME NEW t \in Tasks, Continue(t) PROVE FinalKnown(c)'
  BY <1>1, <1>k, FinalOwn, FinalOther
<1>2. ASSUME NEW t \in Tasks, Begin(t) PROVE FinalKnown(c)'
  <2>1. /\ UNCHANGED <<status, latest, ok, eventer>>
        /\ c = t => pc[c] = "idle" /\ pc'[c] \in {"prepare", "attach", "inspect"}
        /\ c # t => pc'[c] = pc[c] /\ op'[c] = op[c] /\ snap'[c] = snap[c]
    <3>1. CASE \E m \in Methods : Lock(t, m)
      BY <1>0, <1>k, <3>1 DEF Lock, Goto, TypeOK
    <3>2. CASE Pick(t)
      BY <1>0, <1>k, <3>2 DEF Pick, Goto, docVars, TypeOK
    <3>3. CASE InfoFetch(t)
      BY <1>0, <1>k, <3>3 DEF InfoFetch, Goto, docVars, TypeOK
    <3> QED BY <1>2, <3>1, <3>2, <3>3 DEF Begin
  <2> QED BY <1>k, <2>1 DEF FinalKnown, Still
<1>3. ASSUME NEW k \in Klouds, Crash(k) PROVE FinalKnown(c)'
  <2>1. CASE Home[c] = k
    BY <1>k, <1>3, <2>1 DEF Crash, FinalKnown
  <2>2. CASE Home[c] # k
    <3>1. /\ pc'[c] = pc[c] /\ op'[c] = op[c] /\ snap'[c] = snap[c] /\ latest'[c] = latest[c]
          /\ ok'[c] = ok[c] /\ status' = status /\ eventer'[Home[c]] = eventer[Home[c]]
      BY <1>0, <1>k, <1>3, <2>2 DEF Crash, docVars, TypeOK
    <3> QED BY <1>k, <3>1 DEF FinalKnown, Still
  <2> QED BY <2>1, <2>2
<1>4. ASSUME UNCHANGED <<docVars, taskVars, eventer>> PROVE FinalKnown(c)'
  BY <1>k, <1>4 DEF docVars, taskVars, FinalKnown, Still
<1> QED
  BY <1>1, <1>2, <1>3, <1>4
  DEF Next, InstanceSettles, InstanceForgotten, Console, vars, docVars, taskVars

(* Without queue checkers and lost writes, the final event of a method and *)
(* the document agree, whatever fails in EC2, unless the method was a      *)
(* start that failed or Info has marked the machine terminated.            *)
THEOREM FinalEventIsTrue ==
  ASSUME Queues = {}, MaxFaults = 0
  PROVE  Spec => []FinalEventAgreesUnlessStartFailed
<1>1. IInv /\ FinalInv /\ [Next]_vars => (IInv /\ FinalInv)'
  BY InvNext, FinalNext
<1>2. FinalInv => FinalEventAgreesUnlessStartFailed
  BY DEF FinalInv, FinalKnown, Still, FinalEventAgreesUnlessStartFailed
<1> QED BY <1>1, <1>2, InvInit, FinalInit, PTL DEF Spec
=============================================================================
