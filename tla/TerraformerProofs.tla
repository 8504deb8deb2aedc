------------------------- MODULE TerraformerProofs --------------------------
(***************************************************************************)
(* Proofs about Terraformer: for any number of requests, contents and      *)
(* resources and every bound.                                              *)
(***************************************************************************)
EXTENDS Terraformer, FiniteSetTheorems, TLAPS

Locks == ContentExclusive /\ WaitGroupCounts

(* A step of a request that neither locks nor unlocks its content.         *)
LEMMA RegisteredKept ==
  ASSUME TypeOK, Locks, Registered' = Registered, UNCHANGED lockVars
  PROVE  Locks'
  BY DEF Locks, ContentExclusive, WaitGroupCounts, lockVars

LEMMA RegisteredFinite ==
  ASSUME TypeOK
  PROVE  IsFiniteSet(Registered)
  BY TerraformerAssumption, FS_Subset DEF Registered

(* Get registers a request, whose content was free.                        *)
LEMMA LocksGet ==
  ASSUME TypeOK, Locks, NEW t \in Tasks, NEW what \in Kinds, Get(t, what)
  PROVE  Locks'
<1> USE TerraformerAssumption
<1>1. Registered' = Registered \cup {t} /\ t \notin Registered
  BY DEF Get, Admit, Idle, TypeOK, Registered, RegisteredPCs
<1>2. Cardinality(Registered') = Cardinality(Registered) + 1
  BY <1>1, RegisteredFinite, FS_AddElement
<1>3. chans' = chans \cup {Asks[t]} /\ Asks[t] \notin chans /\ wg' = wg + 1
  BY DEF Get, Admit
<1>4. WaitGroupCounts'
  BY <1>2, <1>3 DEF WaitGroupCounts, Locks
<1>5. ContentExclusive'
  BY <1>1, <1>3 DEF ContentExclusive, Locks
<1> QED BY <1>4, <1>5 DEF Locks

(* Close takes it away again, and frees the content.                       *)
LEMMA LocksUnregister ==
  ASSUME TypeOK, Locks, NEW t \in Tasks, Unregister(t)
  PROVE  Locks'
<1> USE TerraformerAssumption
<1>1. Registered' = Registered \ {t} /\ t \in Registered
  BY DEF Unregister, Goto, TypeOK, Registered, RegisteredPCs
<1>2. Cardinality(Registered') = Cardinality(Registered) - 1
  BY <1>1, RegisteredFinite, FS_RemoveElement
<1>3. chans' = chans \ {Asks[t]} /\ wg' = wg - 1
  BY DEF Unregister
<1>4. WaitGroupCounts'
  BY <1>2, <1>3 DEF WaitGroupCounts, Locks
<1>5. ContentExclusive'
  BY <1>1, <1>3 DEF ContentExclusive, Locks
<1> QED BY <1>4, <1>5 DEF Locks

(* A process that ends takes every request and every lock with it.         *)
LEMMA LocksDie ==
  ASSUME TypeOK, Die
  PROVE  Locks'
<1>1. Registered' = {}
  BY DEF Die, Registered, RegisteredPCs
<1> QED
  BY <1>1, FS_EmptySet DEF Die, Locks, ContentExclusive, WaitGroupCounts

LEMMA LocksContinue ==
  ASSUME TypeOK, Locks, NEW t \in Tasks, Continue(t)
  PROVE  Locks'
<1>1. CASE Unregister(t)
  BY <1>1, LocksUnregister
<1>2. CASE ~Unregister(t)
  <2> USE DEF Goto, Fail, TypeOK, Registered, RegisteredPCs
  <2>1. UNCHANGED lockVars
    BY <1>2 DEF Continue, CloneIn, Setup, Start, Create, Delete, Refresh, Changes,
                Save, Finish, CloneOut, Open, Remove, Answer, Reply
  <2>2. CASE CloneIn(t) \/ Setup(t)
    <3>1. Registered' = Registered
      BY <2>2 DEF CloneIn, Setup
    <3> QED BY <2>1, <3>1, RegisteredKept
  <2>3. CASE Start(t)
    <3>1. Registered' = Registered
      BY <2>3 DEF Start
    <3> QED BY <2>1, <3>1, RegisteredKept
  <2>4. CASE Create(t) \/ Delete(t) \/ Refresh(t) \/ Save(t)
    <3>1. pc' = pc
      BY <2>4 DEF Create, Delete, Refresh, Changes, Save
    <3>2. Registered' = Registered
      BY <3>1
    <3> QED BY <2>1, <3>2, RegisteredKept
  <2>5. CASE Finish(t) \/ CloneOut(t)
    <3>1. Registered' = Registered
      BY <2>5 DEF Finish, CloneOut
    <3> QED BY <2>1, <3>1, RegisteredKept
  <2>6. CASE Open(t) \/ Remove(t) \/ Answer(t)
    <3>1. Registered' = Registered
      BY <2>6 DEF Open, Remove, Answer, Reply
    <3> QED BY <2>1, <3>1, RegisteredKept
  <2> QED BY <1>2, <2>2, <2>3, <2>4, <2>5, <2>6 DEF Continue
<1> QED BY <1>1, <1>2

(* A broadcast interrupts the requests that listen, and ends those it      *)
(* interrupts for the second time.                                         *)
LEMMA BroadcastStep ==
  ASSUME TypeOK, NEW from \in {0, 15}, NEW to \in {15, 25}, Broadcast(from, to)
  PROVE  /\ \A t \in Tasks :
              \/ /\ pc'[t] = pc[t] /\ ok'[t] = ok[t] /\ run'[t] = run[t]
                 /\ hit'[t] = hit[t] \/ (hit[t] # 1 /\ hit'[t] = hit[t] + 1)
              \/ /\ pc[t] = "running" /\ pc'[t] = "cloneout" /\ ok'[t] = FALSE
                 /\ hit[t] = 1 /\ hit'[t] = 2
                 /\ run'[t] \in {run[t], "off"}
         /\ pc' \in [Tasks -> PCs] /\ ok' \in [Tasks -> BOOLEAN]
         /\ run' \in [Tasks -> {"off", "on", "made", "saved"}]
         /\ hit' \in [Tasks -> Nat]
<1> DEFINE gone(t) == Listens(t) /\ hit[t] = 1
<1>1. /\ hit' = [t \in Tasks |-> IF Listens(t) THEN hit[t] + 1 ELSE hit[t]]
      /\ pc'  = [t \in Tasks |-> IF gone(t) THEN "cloneout" ELSE pc[t]]
      /\ ok'  = [t \in Tasks |-> IF gone(t) THEN FALSE ELSE ok[t]]
      /\ run' = [t \in Tasks |-> IF gone(t) /\ run[t] = "saved" THEN "off" ELSE run[t]]
  BY DEF Broadcast
<1>2. pc \in [Tasks -> PCs] /\ hit \in [Tasks -> 0..2]
      /\ ok \in [Tasks -> BOOLEAN] /\ run \in [Tasks -> {"off", "on", "made", "saved"}]
  BY DEF TypeOK
<1>3. ASSUME NEW t \in Tasks, ~gone(t)
      PROVE  /\ pc'[t] = pc[t] /\ ok'[t] = ok[t] /\ run'[t] = run[t]
             /\ hit'[t] = hit[t] \/ (hit[t] # 1 /\ hit'[t] = hit[t] + 1)
  <2> HIDE DEF gone
  <2>1. pc'[t] = pc[t]
    BY <1>1, <1>3
  <2>2. ok'[t] = ok[t]
    BY <1>1, <1>3, Zenon
  <2>3. run'[t] = run[t]
    BY <1>1, <1>3
  <2>4. hit'[t] = IF Listens(t) THEN hit[t] + 1 ELSE hit[t]
    BY <1>1
  <2>5. Listens(t) => hit[t] # 1
    BY <1>3 DEF gone
  <2> QED BY <2>1, <2>2, <2>3, <2>4, <2>5
<1>4. ASSUME NEW t \in Tasks, gone(t)
      PROVE  /\ pc[t] = "running" /\ pc'[t] = "cloneout" /\ ok'[t] = FALSE
             /\ hit[t] = 1 /\ hit'[t] = 2
             /\ run'[t] \in {run[t], "off"}
  <2>1. pc[t] = "running" /\ hit[t] = 1
    BY <1>4 DEF Listens
  <2>2. hit'[t] = 2
    BY <1>1, <1>4, <2>1
  <2> HIDE DEF gone
  <2>3. pc'[t] = "cloneout" /\ run'[t] \in {run[t], "off"}
    BY <1>1, <1>4
  <2>4. ok'[t] = FALSE
    BY <1>1, <1>4, Zenon
  <2> QED BY <2>1, <2>2, <2>3, <2>4
<1> HIDE DEF gone
<1>5. pc' \in [Tasks -> PCs]
  BY <1>1, <1>2 DEF PCs
<1>6. hit' \in [Tasks -> Nat]
  BY <1>1, <1>2
<1>7. ok' \in [Tasks -> BOOLEAN]
  BY <1>1, <1>2
<1>8. run' \in [Tasks -> {"off", "on", "made", "saved"}]
  BY <1>1, <1>2
<1> QED BY <1>3, <1>4, <1>5, <1>6, <1>7, <1>8

LEMMA BroadcastHits ==
  ASSUME TypeOK, NEW from \in {0, 15}, NEW to \in {15, 25}, Broadcast(from, to)
  PROVE  \A t \in Tasks : hit'[t] = hit[t] \/ hit'[t] = hit[t] + 1
<1> SUFFICES ASSUME NEW t \in Tasks PROVE hit'[t] = hit[t] \/ hit'[t] = hit[t] + 1
  OBVIOUS
<1>1. hit' = [u \in Tasks |-> IF Listens(u) THEN hit[u] + 1 ELSE hit[u]]
  BY DEF Broadcast
<1> QED BY <1>1

LEMMA LocksStep ==
  ASSUME TypeOK, Locks, [Next]_vars
  PROVE  Locks'
<1>1. ASSUME NEW t \in Tasks, Continue(t) PROVE Locks'
  BY <1>1, LocksContinue
<1>2. ASSUME NEW t \in Tasks, NEW what \in Kinds, Get(t, what) PROVE Locks'
  BY <1>2, LocksGet
<1>3. CASE Timers
  <2>1. UNCHANGED lockVars
    BY <1>3 DEF Timers, Broadcast, Deadline, Stop
  <2>2. CASE Broadcast(0, 15) \/ Broadcast(15, 25)
    <3>1. \A t \in Tasks : pc'[t] = pc[t] \/ (pc[t] = "running" /\ pc'[t] = "cloneout")
      BY <2>2, BroadcastStep
    <3>2. Registered' = Registered
      BY <3>1 DEF Registered, RegisteredPCs
    <3> QED BY <2>1, <3>2, RegisteredKept
  <2>3. CASE Deadline
    <3>1. Registered' = Registered
      BY <2>3 DEF Deadline, Stop, Registered
    <3> QED BY <2>1, <3>1, RegisteredKept
  <2> QED BY <1>3, <2>2, <2>3 DEF Timers
<1>4. CASE Exit \/ SignalKills
  BY <1>4, LocksDie DEF Exit, SignalKills
<1>5. CASE Drained \/ Boot \/ SignalTaken \/ UNCHANGED vars
  <2>1. UNCHANGED lockVars /\ pc' = pc
    BY <1>5 DEF Drained, Stop, Boot, SignalTaken, vars, lockVars
  <2>2. Registered' = Registered
    BY <2>1 DEF Registered
  <2> QED BY <2>1, <2>2, RegisteredKept
<1> QED BY <1>1, <1>2, <1>3, <1>4, <1>5 DEF Next

-----------------------------------------------------------------------------
(* Timers and interrupts: the process only listens while it is up, the     *)
(* timers only run while it closes, and no run is interrupted more often   *)
(* than Shutdown has broadcast.                                            *)
Broadcasts == CASE timer = 0 -> 0 [] timer = 15 -> 1 [] timer = 25 -> 2

Clock ==
  /\ listening => phase = "up"
  /\ phase \in {"up", "down"} => timer = 0
  /\ \A t \in Tasks : hit[t] <= Broadcasts

LEMMA ClockStep ==
  ASSUME TypeOK, Clock, [Next]_vars
  PROVE  Clock'
<1> USE DEF Clock, Broadcasts
<1>1. ASSUME NEW t \in Tasks, Continue(t) PROVE Clock'
  <2>1. UNCHANGED procVars
    BY <1>1 DEF Continue, CloneIn, Setup, Start, Create, Delete, Refresh, Changes,
                Save, Finish, CloneOut, Open, Unregister, Remove, Answer, Reply
  <2>2. hit' = hit \/ hit' = [hit EXCEPT ![t] = 0]
    BY <1>1 DEF Continue, CloneIn, Setup, Start, Create, Delete, Refresh, Changes,
                Save, Finish, CloneOut, Open, Unregister, Remove, Answer, Reply, runVars
  <2> QED BY <2>1, <2>2 DEF procVars, TypeOK
<1>2. ASSUME NEW t \in Tasks, NEW what \in Kinds, Get(t, what) PROVE Clock'
  BY <1>2 DEF Get, Admit, procVars, TypeOK
<1>3. CASE Broadcast(0, 15)
  <2>1. \A t \in Tasks : hit'[t] = hit[t] \/ hit'[t] = hit[t] + 1
    BY <1>3, BroadcastHits
  <2>2. timer = 0 /\ timer' = 15 /\ phase = "closing" /\ UNCHANGED <<phase, listening>>
    BY <1>3 DEF Broadcast
  <2> QED BY <2>1, <2>2 DEF TypeOK
<1>4. CASE Broadcast(15, 25)
  <2>1. \A t \in Tasks : hit'[t] = hit[t] \/ hit'[t] = hit[t] + 1
    BY <1>4, BroadcastHits
  <2>2. timer = 15 /\ timer' = 25 /\ phase = "closing" /\ UNCHANGED <<phase, listening>>
    BY <1>4 DEF Broadcast
  <2> QED BY <2>1, <2>2 DEF TypeOK
<1>5. CASE Deadline \/ Drained
  BY <1>5 DEF Deadline, Drained, Stop, runVars, TypeOK
<1>6. CASE Exit \/ SignalKills
  BY <1>6 DEF Exit, SignalKills, Die
<1>7. CASE Boot
  BY <1>7 DEF Boot, runVars
<1>8. CASE SignalTaken
  BY <1>8 DEF SignalTaken, runVars
<1>9. CASE UNCHANGED vars
  BY <1>9 DEF vars
<1> QED
  BY <1>1, <1>2, <1>3, <1>4, <1>5, <1>6, <1>7, <1>8, <1>9 DEF Next, Timers

-----------------------------------------------------------------------------
(* Types.                                                                  *)

(* What Clone leaves is a directory, complete or not.                      *)
LEMMA CloneType ==
  ASSUME NEW new \in Directories, NEW old \in Directories
  PROVE  Overlay(new, old) \in Directories /\ Partial(new, old) \subseteq Directories
  BY DEF Overlay, Partial, Directories

(* So is a directory in which terraform writes its state.                  *)
LEMMA SavedType ==
  ASSUME TypeOK, NEW t \in Tasks
  PROVE  [local EXCEPT ![Asks[t]].state = {seen[t]}] \in [Contents -> Directories]
<1>1. {seen[t]} \in SUBSET (SUBSET Resources)
  BY DEF TypeOK
<1>2. local \in [Contents -> Directories] /\ Asks[t] \in Contents
  BY TerraformerAssumption DEF TypeOK
<1> QED BY <1>1, <1>2 DEF Directories

(* And one in which the main file is written, or not.                      *)
LEMMA MainType ==
  ASSUME TypeOK, NEW t \in Tasks, NEW b \in BOOLEAN
  PROVE  [local EXCEPT ![Asks[t]].main = b] \in [Contents -> Directories]
<1>1. local \in [Contents -> Directories] /\ Asks[t] \in Contents
  BY TerraformerAssumption DEF TypeOK
<1>2. [local[Asks[t]] EXCEPT !.main = b] \in Directories
  BY <1>1 DEF Directories
<1>3. [local EXCEPT ![Asks[t]].main = b] = [local EXCEPT ![Asks[t]] = [local[Asks[t]] EXCEPT !.main = b]]
  OBVIOUS
<1> QED BY <1>1, <1>2, <1>3

LEMMA TypeContinue ==
  ASSUME TypeOK, wg' \in Nat, NEW t \in Tasks, Continue(t)
  PROVE  TypeOK'
<1> USE TerraformerAssumption
<1> USE DEF TypeOK, PCs, Goto, Fail, procVars, lockVars, stores, runVars
<1>1. CASE CloneIn(t)
  <2>1. local' \in [Contents -> Directories]
    BY <1>1, CloneType DEF CloneIn
  <2>2. faults' \in 0..MaxFaults
    BY <1>1 DEF CloneIn, CopyFails
  <2>3. pc' \in [Tasks -> PCs] /\ ok' \in [Tasks -> BOOLEAN]
    BY <1>1 DEF CloneIn
  <2> QED BY <1>1, <2>1, <2>2, <2>3 DEF CloneIn
<1>2. CASE Setup(t)
  <2> DEFINE written == local[Asks[t]].main \/ kind[t] # "destroy"
  <2>1. \/ local' = [local EXCEPT ![Asks[t]].main = written]
        \/ local' = local
    BY <1>2 DEF Setup
  <2>3. written \in BOOLEAN
    OBVIOUS
  <2> HIDE DEF written
  <2>4. [local EXCEPT ![Asks[t]].main = written] \in [Contents -> Directories]
    BY <2>3, MainType
  <2>5. local' \in [Contents -> Directories]
    BY <2>1, <2>4
  <2>2. faults' \in 0..MaxFaults
    BY <1>2 DEF Setup, CopyFails
  <2> QED BY <1>2, <2>2, <2>5 DEF Setup
<1>3. CASE Start(t)
  <2>1. UNION local[Asks[t]].state \subseteq Resources
    BY DEF Directories
  <2>2. seen' \in [Tasks -> SUBSET Resources]
    BY <1>3, <2>1 DEF Start
  <2>3. pc' \in [Tasks -> PCs] /\ ok' \in [Tasks -> BOOLEAN]
        /\ run' \in [Tasks -> {"off", "on", "made", "saved"}]
    BY <1>3 DEF Start
  <2> QED BY <1>3, <2>2, <2>3 DEF Start
<1>4. CASE Create(t)
  <2>1. Known(t) \subseteq Resources /\ made[Asks[t]] \subseteq Resources
    BY DEF Known
  <2>2. ASSUME NEW m \in SUBSET Resources, NEW s \in SUBSET Resources, Changes(t, m, s)
        PROVE  /\ made' \in [Contents -> SUBSET Resources]
               /\ seen' \in [Tasks -> SUBSET Resources]
               /\ run' \in [Tasks -> {"off", "on", "made", "saved"}]
               /\ UNCHANGED <<procVars, lockVars, stores, pc, kind, hit, faults>>
    BY <2>2 DEF Changes
  <2>3. \E m, s \in SUBSET Resources : Changes(t, m, s)
    <3>1. CASE Changes(t, made[Asks[t]], Known(t))
      BY <3>1, <2>1
    <3>2. ASSUME NEW r \in Resources, Changes(t, made[Asks[t]] \cup {r}, {r})
          PROVE  \E m, s \in SUBSET Resources : Changes(t, m, s)
      <4>1. made[Asks[t]] \cup {r} \in SUBSET Resources /\ {r} \in SUBSET Resources
        BY <2>1
      <4> QED BY <3>2, <4>1
    <3> QED BY <1>4, <3>1, <3>2 DEF Create
  <2>4. ok' \in [Tasks -> BOOLEAN]
    BY <1>4 DEF Create
  <2>5. PICK m \in SUBSET Resources, s \in SUBSET Resources : Changes(t, m, s)
    BY <2>3
  <2>6. /\ made' \in [Contents -> SUBSET Resources]
        /\ seen' \in [Tasks -> SUBSET Resources]
        /\ run' \in [Tasks -> {"off", "on", "made", "saved"}]
        /\ UNCHANGED <<procVars, lockVars, stores, pc, kind, hit, faults>>
    BY <2>2, <2>5
  <2> QED BY <2>4, <2>6
<1>5. CASE Delete(t)
  BY <1>5 DEF Delete, Changes
<1>6. CASE Refresh(t)
  <2>1. Known(t) \subseteq Resources
    BY DEF Known
  <2> QED BY <1>6, <2>1 DEF Refresh, Changes
<1>7. CASE Save(t)
  <2>1. local' \in [Contents -> Directories]
    BY <1>7, SavedType DEF Save
  <2> QED BY <1>7, <2>1 DEF Save
<1>8. CASE Finish(t)
  <2>1. local' \in [Contents -> Directories]
    BY <1>8, SavedType DEF Finish
  <2> QED BY <1>8, <2>1 DEF Finish
<1>9. CASE CloneOut(t)
  <2>1. remote' \in [Contents -> Directories]
    BY <1>9, CloneType DEF CloneOut
  <2>2. faults' \in 0..MaxFaults
    BY <1>9 DEF CloneOut, CopyFails
  <2>3. pc' \in [Tasks -> PCs] /\ ok' \in [Tasks -> BOOLEAN]
    BY <1>9 DEF CloneOut
  <2> QED BY <1>9, <2>1, <2>2, <2>3 DEF CloneOut
<1>10. CASE Open(t)
  BY <1>10 DEF Open
<1>11. CASE Unregister(t)
  BY <1>11 DEF Unregister
<1>12. CASE Remove(t)
  <2>1. local' \in [Contents -> Directories]
    BY <1>12 DEF Remove, Empty, Directories
  <2> QED BY <1>12, <2>1 DEF Remove
<1>13. CASE Answer(t)
  BY <1>13 DEF Answer, Reply
<1> QED
  BY <1>1, <1>2, <1>3, <1>4, <1>5, <1>6, <1>7, <1>8, <1>9, <1>10, <1>11, <1>12,
     <1>13 DEF Continue

LEMMA TypeStep ==
  ASSUME TypeOK, Clock, Locks', Clock', [Next]_vars
  PROVE  TypeOK'
<1> USE TerraformerAssumption
<1> USE DEF TypeOK, PCs, procVars, lockVars, stores, runVars
<1>1. wg' \in Nat
  <2>1. IsFiniteSet(Registered')
    BY FS_Subset DEF Registered
  <2> QED BY <2>1, FS_CardinalityType DEF Locks, WaitGroupCounts
<1>2. ASSUME NEW t \in Tasks, Continue(t) PROVE TypeOK'
  BY <1>1, <1>2, TypeContinue
<1>3. ASSUME NEW t \in Tasks, NEW what \in Kinds, Get(t, what) PROVE TypeOK'
  BY <1>1, <1>3 DEF Get, Admit
<1>4. ASSUME NEW from \in {0, 15}, NEW to \in {15, 25}, Broadcast(from, to) PROVE TypeOK'
  <2>1. /\ pc' \in [Tasks -> PCs] /\ ok' \in [Tasks -> BOOLEAN]
        /\ run' \in [Tasks -> {"off", "on", "made", "saved"}]
        /\ hit' \in [Tasks -> Nat]
    BY <1>4, BroadcastStep
  <2>2. hit' \in [Tasks -> 0..2]
    BY <1>4, <2>1 DEF Clock, Broadcasts, Broadcast
  <2> QED BY <1>4, <2>1, <2>2 DEF Broadcast
<1>5. CASE Deadline \/ Drained
  BY <1>5 DEF Deadline, Drained, Stop
<1>6. CASE Exit \/ SignalKills
  <2>1. signals' \in 0..MaxSignals
    BY <1>6 DEF Exit, SignalKills
  <2>2. Die
    BY <1>6 DEF Exit, SignalKills
  <2>3. seen' \in [Tasks -> SUBSET Resources] /\ hit' \in [Tasks -> 0..2]
    BY <2>2 DEF Die
  <2>4. pc' \in [Tasks -> PCs] /\ kind' \in [Tasks -> {"plan", "apply", "destroy"}]
        /\ run' \in [Tasks -> {"off", "on", "made", "saved"}]
    BY <2>2 DEF Die
  <2>5. ok' \in [Tasks -> BOOLEAN]
    BY <2>2 DEF Die
  <2> QED BY <1>1, <2>1, <2>2, <2>3, <2>4, <2>5 DEF Die
<1>7. CASE Boot
  BY <1>7 DEF Boot
<1>8. CASE SignalTaken
  <2>1. signals' \in 0..MaxSignals
    BY <1>8 DEF SignalTaken
  <2>2. phase' \in {"up", "closing", "stopping", "down"}
    BY <1>8 DEF SignalTaken
  <2> QED BY <1>8, <2>1, <2>2 DEF SignalTaken
<1>9. CASE UNCHANGED vars
  BY <1>9 DEF vars
<1> QED
  BY <1>2, <1>3, <1>4, <1>5, <1>6, <1>7, <1>8, <1>9 DEF Next, Timers

-----------------------------------------------------------------------------
(* Terraform goroutines: one runs without its request only after two       *)
(* interrupts, and never beside a request that was told of success.        *)
Goroutines ==
  \A t \in Tasks :
    /\ run[t] # "off" => pc[t] = "running" \/ hit[t] = 2
    /\ pc[t] = "success" => run[t] = "off"

LEMMA GoroutinesStep ==
  ASSUME TypeOK, Clock, Goroutines, [Next]_vars
  PROVE  Goroutines'
<1> USE DEF Goroutines
<1>1. ASSUME NEW t \in Tasks, Continue(t) PROVE Goroutines'
  <2> USE DEF Goto, Fail, runVars
  <2>1. CASE CloneIn(t) \/ Setup(t)
    BY <2>1 DEF CloneIn, Setup, TypeOK
  <2>2. CASE Start(t)
    BY <2>2 DEF Start, TypeOK
  <2>3. CASE Create(t) \/ Delete(t) \/ Refresh(t)
    <3>1. pc' = pc /\ hit' = hit /\ run[t] = "on" /\ run' = [run EXCEPT ![t] = "made"]
      BY <2>3 DEF Create, Delete, Refresh, Changes
    <3> QED BY <3>1 DEF TypeOK
  <2>4. CASE Save(t)
    BY <2>4 DEF Save, TypeOK
  <2>5. CASE Finish(t)
    BY <2>5 DEF Finish, TypeOK
  <2>6. CASE CloneOut(t) \/ Open(t)
    BY <2>6 DEF CloneOut, Open, TypeOK
  <2>7. CASE Unregister(t) \/ Remove(t)
    BY <2>7 DEF Unregister, Remove, TypeOK
  <2>8. CASE Answer(t)
    <3>1. PICK s \in BOOLEAN : Reply(t, s) /\ (s => phase = "up")
      BY <2>8 DEF Answer, TypeOK
    <3>2. s => run[t] = "off"
      BY <3>1 DEF Reply, Clock, Broadcasts, TypeOK
    <3>3. run' = run /\ pc' = [pc EXCEPT ![t] = IF s THEN "success" ELSE "idle"]
          /\ (hit' = hit \/ (run[t] = "off" /\ hit' = [hit EXCEPT ![t] = 0]))
      BY <3>1 DEF Reply
    <3>4. pc[t] = "answer"
      BY <3>1 DEF Reply
    <3> QED BY <3>2, <3>3, <3>4 DEF TypeOK
  <2> QED
    BY <1>1, <2>1, <2>2, <2>3, <2>4, <2>5, <2>6, <2>7, <2>8 DEF Continue
<1>2. ASSUME NEW t \in Tasks, NEW what \in Kinds, Get(t, what) PROVE Goroutines'
  BY <1>2 DEF Get, Admit, TypeOK
<1>3. ASSUME NEW from \in {0, 15}, NEW to \in {15, 25}, Broadcast(from, to)
      PROVE  Goroutines'
  <2> SUFFICES ASSUME NEW t \in Tasks
               PROVE  /\ run'[t] # "off" => pc'[t] = "running" \/ hit'[t] = 2
                      /\ pc'[t] = "success" => run'[t] = "off"
    OBVIOUS
  <2>1. \/ /\ pc'[t] = pc[t] /\ run'[t] = run[t]
           /\ hit'[t] = hit[t] \/ (hit[t] # 1 /\ hit'[t] = hit[t] + 1)
        \/ pc'[t] = "cloneout" /\ hit'[t] = 2
    BY <1>3, BroadcastStep
  <2>2. hit[t] = 2 => hit'[t] = 2
    <3>1. hit[t] = 2 => timer = 25
      BY DEF Clock, Broadcasts, TypeOK
    <3>2. timer # 25
      BY <1>3 DEF Broadcast
    <3> QED BY <3>1, <3>2
  <2> QED BY <2>1, <2>2
<1>4. CASE Exit \/ SignalKills
  BY <1>4 DEF Exit, SignalKills, Die
<1>5. CASE Deadline \/ Drained \/ Boot \/ SignalTaken \/ UNCHANGED vars
  BY <1>5 DEF Deadline, Drained, Stop, Boot, SignalTaken, vars, runVars
<1> QED BY <1>1, <1>2, <1>3, <1>4, <1>5 DEF Next, Timers

-----------------------------------------------------------------------------
(* What a run that met no error and no interrupt has done is what was      *)
(* asked for, from the moment terraform has done it until the request is   *)
(* forgotten.                                                              *)
AfterRun == {"cloneout", "open", "close", "remove", "answer"}

Did(t) == /\ kind[t] = "apply" => seen[t] # {}
          /\ kind[t] = "destroy" => seen[t] = {}

Completes ==
  \A t \in Tasks :
    /\ hit[t] = 0 /\ ok[t] /\ (pc[t] \in AfterRun \/ run[t] \in {"made", "saved"}) => Did(t)
    /\ pc[t] = "success" => Did(t)

LEMMA CompletesContinue ==
  ASSUME TypeOK, Clock, Goroutines, Completes, NEW t \in Tasks, Continue(t)
  PROVE  Completes'
<1> USE DEF Completes, Did, AfterRun, Goto, Fail, runVars
<1>1. CASE CloneIn(t) \/ Setup(t)
  BY <1>1 DEF CloneIn, Setup, Goroutines, TypeOK
<1>2. CASE Start(t)
  BY <1>2 DEF Start, TypeOK
<1>3. CASE Create(t) \/ Delete(t) \/ Refresh(t)
  <2>1. pc[t] # "success"
    BY <1>3 DEF Create, Delete, Refresh, Changes, Goroutines
  <2>2. /\ UNCHANGED <<pc, kind, hit>>
        /\ \A u \in Tasks \ {t} : seen'[u] = seen[u] /\ ok'[u] = ok[u] /\ run'[u] = run[u]
    BY <1>3 DEF Create, Delete, Refresh, Changes, TypeOK
  <2>3. hit[t] = 0 /\ ok'[t] => Did(t)'
    <3>1. CASE Create(t)
      <4>1. CASE Known(t) # {} /\ Changes(t, made[Asks[t]], Known(t))
        <5>1. seen'[t] = Known(t)
          BY <4>1 DEF Changes, TypeOK
        <5> QED BY <3>1, <2>2, <4>1, <5>1 DEF Create
      <4>2. CASE Known(t) = {}
        <5>1. PICK r \in Resources : Changes(t, made[Asks[t]] \cup {r}, {r})
          BY <3>1, <4>2 DEF Create
        <5>2. seen'[t] = {r}
          BY <5>1 DEF Changes, TypeOK
        <5> QED BY <3>1, <2>2, <5>2 DEF Create
      <4> QED BY <3>1, <4>1, <4>2 DEF Create
    <3>2. CASE Delete(t)
      BY <3>2, <2>2 DEF Delete, Changes, TypeOK
    <3>3. CASE Refresh(t)
      BY <3>3, <2>2 DEF Refresh, Changes, TypeOK
    <3> QED BY <1>3, <3>1, <3>2, <3>3
  <2> QED BY <2>1, <2>2, <2>3
<1>4. CASE Save(t) \/ Finish(t)
  BY <1>4 DEF Save, Finish, TypeOK
<1>5. CASE CloneOut(t) \/ Open(t)
  BY <1>5 DEF CloneOut, Open, TypeOK
<1>6. CASE Unregister(t) \/ Remove(t)
  BY <1>6 DEF Unregister, Remove, TypeOK
<1>7. CASE Answer(t)
  <2>1. PICK s \in BOOLEAN : Reply(t, s) /\ (s => ok[t] /\ phase = "up")
    BY <1>7 DEF Answer, TypeOK
  <2>2. s => hit[t] = 0 /\ ok[t]
    BY <2>1 DEF Clock, Broadcasts, TypeOK
  <2>3. \A u \in Tasks \ {t} : /\ seen'[u] = seen[u] /\ ok'[u] = ok[u] /\ run'[u] = run[u]
                               /\ pc'[u] = pc[u] /\ kind'[u] = kind[u] /\ hit'[u] = hit[u]
    BY <2>1 DEF Reply, TypeOK
  <2>4. pc[t] = "answer" /\ pc'[t] = (IF s THEN "success" ELSE "idle") /\ run' = run
    BY <2>1 DEF Reply, TypeOK
  <2>5. CASE s
    <3>1. UNCHANGED <<kind, seen, hit>>
      BY <2>1, <2>5 DEF Reply
    <3> QED BY <2>2, <2>3, <2>4, <2>5, <3>1
  <2>6. CASE ~s
    <3>1. CASE run[t] = "off"
      BY <2>3, <2>4, <2>6, <3>1
    <3>2. CASE run[t] # "off"
      <4>1. hit'[t] = 2
        BY <2>1, <2>4, <3>2 DEF Reply, Goroutines
      <4> QED BY <2>3, <2>4, <2>6, <4>1
    <3> QED BY <3>1, <3>2
  <2> QED BY <2>5, <2>6
<1> QED
  BY <1>1, <1>2, <1>3, <1>4, <1>5, <1>6, <1>7 DEF Continue

LEMMA CompletesStep ==
  ASSUME TypeOK, Clock, Goroutines, Completes, [Next]_vars
  PROVE  Completes'
<1> USE DEF Completes, Did, AfterRun, runVars
<1>1. ASSUME NEW t \in Tasks, Continue(t) PROVE Completes'
  BY <1>1, CompletesContinue
<1>2. ASSUME NEW t \in Tasks, NEW what \in Kinds, Get(t, what) PROVE Completes'
  BY <1>2 DEF Get, Admit, TypeOK
<1>3. ASSUME NEW from \in {0, 15}, NEW to \in {15, 25}, Broadcast(from, to)
      PROVE  Completes'
  <2>1. UNCHANGED <<kind, seen>>
    BY <1>3 DEF Broadcast
  <2>2. \A t \in Tasks :
          \/ /\ pc'[t] = pc[t] /\ ok'[t] = ok[t] /\ run'[t] = run[t]
             /\ hit'[t] = 0 => hit[t] = 0
          \/ pc'[t] = "cloneout" /\ hit'[t] = 2
    <3> SUFFICES ASSUME NEW t \in Tasks
                 PROVE  \/ /\ pc'[t] = pc[t] /\ ok'[t] = ok[t] /\ run'[t] = run[t]
                           /\ hit'[t] = 0 => hit[t] = 0
                        \/ pc'[t] = "cloneout" /\ hit'[t] = 2
      OBVIOUS
    <3>1. hit[t] \in 0..2
      BY DEF TypeOK
    <3>2. \/ /\ pc'[t] = pc[t] /\ ok'[t] = ok[t] /\ run'[t] = run[t]
             /\ hit'[t] = hit[t] \/ (hit[t] # 1 /\ hit'[t] = hit[t] + 1)
          \/ pc'[t] = "cloneout" /\ hit'[t] = 2
      BY <1>3, BroadcastStep
    <3> QED BY <3>1, <3>2
  <2> QED BY <2>1, <2>2
<1>4. CASE Exit \/ SignalKills
  BY <1>4 DEF Exit, SignalKills, Die
<1>5. CASE Deadline \/ Drained \/ Boot \/ SignalTaken \/ UNCHANGED vars
  BY <1>5 DEF Deadline, Drained, Stop, Boot, SignalTaken, vars
<1> QED BY <1>1, <1>2, <1>3, <1>4, <1>5 DEF Next, Timers

-----------------------------------------------------------------------------
(* Until the second broadcast, the state of an error-free run stays in the *)
(* local store, or a late Remove has taken the directory away, in which    *)
(* case the request fails before it is answered.                           *)
Kept(t) ==
  LET c == Asks[t]
  IN  /\ pc[t] = "cloneout" => local[c].state \in {{}, {seen[t]}}
      /\ pc[t] = "open" /\ local[c].state # {} =>
           local[c].state = {seen[t]} /\ remote[c].state = {seen[t]}
      /\ pc[t] = "close" => remote[c].state = {seen[t]}

Exists(t) ==
  pc[t] \in {"cloneout", "open", "close"} \/ run[t] \in {"made", "saved"} =>
    seen[t] \subseteq made[Asks[t]]

Records ==
  timer < 25 => \A t \in Tasks : ok[t] /\ kind[t] # "plan" => Kept(t) /\ Exists(t)

(* Before the second broadcast a terraform goroutine has its request, and  *)
(* with it the content.                                                    *)
LEMMA RunsAreRegistered ==
  ASSUME TypeOK, Clock, Goroutines, timer < 25, NEW t \in Tasks, run[t] # "off"
  PROVE  pc[t] = "running" /\ t \in Registered
<1>1. hit[t] # 2
  BY DEF Clock, Broadcasts, TypeOK
<1> QED BY <1>1 DEF Goroutines, Registered, RegisteredPCs

(* What a request does to its own content does not concern the others that *)
(* are registered; when it is not registered itself it can only take the   *)
(* directory away.                                                         *)
LEMMA OthersKept ==
  ASSUME TypeOK, Locks, NEW t \in Tasks, NEW u \in Tasks \ {t},
         ok[u] /\ kind[u] # "plan" => Kept(u) /\ Exists(u),
         pc'[u] = pc[u], seen'[u] = seen[u], run'[u] = run[u], ok'[u] = ok[u],
         kind'[u] = kind[u], run[u] # "off" => u \in Registered,
         \A c \in Contents \ {Asks[t]} :
           local'[c] = local[c] /\ remote'[c] = remote[c] /\ made'[c] = made[c],
         \/ t \in Registered
         \/ /\ local'[Asks[t]].state = {} \/ local'[Asks[t]].state = local[Asks[t]].state
            /\ UNCHANGED <<remote, made>>
  PROVE  ok'[u] /\ kind'[u] # "plan" => Kept(u)' /\ Exists(u)'
<1> USE TerraformerAssumption
<1>1. CASE Asks[u] # Asks[t]
  BY <1>1 DEF Kept, Exists
<1>2. CASE Asks[u] = Asks[t] /\ t \in Registered
  <2>1. u \notin Registered
    BY <1>2 DEF Locks, ContentExclusive
  <2>2. pc[u] \notin {"cloneout", "open", "close"} /\ run[u] = "off"
    BY <2>1 DEF Registered, RegisteredPCs
  <2> QED BY <2>2 DEF Kept, Exists
<1>3. CASE Asks[u] = Asks[t] /\ t \notin Registered
  BY <1>3 DEF Kept, Exists
<1> QED BY <1>1, <1>2, <1>3

LEMMA RecordsContinue ==
  ASSUME TypeOK, Clock, Locks, Goroutines, Records, NEW t \in Tasks, Continue(t)
  PROVE  Records'
<1> SUFFICES ASSUME timer < 25
             PROVE  \A u \in Tasks : ok'[u] /\ kind'[u] # "plan" => Kept(u)' /\ Exists(u)'
  <2>1. timer' = timer
    BY DEF Continue, CloneIn, Setup, Start, Create, Delete, Refresh, Changes, Save,
           Finish, CloneOut, Open, Unregister, Remove, Answer, Reply, procVars
  <2> QED BY <2>1 DEF Records
<1> USE TerraformerAssumption
<1>1. \A u \in Tasks : ok[u] /\ kind[u] # "plan" => Kept(u) /\ Exists(u)
  BY DEF Records
<1>2. \A u \in Tasks \ {t} : /\ pc'[u] = pc[u] /\ seen'[u] = seen[u] /\ run'[u] = run[u]
                             /\ ok'[u] = ok[u] /\ kind'[u] = kind[u]
  BY DEF Continue, CloneIn, Setup, Start, Create, Delete, Refresh, Changes, Save, Finish,
         CloneOut, Open, Unregister, Remove, Answer, Reply, runVars, Goto, Fail, TypeOK
<1>3. \A c \in Contents \ {Asks[t]} :
        local'[c] = local[c] /\ remote'[c] = remote[c] /\ made'[c] = made[c]
  BY DEF Continue, CloneIn, Setup, Start, Create, Delete, Refresh, Changes, Save, Finish,
         CloneOut, Open, Unregister, Remove, Answer, Reply, stores, TypeOK
<1>4. \/ t \in Registered
      \/ /\ local'[Asks[t]].state = {} \/ local'[Asks[t]].state = local[Asks[t]].state
         /\ UNCHANGED <<remote, made>>
  <2>1. CASE pc[t] \in RegisteredPCs
    BY <2>1 DEF Registered
  <2>2. CASE pc[t] \notin RegisteredPCs
    <3>1. run[t] = "off"
      BY <2>2, RunsAreRegistered DEF Registered
    <3>2. Remove(t) \/ Answer(t)
      BY <2>2, <3>1 DEF Continue, CloneIn, Setup, Start, Create, Delete, Refresh, Changes,
           Save, Finish, CloneOut, Open, Unregister, Goto, Fail, RegisteredPCs
    <3> QED BY <3>2 DEF Remove, Answer, Reply, stores, Empty, TypeOK
  <2> QED BY <2>1, <2>2
<1>5. ASSUME NEW u \in Tasks \ {t}
      PROVE  ok'[u] /\ kind'[u] # "plan" => Kept(u)' /\ Exists(u)'
  <2>1. run[u] # "off" => u \in Registered
    BY RunsAreRegistered
  <2> QED BY <1>1, <1>2, <1>3, <1>4, <2>1, OthersKept
<1>6. ok'[t] /\ kind'[t] # "plan" => Kept(t)' /\ Exists(t)'
  <2> USE DEF Kept, Exists, Goto, Fail, runVars, stores
  <2>1. CASE CloneIn(t) \/ Setup(t)
    <3>1. run[t] = "off"
      BY <2>1, RunsAreRegistered DEF CloneIn, Setup
    <3>2. run'[t] = "off" /\ (ok'[t] => pc'[t] \in {"setup", "start"})
      BY <2>1, <3>1 DEF CloneIn, Setup, TypeOK
    <3> QED BY <3>2
  <2>2. CASE Start(t)
    BY <2>2 DEF Start, TypeOK
  <2>3. CASE Create(t) \/ Delete(t) \/ Refresh(t)
    <3>1. pc'[t] = "running" /\ run[t] = "on"
      BY <2>3, RunsAreRegistered DEF Create, Delete, Refresh, Changes
    <3>2. ASSUME NEW m, NEW s, s \subseteq m, Changes(t, m, s)
          PROVE  seen'[t] \subseteq made'[Asks[t]]
      BY <3>2 DEF Changes, TypeOK
    <3>3. \E m, s : s \subseteq m /\ Changes(t, m, s)
      <4>1. CASE Changes(t, made[Asks[t]], Known(t))
        BY <4>1 DEF Known
      <4>2. ASSUME NEW r, Changes(t, made[Asks[t]] \cup {r}, {r})
            PROVE  \E m, s : s \subseteq m /\ Changes(t, m, s)
        <5>1. {r} \subseteq made[Asks[t]] \cup {r}
          OBVIOUS
        <5> QED BY <4>2, <5>1
      <4>3. CASE Changes(t, made[Asks[t]] \ seen[t], {})
        <5>1. {} \subseteq made[Asks[t]] \ seen[t]
          OBVIOUS
        <5> QED BY <4>3, <5>1
      <4> QED BY <2>3, <4>1, <4>2, <4>3 DEF Create, Delete, Refresh
    <3> QED BY <3>1, <3>2, <3>3
  <2>4. CASE Save(t)
    <3>1. pc'[t] = "running"
      BY <2>4, RunsAreRegistered DEF Save
    <3> QED BY <1>1, <2>4, <3>1 DEF Save, TypeOK
  <2>5. CASE Finish(t)
    <3>1. kind[t] # "plan" => local'[Asks[t]].state = {seen[t]}
      BY <2>5 DEF Finish, TypeOK, Directories
    <3>2. pc'[t] = "cloneout" /\ run[t] = "saved" /\ run'[t] = "off" /\ UNCHANGED <<made, kind, ok, seen>>
      BY <2>5 DEF Finish, TypeOK
    <3> QED BY <1>1, <3>1, <3>2
  <2>6. CASE CloneOut(t)
    <3>1. CASE ok'[t]
      <4>1. /\ remote'[Asks[t]] = Overlay(local[Asks[t]], remote[Asks[t]])
            /\ pc[t] = "cloneout" /\ pc'[t] = "open" /\ ok[t]
            /\ UNCHANGED <<local, made, kind, seen, run>>
        BY <2>6, <3>1 DEF CloneOut, TypeOK
      <4>2. local[Asks[t]].state # {} => remote'[Asks[t]].state = local[Asks[t]].state
        BY <4>1 DEF Overlay
      <4> SUFFICES ASSUME kind[t] # "plan" PROVE Kept(t)' /\ Exists(t)'
        BY <4>1
      <4>3. Kept(t) /\ Exists(t)
        BY <1>1, <4>1
      <4>4. Exists(t)'
        BY <4>1, <4>3
      <4>5. local'[Asks[t]].state = {} \/ local'[Asks[t]].state = {seen'[t]}
        BY <4>1, <4>3
      <4>6. Kept(t)'
        BY <4>1, <4>2, <4>5
      <4> QED BY <4>4, <4>6
    <3> QED BY <3>1
  <2>7. CASE Open(t)
    <3>1. ok'[t] /\ kind[t] # "plan" => local[Asks[t]].state # {} /\ ok[t]
      BY <2>7 DEF Open, TypeOK
    <3>2. pc[t] = "open" /\ pc'[t] = "close" /\ UNCHANGED <<stores, made, kind, runVars>>
      BY <2>7 DEF Open, TypeOK
    <3> QED BY <1>1, <3>1, <3>2
  <2>8. CASE Unregister(t) \/ Remove(t) \/ Answer(t)
    <3>1. run[t] = "off"
      BY <2>8, RunsAreRegistered DEF Unregister, Remove, Answer, Reply
    <3>2. run'[t] = "off" /\ pc'[t] \notin {"cloneout", "open", "close"}
      BY <2>8, <3>1 DEF Unregister, Remove, Answer, Reply, TypeOK
    <3> QED BY <3>2
  <2> QED
    BY <2>1, <2>2, <2>3, <2>4, <2>5, <2>6, <2>7, <2>8 DEF Continue
<1> QED BY <1>5, <1>6

LEMMA RecordsStep ==
  ASSUME TypeOK, Clock, Locks, Goroutines, Records, [Next]_vars
  PROVE  Records'
<1>1. ASSUME NEW t \in Tasks, Continue(t) PROVE Records'
  BY <1>1, RecordsContinue
<1>2. ASSUME NEW t \in Tasks, NEW what \in Kinds, Get(t, what) PROVE Records'
  <2>1. pc'[t] = "clonein" /\ run'[t] = "off"
    BY <1>2 DEF Get, Admit, TypeOK
  <2>2. \A u \in Tasks \ {t} : /\ pc'[u] = pc[u] /\ seen'[u] = seen[u] /\ run'[u] = run[u]
                               /\ ok'[u] = ok[u] /\ kind'[u] = kind[u]
    BY <1>2 DEF Get, Admit, TypeOK
  <2>3. UNCHANGED <<timer, local, remote, made>>
    BY <1>2 DEF Get, Admit, procVars, stores
  <2> QED BY <2>1, <2>2, <2>3 DEF Records, Kept, Exists
<1>3. CASE Broadcast(0, 15)
  <2>1. \A t \in Tasks : pc'[t] = pc[t] /\ run'[t] = run[t] /\ ok'[t] = ok[t]
    <3>1. \A t \in Tasks : hit[t] # 1
      BY <1>3 DEF Broadcast, Clock, Broadcasts, TypeOK
    <3> QED BY <1>3, <3>1, BroadcastStep
  <2>2. timer = 0 /\ UNCHANGED <<local, remote, made, seen, kind>>
    BY <1>3 DEF Broadcast, stores
  <2>3. ASSUME NEW t \in Tasks, Kept(t), Exists(t) PROVE Kept(t)' /\ Exists(t)'
    BY <2>1, <2>2, <2>3 DEF Kept, Exists
  <2>4. \A t \in Tasks : ok[t] /\ kind[t] # "plan" => Kept(t) /\ Exists(t)
    BY <2>2 DEF Records
  <2> QED BY <2>1, <2>2, <2>3, <2>4 DEF Records
<1>4. CASE Broadcast(15, 25)
  BY <1>4 DEF Broadcast, Records
<1>5. CASE Exit \/ SignalKills
  BY <1>5 DEF Exit, SignalKills, Die, Records, Kept, Exists
<1>6. CASE Deadline \/ Drained \/ Boot \/ SignalTaken \/ UNCHANGED vars
  <2>1. UNCHANGED <<timer, local, remote, made, pc, kind, ok, seen, run>>
    BY <1>6 DEF Deadline, Drained, Stop, Boot, SignalTaken, vars, stores, runVars
  <2> QED BY <2>1 DEF Records, Kept, Exists
<1> QED BY <1>1, <1>2, <1>3, <1>4, <1>5, <1>6 DEF Next, Timers

-----------------------------------------------------------------------------
(* The inductive invariant.                                                *)
IInv == TypeOK /\ Clock /\ Locks /\ Goroutines /\ Completes /\ Records

LEMMA InvInit == Init => IInv
<1> SUFFICES ASSUME Init PROVE IInv
  OBVIOUS
<1> USE TerraformerAssumption DEF Init
<1>1. TypeOK
  <2>1. Empty \in Directories
    BY DEF Empty, Directories
  <2>2. signals \in 0..MaxSignals /\ faults \in 0..MaxFaults
    OBVIOUS
  <2>3. made \in [Contents -> SUBSET Resources] /\ seen \in [Tasks -> SUBSET Resources]
    OBVIOUS
  <2> QED BY <2>1, <2>2, <2>3 DEF TypeOK, PCs
<1>2. Clock
  BY DEF Clock, Broadcasts
<1>3. Locks
  <2>1. Registered = {}
    BY DEF Registered, RegisteredPCs
  <2> QED BY <2>1, FS_EmptySet DEF Locks, ContentExclusive, WaitGroupCounts
<1>4. Goroutines /\ Completes /\ Records
  BY DEF Goroutines, Completes, Records, AfterRun, Kept, Exists
<1> QED BY <1>1, <1>2, <1>3, <1>4 DEF IInv

LEMMA InvStep == IInv /\ [Next]_vars => IInv'
<1> SUFFICES ASSUME IInv, [Next]_vars PROVE IInv'
  OBVIOUS
<1> USE DEF IInv
<1>1. Locks'
  BY LocksStep
<1>2. Clock'
  BY ClockStep
<1>3. TypeOK'
  BY <1>1, <1>2, TypeStep
<1>4. Goroutines'
  BY GoroutinesStep
<1>5. Completes'
  BY CompletesStep
<1>6. Records'
  BY RecordsStep
<1> QED BY <1>1, <1>2, <1>3, <1>4, <1>5, <1>6

LEMMA Invariance == Spec => []IInv
<1>1. Init => IInv
  BY InvInit
<1>2. IInv /\ [Next]_vars => IInv'
  BY InvStep
<1> QED BY <1>1, <1>2, PTL DEF Spec

(* Every variable keeps its type; the wait group of kodingcontext never    *)
(* goes below zero, where it would panic.                                  *)
THEOREM TypeCorrect == Spec => []TypeOK
<1>1. IInv => TypeOK
  BY DEF IInv
<1> QED BY <1>1, Invariance, PTL

(* Two requests never run terraform on one content, and a locked content   *)
(* is locked by a request that will unlock it (createShutdownChan, Close). *)
THEOREM ContentIsExclusive == Spec => []ContentExclusive
<1>1. IInv => ContentExclusive
  BY DEF IInv, Locks
<1> QED BY <1>1, Invariance, PTL

(* Shutdown waits for exactly the requests under way (shutdownChansWG).    *)
THEOREM WaitGroupIsExact == Spec => []WaitGroupCounts
<1>1. IInv => WaitGroupCounts
  BY DEF IInv, Locks
<1> QED BY <1>1, Invariance, PTL

(* An apply or destroy that is going to be answered without an error has   *)
(* its state in the remote store, and the resources it reports exist, until*)
(* the second broadcast of Shutdown (KodingContext.run and Apply).         *)
THEOREM SuccessWasRecorded == Spec => []SuccessIsRecorded
<1>1. IInv => SuccessIsRecorded
  BY DEF IInv, Records, Kept, Exists, SuccessIsRecorded
<1> QED BY <1>1, Invariance, PTL

(* A client told of success has what it asked for, because handleState     *)
(* turns the answers of interrupted runs into errors.                      *)
THEOREM SuccessWasComplete == Spec => []SuccessIsComplete
<1>1. IInv => SuccessIsComplete
  BY DEF IInv, Completes, Did, SuccessIsComplete
<1> QED BY <1>1, Invariance, PTL

-----------------------------------------------------------------------------
(* The promise of TerraformJobs.                                           *)

Ended(t) == pc[t] \in {"remove", "answer"} /\ ok[t] /\ hit[t] = 0
Told == {t \in Tasks : pc[t] = "success"}

LEMMA Seen ==
  /\ JobsNow = {Job(t) : t \in Registered}
  /\ EndedWell = {Job(t) : t \in {u \in Tasks : Ended(u)}}
  /\ \A t : Job(t).request = t /\ Job(t).kind = kind[t] /\ Jobs!Content(Job(t)) = Asks[t]
BY DEF JobsNow, EndedWell, Ended, Job, Jobs!Content

(* Requests that keep their places and kinds keep their jobs.              *)
LEMMA JobsKept ==
  ASSUME \A t \in Tasks : /\ pc'[t] \in RegisteredPCs <=> pc[t] \in RegisteredPCs
                          /\ pc[t] \in RegisteredPCs => kind'[t] = kind[t]
  PROVE  JobsNow' = JobsNow
<1>1. Registered' = Registered
  BY DEF Registered
<1>2. \A t \in Registered : Job(t)' = Job(t)
  BY DEF Registered, Job
<1> QED BY <1>1, <1>2 DEF JobsNow

LEMMA EndedKept ==
  ASSUME \A t \in Tasks : Ended(t)' = Ended(t) /\ (Ended(t) => kind'[t] = kind[t])
  PROVE  EndedWell' = EndedWell
<1> DEFINE E == {t \in Tasks : Ended(t)}
<1>1. E' = E
  OBVIOUS
<1>2. \A t \in E : Job(t)' = Job(t)
  BY DEF Job
<1>3. EndedWell = {Job(t) : t \in E}
  BY DEF EndedWell, Ended
<1>4. EndedWell' = {Job(t)' : t \in E'}
  BY DEF EndedWell, Ended
<1> HIDE DEF E
<1> QED BY <1>1, <1>2, <1>3, <1>4

(* A step that only one request takes, which neither gets nor leaves its   *)
(* content.                                                                *)
LEMMA Unseen ==
  ASSUME TypeOK, NEW t \in Tasks, kind' = kind,
         \A u \in Tasks \ {t} : pc'[u] = pc[u] /\ ok'[u] = ok[u] /\ hit'[u] = hit[u],
         pc[t] \in RegisteredPCs <=> pc'[t] \in RegisteredPCs,
         Ended(t)' = Ended(t), pc[t] = "success" <=> pc'[t] = "success"
  PROVE  JobsNow' = JobsNow /\ EndedWell' = EndedWell /\ Told' = Told
<1>1. JobsNow' = JobsNow
  BY JobsKept
<1>2. \A u \in Tasks : Ended(u)' = Ended(u)
  BY DEF Ended
<1>3. EndedWell' = EndedWell
  BY <1>2, EndedKept
<1>4. Told' = Told
  BY DEF Told
<1> QED BY <1>1, <1>3, <1>4

LEMMA Stutters ==
  ASSUME UNCHANGED <<JobsNow, made, OnRecord, EndedWell, Told, timer>>
  PROVE  UNCHANGED Jobs!vars
BY DEF Jobs!vars, Told

(* The steps that kloud does not see.                                      *)
LEMMA QuietStep ==
  ASSUME TypeOK, NEW t \in Tasks,
         \/ CloneIn(t) \/ Setup(t) \/ Start(t) \/ Save(t) \/ Finish(t) \/ Open(t) \/ Remove(t)
  PROVE  UNCHANGED Jobs!vars
<1> USE DEF Goto, Fail, stores, runVars, procVars
<1>1. UNCHANGED <<made, remote, timer, kind, hit>>
  BY DEF CloneIn, Setup, Start, Save, Finish, Open, Remove
<1>2. \A u \in Tasks \ {t} : pc'[u] = pc[u] /\ ok'[u] = ok[u]
  BY DEF CloneIn, Setup, Start, Save, Finish, Open, Remove, TypeOK
<1>3. \/ pc'[t] = pc[t] /\ ok'[t] = ok[t]
      \/ pc[t] \in RegisteredPCs /\ pc'[t] \in RegisteredPCs
      \/ pc[t] = "remove" /\ pc'[t] = "answer" /\ ok'[t] = ok[t]
  BY DEF CloneIn, Setup, Start, Save, Finish, Open, Remove, TypeOK, RegisteredPCs
<1>4. /\ pc[t] \in RegisteredPCs <=> pc'[t] \in RegisteredPCs
      /\ Ended(t)' = Ended(t)
      /\ pc[t] = "success" <=> pc'[t] = "success"
  BY <1>1, <1>3 DEF Ended, RegisteredPCs
<1>5. OnRecord' = OnRecord
  BY <1>1 DEF OnRecord
<1>6. JobsNow' = JobsNow /\ EndedWell' = EndedWell /\ Told' = Told
  BY <1>1, <1>2, <1>4, Unseen
<1> QED BY <1>1, <1>5, <1>6, Stutters

(* Terraform changes resources for its request, or, after the second       *)
(* broadcast, for itself.                                                  *)
LEMMA WorkStep ==
  ASSUME IInv, NEW t \in Tasks, Create(t) \/ Delete(t) \/ Refresh(t)
  PROVE  Jobs!Next
<1> USE TerraformerAssumption DEF IInv
<1>1. UNCHANGED <<remote, timer, kind, hit, pc>> /\ run[t] # "off"
  BY DEF Create, Delete, Refresh, Changes, procVars, stores
<1>2. \A u \in Tasks \ {t} : ok'[u] = ok[u]
  BY DEF Create, Delete, Refresh, TypeOK
<1>3. Ended(t)' = Ended(t)
  BY <1>1 DEF Ended, Goroutines
<1>4. JobsNow' = JobsNow /\ EndedWell' = EndedWell /\ Told' = Told
  <2>1. \A u \in Tasks \ {t} : pc'[u] = pc[u] /\ ok'[u] = ok[u] /\ hit'[u] = hit[u]
    BY <1>1, <1>2
  <2>2. pc'[t] = pc[t] /\ kind' = kind
    BY <1>1
  <2> QED BY <1>3, <2>1, <2>2, Unseen
<1>5. OnRecord' = OnRecord
  BY <1>1 DEF OnRecord
<1>6. CASE timer = 25
  <2>1. Jobs!Stray
    BY <1>1, <1>4, <1>5, <1>6 DEF Jobs!Stray, Told
  <2> QED BY <2>1 DEF Jobs!Next
<1>7. CASE timer # 25
  <2>1. t \in Registered
    BY <1>1, <1>7, RunsAreRegistered DEF TypeOK
  <2>2. Job(t) \in JobsNow
    BY <2>1 DEF JobsNow
  <2> DEFINE c == Asks[t]
  <2>3. \E m : /\ made' = [made EXCEPT ![c] = m]
               /\ kind[t] # "apply" => m \subseteq made[c]
               /\ kind[t] # "destroy" => made[c] \subseteq m
    BY DEF Create, Delete, Refresh, Changes
  <2>4. made'[c] = made'[c] /\ made' = [made EXCEPT ![c] = made'[c]]
        /\ (kind[t] # "apply" => made'[c] \subseteq made[c])
        /\ (kind[t] # "destroy" => made[c] \subseteq made'[c])
    BY <2>3 DEF TypeOK
  <2>5. Jobs!Content(Job(t)) = c /\ Job(t).kind = kind[t]
    BY Seen
  <2>6. Jobs!Work(Job(t))
    BY <1>1, <1>4, <1>5, <2>4, <2>5 DEF Jobs!Work, Jobs!Only, Told
  <2> QED BY <2>2, <2>6 DEF Jobs!Next
<1> QED BY <1>6, <1>7

(* CloneOut changes what is on record.                                     *)
LEMMA RecordStep ==
  ASSUME TypeOK, NEW t \in Tasks, CloneOut(t)
  PROVE  Jobs!Next
<1> USE TerraformerAssumption
<1>1. UNCHANGED <<made, timer, kind, hit>>
      /\ pc[t] = "cloneout" /\ pc'[t] \in {"open", "close"}
  BY DEF CloneOut, Goto, Fail, runVars, procVars, TypeOK
<1>2. \A u \in Tasks \ {t} : pc'[u] = pc[u] /\ ok'[u] = ok[u]
  BY DEF CloneOut, Goto, Fail, TypeOK
<1>3. /\ pc[t] \in RegisteredPCs <=> pc'[t] \in RegisteredPCs
      /\ Ended(t)' = Ended(t)
      /\ pc[t] = "success" <=> pc'[t] = "success"
  BY <1>1 DEF Ended, RegisteredPCs
<1>4. JobsNow' = JobsNow /\ EndedWell' = EndedWell /\ Told' = Told
  BY <1>1, <1>2, <1>3, Unseen
<1>5. \A c \in Contents \ {Asks[t]} : remote'[c] = remote[c]
  BY DEF CloneOut, TypeOK
<1>6. OnRecord' = [OnRecord EXCEPT ![Asks[t]] = OnRecord'[Asks[t]]]
  <2>1. \A c \in Contents \ {Asks[t]} : UNION remote'[c].state = UNION remote[c].state
    BY <1>5
  <2>2. OnRecord = [c \in Contents |-> UNION remote[c].state]
        /\ OnRecord' = [c \in Contents |-> UNION remote'[c].state]
    BY DEF OnRecord
  <2>3. \A c \in Contents \ {Asks[t]} : OnRecord'[c] = OnRecord[c]
    BY <2>1, <2>2
  <2> QED BY <2>2, <2>3
<1>7. Job(t) \in JobsNow
  BY <1>1 DEF JobsNow, Registered, RegisteredPCs
<1>8. Jobs!Content(Job(t)) = Asks[t]
  BY Seen
<1>9. Jobs!Record(Job(t))
  BY <1>1, <1>4, <1>6, <1>8 DEF Jobs!Record, Jobs!Only, Told
<1> QED BY <1>7, <1>9 DEF Jobs!Next

(* A job ends with the locked half of Close.                               *)
LEMMA UnregisterStep ==
  ASSUME IInv, NEW t \in Tasks, Unregister(t)
  PROVE  Jobs!Next
<1> USE TerraformerAssumption DEF IInv
<1>1. UNCHANGED <<made, remote, timer, kind, hit, ok>>
      /\ pc[t] = "close" /\ pc'[t] = "remove"
      /\ \A u \in Tasks \ {t} : pc'[u] = pc[u]
  BY DEF Unregister, Goto, runVars, procVars, stores, TypeOK
<1>2. OnRecord' = OnRecord
  BY <1>1 DEF OnRecord
<1>3. Told' = Told
  BY <1>1 DEF Told
<1>4. Job(t) \in JobsNow
  BY <1>1 DEF JobsNow, Registered, RegisteredPCs
<1>5. JobsNow' = JobsNow \ {Job(t)}
  <2>1. Registered' = Registered \ {t}
    BY <1>1 DEF Registered, RegisteredPCs
  <2>2. \A u \in Tasks : Job(u)' = Job(u) /\ Job(u).request = u
    BY <1>1 DEF Job
  <2>3. JobsNow' = {Job(u)' : u \in Registered'}
    BY DEF JobsNow
  <2>4. Registered \subseteq Tasks
    BY DEF Registered
  <2> QED BY <2>1, <2>2, <2>3, <2>4 DEF JobsNow
<1>6. EndedWell' = IF ok[t] /\ hit[t] = 0 THEN EndedWell \cup {Job(t)} ELSE EndedWell
  <2> DEFINE E == {u \in Tasks : Ended(u)}
  <2>1. E' = IF ok[t] /\ hit[t] = 0 THEN E \cup {t} ELSE E
    BY <1>1 DEF Ended
  <2>2. \A u \in Tasks : Job(u)' = Job(u)
    BY <1>1 DEF Job
  <2>3. EndedWell = {Job(u) : u \in E}
    BY DEF EndedWell, Ended
  <2>4. EndedWell' = {Job(u)' : u \in E'}
    BY DEF EndedWell, Ended
  <2>5. E \subseteq Tasks
    OBVIOUS
  <2> HIDE DEF E
  <2> QED BY <2>1, <2>2, <2>3, <2>4, <2>5
<1>7. CASE ~ (ok[t] /\ hit[t] = 0)
  <2>1. Jobs!EndBadly(Job(t))
    BY <1>1, <1>2, <1>3, <1>5, <1>6, <1>7 DEF Jobs!EndBadly, Told
  <2> QED BY <1>4, <2>1 DEF Jobs!Next
<1>8. CASE ok[t] /\ hit[t] = 0
  <2>1. ASSUME timer # 25 PROVE Jobs!Done(Job(t))
    <3>1. Did(t)
      BY <1>1, <1>8 DEF Completes, AfterRun
    <3>2. kind[t] # "plan" => Kept(t) /\ Exists(t)
      BY <1>8, <2>1 DEF Records, TypeOK
    <3>3. kind[t] # "plan" => remote[Asks[t]].state = {seen[t]} /\ seen[t] \subseteq made[Asks[t]]
      BY <1>1, <3>2 DEF Kept, Exists
    <3>4. kind[t] # "plan" => OnRecord[Asks[t]] = seen[t]
      BY <3>3 DEF OnRecord
    <3>5. Jobs!Content(Job(t)) = Asks[t] /\ Job(t).kind = kind[t]
      BY Seen
    <3> QED BY <3>1, <3>3, <3>4, <3>5 DEF Jobs!Done, Did
  <2>2. Jobs!EndWell(Job(t))
    BY <1>1, <1>2, <1>3, <1>5, <1>6, <1>8, <2>1 DEF Jobs!EndWell, Told
  <2> QED BY <1>4, <2>2 DEF Jobs!Next
<1> QED BY <1>7, <1>8

(* The client hears of success, or that its job failed.                    *)
LEMMA AnswerStep ==
  ASSUME IInv, NEW t \in Tasks, Answer(t)
  PROVE  [Jobs!Next]_(Jobs!vars)
<1> USE DEF IInv
<1>1. PICK s \in BOOLEAN : Reply(t, s) /\ s = (ok[t] /\ phase = "up")
  BY DEF Answer, TypeOK
<1>2. UNCHANGED <<made, remote, timer>> /\ pc[t] = "answer"
      /\ pc'[t] = (IF s THEN "success" ELSE "idle")
      /\ (s => kind' = kind)
  BY <1>1 DEF Reply, procVars, stores, TypeOK
<1>3. \A u \in Tasks \ {t} : /\ pc'[u] = pc[u] /\ ok'[u] = ok[u]
                             /\ hit'[u] = hit[u] /\ kind'[u] = kind[u]
  BY <1>1 DEF Reply, TypeOK
<1>4. OnRecord' = OnRecord
  BY <1>2 DEF OnRecord
<1>5. JobsNow' = JobsNow
  <2>1. \A u \in Tasks : /\ pc'[u] \in RegisteredPCs <=> pc[u] \in RegisteredPCs
                         /\ pc[u] \in RegisteredPCs => kind'[u] = kind[u]
    BY <1>2, <1>3 DEF RegisteredPCs
  <2> QED BY <2>1, JobsKept
<1>6. EndedWell' = EndedWell \ {Job(t)}
  <2> DEFINE E == {u \in Tasks : Ended(u)}
  <2>1. E' = E \ {t}
    BY <1>2, <1>3 DEF Ended
  <2>2. \A u \in E \ {t} : Job(u)' = Job(u)
    BY <1>3 DEF Job
  <2>3. EndedWell = {Job(u) : u \in E}
    BY DEF EndedWell, Ended
  <2>4. EndedWell' = {Job(u)' : u \in E'}
    BY DEF EndedWell, Ended
  <2>5. \A u : Job(u).request = u
    BY Seen
  <2> HIDE DEF E
  <2> QED BY <2>1, <2>2, <2>3, <2>4, <2>5
<1>7. Told' = IF s THEN Told \cup {t} ELSE Told
  BY <1>2, <1>3 DEF Told
<1>8. Ended(t) => Job(t) \in EndedWell
  BY DEF EndedWell, Ended
<1>9. CASE s
  <2>1. hit[t] = 0
    BY <1>1, <1>9 DEF Clock, Broadcasts, TypeOK
  <2>2. Ended(t)
    BY <1>1, <1>2, <1>9, <2>1 DEF Ended
  <2>3. PICK j \in EndedWell : j = Job(t)
    BY <1>8, <2>2
  <2>4. j.request = t
    BY <2>3, Seen
  <2>5. Jobs!Tell(j)
    BY <1>2, <1>4, <1>5, <1>6, <1>7, <1>9, <2>3, <2>4 DEF Jobs!Tell, Told
  <2> QED BY <2>5 DEF Jobs!Next
<1>10. CASE ~s /\ Ended(t)
  <2>1. Jobs!Refuse(Job(t))
    BY <1>2, <1>4, <1>5, <1>6, <1>7, <1>10 DEF Jobs!Refuse, Told
  <2> QED BY <1>8, <1>10, <2>1 DEF Jobs!Next
<1>11. CASE ~s /\ ~Ended(t)
  <2>1. Job(t) \notin EndedWell
    BY <1>11 DEF EndedWell, Ended, Job
  <2>2. EndedWell' = EndedWell
    BY <1>6, <2>1
  <2> QED BY <1>2, <1>4, <1>5, <1>7, <1>11, <2>2, Stutters
<1> QED BY <1>9, <1>10, <1>11

LEMMA BeginStep ==
  ASSUME IInv, NEW t \in Tasks, NEW what \in Kinds, Get(t, what)
  PROVE  Jobs!Next
<1> USE TerraformerAssumption DEF IInv
<1> DEFINE j == [request |-> t, kind |-> what]
<1>1. UNCHANGED <<made, remote, timer>> /\ pc[t] \in Idle /\ Asks[t] \notin chans
      /\ pc'[t] = "clonein" /\ kind'[t] = what
  BY DEF Get, Admit, procVars, stores, TypeOK
<1>2. \A u \in Tasks \ {t} : /\ pc'[u] = pc[u] /\ ok'[u] = ok[u]
                             /\ hit'[u] = hit[u] /\ kind'[u] = kind[u]
  BY DEF Get, Admit, TypeOK
<1>3. OnRecord' = OnRecord
  BY <1>1 DEF OnRecord
<1>4. JobsNow' = JobsNow \cup {j}
  <2>1. Registered' = Registered \cup {t} /\ t \notin Registered
    BY <1>1, <1>2 DEF Registered, RegisteredPCs, Idle
  <2>2. \A u \in Registered : Job(u)' = Job(u)
    BY <1>2, <2>1 DEF Job, Registered
  <2>3. Job(t)' = j
    BY <1>1 DEF Job
  <2> QED BY <2>1, <2>2, <2>3 DEF JobsNow
<1>5. EndedWell' = EndedWell
  <2>1. \A u \in Tasks : Ended(u)' = Ended(u) /\ (Ended(u) => kind'[u] = kind[u])
    BY <1>1, <1>2 DEF Ended, Idle
  <2> QED BY <2>1, EndedKept
<1>6. Told' = Told \ {t}
  BY <1>1, <1>2 DEF Told
<1>7. \A i \in JobsNow : Jobs!Content(i) # Jobs!Content(j)
  <2>1. \A u \in Registered : Asks[u] # Asks[t]
    BY <1>1 DEF Locks, ContentExclusive
  <2> QED BY <2>1, Seen DEF JobsNow, Jobs!Content
<1>8. \A i \in EndedWell : i.request # j.request
  BY <1>1 DEF EndedWell, Job, Idle
<1>9. j \in Jobs!Jobs
  BY DEF Jobs!Jobs
<1>10. j.request = t
  OBVIOUS
<1> HIDE DEF j
<1>11. Jobs!Begin(j)
  BY <1>1, <1>3, <1>4, <1>5, <1>6, <1>7, <1>8, <1>10 DEF Jobs!Begin, Told
<1> QED BY <1>9, <1>11 DEF Jobs!Next

(* The second broadcast ends the runs it interrupts, but no jobs.          *)
LEMMA BroadcastJobs ==
  ASSUME IInv, NEW from \in {0, 15}, NEW to \in {15, 25}, Broadcast(from, to)
  PROVE  UNCHANGED <<JobsNow, made, OnRecord, EndedWell, Told>>
<1> USE DEF IInv
<1>1. UNCHANGED <<made, remote, kind>>
  BY DEF Broadcast, stores
<1>2. \A t \in Tasks :
        \/ pc'[t] = pc[t] /\ ok'[t] = ok[t]
        \/ pc[t] = "running" /\ pc'[t] = "cloneout"
  BY BroadcastStep
<1>3. \A t \in Tasks : pc[t] # "running" => hit'[t] = hit[t]
  BY DEF Broadcast, Listens
<1>4. JobsNow' = JobsNow
  <2>1. \A t \in Tasks : pc'[t] \in RegisteredPCs <=> pc[t] \in RegisteredPCs
    BY <1>2 DEF RegisteredPCs
  <2> QED BY <1>1, <2>1, JobsKept
<1>5. EndedWell' = EndedWell
  <2>1. \A t \in Tasks : Ended(t)' = Ended(t)
    BY <1>2, <1>3 DEF Ended
  <2> QED BY <1>1, <2>1, EndedKept
<1>6. Told' = Told
  BY <1>2 DEF Told
<1>7. OnRecord' = OnRecord
  BY <1>1 DEF OnRecord
<1> QED BY <1>1, <1>4, <1>5, <1>6, <1>7

LEMMA EndStep ==
  ASSUME TypeOK, Die
  PROVE  Jobs!End
<1>1. UNCHANGED <<made, remote>> /\ timer' = 0 /\ \A t \in Tasks : pc'[t] = "idle"
  BY DEF Die, stores
<1>2. JobsNow' = {} /\ EndedWell' = {} /\ Told' = {}
  BY <1>1 DEF JobsNow, Registered, RegisteredPCs, EndedWell, Told
<1>3. OnRecord' = OnRecord
  BY <1>1 DEF OnRecord
<1> QED BY <1>1, <1>2, <1>3 DEF Jobs!End, Told

(* Every step of terraformer is one of TerraformJobs, or none.             *)
LEMMA JobsStep ==
  ASSUME IInv, [Next]_vars
  PROVE  [Jobs!Next]_(Jobs!vars)
<1> USE DEF IInv
<1>1. ASSUME NEW t \in Tasks, Continue(t) PROVE [Jobs!Next]_(Jobs!vars)
  BY <1>1, QuietStep, WorkStep, RecordStep, UnregisterStep, AnswerStep DEF Continue
<1>2. ASSUME NEW t \in Tasks, NEW what \in Kinds, Get(t, what) PROVE Jobs!Next
  BY <1>2, BeginStep
<1>3. CASE Broadcast(0, 15)
  <2>1. UNCHANGED <<JobsNow, made, OnRecord, EndedWell, Told>>
    BY <1>3, BroadcastJobs
  <2>2. (timer' = 25) = (timer = 25)
    BY <1>3 DEF Broadcast
  <2> QED BY <2>1, <2>2 DEF Jobs!vars, Told
<1>4. CASE Broadcast(15, 25)
  <2>1. UNCHANGED <<JobsNow, made, OnRecord, EndedWell, Told>>
    BY <1>4, BroadcastJobs
  <2>2. Jobs!Abandon
    BY <1>4, <2>1 DEF Broadcast, Jobs!Abandon, Told
  <2> QED BY <2>2 DEF Jobs!Next
<1>5. CASE Exit \/ SignalKills
  BY <1>5, EndStep DEF Exit, SignalKills, Jobs!Next
<1>6. CASE Deadline \/ Drained \/ Boot \/ SignalTaken \/ UNCHANGED vars
  <2>1. UNCHANGED <<timer, remote, made, pc, kind, ok, hit>>
    BY <1>6 DEF Deadline, Drained, Stop, Boot, SignalTaken, vars, stores, runVars
  <2>2. UNCHANGED <<JobsNow, OnRecord, EndedWell, Told>>
    BY <2>1 DEF JobsNow, Registered, Job, OnRecord, EndedWell, Told
  <2> QED BY <2>1, <2>2, Stutters
<1> QED BY <1>1, <1>2, <1>3, <1>4, <1>5, <1>6 DEF Next, Timers

LEMMA JobsInit == Init => Jobs!Init
<1> SUFFICES ASSUME Init PROVE Jobs!Init
  OBVIOUS
<1>1. \A t \in Tasks : pc[t] = "idle"
  BY DEF Init
<1>2. JobsNow = {} /\ EndedWell = {} /\ Told = {}
  BY <1>1 DEF JobsNow, Registered, RegisteredPCs, EndedWell, Told
<1>3. OnRecord = [c \in Contents |-> {}]
  BY DEF Init, OnRecord, Empty
<1>4. made = [c \in Contents |-> {}] /\ timer # 25
  BY DEF Init
<1> QED BY <1>2, <1>3, <1>4 DEF Jobs!Init, Told

(* terraformer keeps its promise to kloud: whatever fails or is signalled, *)
(* jobs for one content run one at a time, only they change its resources  *)
(* and its record, and success stands for what is on record and exists.    *)
THEOREM JobsAreKept == Spec => JobsPromise
<1>1. Init => Jobs!Init
  BY JobsInit
<1>2. IInv /\ [Next]_vars => [Jobs!Next]_(Jobs!vars)
  BY JobsStep
<1> QED BY <1>1, <1>2, Invariance, PTL DEF Spec, JobsPromise, Jobs!Spec

-----------------------------------------------------------------------------
(* Where a request is alone with its content, copies succeed and nobody    *)
(* sends a signal, the resources are always in one of the states: the      *)
(* remote one, the local one, or terraform's.                              *)
Secure(t) ==
  LET c == Asks[t]
  IN  /\ pc[t] \notin {"running", "cloneout"} => made[c] \subseteq UNION remote[c].state
      /\ pc[t] \in {"setup", "start", "cloneout"} => made[c] \subseteq UNION local[c].state
      /\ pc[t] \in Idle \cup {"clonein", "answer"} => local[c].state = {}
      /\ pc[t] = "running" => run[t] # "off" /\ made[c] \subseteq seen[t]
      /\ pc[t] # "running" => run[t] = "off"
      /\ run[t] = "saved" => local[c].state = {seen[t]}

AloneInv ==
  /\ phase = "up" /\ timer = 0
  /\ \A t \in Tasks : Secure(t)
  /\ \A c \in Contents : made[c] = {} \/ \E t \in Tasks : Asks[t] = c

(* A request only touches its own content.                                 *)
LEMMA SecureOthers ==
  ASSUME NEW t \in Tasks, NEW u \in Tasks, Asks[u] # Asks[t], Secure(u),
         pc'[u] = pc[u], run'[u] = run[u], seen'[u] = seen[u],
         made'[Asks[u]] = made[Asks[u]], local'[Asks[u]] = local[Asks[u]],
         remote'[Asks[u]] = remote[Asks[u]]
  PROVE  Secure(u)'
BY DEF Secure

LEMMA SecureStep ==
  ASSUME TypeOK, MaxFaults = 0, NEW t \in Tasks, Secure(t), Continue(t)
  PROVE  Secure(t)'
<1> USE TerraformerAssumption DEF Goto, Fail, stores, runVars
<1> DEFINE c == Asks[t]
<1>0. c \in Contents /\ ~ CopyFails
  BY DEF CopyFails, TypeOK
<1>1. CASE CloneIn(t)
  <2>1. local'[c] = Overlay(remote[c], local[c]) /\ pc[t] = "clonein" /\ pc'[t] = "setup"
        /\ UNCHANGED <<made, remote, run>>
    BY <1>0, <1>1 DEF CloneIn, TypeOK
  <2>2. local'[c].state = remote[c].state
    <3>1. local[c].state = {}
      BY <2>1 DEF Secure
    <3>2. Overlay(remote[c], local[c]).state = IF remote[c].state = {} THEN {} ELSE remote[c].state
      BY <3>1 DEF Overlay
    <3> QED BY <2>1, <3>2
  <2> QED BY <2>1, <2>2 DEF Secure, Idle
<1>2. CASE Setup(t)
  <2>1. local'[c].state = local[c].state /\ pc[t] = "setup" /\ pc'[t] = "start"
        /\ UNCHANGED <<made, remote, run>>
    BY <1>0, <1>2 DEF Setup, TypeOK, Directories
  <2> QED BY <2>1 DEF Secure, Idle
<1>3. CASE Start(t)
  <2>1. UNCHANGED <<made, remote, local>> /\ pc[t] = "start"
    BY <1>3 DEF Start
  <2>2. \/ pc'[t] = "running" /\ run'[t] = "on" /\ seen'[t] = UNION local[c].state
        \/ pc'[t] = "cloneout" /\ run'[t] = run[t]
    BY <1>3 DEF Start, TypeOK
  <2> QED BY <2>1, <2>2 DEF Secure, Idle
<1>4. CASE Create(t) \/ Delete(t) \/ Refresh(t)
  <2>1. UNCHANGED <<local, remote, pc>> /\ run[t] = "on" /\ run'[t] = "made"
    BY <1>4 DEF Create, Delete, Refresh, Changes, TypeOK
  <2>2. pc[t] = "running" /\ made[c] \subseteq seen[t]
    BY <2>1 DEF Secure
  <2>3. Known(t) = made[c]
    BY <2>2 DEF Known
  <2>4. made'[c] \subseteq seen'[t]
    <3>1. ASSUME NEW m, NEW s, m \subseteq s, Changes(t, m, s)
          PROVE  made'[c] \subseteq seen'[t]
      BY <1>0, <3>1 DEF Changes, TypeOK
    <3>2. CASE Changes(t, made[c], Known(t))
      BY <2>3, <3>1, <3>2
    <3>3. ASSUME NEW r, Known(t) = {}, Changes(t, made[c] \cup {r}, {r})
          PROVE  made'[c] \subseteq seen'[t]
      <4>1. made[c] \cup {r} \subseteq {r}
        BY <2>3, <3>3
      <4> QED BY <3>1, <3>3, <4>1
    <3>4. CASE Changes(t, made[c] \ seen[t], {})
      <4>1. made[c] \ seen[t] \subseteq {}
        BY <2>2
      <4> QED BY <3>1, <3>4, <4>1
    <3> QED BY <1>4, <3>2, <3>3, <3>4 DEF Create, Delete, Refresh
  <2> QED BY <2>1, <2>2, <2>4 DEF Secure, Idle
<1>5. CASE Save(t)
  <2>1. pc[t] = "running" /\ made[c] \subseteq seen[t]
    BY <1>5 DEF Save, Secure
  <2>2. local'[c].state = {seen[t]} /\ UNCHANGED <<remote, made, pc, seen>> /\ run'[t] = "saved"
    BY <1>0, <1>5, <2>1 DEF Save, TypeOK, Directories
  <2> QED BY <2>1, <2>2 DEF Secure, Idle
<1>6. CASE Finish(t)
  <2>1. pc[t] = "running" /\ pc'[t] = "cloneout" /\ run[t] = "saved" /\ run'[t] = "off"
        /\ UNCHANGED <<remote, made, seen>>
    BY <1>6 DEF Finish, TypeOK
  <2>2. local[c].state = {seen[t]} /\ made[c] \subseteq seen[t]
    BY <2>1 DEF Secure
  <2>3. local'[c].state = {seen[t]}
    BY <1>0, <1>6, <2>2 DEF Finish, TypeOK, Directories
  <2> QED BY <2>1, <2>2, <2>3 DEF Secure, Idle
<1>7. CASE CloneOut(t)
  <2>1. remote'[c] = Overlay(local[c], remote[c]) /\ pc[t] = "cloneout"
        /\ pc'[t] \in {"open", "close"} /\ UNCHANGED <<made, local, run>>
    BY <1>0, <1>7 DEF CloneOut, TypeOK
  <2>2. made[c] \subseteq UNION local[c].state /\ run[t] = "off"
    BY <2>1 DEF Secure
  <2>3. made[c] \subseteq UNION remote'[c].state
    BY <2>1, <2>2 DEF Overlay
  <2> QED BY <2>1, <2>2, <2>3 DEF Secure, Idle
<1>8. CASE Open(t) \/ Unregister(t)
  <2>1. pc[t] \in {"open", "close"} /\ pc'[t] \in {"close", "remove"}
        /\ UNCHANGED <<made, local, remote, run>>
    BY <1>8 DEF Open, Unregister, TypeOK
  <2> QED BY <2>1 DEF Secure, Idle
<1>9. CASE Remove(t)
  <2>1. local'[c].state = {} /\ pc[t] = "remove" /\ pc'[t] = "answer" /\ UNCHANGED <<made, remote, run>>
    BY <1>0, <1>9 DEF Remove, Empty, TypeOK
  <2> QED BY <2>1 DEF Secure
<1>10. CASE Answer(t)
  <2>1. pc[t] = "answer" /\ pc'[t] \in Idle /\ UNCHANGED <<made, local, remote, run>>
    BY <1>10 DEF Answer, Reply, Idle, TypeOK
  <2> QED BY <2>1 DEF Secure, Idle
<1> QED
  BY <1>1, <1>2, <1>3, <1>4, <1>5, <1>6, <1>7, <1>8, <1>9, <1>10 DEF Continue

LEMMA AloneStep ==
  ASSUME MaxSignals = 0, MaxFaults = 0, \A t, u \in Tasks : Asks[t] = Asks[u] => t = u,
         TypeOK, AloneInv, [Next]_vars
  PROVE  AloneInv'
<1> USE TerraformerAssumption
<1>1. ASSUME NEW t \in Tasks, Continue(t) PROVE AloneInv'
  <2>1. UNCHANGED <<phase, timer>>
    BY <1>1 DEF Continue, CloneIn, Setup, Start, Create, Delete, Refresh, Changes, Save,
       Finish, CloneOut, Open, Unregister, Remove, Answer, Reply, procVars
  <2>2. \A u \in Tasks \ {t} : pc'[u] = pc[u] /\ seen'[u] = seen[u] /\ run'[u] = run[u]
    BY <1>1 DEF Continue, CloneIn, Setup, Start, Create, Delete, Refresh, Changes, Save,
       Finish, CloneOut, Open, Unregister, Remove, Answer, Reply, runVars, Goto, Fail, TypeOK
  <2>3. \A c \in Contents \ {Asks[t]} :
          local'[c] = local[c] /\ remote'[c] = remote[c] /\ made'[c] = made[c]
    BY <1>1 DEF Continue, CloneIn, Setup, Start, Create, Delete, Refresh, Changes, Save,
       Finish, CloneOut, Open, Unregister, Remove, Answer, Reply, stores, TypeOK
  <2>4. Secure(t)'
    BY <1>1, SecureStep DEF AloneInv
  <2>5. ASSUME NEW u \in Tasks \ {t} PROVE Secure(u)'
    <3>1. Asks[u] # Asks[t] /\ Asks[u] \in Contents
      OBVIOUS
    <3> QED BY <2>2, <2>3, <3>1, SecureOthers DEF AloneInv
  <2> QED BY <2>1, <2>3, <2>4, <2>5 DEF AloneInv
<1>2. ASSUME NEW t \in Tasks, NEW what \in Kinds, Get(t, what) PROVE AloneInv'
  <2>1. UNCHANGED <<phase, timer, local, remote, made, run>> /\ pc[t] \in Idle /\ run[t] = "off"
        /\ pc'[t] = "clonein"
    BY <1>2 DEF Get, Admit, procVars, stores, TypeOK
  <2>2. \A u \in Tasks \ {t} : pc'[u] = pc[u] /\ seen'[u] = seen[u]
    BY <1>2 DEF Get, Admit, TypeOK
  <2>3. Secure(t)'
    BY <2>1 DEF AloneInv, Secure, Idle
  <2>4. \A u \in Tasks \ {t} : Secure(u)'
    BY <2>1, <2>2 DEF AloneInv, Secure
  <2> QED BY <2>1, <2>3, <2>4 DEF AloneInv
<1>3. CASE Timers \/ Drained \/ Exit \/ Boot
  BY <1>3 DEF Timers, Broadcast, Deadline, Drained, Stop, Exit, Boot, AloneInv
<1>4. CASE SignalTaken \/ SignalKills
  BY <1>4 DEF SignalTaken, SignalKills, TypeOK
<1>5. CASE UNCHANGED vars
  BY <1>5 DEF vars, AloneInv, Secure
<1> QED BY <1>1, <1>2, <1>3, <1>4, <1>5 DEF Next

LEMMA AloneInit == Init => AloneInv
BY TerraformerAssumption DEF Init, AloneInv, Secure, Empty, Idle

(* Nothing is forgotten where requests for different contents run side by  *)
(* side, copies succeed and the process is not stopped: what a late Remove *)
(* loses it loses of the next request for the same content                 *)
(* (KodingContext.Close).                                                  *)
THEOREM AloneNothingForgotten ==
  ASSUME MaxSignals = 0, MaxFaults = 0, \A t, u \in Tasks : Asks[t] = Asks[u] => t = u
  PROVE  Spec => []NothingForgotten
<1>1. IInv /\ AloneInv /\ [Next]_vars => (IInv /\ AloneInv)'
  <2>1. IInv => TypeOK
    BY DEF IInv
  <2> QED BY <2>1, InvStep, AloneStep
<1>2. IInv /\ AloneInv => NothingForgotten
  <2> SUFFICES ASSUME IInv, AloneInv, NEW c \in Contents, c \notin chans
               PROVE  made[c] \subseteq UNION remote[c].state
    BY DEF NothingForgotten
  <2>1. CASE made[c] = {}
    BY <2>1
  <2>2. ASSUME NEW t \in Tasks, Asks[t] = c PROVE made[c] \subseteq UNION remote[c].state
    <3>1. t \notin Registered
      BY <2>2 DEF IInv, Locks, ContentExclusive
    <3>2. pc[t] \notin {"running", "cloneout"}
      BY <3>1 DEF Registered, RegisteredPCs
    <3> QED BY <2>2, <3>2 DEF AloneInv, Secure
  <2> QED BY <2>1, <2>2 DEF AloneInv
<1> QED BY <1>1, <1>2, InvInit, AloneInit, PTL DEF Spec
=============================================================================
