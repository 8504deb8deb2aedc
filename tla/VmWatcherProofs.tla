--------------------------- MODULE VmWatcherProofs --------------------------
(***************************************************************************)
(* Proofs about VmWatcher: for any users, plans and limits, any number of  *)
(* jobs and workers, and every bound.                                      *)
(***************************************************************************)
EXTENDS VmWatcher, TLAPS

-----------------------------------------------------------------------------
(* Types, by group of variables.                                           *)

JobPlaces == {"idle", "fetch", "fetched", "judge", "queue", "deal", "wait"}
WorkerPlaces == {"idle", "measure", "score", "block", "look", "tell"}
JobStates == [at : JobPlaces, key : Keys, keys : SUBSET Keys, found : SUBSET Users]
WorkerStates == [at : WorkerPlaces, user : Users \cup {NoUser}, sum : Usages, week : 0 .. MaxWeeks]

JobOK == job \in [Jobs -> JobStates]
WorkerOK == /\ worker \in [Crew -> WorkerStates]
            /\ \A w \in Crew : worker[w].at # "idle" => worker[w].user \in Users
WorldOK == /\ running \subseteq Users /\ usage \in [Users -> Usages] /\ week \in 0 .. MaxWeeks
           /\ exceeded \in [Keys -> SUBSET Users]
RedisOK == /\ score \in [Users -> Usages] /\ toGet \subseteq Users /\ over \in [Keys -> SUBSET Users]
EffectsOK == asked \subseteq Users /\ blocked \subseteq Users
RestOK == faults \in 0 .. MaxFaults /\ straddled \subseteq Users

LEMMA TypeParts ==
  TypeOK <=> JobOK /\ WorkerOK /\ WorldOK /\ RedisOK /\ EffectsOK /\ RestOK
BY DEF TypeOK, JobOK, WorkerOK, WorldOK, RedisOK, EffectsOK, RestOK, JobStates, WorkerStates,
       JobPlaces, WorkerPlaces

LEMMA TypePartsNext ==
  ASSUME JobOK', WorkerOK', WorldOK', RedisOK', EffectsOK', RestOK'
  PROVE  TypeOK'
BY DEF TypeOK, JobOK, WorkerOK, WorldOK, RedisOK, EffectsOK, RestOK, JobStates, WorkerStates,
       JobPlaces, WorkerPlaces

LEMMA FaultCounts ==
  ASSUME RestOK, Fault PROVE faults' \in 0 .. MaxFaults
BY WatcherAssumption DEF RestOK, Fault

(* A job moves to a state of its own kind, a worker too.                   *)
LEMMA JobMoves ==
  ASSUME JobOK, NEW j \in Jobs, NEW s \in JobStates, job' = [job EXCEPT ![j] = s]
  PROVE  JobOK'
BY DEF JobOK

LEMMA WorkerMoves ==
  ASSUME WorkerOK, NEW w \in Crew, NEW s \in WorkerStates,
         s.at # "idle" => s.user \in Users, worker' = [worker EXCEPT ![w] = s]
  PROVE  WorkerOK'
BY DEF WorkerOK

LEMMA Rested == Resting \in WorkerStates /\ Resting.at = "idle"
BY WatcherAssumption DEF Resting, WorkerStates, WorkerPlaces, Usages

LEMMA AllOff == Off \in JobStates
BY DEF Off, JobStates, JobPlaces, Keys

LEMMA TypeInit == Init => TypeOK
<1> SUFFICES ASSUME Init PROVE TypeOK
  OBVIOUS
<1>1. JobOK
  BY AllOff DEF Init, JobOK
<1>2. WorkerOK
  BY Rested DEF Init, WorkerOK
<1>3. WorldOK /\ RedisOK /\ EffectsOK /\ RestOK
  BY WatcherAssumption DEF Init, WorldOK, RedisOK, EffectsOK, RestOK, Usages
<1> QED BY <1>1, <1>2, <1>3, TypeParts

LEMMA TypeOutside ==
  ASSUME TypeOK,
         (\E u \in Users : Owner(u) \/ KloudStops(u)) \/ NewWeek \/ QueueUsernamesForMetricGet
  PROVE  TypeOK'
<1> USE WatcherAssumption
<1>1. JobOK' /\ WorkerOK' /\ (straddled' = straddled /\ faults' = faults)
  <2>1. UNCHANGED <<job, worker, straddled, faults>>
    BY DEF Owner, Send, Start, KloudStops, NewWeek, QueueUsernamesForMetricGet
  <2> QED BY <2>1, TypeParts DEF JobOK, WorkerOK
<1>2. WorldOK'
  BY TypeParts DEF WorldOK, Owner, Send, Start, KloudStops, NewWeek, QueueUsernamesForMetricGet,
                   Usages, world
<1>3. RedisOK'
  BY TypeParts DEF RedisOK, WorldOK, Owner, Send, Start, KloudStops, NewWeek,
                   QueueUsernamesForMetricGet, Usages, redis
<1>4. EffectsOK'
  BY TypeParts DEF EffectsOK, Owner, Send, Start, KloudStops, NewWeek,
                   QueueUsernamesForMetricGet, effects
<1>5. RestOK'
  BY <1>1, TypeParts DEF RestOK
<1> QED BY <1>1, <1>2, <1>3, <1>4, <1>5, TypePartsNext

LEMMA TypeFetch ==
  ASSUME TypeOK, NEW j \in Jobs, Fetch(j)
  PROVE  TypeOK'
<1> USE TypeParts
<1>1. JobOK'
  <2>1. [job[j] EXCEPT !.at = "fetch"] \in JobStates /\ [job[j] EXCEPT !.at = "fetched"] \in JobStates
    BY DEF JobOK, JobStates, JobPlaces
  <2>2. \/ job' = job
        \/ job' = [job EXCEPT ![j] = [job[j] EXCEPT !.at = "fetch"]]
        \/ job' = [job EXCEPT ![j] = [job[j] EXCEPT !.at = "fetched"]]
    BY DEF Fetch, Collect, PopForMetricGet, PopForMetricGetFails, Fetched, JobOK
  <2> QED BY <2>1, <2>2, JobMoves DEF JobOK
<1>2. WorkerOK'
  <2>1. CASE \E u \in Users, i \in Workers : PopForMetricGet(j, i, u)
    <3>1. PICK u \in Users, i \in Workers : PopForMetricGet(j, i, u)
      BY <2>1
    <3> DEFINE s == [Resting EXCEPT !.at = "measure", !.user = u]
    <3>2. s \in WorkerStates /\ s.user \in Users
      BY Rested DEF WorkerStates, WorkerPlaces
    <3>3. <<j, i>> \in Crew /\ worker' = [worker EXCEPT ![<<j, i>>] = s]
      BY <3>1 DEF PopForMetricGet, Crew
    <3> QED BY <3>2, <3>3, WorkerMoves
  <2>2. CASE worker' = worker
    BY <2>2 DEF WorkerOK
  <2> QED BY <2>1, <2>2 DEF Fetch, Collect, PopForMetricGetFails, Fetched
<1>3. RedisOK' /\ WorldOK' /\ EffectsOK'
  BY DEF Fetch, Collect, PopForMetricGet, PopForMetricGetFails, Fetched, RedisOK, WorldOK, EffectsOK,
         redis, world, effects
<1>4. RestOK'
  BY FaultCounts DEF Fetch, Collect, PopForMetricGet, PopForMetricGetFails, Fetched, RestOK
<1> QED BY <1>1, <1>2, <1>3, <1>4, TypePartsNext

LEMMA TypeRule ==
  ASSUME TypeOK, NEW j \in Jobs, Rule(j)
  PROVE  TypeOK'
<1> USE TypeParts
<1>1. JobOK'
  <2>1. CASE QueueOverlimitUsers(j)
    <3>1. [job[j] EXCEPT !.at = "judge", !.keys = Keys] \in JobStates
      BY DEF JobOK, JobStates, JobPlaces
    <3>2. job' = [job EXCEPT ![j] = [job[j] EXCEPT !.at = "judge", !.keys = Keys]]
      BY <2>1 DEF QueueOverlimitUsers
    <3> QED BY <3>1, <3>2, JobMoves
  <2>2. ASSUME NEW k \in Keys, Judge(j, k) PROVE JobOK'
    <3>1. PICK found \in SUBSET OverLimit(k) :
            job' = [job EXCEPT ![j].at = "queue", ![j].key = k, ![j].keys = @ \ {k}, ![j].found = found]
      BY <2>2 DEF Judge
    <3> DEFINE s == [job[j] EXCEPT !.at = "queue", !.key = k, !.keys = @ \ {k}, !.found = found]
    <3>2. job[j] \in JobStates /\ found \in SUBSET Users
      BY DEF JobOK, OverLimit
    <3>3. s \in JobStates
      BY <3>2 DEF JobStates, JobPlaces
    <3>4. job' = [job EXCEPT ![j] = s]
      BY <3>1
    <3> QED BY <3>3, <3>4, JobMoves
  <2>3. CASE Queue(j)
    <3>1. CASE job[j].keys # {}
      <4>1. [Off EXCEPT !.at = "judge", !.keys = job[j].keys] \in JobStates
        BY AllOff DEF JobOK, JobStates, JobPlaces
      <4> QED BY <2>3, <3>1, <4>1, JobMoves DEF Queue
    <3>2. CASE job[j].keys = {}
      <4>1. PICK first \in Keys : Deal(j, first)
        BY <2>3, <3>2 DEF Queue
      <4> DEFINE s == [job[j] EXCEPT !.at = "deal", !.key = first, !.keys = Keys \ {first}, !.found = {}]
      <4>2. s \in JobStates
        BY DEF JobOK, JobStates, JobPlaces
      <4>3. job' = [job EXCEPT ![j] = s]
        BY <4>1 DEF Deal
      <4> QED BY <4>2, <4>3, JobMoves
    <3> QED BY <3>1, <3>2
  <2> QED BY <2>1, <2>2, <2>3 DEF Rule
<1>2. WorkerOK' /\ WorldOK' /\ EffectsOK'
  <2>1. UNCHANGED <<worker, world, effects>>
    BY DEF Rule, QueueOverlimitUsers, Judge, Queue
  <2> QED BY <2>1 DEF WorkerOK, WorldOK, EffectsOK, world, effects
<1>3. RedisOK'
  BY DEF Rule, QueueOverlimitUsers, Judge, Queue, RedisOK, redis, JobOK, JobStates
<1>4. RestOK'
  BY FaultCounts DEF Rule, QueueOverlimitUsers, Judge, Queue, RestOK
<1> QED BY <1>1, <1>2, <1>3, <1>4, TypePartsNext

LEMMA TypeDrain ==
  ASSUME TypeOK, NEW j \in Jobs, Drain(j)
  PROVE  TypeOK'
<1> USE TypeParts
<1>1. JobOK'
  <2>1. CASE Enforce(j)
    <3>1. PICK first \in Keys : Deal(j, first)
      BY <2>1 DEF Enforce
    <3> DEFINE s == [job[j] EXCEPT !.at = "deal", !.key = first, !.keys = Keys \ {first}, !.found = {}]
    <3>2. s \in JobStates
      BY DEF JobOK, JobStates, JobPlaces
    <3>3. job' = [job EXCEPT ![j] = s]
      BY <3>1 DEF Deal
    <3> QED BY <3>2, <3>3, JobMoves
  <2>2. CASE Drained(j)
    <3>1. CASE \E k \in job[j].keys : job' = [job EXCEPT ![j].key = k, ![j].keys = @ \ {k}]
      <4>1. PICK k \in job[j].keys : job' = [job EXCEPT ![j].key = k, ![j].keys = @ \ {k}]
        BY <3>1
      <4>2. [job[j] EXCEPT !.key = k, !.keys = @ \ {k}] \in JobStates
        BY DEF JobOK, JobStates
      <4>3. job' = [job EXCEPT ![j] = [job[j] EXCEPT !.key = k, !.keys = @ \ {k}]]
        BY <4>1
      <4> QED BY <4>2, <4>3, JobMoves
    <3>2. CASE job' = [job EXCEPT ![j] = [Off EXCEPT !.at = "wait"]]
      <4>1. [Off EXCEPT !.at = "wait"] \in JobStates
        BY AllOff DEF JobStates, JobPlaces
      <4> QED BY <3>2, <4>1, JobMoves
    <3> QED BY <2>2, <3>1, <3>2 DEF Drained
  <2>3. CASE Done(j)
    BY <2>3, AllOff, JobMoves DEF Done
  <2>4. CASE job' = job
    BY <2>4 DEF JobOK
  <2> QED BY <2>1, <2>2, <2>3, <2>4 DEF Drain, PopOverLimit, PopOverLimitFails
<1>2. WorkerOK'
  <2>1. CASE \E u \in Users, i \in Workers : PopOverLimit(j, i, u)
    <3>1. PICK u \in Users, i \in Workers : PopOverLimit(j, i, u)
      BY <2>1
    <3> DEFINE s == [Resting EXCEPT !.at = IF job[j].key = "block" THEN "block" ELSE "look", !.user = u]
    <3>2. s \in WorkerStates /\ s.user \in Users
      BY Rested DEF WorkerStates, WorkerPlaces
    <3>3. <<j, i>> \in Crew /\ worker' = [worker EXCEPT ![<<j, i>>] = s]
      BY <3>1 DEF PopOverLimit, Crew
    <3> QED BY <3>2, <3>3, WorkerMoves
  <2>2. CASE worker' = worker
    BY <2>2 DEF WorkerOK
  <2> QED BY <2>1, <2>2 DEF Drain, Enforce, Drained, Done, PopOverLimitFails
<1>3. WorldOK' /\ EffectsOK'
  BY DEF Drain, Enforce, Drained, Done, PopOverLimit, PopOverLimitFails, WorldOK, EffectsOK,
         world, effects
<1>4. RedisOK'
  <2>1. over' = over \/ \E u \in Users : over' = [over EXCEPT ![job[j].key] = @ \ {u}]
    BY DEF Drain, Enforce, Drained, Done, PopOverLimit, PopOverLimitFails, redis
  <2>2. UNCHANGED <<score, toGet>>
    BY DEF Drain, Enforce, Drained, Done, PopOverLimit, PopOverLimitFails, redis
  <2>3. over' \in [Keys -> SUBSET Users]
    BY <2>1 DEF RedisOK
  <2> QED BY <2>2, <2>3 DEF RedisOK
<1>5. RestOK'
  BY FaultCounts DEF Drain, Enforce, Drained, Done, PopOverLimit, PopOverLimitFails, RestOK
<1> QED BY <1>1, <1>2, <1>3, <1>4, <1>5, TypePartsNext

LEMMA TypeAct ==
  ASSUME TypeOK, NEW w \in Crew, Act(w)
  PROVE  TypeOK'
<1> USE TypeParts
<1> DEFINE at(p) == [worker[w] EXCEPT !.at = p]
<1>1. worker[w] \in WorkerStates
  BY DEF WorkerOK
<1>2. worker[w].user \in Users
  BY DEF Act, Measure, SaveScore, SaveScoreFails, BlockUser, LookAtMachine, TellStop, WorkerOK
<1>3. WorkerOK'
  <2>1. CASE Measure(w)
    <3>1. PICK sum \in {usage[worker[w].user], 0} :
            worker' = [worker EXCEPT ![w].at = "score", ![w].sum = sum, ![w].week = week]
      BY <2>1 DEF Measure
    <3> DEFINE s == [worker[w] EXCEPT !.at = "score", !.sum = sum, !.week = week]
    <3>2. sum \in Usages /\ week \in 0 .. MaxWeeks
      BY <1>2, WatcherAssumption DEF WorldOK, Usages
    <3>3. s \in WorkerStates /\ s.user \in Users
      BY <1>1, <1>2, <3>2 DEF WorkerStates, WorkerPlaces
    <3>4. worker' = [worker EXCEPT ![w] = s]
      BY <3>1
    <3> QED BY <3>3, <3>4, WorkerMoves
  <2>2. CASE worker' = [worker EXCEPT ![w] = Resting]
    BY <2>2, Rested, WorkerMoves
  <2>3. ASSUME NEW p \in WorkerPlaces, worker' = [worker EXCEPT ![w].at = p] PROVE WorkerOK'
    <3>1. at(p) \in WorkerStates /\ at(p).user \in Users
      BY <1>1, <1>2 DEF WorkerStates
    <3>2. worker' = [worker EXCEPT ![w] = at(p)]
      BY <2>3
    <3> QED BY <3>1, <3>2, WorkerMoves
  <2>4. "look" \in WorkerPlaces /\ "tell" \in WorkerPlaces
    BY DEF WorkerPlaces
  <2> QED BY <2>1, <2>2, <2>3, <2>4 DEF Act, SaveScore, SaveScoreFails, BlockUser, LookAtMachine, TellStop
<1>4. JobOK' /\ WorldOK'
  <2>1. UNCHANGED <<job, world>>
    BY DEF Act, Measure, SaveScore, SaveScoreFails, BlockUser, LookAtMachine, TellStop
  <2> QED BY <2>1 DEF JobOK, WorldOK, world
<1>5. RedisOK'
  <2>1. worker[w].sum \in Usages
    BY <1>1 DEF WorkerStates
  <2>2. (score' = [score EXCEPT ![worker[w].user] = worker[w].sum] \/ score' = score)
        /\ UNCHANGED <<toGet, over>>
    BY DEF Act, Measure, SaveScore, SaveScoreFails, BlockUser, LookAtMachine, TellStop, redis
  <2> QED BY <2>1, <2>2 DEF RedisOK
<1>6. EffectsOK'
  BY <1>2 DEF Act, Measure, SaveScore, SaveScoreFails, BlockUser, LookAtMachine, TellStop, EffectsOK, effects
<1>7. RestOK'
  BY <1>2, FaultCounts DEF Act, Measure, SaveScore, SaveScoreFails, BlockUser, LookAtMachine, TellStop,
                     RestOK, Straddle
<1> QED BY <1>3, <1>4, <1>5, <1>6, <1>7, TypePartsNext

LEMMA TypeRestart ==
  ASSUME TypeOK, Restart
  PROVE  TypeOK'
<1> USE TypeParts
<1>1. JobOK'
  BY AllOff DEF Restart, JobOK
<1>2. WorkerOK'
  BY Rested DEF Restart, WorkerOK
<1>3. WorldOK' /\ RedisOK' /\ EffectsOK'
  BY DEF Restart, WorldOK, RedisOK, EffectsOK, world, redis, effects
<1>4. RestOK'
  BY FaultCounts DEF Restart, RestOK
<1> QED BY <1>1, <1>2, <1>3, <1>4, TypePartsNext

LEMMA TypeStutter ==
  ASSUME TypeOK, UNCHANGED vars
  PROVE  TypeOK'
BY DEF TypeOK, vars

(* The state keeps its shape in every behaviour.                           *)
THEOREM TypeCorrect == Spec => []TypeOK
<1>1. TypeOK /\ [Next]_vars => TypeOK'
  <2> SUFFICES ASSUME TypeOK, [Next]_vars PROVE TypeOK'
    OBVIOUS
  <2> QED BY TypeOutside, TypeFetch, TypeRule, TypeDrain, TypeAct, TypeRestart, TypeStutter DEF Next
<1> QED BY TypeInit, <1>1, PTL DEF Spec

-----------------------------------------------------------------------------
(* Only over-users are punished.                                           *)

LEMMA LimitsAreNatural ==
  ASSUME NEW u \in Users, NEW k \in Keys PROVE UserLimit(u, k) \in Nat
<1>1. Limits[k] \in Nat /\ PaidMultiplier \in Nat
  BY WatcherAssumption
<1>2. Limits[k] * PaidMultiplier \in Nat
  BY <1>1
<1> QED BY <1>1, <1>2, WatcherAssumption DEF UserLimit

(* Who is over the higher limit is over the lower one.                     *)
LEMMA BlockedIsStopped ==
  ASSUME NEW u \in Users, NEW v \in Usages, TrulyOver(u, "block", v)
  PROVE  TrulyOver(u, "stop", v)
<1>1. Limits["stop"] \in Nat /\ Limits["block"] \in Nat /\ PaidMultiplier \in Nat
      /\ Limits["stop"] <= Limits["block"] /\ v \in Nat
  BY WatcherAssumption DEF Keys, Usages
<1>2. ASSUME NEW a \in Nat, NEW b \in Nat, NEW c \in Nat, a <= b PROVE a * c <= b * c
  BY <1>2
<1>3. UserLimit(u, "stop") <= UserLimit(u, "block")
  <2>1. Limits["stop"] * PaidMultiplier <= Limits["block"] * PaidMultiplier
    BY <1>1, <1>2
  <2> QED BY <1>1, <2>1, WatcherAssumption DEF UserLimit
<1>4. UserLimit(u, "stop") \in Nat /\ UserLimit(u, "block") \in Nat
  BY LimitsAreNatural DEF Keys
<1> QED BY <1>1, <1>3, <1>4 DEF TrulyOver

LEMMA ZeroIsNotOver ==
  ASSUME NEW u \in Users, NEW k \in Keys PROVE ~TrulyOver(u, k, 0)
BY LimitsAreNatural DEF TrulyOver

(* A value is known to be over a limit only if its user was.               *)
Seen(u, v) == \A k \in Keys : TrulyOver(u, k, v) => u \in exceeded[k]

(* Where a user or a value that is over a limit may be on its way.         *)
WorkerSeen(w) ==
  /\ worker[w].at = "score" => Seen(worker[w].user, worker[w].sum)
  /\ worker[w].at = "block" => worker[w].user \in exceeded["block"]
  /\ worker[w].at \in {"look", "tell"} => worker[w].user \in exceeded["stop"]
JobSeen(j) == job[j].at = "queue" => job[j].found \subseteq exceeded[job[j].key]
ExceededNest == exceeded["block"] \subseteq exceeded["stop"]
SeenInv ==
  /\ ExceededNest
  /\ \A u \in Users : Seen(u, usage[u]) /\ Seen(u, score[u])
  /\ \A w \in Crew : WorkerSeen(w)
  /\ \A j \in Jobs : JobSeen(j)
  /\ \A k \in Keys : over[k] \subseteq exceeded[k]
  /\ OnlyOverusersPunished

LEMMA SeenInit == Init => SeenInv
<1> SUFFICES ASSUME Init PROVE SeenInv
  OBVIOUS
<1>1. \A u \in Users : Seen(u, usage[u]) /\ Seen(u, score[u])
  BY ZeroIsNotOver DEF Init, Seen
<1>2. \A w \in Crew : WorkerSeen(w)
  BY DEF Init, WorkerSeen, Resting
<1>3. \A j \in Jobs : JobSeen(j)
  BY DEF Init, JobSeen, Off
<1> QED BY <1>1, <1>2, <1>3 DEF Init, SeenInv, ExceededNest, OnlyOverusersPunished, Keys

LEMMA SeenSend ==
  ASSUME TypeOK, SeenInv, NEW u \in Users, Send(u)
  PROVE  SeenInv'
<1> USE TypeParts
<1>1. /\ usage' = [usage EXCEPT ![u] = @ + 1] /\ usage'[u] \in Usages
      /\ \A k \in Keys : exceeded'[k] = exceeded[k] \cup {v \in {u} : TrulyOver(u, k, usage'[u])}
      /\ UNCHANGED <<score, over, job, worker, asked, blocked>>
  BY WatcherAssumption DEF Send, WorldOK, Usages, redis, effects
<1>2. \A k \in Keys : exceeded[k] \subseteq exceeded'[k] /\ (TrulyOver(u, k, usage'[u]) => u \in exceeded'[k])
  BY <1>1
<1>3. "stop" \in Keys /\ "block" \in Keys
  BY DEF Keys
<1>4. ExceededNest'
  BY <1>1, <1>2, <1>3, BlockedIsStopped DEF SeenInv, ExceededNest
<1>5. \A x \in Users : Seen(x, usage[x])' /\ Seen(x, score[x])'
  <2> SUFFICES ASSUME NEW x \in Users PROVE Seen(x, usage[x])' /\ Seen(x, score[x])'
    OBVIOUS
  <2>1. Seen(x, usage[x]) /\ Seen(x, score[x])
    BY DEF SeenInv
  <2>2. Seen(x, score[x])'
    BY <2>1, <1>1, <1>2 DEF Seen, TrulyOver, UserLimit
  <2>3. CASE x = u
    BY <2>2, <2>3, <1>2 DEF Seen
  <2>4. CASE x # u
    <3>1. usage'[x] = usage[x]
      BY <1>1, <2>4 DEF WorldOK
    <3> QED BY <2>1, <2>2, <3>1, <1>2 DEF Seen
  <2> QED BY <2>3, <2>4
<1>6. \A w \in Crew : WorkerSeen(w)'
  <2> SUFFICES ASSUME NEW w \in Crew PROVE WorkerSeen(w)'
    OBVIOUS
  <2>1. WorkerSeen(w)
    BY DEF SeenInv
  <2> QED BY <2>1, <1>1, <1>2, <1>3 DEF WorkerSeen, Seen
<1>7. \A j \in Jobs : JobSeen(j)'
  <2> SUFFICES ASSUME NEW j \in Jobs PROVE JobSeen(j)'
    OBVIOUS
  <2>1. JobSeen(j) /\ job[j].key \in Keys
    BY DEF SeenInv, JobOK, JobStates
  <2> QED BY <2>1, <1>1, <1>2 DEF JobSeen
<1>8. \A k \in Keys : over'[k] \subseteq exceeded'[k]
  BY <1>1, <1>2 DEF SeenInv
<1>9. OnlyOverusersPunished'
  BY <1>1, <1>2, <1>3 DEF SeenInv, OnlyOverusersPunished
<1> QED BY <1>4, <1>5, <1>6, <1>7, <1>8, <1>9 DEF SeenInv

(* The other steps leave the history alone, so it is enough to look at the *)
(* parts they change.                                                      *)
LEMMA SeenOutside ==
  ASSUME TypeOK, SeenInv,
         (\E u \in Users : Start(u) \/ KloudStops(u)) \/ NewWeek \/ QueueUsernamesForMetricGet
  PROVE  SeenInv'
<1> USE TypeParts
<1>1. UNCHANGED <<exceeded, over, job, worker, blocked>> /\ asked' \subseteq asked
  BY DEF Start, KloudStops, NewWeek, QueueUsernamesForMetricGet, world, redis, effects
<1>2. \A u \in Users : Seen(u, usage[u])' /\ Seen(u, score[u])'
  <2> SUFFICES ASSUME NEW u \in Users PROVE Seen(u, usage[u])' /\ Seen(u, score[u])'
    OBVIOUS
  <2>1. (usage'[u] = usage[u] /\ score'[u] = score[u]) \/ (usage'[u] = 0 /\ score'[u] = 0)
    BY DEF Start, KloudStops, NewWeek, QueueUsernamesForMetricGet, world, redis
  <2> QED BY <1>1, <2>1, ZeroIsNotOver DEF SeenInv, Seen
<1>3. (\A w \in Crew : WorkerSeen(w)') /\ (\A j \in Jobs : JobSeen(j)')
  BY <1>1 DEF SeenInv, WorkerSeen, JobSeen, Seen
<1> QED BY <1>1, <1>2, <1>3 DEF SeenInv, ExceededNest, OnlyOverusersPunished

LEMMA SeenFetch ==
  ASSUME TypeOK, SeenInv, NEW j \in Jobs, Fetch(j)
  PROVE  SeenInv'
<1> USE TypeParts
<1>1. UNCHANGED <<exceeded, usage, score, over, asked, blocked>>
  BY DEF Fetch, Collect, PopForMetricGet, PopForMetricGetFails, Fetched, world, redis, effects
<1>2. \A w \in Crew : WorkerSeen(w)'
  <2> SUFFICES ASSUME NEW w \in Crew PROVE WorkerSeen(w)'
    OBVIOUS
  <2>1. worker'[w] = worker[w] \/ worker'[w].at = "measure"
    BY DEF Fetch, Collect, PopForMetricGet, PopForMetricGetFails, Fetched, WorkerOK, Resting
  <2> QED BY <1>1, <2>1 DEF SeenInv, WorkerSeen, Seen
<1>3. \A i \in Jobs : JobSeen(i)'
  <2> SUFFICES ASSUME NEW i \in Jobs PROVE JobSeen(i)'
    OBVIOUS
  <2>1. job'[i] = job[i] \/ job'[i].at \in {"fetch", "fetched"}
    BY DEF Fetch, Collect, PopForMetricGet, PopForMetricGetFails, Fetched, JobOK, JobStates
  <2> QED BY <1>1, <2>1 DEF SeenInv, JobSeen
<1> QED BY <1>1, <1>2, <1>3 DEF SeenInv, Seen, ExceededNest, OnlyOverusersPunished

(* Who is found over the limit by the score exceeded it.                   *)
LEMMA FoundIsSeen ==
  ASSUME TypeOK, SeenInv, NEW k \in Keys PROVE OverLimit(k) \subseteq exceeded[k]
BY TypeParts DEF SeenInv, OverLimit, IsUserOverLimit, Seen, TrulyOver

LEMMA SeenRule ==
  ASSUME TypeOK, SeenInv, NEW j \in Jobs, Rule(j)
  PROVE  SeenInv'
<1> USE TypeParts
<1>1. UNCHANGED <<exceeded, usage, score, worker, asked, blocked>>
  BY DEF Rule, QueueOverlimitUsers, Judge, Queue, world, redis, effects
<1>2. \A k \in Keys : over'[k] \subseteq exceeded'[k]
  <2>1. CASE Queue(j)
    <3>1. job[j].key \in Keys /\ job[j].found \subseteq exceeded[job[j].key]
      BY <2>1 DEF Queue, SeenInv, JobSeen, JobOK, JobStates
    <3>2. over' = [over EXCEPT ![job[j].key] = @ \cup job[j].found]
      BY <2>1 DEF Queue
    <3> QED BY <1>1, <3>1, <3>2 DEF SeenInv, RedisOK
  <2>2. CASE over' = over
    BY <1>1, <2>2 DEF SeenInv
  <2> QED BY <2>1, <2>2 DEF Rule, QueueOverlimitUsers, Judge, redis
<1>3. \A i \in Jobs : JobSeen(i)'
  <2>1. CASE \E k \in Keys : Judge(j, k)
    <3>0. PICK k \in Keys : Judge(j, k)
      BY <2>1
    <3>1. PICK found \in SUBSET OverLimit(k) :
            job' = [job EXCEPT ![j].at = "queue", ![j].key = k, ![j].keys = @ \ {k}, ![j].found = found]
      BY <3>0 DEF Judge
    <3>2. found \subseteq exceeded[k]
      BY FoundIsSeen
    <3>3. job'[j].key = k /\ job'[j].found = found /\ \A i \in Jobs \ {j} : job'[i] = job[i]
      BY <3>1 DEF JobOK, JobStates
    <3> QED BY <1>1, <3>2, <3>3 DEF SeenInv, JobSeen
  <2>2. CASE QueueOverlimitUsers(j)
    <3>1. job'[j].at = "judge" /\ \A i \in Jobs \ {j} : job'[i] = job[i]
      BY <2>2 DEF QueueOverlimitUsers, JobOK, JobStates
    <3> QED BY <1>1, <3>1 DEF SeenInv, JobSeen
  <2>3. CASE Queue(j)
    <3>1. job'[j].at \in {"judge", "deal"} /\ \A i \in Jobs \ {j} : job'[i] = job[i]
      <4>1. CASE job[j].keys # {}
        <5>1. job' = [job EXCEPT ![j] = [Off EXCEPT !.at = "judge", !.keys = job[j].keys]]
          BY <2>3, <4>1 DEF Queue
        <5>2. [Off EXCEPT !.at = "judge", !.keys = job[j].keys].at = "judge"
          BY DEF Off
        <5>3. job'[j].at = "judge"
          BY <5>1, <5>2 DEF JobOK
        <5>4. \A i \in Jobs \ {j} : job'[i] = job[i]
          BY <5>1 DEF JobOK
        <5> QED BY <5>3, <5>4
      <4>2. CASE job[j].keys = {}
        <5>1. PICK first \in Keys : Deal(j, first)
          BY <2>3, <4>2 DEF Queue
        <5>2. job'[j].at = "deal"
          BY <5>1 DEF Deal, JobOK, JobStates
        <5>3. \A i \in Jobs \ {j} : job'[i] = job[i]
          BY <5>1 DEF Deal, JobOK
        <5> QED BY <5>2, <5>3
      <4> QED BY <4>1, <4>2
    <3> QED BY <1>1, <3>1 DEF SeenInv, JobSeen
  <2> QED BY <2>1, <2>2, <2>3 DEF Rule
<1>4. \A w \in Crew : WorkerSeen(w)'
  BY <1>1 DEF SeenInv, WorkerSeen, Seen
<1> QED BY <1>1, <1>2, <1>3, <1>4 DEF SeenInv, Seen, ExceededNest, OnlyOverusersPunished

LEMMA SeenDrain ==
  ASSUME TypeOK, SeenInv, NEW j \in Jobs, Drain(j)
  PROVE  SeenInv'
<1> USE TypeParts
<1>1. UNCHANGED <<exceeded, usage, score, asked, blocked>>
  BY DEF Drain, Enforce, Drained, Done, PopOverLimit, PopOverLimitFails, world, redis, effects
<1>2. \A k \in Keys : over'[k] \subseteq exceeded'[k]
  <2>1. over' = over \/ \E u \in Users : over' = [over EXCEPT ![job[j].key] = @ \ {u}]
    BY DEF Drain, Enforce, Drained, Done, PopOverLimit, PopOverLimitFails, redis
  <2>2. \A k \in Keys : over'[k] \subseteq over[k]
    BY <2>1 DEF RedisOK
  <2> QED BY <1>1, <2>2 DEF SeenInv
<1>3. \A i \in Jobs : JobSeen(i)'
  <2> SUFFICES ASSUME NEW i \in Jobs PROVE JobSeen(i)'
    OBVIOUS
  <2>1. CASE Drained(j)
    <3>1. job'[i] = job[i] \/ (job[j].at = "deal" /\ job'[i].at \in {"deal", "wait"})
      BY <2>1 DEF Drained, Off, JobOK, JobStates
    <3> QED BY <1>1, <3>1 DEF SeenInv, JobSeen
  <2>2. CASE Enforce(j)
    <3>1. PICK first \in Keys : Deal(j, first)
      BY <2>2 DEF Enforce
    <3>2. job'[i] = job[i] \/ job'[i].at = "deal"
      BY <3>1 DEF Deal, JobOK, JobStates
    <3> QED BY <1>1, <3>2 DEF SeenInv, JobSeen
  <2>4. CASE Done(j)
    <3>1. job'[i] = job[i] \/ job'[i].at = "idle"
      BY <2>4 DEF Done, Off, JobOK
    <3> QED BY <1>1, <3>1 DEF SeenInv, JobSeen
  <2>3. CASE job' = job
    BY <1>1, <2>3 DEF SeenInv, JobSeen
  <2> QED BY <2>1, <2>2, <2>3, <2>4 DEF Drain, PopOverLimit, PopOverLimitFails
<1>4. \A w \in Crew : WorkerSeen(w)'
  <2>1. CASE \E u \in Users, i \in Workers : PopOverLimit(j, i, u)
    <3>1. PICK u \in Users, i \in Workers : PopOverLimit(j, i, u)
      BY <2>1
    <3> DEFINE k == job[j].key
               s == [Resting EXCEPT !.at = IF k = "block" THEN "block" ELSE "look", !.user = u]
    <3>2. k \in Keys /\ u \in exceeded[k]
      BY <3>1 DEF PopOverLimit, SeenInv, JobOK, JobStates
    <3>3. worker' = [worker EXCEPT ![<<j, i>>] = s]
      BY <3>1 DEF PopOverLimit
    <3>4. s.user = u /\ s.at = IF k = "block" THEN "block" ELSE "look"
      BY DEF Resting
    <3> HIDE DEF s
    <3>5. \A w \in Crew : worker'[w] = worker[w] \/ worker'[w] = s
      BY <3>3 DEF WorkerOK
    <3> QED BY <1>1, <3>2, <3>4, <3>5 DEF SeenInv, WorkerSeen, Seen, Keys
  <2>2. CASE worker' = worker
    BY <1>1, <2>2 DEF SeenInv, WorkerSeen, Seen
  <2> QED BY <2>1, <2>2 DEF Drain, Enforce, Drained, Done, PopOverLimitFails
<1> QED BY <1>1, <1>2, <1>3, <1>4 DEF SeenInv, Seen, ExceededNest, OnlyOverusersPunished

LEMMA SeenAct ==
  ASSUME TypeOK, SeenInv, NEW w \in Crew, Act(w)
  PROVE  SeenInv'
<1> USE TypeParts DEF Act, Measure, SaveScore, SaveScoreFails, BlockUser, LookAtMachine, TellStop
<1>1. UNCHANGED <<exceeded, usage, over, job>>
  BY DEF world, redis
<1>2. worker[w].user \in Users /\ worker[w] \in WorkerStates
  BY DEF WorkerOK
<1>3. WorkerSeen(w)
  BY DEF SeenInv
<1>4. \A v \in Crew \ {w} : WorkerSeen(v)'
  <2>1. \A v \in Crew \ {w} : worker'[v] = worker[v]
    BY DEF WorkerOK
  <2> QED BY <1>1, <2>1 DEF SeenInv, WorkerSeen, Seen
<1>5. WorkerSeen(w)'
  <2>1. CASE Measure(w)
    <3>1. worker'[w].at = "score" /\ worker'[w].user = worker[w].user
          /\ worker'[w].sum \in {usage[worker[w].user], 0}
      BY <2>1, <1>2 DEF WorkerOK, WorkerStates
    <3> QED BY <1>1, <1>2, <3>1, ZeroIsNotOver DEF SeenInv, WorkerSeen, Seen
  <2>2. CASE worker'[w] = Resting
    BY <2>2 DEF WorkerSeen, Resting
  <2>3. CASE worker'[w] = [worker[w] EXCEPT !.at = "look"] /\ worker[w].at = "block"
    <3>1. worker'[w].at = "look" /\ worker'[w].user = worker[w].user
      BY <2>3, <1>2 DEF WorkerStates
    <3>2. worker[w].user \in exceeded'["stop"]
      BY <1>1, <1>3, <2>3 DEF WorkerSeen, SeenInv, ExceededNest
    <3> QED BY <3>1, <3>2 DEF WorkerSeen
  <2>4. CASE worker'[w] = [worker[w] EXCEPT !.at = "tell"] /\ worker[w].at = "look"
    <3>1. worker'[w].at = "tell" /\ worker'[w].user = worker[w].user
      BY <2>4, <1>2 DEF WorkerStates
    <3>2. worker[w].user \in exceeded'["stop"]
      BY <1>1, <1>3, <2>4 DEF WorkerSeen
    <3> QED BY <3>1, <3>2 DEF WorkerSeen
  <2> QED BY <2>1, <2>2, <2>3, <2>4 DEF WorkerOK
<1>6. \A u \in Users : Seen(u, usage[u])' /\ Seen(u, score[u])'
  <2>1. score' = score \/ (worker[w].at = "score" /\ score' = [score EXCEPT ![worker[w].user] = worker[w].sum])
    BY DEF redis
  <2> QED BY <1>1, <1>2, <1>3, <2>1 DEF SeenInv, Seen, WorkerSeen, RedisOK
<1>7. OnlyOverusersPunished'
  <2>1. /\ asked' = asked \/ (worker[w].at = "tell" /\ asked' = asked \cup {worker[w].user})
        /\ blocked' = blocked \/ (worker[w].at = "block" /\ blocked' = blocked \cup {worker[w].user})
    BY DEF effects
  <2> QED BY <1>1, <1>3, <2>1 DEF SeenInv, OnlyOverusersPunished, WorkerSeen
<1>8. \A j \in Jobs : JobSeen(j)'
  BY <1>1 DEF SeenInv, JobSeen
<1> QED BY <1>1, <1>4, <1>5, <1>6, <1>7, <1>8 DEF SeenInv, ExceededNest

LEMMA SeenRest ==
  ASSUME TypeOK, SeenInv, Restart \/ UNCHANGED vars
  PROVE  SeenInv'
<1>1. UNCHANGED <<exceeded, usage, score, over, asked, blocked>>
  BY DEF Restart, vars, world, redis, effects
<1>2. \A w \in Crew : WorkerSeen(w)'
  BY <1>1 DEF Restart, vars, Resting, SeenInv, WorkerSeen, Seen
<1>3. \A j \in Jobs : JobSeen(j)'
  BY <1>1 DEF Restart, vars, Off, SeenInv, JobSeen
<1> QED BY <1>1, <1>2, <1>3 DEF SeenInv, Seen, ExceededNest, OnlyOverusersPunished

(* Whoever is stopped or blocked did exceed the limit: nothing that fails, *)
(* is lost or comes late makes an over-user of somebody else (act).        *)
THEOREM OnlyOverusersArePunished == Spec => []OnlyOverusersPunished
<1>1. TypeOK /\ SeenInv /\ [Next]_vars => SeenInv'
  <2> SUFFICES ASSUME TypeOK, SeenInv, [Next]_vars PROVE SeenInv'
    OBVIOUS
  <2> QED BY SeenSend, SeenOutside, SeenFetch, SeenRule, SeenDrain, SeenAct, SeenRest DEF Next, Owner
<1>2. SeenInv => OnlyOverusersPunished
  BY DEF SeenInv
<1> QED BY SeenInit, <1>1, <1>2, TypeCorrect, PTL DEF Spec

-----------------------------------------------------------------------------
(* Scores are never too high.                                              *)

\* What a worker measured in this week is no more than was used in it.
SumFits(w) ==
  worker[w].at = "score" =>
    /\ worker[w].week <= week
    /\ worker[w].week = week => worker[w].sum <= usage[worker[w].user]
ScoreInv == ScoreNeverInflated /\ \A w \in Crew : SumFits(w)

LEMMA ScoreInit == Init => ScoreInv
BY DEF Init, ScoreInv, ScoreNeverInflated, SumFits, Resting

LEMMA ScoreOutside ==
  ASSUME TypeOK, ScoreInv,
         (\E u \in Users : Owner(u) \/ KloudStops(u)) \/ NewWeek \/ QueueUsernamesForMetricGet
  PROVE  ScoreInv'
<1> USE TypeParts
<1>1. UNCHANGED <<worker, straddled>>
  BY DEF Owner, Send, Start, KloudStops, NewWeek, QueueUsernamesForMetricGet
<1>2. CASE week' = week
  <2>1. score' = score /\ \A u \in Users : usage'[u] \in Nat /\ usage[u] <= usage'[u]
    BY <1>2 DEF Owner, Send, Start, KloudStops, NewWeek, QueueUsernamesForMetricGet, world, redis,
                WorldOK, Usages
  <2>2. \A w \in Crew : SumFits(w)'
    <3> SUFFICES ASSUME NEW w \in Crew PROVE SumFits(w)'
      OBVIOUS
    <3>1. worker[w].at = "score" => worker[w].user \in Users /\ worker[w].sum \in Nat
      BY DEF WorkerOK, WorkerStates, Usages
    <3> QED BY <1>1, <1>2, <2>1, <3>1 DEF ScoreInv, SumFits, WorldOK, Usages
  <2>3. ScoreNeverInflated'
    BY <1>1, <2>1 DEF ScoreInv, ScoreNeverInflated, WorldOK, RedisOK, Usages
  <2> QED BY <2>2, <2>3 DEF ScoreInv
<1>3. CASE NewWeek
  <2>1. week' = week + 1 /\ week \in Nat /\ \A u \in Users : usage'[u] = 0 /\ score'[u] = 0
    BY <1>3, WatcherAssumption DEF NewWeek, WorldOK
  <2>2. \A w \in Crew : SumFits(w)'
    <3> SUFFICES ASSUME NEW w \in Crew PROVE SumFits(w)'
      OBVIOUS
    <3>1. worker[w].week \in Nat
      BY WatcherAssumption DEF WorkerOK, WorkerStates
    <3> QED BY <1>1, <2>1, <3>1 DEF ScoreInv, SumFits
  <2>3. ScoreNeverInflated'
    BY <2>1 DEF ScoreNeverInflated
  <2> QED BY <2>2, <2>3 DEF ScoreInv
<1> QED BY <1>2, <1>3 DEF Owner, Send, Start, KloudStops, QueueUsernamesForMetricGet, world

LEMMA ScoreJobs ==
  ASSUME TypeOK, ScoreInv, NEW j \in Jobs, Fetch(j) \/ Rule(j) \/ Drain(j)
  PROVE  ScoreInv'
<1> USE TypeParts
<1>1. UNCHANGED <<score, usage, week, straddled>>
  BY DEF Fetch, Collect, PopForMetricGet, PopForMetricGetFails, Fetched, Rule, QueueOverlimitUsers,
         Judge, Queue, Drain, Enforce, Drained, Done, PopOverLimit, PopOverLimitFails, world, redis
<1>2. \A w \in Crew : worker'[w] = worker[w] \/ worker'[w].at # "score"
  <2>1. CASE Fetch(j)
    BY <2>1 DEF Fetch, Collect, PopForMetricGet, PopForMetricGetFails, Fetched, WorkerOK, Resting
  <2>2. CASE Rule(j)
    BY <2>2 DEF Rule, QueueOverlimitUsers, Judge, Queue
  <2>3. CASE Drain(j)
    BY <2>3 DEF Drain, Enforce, Drained, Done, PopOverLimit, PopOverLimitFails, WorkerOK, Resting
  <2> QED BY <2>1, <2>2, <2>3
<1> QED BY <1>1, <1>2 DEF ScoreInv, ScoreNeverInflated, SumFits

LEMMA ScoreAct ==
  ASSUME TypeOK, ScoreInv, NEW w \in Crew, Act(w)
  PROVE  ScoreInv'
<1> USE TypeParts
<1>1. UNCHANGED <<usage, week>>
  BY DEF Act, Measure, SaveScore, SaveScoreFails, BlockUser, LookAtMachine, TellStop, world
<1>2. worker[w].user \in Users /\ worker[w] \in WorkerStates
  BY DEF Act, Measure, SaveScore, SaveScoreFails, BlockUser, LookAtMachine, TellStop, WorkerOK
<1>3. \A v \in Crew \ {w} : SumFits(v)'
  <2>1. \A v \in Crew \ {w} : worker'[v] = worker[v]
    BY DEF Act, Measure, SaveScore, SaveScoreFails, BlockUser, LookAtMachine, TellStop, WorkerOK
  <2> QED BY <1>1, <2>1 DEF ScoreInv, SumFits
<1>4. SumFits(w)'
  <2>1. CASE Measure(w)
    <3>1. /\ worker'[w].week = week /\ worker'[w].user = worker[w].user
          /\ worker'[w].sum \in {usage[worker[w].user], 0}
      BY <2>1, <1>2 DEF Measure, WorkerOK, WorkerStates
    <3>2. usage[worker[w].user] \in Nat /\ week \in Nat
      BY <1>2, WatcherAssumption DEF WorldOK, Usages
    <3> QED BY <1>1, <3>1, <3>2 DEF SumFits
  <2>2. CASE ~Measure(w)
    <3>1. worker'[w].at # "score"
      BY <2>2 DEF Act, SaveScore, SaveScoreFails, BlockUser, LookAtMachine, TellStop, WorkerOK, WorkerStates, Resting
    <3> QED BY <3>1 DEF SumFits
  <2> QED BY <2>1, <2>2
<1>5. ScoreNeverInflated'
  <2>1. CASE SaveScore(w)
    <3>1. score' = [score EXCEPT ![worker[w].user] = worker[w].sum] /\ straddled \subseteq straddled'
          /\ (worker[w].week # week => worker[w].user \in straddled') /\ worker[w].at = "score"
      BY <2>1 DEF SaveScore, Straddle
    <3>2. worker[w].week = week => worker[w].sum <= usage[worker[w].user]
      BY <3>1 DEF ScoreInv, SumFits
    <3> QED BY <1>1, <1>2, <3>1, <3>2 DEF ScoreInv, ScoreNeverInflated, RedisOK
  <2>2. CASE UNCHANGED <<score, straddled>>
    BY <1>1, <2>2 DEF ScoreInv, ScoreNeverInflated
  <2> QED BY <2>1, <2>2 DEF Act, Measure, SaveScoreFails, BlockUser, LookAtMachine, TellStop, redis
<1> QED BY <1>3, <1>4, <1>5 DEF ScoreInv

LEMMA ScoreRest ==
  ASSUME TypeOK, ScoreInv, Restart \/ UNCHANGED vars
  PROVE  ScoreInv'
BY DEF Restart, vars, world, redis, Resting, ScoreInv, ScoreNeverInflated, SumFits

(* This week's scores never exceed this week's usage, except of users who  *)
(* were measured in one week and scored in the next (SaveScore).           *)
THEOREM ScoresAreNeverInflated == Spec => []ScoreNeverInflated
<1>1. TypeOK /\ ScoreInv /\ [Next]_vars => ScoreInv'
  <2> SUFFICES ASSUME TypeOK, ScoreInv, [Next]_vars PROVE ScoreInv'
    OBVIOUS
  <2> QED BY ScoreOutside, ScoreJobs, ScoreAct, ScoreRest DEF Next
<1>2. ScoreInv => ScoreNeverInflated
  BY DEF ScoreInv
<1> QED BY ScoreInit, <1>1, <1>2, TypeCorrect, PTL DEF Spec
=============================================================================
