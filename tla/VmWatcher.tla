----------------------------- MODULE VmWatcher -----------------------------
(***************************************************************************)
(* vmwatcher: measures what users' machines send, and stops the machines   *)
(* of users over a weekly limit, or blocks them when far over it.          *)
(*                                                                         *)
(* Timed jobs communicate through sets in redis, so that several may work  *)
(* at a time: users to measure, and for each limit the users over it.  A   *)
(* user is popped, looked up and handed to a worker; nothing acknowledges  *)
(* it, and a user whose lookup failed or whose worker died is forgotten    *)
(* until queued again.  Scores are kept per week.                          *)
(*                                                                         *)
(* Every user has one machine.  Mongo, redis, CloudWatch and kloud may     *)
(* fail; kloud stops a machine some time after it was asked to.            *)
(***************************************************************************)
EXTENDS Integers, FiniteSets

CONSTANTS
  Users,
  Paid,          \* those on a paid plan
  Exempt,        \* ExemptUsers
  Custom,        \* the limits some users have of their own
  Limits,        \* the limit for each of Keys
  PaidMultiplier,
  Collectors,    \* runs of the job that measures, judges and deals
  Enforcers,     \* runs of the job that only deals
  Workers,       \* goroutines of each run
  NoUser,
  MaxUsage, MaxWeeks, MaxFaults  \* bounds; a restart is a fault too

Keys == {"stop", "block"}
Jobs == Collectors \cup Enforcers
Crew == Jobs \X Workers
Usages == 0 .. MaxUsage

ASSUME WatcherAssumption ==
  /\ Paid \subseteq Users /\ Exempt \subseteq Users /\ NoUser \notin Users
  /\ DOMAIN Custom \subseteq Users /\ \A u \in DOMAIN Custom : Custom[u] \in Nat
  /\ Limits \in [Keys -> Nat] /\ Limits["stop"] <= Limits["block"]
  /\ PaidMultiplier \in Nat \ {0}
  /\ Collectors \cap Enforcers = {}
  /\ MaxUsage \in Nat /\ MaxWeeks \in Nat /\ MaxFaults \in Nat

VARIABLES
  running,   \* the users whose machine is Running
  usage,     \* what it sent this week
  week,
  score,     \* the sorted set of this week
  toGet,     \* the set queue:get
  over,      \* the sets queue:stop and queue:block
  job,       \* what each run does
  worker,    \* what each of its workers does
  asked,     \* the users whose machine kloud was asked to stop
  blocked,   \* the users blocked
  faults,    \* failures and restarts so far
  exceeded,  \* history: for each limit, the users who ever exceeded it
  straddled  \* history: the users measured in one week and scored in the next

vars == <<running, usage, week, score, toGet, over, job, worker, asked, blocked,
          faults, exceeded, straddled>>
world == <<running, usage, week, exceeded>>
redis == <<score, toGet, over>>
effects == <<asked, blocked>>

Resting == [at |-> "idle", user |-> NoUser, sum |-> 0, week |-> 0]
Off == [at |-> "idle", key |-> "stop", keys |-> {}, found |-> {}]

Init ==
  /\ running = Users /\ usage = [u \in Users |-> 0] /\ week = 0
  /\ score = [u \in Users |-> 0] /\ toGet = {} /\ over = [k \in Keys |-> {}]
  /\ job = [j \in Jobs |-> Off] /\ worker = [w \in Crew |-> Resting]
  /\ asked = {} /\ blocked = {} /\ faults = 0
  /\ exceeded = [k \in Keys |-> {}] /\ straddled = {}

Fault == faults < MaxFaults /\ faults' = faults + 1
Free(w) == worker[w].at = "idle"
Waited(j) == \A i \in Workers : Free(<<j, i>>)

------------------------------------------------------------------------------
(* The limits                                                              *)

\* getUserLimit: a limit of the user's own replaces every other.
UserLimit(u, k) ==
  IF u \in DOMAIN Custom THEN Custom[u]
  ELSE IF u \in Paid THEN Limits[k] * PaidMultiplier ELSE Limits[k]

\* Mutant: a user who has reached the limit is over it.
IsUserAtLimit(u, k, value) == u \notin Exempt /\ value >= UserLimit(u, k)

IsUserOverLimit(u, k, value) == u \notin Exempt /\ value > UserLimit(u, k)

\* The users GetFromScore returns are those the limit for free users is reached by.
OverLimit(k) == {u \in Users : score[u] >= Limits[k] /\ IsUserOverLimit(u, k, score[u])}

\* What the limits are meant to catch.
TrulyOver(u, k, value) ==
  u \notin Exempt /\ value >= Limits[k] /\ value > UserLimit(u, k)

------------------------------------------------------------------------------
(* The users, the weeks and kloud                                          *)

Send(u) ==
  /\ u \in running /\ usage[u] < MaxUsage
  /\ usage' = [usage EXCEPT ![u] = @ + 1]
  /\ exceeded' = [k \in Keys |-> exceeded[k] \cup {v \in {u} : TrulyOver(u, k, usage'[u])}]
  /\ UNCHANGED <<running, week, redis, job, worker, effects, faults, straddled>>

Start(u) ==
  /\ u \notin running /\ running' = running \cup {u}
  /\ UNCHANGED <<usage, week, exceeded, redis, job, worker, effects, faults, straddled>>

\* usersPrefix: the week is part of the key the scores are saved under.
NewWeek ==
  /\ week < MaxWeeks /\ week' = week + 1
  /\ usage' = [u \in Users |-> 0] /\ score' = [u \in Users |-> 0]
  /\ UNCHANGED <<running, exceeded, toGet, over, job, worker, effects, faults, straddled>>

KloudStops(u) ==
  /\ u \in asked /\ asked' = asked \ {u} /\ running' = running \ {u}
  /\ UNCHANGED <<usage, week, exceeded, redis, job, worker, blocked, faults, straddled>>

------------------------------------------------------------------------------
(* Measuring                                                               *)

QueueUsernamesForMetricGet ==
  /\ toGet' = toGet \cup running
  /\ UNCHANGED <<world, score, over, job, worker, effects, faults, straddled>>

Collect(j) ==
  /\ j \in Collectors /\ job[j].at = "idle" /\ job' = [job EXCEPT ![j].at = "fetch"]
  /\ UNCHANGED <<world, redis, worker, effects, faults, straddled>>

PopForMetricGet(j, i, u) ==
  /\ job[j].at = "fetch" /\ u \in toGet /\ Free(<<j, i>>)
  /\ toGet' = toGet \ {u}
  /\ worker' = [worker EXCEPT ![<<j, i>>] = [Resting EXCEPT !.at = "measure", !.user = u]]
  /\ UNCHANGED <<world, score, over, job, effects, faults, straddled>>

\* Any error, of the pop or of the lookup, is taken for the end of the queue.
PopForMetricGetFails(j, u) ==
  /\ job[j].at = "fetch" /\ u \in toGet /\ Fault
  /\ toGet' \in {toGet, toGet \ {u}} /\ job' = [job EXCEPT ![j].at = "fetched"]
  /\ UNCHANGED <<world, score, over, worker, effects, straddled>>

Fetched(j) ==
  /\ job[j].at = "fetch" /\ toGet = {} /\ job' = [job EXCEPT ![j].at = "fetched"]
  /\ UNCHANGED <<world, redis, worker, effects, faults, straddled>>

\* GetAndSaveData: a machine that cannot be measured counts nothing.
Measure(w) ==
  /\ worker[w].at = "measure"
  /\ \E sum \in {usage[worker[w].user], 0} :
       /\ (sum = usage[worker[w].user] /\ UNCHANGED faults) \/ (sum = 0 /\ Fault)
       /\ worker' = [worker EXCEPT ![w].at = "score", ![w].sum = sum, ![w].week = week]
  /\ UNCHANGED <<world, redis, job, effects, straddled>>

Straddle(w) ==
  straddled' = IF worker[w].week = week THEN straddled ELSE straddled \cup {worker[w].user}

\* Mutant: what was measured is added to the score.
SaveScoreAdds(w) ==
  /\ worker[w].at = "score"
  /\ score' = [score EXCEPT ![worker[w].user] = @ + worker[w].sum]
  /\ worker' = [worker EXCEPT ![w] = Resting]
  /\ Straddle(w)
  /\ UNCHANGED <<world, toGet, over, job, effects, faults>>

\* The key is that of the week it is saved in.
SaveScore(w) ==
  /\ worker[w].at = "score"
  /\ score' = [score EXCEPT ![worker[w].user] = worker[w].sum]
  /\ worker' = [worker EXCEPT ![w] = Resting]
  /\ Straddle(w)
  /\ UNCHANGED <<world, toGet, over, job, effects, faults>>

SaveScoreFails(w) ==
  /\ worker[w].at = "score" /\ Fault
  /\ worker' = [worker EXCEPT ![w] = Resting]
  /\ UNCHANGED <<world, redis, job, effects, straddled>>

------------------------------------------------------------------------------
(* Judging                                                                 *)

\* Mutant: only the higher limit is looked at.
QueueUsersToBlock(j) ==
  /\ job[j].at = "fetched" /\ Waited(j)
  /\ job' = [job EXCEPT ![j].at = "judge", ![j].keys = {"block"}]
  /\ UNCHANGED <<world, redis, worker, effects, faults, straddled>>

QueueOverlimitUsers(j) ==
  /\ job[j].at = "fetched" /\ Waited(j)
  /\ job' = [job EXCEPT ![j].at = "judge", ![j].keys = Keys]
  /\ UNCHANGED <<world, redis, worker, effects, faults, straddled>>

\* The scores are read.  A user whose limit cannot be read is passed over, and one
\* whose plan is unknown counts as paid.
Judge(j, k) ==
  /\ job[j].at = "judge" /\ k \in job[j].keys
  /\ \E found \in SUBSET OverLimit(k) :
       /\ (found = OverLimit(k) /\ UNCHANGED faults) \/ Fault
       /\ job' = [job EXCEPT ![j].at = "queue", ![j].key = k, ![j].keys = @ \ {k},
                             ![j].found = found]
  /\ UNCHANGED <<world, redis, worker, effects, straddled>>

\* Deal(j) begins with any limit: the map is ranged over in no order.
Deal(j, k) ==
  job' = [job EXCEPT ![j].at = "deal", ![j].key = k, ![j].keys = Keys \ {k}, ![j].found = {}]

Queue(j) ==
  LET k == job[j].key IN
  /\ job[j].at = "queue"
  /\ over' = [over EXCEPT ![k] = @ \cup job[j].found]
  /\ IF job[j].keys # {}
       THEN job' = [job EXCEPT ![j] = [Off EXCEPT !.at = "judge", !.keys = job[j].keys]]
       ELSE \E first \in Keys : Deal(j, first)
  /\ UNCHANGED <<world, score, toGet, worker, effects, faults, straddled>>

------------------------------------------------------------------------------
(* Dealing                                                                 *)

Enforce(j) ==
  /\ j \in Enforcers /\ job[j].at = "idle" /\ \E first \in Keys : Deal(j, first)
  /\ UNCHANGED <<world, redis, worker, effects, faults, straddled>>

PopOverLimit(j, i, u) ==
  LET k == job[j].key IN
  /\ job[j].at = "deal" /\ u \in over[k] /\ Free(<<j, i>>)
  /\ over' = [over EXCEPT ![k] = @ \ {u}]
  /\ worker' = [worker EXCEPT ![<<j, i>>] =
                  [Resting EXCEPT !.at = IF k = "block" THEN "block" ELSE "look", !.user = u]]
  /\ UNCHANGED <<world, score, toGet, job, effects, faults, straddled>>

\* The user was popped, and the next one is.
PopOverLimitFails(j, u) ==
  LET k == job[j].key IN
  /\ job[j].at = "deal" /\ u \in over[k] /\ Fault
  /\ over' = [over EXCEPT ![k] = @ \ {u}]
  /\ UNCHANGED <<world, score, toGet, job, worker, effects, straddled>>

Drained(j) ==
  /\ job[j].at = "deal" /\ over[job[j].key] = {}
  /\ \/ \E k \in job[j].keys : job' = [job EXCEPT ![j].key = k, ![j].keys = @ \ {k}]
     \/ job[j].keys = {} /\ job' = [job EXCEPT ![j] = [Off EXCEPT !.at = "wait"]]
  /\ UNCHANGED <<world, redis, worker, effects, faults, straddled>>

Done(j) ==
  /\ job[j].at = "wait" /\ Waited(j) /\ job' = [job EXCEPT ![j] = Off]
  /\ UNCHANGED <<world, redis, worker, effects, faults, straddled>>

\* Mutant: the user to stop is not passed on.
BlockUserForgets(w) ==
  /\ worker[w].at = "block"
  /\ blocked' = blocked \cup {worker[w].user}
  /\ worker' = [worker EXCEPT ![w] = [Resting EXCEPT !.at = "look"]]
  /\ UNCHANGED <<world, redis, job, asked, faults, straddled>>

BlockUser(w) ==
  /\ worker[w].at = "block"
  /\ \/ /\ blocked' = blocked \cup {worker[w].user}
        /\ worker' = [worker EXCEPT ![w].at = "look"] /\ UNCHANGED faults
     \/ Fault /\ worker' = [worker EXCEPT ![w] = Resting] /\ UNCHANGED blocked
  /\ UNCHANGED <<world, redis, job, asked, straddled>>

\* stopVMIfRunning: the status is read, then kloud is asked.
LookAtMachine(w) ==
  /\ worker[w].at = "look"
  /\ \/ worker[w].user \in running /\ worker' = [worker EXCEPT ![w].at = "tell"] /\ UNCHANGED faults
     \/ worker[w].user \notin running /\ worker' = [worker EXCEPT ![w] = Resting] /\ UNCHANGED faults
     \/ Fault /\ worker' = [worker EXCEPT ![w] = Resting]
  /\ UNCHANGED <<world, redis, job, effects, straddled>>

\* A refusal and a timeout are logged.
TellStop(w) ==
  /\ worker[w].at = "tell"
  /\ \/ asked' = asked \cup {worker[w].user} /\ UNCHANGED faults
     \/ Fault /\ UNCHANGED asked
  /\ worker' = [worker EXCEPT ![w] = Resting]
  /\ UNCHANGED <<world, redis, job, blocked, straddled>>

------------------------------------------------------------------------------
(* The process is killed, or ends itself on an error, and starts again     *)
Restart ==
  /\ Fault
  /\ job' = [j \in Jobs |-> Off] /\ worker' = [w \in Crew |-> Resting]
  /\ UNCHANGED <<world, redis, effects, straddled>>

Owner(u) == Send(u) \/ Start(u)
Fetch(j) ==
  \/ Collect(j) \/ Fetched(j)
  \/ \E u \in Users : PopForMetricGetFails(j, u) \/ \E i \in Workers : PopForMetricGet(j, i, u)
Rule(j) == QueueOverlimitUsers(j) \/ (\E k \in Keys : Judge(j, k)) \/ Queue(j)
Drain(j) ==
  \/ Enforce(j) \/ Drained(j) \/ Done(j)
  \/ \E u \in Users : PopOverLimitFails(j, u) \/ \E i \in Workers : PopOverLimit(j, i, u)
Act(w) ==
  \/ Measure(w) \/ SaveScore(w) \/ SaveScoreFails(w)
  \/ BlockUser(w) \/ LookAtMachine(w) \/ TellStop(w)

Next ==
  \/ \E u \in Users : Owner(u) \/ KloudStops(u)
  \/ NewWeek
  \/ QueueUsernamesForMetricGet
  \/ \E j \in Jobs : Fetch(j) \/ Rule(j) \/ Drain(j)
  \/ \E w \in Crew : Act(w)
  \/ Restart

Spec == Init /\ [][Next]_vars

\* The timer starts the jobs again and again, goroutines run, kloud stops what it was
\* asked to, and a queue that is refilled every four minutes runs dry in between.
FairSpec ==
  /\ Spec
  /\ WF_vars(QueueUsernamesForMetricGet)
  /\ \A j \in Jobs : WF_vars(Fetch(j) \/ Rule(j) \/ Drain(j))
  /\ \A j \in Collectors : SF_vars(Fetched(j))
  /\ \A w \in Crew : WF_vars(Act(w))
  /\ \A u \in Users : WF_vars(KloudStops(u))

------------------------------------------------------------------------------
(* Properties                                                              *)

(* Type invariant: the state keeps its shape, and a worker at work has a   *)
(* user.                                                                   *)
TypeOK ==
  /\ running \subseteq Users /\ usage \in [Users -> Usages] /\ week \in 0 .. MaxWeeks
  /\ score \in [Users -> Usages] /\ toGet \subseteq Users /\ over \in [Keys -> SUBSET Users]
  /\ job \in [Jobs -> [at : {"idle", "fetch", "fetched", "judge", "queue", "deal", "wait"},
                       key : Keys, keys : SUBSET Keys, found : SUBSET Users]]
  /\ worker \in [Crew -> [at : {"idle", "measure", "score", "block", "look", "tell"},
                          user : Users \cup {NoUser}, sum : Usages, week : 0 .. MaxWeeks]]
  /\ \A w \in Crew : worker[w].at # "idle" => worker[w].user \in Users
  /\ asked \subseteq Users /\ blocked \subseteq Users
  /\ faults \in 0 .. MaxFaults
  /\ exceeded \in [Keys -> SUBSET Users] /\ straddled \subseteq Users

(* Only users who did exceed the limit, in this week or an earlier one,    *)
(* are stopped or blocked: a failed measurement, a lost user, a restart or *)
(* a late answer never turns another user into one (GetAndSaveData,        *)
(* GetMachinesOverLimit, act).                                             *)
OnlyOverusersPunished == asked \subseteq exceeded["stop"] /\ blocked \subseteq exceeded["block"]

(* The score of this week never exceeds what was used this week, unless a  *)
(* measurement of last week was saved in this one (SaveScore, usersPrefix). *)
ScoreNeverInflated == \A u \in Users \ straddled : score[u] <= usage[u]

(* The machine of a user over the limit does not run for ever, even if     *)
(* users are popped and lost, as long as failures end and no week begins   *)
(* (dealWithMachinesOverLimit).                                            *)
OverusersStopped == \A u \in Users : []<>(u \notin running \/ ~TrulyOver(u, "stop", usage[u]))
=============================================================================
