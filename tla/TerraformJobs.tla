---------------------------- MODULE TerraformJobs ---------------------------
(***************************************************************************)
(* What terraformer promises kloud about its jobs.  Those for one content  *)
(* run one at a time.  Only a job changes the resources of its content,    *)
(* and only in the direction it was asked for, and only a job changes the  *)
(* record the next one starts from.  A client is told of success when its  *)
(* job had ended well: after an apply there are resources, all those on    *)
(* record exist, and after a destroy none is on record.                    *)
(*                                                                         *)
(* The process may give jobs up, which are then out of hand until it ends, *)
(* and it may end at any time, with every job and every answer.            *)
(***************************************************************************)
CONSTANTS
  Requests,
  Contents,
  Asks       \* the content of each request

VARIABLES
  jobs,      \* the jobs that run, each a request and what it asks for
  resources, \* the resources of each content
  state,     \* those on record
  good,      \* jobs that ended well and were not answered yet
  told,      \* requests that were told of success
  abandoned  \* whether jobs were given up

vars == <<jobs, resources, state, good, told, abandoned>>

Jobs == [request : Requests, kind : {"plan", "apply", "destroy"}]

Content(j) == Asks[j.request]

(* Only the entry of content c changes.                                    *)
Only(c, new, old) == new = [old EXCEPT ![c] = new[c]]

Init ==
  /\ jobs = {} /\ good = {} /\ told = {} /\ abandoned = FALSE
  /\ resources = [c \in Contents |-> {}]
  /\ state = [c \in Contents |-> {}]

Begin(j) ==
  /\ \A i \in jobs : Content(i) # Content(j)
  /\ \A i \in good : i.request # j.request
  /\ jobs' = jobs \cup {j}
  /\ told' = told \ {j.request}
  /\ UNCHANGED <<resources, state, good, abandoned>>

Work(j) ==
  LET c == Content(j)
  IN  /\ Only(c, resources', resources)
      /\ j.kind # "apply" => resources'[c] \subseteq resources[c]
      /\ j.kind # "destroy" => resources[c] \subseteq resources'[c]
      /\ UNCHANGED <<jobs, state, good, told, abandoned>>

Record(j) ==
  /\ Only(Content(j), state', state)
  /\ UNCHANGED <<jobs, resources, good, told, abandoned>>

Done(j) ==
  LET c == Content(j)
  IN  /\ j.kind = "apply" => state[c] # {} /\ state[c] \subseteq resources[c]
      /\ j.kind = "destroy" => state[c] = {}

EndWell(j) ==
  /\ Done(j) \/ abandoned
  /\ jobs' = jobs \ {j} /\ good' = good \cup {j}
  /\ UNCHANGED <<resources, state, told, abandoned>>

EndBadly(j) ==
  /\ jobs' = jobs \ {j}
  /\ UNCHANGED <<resources, state, good, told, abandoned>>

Tell(j) ==
  /\ good' = good \ {j}
  /\ told' = told \cup {j.request}
  /\ UNCHANGED <<jobs, resources, state, abandoned>>

Refuse(j) ==
  /\ good' = good \ {j}
  /\ UNCHANGED <<jobs, resources, state, told, abandoned>>

Abandon == abandoned' = TRUE /\ UNCHANGED <<jobs, resources, state, good, told>>

Stray == abandoned /\ UNCHANGED <<jobs, state, good, told, abandoned>>

End ==
  /\ jobs' = {} /\ good' = {} /\ told' = {} /\ abandoned' = FALSE
  /\ UNCHANGED <<resources, state>>

Next ==
  \/ \E j \in jobs : Work(j) \/ Record(j) \/ EndWell(j) \/ EndBadly(j)
  \/ \E j \in good : Tell(j) \/ Refuse(j)
  \/ \E j \in Jobs : Begin(j)
  \/ Abandon \/ Stray \/ End

Spec == Init /\ [][Next]_vars
=============================================================================
