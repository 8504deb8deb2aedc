----------------------------- MODULE MachineLock -----------------------------
(***************************************************************************)
(* What kloud promises about the lock of a machine document: it passes     *)
(* from nobody to one client and back, never from one client to another.   *)
(* A client that dies, or whose unlocking write is lost, leaves the lock   *)
(* to Orphan, and nothing in kloud takes it from there.                    *)
(***************************************************************************)
CONSTANTS Clients, Nobody, Orphan

VARIABLE holder

Init == holder = Nobody

Acquire(c) == holder = Nobody /\ holder' = c
Release(c) == holder = c /\ holder' = Nobody
Abandon(c) == holder = c /\ holder' = Orphan

Next == \E c \in Clients : Acquire(c) \/ Release(c) \/ Abandon(c)

Spec == Init /\ [][Next]_holder
=============================================================================
