--------------------------- MODULE StackLifecycle ---------------------------
(***************************************************************************)
(* What package stackstate promises about a stack: an ongoing process      *)
(* starts from a settled state only, building ends in Initialized or goes  *)
(* back to NotInitialized, and destroying ends with the stack gone.        *)
(***************************************************************************)
CONSTANT Deleted

VARIABLE state

Settled    == {"NotInitialized", "Initialized"}
InProgress == {"Building", "Destroying"}

Init == state \in Settled

Begin   == state \in Settled /\ state' \in InProgress
Built   == state = "Building" /\ state' \in Settled
Removed == state = "Destroying" /\ state' = Deleted

Next == Begin \/ Built \/ Removed

Spec == Init /\ [][Next]_state
=============================================================================
