---------------------------- MODULE MachineState ----------------------------
(***************************************************************************)
(* The machine states a jMachines document can hold and the two tables     *)
(* kloud decides with: which methods a state admits                        *)
(* (machinestate.State.ValidMethods) and which state a method ends in      *)
(* (the "states" map of stack/controller.go).                              *)
(***************************************************************************)

States ==
  {"Unknown", "NotInitialized", "Building", "Starting", "Running", "Stopping",
   "Stopped", "Rebooting", "Terminating", "Terminated", "Snapshotting",
   "Pending"}

InProgress ==
  {"Building", "Starting", "Stopping", "Terminating", "Rebooting", "Pending"}

AllMethods ==
  {"build", "start", "stop", "destroy", "restart", "resize", "reinit",
   "createSnapshot", "deleteSnapshot"}

(* What a method reports when it succeeds. *)
FinalState(m) ==
  CASE m = "stop"    -> "Stopped"
    [] m = "destroy" -> "Terminated"
    [] OTHER         -> "Running"

(* Every in-progress state falls in the last case: nothing is admitted.    *)
ValidMethods(s) ==
  LET common == {"resize", "destroy", "reinit", "createSnapshot",
                 "deleteSnapshot"}
  IN  CASE s = "NotInitialized" -> {"build", "destroy"}
        [] s = "Running"        -> common \cup {"stop", "restart"}
        [] s = "Stopped"        -> common \cup {"start"}
        [] s = "Terminated"     -> {"build"}
        [] OTHER                -> {}

(* The states of an EC2 instance, "missing" once EC2 no longer knows it,   *)
(* and what kloud reads them as (amazon.StatusToState).                    *)
InstanceStates ==
  {"pending", "running", "stopping", "stopped", "shutting-down", "terminated",
   "missing"}

StatusToState(i) ==
  CASE i = "pending"       -> "Starting"
    [] i = "running"       -> "Running"
    [] i = "stopping"      -> "Stopping"
    [] i = "stopped"       -> "Stopped"
    [] i = "shutting-down" -> "Terminating"
    [] i = "terminated"    -> "Terminated"
    [] OTHER               -> "Unknown"
=============================================================================
