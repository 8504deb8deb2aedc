---------------------------- MODULE MC_VmWatcher ---------------------------
(***************************************************************************)
(* Small instances of VmWatcher.  The limits keep the order of those in    *)
(* the code: stop, block and their doubles.                                *)
(***************************************************************************)
EXTENDS VmWatcher, TLC

CONSTANTS free, payer, c1, e1, w1

TwoLimits == "stop" :> 0 @@ "block" :> 1
NoCustom == <<>>
=============================================================================
