-------------------------- MODULE MC_KloudMachine --------------------------
(***************************************************************************)
(* Small instances of KloudMachine: two kloud processes; the tasks of each *)
(* run come from its cfg.                                                  *)
(***************************************************************************)
EXTENDS KloudMachine, TLC

CONSTANTS k1, k2, c1, c2, q1, i1

(* c1 lives in the first process, everything else in the second: two core  *)
(* methods never share an eventer map but always share the document.       *)
MCHome == [t \in Tasks |-> IF t = c1 THEN k1 ELSE k2]

(* Both core methods in one process, sharing Kloud.Eventers.               *)
MCOneHome == [t \in Tasks |-> k1]
=============================================================================
