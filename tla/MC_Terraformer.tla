-------------------------- MODULE MC_Terraformer ---------------------------
(***************************************************************************)
(* Small instances of Terraformer.                                         *)
(***************************************************************************)
EXTENDS Terraformer, TLC

CONSTANTS t1, t2, c1, r1, r2

(* Two requests that contend for one content.                              *)
MCSame == [t \in Tasks |-> c1]

(* Requests for the same content are interchangeable, and so are the ids   *)
(* of resources.                                                           *)
MCSymmetry == Permutations(Tasks) \cup Permutations(Resources)
=============================================================================
