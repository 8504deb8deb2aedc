--------------------------- MODULE MC_KloudStack ---------------------------
(***************************************************************************)
(* Small instances of KloudStack: one request at a time, or two that       *)
(* overlap in one process or in two.                                       *)
(***************************************************************************)
EXTENDS KloudStack, TLC

CONSTANTS k1, k2, t1, t2

MCHome == [t \in Tasks |-> IF t = t1 THEN k1 ELSE k2]

MCOneHome == [t \in Tasks |-> k1]
=============================================================================
