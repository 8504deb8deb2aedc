-------------------------- MODULE MC_KlientMounts --------------------------
(***************************************************************************)
(* Small instances of KlientMounts.                                        *)
(***************************************************************************)
EXTENDS KlientMounts

CONSTANTS m1, m2, p1, p2, t1, t2, home

=============================================================================
