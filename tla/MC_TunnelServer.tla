-------------------------- MODULE MC_TunnelServer --------------------------
(***************************************************************************)
(* Small instances of TunnelServer.                                        *)
(***************************************************************************)
EXTENDS TunnelServer, TLC

CONSTANTS i1, i2, i3, v1, v2, ssh

(* A client asks for any port, or wants a port of the range, old or not.   *)
MCRequests == {[port |-> None, restore |-> FALSE]}
                \cup [port : {From}, restore : BOOLEAN]

MCSymmetry == Permutations(Idents) \cup Permutations(VHosts)
=============================================================================
