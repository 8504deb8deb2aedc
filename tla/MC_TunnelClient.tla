-------------------------- MODULE MC_TunnelClient --------------------------
(***************************************************************************)
(* Small instances of TunnelClient.                                        *)
(***************************************************************************)
EXTENDS TunnelClient, TLC

CONSTANTS i1, i2, i3, v1, ssh, web
=============================================================================
