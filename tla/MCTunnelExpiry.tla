--------------------------- MODULE MCTunnelExpiry ---------------------------
(***************************************************************************)
(* TunnelExpiry for TLC.                                                   *)
(***************************************************************************)
EXTENDS TunnelExpiry

CONSTANTS t1, s1, s2
=============================================================================
