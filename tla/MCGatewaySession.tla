-------------------------- MODULE MCGatewaySession --------------------------
(* Small instances of GatewaySession for TLC: one or two sessions of the   *)
(* service, none or one of two commands.                                   *)
EXTENDS GatewaySession

CONSTANTS s1, s2, c1, c2
=============================================================================
