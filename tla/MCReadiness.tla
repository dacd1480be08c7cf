---------------------------- MODULE MCReadiness ----------------------------
(* Readiness on the small instances of MCGateway.                          *)
EXTENDS Readiness, MCGateway
=============================================================================
