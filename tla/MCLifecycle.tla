---------------------------- MODULE MCLifecycle ----------------------------
(* Lifecycle on the small instances of MCGateway.                          *)
EXTENDS Lifecycle, MCGateway
=============================================================================
