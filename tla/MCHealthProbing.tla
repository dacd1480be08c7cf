-------------------------- MODULE MCHealthProbing --------------------------
(* HealthProbing with scores coarse enough for TLC to see all of them.     *)
EXTENDS HealthProbing

CONSTANTS p1, p2   \* providers
=============================================================================
