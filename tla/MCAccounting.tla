---------------------------- MODULE MCAccounting ----------------------------
(* Accounting on the small instances of MCGateway.                         *)
EXTENDS Accounting, MCGateway
=============================================================================
