------------------------ MODULE MCRoundRobinFairness ------------------------
(* Small instances of RoundRobinFairness for TLC.                          *)
EXTENDS RoundRobinFairness

CONSTANTS p1, p2, p3, p4

\* Four providers, one of them listed twice.
PoolFive == <<p1, p2, p1, p3, p4>>
=============================================================================
