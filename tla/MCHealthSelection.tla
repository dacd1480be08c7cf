------------------------- MODULE MCHealthSelection -------------------------
(* HealthSelection on instances small enough for TLC.                      *)
EXTENDS HealthSelection, TLC

CONSTANTS p1, p2   \* providers

\* In milliseconds.  Prompt, and so slow that one sample alone leaves a third
\* of the latency score: two calls of at most three seconds each (lib.rs:224).
FastAndSlow == {100, 6000}
AnyPolicy == Tolerance

ProviderSymmetry == Permutations(Provider)
=============================================================================
