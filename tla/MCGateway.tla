----------------------------- MODULE MCGateway -----------------------------
(* Small instances of Gateway for TLC.                                     *)
EXTENDS Gateway, TLC

CONSTANTS p1, p2, p3, foreign

ThresholdOne == [p \in Provider |-> 1]
ThresholdTwo == [p \in Provider |-> 2]
TimeoutOne == [p \in Provider |-> 1]
ProbeOne == [p \in Provider |-> 1]

\* A provider whose own section sets every field to zero, and one with the
\* defaults' shape.
ThresholdMixed == [p \in Provider |-> IF p = p1 THEN 0 ELSE 1]
TimeoutMixed == [p \in Provider |-> IF p = p1 THEN 0 ELSE 1]
ProbeMixed == [p \in Provider |-> IF p = p1 THEN 0 ELSE 1]

PoolTwo == <<p1, p2>>
PoolThree == <<p1, p2, p3>>

AnyView == SUBSET Provider
NoFilter == {Provider}
MayDropReliable == {Provider, Provider \ Reliable}
SparesReliable == {healthy \in SUBSET Provider : Reliable \subseteq healthy}

RequestSymmetry == Permutations(Request)
=============================================================================
