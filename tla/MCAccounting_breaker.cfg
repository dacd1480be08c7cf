SPECIFICATION AccountingSpec
CONSTANTS
  p1 = p1
  p2 = p2
  p3 = p3
  foreign = foreign
  NoProvider = NoProvider
  Provider = {p1, p2}
  Pool <- PoolTwo
  Strategy = "WeightedRandom"
  FailureThreshold <- ThresholdTwo
  ResetTimeout <- TimeoutOne
  HalfOpenProbe <- ProbeOne
  U32Max = 4
  Request = {r1, r2, r3}
  OverrideIds = {NoProvider, p1, foreign}
  MaxRetries = 2
  HasBackoff = FALSE
  HealthViews <- MayDropReliable
  Reliable = {p2}
  ClientsDisconnect = TRUE
SYMMETRY RequestSymmetry
INVARIANTS
  ProbeOverrunBound
  CompletedOnce
PROPERTY
  NoAdmissionWhileCooling
