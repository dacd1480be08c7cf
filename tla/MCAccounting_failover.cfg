SPECIFICATION AccountingSpec
CONSTANTS
  p1 = p1
  p2 = p2
  p3 = p3
  foreign = foreign
  NoProvider = NoProvider
  Provider = {p1, p2, p3}
  Pool <- PoolThree
  Strategy = "RoundRobin"
  FailureThreshold <- ThresholdOne
  ResetTimeout <- TimeoutOne
  HalfOpenProbe <- ProbeOne
  U32Max = 2
  Request = {r1, r2}
  OverrideIds = {NoProvider, p1, foreign}
  MaxRetries = 2
  HasBackoff = TRUE
  HealthViews <- SparesReliable
  Reliable = {p3}
  ClientsDisconnect = TRUE
SYMMETRY RequestSymmetry
INVARIANTS
  TypeOK
  FailoverComplete
  CompletedOnce
  SelectionsAreSettled
PROPERTY
  ImplementsFailover
