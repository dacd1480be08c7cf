SPECIFICATION ReadinessSpec
CONSTANTS
  p1 = p1
  p2 = p2
  p3 = p3
  foreign = foreign
  NoProvider = NoProvider
  Provider = {p1, p2}
  Pool <- PoolTwo
  Strategy = "RoundRobin"
  FailureThreshold <- ThresholdMixed
  ResetTimeout <- TimeoutMixed
  HalfOpenProbe <- ProbeMixed
  U32Max = 1
  Request = {r1, r2}
  OverrideIds = {NoProvider, p1}
  MaxRetries = 2
  HasBackoff = FALSE
  HealthViews <- NoFilter
  Reliable = {}
  ClientsDisconnect = FALSE
INVARIANT
  HalfOpenIsWatched
PROPERTIES
  CircuitRecovers
  ReadyWithoutTraffic
