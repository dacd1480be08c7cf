SPECIFICATION ResponsiveSpec
CONSTANTS
  p1 = p1
  p2 = p2
  p3 = p3
  foreign = foreign
  NoProvider = NoProvider
  Provider = {p1, p2}
  Pool <- PoolTwo
  Strategy = "RoundRobin"
  FailureThreshold <- ThresholdOne
  ResetTimeout <- TimeoutOne
  HalfOpenProbe <- ProbeOne
  U32Max = 2
  Request = {r1, r2}
  OverrideIds = {NoProvider, p1}
  MaxRetries = 2
  HasBackoff = FALSE
  HealthViews <- NoFilter
  Reliable = {p2}
  ClientsDisconnect = TRUE
PROPERTY
  CircuitRecovers
