SPECIFICATION Spec
CONSTANTS
  p1 = p1
  p2 = p2
  p3 = p3
  p4 = p4
  Pool <- PoolFive
  Strategy = "RoundRobin"
INVARIANTS
  BoundedBypass
  MissesAdvanceCursor
