SPECIFICATION Spec
CONSTANTS
  p1 = p1
  p2 = p2
  Provider = {p1, p2}
  Latencies = {4, 8, 12}
  Fast = 4
  Slow = 12
  Unit = 8
  PromptLatency = 4
INVARIANT TypeOK
PROPERTIES ScoreFollowsNode RecoversScore StrictSeparates
