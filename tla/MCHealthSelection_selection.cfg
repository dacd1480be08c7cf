SPECIFICATION Spec
CONSTANTS
  p1 = p1
  p2 = p2
  Provider = {p1, p2}
  Latencies <- FastAndSlow
  Unit = 1000
  PromptLatency = 2000
  MaxResults = 3
  ChainTolerance = 3
  PolicyTolerances <- AnyPolicy
SYMMETRY ProviderSymmetry
INVARIANTS TypeOK ReliableStayEligible AnswersWhenQuiet FailingStayEligible
