SPECIFICATION Spec
CONSTANTS
  Handlers = {h1}
  MaxVUs = 2
  Flows <- TwoUserFlows
  BadFlow = BadFlow
  NoOne = NoOne
  Outcomes = {"ok", "failed"}
  FailFastMin = 2
  MaxRuns = 1
INVARIANT OneRunAtATime
INVARIANT FinalReportExact
INVARIANT StopBounded
INVARIANT FullBudget
INVARIANT FailFastJustified
PROPERTY StopSticks
