SPECIFICATION FairSpec
CONSTANTS
  Handlers = {h1, h2}
  MaxVUs = 1
  Flows <- OneUserFlows
  BadFlow = BadFlow
  NoOne = NoOne
  Outcomes = {"failed"}
  FailFastMin = 1
  MaxRuns = 2
PROPERTY FlowStable
PROPERTY RunEnds
