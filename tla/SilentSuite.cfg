CONSTANTS
  full = full
  side = side
  Jobs = {full, side}
  Gold <- MCGold
  GoldBaselines <- MCGoldBaselines
  TopK = 1
  Thresholds <- MCThresholds
  CitedBaseline <- MCCitedBaseline
  MinCitations = 2
  Requests <- MCRequests
  Answers <- MCAnswers
  Scenarios <- MCScenarios
  Pairs <- MCPairs
  AgentRuns <- MCAgentRuns
  ResultTexts <- MCResultTexts
  Threshold = 20
  WindowDays = 1
  TicksPerDay = 3
  MaxTroubles <- MCMaxTroubles
  MinTime = 2
  MaxTime = 4
  MaxDigests = 1
SPECIFICATION WorkflowSpec
CHECK_DEADLOCK FALSE
INVARIANT QuietMeansMeasured
