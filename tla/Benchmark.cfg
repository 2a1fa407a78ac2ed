CONSTANTS
  kBenchmarkMessages = 5
  kWarmupMessages = 1
  kMessagesPerSize = 2
  Sizes = 1
  QueueSize = 6
  Durations = {1, 2, 9}
SPECIFICATION FairSpec
INVARIANTS
  NothingDropped
  PercentilesByCount
  ReportConsistent
PROPERTIES
  TrueRtt
  Finishes
CHECK_DEADLOCK FALSE
