SPECIFICATION PipelineFairSpec
CONSTANTS
  PipelineItems = {1, 2}
  Ordered = {1, 2}
  Dest <- OneAgent
  Invalid = {}
  Flaky = {1}
  Slow = {}
  Workers = {w1}
  QueueCap = 1
  ChanCap = 1
  MaxDeliveryFaults = 0
  MaxCrashes = 0
  MaxCopies = 2
  MayStop = FALSE
  w1 = w1
PROPERTY QueueContinues
CHECK_DEADLOCK FALSE
