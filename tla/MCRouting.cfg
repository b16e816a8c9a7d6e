SPECIFICATION MCSpec
CONSTANTS
  Items = {1}
  Attrs <- EachAttr
  Threads = {t1, t2}
  Seconds = {1}
  Hashes = {"h1"}
  Enforce = TRUE
  MaxFaults = 2
  PipelineItems = {1, 2, 3}
  Ordered = {1, 2}
  Dest <- OneAgent
  Invalid = {3}
  Flaky = {1}
  Slow = {2}
  Workers = {t1, t2}
  QueueCap = 1
  ChanCap = 1
  MaxDeliveryFaults = 1
  MaxCrashes = 1
  MaxCopies = 2
  MayStop = FALSE
  t1 = t1
  t2 = t2
INVARIANTS NoSilentLoss Custody OnlyCleared InboxResolved PlaceholderBacked PipelineSafe
PROPERTIES FateKept HeldOrder
SYMMETRY MCSymmetry
CHECK_DEADLOCK FALSE
