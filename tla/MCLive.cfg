SPECIFICATION LiveSpec
CONSTANTS
  plain = plain
  Conns = {c1}
  Entries = 3
  Listeners = {plain}
  Via <- SameVia
  Bad = {3}
  Slots = {g1, g2}
  Threshold = 5
  RetryMax = 1
  PerSource = 2
  MaxIntakeFaults = 2
  c1 = c1
  g1 = g1  g2 = g2
  Handlers = {h1}
  Ids = {u1}
  NoId = NoId
  Sources = {s1, s2}
  ArchiveIds = {a1}
  Blocks = {1, 2}
  Unsafe = {2}
  Offers <- EachOffer
  Scanners = {s2}
  PerSourceMax = 1
  GlobalMax = 2
  SlowUntar = FALSE
  MaxFaults = 2
  h1 = h1
  u1 = u1
  s1 = s1  s2 = s2
  a1 = a1
  PipelineItems = {1, 2, 3, 4}
  Ordered = {1, 2}
  Dest <- TwoAgents
  Invalid = {}
  Flaky = {3}
  Slow = {2}
  Workers = {w1}
  QueueCap = 1
  ChanCap = 1
  MaxDeliveryFaults = 1
  MaxCrashes = 0
  MaxCopies = 2
  MayStop = TRUE
  w1 = w1
PROPERTIES EntriesGetIn FilesGo PipelineMoves
CHECK_DEADLOCK FALSE
