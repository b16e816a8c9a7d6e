SPECIFICATION MCSpec
CONSTANTS
  plain = plain
  Conns = {c1, c2}
  Entries = 2
  Listeners = {plain}
  Via <- SameVia
  Bad = {}
  Slots = {g1, g2}
  Threshold = 2
  RetryMax = 1
  PerSource = 1
  MaxIntakeFaults = 1
  c1 = c1  c2 = c2
  g1 = g1  g2 = g2
  Handlers = {h1, h2}
  Ids = {u1, u2}
  NoId = NoId
  Sources = {s1, s2}
  ArchiveIds = {a1}
  Blocks = {1, 2}
  Unsafe = {2}
  Offers <- EachOffer
  Scanners = {s2}
  PerSourceMax = 1
  GlobalMax = 2
  SlowUntar = FALSE
  MaxFaults = 1
  h1 = h1  h2 = h2
  u1 = u1  u2 = u2
  s1 = s1  s2 = s2
  a1 = a1
SYMMETRY MCSymmetry
INVARIANTS NoGap IntakeBounded PublishedIntact Delivered SlotsMatch NoLeftovers Resumable
PROPERTY PublishedStable
CHECK_DEADLOCK FALSE
