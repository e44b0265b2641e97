SPECIFICATION FairSpec
CONSTANTS
  a = a
  b = b
  p1 = p1
  p2 = p2
  Jobs = {a, b}
  Pages = {p1, p2}
  Site <- GrowingSite
  Stored = {p2}
  Stranded = {p1}
  Thin = {p2}
  Workers = {w1, w2}
  Earlier = earlier
  Nobody = nobody
  MaxFaults = 2
  MaxSharedFaults = 0
INVARIANTS TypeOK GuardedBlocksAreOwned CompletedIsStored
PROPERTIES ImplementsContract ServedPagesKept QueuedCrawlEnds
CHECK_DEADLOCK FALSE
