SPECIFICATION FairSpec
CONSTANTS
  Markets = {m1, m2}
  MaxDepth = 2
  MaxSeq = 5
  MaxLost = 2
  MaxDrops = 1
  MaxDbFaults = 1
CHECK_DEADLOCK FALSE
INVARIANTS BooksTrack GapsNoticed
PROPERTIES StreamReturns
