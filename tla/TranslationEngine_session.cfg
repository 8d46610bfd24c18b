SPECIFICATION FairSpec
CONSTANTS
  Ops = {o1}
  Chunks = 2
  EventCapacity = 2
  MaxReads = 2
  MaxBatch = 2
INVARIANT CompletedMeansWhole
PROPERTY StreamsImplemented
PROPERTY NoRequestAfterClose
PROPERTY EveryOperationEnds
