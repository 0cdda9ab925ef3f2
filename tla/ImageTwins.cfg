CONSTANTS
  Workers = {w1, w2}
  Caller = caller
  Items = {x1, x2, x3}
  Null = null
  None = none
  MaxRounds = 1
  SpuriousThreads = {w1, w2}
  Alike <- OneLikeAll
  MaxSpurious = 1
  MaxFaults = 1
SPECIFICATION ReportFairSpec
INVARIANTS
  VectorsFinished
  EveryPairOnce
PROPERTY
  ReportEnds
CHECK_DEADLOCK FALSE
