CONSTANTS
  d1 = d1
  d2 = d2
  d3 = d3
  d4 = d4
  d5 = d5
  d6 = d6
  Data = {d1, d2, d3, d4, d5, d6}
  Weight <- ThreeWeights
  InitialMax = 2
  Null = null
  Wild = wild
  MaxFaults = 1
  Threads = {t1, t2}
  Nobody = nobody
SPECIFICATION SharedFairSpec
INVARIANTS
  NthEnumerates
  HeapOrder
PROPERTIES
  ImplementsPriorityQueue
  CallsReturn
