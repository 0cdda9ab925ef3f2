CONSTANTS
  Workers = {w1, w2, w3}
  Caller = caller
  Items = {a, b, c, null}
  Null = null
  None = none
  MaxRounds = 3
  SpuriousThreads = {w1, w2, w3}
  MaxSpurious = 2
  MaxFaults = 2
SYMMETRY PoolSymmetry
SPECIFICATION Spec
CHECK_DEADLOCK FALSE
INVARIANTS
  WaitIsBarrier
  EachDatumOnce
  WorkConserving
  EndedIsIdle
  CallerWillBeWoken
PROPERTIES
  EndsOnlyWhenDone
  ImplementsBarrier
