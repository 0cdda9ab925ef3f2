CONSTANTS
  Workers = {w1, w2}
  Caller = caller
  Items = {a, b}
  Null = null
  None = none
  MaxRounds = 1
  SpuriousThreads = {caller}
  MaxSpurious = 1
  MaxFaults = 0
SPECIFICATION Spec
INVARIANT
  WaitIsBarrier
