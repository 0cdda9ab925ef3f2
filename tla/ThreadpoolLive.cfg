CONSTANTS
  Workers = {w1, w2, w3}
  Caller = caller
  Items = {a, b, null}
  Null = null
  None = none
  MaxRounds = 2
  SpuriousThreads = {w1, w2, w3}
  MaxSpurious = 1
  MaxFaults = 0
SPECIFICATION FairSpec
PROPERTIES
  WaitReturns
  EveryDatumProcessed
  PoolComesToRest
