CONSTANTS
  d0 = d0
  d1 = d1
  d4 = d4
  d8 = d8
  ex = ex
  fx = fx
  k0 = k0
  k1 = k1
  k4 = k4
  k8 = k8
  kx = kx
  Data = {d0, d1, d4, d8, ex, fx}
  Keys = {k0, k1, k4, k8, kx}
  KeyOf <- KeyOfDatum
  Hash <- HashOfKey
  Ffactor = 3
  FirstSize = 1
  MaxSize = 16
  Checked = {k0, k1, k4, k8}
  Null = null
  MaxFaults = 1
SPECIFICATION FairSpec
INVARIANTS
  InTheirBuckets
  RoomForNext
  HarmOnlyByFault
  IterationComplete
PROPERTIES
  RebuildEnds
  ImplementsDictionary
