CONSTANTS
  Files = {f1, f2, f3, f4, f5}
  Contents = {11, 21}
  SizeOf <- DigitSize
  HashOf <- PerfectHash
  Unread = unread
  MinSize = 0
  KeyRange = 100
  Unreliable = {}
  Archived = {}
  MayBePrioritized = {}
  Null = null
  Wild = wild
  MaxGone = 1
SYMMETRY FileSymmetry
SPECIFICATION Spec
INVARIANT
  SurvivorsReported
