CONSTANTS
  Files = {f1, f2, f3, f4, f5}
  Contents = {1, 11, 12}
  SizeOf <- DigitSize
  HashOf <- PerfectHash
  Unread = unread
  MinSize = 0
  KeyRange = 100
  Unreliable = {}
  Archived = {}
  MayBePrioritized = {f1, f2, f3, f4, f5}
  Null = null
  Wild = wild
  MaxGone = 0
SYMMETRY FileSymmetry
SPECIFICATION Spec
PROPERTY
  ImplementsTwinGroups
