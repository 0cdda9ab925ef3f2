CONSTANTS
  Files = {f1, f2, f3}
  Contents = {1, 21, 22}
  SizeOf <- DigitSize
  HashOf <- PerfectHash
  Unread = unread
  MinSize = 0
  KeyRange = 2
  Unreliable = {f3}
  Archived = {f2, f3}
  MayBePrioritized = {}
  Null = null
  Wild = wild
  MaxGone = 1
SPECIFICATION FairSpec
INVARIANTS
  SizesConsistent
  CopiesRemoved
PROPERTY
  Terminates
