CONSTANTS
  Files = {f1, f2, f3, f4, f5}
  Contents = {1, 11, 12, 21}
  SizeOf <- DigitSize
  HashOf <- CollidingHash
  Unread = unread
  MinSize = 1
  KeyRange = 100
  Unreliable = {f5}
  Archived = {}
  MayBePrioritized = {}
  Null = null
  Wild = wild
  MaxGone = 1
SYMMETRY FileSymmetry
SPECIFICATION Spec
INVARIANTS
  NoFalseTwin
  PrintedOnce
  OnlyFilledSlotsRead
  BiggerTwinsReported
