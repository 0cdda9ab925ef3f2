CONSTANTS
  Bytes = {0, 1}
  Zero = 0
  HugeLen <- Page
  PageLen <- Page
  ExcessSize = 4
  MaxLen = 4
  MaxChanges = 1
SPECIFICATION FairSpec
INVARIANTS
  ChecksumOfContent
  VerdictRight
  ReleasedAtReturn
PROPERTY
  Ends
