CONSTANTS
  top = top
  sub = sub
  back = back
  doc = doc
  loop = loop
  self = self
  tar = tar
  cut = cut
  bad = bad
  note = note
  core = core
  Args <- CommandLine
  Directory <- SmallTree
  Target <- LinkTargets
  Regular = {doc, note, core, tar, cut, bad}
  Members <- ArchiveMembers
  Ignored = {"core"}
  Excluded = {"note"}
  Small = {bad}
  MayBeShut = {sub, cut}
  Refusing = {top, tar}
  Null = null
  MayVanish = {doc, loop}
SPECIFICATION FairSpec
INVARIANTS
  CollectsWhatIsDue
  OnePathPerFile
  LoopsCutShort
  FailsOnlyByFault
PROPERTY
  WalkEnds
