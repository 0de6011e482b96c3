SPECIFICATION Spec
CONSTANTS
  Kits <- Varied
  Written <- Lengthy
  Plenty = 50000
  UnitsOfWork = 24
  NodeLimit = 90
  RangeLimit = 36
  NormalizeFrom = 3
  SortedFrom = 2
  FoldMembers = 4
  SequenceSets <- NoSequences
  DepthLimit = 4
  MaxNumber = 200
  NameLimit = 4
INVARIANT AnswersRight
INVARIANT ProgramIsAccepted
INVARIANT WorkIsLinear
INVARIANT WorkIsExact
CHECK_DEADLOCK FALSE
