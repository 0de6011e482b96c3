SPECIFICATION Spec
CONSTANTS
  Kits <- None
  Written <- FoldedUnion
  Subjects <- Small
  Budgets = {50000}
  SequenceSets <- Sequenced
  NodeLimit = 200
  RangeLimit = 60
  NormalizeFrom = 16
  SortedFrom = 8
  FoldMembers = 256
  DepthLimit = 4
  MaxNumber = 200
  NameLimit = 4
INVARIANT AnswersRight
CHECK_DEADLOCK FALSE
