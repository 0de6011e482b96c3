SPECIFICATION Spec
CONSTANTS
  Programs <- Various
  Texts <- Subjects
  Quanta = {1, 4, 50}
  Froms = {0, 1, 3}
  Budgets = {20, 500}
  Chunk = 2
  Round = 8
  Short = 3
  AdmitFrom = 3
  MostCompared = 3
  Word = 2
  Block = 4
  BlockMin = 8
  Longest = 3
INVARIANT AnswersRight
INVARIANT WorkIsExact
INVARIANT NotesAreTrue
CHECK_DEADLOCK FALSE
