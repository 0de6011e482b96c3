SPECIFICATION Spec
CONSTANTS
  Jobs <- Called
  Word = 2
  Reach = 4
  MaxRanges = 64
  Plenty = 1000
INVARIANT AnswersRight
INVARIANT StaysInside
CHECK_DEADLOCK FALSE
