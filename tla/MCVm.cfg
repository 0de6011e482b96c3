SPECIFICATION FairSpec
CONSTANTS
  Jobs <- Everything
  Quanta = {1, 3}
  Scarce = {TRUE}
INVARIANT AnswersRight
INVARIANT WorkIsExact
INVARIANT Prompt
PROPERTY Decides
CHECK_DEADLOCK FALSE
