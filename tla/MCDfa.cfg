SPECIFICATION Spec
CONSTANTS
  Programs <- Everything
  Hosts <- ThreeHosts
  Froms = {0, 1}
  Threads = 8
  MaxStates = 8
  MaxClasses = 4
  FirstColumns = 3
  MemoSlots = 4
  UnitsPerState = 2
  ThrashLimit = 2
  SkipMin = 3
  MaxCalls = 2
INVARIANT TypeOK
INVARIANT CacheTrue
INVARIANT AnswersRight
PROPERTY ReadToTheEnd
CHECK_DEADLOCK FALSE
