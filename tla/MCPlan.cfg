SPECIFICATION Spec
CONSTANTS
  Programs <- SomePrograms
  Caps <- SomeCaps
  Shares = {0, 30, 60, 100}
  StateWords = {12, 40, 300}
  MaxWords = 1073741824
INVARIANT AcceptedHasRoom
INVARIANT ToldSizeServes
PROPERTY Told
CHECK_DEADLOCK FALSE
