SPECIFICATION Spec
CONSTANTS
  Worlds <- Hosted
  Starts = {2, 5}
  Budgets = {6, 100}
  Quanta = {0, 1, 4}
  Capacities = {0, 1}
  MaxTurns = 2
INVARIANT WorkIsExact
INVARIANT NearNeverDearer
INVARIANT CapturesOfThisMatch
INVARIANT PositionTells
PROPERTY OutcomeKept
CHECK_DEADLOCK FALSE
