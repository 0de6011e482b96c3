SPECIFICATION Spec
CONSTANTS
  Texts <- Mixed
  Quanta = {0, 1, 3}
  Budget = 9
  MaxOpens = 2
INVARIANT CountedLikeDecoded
INVARIANT DeliversOnce
INVARIANT ChargesTheDistance
CHECK_DEADLOCK FALSE
