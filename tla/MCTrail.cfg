SPECIFICATION Spec
CONSTANTS
  cap = cap
  rep = rep
  v1 = v1
  v2 = v2
  p1 = p1
  p2 = p2
  UNSET = UNSET
  Slots <- MCSlots
  Captures <- MCCaptures
  Values <- MCValues
  Points <- MCPoints
  Capacities <- MCCapacities
SYMMETRY Interchangeable
INVARIANT TypeOK
INVARIANT Recoverable
INVARIANT Nested
INVARIANT NoDeadEntries
INVARIANT Fits
PROPERTY Implements
