CONSTANTS
  k1 = k1
  p1 = p1
  p2 = p2
  Match <- MCMatch
  Structured <- MCMatch
SYMMETRY Symmetry
SPECIFICATION Spec
INVARIANTS TypeOK RowsTellViability
PROPERTIES ClosedOnce
