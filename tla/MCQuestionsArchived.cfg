SPECIFICATION Spec
CONSTANTS
  d1 = d1
  r1 = r1
  r2 = r2
  r3 = r3
SYMMETRY RequestSymmetry
INVARIANTS ArchivedAsNamed
CHECK_DEADLOCK FALSE
