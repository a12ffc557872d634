SPECIFICATION Spec
INVARIANTS
  RecordsAreKept
  QuietPagesAreCurrent
CHECK_DEADLOCK FALSE
