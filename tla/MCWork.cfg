SPECIFICATION Spec
INVARIANTS
  RecordsAreKept
  DoneAsClicked
  QuietPagesAreCurrent
PROPERTIES
  TasksStay
CHECK_DEADLOCK FALSE
