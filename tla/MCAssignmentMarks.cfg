CONSTANTS
  NTasks = 3
  MaxDay = 2
  MaxAttempts = 2
  i1 = i1
  i2 = i2
  i3 = i3
  phA = phA
  phB = phB
  Phases <- MCPhases
  Items <- MCItems
  Tracks <- MCTracks
SPECIFICATION Spec
PROPERTIES
  MarkIsStored
