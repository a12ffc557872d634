CONSTANTS
  NTasks = 2
  MaxDay = 1
  MaxAttempts = 1
  MaxRequests <- NoLimit
  i1 = i1
  i2 = i2
  phA = phA
  phB = phB
  r1 = r1
  r2 = r2
  Requests = {r1}
  Phases <- MCPhases
  Items <- MCItems
  Tracks <- TwoTracks
SPECIFICATION RSpec
PROPERTIES
  SerialSpec
