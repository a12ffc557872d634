CONSTANTS
  NEvents = 2
  Nobody = Nobody
  Workers = {w1, w2}
  Metered = {1, 2}
  Synced = {1}
  BatchSize = 2
  MaxTries = 2
  MaxCrashes = 1
  Many = 2
SPECIFICATION FairSpec
CHECK_DEADLOCK FALSE
INVARIANTS
  TypeOK
  ChargedAtMostOnce
  DoneIsCharged
  AttemptsMatchStatus
  OneHandler
PROPERTIES
  EventuallySettled
