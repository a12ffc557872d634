CONSTANTS
  NQuestions = 2
  history = history
  sports = sports
  NoLabel = NoLabel
  Categories = {history, sports}
  Difficulties = {"easy"}
  Banks <- MCBanks
  Listings <- MCListings
  Labels <- MCLabels
  Orders <- MCOrders
  NJobs = 2
  BatchSize = 1
  MaxEvents = 3
  Admins = {a1}
  a1 = a1
SPECIFICATION FairSpec
CHECK_DEADLOCK FALSE
INVARIANTS
  TypeOK
  ProgressAddsUp
  OnlyGapsAreFilled
PROPERTIES
  RollbackRestores
  TasksEnd
