SPECIFICATION LiveSpec
CONSTANTS
  u = u
  Id = {1, 2}
  User = {u}
  RequestOf <- Requests
  Slots = {1}
  Rank = {0}
  MaxQueue = 2
  MaxFilesPerUser = 2
  MaxAttempts = 2
  MaxConnections = 1
  MaxFailures = 1
  MaxCrashes = 1
CHECK_DEADLOCK FALSE
INVARIANTS SendersAreCurrent AcceptedSurvives
PROPERTIES CompletedWasSent SlotsAreReleased ImplementsTurns
