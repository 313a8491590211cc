SPECIFICATION WaitsSpec
CONSTANTS
  a = a
  b = b
  u1 = u1
  u2 = u2
  w1 = w1
  w2 = w2
  None = None
  Id = {a}
  Release = {"A"}
  FilesOf <- OneFile
  User = {u1}
  Writer = {w1}
  Size = 1
  LaneLimits = {1}
  MaxAutomaticRetries = 1
  MaxSources = 2
  MaxAttempts = 2
  MaxCrashes = 0
  Foreign = {}
  Item = {"c"}
  Supplier <- Itself
  MaxDue = 1
  MaxLimit = 1
  MaxTries = 3
  MaxOwed = 2
CHECK_DEADLOCK FALSE
INVARIANT NothingIsSleptThrough
  
