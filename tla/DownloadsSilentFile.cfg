SPECIFICATION LiveSpec
CONSTANTS
  a = a
  b = b
  u1 = u1
  u2 = u2
  w1 = w1
  w2 = w2
  None = None
  Id = {a}
  Release = {"A"}
  FilesOf <- OneFile
  User = {u1, u2}
  Writer = {w1}
  Size = 1
  LaneLimits = {1}
  MaxAutomaticRetries = 1
  MaxSources = 2
  MaxAttempts = 1
  MaxCrashes = 0
  Foreign = {}
CHECK_DEADLOCK FALSE
PROPERTIES SilentFilesRecover
