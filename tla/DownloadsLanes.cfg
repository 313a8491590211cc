SPECIFICATION SceneSpec
CONSTANTS
  one = one
  other = other
  u1 = u1
  u2 = u2
  w1 = w1
  None = None
  Id = {one, other}
  Release = {"A", "B"}
  FilesOf <- TwoFiles
  User = {u1, u2}
  Writer = {w1}
  Size = 1
  LaneLimits = {1, 2}
  MaxAutomaticRetries = 1
  MaxSources = 2
  MaxAttempts = 2
  MaxCrashes = 1
  Foreign = {one}
  Asked = {1}
  Task = {2}
  Sounds = {"suspect", "good"}
  Names = {1}
CHECK_DEADLOCK FALSE
SYMMETRY Symmetry
INVARIANTS QueueHoldsEachOnce OneLanePerSource FinalFileIsWhole 
PROPERTIES LanesAreRespected 
