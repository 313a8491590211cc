SPECIFICATION QueueSpec
CONSTANTS
  u = u
  v = v
  w = w
  Id = {1, 2, 3, 4, 5}
  User = {u, v}
  UserOf <- VsFirst
  Slots = {1}
  Rank = {0}
INVARIANTS NobodyIsPassedOver
CHECK_DEADLOCK FALSE
