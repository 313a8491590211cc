SPECIFICATION SessionSpec
CONSTANTS
  c1 = c1
  c2 = c2
  None = None
  Caller = {c1, c2}
  MaxVersion = 3
  MaxSubmits = 3
  MaxCrashes = 1
  Callers = {1, 2}
  MaxGeneration = 3
  Port = {"p", "q"}
  Listening = "p"
  MaxBegins = 2
  MaxTests = 1
CHECK_DEADLOCK FALSE
INVARIANTS FlushedIsDurable SessionsDoNotMix
PROPERTIES DiskNeverGoesBack ImplementsDurableQueue NobodyWaitsForEver
