SPECIFICATION MCSpec
CONSTANTS
  u = u
  v = v
  w = w
  Id = {1, 2, 3, 4}
  User = {u, v, w}
  UserOf <- InTurn
  Slots = {1, 2}
  Rank = {0, 1}
  r1 = r1
  r2 = r2
  r3 = r3
  Request = {r1, r2, r3}
  KindOf <- OneFolder
  AskedUser <- OneUser
  MaxDials = 2
  MaxProfiles = 2
  Own = "me"
  Neighbor = {"u", "v", "w"}
  MaxLevel = 1
  MaxChildren = 2
  MaxParentId = 3
  Client = {"a"}
  RelayClient = {}
  MaxTab = 1
  ResultLimit = 1
  Tries = 2
  Spacing = 1
  Timeout = 2
  Interval = 2
  MaxNow = 3
  MaxToken = 2
  Album = {"x"}
  Edition = {"any", "one"}
  Tolerance = {"three", "ten"}
  MaxMisses = 2
  MaxSessions = 2
  MaxCheckToken = 2
  MaxShelf = 2
  RadarTries = 2
  MaxScans = 2
  MaxRadarToken = 4
  Requester = {"a", "b"}
  SearchToken = {1, 2}
  Window = 1
  MaxPerWindow = 2
  MaxPerUserWindow = 1
  DuplicateTtl = 2
  MaxSeenRequests = 3
  MaxClock = 4
  Acquirer = {"down", "up"}
  DirectionOf <- WayOf
  Settings <- TwoSettings
  Day = 3
  Maximum = 2
  MaxBurst = 2
  MaxElapsed = 2
  MaxChanges = 2
  MaxCut = 12
  Looker = {"others", "wanted"}
  Impatient = {"wanted"}
  Asks <- AskedBy
  PagesOf <- Pages
  Ttl <- Lives
  Forever = 2
  MaxPages = 2
  Pause = 1
  Patience = 3
  MaxAttempts = 2
  RetryAfter = {2}
  CacheSize = 1
  Asker = {1, 2}
  Query = {"q", "r"}
  TooLong = 1
  FreshFor = 1
  Cooldowns = {1, 2}
  Entries = 1
CHECK_DEADLOCK FALSE
INVARIANTS TurnsAreShared SomebodyIsNext RequestsAreServed BranchIsSound
  AnswersAreTheirOwn  
PROPERTIES LimitsAreKept
