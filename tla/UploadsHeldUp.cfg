SPECIFICATION StoresSpec
CONSTANTS
  Parts = {"shares"}
  Migrate = TRUE
  MaxSaves = 4
  MaxDamage = 2
  Peer = {"u", "v"}
  Incoming = {11, 12}
  SenderOf <- FromTwo
  MaxConversations = 1
  MaxPerConversation = 2
  MaxOutgoing = 1
  MaxSaveFailures = 1
  MaxSessions = 2
  Room = {"r", "q"}
  Visitor = {"v"}
  MaxStoredRooms = 1
  MaxFrames = 1
  MaxRoomFailures = 1
  Person = {"p", "q"}
  Setters = {1}
  MaxFavorites = 1
  MaxRecent = 1
  MaxProfiles = 1
  MaxPeopleFailures = 1
  MaxWatches = 1
  Artist = {"a", "b"}
  Release = {"r"}
  MaxReleases = 1
  MaxWatched = 1
  MaxFollows = 3
  MaxRadarFailures = 1
  Files = 2
  MaxFilingCrashes = 2
  MaxForeign = 1
  Root = {"Q"}
  Track = {"a", "b"}
  RootOf <- OneRoot
  FolderOf <- OwnFolder
  Phrased = {"b"}
  MaxVersion = 2
  MaxEdits = 1
  MaxSettings = 1
  MaxPending = 1
CHECK_DEADLOCK FALSE
INVARIANTS UploadsWaitForScansOnly
