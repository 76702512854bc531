\* The bounded game may have asked all it asks.
CHECK_DEADLOCK FALSE
SPECIFICATION PartsSpec
CONSTANTS
  Names <- MCNames
  Contents <- MCContents
  Publisher <- MCPublisher
  Now <- MCNow
  Packets <- MCPackets
  MaxInLife = 4
  MaxLives = 2
  HostThreads = {"t1", "t2"}
  HostNamesAsked = {"lobby", "auth", "stun", "clash", "unlucky", "unknown"}
  LobbyNames = {"lobby", "auth"}
  StunNames = {"stun"}
  Hash <- MCHash
  Real <- MCReal
  Attempts = {"first", "second", "third"}
  Modes = {"steam", "dedi", "rsa"}
  MaxAsked = 2
INVARIANTS
  NamesResolve
  LoginsSucceed
PROPERTIES
  ImplementsFileStore
