SPECIFICATION PartsSpec

CONSTANTS
  s1 = s1
  s2 = s2
  r1 = r1
  r2 = r2
  t1 = t1
  t2 = t2
  t3 = t3
  h1 = h1
  h2 = h2
  h3 = h3
  c1 = c1
  p1 = p1
  p2 = p2
  e1 = e1
  e2 = e2
  e3 = e3

  Slots = {s1}
  RingLen = 2
  MemSize = 5
  GopLen = 3
  KeySize = 2
  SmallSize = 1
  MaxFrames = 4
  LiveFrames = 4

  RecheckAfter = 1
  AttendedPeriod = 1
  IdlePeriod = 2
  OfflineNotice = 4
  MissLimit = 2
  StreamTurns = 1

  Recorders = {r1, r2}
  MaxDay = 1
  MaxFiles = 2
  MaxQueue = 1
  MaxListed = 2

  Pieces = 2
  WakeTries = 3
  AskTries = 3
  MaxLeft = 1

  Settle = 3
  MaxPosts = 3

  LastDay = 1
  MaxOfDay = 2

  Threads = {t1, t2, t3}
  Handles = {h1, h2, h3}
  NoHandle = NoHandle
  Rows = {0, 1}
  Channels = {c1}
  NoChannel = NoChannel

  Producers <- TwoProducers
  Entry <- ThreeEntries
  None = None
  CMD_QUEUE_LEN = 2
  Tries = 1
  FailLimit = 2

INVARIANTS
  RecentIntact
  
  IndexReadable
  EntriesHaveFiles
  NothingForgotten
  CameraLetGo
  NasNotErased
  TablesAgree
  LinkKnown
  OnlyRoundsLost

PROPERTIES
  StoredChain
  ViewerDecodes
  SilentGoesOffline
  AnsweringComesOnline
  NoticeComes
  UpdateEnds
  SuccessIsReal
  LinkFollows
  MarkedMeansTried
  FramesInOrder
  CatalogueSpec

\* The recordings, the frames, the entries and the days are bounded.
CHECK_DEADLOCK FALSE
