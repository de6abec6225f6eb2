\* One producer (the deletion and the thumbnail ring), a ring of two usable slots;
\* a week of three days of four moments; three cameras, a table of two entries, a
\* clock that wraps and is set once.
SPECIFICATION PartsSpec
CONSTANTS
  p1 = p1  p2 = p2
  e1 = e1  e2 = e2  e3 = e3  e4 = e4
  Producers <- OneProducer
  Entry <- FourEntries
  None = None
  CMD_QUEUE_LEN = 3
  Tries = 3
  FailLimit = 2
  DayLength = 4
  Weekdays = 3
  Lists <- EachEntry
  Levels = {1, 2}
  Middle = 1
  a1 = a1  a2 = a2  a3 = a3
  n1 = n1  n2 = n2  n3 = n3
  NoAddr = NoAddr
  NoSn = NoSn
  Announced <- ThreeCameras
  MAX_SEARCH_CAMERA_NUM = 2
  MaxAge = 3
  UpdateAfter = 1
  Wrap = 6
  MaxSettings = 1
INVARIANTS
  SuccessMeansAdded
  ScheduleFollowed
  SensorKnown
  CountRight
  OneEntryEach
  QueriesRight
PROPERTIES
  FifoSpec
  AddedIsTaken
  SensorFollows
  FoundSpec
\* The gateway may stop, and the entries run out.
CHECK_DEADLOCK FALSE
