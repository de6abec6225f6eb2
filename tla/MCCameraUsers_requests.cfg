\* A setting or an update, and the camera falling asleep again.
SPECIFICATION FairSpec
CONSTANTS
  s1 = s1
  s2 = s2
  c1 = c1
  c2 = c2
  free = free
  Free <- free
  Threads <- CallerThreads
  Labels <- CallerLabels
  Sessions <- NoSession
  Clients <- OneClient
  Recorders <- NoRecorder
  Singles <- RequestSingles
  WakeFailLimit = 2
  WakeTries = 2
  MaxRequests = 1
  Answers = {TRUE}
  MaxAcks = 1
PROPERTIES
  CameraSleeps
  ReasonsEnd
