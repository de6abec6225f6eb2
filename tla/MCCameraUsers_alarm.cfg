\* A PIR alarm recorded, and the camera declared offline.
SPECIFICATION FairSpec
CONSTANTS
  s1 = s1
  s2 = s2
  c1 = c1
  c2 = c2
  free = free
  Free <- free
  Threads <- CallerThreads
  Labels <- CallerLabels
  Sessions <- NoSession
  Clients <- OneClient
  Recorders <- AlarmRecorder
  Singles <- HeartSingle
  WakeFailLimit = 2
  WakeTries = 2
  MaxRequests = 0
  Answers = {TRUE, FALSE}
  MaxAcks = 1
PROPERTIES
  ReasonsEnd
  SleepCallReturns
