\* One session sleeps while another one wakes.
SPECIFICATION Spec
CONSTANTS
  s1 = s1
  s2 = s2
  c1 = c1
  c2 = c2
  free = free
  Free <- free
  Threads <- CallerThreads
  Labels <- CallerLabels
  Sessions <- TwoSessions
  Clients <- OneClient
  Recorders <- NoRecorder
  Singles <- NoSingle
  WakeFailLimit = 2
  WakeTries = 2
  MaxRequests = 0
  Answers = {TRUE}
  MaxAcks = 1
INVARIANTS
  NoSleepUnderViewer
