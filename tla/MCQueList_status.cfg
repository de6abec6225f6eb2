\* What error 54 says, against what the third attempt does.
SPECIFICATION Spec
CONSTANTS
  p1 = p1  p2 = p2
  e1 = e1  e2 = e2  e3 = e3  e4 = e4
  Producers <- OneProducer
  Entry <- FourEntries
  None = None
  CMD_QUEUE_LEN = 3
  Tries = 3
  FailLimit = 2
INVARIANT FailureMeansNotAdded
CHECK_DEADLOCK FALSE
