\* Two producers (session threads fill the command ring): the gap between
\* the test for a full ring and its mutex.
SPECIFICATION Spec
CONSTANTS
  p1 = p1  p2 = p2
  e1 = e1  e2 = e2  e3 = e3  e4 = e4
  Producers <- TwoProducers
  Entry <- FourEntries
  None = None
  CMD_QUEUE_LEN = 3
  Tries = 3
  FailLimit = 2
INVARIANT NoLoss
CHECK_DEADLOCK FALSE
