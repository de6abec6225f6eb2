\* One session, one camera, one channel: the camera is paired a second time.
SPECIFICATION Spec
CONSTANTS
  c1 = c1
  c2 = c2
  s1 = s1
  w1 = w1
  Key = key
  NoCam = NoCam
  AnyChannel = AnyChannel
  Sessions <- OneSession
  Announced <- OneCamera
  Capacity = 1
  Workers <- OneWorker
  Channels <- OneChannel
INVARIANTS
  PairmodeTrue
