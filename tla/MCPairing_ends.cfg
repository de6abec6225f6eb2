\* One session and the key, one camera, two channels, one pairing thread.
SPECIFICATION FairSpec
CONSTANTS
  c1 = c1
  c2 = c2
  s1 = s1
  w1 = w1
  Key = key
  NoCam = NoCam
  AnyChannel = AnyChannel
  Sessions <- OneSession
  Announced <- OneCamera
  Capacity = 1
  Workers <- OneWorker
  Channels <- TwoChannels
PROPERTIES
  AttemptEnds
  KeyEnds
