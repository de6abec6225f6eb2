\* The key, two cameras, two channels, one pairing thread.
SPECIFICATION Spec
CONSTANTS
  c1 = c1
  c2 = c2
  s1 = s1
  w1 = w1
  Key = key
  NoCam = NoCam
  AnyChannel = AnyChannel
  Sessions <- NoSession
  Announced <- TwoCameras
  Capacity = 2
  Workers <- OneWorker
  Channels <- TwoChannels
INVARIANTS
  OneChannelEach
SYMMETRY Symmetry
