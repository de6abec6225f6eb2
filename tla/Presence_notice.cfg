\* The offline notice against the time the camera has been away.
SPECIFICATION PresenceSpec
CONSTANTS
  RecheckAfter = 2
  AttendedPeriod = 3
  IdlePeriod = 6
  OfflineNotice = 9
  MissLimit = 3
  StreamTurns = 3
INVARIANT NoticeNotEarly
