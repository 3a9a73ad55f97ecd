SPECIFICATION Spec
CONSTANTS
  Publishers = {p1}
  Client = "documented"
  RingSize = 2
  EventsCap = 1
  SubCap = 1
  SendCap = 2
  MsgBurst = 1
  WireCap = 1
  MaxSeq = 4
  MaxForeign = 1
  MaxSessions = 2
CHECK_DEADLOCK FALSE
INVARIANTS
  ReplayCoversRange
  WelcomeFirst
  HolesOnlyWhenCut
