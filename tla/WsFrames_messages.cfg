CONSTANTS
  s1 = s1
  s2 = s2
  s3 = s3
  tiny = tiny
  small = small
  full = full
  thrice = thrice
  Sender = {s1, s2, s3}
  Program <- Programs
  Size <- MCSize
  Room = 2
  Locked = {s1, s2}
  MayTimeOut = TRUE
  MayTear = TRUE
  MaxPings = 1
  Garbled = Garbled
SPECIFICATION FairSpec
INVARIANTS
  NoUseAfterFree
PROPERTIES
  SentAsMessages
  EveryMessageSettled
CHECK_DEADLOCK FALSE
