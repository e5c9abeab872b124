CONSTANTS
  s1 = s1
  s2 = s2
  s3 = s3
  tiny = tiny
  small = small
  full = full
  thrice = thrice
  Sender = {s1}
  Program <- OneLong
  Size <- MCSize
  Room = 2
  Locked = {s1}
  MayTimeOut = FALSE
  MayTear = FALSE
  MaxPings = 0
  Garbled = Garbled
SPECIFICATION Spec
INVARIANTS
  DeliveredAsSent
CHECK_DEADLOCK FALSE
