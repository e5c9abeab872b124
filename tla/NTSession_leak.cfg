CONSTANTS
  good = good
  other = other
  Conn = {good, other}
  MayRtt = {other}
  Capacity = 2
  PeerOpens <- NobodyOpens
  PeerAnswers <- AllAnswerWithStatus
  AppCloses <- AllClosedOnce
  MayTimeOut = FALSE
  App = app
  Free = free
SPECIFICATION Spec
INVARIANTS
  MutexNeverLeaks
CHECK_DEADLOCK FALSE
