CONSTANTS
  good = good
  other = other
  Conn = {good, other}
  MayRtt = {}
  Capacity = 2
  PeerOpens <- OtherOpensBothWays
  PeerAnswers <- OtherAnswersBothWays
  AppCloses <- OtherClosedTwice
  MayTimeOut = FALSE
  App = app
  Free = free
SPECIFICATION Spec
INVARIANTS
  EveryEndReported
CHECK_DEADLOCK FALSE
