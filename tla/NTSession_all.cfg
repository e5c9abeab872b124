CONSTANTS
  good = good
  other = other
  Conn = {good, other}
  MayRtt = {other}
  Capacity = 2
  PeerOpens <- OtherOpensBothWays
  PeerAnswers <- OtherAnswersBothWays
  AppCloses <- OtherClosedTwice
  MayTimeOut = TRUE
  App = app
  Free = free
SPECIFICATION FairSpec
INVARIANTS
  HandlersExclusive
  ListedExactly
  AbnormalEndReported
  ToldOnce
  NoGhostClient
  MutexGivenBack
PROPERTIES
  DroppedConnectionEnds
CHECK_DEADLOCK FALSE
