CONSTANTS
  c1 = c1
  Client = {c1}
  Self = self
  Base <- SameBase
  MaxSuffix = 1
  Regular <- TwoTopics
  Subscribable <- SubsOfOne
  SubUid = {1, 2}
  PubUid = {1, 2}
  Entry = {}
  InVain = {}
  Type = {"int"}
  Data = {"0", "1"}
  Cacheable = {TRUE}
  CachedUpdates = {FALSE}
  UnknownNames = FALSE
  MayTimeOut = FALSE
  AppSubscribes = TRUE
  AppPublishes = TRUE
  AnnounceRefused = {}
  UpdateRefused = {}
  Later = {}
  Null = Null
  TextLimit = 2
  BinaryLimit = 2
  Rank <- MCRank
SPECIFICATION FacadeSpec
INVARIANTS
  ReadsOwnTopic
CHECK_DEADLOCK FALSE
