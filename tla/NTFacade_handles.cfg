CONSTANTS
  c1 = c1
  Client = {c1}
  Self = self
  Base <- SameBase
  MaxSuffix = 1
  Regular <- OneTopic
  Subscribable <- SubsOfOne
  SubUid = {1, 2}
  PubUid = {1}
  Entry = {2}
  InVain = {"subscribe", "publish"}
  Type = {"uint", "bool"}
  Data = {"0", "1"}
  Cacheable = {TRUE}
  CachedUpdates = {FALSE}
  UnknownNames = TRUE
  MayTimeOut = FALSE
  AppSubscribes = TRUE
  AppPublishes = TRUE
  AnnounceRefused = {}
  UpdateRefused = {}
  Later = {}
  Null = Null
  TextLimit = 2
  BinaryLimit = 2
  Rank <- MCRank
SPECIFICATION FacadeSpec
INVARIANTS
  FacadeTypeOK
  SubscriberCurrent
  LiveSubscribersAssigned
  AcceptedIsStored
  DanglesOnlyUnassigned
CHECK_DEADLOCK FALSE
