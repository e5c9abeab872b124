CONSTANTS
  c1 = c1
  c2 = c2
  Client = {c1}
  Self = self
  Base <- SameBase
  MaxSuffix = 1
  Regular <- OneTopic
  Subscribable <- SubsAll
  SubUid = {1}
  PubUid = {1}
  Type = {"int", "str"}
  Data = {"0", "1"}
  Cacheable = {TRUE}
  CachedUpdates = {FALSE}
  UnknownNames = FALSE
  MayTimeOut = TRUE
  AppSubscribes = TRUE
  AppPublishes = TRUE
  AnnounceRefused = {}
  UpdateRefused = {}
  Later = {}
  Null = Null
  TextLimit = 2
  BinaryLimit = 2
  Rank <- MCRank
SPECIFICATION Spec
INVARIANTS
  ReplicaCurrent
  NoAnnouncementLost
  SubscribersAnnounced
  AppReplicaCurrent
  MetaTopicsExist
PROPERTIES
  TypeStable
