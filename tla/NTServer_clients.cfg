CONSTANTS
  c1 = c1
  c2 = c2
  Client = {c1, c2}
  Self = self
  Base <- SameBase
  MaxSuffix = 2
  Regular <- OneTopic
  Subscribable <- SubsValuesOrNot
  SubUid = {1}
  PubUid = {1}
  Type = {"int"}
  Data = {"0", "1"}
  Cacheable = {TRUE}
  CachedUpdates = {}
  UnknownNames = FALSE
  MayTimeOut = FALSE
  AppSubscribes = FALSE
  AppPublishes = FALSE
  AnnounceRefused = {}
  UpdateRefused = {}
  Later = {}
  Null = Null
  TextLimit = 1
  BinaryLimit = 2
  Rank <- MCRank
SPECIFICATION Spec
INVARIANTS
  TypeOK
  RemoteIdsDistinct
  ReplicaCurrent
  NoAnnouncementLost
  SubscribersAnnounced
  SubscribersListed
  PublishersListed
  ClientMetaExact
  NamesDistinct
PROPERTIES
  IdsStable
  ServedAtFrameEnd
SYMMETRY Symmetry
