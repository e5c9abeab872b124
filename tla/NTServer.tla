------------------------------ MODULE NTServer ------------------------------
(***************************************************************************)
(* The NetworkTables 4.1 server kept by NetworkTableInstance               *)
(* (src/src/nt/ntinstance.cpp): the topics it publishes, the record of     *)
(* each client, and the two caches through which a client is told about    *)
(* them.                                                                   *)
(*                                                                         *)
(* Every handler runs under stateMutex, so a handler is one action.  A     *)
(* text frame carries several messages and the mutex is given back after   *)
(* each of them and taken again for the flush that ends the frame: inFrame *)
(* holds the clients whose frame is between two such sections, and the     *)
(* handlers of other clients and of the application run in between.        *)
(*                                                                         *)
(* Handlers are written as compositions of operators that take the state   *)
(* record s == [topics, clients] to the next one, an operator for each     *)
(* member function.  A loop over an unordered_map is a comprehension; the  *)
(* order in which such a loop meets the names is Rank.                     *)
(***************************************************************************)
EXTENDS Naturals, FiniteSets, SequencesExt

CONSTANTS
  Client,        \* WebSocket connections that may be open at one time
  Self,          \* thisClient, the server's own application
  Base,          \* Base[c] is the name a client asks for in its request path
  MaxSuffix,     \* bound: the largest number after '@' in a client name
  Regular,       \* names of ordinary topics, as sequences of path pieces
  Subscribable,  \* the [topics, prefix, topicsonly] a client may ask for
  SubUid, PubUid,
  Type, Data,    \* a value is a type with a datum of it
  Cacheable,     \* the "cached" property a topic may be published with
  CachedUpdates, \* what setproperties may set it to
  UnknownNames,  \* TRUE iff peers may name uids and topics never declared
  MayTimeOut,    \* TRUE iff a handler may give up waiting for stateMutex
  AppSubscribes, AppPublishes, \* TRUE iff the server's application does
  AnnounceRefused, UpdateRefused, \* names for which the application's announcement
                 \* and update callbacks return false
  Later,         \* clients that come after thisClient in the map clients
  Null,
  TextLimit, BinaryLimit,      \* messages that fit a cache of 512 bytes
  Rank(_)        \* the position of a name in an unordered_map

VARIABLES
  topics,        \* name -> [value, cached], or NullTopic
  clients,       \* connected client or Self -> ClientData
  inFrame        \* clients whose text frame still awaits its final flush

vars == <<topics, clients, inFrame>>

-----------------------------------------------------------------------------
(* Names.  "$sub$" + n is <<"$", "sub">> \o n, and so on.                  *)

ClientName == {Base[c] : c \in Client} \X (1..MaxSuffix)

ClientsTopic    == <<"$", "clients">>
ServerSubTopic  == <<"$", "serversub">>
ServerPubTopic  == <<"$", "serverpub">>
ClientSubTopic(name) == <<"$", "clientsub", name>>
ClientPubTopic(name) == <<"$", "clientpub", name>>
SubTopic(n)     == <<"$", "sub">> \o n
PubTopic(n)     == <<"$", "pub">> \o n

ServerName == {ClientsTopic, ServerSubTopic, ServerPubTopic}
MetaName == ServerName
            \cup {ClientSubTopic(m) : m \in ClientName}
            \cup {ClientPubTopic(m) : m \in ClientName}
            \cup {SubTopic(n) : n \in Regular}
            \cup {PubTopic(n) : n \in Regular}
Name == Regular \cup MetaName

IsMeta(n) == n # <<>> /\ n[1] = "$"

Peer == Client \cup {Self}
Value == Type \X Data
Empty == CHOOSE d \in Data : TRUE
DefaultValue(t) == <<t, Empty>>

\* getAPIType: the type a value is sent with
ApiType(t) ==
  CASE t = "uint" -> "int"
    [] t = "json" -> "str"
    [] t \in {"raw", "msgpack", "protobuf"} -> "bin"
    [] OTHER -> t

\* parseDataType of what serializeDataType writes: the type a peer publishes with
WireType(t) == CASE t = "uint" -> "int" [] t = "raw" -> "bin" [] OTHER -> t

\* The values a topic takes: of a type it is published with, or as a peer writes
\* that.  The value of a meta-topic says who is connected, what the uids of the
\* server or of a client stand for, or which clients subscribe to a topic or
\* publish it, and under which uid.
ValuesOf(n) ==
  CASE ~IsMeta(n) -> (Type \cup {WireType(t) : t \in Type}) \X Data
    [] IsMeta(n) /\ n[2] = "clients" -> SUBSET ClientName
    [] IsMeta(n) /\ n[2] \in {"serversub", "clientsub"} -> SUBSET (SubUid \X Subscribable)
    [] IsMeta(n) /\ n[2] \in {"serverpub", "clientpub"} -> SUBSET (PubUid \X Regular)
    [] IsMeta(n) /\ n[2] = "sub" -> SUBSET (ClientName \X SubUid)
    [] IsMeta(n) /\ n[2] = "pub" -> SUBSET (ClientName \X PubUid)

\* What is sent of a value: of a number that it is one, not with which sign.
Sent(n, value) == IF IsMeta(n) THEN value ELSE <<ApiType(value[1]), value[2]>>

\* Names that begin with '$' are the server's own: the code does not refuse them
\* to a publisher, and what it does with one that is published is not modelled.
\* Null stands for a null pointer, which is none of what the maps point to.
ASSUME NTServerAssumption ==
  /\ IsFiniteSet(Name)
  /\ \A n \in Regular : n \in Seq(STRING) /\ ~IsMeta(n)
  /\ \A m, n \in Name : Rank(m) \in Nat /\ (Rank(m) = Rank(n) => m = n)
  /\ Self \notin Client
  /\ TextLimit \in Nat \ {0} /\ BinaryLimit \in Nat \ {0}
  /\ MaxSuffix \in Nat
  /\ Cacheable \subseteq BOOLEAN /\ CachedUpdates \subseteq BOOLEAN
  /\ AnnounceRefused \subseteq Name /\ UpdateRefused \subseteq Name /\ Later \subseteq Client
  /\ Data # {} /\ Null \notin Subscribable /\ Null \notin Regular

\* A null pointer among the topics.
NullTopic == [value |-> Null, cached |-> FALSE, null |-> TRUE]

-----------------------------------------------------------------------------
(* The order of an unordered_map, and the caches.                          *)

Position(n, N) == Cardinality({m \in N : Rank(m) <= Rank(n)})
InOrder(N) == [i \in 1..Cardinality(N) |-> CHOOSE n \in N : Position(n, N) = i]

\* What a peer makes of a text frame: the ids it is told.
ReadText(peer, msgs) ==
  [peer EXCEPT !.known = @ \cup {m \in ToSet(msgs) : m.method = "announce"}]

\* What a peer makes of a binary frame: the last value of each id.  A value
\* whose id was never announced sets early for good.
ReadBinary(peer, msgs) ==
  LET ids == {msgs[i].id : i \in DOMAIN msgs}
      last(id) == CHOOSE i \in DOMAIN msgs :
                    /\ msgs[i].id = id
                    /\ \A j \in DOMAIN msgs : msgs[j].id = id => j <= i
  IN [peer EXCEPT
        !.vals = [id \in DOMAIN @ \cup ids |->
                    IF id \in ids THEN msgs[last(id)].value ELSE @[id]],
        !.early = @ \/ ids \ {k.id : k \in peer.known} # {}]

FaultFlushDrops(cl) == [cl EXCEPT !.text = <<>>]

\* flushText(client), flushBinary(client)
FlushText(cl) ==
  [cl EXCEPT !.peer = ReadText(@, cl.text), !.text = <<>>]
FlushBinary(cl) ==
  [cl EXCEPT !.peer = ReadBinary(@, cl.binary), !.binary = <<>>]

FaultNoOverflow(all, limit) == 0

\* How many messages have left a cache once all of them were appended one by
\* one, the cache being sent whenever the next one would not fit.
Overflow(all, limit) ==
  IF all = <<>> THEN 0 ELSE ((Len(all) - 1) \div limit) * limit

PushText(cl, msgs) ==
  LET all == cl.text \o msgs
      cut == Overflow(all, TextLimit)
  IN [cl EXCEPT !.peer = ReadText(@, SubSeq(all, 1, cut)),
                !.text = SubSeq(all, cut + 1, Len(all))]

PushBinary(cl, msgs) ==
  LET all == cl.binary \o msgs
      cut == Overflow(all, BinaryLimit)
  IN [cl EXCEPT !.peer = ReadBinary(@, SubSeq(all, 1, cut)),
                !.binary = SubSeq(all, cut + 1, Len(all))]

-----------------------------------------------------------------------------
(* Subscriptions.                                                          *)

\* isSubscribed(subscription, name): a prefix without '$' matches no meta-topic
Matches(sub, n) ==
  \E p \in sub.topics :
    IF sub.prefix THEN IsPrefix(p, n) /\ (IsMeta(n) => IsMeta(p)) ELSE n = p

\* isSubscribed(subscriptions, name) and the same with requireNotTopicsOnly
IsSubscribed(cl, n) == \E u \in DOMAIN cl.subs : Matches(cl.subs[u], n)
WantsValue(cl, n) ==
  \E u \in DOMAIN cl.subs : ~cl.subs[u].topicsonly /\ Matches(cl.subs[u], n)

-----------------------------------------------------------------------------
(* Announcements: operators on one ClientData.                             *)

Announcement(n, id) == [method |-> "announce", name |-> n, id |-> id]

FaultIdsNotCounted(cl, N) ==
  LET new == N \ DOMAIN cl.data
  IN [cl EXCEPT !.data = [n \in DOMAIN @ \cup new |->
        IF n \in new THEN [id |-> cl.nextId, initialPublish |-> FALSE] ELSE @[n]]]

\* Give the names of N that have none yet an id, in the order of the map.
AssignIds(cl, N) ==
  LET new == N \ DOMAIN cl.data
  IN [cl EXCEPT
        !.data = [n \in DOMAIN @ \cup new |->
                    IF n \in new
                      THEN [id |-> cl.nextId + Position(n, new) - 1,
                            initialPublish |-> FALSE]
                      ELSE @[n]],
        !.nextId = @ + Cardinality(new)]

Announcements(cl, N) ==
  [i \in 1..Cardinality(N) |-> Announcement(InOrder(N)[i], cl.data[InOrder(N)[i]].id)]

\* announceTopic(guid, topic): says nothing of a topic that has an id already
AnnounceTo(cl, N) ==
  LET assigned == AssignIds(cl, N)
  IN PushText(assigned, Announcements(assigned, N \ DOMAIN cl.data))

FaultFreshIdForPublisher(cl, n) ==
  AnnounceTo([cl EXCEPT !.data = [m \in DOMAIN @ \ {n} |-> @[m]]], {n})

\* announceTopic(guid, topic, pubuid): always answers the publisher
AnnounceToPublisher(cl, n) ==
  LET assigned == AssignIds(cl, {n})
  IN PushText(assigned, Announcements(assigned, {n}))

\* announceTopicSelfSync and announceTopicSelf: topicAnnouncedCallback runs at once
AnnounceSelf(cl, N) ==
  LET assigned == AssignIds(cl, N)
  IN [assigned EXCEPT !.peer = ReadText(@, Announcements(assigned, N))]

Announce(c, cl, N) == IF c = Self THEN AnnounceSelf(cl, N) ELSE AnnounceTo(cl, N)

\* thisClient.topicData[name].id in publishTopicSelfSync: operator[] gives a
\* topic that was not announced to the server the entry {0, false}
LookUpSelfId(cl, n) ==
  IF n \in DOMAIN cl.data THEN cl
  ELSE [cl EXCEPT !.data = [m \in DOMAIN @ \cup {n} |->
                              IF m = n THEN [id |-> 0, initialPublish |-> FALSE]
                              ELSE @[m]]]

-----------------------------------------------------------------------------
(* Operators on the state s == [topics, clients].                          *)

State == [topics |-> topics, clients |-> clients]
Become(s) == topics' = s.topics /\ clients' = s.clients

OnClient(s, c, cl) == [s EXCEPT !.clients[c] = cl]

\* announceTopic(topic): all clients subscribed to it
AnnounceToAll(s, n) ==
  [s EXCEPT !.clients = [c \in DOMAIN @ |->
     IF IsSubscribed(@[c], n) THEN Announce(c, @[c], {n}) ELSE @[c]]]

FaultAnswerPublisherOnly(s, n, p) == OnClient(s, p, AnnounceToPublisher(s.clients[p], n))

\* announceTopic(topic, publisherGuid, pubuid)
AnnounceToAllFrom(s, n, p) ==
  [s EXCEPT !.clients = [c \in DOMAIN @ |->
     CASE c = p -> AnnounceToPublisher(@[c], n)
       [] c # p /\ IsSubscribed(@[c], n) -> Announce(c, @[c], {n})
       [] OTHER -> @[c]]]

\* announceCachedTopics(guid), announceCachedTopicsSelf
AnnounceCached(s, c) ==
  OnClient(s, c, Announce(c, s.clients[c],
    {n \in DOMAIN s.topics : s.topics[n].cached /\ IsSubscribed(s.clients[c], n)}))

\* sendTopicUpdate(guid, topic) and sendTopicUpdateSelf, for the topics of N in turn
SendTo(s, c, N) ==
  LET cl == s.clients[c]
      msgs == [i \in 1..Cardinality(N) |->
                 [id |-> cl.data[InOrder(N)[i]].id,
                  value |-> Sent(InOrder(N)[i], s.topics[InOrder(N)[i]].value)]]
  IN IF c = Self THEN [cl EXCEPT !.peer = ReadBinary(@, msgs)]
     ELSE PushBinary([cl EXCEPT !.data = [n \in DOMAIN @ |->
                        IF n \in N THEN [@[n] EXCEPT !.initialPublish = TRUE] ELSE @[n]]],
                     msgs)

FaultSubscribedOnly(s, N) ==
  [s EXCEPT !.clients = [c \in DOMAIN @ |->
     SendTo(s, c, {n \in N \cap DOMAIN @[c].data : WantsValue(@[c], n)})]]

\* The clients that were sent the value of a topic before, and those subscribed to it.
Follower(cl, n) ==
  n \in DOMAIN cl.data /\ (cl.data[n].initialPublish \/ WantsValue(cl, n))

\* The names at which the loop of sendTopicUpdate(topic) ends before it comes to c:
\* the application is called with the value and returns false.
Missed(s, c) ==
  {n \in UpdateRefused : c \in Later /\ Follower(s.clients[Self], n)}

\* sendTopicUpdate(topic) for the topics of N in turn
SendUpdates(s, N) ==
  [s EXCEPT !.clients = [c \in DOMAIN @ |->
     SendTo(s, c, {n \in N \ Missed(s, c) : Follower(@[c], n)})]]

\* publishInitialValues(guid), publishInitialValuesSelf
PublishInitialValues(s, c) ==
  OnClient(s, c, SendTo(s, c,
    {n \in DOMAIN s.clients[c].data :
       ~s.clients[c].data[n].initialPublish /\ WantsValue(s.clients[c], n)}))

\* flushText(), flushBinary(): every client but the server itself
FlushAllText(s) ==
  [s EXCEPT !.clients = [c \in DOMAIN @ |-> IF c = Self THEN @[c] ELSE FlushText(@[c])]]
FlushAllBinary(s) ==
  [s EXCEPT !.clients = [c \in DOMAIN @ |-> IF c = Self THEN @[c] ELSE FlushBinary(@[c])]]

-----------------------------------------------------------------------------
(* Meta-topics.  Each of the update...MetaTopic functions recomputes the   *)
(* value of one meta-topic and sends it.                                   *)

Remote(s) == DOMAIN s.clients \ {Self}

Subscriptions(cl) == {<<u, cl.subs[u]>> : u \in DOMAIN cl.subs}
Publishers(cl) == {<<u, cl.pubs[u]>> : u \in DOMAIN cl.pubs}

\* One matching subscription of each client.
TopicSubscriptions(s, n) ==
  {<<s.clients[c].name,
     CHOOSE u \in DOMAIN s.clients[c].subs : Matches(s.clients[c].subs[u], n)>> :
     c \in {d \in Remote(s) : IsSubscribed(s.clients[d], n)}}
TopicPublishers(s, n) ==
  UNION {{<<s.clients[c].name, u>> : u \in {v \in DOMAIN s.clients[c].pubs : s.clients[c].pubs[v] = n}} :
           c \in Remote(s)}

SetAndSend(s, value) ==
  SendUpdates([s EXCEPT !.topics = [n \in DOMAIN @ |->
                 IF n \in DOMAIN value THEN [@[n] EXCEPT !.value = value[n]] ELSE @[n]]],
              DOMAIN value)

UpdateClientsMeta(s) ==
  SetAndSend(s, [n \in {ClientsTopic} |-> {s.clients[c].name : c \in Remote(s)}])
UpdateServerSubMeta(s) ==
  SetAndSend(s, [n \in {ServerSubTopic} |-> Subscriptions(s.clients[Self])])
UpdateServerPubMeta(s) ==
  SetAndSend(s, [n \in {ServerPubTopic} |-> Publishers(s.clients[Self])])
UpdateClientSubMeta(s, c) ==
  SetAndSend(s, [n \in {ClientSubTopic(s.clients[c].name)} |-> Subscriptions(s.clients[c])])
UpdateClientPubMeta(s, c) ==
  SetAndSend(s, [n \in {ClientPubTopic(s.clients[c].name)} |-> Publishers(s.clients[c])])

FaultSubMetaKept(s, N) == s
FaultPubMetaKept(s, n) == s

\* operator[] puts a null pointer for a meta-topic that is not there, and the
\* assertion that follows fails.
LeaveNull(s, N) ==
  [s EXCEPT !.topics = [n \in DOMAIN @ \cup N |-> IF n \in N THEN NullTopic ELSE @[n]]]

SetMeta(s, value) ==
  IF DOMAIN value \subseteq DOMAIN s.topics THEN SetAndSend(s, value)
  ELSE LeaveNull(s, DOMAIN value \ DOMAIN s.topics)

\* updateTopicSubMetaTopic(name), for the names of N in turn
UpdateTopicSubMeta(s, N) ==
  SetMeta(s, [m \in {SubTopic(n) : n \in N} |->
                   TopicSubscriptions(s, CHOOSE n \in N : SubTopic(n) = m)])
UpdateTopicPubMeta(s, n) ==
  SetMeta(s, [m \in {PubTopic(n)} |-> TopicPublishers(s, n)])

-----------------------------------------------------------------------------
(* Publishing a topic.                                                     *)

GetOrCreate(s, n, value, cached) ==
  IF n \in DOMAIN s.topics THEN s
  ELSE [s EXCEPT !.topics = [m \in DOMAIN @ \cup {n} |->
                   IF m = n THEN [value |-> value, cached |-> cached] ELSE @[m]]]

\* publishTopic(name, value, properties) for a meta-topic: always cached
PublishMeta(s, n) == AnnounceToAll(GetOrCreate(s, n, {}, TRUE), n)

FaultNoPubTopic(s, n) ==
  UpdateTopicPubMeta(UpdateTopicSubMeta(PublishMeta(s, SubTopic(n)), {n}), n)

\* announceTopic(topic) returned false: the application was told and refused.
Refused(s, n) == n \in AnnounceRefused /\ IsSubscribed(s.clients[Self], n)

\* What the three publishTopic functions do for an ordinary topic once it is
\* announced: each of them returns at the first announcement that is refused.
PublishTopicMetas(s, n) ==
  LET s1 == PublishMeta(s, SubTopic(n))
      s2 == PublishMeta(s1, PubTopic(n))
  IN IF Refused(s, n) THEN s
     ELSE IF Refused(s1, SubTopic(n)) THEN s1
     ELSE IF Refused(s2, PubTopic(n)) THEN s2
     ELSE UpdateTopicPubMeta(UpdateTopicSubMeta(s2, {n}), n)

\* publishTopic(name, value, publisherGuid, pubuid, properties)
PublishFrom(s, n, value, cached, p) ==
  PublishTopicMetas(AnnounceToAllFrom(GetOrCreate(s, n, value, cached), n, p), n)

\* publishTopicSelfSync
PublishSelf(s, n, value, cached) ==
  LET published == PublishTopicMetas(AnnounceToAll(GetOrCreate(s, n, value, cached), n), n)
  IN IF \E m \in {n, SubTopic(n), PubTopic(n)} : Refused(s, m) THEN published
     ELSE OnClient(published, Self, LookUpSelfId(published.clients[Self], n))

-----------------------------------------------------------------------------
(* The server starts (startServer) and clients come and go.                *)

NewClient(name) ==
  [name |-> name, subs |-> <<>>, pubs |-> <<>>, data |-> <<>>, nextId |-> 0,
   text |-> <<>>, binary |-> <<>>,
   peer |-> [known |-> {}, vals |-> <<>>, early |-> FALSE]]

Put(f, x, y) == [v \in DOMAIN f \cup {x} |-> IF v = x THEN y ELSE f[v]]
Drop(f, x) == [v \in DOMAIN f \ {x} |-> f[v]]

Init ==
  /\ topics = [n \in ServerName |-> [value |-> {}, cached |-> TRUE]]
  /\ clients = [c \in {Self} |-> NewClient(<<"fake_server", 0>>)]
  /\ inFrame = {}

\* A null pointer that operator[] put in a map is dereferenced by the next walk
\* over that map: what the server does from there on is not modelled.
NoNullEntry ==
  /\ \A n \in DOMAIN topics : topics[n] # NullTopic
  /\ \A c \in DOMAIN clients :
       /\ \A u \in DOMAIN clients[c].subs : clients[c].subs[u] # Null
       /\ \A u \in DOMAIN clients[c].pubs : clients[c].pubs[u] # Null

FaultSuffixIsCount(base) ==
  1 + Cardinality({c \in Remote(State) : clients[c].name[1] = base})

\* nextClientWithName, for names without '@'
NextSuffix(base) ==
  LET used == {clients[c].name[2] :
                 c \in {d \in Remote(State) : clients[d].name[1] = base}}
  IN CHOOSE i \in 1..(MaxSuffix + 1) :
       (used = {} /\ i = 1) \/ (i - 1 \in used /\ \A j \in used : j < i)

ClientConnected(c) ==
  LET name == <<Base[c], NextSuffix(Base[c])>>
      s1 == [topics |-> topics, clients |-> Put(clients, c, NewClient(name))]
      s2 == PublishMeta(PublishMeta(s1, ClientSubTopic(name)), ClientPubTopic(name))
      s3 == UpdateClientPubMeta(UpdateClientSubMeta(UpdateClientsMeta(s2), c), c)
      s4 == PublishInitialValues(OnClient(s3, c, FlushText(s3.clients[c])), c)
  IN /\ NoNullEntry /\ c \notin DOMAIN clients
     /\ NextSuffix(Base[c]) \in 1..MaxSuffix
     /\ Become(OnClient(s4, c, FlushBinary(s4.clients[c])))
     /\ UNCHANGED inFrame

\* The connection is served by one task: it is between two frames.
BetweenFrames(c) == NoNullEntry /\ c \in Remote(State) \ inFrame

FaultClientsTopicKept(c) ==
  /\ BetweenFrames(c)
  /\ Become(FlushAllBinary([State EXCEPT !.clients = Drop(@, c)]))
  /\ UNCHANGED inFrame

ClientDisconnected(c) ==
  /\ BetweenFrames(c)
  /\ Become(FlushAllBinary(UpdateClientsMeta([State EXCEPT !.clients = Drop(@, c)])))
  /\ UNCHANGED inFrame

-----------------------------------------------------------------------------
(* The messages of a text frame of client c, each under stateMutex.        *)

InTextFrame(c) ==
  /\ NoNullEntry /\ c \in Remote(State)
  /\ inFrame' = inFrame \cup {c}

Ordinary == {n \in DOMAIN topics : ~IsMeta(n)}

Subscribe(c, u, sub) ==
  LET s1 == [State EXCEPT !.clients[c].subs = Put(@, u, sub)]
      s2 == UpdateTopicSubMeta(UpdateClientSubMeta(s1, c), {n \in Ordinary : Matches(sub, n)})
  IN InTextFrame(c) /\ Become(AnnounceCached(s2, c))

\* An unknown subuid leaves a null pointer behind.
UnSubscribe(c, u) ==
  LET sub == clients[c].subs[u]
      s1 == [State EXCEPT !.clients[c].subs = Drop(@, u)]
  IN /\ InTextFrame(c)
     /\ IF u \in DOMAIN clients[c].subs
          THEN Become(UpdateTopicSubMeta(UpdateClientSubMeta(s1, c),
                                         {n \in Ordinary : Matches(sub, n)}))
          ELSE UnknownNames /\ Become([State EXCEPT !.clients[c].subs = Put(@, u, Null)])

Publish(c, u, n, type, cached) ==
  LET s1 == [State EXCEPT !.clients[c].pubs = Put(@, u, n)]
      s2 == IF n \in DOMAIN topics
              THEN OnClient(s1, c, AnnounceToPublisher(s1.clients[c], n))
              ELSE PublishFrom(s1, n, DefaultValue(WireType(type)), cached, c)
  IN InTextFrame(c) /\ Become(UpdateTopicPubMeta(UpdateClientPubMeta(s2, c), n))

UnPublish(c, u) ==
  LET s1 == [State EXCEPT !.clients[c].pubs = Drop(@, u)]
  IN /\ InTextFrame(c)
     /\ \/ \E n \in Regular : /\ <<u, n>> \in Publishers(clients[c])
                              /\ Become(UpdateTopicPubMeta(UpdateClientPubMeta(s1, c), n))
        \/ /\ UnknownNames /\ u \notin DOMAIN clients[c].pubs
           /\ Become([State EXCEPT !.clients[c].pubs = Put(@, u, Null)])

\* updateTopicProperties: tells the subscribers, announced or not
TellProperties(s, n) ==
  [s EXCEPT !.clients = [c \in DOMAIN @ |->
     IF c # Self /\ IsSubscribed(@[c], n)
       THEN PushText(@[c], <<[method |-> "properties", name |-> n]>>) ELSE @[c]]]

ChangeProperties(n, cached) ==
  IF n \in DOMAIN topics
    THEN Become(TellProperties([State EXCEPT !.topics[n].cached = cached], n))
    ELSE UnknownNames /\ Become(LeaveNull(State, {n}))

SetProperties(c, n, cached) == InTextFrame(c) /\ ChangeProperties(n, cached)

FaultNoInitialValues(c) ==
  /\ NoNullEntry /\ c \in inFrame
  /\ Become(FlushAllBinary(FlushAllText(State)))
  /\ inFrame' = inFrame \ {c}

\* The flush that ends the frame, and a frame given up for want of the mutex.
EndFrame(c) ==
  /\ NoNullEntry /\ c \in inFrame
  /\ Become(FlushAllBinary(PublishInitialValues(FlushAllText(State), c)))
  /\ inFrame' = inFrame \ {c}

AbandonFrame(c) ==
  /\ MayTimeOut /\ NoNullEntry /\ c \in inFrame
  /\ inFrame' = inFrame \ {c}
  /\ UNCHANGED <<topics, clients>>

-----------------------------------------------------------------------------
(* A value in a binary frame of client c; NTDataValue::assign keeps the old *)
(* value unless the two are sent with one type, and the old type always.   *)

FaultAssignAnyType(old, new) == new
Assign(old, new) ==
  IF ApiType(old[1]) = ApiType(new[1]) THEN <<old[1], new[2]>> ELSE old

UpdateValue(s, n, value) ==
  SetAndSend(s, [m \in {n} |-> Assign(s.topics[n].value, value)])

BinaryFrame(c, u, value) ==
  LET pubs == clients[c].pubs
  IN /\ BetweenFrames(c)
     /\ IF u \in DOMAIN pubs
          THEN Become(FlushAllBinary(UpdateValue(State, pubs[u], value)))
          ELSE UnknownNames
               /\ Become(FlushAllBinary([State EXCEPT !.clients[c].pubs = Put(@, u, Null)]))
     /\ UNCHANGED inFrame

-----------------------------------------------------------------------------
(* The server's own application, through the hybrid functions.             *)

App == clients[Self]
AppCalls(mayCall) == mayCall /\ NoNullEntry /\ UNCHANGED inFrame

FaultAppNotRefreshed(u, sub) ==
  LET s1 == UpdateServerSubMeta([State EXCEPT !.clients[Self].subs = Put(@, u, sub)])
  IN AppCalls(AppSubscribes) /\ Become(AnnounceCached(s1, Self))

AppSubscribe(u, sub) ==
  LET s1 == UpdateServerSubMeta([State EXCEPT !.clients[Self].subs = Put(@, u, sub)])
  IN AppCalls(AppSubscribes) /\ Become(PublishInitialValues(AnnounceCached(s1, Self), Self))

AppUnsubscribe(u) ==
  /\ AppCalls(AppSubscribes)
  /\ IF u \in DOMAIN App.subs
       THEN Become(UpdateServerSubMeta([State EXCEPT !.clients[Self].subs = Drop(@, u)]))
       ELSE UnknownNames /\ Become([State EXCEPT !.clients[Self].subs = Put(@, u, Null)])

AppPublish(u, n, type, cached) ==
  LET s1 == [State EXCEPT !.clients[Self].pubs = Put(@, u, n)]
      s2 == IF n \in DOMAIN topics
              THEN OnClient(s1, Self, AssignIds(s1.clients[Self], {n}))
              ELSE PublishSelf(s1, n, DefaultValue(type), cached)
  IN AppCalls(AppPublishes) /\ Become(UpdateServerPubMeta(s2))

AppUnpublish(u) ==
  /\ AppCalls(AppPublishes)
  /\ IF u \in DOMAIN App.pubs
       THEN Become(UpdateServerPubMeta([State EXCEPT !.clients[Self].pubs = Drop(@, u)]))
       ELSE UnknownNames /\ Become([State EXCEPT !.clients[Self].pubs = Put(@, u, Null)])

AppSetProperties(n, cached) == AppCalls(AppPublishes) /\ ChangeProperties(n, cached)

AppUpdateTopic(u, value) ==
  /\ AppCalls(AppPublishes)
  /\ IF u \in DOMAIN App.pubs
       THEN Become(UpdateValue(State, App.pubs[u], value))
       ELSE UnknownNames /\ Become([State EXCEPT !.clients[Self].pubs = Put(@, u, Null)])

AppFlush == AppCalls(AppPublishes) /\ Become(FlushAllBinary(State))

AppStep ==
  \/ \E u \in SubUid : AppUnsubscribe(u) \/ \E sub \in Subscribable : AppSubscribe(u, sub)
  \/ \E u \in PubUid :
       \/ AppUnpublish(u)
       \/ \E n \in Regular, t \in Type, k \in Cacheable : AppPublish(u, n, t, k)
       \/ \E v \in Value : AppUpdateTopic(u, v)
  \/ \E n \in Regular, k \in CachedUpdates : AppSetProperties(n, k)
  \/ AppFlush

ClientStep(c) ==
  \/ ClientConnected(c)
  \/ ClientDisconnected(c)
  \/ \E u \in SubUid : UnSubscribe(c, u) \/ \E sub \in Subscribable : Subscribe(c, u, sub)
  \/ \E u \in PubUid :
       \/ UnPublish(c, u)
       \/ \E n \in Regular, t \in Type, k \in Cacheable : Publish(c, u, n, t, k)
       \/ \E v \in Value : BinaryFrame(c, u, v)
  \/ \E n \in Regular, k \in CachedUpdates : SetProperties(c, n, k)
  \/ EndFrame(c)
  \/ AbandonFrame(c)

Next == AppStep \/ \E c \in Client : ClientStep(c)

Spec == Init /\ [][Next]_vars

-----------------------------------------------------------------------------
(* Properties.                                                             *)

Message == [method : {"announce"}, name : Name, id : Nat]
           \cup [method : {"properties"}, name : Name]

IsClientData(cl) ==
  /\ DOMAIN cl = {"name", "subs", "pubs", "data", "nextId", "text", "binary", "peer"}
  /\ cl.name \in ClientName \cup {<<"fake_server", 0>>}
  /\ DOMAIN cl.subs \subseteq SubUid
  /\ \A u \in DOMAIN cl.subs : cl.subs[u] \in Subscribable \cup {Null}
  /\ DOMAIN cl.pubs \subseteq PubUid
  /\ \A u \in DOMAIN cl.pubs : cl.pubs[u] \in Regular \cup {Null}
  /\ DOMAIN cl.data \subseteq Name
  /\ \A n \in DOMAIN cl.data : cl.data[n] \in [id : Nat, initialPublish : BOOLEAN]
  /\ cl.nextId \in Nat
  /\ \A i \in DOMAIN cl.text : cl.text[i] \in Message
  /\ \A i \in DOMAIN cl.binary : cl.binary[i].id \in Nat
  /\ Len(cl.text) <= TextLimit /\ Len(cl.binary) <= BinaryLimit
  /\ DOMAIN cl.peer.vals \subseteq Nat /\ cl.peer.early \in BOOLEAN

\* The maps hold what their declarations in ntinstance.h say, and no cache
\* outgrows its limit.
TypeOK ==
  /\ DOMAIN topics \subseteq Name
  /\ \A n \in DOMAIN topics :
       topics[n] = NullTopic \/ topics[n] \in [value : ValuesOf(n), cached : BOOLEAN]
  /\ Self \in DOMAIN clients /\ DOMAIN clients \subseteq Peer
  /\ \A c \in DOMAIN clients : IsClientData(clients[c])
  /\ inFrame \subseteq Remote(State)

IdsDistinct(cl) ==
  \A m, n \in DOMAIN cl.data : cl.data[m].id = cl.data[n].id => m = n

\* No two topics share an id in what a client is told (nextTopicIdAssigned++ in
\* the announceTopic functions): a value frame names its topic by the id alone.
RemoteIdsDistinct == \A c \in Remote(State) : IdsDistinct(clients[c])

\* The same of the ids the server's own application is given.
AppIdsDistinct == IdsDistinct(App)

\* A client that was once sent a topic's value has, in its binary cache or
\* already received, the value the topic has now: whatever path changes a value
\* (a client's frame, the application, a meta-topic refresh) sends it to all that
\* have initialPublish, and no flush drops or reorders.  Not so if the application
\* refuses the topic's updates and comes before the client in the map.
Overlooked(c) == IF c \in Later THEN UpdateRefused ELSE {}

ReplicaCurrent ==
  \A c \in Remote(State) : \A n \in DOMAIN clients[c].data \ Overlooked(c) :
    clients[c].data[n].initialPublish =>
      FlushBinary(clients[c]).peer.vals[clients[c].data[n].id] = Sent(n, topics[n].value)

\* The ids assigned to a client are those it was told or that wait in its text
\* cache: no announcement is lost and none is invented.
NoAnnouncementLost ==
  \A c \in Remote(State) :
    FlushText(clients[c]).peer.known =
      {Announcement(n, clients[c].data[n].id) : n \in DOMAIN clients[c].data}

\* Whoever is subscribed to a cached topic is announced it, in whatever order the
\* topic was created, the subscription made and the client connected.
SubscribersAnnounced ==
  \A c \in DOMAIN clients : \A n \in DOMAIN topics :
    topics[n].cached /\ IsSubscribed(clients[c], n) => n \in DOMAIN clients[c].data

\* A value is never received before the announcement of its id.
AnnouncedBeforeValue == \A c \in Remote(State) : ~clients[c].peer.early

\* $sub$ and $pub$ of a topic list every connected client that subscribes to it
\* or publishes it, however the client came to match.
SubscribersListed ==
  \A n \in Ordinary : \A c \in Remote(State) :
    IsSubscribed(clients[c], n) =>
      \E u \in SubUid : <<clients[c].name, u>> \in topics[SubTopic(n)].value
PublishersListed ==
  \A n \in Ordinary : TopicPublishers(State, n) \subseteq topics[PubTopic(n)].value

\* The meta-topics about clients say exactly who is connected, what each one
\* subscribes to and publishes, and the same of the server.
ClientMetaExact ==
  /\ topics[ClientsTopic].value = {clients[c].name : c \in Remote(State)}
  /\ topics[ServerSubTopic].value = Subscriptions(App)
  /\ topics[ServerPubTopic].value = Publishers(App)
  /\ \A c \in Remote(State) :
       /\ topics[ClientSubTopic(clients[c].name)].value = Subscriptions(clients[c])
       /\ topics[ClientPubTopic(clients[c].name)].value = Publishers(clients[c])

\* Connected clients have different names (nextClientWithName), though names are
\* given again after a client has left.
NamesDistinct ==
  \A c, d \in Remote(State) : clients[c].name = clients[d].name => c = d

\* assert(t != nullptr) in updateTopicSubMetaTopic and updateTopicPubMetaTopic:
\* every ordinary name in the map has its two meta-topics, unless the application
\* refuses one of the three announcements.
MetaTopicsExist ==
  \A n \in Ordinary : {n, SubTopic(n), PubTopic(n)} \cap AnnounceRefused = {} =>
    \A m \in {SubTopic(n), PubTopic(n)} : m \in DOMAIN topics /\ topics[m] # NullTopic

\* What the application's callbacks were told last of a topic it wants the values
\* of is the value the topic has now, across its unsubscribing and subscribing, for
\* as long as no two of its topics share an id.
AppReplicaCurrent ==
  AppIdsDistinct =>
    \A n \in DOMAIN App.data :
      WantsValue(App, n) /\ App.data[n].id \in DOMAIN App.peer.vals =>
        App.peer.vals[App.data[n].id] = Sent(n, topics[n].value)

\* While a client stays connected an id keeps its topic and a topic its id, and
\* what was sent once goes on being sent.
IdsStable ==
  [][\A c \in Remote(State) \cap DOMAIN clients' : \A n \in DOMAIN clients[c].data :
       /\ n \in DOMAIN clients'[c].data
       /\ clients'[c].data[n].id = clients[c].data[n].id
       /\ clients[c].data[n].initialPublish => clients'[c].data[n].initialPublish]_vars

\* A topic keeps the type of its first publisher: a value of another type, from a
\* client or from the application, changes nothing.
TypeStable ==
  [][\A n \in Ordinary : topics'[n].value[1] = topics[n].value[1]]_vars

\* When a text frame has been served its sender has been told every topic it is
\* announced and sent a value of each that its subscriptions ask the value of.
ServedAtFrameEnd ==
  [][\A c \in inFrame \ inFrame' :
       LET cl == clients'[c]
       IN /\ cl.text = <<>> /\ cl.binary = <<>>
          /\ \A n \in DOMAIN cl.data :
               WantsValue(cl, n) => cl.data[n].id \in DOMAIN cl.peer.vals]_vars

=============================================================================
