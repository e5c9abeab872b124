------------------------------ MODULE NTFacade ------------------------------
(***************************************************************************)
(* The subscribers, publishers and entries through which the server's      *)
(* application uses NetworkTables (src/src/nt/ntsubscriber.cpp,            *)
(* ntpublisher.cpp, ntentry.cpp, nttopic.cpp), on top of NTServer.         *)
(*                                                                         *)
(* A handle is the uid its constructor takes from a counter and never      *)
(* gives again.  A subscriber waits in the queue of its name until the     *)
(* first announcement of that name, which assigns its topic; what it reads *)
(* is the last update of the topic's id, NT_topicCallbacks[nt].updates,    *)
(* which is peer.vals of the server's own ClientData.  Each constructor    *)
(* is two steps, since it uses stateMutex after its first one or twice.    *)
(* One that waits for it in vain goes on: the handle exists, with a uid    *)
(* the server was never told.                                              *)
(***************************************************************************)
EXTENDS NTServer

CONSTANTS
  Entry,         \* the subscribers that are part of an NTEntry
  InVain         \* the functions of NetworkTableInstance that may wait for
                 \* stateMutex in vain

\* A subscriber asks for the values of one topic.  One whose subscribe, or a
\* publisher whose publish, waited in vain goes on with a uid never declared.  The
\* callbacks NT_topicAnnouncedCallback and NT_topicUpdateCallback return true.
ASSUME NTFacadeAssumption ==
  /\ AnnounceRefused = {} /\ UpdateRefused = {}
  /\ Entry \subseteq SubUid /\ Null \notin Nat
  /\ {"subscribe", "publish"} \cap InVain # {} => UnknownNames
  /\ {[topics |-> {n}, prefix |-> FALSE, topicsonly |-> FALSE] : n \in Regular} \subseteq Subscribable

VARIABLES
  sub,           \* subscriber -> [stage, topic]
  pub,           \* publisher -> [stage, topic, value]
  owned,         \* entry -> the publisher it publishes with, or Null
  waiting,       \* name -> subscribers in TopicCallbackData::topics[name].announce
  dangled        \* subscribers that were called after their destruction

serverVars == <<topics, clients, inFrame>>
handleVars == <<sub, pub, owned, waiting, dangled>>
facadeVars == <<serverVars, handleVars>>

\* The id -1 of a topic that is not announced is Null.
NoTopic(n) == [name |-> n, id |-> Null, type |-> "bool"]

FacadeInit ==
  /\ Init
  /\ sub = [h \in SubUid |-> [stage |-> "none", topic |-> NoTopic(<<>>)]]
  /\ pub = [p \in PubUid |-> [stage |-> "none", topic |-> NoTopic(<<>>), value |-> Null]]
  /\ owned = [e \in Entry |-> Null]
  /\ waiting = [n \in Regular |-> {}]
  /\ dangled = {}

-----------------------------------------------------------------------------
(* NT_topicAnnouncedCallback.                                              *)

\* NTTopic(nt, announcedTopic), as the server has it after the step
Answer(n) == [name |-> n, id |-> clients'[Self].data[n].id, type |-> topics'[n].value[1]]

FaultQueueErased(N, subs) ==
  /\ waiting' = [n \in Regular \ N |-> waiting[n]]
  /\ sub' = subs /\ dangled' = dangled

FaultNotPopped(N, subs) ==
  LET called == UNION {waiting[n] : n \in N}
      gone == {h \in called : subs[h].stage = "gone"}
  IN /\ sub' = [h \in SubUid |->
                  IF h \in called \ gone THEN [subs[h] EXCEPT !.topic = Answer(@.name)]
                  ELSE subs[h]]
     /\ dangled' = dangled \cup gone
     /\ waiting' = waiting

FaultFrontOnly(N, subs) ==
  LET called == UNION {{h \in waiting[n] : \A k \in waiting[n] : h <= k} : n \in N}
      gone == {h \in called : subs[h].stage = "gone"}
  IN /\ waiting' = [n \in Regular |-> waiting[n] \ called]
     /\ dangled' = dangled \cup gone
     /\ sub' = [h \in SubUid |->
                  IF h \in called \ gone THEN [subs[h] EXCEPT !.topic = Answer(@.name)]
                  ELSE subs[h]]

\* Announcing the names of N empties their queues; the topic of each subscriber
\* in them is assigned.  One that is destroyed is called all the same.
CallBack(N, subs) ==
  LET called == UNION {waiting[n] : n \in N}
      gone == {h \in called : subs[h].stage = "gone"}
  IN /\ waiting' = [n \in Regular |-> IF n \in N THEN {} ELSE waiting[n]]
     /\ dangled' = dangled \cup gone
     /\ sub' = [h \in SubUid |->
                  IF h \in called \ gone THEN [subs[h] EXCEPT !.topic = Answer(@.name)]
                  ELSE subs[h]]

\* The names a publication of n, by anyone, announces to the application
NewlyPublished(n) == IF n \notin DOMAIN topics /\ IsSubscribed(App, n) THEN {n} ELSE {}

\* Calling a subscriber that is destroyed is undefined: nothing follows it.
Defined == dangled = {} /\ NoNullEntry

GaveUp(function) == function \in InVain /\ UNCHANGED serverVars

-----------------------------------------------------------------------------
(* Subscribers.                                                            *)

\* The constructor: first the queue of the name, without stateMutex...
NewSubscriber(h, n) ==
  /\ Defined /\ sub[h].stage = "none"
  /\ sub' = [sub EXCEPT ![h] = [stage |-> "new", topic |-> NoTopic(n)]]
  /\ waiting' = [waiting EXCEPT ![n] = @ \cup {h}]
  /\ UNCHANGED <<serverVars, pub, owned, dangled>>

\* ... then subscribe, which announces every cached topic the application is
\* subscribed to, heard of before or not.
Subscribes(h) ==
  /\ Defined /\ sub[h].stage = "new"
  /\ AppSubscribe(h, [topics |-> {sub[h].topic.name}, prefix |-> FALSE, topicsonly |-> FALSE])
  /\ CallBack({n \in Regular \cap DOMAIN topics' :
                 topics'[n].cached /\ IsSubscribed(clients'[Self], n)},
              [sub EXCEPT ![h].stage = "live"])
  /\ UNCHANGED <<pub, owned>>

SubscribeGivesUp(h) ==
  /\ Defined /\ sub[h].stage = "new" /\ GaveUp("subscribe")
  /\ sub' = [sub EXCEPT ![h].stage = "failed"]
  /\ UNCHANGED <<pub, owned, waiting, dangled>>

\* close and the destructor, which closes; the destructor leaves the queue as it is
EndsSubscriber(h, stage) ==
  /\ Defined /\ sub[h].stage \in {"live", "failed"}
  /\ AppUnsubscribe(h) \/ GaveUp("unsubscribe")
  /\ sub' = [sub EXCEPT ![h].stage = stage]
  /\ UNCHANGED <<pub, owned, waiting, dangled>>

CloseSubscriber(h) == h \notin Entry /\ EndsSubscriber(h, "closed")
DestroySubscriber(h) == h \notin Entry /\ EndsSubscriber(h, "gone")

\* The value of type Unassigned, which no topic takes.
Unassigned == <<>>

\* get: the last update of the topic's id, if there was any
Get(h) ==
  IF sub[h].topic.id \in DOMAIN App.peer.vals THEN App.peer.vals[sub[h].topic.id]
  ELSE Unassigned

\* getBoolean, getDouble... getRaw, each for a type of value: getInt and getUInt
\* compare the type the update has, the others the type it is sent with.
GetAs(h, type, default) ==
  LET got == Get(h)
  IN IF got # Unassigned /\ type = (IF type \in {"int", "uint"} THEN got[1] ELSE ApiType(got[1]))
       THEN got[2] ELSE default

\* NTTopic::setProperties
SetTopicProperties(h, cached) ==
  /\ Defined /\ sub[h].stage \in {"live", "closed"} /\ sub[h].topic.id # Null
  /\ AppSetProperties(sub[h].topic.name, cached)
  /\ UNCHANGED handleVars

-----------------------------------------------------------------------------
(* Publishers.                                                             *)

\* The constructor: publish answers the topic...
PublishServed(p, n, value, cached) ==
  /\ AppPublish(p, n, value[1], cached)
  /\ pub' = [pub EXCEPT ![p] = [stage |-> "new", topic |-> Answer(n), value |-> value]]
  /\ CallBack(NewlyPublished(n), sub)

\* ... or one without name, of type Bool, whose id is -1...
PublishGivesUp(p, value) ==
  /\ GaveUp("publish")
  /\ pub' = [pub EXCEPT ![p] = [stage |-> "new", topic |-> NoTopic(<<>>), value |-> value]]
  /\ UNCHANGED <<sub, waiting, dangled>>

Publishes(p, n, value, cached) ==
  /\ Defined /\ pub[p].stage = "none"
  /\ PublishServed(p, n, value, cached) \/ PublishGivesUp(p, value)

\* set(NTDataValue) compares the type the topic was published with and the type
\* the value is sent with: an unsigned topic takes no value this way.
Accepts(type, value) == type = ApiType(value[1])

FaultSignedTaken(t) == IF t \in {"int", "uint"} THEN {"int", "uint", "bool"} ELSE {t}

\* The types of topic that setInt, setUInt, setString... write to
TakenBySetter(t) ==
  CASE t = "uint" -> {"int", "uint"}
    [] t = "str" -> {"str", "json"}
    [] OTHER -> {t}
SetterTypes == Type \ {"json", "raw", "msgpack", "protobuf"}

Taken(p, value) ==
  \/ Accepts(pub[p].topic.type, value)
  \/ value[1] \in SetterTypes /\ pub[p].topic.type \in TakenBySetter(value[1])

\* ... then set(defaultValue).
SetsDefault(p) ==
  /\ Defined /\ pub[p].stage = "new"
  /\ IF Accepts(pub[p].topic.type, pub[p].value)
       THEN AppUpdateTopic(p, pub[p].value) \/ GaveUp("updateTopic")
       ELSE UNCHANGED serverVars
  /\ pub' = [pub EXCEPT ![p].stage = "live"]
  /\ UNCHANGED <<sub, owned, waiting, dangled>>

Set(p, value) ==
  /\ Defined /\ pub[p].stage = "live" /\ Taken(p, value)
  /\ AppUpdateTopic(p, value)
  /\ UNCHANGED handleVars

Unowned(p) == \A e \in Entry : owned[e] # p
PublisherSets(p, value) == Unowned(p) /\ Set(p, value)

ClosePublisher(p) ==
  /\ Defined /\ pub[p].stage = "live" /\ Unowned(p)
  /\ AppUnpublish(p) \/ GaveUp("unpublish")
  /\ pub' = [pub EXCEPT ![p].stage = "closed"]
  /\ UNCHANGED <<sub, owned, waiting, dangled>>

NewPublisher(p, n, value, cached) == Publishes(p, n, value, cached) /\ UNCHANGED owned

-----------------------------------------------------------------------------
(* Entries: a subscriber, and a publisher from the first set on.           *)

\* set, when the entry does not publish: the publisher is constructed in place
EntryPublishes(e, p, value, cached) ==
  /\ sub[e].stage \in {"live", "failed"} /\ owned[e] = Null
  /\ Publishes(p, sub[e].topic.name, value, cached)
  /\ owned' = [owned EXCEPT ![e] = p]

\* set, when it does
EntrySets(e, value) == owned[e] # Null /\ Set(owned[e], value)

\* unpublish
EntryUnpublishes(e) ==
  /\ Defined /\ owned[e] # Null /\ pub[owned[e]].stage = "live"
  /\ AppUnpublish(owned[e]) \/ GaveUp("unpublish")
  /\ pub' = [pub EXCEPT ![owned[e]].stage = "closed"]
  /\ owned' = [owned EXCEPT ![e] = Null]
  /\ UNCHANGED <<sub, waiting, dangled>>

\* close, which unpublishes first
EntryCloses(e) == owned[e] = Null /\ EndsSubscriber(e, "closed")

-----------------------------------------------------------------------------
(* The clients of the server, beside the handles.                          *)

RemotePublishes(c, u, n, type, cached) ==
  /\ Defined /\ Publish(c, u, n, type, cached)
  /\ CallBack(NewlyPublished(n), sub)
  /\ UNCHANGED <<pub, owned>>

RemoteStep(c) ==
  /\ Defined /\ UNCHANGED handleVars
  /\ \/ ClientConnected(c) \/ ClientDisconnected(c)
     \/ \E u \in PubUid : UnPublish(c, u) \/ \E v \in Value : BinaryFrame(c, u, v)
     \/ EndFrame(c) \/ AbandonFrame(c)

HandleStep ==
  \/ \E h \in SubUid :
       \/ Subscribes(h) \/ SubscribeGivesUp(h)
       \/ CloseSubscriber(h) \/ DestroySubscriber(h)
       \/ \E n \in Regular : NewSubscriber(h, n)
       \/ \E k \in CachedUpdates : SetTopicProperties(h, k)
  \/ \E p \in PubUid :
       \/ SetsDefault(p) \/ ClosePublisher(p)
       \/ \E v \in Value :
            \/ PublisherSets(p, v)
            \/ \E k \in Cacheable :
                 \/ \E n \in Regular : NewPublisher(p, n, v, k)
                 \/ \E e \in Entry : EntryPublishes(e, p, v, k)
  \/ \E e \in Entry :
       EntryUnpublishes(e) \/ EntryCloses(e) \/ \E v \in Value : EntrySets(e, v)

FacadeNext ==
  \/ HandleStep
  \/ \E c \in Client :
       \/ RemoteStep(c)
       \/ \E u \in PubUid, n \in Regular, t \in Type, k \in Cacheable :
            RemotePublishes(c, u, n, t, k)

FacadeSpec == FacadeInit /\ [][FacadeNext]_facadeVars

-----------------------------------------------------------------------------
(* Properties.                                                             *)

TopicType == Type \cup {ApiType(t) : t \in Type} \cup {"bool"}
Topic == [name : Regular \cup {<<>>}, id : Nat \cup {Null}, type : TopicType]

FacadeTypeOK ==
  /\ sub \in [SubUid -> [stage : {"none", "new", "live", "failed", "closed", "gone"},
                         topic : Topic]]
  /\ \A p \in PubUid :
       /\ pub[p].stage \in {"none", "new", "live", "closed"}
       /\ pub[p].topic \in Topic /\ pub[p].value \in Value \cup {Null}
  /\ owned \in [Entry -> PubUid \cup {Null}]
  /\ waiting \in [Regular -> SUBSET SubUid]
  /\ dangled \subseteq SubUid

Live(h) == sub[h].stage = "live"

\* A subscriber reads the value its topic has, whoever set it last and whoever
\* subscribed, closed or disconnected meanwhile, as long as no two topics of the
\* application share an id; it reads Unassigned only while nobody has set it.  Of
\* the getters, the one of the type the topic is sent with reads the datum, and no
\* other: an unsigned topic is read by getInt, and getUInt reads its default.
SubscriberCurrent ==
  AppIdsDistinct =>
    \A h \in SubUid : Live(h) /\ sub[h].topic.id # Null =>
      LET n == sub[h].topic.name
          value == topics[n].value
      IN IF Get(h) = Unassigned
           THEN value = DefaultValue(value[1]) /\ \A t \in TopicType : GetAs(h, t, Null) = Null
           ELSE /\ Get(h) = Sent(n, value)
                /\ \A t \in TopicType :
                     GetAs(h, t, Null) = IF t = ApiType(value[1]) THEN value[2] ELSE Null

\* A subscriber of a topic that exists and is cached knows its id and type,
\* whichever of the two came first and however many others wait for the name.
LiveSubscribersAssigned ==
  \A h \in SubUid : Live(h) =>
    LET n == sub[h].topic.name
    IN n \in DOMAIN topics /\ topics[n].cached =>
         sub[h].topic = [name |-> n, id |-> App.data[n].id, type |-> topics[n].value[1]]

\* Whatever a set or a setter accepts, updateTopic stores: the publisher's copy of
\* the topic's type, the types a setter writes to and those assign matches agree.
\* Only a publisher whose publish waited in vain has nothing to store into, and it
\* accepts booleans, whatever it was to publish, and no other value.
AcceptedIsStored ==
  \A p \in PubUid, v \in Value : pub[p].stage = "live" /\ Taken(p, v) =>
    IF pub[p].topic.id = Null THEN v[1] = "bool"
    ELSE Assign(topics[pub[p].topic.name].value, v)[2] = v[2]

\* A subscriber may be destroyed once its topic is announced: only one that still
\* waited then is ever called again.
DanglesOnlyUnassigned == \A h \in dangled : sub[h].topic.id = Null

\* "Callback for topic updates, contains the NetworkTable instance, id of the
\* topic, timestamp, and value" (include/nt/ntinstance.h:385): the id says which
\* topic a value belongs to.
ReadsOwnTopic ==
  \A h \in SubUid : Live(h) /\ sub[h].topic.id # Null /\ Get(h) # Unassigned =>
    Get(h) = Sent(sub[h].topic.name, topics[sub[h].topic.name].value)

=============================================================================
