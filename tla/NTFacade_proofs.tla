-------------------------- MODULE NTFacade_proofs --------------------------
(***************************************************************************)
(* Proofs about NTFacade, for any clients, names, handles, types and       *)
(* functions that give up: which destroyed subscribers the announce        *)
(* callback may still reach, and what a handle knows of its topic, reads   *)
(* and accepts.                                                            *)
(*                                                                         *)
(* First the announce queues, alone.  Then what the handlers of NTServer   *)
(* leave to the application: Spares says of an operator that it takes no   *)
(* topic, type, id or subscription from it, Onward the same of a step,     *)
(* Adds, Listens and Forgets what its own calls change.  Then HandlesInv,  *)
(* about each subscriber and publisher, kept by each step, and the         *)
(* theorems.                                                               *)
(***************************************************************************)
EXTENDS NTFacade, NTServer_meta_proofs

-----------------------------------------------------------------------------
(* The inductive invariant.  A subscriber is in one queue at most, that of *)
(* its name, and only until its topic is assigned.                         *)

Stage == {"none", "new", "live", "failed", "closed", "gone"}

Subscribers ==
  /\ DOMAIN sub = SubUid
  /\ \A h \in SubUid : /\ DOMAIN sub[h] = {"stage", "topic"} /\ sub[h].stage \in Stage
                       /\ sub[h].stage # "none" => sub[h].topic.name \in Regular
Queues == waiting \in [Regular -> SUBSET SubUid] /\ dangled \subseteq SubUid

WaitingUnassigned ==
  \A n \in Regular : \A h \in waiting[n] :
    sub[h].stage # "none" /\ sub[h].topic.name = n /\ sub[h].topic.id = Null
DangledGone == \A h \in dangled : sub[h].stage = "gone" /\ sub[h].topic.id = Null

QueueInv == Subscribers /\ Queues /\ WaitingUnassigned /\ DangledGone

LEMMA InitQueues == FacadeInit => QueueInv
BY DEF FacadeInit, QueueInv, Subscribers, Stage, Queues, WaitingUnassigned, DangledGone, NoTopic

-----------------------------------------------------------------------------
(* The steps.                                                              *)

\* Steps that leave the subscribers, their queues and who dangled alone.
LEMMA Elsewhere ==
  ASSUME QueueInv, UNCHANGED <<sub, waiting, dangled>>
  PROVE  QueueInv'
BY DEF QueueInv, Subscribers, Queues, WaitingUnassigned, DangledGone

\* A subscriber that leaves a stage after "none" for another, nothing else changing.
LEMMA NextStage ==
  ASSUME QueueInv, NEW h \in SubUid, NEW stage \in Stage \ {"none"},
         sub[h].stage \notin {"none", "gone"}, sub' = [sub EXCEPT ![h].stage = stage],
         UNCHANGED <<waiting, dangled>>
  PROVE  QueueInv'
<1>1. Subscribers'
  BY DEF QueueInv, Subscribers
<1>2. \A k \in SubUid : sub'[k].topic = sub[k].topic /\ (k # h => sub'[k] = sub[k])
  BY DEF QueueInv, Subscribers
<1>3. sub'[h].stage = stage
  BY DEF QueueInv, Subscribers
<1>4. WaitingUnassigned' /\ DangledGone' /\ Queues'
  BY <1>2, <1>3 DEF QueueInv, WaitingUnassigned, DangledGone, Queues
<1>5. QED
  BY <1>1, <1>4 DEF QueueInv

\* The callback, with the stages as another part of the step leaves them.
LEMMA CallBackInv ==
  ASSUME QueueInv, NEW N \in SUBSET Regular, NEW subs, CallBack(N, subs),
         DOMAIN subs = SubUid,
         \A h \in SubUid : /\ DOMAIN subs[h] = {"stage", "topic"} /\ subs[h].stage \in Stage
                           /\ subs[h].topic = sub[h].topic
                           /\ sub[h].stage = "gone" => subs[h].stage = "gone"
                           /\ subs[h].stage = "none" <=> sub[h].stage = "none"
  PROVE  QueueInv'
<1>. DEFINE called == UNION {waiting[n] : n \in N}
            gone == {h \in called : subs[h].stage = "gone"}
<1>1. /\ waiting' = [n \in Regular |-> IF n \in N THEN {} ELSE waiting[n]]
      /\ dangled' = dangled \cup gone
      /\ sub' = [h \in SubUid |->
                  IF h \in called \ gone THEN [subs[h] EXCEPT !.topic = Answer(@.name)]
                  ELSE subs[h]]
  BY DEF CallBack
<1>2. called \subseteq SubUid
  BY DEF QueueInv, Queues
<1>3. \A h \in called : sub[h].topic.id = Null /\ sub[h].topic.name \in N
  BY DEF QueueInv, Queues, WaitingUnassigned
<1>4. \A h \in dangled : subs[h].stage = "gone" /\ subs[h].topic.id = Null /\ h \in SubUid
  BY DEF QueueInv, DangledGone, Queues
<1>5. \A n \in Regular \ N : \A h \in waiting[n] :
        h \in SubUid \ called /\ subs[h].stage # "none" /\ subs[h].topic = sub[h].topic
  BY <1>3 DEF QueueInv, Queues, WaitingUnassigned
<1>. HIDE DEF called
<1>6. \A h \in SubUid :
        /\ h \notin called \ gone => sub'[h] = subs[h]
        /\ h \in called \ gone =>
             sub'[h].topic = Answer(subs[h].topic.name) /\ sub'[h].stage = subs[h].stage
             /\ DOMAIN sub'[h] = {"stage", "topic"}
  BY <1>1
<1>7. Subscribers'
  BY <1>1, <1>6 DEF QueueInv, Subscribers, Answer
<1>8. Queues'
  BY <1>1, <1>2 DEF QueueInv, Queues
<1>9. WaitingUnassigned'
  BY <1>1, <1>5, <1>6 DEF QueueInv, WaitingUnassigned
<1>10. DangledGone'
  BY <1>1, <1>2, <1>3, <1>4, <1>6 DEF DangledGone
<1>11. QED
  BY <1>7, <1>8, <1>9, <1>10 DEF QueueInv

\* The callback alone: publications, by the application or by a client.
LEMMA PublicationInv ==
  ASSUME QueueInv, NEW n \in Regular, CallBack(NewlyPublished(n), sub)
  PROVE  QueueInv'
<1>1. NewlyPublished(n) \in SUBSET Regular
  BY DEF NewlyPublished
<1>2. QED
  BY <1>1, CallBackInv DEF QueueInv, Subscribers

LEMMA PublishesInv ==
  ASSUME QueueInv, NEW n \in Regular, NEW p, NEW v, NEW k, Publishes(p, n, v, k)
  PROVE  QueueInv'
<1>1. CASE PublishServed(p, n, v, k)
  BY <1>1, PublicationInv DEF PublishServed
<1>2. CASE PublishGivesUp(p, v)
  BY <1>2, Elsewhere DEF PublishGivesUp
<1>3. QED
  BY <1>1, <1>2 DEF Publishes

LEMMA EntryPublishesInv ==
  ASSUME QueueInv, NEW e \in Entry, NEW p, NEW v, NEW k, EntryPublishes(e, p, v, k)
  PROVE  QueueInv'
<1>1. e \in SubUid
  BY NTFacadeAssumption DEF NTFacadeAssumption
<1>2. sub[e].topic.name \in Regular
  BY <1>1 DEF EntryPublishes, QueueInv, Subscribers
<1>3. Publishes(p, sub[e].topic.name, v, k)
  BY DEF EntryPublishes
<1>4. QED
  BY <1>2, <1>3, PublishesInv

LEMMA NewSubscriberInv ==
  ASSUME QueueInv, NEW h \in SubUid, NEW n \in Regular, NewSubscriber(h, n)
  PROVE  QueueInv'
<1>1. /\ sub[h].stage = "none"
      /\ sub' = [sub EXCEPT ![h] = [stage |-> "new", topic |-> NoTopic(n)]]
      /\ waiting' = [waiting EXCEPT ![n] = @ \cup {h}] /\ dangled' = dangled
  BY DEF NewSubscriber
<1>2. \A m \in Regular : h \notin waiting[m]
  BY <1>1 DEF QueueInv, WaitingUnassigned
<1>3. h \notin dangled
  BY <1>1 DEF QueueInv, DangledGone
<1>4. Subscribers'
  BY <1>1 DEF QueueInv, Subscribers, Stage, NoTopic
<1>5. Queues'
  BY <1>1 DEF QueueInv, Queues
<1>6. /\ sub'[h].stage = "new" /\ sub'[h].topic.name = n /\ sub'[h].topic.id = Null
      /\ \A k \in SubUid \ {h} : sub'[k] = sub[k]
  BY <1>1 DEF QueueInv, Subscribers, NoTopic
<1>7. WaitingUnassigned'
  <2>. SUFFICES ASSUME NEW m \in Regular, NEW k \in waiting'[m]
                PROVE  /\ sub'[k].stage # "none" /\ sub'[k].topic.name = m
                       /\ sub'[k].topic.id = Null
    BY DEF WaitingUnassigned
  <2>1. CASE k = h
    <3>1. m = n
      BY <1>1, <1>2, <2>1 DEF QueueInv, Queues
    <3>2. QED
      BY <1>6, <2>1, <3>1
  <2>2. CASE k # h
    <3>1. k \in waiting[m] /\ k \in SubUid
      BY <1>1, <2>2 DEF QueueInv, Queues
    <3>2. QED
      BY <1>6, <2>2, <3>1 DEF QueueInv, WaitingUnassigned
  <2>3. QED
    BY <2>1, <2>2
<1>8. DangledGone'
  BY <1>1, <1>3, <1>6 DEF QueueInv, DangledGone, Queues
<1>9. QED
  BY <1>4, <1>5, <1>7, <1>8 DEF QueueInv

LEMMA SubscribesInv ==
  ASSUME QueueInv, NEW h \in SubUid, Subscribes(h)
  PROVE  QueueInv'
<1>. DEFINE N == {n \in Regular \cap DOMAIN topics' :
                    topics'[n].cached /\ IsSubscribed(clients'[Self], n)}
            subs == [sub EXCEPT ![h].stage = "live"]
<1>1. sub[h].stage = "new" /\ CallBack(N, subs)
  BY DEF Subscribes
<1>2. N \in SUBSET Regular
  OBVIOUS
<1>3. /\ DOMAIN subs = SubUid
      /\ \A k \in SubUid : /\ DOMAIN subs[k] = {"stage", "topic"} /\ subs[k].stage \in Stage
                           /\ subs[k].topic = sub[k].topic
                           /\ sub[k].stage = "gone" => subs[k].stage = "gone"
                           /\ subs[k].stage = "none" <=> sub[k].stage = "none"
  BY <1>1 DEF QueueInv, Subscribers, Stage
<1>. HIDE DEF N, subs
<1>4. QED
  BY <1>1, <1>2, <1>3, CallBackInv

\* close, the destructor and the return of a subscribe that timed out
LEMMA EndsInv ==
  ASSUME QueueInv, NEW h \in SubUid,
         \/ SubscribeGivesUp(h) \/ CloseSubscriber(h) \/ DestroySubscriber(h) \/ EntryCloses(h)
  PROVE  QueueInv'
<1>1. PICK stage \in {"failed", "closed", "gone"} :
        /\ sub[h].stage \in {"new", "live", "failed"} /\ sub' = [sub EXCEPT ![h].stage = stage]
        /\ UNCHANGED <<waiting, dangled>>
  BY DEF SubscribeGivesUp, CloseSubscriber, DestroySubscriber, EntryCloses, EndsSubscriber
<1>2. QED
  BY <1>1, NextStage DEF Stage

-----------------------------------------------------------------------------
(* Theorems.                                                               *)

LEMMA QueueStep == QueueInv /\ [FacadeNext]_facadeVars => QueueInv'
<1>. SUFFICES ASSUME QueueInv, [FacadeNext]_facadeVars PROVE QueueInv'
  OBVIOUS
<1>1. ASSUME NEW h \in SubUid,
             \/ Subscribes(h) \/ SubscribeGivesUp(h)
             \/ CloseSubscriber(h) \/ DestroySubscriber(h)
             \/ \E n \in Regular : NewSubscriber(h, n)
             \/ \E k \in CachedUpdates : SetTopicProperties(h, k)
      PROVE  QueueInv'
  <2>1. CASE \E k \in CachedUpdates : SetTopicProperties(h, k)
    BY <2>1, Elsewhere DEF SetTopicProperties, handleVars
  <2>2. QED
    BY <1>1, <2>1, SubscribesInv, EndsInv, NewSubscriberInv
<1>2. ASSUME NEW p \in PubUid,
             SetsDefault(p) \/ ClosePublisher(p)
      PROVE  QueueInv'
  BY <1>2, Elsewhere DEF SetsDefault, ClosePublisher
<1>3. ASSUME NEW p \in PubUid, NEW v \in Value, Set(p, v) PROVE QueueInv'
  BY <1>3, Elsewhere DEF Set, handleVars
<1>4. ASSUME NEW p \in PubUid, NEW v \in Value, NEW k \in Cacheable,
             \/ \E n \in Regular : NewPublisher(p, n, v, k)
             \/ \E e \in Entry : EntryPublishes(e, p, v, k)
      PROVE  QueueInv'
  <2>1. CASE \E n \in Regular : NewPublisher(p, n, v, k)
    BY <2>1, PublishesInv DEF NewPublisher
  <2>2. QED
    BY <1>4, <2>1, EntryPublishesInv
<1>5. ASSUME NEW e \in Entry,
             EntryUnpublishes(e) \/ EntryCloses(e) \/ \E v \in Value : EntrySets(e, v)
      PROVE  QueueInv'
  <2>1. e \in SubUid
    BY NTFacadeAssumption DEF NTFacadeAssumption
  <2>2. CASE EntryUnpublishes(e) \/ \E v \in Value : EntrySets(e, v)
    BY <2>2, Elsewhere DEF EntryUnpublishes, EntrySets, Set, handleVars
  <2>3. QED
    BY <1>5, <2>1, <2>2, EndsInv
<1>6. ASSUME NEW c \in Client, RemoteStep(c) PROVE QueueInv'
  BY <1>6, Elsewhere DEF RemoteStep, handleVars
<1>7. ASSUME NEW c \in Client, NEW u \in PubUid, NEW n \in Regular, NEW t \in Type,
             NEW k \in Cacheable, RemotePublishes(c, u, n, t, k)
      PROVE  QueueInv'
  BY <1>7, PublicationInv DEF RemotePublishes
<1>8. CASE UNCHANGED facadeVars
  BY <1>8, Elsewhere DEF facadeVars, handleVars
<1>9. QED
  BY <1>1, <1>2, <1>3, <1>4, <1>5, <1>6, <1>7, <1>8 DEF FacadeNext, HandleStep, PublisherSets

LEMMA QueuesInvariance == FacadeSpec => []QueueInv
BY QueueStep, InitQueues, PTL DEF FacadeSpec

\* NT_topicAnnouncedCallback calls a destroyed subscriber only if its name was
\* never announced while it waited: assigning a topic takes it out of every queue.
THEOREM DestroyedUnassigned == FacadeSpec => []DanglesOnlyUnassigned
<1>1. QueueInv => DanglesOnlyUnassigned
  BY DEF QueueInv, DangledGone, DanglesOnlyUnassigned
<1>2. QED
  BY <1>1, QueuesInvariance, PTL

-----------------------------------------------------------------------------
(* What a handler leaves to the application.                               *)

Formed(s) ==
  /\ DOMAIN s = {"topics", "clients"} /\ Self \in DOMAIN s.clients
  /\ \A n \in DOMAIN s.topics : {"value", "cached"} \subseteq DOMAIN s.topics[n]
  /\ DOMAIN s.clients[Self] = Field /\ DOMAIN s.clients[Self].peer = PeerField

\* t has the ordinary topics of s, the application its subscriptions, and values of
\* all the ids it had values of.
Spares(s, t) ==
  /\ Formed(t) /\ t.clients[Self].subs = s.clients[Self].subs
  /\ DOMAIN s.clients[Self].data \subseteq DOMAIN t.clients[Self].data
  /\ DOMAIN s.clients[Self].peer.vals \subseteq DOMAIN t.clients[Self].peer.vals
  /\ Declared(t) = Declared(s) /\ \A n \in Declared(s) : t.topics[n] = s.topics[n]

LEMMA SparesTransitive ==
  ASSUME NEW s, NEW t, NEW q, Spares(s, t), Spares(t, q) PROVE Spares(s, q)
BY DEF Spares

\* Operators that change nothing but the record of one client or another.
LEMMA SparesTopics ==
  ASSUME NEW s, Formed(s), NEW t, DOMAIN t = {"topics", "clients"}, t.topics = s.topics,
         Self \in DOMAIN t.clients, NEW r, t.clients[Self] = r,
         DOMAIN r = Field, DOMAIN r.peer = PeerField, r.subs = s.clients[Self].subs,
         DOMAIN s.clients[Self].data \subseteq DOMAIN r.data,
         DOMAIN s.clients[Self].peer.vals \subseteq DOMAIN r.peer.vals
  PROVE  Spares(s, t)
BY DEF Spares, Formed, Declared

\* What is done to the application's own record.
Keeps(cl, r) ==
  /\ DOMAIN r = Field /\ DOMAIN r.peer = PeerField /\ r.subs = cl.subs
  /\ DOMAIN cl.data \subseteq DOMAIN r.data /\ DOMAIN cl.peer.vals \subseteq DOMAIN r.peer.vals

LEMMA OwnRecord ==
  ASSUME NEW cl, DOMAIN cl = Field, DOMAIN cl.peer = PeerField
  PROVE  /\ \A N : Keeps(cl, AssignIds(cl, N)) /\ Keeps(cl, AnnounceSelf(cl, N))
         /\ \A n : Keeps(cl, LookUpSelfId(cl, n))
         /\ \A msgs : Keeps(cl, [cl EXCEPT !.peer = ReadBinary(@, msgs)])
<1>1. ASSUME NEW N PROVE Keeps(cl, AssignIds(cl, N)) /\ AssignIds(cl, N).peer = cl.peer
  <2>1. /\ DOMAIN AssignIds(cl, N) = Field /\ AssignIds(cl, N).subs = cl.subs
        /\ AssignIds(cl, N).peer = cl.peer
        /\ DOMAIN AssignIds(cl, N).data = DOMAIN cl.data \cup (N \ DOMAIN cl.data)
    BY DEF AssignIds, Field
  <2>2. QED
    BY <2>1 DEF Keeps
<1>2. ASSUME NEW N PROVE Keeps(cl, AnnounceSelf(cl, N))
  <2>. DEFINE a == AssignIds(cl, N)
  <2>1. Keeps(cl, a) /\ a.peer = cl.peer
    BY <1>1
  <2>. HIDE DEF a
  <2>2. AnnounceSelf(cl, N) = [a EXCEPT !.peer = ReadText(@, Announcements(a, N))]
    BY DEF AnnounceSelf, a
  <2>3. \A msgs : DOMAIN ReadText(a.peer, msgs) = PeerField /\ ReadText(a.peer, msgs).vals = a.peer.vals
    BY <2>1 DEF ReadText, Keeps, PeerField
  <2>4. QED
    BY <2>1, <2>2, <2>3 DEF Keeps, Field
<1>3. ASSUME NEW n PROVE Keeps(cl, LookUpSelfId(cl, n))
  BY DEF LookUpSelfId, Keeps, Field
<1>4. ASSUME NEW msgs PROVE Keeps(cl, [cl EXCEPT !.peer = ReadBinary(@, msgs)])
  <2>. DEFINE q == ReadBinary(cl.peer, msgs)
  <2>1. DOMAIN q = PeerField /\ DOMAIN cl.peer.vals \subseteq DOMAIN q.vals
    BY DEF ReadBinary, PeerField
  <2>. HIDE DEF q
  <2>2. QED
    BY <2>1 DEF Keeps, Field, q
<1>5. QED
  BY <1>1, <1>2, <1>3, <1>4

\* The operators the handlers are made of.
LEMMA LoopsSpare ==
  ASSUME NEW s, Formed(s)
  PROVE  /\ \A n : /\ Spares(s, AnnounceToAll(s, n)) /\ Spares(s, TellProperties(s, n))
                   /\ \A p \in Client : Spares(s, AnnounceToAllFrom(s, n, p))
         /\ Spares(s, FlushAllText(s)) /\ Spares(s, FlushAllBinary(s))
         /\ \A N : Spares(s, SendUpdates(s, N))
<1>. DEFINE cl == s.clients[Self]
<1>1. /\ DOMAIN s = {"topics", "clients"} /\ Self \in DOMAIN s.clients
      /\ DOMAIN cl = Field /\ DOMAIN cl.peer = PeerField
  BY DEF Formed
<1>2. Self \notin Client
  BY NTServerAssumption
<1>3. ASSUME NEW t, DOMAIN t = {"topics", "clients"}, t.topics = s.topics,
             DOMAIN t.clients = DOMAIN s.clients, Keeps(cl, t.clients[Self])
      PROVE  Spares(s, t)
  BY <1>1, <1>3, SparesTopics DEF Keeps
<1>4. Keeps(cl, cl)
  BY <1>1 DEF Keeps
<1>5. ASSUME NEW n PROVE Spares(s, AnnounceToAll(s, n))
  <2>. DEFINE t == AnnounceToAll(s, n)
  <2>1. /\ DOMAIN t = {"topics", "clients"} /\ t.topics = s.topics
        /\ DOMAIN t.clients = DOMAIN s.clients
        /\ t.clients[Self] = IF IsSubscribed(cl, n) THEN AnnounceSelf(cl, {n}) ELSE cl
    BY <1>1 DEF AnnounceToAll, Announce
  <2>2. Keeps(cl, t.clients[Self])
    BY <1>1, <1>4, <2>1, OwnRecord
  <2>. HIDE DEF t
  <2>3. QED
    BY <1>3, <2>1, <2>2 DEF t
<1>6. ASSUME NEW n, NEW p \in Client PROVE Spares(s, AnnounceToAllFrom(s, n, p))
  <2>. DEFINE t == AnnounceToAllFrom(s, n, p)
  <2>1. /\ DOMAIN t = {"topics", "clients"} /\ t.topics = s.topics
        /\ DOMAIN t.clients = DOMAIN s.clients
        /\ t.clients[Self] = IF IsSubscribed(cl, n) THEN AnnounceSelf(cl, {n}) ELSE cl
    BY <1>1, <1>2 DEF AnnounceToAllFrom, Announce
  <2>2. Keeps(cl, t.clients[Self])
    BY <1>1, <1>4, <2>1, OwnRecord
  <2>. HIDE DEF t
  <2>3. QED
    BY <1>3, <2>1, <2>2 DEF t
<1>7. ASSUME NEW n PROVE Spares(s, TellProperties(s, n))
  <2>. DEFINE t == TellProperties(s, n)
  <2>1. /\ DOMAIN t = {"topics", "clients"} /\ t.topics = s.topics
        /\ DOMAIN t.clients = DOMAIN s.clients /\ t.clients[Self] = cl
    BY <1>1 DEF TellProperties
  <2>. HIDE DEF t
  <2>2. QED
    BY <1>3, <1>4, <2>1 DEF t
<1>8. Spares(s, FlushAllText(s)) /\ Spares(s, FlushAllBinary(s))
  <2>. DEFINE t == FlushAllText(s)
              q == FlushAllBinary(s)
  <2>1. /\ DOMAIN t = {"topics", "clients"} /\ t.topics = s.topics
        /\ DOMAIN t.clients = DOMAIN s.clients /\ t.clients[Self] = cl
        /\ DOMAIN q = {"topics", "clients"} /\ q.topics = s.topics
        /\ DOMAIN q.clients = DOMAIN s.clients /\ q.clients[Self] = cl
    BY <1>1 DEF FlushAllText, FlushAllBinary
  <2>. HIDE DEF t, q
  <2>2. QED
    BY <1>3, <1>4, <2>1 DEF t, q
<1>9. ASSUME NEW N PROVE Spares(s, SendUpdates(s, N))
  <2>. DEFINE t == SendUpdates(s, N)
  <2>1. /\ DOMAIN t = {"topics", "clients"} /\ t.topics = s.topics
        /\ DOMAIN t.clients = DOMAIN s.clients
        /\ \E M : t.clients[Self] = SendTo(s, Self, M)
    BY <1>1 DEF SendUpdates
  <2>2. Keeps(cl, t.clients[Self])
    BY <1>1, <2>1, OwnRecord DEF SendTo
  <2>. HIDE DEF t
  <2>3. QED
    BY <1>3, <2>1, <2>2 DEF t
<1>10. QED
  BY <1>5, <1>6, <1>7, <1>8, <1>9

LEMMA MetaIrregular ==
  /\ ServerName \cap Regular = {}
  /\ \A m : ClientSubTopic(m) \notin Regular /\ ClientPubTopic(m) \notin Regular
  /\ \A n \in Regular : SubTopic(n) \notin Regular /\ PubTopic(n) \notin Regular
BY Kinds DEF ServerName

LEMMA SetAndSendSpares ==
  ASSUME NEW s, Formed(s), NEW value, DOMAIN value \cap Regular = {}
  PROVE  Spares(s, SetAndSend(s, value))
<1>. DEFINE u == [s EXCEPT !.topics = [n \in DOMAIN @ |->
                    IF n \in DOMAIN value THEN [@[n] EXCEPT !.value = value[n]] ELSE @[n]]]
<1>1. /\ DOMAIN u = {"topics", "clients"} /\ u.clients = s.clients
      /\ u.topics = [n \in DOMAIN s.topics |->
            IF n \in DOMAIN value THEN [s.topics[n] EXCEPT !.value = value[n]] ELSE s.topics[n]]
  BY DEF Formed
<1>. HIDE DEF u
<1>2. Formed(u)
  BY <1>1 DEF Formed
<1>3. Declared(u) = Declared(s) /\ \A n \in Declared(s) : u.topics[n] = s.topics[n]
  BY <1>1 DEF Declared
<1>4. Spares(s, u)
  BY <1>1, <1>2, <1>3 DEF Spares
<1>5. Spares(u, SendUpdates(u, DOMAIN value))
  BY <1>2, LoopsSpare
<1>6. SetAndSend(s, value) = SendUpdates(u, DOMAIN value)
  BY DEF SetAndSend, u
<1>7. QED
  BY <1>4, <1>5, <1>6, SparesTransitive

\* With a null pointer or two where a meta-topic is not there.
LEMMA SetMetaSpares ==
  ASSUME NEW s, Formed(s), NEW value, DOMAIN value \cap Regular = {}
  PROVE  Spares(s, SetMeta(s, value))
<1>. DEFINE N == DOMAIN value \ DOMAIN s.topics
            t == LeaveNull(s, N)
<1>1. /\ DOMAIN t = {"topics", "clients"} /\ t.clients = s.clients
      /\ DOMAIN t.topics = DOMAIN s.topics \cup N
      /\ \A n \in DOMAIN t.topics : t.topics[n] = IF n \in N THEN NullTopic ELSE s.topics[n]
  BY DEF LeaveNull, Formed
<1>2. {"value", "cached"} \subseteq DOMAIN NullTopic
  BY DEF NullTopic
<1>3. N \cap DOMAIN s.topics = {} /\ N \cap Regular = {}
  OBVIOUS
<1>. HIDE DEF t, N
<1>4. Formed(t)
  BY <1>1, <1>2, <1>3 DEF Formed
<1>5. Spares(s, t)
  BY <1>1, <1>3, <1>4 DEF Spares, Declared
<1>6. Spares(s, SetAndSend(s, value))
  BY SetAndSendSpares
<1>7. SetMeta(s, value) \in {t, SetAndSend(s, value)}
  BY DEF SetMeta, t, N
<1>8. QED
  BY <1>5, <1>6, <1>7

LEMMA MetaSpares ==
  ASSUME NEW s, Formed(s)
  PROVE  /\ Spares(s, UpdateClientsMeta(s))
         /\ Spares(s, UpdateServerSubMeta(s)) /\ Spares(s, UpdateServerPubMeta(s))
         /\ \A c : Spares(s, UpdateClientSubMeta(s, c)) /\ Spares(s, UpdateClientPubMeta(s, c))
         /\ \A N \in SUBSET Regular : Spares(s, UpdateTopicSubMeta(s, N))
         /\ \A n \in Regular : Spares(s, UpdateTopicPubMeta(s, n))
<1>1. ASSUME NEW n, n \notin Regular, NEW v
      PROVE  Spares(s, SetAndSend(s, [m \in {n} |-> v]))
  <2>1. DOMAIN [m \in {n} |-> v] \cap Regular = {}
    BY <1>1
  <2>2. QED
    BY <2>1, SetAndSendSpares
<1>2. ClientsTopic \notin Regular /\ ServerSubTopic \notin Regular /\ ServerPubTopic \notin Regular
  BY MetaIrregular DEF ServerName
<1>3. /\ Spares(s, UpdateClientsMeta(s))
      /\ Spares(s, UpdateServerSubMeta(s)) /\ Spares(s, UpdateServerPubMeta(s))
  BY <1>1, <1>2 DEF UpdateClientsMeta, UpdateServerSubMeta, UpdateServerPubMeta
<1>4. ASSUME NEW c PROVE Spares(s, UpdateClientSubMeta(s, c)) /\ Spares(s, UpdateClientPubMeta(s, c))
  BY <1>1, MetaIrregular DEF UpdateClientSubMeta, UpdateClientPubMeta
<1>5. ASSUME NEW N \in SUBSET Regular PROVE Spares(s, UpdateTopicSubMeta(s, N))
  <2>. DEFINE value == [m \in {SubTopic(n) : n \in N} |->
                          TopicSubscriptions(s, CHOOSE n \in N : SubTopic(n) = m)]
  <2>1. DOMAIN value \cap Regular = {}
    BY MetaIrregular
  <2>. HIDE DEF value
  <2>2. Spares(s, SetMeta(s, value))
    BY <2>1, SetMetaSpares
  <2>3. QED
    BY <2>2 DEF UpdateTopicSubMeta, value
<1>6. ASSUME NEW n \in Regular PROVE Spares(s, UpdateTopicPubMeta(s, n))
  <2>. DEFINE value == [m \in {PubTopic(n)} |-> TopicPublishers(s, n)]
  <2>1. DOMAIN value \cap Regular = {}
    BY MetaIrregular
  <2>. HIDE DEF value
  <2>2. Spares(s, SetMeta(s, value))
    BY <2>1, SetMetaSpares
  <2>3. QED
    BY <2>2 DEF UpdateTopicPubMeta, value
<1>7. QED
  BY <1>3, <1>4, <1>5, <1>6

LEMMA PublishMetaSpares ==
  ASSUME NEW s, Formed(s), NEW n, n \notin Regular
  PROVE  Spares(s, PublishMeta(s, n))
<1>. DEFINE u == GetOrCreate(s, n, {}, TRUE)
<1>1. /\ DOMAIN u = {"topics", "clients"} /\ u.clients = s.clients
      /\ DOMAIN u.topics = DOMAIN s.topics \cup {n}
      /\ \A m \in DOMAIN s.topics : u.topics[m] = s.topics[m]
      /\ n \notin DOMAIN s.topics => {"value", "cached"} \subseteq DOMAIN u.topics[n]
  BY DEF GetOrCreate, Formed
<1>2. Formed(u)
  BY <1>1 DEF Formed
<1>3. Spares(s, u)
  BY <1>1, <1>2 DEF Spares, Declared
<1>. HIDE DEF u
<1>4. Spares(u, AnnounceToAll(u, n))
  BY <1>2, LoopsSpare
<1>5. QED
  BY <1>3, <1>4, SparesTransitive DEF PublishMeta, u

LEMMA PublishTopicMetasSpares ==
  ASSUME NEW s, Formed(s), NEW n \in Regular
  PROVE  Spares(s, PublishTopicMetas(s, n))
<1>. DEFINE s1 == PublishMeta(s, SubTopic(n))
            s2 == PublishMeta(s1, PubTopic(n))
            s3 == UpdateTopicSubMeta(s2, {n})
            s4 == UpdateTopicPubMeta(s3, n)
<1>1. Spares(s, s1)
  BY PublishMetaSpares, MetaIrregular
<1>. HIDE DEF s1
<1>2. Spares(s1, s2)
  BY <1>1, PublishMetaSpares, MetaIrregular DEF Spares
<1>. HIDE DEF s2
<1>3. Spares(s2, s3)
  BY <1>2, MetaSpares DEF Spares
<1>. HIDE DEF s3
<1>4. Spares(s3, s4)
  BY <1>3, MetaSpares DEF Spares
<1>. HIDE DEF s4
<1>5. PublishTopicMetas(s, n) = s4
  BY NTFacadeAssumption DEF PublishTopicMetas, Refused, NTFacadeAssumption, s1, s2, s3, s4
<1>6. QED
  BY <1>1, <1>2, <1>3, <1>4, <1>5, SparesTransitive

\* Operators on the record of one client.
LEMMA ServeSpares ==
  ASSUME NEW s, Formed(s), NEW c \in DOMAIN s.clients
  PROVE  /\ Spares(s, AnnounceCached(s, c)) /\ Spares(s, PublishInitialValues(s, c))
         /\ \A r : c # Self \/ Keeps(s.clients[c], r) => Spares(s, OnClient(s, c, r))
<1>1. ASSUME NEW r, c # Self \/ Keeps(s.clients[c], r)
      PROVE  Spares(s, OnClient(s, c, r))
  <2>. DEFINE t == OnClient(s, c, r)
  <2>1. /\ DOMAIN t = {"topics", "clients"} /\ t.topics = s.topics
        /\ t.clients = [s.clients EXCEPT ![c] = r]
    BY DEF OnClient, Formed
  <2>. HIDE DEF t
  <2>2. CASE c = Self
    <3>1. t.clients[Self] = r /\ Self \in DOMAIN t.clients
      BY <2>1, <2>2
    <3>2. Spares(s, t)
      BY <1>1, <2>1, <2>2, <3>1, SparesTopics DEF Keeps
    <3>3. QED
      BY <3>2 DEF t
  <2>3. CASE c # Self
    <3>1. t.clients[Self] = s.clients[Self] /\ Self \in DOMAIN t.clients
      BY <2>1, <2>3 DEF Formed
    <3>2. Spares(s, t)
      BY <2>1, <3>1, SparesTopics DEF Formed
    <3>3. QED
      BY <3>2 DEF t
  <2>4. QED
    BY <2>2, <2>3
<1>2. DOMAIN s.clients[Self] = Field /\ DOMAIN s.clients[Self].peer = PeerField
  BY DEF Formed
<1>3. \A N : c # Self \/ Keeps(s.clients[c], Announce(c, s.clients[c], N))
  BY <1>2, OwnRecord DEF Announce
<1>4. \A N : c # Self \/ Keeps(s.clients[c], SendTo(s, c, N))
  BY <1>2, OwnRecord DEF SendTo
<1>5. Spares(s, AnnounceCached(s, c))
  BY <1>1, <1>3 DEF AnnounceCached
<1>6. Spares(s, PublishInitialValues(s, c))
  BY <1>1, <1>4 DEF PublishInitialValues
<1>7. QED
  BY <1>1, <1>5, <1>6

-----------------------------------------------------------------------------
(* What a step of the server leaves to the application.                    *)

\* The application's subscriptions stay, and so do the ordinary topics, with their
\* types; a value that changes is sent to the application if it wants it.
Onward ==
  /\ App'.subs = App.subs /\ DOMAIN App.peer.vals \subseteq DOMAIN App'.peer.vals
  /\ Regular \cap DOMAIN topics' = Regular \cap DOMAIN topics
  /\ \A n \in Regular \cap DOMAIN topics :
       /\ topics'[n].value[1] = topics[n].value[1]
       /\ TRUE \notin CachedUpdates /\ topics'[n].cached => topics[n].cached
       /\ \/ topics'[n].value = topics[n].value
          \/ WantsValue(App', n) /\ n \in DOMAIN App'.data =>
               App'.data[n].id \in DOMAIN App'.peer.vals

LEMMA RunningFormed == Running => Formed(State) /\ State.topics = topics /\ State.clients = clients
BY DEF Running, GoodState, Safe, AppShape, Shape, Caches, Formed, State

LEMMA SparesOnward ==
  ASSUME NEW t, Spares(State, t), Become(t)
  PROVE  Onward
<1>1. State.topics = topics /\ State.clients = clients /\ Become(t)
  BY DEF State
<1>2. QED
  BY <1>1 DEF Spares, Become, Onward, Declared, App

LEMMA UnchangedOnward == ASSUME UNCHANGED <<topics, clients>> PROVE Onward
BY DEF Onward, App

\* sendTopicUpdateSelf of the topics of N
LEMMA SelfSent ==
  ASSUME NEW s, Shape(s.clients[Self]), s.clients[Self].binary = <<>>,
         NEW N, N \subseteq DOMAIN s.clients[Self].data
  PROVE  \A n \in N : SendTo(s, Self, N).data[n].id \in DOMAIN SendTo(s, Self, N).peer.vals
<1>. DEFINE cl == s.clients[Self]
            r == SendTo(s, Self, N)
<1>1. Shape(cl) /\ cl.binary = <<>>
  OBVIOUS
<1>2. r.binary = cl.binary
  BY <1>1 DEF SendTo, Shape, Caches, Field
<1>3. /\ Shape(r) /\ Delivered(cl, r, s.topics, N)
      /\ \A n \in DOMAIN cl.data : r.data[n].id = cl.data[n].id
  BY <1>1, SendToProperties
<1>. HIDE DEF cl, r
<1>4. DOMAIN Final(r) = DOMAIN r.peer.vals
  BY <1>1, <1>2, <1>3, FinalDomain DEF Shape
<1>5. ASSUME NEW n \in N PROVE r.data[n].id \in DOMAIN r.peer.vals
  BY <1>3, <1>4, <1>5 DEF Delivered, cl
<1>6. QED
  BY <1>5 DEF r

\* NTDataValue::assign keeps the type.
LEMMA AssignType ==
  ASSUME NEW old, NEW new PROVE Assign(old, new)[1] = old[1]
BY DEF Assign

\* updateTopic, by whomever
LEMMA UpdateValueOnward ==
  ASSUME Running, NEW n, NEW v, NEW t, t = UpdateValue(State, n, v) \/ t = FlushAllBinary(UpdateValue(State, n, v)),
         Become(t)
  PROVE  Onward
<1>. DEFINE value == [m \in {n} |-> Assign(topics[m].value, v)]
            u == [State EXCEPT !.topics = [m \in DOMAIN @ |->
                    IF m \in DOMAIN value THEN [@[m] EXCEPT !.value = value[m]] ELSE @[m]]]
            q == SendUpdates(u, {n})
<1>1. Formed(State) /\ State.topics = topics /\ State.clients = clients
  BY RunningFormed
<1>2. UpdateValue(State, n, v) = SetAndSend(State, value)
  BY <1>1 DEF UpdateValue
<1>3. CASE n \notin Regular
  <2>1. DOMAIN value \cap Regular = {}
    BY <1>3
  <2>. HIDE DEF value
  <2>2. Spares(State, UpdateValue(State, n, v))
    BY <1>1, <1>2, <2>1, SetAndSendSpares
  <2>3. Formed(UpdateValue(State, n, v))
    BY <2>2 DEF Spares
  <2>4. Spares(State, FlushAllBinary(UpdateValue(State, n, v)))
    BY <2>2, <2>3, LoopsSpare, SparesTransitive
  <2>5. QED
    BY <2>2, <2>4, SparesOnward
<1>4. CASE n \in Regular
  <2>1. /\ DOMAIN u = {"topics", "clients"} /\ u.clients = clients
        /\ DOMAIN u.topics = DOMAIN topics
        /\ \A m \in DOMAIN topics \ {n} : u.topics[m] = topics[m]
        /\ n \in DOMAIN topics => u.topics[n] = [topics[n] EXCEPT !.value = Assign(topics[n].value, v)]
    BY <1>1 DEF Formed
  <2>2. UpdateValue(State, n, v) = q
    BY <1>2 DEF SetAndSend
  <2>. HIDE DEF value, u, q
  <2>3. Formed(u)
    BY <1>1, <2>1 DEF Formed
  <2>4. Spares(u, q) /\ q.topics = u.topics
    BY <2>1, <2>3, LoopsSpare DEF SendUpdates, q
  <2>5. Spares(u, FlushAllBinary(q)) /\ FlushAllBinary(q).topics = q.topics
        /\ FlushAllBinary(q).clients[Self] = q.clients[Self]
    <3>1. Formed(q)
      BY <2>4 DEF Spares
    <3>2. QED
      BY <2>4, <3>1, LoopsSpare, SparesTransitive DEF FlushAllBinary, Formed
  <2>6. /\ Spares(u, t) /\ t.topics = u.topics /\ t.clients[Self] = q.clients[Self]
        /\ topics' = t.topics /\ clients' = t.clients
    BY <2>2, <2>4, <2>5 DEF Become
  <2>. DEFINE N == {m \in {n} \cap DOMAIN clients[Self].data :
                      clients[Self].data[m].initialPublish \/ WantsValue(clients[Self], m)}
  <2>7. q.clients[Self] = SendTo(u, Self, N)
    BY <2>1, <2>3, NTFacadeAssumption DEF SendUpdates, Missed, Follower, NTFacadeAssumption, Formed, q
  <2>8. /\ Shape(clients[Self]) /\ clients[Self].binary = <<>>
    BY <1>1 DEF Running, GoodState, Safe, AppShape
  <2>9. \A m \in N : q.clients[Self].data[m].id \in DOMAIN q.clients[Self].peer.vals
    <3>1. N \subseteq DOMAIN u.clients[Self].data
      BY <2>1
    <3>. HIDE DEF N
    <3>2. QED
      BY <2>1, <2>7, <2>8, <3>1, SelfSent
  <2>10. q.clients[Self].subs = clients[Self].subs /\ DOMAIN q.clients[Self].data = DOMAIN clients[Self].data
    BY <2>1, <2>7, <2>8 DEF SendTo, Shape, Caches, Field
  <2>11. WantsValue(q.clients[Self], n) /\ n \in DOMAIN q.clients[Self].data =>
           q.clients[Self].data[n].id \in DOMAIN q.clients[Self].peer.vals
    BY <2>9, <2>10 DEF WantsValue
  <2>12. n \in DOMAIN topics =>
           topics'[n].value[1] = topics[n].value[1] /\ topics'[n].cached = topics[n].cached
    <3>1. {"value", "cached"} \subseteq DOMAIN topics[n] \/ n \notin DOMAIN topics
      BY <1>1 DEF Formed
    <3>2. QED
      BY <2>1, <2>6, <3>1, AssignType
  <2>13. DOMAIN App.peer.vals \subseteq DOMAIN App'.peer.vals
    BY <2>1, <2>4, <2>6 DEF Spares, App
  <2>14. QED
    BY <2>1, <2>6, <2>10, <2>11, <2>12, <2>13 DEF Onward, App
<1>5. QED
  BY <1>3, <1>4

\* A record of another client is put, changed or dropped.
LEMMA OthersSpare ==
  ASSUME Running, NEW t, DOMAIN t = {"topics", "clients"}, t.topics = topics,
         Self \in DOMAIN t.clients, t.clients[Self].subs = App.subs,
         Keeps(App, t.clients[Self])
  PROVE  Spares(State, t)
<1>1. Formed(State) /\ State.topics = topics /\ State.clients = clients
  BY RunningFormed
<1>2. QED
  BY <1>1, SparesTopics DEF Keeps, App

\* Declaring something under a uid.
LEMMA PutSpares ==
  ASSUME Running, NEW c \in DOMAIN clients, NEW x
  PROVE  /\ Spares(State, [State EXCEPT !.clients[c].pubs = x])
         /\ c # Self => Spares(State, [State EXCEPT !.clients[c].subs = x])
<1>1. Formed(State) /\ State.topics = topics /\ State.clients = clients
  BY RunningFormed
<1>2. DOMAIN App = Field /\ DOMAIN App.peer = PeerField /\ Self \in DOMAIN clients
  BY <1>1 DEF Formed, App
<1>3. Keeps(App, App) /\ Keeps(App, [App EXCEPT !.pubs = x])
  BY <1>2 DEF Keeps, Field
<1>. DEFINE t == [State EXCEPT !.clients[c].pubs = x]
            q == [State EXCEPT !.clients[c].subs = x]
<1>4. /\ DOMAIN t = {"topics", "clients"} /\ t.topics = topics /\ DOMAIN t.clients = DOMAIN clients
      /\ DOMAIN q = {"topics", "clients"} /\ q.topics = topics /\ DOMAIN q.clients = DOMAIN clients
      /\ t.clients[Self] = IF c = Self THEN [App EXCEPT !.pubs = x] ELSE App
      /\ c # Self => q.clients[Self] = App
  BY <1>1, <1>2 DEF Formed, App
<1>. HIDE DEF t, q
<1>5. Spares(State, t)
  BY <1>2, <1>3, <1>4, OthersSpare DEF Keeps
<1>6. c # Self => Spares(State, q)
  BY <1>2, <1>3, <1>4, OthersSpare DEF Keeps
<1>7. QED
  BY <1>5, <1>6 DEF t, q

Has(s, c) == Formed(s) /\ c \in DOMAIN s.clients

LEMMA HasStill ==
  ASSUME NEW s, NEW c, Has(s, c)
  PROVE  /\ c \in DOMAIN UpdateClientsMeta(s).clients
         /\ c \in DOMAIN UpdateClientSubMeta(s, c).clients
         /\ c \in DOMAIN UpdateClientPubMeta(s, c).clients
         /\ \A n : c \in DOMAIN PublishMeta(s, n).clients
         /\ \A r : c \in DOMAIN OnClient(s, c, r).clients
         /\ c \in DOMAIN PublishInitialValues(s, c).clients
<1>1. DOMAIN s = {"topics", "clients"} /\ c \in DOMAIN s.clients
  BY DEF Has, Formed
<1>2. \A value : c \in DOMAIN SetAndSend(s, value).clients
  BY <1>1 DEF SetAndSend, SendUpdates
<1>3. \A n : c \in DOMAIN PublishMeta(s, n).clients
  BY <1>1 DEF PublishMeta, AnnounceToAll, GetOrCreate
<1>4. \A r : c \in DOMAIN OnClient(s, c, r).clients
  BY <1>1 DEF OnClient
<1>5. c \in DOMAIN PublishInitialValues(s, c).clients
  BY <1>4 DEF PublishInitialValues
<1>6. QED
  BY <1>2, <1>3, <1>4, <1>5 DEF UpdateClientsMeta, UpdateClientSubMeta, UpdateClientPubMeta

LEMMA ConnectedOnward ==
  ASSUME Running, NEW c \in Client, ClientConnected(c)
  PROVE  Onward
<1>. DEFINE name == <<Base[c], NextSuffix(Base[c])>>
            s1 == [topics |-> topics, clients |-> Put(clients, c, NewClient(name))]
            s2 == PublishMeta(s1, ClientSubTopic(name))
            s3 == PublishMeta(s2, ClientPubTopic(name))
            s4 == UpdateClientsMeta(s3)
            s5 == UpdateClientSubMeta(s4, c)
            s6 == UpdateClientPubMeta(s5, c)
            s7 == OnClient(s6, c, FlushText(s6.clients[c]))
            s8 == PublishInitialValues(s7, c)
            s9 == OnClient(s8, c, FlushBinary(s8.clients[c]))
<1>0. c # Self
  BY NTServerAssumption
<1>1. Become(s9)
  BY DEF ClientConnected
<1>2. Spares(State, s1)
  <2>1. Self \in DOMAIN clients /\ DOMAIN App = Field /\ DOMAIN App.peer = PeerField
    BY RunningFormed DEF Formed, App
  <2>2. /\ DOMAIN s1 = {"topics", "clients"} /\ s1.topics = topics
        /\ Self \in DOMAIN s1.clients /\ s1.clients[Self] = App
    BY <1>0, <2>1 DEF Put, App
  <2>. HIDE DEF s1
  <2>3. QED
    BY <2>1, <2>2, OthersSpare DEF Keeps
<1>3. c \in DOMAIN s1.clients
  BY DEF Put
<1>. HIDE DEF s1
<1>5. Has(s1, c)
  BY <1>2, <1>3 DEF Spares, Has
<1>6. Spares(s1, s2) /\ Has(s2, c)
  BY HasStill, <1>5, PublishMetaSpares, MetaIrregular DEF Spares, Has
<1>. HIDE DEF s2
<1>7. Spares(s2, s3) /\ Has(s3, c)
  BY HasStill, <1>6, PublishMetaSpares, MetaIrregular DEF Spares, Has
<1>. HIDE DEF s3
<1>8. Spares(s3, s4) /\ Has(s4, c)
  BY HasStill, <1>7, MetaSpares DEF Spares, Has
<1>. HIDE DEF s4
<1>9. Spares(s4, s5) /\ Has(s5, c)
  BY HasStill, <1>8, MetaSpares DEF Spares, Has
<1>. HIDE DEF s5
<1>10. Spares(s5, s6) /\ Has(s6, c)
  BY HasStill, <1>9, MetaSpares DEF Spares, Has
<1>. HIDE DEF s6
<1>11. Spares(s6, s7) /\ Has(s7, c)
  BY HasStill, <1>0, <1>10, ServeSpares DEF Spares, Has
<1>. HIDE DEF s7
<1>12. Spares(s7, s8) /\ Has(s8, c)
  BY HasStill, <1>11, ServeSpares DEF Spares, Has
<1>. HIDE DEF s8
<1>13. Spares(s8, s9)
  BY <1>0, <1>12, ServeSpares DEF Has
<1>. HIDE DEF s9
<1>14. Spares(State, s9)
  BY <1>2, <1>6, <1>7, <1>8, <1>9, <1>10, <1>11, <1>12, <1>13, SparesTransitive
<1>15. QED
  BY <1>1, <1>14, SparesOnward

LEMMA DisconnectedOnward ==
  ASSUME Running, NEW c \in Client, ClientDisconnected(c)
  PROVE  Onward
<1>. DEFINE s1 == [State EXCEPT !.clients = Drop(@, c)]
            s2 == UpdateClientsMeta(s1)
            s3 == FlushAllBinary(s2)
<1>1. Become(s3) /\ c # Self
  BY NTServerAssumption DEF ClientDisconnected
<1>2. Spares(State, s1)
  <2>1. Self \in DOMAIN clients /\ DOMAIN App = Field /\ DOMAIN App.peer = PeerField
    BY RunningFormed DEF Formed, App
  <2>2. /\ DOMAIN s1 = {"topics", "clients"} /\ s1.topics = topics
        /\ Self \in DOMAIN s1.clients /\ s1.clients[Self] = App
    BY <1>1, <2>1 DEF Drop, App, State
  <2>. HIDE DEF s1
  <2>3. QED
    BY <2>1, <2>2, OthersSpare DEF Keeps
<1>. HIDE DEF s1
<1>3. Spares(s1, s2)
  BY <1>2, MetaSpares DEF Spares
<1>. HIDE DEF s2
<1>4. Spares(s2, s3)
  BY <1>3, LoopsSpare DEF Spares
<1>. HIDE DEF s3
<1>5. Spares(State, s3)
  BY <1>2, <1>3, <1>4, SparesTransitive
<1>6. QED
  BY <1>1, <1>5, SparesOnward

LEMMA UnPublishOnward ==
  ASSUME Running, NEW c \in Client, NEW u \in PubUid, UnPublish(c, u),
         \A v \in DOMAIN clients[c].pubs : clients[c].pubs[v] \in Regular
  PROVE  Onward
<1>1. c \in DOMAIN clients /\ State.clients = clients
  BY DEF UnPublish, InTextFrame, Remote, State
<1>2. ASSUME Become([State EXCEPT !.clients[c].pubs = Put(@, u, Null)]) PROVE Onward
  <2>2. [State EXCEPT !.clients[c].pubs = Put(@, u, Null)]
          = [State EXCEPT !.clients[c].pubs = Put(clients[c].pubs, u, Null)]
    BY <1>1
  <2>3. QED
    BY <1>1, <1>2, <2>2, PutSpares, SparesOnward
<1>3. ASSUME NEW n \in Regular,
             Become(UpdateTopicPubMeta(UpdateClientPubMeta(
                      [State EXCEPT !.clients[c].pubs = Drop(@, u)], c), n))
      PROVE  Onward
  <2>. DEFINE s1 == [State EXCEPT !.clients[c].pubs = Drop(@, u)]
              s2 == UpdateClientPubMeta(s1, c)
              s3 == UpdateTopicPubMeta(s2, n)
  <2>1. Become(s3)
    BY <1>3
  <2>2. s1 = [State EXCEPT !.clients[c].pubs = Drop(clients[c].pubs, u)]
    BY <1>1
  <2>3. Spares(State, s1)
    BY <1>1, <2>2, PutSpares
  <2>. HIDE DEF s1
  <2>4. Spares(s1, s2)
    BY <2>3, MetaSpares DEF Spares
  <2>. HIDE DEF s2
  <2>5. Spares(s2, s3)
    BY <2>1, <2>4, MetaSpares DEF Spares
  <2>. HIDE DEF s3
  <2>6. Spares(State, s3)
    BY <2>3, <2>4, <2>5, SparesTransitive
  <2>7. QED
    BY <2>1, <2>6, SparesOnward
<1>4. QED
  BY <1>2, <1>3 DEF UnPublish

LEMMA FrameOnward ==
  ASSUME Running, NEW c \in Client
  PROVE  /\ EndFrame(c) \/ AbandonFrame(c) => Onward
         /\ \A u, v : BinaryFrame(c, u, v) => Onward
<1>1. ASSUME EndFrame(c) PROVE Onward
  <2>. DEFINE s1 == FlushAllText(State)
              s2 == PublishInitialValues(s1, c)
              s3 == FlushAllBinary(s2)
  <2>1. Become(s3) /\ c \in DOMAIN clients
    BY <1>1 DEF EndFrame, Running
  <2>2. Spares(State, s1) /\ DOMAIN s1.clients = DOMAIN clients
    BY RunningFormed, LoopsSpare DEF FlushAllText, Formed
  <2>. HIDE DEF s1
  <2>3. Spares(s1, s2)
    BY <2>1, <2>2, ServeSpares DEF Spares
  <2>. HIDE DEF s2
  <2>4. Spares(s2, s3)
    BY <2>3, LoopsSpare DEF Spares
  <2>. HIDE DEF s3
  <2>5. Spares(State, s3)
    BY <2>2, <2>3, <2>4, SparesTransitive
  <2>6. QED
    BY <2>1, <2>5, SparesOnward
<1>2. ASSUME AbandonFrame(c) PROVE Onward
  BY <1>2, UnchangedOnward DEF AbandonFrame
<1>3. ASSUME NEW u, NEW v, BinaryFrame(c, u, v) PROVE Onward
  <2>1. c \in DOMAIN clients
    BY <1>3 DEF BinaryFrame, BetweenFrames, Remote, State
  <2>2. CASE u \in DOMAIN clients[c].pubs
    <3>1. Become(FlushAllBinary(UpdateValue(State, clients[c].pubs[u], v)))
      BY <1>3, <2>2 DEF BinaryFrame
    <3>2. QED
      BY <3>1, UpdateValueOnward
  <2>3. CASE u \notin DOMAIN clients[c].pubs
    <3>. DEFINE t == [State EXCEPT !.clients[c].pubs = Put(@, u, Null)]
    <3>1. Become(FlushAllBinary(t))
      BY <1>3, <2>3 DEF BinaryFrame
    <3>2. t = [State EXCEPT !.clients[c].pubs = Put(clients[c].pubs, u, Null)]
      BY <2>1 DEF State
    <3>3. Spares(State, t)
      BY <2>1, <3>2, PutSpares
    <3>. HIDE DEF t
    <3>4. Spares(State, FlushAllBinary(t))
      BY <3>3, LoopsSpare, SparesTransitive DEF Spares
    <3>5. QED
      BY <3>1, <3>4, SparesOnward
  <2>4. QED
    BY <2>2, <2>3
<1>4. QED
  BY <1>1, <1>2, <1>3

\* unpublish, updateTopic and setProperties of the application
LEMMA AppOnward ==
  ASSUME Running
  PROVE  /\ \A u \in PubUid :
              AppUnpublish(u) \/ (\E v : AppUpdateTopic(u, v)) => Onward
         /\ \A n \in DOMAIN topics, k \in CachedUpdates : AppSetProperties(n, k) => Onward
<1>0. Self \in DOMAIN clients /\ State.clients = clients /\ State.topics = topics /\ App = clients[Self]
  BY RunningFacts DEF State, App
<1>1. ASSUME NEW u, Become([State EXCEPT !.clients[Self].pubs = Put(@, u, Null)])
      PROVE  Onward
  <2>1. [State EXCEPT !.clients[Self].pubs = Put(@, u, Null)]
          = [State EXCEPT !.clients[Self].pubs = Put(App.pubs, u, Null)]
    BY <1>0
  <2>2. QED
    BY <1>0, <1>1, <2>1, PutSpares, SparesOnward
<1>2. ASSUME NEW u \in PubUid, AppUnpublish(u) PROVE Onward
  <2>1. CASE u \notin DOMAIN App.pubs
    BY <1>1, <1>2, <2>1 DEF AppUnpublish
  <2>2. CASE u \in DOMAIN App.pubs
    <3>. DEFINE s1 == [State EXCEPT !.clients[Self].pubs = Drop(@, u)]
                s2 == UpdateServerPubMeta(s1)
    <3>1. Become(s2)
      BY <1>2, <2>2 DEF AppUnpublish
    <3>2. s1 = [State EXCEPT !.clients[Self].pubs = Drop(App.pubs, u)]
      BY <1>0
    <3>3. Spares(State, s1)
      BY <1>0, <3>2, PutSpares
    <3>. HIDE DEF s1
    <3>4. Spares(s1, s2)
      BY <3>3, MetaSpares DEF Spares
    <3>. HIDE DEF s2
    <3>5. QED
      BY <3>1, <3>3, <3>4, SparesTransitive, SparesOnward
  <2>3. QED
    BY <2>1, <2>2
<1>3. ASSUME NEW u \in PubUid, NEW v, AppUpdateTopic(u, v) PROVE Onward
  <2>1. CASE u \notin DOMAIN App.pubs
    BY <1>1, <1>3, <2>1 DEF AppUpdateTopic
  <2>2. CASE u \in DOMAIN App.pubs
    BY <1>3, <2>2, UpdateValueOnward DEF AppUpdateTopic
  <2>3. QED
    BY <2>1, <2>2
<1>4. ASSUME NEW n \in DOMAIN topics, NEW k \in CachedUpdates, AppSetProperties(n, k)
      PROVE  Onward
  <2>. DEFINE s1 == [State EXCEPT !.topics[n].cached = k]
              s2 == TellProperties(s1, n)
  <2>1. Become(s2)
    BY <1>4 DEF AppSetProperties, ChangeProperties
  <2>2. Formed(State) /\ k \in BOOLEAN /\ (TRUE \notin CachedUpdates => ~k)
    BY RunningFormed, NTServerAssumption
  <2>3. /\ DOMAIN s1 = {"topics", "clients"} /\ s1.clients = clients
        /\ DOMAIN s1.topics = DOMAIN topics
        /\ \A m \in DOMAIN topics \ {n} : s1.topics[m] = topics[m]
        /\ s1.topics[n] = [topics[n] EXCEPT !.cached = k]
    BY <1>0, <2>2 DEF Formed
  <2>. HIDE DEF s1
  <2>4. {"value", "cached"} \subseteq DOMAIN topics[n]
    BY <1>0, <2>2 DEF Formed
  <2>5. s1.topics[n].value = topics[n].value /\ s1.topics[n].cached = k
    BY <2>3, <2>4
  <2>6. Formed(s1)
    BY <1>0, <2>2, <2>3, <2>4 DEF Formed
  <2>7. Spares(s1, s2)
    BY <2>6, LoopsSpare
  <2>. HIDE DEF s2
  <2>8. topics' = s2.topics /\ App' = s2.clients[Self]
    BY <2>1 DEF Become, App
  <2>9. /\ Regular \cap DOMAIN topics' = Regular \cap DOMAIN topics
        /\ \A m \in Regular \cap DOMAIN topics : topics'[m] = s1.topics[m]
    BY <2>3, <2>7, <2>8 DEF Spares, Declared
  <2>10. App'.subs = App.subs /\ DOMAIN App.peer.vals \subseteq DOMAIN App'.peer.vals
    BY <1>0, <2>3, <2>7, <2>8 DEF Spares
  <2>11. \A m \in Regular \cap DOMAIN topics :
           /\ topics'[m].value = topics[m].value
           /\ TRUE \notin CachedUpdates /\ topics'[m].cached => topics[m].cached
    BY <2>2, <2>3, <2>5, <2>9
  <2>12. QED
    BY <2>9, <2>10, <2>11 DEF Onward
<1>5. QED
  BY <1>2, <1>3, <1>4

\* A publication, by the application or a client, adds the name if it is new, with
\* a default value, and the application has an id for it if it is subscribed.
Adds(n, types) ==
  /\ App'.subs = App.subs /\ DOMAIN App.peer.vals \subseteq DOMAIN App'.peer.vals
  /\ Regular \cap DOMAIN topics' = (Regular \cap DOMAIN topics) \cup {n}
  /\ \A m \in Regular \cap DOMAIN topics : topics'[m] = topics[m]
  /\ n \notin DOMAIN topics =>
       /\ \E t \in types : topics'[n].value = DefaultValue(t)
       /\ IsSubscribed(App, n) => n \in DOMAIN App'.data

LEMMA PublishedAdds ==
  ASSUME Running, NEW n \in Regular, NEW t, NEW cached,
         NEW s, Spares(State, s), n \notin DOMAIN topics,
         NEW q, LET u == GetOrCreate(s, n, DefaultValue(t), cached)
                IN \/ q = PublishTopicMetas(AnnounceToAll(u, n), n)
                   \/ \E p \in Client : q = PublishTopicMetas(AnnounceToAllFrom(u, n, p), n),
         NEW r, Spares(q, r), Become(r)
  PROVE  Adds(n, {t})
<1>. DEFINE u == GetOrCreate(s, n, DefaultValue(t), cached)
<1>1. PICK a : q = PublishTopicMetas(a, n) /\ (a = AnnounceToAll(u, n) \/ \E p \in Client : a = AnnounceToAllFrom(u, n, p))
  OBVIOUS
<1>2. State.topics = topics /\ State.clients = clients /\ Formed(s)
  BY RunningFormed DEF Spares
<1>3. n \notin DOMAIN s.topics
  BY <1>2 DEF Spares, Declared
<1>4. /\ DOMAIN u = {"topics", "clients"} /\ u.clients = s.clients
      /\ DOMAIN u.topics = DOMAIN s.topics \cup {n}
      /\ \A m \in DOMAIN s.topics : u.topics[m] = s.topics[m]
      /\ u.topics[n] = [value |-> DefaultValue(t), cached |-> cached]
  BY <1>2, <1>3 DEF GetOrCreate, Formed
<1>5. Formed(u)
  BY <1>2, <1>4 DEF Formed
<1>6. Spares(u, a)
  BY <1>1, <1>5, LoopsSpare
<1>7. IsSubscribed(App, n) => n \in DOMAIN a.clients[Self].data
  <2>1. IsSubscribed(App, n) <=> IsSubscribed(u.clients[Self], n)
    BY <1>2, <1>4 DEF Spares, IsSubscribed, App
  <2>2. Self \notin Client /\ Self \in DOMAIN u.clients
    BY <1>5, NTServerAssumption DEF Formed
  <2>3. IsSubscribed(u.clients[Self], n) => a.clients[Self] = AnnounceSelf(u.clients[Self], {n})
    BY <1>1, <1>4, <2>2 DEF AnnounceToAll, AnnounceToAllFrom, Announce
  <2>4. n \in DOMAIN AnnounceSelf(u.clients[Self], {n}).data
    BY <1>5 DEF AnnounceSelf, AssignIds, Formed, Field
  <2>5. QED
    BY <2>1, <2>3, <2>4
<1>. HIDE DEF u
<1>8. Spares(a, q)
  BY <1>1, <1>6, PublishTopicMetasSpares DEF Spares
<1>9. Spares(u, r) /\ Spares(a, r)
  BY <1>6, <1>8, SparesTransitive
<1>10. topics' = r.topics /\ App' = r.clients[Self]
  BY DEF Become, App
<1>11. /\ App'.subs = App.subs /\ DOMAIN App.peer.vals \subseteq DOMAIN App'.peer.vals
  BY <1>2, <1>4, <1>9, <1>10 DEF Spares, App
<1>12. Regular \cap DOMAIN s.topics = Regular \cap DOMAIN topics
       /\ \A m \in Regular \cap DOMAIN topics : s.topics[m] = topics[m]
  BY <1>2 DEF Spares, Declared
<1>13. /\ Regular \cap DOMAIN topics' = Regular \cap DOMAIN u.topics
       /\ \A m \in Regular \cap DOMAIN u.topics : topics'[m] = u.topics[m]
  BY <1>9, <1>10 DEF Spares, Declared
<1>14. /\ Regular \cap DOMAIN topics' = (Regular \cap DOMAIN topics) \cup {n}
       /\ \A m \in Regular \cap DOMAIN topics : topics'[m] = topics[m]
       /\ topics'[n].value = DefaultValue(t)
  BY <1>4, <1>12, <1>13
<1>15. IsSubscribed(App, n) => n \in DOMAIN App'.data
  BY <1>7, <1>9, <1>10 DEF Spares
<1>16. QED
  BY <1>11, <1>14, <1>15 DEF Adds

LEMMA PublishAdds ==
  ASSUME Running, NEW c \in Client, NEW u \in PubUid, NEW n \in Regular, NEW type, NEW cached,
         Publish(c, u, n, type, cached)
  PROVE  Adds(n, {WireType(type)})
<1>. DEFINE s1 == [State EXCEPT !.clients[c].pubs = Put(@, u, n)]
            s2 == IF n \in DOMAIN topics
                    THEN OnClient(s1, c, AnnounceToPublisher(s1.clients[c], n))
                    ELSE PublishFrom(s1, n, DefaultValue(WireType(type)), cached, c)
            s3 == UpdateClientPubMeta(s2, c)
            s4 == UpdateTopicPubMeta(s3, n)
<1>1. Become(s4) /\ c \in DOMAIN clients /\ c # Self
  BY DEF Publish, InTextFrame, Remote, State
<1>2. Spares(State, s1) /\ c \in DOMAIN s1.clients
  <2>1. s1 = [State EXCEPT !.clients[c].pubs = Put(clients[c].pubs, u, n)] /\ State.clients = clients
        /\ DOMAIN s1.clients = DOMAIN clients
    BY <1>1 DEF State
  <2>2. QED
    BY <1>1, <2>1, PutSpares
<1>. HIDE DEF s1
<1>3. Formed(s1)
  BY <1>2 DEF Spares
<1>4. CASE n \in DOMAIN topics
  <2>1. Spares(s1, s2)
    BY <1>1, <1>2, <1>3, <1>4, ServeSpares
  <2>. HIDE DEF s2
  <2>2. Spares(s2, s3)
    BY <2>1, MetaSpares DEF Spares
  <2>. HIDE DEF s3
  <2>3. Spares(s3, s4)
    BY <2>2, MetaSpares DEF Spares
  <2>. HIDE DEF s4
  <2>4. Spares(State, s4)
    BY <1>2, <2>1, <2>2, <2>3, SparesTransitive
  <2>5. State.topics = topics /\ State.clients = clients /\ topics' = s4.topics /\ App' = s4.clients[Self]
    BY <1>1 DEF Become, App, State
  <2>6. QED
    BY <1>4, <2>4, <2>5 DEF Spares, Declared, Adds, App
<1>5. CASE n \notin DOMAIN topics
  <2>. DEFINE v == GetOrCreate(s1, n, DefaultValue(WireType(type)), cached)
              a == AnnounceToAllFrom(v, n, c)
              q == PublishTopicMetas(a, n)
  <2>1. s2 = q
    BY <1>5 DEF PublishFrom
  <2>2. Formed(q)
    <3>1. Formed(v)
      BY <1>3 DEF GetOrCreate, Formed
    <3>. HIDE DEF v
    <3>2. Formed(a)
      BY <3>1, LoopsSpare DEF Spares
    <3>. HIDE DEF a
    <3>3. QED
      BY <3>2, PublishTopicMetasSpares DEF Spares
  <2>3. s3 = UpdateClientPubMeta(q, c)
    BY <2>1
  <2>. HIDE DEF s2, s3
  <2>4. Spares(q, s3)
    BY <2>2, <2>3, MetaSpares
  <2>5. Spares(s3, s4)
    BY <2>4, MetaSpares DEF Spares
  <2>6. Spares(q, s4)
    BY <2>4, <2>5, SparesTransitive
  <2>. HIDE DEF s4
  <2>7. QED
    BY <1>1, <1>2, <1>5, <2>6, PublishedAdds
<1>6. QED
  BY <1>4, <1>5

LEMMA AppPublishAdds ==
  ASSUME Running, NEW u \in PubUid, NEW n \in Regular, NEW type, NEW cached,
         AppPublish(u, n, type, cached)
  PROVE  Adds(n, {type}) /\ n \in DOMAIN App'.data
<1>. DEFINE s1 == [State EXCEPT !.clients[Self].pubs = Put(@, u, n)]
            s2 == IF n \in DOMAIN topics
                    THEN OnClient(s1, Self, AssignIds(s1.clients[Self], {n}))
                    ELSE PublishSelf(s1, n, DefaultValue(type), cached)
            s3 == UpdateServerPubMeta(s2)
<1>1. Become(s3) /\ Self \in DOMAIN clients
  BY RunningFacts DEF AppPublish
<1>2. Spares(State, s1)
  <2>1. s1 = [State EXCEPT !.clients[Self].pubs = Put(clients[Self].pubs, u, n)]
    BY <1>1 DEF State
  <2>2. QED
    BY <1>1, <2>1, PutSpares
<1>. HIDE DEF s1
<1>3. Formed(s1)
  BY <1>2 DEF Spares
<1>4. CASE n \in DOMAIN topics
  <2>1. Keeps(s1.clients[Self], AssignIds(s1.clients[Self], {n})) /\ Self \in DOMAIN s1.clients
    BY <1>3, OwnRecord DEF Formed
  <2>2. Spares(s1, s2) /\ n \in DOMAIN s2.clients[Self].data
    <3>1. Spares(s1, s2)
      BY <1>3, <1>4, <2>1, ServeSpares
    <3>2. s2.clients[Self] = AssignIds(s1.clients[Self], {n})
      BY <1>3, <1>4 DEF OnClient, Formed
    <3>3. n \in DOMAIN AssignIds(s1.clients[Self], {n}).data
      BY <1>3 DEF AssignIds, Formed, Field
    <3>4. QED
      BY <3>1, <3>2, <3>3
  <2>. HIDE DEF s2
  <2>3. Spares(s2, s3)
    BY <2>2, MetaSpares DEF Spares
  <2>. HIDE DEF s3
  <2>4. Spares(State, s3)
    BY <1>2, <2>2, <2>3, SparesTransitive
  <2>5. State.topics = topics /\ State.clients = clients /\ topics' = s3.topics /\ App' = s3.clients[Self]
    BY <1>1 DEF Become, App, State
  <2>6. QED
    BY <1>4, <2>2, <2>3, <2>4, <2>5 DEF Spares, Declared, Adds, App
<1>5. CASE n \notin DOMAIN topics
  <2>. DEFINE v == GetOrCreate(s1, n, DefaultValue(type), cached)
              a == AnnounceToAll(v, n)
              q == PublishTopicMetas(a, n)
              r == OnClient(q, Self, LookUpSelfId(q.clients[Self], n))
  <2>1. s2 = r
    BY <1>5, NTFacadeAssumption DEF PublishSelf, Refused, NTFacadeAssumption
  <2>2. Formed(q)
    <3>1. Formed(v)
      BY <1>3 DEF GetOrCreate, Formed
    <3>. HIDE DEF v
    <3>2. Formed(a)
      BY <3>1, LoopsSpare DEF Spares
    <3>. HIDE DEF a
    <3>3. QED
      BY <3>2, PublishTopicMetasSpares DEF Spares
  <2>3. s3 = UpdateServerPubMeta(r)
    BY <2>1
  <2>4. q = PublishTopicMetas(AnnounceToAll(GetOrCreate(s1, n, DefaultValue(type), cached), n), n)
    OBVIOUS
  <2>. HIDE DEF s2, s3, q
  <2>5. Spares(q, r)
    <3>1. Keeps(q.clients[Self], LookUpSelfId(q.clients[Self], n)) /\ Self \in DOMAIN q.clients
      BY <2>2, OwnRecord DEF Formed
    <3>2. QED
      BY <2>2, <3>1, ServeSpares
  <2>6. n \in DOMAIN r.clients[Self].data
    <3>1. r.clients[Self] = LookUpSelfId(q.clients[Self], n)
      BY <2>2 DEF OnClient, Formed
    <3>2. n \in DOMAIN LookUpSelfId(q.clients[Self], n).data
      BY <2>2 DEF LookUpSelfId, Formed, Field
    <3>3. QED
      BY <3>1, <3>2
  <2>. HIDE DEF r
  <2>7. Spares(r, s3)
    BY <2>3, <2>5, MetaSpares DEF Spares
  <2>8. Spares(q, s3)
    BY <2>5, <2>7, SparesTransitive
  <2>9. Adds(n, {type})
    BY <1>1, <1>2, <1>5, <2>4, <2>8, PublishedAdds
  <2>10. n \in DOMAIN App'.data
    BY <1>1, <2>6, <2>7 DEF Spares, Become, App
  <2>11. QED
    BY <2>9, <2>10
<1>6. QED
  BY <1>4, <1>5

\* subscribe of the application: it knows every cached topic it is subscribed to, and
\* was sent a value of each topic it knows and wants the value of.
Listens(u, wanted) ==
  /\ App'.subs = Put(App.subs, u, wanted) /\ DOMAIN App.peer.vals \subseteq DOMAIN App'.peer.vals
  /\ Regular \cap DOMAIN topics' = Regular \cap DOMAIN topics
  /\ \A n \in Regular \cap DOMAIN topics : topics'[n] = topics[n]
  /\ \A n \in DOMAIN topics' : topics'[n].cached /\ IsSubscribed(App', n) => n \in DOMAIN App'.data
  /\ \A n \in DOMAIN App'.data : WantsValue(App', n) => App'.data[n].id \in DOMAIN App'.peer.vals

LEMMA AppSubscribeListens ==
  ASSUME Running, NEW u \in SubUid, NEW wanted, AppSubscribe(u, wanted)
  PROVE  Listens(u, wanted)
<1>. DEFINE x == Put(clients[Self].subs, u, wanted)
            s1 == [State EXCEPT !.clients[Self].subs = x]
            s2 == UpdateServerSubMeta(s1)
            s3 == AnnounceCached(s2, Self)
            s4 == PublishInitialValues(s3, Self)
<1>1. Become(s4) /\ Self \in DOMAIN clients /\ Formed(State)
      /\ State.topics = topics /\ State.clients = clients
  <2>1. Self \in DOMAIN clients /\ State.topics = topics /\ State.clients = clients /\ Formed(State)
    BY RunningFacts, RunningFormed
  <2>2. [State EXCEPT !.clients[Self].subs = Put(@, u, wanted)] = s1
    BY <2>1
  <2>3. QED
    BY <2>1, <2>2 DEF AppSubscribe
<1>2. /\ DOMAIN s1 = {"topics", "clients"} /\ s1.topics = topics /\ DOMAIN s1.clients = DOMAIN clients
      /\ s1.clients[Self] = [clients[Self] EXCEPT !.subs = x]
  BY <1>1 DEF Formed
<1>3. GoodState(s1)
  BY RunningFacts, ChangeFollows DEF Running
<1>. HIDE DEF x, s1
<1>4. Formed(s1)
  BY <1>1, <1>2 DEF Formed, Field
<1>5. Spares(s1, s2) /\ GoodState(s2)
  BY <1>3, <1>4, MetaSpares, MetaLeads DEF Leads
<1>. HIDE DEF s2
<1>6. Self \in DOMAIN s2.clients /\ Formed(s2)
  BY <1>5 DEF GoodState, Safe, Spares
<1>7. Spares(s2, s3) /\ GoodState(s3)
  BY <1>5, <1>6, ServeSpares, ServeLeads DEF Leads
<1>. DEFINE M == {n \in DOMAIN s2.topics : s2.topics[n].cached /\ IsSubscribed(s2.clients[Self], n)}
<1>8. s3.topics = s2.topics /\ M \subseteq DOMAIN s3.clients[Self].data
  <2>1. s3.topics = s2.topics /\ s3.clients[Self] = Announce(Self, s2.clients[Self], M)
    BY <1>6 DEF AnnounceCached, OnClient, Formed
  <2>2. Shape(s2.clients[Self]) /\ M \subseteq Name
    BY <1>5 DEF GoodState, Safe
  <2>. HIDE DEF M
  <2>3. QED
    BY <2>1, <2>2, AnnounceGives
<1>. HIDE DEF s3
<1>9. Self \in DOMAIN s3.clients /\ Formed(s3) /\ Shape(s3.clients[Self]) /\ AppShape(s3.clients[Self])
  BY <1>7 DEF GoodState, Safe, Spares
<1>10. Spares(s3, s4)
  BY <1>9, ServeSpares
<1>. DEFINE cl == s3.clients[Self]
            N == {n \in DOMAIN cl.data : ~cl.data[n].initialPublish /\ WantsValue(cl, n)}
            r == SendTo(s3, Self, N)
<1>11. s4.topics = s3.topics /\ s4.clients[Self] = r
  BY <1>9 DEF PublishInitialValues, OnClient, Formed
<1>12. \A n \in N : r.data[n].id \in DOMAIN r.peer.vals
  <2>1. N \subseteq DOMAIN s3.clients[Self].data
    OBVIOUS
  <2>. HIDE DEF N
  <2>2. QED
    BY <1>9, <2>1, SelfSent DEF AppShape
<1>13. r.subs = cl.subs /\ DOMAIN r.data = DOMAIN cl.data
  BY <1>9 DEF SendTo, Shape, Caches, Field
<1>14. \A n \in DOMAIN r.data : WantsValue(r, n) => n \in N
  BY <1>9, <1>13 DEF AppShape, WantsValue
<1>. HIDE DEF N, r, s4
<1>15. topics' = s4.topics /\ App' = s4.clients[Self] /\ App'.subs = x
       /\ App'.subs = s2.clients[Self].subs
  <2>1. s1.clients[Self].subs = x
    BY <1>1, <1>2 DEF Formed, Field
  <2>2. QED
    BY <1>1, <1>5, <1>7, <1>10, <2>1 DEF Become, App, Spares
<1>16. \A n \in DOMAIN App'.data : WantsValue(App', n) => App'.data[n].id \in DOMAIN App'.peer.vals
  BY <1>11, <1>12, <1>14, <1>15
<1>17. \A n \in DOMAIN topics' : topics'[n].cached /\ IsSubscribed(App', n) => n \in DOMAIN App'.data
  BY <1>8, <1>11, <1>13, <1>15 DEF IsSubscribed
<1>18. Spares(s1, s4)
  BY <1>5, <1>7, <1>10, SparesTransitive
<1>19. /\ DOMAIN App.peer.vals \subseteq DOMAIN App'.peer.vals
       /\ Regular \cap DOMAIN topics' = Regular \cap DOMAIN topics
       /\ \A n \in Regular \cap DOMAIN topics : topics'[n] = topics[n]
  <2>1. s1.clients[Self].peer = App.peer
    BY <1>1, <1>2 DEF Formed, Field, App
  <2>2. QED
    BY <1>2, <1>15, <1>18, <2>1 DEF Spares, Declared
<1>20. QED
  BY <1>15, <1>16, <1>17, <1>19 DEF Listens, x, App

\* unsubscribe of the application
Forgets(u) ==
  /\ \A v \in DOMAIN App.subs \ {u} : v \in DOMAIN App'.subs /\ App'.subs[v] = App.subs[v]
  /\ DOMAIN App.peer.vals \subseteq DOMAIN App'.peer.vals
  /\ Regular \cap DOMAIN topics' = Regular \cap DOMAIN topics
  /\ \A n \in Regular \cap DOMAIN topics : topics'[n] = topics[n]

LEMMA AppUnsubscribeForgets ==
  ASSUME Running, NEW u \in SubUid, AppUnsubscribe(u)
  PROVE  Forgets(u)
<1>1. Self \in DOMAIN clients /\ State.topics = topics /\ State.clients = clients /\ Formed(State)
  BY RunningFacts, RunningFormed
<1>2. ASSUME NEW x, NEW s1, s1 = [State EXCEPT !.clients[Self].subs = x],
             NEW t, t = s1 \/ t = UpdateServerSubMeta(s1), Become(t),
             \A v \in DOMAIN App.subs \ {u} : v \in DOMAIN x /\ x[v] = App.subs[v]
      PROVE  Forgets(u)
  <2>1. /\ DOMAIN s1 = {"topics", "clients"} /\ s1.topics = topics /\ DOMAIN s1.clients = DOMAIN clients
        /\ s1.clients[Self] = [App EXCEPT !.subs = x]
    BY <1>1, <1>2 DEF Formed, App
  <2>2. DOMAIN App = Field
    BY <1>1 DEF Formed, App
  <2>3. Formed(s1) /\ s1.clients[Self].subs = x /\ s1.clients[Self].peer = App.peer
    BY <1>1, <2>1, <2>2 DEF Formed, Field, App
  <2>4. t = s1 \/ Spares(s1, t)
    BY <1>2, <2>3, MetaSpares
  <2>5. topics' = t.topics /\ App' = t.clients[Self]
    BY <1>2 DEF Become, App
  <2>6. /\ App'.subs = x /\ DOMAIN App.peer.vals \subseteq DOMAIN App'.peer.vals
        /\ Regular \cap DOMAIN topics' = Regular \cap DOMAIN topics
        /\ \A n \in Regular \cap DOMAIN topics : topics'[n] = topics[n]
    <3>1. CASE t = s1
      BY <2>1, <2>3, <2>5, <3>1
    <3>2. CASE Spares(s1, t)
      BY <2>1, <2>3, <2>5, <3>2 DEF Spares, Declared
    <3>3. QED
      BY <2>4, <3>1, <3>2
  <2>7. QED
    BY <1>2, <2>6 DEF Forgets
<1>3. CASE u \in DOMAIN App.subs
  <2>1. [State EXCEPT !.clients[Self].subs = Drop(@, u)] = [State EXCEPT !.clients[Self].subs = Drop(App.subs, u)]
    BY <1>1 DEF App
  <2>2. Become(UpdateServerSubMeta([State EXCEPT !.clients[Self].subs = Drop(App.subs, u)]))
    BY <1>3, <2>1 DEF AppUnsubscribe
  <2>3. \A v \in DOMAIN App.subs \ {u} : v \in DOMAIN Drop(App.subs, u) /\ Drop(App.subs, u)[v] = App.subs[v]
    BY DEF Drop
  <2>4. QED
    BY <1>2, <2>2, <2>3
<1>4. CASE u \notin DOMAIN App.subs
  <2>1. [State EXCEPT !.clients[Self].subs = Put(@, u, Null)] = [State EXCEPT !.clients[Self].subs = Put(App.subs, u, Null)]
    BY <1>1 DEF App
  <2>2. Become([State EXCEPT !.clients[Self].subs = Put(App.subs, u, Null)])
    BY <1>4, <2>1 DEF AppUnsubscribe
  <2>3. \A v \in DOMAIN App.subs \ {u} : v \in DOMAIN Put(App.subs, u, Null) /\ Put(App.subs, u, Null)[v] = App.subs[v]
    BY DEF Put
  <2>4. QED
    BY <1>2, <2>2, <2>3
<1>5. QED
  BY <1>3, <1>4

-----------------------------------------------------------------------------
(* The handles.  The invariant says what a handle knows of its topic, what *)
(* the application is subscribed to for it, and that it was sent whatever  *)
(* value the topic has been given.                                         *)

Wanted(n) == [topics |-> {n}, prefix |-> FALSE, topicsonly |-> FALSE]

SubscriberTypes == sub \in [SubUid -> [stage : Stage, topic : Topic]]

\* The announcement of its name has yet to reach it.
StillWaiting ==
  \A h \in SubUid : sub[h].stage \in {"new", "live"} /\ sub[h].topic.id = Null =>
    h \in waiting[sub[h].topic.name]
AssignedRight ==
  \A h \in SubUid : sub[h].stage # "none" /\ sub[h].topic.id # Null =>
    LET n == sub[h].topic.name
    IN /\ n \in DOMAIN topics \cap DOMAIN App.data
       /\ sub[h].topic = [name |-> n, id |-> App.data[n].id, type |-> topics[n].value[1]]
Subscribed ==
  \A h \in SubUid : sub[h].stage = "live" =>
    h \in DOMAIN App.subs /\ App.subs[h] = Wanted(sub[h].topic.name)
CachedAssigned ==
  \A h \in SubUid :
    /\ TRUE \notin CachedUpdates /\ sub[h].stage = "live"
    /\ sub[h].topic.name \in DOMAIN topics /\ topics[sub[h].topic.name].cached
    => sub[h].topic.id # Null
\* A value was sent for n, or n still has the default.
SentOrDefault(cl, tops, n) ==
  \/ cl.data[n].id \in DOMAIN cl.peer.vals
  \/ tops[n].value = DefaultValue(tops[n].value[1])
ValueSent ==
  \A h \in SubUid : sub[h].stage = "live" /\ sub[h].topic.id # Null =>
    SentOrDefault(App, topics, sub[h].topic.name)

SubsInv ==
  /\ SubscriberTypes /\ StillWaiting /\ AssignedRight /\ Subscribed /\ CachedAssigned /\ ValueSent

PublisherTypes ==
  /\ pub \in [PubUid -> [stage : Stage \ {"gone", "failed"}, topic : Topic, value : Value \cup {Null}]]
  /\ owned \in [Entry -> PubUid \cup {Null}]
PublisherTopics ==
  \A p \in PubUid : pub[p].stage \in {"new", "live"} =>
    /\ pub[p].topic.id = Null => pub[p].topic.type = "bool"
    /\ pub[p].topic.id # Null =>
         /\ pub[p].topic.name \in Regular \cap DOMAIN topics
         /\ pub[p].topic.type = topics[pub[p].topic.name].value[1]
    /\ pub[p].value \in Value

PubsInv == PublisherTypes /\ PublisherTopics

TopicsTyped == \A n \in Regular \cap DOMAIN topics : topics[n].value[1] \in TopicType
AppIds == \A n \in DOMAIN App.data : App.data[n].id \in Nat

HandlesInv == SubsInv /\ PubsInv /\ TopicsTyped
FacadeInv == Inv /\ MetaInv /\ QueueInv /\ HandlesInv

\* What every step keeps: a topic its type, an id of the application its topic.
TopicsKeep ==
  /\ \A n \in Regular \cap DOMAIN topics :
       n \in DOMAIN topics' /\ topics'[n].value[1] = topics[n].value[1]
  /\ TopicsTyped'
IdsKeep ==
  /\ \A n \in DOMAIN App.data : n \in DOMAIN App'.data /\ App'.data[n].id = App.data[n].id
  /\ AppIds'

\* The stages of the subscribers as a step sets them, before the callback.
Stages(subs) ==
  /\ subs \in [SubUid -> [stage : Stage, topic : Topic]]
  /\ \A h \in SubUid : /\ subs[h].topic = sub[h].topic
                       /\ subs[h].stage \in {"new", "live"} => sub[h].stage \in {"new", "live"}
                       /\ sub[h].stage = "gone" => subs[h].stage = "gone"
                       /\ subs[h].stage = "none" <=> sub[h].stage = "none"

\* What a step whose callback announces the names of N must see to.
Informs(N, subs) ==
  /\ N \subseteq Regular \cap DOMAIN topics' \cap DOMAIN App'.data
  /\ \A h \in SubUid : subs[h].stage = "live" =>
       LET n == sub[h].topic.name
       IN /\ h \in DOMAIN App'.subs /\ App'.subs[h] = Wanted(n)
          /\ TRUE \notin CachedUpdates /\ n \in DOMAIN topics' /\ topics'[n].cached =>
               n \in N \/ (sub[h].stage = "live" /\ n \in DOMAIN topics /\ topics[n].cached)
          /\ n \in N \/ sub[h].topic.id # Null => SentOrDefault(App', topics', n)

\* What becomes of a subscriber.
LEMMA Called ==
  ASSUME QueueInv, NEW N \in SUBSET Regular, NEW subs, Stages(subs), CallBack(N, subs)
  PROVE  /\ DOMAIN sub' = SubUid
         /\ \A n \in Regular \ N : waiting'[n] = waiting[n]
         /\ \A h \in SubUid :
              LET n == sub[h].topic.name
              IN /\ sub'[h].stage = subs[h].stage /\ sub'[h].topic.name = n
                 /\ \/ sub'[h] = subs[h] /\ sub'[h].topic = sub[h].topic
                    \/ /\ sub[h].topic.id = Null /\ n \in N /\ sub'[h].topic = Answer(n)
                       /\ sub'[h] = [subs[h] EXCEPT !.topic = Answer(n)]
                 /\ n \in N /\ h \in waiting[n] /\ subs[h].stage # "gone" => sub'[h].topic = Answer(n)
<1>. DEFINE called == UNION {waiting[n] : n \in N}
            gone == {h \in called : subs[h].stage = "gone"}
<1>1. /\ waiting' = [n \in Regular |-> IF n \in N THEN {} ELSE waiting[n]]
      /\ sub' = [h \in SubUid |->
                  IF h \in called \ gone THEN [subs[h] EXCEPT !.topic = Answer(@.name)]
                  ELSE subs[h]]
  BY DEF CallBack
<1>2. \A h \in called : sub[h].topic.id = Null /\ sub[h].topic.name \in N
  BY DEF QueueInv, Queues, WaitingUnassigned
<1>3. \A h \in SubUid : DOMAIN subs[h] = {"stage", "topic"} /\ subs[h].topic = sub[h].topic
  BY DEF Stages
<1>4. \A n \in N : waiting[n] \subseteq called
  OBVIOUS
<1>5. \A h \in called : h \in gone <=> subs[h].stage = "gone"
  OBVIOUS
<1>6. gone \subseteq called
  OBVIOUS
<1>. HIDE DEF called, gone
<1>7. \A h \in SubUid :
        sub'[h] = IF h \in called \ gone THEN [subs[h] EXCEPT !.topic = Answer(sub[h].topic.name)]
                  ELSE subs[h]
  BY <1>1, <1>3
<1>8. \A n : Answer(n).name = n
  BY DEF Answer
<1>9. ASSUME NEW h \in SubUid, NEW n, n = sub[h].topic.name
      PROVE  /\ sub'[h].stage = subs[h].stage /\ sub'[h].topic.name = n
             /\ \/ sub'[h] = subs[h] /\ sub'[h].topic = sub[h].topic
                \/ /\ sub[h].topic.id = Null /\ n \in N /\ sub'[h].topic = Answer(n)
                   /\ sub'[h] = [subs[h] EXCEPT !.topic = Answer(n)]
             /\ n \in N /\ h \in waiting[n] /\ subs[h].stage # "gone" => sub'[h].topic = Answer(n)
  <2>1. CASE h \in called \ gone
    <3>1. sub'[h] = [subs[h] EXCEPT !.topic = Answer(n)]
      BY <1>7, <1>9, <2>1
    <3>2. sub'[h].topic = Answer(n) /\ sub'[h].stage = subs[h].stage
      BY <1>3, <3>1
    <3>3. QED
      BY <1>2, <1>8, <1>9, <2>1, <3>1, <3>2
  <2>2. CASE h \notin called \ gone
    BY <1>3, <1>4, <1>5, <1>7, <1>9, <2>2
  <2>3. QED
    BY <2>1, <2>2
<1>10. DOMAIN sub' = SubUid /\ \A n \in Regular \ N : waiting'[n] = waiting[n]
  BY <1>1
<1>11. QED
  BY <1>9, <1>10

LEMMA SubscribersFollow ==
  ASSUME QueueInv, SubsInv, TopicsKeep, IdsKeep, NEW N \in SUBSET Regular, NEW subs,
         Stages(subs), CallBack(N, subs), Informs(N, subs)
  PROVE  SubsInv'
<1>1. AppIds' /\ N \subseteq DOMAIN topics' \cap DOMAIN App'.data
  BY DEF IdsKeep, Informs
<1>2. /\ DOMAIN sub' = SubUid
      /\ \A n \in Regular \ N : waiting'[n] = waiting[n]
      /\ \A h \in SubUid :
              LET n == sub[h].topic.name
              IN /\ sub'[h].stage = subs[h].stage /\ sub'[h].topic.name = n
                 /\ \/ sub'[h] = subs[h] /\ sub'[h].topic = sub[h].topic
                    \/ /\ sub[h].topic.id = Null /\ n \in N /\ sub'[h].topic = Answer(n)
                       /\ sub'[h] = [subs[h] EXCEPT !.topic = Answer(n)]
                 /\ n \in N /\ h \in waiting[n] /\ subs[h].stage # "gone" => sub'[h].topic = Answer(n)
  BY Called
<1>3. \A n \in N : /\ Answer(n).id \in Nat /\ Answer(n).id = App'.data[n].id
                   /\ Answer(n).type = topics'[n].value[1] /\ Answer(n) \in Topic
                   /\ Answer(n) = [name |-> n, id |-> App'.data[n].id, type |-> topics'[n].value[1]]
  BY <1>1 DEF Answer, AppIds, App, Topic, TopicsKeep, TopicsTyped
<1>4. Null \notin Nat
  BY NTFacadeAssumption DEF NTFacadeAssumption
<1>5. \A h \in SubUid : sub'[h].stage # "none" => sub[h].topic.name \in Regular /\ sub[h].stage # "none"
  BY <1>2 DEF Stages, QueueInv, Subscribers
<1>6. SubscriberTypes'
  <2>3. \A h \in SubUid : sub'[h] \in [stage : Stage, topic : Topic]
    BY <1>2, <1>3 DEF Stages
  <2>4. sub' = [h \in SubUid |-> sub'[h]]
    BY <1>2 DEF CallBack
  <2>5. QED
    BY <2>3, <2>4 DEF SubscriberTypes
<1>7. StillWaiting'
  <2>. SUFFICES ASSUME NEW h \in SubUid, sub'[h].stage \in {"new", "live"}, sub'[h].topic.id = Null
                PROVE  h \in waiting'[sub'[h].topic.name]
    BY DEF StillWaiting
  <2>1. subs[h].stage \in {"new", "live"} /\ sub[h].stage \in {"new", "live"}
        /\ sub'[h].topic.name = sub[h].topic.name /\ sub[h].topic.name \in Regular
    BY <1>2, <1>5 DEF Stages
  <2>2. sub[h].topic.id = Null
    BY <1>2, <1>3, <1>4
  <2>3. h \in waiting[sub[h].topic.name]
    BY <2>1, <2>2 DEF SubsInv, StillWaiting
  <2>4. sub[h].topic.name \notin N
    BY <1>2, <1>3, <1>4, <2>1, <2>3
  <2>5. QED
    BY <1>2, <2>1, <2>3, <2>4
<1>8. AssignedRight'
  <2>. SUFFICES ASSUME NEW h \in SubUid, sub'[h].stage # "none", sub'[h].topic.id # Null
                PROVE  LET n == sub'[h].topic.name
                       IN /\ n \in DOMAIN topics' \cap DOMAIN App'.data
                          /\ sub'[h].topic = [name |-> n, id |-> App'.data[n].id, type |-> topics'[n].value[1]]
    BY DEF AssignedRight
  <2>. DEFINE n == sub[h].topic.name
  <2>1. sub'[h].topic.name = n /\ n \in Regular /\ sub[h].stage # "none"
    BY <1>2, <1>5
  <2>2. CASE sub'[h].topic = Answer(n) /\ n \in N
    BY <1>1, <1>3, <2>1, <2>2
  <2>3. CASE sub'[h].topic = sub[h].topic
    <3>1. /\ n \in DOMAIN topics \cap DOMAIN App.data
          /\ sub[h].topic = [name |-> n, id |-> App.data[n].id, type |-> topics[n].value[1]]
      BY <2>1, <2>3 DEF SubsInv, AssignedRight
    <3>2. /\ n \in DOMAIN topics' /\ topics'[n].value[1] = topics[n].value[1]
          /\ n \in DOMAIN App'.data /\ App'.data[n].id = App.data[n].id
      BY <2>1, <3>1 DEF TopicsKeep, IdsKeep
    <3>3. QED
      BY <2>1, <2>3, <3>1, <3>2
  <2>4. QED
    BY <1>2, <2>2, <2>3
<1>9. Subscribed'
  BY <1>2 DEF Informs, Subscribed
<1>10. CachedAssigned'
  <2>. SUFFICES ASSUME NEW h \in SubUid, TRUE \notin CachedUpdates, sub'[h].stage = "live",
                       sub'[h].topic.name \in DOMAIN topics', topics'[sub'[h].topic.name].cached
                PROVE  sub'[h].topic.id # Null
    BY DEF CachedAssigned
  <2>. DEFINE n == sub[h].topic.name
  <2>1. subs[h].stage = "live" /\ sub[h].stage \in {"new", "live"} /\ sub'[h].topic.name = n
    BY <1>2 DEF Stages
  <2>2. n \in N \/ (sub[h].stage = "live" /\ n \in DOMAIN topics /\ topics[n].cached)
    BY <2>1 DEF Informs
  <2>3. CASE sub[h].topic.id # Null
    BY <1>2, <2>3
  <2>4. CASE sub[h].topic.id = Null
    <3>1. n \in N
      BY <2>2, <2>4 DEF SubsInv, CachedAssigned
    <3>2. h \in waiting[n]
      BY <2>1, <2>4 DEF SubsInv, StillWaiting
    <3>3. sub'[h].topic = Answer(n)
      BY <1>2, <2>1, <3>1, <3>2
    <3>4. QED
      BY <1>3, <1>4, <3>1, <3>3
  <2>5. QED
    BY <2>3, <2>4
<1>11. ValueSent'
  <2>. SUFFICES ASSUME NEW h \in SubUid, sub'[h].stage = "live", sub'[h].topic.id # Null
                PROVE  SentOrDefault(App', topics', sub'[h].topic.name)
    BY DEF ValueSent
  <2>. DEFINE n == sub[h].topic.name
  <2>1. subs[h].stage = "live" /\ sub'[h].topic.name = n
    BY <1>2
  <2>2. n \in N \/ sub[h].topic.id # Null
    BY <1>2
  <2>3. SentOrDefault(App', topics', n)
    BY <2>1, <2>2 DEF Informs
  <2>4. QED
    BY <2>1, <2>3
<1>12. QED
  BY <1>6, <1>7, <1>8, <1>9, <1>10, <1>11 DEF SubsInv

\* What a step keeps, from what the lemmas about the server say of it.
LEMMA IdsAreKept ==
  ASSUME Running, Inv', Evolves
  PROVE  IdsKeep
<1>1. Self \in DOMAIN clients /\ Self \in DOMAIN clients'
  BY RunningFacts DEF Inv, Safe, State
<1>2. \A n \in DOMAIN App.data : n \in DOMAIN App'.data /\ App'.data[n].id = App.data[n].id
  BY <1>1 DEF Evolves, Grows, App
<1>3. Shape(clients'[Self])
  BY <1>1 DEF Inv, Safe, State
<1>4. \A n \in DOMAIN App'.data : App'.data[n].id \in Nat
  BY <1>3 DEF Shape, App
<1>5. QED
  BY <1>2, <1>4 DEF IdsKeep, AppIds

\* What Onward and Forgets have in common.
Steady ==
  /\ DOMAIN App.peer.vals \subseteq DOMAIN App'.peer.vals
  /\ Regular \cap DOMAIN topics' = Regular \cap DOMAIN topics
  /\ \A n \in Regular \cap DOMAIN topics :
       /\ topics'[n].value[1] = topics[n].value[1]
       /\ TRUE \notin CachedUpdates /\ topics'[n].cached => topics[n].cached
       /\ \/ topics'[n].value = topics[n].value
          \/ WantsValue(App', n) /\ n \in DOMAIN App'.data =>
               App'.data[n].id \in DOMAIN App'.peer.vals

LEMMA SteadySteps ==
  ASSUME TopicsTyped
  PROVE  /\ Onward => Steady
         /\ \A u : Forgets(u) => Steady
         /\ Steady => TopicsKeep
<1>1. Onward => Steady
  BY DEF Onward, Steady
<1>2. \A u : Forgets(u) => Steady
  BY DEF Forgets, Steady
<1>3. Steady => TopicsKeep
  BY DEF Steady, TopicsKeep, TopicsTyped
<1>4. QED
  BY <1>1, <1>2, <1>3

LEMMA PublishedTypes ==
  ASSUME TopicsTyped, NEW n \in Regular, NEW types \in SUBSET TopicType, Adds(n, types)
  PROVE  TopicsKeep /\ n \in DOMAIN topics'
<1>1. n \in DOMAIN topics'
  BY DEF Adds
<1>2. n \notin DOMAIN topics => topics'[n].value[1] \in TopicType
  BY DEF Adds, DefaultValue
<1>3. QED
  BY <1>1, <1>2 DEF Adds, TopicsKeep, TopicsTyped

LEMMA WantedFacts ==
  ASSUME NEW cl, NEW h \in DOMAIN cl.subs, NEW n, cl.subs[h] = Wanted(n)
  PROVE  WantsValue(cl, n) /\ IsSubscribed(cl, n)
<1>1. Matches(cl.subs[h], n) /\ ~cl.subs[h].topicsonly
  BY DEF Matches, Wanted
<1>2. QED
  BY <1>1 DEF WantsValue, IsSubscribed

\* A step without announcements, that may take a subscriber out of the live ones.
LEMMA SilentFollows ==
  ASSUME QueueInv, SubsInv, TopicsKeep, IdsKeep, Steady, Stages(sub'), UNCHANGED <<waiting, dangled>>,
         \A h \in SubUid : sub'[h].stage = "live" =>
           /\ sub[h].stage = "live"
           /\ h \in DOMAIN App.subs => h \in DOMAIN App'.subs /\ App'.subs[h] = App.subs[h]
  PROVE  SubsInv'
<1>. PICK subs : subs = sub'
  OBVIOUS
<1>1. Stages(subs)
  OBVIOUS
<1>2. CallBack({}, subs)
  <2>1. sub' = [h \in SubUid |-> sub'[h]]
    BY DEF Stages
  <2>2. waiting = [n \in Regular |-> waiting[n]]
    BY DEF QueueInv, Queues
  <2>3. UNION {waiting[n] : n \in {}} = {}
    OBVIOUS
  <2>4. QED
    BY <2>1, <2>2, <2>3 DEF CallBack
<1>3. Informs({}, subs)
  <2>. SUFFICES ASSUME NEW h \in SubUid, sub'[h].stage = "live", NEW n, n = sub[h].topic.name
                PROVE  /\ h \in DOMAIN App'.subs /\ App'.subs[h] = Wanted(n)
                       /\ TRUE \notin CachedUpdates /\ n \in DOMAIN topics' /\ topics'[n].cached =>
                            n \in {} \/ (sub[h].stage = "live" /\ n \in DOMAIN topics /\ topics[n].cached)
                       /\ n \in {} \/ sub[h].topic.id # Null => SentOrDefault(App', topics', n)
    BY DEF Informs
  <2>1. sub[h].stage = "live" /\ n \in Regular
    BY DEF QueueInv, Subscribers
  <2>2. h \in DOMAIN App'.subs /\ App'.subs[h] = Wanted(n)
    BY <2>1 DEF SubsInv, Subscribed
  <2>3. TRUE \notin CachedUpdates /\ n \in DOMAIN topics' /\ topics'[n].cached =>
          n \in DOMAIN topics /\ topics[n].cached
    BY <2>1 DEF Steady
  <2>4. ASSUME sub[h].topic.id # Null PROVE SentOrDefault(App', topics', n)
    <3>1. n \in DOMAIN topics /\ n \in DOMAIN App.data
      BY <2>1, <2>4 DEF SubsInv, AssignedRight
    <3>2. SentOrDefault(App, topics, n)
      BY <2>1, <2>4 DEF SubsInv, ValueSent
    <3>3. n \in DOMAIN App'.data /\ App'.data[n].id = App.data[n].id
      BY <3>1 DEF IdsKeep
    <3>4. WantsValue(App', n)
      BY <2>2, WantedFacts
    <3>5. CASE topics'[n].value = topics[n].value
      BY <3>2, <3>3, <3>5 DEF Steady, SentOrDefault
    <3>6. CASE topics'[n].value # topics[n].value
      BY <2>1, <3>1, <3>3, <3>4, <3>6 DEF Steady, SentOrDefault
    <3>7. QED
      BY <3>5, <3>6
  <2>5. QED
    BY <2>1, <2>2, <2>3, <2>4
<1>4. QED
  BY <1>1, <1>2, <1>3, SubscribersFollow

\* A publication, by anyone.
LEMMA PublicationFollows ==
  ASSUME QueueInv, SubsInv, TopicsKeep, IdsKeep, NEW n \in Regular, NEW types, Adds(n, types),
         CallBack(NewlyPublished(n), sub)
  PROVE  SubsInv'
<1>. DEFINE N == NewlyPublished(n)
<1>1. N \in SUBSET Regular /\ Stages(sub)
  BY DEF NewlyPublished, Stages, SubsInv, SubscriberTypes
<1>2. \A m \in N : m = n /\ n \notin DOMAIN topics
  BY DEF NewlyPublished
<1>3. N \subseteq Regular \cap DOMAIN topics' \cap DOMAIN App'.data
  BY DEF NewlyPublished, Adds
<1>4. IsSubscribed(App, n) /\ n \notin DOMAIN topics => n \in N
  BY DEF NewlyPublished
<1>. HIDE DEF N
<1>5. ASSUME NEW h \in SubUid, sub[h].stage = "live", NEW m, m = sub[h].topic.name
      PROVE  /\ h \in DOMAIN App'.subs /\ App'.subs[h] = Wanted(m)
             /\ TRUE \notin CachedUpdates /\ m \in DOMAIN topics' /\ topics'[m].cached =>
                  m \in N \/ (sub[h].stage = "live" /\ m \in DOMAIN topics /\ topics[m].cached)
             /\ m \in N \/ sub[h].topic.id # Null => SentOrDefault(App', topics', m)
  <2>1. m \in Regular
    BY <1>5 DEF QueueInv, Subscribers
  <2>2. h \in DOMAIN App.subs /\ App.subs[h] = Wanted(m) /\ App'.subs = App.subs
    BY <1>5 DEF SubsInv, Subscribed, Adds
  <2>3. ASSUME m \in DOMAIN topics', topics'[m].cached
        PROVE  m \in N \/ (m \in DOMAIN topics /\ topics[m].cached)
    <3>1. CASE m \in DOMAIN topics
      BY <2>1, <2>3, <3>1 DEF Adds
    <3>2. CASE m \notin DOMAIN topics
      BY <1>4, <2>1, <2>2, <2>3, <3>2, WantedFacts DEF Adds
    <3>3. QED
      BY <3>1, <3>2
  <2>4. ASSUME m \in N PROVE SentOrDefault(App', topics', m)
    BY <1>2, <2>4 DEF Adds, SentOrDefault, DefaultValue
  <2>5. ASSUME sub[h].topic.id # Null PROVE SentOrDefault(App', topics', m)
    <3>1. m \in DOMAIN topics /\ m \in DOMAIN App.data
      BY <1>5, <2>5 DEF SubsInv, AssignedRight
    <3>2. SentOrDefault(App, topics, m)
      BY <1>5, <2>5 DEF SubsInv, ValueSent
    <3>3. App'.data[m].id = App.data[m].id /\ topics'[m] = topics[m]
      BY <2>1, <3>1 DEF IdsKeep, Adds
    <3>4. QED
      BY <3>2, <3>3 DEF SentOrDefault, Adds
  <2>6. QED
    BY <1>5, <2>2, <2>3, <2>4, <2>5
<1>6. Informs(N, sub)
  BY <1>3, <1>5 DEF Informs
<1>7. QED
  BY <1>1, <1>6, SubscribersFollow DEF N

\* subscribe, in the constructor of a subscriber.
LEMMA SubscribesFollow ==
  ASSUME QueueInv, SubsInv, TopicsKeep, IdsKeep, NEW h \in SubUid, Subscribes(h),
         Listens(h, Wanted(sub[h].topic.name))
  PROVE  SubsInv'
<1>. DEFINE N == {n \in Regular \cap DOMAIN topics' :
                    topics'[n].cached /\ IsSubscribed(clients'[Self], n)}
            subs == [sub EXCEPT ![h].stage = "live"]
<1>1. CallBack(N, subs) /\ sub[h].stage = "new"
  BY DEF Subscribes
<1>2. N \in SUBSET Regular
  OBVIOUS
<1>3. Stages(subs)
  BY <1>1 DEF Stages, SubsInv, SubscriberTypes, Stage
<1>4. /\ subs[h].stage = "live" /\ \A k \in SubUid \ {h} : subs[k] = sub[k]
  BY DEF SubsInv, SubscriberTypes
<1>5. /\ N \subseteq Regular \cap DOMAIN topics' \cap DOMAIN App'.data
      /\ \A n \in Regular \cap DOMAIN topics' : topics'[n].cached /\ IsSubscribed(App', n) => n \in N
  BY DEF Listens, App
<1>. HIDE DEF N, subs
<1>6. ASSUME NEW k \in SubUid, subs[k].stage = "live", NEW m, m = sub[k].topic.name
      PROVE  /\ k \in DOMAIN App'.subs /\ App'.subs[k] = Wanted(m)
             /\ TRUE \notin CachedUpdates /\ m \in DOMAIN topics' /\ topics'[m].cached =>
                  m \in N \/ (sub[k].stage = "live" /\ m \in DOMAIN topics /\ topics[m].cached)
             /\ m \in N \/ sub[k].topic.id # Null => SentOrDefault(App', topics', m)
  <2>1. sub[k].stage \in {"new", "live"} /\ m \in Regular
    BY <1>3, <1>6 DEF Stages, QueueInv, Subscribers
  <2>2. k \in DOMAIN App'.subs /\ App'.subs[k] = Wanted(m)
    <3>1. CASE k = h
      BY <1>6, <3>1 DEF Listens, Put
    <3>2. CASE k # h
      BY <1>4, <1>6, <3>2 DEF Listens, Put, SubsInv, Subscribed
    <3>3. QED
      BY <3>1, <3>2
  <2>3. WantsValue(App', m) /\ IsSubscribed(App', m)
    BY <2>2, WantedFacts
  <2>4. m \in DOMAIN App'.data => SentOrDefault(App', topics', m)
    BY <2>3 DEF Listens, SentOrDefault
  <2>5. sub[k].topic.id # Null => m \in DOMAIN App'.data
    BY <1>6, <2>1 DEF SubsInv, AssignedRight, IdsKeep
  <2>6. QED
    BY <1>5, <2>1, <2>2, <2>3, <2>4, <2>5
<1>7. Informs(N, subs)
  BY <1>5, <1>6 DEF Informs
<1>8. QED
  BY <1>1, <1>2, <1>3, <1>7, SubscribersFollow

LEMMA NewSubscriberFollows ==
  ASSUME QueueInv, SubsInv, NEW h \in SubUid, NEW n \in Regular, NewSubscriber(h, n)
  PROVE  SubsInv'
<1>1. /\ sub[h].stage = "none" /\ sub' = [sub EXCEPT ![h] = [stage |-> "new", topic |-> NoTopic(n)]]
      /\ waiting' = [waiting EXCEPT ![n] = @ \cup {h}] /\ topics' = topics /\ clients' = clients
  BY DEF NewSubscriber, serverVars
<1>2. NoTopic(n) \in Topic /\ NoTopic(n).name = n /\ NoTopic(n).id = Null
  BY DEF NoTopic, Topic, TopicType
<1>3. /\ sub'[h].stage = "new" /\ sub'[h].topic = NoTopic(n)
      /\ \A k \in SubUid \ {h} : sub'[k] = sub[k]
  BY <1>1 DEF SubsInv, SubscriberTypes
<1>4. App' = App
  BY <1>1 DEF App
<1>5. SubscriberTypes'
  BY <1>1, <1>2 DEF SubsInv, SubscriberTypes, Stage
<1>6. StillWaiting'
  <2>. SUFFICES ASSUME NEW k \in SubUid, sub'[k].stage \in {"new", "live"}, sub'[k].topic.id = Null
                PROVE  k \in waiting'[sub'[k].topic.name]
    BY DEF StillWaiting
  <2>1. CASE k = h
    BY <1>1, <1>2, <1>3, <2>1 DEF QueueInv, Queues
  <2>2. CASE k # h
    <3>1. k \in waiting[sub[k].topic.name] /\ sub[k].topic.name \in Regular /\ sub'[k] = sub[k]
      BY <1>3, <2>2 DEF SubsInv, StillWaiting, QueueInv, Subscribers
    <3>2. QED
      BY <1>1, <3>1 DEF QueueInv, Queues
  <2>3. QED
    BY <2>1, <2>2
<1>7. AssignedRight'
  BY <1>1, <1>2, <1>3, <1>4 DEF SubsInv, AssignedRight
<1>8. Subscribed'
  BY <1>3, <1>4 DEF SubsInv, Subscribed
<1>9. CachedAssigned'
  BY <1>1, <1>3 DEF SubsInv, CachedAssigned
<1>10. ValueSent'
  BY <1>1, <1>3, <1>4 DEF SubsInv, ValueSent
<1>11. QED
  BY <1>5, <1>6, <1>7, <1>8, <1>9, <1>10 DEF SubsInv

\* Publishers: one is constructed,
LEMMA PublisherStarts ==
  ASSUME PubsInv, TopicsKeep, IdsKeep, NEW p \in PubUid, NEW n \in Regular, NEW v \in Value,
         n \in DOMAIN topics', n \in DOMAIN App'.data,
         pub' = [pub EXCEPT ![p] = [stage |-> "new", topic |-> Answer(n), value |-> v]],
         owned' \in [Entry -> PubUid \cup {Null}]
  PROVE  PubsInv'
<1>1. /\ Answer(n) \in Topic /\ Answer(n).name = n /\ Answer(n).type = topics'[n].value[1]
      /\ Answer(n).id # Null
  BY NTFacadeAssumption
     DEF Answer, Topic, TopicsKeep, TopicsTyped, IdsKeep, AppIds, App, NTFacadeAssumption
<1>2. /\ pub'[p].stage = "new" /\ pub'[p].topic = Answer(n) /\ pub'[p].value = v
      /\ \A q \in PubUid \ {p} : pub'[q] = pub[q]
  BY DEF PubsInv, PublisherTypes
<1>3. PublisherTypes'
  BY <1>1 DEF PubsInv, PublisherTypes, Stage
<1>4. PublisherTopics'
  <2>. SUFFICES ASSUME NEW q \in PubUid, pub'[q].stage \in {"new", "live"}
                PROVE  /\ pub'[q].topic.id = Null => pub'[q].topic.type = "bool"
                       /\ pub'[q].topic.id # Null =>
                            /\ pub'[q].topic.name \in Regular \cap DOMAIN topics'
                            /\ pub'[q].topic.type = topics'[pub'[q].topic.name].value[1]
                       /\ pub'[q].value \in Value
    BY DEF PublisherTopics
  <2>1. CASE q = p
    BY <1>1, <1>2, <2>1
  <2>2. CASE q # p
    BY <1>2, <2>2 DEF PubsInv, PublisherTopics, TopicsKeep
  <2>3. QED
    BY <2>1, <2>2
<1>5. QED
  BY <1>3, <1>4 DEF PubsInv

\* has published in vain,
LEMMA PublisherGivesUp ==
  ASSUME PubsInv, TopicsKeep, NEW p \in PubUid, NEW v \in Value,
         pub' = [pub EXCEPT ![p] = [stage |-> "new", topic |-> NoTopic(<<>>), value |-> v]],
         owned' \in [Entry -> PubUid \cup {Null}]
  PROVE  PubsInv'
<1>1. NoTopic(<<>>) \in Topic /\ NoTopic(<<>>).id = Null /\ NoTopic(<<>>).type = "bool"
  BY DEF NoTopic, Topic, TopicType
<1>2. /\ pub'[p].topic = NoTopic(<<>>) /\ pub'[p].value = v
      /\ \A q \in PubUid \ {p} : pub'[q] = pub[q]
  BY DEF PubsInv, PublisherTypes
<1>3. PublisherTypes'
  BY <1>1 DEF PubsInv, PublisherTypes, Stage
<1>4. PublisherTopics'
  BY <1>1, <1>2 DEF PubsInv, PublisherTopics, TopicsKeep
<1>5. QED
  BY <1>3, <1>4 DEF PubsInv

\* or reaches its next stage, or nothing becomes of any.
LEMMA PublishersFollow ==
  ASSUME PubsInv, TopicsKeep, owned' \in [Entry -> PubUid \cup {Null}],
         \/ pub' = pub
         \/ \E p \in PubUid :
              \/ pub' = [pub EXCEPT ![p].stage = "closed"]
              \/ pub[p].stage = "new" /\ pub' = [pub EXCEPT ![p].stage = "live"]
  PROVE  PubsInv'
<1>1. PublisherTypes'
  BY DEF PubsInv, PublisherTypes, Stage
<1>2. \A p \in PubUid : /\ pub'[p].topic = pub[p].topic /\ pub'[p].value = pub[p].value
                        /\ pub'[p].stage \in {"new", "live"} => pub[p].stage \in {"new", "live"}
  BY DEF PubsInv, PublisherTypes
<1>3. PublisherTopics'
  BY <1>2 DEF PubsInv, PublisherTopics, TopicsKeep
<1>4. QED
  BY <1>1, <1>3 DEF PubsInv

-----------------------------------------------------------------------------
(* Steps.                                                                  *)

ServerKeeps == Inv' /\ MetaInv' /\ IdsKeep

LEMMA FacadeRunning ==
  ASSUME FacadeInv, NoNullEntry
  PROVE  /\ Running /\ MetaInv /\ QueueInv /\ SubsInv /\ PubsInv /\ TopicsTyped
         /\ \A c \in DOMAIN clients : \A v \in DOMAIN clients[c].pubs : clients[c].pubs[v] \in Regular
<1>1. Running /\ MetaInv
  BY RunningFacts DEF FacadeInv
<1>2. \A c \in DOMAIN clients : Declares(clients[c])
  BY <1>1, Begin DEF Whole
<1>3. QED
  BY <1>1, <1>2 DEF FacadeInv, HandlesInv, Declares, PubsDeclared

\* The steps of the server that announce nothing to the application.
LEMMA ServerUnchanged ==
  ASSUME FacadeInv, NoNullEntry, UNCHANGED serverVars
  PROVE  ServerKeeps /\ Onward
<1>1. UNCHANGED vars /\ Running
  BY FacadeRunning DEF serverVars, vars
<1>2. Inv' /\ Evolves /\ MetaInv'
  BY <1>1, StepInv, MetaStep, NTFacadeAssumption
     DEF FacadeInv, NTFacadeAssumption
<1>3. QED
  BY <1>1, <1>2, IdsAreKept, UnchangedOnward DEF ServerKeeps, serverVars

LEMMA AppSteps ==
  ASSUME FacadeInv, NoNullEntry
  PROVE  /\ \A u \in PubUid :
              AppUnpublish(u) \/ (\E v \in Value : AppUpdateTopic(u, v)) => ServerKeeps /\ Onward
         /\ \A n \in Regular \cap DOMAIN topics, k \in CachedUpdates :
              AppSetProperties(n, k) => ServerKeeps /\ Onward
<1>1. Running /\ MetaInv
  BY FacadeRunning
<1>2. ASSUME NEW u \in PubUid, AppUnpublish(u) \/ (\E v \in Value : AppUpdateTopic(u, v))
      PROVE  ServerKeeps /\ Onward
  <2>1. Inv' /\ Evolves
    BY <1>1, <1>2, AppPublishersInv
  <2>2. MetaInv'
    BY <1>1, <1>2, AppPublishersMeta, NTFacadeAssumption DEF NTFacadeAssumption
  <2>3. QED
    BY <1>1, <1>2, <2>1, <2>2, IdsAreKept, AppOnward DEF ServerKeeps
<1>3. ASSUME NEW n \in Regular \cap DOMAIN topics, NEW k \in CachedUpdates, AppSetProperties(n, k)
      PROVE  ServerKeeps /\ Onward
  <2>1. ChangeProperties(n, k) /\ inFrame' = inFrame
    BY <1>3 DEF AppSetProperties, AppCalls
  <2>2. Inv' /\ Evolves
    BY <1>1, <2>1, ChangePropertiesInv
  <2>3. MetaInv'
    BY <1>1, <2>1, ChangePropertiesMeta
  <2>4. QED
    BY <1>1, <1>3, <2>2, <2>3, IdsAreKept, AppOnward DEF ServerKeeps
<1>4. QED
  BY <1>2, <1>3

LEMMA RemoteSteps ==
  ASSUME FacadeInv, NEW c \in Client, RemoteStep(c)
  PROVE  ServerKeeps /\ Onward
<1>0. NoNullEntry
  BY DEF RemoteStep, Defined
<1>1. /\ Running /\ MetaInv
      /\ \A d \in DOMAIN clients : \A v \in DOMAIN clients[d].pubs : clients[d].pubs[v] \in Regular
  BY <1>0, FacadeRunning
<1>2. CASE ClientConnected(c)
  BY <1>0, <1>1, <1>2, ConnectedInv, ConnectedMeta, ConnectedOnward, IdsAreKept DEF ServerKeeps
<1>3. CASE ClientDisconnected(c)
  BY <1>0, <1>1, <1>3, DisconnectedInv, DisconnectedMeta, DisconnectedOnward, IdsAreKept DEF ServerKeeps
<1>4. ASSUME NEW u \in PubUid, UnPublish(c, u) PROVE ServerKeeps /\ Onward
  <2>1. c \in DOMAIN clients
    BY <1>4 DEF UnPublish, InTextFrame, Remote, State
  <2>2. Onward
    BY <1>1, <1>4, <2>1, UnPublishOnward
  <2>3. QED
    BY <1>0, <1>1, <1>4, <2>2, UnPublishInv, UnPublishMeta, IdsAreKept DEF ServerKeeps
<1>5. ASSUME NEW u \in PubUid, NEW v \in Value, BinaryFrame(c, u, v) PROVE ServerKeeps /\ Onward
  BY <1>0, <1>1, <1>5, FrameInv, FrameMeta, FrameOnward, IdsAreKept DEF ServerKeeps
<1>6. CASE EndFrame(c) \/ AbandonFrame(c)
  BY <1>0, <1>1, <1>6, FrameInv, FrameMeta, FrameOnward, IdsAreKept DEF ServerKeeps
<1>7. QED
  BY <1>2, <1>3, <1>4, <1>5, <1>6 DEF RemoteStep

\* What becomes of the handles in a step whose callback is not run.
PubsMove ==
  /\ owned' \in [Entry -> PubUid \cup {Null}]
  /\ \/ pub' = pub
     \/ \E p \in PubUid :
          \/ pub' = [pub EXCEPT ![p].stage = "closed"]
          \/ pub[p].stage = "new" /\ pub' = [pub EXCEPT ![p].stage = "live"]
          \/ \E v \in Value :
               pub' = [pub EXCEPT ![p] = [stage |-> "new", topic |-> NoTopic(<<>>), value |-> v]]

LEMMA PublishersStep ==
  ASSUME FacadeInv, NoNullEntry, ServerKeeps, Onward, UNCHANGED <<sub, waiting, dangled>>, PubsMove
  PROVE  HandlesInv'
<1>1. QueueInv /\ SubsInv /\ PubsInv /\ TopicsTyped
  BY FacadeRunning
<1>2. Steady /\ TopicsKeep /\ IdsKeep
  BY <1>1, SteadySteps DEF ServerKeeps
<1>3. /\ Stages(sub')
      /\ \A h \in SubUid : sub'[h].stage = "live" =>
           /\ sub[h].stage = "live"
           /\ h \in DOMAIN App.subs => h \in DOMAIN App'.subs /\ App'.subs[h] = App.subs[h]
  BY <1>1 DEF Stages, SubsInv, SubscriberTypes, Onward
<1>4. SubsInv'
  BY <1>1, <1>2, <1>3, SilentFollows
<1>5. PubsInv'
  BY <1>1, <1>2, PublishersFollow, PublisherGivesUp DEF PubsMove
<1>6. QED
  BY <1>2, <1>4, <1>5 DEF HandlesInv, TopicsKeep

LEMMA Owns == FacadeInv /\ UNCHANGED owned => owned' \in [Entry -> PubUid \cup {Null}]
BY DEF FacadeInv, HandlesInv, PubsInv, PublisherTypes

\* Steps of publishers and entries that are not publications.
LEMMA PublisherSteps ==
  ASSUME FacadeInv, NEW p \in PubUid
  PROVE  /\ SetsDefault(p) \/ ClosePublisher(p) => ServerKeeps /\ HandlesInv'
         /\ \A v \in Value : Set(p, v) => ServerKeeps /\ HandlesInv'
         /\ \A v \in Value :
              NoNullEntry /\ PublishGivesUp(p, v) /\ owned' \in [Entry -> PubUid \cup {Null}] =>
                ServerKeeps /\ HandlesInv'
<1>1. ASSUME NoNullEntry, UNCHANGED <<sub, waiting, dangled>>, PubsMove,
             UNCHANGED serverVars \/ AppUnpublish(p) \/ (\E v \in Value : AppUpdateTopic(p, v))
      PROVE  ServerKeeps /\ HandlesInv'
  <2>1. ServerKeeps /\ Onward
    BY <1>1, ServerUnchanged, AppSteps
  <2>2. QED
    BY <1>1, <2>1, PublishersStep
<1>2. ASSUME NEW v \in Value, NoNullEntry, PublishGivesUp(p, v), owned' \in [Entry -> PubUid \cup {Null}]
      PROVE  ServerKeeps /\ HandlesInv'
  BY <1>1, <1>2 DEF PublishGivesUp, GaveUp, PubsMove
<1>3. CASE SetsDefault(p)
  <2>1. NoNullEntry /\ pub[p].stage = "new"
    BY <1>3 DEF SetsDefault, Defined
  <2>2. pub[p].value \in Value
    BY <2>1, FacadeRunning DEF PubsInv, PublisherTopics
  <2>3. QED
    BY <1>1, <1>3, <2>1, <2>2, Owns DEF SetsDefault, GaveUp, PubsMove
<1>4. CASE ClosePublisher(p)
  BY <1>1, <1>4, Owns DEF ClosePublisher, Defined, GaveUp, PubsMove
<1>5. ASSUME NEW v \in Value, Set(p, v) PROVE ServerKeeps /\ HandlesInv'
  BY <1>1, <1>5, Owns DEF Set, Defined, handleVars, PubsMove
<1>6. QED
  BY <1>2, <1>3, <1>4, <1>5

LEMMA EntrySteps ==
  ASSUME FacadeInv, NEW e \in Entry
  PROVE  EntryUnpublishes(e) \/ (\E v \in Value : EntrySets(e, v)) => ServerKeeps /\ HandlesInv'
<1>1. owned \in [Entry -> PubUid \cup {Null}]
  BY DEF FacadeInv, HandlesInv, PubsInv, PublisherTypes
<1>2. CASE \E v \in Value : EntrySets(e, v)
  BY <1>1, <1>2, PublisherSteps DEF EntrySets
<1>3. CASE EntryUnpublishes(e)
  <2>1. NoNullEntry /\ owned[e] \in PubUid
    BY <1>1, <1>3 DEF EntryUnpublishes, Defined
  <2>2. ServerKeeps /\ Onward
    BY <1>3, <2>1, ServerUnchanged, AppSteps DEF EntryUnpublishes, GaveUp
  <2>3. owned' \in [Entry -> PubUid \cup {Null}]
    BY <1>1, <1>3 DEF EntryUnpublishes
  <2>4. PubsMove /\ UNCHANGED <<sub, waiting, dangled>>
    BY <1>3, <2>1, <2>3 DEF EntryUnpublishes, PubsMove
  <2>5. QED
    BY <2>1, <2>2, <2>4, PublishersStep
<1>4. QED
  BY <1>2, <1>3

LEMMA RemoteHandles ==
  ASSUME FacadeInv, NEW c \in Client, RemoteStep(c)
  PROVE  ServerKeeps /\ HandlesInv'
<1>1. ServerKeeps /\ Onward /\ NoNullEntry
  BY RemoteSteps DEF RemoteStep, Defined
<1>2. QED
  BY <1>1, Owns, PublishersStep DEF RemoteStep, handleVars, PubsMove

LEMMA SetTopicPropertiesHandles ==
  ASSUME FacadeInv, NEW h \in SubUid, NEW k \in CachedUpdates, SetTopicProperties(h, k)
  PROVE  ServerKeeps /\ HandlesInv'
<1>1. NoNullEntry /\ QueueInv /\ SubsInv
  BY FacadeRunning DEF SetTopicProperties, Defined
<1>2. sub[h].topic.name \in Regular \cap DOMAIN topics
  BY <1>1 DEF SetTopicProperties, QueueInv, Subscribers, SubsInv, AssignedRight
<1>3. ServerKeeps /\ Onward
  BY <1>1, <1>2, AppSteps DEF SetTopicProperties
<1>4. QED
  BY <1>1, <1>3, Owns, PublishersStep DEF SetTopicProperties, handleVars, PubsMove

\* Publications.
LEMMA PublicationHandles ==
  ASSUME FacadeInv, NoNullEntry, Inv', MetaInv', Evolves, NEW n \in Regular,
         NEW types \in SUBSET TopicType, Adds(n, types), CallBack(NewlyPublished(n), sub),
         owned' \in [Entry -> PubUid \cup {Null}],
         \/ pub' = pub
         \/ /\ n \in DOMAIN App'.data
            /\ \E p \in PubUid, v \in Value :
                 pub' = [pub EXCEPT ![p] = [stage |-> "new", topic |-> Answer(n), value |-> v]]
  PROVE  ServerKeeps /\ HandlesInv'
<1>1. Running /\ QueueInv /\ SubsInv /\ PubsInv /\ TopicsTyped
  BY FacadeRunning
<1>2. IdsKeep /\ TopicsKeep /\ n \in DOMAIN topics'
  BY <1>1, IdsAreKept, PublishedTypes
<1>3. SubsInv'
  BY <1>1, <1>2, PublicationFollows
<1>4. PubsInv'
  BY <1>1, <1>2, PublisherStarts, PublishersFollow
<1>5. QED
  BY <1>2, <1>3, <1>4 DEF ServerKeeps, HandlesInv, TopicsKeep

LEMMA SendTypes == \A t \in Type : WireType(t) \in TopicType /\ t \in TopicType
<1>1. ASSUME NEW t \in Type PROVE WireType(t) \in {t, ApiType(t)}
  BY DEF WireType, ApiType
<1>2. QED
  BY <1>1 DEF TopicType

LEMMA PublishServedHandles ==
  ASSUME FacadeInv, NEW p \in PubUid, NEW n \in Regular, NEW v \in Value, NEW k, NoNullEntry,
         k \in BOOLEAN, PublishServed(p, n, v, k), owned' \in [Entry -> PubUid \cup {Null}]
  PROVE  ServerKeeps /\ HandlesInv'
<1>1. NoNullEntry /\ AppPublish(p, n, v[1], k) /\ CallBack(NewlyPublished(n), sub)
      /\ pub' = [pub EXCEPT ![p] = [stage |-> "new", topic |-> Answer(n), value |-> v]]
  BY DEF PublishServed
<1>2. Running /\ MetaInv
  BY <1>1, FacadeRunning
<1>3. v[1] \in TopicType /\ v[1] \in Type
  BY SendTypes DEF Value
<1>4. Adds(n, {v[1]}) /\ n \in DOMAIN App'.data
  BY <1>1, <1>2, AppPublishAdds
<1>5. Inv' /\ Evolves /\ MetaInv'
  BY <1>1, <1>2, <1>3, AppPublishersInv, AppPublishersMeta, NTFacadeAssumption DEF NTFacadeAssumption
<1>6. {v[1]} \in SUBSET TopicType
  BY <1>3
<1>7. QED
  BY <1>1, <1>4, <1>5, <1>6, PublicationHandles

LEMMA PublishesHandles ==
  ASSUME FacadeInv, NEW p \in PubUid, NEW n \in Regular, NEW v \in Value, NEW k,
         k \in BOOLEAN, Publishes(p, n, v, k), owned' \in [Entry -> PubUid \cup {Null}]
  PROVE  ServerKeeps /\ HandlesInv'
BY PublishServedHandles, PublisherSteps DEF Publishes, Defined

LEMMA PublicationSteps ==
  ASSUME FacadeInv
  PROVE  /\ \A p \in PubUid, n \in Regular, v \in Value, k \in Cacheable :
              NewPublisher(p, n, v, k) => ServerKeeps /\ HandlesInv'
         /\ \A e \in Entry, p \in PubUid, v \in Value, k \in Cacheable :
              EntryPublishes(e, p, v, k) => ServerKeeps /\ HandlesInv'
         /\ \A c \in Client, u \in PubUid, n \in Regular, t \in Type, k \in Cacheable :
              RemotePublishes(c, u, n, t, k) => ServerKeeps /\ HandlesInv'
<1>0. owned \in [Entry -> PubUid \cup {Null}] /\ QueueInv /\ \A k \in Cacheable : k \in BOOLEAN
  BY NTServerAssumption DEF FacadeInv, HandlesInv, PubsInv, PublisherTypes
<1>1. ASSUME NEW p \in PubUid, NEW n \in Regular, NEW v \in Value, NEW k \in Cacheable,
             NewPublisher(p, n, v, k)
      PROVE  ServerKeeps /\ HandlesInv'
  BY <1>0, <1>1, PublishesHandles DEF NewPublisher
<1>2. ASSUME NEW e \in Entry, NEW p \in PubUid, NEW v \in Value, NEW k \in Cacheable,
             EntryPublishes(e, p, v, k)
      PROVE  ServerKeeps /\ HandlesInv'
  <2>1. e \in SubUid
    BY NTFacadeAssumption DEF NTFacadeAssumption
  <2>2. sub[e].topic.name \in Regular
    BY <1>0, <1>2, <2>1 DEF EntryPublishes, QueueInv, Subscribers
  <2>3. owned' \in [Entry -> PubUid \cup {Null}]
    BY <1>0, <1>2 DEF EntryPublishes
  <2>4. QED
    BY <1>0, <1>2, <2>2, <2>3, PublishesHandles DEF EntryPublishes
<1>3. ASSUME NEW c \in Client, NEW u \in PubUid, NEW n \in Regular, NEW t \in Type, NEW k \in Cacheable,
             RemotePublishes(c, u, n, t, k)
      PROVE  ServerKeeps /\ HandlesInv'
  <2>1. /\ NoNullEntry /\ Publish(c, u, n, t, k) /\ CallBack(NewlyPublished(n), sub)
        /\ pub' = pub /\ owned' = owned
    BY <1>3 DEF RemotePublishes, Defined
  <2>2. Running /\ MetaInv
    BY <2>1, FacadeRunning
  <2>3. Adds(n, {WireType(t)}) /\ Inv' /\ Evolves /\ MetaInv'
    BY <1>0, <2>1, <2>2, PublishAdds, PublishInv, PublishMetaStep, NTFacadeAssumption DEF NTFacadeAssumption
  <2>4. {WireType(t)} \in SUBSET TopicType
    BY SendTypes
  <2>5. QED
    BY <1>0, <2>1, <2>3, <2>4, PublicationHandles
<1>4. QED
  BY <1>1, <1>2, <1>3

\* Subscribers.
LEMMA SubscribersStep ==
  ASSUME FacadeInv, ServerKeeps, TopicsKeep, SubsInv', UNCHANGED <<pub, owned>>
  PROVE  HandlesInv'
<1>1. PubsInv
  BY DEF FacadeInv, HandlesInv
<1>2. PubsInv'
  BY <1>1, Owns, PublishersFollow
<1>3. QED
  BY <1>2 DEF HandlesInv, TopicsKeep

\* A subscriber leaves its stage for one it is not called in, nothing else changing.
LEMMA LeavesStage ==
  ASSUME SubsInv, NEW h \in SubUid, NEW stage \in {"failed", "closed", "gone"},
         sub[h].stage \in {"new", "live", "failed"}, sub' = [sub EXCEPT ![h].stage = stage]
  PROVE  /\ Stages(sub') /\ sub'[h].stage = stage
         /\ \A k \in SubUid \ {h} : sub'[k] = sub[k]
BY DEF Stages, SubsInv, SubscriberTypes, Stage

LEMMA EndsHandles ==
  ASSUME FacadeInv, NEW h \in SubUid, NEW stage \in {"closed", "gone"}, EndsSubscriber(h, stage)
  PROVE  ServerKeeps /\ HandlesInv'
<1>1. /\ NoNullEntry /\ sub[h].stage \in {"live", "failed"} /\ sub' = [sub EXCEPT ![h].stage = stage]
      /\ UNCHANGED <<pub, owned, waiting, dangled>>
      /\ AppUnsubscribe(h) \/ UNCHANGED serverVars
  BY DEF EndsSubscriber, Defined, GaveUp
<1>2. Running /\ MetaInv /\ QueueInv /\ SubsInv /\ TopicsTyped
  BY <1>1, FacadeRunning
<1>3. /\ Stages(sub') /\ sub'[h].stage = stage /\ \A k \in SubUid \ {h} : sub'[k] = sub[k]
  BY <1>1, <1>2, LeavesStage
<1>4. /\ ServerKeeps /\ Steady
      /\ \A k \in SubUid \ {h} :
           k \in DOMAIN App.subs => k \in DOMAIN App'.subs /\ App'.subs[k] = App.subs[k]
  <2>1. CASE AppUnsubscribe(h)
    <3>1. Forgets(h)
      BY <1>2, <2>1, AppUnsubscribeForgets
    <3>2. Inv' /\ Evolves
      BY <1>2, <2>1, AppSubscriptionsInv
    <3>3. MetaInv'
      BY <1>1, <1>2, <2>1, AppSubscriptionsMeta
    <3>4. ServerKeeps
      BY <1>2, <3>2, <3>3, IdsAreKept DEF ServerKeeps
    <3>5. QED
      BY <1>2, <3>1, <3>4, SteadySteps DEF Forgets
  <2>2. CASE UNCHANGED serverVars
    BY <1>1, <1>2, <2>2, ServerUnchanged, SteadySteps DEF Onward
  <2>3. QED
    BY <1>1, <2>1, <2>2
<1>5. TopicsKeep /\ IdsKeep
  BY <1>2, <1>4, SteadySteps DEF ServerKeeps
<1>6. \A k \in SubUid : sub'[k].stage = "live" => k # h /\ sub[k].stage = "live"
  BY <1>3
<1>7. SubsInv'
  BY <1>1, <1>2, <1>3, <1>4, <1>5, <1>6, SilentFollows
<1>8. QED
  BY <1>1, <1>4, <1>5, <1>7, SubscribersStep

LEMMA SubscriberSteps ==
  ASSUME FacadeInv, NEW h \in SubUid
  PROVE  /\ Subscribes(h) \/ SubscribeGivesUp(h) \/ CloseSubscriber(h) \/ DestroySubscriber(h)
            \/ EntryCloses(h)
              => ServerKeeps /\ HandlesInv'
         /\ \A n \in Regular : NewSubscriber(h, n) => ServerKeeps /\ HandlesInv'
<1>1. CASE Subscribes(h)
  <2>1. /\ NoNullEntry /\ sub[h].stage = "new" /\ UNCHANGED <<pub, owned>>
        /\ AppSubscribe(h, Wanted(sub[h].topic.name))
    BY <1>1 DEF Subscribes, Defined, Wanted
  <2>2. Running /\ MetaInv /\ QueueInv /\ SubsInv /\ TopicsTyped
    BY <2>1, FacadeRunning
  <2>3. Listens(h, Wanted(sub[h].topic.name))
    BY <2>1, <2>2, AppSubscribeListens
  <2>4. Inv' /\ Evolves
    BY <2>1, <2>2, AppSubscriptionsInv
  <2>5. MetaInv'
    <3>1. sub[h].topic.name \in Regular
      BY <2>1, <2>2 DEF QueueInv, Subscribers
    <3>2. Wanted(sub[h].topic.name) \in Subscribable
      BY <3>1, NTFacadeAssumption DEF NTFacadeAssumption, Wanted
    <3>3. QED
      BY <2>1, <2>2, <3>2, AppSubscriptionsMeta
  <2>6. ServerKeeps
    BY <2>2, <2>4, <2>5, IdsAreKept DEF ServerKeeps
  <2>7. TopicsKeep
    BY <2>2, <2>3 DEF Listens, TopicsKeep, TopicsTyped
  <2>8. SubsInv'
    BY <1>1, <2>2, <2>3, <2>6, <2>7, SubscribesFollow DEF ServerKeeps
  <2>9. QED
    BY <2>1, <2>6, <2>7, <2>8, SubscribersStep
<1>2. CASE SubscribeGivesUp(h)
  <2>1. /\ NoNullEntry /\ sub[h].stage = "new" /\ sub' = [sub EXCEPT ![h].stage = "failed"]
        /\ UNCHANGED <<pub, owned, waiting, dangled>> /\ UNCHANGED serverVars
    BY <1>2 DEF SubscribeGivesUp, Defined, GaveUp
  <2>2. QueueInv /\ SubsInv /\ TopicsTyped
    BY <2>1, FacadeRunning
  <2>3. ServerKeeps /\ Onward
    BY <2>1, ServerUnchanged
  <2>4. TopicsKeep /\ IdsKeep /\ Steady
    BY <2>2, <2>3, SteadySteps DEF ServerKeeps
  <2>5. /\ Stages(sub') /\ sub'[h].stage = "failed" /\ \A k \in SubUid \ {h} : sub'[k] = sub[k]
    BY <2>1, <2>2, LeavesStage
  <2>6. \A k \in SubUid : sub'[k].stage = "live" => sub[k].stage = "live"
    BY <2>5
  <2>7. SubsInv'
    BY <2>1, <2>2, <2>3, <2>4, <2>5, <2>6, SilentFollows DEF Onward
  <2>8. QED
    BY <2>1, <2>3, <2>4, <2>7, SubscribersStep
<1>3. CASE CloseSubscriber(h) \/ DestroySubscriber(h) \/ EntryCloses(h)
  BY <1>3, EndsHandles DEF CloseSubscriber, DestroySubscriber, EntryCloses
<1>4. ASSUME NEW n \in Regular, NewSubscriber(h, n) PROVE ServerKeeps /\ HandlesInv'
  <2>1. NoNullEntry /\ UNCHANGED serverVars /\ UNCHANGED <<pub, owned>>
    BY <1>4 DEF NewSubscriber, Defined
  <2>2. QueueInv /\ SubsInv /\ TopicsTyped
    BY <2>1, FacadeRunning
  <2>3. ServerKeeps /\ TopicsKeep
    BY <2>1, <2>2, ServerUnchanged, SteadySteps
  <2>4. SubsInv'
    BY <1>4, <2>2, NewSubscriberFollows
  <2>5. QED
    BY <2>1, <2>3, <2>4, SubscribersStep
<1>5. QED
  BY <1>1, <1>2, <1>3, <1>4

LEMMA HandlesInit == FacadeInit => HandlesInv
<1>. SUFFICES ASSUME FacadeInit PROVE HandlesInv
  OBVIOUS
<1>1. /\ sub = [h \in SubUid |-> [stage |-> "none", topic |-> NoTopic(<<>>)]]
      /\ pub = [p \in PubUid |-> [stage |-> "none", topic |-> NoTopic(<<>>), value |-> Null]]
      /\ owned = [e \in Entry |-> Null]
  BY DEF FacadeInit
<1>2. NoTopic(<<>>) \in Topic /\ NoTopic(<<>>).id = Null
  BY DEF NoTopic, Topic, TopicType
<1>3. SubsInv
  BY <1>1, <1>2 DEF SubsInv, SubscriberTypes, StillWaiting, AssignedRight, Subscribed, CachedAssigned,
    ValueSent, Stage
<1>4. PubsInv
  BY <1>1, <1>2 DEF PubsInv, PublisherTypes, PublisherTopics, Stage
<1>5. DOMAIN topics = ServerName
  BY DEF FacadeInit, Init
<1>6. Regular \cap ServerName = {}
  BY Kinds DEF ServerName
<1>7. QED
  BY <1>3, <1>4, <1>5, <1>6 DEF HandlesInv, TopicsTyped

LEMMA FacadeStep == FacadeInv /\ [FacadeNext]_facadeVars => FacadeInv'
<1>. SUFFICES ASSUME FacadeInv, [FacadeNext]_facadeVars PROVE FacadeInv'
  OBVIOUS
<1>1. QueueInv'
  BY QueueStep DEF FacadeInv
<1>2. CASE UNCHANGED facadeVars
  <2>1. UNCHANGED vars /\ UNCHANGED <<topics, clients, inFrame, sub, pub, owned>>
    BY <1>2 DEF facadeVars, serverVars, handleVars, vars
  <2>2. Inv' /\ MetaInv'
    BY <2>1, StepInv, MetaStep, NTFacadeAssumption
       DEF FacadeInv, NTFacadeAssumption
  <2>3. HandlesInv'
    BY <1>2, <2>1 DEF FacadeInv, HandlesInv, SubsInv, SubscriberTypes, StillWaiting, AssignedRight,
      Subscribed, CachedAssigned, ValueSent, SentOrDefault, PubsInv, PublisherTypes, PublisherTopics,
      TopicsTyped, App, facadeVars, handleVars
  <2>4. QED
    BY <1>1, <2>2, <2>3 DEF FacadeInv
<1>3. CASE FacadeNext
  <2>. SUFFICES ServerKeeps /\ HandlesInv'
    BY <1>1 DEF FacadeInv, ServerKeeps
  <2>1. ASSUME NEW h \in SubUid,
               \/ Subscribes(h) \/ SubscribeGivesUp(h)
               \/ CloseSubscriber(h) \/ DestroySubscriber(h)
               \/ \E n \in Regular : NewSubscriber(h, n)
               \/ \E k \in CachedUpdates : SetTopicProperties(h, k)
        PROVE  ServerKeeps /\ HandlesInv'
    BY <2>1, SubscriberSteps, SetTopicPropertiesHandles
  <2>2. ASSUME NEW p \in PubUid,
               \/ SetsDefault(p) \/ ClosePublisher(p)
               \/ \E v \in Value : PublisherSets(p, v)
        PROVE  ServerKeeps /\ HandlesInv'
    BY <2>2, PublisherSteps DEF PublisherSets
  <2>3. ASSUME NEW p \in PubUid, NEW v \in Value, NEW k \in Cacheable,
               \/ \E n \in Regular : NewPublisher(p, n, v, k)
               \/ \E e \in Entry : EntryPublishes(e, p, v, k)
        PROVE  ServerKeeps /\ HandlesInv'
    BY <2>3, PublicationSteps
  <2>4. ASSUME NEW e \in Entry,
               EntryUnpublishes(e) \/ EntryCloses(e) \/ \E v \in Value : EntrySets(e, v)
        PROVE  ServerKeeps /\ HandlesInv'
    <3>1. e \in SubUid
      BY NTFacadeAssumption DEF NTFacadeAssumption
    <3>2. QED
      BY <2>4, <3>1, EntrySteps, SubscriberSteps
  <2>5. ASSUME NEW c \in Client, RemoteStep(c) PROVE ServerKeeps /\ HandlesInv'
    BY <2>5, RemoteHandles
  <2>6. ASSUME NEW c \in Client, NEW u \in PubUid, NEW n \in Regular, NEW t \in Type,
               NEW k \in Cacheable, RemotePublishes(c, u, n, t, k)
        PROVE  ServerKeeps /\ HandlesInv'
    BY <2>6, PublicationSteps
  <2>7. QED
    BY <1>3, <2>1, <2>2, <2>3, <2>4, <2>5, <2>6 DEF FacadeNext, HandleStep
<1>4. QED
  BY <1>2, <1>3

-----------------------------------------------------------------------------
(* The theorems about the handles.                                         *)

\* FacadeInv is inductive.
THEOREM FacadeInvariance == FacadeSpec => []FacadeInv
<1>1. FacadeInit => FacadeInv
  BY InitInv, MetaInit, InitQueues, HandlesInit DEF FacadeInit, FacadeInv
<1>2. QED
  BY <1>1, FacadeStep, PTL DEF FacadeSpec

\* The members of NTSubscriber, NTPublisher and NTEntry hold what they are declared
\* to hold, and a topic is of the announced name, id and type or of none.
THEOREM FacadeTyped == FacadeSpec => []FacadeTypeOK
<1>1. FacadeInv => FacadeTypeOK
  BY DEF FacadeInv, QueueInv, Queues, HandlesInv, SubsInv, SubscriberTypes, PubsInv, PublisherTypes,
    FacadeTypeOK, Stage
<1>2. QED
  BY <1>1, FacadeInvariance, PTL

\* A subscriber is told of the topic of its name, whether the topic comes first, or
\* the subscriber, or another subscriber of the same name: as long as setProperties
\* does not make a topic cached that was published otherwise.
THEOREM SubscribersAssigned ==
  ASSUME TRUE \notin CachedUpdates
  PROVE  FacadeSpec => []LiveSubscribersAssigned
<1>1. FacadeInv => LiveSubscribersAssigned
  <2>. SUFFICES ASSUME FacadeInv, NEW h \in SubUid, sub[h].stage = "live", NEW n,
                       n = sub[h].topic.name, n \in DOMAIN topics, topics[n].cached
                PROVE  sub[h].topic = [name |-> n, id |-> App.data[n].id, type |-> topics[n].value[1]]
    BY DEF LiveSubscribersAssigned, Live
  <2>1. SubsInv
    BY DEF FacadeInv, HandlesInv
  <2>2. sub[h].topic.id # Null
    BY <2>1 DEF SubsInv, CachedAssigned
  <2>3. QED
    BY <2>1, <2>2 DEF SubsInv, AssignedRight
<1>2. QED
  BY <1>1, FacadeInvariance, PTL

\* What is sent of a value has one type however often it is asked, and the setters
\* write to topics that are sent with the type they write.
LEMMA Types ==
  /\ \A t : ApiType(ApiType(t)) = ApiType(t)
  /\ \A t, type : type \in TakenBySetter(t) => ApiType(type) = ApiType(t)
<1>1. ASSUME NEW t PROVE ApiType(ApiType(t)) = ApiType(t)
  BY DEF ApiType
<1>2. ASSUME NEW t, NEW type \in TakenBySetter(t) PROVE ApiType(type) = ApiType(t)
  BY DEF ApiType, TakenBySetter
<1>3. QED
  BY <1>1, <1>2

\* NTPublisher::set and the setters accept a value only if NTDataValue::assign, later
\* and under the type that the topic has then, will take it; those of a publisher
\* whose publish waited in vain accept nothing but booleans.
THEOREM AcceptedStored == FacadeSpec => []AcceptedIsStored
<1>1. FacadeInv => AcceptedIsStored
  <2>. SUFFICES ASSUME FacadeInv, NEW p \in PubUid, NEW v \in Value, pub[p].stage = "live", Taken(p, v)
                PROVE  IF pub[p].topic.id = Null THEN v[1] = "bool"
                       ELSE Assign(topics[pub[p].topic.name].value, v)[2] = v[2]
    BY DEF AcceptedIsStored
  <2>1. CASE pub[p].topic.id # Null
    <3>1. pub[p].topic.type = topics[pub[p].topic.name].value[1]
      BY <2>1 DEF FacadeInv, HandlesInv, PubsInv, PublisherTopics
    <3>2. ApiType(pub[p].topic.type) = ApiType(v[1])
      BY Types DEF Taken, Accepts
    <3>3. QED
      BY <2>1, <3>1, <3>2 DEF Assign
  <2>2. CASE pub[p].topic.id = Null
    <3>1. pub[p].topic.type = "bool"
      BY <2>2 DEF FacadeInv, HandlesInv, PubsInv, PublisherTopics
    <3>2. QED
      BY <2>2, <3>1 DEF Taken, Accepts, ApiType, TakenBySetter
  <2>3. QED
    BY <2>1, <2>2
<1>2. QED
  BY <1>1, FacadeInvariance, PTL

\* What is sent has the type it is sent with: only the getter of that type reads it.
LEMMA GettersAgree ==
  ASSUME NEW h, NEW t
  PROVE  /\ Get(h) = Unassigned => GetAs(h, t, Null) = Null
         /\ \A n, value : Get(h) = Sent(n, value) /\ ~IsMeta(n) =>
              GetAs(h, t, Null) = IF t = ApiType(value[1]) THEN value[2] ELSE Null
<1>1. Get(h) = Unassigned => GetAs(h, t, Null) = Null
  BY DEF GetAs
<1>2. ASSUME NEW n, NEW value, Get(h) = Sent(n, value), ~IsMeta(n)
      PROVE  GetAs(h, t, Null) = IF t = ApiType(value[1]) THEN value[2] ELSE Null
  <2>1. Get(h) = <<ApiType(value[1]), value[2]>>
    BY <1>2 DEF Sent
  <2>2. Get(h) # Unassigned /\ Get(h)[1] = ApiType(value[1]) /\ Get(h)[2] = value[2]
    BY <2>1 DEF Unassigned
  <2>3. ApiType(Get(h)[1]) = Get(h)[1]
    BY <2>2, Types
  <2>4. QED
    BY <2>2, <2>3 DEF GetAs
<1>3. QED
  BY <1>1, <1>2

\* A subscriber reads the value its topic has, through get and through the getter of
\* the type it is sent with, and nothing only if nobody ever set one, as long as the application was not given one id for two topics and no null
\* pointer was left in a map.
THEOREM SubscribersCurrent == FacadeSpec => [](NoNullEntry => SubscriberCurrent)
<1>1. FacadeInv => (NoNullEntry => SubscriberCurrent)
  <2>. SUFFICES ASSUME FacadeInv, NoNullEntry, AppIdsDistinct,
                       NEW h \in SubUid, sub[h].stage = "live", sub[h].topic.id # Null,
                       NEW n, n = sub[h].topic.name
                PROVE  IF Get(h) = Unassigned THEN topics[n].value = DefaultValue(topics[n].value[1])
                       ELSE Get(h) = Sent(n, topics[n].value) /\ ~IsMeta(n)
    BY GettersAgree DEF SubscriberCurrent, Live
  <2>1. SubsInv /\ QueueInv /\ Running
    BY FacadeRunning
  <2>2. n \in DOMAIN App.data /\ sub[h].topic.id = App.data[n].id /\ n \in Regular
    <3>1. n \in Regular
      BY <2>1 DEF QueueInv, Subscribers
    <3>2. /\ n \in DOMAIN App.data
          /\ sub[h].topic = [name |-> n, id |-> App.data[n].id, type |-> topics[n].value[1]]
      BY <2>1 DEF SubsInv, AssignedRight
    <3>3. QED
      BY <3>1, <3>2
  <2>3. h \in DOMAIN App.subs /\ App.subs[h] = Wanted(n)
    BY <2>1 DEF SubsInv, Subscribed
  <2>4. WantsValue(App, n)
    BY <2>3, WantedFacts
  <2>5. CASE App.data[n].id \in DOMAIN App.peer.vals
    <3>1. AppReplicaCurrent
      BY RunningCurrent DEF FacadeInv
    <3>2. Get(h) = Sent(n, topics[n].value)
      BY <2>2, <2>4, <2>5, <3>1 DEF Get, AppReplicaCurrent
    <3>3. ~IsMeta(n)
      BY <2>2, Kinds
    <3>4. Sent(n, topics[n].value) # Unassigned
      BY <3>3 DEF Sent, Unassigned
    <3>5. QED
      BY <3>2, <3>3, <3>4
  <2>6. CASE App.data[n].id \notin DOMAIN App.peer.vals
    <3>1. Get(h) = Unassigned
      BY <2>2, <2>6 DEF Get
    <3>2. SentOrDefault(App, topics, n)
      BY <2>1 DEF SubsInv, ValueSent
    <3>3. QED
      BY <2>6, <3>1, <3>2 DEF SentOrDefault
  <2>7. QED
    BY <2>5, <2>6
<1>2. QED
  BY <1>1, FacadeInvariance, PTL

=============================================================================
