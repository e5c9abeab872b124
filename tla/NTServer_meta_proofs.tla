------------------------ MODULE NTServer_meta_proofs ------------------------
(***************************************************************************)
(* What is proved of the names of the clients, of the meta-topics, of the  *)
(* announcements owed to subscribers and of what the maps hold.            *)
(*                                                                         *)
(* A topic is truthful when its value is the one that its update function  *)
(* would give it now.  Whole says that all topics are truthful but those   *)
(* of B, that all the topics the server needs are there but those of H,    *)
(* and that all clients but those of C were announced what they subscribe  *)
(* to.  Each handler first makes some topics stale, or needs topics that   *)
(* are not there yet; the operators it goes on with refresh, publish and   *)
(* announce until B, H and C are empty again.                              *)
(***************************************************************************)
EXTENDS NTServer_proofs

-----------------------------------------------------------------------------
(* Names.                                                                  *)

LEMMA TopicOf ==
  ASSUME NEW m \in Regular, NEW n \in Regular
  PROVE  (SubTopic(m) = SubTopic(n) => m = n) /\ (PubTopic(m) = PubTopic(n) => m = n)
<1>1. m \in Seq(STRING) /\ n \in Seq(STRING)
  BY NTServerAssumption
<1>2. ASSUME NEW p, <<"$", p>> \o m = <<"$", p>> \o n
      PROVE  m = n
  <2>1. Len(m) = Len(n)
    <3>1. Len(<<"$", p>> \o m) = Len(m) + 2 /\ Len(<<"$", p>> \o n) = Len(n) + 2
      BY <1>1
    <3>2. QED
      BY <1>1, <1>2, <3>1
  <2>2. ASSUME NEW i \in 1..Len(n) PROVE m[i] = n[i]
    <3>1. (<<"$", p>> \o m)[i + 2] = m[i] /\ (<<"$", p>> \o n)[i + 2] = n[i]
      BY <1>1, <2>1
    <3>2. QED
      BY <1>2, <3>1
  <2>3. QED
    BY <1>1, <2>1, <2>2
<1>3. SubTopic(m) = SubTopic(n) => m = n
  <2>1. SubTopic(m) = <<"$", "sub">> \o m /\ SubTopic(n) = <<"$", "sub">> \o n
    BY Zenon DEF SubTopic
  <2>2. QED
    BY <1>2, <2>1, Zenon
<1>4. PubTopic(m) = PubTopic(n) => m = n
  <2>1. PubTopic(m) = <<"$", "pub">> \o m /\ PubTopic(n) = <<"$", "pub">> \o n
    BY Zenon DEF PubTopic
  <2>2. QED
    BY <1>2, <2>1, Zenon
<1>5. QED
  BY <1>3, <1>4

LEMMA ClientOf ==
  ASSUME NEW m, NEW n
  PROVE  /\ ClientSubTopic(m) = ClientSubTopic(n) => m = n
         /\ ClientPubTopic(m) = ClientPubTopic(n) => m = n
BY DEF ClientSubTopic, ClientPubTopic

\* nextClientWithName: one more than the greatest number a connected client has.
LEMMA NextSuffixFresh ==
  ASSUME NEW base,
         \A c \in Remote(State) : clients[c].name[2] \in 1..MaxSuffix,
         NEW c \in Remote(State), clients[c].name[1] = base
  PROVE  clients[c].name[2] # NextSuffix(base)
<1>. DEFINE used == {clients[d].name[2] : d \in {e \in Remote(State) : clients[e].name[1] = base}}
            P(i) == (used = {} /\ i = 1) \/ (i - 1 \in used /\ \A j \in used : j < i)
<1>1. used \subseteq 1..MaxSuffix /\ clients[c].name[2] \in used /\ MaxSuffix \in Nat
  BY NTServerAssumption
<1>2. NextSuffix(base) = CHOOSE i \in 1..(MaxSuffix + 1) : P(i)
  BY DEF NextSuffix
<1>. HIDE DEF used
<1>3. PICK m \in used : \A j \in used : j <= m
  <2>1. used \subseteq Nat /\ used # {} /\ \A j \in used : j <= MaxSuffix
    BY <1>1
  <2>2. QED
    BY <1>1, <2>1, Greatest
<1>4. m + 1 \in 1..(MaxSuffix + 1) /\ P(m + 1)
  <2>1. m \in 1..MaxSuffix /\ m + 1 - 1 = m
    BY <1>1
  <2>2. \A j \in used : j < m + 1
    BY <1>1, <1>3
  <2>3. QED
    BY <1>1, <2>1, <2>2
<1>. HIDE DEF P
<1>5. NextSuffix(base) \in 1..(MaxSuffix + 1) /\ P(NextSuffix(base))
  BY <1>2, <1>4
<1>6. QED
  BY <1>1, <1>5 DEF P

-----------------------------------------------------------------------------
(* The values a topic may have.                                            *)

\* By what the topic is about.
LEMMA MetaValues ==
  /\ ValuesOf(ClientsTopic) = SUBSET ClientName
  /\ ValuesOf(ServerSubTopic) = SUBSET (SubUid \X Subscribable)
  /\ ValuesOf(ServerPubTopic) = SUBSET (PubUid \X Regular)
  /\ \A m : /\ ValuesOf(ClientSubTopic(m)) = SUBSET (SubUid \X Subscribable)
            /\ ValuesOf(ClientPubTopic(m)) = SUBSET (PubUid \X Regular)
  /\ \A n \in Regular : /\ ValuesOf(SubTopic(n)) = SUBSET (ClientName \X SubUid)
                        /\ ValuesOf(PubTopic(n)) = SUBSET (ClientName \X PubUid)
                        /\ ValuesOf(n) = (Type \cup {WireType(t) : t \in Type}) \X Data
<1>1. ASSUME NEW n, IsMeta(n)
      PROVE  /\ n[2] = "clients" => ValuesOf(n) = SUBSET ClientName
             /\ n[2] \in {"serversub", "clientsub"} => ValuesOf(n) = SUBSET (SubUid \X Subscribable)
             /\ n[2] \in {"serverpub", "clientpub"} => ValuesOf(n) = SUBSET (PubUid \X Regular)
             /\ n[2] = "sub" => ValuesOf(n) = SUBSET (ClientName \X SubUid)
             /\ n[2] = "pub" => ValuesOf(n) = SUBSET (ClientName \X PubUid)
  BY <1>1 DEF ValuesOf
<1>2. ASSUME NEW n, ~IsMeta(n) PROVE ValuesOf(n) = (Type \cup {WireType(t) : t \in Type}) \X Data
  BY <1>2 DEF ValuesOf
<1>3. QED
  BY <1>1, <1>2, Kinds

\* A meta-topic may say nothing, as it does until it is refreshed.
LEMMA NothingIsAValue == \A n \in Name : IsMeta(n) => {} \in ValuesOf(n)
<1>1. ASSUME NEW n \in MetaName PROVE {} \in ValuesOf(n)
  BY <1>1, MetaValues DEF MetaName, ServerName
<1>2. QED
  BY <1>1, Kinds DEF Name

\* A topic starts with the default of the type it is published with, as the
\* server or a peer writes that type, and takes values of its type.
LEMMA TopicValues ==
  ASSUME NEW n \in Regular
  PROVE  /\ \A t \in Type : DefaultValue(t) \in ValuesOf(n) /\ DefaultValue(WireType(t)) \in ValuesOf(n)
         /\ \A old \in ValuesOf(n) : \A new \in Value : Assign(old, new) \in ValuesOf(n)
<1>1. ValuesOf(n) = (Type \cup {WireType(t) : t \in Type}) \X Data
  BY MetaValues
<1>2. Empty \in Data
  BY NTServerAssumption DEF Empty
<1>3. QED
  BY <1>1, <1>2 DEF DefaultValue, Value, Assign

-----------------------------------------------------------------------------
(* What a topic's value should be.                                         *)

\* What the value of a meta-topic depends on.
Ident(cl, r) == r.name = cl.name /\ r.subs = cl.subs /\ r.pubs = cl.pubs

Declared(s) == Regular \cap DOMAIN s.topics

Truthful(s, n, value) ==
  /\ n = ClientsTopic   => value = {s.clients[c].name : c \in Remote(s)}
  /\ n = ServerSubTopic => value = Subscriptions(s.clients[Self])
  /\ n = ServerPubTopic => value = Publishers(s.clients[Self])
  /\ \A c \in Remote(s) :
       /\ n = ClientSubTopic(s.clients[c].name) => value = Subscriptions(s.clients[c])
       /\ n = ClientPubTopic(s.clients[c].name) => value = Publishers(s.clients[c])
  /\ \A m \in Declared(s) :
       /\ n = SubTopic(m) =>
            \A c \in Remote(s) : IsSubscribed(s.clients[c], m) =>
              \E u \in SubUid : <<s.clients[c].name, u>> \in value
       /\ n = PubTopic(m) => TopicPublishers(s, m) \subseteq value

\* T has the topics that must be there.
Needed(s, T) ==
  /\ ServerName \subseteq T
  /\ \A c \in Remote(s) : ClientSubTopic(s.clients[c].name) \in T /\ ClientPubTopic(s.clients[c].name) \in T
  /\ \A c \in Remote(s) : \A u \in DOMAIN s.clients[c].pubs : PubTopic(s.clients[c].pubs[u]) \in T
  /\ \A n \in Declared(s) : SubTopic(n) \in T /\ PubTopic(n) \in T

\* The names of the clients, from which NextSuffix takes the next one.
Named(s) ==
  /\ DOMAIN s.clients \subseteq Peer /\ s.clients[Self].name = <<"fake_server", 0>>
  /\ \A c \in Remote(s) : s.clients[c].name \in ClientName
  /\ \A c, d \in Remote(s) : s.clients[c].name = s.clients[d].name => c = d

\* What clients declare: under uids, what is subscribed to and what is published.
SubsDeclared(subs) == DOMAIN subs \subseteq SubUid /\ \A u \in DOMAIN subs : subs[u] \in Subscribable
PubsDeclared(pubs) == DOMAIN pubs \subseteq PubUid /\ \A u \in DOMAIN pubs : pubs[u] \in Regular
Declares(cl) == SubsDeclared(cl.subs) /\ PubsDeclared(cl.pubs)

\* The topics have values they may have.
Fits(s) == \A n \in DOMAIN s.topics : s.topics[n] \in [value : ValuesOf(n), cached : BOOLEAN]

\* Who subscribes to a cached topic has an id for it, unless topics become cached
\* later than they are subscribed to.
Heard(s, c) ==
  TRUE \in CachedUpdates \/
    \A n \in DOMAIN s.topics :
      s.topics[n].cached /\ IsSubscribed(s.clients[c], n) => n \in DOMAIN s.clients[c].data

\* All is as it should be, but for the values of B, the topics of H that are not
\* there, and the clients of C that were not announced all they subscribe to.
Whole(s, B, H, C) ==
  /\ GoodState(s) /\ Named(s) /\ Fits(s)
  /\ \A c \in DOMAIN s.clients : Declares(s.clients[c])
  /\ Needed(s, DOMAIN s.topics \cup H)
  /\ \A n \in DOMAIN s.topics \ B : Truthful(s, n, s.topics[n].value)
  /\ \A c \in DOMAIN s.clients \ C : Heard(s, c)

\* What an operator on the state leaves alone: who the clients are, what they
\* declared, the properties of topics and the types of ordinary ones.
Carries(s, t) ==
  /\ Leads(s, t)
  /\ \A c \in DOMAIN s.clients : Ident(s.clients[c], t.clients[c])
  /\ \A n \in DOMAIN s.topics :
       /\ t.topics[n].cached = s.topics[n].cached
       /\ ~IsMeta(n) => t.topics[n].value[1] = s.topics[n].value[1]

LEMMA CarriesTransitive ==
  ASSUME NEW s, NEW t, NEW q, Carries(s, t), Carries(t, q)
  PROVE  Carries(s, q)
<1>1. Leads(s, q)
  BY LeadsTransitive DEF Carries
<1>2. DOMAIN t.clients = DOMAIN s.clients /\ DOMAIN s.topics \subseteq DOMAIN t.topics
  BY DEF Carries, Leads, Follows
<1>3. \A c \in DOMAIN s.clients : Ident(s.clients[c], q.clients[c])
  BY <1>2 DEF Carries, Ident
<1>4. ASSUME NEW n \in DOMAIN s.topics
      PROVE  /\ q.topics[n].cached = s.topics[n].cached
             /\ ~IsMeta(n) => q.topics[n].value[1] = s.topics[n].value[1]
  BY <1>2 DEF Carries
<1>5. QED
  BY <1>1, <1>3, <1>4 DEF Carries

LEMMA CarriesReflexive ==
  ASSUME NEW s, GoodState(s) PROVE Carries(s, s)
BY LeadsReflexive DEF Carries, Ident

\* What a client declares is what its two topics may say.
LEMMA DeclaredValues ==
  ASSUME NEW cl, Declares(cl)
  PROVE  /\ Subscriptions(cl) \in SUBSET (SubUid \X Subscribable)
         /\ Publishers(cl) \in SUBSET (PubUid \X Regular)
BY DEF Declares, SubsDeclared, PubsDeclared, Subscriptions, Publishers

\* Excusing more.
LEMMA WholeMore ==
  ASSUME NEW s, NEW B, NEW H, NEW C, Whole(s, B, H, C),
         NEW X, B \subseteq X, NEW Y, H \subseteq Y, NEW Z, C \subseteq Z
  PROVE  Whole(s, X, Y, Z)
<1>1. Needed(s, DOMAIN s.topics \cup Y)
  BY DEF Whole, Needed
<1>2. QED
  BY <1>1 DEF Whole

\* The meta-topics of what is declared and of what is published are there.
LEMMA MetasAreThere ==
  ASSUME NEW s, NEW B, NEW C, Whole(s, B, {}, C)
  PROVE  /\ \A n \in Declared(s) : SubTopic(n) \in DOMAIN s.topics /\ PubTopic(n) \in DOMAIN s.topics
         /\ \A c \in Remote(s) : \A u \in DOMAIN s.clients[c].pubs :
              PubTopic(s.clients[c].pubs[u]) \in DOMAIN s.topics
BY DEF Whole, Needed

\* Truth depends on the idents of the clients, and on which topics are declared.
LEMMA SameTruth ==
  ASSUME NEW s, NEW t, DOMAIN t.clients = DOMAIN s.clients, Self \in DOMAIN s.clients,
         \A c \in DOMAIN s.clients : Ident(s.clients[c], t.clients[c]),
         NEW n, NEW value, Truthful(s, n, value),
         \A m \in Declared(t) \ Declared(s) : n # SubTopic(m) /\ n # PubTopic(m)
  PROVE  Truthful(t, n, value)
<1>1. Remote(t) = Remote(s)
  BY DEF Remote
<1>2. \A c \in DOMAIN s.clients :
        /\ t.clients[c].name = s.clients[c].name /\ t.clients[c].subs = s.clients[c].subs
        /\ t.clients[c].pubs = s.clients[c].pubs
  BY DEF Ident
<1>3. \A c \in Remote(s) : c \in DOMAIN s.clients
  BY DEF Remote
<1>4. {t.clients[c].name : c \in Remote(t)} = {s.clients[c].name : c \in Remote(s)}
  BY <1>1, <1>2, <1>3
<1>5. \A c \in DOMAIN s.clients :
        /\ Subscriptions(t.clients[c]) = Subscriptions(s.clients[c])
        /\ Publishers(t.clients[c]) = Publishers(s.clients[c])
        /\ \A m : IsSubscribed(t.clients[c], m) <=> IsSubscribed(s.clients[c], m)
  BY <1>2 DEF Subscriptions, Publishers, IsSubscribed
<1>6. \A m : TopicPublishers(t, m) = TopicPublishers(s, m)
  BY <1>1, <1>2, <1>3 DEF TopicPublishers
<1>7. \A m \in Declared(t) : n = SubTopic(m) \/ n = PubTopic(m) => m \in Declared(s)
  OBVIOUS
<1>8. QED
  BY <1>1, <1>2, <1>3, <1>4, <1>5, <1>6, <1>7 DEF Truthful

\* An operator that leaves the topics alone.
LEMMA CarriesWhole ==
  ASSUME NEW s, NEW B, NEW H, NEW C, Whole(s, B, H, C), NEW t, Carries(s, t), t.topics = s.topics
  PROVE  Whole(t, B, H, C)
<1>1. /\ GoodState(t) /\ DOMAIN t.clients = DOMAIN s.clients /\ Self \in DOMAIN s.clients
      /\ \A c \in DOMAIN s.clients :
           /\ Ident(s.clients[c], t.clients[c])
           /\ DOMAIN s.clients[c].data \subseteq DOMAIN t.clients[c].data
  BY DEF Carries, Leads, Follows, Grows, Whole, GoodState, Safe
<1>2. Remote(t) = Remote(s) /\ (\A c \in Remote(s) : c \in DOMAIN s.clients) /\ Declared(t) = Declared(s)
  BY <1>1 DEF Remote, Declared
<1>3. \A n \in DOMAIN t.topics \ B : Truthful(t, n, t.topics[n].value)
  BY <1>1, <1>2, SameTruth DEF Whole
<1>4. Named(t) /\ Fits(t) /\ \A c \in DOMAIN t.clients : Declares(t.clients[c])
  BY <1>1, <1>2 DEF Whole, Named, Fits, Declares, Ident
<1>5. Needed(t, DOMAIN t.topics \cup H)
  BY <1>1, <1>2 DEF Whole, Needed, Ident
<1>6. ASSUME NEW c \in DOMAIN t.clients \ C PROVE Heard(t, c)
  <2>1. \A n : IsSubscribed(t.clients[c], n) <=> IsSubscribed(s.clients[c], n)
    BY <1>1 DEF Ident, IsSubscribed
  <2>2. Heard(s, c)
    BY <1>1 DEF Whole
  <2>3. QED
    BY <1>1, <2>1, <2>2 DEF Heard
<1>7. QED
  BY <1>1, <1>3, <1>4, <1>5, <1>6 DEF Whole

-----------------------------------------------------------------------------
(* The operators carry.                                                    *)

\* No operator on a record changes what the client declared.
LEMMA IdentsStay ==
  ASSUME NEW cl, Shape(cl)
  PROVE  /\ Ident(cl, cl) /\ Ident(cl, FlushText(cl)) /\ Ident(cl, FlushBinary(cl))
         /\ \A msgs : Ident(cl, PushText(cl, msgs))
         /\ \A N : /\ Ident(cl, AssignIds(cl, N)) /\ Ident(cl, AnnounceTo(cl, N))
                   /\ Ident(cl, AnnounceSelf(cl, N))
         /\ \A n : Ident(cl, AnnounceToPublisher(cl, n)) /\ Ident(cl, LookUpSelfId(cl, n))
<1>1. DOMAIN cl = Field
  BY DEF Shape, Caches
<1>2. /\ Ident(cl, cl) /\ Ident(cl, FlushText(cl)) /\ Ident(cl, FlushBinary(cl))
      /\ \A n : Ident(cl, LookUpSelfId(cl, n))
  BY <1>1 DEF Ident, FlushText, FlushBinary, LookUpSelfId, Field
<1>3. ASSUME NEW r, DOMAIN r = Field, NEW msgs PROVE Ident(r, PushText(r, msgs))
  BY <1>3 DEF Ident, PushText, Field
<1>4. ASSUME NEW N PROVE Ident(cl, AssignIds(cl, N)) /\ DOMAIN AssignIds(cl, N) = Field
  BY <1>1 DEF Ident, AssignIds, Field
<1>5. ASSUME NEW N, NEW msgs PROVE Ident(cl, PushText(AssignIds(cl, N), msgs))
  <2>1. Ident(AssignIds(cl, N), PushText(AssignIds(cl, N), msgs))
    BY <1>3, <1>4
  <2>2. QED
    BY <1>4, <2>1 DEF Ident
<1>6. ASSUME NEW N PROVE Ident(cl, AnnounceTo(cl, N)) /\ Ident(cl, AnnounceSelf(cl, N))
  <2>. DEFINE a == AssignIds(cl, N)
  <2>1. Ident(cl, AnnounceTo(cl, N))
    BY <1>5 DEF AnnounceTo
  <2>2. AnnounceSelf(cl, N) = [a EXCEPT !.peer = ReadText(@, Announcements(a, N))]
    BY DEF AnnounceSelf
  <2>3. Ident(cl, a) /\ DOMAIN a = Field
    BY <1>4
  <2>. HIDE DEF a
  <2>4. Ident(cl, AnnounceSelf(cl, N))
    BY <2>2, <2>3 DEF Ident, Field
  <2>5. QED
    BY <2>1, <2>4
<1>7. ASSUME NEW n PROVE Ident(cl, AnnounceToPublisher(cl, n))
  BY <1>5 DEF AnnounceToPublisher
<1>8. QED
  BY <1>1, <1>2, <1>3, <1>4, <1>6, <1>7

LEMMA SendToIdent ==
  ASSUME NEW s, NEW c, Shape(s.clients[c]), NEW N
  PROVE  Ident(s.clients[c], SendTo(s, c, N))
<1>. DEFINE cl == s.clients[c]
            data == [n \in DOMAIN cl.data |->
                       IF n \in N THEN [cl.data[n] EXCEPT !.initialPublish = TRUE] ELSE cl.data[n]]
            marked == [cl EXCEPT !.data = data]
            msgs == [i \in 1..Cardinality(N) |->
                 [id |-> cl.data[InOrder(N)[i]].id,
                  value |-> Sent(InOrder(N)[i], s.topics[InOrder(N)[i]].value)]]
<1>1. SendTo(s, c, N) = IF c = Self THEN [cl EXCEPT !.peer = ReadBinary(@, msgs)] ELSE PushBinary(marked, msgs)
  BY DEF SendTo
<1>2. DOMAIN cl = Field
  BY DEF Shape, Caches
<1>. HIDE DEF cl, data, msgs
<1>3. Ident(cl, marked) /\ DOMAIN marked = Field
  BY <1>2 DEF Ident, Field
<1>. HIDE DEF marked
<1>4. Ident(marked, PushBinary(marked, msgs))
  BY <1>3 DEF PushBinary, Ident, Field
<1>5. Ident(cl, PushBinary(marked, msgs)) /\ Ident(cl, [cl EXCEPT !.peer = ReadBinary(@, msgs)])
  BY <1>2, <1>3, <1>4 DEF Ident, Field
<1>6. QED
  BY <1>1, <1>5 DEF cl

\* An operator that leaves the topics alone and works on the records.
LEMMA LeadsCarries ==
  ASSUME NEW s, GoodState(s), NEW t, Leads(s, t), t.topics = s.topics,
         \A c \in DOMAIN s.clients : Ident(s.clients[c], t.clients[c])
  PROVE  Carries(s, t)
BY DEF Carries

LEMMA OnClientCarries ==
  ASSUME NEW s, GoodState(s), NEW c \in DOMAIN s.clients, NEW r, Ident(s.clients[c], r),
         Leads(s, OnClient(s, c, r))
  PROVE  Carries(s, OnClient(s, c, r)) /\ OnClient(s, c, r).topics = s.topics
<1>1. /\ DOMAIN s = {"topics", "clients"} /\ \A d \in DOMAIN s.clients : Shape(s.clients[d])
  BY DEF GoodState, Safe
<1>2. OnClient(s, c, r).topics = s.topics /\ OnClient(s, c, r).clients = [s.clients EXCEPT ![c] = r]
  BY <1>1 DEF OnClient
<1>3. \A d \in DOMAIN s.clients : Ident(s.clients[d], OnClient(s, c, r).clients[d])
  BY <1>1, <1>2, IdentsStay
<1>4. QED
  BY <1>2, <1>3, LeadsCarries

\* The loops over the clients.
LEMMA LoopsCarry ==
  ASSUME NEW s, GoodState(s)
  PROVE  /\ \A n \in DOMAIN s.topics :
              /\ Carries(s, AnnounceToAll(s, n)) /\ AnnounceToAll(s, n).topics = s.topics
              /\ Carries(s, TellProperties(s, n)) /\ TellProperties(s, n).topics = s.topics
              /\ \A p \in Client : /\ Carries(s, AnnounceToAllFrom(s, n, p))
                                   /\ AnnounceToAllFrom(s, n, p).topics = s.topics
         /\ Carries(s, FlushAllText(s)) /\ FlushAllText(s).topics = s.topics
         /\ Carries(s, FlushAllBinary(s)) /\ FlushAllBinary(s).topics = s.topics
<1>1. /\ DOMAIN s = {"topics", "clients"} /\ \A d \in DOMAIN s.clients : Shape(s.clients[d])
  BY DEF GoodState, Safe
<1>2. ASSUME NEW n \in DOMAIN s.topics
      PROVE  /\ Carries(s, AnnounceToAll(s, n)) /\ AnnounceToAll(s, n).topics = s.topics
             /\ Carries(s, TellProperties(s, n)) /\ TellProperties(s, n).topics = s.topics
  <2>1. /\ AnnounceToAll(s, n).topics = s.topics
        /\ \A c \in DOMAIN s.clients : Ident(s.clients[c], AnnounceToAll(s, n).clients[c])
    BY <1>1, IdentsStay DEF AnnounceToAll, Announce
  <2>2. /\ TellProperties(s, n).topics = s.topics
        /\ \A c \in DOMAIN s.clients : Ident(s.clients[c], TellProperties(s, n).clients[c])
    BY <1>1, IdentsStay DEF TellProperties
  <2>3. Leads(s, AnnounceToAll(s, n)) /\ Leads(s, TellProperties(s, n))
    BY LoopsLead
  <2>4. QED
    BY <2>1, <2>2, <2>3, LeadsCarries
<1>3. ASSUME NEW n \in DOMAIN s.topics, NEW p \in Client
      PROVE  Carries(s, AnnounceToAllFrom(s, n, p)) /\ AnnounceToAllFrom(s, n, p).topics = s.topics
  <2>1. /\ AnnounceToAllFrom(s, n, p).topics = s.topics
        /\ \A c \in DOMAIN s.clients : Ident(s.clients[c], AnnounceToAllFrom(s, n, p).clients[c])
    BY <1>1, IdentsStay DEF AnnounceToAllFrom, Announce
  <2>2. Leads(s, AnnounceToAllFrom(s, n, p))
    BY LoopsLead
  <2>3. QED
    BY <2>1, <2>2, LeadsCarries
<1>4. /\ FlushAllText(s).topics = s.topics
      /\ \A c \in DOMAIN s.clients : Ident(s.clients[c], FlushAllText(s).clients[c])
  BY <1>1, IdentsStay DEF FlushAllText
<1>5. /\ FlushAllBinary(s).topics = s.topics
      /\ \A c \in DOMAIN s.clients : Ident(s.clients[c], FlushAllBinary(s).clients[c])
  BY <1>1, IdentsStay DEF FlushAllBinary
<1>6. Leads(s, FlushAllText(s)) /\ Leads(s, FlushAllBinary(s))
  BY LoopsLead
<1>7. QED
  BY <1>2, <1>3, <1>4, <1>5, <1>6, LeadsCarries

\* Serving one client.
LEMMA ServeCarries ==
  ASSUME NEW s, GoodState(s), NEW c \in DOMAIN s.clients
  PROVE  /\ Carries(s, AnnounceCached(s, c)) /\ AnnounceCached(s, c).topics = s.topics
         /\ \A n \in DOMAIN s.topics :
              LET t == OnClient(s, c, AnnounceToPublisher(s.clients[c], n))
                  q == OnClient(s, Self, AssignIds(s.clients[Self], {n}))
              IN Carries(s, t) /\ t.topics = s.topics /\ Carries(s, q) /\ q.topics = s.topics
         /\ LET t == OnClient(s, c, FlushText(s.clients[c]))
                q == OnClient(s, c, FlushBinary(s.clients[c]))
            IN Carries(s, t) /\ t.topics = s.topics /\ Carries(s, q) /\ q.topics = s.topics
         /\ Carries(s, PublishInitialValues(s, c)) /\ PublishInitialValues(s, c).topics = s.topics
<1>1. Self \in DOMAIN s.clients /\ \A d \in DOMAIN s.clients : Shape(s.clients[d])
  BY DEF GoodState, Safe
<1>2. Carries(s, AnnounceCached(s, c)) /\ AnnounceCached(s, c).topics = s.topics
  <2>1. \A N : Ident(s.clients[c], Announce(c, s.clients[c], N))
    BY <1>1, IdentsStay DEF Announce
  <2>2. QED
    BY <2>1, ServeLeads, OnClientCarries DEF AnnounceCached
<1>3. ASSUME NEW n \in DOMAIN s.topics
      PROVE  LET t == OnClient(s, c, AnnounceToPublisher(s.clients[c], n))
                 q == OnClient(s, Self, AssignIds(s.clients[Self], {n}))
             IN Carries(s, t) /\ t.topics = s.topics /\ Carries(s, q) /\ q.topics = s.topics
  BY <1>1, IdentsStay, ServeLeads, OnClientCarries
<1>4. LET t == OnClient(s, c, FlushText(s.clients[c]))
          q == OnClient(s, c, FlushBinary(s.clients[c]))
      IN Carries(s, t) /\ t.topics = s.topics /\ Carries(s, q) /\ q.topics = s.topics
  BY <1>1, IdentsStay, ServeLeads, OnClientCarries
<1>5. Carries(s, PublishInitialValues(s, c)) /\ PublishInitialValues(s, c).topics = s.topics
  BY <1>1, SendToIdent, InitialValuesLeads, OnClientCarries DEF PublishInitialValues
<1>6. QED
  BY <1>2, <1>3, <1>4, <1>5

-----------------------------------------------------------------------------
(* The values of meta-topics are refreshed.                                *)

\* The values of some topics change, to the truth.
LEMMA SetAndSendWhole ==
  ASSUME NEW s, NEW B, NEW H, NEW C, Whole(s, B, H, C), NEW value,
         \A n \in DOMAIN s.topics \cap DOMAIN value :
           /\ Truthful(s, n, value[n]) /\ value[n] \in ValuesOf(n)
           /\ ~IsMeta(n) => value[n][1] = s.topics[n].value[1]
  PROVE  /\ Carries(s, SetAndSend(s, value))
         /\ Whole(SetAndSend(s, value), B \ DOMAIN value, H, C)
<1>. DEFINE t == SetAndSend(s, value)
            V == DOMAIN value
            u == [s EXCEPT !.topics = [n \in DOMAIN @ |->
                    IF n \in V THEN [@[n] EXCEPT !.value = value[n]] ELSE @[n]]]
            N(c) == {n \in V \ Missed(s, c) : Follower(s.clients[c], n)}
<1>1. /\ GoodState(s) /\ DOMAIN s = {"topics", "clients"} /\ Self \in DOMAIN s.clients
      /\ \A c \in DOMAIN s.clients : Shape(s.clients[c])
      /\ \A n \in DOMAIN s.topics : {"value", "cached"} \subseteq DOMAIN s.topics[n]
  BY DEF Whole, GoodState, Safe
<1>2. /\ u.clients = s.clients /\ DOMAIN u.topics = DOMAIN s.topics
      /\ \A n \in DOMAIN s.topics \ V : u.topics[n] = s.topics[n]
      /\ \A n \in DOMAIN s.topics \cap V : u.topics[n].value = value[n]
      /\ \A n \in DOMAIN s.topics : u.topics[n].cached = s.topics[n].cached
      /\ DOMAIN u = {"topics", "clients"}
  BY <1>1
<1>3. t = SendUpdates(u, V)
  BY DEF SetAndSend
<1>4. Fits(u)
  <2>1. ASSUME NEW n \in DOMAIN s.topics PROVE u.topics[n] \in [value : ValuesOf(n), cached : BOOLEAN]
    <3>1. s.topics[n] \in [value : ValuesOf(n), cached : BOOLEAN]
      BY DEF Whole, Fits
    <3>2. CASE n \in V
      <4>1. value[n] \in ValuesOf(n)
        BY <3>2
      <4>2. u.topics[n] = [s.topics[n] EXCEPT !.value = value[n]]
        BY <1>1, <3>2
      <4>3. QED
        BY <3>1, <4>1, <4>2
    <3>3. CASE n \notin V
      BY <1>2, <3>1, <3>3
    <3>4. QED
      BY <3>2, <3>3
  <2>2. QED
    BY <1>2, <2>1 DEF Fits
<1>5. Leads(s, t)
  BY <1>1, SetAndSendLeads
<1>. HIDE DEF u, t
<1>6. t.topics = u.topics /\ t.clients = [c \in DOMAIN s.clients |-> SendTo(u, c, N(c))]
  BY <1>2, <1>3 DEF SendUpdates, Missed
<1>. HIDE DEF N
<1>7. \A c \in DOMAIN s.clients : Ident(s.clients[c], t.clients[c])
  BY <1>1, <1>2, <1>6, SendToIdent
<1>8. Carries(s, t)
  <2>1. ASSUME NEW n \in DOMAIN s.topics, ~IsMeta(n)
        PROVE  t.topics[n].value[1] = s.topics[n].value[1]
    <3>1. CASE n \in V
      <4>1. value[n][1] = s.topics[n].value[1]
        BY <2>1, <3>1
      <4>2. t.topics[n].value = value[n]
        BY <1>2, <1>6, <3>1
      <4>3. QED
        BY <4>1, <4>2
    <3>2. CASE n \notin V
      BY <1>2, <1>6, <3>2
    <3>3. QED
      BY <3>1, <3>2
  <2>2. \A n \in DOMAIN s.topics : t.topics[n].cached = s.topics[n].cached
    BY <1>2, <1>6
  <2>3. QED
    BY <1>5, <1>7, <2>1, <2>2 DEF Carries
<1>9. /\ GoodState(t) /\ DOMAIN t.clients = DOMAIN s.clients
      /\ \A c \in DOMAIN s.clients : DOMAIN s.clients[c].data \subseteq DOMAIN t.clients[c].data
  BY <1>5 DEF Leads, Follows, Grows
<1>10. Remote(t) = Remote(s) /\ (\A c \in Remote(s) : c \in DOMAIN s.clients) /\ Declared(t) = Declared(s)
  BY <1>2, <1>6, <1>9 DEF Remote, Declared
<1>11. \A n \in DOMAIN t.topics \ (B \ V) : Truthful(s, n, t.topics[n].value)
  BY <1>2, <1>6 DEF Whole
<1>12. \A n \in DOMAIN t.topics \ (B \ V) : Truthful(t, n, t.topics[n].value)
  BY <1>1, <1>7, <1>9, <1>10, <1>11, SameTruth
<1>13. Named(t) /\ Fits(t) /\ \A c \in DOMAIN t.clients : Declares(t.clients[c])
  <2>1. Named(t) /\ \A c \in DOMAIN t.clients : Declares(t.clients[c])
    BY <1>1, <1>7, <1>9, <1>10 DEF Whole, Named, Declares, Ident
  <2>2. Fits(t)
    BY <1>6, <1>4 DEF Fits
  <2>3. QED
    BY <2>1, <2>2
<1>14. Needed(t, DOMAIN t.topics \cup H)
  BY <1>2, <1>6, <1>7, <1>10 DEF Whole, Needed, Ident
<1>15. ASSUME NEW c \in DOMAIN t.clients \ C PROVE Heard(t, c)
  <2>1. \A n : IsSubscribed(t.clients[c], n) <=> IsSubscribed(s.clients[c], n)
    BY <1>7, <1>9 DEF Ident, IsSubscribed
  <2>2. Heard(s, c)
    BY <1>9 DEF Whole
  <2>3. QED
    BY <1>2, <1>6, <1>9, <2>1, <2>2 DEF Heard
<1>16. Whole(t, B \ V, H, C)
  BY <1>2, <1>6, <1>9, <1>12, <1>13, <1>14, <1>15 DEF Whole
<1>17. QED
  BY <1>8, <1>16 DEF t

\* The topics about the server and its clients.
LEMMA UpdateClientsWhole ==
  ASSUME NEW s, NEW B, NEW H, NEW C, Whole(s, B, H, C)
  PROVE  /\ Carries(s, UpdateClientsMeta(s)) /\ Whole(UpdateClientsMeta(s), B \ {ClientsTopic}, H, C)
         /\ Carries(s, UpdateServerSubMeta(s)) /\ Whole(UpdateServerSubMeta(s), B \ {ServerSubTopic}, H, C)
         /\ Carries(s, UpdateServerPubMeta(s)) /\ Whole(UpdateServerPubMeta(s), B \ {ServerPubTopic}, H, C)
<1>1. \A m \in Declared(s) : m \in Regular
  BY DEF Declared
<1>2. /\ Truthful(s, ClientsTopic, {s.clients[c].name : c \in Remote(s)})
      /\ Truthful(s, ServerSubTopic, Subscriptions(s.clients[Self]))
      /\ Truthful(s, ServerPubTopic, Publishers(s.clients[Self]))
  BY <1>1, Kinds DEF Truthful
<1>3. /\ {s.clients[c].name : c \in Remote(s)} \in ValuesOf(ClientsTopic)
      /\ Subscriptions(s.clients[Self]) \in ValuesOf(ServerSubTopic)
      /\ Publishers(s.clients[Self]) \in ValuesOf(ServerPubTopic)
  <2>1. Declares(s.clients[Self]) /\ \A c \in Remote(s) : s.clients[c].name \in ClientName
    BY DEF Whole, GoodState, Safe, Named
  <2>2. QED
    BY <2>1, DeclaredValues, MetaValues
<1>4. Carries(s, UpdateClientsMeta(s)) /\ Whole(UpdateClientsMeta(s), B \ {ClientsTopic}, H, C)
  <2>. DEFINE value == [n \in {ClientsTopic} |-> {s.clients[c].name : c \in Remote(s)}]
  <2>1. /\ DOMAIN value = {ClientsTopic} /\ UpdateClientsMeta(s) = SetAndSend(s, value)
        /\ \A n \in DOMAIN value : Truthful(s, n, value[n]) /\ value[n] \in ValuesOf(n) /\ IsMeta(n)
    BY <1>2, <1>3, Kinds DEF UpdateClientsMeta
  <2>. HIDE DEF value
  <2>2. QED
    BY <2>1, SetAndSendWhole
<1>5. Carries(s, UpdateServerSubMeta(s)) /\ Whole(UpdateServerSubMeta(s), B \ {ServerSubTopic}, H, C)
  <2>. DEFINE value == [n \in {ServerSubTopic} |-> Subscriptions(s.clients[Self])]
  <2>1. /\ DOMAIN value = {ServerSubTopic} /\ UpdateServerSubMeta(s) = SetAndSend(s, value)
        /\ \A n \in DOMAIN value : Truthful(s, n, value[n]) /\ value[n] \in ValuesOf(n) /\ IsMeta(n)
    BY <1>2, <1>3, Kinds DEF UpdateServerSubMeta
  <2>. HIDE DEF value
  <2>2. QED
    BY <2>1, SetAndSendWhole
<1>6. Carries(s, UpdateServerPubMeta(s)) /\ Whole(UpdateServerPubMeta(s), B \ {ServerPubTopic}, H, C)
  <2>. DEFINE value == [n \in {ServerPubTopic} |-> Publishers(s.clients[Self])]
  <2>1. /\ DOMAIN value = {ServerPubTopic} /\ UpdateServerPubMeta(s) = SetAndSend(s, value)
        /\ \A n \in DOMAIN value : Truthful(s, n, value[n]) /\ value[n] \in ValuesOf(n) /\ IsMeta(n)
    BY <1>2, <1>3, Kinds DEF UpdateServerPubMeta
  <2>. HIDE DEF value
  <2>2. QED
    BY <2>1, SetAndSendWhole
<1>7. QED
  BY <1>4, <1>5, <1>6

\* Clients have different names, so that each has its own two topics.
LEMMA UpdateClientWhole ==
  ASSUME NEW s, NEW B, NEW H, NEW C, Whole(s, B, H, C), NEW c \in Remote(s)
  PROVE  LET name == s.clients[c].name
         IN /\ Carries(s, UpdateClientSubMeta(s, c))
            /\ Whole(UpdateClientSubMeta(s, c), B \ {ClientSubTopic(name)}, H, C)
            /\ Carries(s, UpdateClientPubMeta(s, c))
            /\ Whole(UpdateClientPubMeta(s, c), B \ {ClientPubTopic(name)}, H, C)
<1>. DEFINE name == s.clients[c].name
<1>1. \A m \in Declared(s) : m \in Regular
  BY DEF Declared
<1>2. \A d \in Remote(s) : s.clients[d].name = name => d = c
  BY DEF Whole, Named
<1>3. /\ Truthful(s, ClientSubTopic(name), Subscriptions(s.clients[c]))
      /\ Truthful(s, ClientPubTopic(name), Publishers(s.clients[c]))
  BY <1>1, <1>2, Kinds, ClientOf DEF Truthful
<1>4. /\ Subscriptions(s.clients[c]) \in ValuesOf(ClientSubTopic(name))
      /\ Publishers(s.clients[c]) \in ValuesOf(ClientPubTopic(name))
  <2>1. Declares(s.clients[c])
    BY DEF Whole, Remote
  <2>2. QED
    BY <2>1, DeclaredValues, MetaValues
<1>5. Carries(s, UpdateClientSubMeta(s, c)) /\ Whole(UpdateClientSubMeta(s, c), B \ {ClientSubTopic(name)}, H, C)
  <2>. DEFINE value == [n \in {ClientSubTopic(name)} |-> Subscriptions(s.clients[c])]
  <2>1. /\ DOMAIN value = {ClientSubTopic(name)} /\ UpdateClientSubMeta(s, c) = SetAndSend(s, value)
        /\ \A n \in DOMAIN value : Truthful(s, n, value[n]) /\ value[n] \in ValuesOf(n) /\ IsMeta(n)
    BY <1>3, <1>4, Kinds DEF UpdateClientSubMeta
  <2>. HIDE DEF value
  <2>2. QED
    BY <2>1, SetAndSendWhole
<1>6. Carries(s, UpdateClientPubMeta(s, c)) /\ Whole(UpdateClientPubMeta(s, c), B \ {ClientPubTopic(name)}, H, C)
  <2>. DEFINE value == [n \in {ClientPubTopic(name)} |-> Publishers(s.clients[c])]
  <2>1. /\ DOMAIN value = {ClientPubTopic(name)} /\ UpdateClientPubMeta(s, c) = SetAndSend(s, value)
        /\ \A n \in DOMAIN value : Truthful(s, n, value[n]) /\ value[n] \in ValuesOf(n) /\ IsMeta(n)
    BY <1>3, <1>4, Kinds DEF UpdateClientPubMeta
  <2>. HIDE DEF value
  <2>2. QED
    BY <2>1, SetAndSendWhole
<1>7. QED
  BY <1>5, <1>6

\* The two topics of an ordinary one, and its own value.
LEMMA UpdateTopicWhole ==
  ASSUME NEW s, NEW B, NEW H, NEW C, Whole(s, B, H, C)
  PROVE  /\ \A N \in SUBSET Regular : (\A n \in N : SubTopic(n) \in DOMAIN s.topics) =>
              /\ Carries(s, UpdateTopicSubMeta(s, N))
              /\ Whole(UpdateTopicSubMeta(s, N), B \ {SubTopic(n) : n \in N}, H, C)
         /\ \A n \in Regular :
              /\ PubTopic(n) \in DOMAIN s.topics =>
                   /\ Carries(s, UpdateTopicPubMeta(s, n))
                   /\ Whole(UpdateTopicPubMeta(s, n), B \ {PubTopic(n)}, H, C)
              /\ \A v \in Value : /\ Carries(s, UpdateValue(s, n, v))
                                 /\ Whole(UpdateValue(s, n, v), B, H, C)
<1>1. \A m \in Declared(s) : m \in Regular
  BY DEF Declared
<1>2. ASSUME NEW N \in SUBSET Regular, \A n \in N : SubTopic(n) \in DOMAIN s.topics
      PROVE  /\ Carries(s, UpdateTopicSubMeta(s, N))
             /\ Whole(UpdateTopicSubMeta(s, N), B \ {SubTopic(n) : n \in N}, H, C)
  <2>. DEFINE T == {SubTopic(n) : n \in N}
              value == [m \in T |-> TopicSubscriptions(s, CHOOSE n \in N : SubTopic(n) = m)]
  <2>1. ASSUME NEW n \in N PROVE value[SubTopic(n)] = TopicSubscriptions(s, n)
    <3>1. (CHOOSE m \in N : SubTopic(m) = SubTopic(n)) = n
      BY TopicOf
    <3>2. QED
      BY <3>1
  <2>2. ASSUME NEW n \in N PROVE Truthful(s, SubTopic(n), TopicSubscriptions(s, n))
    <3>1. ASSUME NEW c \in Remote(s), IsSubscribed(s.clients[c], n)
          PROVE  \E u \in SubUid : <<s.clients[c].name, u>> \in TopicSubscriptions(s, n)
      <4>. DEFINE u == CHOOSE u \in DOMAIN s.clients[c].subs : Matches(s.clients[c].subs[u], n)
      <4>1. u \in DOMAIN s.clients[c].subs
        BY <3>1 DEF IsSubscribed
      <4>2. u \in SubUid
        BY <4>1 DEF Whole, Declares, SubsDeclared, Remote
      <4>3. <<s.clients[c].name, u>> \in TopicSubscriptions(s, n)
        BY <3>1 DEF TopicSubscriptions
      <4>4. QED
        BY <4>2, <4>3
    <3>2. \A m \in Declared(s) : SubTopic(n) = SubTopic(m) => m = n
      BY <1>1, TopicOf
    <3>3. QED
      BY <1>1, <3>1, <3>2, Kinds DEF Truthful
  <2>3. ASSUME NEW n \in N PROVE TopicSubscriptions(s, n) \in ValuesOf(SubTopic(n))
    <3>1. ASSUME NEW c \in Remote(s), IsSubscribed(s.clients[c], n)
          PROVE  /\ s.clients[c].name \in ClientName
                 /\ (CHOOSE u \in DOMAIN s.clients[c].subs : Matches(s.clients[c].subs[u], n)) \in SubUid
      BY <3>1 DEF Whole, Named, Declares, SubsDeclared, Remote, IsSubscribed
    <3>2. TopicSubscriptions(s, n) \subseteq ClientName \X SubUid
      BY <3>1 DEF TopicSubscriptions
    <3>3. QED
      BY <3>2, MetaValues
  <2>4. /\ DOMAIN value = T /\ UpdateTopicSubMeta(s, N) = SetMeta(s, value) /\ T \subseteq DOMAIN s.topics
        /\ \A n \in DOMAIN value : Truthful(s, n, value[n]) /\ value[n] \in ValuesOf(n) /\ IsMeta(n)
    BY <1>2, <2>1, <2>2, <2>3, Kinds DEF UpdateTopicSubMeta
  <2>. HIDE DEF value
  <2>5. UpdateTopicSubMeta(s, N) = SetAndSend(s, value)
    BY <2>4 DEF SetMeta
  <2>6. QED
    BY <2>4, <2>5, SetAndSendWhole
<1>3. ASSUME NEW n \in Regular, PubTopic(n) \in DOMAIN s.topics
      PROVE  /\ Carries(s, UpdateTopicPubMeta(s, n))
             /\ Whole(UpdateTopicPubMeta(s, n), B \ {PubTopic(n)}, H, C)
  <2>. DEFINE value == [m \in {PubTopic(n)} |-> TopicPublishers(s, n)]
  <2>1. \A m \in Declared(s) : PubTopic(n) = PubTopic(m) => m = n
    BY <1>1, TopicOf
  <2>2. Truthful(s, PubTopic(n), TopicPublishers(s, n))
    BY <1>1, <2>1, Kinds DEF Truthful
  <2>3. TopicPublishers(s, n) \in ValuesOf(PubTopic(n))
    <3>1. \A c \in Remote(s) : s.clients[c].name \in ClientName /\ DOMAIN s.clients[c].pubs \subseteq PubUid
      BY DEF Whole, Named, Declares, PubsDeclared, Remote
    <3>2. TopicPublishers(s, n) \subseteq ClientName \X PubUid
      BY <3>1 DEF TopicPublishers
    <3>3. QED
      BY <3>2, MetaValues
  <2>4. /\ DOMAIN value = {PubTopic(n)} /\ UpdateTopicPubMeta(s, n) = SetMeta(s, value)
        /\ \A m \in DOMAIN value : Truthful(s, m, value[m]) /\ value[m] \in ValuesOf(m) /\ IsMeta(m)
    BY <2>2, <2>3, Kinds DEF UpdateTopicPubMeta
  <2>. HIDE DEF value
  <2>5. UpdateTopicPubMeta(s, n) = SetAndSend(s, value)
    BY <1>3, <2>4 DEF SetMeta
  <2>6. QED
    BY <2>4, <2>5, SetAndSendWhole
<1>4. ASSUME NEW n \in Regular, NEW v \in Value
      PROVE  Carries(s, UpdateValue(s, n, v)) /\ Whole(UpdateValue(s, n, v), B, H, C)
  <2>. DEFINE old == s.topics[n].value
              value == [m \in {n} |-> Assign(old, v)]
  <2>1. Truthful(s, n, Assign(old, v))
    BY <1>1, Kinds DEF Truthful
  <2>2. Assign(old, v)[1] = old[1]
    BY DEF Assign
  <2>3. n \in DOMAIN s.topics => Assign(old, v) \in ValuesOf(n)
    BY TopicValues DEF Whole, Fits
  <2>4. /\ DOMAIN value = {n} /\ UpdateValue(s, n, v) = SetAndSend(s, value)
        /\ \A m \in DOMAIN s.topics \cap DOMAIN value :
             Truthful(s, m, value[m]) /\ value[m] \in ValuesOf(m) /\ value[m][1] = s.topics[m].value[1]
    BY <2>1, <2>2, <2>3 DEF UpdateValue
  <2>. HIDE DEF value
  <2>5. Carries(s, UpdateValue(s, n, v)) /\ Whole(UpdateValue(s, n, v), B \ {n}, H, C)
    BY <2>4, SetAndSendWhole
  <2>6. QED
    BY <2>5, WholeMore
<1>5. QED
  BY <1>2, <1>3, <1>4

-----------------------------------------------------------------------------
(* Topics are published and announced.                                     *)

\* Whom a topic is announced to has an id for it.
LEMMA AnnounceGives ==
  ASSUME NEW cl, Shape(cl), NEW N, N \subseteq Name
  PROVE  /\ \A c : N \subseteq DOMAIN Announce(c, cl, N).data
         /\ \A n \in N : n \in DOMAIN AnnounceToPublisher(cl, n).data
<1>1. ASSUME NEW M, M \subseteq Name
      PROVE  /\ M \subseteq DOMAIN AssignIds(cl, M).data
             /\ DOMAIN AssignIds(cl, M) = Field
             /\ \A msgs : PushText(AssignIds(cl, M), msgs).data = AssignIds(cl, M).data
  <2>. DEFINE a == AssignIds(cl, M)
  <2>1. DOMAIN a.data = DOMAIN cl.data \cup M /\ Quiet(cl, a, M)
    BY <1>1, AssignIdsProperties
  <2>. HIDE DEF a
  <2>2. DOMAIN a = Field
    BY <2>1 DEF Quiet, Shape, Caches
  <2>3. \A msgs : PushText(a, msgs).data = a.data
    BY <2>2 DEF PushText, Field
  <2>4. QED
    BY <2>1, <2>2, <2>3 DEF a
<1>2. ASSUME NEW c PROVE N \subseteq DOMAIN Announce(c, cl, N).data
  <2>. DEFINE a == AssignIds(cl, N)
  <2>1. N \subseteq DOMAIN a.data /\ DOMAIN a = Field
    BY <1>1
  <2>2. AnnounceTo(cl, N).data = a.data
    BY <1>1 DEF AnnounceTo
  <2>3. AnnounceSelf(cl, N) = [a EXCEPT !.peer = ReadText(@, Announcements(a, N))]
    BY DEF AnnounceSelf
  <2>. HIDE DEF a
  <2>4. AnnounceSelf(cl, N).data = a.data
    BY <2>1, <2>3 DEF Field
  <2>5. QED
    BY <2>1, <2>2, <2>4 DEF Announce
<1>3. ASSUME NEW n \in N PROVE n \in DOMAIN AnnounceToPublisher(cl, n).data
  <2>1. {n} \subseteq Name
    OBVIOUS
  <2>2. QED
    BY <1>1, <2>1 DEF AnnounceToPublisher
<1>4. QED
  BY <1>2, <1>3

\* All that subscribe to n have an id for it.
Reached(s, n) ==
  \A c \in DOMAIN s.clients : IsSubscribed(s.clients[c], n) => n \in DOMAIN s.clients[c].data

LEMMA AnnounceReaches ==
  ASSUME NEW s, GoodState(s), NEW n \in DOMAIN s.topics
  PROVE  Reached(AnnounceToAll(s, n), n) /\ \A p \in Client : Reached(AnnounceToAllFrom(s, n, p), n)
<1>1. /\ DOMAIN s = {"topics", "clients"} /\ \A c \in DOMAIN s.clients : Shape(s.clients[c])
      /\ {n} \subseteq Name
  BY DEF GoodState, Safe
<1>2. ASSUME NEW t, t = AnnounceToAll(s, n) \/ \E p \in Client : t = AnnounceToAllFrom(s, n, p)
      PROVE  Reached(t, n)
  <2>1. Carries(s, t)
    BY <1>2, LoopsCarry
  <2>2. DOMAIN t.clients = DOMAIN s.clients
    BY <2>1 DEF Carries, Leads, Follows
  <2>3. ASSUME NEW c \in DOMAIN t.clients, IsSubscribed(t.clients[c], n)
        PROVE  n \in DOMAIN t.clients[c].data
    <3>1. IsSubscribed(s.clients[c], n)
      BY <2>1, <2>2, <2>3 DEF Carries, Ident, IsSubscribed
    <3>2. \/ t.clients[c] = Announce(c, s.clients[c], {n})
          \/ t.clients[c] = AnnounceToPublisher(s.clients[c], n)
      BY <1>1, <1>2, <2>2, <3>1 DEF AnnounceToAll, AnnounceToAllFrom
    <3>3. QED
      BY <1>1, <2>2, <3>2, AnnounceGives
  <2>4. QED
    BY <2>3 DEF Reached
<1>3. QED
  BY <1>2

\* getOrCreateTopic and the announcement that follows it.
LEMMA CreateWhole ==
  ASSUME NEW s, NEW B, NEW H, NEW C, Whole(s, B, H, C),
         NEW n \in Name, NEW value \in ValuesOf(n), NEW cached \in BOOLEAN,
         NEW t, Carries(GetOrCreate(s, n, value, cached), t),
         t.topics = GetOrCreate(s, n, value, cached).topics, Reached(t, n)
  PROVE  /\ Carries(s, t) /\ n \in DOMAIN t.topics
         /\ IsMeta(n) => Whole(t, B \cup {n}, H \ {n}, C)
         /\ n \in Regular =>
              Whole(t, B \cup {SubTopic(n), PubTopic(n)}, H \cup {SubTopic(n), PubTopic(n)}, C)
<1>. DEFINE u == GetOrCreate(s, n, value, cached)
<1>1. /\ GoodState(s) /\ DOMAIN s = {"topics", "clients"} /\ Self \in DOMAIN s.clients
  BY DEF Whole, GoodState, Safe
<1>2. /\ u.clients = s.clients /\ DOMAIN u.topics = DOMAIN s.topics \cup {n}
      /\ \A m \in DOMAIN s.topics : u.topics[m] = s.topics[m]
      /\ n \notin DOMAIN s.topics => u.topics[n] = [value |-> value, cached |-> cached]
  BY <1>1 DEF GetOrCreate
<1>3. Leads(s, u)
  BY <1>1, GetOrCreateLeads
<1>. HIDE DEF u
<1>4. Carries(s, u)
  BY <1>2, <1>3 DEF Carries, Ident
<1>5. Carries(s, t)
  BY <1>4, CarriesTransitive DEF u
<1>6. /\ DOMAIN t.topics = DOMAIN s.topics \cup {n}
      /\ \A m \in DOMAIN s.topics : t.topics[m] = s.topics[m]
      /\ n \notin DOMAIN s.topics => t.topics[n] = [value |-> value, cached |-> cached]
  BY <1>2 DEF u
<1>7. /\ GoodState(t) /\ DOMAIN t.clients = DOMAIN s.clients
      /\ \A c \in DOMAIN s.clients :
           /\ Ident(s.clients[c], t.clients[c])
           /\ DOMAIN s.clients[c].data \subseteq DOMAIN t.clients[c].data
  BY <1>5 DEF Carries, Leads, Follows, Grows
<1>8. Remote(t) = Remote(s) /\ \A c \in Remote(s) : c \in DOMAIN s.clients
  BY <1>7 DEF Remote
<1>9. Named(t) /\ Fits(t) /\ \A c \in DOMAIN t.clients : Declares(t.clients[c])
  <2>1. Named(t) /\ \A c \in DOMAIN t.clients : Declares(t.clients[c])
    BY <1>1, <1>7, <1>8 DEF Whole, Named, Declares, Ident
  <2>2. Fits(t)
    BY <1>6 DEF Whole, Fits
  <2>3. QED
    BY <2>1, <2>2
<1>10. ASSUME NEW c \in DOMAIN t.clients \ C PROVE Heard(t, c)
  <2>1. \A m : IsSubscribed(t.clients[c], m) <=> IsSubscribed(s.clients[c], m)
    BY <1>7 DEF Ident, IsSubscribed
  <2>2. Heard(s, c)
    BY <1>7 DEF Whole
  <2>3. QED
    BY <1>6, <1>7, <2>1, <2>2 DEF Heard, Reached
<1>11. ASSUME NEW X, \A m \in Declared(t) \ Declared(s) : {SubTopic(m), PubTopic(m)} \subseteq X,
              NEW m \in DOMAIN s.topics \ (B \cup X)
       PROVE  Truthful(t, m, t.topics[m].value)
  <2>1. Truthful(s, m, s.topics[m].value)
    BY <1>11 DEF Whole
  <2>2. \A d \in Declared(t) \ Declared(s) : m # SubTopic(d) /\ m # PubTopic(d)
    BY <1>11
  <2>3. QED
    BY <1>1, <1>6, <1>7, <2>1, <2>2, SameTruth
<1>12. ASSUME IsMeta(n) PROVE Whole(t, B \cup {n}, H \ {n}, C)
  <2>1. Declared(t) = Declared(s)
    BY <1>6, <1>12, Kinds DEF Declared
  <2>2. \A m \in DOMAIN t.topics \ (B \cup {n}) : Truthful(t, m, t.topics[m].value)
    BY <1>6, <1>11, <2>1
  <2>3. Needed(t, DOMAIN t.topics \cup (H \ {n}))
    BY <1>6, <1>7, <1>8, <2>1 DEF Whole, Needed, Ident
  <2>4. QED
    BY <1>7, <1>9, <1>10, <2>2, <2>3 DEF Whole
<1>13. ASSUME n \in Regular
       PROVE  Whole(t, B \cup {SubTopic(n), PubTopic(n)}, H \cup {SubTopic(n), PubTopic(n)}, C)
  <2>. DEFINE X == {SubTopic(n), PubTopic(n)}
  <2>1. Declared(t) = Declared(s) \cup {n} /\ \A m \in Declared(t) : m \in Regular
    BY <1>6, <1>13 DEF Declared
  <2>2. Truthful(t, n, t.topics[n].value)
    BY <1>13, <2>1, Kinds DEF Truthful
  <2>3. \A m \in Declared(t) \ Declared(s) : {SubTopic(m), PubTopic(m)} \subseteq X
    BY <2>1
  <2>. HIDE DEF X
  <2>4. \A m \in DOMAIN t.topics \ (B \cup X) : Truthful(t, m, t.topics[m].value)
    BY <1>6, <1>11, <2>2, <2>3
  <2>5. Needed(t, DOMAIN t.topics \cup (H \cup X))
    BY <1>6, <1>7, <1>8, <2>3 DEF Whole, Needed, Ident
  <2>6. Whole(t, B \cup X, H \cup X, C)
    BY <1>7, <1>9, <1>10, <2>4, <2>5 DEF Whole
  <2>7. QED
    BY <2>6 DEF X
<1>14. QED
  BY <1>5, <1>6, <1>12, <1>13

\* A meta-topic is published: its value is still to come.
LEMMA PublishMetaWhole ==
  ASSUME NEW s, NEW B, NEW H, NEW C, Whole(s, B, H, C), NEW n \in Name, IsMeta(n)
  PROVE  /\ Carries(s, PublishMeta(s, n)) /\ Whole(PublishMeta(s, n), B \cup {n}, H \ {n}, C)
         /\ n \in DOMAIN PublishMeta(s, n).topics
<1>. DEFINE u == GetOrCreate(s, n, {}, TRUE)
            t == AnnounceToAll(u, n)
<1>1. GoodState(u) /\ n \in DOMAIN u.topics /\ {} \in ValuesOf(n)
  BY GetOrCreateLeads, NothingIsAValue DEF Whole, Leads
<1>2. Carries(u, t) /\ t.topics = u.topics /\ Reached(t, n)
  BY <1>1, LoopsCarry, AnnounceReaches
<1>3. t = PublishMeta(s, n)
  BY DEF PublishMeta
<1>. HIDE DEF t
<1>4. QED
  BY <1>1, <1>2, <1>3, CreateWhole

\* $sub$ and $pub$ of a topic are published and refreshed, if no announcement of the
\* three is refused.
LEMMA PublishTopicMetasWhole ==
  ASSUME AnnounceRefused = {},
         NEW s, NEW B, NEW H, NEW C, Whole(s, B, H, C), NEW n \in Regular
  PROVE  /\ Carries(s, PublishTopicMetas(s, n))
         /\ Whole(PublishTopicMetas(s, n), B \ {SubTopic(n), PubTopic(n)}, H \ {SubTopic(n), PubTopic(n)}, C)
<1>. DEFINE s1 == PublishMeta(s, SubTopic(n))
            s2 == PublishMeta(s1, PubTopic(n))
            s3 == UpdateTopicSubMeta(s2, {n})
            s4 == UpdateTopicPubMeta(s3, n)
            B1 == B \cup {SubTopic(n)}
            B2 == B1 \cup {PubTopic(n)}
            B3 == B2 \ {SubTopic(m) : m \in {n}}
            B4 == B3 \ {PubTopic(n)}
            H1 == H \ {SubTopic(n)}
            H2 == H1 \ {PubTopic(n)}
<1>0. /\ SubTopic(n) \in Name /\ PubTopic(n) \in Name /\ IsMeta(SubTopic(n)) /\ IsMeta(PubTopic(n))
      /\ {n} \in SUBSET Regular
  BY MetaNames, Kinds
<1>1. Carries(s, s1) /\ Whole(s1, B1, H1, C) /\ SubTopic(n) \in DOMAIN s1.topics
  BY <1>0, PublishMetaWhole
<1>. HIDE DEF s1, B1, H1
<1>2. Carries(s1, s2) /\ Whole(s2, B2, H2, C) /\ PubTopic(n) \in DOMAIN s2.topics
  BY <1>0, <1>1, PublishMetaWhole
<1>. HIDE DEF s2
<1>10. SubTopic(n) \in DOMAIN s2.topics
  BY <1>1, <1>2 DEF Carries, Leads, Follows
<1>3. Carries(s2, s3) /\ Whole(s3, B3, H2, C)
  BY <1>0, <1>2, <1>10, UpdateTopicWhole
<1>. HIDE DEF s3
<1>11. PubTopic(n) \in DOMAIN s3.topics
  BY <1>2, <1>3 DEF Carries, Leads, Follows
<1>4. Carries(s3, s4) /\ Whole(s4, B4, H2, C)
  BY <1>3, <1>11, UpdateTopicWhole
<1>5. B4 \subseteq B \ {SubTopic(n), PubTopic(n)} /\ H2 \subseteq H \ {SubTopic(n), PubTopic(n)}
  BY DEF B1, H1
<1>6. s4 = PublishTopicMetas(s, n)
  BY DEF PublishTopicMetas, Refused, s1, s2, s3
<1>. HIDE DEF s4, B4, H2
<1>7. Carries(s, s4)
  BY <1>1, <1>2, <1>3, <1>4, CarriesTransitive
<1>8. Whole(s4, B \ {SubTopic(n), PubTopic(n)}, H \ {SubTopic(n), PubTopic(n)}, C)
  BY <1>4, <1>5, WholeMore
<1>9. QED
  BY <1>6, <1>7, <1>8

\* publishTopic on behalf of a client or of the application.
LEMMA PublishWhole ==
  ASSUME AnnounceRefused = {},
         NEW s, NEW B, NEW H, NEW C, Whole(s, B, H, C),
         NEW n \in Regular, NEW value \in ValuesOf(n), NEW cached \in BOOLEAN
  PROVE  /\ \A p \in Client : /\ Carries(s, PublishFrom(s, n, value, cached, p))
                              /\ Whole(PublishFrom(s, n, value, cached, p), B, H \ {SubTopic(n), PubTopic(n)}, C)
         /\ Carries(s, PublishSelf(s, n, value, cached))
         /\ Whole(PublishSelf(s, n, value, cached), B, H \ {SubTopic(n), PubTopic(n)}, C)
<1>. DEFINE X == {SubTopic(n), PubTopic(n)}
            u == GetOrCreate(s, n, value, cached)
<1>1. n \in Name /\ GoodState(u) /\ n \in DOMAIN u.topics
  BY MetaNames, GetOrCreateLeads DEF Whole, Leads
<1>2. ASSUME NEW t, Carries(u, t), t.topics = u.topics, Reached(t, n)
      PROVE  Carries(s, PublishTopicMetas(t, n)) /\ Whole(PublishTopicMetas(t, n), B, H \ X, C)
  <2>1. Carries(s, t) /\ Whole(t, B \cup X, H \cup X, C)
    BY <1>1, <1>2, CreateWhole
  <2>2. /\ Carries(t, PublishTopicMetas(t, n))
        /\ Whole(PublishTopicMetas(t, n), (B \cup X) \ X, (H \cup X) \ X, C)
    BY <2>1, PublishTopicMetasWhole
  <2>3. (B \cup X) \ X \subseteq B /\ (H \cup X) \ X \subseteq H \ X
    OBVIOUS
  <2>. HIDE DEF X, u
  <2>4. QED
    BY <2>1, <2>2, <2>3, CarriesTransitive, WholeMore
<1>3. ASSUME NEW p \in Client
      PROVE  /\ Carries(s, PublishFrom(s, n, value, cached, p))
             /\ Whole(PublishFrom(s, n, value, cached, p), B, H \ X, C)
  <2>1. /\ Carries(u, AnnounceToAllFrom(u, n, p)) /\ AnnounceToAllFrom(u, n, p).topics = u.topics
        /\ Reached(AnnounceToAllFrom(u, n, p), n)
    BY <1>1, LoopsCarry, AnnounceReaches
  <2>2. PublishFrom(s, n, value, cached, p) = PublishTopicMetas(AnnounceToAllFrom(u, n, p), n)
    BY DEF PublishFrom
  <2>. HIDE DEF u
  <2>3. QED
    BY <1>2, <2>1, <2>2
<1>4. /\ Carries(s, PublishSelf(s, n, value, cached))
      /\ Whole(PublishSelf(s, n, value, cached), B, H \ X, C)
  <2>. DEFINE t == PublishTopicMetas(AnnounceToAll(u, n), n)
              cl == t.clients[Self]
              r == LookUpSelfId(cl, n)
  <2>1. /\ Carries(u, AnnounceToAll(u, n)) /\ AnnounceToAll(u, n).topics = u.topics
        /\ Reached(AnnounceToAll(u, n), n)
    BY <1>1, LoopsCarry, AnnounceReaches
  <2>2. PublishSelf(s, n, value, cached) = OnClient(t, Self, r)
    BY DEF PublishSelf, Refused
  <2>. HIDE DEF u
  <2>3. Carries(s, t) /\ Whole(t, B, H \ X, C)
    BY <1>2, <2>1
  <2>4. n \in DOMAIN u.topics /\ DOMAIN u.topics \subseteq DOMAIN AnnounceToAll(u, n).topics
    BY <1>1, <2>1
  <2>5. n \in DOMAIN t.topics
    <3>1. Whole(AnnounceToAll(u, n), B \cup X, H \cup X, C)
      BY <1>1, <2>1, CreateWhole DEF u
    <3>2. Carries(AnnounceToAll(u, n), t)
      BY <3>1, PublishTopicMetasWhole
    <3>3. QED
      BY <2>4, <3>2 DEF Carries, Leads, Follows
  <2>. HIDE DEF t
  <2>6. /\ GoodState(t) /\ Shape(cl) /\ n \in Name /\ Self \in DOMAIN t.clients
    BY <1>1, <2>3 DEF Whole, GoodState, Safe
  <2>7. Quiet(cl, r, DOMAIN t.topics) /\ Ident(cl, r)
    BY <2>5, <2>6, LookUpQuiet, QuietMore, IdentsStay
  <2>. HIDE DEF r
  <2>8. Leads(t, OnClient(t, Self, r))
    BY <2>6, <2>7, OnClientLeads DEF Ident
  <2>9. Carries(t, OnClient(t, Self, r)) /\ OnClient(t, Self, r).topics = t.topics
    BY <2>6, <2>7, <2>8, OnClientCarries
  <2>10. QED
    BY <2>2, <2>3, <2>9, CarriesTransitive, CarriesWhole
<1>5. QED
  BY <1>3, <1>4

-----------------------------------------------------------------------------
(* What a client declares changes.                                         *)

\* Whole says nothing of a state but its topics and its clients.
LEMMA SameWhole ==
  ASSUME NEW s, NEW B, NEW H, NEW C, Whole(s, B, H, C),
         NEW t, DOMAIN t = {"topics", "clients"}, t.topics = s.topics, t.clients = s.clients
  PROVE  Whole(t, B, H, C)
<1>1. GoodState(t) /\ Self \in DOMAIN s.clients
  BY DEF Whole, GoodState, Safe
<1>2. Leads(s, t)
  BY <1>1 DEF Leads, Follows, Grows, GoodState
<1>3. Carries(s, t)
  BY <1>2 DEF Carries, Ident
<1>4. QED
  BY <1>3, CarriesWhole

\* Its subscriptions,
LEMMA SubsChangeWhole ==
  ASSUME NEW s, Whole(s, {}, {}, {}), NEW c \in DOMAIN s.clients,
         NEW x, SubsDeclared(x), NEW B,
         IF c = Self THEN ServerSubTopic \in B
         ELSE /\ ClientSubTopic(s.clients[c].name) \in B
              /\ \A m \in Declared(s) : \A u \in DOMAIN x :
                   Matches(x[u], m) /\ ~IsSubscribed(s.clients[c], m) => SubTopic(m) \in B,
         NEW C, c \in C \/ \A m : \A u \in DOMAIN x : Matches(x[u], m) => IsSubscribed(s.clients[c], m)
  PROVE  Whole([s EXCEPT !.clients[c].subs = x], B, {}, C)
<1>. DEFINE t == [s EXCEPT !.clients[c].subs = x]
            cl == s.clients[c]
            r == t.clients[c]
<1>1. /\ GoodState(s) /\ DOMAIN s = {"topics", "clients"} /\ Self \in DOMAIN s.clients
      /\ DOMAIN cl = Field
  BY DEF Whole, GoodState, Safe, Shape, Caches
<1>2. GoodState(t) /\ t.topics = s.topics /\ DOMAIN t.clients = DOMAIN s.clients
  BY <1>1, ChangeFollows
<1>3. /\ \A d \in DOMAIN s.clients \ {c} : t.clients[d] = s.clients[d]
      /\ r.name = cl.name /\ r.pubs = cl.pubs /\ r.data = cl.data /\ r.subs = x
  BY <1>1 DEF Field
<1>. HIDE DEF t
<1>4. /\ \A d \in DOMAIN s.clients : /\ t.clients[d].name = s.clients[d].name
                                     /\ t.clients[d].pubs = s.clients[d].pubs
                                     /\ t.clients[d].data = s.clients[d].data
      /\ Remote(t) = Remote(s) /\ (\A d \in Remote(s) : d \in DOMAIN s.clients /\ d # Self)
      /\ Declared(t) = Declared(s)
  BY <1>2, <1>3 DEF Remote, Declared
<1>5. \A d \in DOMAIN s.clients : \A m :
        IsSubscribed(t.clients[d], m) =>
          \/ IsSubscribed(s.clients[d], m)
          \/ d = c /\ \E u \in DOMAIN x : Matches(x[u], m)
  BY <1>3 DEF IsSubscribed
<1>6. ASSUME NEW n \in DOMAIN t.topics \ B PROVE Truthful(t, n, t.topics[n].value)
  <2>. DEFINE v == s.topics[n].value
  <2>1. Truthful(s, n, v)
    BY <1>2 DEF Whole
  <2>. HIDE DEF v
  <2>2. n = ClientsTopic => v = {t.clients[d].name : d \in Remote(t)}
    BY <1>4, <2>1 DEF Truthful
  <2>3. n = ServerSubTopic => v = Subscriptions(t.clients[Self])
    BY <1>1, <1>3, <1>6, <2>1 DEF Truthful
  <2>4. n = ServerPubTopic => v = Publishers(t.clients[Self])
    BY <1>1, <1>4, <2>1 DEF Truthful, Publishers
  <2>5. ASSUME NEW d \in Remote(t)
        PROVE  /\ n = ClientSubTopic(t.clients[d].name) => v = Subscriptions(t.clients[d])
               /\ n = ClientPubTopic(t.clients[d].name) => v = Publishers(t.clients[d])
    <3>1. d = c => n # ClientSubTopic(t.clients[d].name)
      BY <1>4, <1>6, <2>5
    <3>2. QED
      BY <1>3, <1>4, <2>1, <2>5, <3>1 DEF Truthful, Publishers
  <2>6. ASSUME NEW m \in Declared(t), n = SubTopic(m), NEW d \in Remote(t), IsSubscribed(t.clients[d], m)
        PROVE  \E u \in SubUid : <<t.clients[d].name, u>> \in v
    <3>1. IsSubscribed(s.clients[d], m)
      BY <1>4, <1>5, <1>6, <2>6
    <3>2. QED
      BY <1>4, <2>1, <2>6, <3>1 DEF Truthful
  <2>7. ASSUME NEW m \in Declared(t), n = PubTopic(m) PROVE TopicPublishers(t, m) \subseteq v
    <3>1. TopicPublishers(t, m) = TopicPublishers(s, m)
      BY <1>4 DEF TopicPublishers
    <3>2. QED
      BY <1>4, <2>1, <2>7, <3>1 DEF Truthful
  <2>8. t.topics[n].value = v
    BY <1>2 DEF v
  <2>9. QED
    BY <2>2, <2>3, <2>4, <2>5, <2>6, <2>7, <2>8 DEF Truthful
<1>7. \A d \in DOMAIN t.clients : Declares(t.clients[d])
  BY <1>2, <1>3, <1>4 DEF Whole, Declares
<1>8. Named(t) /\ Fits(t) /\ Needed(t, DOMAIN t.topics \cup {})
  BY <1>1, <1>2, <1>4 DEF Whole, Named, Fits, Needed
<1>9. ASSUME NEW d \in DOMAIN t.clients \ C PROVE Heard(t, d)
  <2>1. Heard(s, d)
    BY <1>2 DEF Whole
  <2>2. \A m : IsSubscribed(t.clients[d], m) => IsSubscribed(s.clients[d], m)
    BY <1>2, <1>5, <1>9
  <2>3. QED
    BY <1>2, <1>4, <2>1, <2>2 DEF Heard
<1>10. QED
  BY <1>2, <1>6, <1>7, <1>8, <1>9 DEF Whole, t

\* and its publishers.
LEMMA PubsChangeWhole ==
  ASSUME NEW s, Whole(s, {}, {}, {}), NEW c \in DOMAIN s.clients,
         NEW x, PubsDeclared(x), NEW B, NEW H,
         IF c = Self THEN ServerPubTopic \in B
         ELSE /\ ClientPubTopic(s.clients[c].name) \in B
              /\ \A u \in DOMAIN x :
                   ~(u \in DOMAIN s.clients[c].pubs /\ s.clients[c].pubs[u] = x[u]) =>
                     PubTopic(x[u]) \in B /\ PubTopic(x[u]) \in DOMAIN s.topics \cup H
  PROVE  Whole([s EXCEPT !.clients[c].pubs = x], B, H, {})
<1>. DEFINE t == [s EXCEPT !.clients[c].pubs = x]
            cl == s.clients[c]
            r == t.clients[c]
<1>1. /\ GoodState(s) /\ DOMAIN s = {"topics", "clients"} /\ Self \in DOMAIN s.clients
      /\ DOMAIN cl = Field
  BY DEF Whole, GoodState, Safe, Shape, Caches
<1>2. GoodState(t) /\ t.topics = s.topics /\ DOMAIN t.clients = DOMAIN s.clients
  BY <1>1, ChangeFollows DEF Leads, Follows
<1>3. /\ \A d \in DOMAIN s.clients \ {c} : t.clients[d] = s.clients[d]
      /\ r.name = cl.name /\ r.subs = cl.subs /\ r.data = cl.data /\ r.pubs = x
  BY <1>1 DEF Field
<1>. HIDE DEF t
<1>4. /\ \A d \in DOMAIN s.clients : /\ t.clients[d].name = s.clients[d].name
                                     /\ t.clients[d].subs = s.clients[d].subs
                                     /\ t.clients[d].data = s.clients[d].data
      /\ Remote(t) = Remote(s) /\ (\A d \in Remote(s) : d \in DOMAIN s.clients /\ d # Self)
      /\ Declared(t) = Declared(s)
  BY <1>2, <1>3 DEF Remote, Declared
<1>5. \A d \in DOMAIN s.clients : \A m : IsSubscribed(t.clients[d], m) <=> IsSubscribed(s.clients[d], m)
  BY <1>4 DEF IsSubscribed
<1>6. ASSUME NEW n \in DOMAIN t.topics \ B PROVE Truthful(t, n, t.topics[n].value)
  <2>. DEFINE v == s.topics[n].value
  <2>1. Truthful(s, n, v)
    BY <1>2 DEF Whole
  <2>. HIDE DEF v
  <2>2. n = ClientsTopic => v = {t.clients[d].name : d \in Remote(t)}
    BY <1>4, <2>1 DEF Truthful
  <2>3. n = ServerPubTopic => v = Publishers(t.clients[Self])
    BY <1>1, <1>3, <1>6, <2>1 DEF Truthful
  <2>4. n = ServerSubTopic => v = Subscriptions(t.clients[Self])
    BY <1>1, <1>4, <2>1 DEF Truthful, Subscriptions
  <2>5. ASSUME NEW d \in Remote(t)
        PROVE  /\ n = ClientSubTopic(t.clients[d].name) => v = Subscriptions(t.clients[d])
               /\ n = ClientPubTopic(t.clients[d].name) => v = Publishers(t.clients[d])
    <3>1. d = c => n # ClientPubTopic(t.clients[d].name)
      BY <1>4, <1>6, <2>5
    <3>2. QED
      BY <1>3, <1>4, <2>1, <2>5, <3>1 DEF Truthful, Subscriptions
  <2>6. \A m \in Declared(t) : n = SubTopic(m) =>
          \A d \in Remote(t) : IsSubscribed(t.clients[d], m) =>
            \E u \in SubUid : <<t.clients[d].name, u>> \in v
    BY <1>4, <1>5, <2>1 DEF Truthful
  <2>7. ASSUME NEW m \in Declared(t), n = PubTopic(m) PROVE TopicPublishers(t, m) \subseteq v
    <3>1. ASSUME NEW d \in Remote(t), NEW u \in DOMAIN t.clients[d].pubs, t.clients[d].pubs[u] = m
          PROVE  u \in DOMAIN s.clients[d].pubs /\ s.clients[d].pubs[u] = m
      <4>1. CASE d = c
        <5>1. PubTopic(x[u]) \notin B /\ c # Self /\ u \in DOMAIN x /\ x[u] = m
          BY <1>3, <1>4, <1>6, <2>7, <3>1, <4>1
        <5>2. QED
          BY <4>1, <5>1
      <4>2. CASE d # c
        BY <1>3, <1>4, <3>1, <4>2
      <4>3. QED
        BY <4>1, <4>2
    <3>2. TopicPublishers(t, m) \subseteq TopicPublishers(s, m)
      BY <1>4, <3>1 DEF TopicPublishers
    <3>3. QED
      BY <1>4, <2>1, <2>7, <3>2 DEF Truthful
  <2>8. t.topics[n].value = v
    BY <1>2 DEF v
  <2>9. QED
    BY <2>2, <2>3, <2>4, <2>5, <2>6, <2>7, <2>8 DEF Truthful
<1>7. \A d \in DOMAIN t.clients : Declares(t.clients[d])
  BY <1>2, <1>3, <1>4 DEF Whole, Declares
<1>8. Named(t) /\ Fits(t) /\ Needed(t, DOMAIN t.topics \cup H)
  <2>1. ASSUME NEW d \in Remote(t), NEW u \in DOMAIN t.clients[d].pubs
        PROVE  PubTopic(t.clients[d].pubs[u]) \in DOMAIN t.topics \cup H
    <3>1. CASE d # c \/ (u \in DOMAIN cl.pubs /\ cl.pubs[u] = x[u])
      <4>1. u \in DOMAIN s.clients[d].pubs /\ t.clients[d].pubs[u] = s.clients[d].pubs[u]
        BY <1>3, <1>4, <2>1, <3>1
      <4>2. QED
        BY <1>2, <1>4, <2>1, <4>1, MetasAreThere
    <3>2. QED
      BY <1>2, <1>3, <1>4, <2>1, <3>1
  <2>2. QED
    BY <1>1, <1>2, <1>4, <2>1 DEF Whole, Named, Fits, Needed
<1>9. ASSUME NEW d \in DOMAIN t.clients PROVE Heard(t, d)
  <2>1. Heard(s, d)
    BY <1>2 DEF Whole
  <2>2. QED
    BY <1>2, <1>4, <1>5, <2>1 DEF Heard
<1>10. QED
  BY <1>2, <1>6, <1>7, <1>8, <1>9 DEF Whole, t

-----------------------------------------------------------------------------
(* Steps.                                                                  *)

\* The maps hold what they should or null pointers.
LooseSubs(subs) == DOMAIN subs \subseteq SubUid /\ \A u \in DOMAIN subs : subs[u] \in Subscribable \cup {Null}
LoosePubs(pubs) == DOMAIN pubs \subseteq PubUid /\ \A u \in DOMAIN pubs : pubs[u] \in Regular \cup {Null}
Loose(s) ==
  /\ \A n \in DOMAIN s.topics :
       s.topics[n] = NullTopic \/ s.topics[n] \in [value : ValuesOf(n), cached : BOOLEAN]
  /\ \A c \in DOMAIN s.clients : LooseSubs(s.clients[c].subs) /\ LoosePubs(s.clients[c].pubs)

\* That holds at all times, as do the names of the clients; the rest holds as long
\* as no null pointer has been left in a map, which takes a peer that names what
\* was never declared.
MetaInv ==
  /\ Named(State) /\ Loose(State)
  /\ NoNullEntry => Whole(State, {}, {}, {})
  /\ NoNullEntry \/ UnknownNames

\* A null pointer is neither a topic nor a subscription nor a publisher.
LEMMA WholeNoNull ==
  ASSUME NEW s, NEW B, NEW H, NEW C, Whole(s, B, H, C)
  PROVE  /\ Loose(s)
         /\ \A n \in DOMAIN s.topics : s.topics[n] # NullTopic
         /\ \A c \in DOMAIN s.clients :
              /\ \A u \in DOMAIN s.clients[c].subs : s.clients[c].subs[u] # Null
              /\ \A u \in DOMAIN s.clients[c].pubs : s.clients[c].pubs[u] # Null
<1>1. /\ \A c \in DOMAIN s.clients :
           /\ SubsDeclared(s.clients[c].subs) /\ PubsDeclared(s.clients[c].pubs)
           /\ LooseSubs(s.clients[c].subs) /\ LoosePubs(s.clients[c].pubs)
      /\ Null \notin Subscribable \cup Regular
  BY NTServerAssumption DEF Whole, Declares, SubsDeclared, PubsDeclared, LooseSubs, LoosePubs
<1>2. \A n \in DOMAIN s.topics :
        s.topics[n] \in [value : ValuesOf(n), cached : BOOLEAN] /\ s.topics[n] # NullTopic
  <2>1. DOMAIN s.topics \subseteq Name
    BY DEF Whole, GoodState, Safe
  <2>2. \A n \in Name : NullTopic \notin [value : ValuesOf(n), cached : BOOLEAN]
    <3>1. "null" \in DOMAIN NullTopic
      BY DEF NullTopic
    <3>2. ASSUME NEW n \in Name, NEW r \in [value : ValuesOf(n), cached : BOOLEAN] PROVE r # NullTopic
      <4>1. DOMAIN r = {"value", "cached"}
        OBVIOUS
      <4>2. QED
        BY <3>1, <4>1
    <3>3. QED
      BY <3>2
  <2>3. QED
    BY <2>1, <2>2 DEF Whole, Fits
<1>3. QED
  BY <1>1, <1>2 DEF Loose, SubsDeclared, PubsDeclared

TypesKept == \A n \in Ordinary : topics'[n].value[1] = topics[n].value[1]

\* A handler makes some change first and then is a composition of operators,
LEMMA BecomeWhole ==
  ASSUME NEW s, \A n \in DOMAIN topics : n \in DOMAIN s.topics /\ s.topics[n].value = topics[n].value,
         NEW t, Carries(s, t), Whole(t, {}, {}, {}), Become(t)
  PROVE  MetaInv' /\ TypesKept
<1>1. DOMAIN t = {"topics", "clients"} /\ t.topics = topics' /\ t.clients = clients'
  BY DEF Whole, GoodState, Safe, Become
<1>2. Whole([topics |-> topics', clients |-> clients'], {}, {}, {})
  BY <1>1, SameWhole
<1>3. Whole(State, {}, {}, {})'
  BY <1>2 DEF State
<1>4. TypesKept
  BY <1>1 DEF Carries, TypesKept, Ordinary
<1>5. NoNullEntry'
  BY <1>1, WholeNoNull DEF NoNullEntry
<1>6. Loose(State)'
  <2>1. Loose([topics |-> topics', clients |-> clients'])
    BY <1>2, WholeNoNull
  <2>2. QED
    BY <2>1 DEF State
<1>7. QED
  BY <1>3, <1>4, <1>5, <1>6 DEF MetaInv, Whole

\* or leaves a null pointer.
LEMMA BecomeNull ==
  ASSUME MetaInv, UnknownNames, Self \in DOMAIN clients,
         NEW t, Loose(t), Become(t), ~NoNullEntry', DOMAIN t.clients = DOMAIN clients,
         \A c \in DOMAIN clients : t.clients[c].name = clients[c].name,
         \A n \in DOMAIN topics : n \in DOMAIN t.topics /\ t.topics[n].value = topics[n].value
  PROVE  MetaInv' /\ TypesKept
<1>1. TypesKept
  BY DEF Become, TypesKept, Ordinary
<1>2. Named(State)'
  BY DEF MetaInv, Named, Remote, State, Become
<1>3. Loose(State)'
  BY DEF Loose, State, Become
<1>4. QED
  BY <1>1, <1>2, <1>3 DEF MetaInv

\* An unknown uid of a client or of the application.
LEMMA NullUidWhole ==
  ASSUME Running, MetaInv, UnknownNames, NEW c \in DOMAIN clients, NEW u, NEW t,
         \/ u \in SubUid /\ t = [State EXCEPT !.clients[c].subs = Put(@, u, Null)]
         \/ u \in PubUid /\ t = [State EXCEPT !.clients[c].pubs = Put(@, u, Null)],
         NEW q, q = t \/ q = FlushAllBinary(t), Become(q)
  PROVE  MetaInv' /\ TypesKept
<1>1. /\ GoodState(State) /\ DOMAIN State = {"topics", "clients"}
      /\ State.topics = topics /\ State.clients = clients /\ DOMAIN clients[c] = Field
  BY RunningFacts DEF GoodState, Safe, Shape, Caches, State
<1>2. /\ t.topics = topics /\ DOMAIN t.clients = DOMAIN clients
      /\ \A d \in DOMAIN clients : t.clients[d].name = clients[d].name
      /\ \/ u \in DOMAIN t.clients[c].subs /\ t.clients[c].subs[u] = Null
         \/ u \in DOMAIN t.clients[c].pubs /\ t.clients[c].pubs[u] = Null
  BY <1>1 DEF Field, Put
<1>3. GoodState(t)
  <2>1. c \in DOMAIN State.clients
    BY <1>1
  <2>2. /\ GoodState([State EXCEPT !.clients[c].subs = Put(clients[c].subs, u, Null)])
        /\ GoodState([State EXCEPT !.clients[c].pubs = Put(clients[c].pubs, u, Null)])
    BY <1>1, <2>1, ChangeFollows DEF Leads
  <2>3. QED
    BY <1>1, <2>2
<1>4. Carries(t, q) /\ q.topics = t.topics
  BY <1>3, LoopsCarry, CarriesReflexive
<1>5. /\ q.topics = topics /\ DOMAIN q.clients = DOMAIN clients
      /\ \A d \in DOMAIN clients : q.clients[d].name = clients[d].name
      /\ \/ u \in DOMAIN q.clients[c].subs /\ q.clients[c].subs[u] = Null
         \/ u \in DOMAIN q.clients[c].pubs /\ q.clients[c].pubs[u] = Null
  BY <1>2, <1>4 DEF Carries, Ident, Leads, Follows
<1>6. ~NoNullEntry'
  BY <1>5 DEF NoNullEntry, Become
<1>7. Loose(t)
  <2>1. Loose(State)
    BY DEF MetaInv
  <2>2. ASSUME NEW d \in DOMAIN clients \ {c} PROVE t.clients[d] = clients[d]
    BY <1>1
  <2>3. \/ /\ u \in SubUid /\ t.clients[c].subs = Put(clients[c].subs, u, Null)
           /\ t.clients[c].pubs = clients[c].pubs
        \/ /\ u \in PubUid /\ t.clients[c].pubs = Put(clients[c].pubs, u, Null)
           /\ t.clients[c].subs = clients[c].subs
    BY <1>1 DEF Field
  <2>4. /\ \A x : LooseSubs(x) /\ u \in SubUid => LooseSubs(Put(x, u, Null))
        /\ \A x : LoosePubs(x) /\ u \in PubUid => LoosePubs(Put(x, u, Null))
    BY DEF LooseSubs, LoosePubs, Put
  <2>5. LooseSubs(t.clients[c].subs) /\ LoosePubs(t.clients[c].pubs)
    BY <1>1, <2>1, <2>3, <2>4 DEF Loose
  <2>6. QED
    BY <1>1, <1>2, <2>1, <2>2, <2>5 DEF Loose
<1>8. Loose(q)
  BY <1>2, <1>4, <1>7 DEF Carries, Ident, Leads, Follows, Loose
<1>9. QED
  BY <1>1, <1>5, <1>6, <1>8, RunningFacts, BecomeNull

\* What a handler starts from.
LEMMA Begin ==
  ASSUME Running, MetaInv, NoNullEntry
  PROVE  /\ Whole(State, {}, {}, {}) /\ State.topics = topics /\ State.clients = clients
         /\ \A n \in Ordinary : n \in Declared(State)
<1>1. Whole(State, {}, {}, {}) /\ State.topics = topics /\ State.clients = clients
  BY DEF MetaInv, State
<1>2. DOMAIN topics \subseteq Name
  BY <1>1 DEF Whole, GoodState, Safe
<1>3. \A n \in Name : ~IsMeta(n) => n \in Regular
  BY OrdinaryRegular
<1>4. QED
  BY <1>1, <1>2, <1>3 DEF Declared, Ordinary

\* The new client has a name no other has, and declares nothing.
LEMMA NewClientWhole ==
  ASSUME Running, MetaInv, NoNullEntry, NEW c \in Client, c \notin DOMAIN clients,
         NextSuffix(Base[c]) \in 1..MaxSuffix
  PROVE  LET name == <<Base[c], NextSuffix(Base[c])>>
             new == {ClientSubTopic(name), ClientPubTopic(name)}
         IN Whole([topics |-> topics, clients |-> Put(clients, c, NewClient(name))],
                  new \cup {ClientsTopic}, new, {})
<1>. DEFINE name == <<Base[c], NextSuffix(Base[c])>>
            new == {ClientSubTopic(name), ClientPubTopic(name)}
            r == NewClient(name)
            t == [topics |-> topics, clients |-> Put(clients, c, r)]
<1>1. /\ Whole(State, {}, {}, {}) /\ State.topics = topics /\ State.clients = clients
      /\ Self \in DOMAIN clients /\ c # Self
  BY Begin, RunningFacts, NTServerAssumption
<1>2. /\ DOMAIN t = {"topics", "clients"} /\ t.topics = topics
      /\ DOMAIN t.clients = DOMAIN clients \cup {c} /\ t.clients[c] = r
      /\ \A d \in DOMAIN clients : t.clients[d] = clients[d]
  BY DEF Put
<1>3. r.name = name /\ DOMAIN r.subs = {} /\ DOMAIN r.pubs = {} /\ DOMAIN r.data = {}
  BY DEF NewClient
<1>4. Shape(r) /\ Ids(r) /\ Current(r, topics, Overlooked(c))
  BY NewClientFacts
<1>5. \A d \in Remote(State) : clients[d].name # name
  <2>1. \A d \in Remote(State) : clients[d].name \in ClientName
    BY <1>1 DEF Whole, Named
  <2>2. \A d \in Remote(State) : clients[d].name[2] \in 1..MaxSuffix
    BY <2>1 DEF ClientName
  <2>3. ASSUME NEW d \in Remote(State), clients[d].name = name PROVE FALSE
    <3>1. clients[d].name[1] = Base[c] /\ clients[d].name[2] = NextSuffix(Base[c])
      BY <2>3
    <3>2. QED
      BY <2>2, <3>1, NextSuffixFresh
  <2>4. QED
    BY <2>3
<1>6. name \in ClientName
  BY DEF ClientName
<1>. HIDE DEF r, t, name
<1>7. /\ Remote(t) = Remote(State) \cup {c} /\ Declared(t) = Declared(State)
      /\ \A d \in Remote(State) : d \in DOMAIN clients
  BY <1>1, <1>2 DEF Remote, Declared
<1>8. GoodState(t)
  BY <1>1, <1>2, <1>3, <1>4, RunningFacts DEF GoodState, Safe
<1>9. Named(t) /\ Fits(t)
  <2>1. \A d \in Remote(t) : t.clients[d].name \in ClientName
    BY <1>1, <1>2, <1>3, <1>6, <1>7 DEF Whole, Named
  <2>2. ASSUME NEW d \in Remote(t), NEW e \in Remote(t), t.clients[d].name = t.clients[e].name
        PROVE  d = e
    <3>1. CASE d = c \/ e = c
      BY <1>2, <1>3, <1>5, <1>7, <2>2, <3>1
    <3>2. CASE d # c /\ e # c
      BY <1>1, <1>2, <1>7, <2>2, <3>2 DEF Whole, Named
    <3>3. QED
      BY <3>1, <3>2
  <2>3. DOMAIN t.clients \subseteq Peer /\ t.clients[Self].name = <<"fake_server", 0>>
    BY <1>1, <1>2 DEF Whole, Named, Peer
  <2>4. Fits(t)
    BY <1>1, <1>2 DEF Whole, Fits
  <2>5. QED
    BY <2>1, <2>2, <2>3, <2>4 DEF Named
<1>10. \A d \in DOMAIN t.clients : Declares(t.clients[d])
  BY <1>1, <1>2, <1>3 DEF Whole, Declares, SubsDeclared, PubsDeclared
<1>11. Needed(t, DOMAIN t.topics \cup new)
  BY <1>1, <1>2, <1>3, <1>7 DEF Whole, Needed
<1>12. ASSUME NEW n \in DOMAIN t.topics \ (new \cup {ClientsTopic})
       PROVE  Truthful(t, n, t.topics[n].value)
  <2>. DEFINE v == topics[n].value
  <2>1. Truthful(State, n, v)
    BY <1>1, <1>2 DEF Whole
  <2>. HIDE DEF v
  <2>2. /\ n # ClientsTopic
        /\ n = ServerSubTopic => v = Subscriptions(t.clients[Self])
        /\ n = ServerPubTopic => v = Publishers(t.clients[Self])
    BY <1>1, <1>2, <1>12, <2>1 DEF Truthful
  <2>3. \A d \in Remote(t) :
          /\ n = ClientSubTopic(t.clients[d].name) => v = Subscriptions(t.clients[d])
          /\ n = ClientPubTopic(t.clients[d].name) => v = Publishers(t.clients[d])
    BY <1>1, <1>2, <1>3, <1>7, <1>12, <2>1 DEF Truthful
  <2>4. ASSUME NEW m \in Declared(t), n = SubTopic(m), NEW d \in Remote(t), IsSubscribed(t.clients[d], m)
        PROVE  \E u \in SubUid : <<t.clients[d].name, u>> \in v
    <3>1. d # c
      BY <1>2, <1>3, <2>4 DEF IsSubscribed
    <3>2. QED
      BY <1>1, <1>2, <1>7, <2>1, <2>4, <3>1 DEF Truthful
  <2>5. ASSUME NEW m \in Declared(t), n = PubTopic(m) PROVE TopicPublishers(t, m) \subseteq v
    <3>1. TopicPublishers(t, m) \subseteq TopicPublishers(State, m)
      BY <1>1, <1>2, <1>3, <1>7 DEF TopicPublishers
    <3>2. QED
      BY <1>7, <2>1, <2>5, <3>1 DEF Truthful
  <2>6. t.topics[n].value = v
    BY <1>2 DEF v
  <2>7. QED
    BY <2>2, <2>3, <2>4, <2>5, <2>6 DEF Truthful
<1>13. ASSUME NEW d \in DOMAIN t.clients PROVE Heard(t, d)
  BY <1>1, <1>2, <1>3 DEF Whole, Heard, IsSubscribed
<1>14. QED
  BY <1>8, <1>9, <1>10, <1>11, <1>12, <1>13 DEF Whole, t, r, name

LEMMA ConnectedMeta ==
  ASSUME Running, MetaInv, NoNullEntry, NEW c \in Client, ClientConnected(c)
  PROVE  MetaInv' /\ TypesKept
<1>. DEFINE name == <<Base[c], NextSuffix(Base[c])>>
            S == ClientSubTopic(name)
            P == ClientPubTopic(name)
            s1 == [topics |-> topics, clients |-> Put(clients, c, NewClient(name))]
            s2 == PublishMeta(s1, S)
            s3 == PublishMeta(s2, P)
            s4 == UpdateClientsMeta(s3)
            s5 == UpdateClientSubMeta(s4, c)
            s6 == UpdateClientPubMeta(s5, c)
            s7 == OnClient(s6, c, FlushText(s6.clients[c]))
            s8 == PublishInitialValues(s7, c)
            s9 == OnClient(s8, c, FlushBinary(s8.clients[c]))
            B1 == {S, P} \cup {ClientsTopic}
            H1 == {S, P}
            B2 == B1 \cup {S}
            H2 == H1 \ {S}
            B3 == B2 \cup {P}
            H3 == H2 \ {P}
            B4 == B3 \ {ClientsTopic}
            B5 == B4 \ {S}
            B6 == B5 \ {P}
<1>1. Become(s9) /\ c \notin DOMAIN clients /\ NextSuffix(Base[c]) \in 1..MaxSuffix
  BY DEF ClientConnected
<1>2. S \in Name /\ P \in Name
  BY <1>1 DEF ClientName, Name, MetaName
<1>3. IsMeta(S) /\ IsMeta(P)
  BY Kinds
<1>4. Whole(s1, B1, H1, {})
  BY <1>1, NewClientWhole
<1>5. c \in Remote(s1) /\ s1.clients[c].name = name /\ s1.topics = topics
  BY NTServerAssumption DEF Remote, Put, NewClient
<1>6. B6 = {} /\ H3 = {}
  OBVIOUS
<1>. HIDE DEF name, S, P, s1, B1, H1
<1>7. Carries(s1, s2) /\ Whole(s2, B2, H2, {})
  BY <1>2, <1>3, <1>4, PublishMetaWhole
<1>. HIDE DEF s2, B2, H2
<1>8. Carries(s2, s3) /\ Whole(s3, B3, H3, {})
  BY <1>2, <1>3, <1>7, PublishMetaWhole
<1>. HIDE DEF s3, B3, H3
<1>9. Carries(s3, s4) /\ Whole(s4, B4, H3, {})
  BY <1>8, UpdateClientsWhole
<1>. HIDE DEF s4, B4
<1>10. Carries(s1, s4)
  BY <1>7, <1>8, <1>9, CarriesTransitive
<1>11. c \in Remote(s4) /\ s4.clients[c].name = name
  BY <1>5, <1>10 DEF Carries, Leads, Follows, Remote, Ident
<1>12. Carries(s4, s5) /\ Whole(s5, B5, H3, {})
  BY <1>9, <1>11, UpdateClientWhole DEF S
<1>. HIDE DEF s5, B5
<1>13. c \in Remote(s5) /\ s5.clients[c].name = name
  BY <1>11, <1>12 DEF Carries, Leads, Follows, Remote, Ident
<1>14. Carries(s5, s6) /\ Whole(s6, B6, H3, {})
  BY <1>12, <1>13, UpdateClientWhole DEF P
<1>. HIDE DEF s6, B6
<1>15. GoodState(s6) /\ c \in DOMAIN s6.clients
  BY <1>13, <1>14 DEF Carries, Leads, Follows, Remote
<1>16. Carries(s6, s7) /\ s7.topics = s6.topics
  BY <1>15, ServeCarries
<1>. HIDE DEF s7
<1>17. GoodState(s7) /\ c \in DOMAIN s7.clients
  BY <1>15, <1>16 DEF Carries, Leads, Follows
<1>18. Carries(s7, s8) /\ s8.topics = s7.topics
  BY <1>17, ServeCarries
<1>. HIDE DEF s8
<1>19. GoodState(s8) /\ c \in DOMAIN s8.clients
  BY <1>17, <1>18 DEF Carries, Leads, Follows
<1>20. Carries(s8, s9) /\ s9.topics = s8.topics
  BY <1>19, ServeCarries
<1>. HIDE DEF s9
<1>21. Carries(s1, s9)
  BY <1>10, <1>12, <1>14, <1>16, <1>18, <1>20, CarriesTransitive
<1>22. Whole(s9, {}, {}, {})
  BY <1>6, <1>14, <1>16, <1>18, <1>20, CarriesWhole
<1>23. QED
  BY <1>1, <1>5, <1>21, <1>22, BecomeWhole

LEMMA DisconnectedMeta ==
  ASSUME Running, MetaInv, NoNullEntry, NEW c \in Client, ClientDisconnected(c)
  PROVE  MetaInv' /\ TypesKept
<1>. DEFINE t == [State EXCEPT !.clients = Drop(@, c)]
            s2 == UpdateClientsMeta(t)
            s3 == FlushAllBinary(s2)
<1>1. Become(s3) /\ c # Self
  BY DEF ClientDisconnected, BetweenFrames, Remote
<1>2. /\ Whole(State, {}, {}, {}) /\ State.topics = topics /\ State.clients = clients
      /\ Self \in DOMAIN clients
  BY Begin, RunningFacts
<1>3. /\ DOMAIN t = {"topics", "clients"} /\ t.topics = topics
      /\ DOMAIN t.clients = DOMAIN clients \ {c}
      /\ \A d \in DOMAIN t.clients : t.clients[d] = clients[d]
  BY <1>2 DEF Drop, State
<1>. HIDE DEF t
<1>4. Remote(t) \subseteq Remote(State) /\ Declared(t) = Declared(State)
      /\ \A d \in Remote(t) : t.clients[d] = clients[d]
  BY <1>2, <1>3 DEF Remote, Declared
<1>5. GoodState(t)
  BY <1>1, <1>2, <1>3, RunningFacts DEF GoodState, Safe
<1>6. Named(t) /\ Fits(t) /\ Needed(t, DOMAIN t.topics \cup {})
      /\ \A d \in DOMAIN t.clients : Declares(t.clients[d])
  BY <1>1, <1>2, <1>3, <1>4 DEF Whole, Named, Fits, Needed
<1>7. ASSUME NEW n \in DOMAIN t.topics \ {ClientsTopic} PROVE Truthful(t, n, t.topics[n].value)
  <2>1. Truthful(State, n, topics[n].value)
    BY <1>2, <1>3 DEF Whole
  <2>2. \A m : TopicPublishers(t, m) \subseteq TopicPublishers(State, m)
    BY <1>2, <1>4 DEF TopicPublishers
  <2>3. t.clients[Self] = clients[Self]
    BY <1>1, <1>2, <1>3
  <2>4. QED
    BY <1>2, <1>3, <1>4, <1>7, <2>1, <2>2, <2>3 DEF Truthful
<1>8. ASSUME NEW d \in DOMAIN t.clients PROVE Heard(t, d)
  BY <1>2, <1>3 DEF Whole, Heard
<1>9. Whole(t, {ClientsTopic}, {}, {})
  BY <1>5, <1>6, <1>7, <1>8 DEF Whole
<1>10. Carries(t, s2) /\ Whole(s2, {ClientsTopic} \ {ClientsTopic}, {}, {})
  BY <1>9, UpdateClientsWhole
<1>. HIDE DEF s2
<1>11. Carries(s2, s3) /\ s3.topics = s2.topics
  BY <1>10, LoopsCarry DEF Carries, Leads
<1>. HIDE DEF s3
<1>12. {ClientsTopic} \ {ClientsTopic} = {}
  OBVIOUS
<1>13. Whole(s3, {}, {}, {}) /\ Carries(t, s3)
  BY <1>10, <1>11, <1>12, CarriesTransitive, CarriesWhole
<1>14. QED
  BY <1>1, <1>3, <1>13, BecomeWhole

\* announceCachedTopics: the client is told all the cached topics it subscribes to.
LEMMA CachedHeard ==
  ASSUME NEW s, GoodState(s), NEW c \in DOMAIN s.clients
  PROVE  Heard(AnnounceCached(s, c), c)
<1>. DEFINE M == {n \in DOMAIN s.topics : s.topics[n].cached /\ IsSubscribed(s.clients[c], n)}
            t == AnnounceCached(s, c)
<1>1. t.clients[c] = Announce(c, s.clients[c], M)
  BY DEF AnnounceCached, OnClient, GoodState, Safe
<1>2. Shape(s.clients[c]) /\ M \subseteq Name
  BY DEF GoodState, Safe
<1>3. Carries(s, t) /\ t.topics = s.topics
  BY ServeCarries
<1>. HIDE DEF t
<1>4. \A n : IsSubscribed(t.clients[c], n) <=> IsSubscribed(s.clients[c], n)
  BY <1>3 DEF Carries, Ident, IsSubscribed
<1>5. M \subseteq DOMAIN t.clients[c].data
  BY <1>1, <1>2, AnnounceGives
<1>6. Heard(t, c)
  BY <1>3, <1>4, <1>5 DEF Heard
<1>7. QED
  BY <1>6 DEF t

\* subscribe: the client's own topic and those of what it matches are refreshed,
\* and then it is announced what it matches.
LEMMA SubscribeMeta ==
  ASSUME Running, MetaInv, NoNullEntry, NEW c \in Client, NEW u \in SubUid, NEW sub \in Subscribable,
         Subscribe(c, u, sub)
  PROVE  MetaInv' /\ TypesKept
<1>. DEFINE x == Put(clients[c].subs, u, sub)
            N == {n \in Ordinary : Matches(sub, n)}
            S == ClientSubTopic(clients[c].name)
            s1 == [State EXCEPT !.clients[c].subs = Put(@, u, sub)]
            s2 == UpdateClientSubMeta(s1, c)
            s3 == UpdateTopicSubMeta(s2, N)
            s4 == AnnounceCached(s3, c)
            B1 == {S} \cup {SubTopic(n) : n \in N}
            B2 == B1 \ {S}
            B3 == B2 \ {SubTopic(n) : n \in N}
<1>1. Become(s4) /\ c \in DOMAIN clients /\ c # Self
  BY DEF Subscribe, InTextFrame, Remote, State
<1>2. /\ Whole(State, {}, {}, {}) /\ State.topics = topics /\ State.clients = clients
      /\ \A n \in Ordinary : n \in Declared(State)
  BY Begin
<1>3. N \in SUBSET Regular
  BY <1>2 DEF Declared
<1>4. SubsDeclared(x) /\ \A v \in DOMAIN x : x[v] = sub \/ (v \in DOMAIN clients[c].subs /\ x[v] = clients[c].subs[v])
  BY <1>1, <1>2 DEF Put, Whole, Declares, SubsDeclared
<1>5. \A m \in Declared(State) : m \in Ordinary
  BY <1>2, Kinds DEF Declared, Ordinary
<1>6. \A m \in Declared(State) : \A v \in DOMAIN x :
        Matches(x[v], m) /\ ~IsSubscribed(clients[c], m) => SubTopic(m) \in B1
  BY <1>4, <1>5 DEF IsSubscribed
<1>7. s1 = [State EXCEPT !.clients[c].subs = x]
  BY <1>2
<1>8. S \in B1 /\ B3 = {}
  OBVIOUS
<1>. HIDE DEF x, B1, N
<1>9. Whole(s1, B1, {}, {c})
  BY <1>1, <1>2, <1>4, <1>6, <1>7, <1>8, SubsChangeWhole
<1>10. c \in Remote(s1) /\ s1.clients[c].name = clients[c].name /\ s1.topics = topics
  <2>1. DOMAIN clients[c] = Field /\ DOMAIN State = {"topics", "clients"}
    BY <1>1, <1>2 DEF Whole, GoodState, Safe, Shape, Caches
  <2>2. QED
    BY <1>1, <1>2, <2>1 DEF Remote, Field
<1>. HIDE DEF s1
<1>11. Carries(s1, s2) /\ Whole(s2, B2, {}, {c})
  BY <1>9, <1>10, UpdateClientWhole
<1>. HIDE DEF s2, B2
<1>21. \A n \in N : SubTopic(n) \in DOMAIN s2.topics
  <2>1. \A n \in N : n \in Declared(s2)
    BY <1>2, <1>3, <1>10, <1>11 DEF N, Ordinary, Declared, Carries, Leads, Follows
  <2>2. QED
    BY <1>11, <2>1, MetasAreThere
<1>12. Carries(s2, s3) /\ Whole(s3, B3, {}, {c})
  BY <1>3, <1>11, <1>21, UpdateTopicWhole
<1>. HIDE DEF s3, B3
<1>13. Carries(s1, s3) /\ GoodState(s3)
  BY <1>11, <1>12, CarriesTransitive DEF Whole
<1>14. c \in DOMAIN s3.clients
  BY <1>10, <1>13 DEF Carries, Leads, Follows, Remote
<1>15. Carries(s3, s4) /\ s4.topics = s3.topics
  BY <1>13, <1>14, ServeCarries
<1>16. Heard(s4, c)
  BY <1>13, <1>14, CachedHeard
<1>. HIDE DEF s4
<1>17. Whole(s4, {}, {}, {c})
  BY <1>8, <1>12, <1>15, CarriesWhole
<1>18. Whole(s4, {}, {}, {})
  BY <1>16, <1>17 DEF Whole
<1>19. Carries(s1, s4)
  BY <1>13, <1>15, CarriesTransitive
<1>20. QED
  BY <1>1, <1>10, <1>18, <1>19, BecomeWhole

LEMMA UnSubscribeMeta ==
  ASSUME Running, MetaInv, NoNullEntry, NEW c \in Client, NEW u \in SubUid, UnSubscribe(c, u)
  PROVE  MetaInv' /\ TypesKept
<1>1. c \in DOMAIN clients /\ c # Self
  BY DEF UnSubscribe, InTextFrame, Remote, State
<1>2. /\ Whole(State, {}, {}, {}) /\ State.topics = topics /\ State.clients = clients
      /\ \A n \in Ordinary : n \in Declared(State)
  BY Begin
<1>3. CASE u \in DOMAIN clients[c].subs
  <2>. DEFINE sub == clients[c].subs[u]
              x == Drop(clients[c].subs, u)
              N == {n \in Ordinary : Matches(sub, n)}
              S == ClientSubTopic(clients[c].name)
              s1 == [State EXCEPT !.clients[c].subs = Drop(@, u)]
              s2 == UpdateClientSubMeta(s1, c)
              s3 == UpdateTopicSubMeta(s2, N)
              B1 == {S}
              B2 == B1 \ {S}
              B3 == B2 \ {SubTopic(n) : n \in N}
  <2>1. Become(s3)
    BY <1>3 DEF UnSubscribe
  <2>2. N \in SUBSET Regular
    BY <1>2 DEF Declared
  <2>3. SubsDeclared(x) /\ \A v \in DOMAIN x : v \in DOMAIN clients[c].subs /\ x[v] = clients[c].subs[v]
    BY <1>1, <1>2 DEF Drop, Whole, Declares, SubsDeclared
  <2>4. \A m : \A v \in DOMAIN x : Matches(x[v], m) => IsSubscribed(clients[c], m)
    BY <2>3 DEF IsSubscribed
  <2>5. s1 = [State EXCEPT !.clients[c].subs = x]
    BY <1>2
  <2>6. S \in B1 /\ B3 = {}
    OBVIOUS
  <2>. HIDE DEF x, B1, N
  <2>7. Whole(s1, B1, {}, {})
    BY <1>1, <1>2, <2>3, <2>4, <2>5, <2>6, SubsChangeWhole
  <2>8. c \in Remote(s1) /\ s1.clients[c].name = clients[c].name /\ s1.topics = topics
    <3>1. DOMAIN clients[c] = Field /\ DOMAIN State = {"topics", "clients"}
      BY <1>1, <1>2 DEF Whole, GoodState, Safe, Shape, Caches
    <3>2. QED
      BY <1>1, <1>2, <3>1 DEF Remote, Field
  <2>. HIDE DEF s1
  <2>9. Carries(s1, s2) /\ Whole(s2, B2, {}, {})
    BY <2>7, <2>8, UpdateClientWhole
  <2>. HIDE DEF s2, B2
  <2>13. \A n \in N : SubTopic(n) \in DOMAIN s2.topics
    <3>1. \A n \in N : n \in Declared(s2)
      BY <1>2, <2>2, <2>8, <2>9 DEF N, Ordinary, Declared, Carries, Leads, Follows
    <3>2. QED
      BY <2>9, <3>1, MetasAreThere
  <2>10. Carries(s2, s3) /\ Whole(s3, B3, {}, {})
    BY <2>2, <2>9, <2>13, UpdateTopicWhole
  <2>. HIDE DEF s3, B3
  <2>11. Carries(s1, s3) /\ Whole(s3, {}, {}, {})
    BY <2>6, <2>9, <2>10, CarriesTransitive
  <2>12. QED
    BY <2>1, <2>8, <2>11, BecomeWhole
<1>4. CASE u \notin DOMAIN clients[c].subs
  BY <1>1, <1>4, NullUidWhole DEF UnSubscribe
<1>5. QED
  BY <1>3, <1>4

\* publish: the topic is created if it is not there, and the client's own topic and
\* that of the topic are refreshed.
LEMMA PublishMetaStep ==
  ASSUME AnnounceRefused = {},
         Running, MetaInv, NoNullEntry, NEW c \in Client, NEW u \in PubUid, NEW n \in Regular,
         NEW type \in Type, NEW cached \in BOOLEAN, Publish(c, u, n, type, cached)
  PROVE  MetaInv' /\ TypesKept
<1>. DEFINE x == Put(clients[c].pubs, u, n)
            P == ClientPubTopic(clients[c].name)
            s1 == [State EXCEPT !.clients[c].pubs = Put(@, u, n)]
            s2 == IF n \in DOMAIN topics
                    THEN OnClient(s1, c, AnnounceToPublisher(s1.clients[c], n))
                    ELSE PublishFrom(s1, n, DefaultValue(WireType(type)), cached, c)
            s3 == UpdateClientPubMeta(s2, c)
            s4 == UpdateTopicPubMeta(s3, n)
            H == {PubTopic(n)} \ DOMAIN topics
            B1 == {P, PubTopic(n)}
            B2 == B1 \ {P}
            B3 == B2 \ {PubTopic(n)}
<1>1. Become(s4) /\ c \in DOMAIN clients /\ c # Self
  BY DEF Publish, InTextFrame, Remote, State
<1>2. Whole(State, {}, {}, {}) /\ State.topics = topics /\ State.clients = clients
  BY Begin
<1>3. /\ PubsDeclared(x)
      /\ \A v \in DOMAIN x : x[v] = n \/ (v \in DOMAIN clients[c].pubs /\ x[v] = clients[c].pubs[v])
  BY <1>1, <1>2 DEF Put, Whole, Declares, PubsDeclared
<1>4. /\ P \in B1 /\ B3 = {}
      /\ \A v \in DOMAIN x : ~(v \in DOMAIN clients[c].pubs /\ clients[c].pubs[v] = x[v]) =>
           PubTopic(x[v]) \in B1 /\ PubTopic(x[v]) \in DOMAIN topics \cup H
  BY <1>3
<1>14. u \in DOMAIN x /\ x[u] = n
  BY DEF Put
<1>15. n \in DOMAIN topics => H = {}
  BY <1>2, MetasAreThere DEF Declared
<1>16. H \ {SubTopic(n), PubTopic(n)} = {}
  OBVIOUS
<1>5. s1 = [State EXCEPT !.clients[c].pubs = x]
  BY <1>2
<1>. HIDE DEF x, B1, H
<1>6. Whole(s1, B1, H, {})
  BY <1>1, <1>2, <1>3, <1>4, <1>5, PubsChangeWhole
<1>7. /\ c \in Remote(s1) /\ s1.clients[c].name = clients[c].name /\ s1.topics = topics
      /\ u \in DOMAIN s1.clients[c].pubs /\ s1.clients[c].pubs[u] = n
  <2>1. DOMAIN clients[c] = Field /\ DOMAIN State = {"topics", "clients"}
    BY <1>1, <1>2 DEF Whole, GoodState, Safe, Shape, Caches
  <2>2. QED
    BY <1>1, <1>2, <1>5, <1>14, <2>1 DEF Remote, Field
<1>. HIDE DEF s1
<1>8. Carries(s1, s2) /\ Whole(s2, B1, {}, {})
  <2>1. CASE n \in DOMAIN topics
    <3>1. GoodState(s1) /\ c \in DOMAIN s1.clients /\ n \in DOMAIN s1.topics
      BY <1>6, <1>7, <2>1 DEF Whole, Remote
    <3>2. s2 = OnClient(s1, c, AnnounceToPublisher(s1.clients[c], n))
      BY <2>1
    <3>. HIDE DEF s2
    <3>3. Carries(s1, s2) /\ s2.topics = s1.topics
      BY <3>1, <3>2, ServeCarries
    <3>4. QED
      BY <1>6, <1>15, <2>1, <3>3, CarriesWhole
  <2>2. CASE n \notin DOMAIN topics
    <3>1. /\ Carries(s1, s2)
          /\ Whole(s2, B1, H \ {SubTopic(n), PubTopic(n)}, {})
      BY <1>6, <2>2, TopicValues, PublishWhole
    <3>2. QED
      BY <1>16, <3>1
  <2>3. QED
    BY <2>1, <2>2
<1>. HIDE DEF s2
<1>9. c \in Remote(s2) /\ s2.clients[c].name = clients[c].name
  BY <1>7, <1>8 DEF Carries, Leads, Follows, Remote, Ident
<1>17. PubTopic(n) \in DOMAIN s2.topics
  <2>1. u \in DOMAIN s2.clients[c].pubs /\ s2.clients[c].pubs[u] = n
    BY <1>7, <1>8 DEF Carries, Ident, Remote
  <2>2. QED
    BY <1>8, <1>9, <2>1, MetasAreThere
<1>10. Carries(s2, s3) /\ Whole(s3, B2, {}, {})
  BY <1>8, <1>9, UpdateClientWhole
<1>. HIDE DEF s3, B2
<1>18. PubTopic(n) \in DOMAIN s3.topics
  BY <1>10, <1>17 DEF Carries, Leads, Follows
<1>11. Carries(s3, s4) /\ Whole(s4, B3, {}, {})
  BY <1>10, <1>18, UpdateTopicWhole
<1>. HIDE DEF s4, B3
<1>12. Carries(s1, s4) /\ Whole(s4, {}, {}, {})
  BY <1>4, <1>8, <1>10, <1>11, CarriesTransitive
<1>13. QED
  BY <1>1, <1>7, <1>12, BecomeWhole

LEMMA UnPublishMeta ==
  ASSUME Running, MetaInv, NoNullEntry, NEW c \in Client, NEW u \in PubUid, UnPublish(c, u)
  PROVE  MetaInv' /\ TypesKept
<1>1. c \in DOMAIN clients /\ c # Self
  BY DEF UnPublish, InTextFrame, Remote, State
<1>2. Whole(State, {}, {}, {}) /\ State.topics = topics /\ State.clients = clients
  BY Begin
<1>3. ASSUME NEW n \in Regular, <<u, n>> \in Publishers(clients[c]),
             Become(UpdateTopicPubMeta(UpdateClientPubMeta(
                      [State EXCEPT !.clients[c].pubs = Drop(@, u)], c), n))
      PROVE  MetaInv' /\ TypesKept
  <2>. DEFINE x == Drop(clients[c].pubs, u)
              P == ClientPubTopic(clients[c].name)
              s1 == [State EXCEPT !.clients[c].pubs = Drop(@, u)]
              s2 == UpdateClientPubMeta(s1, c)
              s3 == UpdateTopicPubMeta(s2, n)
              B1 == {P}
              B2 == B1 \ {P}
              B3 == B2 \ {PubTopic(n)}
  <2>1. Become(s3)
    BY <1>3
  <2>11. u \in DOMAIN clients[c].pubs /\ clients[c].pubs[u] = n
    BY <1>3 DEF Publishers
  <2>12. PubTopic(n) \in DOMAIN topics
    BY <1>1, <1>2, <2>11, MetasAreThere DEF Remote
  <2>2. /\ PubsDeclared(x)
        /\ \A v \in DOMAIN x : v \in DOMAIN clients[c].pubs /\ x[v] = clients[c].pubs[v]
    BY <1>1, <1>2 DEF Drop, Whole, Declares, PubsDeclared
  <2>3. P \in B1 /\ B3 = {}
    OBVIOUS
  <2>4. s1 = [State EXCEPT !.clients[c].pubs = x]
    BY <1>2
  <2>. HIDE DEF x, B1
  <2>5. Whole(s1, B1, {}, {})
    BY <1>1, <1>2, <2>2, <2>3, <2>4, PubsChangeWhole
  <2>6. c \in Remote(s1) /\ s1.clients[c].name = clients[c].name /\ s1.topics = topics
    <3>1. DOMAIN clients[c] = Field /\ DOMAIN State = {"topics", "clients"}
      BY <1>1, <1>2 DEF Whole, GoodState, Safe, Shape, Caches
    <3>2. QED
      BY <1>1, <1>2, <3>1 DEF Remote, Field
  <2>. HIDE DEF s1
  <2>7. Carries(s1, s2) /\ Whole(s2, B2, {}, {})
    BY <2>5, <2>6, UpdateClientWhole
  <2>. HIDE DEF s2, B2
  <2>13. PubTopic(n) \in DOMAIN s2.topics
    BY <2>6, <2>7, <2>12 DEF Carries, Leads, Follows
  <2>8. Carries(s2, s3) /\ Whole(s3, B3, {}, {})
    BY <2>7, <2>13, UpdateTopicWhole
  <2>. HIDE DEF s3, B3
  <2>9. Carries(s1, s3) /\ Whole(s3, {}, {}, {})
    BY <2>3, <2>7, <2>8, CarriesTransitive
  <2>10. QED
    BY <2>1, <2>6, <2>9, BecomeWhole
<1>4. ASSUME UnknownNames, Become([State EXCEPT !.clients[c].pubs = Put(@, u, Null)])
      PROVE  MetaInv' /\ TypesKept
  BY <1>1, <1>4, NullUidWhole
<1>5. QED
  BY <1>3, <1>4 DEF UnPublish

\* setproperties: the values stay, and a topic may become cached only where that
\* may happen to one that is subscribed to already.
LEMMA ChangePropertiesMeta ==
  ASSUME Running, MetaInv, NoNullEntry, NEW n \in Regular, NEW cached \in CachedUpdates,
         ChangeProperties(n, cached)
  PROVE  MetaInv' /\ TypesKept
<1>1. /\ Whole(State, {}, {}, {}) /\ State.topics = topics /\ State.clients = clients
      /\ DOMAIN State = {"topics", "clients"}
      /\ Self \in DOMAIN clients
      /\ \A m \in DOMAIN topics : {"value", "cached"} \subseteq DOMAIN topics[m]
  BY Begin, RunningFacts DEF Whole, GoodState, Safe
<1>2. CASE n \in DOMAIN topics
  <2>. DEFINE t == [State EXCEPT !.topics[n].cached = cached]
              q == TellProperties(t, n)
  <2>1. Become(q)
    BY <1>2 DEF ChangeProperties
  <2>2. /\ DOMAIN t = {"topics", "clients"} /\ t.clients = clients
        /\ DOMAIN t.topics = DOMAIN topics
        /\ \A m \in DOMAIN topics : /\ {"value", "cached"} \subseteq DOMAIN t.topics[m]
                                    /\ t.topics[m].value = topics[m].value
                                    /\ t.topics[m].cached = IF m = n THEN cached ELSE topics[m].cached
                                    /\ t.topics[m] = IF m = n THEN [topics[m] EXCEPT !.cached = cached]
                                                     ELSE topics[m]
    BY <1>1
  <2>. HIDE DEF t
  <2>3. GoodState(t)
    <3>1. \A c \in DOMAIN clients : DOMAIN clients[c].data \subseteq DOMAIN topics
      BY <1>1 DEF Whole, GoodState, Safe
    <3>2. \A c \in DOMAIN clients :
            Current(clients[c], topics, Overlooked(c)) => Current(clients[c], t.topics, Overlooked(c))
      BY <2>2, <3>1 DEF Current
    <3>3. QED
      BY <1>1, <2>2, <3>2 DEF Whole, GoodState, Safe
  <2>4. Remote(t) = Remote(State) /\ Declared(t) = Declared(State)
    BY <1>1, <2>2 DEF Remote, Declared
  <2>5. ASSUME NEW m \in DOMAIN t.topics \ {} PROVE Truthful(t, m, t.topics[m].value)
    <3>1. Truthful(State, m, topics[m].value)
      BY <1>1, <2>2 DEF Whole
    <3>2. Truthful(t, m, topics[m].value)
      BY <1>1, <2>2, <2>4, <3>1, SameTruth DEF Ident
    <3>3. QED
      BY <2>2, <3>2
  <2>6. /\ Named(t) /\ Needed(t, DOMAIN t.topics \cup {})
        /\ \A c \in DOMAIN t.clients : Declares(t.clients[c])
    BY <1>1, <2>2, <2>4 DEF Whole, Named, Needed
  <2>7. Fits(t)
    <3>1. ASSUME NEW m \in DOMAIN topics PROVE t.topics[m] \in [value : ValuesOf(m), cached : BOOLEAN]
      <4>1. topics[m] \in [value : ValuesOf(m), cached : BOOLEAN] /\ cached \in BOOLEAN
        BY <1>1, NTServerAssumption DEF Whole, Fits
      <4>2. t.topics[m] = topics[m] \/ t.topics[m] = [topics[m] EXCEPT !.cached = cached]
        BY <2>2
      <4>3. QED
        BY <4>1, <4>2
    <3>2. QED
      BY <2>2, <3>1 DEF Fits
  <2>8. ASSUME NEW c \in DOMAIN t.clients \ {} PROVE Heard(t, c)
    <3>1. CachedUpdates \subseteq BOOLEAN /\ (TRUE \notin CachedUpdates => cached = FALSE)
      BY NTServerAssumption
    <3>2. Heard(State, c)
      BY <1>1, <2>2 DEF Whole
    <3>3. QED
      BY <1>1, <2>2, <3>1, <3>2 DEF Heard
  <2>9. Whole(t, {}, {}, {})
    BY <2>3, <2>5, <2>6, <2>8, <2>7 DEF Whole
  <2>10. Carries(t, q) /\ q.topics = t.topics
    BY <1>2, <2>2, <2>3, LoopsCarry
  <2>. HIDE DEF q
  <2>11. Whole(q, {}, {}, {})
    BY <2>9, <2>10, CarriesWhole
  <2>12. QED
    BY <2>1, <2>2, <2>10, <2>11, BecomeWhole
<1>3. CASE n \notin DOMAIN topics
  <2>. DEFINE t == LeaveNull(State, {n})
  <2>1. Become(t) /\ UnknownNames
    BY <1>3 DEF ChangeProperties
  <2>2. /\ t.clients = clients /\ DOMAIN t.topics = DOMAIN topics \cup {n} /\ t.topics[n] = NullTopic
        /\ \A m \in DOMAIN topics : m \in DOMAIN t.topics /\ t.topics[m] = topics[m]
    BY <1>1, <1>3 DEF LeaveNull
  <2>. HIDE DEF t
  <2>3. ~NoNullEntry'
    BY <2>1, <2>2 DEF NoNullEntry, Become
  <2>4. Loose(t)
    <3>1. Loose(State)
      BY DEF MetaInv
    <3>2. QED
      BY <1>1, <2>2, <3>1 DEF Loose
  <2>5. QED
    BY <1>1, <2>1, <2>2, <2>3, <2>4, BecomeNull
<1>4. QED
  BY <1>2, <1>3

\* The end of a text frame, and a binary frame.
LEMMA FrameMeta ==
  ASSUME Running, MetaInv, NoNullEntry, NEW c \in Client
  PROVE  /\ EndFrame(c) \/ AbandonFrame(c) => MetaInv' /\ TypesKept
         /\ \A u \in PubUid : \A value \in Value : BinaryFrame(c, u, value) => MetaInv' /\ TypesKept
<1>1. Whole(State, {}, {}, {}) /\ State.topics = topics /\ State.clients = clients /\ GoodState(State)
  BY Begin DEF Whole
<1>2. ASSUME EndFrame(c) PROVE MetaInv' /\ TypesKept
  <2>. DEFINE s1 == FlushAllText(State)
              s2 == PublishInitialValues(s1, c)
              s3 == FlushAllBinary(s2)
  <2>1. Become(s3) /\ c \in DOMAIN State.clients
    BY <1>2, RunningFacts DEF EndFrame
  <2>2. Carries(State, s1) /\ s1.topics = State.topics
    BY <1>1, LoopsCarry
  <2>. HIDE DEF s1
  <2>3. GoodState(s1) /\ c \in DOMAIN s1.clients
    BY <2>1, <2>2 DEF Carries, Leads, Follows
  <2>4. Carries(s1, s2) /\ s2.topics = s1.topics
    BY <2>3, ServeCarries
  <2>. HIDE DEF s2
  <2>5. GoodState(s2)
    BY <2>4 DEF Carries, Leads
  <2>6. Carries(s2, s3) /\ s3.topics = s2.topics
    BY <2>5, LoopsCarry
  <2>. HIDE DEF s3
  <2>7. Carries(State, s3) /\ Whole(s3, {}, {}, {})
    BY <1>1, <2>2, <2>4, <2>6, CarriesTransitive, CarriesWhole
  <2>8. QED
    BY <1>1, <2>1, <2>7, BecomeWhole
<1>3. ASSUME AbandonFrame(c) PROVE MetaInv' /\ TypesKept
  <2>1. Become(State)
    BY <1>3 DEF AbandonFrame, Become, State
  <2>2. QED
    BY <1>1, <2>1, CarriesReflexive, BecomeWhole
<1>4. ASSUME NEW u \in PubUid, NEW value \in Value, BinaryFrame(c, u, value) PROVE MetaInv' /\ TypesKept
  <2>1. c \in DOMAIN clients
    BY <1>4 DEF BinaryFrame, BetweenFrames, Remote, State
  <2>2. CASE u \in DOMAIN clients[c].pubs
    <3>. DEFINE n == clients[c].pubs[u]
                s1 == UpdateValue(State, n, value)
                s2 == FlushAllBinary(s1)
    <3>1. Become(s2)
      BY <1>4, <2>2 DEF BinaryFrame
    <3>2. n \in Regular
      BY <1>1, <2>1, <2>2 DEF Whole, Declares, PubsDeclared
    <3>. HIDE DEF n
    <3>3. Carries(State, s1) /\ Whole(s1, {}, {}, {})
      BY <1>1, <3>2, UpdateTopicWhole
    <3>. HIDE DEF s1
    <3>4. Carries(s1, s2) /\ s2.topics = s1.topics
      BY <3>3, LoopsCarry DEF Whole
    <3>. HIDE DEF s2
    <3>5. Carries(State, s2) /\ Whole(s2, {}, {}, {})
      BY <3>3, <3>4, CarriesTransitive, CarriesWhole
    <3>6. QED
      BY <1>1, <3>1, <3>5, BecomeWhole
  <2>3. CASE u \notin DOMAIN clients[c].pubs
    BY <1>4, <2>1, <2>3, NullUidWhole DEF BinaryFrame
  <2>4. QED
    BY <2>2, <2>3
<1>5. QED
  BY <1>2, <1>3, <1>4

\* The application subscribes and unsubscribes: only the server's own meta-topic is
\* about that.
LEMMA AppSubscriptionsMeta ==
  ASSUME Running, MetaInv, NoNullEntry, NEW u \in SubUid
  PROVE  /\ \A sub \in Subscribable : AppSubscribe(u, sub) => MetaInv' /\ TypesKept
         /\ AppUnsubscribe(u) => MetaInv' /\ TypesKept
<1>1. /\ Whole(State, {}, {}, {}) /\ State.topics = topics /\ State.clients = clients
      /\ Self \in DOMAIN clients
  BY Begin, RunningFacts
<1>2. SubsDeclared(App.subs) /\ App = clients[Self]
  BY <1>1 DEF Whole, Declares, App
<1>3. {ServerSubTopic} \ {ServerSubTopic} = {} /\ ServerSubTopic \in {ServerSubTopic}
  OBVIOUS
<1>4. ASSUME NEW sub \in Subscribable, AppSubscribe(u, sub) PROVE MetaInv' /\ TypesKept
  <2>. DEFINE x == Put(App.subs, u, sub)
              s1 == [State EXCEPT !.clients[Self].subs = Put(@, u, sub)]
              s2 == UpdateServerSubMeta(s1)
              s3 == AnnounceCached(s2, Self)
              s4 == PublishInitialValues(s3, Self)
  <2>1. Become(s4)
    BY <1>4 DEF AppSubscribe
  <2>2. s1 = [State EXCEPT !.clients[Self].subs = x] /\ s1.topics = topics
    BY <1>1, <1>2 DEF State
  <2>3. SubsDeclared(x)
    BY <1>2 DEF Put, SubsDeclared
  <2>. HIDE DEF x
  <2>4. Whole(s1, {ServerSubTopic}, {}, {Self})
    BY <1>1, <1>3, <2>2, <2>3, SubsChangeWhole
  <2>. HIDE DEF s1
  <2>5. Carries(s1, s2) /\ Whole(s2, {}, {}, {Self})
    BY <1>3, <2>4, UpdateClientsWhole
  <2>. HIDE DEF s2
  <2>6. GoodState(s2) /\ Self \in DOMAIN s2.clients
    BY <2>5 DEF Whole, GoodState, Safe
  <2>7. Carries(s2, s3) /\ s3.topics = s2.topics /\ Heard(s3, Self)
    BY <2>6, ServeCarries, CachedHeard
  <2>. HIDE DEF s3
  <2>8. Whole(s3, {}, {}, {Self})
    BY <2>5, <2>7, CarriesWhole
  <2>9. Whole(s3, {}, {}, {})
    BY <2>7, <2>8 DEF Whole
  <2>10. GoodState(s3) /\ Self \in DOMAIN s3.clients
    BY <2>9 DEF Whole, GoodState, Safe
  <2>11. Carries(s3, s4) /\ s4.topics = s3.topics
    BY <2>10, ServeCarries
  <2>. HIDE DEF s4
  <2>12. Carries(s1, s4) /\ Whole(s4, {}, {}, {})
    BY <2>5, <2>7, <2>9, <2>11, CarriesTransitive, CarriesWhole
  <2>13. QED
    BY <2>1, <2>2, <2>12, BecomeWhole
<1>5. ASSUME AppUnsubscribe(u), u \in DOMAIN App.subs PROVE MetaInv' /\ TypesKept
  <2>. DEFINE x == Drop(App.subs, u)
              s1 == [State EXCEPT !.clients[Self].subs = Drop(@, u)]
              s2 == UpdateServerSubMeta(s1)
  <2>1. Become(s2)
    BY <1>5 DEF AppUnsubscribe
  <2>2. s1 = [State EXCEPT !.clients[Self].subs = x] /\ s1.topics = topics
    BY <1>1, <1>2 DEF State
  <2>3. SubsDeclared(x) /\ \A m : \A v \in DOMAIN x : Matches(x[v], m) => IsSubscribed(clients[Self], m)
    BY <1>2 DEF Drop, SubsDeclared, IsSubscribed
  <2>. HIDE DEF x
  <2>4. Whole(s1, {ServerSubTopic}, {}, {})
    BY <1>1, <1>3, <2>2, <2>3, SubsChangeWhole
  <2>. HIDE DEF s1
  <2>5. Carries(s1, s2) /\ Whole(s2, {}, {}, {})
    <3>1. Carries(s1, s2) /\ Whole(s2, {ServerSubTopic} \ {ServerSubTopic}, {}, {})
      BY <2>4, UpdateClientsWhole
    <3>2. QED
      BY <1>3, <3>1
  <2>. HIDE DEF s2
  <2>6. QED
    BY <2>1, <2>2, <2>5, BecomeWhole
<1>6. ASSUME AppUnsubscribe(u), u \notin DOMAIN App.subs PROVE MetaInv' /\ TypesKept
  BY <1>1, <1>6, NullUidWhole DEF AppUnsubscribe, App
<1>7. QED
  BY <1>4, <1>5, <1>6

\* The application publishes, unpublishes and sets values.
LEMMA AppPublishersMeta ==
  ASSUME AnnounceRefused = {}, Running, MetaInv, NoNullEntry, NEW u \in PubUid
  PROVE  /\ \A n \in Regular : \A type \in Type : \A cached \in BOOLEAN :
              AppPublish(u, n, type, cached) => MetaInv' /\ TypesKept
         /\ AppUnpublish(u) => MetaInv' /\ TypesKept
         /\ \A value \in Value : AppUpdateTopic(u, value) => MetaInv' /\ TypesKept
<1>1. /\ Whole(State, {}, {}, {}) /\ State.topics = topics /\ State.clients = clients
      /\ Self \in DOMAIN clients
  BY Begin, RunningFacts
<1>2. App = clients[Self] /\ PubsDeclared(App.pubs)
  BY <1>1 DEF Whole, Declares, App
<1>3. {ServerPubTopic} \ {ServerPubTopic} = {} /\ ServerPubTopic \in {ServerPubTopic}
  OBVIOUS
<1>4. ASSUME NEW n \in Regular, NEW type \in Type, NEW cached \in BOOLEAN, AppPublish(u, n, type, cached)
      PROVE  MetaInv' /\ TypesKept
  <2>. DEFINE x == Put(App.pubs, u, n)
              s1 == [State EXCEPT !.clients[Self].pubs = Put(@, u, n)]
              s2 == IF n \in DOMAIN topics
                      THEN OnClient(s1, Self, AssignIds(s1.clients[Self], {n}))
                      ELSE PublishSelf(s1, n, DefaultValue(type), cached)
              s3 == UpdateServerPubMeta(s2)
  <2>1. Become(s3)
    BY <1>4 DEF AppPublish
  <2>2. s1 = [State EXCEPT !.clients[Self].pubs = x] /\ s1.topics = topics
    BY <1>1, <1>2 DEF State
  <2>3. PubsDeclared(x)
    BY <1>2 DEF Put, PubsDeclared
  <2>. HIDE DEF x
  <2>4. Whole(s1, {ServerPubTopic}, {}, {})
    BY <1>1, <1>3, <2>2, <2>3, PubsChangeWhole
  <2>. HIDE DEF s1
  <2>5. Carries(s1, s2) /\ Whole(s2, {ServerPubTopic}, {}, {})
    <3>1. CASE n \in DOMAIN topics
      <4>1. GoodState(s1) /\ Self \in DOMAIN s1.clients /\ n \in DOMAIN s1.topics
        BY <2>2, <2>4, <3>1 DEF Whole, GoodState, Safe
      <4>2. s2 = OnClient(s1, Self, AssignIds(s1.clients[Self], {n}))
        BY <3>1
      <4>. HIDE DEF s2
      <4>3. Carries(s1, s2) /\ s2.topics = s1.topics
        BY <4>1, <4>2, ServeCarries
      <4>4. QED
        BY <2>4, <4>3, CarriesWhole
    <3>2. CASE n \notin DOMAIN topics
      <4>1. {} \ {SubTopic(n), PubTopic(n)} = {}
        OBVIOUS
      <4>2. Carries(s1, s2) /\ Whole(s2, {ServerPubTopic}, {} \ {SubTopic(n), PubTopic(n)}, {})
        BY <2>4, <3>2, TopicValues, PublishWhole
      <4>3. QED
        BY <4>1, <4>2
    <3>3. QED
      BY <3>1, <3>2
  <2>. HIDE DEF s2
  <2>6. Carries(s2, s3) /\ Whole(s3, {}, {}, {})
    BY <1>3, <2>5, UpdateClientsWhole
  <2>. HIDE DEF s3
  <2>7. Carries(s1, s3)
    BY <2>5, <2>6, CarriesTransitive
  <2>8. QED
    BY <2>1, <2>2, <2>6, <2>7, BecomeWhole
<1>5. ASSUME AppUnpublish(u), u \in DOMAIN App.pubs PROVE MetaInv' /\ TypesKept
  <2>. DEFINE x == Drop(App.pubs, u)
              s1 == [State EXCEPT !.clients[Self].pubs = Drop(@, u)]
              s2 == UpdateServerPubMeta(s1)
  <2>1. Become(s2)
    BY <1>5 DEF AppUnpublish
  <2>2. s1 = [State EXCEPT !.clients[Self].pubs = x] /\ s1.topics = topics
    BY <1>1, <1>2 DEF State
  <2>3. PubsDeclared(x)
    BY <1>2 DEF Drop, PubsDeclared
  <2>. HIDE DEF x
  <2>4. Whole(s1, {ServerPubTopic}, {}, {})
    BY <1>1, <1>3, <2>2, <2>3, PubsChangeWhole
  <2>. HIDE DEF s1
  <2>5. Carries(s1, s2) /\ Whole(s2, {}, {}, {})
    BY <1>3, <2>4, UpdateClientsWhole
  <2>. HIDE DEF s2
  <2>6. QED
    BY <2>1, <2>2, <2>5, BecomeWhole
<1>6. ASSUME NEW value \in Value, AppUpdateTopic(u, value), u \in DOMAIN App.pubs
      PROVE  MetaInv' /\ TypesKept
  <2>. DEFINE n == App.pubs[u]
              s1 == UpdateValue(State, n, value)
  <2>1. Become(s1) /\ n \in Regular
    BY <1>2, <1>6 DEF AppUpdateTopic, PubsDeclared
  <2>. HIDE DEF n
  <2>2. Carries(State, s1) /\ Whole(s1, {}, {}, {})
    BY <1>1, <2>1, UpdateTopicWhole
  <2>. HIDE DEF s1
  <2>3. QED
    BY <1>1, <2>1, <2>2, BecomeWhole
<1>7. ASSUME u \notin DOMAIN App.pubs, AppUnpublish(u) \/ \E value \in Value : AppUpdateTopic(u, value)
      PROVE  MetaInv' /\ TypesKept
  BY <1>1, <1>7, NullUidWhole DEF AppUnpublish, AppUpdateTopic
<1>8. QED
  BY <1>4, <1>5, <1>6, <1>7

LEMMA AppStepMeta ==
  ASSUME AnnounceRefused = {}, Running, MetaInv, NoNullEntry, AppStep
  PROVE  MetaInv' /\ TypesKept
<1>1. ASSUME NEW n \in Regular, NEW k \in CachedUpdates, AppSetProperties(n, k)
      PROVE  MetaInv' /\ TypesKept
  BY <1>1, ChangePropertiesMeta DEF AppSetProperties
<1>2. ASSUME AppFlush PROVE MetaInv' /\ TypesKept
  <2>1. Whole(State, {}, {}, {}) /\ State.topics = topics /\ GoodState(State)
    BY Begin DEF Whole
  <2>2. Become(FlushAllBinary(State))
    BY <1>2 DEF AppFlush
  <2>3. Carries(State, FlushAllBinary(State)) /\ FlushAllBinary(State).topics = State.topics
    BY <2>1, LoopsCarry
  <2>4. Whole(FlushAllBinary(State), {}, {}, {})
    BY <2>1, <2>3, CarriesWhole
  <2>5. QED
    BY <2>1, <2>2, <2>3, <2>4, BecomeWhole
<1>3. \A k \in Cacheable : k \in BOOLEAN
  BY NTServerAssumption
<1>4. ASSUME NEW u \in PubUid,
             \/ AppUnpublish(u)
             \/ \E n \in Regular, t \in Type, k \in Cacheable : AppPublish(u, n, t, k)
             \/ \E v \in Value : AppUpdateTopic(u, v)
      PROVE  MetaInv' /\ TypesKept
  BY <1>3, <1>4, AppPublishersMeta
<1>5. QED
  BY <1>1, <1>2, <1>4, AppSubscriptionsMeta DEF AppStep

LEMMA MetaStep ==
  ASSUME AnnounceRefused = {}
  PROVE  Inv /\ MetaInv /\ [Next]_vars => MetaInv' /\ (Next => TypesKept)
<1>. SUFFICES ASSUME Inv, MetaInv, [Next]_vars PROVE MetaInv' /\ (Next => TypesKept)
  OBVIOUS
<1>1. CASE Next
  <2>1. Running /\ NoNullEntry
    BY <1>1, StepsNeedNoNull, RunningFacts
  <2>2. ASSUME NEW c \in Client, ClientStep(c) PROVE MetaInv' /\ TypesKept
    <3>1. ASSUME NEW n \in Regular, NEW k \in CachedUpdates, SetProperties(c, n, k)
          PROVE  MetaInv' /\ TypesKept
      BY <2>1, <3>1, ChangePropertiesMeta DEF SetProperties
    <3>2. ASSUME NEW u \in PubUid,
                 \/ UnPublish(c, u)
                 \/ \E n \in Regular, t \in Type, k \in Cacheable : Publish(c, u, n, t, k)
                 \/ \E v \in Value : BinaryFrame(c, u, v)
          PROVE  MetaInv' /\ TypesKept
      <4>1. \A k \in Cacheable : k \in BOOLEAN
        BY NTServerAssumption
      <4>2. QED
        BY <2>1, <3>2, <4>1, PublishMetaStep, UnPublishMeta, FrameMeta
    <3>3. QED
      BY <2>1, <2>2, <3>1, <3>2, ConnectedMeta, DisconnectedMeta, SubscribeMeta, UnSubscribeMeta,
         FrameMeta DEF ClientStep
  <2>3. QED
    BY <1>1, <2>1, <2>2, AppStepMeta DEF Next
<1>2. CASE UNCHANGED vars /\ ~Next
  BY <1>2 DEF vars, MetaInv, State, NoNullEntry
<1>3. QED
  BY <1>1, <1>2

\* startServer: the three topics of the server, with nothing to tell.
LEMMA MetaInit == Init => MetaInv
<1>. SUFFICES ASSUME Init PROVE MetaInv
  OBVIOUS
<1>. DEFINE r == NewClient(<<"fake_server", 0>>)
<1>1. /\ DOMAIN State.topics = ServerName /\ \A n \in ServerName : State.topics[n].value = {}
      /\ DOMAIN State.clients = {Self} /\ State.clients[Self] = r
  BY DEF Init, State
<1>2. DOMAIN r.subs = {} /\ DOMAIN r.pubs = {}
  BY DEF NewClient
<1>. HIDE DEF r
<1>3. Remote(State) = {} /\ Declared(State) = {}
  BY <1>1, Kinds DEF Remote, Declared, ServerName
<1>4. Subscriptions(State.clients[Self]) = {} /\ Publishers(State.clients[Self]) = {}
  BY <1>1, <1>2 DEF Subscriptions, Publishers
<1>5. Fits(State) /\ Loose(State) /\ NoNullEntry
  <2>1. ServerName \subseteq Name /\ \A n \in ServerName : {} \in ValuesOf(n)
    BY Kinds, NothingIsAValue DEF ServerName, Name, MetaName
  <2>2. \A n \in ServerName : State.topics[n] = [value |-> {}, cached |-> TRUE]
    BY DEF Init, State
  <2>3. Fits(State)
    <3>1. ASSUME NEW n \in ServerName PROVE State.topics[n] \in [value : ValuesOf(n), cached : BOOLEAN]
      <4>1. {} \in ValuesOf(n) /\ TRUE \in BOOLEAN
        BY <2>1
      <4>2. State.topics[n] = [value |-> {}, cached |-> TRUE]
        BY <2>2
      <4>3. QED
        BY <4>1, <4>2
    <3>2. QED
      BY <1>1, <3>1 DEF Fits
  <2>4. LooseSubs(State.clients[Self].subs) /\ LoosePubs(State.clients[Self].pubs)
    BY <1>1, <1>2 DEF LooseSubs, LoosePubs
  <2>5. Loose(State)
    BY <1>1, <2>3, <2>4 DEF Loose, Fits
  <2>6. \A n \in ServerName : topics[n] # NullTopic
    BY <2>2 DEF NullTopic, State
  <2>7. NoNullEntry
    BY <1>1, <1>2, <2>6 DEF NoNullEntry, State
  <2>8. QED
    BY <2>3, <2>5, <2>7
<1>6. \A n \in DOMAIN State.topics \ {} : Truthful(State, n, State.topics[n].value)
  BY <1>1, <1>3, <1>4 DEF Truthful
<1>7. Named(State) /\ Needed(State, DOMAIN State.topics \cup {}) /\ Declares(State.clients[Self])
  <2>1. State.clients[Self].name = <<"fake_server", 0>> /\ DOMAIN State.clients \subseteq Peer
    BY <1>1 DEF NewClient, r, Peer
  <2>2. QED
    BY <1>1, <1>2, <1>3, <2>1 DEF Named, Needed, Declares, SubsDeclared, PubsDeclared
<1>8. Heard(State, Self)
  BY <1>1, <1>2 DEF Heard, IsSubscribed
<1>9. NoNullEntry => GoodState(State)
  BY InitInv DEF Inv
<1>10. QED
  BY <1>1, <1>6, <1>7, <1>8, <1>9, <1>5 DEF MetaInv, Whole

-----------------------------------------------------------------------------
(* The theorems, for an application whose callback refuses no announcement *)
(* (those of the facade never do): a refused one leaves a topic without its *)
(* meta-topics.  Those about the topics hold until a peer names a uid or a *)
(* topic that was never declared: the null pointer that leaves in a map is *)
(* dereferenced by the next handler, and no step of the model follows it.  *)

\* MetaInv is inductive together with Inv, if no announcement is refused.
THEOREM MetaInvariance ==
  ASSUME AnnounceRefused = {}
  PROVE  Spec => []MetaInv
<1>1. QED
  BY InitInv, MetaInit, StepInv, MetaStep, PTL DEF Spec

\* The maps hold what their declarations say, as long as a handler still runs and
\* in the state that a null pointer was left in; a topic's value is of the kind that
\* its name tells, and no cache outgrows its limit.  The application refuses no
\* announcement.
THEOREM TypeCorrect ==
  ASSUME AnnounceRefused = {}
  PROVE  Spec => []TypeOK
<1>1. ASSUME NEW cl, Shape(cl), cl.name \in ClientName \cup {<<"fake_server", 0>>},
             LooseSubs(cl.subs), LoosePubs(cl.pubs)
      PROVE  IsClientData(cl)
  <2>1. \A i \in DOMAIN cl.text : cl.text[i] \in Message
    BY <1>1 DEF Shape, Typed, ToSet
  <2>2. DOMAIN cl.peer.vals \subseteq Nat /\ IdsOf(cl.binary) \subseteq Nat
    BY <1>1, FinalDomains DEF Shape, Typed
  <2>3. DOMAIN cl.peer.vals \subseteq Nat /\ \A i \in DOMAIN cl.binary : cl.binary[i].id \in Nat
    BY <2>2 DEF IdsOf
  <2>4. QED
    BY <1>1, <2>1, <2>3 DEF IsClientData, Shape, Caches, Field, Typed, LooseSubs, LoosePubs
<1>2. Inv /\ MetaInv => TypeOK
  <2>. SUFFICES ASSUME Inv, MetaInv PROVE TypeOK
    OBVIOUS
  <2>1. /\ Safe(State) /\ Named(State) /\ Loose(State) /\ inFrame \subseteq DOMAIN clients \ {Self}
        /\ State.topics = topics /\ State.clients = clients
    BY DEF Inv, MetaInv, State
  <2>2. /\ DOMAIN topics \subseteq Name /\ Self \in DOMAIN clients /\ DOMAIN clients \subseteq Peer
        /\ inFrame \subseteq Remote(State)
    BY <2>1 DEF Safe, Named, Remote
  <2>3. \A n \in DOMAIN topics :
          topics[n] = NullTopic \/ topics[n] \in [value : ValuesOf(n), cached : BOOLEAN]
    BY <2>1 DEF Loose
  <2>4. ASSUME NEW c \in DOMAIN clients PROVE IsClientData(clients[c])
    <3>1. Shape(clients[c]) /\ LooseSubs(clients[c].subs) /\ LoosePubs(clients[c].pubs)
      BY <2>1 DEF Safe, Loose
    <3>2. clients[c].name \in ClientName \cup {<<"fake_server", 0>>}
      BY <2>1 DEF Named, Remote
    <3>3. QED
      BY <1>1, <3>1, <3>2
  <2>5. QED
    BY <2>2, <2>3, <2>4 DEF TypeOK
<1>3. QED
  BY <1>2, Invariance, MetaInvariance, PTL

\* No handler ever leaves a null pointer in a map, or finds one, as long as peers
\* and the application name no uid and no topic that was not declared, and the
\* application refuses no announcement.
THEOREM NullOnlyFromUnknownNames ==
  ASSUME AnnounceRefused = {}, ~UnknownNames
  PROVE  Spec => []NoNullEntry
<1>1. MetaInv => NoNullEntry
  BY DEF MetaInv
<1>2. QED
  BY <1>1, MetaInvariance, PTL

\* nextClientWithName gives no name that a connected client has, though names are
\* given again: the next number is greater than all those in use.  (Stated for an
\* application that refuses no announcement, as it comes from the same invariant.)
THEOREM NamesStayDistinct ==
  ASSUME AnnounceRefused = {}
  PROVE  Spec => []NamesDistinct
<1>1. MetaInv => NamesDistinct
  BY DEF MetaInv, Named, NamesDistinct, State
<1>2. QED
  BY <1>1, MetaInvariance, PTL

\* What the invariant says, in the words of the properties.
LEMMA WholeFacts ==
  ASSUME MetaInv, NoNullEntry
  PROVE  /\ MetaTopicsExist /\ ClientMetaExact /\ SubscribersListed /\ PublishersListed
         /\ TRUE \notin CachedUpdates => SubscribersAnnounced
<1>1. /\ State.topics = topics /\ State.clients = clients
      /\ Whole(State, {}, {}, {}) /\ Needed(State, DOMAIN topics \cup {})
      /\ \A n \in DOMAIN topics : Truthful(State, n, topics[n].value)
      /\ \A c \in DOMAIN clients : Heard(State, c)
      /\ DOMAIN topics \subseteq Name
  BY DEF MetaInv, Whole, State, GoodState, Safe
<1>2. \A n \in Ordinary : SubTopic(n) \in DOMAIN topics /\ PubTopic(n) \in DOMAIN topics /\ n \in Declared(State)
  BY <1>1, OrdinaryRegular DEF Declared, Ordinary, Needed
<1>3. MetaTopicsExist
  BY <1>1, <1>2, WholeNoNull DEF MetaTopicsExist
<1>4. ClientMetaExact
  <2>1. /\ Truthful(State, ClientsTopic, topics[ClientsTopic].value)
        /\ Truthful(State, ServerSubTopic, topics[ServerSubTopic].value)
        /\ Truthful(State, ServerPubTopic, topics[ServerPubTopic].value)
    BY <1>1 DEF Needed, ServerName
  <2>2. /\ topics[ClientsTopic].value = {clients[c].name : c \in Remote(State)}
        /\ topics[ServerSubTopic].value = Subscriptions(App)
        /\ topics[ServerPubTopic].value = Publishers(App)
    BY <1>1, <2>1 DEF Truthful, App
  <2>3. ASSUME NEW c \in Remote(State)
        PROVE  /\ topics[ClientSubTopic(clients[c].name)].value = Subscriptions(clients[c])
               /\ topics[ClientPubTopic(clients[c].name)].value = Publishers(clients[c])
    <3>1. /\ ClientSubTopic(clients[c].name) \in DOMAIN topics
          /\ ClientPubTopic(clients[c].name) \in DOMAIN topics
      BY <1>1 DEF Needed
    <3>2. QED
      BY <1>1, <3>1 DEF Truthful
  <2>4. QED
    BY <2>2, <2>3 DEF ClientMetaExact
<1>5. SubscribersListed
  <2>1. ASSUME NEW n \in Ordinary PROVE Truthful(State, SubTopic(n), topics[SubTopic(n)].value)
    BY <1>1, <1>2
  <2>2. QED
    BY <1>1, <1>2, <2>1 DEF Truthful, SubscribersListed
<1>6. PublishersListed
  <2>1. ASSUME NEW n \in Ordinary PROVE Truthful(State, PubTopic(n), topics[PubTopic(n)].value)
    BY <1>1, <1>2
  <2>2. QED
    BY <1>2, <2>1 DEF Truthful, PublishersListed
<1>7. TRUE \notin CachedUpdates => SubscribersAnnounced
  BY <1>1 DEF Heard, SubscribersAnnounced
<1>8. QED
  BY <1>3, <1>4, <1>5, <1>6, <1>7

\* The assertions of updateTopicSubMetaTopic and updateTopicPubMetaTopic cannot
\* fail while the application refuses no announcement: every ordinary topic has its
\* two meta-topics.
THEOREM MetaTopicsThere ==
  ASSUME AnnounceRefused = {}
  PROVE  Spec => [](NoNullEntry => MetaTopicsExist)
<1>1. MetaInv => (NoNullEntry => MetaTopicsExist)
  BY WholeFacts
<1>2. QED
  BY <1>1, MetaInvariance, PTL

\* The meta-topics about the clients say exactly who is connected and what each
\* declared, whatever order connecting, declaring and leaving came in, with an
\* application that refuses no announcement.
THEOREM ClientsListedExactly ==
  ASSUME AnnounceRefused = {}
  PROVE  Spec => [](NoNullEntry => ClientMetaExact)
<1>1. MetaInv => (NoNullEntry => ClientMetaExact)
  BY WholeFacts
<1>2. QED
  BY <1>1, MetaInvariance, PTL

\* $sub$ of a topic lists every client that subscribes to it, if it came to match
\* by an exact name or a prefix, before the topic was created or after, with an
\* application that refuses no announcement.
THEOREM SubscribersStayListed ==
  ASSUME AnnounceRefused = {}
  PROVE  Spec => [](NoNullEntry => SubscribersListed)
<1>1. MetaInv => (NoNullEntry => SubscribersListed)
  BY WholeFacts
<1>2. QED
  BY <1>1, MetaInvariance, PTL

\* $pub$ of a topic lists every client that publishes it, with an application that
\* refuses no announcement.
THEOREM PublishersStayListed ==
  ASSUME AnnounceRefused = {}
  PROVE  Spec => [](NoNullEntry => PublishersListed)
<1>1. MetaInv => (NoNullEntry => PublishersListed)
  BY WholeFacts
<1>2. QED
  BY <1>1, MetaInvariance, PTL

\* Whoever subscribes to a cached topic has an id for it, if setproperties makes no
\* topic cached that was not (that announces nothing to those who subscribed before)
\* and the application refuses no announcement.
THEOREM SubscribersHear ==
  ASSUME AnnounceRefused = {}, TRUE \notin CachedUpdates
  PROVE  Spec => [](NoNullEntry => SubscribersAnnounced)
<1>1. MetaInv => (NoNullEntry => SubscribersAnnounced)
  BY WholeFacts
<1>2. QED
  BY <1>1, MetaInvariance, PTL

\* A topic keeps the type of its first publisher, whoever publishes it again or
\* sends a value of another type, with an application that refuses no announcement.
THEOREM TypesStable ==
  ASSUME AnnounceRefused = {}
  PROVE  Spec => TypeStable
<1>1. Inv /\ MetaInv /\ [Next]_vars => [TypesKept]_vars
  BY MetaStep
<1>. HIDE DEF TypesKept
<1>2. Spec => [][TypesKept]_vars
  BY <1>1, Invariance, MetaInvariance, PTL DEF Spec
<1>3. QED
  BY <1>2 DEF TypeStable, TypesKept

=============================================================================
