-------------------------- MODULE NTServer_proofs ---------------------------
(***************************************************************************)
(* What is proved of NTServer for every set of clients, names, values and  *)
(* cache limits: what a client is told and sent.                           *)
(*                                                                         *)
(* A handler is a composition of operators, first on one ClientData, then  *)
(* on the state, and the proof follows them.  Quiet and QuietTold say of   *)
(* an operator on a ClientData that it gives new ids only, below nextId,   *)
(* announces each and changes no value that the peer has or will have      *)
(* (Final).  Leads(s, t) says of an operator on the state that it leads    *)
(* from a good state to a good state, in which every copy is of the value  *)
(* a topic has then; it is transitive, and each operator and each handler  *)
(* has a lemma.  What sending does to a copy is SendToCurrent.             *)
(***************************************************************************)
EXTENDS NTServer_lemmas

-----------------------------------------------------------------------------
(* One ClientData.                                                         *)

\* What waits and what was sent has the types that the messages have.
Typed(cl) ==
  /\ ToSet(cl.text) \subseteq Message /\ DOMAIN Final(cl) \subseteq Nat
  /\ cl.peer.early \in BOOLEAN

Shape(cl) ==
  /\ Caches(cl) /\ Typed(cl) /\ Len(cl.text) <= TextLimit /\ Len(cl.binary) <= BinaryLimit
  /\ DOMAIN cl.data \subseteq Name /\ cl.nextId \in Nat
  /\ \A n \in DOMAIN cl.data : cl.data[n] \in [id : Nat, initialPublish : BOOLEAN]

\* Why ids are distinct: they are handed out below nextId, which only grows.
Numbered(cl) == IdsDistinct(cl) /\ \A n \in DOMAIN cl.data : cl.data[n].id < cl.nextId

\* What a client must have been told.
Announcing(cl) == {Announcement(n, cl.data[n].id) : n \in DOMAIN cl.data}

Ids(cl) == Numbered(cl) /\ Told(cl) = Announcing(cl)

\* A client record goes from cl to r: ids stay, and so does initialPublish.
Grows(cl, r) ==
  \A n \in DOMAIN cl.data :
    /\ n \in DOMAIN r.data
    /\ r.data[n].id = cl.data[n].id
    /\ cl.data[n].initialPublish => r.data[n].initialPublish

\* r differs from cl in that names of N may have been given ids and that what
\* waited may have been sent.
Quiet(cl, r, N) ==
  /\ Shape(r) /\ Final(r) = Final(cl)
  /\ cl.binary = <<>> => r.binary = <<>>
  /\ DOMAIN cl.data \subseteq DOMAIN r.data /\ DOMAIN r.data \subseteq DOMAIN cl.data \cup N
  /\ \A n \in DOMAIN cl.data : r.data[n] = cl.data[n]
  /\ \A n \in DOMAIN r.data \ DOMAIN cl.data : ~r.data[n].initialPublish

\* The same for a client that must be told of the ids it is given.
QuietTold(cl, r, N) == Quiet(cl, r, N) /\ (Ids(cl) => Ids(r))

LEMMA QuietTransitive ==
  ASSUME NEW cl, NEW r, NEW q, NEW N, Quiet(cl, r, N), Quiet(r, q, N)
  PROVE  Quiet(cl, q, N)
BY DEF Quiet

\* What reading the caches out gives depends on nothing but them and the peer.
LEMMA FinalSame ==
  ASSUME NEW cl, Caches(cl), NEW r, Caches(r)
  PROVE  /\ r.binary = cl.binary /\ r.peer.vals = cl.peer.vals => Final(r) = Final(cl)
         /\ r.text = cl.text /\ r.peer.known = cl.peer.known => Told(r) = Told(cl)
<1>1. Final(cl) = ReadBinary(cl.peer, cl.binary).vals /\ Final(r) = ReadBinary(r.peer, r.binary).vals
  BY DEF Final, FlushBinary, Caches, Field
<1>2. r.binary = cl.binary /\ r.peer.vals = cl.peer.vals => Final(r) = Final(cl)
  BY <1>1 DEF ReadBinary, Caches, PeerField
<1>3. /\ Told(cl) = cl.peer.known \cup Announced(cl.text)
      /\ Told(r) = r.peer.known \cup Announced(r.text)
  BY DEF Told, FlushText, ReadText, Announced, Caches, Field, PeerField
<1>4. QED
  BY <1>2, <1>3

\* A record whose subscriptions or publishers change.
LEMMA SameData ==
  ASSUME NEW cl, Shape(cl), NEW r, DOMAIN r = Field,
         \A x \in Field \ {"subs", "pubs"} : r[x] = cl[x]
  PROVE  QuietTold(cl, r, {})
<1>1. /\ r.data = cl.data /\ r.nextId = cl.nextId /\ r.text = cl.text
      /\ r.binary = cl.binary /\ r.peer = cl.peer
  BY DEF Field
<1>2. Caches(r)
  BY <1>1 DEF Shape, Caches
<1>3. Final(r) = Final(cl) /\ Told(r) = Told(cl)
  BY <1>1, <1>2, FinalSame DEF Shape
<1>4. Shape(r)
  BY <1>1, <1>2, <1>3 DEF Shape, Typed
<1>5. QED
  BY <1>1, <1>3, <1>4 DEF Quiet, QuietTold, Ids, Numbered, IdsDistinct, Announcing

\* Writing to the text cache, and flushing, as long as nothing is announced.
LEMMA CacheQuiet ==
  ASSUME NEW cl, Shape(cl)
  PROVE  /\ \A msgs : IsSeq(msgs) /\ Announced(msgs) = {} /\ ToSet(msgs) \subseteq Message =>
              QuietTold(cl, PushText(cl, msgs), {}) /\ PushText(cl, msgs).subs = cl.subs
         /\ QuietTold(cl, FlushText(cl), {}) /\ FlushText(cl).subs = cl.subs
         /\ QuietTold(cl, FlushBinary(cl), {}) /\ FlushBinary(cl).subs = cl.subs
<1>1. Caches(cl)
  BY DEF Shape
<1>2. ASSUME NEW msgs, IsSeq(msgs), Announced(msgs) = {}, ToSet(msgs) \subseteq Message
      PROVE  QuietTold(cl, PushText(cl, msgs), {}) /\ PushText(cl, msgs).subs = cl.subs
  <2>. DEFINE r == PushText(cl, msgs)
  <2>1. /\ Caches(r) /\ Len(r.text) <= TextLimit /\ Told(r) = Told(cl) \cup Announced(msgs)
        /\ r.data = cl.data /\ r.nextId = cl.nextId /\ r.binary = cl.binary /\ r.subs = cl.subs
        /\ r.peer.vals = cl.peer.vals /\ r.peer.early = cl.peer.early
        /\ ToSet(r.text) \subseteq ToSet(cl.text) \cup ToSet(msgs)
    BY <1>1, <1>2, PushTextProperties DEF Field
  <2>. HIDE DEF r
  <2>2. Final(r) = Final(cl) /\ Told(r) = Told(cl)
    BY <1>1, <1>2, <2>1, FinalSame
  <2>3. Typed(r)
    BY <1>2, <2>1, <2>2 DEF Shape, Typed
  <2>4. Shape(r)
    BY <2>1, <2>3 DEF Shape
  <2>5. QED
    BY <2>1, <2>2, <2>4 DEF Quiet, QuietTold, Ids, Numbered, IdsDistinct, Announcing, r
<1>3. QuietTold(cl, FlushText(cl), {}) /\ FlushText(cl).subs = cl.subs
  <2>. DEFINE r == FlushText(cl)
  <2>1. /\ Caches(r) /\ r.text = <<>> /\ Told(r) = Told(cl)
        /\ r.data = cl.data /\ r.nextId = cl.nextId /\ r.binary = cl.binary /\ r.subs = cl.subs
        /\ r.peer.vals = cl.peer.vals /\ r.peer.early = cl.peer.early
    BY <1>1, FlushTextProperties DEF Field
  <2>. HIDE DEF r
  <2>2. Final(r) = Final(cl)
    BY <1>1, <2>1, FinalSame
  <2>3. Typed(r)
    BY <2>1, <2>2, EmptySeq DEF Shape, Typed, ToSet
  <2>4. Shape(r)
    BY <2>1, <2>3, NTServerAssumption, EmptySeq DEF Shape
  <2>5. QED
    BY <2>1, <2>2, <2>4 DEF Quiet, QuietTold, Ids, Numbered, IdsDistinct, Announcing, r
<1>4. QuietTold(cl, FlushBinary(cl), {}) /\ FlushBinary(cl).subs = cl.subs
  <2>. DEFINE r == FlushBinary(cl)
  <2>1. /\ Caches(r) /\ r.binary = <<>> /\ Final(r) = Final(cl)
        /\ r.data = cl.data /\ r.nextId = cl.nextId /\ r.text = cl.text /\ r.subs = cl.subs
        /\ r.peer.known = cl.peer.known
        /\ cl.peer.early \in BOOLEAN => r.peer.early \in BOOLEAN
    BY <1>1, FlushBinaryProperties DEF Field
  <2>. HIDE DEF r
  <2>2. Shape(r)
    <3>1. Typed(r)
      BY <2>1 DEF Shape, Typed
    <3>2. QED
      BY <2>1, <3>1, NTServerAssumption, EmptySeq DEF Shape
  <2>3. Told(r) = Told(cl)
    BY <1>1, <2>1, FinalSame
  <2>4. QED
    BY <2>1, <2>2, <2>3 DEF Quiet, QuietTold, Ids, Numbered, IdsDistinct, Announcing, r
<1>5. QED
  BY <1>2, <1>3, <1>4

-----------------------------------------------------------------------------
(* Ids and announcements.                                                  *)

\* nextTopicIdAssigned++ for each new name in turn.
LEMMA AssignIdsProperties ==
  ASSUME NEW cl, Shape(cl), NEW N, N \subseteq Name
  PROVE  LET r == AssignIds(cl, N)
         IN /\ Quiet(cl, r, N) /\ (Numbered(cl) => Numbered(r))
            /\ DOMAIN r.data = DOMAIN cl.data \cup N
            /\ \A x \in Field \ {"data", "nextId"} : r[x] = cl[x]
<1>. DEFINE new == N \ DOMAIN cl.data
            r == AssignIds(cl, N)
<1>1. Cardinality(new) \in Nat /\ new \subseteq Name
  <2>1. IsFiniteSet(new)
    BY NTServerAssumption, FS_Subset
  <2>2. QED
    BY <2>1, FS_CardinalityType
<1>2. /\ DOMAIN r = Field
      /\ r.nextId = cl.nextId + Cardinality(new)
      /\ r.data = [n \in DOMAIN cl.data \cup new |->
                     IF n \in new THEN [id |-> cl.nextId + Position(n, new) - 1,
                                        initialPublish |-> FALSE]
                                  ELSE cl.data[n]]
      /\ \A x \in Field \ {"data", "nextId"} : r[x] = cl[x]
  BY DEF Shape, Caches, Field, AssignIds
<1>3. r.text = cl.text /\ r.binary = cl.binary /\ r.peer = cl.peer
  BY <1>2 DEF Field
<1>4. \A n \in new : /\ r.data[n] \in [id : Nat, initialPublish : BOOLEAN]
                     /\ ~r.data[n].initialPublish
                     /\ r.data[n].id >= cl.nextId
                     /\ r.data[n].id < r.nextId
  <2>1. \A n \in new : Position(n, new) \in 1..Cardinality(new)
    BY <1>1, PositionProperties
  <2>2. ASSUME NEW n \in new
        PROVE  /\ r.data[n] \in [id : Nat, initialPublish : BOOLEAN]
               /\ ~r.data[n].initialPublish
               /\ r.data[n].id >= cl.nextId
               /\ r.data[n].id < r.nextId
    <3>1. PICK k : k = Position(n, new) /\ k \in 1..Cardinality(new)
      BY <2>1
    <3>2. r.data[n] = [id |-> cl.nextId + k - 1, initialPublish |-> FALSE]
      BY <1>2, <3>1
    <3>3. cl.nextId + k - 1 \in Nat /\ cl.nextId + k - 1 >= cl.nextId
          /\ cl.nextId + k - 1 < cl.nextId + Cardinality(new)
      BY <1>1, <3>1 DEF Shape
    <3>4. QED
      BY <1>2, <3>2, <3>3
  <2>3. QED
    BY <2>2
<1>5. \A n \in DOMAIN cl.data : r.data[n] = cl.data[n]
  BY <1>2
<1>. HIDE DEF r
<1>6. Shape(r)
  <2>0. Typed(r)
    <3>1. Caches(cl) /\ Caches(r)
      BY <1>2, <1>3 DEF Shape, Caches
    <3>2. Final(r) = Final(cl)
      BY <1>3, <3>1, FinalSame
    <3>3. QED
      BY <1>3, <3>2 DEF Shape, Typed
  <2>1. Caches(r) /\ Len(r.text) <= TextLimit /\ Len(r.binary) <= BinaryLimit
    BY <1>2, <1>3 DEF Shape, Caches
  <2>2. DOMAIN r.data \subseteq Name /\ r.nextId \in Nat
    BY <1>1, <1>2 DEF Shape
  <2>3. \A n \in DOMAIN r.data : r.data[n] \in [id : Nat, initialPublish : BOOLEAN]
    BY <1>2, <1>4, <1>5 DEF Shape
  <2>4. QED
    BY <2>0, <2>1, <2>2, <2>3 DEF Shape
<1>7. Final(r) = Final(cl)
  BY <1>3, <1>6, FinalSame DEF Shape
<1>8. Quiet(cl, r, N)
  BY <1>2, <1>3, <1>4, <1>5, <1>6, <1>7 DEF Quiet
<1>9. ASSUME Numbered(cl) PROVE Numbered(r)
  <2>1. r.nextId >= cl.nextId /\ cl.nextId \in Nat /\ r.nextId \in Nat
    BY <1>1, <1>2 DEF Shape
  <2>2. \A n \in DOMAIN cl.data : r.data[n].id \in Nat /\ r.data[n].id < cl.nextId
    BY <1>5, <1>9 DEF Numbered, Shape
  <2>3. ASSUME NEW n \in DOMAIN r.data PROVE r.data[n].id < r.nextId
    <3>1. CASE n \in new
      BY <1>4, <3>1
    <3>2. CASE n \in DOMAIN cl.data
      BY <2>1, <2>2, <3>2
    <3>3. QED
      BY <1>2, <3>1, <3>2
  <2>4. ASSUME NEW m \in DOMAIN r.data, NEW n \in DOMAIN r.data, r.data[m].id = r.data[n].id
        PROVE  m = n
    <3>1. CASE m \in new /\ n \in new
      <4>1. Position(m, new) \in Nat /\ Position(n, new) \in Nat
        BY <1>1, <3>1, PositionProperties
      <4>2. Position(m, new) = Position(n, new)
        BY <1>2, <2>1, <2>4, <3>1, <4>1
      <4>3. QED
        BY <1>1, <3>1, <4>2, PositionProperties
    <3>2. CASE m \in DOMAIN cl.data /\ n \in DOMAIN cl.data
      BY <1>5, <1>9, <2>4, <3>2 DEF Numbered, IdsDistinct
    <3>3. CASE m \in new /\ n \in DOMAIN cl.data
      BY <1>4, <2>1, <2>2, <2>4, <3>3
    <3>4. CASE m \in DOMAIN cl.data /\ n \in new
      BY <1>4, <2>1, <2>2, <2>4, <3>4
    <3>5. QED
      BY <1>2, <3>1, <3>2, <3>3, <3>4
  <2>5. QED
    BY <2>3, <2>4 DEF Numbered, IdsDistinct
<1>10. QED
  BY <1>2, <1>8, <1>9 DEF r

\* One announcement of each name.
LEMMA AnnouncementsProperties ==
  ASSUME NEW cl, NEW N, N \subseteq Name
  PROVE  /\ IsSeq(Announcements(cl, N))
         /\ Announced(Announcements(cl, N)) = {Announcement(n, cl.data[n].id) : n \in N}
         /\ (\A n \in N : cl.data[n].id \in Nat) => ToSet(Announcements(cl, N)) \subseteq Message
<1>. DEFINE msgs == Announcements(cl, N)
            k == Cardinality(N)
            all == {Announcement(n, cl.data[n].id) : n \in N}
            order == InOrder(N)
<1>1. /\ k \in Nat /\ \A i \in 1..k : order[i] \in N
      /\ \A n \in N : Position(n, N) \in 1..k /\ order[Position(n, N)] = n
  BY InOrderProperties
<1>2. msgs = [i \in 1..k |-> Announcement(order[i], cl.data[order[i]].id)]
  BY DEF Announcements
<1>. HIDE DEF msgs, k, order
<1>3. \A i \in 1..k : msgs[i] \in all
  BY <1>1, <1>2
<1>4. msgs \in Seq(all) /\ DOMAIN msgs = 1..k
  BY <1>1, <1>2, <1>3
<1>5. ToSet(msgs) = all
  <2>1. ToSet(msgs) \subseteq all
    BY <1>3, <1>4 DEF ToSet
  <2>2. ASSUME NEW n \in N PROVE Announcement(n, cl.data[n].id) \in ToSet(msgs)
    <3>1. PICK i \in 1..k : order[i] = n
      BY <1>1
    <3>2. msgs[i] = Announcement(n, cl.data[n].id)
      BY <1>2, <3>1
    <3>3. QED
      BY <1>4, <3>2 DEF ToSet
  <2>3. QED
    BY <2>1, <2>2
<1>6. \A m \in all : m.method = "announce"
  BY DEF Announcement
<1>7. (\A n \in N : cl.data[n].id \in Nat) => all \subseteq Message
  BY DEF Announcement, Message
<1>. HIDE DEF all
<1>8. Announced(msgs) = all
  BY <1>5, <1>6 DEF Announced
<1>9. QED
  BY <1>4, <1>5, <1>8, <1>7 DEF IsSeq, msgs, all

\* A client is told the ids it is given, and maybe others that it has.
LEMMA AssignAndTell ==
  ASSUME NEW cl, Shape(cl), NEW N, N \subseteq Name, NEW M, N \ DOMAIN cl.data \subseteq M, M \subseteq N
  PROVE  LET a == AssignIds(cl, N)
             r == PushText(a, Announcements(a, M))
         IN QuietTold(cl, r, N) /\ r.subs = cl.subs
<1>. DEFINE a == AssignIds(cl, N)
            msgs == Announcements(a, M)
            r == PushText(a, msgs)
<1>1. /\ Quiet(cl, a, N) /\ (Numbered(cl) => Numbered(a)) /\ DOMAIN a.data = DOMAIN cl.data \cup N
      /\ a.text = cl.text /\ a.peer = cl.peer /\ a.subs = cl.subs
  BY AssignIdsProperties DEF Field
<1>. HIDE DEF a
<1>2. Shape(a) /\ Caches(a) /\ Caches(cl)
  BY <1>1 DEF Quiet, Shape
<1>3. /\ IsSeq(msgs) /\ Announced(msgs) = {Announcement(n, a.data[n].id) : n \in M}
      /\ ToSet(msgs) \subseteq Message
  <2>1. \A n \in M : a.data[n].id \in Nat
    BY <1>1, <1>2 DEF Shape
  <2>2. QED
    BY <2>1, AnnouncementsProperties
<1>. HIDE DEF msgs
<1>4. /\ Caches(r) /\ Len(r.text) <= TextLimit /\ Told(r) = Told(a) \cup Announced(msgs)
      /\ r.data = a.data /\ r.nextId = a.nextId /\ r.binary = a.binary /\ r.subs = a.subs
      /\ r.peer.vals = a.peer.vals /\ r.peer.early = a.peer.early
      /\ ToSet(r.text) \subseteq ToSet(a.text) \cup ToSet(msgs)
  BY <1>2, <1>3, PushTextProperties DEF Field
<1>. HIDE DEF r
<1>5. Final(r) = Final(a) /\ Told(a) = Told(cl)
  BY <1>1, <1>2, <1>4, FinalSame
<1>6. Shape(r)
  <2>1. Typed(r)
    BY <1>2, <1>3, <1>4, <1>5 DEF Shape, Typed
  <2>2. QED
    BY <1>2, <1>4, <2>1 DEF Shape
<1>7. Quiet(cl, r, N)
  BY <1>1, <1>4, <1>6, <1>5 DEF Quiet
<1>8. ASSUME Ids(cl) PROVE Ids(r)
  <2>1. Numbered(r)
    BY <1>1, <1>4, <1>8 DEF Ids, Numbered, IdsDistinct
  <2>2. Told(r) = {Announcement(n, cl.data[n].id) : n \in DOMAIN cl.data}
                    \cup {Announcement(n, a.data[n].id) : n \in M}
    BY <1>3, <1>4, <1>5, <1>8 DEF Ids, Announcing
  <2>3. \A n \in DOMAIN cl.data : a.data[n] = cl.data[n]
    BY <1>1 DEF Quiet
  <2>4. DOMAIN a.data = DOMAIN cl.data \cup M
    BY <1>1
  <2>5. Told(r) = Announcing(r)
    BY <1>4, <2>2, <2>3, <2>4 DEF Announcing
  <2>6. QED
    BY <2>1, <2>5 DEF Ids
<1>9. QED
  BY <1>1, <1>4, <1>7, <1>8 DEF QuietTold, r, msgs, a

\* The announceTopic functions. What thisClient is told goes to its callbacks at
\* once, so nothing is said of Told for it.
LEMMA AnnounceQuiet ==
  ASSUME NEW cl, Shape(cl), NEW N, N \subseteq Name
  PROVE  /\ QuietTold(cl, AnnounceTo(cl, N), N) /\ AnnounceTo(cl, N).subs = cl.subs
         /\ Quiet(cl, AnnounceSelf(cl, N), N) /\ AnnounceSelf(cl, N).subs = cl.subs
         /\ \A n \in N : /\ QuietTold(cl, AnnounceToPublisher(cl, n), N)
                         /\ AnnounceToPublisher(cl, n).subs = cl.subs
<1>1. QuietTold(cl, AnnounceTo(cl, N), N) /\ AnnounceTo(cl, N).subs = cl.subs
  BY AssignAndTell DEF AnnounceTo
<1>2. ASSUME NEW n \in N
      PROVE  /\ QuietTold(cl, AnnounceToPublisher(cl, n), N)
             /\ AnnounceToPublisher(cl, n).subs = cl.subs
  <2>1. /\ QuietTold(cl, AnnounceToPublisher(cl, n), {n})
        /\ AnnounceToPublisher(cl, n).subs = cl.subs
    BY AssignAndTell DEF AnnounceToPublisher
  <2>2. QED
    BY <2>1 DEF QuietTold, Quiet
<1>3. Quiet(cl, AnnounceSelf(cl, N), N) /\ AnnounceSelf(cl, N).subs = cl.subs
  <2>. DEFINE a == AssignIds(cl, N)
              msgs == Announcements(a, N)
              r == AnnounceSelf(cl, N)
  <2>1. Quiet(cl, a, N) /\ a.subs = cl.subs
    BY AssignIdsProperties DEF Field
  <2>2. r = [a EXCEPT !.peer = ReadText(@, msgs)]
    BY DEF AnnounceSelf
  <2>. HIDE DEF a, msgs, r
  <2>3. Shape(a) /\ Caches(a)
    BY <2>1 DEF Quiet, Shape
  <2>4. /\ DOMAIN r = Field /\ DOMAIN r.peer = PeerField /\ r.peer.vals = a.peer.vals
        /\ r.peer.early = a.peer.early
        /\ r.data = a.data /\ r.nextId = a.nextId /\ r.text = a.text /\ r.binary = a.binary
        /\ r.subs = a.subs
    BY <2>2, <2>3 DEF Caches, Field, PeerField, ReadText
  <2>5. Caches(r)
    BY <2>3, <2>4 DEF Caches
  <2>6. Final(r) = Final(a)
    BY <2>3, <2>4, <2>5, FinalSame
  <2>7. Shape(r)
    <3>1. Typed(r)
      BY <2>3, <2>4, <2>6 DEF Shape, Typed
    <3>2. QED
      BY <2>3, <2>4, <2>5, <3>1 DEF Shape
  <2>8. QED
    BY <2>1, <2>4, <2>6, <2>7 DEF Quiet, r
<1>4. QED
  BY <1>1, <1>2, <1>3

\* publishTopicSelfSync may give thisClient an id a second time.
LEMMA LookUpQuiet ==
  ASSUME NEW cl, Shape(cl), NEW n \in Name
  PROVE  Quiet(cl, LookUpSelfId(cl, n), {n}) /\ LookUpSelfId(cl, n).subs = cl.subs
<1>. DEFINE r == LookUpSelfId(cl, n)
<1>1. /\ DOMAIN r = Field /\ DOMAIN r.data = DOMAIN cl.data \cup {n}
      /\ \A m \in DOMAIN cl.data : r.data[m] = cl.data[m]
      /\ n \notin DOMAIN cl.data => r.data[n] = [id |-> 0, initialPublish |-> FALSE]
      /\ r.nextId = cl.nextId /\ r.text = cl.text /\ r.binary = cl.binary /\ r.peer = cl.peer
      /\ r.subs = cl.subs
  BY DEF LookUpSelfId, Shape, Caches, Field
<1>. HIDE DEF r
<1>2. Shape(r)
  <2>1. Caches(r) /\ Len(r.text) <= TextLimit /\ Len(r.binary) <= BinaryLimit
    BY <1>1 DEF Shape, Caches
  <2>2. Typed(r)
    <3>1. Final(r) = Final(cl)
      BY <1>1, <2>1, FinalSame DEF Shape
    <3>2. QED
      BY <1>1, <3>1 DEF Shape, Typed
  <2>3. DOMAIN r.data \subseteq Name /\ r.nextId \in Nat
    BY <1>1 DEF Shape
  <2>4. [id |-> 0, initialPublish |-> FALSE] \in [id : Nat, initialPublish : BOOLEAN]
    OBVIOUS
  <2>5. \A m \in DOMAIN r.data : r.data[m] \in [id : Nat, initialPublish : BOOLEAN]
    BY <1>1, <2>4 DEF Shape
  <2>6. QED
    BY <2>1, <2>3, <2>5, <2>2 DEF Shape
<1>3. Final(r) = Final(cl)
  BY <1>1, <1>2, FinalSame DEF Shape
<1>4. QED
  BY <1>1, <1>2, <1>3 DEF Quiet, r

-----------------------------------------------------------------------------
(* Values.                                                                 *)

\* r is cl after the values that topics has for the names of N were sent.
Delivered(cl, r, tops, N) ==
  /\ DOMAIN Final(r) = DOMAIN Final(cl) \cup {cl.data[n].id : n \in N}
  /\ IdsDistinct(cl) =>
       /\ \A n \in N : Final(r)[cl.data[n].id] = Sent(n, tops[n].value)
       /\ \A n \in DOMAIN cl.data \ N :
            cl.data[n].id \in DOMAIN Final(cl) => Final(r)[cl.data[n].id] = Final(cl)[cl.data[n].id]

\* sendTopicUpdate and sendTopicUpdateSelf.
LEMMA SendToProperties ==
  ASSUME NEW s, NEW c, Shape(s.clients[c]), NEW N, N \subseteq DOMAIN s.clients[c].data,
         c = Self => s.clients[c].binary = <<>>
  PROVE  LET cl == s.clients[c]
             r == SendTo(s, c, N)
         IN /\ Shape(r) /\ Delivered(cl, r, s.topics, N) /\ r.subs = cl.subs
            /\ DOMAIN r.data = DOMAIN cl.data
            /\ c = Self => r.data = cl.data /\ r.binary = cl.binary
            /\ \A n \in DOMAIN cl.data :
                 /\ r.data[n].id = cl.data[n].id
                 /\ r.data[n].initialPublish <=>
                      cl.data[n].initialPublish \/ (c # Self /\ n \in N)
            /\ Ids(cl) => Ids(r)
<1>. DEFINE cl == s.clients[c]
            r == SendTo(s, c, N)
            k == Cardinality(N)
            order == InOrder(N)
            data == [n \in DOMAIN cl.data |->
                       IF n \in N THEN [cl.data[n] EXCEPT !.initialPublish = TRUE] ELSE cl.data[n]]
            marked == [cl EXCEPT !.data = data]
            msgs == [i \in 1..k |-> [id |-> cl.data[order[i]].id,
                                     value |-> Sent(order[i], s.topics[order[i]].value)]]
<1>1. /\ k \in Nat /\ \A i \in 1..k : order[i] \in N /\ Position(order[i], N) = i
      /\ \A n \in N : Position(n, N) \in 1..k /\ order[Position(n, N)] = n
  <2>1. N \subseteq Name
    BY DEF Shape
  <2>2. QED
    BY <2>1, InOrderProperties
<1>2. r = IF c = Self THEN [cl EXCEPT !.peer = ReadBinary(@, msgs)] ELSE PushBinary(marked, msgs)
  BY DEF SendTo
<1>3. Caches(cl) /\ Shape(cl)
  BY DEF Shape
<1>. HIDE DEF cl, k, order
<1>4. IsSeq(msgs) /\ DOMAIN msgs = 1..k
  <2>1. msgs \in Seq({msgs[i] : i \in 1..k})
    BY <1>1
  <2>2. QED
    BY <2>1 DEF IsSeq
<1>5. \A i \in 1..k : /\ msgs[i].id = cl.data[order[i]].id
                      /\ msgs[i].value = Sent(order[i], s.topics[order[i]].value)
  OBVIOUS
<1>. HIDE DEF msgs
<1>6. IdsOf(msgs) = {cl.data[n].id : n \in N}
  <2>1. \A i \in 1..k : \E n \in N : msgs[i].id = cl.data[n].id
    BY <1>1, <1>5
  <2>2. \A n \in N : \E i \in 1..k : msgs[i].id = cl.data[n].id
    BY <1>1, <1>5
  <2>3. QED
    BY <1>4, <2>1, <2>2 DEF IdsOf
<1>7. \A g : Updates(Final(cl), msgs, g) => DOMAIN g \subseteq Nat
  <2>1. \A n \in N : cl.data[n].id \in Nat
    BY <1>3 DEF Shape, cl
  <2>2. IdsOf(msgs) \subseteq Nat /\ DOMAIN Final(cl) \subseteq Nat
    BY <1>3, <1>6, <2>1 DEF Shape, Typed
  <2>3. QED
    BY <2>2 DEF Updates
<1>8. ASSUME NEW g, Updates(Final(cl), msgs, g), Final(r) = g
      PROVE  Delivered(cl, r, s.topics, N)
  <2>1. DOMAIN g = DOMAIN Final(cl) \cup {cl.data[n].id : n \in N}
    BY <1>6, <1>8 DEF Updates
  <2>2. ASSUME IdsDistinct(cl), NEW n \in N PROVE g[cl.data[n].id] = Sent(n, s.topics[n].value)
    <3>1. PICK i \in 1..k : order[i] = n
      BY <1>1
    <3>2. ASSUME NEW j \in 1..k, msgs[j].id = msgs[i].id PROVE j = i
      <4>1. order[j] = order[i]
        BY <1>1, <1>5, <2>2, <3>2 DEF IdsDistinct, cl
      <4>2. QED
        BY <1>1, <4>1
    <3>3. IsLast(msgs, i)
      BY <1>1, <1>4, <3>2 DEF IsLast
    <3>4. QED
      BY <1>4, <1>5, <1>8, <3>1, <3>3 DEF Updates
  <2>3. ASSUME IdsDistinct(cl), NEW n \in DOMAIN cl.data \ N, cl.data[n].id \in DOMAIN Final(cl)
        PROVE  g[cl.data[n].id] = Final(cl)[cl.data[n].id]
    <3>1. cl.data[n].id \notin IdsOf(msgs)
      BY <1>6, <2>3 DEF IdsDistinct, cl
    <3>2. QED
      BY <1>8, <2>3, <3>1 DEF Updates
  <2>4. QED
    BY <1>8, <2>1, <2>2, <2>3 DEF Delivered
<1>9. CASE c = Self
  <2>1. /\ Caches(r) /\ Updates(Final(cl), msgs, Final(r))
        /\ \A x \in Field \ {"peer"} : r[x] = cl[x]
        /\ r.peer.known = cl.peer.known
        /\ cl.peer.early \in BOOLEAN => r.peer.early \in BOOLEAN
    BY <1>2, <1>3, <1>4, <1>9, ReadNowProperties DEF cl
  <2>2. /\ r.data = cl.data /\ r.nextId = cl.nextId /\ r.subs = cl.subs /\ r.text = cl.text
        /\ r.binary = cl.binary
    BY <2>1 DEF Field
  <2>. HIDE DEF r
  <2>3. Shape(r)
    <3>1. Typed(r)
      BY <1>3, <1>7, <2>1, <2>2 DEF Shape, Typed
    <3>2. QED
      BY <1>3, <2>1, <2>2, <3>1 DEF Shape
  <2>4. Told(r) = Told(cl)
    BY <1>3, <2>1, <2>2, FinalSame
  <2>5. Ids(cl) => Ids(r)
    BY <2>2, <2>4 DEF Ids, Numbered, IdsDistinct, Announcing
  <2>6. Delivered(cl, r, s.topics, N)
    BY <1>8, <2>1
  <2>7. QED
    BY <1>9, <2>2, <2>3, <2>5, <2>6 DEF cl, r
<1>10. CASE c # Self
  <2>1. /\ DOMAIN marked = Field /\ marked.data = data
        /\ \A x \in Field \ {"data"} : marked[x] = cl[x]
    BY <1>3 DEF Caches, Field
  <2>2. marked.text = cl.text /\ marked.binary = cl.binary /\ marked.peer = cl.peer
        /\ marked.nextId = cl.nextId /\ marked.subs = cl.subs
    BY <2>1 DEF Field
  <2>3. ASSUME NEW n \in DOMAIN cl.data
        PROVE  /\ data[n] \in [id : Nat, initialPublish : BOOLEAN]
               /\ data[n].id = cl.data[n].id
               /\ data[n].initialPublish <=> cl.data[n].initialPublish \/ n \in N
    BY <1>3 DEF Shape
  <2>4. DOMAIN data = DOMAIN cl.data
    OBVIOUS
  <2>. HIDE DEF marked, data
  <2>5. Caches(marked)
    BY <1>3, <2>1, <2>2 DEF Caches
  <2>6. Final(marked) = Final(cl) /\ Told(marked) = Told(cl)
    BY <1>3, <2>2, <2>5, FinalSame
  <2>7. /\ Caches(r) /\ Len(r.binary) <= BinaryLimit
        /\ Updates(Final(marked), msgs, Final(r))
        /\ \A x \in Field \ {"binary", "peer"} : r[x] = marked[x]
        /\ r.peer.known = marked.peer.known
        /\ marked.peer.early \in BOOLEAN => r.peer.early \in BOOLEAN
    BY <1>2, <1>4, <1>10, <2>5, PushBinaryProperties
  <2>8. r.data = data /\ r.nextId = cl.nextId /\ r.subs = cl.subs /\ r.text = cl.text
    BY <2>1, <2>2, <2>7 DEF Field
  <2>. HIDE DEF r
  <2>9. Shape(r)
    <3>1. \A n \in DOMAIN r.data : r.data[n] \in [id : Nat, initialPublish : BOOLEAN]
      BY <2>3, <2>4, <2>8
    <3>2. Typed(r)
      BY <1>3, <1>7, <2>2, <2>6, <2>7, <2>8 DEF Shape, Typed
    <3>3. QED
      BY <1>3, <2>4, <2>7, <2>8, <3>1, <3>2 DEF Shape
  <2>10. Told(r) = Told(cl)
    BY <2>2, <2>5, <2>6, <2>7, <2>8, FinalSame
  <2>11. ASSUME Ids(cl) PROVE Ids(r)
    <3>1. Numbered(r)
      BY <2>3, <2>4, <2>8, <2>11 DEF Ids, Numbered, IdsDistinct
    <3>2. Announcing(r) = Announcing(cl)
      BY <2>3, <2>4, <2>8 DEF Announcing
    <3>3. QED
      BY <2>10, <2>11, <3>1, <3>2 DEF Ids
  <2>12. Delivered(cl, r, s.topics, N)
    BY <1>8, <2>6, <2>7
  <2>13. /\ DOMAIN r.data = DOMAIN cl.data
         /\ \A n \in DOMAIN cl.data :
              /\ r.data[n].id = cl.data[n].id
              /\ r.data[n].initialPublish <=> cl.data[n].initialPublish \/ n \in N
    BY <2>3, <2>4, <2>8
  <2>14. QED
    BY <1>10, <2>8, <2>9, <2>11, <2>12, <2>13 DEF cl, r
<1>11. QED
  BY <1>9, <1>10

\* A client was sent, at the latest by what waits in its cache, the value that tops
\* has for each name it was ever sent a value of, but for the names of X.
Current(cl, tops, X) ==
  \A n \in DOMAIN cl.data : cl.data[n].initialPublish =>
    /\ cl.data[n].id \in DOMAIN Final(cl)
    /\ n \notin X => Final(cl)[cl.data[n].id] = Sent(n, tops[n].value)

\* The server's own record: nothing waits, initialPublish is never set, and its
\* callbacks were told no value of an id it does not have.
AppShape(cl) ==
  /\ cl.binary = <<>>
  /\ \A n \in DOMAIN cl.data : ~cl.data[n].initialPublish
  /\ DOMAIN Final(cl) \subseteq {cl.data[n].id : n \in DOMAIN cl.data}

\* What its callbacks were told last of a topic it wants the values of.
AppCurrent(cl, tops) ==
  IdsDistinct(cl) =>
    \A n \in DOMAIN cl.data :
      WantsValue(cl, n) /\ cl.data[n].id \in DOMAIN Final(cl) =>
        Final(cl)[cl.data[n].id] = Sent(n, tops[n].value)

\* Sending the names whose value changed since old keeps a client current, and
\* sending all it wants makes the application so.
LEMMA SendToCurrent ==
  ASSUME NEW s, NEW c, Shape(s.clients[c]), NEW N, N \subseteq DOMAIN s.clients[c].data,
         c = Self => AppShape(s.clients[c]),
         NEW old, NEW X,
         \A n \in DOMAIN s.clients[c].data \ N :
           /\ s.clients[c].data[n].initialPublish => n \in X \/ s.topics[n].value = old[n].value
           /\ c = Self /\ WantsValue(s.clients[c], n) => s.topics[n].value = old[n].value
  PROVE  LET cl == s.clients[c]
             r == SendTo(s, c, N)
         IN /\ c # Self /\ Ids(cl) /\ Current(cl, old, X) => Current(r, s.topics, X)
            /\ c = Self => /\ AppShape(r)
                           /\ AppCurrent(cl, old) => AppCurrent(r, s.topics)
                           /\ (\A n \in DOMAIN cl.data : WantsValue(cl, n) => n \in N)
                                => AppCurrent(r, s.topics)
<1>. DEFINE cl == s.clients[c]
            r == SendTo(s, c, N)
<1>1. /\ Delivered(cl, r, s.topics, N) /\ r.subs = cl.subs
      /\ DOMAIN r.data = DOMAIN cl.data
      /\ c = Self => r.data = cl.data /\ r.binary = cl.binary
      /\ \A n \in DOMAIN cl.data :
           /\ r.data[n].id = cl.data[n].id
           /\ r.data[n].initialPublish <=> cl.data[n].initialPublish \/ (c # Self /\ n \in N)
  BY SendToProperties DEF AppShape
<1>. HIDE DEF r, cl
<1>2. ASSUME c # Self, Ids(cl), Current(cl, old, X) PROVE Current(r, s.topics, X)
  <2>1. ASSUME NEW n \in DOMAIN r.data, r.data[n].initialPublish
        PROVE  /\ r.data[n].id \in DOMAIN Final(r)
               /\ n \notin X => Final(r)[r.data[n].id] = Sent(n, s.topics[n].value)
    <3>1. r.data[n].id = cl.data[n].id /\ n \in DOMAIN cl.data /\ IdsDistinct(cl)
      BY <1>1, <1>2, <2>1 DEF Ids, Numbered
    <3>2. CASE n \in N
      BY <1>1, <3>1, <3>2 DEF Delivered
    <3>3. CASE n \notin N
      <4>1. cl.data[n].initialPublish
        BY <1>1, <2>1, <3>1, <3>3
      <4>2. /\ cl.data[n].id \in DOMAIN Final(cl)
            /\ n \notin X => /\ Final(cl)[cl.data[n].id] = Sent(n, old[n].value)
                            /\ s.topics[n].value = old[n].value
        BY <1>2, <3>1, <3>3, <4>1 DEF Current, cl
      <4>3. QED
        BY <1>1, <3>1, <3>3, <4>2 DEF Delivered
    <3>4. QED
      BY <3>2, <3>3
  <2>2. QED
    BY <2>1 DEF Current
<1>3. ASSUME c = Self PROVE AppShape(r)
  <2>1. AppShape(cl)
    BY <1>3 DEF cl
  <2>2. \A n \in N : n \in DOMAIN cl.data
    BY DEF cl
  <2>3. DOMAIN Final(r) \subseteq {cl.data[n].id : n \in DOMAIN cl.data}
    BY <1>1, <2>1, <2>2 DEF Delivered, AppShape
  <2>4. QED
    BY <1>1, <1>3, <2>1, <2>3 DEF AppShape
<1>4. ASSUME c = Self,
             AppCurrent(cl, old) \/ \A n \in DOMAIN cl.data : WantsValue(cl, n) => n \in N
      PROVE  AppCurrent(r, s.topics)
  <2>1. ASSUME IdsDistinct(r), NEW n \in DOMAIN r.data, WantsValue(r, n),
               r.data[n].id \in DOMAIN Final(r)
        PROVE  Final(r)[r.data[n].id] = Sent(n, s.topics[n].value)
    <3>1. /\ r.data = cl.data /\ n \in DOMAIN cl.data /\ IdsDistinct(cl)
          /\ WantsValue(cl, n)
      BY <1>1, <1>4, <2>1 DEF IdsDistinct, WantsValue
    <3>2. CASE n \in N
      BY <1>1, <3>1, <3>2 DEF Delivered
    <3>3. CASE n \notin N
      <4>1. cl.data[n].id \notin {cl.data[m].id : m \in N}
        BY <3>1, <3>3 DEF IdsDistinct, cl
      <4>2. cl.data[n].id \in DOMAIN Final(cl)
        BY <1>1, <2>1, <3>1, <4>1 DEF Delivered
      <4>3. AppCurrent(cl, old)
        BY <1>4, <3>1, <3>3
      <4>4. Final(cl)[cl.data[n].id] = Sent(n, old[n].value)
        BY <3>1, <4>2, <4>3 DEF AppCurrent
      <4>5. s.topics[n].value = old[n].value
        BY <1>4, <3>1, <3>3 DEF cl
      <4>6. QED
        BY <1>1, <3>1, <3>3, <4>2, <4>4, <4>5 DEF Delivered
    <3>4. QED
      BY <3>2, <3>3
  <2>2. QED
    BY <2>1 DEF AppCurrent
<1>5. QED
  BY <1>2, <1>3, <1>4 DEF cl, r

\* What announcing and flushing do to what a client has received.
LEMMA QuietCurrent ==
  ASSUME NEW cl, NEW r, NEW N, Quiet(cl, r, N), NEW old, NEW tops, NEW X,
         \A n \in DOMAIN cl.data : tops[n].value = old[n].value
  PROVE  /\ Current(cl, old, X) => Current(r, tops, X)
         /\ AppShape(cl) => AppShape(r)
         /\ (\A n : WantsValue(r, n) => WantsValue(cl, n)) /\ AppShape(cl) /\ AppCurrent(cl, old)
              => AppCurrent(r, tops)
<1>1. Current(cl, old, X) => Current(r, tops, X)
  BY DEF Quiet, Current
<1>2. AppShape(cl) => AppShape(r)
  <2>1. \A n \in DOMAIN cl.data : n \in DOMAIN r.data /\ r.data[n] = cl.data[n]
    BY DEF Quiet
  <2>2. AppShape(cl) => \A n \in DOMAIN r.data : ~r.data[n].initialPublish
    BY DEF Quiet, AppShape
  <2>3. AppShape(cl) => DOMAIN Final(r) \subseteq {r.data[n].id : n \in DOMAIN r.data}
    BY <2>1 DEF Quiet, AppShape
  <2>4. QED
    BY <2>2, <2>3 DEF Quiet, AppShape
<1>3. ASSUME \A n : WantsValue(r, n) => WantsValue(cl, n), AppShape(cl), AppCurrent(cl, old),
             IdsDistinct(r), NEW n \in DOMAIN r.data, WantsValue(r, n),
             r.data[n].id \in DOMAIN Final(r)
      PROVE  Final(r)[r.data[n].id] = Sent(n, tops[n].value)
  <2>1. IdsDistinct(cl) /\ WantsValue(cl, n)
    BY <1>3 DEF Quiet, IdsDistinct
  <2>2. PICK m \in DOMAIN cl.data : r.data[n].id = cl.data[m].id
    BY <1>3 DEF Quiet, AppShape
  <2>3. n = m
    BY <1>3, <2>2 DEF Quiet, IdsDistinct
  <2>4. QED
    BY <1>3, <2>1, <2>2, <2>3 DEF Quiet, AppCurrent
<1>4. QED
  BY <1>1, <1>2, <1>3 DEF AppCurrent

-----------------------------------------------------------------------------
(* The state.                                                              *)

\* What holds of the records of the clients, and of the topics they know.
Safe(s) ==
  /\ DOMAIN s = {"topics", "clients"}
  /\ DOMAIN s.topics \subseteq Name
  /\ Self \in DOMAIN s.clients /\ AppShape(s.clients[Self])
  /\ \A c \in DOMAIN s.clients :
       /\ Shape(s.clients[c]) /\ DOMAIN s.clients[c].data \subseteq DOMAIN s.topics
       /\ c # Self => Ids(s.clients[c]) /\ Current(s.clients[c], s.topics, Overlooked(c))

\* No topic is the null pointer that setproperties may leave.
GoodState(s) ==
  /\ Safe(s)
  /\ \A n \in DOMAIN s.topics : {"value", "cached"} \subseteq DOMAIN s.topics[n]

\* t comes after s while the same clients are connected,
Follows(s, t) ==
  /\ Safe(t)
  /\ DOMAIN t.clients = DOMAIN s.clients /\ DOMAIN s.topics \subseteq DOMAIN t.topics
  /\ \A c \in DOMAIN s.clients : Grows(s.clients[c], t.clients[c])

\* and the application stays current.
Leads(s, t) ==
  /\ GoodState(t) /\ Follows(s, t)
  /\ AppCurrent(s.clients[Self], s.topics) => AppCurrent(t.clients[Self], t.topics)

\* Two operators on the state one after the other,
LEMMA FollowsTransitive ==
  ASSUME NEW s, NEW t, NEW q, Follows(s, t), Follows(t, q)
  PROVE  Follows(s, q)
<1>1. ASSUME NEW c \in DOMAIN s.clients PROVE Grows(s.clients[c], q.clients[c])
  <2>1. Grows(s.clients[c], t.clients[c]) /\ Grows(t.clients[c], q.clients[c])
    BY <1>1 DEF Follows
  <2>2. QED
    BY <2>1 DEF Grows
<1>2. QED
  BY <1>1 DEF Follows

LEMMA LeadsTransitive ==
  ASSUME NEW s, NEW t, NEW q, Leads(s, t), Leads(t, q)
  PROVE  Leads(s, q)
BY FollowsTransitive DEF Leads

\* and none at all.
LEMMA LeadsReflexive ==
  ASSUME NEW s PROVE (Safe(s) => Follows(s, s)) /\ (GoodState(s) => Leads(s, s))
BY DEF Leads, Follows, Grows, GoodState

\* An operator that announces and flushes to each client on its own.
LEMMA EachClient ==
  ASSUME NEW s, Safe(s), NEW t, DOMAIN t = {"topics", "clients"},
         DOMAIN s.topics \subseteq DOMAIN t.topics, DOMAIN t.topics \subseteq Name,
         \A n \in DOMAIN s.topics : t.topics[n].value = s.topics[n].value,
         DOMAIN t.clients = DOMAIN s.clients,
         \A c \in DOMAIN s.clients :
           /\ Quiet(s.clients[c], t.clients[c], DOMAIN t.topics)
           /\ c # Self => QuietTold(s.clients[c], t.clients[c], DOMAIN t.topics)
  PROVE  /\ Follows(s, t)
         /\ (\A n : WantsValue(t.clients[Self], n) => WantsValue(s.clients[Self], n))
            /\ AppCurrent(s.clients[Self], s.topics) => AppCurrent(t.clients[Self], t.topics)
<1>1. ASSUME NEW c \in DOMAIN s.clients
      PROVE  /\ Shape(t.clients[c]) /\ Grows(s.clients[c], t.clients[c])
             /\ DOMAIN t.clients[c].data \subseteq DOMAIN t.topics
             /\ c # Self => Ids(t.clients[c]) /\ Current(t.clients[c], t.topics, Overlooked(c))
  <2>. DEFINE cl == s.clients[c]
              r == t.clients[c]
  <2>1. /\ Quiet(cl, r, DOMAIN t.topics) /\ DOMAIN cl.data \subseteq DOMAIN s.topics
        /\ c # Self => Ids(cl) /\ Current(cl, s.topics, Overlooked(c)) /\ (Ids(cl) => Ids(r))
    BY DEF Safe, QuietTold
  <2>. HIDE DEF cl, r
  <2>2. Shape(r) /\ Grows(cl, r) /\ DOMAIN r.data \subseteq DOMAIN t.topics
    BY <2>1 DEF Quiet, Grows
  <2>3. \A n \in DOMAIN cl.data : t.topics[n].value = s.topics[n].value
    BY <2>1
  <2>4. c # Self => Current(r, t.topics, Overlooked(c))
    BY <2>1, <2>3, QuietCurrent
  <2>5. QED
    BY <2>1, <2>2, <2>4 DEF cl, r
<1>2. /\ AppShape(t.clients[Self])
      /\ (\A n : WantsValue(t.clients[Self], n) => WantsValue(s.clients[Self], n))
         /\ AppCurrent(s.clients[Self], s.topics) => AppCurrent(t.clients[Self], t.topics)
  <2>1. /\ AppShape(s.clients[Self])
        /\ Quiet(s.clients[Self], t.clients[Self], DOMAIN t.topics)
        /\ \A n \in DOMAIN s.clients[Self].data : t.topics[n].value = s.topics[n].value
    BY DEF Safe
  <2>2. QED
    BY <2>1, QuietCurrent
<1>3. QED
  BY <1>1, <1>2 DEF Follows, Safe

\* The same when all subscriptions and topics stay.
LEMMA EachClientLeads ==
  ASSUME NEW s, GoodState(s), NEW t, DOMAIN t = {"topics", "clients"},
         t.topics = s.topics, DOMAIN t.clients = DOMAIN s.clients,
         \A c \in DOMAIN s.clients :
           /\ t.clients[c].subs = s.clients[c].subs
           /\ Quiet(s.clients[c], t.clients[c], DOMAIN t.topics)
           /\ c # Self => QuietTold(s.clients[c], t.clients[c], DOMAIN t.topics)
  PROVE  Leads(s, t)
<1>1. Self \in DOMAIN s.clients /\ DOMAIN t.topics \subseteq Name
  BY DEF GoodState, Safe
<1>2. \A n : WantsValue(t.clients[Self], n) => WantsValue(s.clients[Self], n)
  BY <1>1 DEF WantsValue
<1>3. /\ Follows(s, t)
      /\ AppCurrent(s.clients[Self], s.topics) => AppCurrent(t.clients[Self], t.topics)
  BY <1>1, <1>2, EachClient DEF GoodState
<1>4. QED
  BY <1>3 DEF Leads, GoodState, Follows

\* A client that is left alone.
LEMMA QuietReflexive ==
  ASSUME NEW cl, Shape(cl), NEW N PROVE QuietTold(cl, cl, N)
BY DEF Quiet, QuietTold

\* Names may be given ids as long as they are those of topics.
LEMMA QuietMore ==
  ASSUME NEW cl, NEW r, NEW N, NEW M, N \subseteq M
  PROVE  /\ Quiet(cl, r, N) => Quiet(cl, r, M)
         /\ QuietTold(cl, r, N) => QuietTold(cl, r, M)
BY DEF Quiet, QuietTold

\* An operator on the record of one client.
LEMMA OnClientLeads ==
  ASSUME NEW s, GoodState(s), NEW c \in DOMAIN s.clients, NEW r, r.subs = s.clients[c].subs,
         Quiet(s.clients[c], r, DOMAIN s.topics),
         c # Self => QuietTold(s.clients[c], r, DOMAIN s.topics)
  PROVE  Leads(s, OnClient(s, c, r))
<1>. DEFINE t == OnClient(s, c, r)
<1>1. /\ DOMAIN t = {"topics", "clients"} /\ t.topics = s.topics
      /\ t.clients = [s.clients EXCEPT ![c] = r]
  BY DEF GoodState, Safe, OnClient
<1>2. \A d \in DOMAIN s.clients : Shape(s.clients[d])
  BY DEF GoodState, Safe
<1>3. ASSUME NEW d \in DOMAIN s.clients
      PROVE  /\ t.clients[d].subs = s.clients[d].subs
             /\ Quiet(s.clients[d], t.clients[d], DOMAIN t.topics)
             /\ d # Self => QuietTold(s.clients[d], t.clients[d], DOMAIN t.topics)
  <2>1. CASE d = c
    BY <1>1, <2>1
  <2>2. CASE d # c
    <3>1. t.clients[d] = s.clients[d]
      BY <1>1, <2>2
    <3>2. QuietTold(s.clients[d], s.clients[d], DOMAIN t.topics)
      BY <1>2, QuietReflexive
    <3>3. QED
      BY <3>1, <3>2 DEF QuietTold
  <2>3. QED
    BY <2>1, <2>2
<1>. HIDE DEF t
<1>4. DOMAIN t.clients = DOMAIN s.clients
  BY <1>1
<1>5. Leads(s, t)
  BY <1>1, <1>3, <1>4, EachClientLeads
<1>6. QED
  BY <1>5 DEF t

\* A record whose subscriptions or publishers change: the application may want
\* more than it was told.
LEMMA ChangeFollows ==
  ASSUME NEW s, GoodState(s), NEW c \in DOMAIN s.clients, NEW x
  PROVE  LET t == [s EXCEPT !.clients[c].subs = x]
             q == [s EXCEPT !.clients[c].pubs = x]
         IN /\ GoodState(t) /\ Follows(s, t) /\ t.topics = s.topics
            /\ DOMAIN t.clients = DOMAIN s.clients
            /\ c # Self \/ (\A n : WantsValue([s.clients[c] EXCEPT !.subs = x], n)
                                    => WantsValue(s.clients[c], n))
                 => Leads(s, t)
            /\ Leads(s, q) /\ q.topics = s.topics
<1>. DEFINE cl == s.clients[c]
            r1 == [cl EXCEPT !.subs = x]
            r2 == [cl EXCEPT !.pubs = x]
            t == [s EXCEPT !.clients[c].subs = x]
            q == [s EXCEPT !.clients[c].pubs = x]
<1>1. Shape(cl) /\ DOMAIN cl = Field
  BY DEF GoodState, Safe, Shape, Caches
<1>2. QuietTold(cl, r1, {}) /\ QuietTold(cl, r2, {}) /\ r2.subs = cl.subs
  <2>1. /\ DOMAIN r1 = Field /\ \A f \in Field \ {"subs", "pubs"} : r1[f] = cl[f]
        /\ DOMAIN r2 = Field /\ \A f \in Field \ {"subs", "pubs"} : r2[f] = cl[f]
        /\ r2.subs = cl.subs
    BY <1>1 DEF Field
  <2>. HIDE DEF r1, r2
  <2>2. QED
    BY <1>1, <2>1, SameData
<1>3. QuietTold(cl, r1, DOMAIN s.topics) /\ QuietTold(cl, r2, DOMAIN s.topics)
  BY <1>2, QuietMore
<1>4. q = OnClient(s, c, r2) /\ t = OnClient(s, c, r1)
  BY DEF OnClient, GoodState, Safe
<1>5. Leads(s, q)
  <2>. HIDE DEF q, r2
  <2>1. Quiet(cl, r2, DOMAIN s.topics)
    BY <1>3 DEF QuietTold
  <2>2. Leads(s, OnClient(s, c, r2))
    BY <1>2, <1>3, <2>1, OnClientLeads
  <2>3. QED
    BY <1>4, <2>2
<1>6. /\ DOMAIN t = {"topics", "clients"} /\ t.topics = s.topics
      /\ t.clients = [s.clients EXCEPT ![c] = r1]
      /\ q.topics = s.topics
  BY DEF GoodState, Safe
<1>7. ASSUME NEW d \in DOMAIN s.clients
      PROVE  /\ Quiet(s.clients[d], t.clients[d], DOMAIN t.topics)
             /\ d # Self => QuietTold(s.clients[d], t.clients[d], DOMAIN t.topics)
  <2>1. CASE d = c
    BY <1>3, <1>6, <2>1 DEF QuietTold
  <2>2. CASE d # c
    <3>1. t.clients[d] = s.clients[d] /\ Shape(s.clients[d])
      BY <1>6, <2>2 DEF GoodState, Safe
    <3>2. QuietTold(s.clients[d], s.clients[d], DOMAIN t.topics)
      BY <3>1, QuietReflexive
    <3>3. QED
      BY <3>1, <3>2 DEF QuietTold
  <2>3. QED
    BY <2>1, <2>2
<1>8. c # Self => t.clients[Self] = s.clients[Self]
  BY <1>6 DEF GoodState, Safe
<1>9. c = Self => t.clients[Self] = r1
  BY <1>6
<1>10. DOMAIN s.topics \subseteq Name /\ DOMAIN t.clients = DOMAIN s.clients /\ Safe(s)
  BY <1>6 DEF GoodState, Safe
<1>. HIDE DEF t, q, r2
<1>11. /\ Follows(s, t)
       /\ (\A n : WantsValue(t.clients[Self], n) => WantsValue(s.clients[Self], n))
            /\ AppCurrent(s.clients[Self], s.topics) => AppCurrent(t.clients[Self], t.topics)
  BY <1>6, <1>7, <1>10, EachClient
<1>12. GoodState(t)
  BY <1>6, <1>11 DEF GoodState, Follows
<1>13. c # Self \/ (\A n : WantsValue(r1, n) => WantsValue(cl, n)) => Leads(s, t)
  BY <1>8, <1>9, <1>11, <1>12 DEF Leads
<1>14. QED
  BY <1>5, <1>6, <1>10, <1>11, <1>12, <1>13 DEF t, q

\* The loops over the clients.
LEMMA LoopsLead ==
  ASSUME NEW s, GoodState(s)
  PROVE  /\ \A n \in DOMAIN s.topics :
              /\ Leads(s, AnnounceToAll(s, n)) /\ Leads(s, TellProperties(s, n))
              /\ \A p \in Client : Leads(s, AnnounceToAllFrom(s, n, p))
         /\ Leads(s, FlushAllText(s)) /\ Leads(s, FlushAllBinary(s))
<1>. DEFINE C == DOMAIN s.clients
<1>0. /\ DOMAIN s = {"topics", "clients"} /\ DOMAIN s.topics \subseteq Name
      /\ \A c \in C : Shape(s.clients[c])
  BY DEF GoodState, Safe
<1>1. \A c \in C : QuietTold(s.clients[c], s.clients[c], DOMAIN s.topics)
  BY <1>0, QuietReflexive
<1>2. ASSUME NEW n \in DOMAIN s.topics PROVE Leads(s, AnnounceToAll(s, n))
  <2>. DEFINE t == AnnounceToAll(s, n)
  <2>1. /\ DOMAIN t = {"topics", "clients"} /\ t.topics = s.topics
        /\ t.clients = [c \in C |-> IF IsSubscribed(s.clients[c], n)
                                      THEN Announce(c, s.clients[c], {n}) ELSE s.clients[c]]
    BY <1>0 DEF AnnounceToAll
  <2>. HIDE DEF t
  <2>2. ASSUME NEW c \in C
        PROVE  /\ t.clients[c].subs = s.clients[c].subs
               /\ Quiet(s.clients[c], t.clients[c], DOMAIN t.topics)
               /\ c # Self => QuietTold(s.clients[c], t.clients[c], DOMAIN t.topics)
    <3>1. /\ QuietTold(s.clients[c], AnnounceTo(s.clients[c], {n}), {n})
          /\ AnnounceTo(s.clients[c], {n}).subs = s.clients[c].subs
          /\ Quiet(s.clients[c], AnnounceSelf(s.clients[c], {n}), {n})
          /\ AnnounceSelf(s.clients[c], {n}).subs = s.clients[c].subs
      BY <1>0, AnnounceQuiet
    <3>2. /\ QuietTold(s.clients[c], AnnounceTo(s.clients[c], {n}), DOMAIN s.topics)
          /\ Quiet(s.clients[c], AnnounceSelf(s.clients[c], {n}), DOMAIN s.topics)
      BY <3>1, QuietMore
    <3>3. QED
      BY <1>1, <2>1, <3>1, <3>2 DEF Announce, QuietTold
  <2>3. QED
    BY <2>1, <2>2, EachClientLeads DEF t
<1>3. ASSUME NEW n \in DOMAIN s.topics PROVE Leads(s, TellProperties(s, n))
  <2>. DEFINE t == TellProperties(s, n)
              told == <<[method |-> "properties", name |-> n]>>
  <2>1. /\ DOMAIN t = {"topics", "clients"} /\ t.topics = s.topics
        /\ t.clients = [c \in C |-> IF c # Self /\ IsSubscribed(s.clients[c], n)
                                      THEN PushText(s.clients[c], told) ELSE s.clients[c]]
    BY <1>0 DEF TellProperties
  <2>2. IsSeq(told) /\ Announced(told) = {} /\ ToSet(told) \subseteq Message
    <3>1. told \in Seq({[method |-> "properties", name |-> n]}) /\ DOMAIN told = 1..1
      OBVIOUS
    <3>2. \A m \in ToSet(told) : m.method = "properties" /\ m \in Message
      <4>1. n \in Name
        BY DEF GoodState, Safe
      <4>2. [method |-> "properties", name |-> n] \in Message
        BY <4>1 DEF Message
      <4>3. QED
        BY <4>2 DEF ToSet
    <3>3. QED
      BY <3>1, <3>2 DEF IsSeq, Announced
  <2>. HIDE DEF t, told
  <2>3. ASSUME NEW c \in C
        PROVE  /\ t.clients[c].subs = s.clients[c].subs
               /\ Quiet(s.clients[c], t.clients[c], DOMAIN t.topics)
               /\ c # Self => QuietTold(s.clients[c], t.clients[c], DOMAIN t.topics)
    <3>1. /\ QuietTold(s.clients[c], PushText(s.clients[c], told), {})
          /\ PushText(s.clients[c], told).subs = s.clients[c].subs
      BY <1>0, <2>2, CacheQuiet
    <3>2. QuietTold(s.clients[c], PushText(s.clients[c], told), DOMAIN s.topics)
      BY <3>1, QuietMore
    <3>3. QED
      BY <1>1, <2>1, <3>1, <3>2 DEF QuietTold
  <2>4. QED
    BY <2>1, <2>3, EachClientLeads DEF t
<1>4. ASSUME NEW n \in DOMAIN s.topics, NEW p \in Client PROVE Leads(s, AnnounceToAllFrom(s, n, p))
  <2>. DEFINE t == AnnounceToAllFrom(s, n, p)
  <2>1. /\ DOMAIN t = {"topics", "clients"} /\ t.topics = s.topics
        /\ t.clients = [c \in C |->
              CASE c = p -> AnnounceToPublisher(s.clients[c], n)
                [] c # p /\ IsSubscribed(s.clients[c], n) -> Announce(c, s.clients[c], {n})
                [] OTHER -> s.clients[c]]
    BY <1>0 DEF AnnounceToAllFrom
  <2>. HIDE DEF t
  <2>2. ASSUME NEW c \in C
        PROVE  /\ t.clients[c].subs = s.clients[c].subs
               /\ Quiet(s.clients[c], t.clients[c], DOMAIN t.topics)
               /\ c # Self => QuietTold(s.clients[c], t.clients[c], DOMAIN t.topics)
    <3>1. /\ QuietTold(s.clients[c], AnnounceTo(s.clients[c], {n}), {n})
          /\ AnnounceTo(s.clients[c], {n}).subs = s.clients[c].subs
          /\ Quiet(s.clients[c], AnnounceSelf(s.clients[c], {n}), {n})
          /\ AnnounceSelf(s.clients[c], {n}).subs = s.clients[c].subs
          /\ QuietTold(s.clients[c], AnnounceToPublisher(s.clients[c], n), {n})
          /\ AnnounceToPublisher(s.clients[c], n).subs = s.clients[c].subs
      BY <1>0, AnnounceQuiet
    <3>2. /\ QuietTold(s.clients[c], AnnounceTo(s.clients[c], {n}), DOMAIN s.topics)
          /\ Quiet(s.clients[c], AnnounceSelf(s.clients[c], {n}), DOMAIN s.topics)
          /\ QuietTold(s.clients[c], AnnounceToPublisher(s.clients[c], n), DOMAIN s.topics)
      BY <3>1, QuietMore
    <3>3. QED
      BY <1>1, <2>1, <3>1, <3>2 DEF Announce, QuietTold
  <2>3. QED
    BY <2>1, <2>2, EachClientLeads DEF t
<1>5. Leads(s, FlushAllText(s))
  <2>. DEFINE t == FlushAllText(s)
  <2>1. /\ DOMAIN t = {"topics", "clients"} /\ t.topics = s.topics
        /\ t.clients = [c \in C |-> IF c = Self THEN s.clients[c] ELSE FlushText(s.clients[c])]
    BY <1>0 DEF FlushAllText
  <2>. HIDE DEF t
  <2>2. \A c \in C : /\ QuietTold(s.clients[c], FlushText(s.clients[c]), DOMAIN s.topics)
                     /\ FlushText(s.clients[c]).subs = s.clients[c].subs
    BY <1>0, CacheQuiet, QuietMore
  <2>3. QED
    BY <1>1, <2>1, <2>2, EachClientLeads DEF t, QuietTold
<1>6. Leads(s, FlushAllBinary(s))
  <2>. DEFINE t == FlushAllBinary(s)
  <2>1. /\ DOMAIN t = {"topics", "clients"} /\ t.topics = s.topics
        /\ t.clients = [c \in C |-> IF c = Self THEN s.clients[c] ELSE FlushBinary(s.clients[c])]
    BY <1>0 DEF FlushAllBinary
  <2>. HIDE DEF t
  <2>2. \A c \in C : /\ QuietTold(s.clients[c], FlushBinary(s.clients[c]), DOMAIN s.topics)
                     /\ FlushBinary(s.clients[c]).subs = s.clients[c].subs
    BY <1>0, CacheQuiet, QuietMore
  <2>3. QED
    BY <1>1, <2>1, <2>2, EachClientLeads DEF t, QuietTold
<1>7. QED
  BY <1>2, <1>3, <1>4, <1>5, <1>6

-----------------------------------------------------------------------------
(* Values, meta-topics and publishing.                                     *)

\* The second piece of a meta-topic's name tells what it is about, and the rest of
\* $sub$ and $pub$ which topic.
LEMMA Kinds ==
  /\ ClientsTopic[2] = "clients" /\ ServerSubTopic[2] = "serversub" /\ ServerPubTopic[2] = "serverpub"
  /\ IsMeta(ClientsTopic) /\ IsMeta(ServerSubTopic) /\ IsMeta(ServerPubTopic)
  /\ \A m : /\ ClientSubTopic(m)[2] = "clientsub" /\ ClientPubTopic(m)[2] = "clientpub"
            /\ IsMeta(ClientSubTopic(m)) /\ IsMeta(ClientPubTopic(m))
  /\ \A n \in Regular : /\ SubTopic(n)[2] = "sub" /\ PubTopic(n)[2] = "pub"
                        /\ IsMeta(SubTopic(n)) /\ IsMeta(PubTopic(n)) /\ ~IsMeta(n)
<1>1. ASSUME NEW n \in Regular
      PROVE  /\ SubTopic(n)[2] = "sub" /\ PubTopic(n)[2] = "pub"
             /\ IsMeta(SubTopic(n)) /\ IsMeta(PubTopic(n)) /\ ~IsMeta(n)
  <2>1. n \in Seq(STRING) /\ ~IsMeta(n)
    BY NTServerAssumption
  <2>2. /\ SubTopic(n)[1] = "$" /\ SubTopic(n)[2] = "sub" /\ SubTopic(n) # <<>>
        /\ PubTopic(n)[1] = "$" /\ PubTopic(n)[2] = "pub" /\ PubTopic(n) # <<>>
    BY <2>1 DEF SubTopic, PubTopic
  <2>3. QED
    BY <2>1, <2>2 DEF IsMeta
<1>2. QED
  BY <1>1 DEF IsMeta, ClientsTopic, ServerSubTopic, ServerPubTopic, ClientSubTopic, ClientPubTopic

LEMMA OrdinaryRegular ==
  ASSUME NEW n \in Name, ~IsMeta(n)
  PROVE  n \in Regular
<1>1. \A m \in MetaName : IsMeta(m)
  BY Kinds DEF MetaName, ServerName
<1>2. QED
  BY <1>1 DEF Name

\* An ordinary topic's name and those of its meta-topics are names.
LEMMA MetaNames ==
  ASSUME NEW n \in Regular
  PROVE  n \in Name /\ SubTopic(n) \in Name /\ PubTopic(n) \in Name
BY DEF Name, MetaName

\* A value changes and is sent to all that may have had the one before.
LEMMA SetAndSendLeads ==
  ASSUME NEW s, GoodState(s), NEW value
  PROVE  Leads(s, SetAndSend(s, value))
<1>. DEFINE C == DOMAIN s.clients
            V == DOMAIN value
            u == [s EXCEPT !.topics = [n \in DOMAIN @ |->
                    IF n \in V THEN [@[n] EXCEPT !.value = value[n]] ELSE @[n]]]
            N(c) == {n \in V \ Missed(s, c) : Follower(s.clients[c], n)}
            t == SendUpdates(u, V)
<1>1. /\ DOMAIN s = {"topics", "clients"} /\ DOMAIN s.topics \subseteq Name
      /\ Self \in C /\ AppShape(s.clients[Self])
      /\ \A c \in C : /\ Shape(s.clients[c]) /\ DOMAIN s.clients[c].data \subseteq DOMAIN s.topics
                      /\ c # Self => Ids(s.clients[c]) /\ Current(s.clients[c], s.topics, Overlooked(c))
      /\ \A n \in DOMAIN s.topics : {"value", "cached"} \subseteq DOMAIN s.topics[n]
  BY DEF GoodState, Safe
<1>2. /\ DOMAIN u = {"topics", "clients"} /\ u.clients = s.clients
      /\ DOMAIN u.topics = DOMAIN s.topics
      /\ \A n \in DOMAIN s.topics : n \notin V => u.topics[n] = s.topics[n]
      /\ \A n \in DOMAIN s.topics : {"value", "cached"} \subseteq DOMAIN u.topics[n]
  BY <1>1
<1>. HIDE DEF u
<1>3. /\ DOMAIN t = {"topics", "clients"} /\ t.topics = u.topics
      /\ t.clients = [c \in C |-> SendTo(u, c, N(c))]
  BY <1>2 DEF SendUpdates, Missed
<1>4. ASSUME NEW c \in C
      PROVE  /\ Shape(t.clients[c]) /\ Grows(s.clients[c], t.clients[c])
             /\ DOMAIN t.clients[c].data \subseteq DOMAIN t.topics
             /\ c # Self => Ids(t.clients[c]) /\ Current(t.clients[c], t.topics, Overlooked(c))
             /\ c = Self => /\ AppShape(t.clients[c])
                            /\ AppCurrent(s.clients[c], s.topics)
                                 => AppCurrent(t.clients[c], t.topics)
  <2>. DEFINE cl == u.clients[c]
              M == N(c)
              r == SendTo(u, c, M)
  <2>1. /\ cl = s.clients[c] /\ M \subseteq DOMAIN cl.data /\ t.clients[c] = r
        /\ \A n \in DOMAIN cl.data \ M :
             cl.data[n].initialPublish \/ WantsValue(cl, n) => n \notin V \/ n \in Missed(s, c)
    BY <1>2, <1>3 DEF Follower
  <2>. HIDE DEF M, N
  <2>2. Missed(s, c) \subseteq Overlooked(c) /\ (c = Self => Missed(s, c) = {})
    BY NTServerAssumption DEF Missed, Overlooked
  <2>8. \A n \in DOMAIN cl.data \ M :
          /\ cl.data[n].initialPublish => n \in Overlooked(c) \/ u.topics[n].value = s.topics[n].value
          /\ c = Self /\ WantsValue(cl, n) => u.topics[n].value = s.topics[n].value
    BY <1>1, <1>2, <2>1, <2>2
  <2>3. Shape(cl) /\ (c = Self => AppShape(cl) /\ cl.binary = <<>>)
    BY <1>1, <2>1 DEF AppShape
  <2>4. /\ Shape(r) /\ DOMAIN r.data = DOMAIN cl.data
        /\ \A n \in DOMAIN cl.data :
             /\ r.data[n].id = cl.data[n].id
             /\ r.data[n].initialPublish <=>
                  cl.data[n].initialPublish \/ (c # Self /\ n \in M)
        /\ Ids(cl) => Ids(r)
    BY <2>1, <2>3, SendToProperties
  <2>5. /\ c # Self /\ Ids(cl) /\ Current(cl, s.topics, Overlooked(c)) => Current(r, u.topics, Overlooked(c))
        /\ c = Self => AppShape(r) /\ (AppCurrent(cl, s.topics) => AppCurrent(r, u.topics))
    BY <2>1, <2>8, <2>3, SendToCurrent
  <2>. HIDE DEF r
  <2>6. Grows(cl, r)
    BY <2>4 DEF Grows
  <2>7. QED
    BY <1>1, <1>2, <1>3, <2>1, <2>4, <2>5, <2>6
<1>5. DOMAIN t.clients = C
  BY <1>3
<1>. HIDE DEF t
<1>6. Safe(t)
  BY <1>1, <1>2, <1>3, <1>4, <1>5 DEF Safe
<1>7. Leads(s, t)
  BY <1>1, <1>2, <1>3, <1>4, <1>5, <1>6 DEF Leads, GoodState, Follows
<1>8. QED
  BY <1>7 DEF SetAndSend, t, u

\* Topics are added, with a value or as null pointers.
LEMMA MoreTopicsLead ==
  ASSUME NEW s, GoodState(s), NEW t, DOMAIN t = {"topics", "clients"}, t.clients = s.clients,
         DOMAIN s.topics \subseteq DOMAIN t.topics, DOMAIN t.topics \subseteq Name,
         \A m \in DOMAIN s.topics : t.topics[m] = s.topics[m],
         \A m \in DOMAIN t.topics : {"value", "cached"} \subseteq DOMAIN t.topics[m]
  PROVE  Leads(s, t)
<1>1. Safe(s) /\ \A c \in DOMAIN s.clients : Shape(s.clients[c])
  BY DEF GoodState, Safe
<1>2. \A c \in DOMAIN s.clients : QuietTold(s.clients[c], s.clients[c], DOMAIN t.topics)
  BY <1>1, QuietReflexive
<1>3. \A c \in DOMAIN s.clients :
         /\ Quiet(s.clients[c], t.clients[c], DOMAIN t.topics)
         /\ c # Self => QuietTold(s.clients[c], t.clients[c], DOMAIN t.topics)
  BY <1>2 DEF QuietTold
<1>4. \A m : WantsValue(t.clients[Self], m) => WantsValue(s.clients[Self], m)
  OBVIOUS
<1>5. /\ Follows(s, t)
      /\ AppCurrent(s.clients[Self], s.topics) => AppCurrent(t.clients[Self], t.topics)
  BY <1>1, <1>3, <1>4, EachClient
<1>6. QED
  BY <1>5 DEF Leads, GoodState, Follows

\* operator[] of a name that is not there.
LEMMA LeaveNullLeads ==
  ASSUME NEW s, GoodState(s), NEW N, N \subseteq Name, N \cap DOMAIN s.topics = {}
  PROVE  Leads(s, LeaveNull(s, N))
<1>. DEFINE t == LeaveNull(s, N)
<1>1. /\ DOMAIN s = {"topics", "clients"} /\ DOMAIN s.topics \subseteq Name
      /\ \A m \in DOMAIN s.topics : {"value", "cached"} \subseteq DOMAIN s.topics[m]
  BY DEF GoodState, Safe
<1>2. {"value", "cached"} \subseteq DOMAIN NullTopic
  BY DEF NullTopic
<1>3. /\ DOMAIN t = {"topics", "clients"} /\ t.clients = s.clients
      /\ DOMAIN t.topics = DOMAIN s.topics \cup N
      /\ \A m \in DOMAIN s.topics : t.topics[m] = s.topics[m]
      /\ \A m \in N : t.topics[m] = NullTopic
  BY <1>1 DEF LeaveNull
<1>. HIDE DEF t
<1>4. Leads(s, t)
  BY <1>1, <1>2, <1>3, MoreTopicsLead
<1>5. QED
  BY <1>4 DEF t

LEMMA SetMetaLeads ==
  ASSUME NEW s, GoodState(s), NEW value, DOMAIN value \subseteq Name
  PROVE  Leads(s, SetMeta(s, value))
<1>1. Leads(s, SetAndSend(s, value))
  BY SetAndSendLeads
<1>2. Leads(s, LeaveNull(s, DOMAIN value \ DOMAIN s.topics))
  BY LeaveNullLeads
<1>3. QED
  BY <1>1, <1>2 DEF SetMeta

\* So do the update...MetaTopic functions and updateTopic.
LEMMA MetaLeads ==
  ASSUME NEW s, GoodState(s)
  PROVE  /\ Leads(s, UpdateClientsMeta(s))
         /\ Leads(s, UpdateServerSubMeta(s)) /\ Leads(s, UpdateServerPubMeta(s))
         /\ \A c : Leads(s, UpdateClientSubMeta(s, c)) /\ Leads(s, UpdateClientPubMeta(s, c))
         /\ \A N \in SUBSET Regular : Leads(s, UpdateTopicSubMeta(s, N))
         /\ \A n \in Regular : Leads(s, UpdateTopicPubMeta(s, n))
         /\ \A n, value : Leads(s, UpdateValue(s, n, value))
<1>1. ASSUME NEW N \in SUBSET Regular PROVE Leads(s, UpdateTopicSubMeta(s, N))
  <2>1. {SubTopic(n) : n \in N} \subseteq Name
    BY MetaNames
  <2>2. QED
    BY <2>1, SetMetaLeads DEF UpdateTopicSubMeta
<1>2. ASSUME NEW n \in Regular PROVE Leads(s, UpdateTopicPubMeta(s, n))
  BY MetaNames, SetMetaLeads DEF UpdateTopicPubMeta
<1>3. QED
  BY <1>1, <1>2, SetAndSendLeads
     DEF UpdateClientsMeta, UpdateServerSubMeta, UpdateServerPubMeta, UpdateClientSubMeta,
         UpdateClientPubMeta, UpdateValue

\* getOrCreateTopic adds one name.
LEMMA GetOrCreateLeads ==
  ASSUME NEW s, GoodState(s), NEW n \in Name, NEW value, NEW cached
  PROVE  LET t == GetOrCreate(s, n, value, cached) IN Leads(s, t) /\ n \in DOMAIN t.topics
<1>. DEFINE t == GetOrCreate(s, n, value, cached)
<1>1. /\ DOMAIN s = {"topics", "clients"} /\ DOMAIN s.topics \subseteq Name
      /\ \A m \in DOMAIN s.topics : {"value", "cached"} \subseteq DOMAIN s.topics[m]
  BY DEF GoodState, Safe
<1>2. /\ DOMAIN t = {"topics", "clients"} /\ t.clients = s.clients
      /\ DOMAIN t.topics = DOMAIN s.topics \cup {n}
      /\ \A m \in DOMAIN s.topics : t.topics[m] = s.topics[m]
      /\ \A m \in DOMAIN t.topics : {"value", "cached"} \subseteq DOMAIN t.topics[m]
  BY <1>1 DEF GetOrCreate
<1>. HIDE DEF t
<1>3. Leads(s, t)
  BY <1>1, <1>2, MoreTopicsLead
<1>4. QED
  BY <1>2, <1>3 DEF t

\* A topic published by the server itself.
LEMMA PublishMetaLeads ==
  ASSUME NEW s, GoodState(s), NEW n \in Name
  PROVE  Leads(s, PublishMeta(s, n))
<1>. DEFINE created == GetOrCreate(s, n, {}, TRUE)
<1>1. Leads(s, created) /\ n \in DOMAIN created.topics
  BY GetOrCreateLeads
<1>. HIDE DEF created
<1>2. Leads(created, AnnounceToAll(created, n))
  BY <1>1, LoopsLead DEF Leads
<1>3. QED
  BY <1>1, <1>2, LeadsTransitive DEF PublishMeta, created

\* publishTopic of $sub$ and $pub$, and their refresh.
LEMMA PublishTopicMetasLeads ==
  ASSUME NEW s, GoodState(s), NEW n \in Regular
  PROVE  Leads(s, PublishTopicMetas(s, n))
<1>. DEFINE s1 == PublishMeta(s, SubTopic(n))
            s2 == PublishMeta(s1, PubTopic(n))
            s3 == UpdateTopicSubMeta(s2, {n})
            s4 == UpdateTopicPubMeta(s3, n)
<1>1. Leads(s, s1)
  BY MetaNames, PublishMetaLeads
<1>2. Leads(s1, s2)
  BY <1>1, MetaNames, PublishMetaLeads DEF Leads
<1>3. Leads(s2, s3)
  BY <1>2, MetaLeads DEF Leads
<1>4. Leads(s3, s4)
  BY <1>3, MetaLeads DEF Leads
<1>. HIDE DEF s1, s2, s3, s4
<1>5. Leads(s, s) /\ Leads(s, s2) /\ Leads(s, s4)
  BY <1>1, <1>2, <1>3, <1>4, LeadsTransitive, LeadsReflexive
<1>6. PublishTopicMetas(s, n) \in {s, s1, s2, s4}
  BY DEF PublishTopicMetas, s1, s2, s3, s4
<1>7. QED
  BY <1>1, <1>5, <1>6

\* publishTopic on behalf of a client.
LEMMA PublishFromLeads ==
  ASSUME NEW s, GoodState(s), NEW n \in Regular, NEW value, NEW cached, NEW p \in Client
  PROVE  Leads(s, PublishFrom(s, n, value, cached, p))
<1>. DEFINE s1 == GetOrCreate(s, n, value, cached)
            s2 == AnnounceToAllFrom(s1, n, p)
            s3 == PublishTopicMetas(s2, n)
<1>1. Leads(s, s1) /\ n \in DOMAIN s1.topics
  BY MetaNames, GetOrCreateLeads
<1>. HIDE DEF s1
<1>2. Leads(s1, s2)
  BY <1>1, LoopsLead DEF Leads
<1>3. Leads(s2, s3)
  BY <1>2, PublishTopicMetasLeads DEF Leads
<1>. HIDE DEF s2, s3
<1>4. Leads(s, s3)
  BY <1>1, <1>2, <1>3, LeadsTransitive
<1>5. QED
  BY <1>4 DEF PublishFrom, s1, s2, s3

\* publishTopicSelfSync may give thisClient an id a second time.
LEMMA PublishSelfLeads ==
  ASSUME NEW s, GoodState(s), NEW n \in Regular, NEW value, NEW cached
  PROVE  Leads(s, PublishSelf(s, n, value, cached))
<1>. DEFINE s1 == GetOrCreate(s, n, value, cached)
            s2 == AnnounceToAll(s1, n)
            s3 == PublishTopicMetas(s2, n)
            cl == s3.clients[Self]
            r == LookUpSelfId(cl, n)
            s4 == OnClient(s3, Self, r)
<1>1. Leads(s, s1) /\ n \in DOMAIN s1.topics
  BY MetaNames, GetOrCreateLeads
<1>. HIDE DEF s1
<1>2. Leads(s1, s2)
  BY <1>1, LoopsLead DEF Leads
<1>3. Leads(s2, s3)
  BY <1>2, PublishTopicMetasLeads DEF Leads
<1>. HIDE DEF s2, s3
<1>4. Leads(s, s3)
  BY <1>1, <1>2, <1>3, LeadsTransitive
<1>5. Shape(cl) /\ n \in Name /\ n \in DOMAIN s3.topics /\ Self \in DOMAIN s3.clients /\ GoodState(s3)
  BY <1>1, <1>2, <1>3, MetaNames DEF Leads, Follows, GoodState, Safe
<1>6. Quiet(cl, r, DOMAIN s3.topics) /\ r.subs = cl.subs
  BY <1>5, LookUpQuiet, QuietMore
<1>. HIDE DEF r
<1>7. Leads(s3, s4)
  BY <1>5, <1>6, OnClientLeads
<1>. HIDE DEF s4
<1>8. Leads(s, s4)
  BY <1>4, <1>7, LeadsTransitive
<1>9. PublishSelf(s, n, value, cached) \in {s3, s4}
  BY DEF PublishSelf, r, s1, s2, s3, s4
<1>10. QED
  BY <1>4, <1>8, <1>9

\* Serving one client.
LEMMA ServeLeads ==
  ASSUME NEW s, GoodState(s), NEW c \in DOMAIN s.clients
  PROVE  /\ Leads(s, AnnounceCached(s, c))
         /\ \A n \in DOMAIN s.topics : Leads(s, OnClient(s, c, AnnounceToPublisher(s.clients[c], n)))
         /\ \A n \in DOMAIN s.topics : Leads(s, OnClient(s, Self, AssignIds(s.clients[Self], {n})))
         /\ Leads(s, OnClient(s, c, FlushText(s.clients[c])))
         /\ Leads(s, OnClient(s, c, FlushBinary(s.clients[c])))
<1>. DEFINE cl == s.clients[c]
            N == {n \in DOMAIN s.topics : s.topics[n].cached /\ IsSubscribed(cl, n)}
<1>1. Shape(cl) /\ N \subseteq Name /\ DOMAIN s.topics \subseteq Name /\ N \subseteq DOMAIN s.topics
      /\ Self \in DOMAIN s.clients /\ Shape(s.clients[Self])
  BY DEF GoodState, Safe
<1>2. Leads(s, AnnounceCached(s, c))
  <2>. HIDE DEF N
  <2>1. /\ QuietTold(cl, AnnounceTo(cl, N), N) /\ AnnounceTo(cl, N).subs = cl.subs
        /\ Quiet(cl, AnnounceSelf(cl, N), N) /\ AnnounceSelf(cl, N).subs = cl.subs
    BY <1>1, AnnounceQuiet
  <2>2. /\ QuietTold(cl, AnnounceTo(cl, N), DOMAIN s.topics)
        /\ Quiet(cl, AnnounceTo(cl, N), DOMAIN s.topics)
        /\ Quiet(cl, AnnounceSelf(cl, N), DOMAIN s.topics)
    BY <1>1, <2>1, QuietMore DEF QuietTold
  <2>3. CASE c = Self
    <3>1. Leads(s, OnClient(s, c, AnnounceSelf(cl, N)))
      BY <2>1, <2>2, <2>3, OnClientLeads
    <3>2. QED
      BY <2>3, <3>1 DEF AnnounceCached, Announce, N
  <2>4. CASE c # Self
    <3>1. Leads(s, OnClient(s, c, AnnounceTo(cl, N)))
      BY <2>1, <2>2, <2>4, OnClientLeads
    <3>2. QED
      BY <2>4, <3>1 DEF AnnounceCached, Announce, N
  <2>5. QED
    BY <2>3, <2>4
<1>3. ASSUME NEW n \in DOMAIN s.topics
      PROVE  Leads(s, OnClient(s, c, AnnounceToPublisher(cl, n)))
  <2>. DEFINE r == AnnounceToPublisher(cl, n)
  <2>1. QuietTold(cl, r, {n}) /\ r.subs = cl.subs
    BY <1>1, AnnounceQuiet
  <2>. HIDE DEF r
  <2>2. QuietTold(cl, r, DOMAIN s.topics) /\ Quiet(cl, r, DOMAIN s.topics)
    BY <2>1, QuietMore DEF QuietTold
  <2>3. Leads(s, OnClient(s, c, r))
    BY <2>1, <2>2, OnClientLeads
  <2>4. QED
    BY <2>3 DEF r
<1>4. ASSUME NEW n \in DOMAIN s.topics
      PROVE  Leads(s, OnClient(s, Self, AssignIds(s.clients[Self], {n})))
  <2>. DEFINE r == AssignIds(s.clients[Self], {n})
  <2>1. Quiet(s.clients[Self], r, {n}) /\ r.subs = s.clients[Self].subs
    BY <1>1, AssignIdsProperties DEF Field
  <2>. HIDE DEF r
  <2>2. Quiet(s.clients[Self], r, DOMAIN s.topics)
    BY <2>1, QuietMore
  <2>3. Leads(s, OnClient(s, Self, r))
    BY <1>1, <2>1, <2>2, OnClientLeads
  <2>4. QED
    BY <2>3 DEF r
<1>5. /\ Leads(s, OnClient(s, c, FlushText(cl)))
      /\ Leads(s, OnClient(s, c, FlushBinary(cl)))
  <2>1. /\ QuietTold(cl, FlushText(cl), {}) /\ FlushText(cl).subs = cl.subs
        /\ QuietTold(cl, FlushBinary(cl), {}) /\ FlushBinary(cl).subs = cl.subs
    BY <1>1, CacheQuiet
  <2>2. /\ QuietTold(cl, FlushText(cl), DOMAIN s.topics) /\ Quiet(cl, FlushText(cl), DOMAIN s.topics)
        /\ QuietTold(cl, FlushBinary(cl), DOMAIN s.topics) /\ Quiet(cl, FlushBinary(cl), DOMAIN s.topics)
    BY <2>1, QuietMore DEF QuietTold
  <2>3. QED
    BY <2>1, <2>2, OnClientLeads
<1>6. QED
  BY <1>2, <1>3, <1>4, <1>5

\* publishInitialValues: the application has then been told all it wants.
LEMMA InitialValuesLeads ==
  ASSUME NEW s, GoodState(s), NEW c \in DOMAIN s.clients
  PROVE  LET t == PublishInitialValues(s, c)
         IN Leads(s, t) /\ (c = Self => AppCurrent(t.clients[Self], t.topics))
<1>. DEFINE t == PublishInitialValues(s, c)
            cl == s.clients[c]
            N == {n \in DOMAIN cl.data : ~cl.data[n].initialPublish /\ WantsValue(cl, n)}
            r == SendTo(s, c, N)
<1>1. /\ DOMAIN s = {"topics", "clients"} /\ DOMAIN s.topics \subseteq Name
      /\ Self \in DOMAIN s.clients /\ AppShape(s.clients[Self])
      /\ \A d \in DOMAIN s.clients :
           /\ Shape(s.clients[d]) /\ DOMAIN s.clients[d].data \subseteq DOMAIN s.topics
           /\ d # Self => Ids(s.clients[d]) /\ Current(s.clients[d], s.topics, Overlooked(d))
      /\ \A n \in DOMAIN s.topics : {"value", "cached"} \subseteq DOMAIN s.topics[n]
  BY DEF GoodState, Safe
<1>2. /\ DOMAIN t = {"topics", "clients"} /\ t.topics = s.topics
      /\ t.clients = [s.clients EXCEPT ![c] = r]
  BY <1>1 DEF PublishInitialValues, OnClient
<1>3. N \subseteq DOMAIN cl.data /\ \A n \in DOMAIN cl.data : ~cl.data[n].initialPublish /\ WantsValue(cl, n) => n \in N
  OBVIOUS
<1>4. Shape(cl) /\ (c = Self => AppShape(cl) /\ cl.binary = <<>>)
  BY <1>1 DEF AppShape
<1>. HIDE DEF N
<1>5. /\ Shape(r) /\ DOMAIN r.data = DOMAIN cl.data
      /\ \A n \in DOMAIN cl.data :
           /\ r.data[n].id = cl.data[n].id
           /\ r.data[n].initialPublish <=>
                cl.data[n].initialPublish \/ (c # Self /\ n \in N)
      /\ Ids(cl) => Ids(r)
  BY <1>3, <1>4, SendToProperties
<1>6. /\ c # Self /\ Ids(cl) /\ Current(cl, s.topics, Overlooked(c)) => Current(r, s.topics, Overlooked(c))
      /\ c = Self => /\ AppShape(r)
                     /\ (\A n \in DOMAIN cl.data : WantsValue(cl, n) => n \in N)
                          => AppCurrent(r, s.topics)
  BY <1>3, <1>4, SendToCurrent
<1>7. c = Self => AppCurrent(r, s.topics)
  BY <1>3, <1>4, <1>6 DEF AppShape
<1>. HIDE DEF r
<1>8. Grows(cl, r)
  BY <1>5 DEF Grows
<1>9. ASSUME NEW d \in DOMAIN s.clients
      PROVE  /\ Shape(t.clients[d]) /\ Grows(s.clients[d], t.clients[d])
             /\ DOMAIN t.clients[d].data \subseteq DOMAIN t.topics
             /\ d # Self => Ids(t.clients[d]) /\ Current(t.clients[d], t.topics, Overlooked(d))
  <2>1. CASE d = c
    BY <1>1, <1>2, <1>5, <1>6, <1>8, <2>1
  <2>2. CASE d # c
    <3>1. t.clients[d] = s.clients[d]
      BY <1>2, <2>2
    <3>2. QED
      BY <1>1, <1>2, <3>1 DEF Grows
  <2>3. QED
    BY <2>1, <2>2
<1>10. /\ DOMAIN t.clients = DOMAIN s.clients
       /\ c = Self => t.clients[Self] = r
       /\ c # Self => t.clients[Self] = s.clients[Self]
  BY <1>1, <1>2
<1>. HIDE DEF t
<1>11. AppShape(t.clients[Self])
  BY <1>1, <1>6, <1>10
<1>12. Safe(t)
  BY <1>1, <1>2, <1>9, <1>10, <1>11 DEF Safe
<1>13. Leads(s, t) /\ (c = Self => AppCurrent(t.clients[Self], t.topics))
  BY <1>1, <1>2, <1>7, <1>9, <1>10, <1>12 DEF Leads, GoodState, Follows
<1>14. QED
  BY <1>13 DEF t

-----------------------------------------------------------------------------
(* Steps.                                                                  *)

\* The state when no null pointer has been left in a map,
Running ==
  /\ GoodState(State) /\ AppCurrent(App, topics)
  /\ inFrame \subseteq DOMAIN clients \ {Self}

\* and with those states that have one, from which nothing happens any more.
Inv ==
  /\ Safe(State)
  /\ NoNullEntry => GoodState(State) /\ AppCurrent(App, topics)
  /\ inFrame \subseteq DOMAIN clients \ {Self}

\* The records of the clients that stay connected only grow.
Evolves == \A c \in DOMAIN clients \cap DOMAIN clients' : Grows(clients[c], clients'[c])

\* What both have in common after a step.
LEMMA RunningFacts ==
  /\ Running => /\ GoodState(State) /\ Self \in DOMAIN clients /\ Self \in DOMAIN State.clients
             /\ DOMAIN State.clients = DOMAIN clients /\ DOMAIN State.topics = DOMAIN topics
             /\ inFrame \subseteq DOMAIN clients \ {Self}
  /\ Running => Inv
  /\ Inv /\ NoNullEntry => Running
BY DEF Running, Inv, GoodState, Safe, State

\* A handler that is a composition of operators and runs for a connected client,
LEMMA BecomeInv ==
  ASSUME Running, NEW s, Leads(State, s), Become(s),
         inFrame' \subseteq inFrame \cup (DOMAIN clients \ {Self})
  PROVE  Inv' /\ Evolves
<1>1. GoodState(s) /\ DOMAIN s.clients = DOMAIN clients /\ AppCurrent(s.clients[Self], s.topics)
  BY DEF Leads, Follows, State, Running, App
<1>2. GoodState(State)'
  BY <1>1 DEF GoodState, Safe, State, Become
<1>3. AppCurrent(App, topics)'
  BY <1>1 DEF App, Become
<1>4. Evolves
  BY DEF Leads, Follows, Evolves, Become, State
<1>5. inFrame' \subseteq DOMAIN clients' \ {Self}
  BY <1>1 DEF Running, Become
<1>6. QED
  BY <1>2, <1>3, <1>4, <1>5 DEF Inv, GoodState

\* and one that leaves a null pointer.
LEMMA NullInv ==
  ASSUME Running, NEW s, Follows(State, s), Become(s), ~NoNullEntry',
         inFrame' \subseteq inFrame \cup (DOMAIN clients \ {Self})
  PROVE  Inv' /\ Evolves
<1>1. Safe(s) /\ DOMAIN s.clients = DOMAIN clients
  BY DEF Follows, State
<1>2. Safe(State)'
  BY <1>1 DEF Safe, State, Become
<1>3. Evolves
  BY DEF Follows, Evolves, Become, State
<1>4. inFrame' \subseteq DOMAIN clients' \ {Self}
  BY <1>1 DEF Running, Become
<1>5. QED
  BY <1>2, <1>3, <1>4 DEF Inv

\* A client that has just connected was told nothing and has nothing to be told.
LEMMA NewClientFacts ==
  ASSUME NEW name, NEW tops, NEW X
  PROVE  LET r == NewClient(name)
         IN Shape(r) /\ Ids(r) /\ Current(r, tops, X) /\ DOMAIN r.data = {}
<1>. DEFINE r == NewClient(name)
<1>1. /\ DOMAIN r = Field /\ DOMAIN r.peer = PeerField /\ r.peer.known = {} /\ r.peer.vals = <<>>
      /\ r.data = <<>> /\ r.nextId = 0 /\ r.text = <<>> /\ r.binary = <<>> /\ r.peer.early = FALSE
  BY DEF NewClient, Field, PeerField
<1>2. IsSeq(<<>>) /\ Len(<<>>) = 0 /\ DOMAIN <<>> = {} /\ Announced(<<>>) = {}
  BY EmptySeq DEF IsSeq, Announced, ToSet
<1>. HIDE DEF r
<1>3. Shape(r)
  <2>1. Caches(r)
    BY <1>1, <1>2 DEF Caches
  <2>2. DOMAIN Final(r) = {} /\ ToSet(r.text) = {}
    BY <1>1, <1>2, <2>1, FinalDomain DEF ToSet
  <2>3. Typed(r)
    BY <1>1, <2>2 DEF Typed
  <2>4. QED
    BY <1>1, <1>2, <2>1, <2>3, NTServerAssumption DEF Shape
<1>4. Told(r) = {}
  BY <1>1, <1>2, <1>3 DEF Told, FlushText, ReadText, Announced, Field, PeerField
<1>5. Ids(r) /\ Current(r, tops, X)
  BY <1>1, <1>2, <1>4 DEF Ids, Numbered, IdsDistinct, Announcing, Current
<1>6. QED
  BY <1>1, <1>2, <1>3, <1>5 DEF r

\* A client connects: a new record, which has no ids yet, and then the operators.
LEMMA ConnectedInv ==
  ASSUME Running, NEW c \in Client, ClientConnected(c)
  PROVE  Inv' /\ Evolves
<1>. DEFINE name == <<Base[c], NextSuffix(Base[c])>>
            s1 == [topics |-> topics, clients |-> Put(clients, c, NewClient(name))]
            s2 == PublishMeta(s1, ClientSubTopic(name))
            s3 == PublishMeta(s2, ClientPubTopic(name))
            s4 == UpdateClientsMeta(s3)
            s5 == UpdateClientSubMeta(s4, c)
            s6 == UpdateClientPubMeta(s5, c)
            s7 == OnClient(s6, c, FlushText(s6.clients[c]))
            s8 == PublishInitialValues(s7, c)
            s9 == OnClient(s8, c, FlushBinary(s8.clients[c]))
<1>1. Become(s9) /\ UNCHANGED inFrame /\ c \notin DOMAIN clients
  BY DEF ClientConnected
<1>2. ClientSubTopic(name) \in Name /\ ClientPubTopic(name) \in Name
  BY DEF ClientConnected, ClientName, Name, MetaName
<1>3. /\ DOMAIN s1 = {"topics", "clients"} /\ s1.topics = topics
      /\ DOMAIN s1.clients = DOMAIN clients \cup {c}
      /\ s1.clients[c] = NewClient(name)
      /\ \A d \in DOMAIN clients : s1.clients[d] = clients[d]
  BY <1>1 DEF Put
<1>4. LET r == NewClient(name) IN Shape(r) /\ Ids(r) /\ Current(r, topics, Overlooked(c)) /\ DOMAIN r.data = {}
  BY NewClientFacts
<1>5. GoodState(s1) /\ AppCurrent(s1.clients[Self], s1.topics)
  BY <1>1, <1>3, <1>4, RunningFacts DEF GoodState, Safe, Running, State, App
<1>. HIDE DEF name, s1
<1>6. Leads(s1, s2)
  BY <1>2, <1>5, PublishMetaLeads
<1>7. Leads(s2, s3)
  BY <1>2, <1>6, PublishMetaLeads DEF Leads
<1>. HIDE DEF s2, s3
<1>8. Leads(s3, s4)
  BY <1>7, MetaLeads DEF Leads
<1>9. Leads(s4, s5)
  BY <1>8, MetaLeads DEF Leads
<1>10. Leads(s5, s6)
  BY <1>9, MetaLeads DEF Leads
<1>. HIDE DEF s4, s5, s6
<1>11. Leads(s1, s6)
  BY <1>6, <1>7, <1>8, <1>9, <1>10, LeadsTransitive
<1>12. Leads(s6, s7) /\ c \in DOMAIN s6.clients
  BY <1>3, <1>11, ServeLeads DEF Leads, Follows
<1>13. Leads(s7, s8)
  BY <1>12, InitialValuesLeads DEF Leads, Follows
<1>14. Leads(s8, s9)
  BY <1>12, <1>13, ServeLeads DEF Leads, Follows
<1>. HIDE DEF s7, s8, s9
<1>15. Leads(s1, s9)
  BY <1>11, <1>12, <1>13, <1>14, LeadsTransitive
<1>16. GoodState(s9) /\ AppCurrent(s9.clients[Self], s9.topics) /\ DOMAIN s9.clients = DOMAIN s1.clients
  BY <1>5, <1>15 DEF Leads, Follows
<1>17. GoodState(State)' /\ AppCurrent(App, topics)'
  BY <1>1, <1>16 DEF GoodState, Safe, State, Become, App
<1>18. Evolves
  BY <1>1, <1>3, <1>15 DEF Leads, Follows, Evolves, Become
<1>19. inFrame' \subseteq DOMAIN clients' \ {Self}
  BY <1>1, <1>3, <1>16, RunningFacts DEF Become
<1>20. QED
  BY <1>17, <1>18, <1>19 DEF Inv, GoodState

\* A client leaves: its record goes, the others are told.
LEMMA DisconnectedInv ==
  ASSUME Running, NEW c \in Client, ClientDisconnected(c)
  PROVE  Inv' /\ Evolves
<1>. DEFINE s1 == [State EXCEPT !.clients = Drop(@, c)]
            s2 == UpdateClientsMeta(s1)
            s3 == FlushAllBinary(s2)
<1>1. Become(s3) /\ UNCHANGED inFrame /\ c \notin inFrame /\ c # Self
  BY DEF ClientDisconnected, BetweenFrames, Remote
<1>2. /\ DOMAIN s1 = {"topics", "clients"} /\ s1.topics = topics
      /\ DOMAIN s1.clients = DOMAIN clients \ {c}
      /\ \A d \in DOMAIN s1.clients : s1.clients[d] = clients[d]
  BY DEF State, Drop
<1>3. GoodState(s1) /\ AppCurrent(s1.clients[Self], s1.topics)
  BY <1>1, <1>2, RunningFacts DEF GoodState, Safe, Running, State, App
<1>. HIDE DEF s1
<1>4. Leads(s1, s2)
  BY <1>3, MetaLeads
<1>5. Leads(s2, s3)
  BY <1>4, LoopsLead DEF Leads
<1>. HIDE DEF s2, s3
<1>6. Leads(s1, s3)
  BY <1>4, <1>5, LeadsTransitive
<1>7. GoodState(s3) /\ AppCurrent(s3.clients[Self], s3.topics) /\ DOMAIN s3.clients = DOMAIN s1.clients
  BY <1>3, <1>6 DEF Leads, Follows
<1>8. GoodState(State)' /\ AppCurrent(App, topics)'
  BY <1>1, <1>7 DEF GoodState, Safe, State, Become, App
<1>9. Evolves
  BY <1>1, <1>2, <1>6 DEF Leads, Follows, Evolves, Become
<1>10. inFrame' \subseteq DOMAIN clients' \ {Self}
  BY <1>1, <1>2, <1>7, RunningFacts DEF Become
<1>11. QED
  BY <1>8, <1>9, <1>10 DEF Inv, GoodState

\* The messages of a text frame, each composed of the operators above.
LEMMA SubscribeInv ==
  ASSUME Running, NEW c \in Client, NEW u \in SubUid, NEW sub \in Subscribable, Subscribe(c, u, sub)
  PROVE  Inv' /\ Evolves
<1>. DEFINE s1 == [State EXCEPT !.clients[c].subs = Put(@, u, sub)]
            s2 == UpdateClientSubMeta(s1, c)
            s3 == UpdateTopicSubMeta(s2, {n \in Ordinary : Matches(sub, n)})
            s4 == AnnounceCached(s3, c)
<1>1. Become(s4) /\ inFrame' = inFrame \cup {c} /\ c \in DOMAIN clients \ {Self}
  BY DEF Subscribe, InTextFrame, Remote, State
<1>2. Leads(State, s1)
  BY <1>1, ChangeFollows, RunningFacts
<1>3. Leads(s1, s2)
  BY <1>2, MetaLeads DEF Leads
<1>4. Leads(s2, s3)
  <2>1. {n \in Ordinary : Matches(sub, n)} \in SUBSET Regular
    BY OrdinaryRegular, RunningFacts DEF Ordinary, GoodState, Safe, State
  <2>2. QED
    BY <1>3, <2>1, MetaLeads DEF Leads
<1>. HIDE DEF s1, s2, s3
<1>5. Leads(State, s3)
  BY <1>2, <1>3, <1>4, LeadsTransitive
<1>6. Leads(s3, s4)
  BY <1>1, <1>5, ServeLeads DEF Leads, Follows, State
<1>. HIDE DEF s4
<1>7. Leads(State, s4)
  BY <1>5, <1>6, LeadsTransitive
<1>8. QED
  BY <1>1, <1>7, BecomeInv

\* unsubscribe, with a subuid that is known or not.
LEMMA UnSubscribeInv ==
  ASSUME Running, NEW c \in Client, NEW u \in SubUid, UnSubscribe(c, u)
  PROVE  Inv' /\ Evolves
<1>. DEFINE sub == clients[c].subs[u]
            s1 == [State EXCEPT !.clients[c].subs = Drop(@, u)]
            s2 == UpdateClientSubMeta(s1, c)
            s3 == UpdateTopicSubMeta(s2, {n \in Ordinary : Matches(sub, n)})
<1>1. inFrame' = inFrame \cup {c} /\ c \in DOMAIN clients \ {Self}
  BY DEF UnSubscribe, InTextFrame, Remote, State
<1>2. CASE u \in DOMAIN clients[c].subs
  <2>1. Become(s3)
    BY <1>2 DEF UnSubscribe
  <2>2. Leads(State, s1)
    BY <1>1, ChangeFollows, RunningFacts
  <2>3. Leads(s1, s2)
    BY <2>2, MetaLeads DEF Leads
  <2>4. {n \in Ordinary : Matches(sub, n)} \in SUBSET Regular
    BY OrdinaryRegular, RunningFacts DEF Ordinary, GoodState, Safe, State
  <2>5. Leads(s2, s3)
    BY <2>3, <2>4, MetaLeads DEF Leads
  <2>. HIDE DEF s1, s2, s3
  <2>6. Leads(State, s3)
    BY <2>2, <2>3, <2>5, LeadsTransitive
  <2>7. QED
    BY <1>1, <2>1, <2>6, BecomeInv
<1>3. CASE u \notin DOMAIN clients[c].subs
  <2>. DEFINE s == [State EXCEPT !.clients[c].subs = Put(@, u, Null)]
  <2>1. Become(s)
    BY <1>3 DEF UnSubscribe
  <2>2. Leads(State, s)
    BY <1>1, ChangeFollows, RunningFacts
  <2>3. QED
    BY <1>1, <2>1, <2>2, BecomeInv
<1>4. QED
  BY <1>2, <1>3

\* publish, of a topic that exists or not.
LEMMA PublishInv ==
  ASSUME Running, NEW c \in Client, NEW u \in PubUid, NEW n \in Regular, NEW type, NEW cached,
         Publish(c, u, n, type, cached)
  PROVE  Inv' /\ Evolves
<1>. DEFINE s1 == [State EXCEPT !.clients[c].pubs = Put(@, u, n)]
            s2 == IF n \in DOMAIN topics
                    THEN OnClient(s1, c, AnnounceToPublisher(s1.clients[c], n))
                    ELSE PublishFrom(s1, n, DefaultValue(WireType(type)), cached, c)
            s3 == UpdateClientPubMeta(s2, c)
            s4 == UpdateTopicPubMeta(s3, n)
<1>1. Become(s4) /\ inFrame' = inFrame \cup {c} /\ c \in DOMAIN clients \ {Self}
  BY DEF Publish, InTextFrame, Remote, State
<1>2. Leads(State, s1)
  BY <1>1, ChangeFollows, RunningFacts
<1>. HIDE DEF s1
<1>3. n \in DOMAIN topics => Leads(s1, OnClient(s1, c, AnnounceToPublisher(s1.clients[c], n)))
  BY <1>1, <1>2, ServeLeads DEF Leads, Follows, State
<1>4. Leads(s1, PublishFrom(s1, n, DefaultValue(WireType(type)), cached, c))
  BY <1>2, PublishFromLeads DEF Leads
<1>5. Leads(s1, s2)
  BY <1>3, <1>4
<1>. HIDE DEF s2
<1>6. Leads(s2, s3)
  BY <1>5, MetaLeads DEF Leads
<1>7. Leads(s3, s4)
  BY <1>6, MetaLeads DEF Leads
<1>. HIDE DEF s3, s4
<1>8. Leads(State, s4)
  BY <1>2, <1>5, <1>6, <1>7, LeadsTransitive
<1>9. QED
  BY <1>1, <1>8, BecomeInv

\* unpublish, with a pubuid that is known or not.
LEMMA UnPublishInv ==
  ASSUME Running, NEW c \in Client, NEW u \in PubUid, UnPublish(c, u)
  PROVE  Inv' /\ Evolves
<1>. DEFINE s1 == [State EXCEPT !.clients[c].pubs = Drop(@, u)]
            s2 == UpdateClientPubMeta(s1, c)
            s3(n) == UpdateTopicPubMeta(s2, n)
<1>1. inFrame' = inFrame \cup {c} /\ c \in DOMAIN clients \ {Self}
  BY DEF UnPublish, InTextFrame, Remote, State
<1>2. ASSUME NEW n \in Regular, Become(s3(n)) PROVE Inv' /\ Evolves
  <2>2. Leads(State, s1)
    BY <1>1, ChangeFollows, RunningFacts
  <2>3. Leads(s1, s2)
    BY <2>2, MetaLeads DEF Leads
  <2>4. Leads(s2, s3(n))
    BY <2>3, MetaLeads DEF Leads
  <2>. HIDE DEF s1, s2, s3
  <2>5. Leads(State, s3(n))
    BY <2>2, <2>3, <2>4, LeadsTransitive
  <2>6. QED
    BY <1>1, <1>2, <2>5, BecomeInv
<1>3. ASSUME Become([State EXCEPT !.clients[c].pubs = Put(@, u, Null)]) PROVE Inv' /\ Evolves
  BY <1>1, <1>3, ChangeFollows, RunningFacts, BecomeInv
<1>4. QED
  BY <1>2, <1>3 DEF UnPublish

\* setproperties, of a client or of the application.
LEMMA ChangePropertiesInv ==
  ASSUME Running, NEW n \in Regular, NEW cached, ChangeProperties(n, cached),
         inFrame' \subseteq inFrame \cup (DOMAIN clients \ {Self})
  PROVE  Inv' /\ Evolves
<1>1. /\ DOMAIN State = {"topics", "clients"} /\ DOMAIN topics \subseteq Name
      /\ State.topics = topics /\ State.clients = clients /\ Safe(State)
      /\ \A c \in DOMAIN clients : Shape(clients[c])
      /\ \A m \in DOMAIN topics : {"value", "cached"} \subseteq DOMAIN topics[m]
  BY RunningFacts DEF GoodState, Safe, State
<1>2. ASSUME NEW s, DOMAIN s = {"topics", "clients"}, s.clients = clients,
             DOMAIN topics \subseteq DOMAIN s.topics, DOMAIN s.topics \subseteq Name,
             \A m \in DOMAIN topics : s.topics[m].value = topics[m].value
      PROVE  /\ Follows(State, s)
             /\ AppCurrent(App, topics) => AppCurrent(s.clients[Self], s.topics)
  <2>1. \A c \in DOMAIN clients : QuietTold(clients[c], clients[c], DOMAIN s.topics)
    BY <1>1, QuietReflexive
  <2>2. \A c \in DOMAIN State.clients :
          /\ Quiet(State.clients[c], s.clients[c], DOMAIN s.topics)
          /\ c # Self => QuietTold(State.clients[c], s.clients[c], DOMAIN s.topics)
    BY <1>1, <1>2, <2>1 DEF QuietTold
  <2>3. \A m : WantsValue(s.clients[Self], m) => WantsValue(State.clients[Self], m)
    BY <1>1, <1>2
  <2>4. /\ DOMAIN State.topics \subseteq DOMAIN s.topics /\ DOMAIN s.clients = DOMAIN State.clients
        /\ \A m \in DOMAIN State.topics : s.topics[m].value = State.topics[m].value
    BY <1>1, <1>2
  <2>5. /\ Follows(State, s)
        /\ AppCurrent(State.clients[Self], State.topics) => AppCurrent(s.clients[Self], s.topics)
    BY <1>1, <1>2, <2>2, <2>3, <2>4, EachClient
  <2>6. QED
    BY <1>1, <2>5 DEF App
<1>3. CASE n \in DOMAIN topics
  <2>. DEFINE s1 == [State EXCEPT !.topics[n].cached = cached]
              s2 == TellProperties(s1, n)
  <2>1. Become(s2)
    BY <1>3 DEF ChangeProperties
  <2>2. /\ DOMAIN s1 = {"topics", "clients"} /\ s1.clients = clients
        /\ DOMAIN s1.topics = DOMAIN topics
        /\ \A m \in DOMAIN topics : {"value", "cached"} \subseteq DOMAIN s1.topics[m]
        /\ \A m \in DOMAIN topics : s1.topics[m].value = topics[m].value
    BY <1>1
  <2>. HIDE DEF s1
  <2>3. Follows(State, s1) /\ (AppCurrent(App, topics) => AppCurrent(s1.clients[Self], s1.topics))
    BY <1>1, <1>2, <2>2
  <2>4. GoodState(s1) /\ Leads(State, s1)
    BY <1>1, <2>2, <2>3 DEF GoodState, Leads, Follows, App
  <2>5. Leads(s1, s2)
    BY <1>3, <2>2, <2>4, LoopsLead
  <2>. HIDE DEF s2
  <2>6. QED
    BY <2>1, <2>4, <2>5, LeadsTransitive, BecomeInv
<1>4. CASE n \notin DOMAIN topics
  <2>1. Become(LeaveNull(State, {n}))
    BY <1>4 DEF ChangeProperties
  <2>2. {n} \subseteq Name /\ {n} \cap DOMAIN State.topics = {}
    BY <1>1, <1>4, MetaNames
  <2>3. Leads(State, LeaveNull(State, {n}))
    BY <2>2, LeaveNullLeads, RunningFacts
  <2>4. QED
    BY <2>1, <2>3, BecomeInv
<1>5. QED
  BY <1>3, <1>4

\* setproperties in a text frame.
LEMMA SetPropertiesInv ==
  ASSUME Running, NEW c \in Client, NEW n \in Regular, NEW cached, SetProperties(c, n, cached)
  PROVE  Inv' /\ Evolves
<1>1. inFrame' = inFrame \cup {c} /\ c \in DOMAIN clients \ {Self}
  BY DEF SetProperties, InTextFrame, Remote, State
<1>2. QED
  BY <1>1, ChangePropertiesInv DEF SetProperties

\* The end of a text frame, and a binary frame.
LEMMA FrameInv ==
  ASSUME Running, NEW c \in Client
  PROVE  /\ EndFrame(c) \/ AbandonFrame(c) => Inv' /\ Evolves
         /\ \A u, value : BinaryFrame(c, u, value) => Inv' /\ Evolves
<1>1. ASSUME EndFrame(c) PROVE Inv' /\ Evolves
  <2>. DEFINE s1 == FlushAllText(State)
              s2 == PublishInitialValues(s1, c)
              s3 == FlushAllBinary(s2)
  <2>1. Become(s3) /\ inFrame' = inFrame \ {c} /\ c \in DOMAIN State.clients
    BY <1>1, RunningFacts DEF EndFrame
  <2>2. Leads(State, s1)
    BY LoopsLead, RunningFacts
  <2>3. Leads(s1, s2)
    BY <2>1, <2>2, InitialValuesLeads DEF Leads, Follows
  <2>4. Leads(s2, s3)
    BY <2>3, LoopsLead DEF Leads
  <2>. HIDE DEF s1, s2, s3
  <2>5. Leads(State, s3)
    BY <2>2, <2>3, <2>4, LeadsTransitive
  <2>6. QED
    BY <2>1, <2>5, BecomeInv
<1>2. ASSUME AbandonFrame(c) PROVE Inv' /\ Evolves
  <2>1. Become(State) /\ inFrame' = inFrame \ {c}
    BY <1>2 DEF AbandonFrame, Become, State
  <2>2. QED
    BY <2>1, LeadsReflexive, BecomeInv, RunningFacts
<1>3. ASSUME NEW u, NEW value, BinaryFrame(c, u, value) PROVE Inv' /\ Evolves
  <2>1. UNCHANGED inFrame /\ c \in DOMAIN State.clients
    BY <1>3 DEF BinaryFrame, BetweenFrames, Remote
  <2>2. CASE u \in DOMAIN clients[c].pubs
    <3>. DEFINE s1 == UpdateValue(State, clients[c].pubs[u], value)
                s2 == FlushAllBinary(s1)
    <3>1. Become(s2)
      BY <1>3, <2>2 DEF BinaryFrame
    <3>2. Leads(State, s1)
      BY MetaLeads, RunningFacts
    <3>3. Leads(s1, s2)
      BY <3>2, LoopsLead DEF Leads
    <3>. HIDE DEF s1, s2
    <3>4. QED
      BY <2>1, <3>1, <3>2, <3>3, LeadsTransitive, BecomeInv
  <2>3. CASE u \notin DOMAIN clients[c].pubs
    <3>. DEFINE s1 == [State EXCEPT !.clients[c].pubs = Put(@, u, Null)]
                s2 == FlushAllBinary(s1)
    <3>1. Become(s2)
      BY <1>3, <2>3 DEF BinaryFrame
    <3>2. Leads(State, s1)
      BY <2>1, ChangeFollows, RunningFacts
    <3>3. Leads(s1, s2)
      BY <3>2, LoopsLead DEF Leads
    <3>. HIDE DEF s1, s2
    <3>4. QED
      BY <2>1, <3>1, <3>2, <3>3, LeadsTransitive, BecomeInv
  <2>4. QED
    BY <2>2, <2>3
<1>4. QED
  BY <1>1, <1>2, <1>3

\* The hybrid functions called by the server's application.
LEMMA AppSubscriptionsInv ==
  ASSUME Running, NEW u \in SubUid
  PROVE  /\ \A sub : AppSubscribe(u, sub) => Inv' /\ Evolves
         /\ AppUnsubscribe(u) => Inv' /\ Evolves
<1>0. Self \in DOMAIN State.clients /\ GoodState(State)
  BY RunningFacts
<1>1. ASSUME NEW sub, AppSubscribe(u, sub) PROVE Inv' /\ Evolves
  <2>. DEFINE s1 == [State EXCEPT !.clients[Self].subs = Put(@, u, sub)]
              s2 == UpdateServerSubMeta(s1)
              s3 == AnnounceCached(s2, Self)
              s4 == PublishInitialValues(s3, Self)
  <2>1. Become(s4) /\ UNCHANGED inFrame
    BY <1>1 DEF AppSubscribe, AppCalls
  <2>2. GoodState(s1) /\ Follows(State, s1)
    BY <1>0, ChangeFollows
  <2>. HIDE DEF s1
  <2>3. Leads(s1, s2)
    BY <2>2, MetaLeads
  <2>. HIDE DEF s2
  <2>4. Leads(s2, s3)
    BY <1>0, <2>2, <2>3, ServeLeads DEF Leads, Follows
  <2>. HIDE DEF s3
  <2>5. Leads(s3, s4) /\ AppCurrent(s4.clients[Self], s4.topics)
    BY <1>0, <2>2, <2>3, <2>4, InitialValuesLeads DEF Leads, Follows
  <2>. HIDE DEF s4
  <2>6. Follows(State, s4) /\ GoodState(s4)
    BY <2>2, <2>3, <2>4, <2>5, FollowsTransitive DEF Leads
  <2>7. Leads(State, s4)
    BY <2>5, <2>6 DEF Leads
  <2>8. QED
    BY <2>1, <2>7, BecomeInv
<1>2. ASSUME AppUnsubscribe(u), u \in DOMAIN App.subs PROVE Inv' /\ Evolves
  <2>. DEFINE s1 == [State EXCEPT !.clients[Self].subs = Drop(@, u)]
              s2 == UpdateServerSubMeta(s1)
              subs == Drop(App.subs, u)
  <2>1. Become(s2) /\ UNCHANGED inFrame
    BY <1>2 DEF AppUnsubscribe, AppCalls
  <2>2. State.clients[Self] = App /\ "subs" \in DOMAIN App
    BY <1>0 DEF State, App, GoodState, Safe, Shape, Caches, Field
  <2>3. \A n : WantsValue([App EXCEPT !.subs = subs], n) => WantsValue(App, n)
    BY <2>2 DEF WantsValue, Drop
  <2>4. s1 = [State EXCEPT !.clients[Self].subs = subs]
    BY <2>2
  <2>. HIDE DEF s1, subs
  <2>5. Leads(State, s1)
    BY <1>0, <2>2, <2>3, <2>4, ChangeFollows
  <2>6. Leads(s1, s2)
    BY <2>5, MetaLeads DEF Leads
  <2>. HIDE DEF s2
  <2>7. QED
    BY <2>1, <2>5, <2>6, LeadsTransitive, BecomeInv
<1>3. ASSUME AppUnsubscribe(u), u \notin DOMAIN App.subs PROVE Inv' /\ Evolves
  <2>. DEFINE s == [State EXCEPT !.clients[Self].subs = Put(@, u, Null)]
  <2>1. Become(s) /\ UNCHANGED inFrame
    BY <1>3 DEF AppUnsubscribe, AppCalls
  <2>2. Follows(State, s)
    BY <1>0, ChangeFollows
  <2>3. /\ State.clients[Self] = App /\ "subs" \in DOMAIN App /\ Self \in DOMAIN clients
        /\ DOMAIN State = {"topics", "clients"}
    BY <1>0 DEF State, App, GoodState, Safe, Shape, Caches, Field
  <2>4. Self \in DOMAIN s.clients /\ s.clients[Self].subs = Put(App.subs, u, Null)
    BY <1>0, <2>3
  <2>. HIDE DEF s
  <2>5. ~NoNullEntry'
    <3>1. u \in DOMAIN clients'[Self].subs /\ clients'[Self].subs[u] = Null
      BY <2>1, <2>4 DEF Become, Put
    <3>2. Self \in DOMAIN clients'
      BY <2>1, <2>4 DEF Become
    <3>3. QED
      BY <3>1, <3>2 DEF NoNullEntry
  <2>6. QED
    BY <2>1, <2>2, <2>5, NullInv
<1>4. QED
  BY <1>1, <1>2, <1>3

\* publish, unpublish and updateTopic.
LEMMA AppPublishersInv ==
  ASSUME Running, NEW u \in PubUid
  PROVE  /\ \A n \in Regular : \A type, cached : AppPublish(u, n, type, cached) => Inv' /\ Evolves
         /\ AppUnpublish(u) => Inv' /\ Evolves
         /\ \A value : AppUpdateTopic(u, value) => Inv' /\ Evolves
<1>0. Self \in DOMAIN State.clients /\ GoodState(State)
  BY RunningFacts
<1>. DEFINE null == [State EXCEPT !.clients[Self].pubs = Put(@, u, Null)]
<1>1. Leads(State, null)
  BY <1>0, ChangeFollows, RunningFacts
<1>2. ASSUME NEW n \in Regular, NEW type, NEW cached, AppPublish(u, n, type, cached)
      PROVE  Inv' /\ Evolves
  <2>. DEFINE s1 == [State EXCEPT !.clients[Self].pubs = Put(@, u, n)]
              s2 == IF n \in DOMAIN topics
                      THEN OnClient(s1, Self, AssignIds(s1.clients[Self], {n}))
                      ELSE PublishSelf(s1, n, DefaultValue(type), cached)
              s3 == UpdateServerPubMeta(s2)
  <2>1. Become(s3) /\ UNCHANGED inFrame
    BY <1>2 DEF AppPublish, AppCalls
  <2>2. Leads(State, s1)
    BY <1>0, ChangeFollows, RunningFacts
  <2>. HIDE DEF s1
  <2>3. n \in DOMAIN topics => Leads(s1, OnClient(s1, Self, AssignIds(s1.clients[Self], {n})))
    BY <1>0, <2>2, ServeLeads DEF Leads, Follows, State
  <2>4. Leads(s1, PublishSelf(s1, n, DefaultValue(type), cached))
    BY <1>0, <2>2, PublishSelfLeads DEF Leads
  <2>5. Leads(s1, s2)
    BY <2>3, <2>4
  <2>. HIDE DEF s2
  <2>6. Leads(s2, s3)
    BY <2>5, MetaLeads DEF Leads
  <2>. HIDE DEF s3
  <2>7. QED
    BY <2>1, <2>2, <2>5, <2>6, LeadsTransitive, BecomeInv
<1>3. ASSUME AppUnpublish(u) PROVE Inv' /\ Evolves
  <2>. DEFINE s1 == [State EXCEPT !.clients[Self].pubs = Drop(@, u)]
              s2 == UpdateServerPubMeta(s1)
  <2>1. (Become(s2) \/ Become(null)) /\ UNCHANGED inFrame
    BY <1>3 DEF AppUnpublish, AppCalls
  <2>2. Leads(State, s1)
    BY <1>0, ChangeFollows, RunningFacts
  <2>3. Leads(s1, s2)
    BY <2>2, MetaLeads DEF Leads
  <2>. HIDE DEF s1, s2, null
  <2>4. QED
    BY <1>1, <2>1, <2>2, <2>3, LeadsTransitive, BecomeInv
<1>4. ASSUME NEW value, AppUpdateTopic(u, value) PROVE Inv' /\ Evolves
  <2>. DEFINE s1 == UpdateValue(State, App.pubs[u], value)
  <2>1. (Become(s1) \/ Become(null)) /\ UNCHANGED inFrame
    BY <1>4 DEF AppUpdateTopic, AppCalls
  <2>2. Leads(State, s1)
    BY <1>0, MetaLeads
  <2>. HIDE DEF s1, null
  <2>3. QED
    BY <1>1, <2>1, <2>2, BecomeInv
<1>5. QED
  BY <1>2, <1>3, <1>4

\* setProperties, flush, and all of the application's calls.
LEMMA AppStepInv ==
  ASSUME Running, AppStep
  PROVE  Inv' /\ Evolves
<1>1. ASSUME NEW n \in Regular, NEW k \in CachedUpdates, AppSetProperties(n, k)
      PROVE  Inv' /\ Evolves
  BY <1>1, ChangePropertiesInv DEF AppSetProperties, AppCalls
<1>2. ASSUME AppFlush PROVE Inv' /\ Evolves
  <2>1. Become(FlushAllBinary(State)) /\ UNCHANGED inFrame
    BY <1>2 DEF AppFlush, AppCalls
  <2>2. Leads(State, FlushAllBinary(State))
    BY LoopsLead, RunningFacts
  <2>3. QED
    BY <2>1, <2>2, BecomeInv
<1>3. QED
  BY <1>1, <1>2, AppSubscriptionsInv, AppPublishersInv DEF AppStep

\* No action is enabled once a null pointer has been left.
LEMMA StepsNeedNoNull == Next => NoNullEntry
<1>1. AppStep => NoNullEntry
  BY Zenon DEF AppStep, AppSubscribe, AppUnsubscribe, AppPublish, AppUnpublish, AppUpdateTopic,
         AppSetProperties, AppFlush, AppCalls
<1>2. ASSUME NEW c, ClientStep(c) PROVE NoNullEntry
  <2>1. ClientConnected(c) \/ ClientDisconnected(c) \/ EndFrame(c) \/ AbandonFrame(c) => NoNullEntry
    BY DEF ClientConnected, ClientDisconnected, BetweenFrames, EndFrame, AbandonFrame
  <2>2. \A u, sub : Subscribe(c, u, sub) \/ UnSubscribe(c, u) \/ UnPublish(c, u) => NoNullEntry
    BY Zenon DEF Subscribe, UnSubscribe, UnPublish, InTextFrame
  <2>3. \A u, n, t, k : Publish(c, u, n, t, k) \/ SetProperties(c, n, k) => NoNullEntry
    BY Zenon DEF Publish, SetProperties, InTextFrame
  <2>4. \A u, v : BinaryFrame(c, u, v) => NoNullEntry
    BY DEF BinaryFrame, BetweenFrames
  <2>5. QED
    BY <1>2, <2>1, <2>2, <2>3, <2>4 DEF ClientStep
<1>3. QED
  BY <1>1, <1>2 DEF Next

\* Inv is inductive, and every step lets the records of the clients grow.
LEMMA StepInv == Inv /\ [Next]_vars => Inv' /\ Evolves
<1>. SUFFICES ASSUME Inv, [Next]_vars PROVE Inv' /\ Evolves
  OBVIOUS
<1>1. CASE Next
  <2>1. Running
    BY <1>1, StepsNeedNoNull, RunningFacts
  <2>2. ASSUME NEW c \in Client, ClientStep(c) PROVE Inv' /\ Evolves
    BY <2>1, <2>2, ConnectedInv, DisconnectedInv, SubscribeInv, UnSubscribeInv, PublishInv,
       UnPublishInv, SetPropertiesInv, FrameInv DEF ClientStep
  <2>3. QED
    BY <1>1, <2>1, <2>2, AppStepInv DEF Next
<1>2. CASE UNCHANGED vars
  <2>1. Inv'
    BY <1>2 DEF vars, Inv, State, App, NoNullEntry
  <2>2. Evolves
    BY <1>2 DEF vars, Evolves, Grows
  <2>3. QED
    BY <2>1, <2>2
<1>3. QED
  BY <1>1, <1>2

\* startServer: thisClient alone, with no ids.
LEMMA InitInv == Init => Inv
<1>. SUFFICES ASSUME Init PROVE Inv
  OBVIOUS
<1>1. /\ DOMAIN topics \subseteq Name
      /\ \A n \in DOMAIN topics : {"value", "cached"} \subseteq DOMAIN topics[n]
  BY DEF Init, Name, MetaName
<1>. DEFINE r == NewClient(<<"fake_server", 0>>)
<1>2. DOMAIN clients = {Self} /\ clients[Self] = r /\ inFrame = {}
  BY DEF Init
<1>3. Shape(r) /\ DOMAIN r.data = {} /\ Caches(r)
  BY NewClientFacts DEF Shape
<1>4. r.binary = <<>> /\ r.peer.vals = <<>>
  BY DEF NewClient
<1>. HIDE DEF r
<1>5. DOMAIN Final(r) = {}
  BY <1>3, <1>4, FinalDomain
<1>6. AppShape(r) /\ AppCurrent(r, topics)
  BY <1>3, <1>4, <1>5 DEF AppShape, AppCurrent
<1>7. GoodState(State)
  BY <1>1, <1>2, <1>3, <1>6 DEF GoodState, Safe, State
<1>8. QED
  BY <1>2, <1>6, <1>7 DEF Inv, GoodState, App

\* Every reachable state satisfies Inv.
THEOREM Invariance == Spec => []Inv
<1>1. QED
  BY InitInv, StepInv, PTL DEF Spec

\* A client is never told one id for two topics, whatever the clients and the
\* application ask for, in whatever order, and for any caches and names.
THEOREM IdsOfClientsDistinct == Spec => []RemoteIdsDistinct
<1>1. Inv => RemoteIdsDistinct
  BY DEF Inv, Safe, State, Ids, Numbered, RemoteIdsDistinct, Remote
<1>2. QED
  BY <1>1, Invariance, PTL

\* Every client was told exactly the ids it has been assigned, by what it received
\* and what waits in its text cache: nothing is lost where a cache overflows.
THEOREM AnnouncementsArrive == Spec => []NoAnnouncementLost
<1>1. Inv => NoAnnouncementLost
  BY DEF Inv, Safe, State, Ids, Told, Announcing, NoAnnouncementLost, Remote
<1>2. QED
  BY <1>1, Invariance, PTL

\* A client that was ever sent a value of a topic has, or is about to be sent, the
\* value the topic has now, whoever changed it.
THEOREM ClientsCurrent == Spec => []ReplicaCurrent
<1>1. Inv => ReplicaCurrent
  BY DEF Inv, Safe, State, Current, Final, ReplicaCurrent, Remote
<1>2. QED
  BY <1>1, Invariance, PTL

LEMMA RunningCurrent == Inv /\ NoNullEntry => AppReplicaCurrent
<1>. SUFFICES ASSUME Inv, NoNullEntry PROVE AppReplicaCurrent
  OBVIOUS
<1>1. Caches(App) /\ AppShape(App) /\ AppCurrent(App, topics)
  BY DEF Inv, Safe, Shape, State, App
<1>2. Reads(App.peer, <<>>, ReadBinary(App.peer, <<>>))
  BY <1>1, ReadBinaryProperties DEF Caches, AppShape
<1>3. Final(App) = ReadBinary(App.peer, <<>>).vals
  BY <1>1 DEF Final, FlushBinary, Caches, AppShape, Field
<1>4. \A id \in DOMAIN App.peer.vals : id \in DOMAIN Final(App) /\ Final(App)[id] = App.peer.vals[id]
  BY <1>2, <1>3 DEF Reads, IdsOf
<1>5. QED
  BY <1>1, <1>4 DEF AppCurrent, AppReplicaCurrent, AppIdsDistinct

\* The application's callbacks were told the value each topic it wants has now, as
\* long as no two of its topics share an id and nobody named an unknown uid.
THEOREM ApplicationCurrent == Spec => [](NoNullEntry => AppReplicaCurrent)
BY RunningCurrent, Invariance, PTL

\* An id keeps its topic for as long as the client stays, and what was sent once
\* goes on being sent.
THEOREM IdsOfClientsStable == Spec => IdsStable
<1>. DEFINE Stable ==
       \A c \in Remote(State) \cap DOMAIN clients' : \A n \in DOMAIN clients[c].data :
         /\ n \in DOMAIN clients'[c].data
         /\ clients'[c].data[n].id = clients[c].data[n].id
         /\ clients[c].data[n].initialPublish => clients'[c].data[n].initialPublish
<1>1. Evolves => Stable
  BY DEF Evolves, Grows, Remote, State
<1>2. Inv /\ [Next]_vars => [Stable]_vars
  BY <1>1, StepInv
<1>. HIDE DEF Stable
<1>3. Spec => [][Stable]_vars
  BY <1>2, Invariance, PTL DEF Spec
<1>4. QED
  BY <1>3 DEF IdsStable, Stable

\* The flush that ends a text frame leaves nothing waiting, and a value of all that
\* the sender's subscriptions ask the value of was received.
LEMMA EndFrameServes ==
  ASSUME Running, NEW c \in Client, EndFrame(c)
  PROVE  LET cl == clients'[c]
         IN /\ cl.text = <<>> /\ cl.binary = <<>>
            /\ \A n \in DOMAIN cl.data :
                 WantsValue(cl, n) => cl.data[n].id \in DOMAIN cl.peer.vals
<1>. DEFINE s1 == FlushAllText(State)
            s2 == PublishInitialValues(s1, c)
            s3 == FlushAllBinary(s2)
            cl == s1.clients[c]
            N == {n \in DOMAIN cl.data : ~cl.data[n].initialPublish /\ WantsValue(cl, n)}
            r == SendTo(s1, c, N)
            q == FlushBinary(r)
<1>1. Become(s3) /\ c \in DOMAIN State.clients /\ c # Self
  BY RunningFacts DEF EndFrame
<1>2. GoodState(s1) /\ DOMAIN s1.clients = DOMAIN State.clients
  BY LoopsLead, RunningFacts DEF Leads, Follows
<1>3. cl = FlushText(State.clients[c]) /\ Caches(State.clients[c])
  BY <1>1, RunningFacts DEF FlushAllText, GoodState, Safe, Shape
<1>4. cl.text = <<>>
  BY <1>3, FlushTextProperties
<1>5. clients'[c] = q
  BY <1>1, <1>2 DEF PublishInitialValues, OnClient, FlushAllBinary, Become, GoodState, Safe
<1>6. Shape(cl) /\ Ids(cl) /\ Current(cl, s1.topics, Overlooked(c)) /\ Caches(cl)
  BY <1>1, <1>2 DEF GoodState, Safe, Shape
<1>. HIDE DEF s1, s2, s3
<1>7. r = PushBinary([cl EXCEPT !.data = [n \in DOMAIN @ |->
                        IF n \in N THEN [@[n] EXCEPT !.initialPublish = TRUE] ELSE @[n]]],
                     [i \in 1..Cardinality(N) |->
                        [id |-> cl.data[InOrder(N)[i]].id,
                         value |-> Sent(InOrder(N)[i], s1.topics[InOrder(N)[i]].value)]])
  BY <1>1 DEF SendTo
<1>8. r.text = cl.text
  BY <1>6, <1>7 DEF PushBinary, Caches, Field
<1>9. N \subseteq DOMAIN cl.data /\ \A n \in DOMAIN cl.data : WantsValue(cl, n) => cl.data[n].initialPublish \/ n \in N
  OBVIOUS
<1>. HIDE DEF N
<1>10. /\ Shape(r) /\ Delivered(cl, r, s1.topics, N) /\ r.subs = cl.subs
       /\ DOMAIN r.data = DOMAIN cl.data
       /\ \A n \in DOMAIN cl.data : r.data[n].id = cl.data[n].id
  BY <1>1, <1>6, <1>9, SendToProperties
<1>. HIDE DEF cl, r
<1>11. /\ q.binary = <<>> /\ q.text = r.text /\ q.subs = r.subs /\ q.data = r.data
       /\ q.peer.vals = Final(r)
  BY <1>10, FlushBinaryProperties DEF Field, Shape
<1>. HIDE DEF q
<1>12. ASSUME NEW n \in DOMAIN q.data, WantsValue(q, n)
       PROVE  q.data[n].id \in DOMAIN q.peer.vals
  <2>1. n \in DOMAIN cl.data /\ q.data[n].id = cl.data[n].id /\ WantsValue(cl, n)
    BY <1>10, <1>11, <1>12 DEF WantsValue
  <2>2. cl.data[n].initialPublish => cl.data[n].id \in DOMAIN Final(cl)
    BY <1>6, <2>1 DEF Current
  <2>3. QED
    BY <1>9, <1>10, <1>11, <2>1, <2>2 DEF Delivered
<1>13. QED
  BY <1>4, <1>5, <1>8, <1>11, <1>12

\* Only the flush ends a text frame, unless the mutex could not be had for it.
LEMMA FrameEnds ==
  ASSUME Running, Next, ~MayTimeOut, NEW c \in inFrame \ inFrame'
  PROVE  c \in Client /\ EndFrame(c)
<1>1. ~AppStep
  BY DEF AppStep, AppSubscribe, AppUnsubscribe, AppPublish, AppUnpublish, AppUpdateTopic,
         AppSetProperties, AppFlush, AppCalls
<1>2. PICK d \in Client : ClientStep(d)
  BY <1>1 DEF Next
<1>3. ~ClientConnected(d) /\ ~ClientDisconnected(d) /\ ~AbandonFrame(d)
      /\ \A u, v : ~BinaryFrame(d, u, v)
  BY DEF ClientConnected, ClientDisconnected, AbandonFrame, BinaryFrame
<1>4. /\ \A u, sub : ~Subscribe(d, u, sub) /\ ~UnSubscribe(d, u) /\ ~UnPublish(d, u)
      /\ \A u, n, t, k : ~Publish(d, u, n, t, k) /\ ~SetProperties(d, n, k)
  BY DEF Subscribe, UnSubscribe, UnPublish, Publish, SetProperties, InTextFrame
<1>5. EndFrame(d)
  BY <1>2, <1>3, <1>4 DEF ClientStep
<1>6. c = d
  BY <1>5 DEF EndFrame
<1>7. QED
  BY <1>5, <1>6

\* A client whose text frame was served has been told and sent all it asked for,
\* whatever the others did while it was being served, as long as no handler gives
\* up waiting for stateMutex.
THEOREM FramesServed ==
  ASSUME ~MayTimeOut
  PROVE  Spec => ServedAtFrameEnd
<1>. DEFINE Served ==
       \A c \in inFrame \ inFrame' :
         LET cl == clients'[c]
         IN /\ cl.text = <<>> /\ cl.binary = <<>>
            /\ \A n \in DOMAIN cl.data :
                 WantsValue(cl, n) => cl.data[n].id \in DOMAIN cl.peer.vals
<1>1. Inv /\ [Next]_vars => [Served]_vars
  <2>. SUFFICES ASSUME Inv, Next PROVE Served
    BY DEF vars
  <2>1. Running
    BY StepsNeedNoNull, RunningFacts
  <2>2. QED
    BY <2>1, FrameEnds, EndFrameServes
<1>. HIDE DEF Served
<1>2. Spec => [][Served]_vars
  BY <1>1, Invariance, PTL DEF Spec
<1>3. QED
  BY <1>2 DEF ServedAtFrameEnd, Served

=============================================================================
