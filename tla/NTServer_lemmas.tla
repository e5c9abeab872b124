-------------------------- MODULE NTServer_lemmas ---------------------------
(***************************************************************************)
(* Lemmas about the operators NTServer is built from: the order of the     *)
(* map, the two caches of a client and what its peer makes of them.        *)
(***************************************************************************)
EXTENDS NTServer, FiniteSetTheorems, SequenceTheorems, TLAPS

-----------------------------------------------------------------------------
(* Numbers and sequences.                                                  *)

\* A bounded set of numbers has a greatest element.
LEMMA Greatest ==
  ASSUME NEW S, S \subseteq Nat, S # {}, NEW n \in Nat, \A x \in S : x <= n
  PROVE  \E m \in S : \A x \in S : x <= m
<1>. DEFINE T == {n - x : x \in S}
<1>1. T \subseteq Nat /\ T # {}
  <2>1. \A x \in S : x \in Nat /\ n - x \in Nat /\ n - x \in T
    OBVIOUS
  <2>2. PICK x \in S : TRUE
    OBVIOUS
  <2>3. T # {}
    BY <2>1, <2>2
  <2>4. T \subseteq Nat
    BY <2>1
  <2>. QED
    BY <2>3, <2>4
<1>. HIDE DEF T
<1>2. PICK k \in T : \A y \in T : <<y, k>> \notin OpToRel(<, Nat)
  BY <1>1, NatLessThanWellFounded, WFMin, Zenon
<1>a. \A y \in T : ~(y < k)
  <2>. TAKE y \in T
  <2>1. y \in Nat /\ k \in Nat
    BY <1>1
  <2>2. <<y, k>> \in Nat \X Nat
    BY <2>1
  <2>3. <<y, k>> \in OpToRel(<, Nat) <=> <<y, k>> \in Nat \X Nat /\ <<y, k>>[1] < <<y, k>>[2]
    BY Zenon DEF OpToRel
  <2>. QED
    BY <1>2, <2>2, <2>3
<1>3. \A y \in T : k <= y
  BY <1>1, <1>a
<1>. USE DEF T
<1>4. PICK m \in S : k = n - m
  BY <1>2
<1>5. \A x \in S : n - m <= n - x
  BY <1>3, <1>4
<1>6. QED
  BY <1>5

\* What leaves a cache and what stays in it.
LEMMA OverflowProperties ==
  ASSUME NEW all, Len(all) \in Nat, all = <<>> <=> Len(all) = 0, NEW limit \in Nat \ {0}
  PROVE  /\ Overflow(all, limit) \in 0..Len(all)
         /\ Len(all) - Overflow(all, limit) <= limit
<1>. DEFINE n == Len(all)
<1>1. CASE n = 0
  BY <1>1 DEF Overflow
<1>2. CASE n # 0
  <2>1. Overflow(all, limit) = ((n - 1) \div limit) * limit
    BY <1>2 DEF Overflow
  <2>2. n - 1 \in Nat
    BY <1>2
  <2>. DEFINE q == (n - 1) \div limit
  <2>3. q \in Nat
    BY <2>2
  <2>4. n - 1 = q * limit + ((n - 1) % limit) /\ (n - 1) % limit \in 0..(limit - 1)
    BY <2>2
  <2>. QED
    BY <2>1, <2>3, <2>4
<1>3. QED
  BY <1>1, <1>2

\* Sequences of whatever elements.
IsSeq(s) == \E S : s \in Seq(S)

LEMMA ConcatSeq ==
  ASSUME NEW a, IsSeq(a), NEW b, IsSeq(b)
  PROVE  /\ IsSeq(a \o b) /\ DOMAIN (a \o b) = 1..(Len(a) + Len(b))
         /\ Len(a \o b) = Len(a) + Len(b) /\ Len(a) \in Nat /\ Len(b) \in Nat
         /\ DOMAIN a = 1..Len(a) /\ DOMAIN b = 1..Len(b)
         /\ \A i \in 1..Len(a) : (a \o b)[i] = a[i]
         /\ \A i \in 1..Len(b) : (a \o b)[Len(a) + i] = b[i]
<1>1. PICK S, T : a \in Seq(S) /\ b \in Seq(T)
  BY DEF IsSeq
<1>2. a \in Seq(S \cup T) /\ b \in Seq(S \cup T)
  BY <1>1, SeqMonotonic
<1>. HIDE DEF IsSeq
<1>3. IsSeq(a \o b)
  BY <1>2, ConcatProperties DEF IsSeq
<1>4. QED
  BY <1>2, <1>3, ConcatProperties, LenProperties

\* A sequence cut in two.
LEMMA CutSeq ==
  ASSUME NEW all, IsSeq(all), NEW cut \in 0..Len(all)
  PROVE  /\ IsSeq(SubSeq(all, 1, cut)) /\ Len(SubSeq(all, 1, cut)) = cut
         /\ IsSeq(SubSeq(all, cut + 1, Len(all)))
         /\ Len(SubSeq(all, cut + 1, Len(all))) = Len(all) - cut
         /\ SubSeq(all, 1, cut) \o SubSeq(all, cut + 1, Len(all)) = all
<1>1. PICK S : all \in Seq(S)
  BY DEF IsSeq
<1>2. Len(all) \in Nat /\ \A i \in 1..Len(all) : all[i] \in S
  BY <1>1
<1>3. SubSeq(all, 1, cut) \in Seq(S) /\ Len(SubSeq(all, 1, cut)) = cut
  BY <1>2, SubSeqProperties
<1>4. /\ SubSeq(all, cut + 1, Len(all)) \in Seq(S)
      /\ Len(SubSeq(all, cut + 1, Len(all))) = Len(all) - cut
  BY <1>2, SubSeqProperties
<1>5. SubSeq(all, 1, cut) \o SubSeq(all, cut + 1, Len(all)) = all
  <2>1. 1 \in 1..Len(all) + 1 /\ cut \in 1 - 1..Len(all) /\ Len(all) \in cut..Len(all)
    BY <1>2
  <2>2. SubSeq(all, 1, cut) \o SubSeq(all, cut + 1, Len(all)) = SubSeq(all, 1, Len(all))
    BY <1>1, <2>1, ConcatAdjacentSubSeq
  <2>3. QED
    BY <1>1, <2>2, SubSeqFull
<1>6. QED
  BY <1>3, <1>4, <1>5 DEF IsSeq

-----------------------------------------------------------------------------
(* The order of the map.                                                   *)

\* The order of an unordered_map gives each name of N a place of its own in
\* 1..Cardinality(N).
LEMMA PositionProperties ==
  ASSUME NEW N, N \subseteq Name, NEW m \in N, NEW n \in N
  PROVE  /\ Position(n, N) \in 1..Cardinality(N)
         /\ Position(m, N) = Position(n, N) => m = n
<1>. DEFINE Upto(k) == {i \in N : Rank(i) <= Rank(k)}
<1>1. IsFiniteSet(N)
  BY NTServerAssumption, FS_Subset
<1>2. \A k \in N : IsFiniteSet(Upto(k)) /\ Cardinality(Upto(k)) \in 1..Cardinality(N)
  <2>. TAKE k \in N
  <2>1. Upto(k) \subseteq N /\ k \in Upto(k)
    BY NTServerAssumption
  <2>2. IsFiniteSet(Upto(k)) /\ Cardinality(Upto(k)) <= Cardinality(N)
    BY <1>1, <2>1, FS_Subset
  <2>3. Cardinality(Upto(k)) # 0
    BY <2>1, <2>2, FS_EmptySet
  <2>4. QED
    BY <1>1, <2>2, <2>3, FS_CardinalityType
<1>3. ASSUME Cardinality(Upto(m)) = Cardinality(Upto(n)) PROVE m = n
  <2>1. Rank(m) \in Nat /\ Rank(n) \in Nat
    BY NTServerAssumption
  <2>2. CASE Rank(m) <= Rank(n)
    <3>1. Upto(m) \subseteq Upto(n)
      BY <2>2, NTServerAssumption
    <3>2. Upto(m) = Upto(n)
      BY <1>2, <1>3, <3>1, FS_Subset
    <3>3. QED
      BY <2>1, <2>2, <3>2, NTServerAssumption
  <2>3. CASE Rank(n) <= Rank(m)
    <3>1. Upto(n) \subseteq Upto(m)
      BY <2>3, NTServerAssumption
    <3>2. Upto(m) = Upto(n)
      BY <1>2, <1>3, <3>1, FS_Subset
    <3>3. QED
      BY <2>1, <2>3, <3>2, NTServerAssumption
  <2>4. QED
    BY <2>1, <2>2, <2>3
<1>4. QED
  BY <1>2, <1>3 DEF Position


\* Each place holds one name of N, and each name has one.
LEMMA InOrderProperties ==
  ASSUME NEW N, N \subseteq Name
  PROVE  /\ Cardinality(N) \in Nat /\ IsSeq(InOrder(N)) /\ Len(InOrder(N)) = Cardinality(N)
         /\ \A i \in 1..Cardinality(N) :
              InOrder(N)[i] \in N /\ Position(InOrder(N)[i], N) = i
         /\ \A n \in N : /\ Position(n, N) \in 1..Cardinality(N)
                         /\ InOrder(N)[Position(n, N)] = n
<1>. DEFINE k == Cardinality(N)
            f == [n \in N |-> Position(n, N)]
<1>1. IsFiniteSet(N) /\ k \in Nat
  BY NTServerAssumption, FS_Subset, FS_CardinalityType
<1>. HIDE DEF k
<1>2. f \in Injection(N, 1..k)
  BY PositionProperties DEF Injection, IsInjective, k
<1>3. IsFiniteSet(1..k) /\ Cardinality(1..k) = k
  BY <1>1, FS_Interval
<1>4. f \in Surjection(N, 1..k)
  BY <1>2, <1>3, FS_Injection DEF k
<1>5. \A i \in 1..k : \E n \in N : Position(n, N) = i
  BY <1>4 DEF Surjection
<1>6. \A i \in 1..k : InOrder(N)[i] \in N /\ Position(InOrder(N)[i], N) = i
  BY <1>5 DEF InOrder, k
<1>7. \A n \in N : Position(n, N) \in 1..k /\ InOrder(N)[Position(n, N)] = n
  BY <1>6, PositionProperties DEF k
<1>8. InOrder(N) \in Seq(N) /\ Len(InOrder(N)) = k
  <2>1. InOrder(N) = [i \in 1..k |-> InOrder(N)[i]]
    BY DEF InOrder, k
  <2>2. QED
    BY <1>1, <1>6, <2>1
<1>9. QED
  BY <1>1, <1>6, <1>7, <1>8 DEF k, IsSeq

-----------------------------------------------------------------------------
(* The text cache.                                                         *)

Field == {"name", "subs", "pubs", "data", "nextId", "text", "binary", "peer"}
PeerField == {"known", "vals", "early"}

\* A ClientData whose caches are sequences.
Caches(cl) ==
  /\ DOMAIN cl = Field /\ DOMAIN cl.peer = PeerField
  /\ IsSeq(cl.text) /\ IsSeq(cl.binary)

Announced(msgs) == {m \in ToSet(msgs) : m.method = "announce"}

\* What the client was told, with what still waits in its cache.
Told(cl) == FlushText(cl).peer.known

LEMMA ToSetConcat ==
  ASSUME NEW a, IsSeq(a), NEW b, IsSeq(b)
  PROVE  ToSet(a \o b) = ToSet(a) \cup ToSet(b)
<1>. DEFINE m == Len(a)
            n == Len(b)
            ab == a \o b
<1>1. /\ DOMAIN ab = 1..(m + n) /\ DOMAIN a = 1..m /\ DOMAIN b = 1..n /\ m \in Nat /\ n \in Nat
      /\ \A i \in 1..m : ab[i] = a[i]
      /\ \A i \in 1..n : ab[m + i] = b[i]
  BY ConcatSeq
<1>. HIDE DEF ab, m, n
<1>2. ToSet(ab) = ToSet(a) \cup ToSet(b)
  <2>1. ASSUME NEW i \in DOMAIN ab PROVE ab[i] \in ToSet(a) \cup ToSet(b)
    <3>1. CASE i \in 1..m
      BY <1>1, <3>1 DEF ToSet
    <3>2. CASE i \notin 1..m
      <4>1. i - m \in 1..n /\ i = m + (i - m)
        BY <1>1, <3>2
      <4>2. QED
        BY <1>1, <4>1 DEF ToSet
    <3>3. QED
      BY <3>1, <3>2
  <2>2. ASSUME NEW i \in DOMAIN a PROVE a[i] \in ToSet(ab)
    <3>1. i \in DOMAIN ab /\ ab[i] = a[i]
      BY <1>1
    <3>2. QED
      BY <3>1 DEF ToSet
  <2>3. ASSUME NEW i \in DOMAIN b PROVE b[i] \in ToSet(ab)
    <3>1. m + i \in DOMAIN ab /\ ab[m + i] = b[i]
      BY <1>1
    <3>2. QED
      BY <3>1 DEF ToSet
  <2>4. ToSet(ab) \subseteq ToSet(a) \cup ToSet(b)
    BY <2>1 DEF ToSet
  <2>5. ToSet(a) \cup ToSet(b) \subseteq ToSet(ab)
    BY <2>2, <2>3 DEF ToSet
  <2>6. QED
    BY <2>4, <2>5
<1>3. QED
  BY <1>2 DEF ab

LEMMA AnnouncedConcat ==
  ASSUME NEW a, IsSeq(a), NEW b, IsSeq(b)
  PROVE  Announced(a \o b) = Announced(a) \cup Announced(b)
BY ToSetConcat DEF Announced

\* What is written to the cache is told or waits, whatever overflowed on the way.
LEMMA PushTextProperties ==
  ASSUME NEW cl, Caches(cl), NEW msgs, IsSeq(msgs)
  PROVE  LET r == PushText(cl, msgs)
         IN /\ Caches(r) /\ Len(r.text) <= TextLimit
            /\ Told(r) = Told(cl) \cup Announced(msgs)
            /\ ToSet(r.text) \subseteq ToSet(cl.text) \cup ToSet(msgs)
            /\ \A x \in Field \ {"text", "peer"} : r[x] = cl[x]
            /\ r.peer.vals = cl.peer.vals /\ r.peer.early = cl.peer.early
<1>. DEFINE all == cl.text \o msgs
            cut == Overflow(all, TextLimit)
            x == SubSeq(all, 1, cut)
            y == SubSeq(all, cut + 1, Len(all))
            r == PushText(cl, msgs)
<1>1. /\ IsSeq(all) /\ Announced(all) = Announced(cl.text) \cup Announced(msgs)
      /\ ToSet(all) = ToSet(cl.text) \cup ToSet(msgs)
  BY ConcatSeq, AnnouncedConcat, ToSetConcat DEF Caches
<1>. HIDE DEF all
<1>2. cut \in 0..Len(all) /\ Len(all) - cut <= TextLimit
  <2>1. Len(all) \in Nat /\ (all = <<>> <=> Len(all) = 0)
    BY <1>1, EmptySeq, LenProperties DEF IsSeq
  <2>2. QED
    BY <2>1, OverflowProperties, NTServerAssumption
<1>. HIDE DEF cut
<1>3. IsSeq(x) /\ IsSeq(y) /\ Len(y) <= TextLimit /\ x \o y = all
  BY <1>1, <1>2, CutSeq
<1>4. Announced(x) \cup Announced(y) = Announced(all) /\ ToSet(y) \subseteq ToSet(all)
  <2>1. Announced(x \o y) = Announced(x) \cup Announced(y)
    BY <1>3, AnnouncedConcat
  <2>2. ToSet(x \o y) = ToSet(x) \cup ToSet(y)
    BY <1>3, ToSetConcat
  <2>3. QED
    BY <1>3, <2>1, <2>2
<1>. HIDE DEF x, y
<1>5. /\ DOMAIN r = Field /\ r.text = y
      /\ r.peer = [cl.peer EXCEPT !.known = @ \cup Announced(x)]
      /\ \A f \in Field \ {"text", "peer"} : r[f] = cl[f]
  BY DEF PushText, ReadText, Announced, Caches, Field, all, cut, x, y
<1>6. /\ DOMAIN r.peer = PeerField /\ r.peer.known = cl.peer.known \cup Announced(x)
      /\ r.peer.vals = cl.peer.vals /\ r.peer.early = cl.peer.early
  BY <1>5 DEF Caches, PeerField
<1>. HIDE DEF r
<1>7. Caches(r)
  BY <1>3, <1>5, <1>6 DEF Caches, Field
<1>8. Told(r) = r.peer.known \cup Announced(r.text) /\ Told(cl) = cl.peer.known \cup Announced(cl.text)
  BY <1>7 DEF Told, FlushText, ReadText, Announced, Caches, Field, PeerField
<1>9. Told(r) = Told(cl) \cup Announced(msgs)
  BY <1>1, <1>4, <1>5, <1>6, <1>8
<1>10. ToSet(r.text) \subseteq ToSet(cl.text) \cup ToSet(msgs)
  BY <1>1, <1>4, <1>5
<1>11. QED
  BY <1>3, <1>5, <1>6, <1>7, <1>9, <1>10 DEF r

\* Flushing tells what waits, and nothing else.
LEMMA FlushTextProperties ==
  ASSUME NEW cl, Caches(cl)
  PROVE  LET r == FlushText(cl)
         IN /\ Caches(r) /\ r.text = <<>> /\ Told(r) = Told(cl)
            /\ \A x \in Field \ {"text", "peer"} : r[x] = cl[x]
            /\ r.peer.vals = cl.peer.vals /\ r.peer.early = cl.peer.early
<1>. DEFINE r == FlushText(cl)
<1>1. /\ DOMAIN r = Field /\ r.text = <<>>
      /\ r.peer = [cl.peer EXCEPT !.known = @ \cup Announced(cl.text)]
      /\ \A f \in Field \ {"text", "peer"} : r[f] = cl[f]
  BY DEF FlushText, ReadText, Announced, Caches, Field
<1>2. /\ DOMAIN r.peer = PeerField /\ r.peer.known = Told(cl)
      /\ r.peer.vals = cl.peer.vals /\ r.peer.early = cl.peer.early
  BY <1>1 DEF Caches, PeerField, Told
<1>3. IsSeq(r.text) /\ Announced(r.text) = {}
  BY <1>1, EmptySeq DEF IsSeq, Announced, ToSet
<1>. HIDE DEF r
<1>4. Caches(r)
  BY <1>1, <1>2, <1>3 DEF Caches, Field
<1>5. Told(r) = r.peer.known \cup Announced(r.text)
  BY <1>4 DEF Told, FlushText, ReadText, Announced, Caches, Field, PeerField
<1>6. QED
  BY <1>1, <1>2, <1>3, <1>4, <1>5 DEF r

-----------------------------------------------------------------------------
(* The binary cache.                                                       *)

IdsOf(msgs) == {msgs[i].id : i \in DOMAIN msgs}
IsLast(msgs, i) ==
  i \in DOMAIN msgs /\ \A j \in DOMAIN msgs : msgs[j].id = msgs[i].id => j <= i

\* The values a client has, with those that still wait in its cache.
Final(cl) == FlushBinary(cl).peer.vals

\* q is what becomes of peer when it reads msgs: of each id it keeps the last value.
Reads(peer, msgs, q) ==
  /\ DOMAIN q = PeerField /\ q.known = peer.known
  /\ peer.early \in BOOLEAN => q.early \in BOOLEAN
  /\ DOMAIN q.vals = DOMAIN peer.vals \cup IdsOf(msgs)
  /\ \A id \in IdsOf(msgs) : \E i \in DOMAIN msgs : IsLast(msgs, i) /\ msgs[i].id = id
  /\ \A i \in DOMAIN msgs : IsLast(msgs, i) => q.vals[msgs[i].id] = msgs[i].value
  /\ \A id \in DOMAIN peer.vals \ IdsOf(msgs) : q.vals[id] = peer.vals[id]
  /\ q.vals = [id \in DOMAIN q.vals |-> q.vals[id]]

LEMMA ReadBinaryProperties ==
  ASSUME NEW peer, DOMAIN peer = PeerField, NEW msgs, IsSeq(msgs)
  PROVE  Reads(peer, msgs, ReadBinary(peer, msgs))
<1>. DEFINE q == ReadBinary(peer, msgs)
            last(id) == CHOOSE i \in DOMAIN msgs :
                          /\ msgs[i].id = id
                          /\ \A j \in DOMAIN msgs : msgs[j].id = id => j <= i
<1>1. DOMAIN msgs = 1..Len(msgs) /\ Len(msgs) \in Nat
  BY LenProperties DEF IsSeq
<1>2. ASSUME NEW id \in IdsOf(msgs) PROVE \E i \in DOMAIN msgs : IsLast(msgs, i) /\ msgs[i].id = id
  <2>. DEFINE S == {i \in DOMAIN msgs : msgs[i].id = id}
  <2>1. S \subseteq Nat /\ S # {} /\ \A i \in S : i <= Len(msgs)
    BY <1>1 DEF IdsOf
  <2>. HIDE DEF S
  <2>2. PICK m \in S : \A i \in S : i <= m
    BY <1>1, <2>1, Greatest
  <2>3. QED
    BY <2>2 DEF IsLast, S
<1>3. /\ DOMAIN q = PeerField /\ q.known = peer.known
      /\ peer.early \in BOOLEAN => q.early \in BOOLEAN
      /\ q.vals = [id \in DOMAIN peer.vals \cup IdsOf(msgs) |->
                     IF id \in IdsOf(msgs) THEN msgs[last(id)].value ELSE peer.vals[id]]
  BY DEF ReadBinary, IdsOf, PeerField
<1>4. ASSUME NEW i \in DOMAIN msgs, IsLast(msgs, i) PROVE last(msgs[i].id) = i
  <2>1. \A k \in DOMAIN msgs :
          (msgs[k].id = msgs[i].id /\ \A j \in DOMAIN msgs : msgs[j].id = msgs[i].id => j <= k)
            => k = i
    BY <1>1, <1>4 DEF IsLast
  <2>2. QED
    BY <1>4, <2>1 DEF IsLast
<1>. HIDE DEF q, last
<1>5. \A i \in DOMAIN msgs : IsLast(msgs, i) => q.vals[msgs[i].id] = msgs[i].value
  BY <1>3, <1>4 DEF IdsOf
<1>6. QED
  BY <1>2, <1>3, <1>5 DEF q, Reads

\* The ids that a client was sent a value of, with those that wait.
LEMMA FinalDomains ==
  ASSUME NEW cl, Caches(cl)
  PROVE  DOMAIN Final(cl) = DOMAIN cl.peer.vals \cup IdsOf(cl.binary)
<1>1. Reads(cl.peer, cl.binary, ReadBinary(cl.peer, cl.binary))
  BY ReadBinaryProperties DEF Caches
<1>2. Final(cl) = ReadBinary(cl.peer, cl.binary).vals
  BY DEF Final, FlushBinary, Caches, Field
<1>3. QED
  BY <1>1, <1>2 DEF Reads

LEMMA FinalDomain ==
  ASSUME NEW cl, Caches(cl), cl.binary = <<>>
  PROVE  DOMAIN Final(cl) = DOMAIN cl.peer.vals
<1>1. IdsOf(<<>>) = {}
  BY DEF IdsOf
<1>2. QED
  BY <1>1, FinalDomains

\* Two frames give a peer what one with the messages of both does.
Joined(a, b, ab) == IsSeq(a) /\ IsSeq(b) /\ ab = a \o b
ReadAsOne(peer, a, b, ab) ==
  ReadBinary(ReadBinary(peer, a), b).vals = ReadBinary(peer, ab).vals

LEMMA ReadBinaryConcat ==
  ASSUME NEW peer, DOMAIN peer = PeerField, NEW a, NEW b, NEW ab, Joined(a, b, ab)
  PROVE  ReadAsOne(peer, a, b, ab)
<1>. DEFINE m == Len(a)
            n == Len(b)
            p == ReadBinary(peer, a)
            q == ReadBinary(p, b)
            r == ReadBinary(peer, ab)
<1>1. /\ IsSeq(ab) /\ DOMAIN ab = 1..(m + n) /\ DOMAIN a = 1..m /\ DOMAIN b = 1..n
      /\ m \in Nat /\ n \in Nat
      /\ \A i \in 1..m : ab[i] = a[i]
      /\ \A i \in 1..n : ab[m + i] = b[i]
  BY ConcatSeq DEF Joined
<1>. HIDE DEF m, n
<1>2. IsSeq(a) /\ IsSeq(b)
  BY DEF Joined
<1>3. Reads(peer, ab, r)
  BY <1>1, ReadBinaryProperties
<1>4. Reads(peer, a, p)
  BY <1>2, ReadBinaryProperties
<1>5. DOMAIN p = PeerField
  BY <1>4 DEF Reads
<1>. HIDE DEF p, r
<1>6. Reads(p, b, q)
  BY <1>5, <1>2, ReadBinaryProperties
<1>. HIDE DEF q
<1>. USE DEF Reads
<1>7. IdsOf(ab) = IdsOf(a) \cup IdsOf(b)
  <2>1. ASSUME NEW i \in DOMAIN ab PROVE ab[i].id \in IdsOf(a) \cup IdsOf(b)
    <3>1. CASE i \in 1..m
      BY <1>1, <3>1 DEF IdsOf
    <3>2. CASE i \notin 1..m
      <4>1. i - m \in 1..n /\ i = m + (i - m)
        BY <1>1, <3>2
      <4>2. QED
        BY <1>1, <4>1 DEF IdsOf
    <3>3. QED
      BY <3>1, <3>2
  <2>2. ASSUME NEW i \in DOMAIN a PROVE a[i].id \in IdsOf(ab)
    <3>1. i \in DOMAIN ab /\ ab[i] = a[i]
      BY <1>1
    <3>2. QED
      BY <3>1 DEF IdsOf
  <2>3. ASSUME NEW i \in DOMAIN b PROVE b[i].id \in IdsOf(ab)
    <3>1. m + i \in DOMAIN ab /\ ab[m + i] = b[i]
      BY <1>1
    <3>2. QED
      BY <3>1 DEF IdsOf
  <2>4. IdsOf(ab) \subseteq IdsOf(a) \cup IdsOf(b)
    BY <2>1 DEF IdsOf
  <2>5. IdsOf(a) \cup IdsOf(b) \subseteq IdsOf(ab)
    BY <2>2, <2>3 DEF IdsOf
  <2>6. QED
    BY <2>4, <2>5
<1>8. DOMAIN q.vals = DOMAIN r.vals
  BY <1>7, <1>4, <1>6, <1>3
<1>9. ASSUME NEW id \in IdsOf(b) PROVE q.vals[id] = r.vals[id]
  <2>1. PICK i \in DOMAIN b : IsLast(b, i) /\ b[i].id = id
    BY <1>6
  <2>2. m + i \in DOMAIN ab /\ ab[m + i] = b[i] /\ i \in Nat
    BY <1>1
  <2>3. ASSUME NEW j \in DOMAIN ab, ab[j].id = id PROVE j <= m + i
    <3>1. CASE j \in 1..m
      BY <1>1, <2>2, <3>1
    <3>2. CASE j \notin 1..m
      <4>1. j - m \in DOMAIN b /\ j = m + (j - m)
        BY <1>1, <3>2
      <4>2. b[j - m].id = id
        BY <1>1, <2>3, <4>1
      <4>3. j - m <= i
        BY <2>1, <4>1, <4>2 DEF IsLast
      <4>4. QED
        BY <1>1, <2>2, <4>1, <4>3
    <3>3. QED
      BY <3>1, <3>2
  <2>4. IsLast(ab, m + i)
    BY <2>1, <2>2, <2>3 DEF IsLast
  <2>5. QED
    BY <1>6, <1>3, <2>1, <2>2, <2>4
<1>10. ASSUME NEW id \in IdsOf(a) \ IdsOf(b) PROVE q.vals[id] = r.vals[id]
  <2>1. PICK i \in DOMAIN a : IsLast(a, i) /\ a[i].id = id
    BY <1>4
  <2>2. i \in DOMAIN ab /\ ab[i] = a[i]
    BY <1>1
  <2>3. ASSUME NEW j \in DOMAIN ab, ab[j].id = id PROVE j <= i
    <3>1. CASE j \in 1..m
      BY <1>1, <2>1, <2>3, <3>1 DEF IsLast
    <3>2. CASE j \notin 1..m
      <4>1. j - m \in DOMAIN b /\ j = m + (j - m)
        BY <1>1, <3>2
      <4>2. b[j - m].id = id
        BY <1>1, <2>3, <4>1
      <4>3. QED
        BY <1>10, <4>1, <4>2 DEF IdsOf
    <3>3. QED
      BY <3>1, <3>2
  <2>4. IsLast(ab, i)
    BY <2>1, <2>2, <2>3 DEF IsLast
  <2>5. q.vals[id] = p.vals[id] /\ p.vals[id] = a[i].value
    BY <1>4, <1>6, <1>10, <2>1
  <2>6. r.vals[id] = ab[i].value
    BY <1>3, <2>1, <2>2, <2>4
  <2>7. QED
    BY <2>2, <2>5, <2>6
<1>11. ASSUME NEW id \in DOMAIN peer.vals \ IdsOf(ab) PROVE q.vals[id] = r.vals[id]
  BY <1>7, <1>4, <1>6, <1>3, <1>11
<1>12. \A id \in DOMAIN r.vals : q.vals[id] = r.vals[id]
  BY <1>7, <1>3, <1>9, <1>10, <1>11
<1>13. q.vals = r.vals
  BY <1>6, <1>3, <1>8, <1>12
<1>14. QED
  BY <1>13 DEF p, q, r, ReadAsOne

\* Reading nothing changes nothing.
LEMMA ReadBinaryEmpty ==
  ASSUME NEW peer, DOMAIN peer = PeerField, NEW a, IsSeq(a)
  PROVE  /\ ReadBinary(ReadBinary(peer, a), <<>>).vals = ReadBinary(peer, a).vals
         /\ ReadBinary(ReadBinary(peer, <<>>), a).vals = ReadBinary(peer, a).vals
<1>1. IsSeq(<<>>)
  BY EmptySeq DEF IsSeq
<1>2. a \o <<>> = a /\ <<>> \o a = a
  BY ConcatEmptySeq DEF IsSeq
<1>3. Joined(a, <<>>, a) /\ Joined(<<>>, a, a)
  BY <1>1, <1>2 DEF Joined
<1>4. ReadAsOne(peer, a, <<>>, a) /\ ReadAsOne(peer, <<>>, a, a)
  BY <1>3, ReadBinaryConcat
<1>5. QED
  BY <1>4 DEF ReadAsOne

\* g is what f becomes when msgs are read: of each id the last value.
Updates(f, msgs, g) ==
  /\ DOMAIN g = DOMAIN f \cup IdsOf(msgs)
  /\ \A i \in DOMAIN msgs : IsLast(msgs, i) => g[msgs[i].id] = msgs[i].value
  /\ \A id \in DOMAIN f \ IdsOf(msgs) : g[id] = f[id]

\* What is written to the binary cache is received or waits, after all that was
\* written before.
LEMMA PushBinaryProperties ==
  ASSUME NEW cl, Caches(cl), NEW msgs, IsSeq(msgs)
  PROVE  LET r == PushBinary(cl, msgs)
         IN /\ Caches(r) /\ Len(r.binary) <= BinaryLimit
            /\ Updates(Final(cl), msgs, Final(r))
            /\ \A x \in Field \ {"binary", "peer"} : r[x] = cl[x]
            /\ r.peer.known = cl.peer.known
            /\ cl.peer.early \in BOOLEAN => r.peer.early \in BOOLEAN
<1>. DEFINE all == cl.binary \o msgs
            cut == Overflow(all, BinaryLimit)
            x == SubSeq(all, 1, cut)
            y == SubSeq(all, cut + 1, Len(all))
            r == PushBinary(cl, msgs)
            p == ReadBinary(cl.peer, x)
<1>1. IsSeq(all) /\ IsSeq(cl.binary) /\ DOMAIN cl = Field /\ DOMAIN cl.peer = PeerField
  BY ConcatSeq DEF Caches
<1>. HIDE DEF all
<1>2. cut \in 0..Len(all) /\ Len(all) - cut <= BinaryLimit
  <2>1. Len(all) \in Nat /\ (all = <<>> <=> Len(all) = 0)
    BY <1>1, EmptySeq, LenProperties DEF IsSeq
  <2>2. QED
    BY <2>1, OverflowProperties, NTServerAssumption
<1>. HIDE DEF cut
<1>3. IsSeq(x) /\ IsSeq(y) /\ Len(y) <= BinaryLimit /\ x \o y = all
  BY <1>1, <1>2, CutSeq
<1>. HIDE DEF x, y
<1>4. Reads(cl.peer, x, p)
  BY <1>1, <1>3, ReadBinaryProperties
<1>. HIDE DEF p
<1>5. /\ DOMAIN r = Field /\ r.binary = y /\ r.peer = p
      /\ \A f \in Field \ {"binary", "peer"} : r[f] = cl[f]
  BY <1>1 DEF PushBinary, Field, all, cut, x, y, p
<1>. HIDE DEF r
<1>6. Caches(r)
  BY <1>3, <1>4, <1>5 DEF Caches, Reads, Field
<1>7. /\ Final(r) = ReadBinary(p, y).vals
      /\ Final(cl) = ReadBinary(cl.peer, cl.binary).vals
  BY <1>1, <1>5 DEF Final, FlushBinary, Field
<1>8. ReadBinary(p, y).vals = ReadBinary(cl.peer, all).vals
  <2>1. Joined(x, y, all)
    BY <1>3 DEF Joined
  <2>2. ReadAsOne(cl.peer, x, y, all)
    BY <1>1, <2>1, ReadBinaryConcat
  <2>3. QED
    BY <2>2 DEF ReadAsOne, p
<1>9. ReadBinary(ReadBinary(cl.peer, cl.binary), msgs).vals = ReadBinary(cl.peer, all).vals
  <2>1. Joined(cl.binary, msgs, all)
    BY <1>1 DEF Joined, all
  <2>2. ReadAsOne(cl.peer, cl.binary, msgs, all)
    BY <1>1, <2>1, ReadBinaryConcat
  <2>3. QED
    BY <2>2 DEF ReadAsOne
<1>. DEFINE m == ReadBinary(cl.peer, cl.binary)
<1>10. Reads(cl.peer, cl.binary, m)
  BY <1>1, ReadBinaryProperties
<1>11. DOMAIN m = PeerField
  BY <1>10 DEF Reads
<1>. HIDE DEF m
<1>12. Reads(m, msgs, ReadBinary(m, msgs))
  BY <1>11, ReadBinaryProperties
<1>13. Final(cl) = m.vals /\ Final(r) = ReadBinary(m, msgs).vals
  BY <1>7, <1>8, <1>9 DEF m
<1>14. Updates(Final(cl), msgs, Final(r))
  BY <1>12, <1>13 DEF Updates, Reads
<1>15. QED
  BY <1>3, <1>4, <1>5, <1>6, <1>14 DEF r, Reads

\* What the server's application reads at once it has, once its cache is empty.
LEMMA ReadNowProperties ==
  ASSUME NEW cl, Caches(cl), cl.binary = <<>>, NEW msgs, IsSeq(msgs)
  PROVE  LET r == [cl EXCEPT !.peer = ReadBinary(@, msgs)]
         IN /\ Caches(r) /\ Updates(Final(cl), msgs, Final(r))
            /\ \A x \in Field \ {"peer"} : r[x] = cl[x]
            /\ r.peer.known = cl.peer.known
            /\ cl.peer.early \in BOOLEAN => r.peer.early \in BOOLEAN
<1>. DEFINE r == [cl EXCEPT !.peer = ReadBinary(@, msgs)]
            p == ReadBinary(cl.peer, msgs)
            e == ReadBinary(cl.peer, <<>>)
<1>1. IsSeq(<<>>) /\ DOMAIN cl = Field /\ DOMAIN cl.peer = PeerField
  BY DEF Caches
<1>2. Reads(cl.peer, msgs, p) /\ Reads(cl.peer, <<>>, e)
  BY <1>1, ReadBinaryProperties
<1>3. ReadBinary(p, <<>>).vals = p.vals /\ ReadBinary(e, msgs).vals = p.vals
  BY <1>1, ReadBinaryEmpty
<1>. HIDE DEF p, e
<1>4. Reads(e, msgs, ReadBinary(e, msgs))
  BY <1>2, ReadBinaryProperties DEF Reads
<1>5. /\ DOMAIN r = Field /\ r.peer = p
      /\ \A x \in Field \ {"peer"} : r[x] = cl[x]
  BY <1>1 DEF Field, p
<1>. HIDE DEF r
<1>6. Caches(r)
  BY <1>2, <1>5 DEF Caches, Reads, Field
<1>7. Final(r) = p.vals /\ Final(cl) = e.vals
  BY <1>1, <1>3, <1>5 DEF Final, FlushBinary, Field, e
<1>8. Updates(Final(cl), msgs, Final(r))
  BY <1>3, <1>4, <1>7 DEF Updates, Reads
<1>9. QED
  BY <1>2, <1>5, <1>6, <1>8 DEF r, Reads

\* Flushing delivers what waits, and nothing else.
LEMMA FlushBinaryProperties ==
  ASSUME NEW cl, Caches(cl)
  PROVE  LET r == FlushBinary(cl)
         IN /\ Caches(r) /\ r.binary = <<>> /\ Final(r) = Final(cl)
            /\ r.peer.vals = Final(cl)
            /\ \A x \in Field \ {"binary", "peer"} : r[x] = cl[x]
            /\ r.peer.known = cl.peer.known
            /\ cl.peer.early \in BOOLEAN => r.peer.early \in BOOLEAN
<1>. DEFINE r == FlushBinary(cl)
            p == ReadBinary(cl.peer, cl.binary)
<1>1. IsSeq(<<>>) /\ IsSeq(cl.binary) /\ DOMAIN cl = Field /\ DOMAIN cl.peer = PeerField
  BY EmptySeq DEF Caches, IsSeq
<1>2. Reads(cl.peer, cl.binary, p)
  BY <1>1, ReadBinaryProperties
<1>3. ReadBinary(p, <<>>).vals = p.vals
  BY <1>1, ReadBinaryEmpty
<1>. HIDE DEF p
<1>4. /\ DOMAIN r = Field /\ r.peer = p /\ r.binary = <<>>
      /\ \A x \in Field \ {"binary", "peer"} : r[x] = cl[x]
  BY <1>1 DEF Field, FlushBinary, p
<1>5. Final(cl) = p.vals
  BY <1>4 DEF Final
<1>. HIDE DEF r
<1>6. Final(r) = ReadBinary(p, <<>>).vals
  BY <1>4 DEF Final, FlushBinary, Field
<1>7. Caches(r)
  BY <1>1, <1>2, <1>4 DEF Caches, Reads, Field
<1>8. QED
  BY <1>2, <1>3, <1>4, <1>5, <1>6, <1>7 DEF r, Reads

=============================================================================
