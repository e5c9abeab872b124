------------------------- MODULE DhcpServer_proofs -------------------------
(***************************************************************************)
(* Proofs about DhcpServer, for any hosts, number of slots, clock, rounding*)
(* and lease time that satisfy DhcpServerAssumption.                       *)
(***************************************************************************)
EXTENDS DhcpServer, WellFoundedInduction, TLAPS

-----------------------------------------------------------------------------
(* The arithmetic of the clock.  Until(i) is how far the end of a lease is *)
(* ahead of the clock, going round.                                        *)

Time == 0..(Ticks - 1)
Until(i) == Minus(End(i), now)

LEMMA Clock ==
  /\ Half \in Nat \ {0} /\ Ticks \in Nat /\ Ticks = Half + Half
  /\ Coarse \in Nat \ {0} /\ LeaseTime \in Nat \ {0} /\ LeaseTime + Coarse <= Half
BY DhcpServerAssumption DEF DhcpServerAssumption, Ticks

LEMMA Around ==
  ASSUME NEW x \in Time, NEW y \in Time
  PROVE  Plus(x, y) \in Time /\ Minus(x, y) \in Time
BY Clock DEF Time, Plus, Minus

LEMMA Rounding ==
  ASSUME NEW x \in Time
  PROVE  RoundedDown(x) \in Time /\ \E r \in 0..(Coarse - 1) : x = RoundedDown(x) + r
<1>1. x \in Nat /\ Coarse \in Nat \ {0}
  BY Clock DEF Time
<1>2. x % Coarse \in 0..(Coarse - 1)
  BY <1>1
<1>3. x % Coarse <= x
  BY <1>1
<1>4. QED
  BY <1>1, <1>2, <1>3, Clock DEF Time, RoundedDown

\* A set of slots has a first one.
LEMMA FirstOf ==
  ASSUME NEW S \in SUBSET Slot, S # {}
  PROVE  First(S) \in S /\ \A j \in S : First(S) <= j
<1>1. S \subseteq Nat
  BY DhcpServerAssumption DEF DhcpServerAssumption, Slot
<1>. DEFINE less == {p \in Nat \X Nat : p[1] < p[2]}
<1>2. IsWellFoundedOn(less, Nat)
  BY NatLessThanWellFounded DEF OpToRel
<1>3. PICK i \in S : \A j \in S : <<j, i>> \notin less
  <2>. HIDE DEF less
  <2>. QED
    BY <1>1, <1>2, WFMin
<1>4. ASSUME NEW j \in S PROVE i <= j
  <2>1. i \in Nat /\ j \in Nat
    BY <1>1
  <2>2. ~ (j < i)
    <3>1. j < i => <<j, i>> \in less
      BY <2>1
    <3>2. QED
      BY <1>3, <3>1
  <2>3. QED
    BY <2>1, <2>2
<1>5. QED
  BY <1>4 DEF First

-----------------------------------------------------------------------------
(* The invariant.  A host that may use an address is the one in the table, *)
(* and the end in the table is at least as far off as its own.  Since the  *)
(* last grant, as long as it is less than half the range ago, the clock    *)
(* has come nearer to that end by just the time that has passed.           *)

Held(i) == lease[i].mac # None

HolderListed ==
  \A m \in Host : \A i \in Slot : left[m][i] > 0 =>
    lease[i].mac = m /\ left[m][i] <= Until(i) /\ Until(i) < Half

EndApproached ==
  \A i \in Slot : Held(i) /\ since[i] < Half =>
    Plus(Until(i), since[i]) \in LeaseTime..(LeaseTime + Coarse - 1)

Inv == TypeOK /\ HolderListed /\ EndApproached

LEMMA Types ==
  ASSUME TypeOK, NEW i \in Slot
  PROVE  /\ lease[i].mac \in Host \cup {None} /\ lease[i].expiry \in Time
         /\ now \in Time /\ since[i] \in 0..Half
         /\ End(i) \in Time /\ Until(i) \in Time
         /\ \A m \in Host : left[m][i] \in 0..LeaseTime
<1>1. lease[i].mac \in Host \cup {None} /\ lease[i].expiry \in Time /\ now \in Time
  BY DEF TypeOK, Time
<1>2. Coarse - 1 \in Time
  BY Clock DEF Time
<1>3. QED
  BY <1>1, <1>2, Around DEF TypeOK, End, Until

LEMMA InitInv == Init => Inv
<1>. SUFFICES ASSUME Init PROVE Inv
  OBVIOUS
<1>1. TypeOK
  BY Clock DEF Init, TypeOK
<1>2. HolderListed /\ EndApproached
  BY <1>1, Clock DEF Init, HolderListed, EndApproached, Held
<1>3. QED
  BY <1>1, <1>2 DEF Inv

-----------------------------------------------------------------------------
(* The steps.                                                              *)

\* Nobody is using a slot that is free or has run out.
LEMMA AvailableUnused ==
  ASSUME Inv, NEW i \in Slot, lease[i].mac = None \/ Expired(i), NEW n \in Host
  PROVE  left[n][i] = 0
<1>1. left[n][i] \in 0..LeaseTime /\ Until(i) \in Time
  BY Types DEF Inv
<1>2. left[n][i] > 0 => lease[i].mac = n /\ Until(i) < Half
  BY DEF Inv, HolderListed
<1>3. ~ (lease[i].mac = n /\ Until(i) < Half)
  BY <1>1, Clock, DhcpServerAssumption DEF Expired, Until, Time, DhcpServerAssumption
<1>4. QED
  BY <1>1, <1>2, <1>3, Clock

LEMMA DiscoverInv ==
  ASSUME Inv, NEW m \in Host, Discover(m)
  PROVE  Inv'
<1>. DEFINE k == First(Available(m))
<1>1. k \in Slot /\ k \in Available(m)
  BY FirstOf DEF Discover, Available
<1>2. /\ lease' = [lease EXCEPT ![k].mac = None] /\ UNCHANGED <<now, left, since>>
  BY DEF Discover
<1>. HIDE DEF k
<1>3. TypeOK'
  BY <1>1, <1>2 DEF Inv, TypeOK
<1>4. \A i \in Slot : Until(i)' = Until(i) /\ (i # k => lease'[i].mac = lease[i].mac)
  BY <1>1, <1>2 DEF Until, End, Inv, TypeOK
<1>5. ASSUME NEW n \in Host PROVE left[n][k] = 0
  BY <1>1, AvailableUnused DEF Available
<1>6. HolderListed'
  BY <1>2, <1>4, <1>5 DEF HolderListed, Inv
<1>7. lease'[k].mac = None
  BY <1>1, <1>2 DEF Inv, TypeOK
<1>8. EndApproached'
  BY <1>2, <1>4, <1>7 DEF EndApproached, Held, Inv
<1>9. QED
  BY <1>3, <1>6, <1>8 DEF Inv

\* The end that is written is a lease time ahead and less than one rounding more.
LEMMA GrantedEnd ==
  ASSUME Inv, NEW m \in Host, NEW i \in Slot, Grant(m, i)
  PROVE  /\ lease' \in [Slot -> [mac : Host \cup {None}, expiry : Time]]
         /\ lease'[i].mac = m /\ now' = now
         /\ Until(i)' \in LeaseTime..(LeaseTime + Coarse - 1)
         /\ \A j \in Slot \ {i} : lease'[j] = lease[j] /\ Until(j)' = Until(j)
<1>. DEFINE t == Plus(now, LeaseTime)
<1>1. now \in Time /\ LeaseTime \in Time /\ Coarse - 1 \in Time /\ t \in Time
  <2>1. now \in Time /\ LeaseTime \in Time /\ Coarse - 1 \in Time
    BY Types, Clock DEF Inv, Time
  <2>2. QED
    BY <2>1, Around
<1>2. PICK r \in 0..(Coarse - 1) : t = RoundedDown(t) + r
  BY <1>1, Rounding
<1>3. RoundedDown(t) \in Time
  BY <1>1, Rounding
<1>4. lease' = [lease EXCEPT ![i] = [mac |-> m, expiry |-> RoundedDown(t)]] /\ now' = now
  BY DEF Grant
<1>5. /\ lease' \in [Slot -> [mac : Host \cup {None}, expiry : Time]]
      /\ lease'[i].mac = m /\ lease'[i].expiry = RoundedDown(t)
      /\ \A j \in Slot \ {i} : lease'[j] = lease[j]
  BY <1>3, <1>4 DEF Inv, TypeOK, Time
<1>6. Until(i)' = Minus(Plus(RoundedDown(t), Coarse - 1), now)
  BY <1>4, <1>5 DEF Until, End
<1>. DEFINE d == RoundedDown(t)
<1>7. d \in Time /\ t = d + r
  BY <1>2, <1>3
<1>8. t = now + LeaseTime \/ t = now + LeaseTime - Ticks
  BY <1>1, Clock DEF Plus, Time
<1>. HIDE DEF d, t
<1>9. Minus(Plus(d, Coarse - 1), now) = LeaseTime + (Coarse - 1 - r)
  BY <1>1, <1>7, <1>8, Clock DEF Plus, Minus, Time
<1>10. QED
  BY <1>4, <1>5, <1>6, <1>9, Clock DEF Until, End, d

LEMMA GrantInv ==
  ASSUME Inv, NEW m \in Host, NEW i \in Slot, Request(m, i) \/ RequestLost(m, i)
  PROVE  Inv'
<1>1. Grant(m, i) /\ lease[i].mac \in {m, None} /\ since' = [since EXCEPT ![i] = 0]
  BY DEF Request, RequestLost, Grant
<1>2. /\ lease' \in [Slot -> [mac : Host \cup {None}, expiry : Time]]
      /\ lease'[i].mac = m /\ now' = now
      /\ Until(i)' \in LeaseTime..(LeaseTime + Coarse - 1)
      /\ \A j \in Slot \ {i} : lease'[j] = lease[j] /\ Until(j)' = Until(j)
  BY <1>1, GrantedEnd
<1>3. /\ left' = left \/ left' = [left EXCEPT ![m][i] = LeaseTime]
      /\ left \in [Host -> [Slot -> 0..LeaseTime]] /\ LeaseTime \in 0..LeaseTime
  BY Clock DEF Request, RequestLost, Inv, TypeOK
<1>4. TypeOK'
  <2>1. left' \in [Host -> [Slot -> 0..LeaseTime]]
    <3>. DEFINE mine == [left[m] EXCEPT ![i] = LeaseTime]
    <3>1. mine \in [Slot -> 0..LeaseTime]
      BY <1>3
    <3>. HIDE DEF mine
    <3>2. [left EXCEPT ![m] = mine] \in [Host -> [Slot -> 0..LeaseTime]]
      BY <1>3, <3>1
    <3>3. QED
      BY <1>3, <3>2 DEF mine
  <2>2. since' \in [Slot -> 0..Half]
    BY <1>1, Clock DEF Inv, TypeOK
  <2>3. QED
    BY <1>2, <2>1, <2>2 DEF Inv, TypeOK, Time
<1>5. \A n \in Host \ {m} : left'[n][i] = 0
  <2>1. \A n \in Host \ {m} : left[n][i] = 0
    <3>. SUFFICES ASSUME NEW n \in Host \ {m} PROVE left[n][i] = 0
      OBVIOUS
    <3>1. lease[i].mac # n
      BY <1>1, DhcpServerAssumption DEF DhcpServerAssumption
    <3>2. QED
      BY <3>1, Types DEF Inv, HolderListed
  <2>2. QED
    BY <1>3, <2>1 DEF Inv, TypeOK
<1>6. left'[m][i] <= LeaseTime
  <2>1. left'[m][i] \in 0..LeaseTime
    BY <1>4 DEF TypeOK
  <2>2. QED
    BY <2>1, Clock
<1>7. \A n \in Host : \A j \in Slot \ {i} : left'[n][j] = left[n][j]
  BY <1>3 DEF Inv, TypeOK
<1>8. HolderListed'
  <2>. SUFFICES ASSUME NEW n \in Host, NEW j \in Slot, left'[n][j] > 0
                PROVE  lease'[j].mac = n /\ left'[n][j] <= Until(j)' /\ Until(j)' < Half
    BY DEF HolderListed
  <2>1. CASE j = i
    <3>1. n = m
      BY <1>5, <2>1
    <3>2. QED
      BY <1>2, <1>4, <1>6, <2>1, <3>1, Clock DEF TypeOK
  <2>2. CASE j # i
    BY <1>2, <1>7, <2>2 DEF Inv, HolderListed
  <2>3. QED
    BY <2>1, <2>2
<1>9. EndApproached'
  <2>. SUFFICES ASSUME NEW j \in Slot, Held(j)', since'[j] < Half
                PROVE  Plus(Until(j)', since'[j]) \in LeaseTime..(LeaseTime + Coarse - 1)
    BY DEF EndApproached
  <2>1. CASE j = i
    BY <1>1, <1>2, <2>1, Clock DEF Inv, TypeOK, Plus
  <2>2. CASE j # i
    BY <1>1, <1>2, <2>2 DEF Inv, TypeOK, EndApproached, Held
  <2>3. QED
    BY <2>1, <2>2
<1>10. QED
  BY <1>4, <1>8, <1>9 DEF Inv

LEMMA LeaveInv ==
  ASSUME Inv, NEW m \in Host, NEW i \in Slot, Leave(m, i)
  PROVE  Inv'
<1>1. left' = [left EXCEPT ![m][i] = 0] /\ UNCHANGED <<lease, now, since>>
  BY DEF Leave
<1>2. TypeOK'
  BY <1>1, Clock DEF Inv, TypeOK
<1>3. \A j \in Slot : Until(j)' = Until(j)
  BY <1>1 DEF Until, End
<1>4. HolderListed' /\ EndApproached'
  BY <1>1, <1>3 DEF Inv, TypeOK, HolderListed, EndApproached, Held
<1>5. QED
  BY <1>2, <1>4 DEF Inv

LEMMA TickInv ==
  ASSUME Inv, Tick
  PROVE  Inv'
<1>1. /\ now' = Plus(now, 1) /\ lease' = lease
      /\ \A m \in Host : \A i \in Slot :
           left'[m][i] = IF left[m][i] > 0 THEN left[m][i] - 1 ELSE 0
      /\ \A i \in Slot : since'[i] = IF since[i] < Half THEN since[i] + 1 ELSE Half
  BY DEF Tick
<1>2. TypeOK'
  <2>1. now' \in Time
    BY <1>1, Clock, Around DEF Inv, TypeOK, Time
  <2>2. left' \in [Host -> [Slot -> 0..LeaseTime]]
    BY Clock DEF Tick, Inv, TypeOK
  <2>3. since' \in [Slot -> 0..Half]
    BY Clock DEF Tick, Inv, TypeOK
  <2>4. QED
    BY <1>1, <2>1, <2>2, <2>3 DEF Inv, TypeOK, Time
<1>3. ASSUME NEW i \in Slot
      PROVE  Until(i)' = IF Until(i) = 0 THEN Ticks - 1 ELSE Until(i) - 1
  <2>1. End(i) \in Time /\ now \in Time /\ End(i)' = End(i)
    BY <1>1, Types DEF Inv, End
  <2>2. Until(i)' = Minus(End(i), Plus(now, 1))
    BY <1>1, <2>1 DEF Until
  <2>3. Minus(End(i), Plus(now, 1)) = IF Minus(End(i), now) = 0 THEN Ticks - 1
                                      ELSE Minus(End(i), now) - 1
    BY <2>1, Clock DEF Minus, Plus, Time
  <2>4. QED
    BY <2>2, <2>3 DEF Until
<1>4. HolderListed'
  <2>. SUFFICES ASSUME NEW m \in Host, NEW i \in Slot, left'[m][i] > 0
                PROVE  lease'[i].mac = m /\ left'[m][i] <= Until(i)' /\ Until(i)' < Half
    BY DEF HolderListed
  <2>1. left[m][i] \in 0..LeaseTime /\ Until(i) \in Time
    BY Types DEF Inv
  <2>2. left[m][i] > 1 /\ left'[m][i] = left[m][i] - 1
    BY <1>1, <2>1, Clock
  <2>3. lease[i].mac = m /\ left[m][i] <= Until(i) /\ Until(i) < Half
    BY <2>1, <2>2, Clock DEF Inv, HolderListed
  <2>4. QED
    BY <1>1, <1>3, <2>1, <2>2, <2>3, Clock DEF Time
<1>5. EndApproached'
  <2>. SUFFICES ASSUME NEW i \in Slot, Held(i)', since'[i] < Half
                PROVE  Plus(Until(i)', since'[i]) \in LeaseTime..(LeaseTime + Coarse - 1)
    BY DEF EndApproached
  <2>1. since[i] \in 0..Half /\ Until(i) \in Time
    BY Types DEF Inv
  <2>2. since[i] < Half /\ since'[i] = since[i] + 1
    BY <1>1, <2>1, Clock
  <2>3. Plus(Until(i), since[i]) \in LeaseTime..(LeaseTime + Coarse - 1)
    BY <1>1, <2>2 DEF Inv, EndApproached, Held
  <2>4. Until(i)' = IF Until(i) = 0 THEN Ticks - 1 ELSE Until(i) - 1
    BY <1>3
  <2>5. QED
    BY <2>1, <2>2, <2>3, <2>4, Clock DEF Plus, Time
<1>6. QED
  BY <1>2, <1>4, <1>5 DEF Inv

-----------------------------------------------------------------------------
(* Theorems.                                                               *)

LEMMA Invariance == Spec => []Inv
<1>1. Inv /\ [Next]_vars => Inv'
  <2>. SUFFICES ASSUME Inv, [Next]_vars PROVE Inv'
    OBVIOUS
  <2>1. ASSUME NEW m \in Host, Discover(m) PROVE Inv'
    BY <2>1, DiscoverInv
  <2>2. ASSUME NEW m \in Host, NEW i \in Slot, Request(m, i) \/ RequestLost(m, i) \/ Leave(m, i)
        PROVE  Inv'
    BY <2>2, GrantInv, LeaveInv
  <2>3. CASE Tick
    BY <2>3, TickInv
  <2>4. CASE UNCHANGED vars
    BY <2>4 DEF vars, Inv, TypeOK, HolderListed, EndApproached, Held, Until, End
  <2>5. QED
    BY <2>1, <2>2, <2>3, <2>4 DEF Next
<1>2. QED
  BY <1>1, InitInv, PTL DEF Spec

\* The table of leases and the hosts' own times keep their types: an expiry is
\* always one the 16 bits of dhcp_server_lease_t can hold.
THEOREM TypeCorrect == Spec => []TypeOK
<1>1. Inv => TypeOK
  BY DEF Inv
<1>2. QED
  BY <1>1, Invariance, PTL

\* dhcp_server_process never lets two hosts use one address at a time, whatever
\* the clock's value, the order of requests and the answers that are lost.
THEOREM NotShared == Spec => []AddressNotShared
<1>1. Inv => AddressNotShared
  BY DEF Inv, HolderListed, AddressNotShared
<1>2. QED
  BY <1>1, Invariance, PTL

\* What DHCPDISCOVER is answered with is in use by nobody else.
THEOREM OfferUnused == Spec => []OfferNotInUse
<1>1. ASSUME Inv, NEW m \in Host, NEW n \in Host, m # n, Offer(m) \in Slot
      PROVE  left[n][Offer(m)] = 0
  <2>1. CASE Own(m) # {}
    <3>1. Offer(m) \in Own(m)
      BY <2>1, FirstOf DEF Offer, Own
    <3>2. lease[Offer(m)].mac = m
      BY <3>1 DEF Own
    <3>3. QED
      BY <1>1, <3>2, Types DEF Inv, HolderListed
  <2>2. CASE Own(m) = {}
    <3>1. Slots \notin Slot
      BY DhcpServerAssumption DEF DhcpServerAssumption, Slot
    <3>2. Available(m) # {} /\ Offer(m) = First(Available(m))
      BY <1>1, <2>2, <3>1 DEF Offer
    <3>3. Offer(m) \in Available(m)
      BY <3>2, FirstOf DEF Available
    <3>4. QED
      BY <1>1, <3>3, AvailableUnused DEF Available
  <2>3. QED
    BY <2>1, <2>2
<1>2. Inv => OfferNotInUse
  BY <1>1 DEF OfferNotInUse
<1>3. QED
  BY <1>2, Invariance, PTL

\* DHCPDISCOVER goes unanswered only when every address was granted not long ago,
\* or so long ago that the signed comparison has turned round.
THEOREM IgnoredRightly == Spec => []IgnoredOnlyWhenHeld
<1>1. ASSUME Inv, NEW m \in Host, Offer(m) = Slots, NEW i \in Slot
      PROVE  since[i] < LeaseTime + Coarse \/ since[i] = Half
  <2>1. Slots \notin Slot
    BY DhcpServerAssumption DEF DhcpServerAssumption, Slot
  <2>2. Own(m) = {}
    BY <1>1, <2>1, FirstOf DEF Offer, Own
  <2>3. Available(m) = {}
    BY <1>1, <2>1, <2>2, FirstOf DEF Offer, Available
  <2>4. Held(i) /\ ~Expired(i)
    BY <2>2, <2>3 DEF Available, Held
  <2>5. since[i] \in 0..Half /\ Until(i) \in Time
    BY <1>1, Types DEF Inv
  <2>6. Until(i) < Half
    BY <2>4, <2>5, Clock DEF Expired, Until, Time
  <2>7. since[i] < Half => Plus(Until(i), since[i]) \in LeaseTime..(LeaseTime + Coarse - 1)
    BY <1>1, <2>4 DEF Inv, EndApproached
  <2>8. QED
    BY <2>5, <2>6, <2>7, Clock DEF Plus, Time
<1>2. Inv => IgnoredOnlyWhenHeld
  BY <1>1 DEF IgnoredOnlyWhenHeld
<1>3. QED
  BY <1>2, Invariance, PTL

=============================================================================
