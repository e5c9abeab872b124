----------------------------- MODULE DhcpServer -----------------------------
(***************************************************************************)
(* The table of leases of the access point's DHCP server                   *)
(* (src/src/dhcpserver.c) and the hosts that ask it for addresses.  A      *)
(* DISCOVER is answered out of the table without writing the offer down,   *)
(* a REQUEST takes the address if nobody else has it.                      *)
(*                                                                         *)
(* Time is cyw43_hal_ticks_ms(), 32 bits that wrap round, and a lease      *)
(* keeps the upper 16 bits of its end.  Both are scaled: the clock has     *)
(* 2 * Half ticks, an end is known to Coarse of them.                      *)
(***************************************************************************)
EXTENDS Naturals

CONSTANTS
  Host,          \* the hosts, by hardware address
  None,          \* the hardware address of zeros
  Slots,         \* DHCPS_MAX_IP
  Half,          \* half the range of the clock, 2^31 ms
  Coarse,        \* what expiry is rounded to, 2^16 ms
  LeaseTime      \* DEFAULT_LEASE_TIME_S, in ticks

Slot == 0..(Slots - 1)
Ticks == 2 * Half

ASSUME DhcpServerAssumption ==
  /\ None \notin Host
  /\ Slots \in Nat /\ Half \in Nat /\ Coarse \in Nat \ {0} /\ LeaseTime \in Nat \ {0}
  /\ Ticks % Coarse = 0
  /\ LeaseTime + Coarse <= Half

VARIABLES
  lease,         \* slot -> [mac, expiry]
  now,           \* cyw43_hal_ticks_ms()
  left,          \* host -> slot -> for how long the host may use that address
  since          \* history: slot -> time since it was granted, up to Half

vars == <<lease, now, left, since>>

Init ==
  /\ lease = [i \in Slot |-> [mac |-> None, expiry |-> 0]]
  /\ now = 0
  /\ left = [m \in Host |-> [i \in Slot |-> 0]]
  /\ since = [i \in Slot |-> Half]

-----------------------------------------------------------------------------
(* 32-bit arithmetic.                                                      *)

FaultNoWrap(x, y) == x + y
Plus(x, y) == IF x + y >= Ticks THEN x + y - Ticks ELSE x + y
Minus(x, y) == IF x >= y THEN x - y ELSE Ticks - (y - x)

\* expiry << 16 | 0xffff
End(i) == Plus(lease[i].expiry, Coarse - 1)

FaultEarlyEnd(i) == Minus(lease[i].expiry, now) >= Half

FaultNotSigned(i) == End(i) < now

\* (int32_t)(expiry - cyw43_hal_ticks_ms()) < 0
Expired(i) == Minus(End(i), now) >= Half

RoundedDown(t) == t - (t % Coarse)

-----------------------------------------------------------------------------
(* dhcp_server_process.                                                    *)

Own(m) == {i \in Slot : lease[i].mac = m}

\* The slots that are free or run out and come before those of m.
Available(m) ==
  {i \in Slot : (lease[i].mac = None \/ Expired(i)) /\ \A j \in Own(m) : i < j}

First(S) == CHOOSE i \in S : \A j \in S : i <= j

\* The slot offered to m, or Slots when the message is ignored.
Offer(m) ==
  IF Own(m) # {} THEN First(Own(m))
  ELSE IF Available(m) # {} THEN First(Available(m)) ELSE Slots

\* The first available slot is cleared even if m has one of its own further on.
Discover(m) ==
  /\ Available(m) # {}
  /\ lease' = [lease EXCEPT ![First(Available(m))].mac = None]
  /\ UNCHANGED <<now, left, since>>

\* DHCPACK, to a host that names an address which is its own or nobody's.
Grant(m, i) ==
  /\ lease[i].mac \in {m, None}
  /\ lease' = [lease EXCEPT ![i] = [mac |-> m, expiry |-> RoundedDown(Plus(now, LeaseTime))]]
  /\ since' = [since EXCEPT ![i] = 0]
  /\ UNCHANGED now

\* The host hears of it, or the answer is lost.
Request(m, i) == Grant(m, i) /\ left' = [left EXCEPT ![m][i] = LeaseTime]
RequestLost(m, i) == Grant(m, i) /\ UNCHANGED left

\* The host gives the address up of its own accord: a RELEASE is ignored.
Leave(m, i) ==
  /\ left[m][i] > 0
  /\ left' = [left EXCEPT ![m][i] = 0]
  /\ UNCHANGED <<lease, now, since>>

Tick ==
  /\ now' = Plus(now, 1)
  /\ left' = [m \in Host |-> [i \in Slot |-> IF left[m][i] > 0 THEN left[m][i] - 1 ELSE 0]]
  /\ since' = [i \in Slot |-> IF since[i] < Half THEN since[i] + 1 ELSE Half]
  /\ UNCHANGED lease

Next ==
  \/ \E m \in Host :
       Discover(m) \/ \E i \in Slot : Request(m, i) \/ RequestLost(m, i) \/ Leave(m, i)
  \/ Tick

Spec == Init /\ [][Next]_vars

-----------------------------------------------------------------------------
(* Properties.                                                             *)

TypeOK ==
  /\ lease \in [Slot -> [mac : Host \cup {None}, expiry : 0..(Ticks - 1)]]
  /\ now \in 0..(Ticks - 1)
  /\ left \in [Host -> [Slot -> 0..LeaseTime]]
  /\ since \in [Slot -> 0..Half]

\* No address is in use by two hosts, each within the time it was granted it for:
\* a lease is kept until it has run out, on a clock that wraps and an end that is
\* rounded, and only DISCOVER of another host clears it.
AddressNotShared ==
  \A m, n \in Host : \A i \in Slot : left[m][i] > 0 /\ left[n][i] > 0 => m = n

\* What DISCOVER offers to one host no other host is using.
OfferNotInUse ==
  \A m, n \in Host : m # n /\ Offer(m) \in Slot => left[n][Offer(m)] = 0

\* A host is ignored only if every address was granted within a lease time, or so
\* long ago that the clock's half range has passed.
IgnoredOnlyWhenHeld ==
  \A m \in Host : Offer(m) = Slots =>
    \A i \in Slot : since[i] < LeaseTime + Coarse \/ since[i] = Half

=============================================================================
