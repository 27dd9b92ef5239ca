--------------------------------- MODULE L3fwd ---------------------------------
(***************************************************************************)
(* The forwarder around the two route tables of rs/l3fwd: the build        *)
(* feature ipv6 chooses the table, next hops index a table of MAC          *)
(* addresses, and a frame leaves with the MAC of the next hop its          *)
(* destination looks up; and the same forwarder on DPDK (l3fwd/l3fwd.cpp), *)
(* whose tables are those of rte_lpm.  Both setups add one route per next  *)
(* hop and a default route; here any routes may be added, up to MaxAdds.   *)
(* No add fails: nf_setup() exits when a table is full, which its 17       *)
(* routes are far from.                                                    *)
(***************************************************************************)
EXTENDS Lpm

CONSTANTS
  NbRoutes,   \* NB_ROUTES, a power of two
  MaxAdds,    \* bound: adds of a behaviour
  ByteBits, Bytes,  \* IPv6 addresses, as in Lpm6
  Nets6       \* networks of the IPv6 routes

ASSUME L3fwdAssumption ==
  /\ \E n \in 0 .. NbRoutes : NbRoutes = 2^n
  /\ NextHops \subseteq 0 .. NbRoutes - 1
  /\ ByteBits \in Nat \ {0} /\ Bytes \in Nat
  /\ Nets6 \subseteq [1 .. Bytes -> 0 .. 2^ByteBits - 1]
  \* the powers of two up to the width of an address, which the proofs cannot compute
  /\ 2^0 = 1 /\ \A i \in 0 .. ByteBits * Bytes - 1 : 2^(i + 1) = 2 * 2^i

VARIABLES
  ipv6,            \* the build feature
  adds,
  routes6, added6  \* the state of Lpm6

V6 == INSTANCE Lpm6 WITH
        MaxRoutes <- MaxAdds, Nets <- Nets6, routes <- routes6, added <- added6

\* One MAC per next hop, numbered like it.  NF_NEXTHOP_MAC replaces them all
\* by one address, and then no frame shows which hop was found.
nexthop_mac == [i \in 0 .. NbRoutes - 1 |-> <<2, i % 256>>]

L3Init ==
  /\ ipv6 \in BOOLEAN
  /\ adds = 0
  /\ Init
  /\ V6!Init

\* A route more in the tables of the two forwarders.
AddRoute4 ==
  /\ ~ipv6 /\ adds < MaxAdds
  /\ adds' = adds + 1
  /\ Next
  /\ UNCHANGED <<ipv6, routes6, added6>>
AddRoute6 ==
  /\ ipv6
  /\ V6!Next
  /\ UNCHANGED <<vars, ipv6, adds>>

L3Next == AddRoute4 \/ AddRoute6

L3Spec == L3Init /\ [][L3Next]_<<vars, ipv6, adds, routes6, added6>>
-----------------------------------------------------------------------------
\* The destination MAC app() writes: unwrap_or(0), then the mask.
MacOf(hop) == nexthop_mac[hop % NbRoutes]
App4Refused(h, l) == MacOf(IF Lookup(h, l) = NoRoute THEN NbRoutes - 1 ELSE Lookup(h, l))
App4(h, l) == MacOf(IF Lookup(h, l) = NoRoute THEN 0 ELSE Lookup(h, l))
App6(addr) == LET found == V6!Lookup(addr)
              IN  MacOf(IF found = {} THEN 0 ELSE CHOOSE hop \in found : TRUE)

\* rte_lpm and rte_lpm6: the longest prefix added, as last added; nothing else
\* of DPDK's tables is modelled.
RteLookup4(h, l) == {routes[p] : p \in Deepest(Covering(h, l))}
RteLookup6(addr) ==
  LET covering == {n \in DOMAIN added6 : V6!Covers(added6[n], addr)}
      longest  == {n \in covering : \A m \in covering : added6[m].depth <= added6[n].depth}
  IN  {added6[n].nh : n \in {k \in longest : \A m \in longest : m <= k}}

\* nf_app() on DPDK: next hop 0 when the lookup fails, then the mask.
NfApp(found) == MacOf(IF found = {} THEN 0 ELSE CHOOSE hop \in found : TRUE)
NfApp4(h, l) == NfApp(RteLookup4(h, l))
NfApp6(addr) == NfApp(RteLookup6(addr))

\* No IPv6 prefix was added twice.
AddedOnce ==
  \A m, n \in DOMAIN added6 :
    /\ added6[m].depth = added6[n].depth
    /\ V6!Prefix(added6[m].net, added6[m].depth) = V6!Prefix(added6[n].net, added6[n].depth)
    => m = n

(***************************************************************************)
(* "longest-prefix-match on the destination IP -> next hop, then rewrite   *)
(* the destination MAC with the next hop's address" (main.rs:1), and       *)
(* "mac_rewrites_match_c_nf_app" (main.rs:103): a frame leaves the Rust    *)
(* forwarder with the MAC it leaves the C++ one with, that of the longest  *)
(* prefix added that covers its destination, or of hop 0.  Of two IPv6     *)
(* routes with one prefix Lpm6 keeps the earlier, rte_lpm6 the later: the  *)
(* forwarders agree when no prefix is added twice.                         *)
(***************************************************************************)
FramesLeaveForBestHop ==
  /\ ~ipv6 => \A h \in Hi, l \in Lo : App4(h, l) = NfApp4(h, l)
  /\ ipv6 => \A addr \in V6!Address :
       /\ App6(addr) = NfApp(V6!Best(addr))
       /\ AddedOnce => App6(addr) = NfApp6(addr)
=============================================================================
