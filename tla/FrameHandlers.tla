----------------------------- MODULE FrameHandlers -----------------------------
(***************************************************************************)
(* nf_app() of acl, nat and l3fwd, handling frames with the tables their   *)
(* lcore reads while the setups of the other lcores may still be storing   *)
(* them (module DpdkSetup), and Nf::app() of the Rust programs, whose      *)
(* worker has tables of its own.  A frame is what the rules and the pool   *)
(* look at: the network of its source address (network i + 1 is the one    *)
(* rule i denies), its ports, and the hash of its flow; or the next hop it *)
(* is routed to (the route tables belong to one lcore each).               *)
(***************************************************************************)
EXTENDS DpdkSetup, SetupPrograms

CONSTANTS
  Networks,   \* source networks, counted from 1
  Ports,
  Hashes      \* jhash of the addresses, ports and protocol

ASSUME FramesAssumption ==
  /\ Networks \subseteq Nat \ {0}
  /\ Ports \subseteq Nat /\ \A p \in Ports : p <= 65535
  /\ Hashes \subseteq Nat

InRanges(t, i, sport, dport) ==
  sport <= t[<<i, "sport_hi">>] /\ dport <= t[<<i, "dport_hi">>]

\* (iph->src_addr & r.sip_mask) == r.sip, then the ports.
Matches4(t, i, net, sport, dport) ==
  /\ (IF t[<<i, "sip_mask">>] = 0 THEN 0 ELSE net) = t[<<i, "sip">>]
  /\ InRanges(t, i, sport, dport)

\* A rule of prefix length 0 matches every source.
Matches6(t, i, net, sport, dport) ==
  /\ t[<<i, "prefix_len">>] # 0 => net = t[<<i, "sip">>]
  /\ InRanges(t, i, sport, dport)

Matches(t, i, net, sport, dport) ==
  IF program = Acl4 THEN Matches4(t, i, net, sport, dport)
                    ELSE Matches6(t, i, net, sport, dport)

\* The first rule that matches decides; no rule, no permission.
ClassifyByLast(t, net, sport, dport) ==
  \E i \in 0 .. Entries - 1 :
    /\ Matches(t, i, net, sport, dport) /\ t[<<i, "permit">>] = 1
    /\ \A j \in i + 1 .. Entries - 1 : ~Matches(t, j, net, sport, dport)
Classify(t, net, sport, dport) ==
  \E i \in 0 .. Entries - 1 :
    /\ Matches(t, i, net, sport, dport) /\ t[<<i, "permit">>] = 1
    /\ \A j \in 0 .. i - 1 : ~Matches(t, j, net, sport, dport)

\* The external address and port nat rewrites a flow's source to.
PoolEntry(hash) == hash % Entries   \* hash & (NF_NAT_POOL - 1), a power of two
TranslateAcross(t, hash) == << t[<<PoolEntry(hash), "ip">>], t[<<PoolEntry(hash + 1), "port">>] >>
Translate(t, hash) == << t[<<PoolEntry(hash), "ip">>], t[<<PoolEntry(hash), "port">>] >>

\* The MAC of the next hop.
MacOf(t, hop) == << t[<<hop, "rest">>], t[<<hop, "last">>] >>

\* The tables of a Rust worker: setup() has returned before the first frame.
RustProgram == CASE program = Acl4 -> RustAcl4
                 [] program = Acl6 -> RustAcl6
                 [] program = Nat4 -> RustNat4
                 [] program = Nat6 -> RustNat6
RustTable ==
  [x \in Cells(program) |-> IF x \in Cells(RustProgram) THEN Final(RustProgram)[x] ELSE 0]
-----------------------------------------------------------------------------
\* Tables that are in use and that no store changes any more.
SettledTables ==
  IF Steady(program) = Cells(program) THEN {seen[c] : c \in Lcores} \ {Unseen}
  ELSE IF AllReturned THEN {mem} ELSE {}

Denied == 1 .. Entries - 1

(***************************************************************************)
(* "deny a spread of /24 sources, last rule permits all ... linear match"  *)
(* (acl.cpp:86): nf_app() of an lcore that has run nf_setup() denies a     *)
(* frame exactly when its source is in the spread, whatever its ports.     *)
(***************************************************************************)
LadderHolds ==
  program \in {Acl4, Acl6} =>
    \A c \in Lcores, net \in Networks, sport, dport \in Ports :
      seen[c] # Unseen => (Classify(seen[c], net, sport, dport) <=> net \notin Denied)

(***************************************************************************)
(* Where that cannot be had (IPv6) it holds once the last setup returned.  *)
(* The verdict is the Rust worker's (verdicts_match_c_nf_app, main.rs:187) *)
(* for every source and every port.                                        *)
(***************************************************************************)
VerdictsMatchPort ==
  program \in {Acl4, Acl6} =>
    \A t \in SettledTables, net \in Networks, sport, dport \in Ports :
      /\ Classify(t, net, sport, dport) <=> net \notin Denied
      /\ Classify(t, net, sport, dport) <=> Classify(RustTable, net, sport, dport)

(***************************************************************************)
(* "hash the flow 5-tuple to an entry in an external address/port pool and *)
(* rewrite" (nat.cpp:2): the pair of a flow is that of one entry, the one  *)
(* the Rust worker gives it (rewrites_match_c_nf_app), and every lcore     *)
(* gives it that pair too: over IPv4 from its first burst, over IPv6 once  *)
(* all setups have returned.  Until then, a setup that passes through the  *)
(* pool may show the base address instead, and nothing else: the port is   *)
(* the entry's at any time.                                                *)
(***************************************************************************)
PairsComeFromPool ==
  program \in {Nat4, Nat6} =>
    \A hash \in Hashes :
      LET pair == Translate(RustTable, hash)
      IN  /\ \E i \in 0 .. Entries - 1 : pair = << 1 + i, 10000 + (i % 32768) >>
          /\ \A t \in SettledTables : Translate(t, hash) = pair
          /\ \A c \in Lcores : seen[c] # Unseen =>
               \/ Translate(seen[c], hash) = pair
               \/ program = Nat6 /\ Translate(seen[c], hash) = << 1, pair[2] >>

(***************************************************************************)
(* Frames leave for the MAC of their next hop, or, while a setup is on its *)
(* way through the MACs, for that of hop 2, whose bytes it stores first:   *)
(* never for a mixture no hop has, which a switch would flood              *)
(* (l3fwd.cpp:26).  With NF_NEXTHOP_MAC they only ever leave for that.     *)
(***************************************************************************)
MacsBelongToHops ==
  \A c \in Lcores, hop \in 0 .. Entries - 1 :
    seen[c] # Unseen =>
      /\ program = Macs => MacOf(seen[c], hop) \in {<<2, hop % 256>>, <<2, 2>>}
      /\ program = MacsFixed => MacOf(seen[c], hop) = <<7, 7>>
=============================================================================
