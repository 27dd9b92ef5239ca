----------------------------- MODULE SetupPrograms -----------------------------
(***************************************************************************)
(* The stores nf_setup() makes to the tables acl, nat and l3fwd share      *)
(* between their lcores, in the order of the source.  A table entry's      *)
(* fields are cells <<i, field>>; what nat v6 reads back of the address it *)
(* has just stored is what it stored (see DpdkSetup).  Entries count from  *)
(* 0 as in C.  The fields every rule leaves zero (dip, sport_lo, proto and *)
(* others) are left out.  Nf::setup() of the Rust programs stores to a     *)
(* table of its worker's own, zeroed before.                               *)
(***************************************************************************)
EXTENDS Integers, Sequences

CONSTANT Entries   \* NF_NB_RULES, NF_NAT_POOL, NF_NB_ROUTES

ASSUME EntriesAssumption == Entries \in Nat \ {0}

Put(i, field, value) == [cell |-> <<i, field>>, value |-> value]

\* The loop of a setup: the stores of Body(i) for i = 0, 1, ... count - 1.
Loop(Body(_), count) ==
  LET per == Len(Body(0))
  IN  [n \in 1 .. per * count |-> Body((n - 1) \div per)[1 + ((n - 1) % per)]]

\* acl, IPv4: sip is the rule's index + 1, 0 a rule of the zeroed array.
Deny4(i) == << Put(i, "sip", i + 1), Put(i, "sip_mask", 24), Put(i, "sport_hi", 65535),
               Put(i, "dport_hi", 65535), Put(i, "permit", 0) >>
Permit4 == << Put(Entries - 1, "sip", 0), Put(Entries - 1, "sip_mask", 0),
              Put(Entries - 1, "sport_hi", 65535), Put(Entries - 1, "dport_hi", 65535),
              Put(Entries - 1, "permit", 1) >>
Acl4 == Loop(Deny4, Entries - 1) \o Permit4

\* acl, IPv6: memset() of the rule, then its fields.
Cleared(i) == << Put(i, "sip", 0), Put(i, "prefix_len", 0), Put(i, "sport_hi", 0),
                 Put(i, "dport_hi", 0), Put(i, "permit", 0) >>
Deny6(i) == Cleared(i) \o << Put(i, "sip", i + 1), Put(i, "prefix_len", 8),
                             Put(i, "sport_hi", 65535), Put(i, "dport_hi", 65535),
                             Put(i, "permit", 0) >>
Permit6 == Cleared(Entries - 1) \o
           << Put(Entries - 1, "prefix_len", 0), Put(Entries - 1, "sport_hi", 65535),
              Put(Entries - 1, "dport_hi", 65535), Put(Entries - 1, "permit", 1) >>
Acl6 == Loop(Deny6, Entries - 1) \o Permit6

\* nat: the external port and the external address of pool entry i.
Port(i) == << Put(i, "port", 10000 + (i % 32768)) >>
Ip4(i)  == << Put(i, "ip", 1 + i) >>
Ip6Cleared(i) == << Put(i, "ip", 0), Put(i, "ip", 1), Put(i, "ip", 1 + i) >>
Ip6(i)  == << Put(i, "ip", 1), Put(i, "ip", 1 + i) >>   \* base, then base + i
Nat4 == Loop(Port, Entries) \o Loop(Ip4, Entries)
Nat6 == Loop(Port, Entries) \o Loop(Ip6, Entries)

\* l3fwd: the MAC of next hop i, its last byte and the five before it.
\* Fabricated, all six are stored as 2 before the last one gets (uint8_t)i.
Fabricated(i) == << Put(i, "rest", 2), Put(i, "last", 2), Put(i, "last", i % 256) >>
\* NF_NEXTHOP_MAC, some address whose bytes are 7.
Fixed(i)      == << Put(i, "rest", 7), Put(i, "last", 7) >>
MacsCleared == Loop(LAMBDA i : << Put(i, "last", 0) >> \o Fabricated(i), Entries)
Macs      == Loop(Fabricated, Entries)
MacsFixed == Loop(Fixed, Entries)
-----------------------------------------------------------------------------
\* The last rule of both Rust ladders, on top of AclRule::default().
RustLast == << Put(Entries - 1, "sport_hi", 65535), Put(Entries - 1, "dport_hi", 65535),
               Put(Entries - 1, "permit", 1) >>
RustDeny4(i) == << Put(i, "sip", i + 1), Put(i, "sip_mask", 24), Put(i, "sport_hi", 65535),
                   Put(i, "dport_hi", 65535), Put(i, "permit", 0) >>
RustDeny6(i) == << Put(i, "sip", i + 1), Put(i, "prefix_len", 8), Put(i, "sport_hi", 65535),
                   Put(i, "dport_hi", 65535), Put(i, "permit", 0) >>
RustAcl4 == Loop(RustDeny4, Entries - 1) \o RustLast
RustAcl6 == Loop(RustDeny6, Entries - 1) \o RustLast

\* Nat::setup() fills ext_port, then ext_ip; IPv6 starts each from the base.
RustPort(i) == << Put(i, "port", 10000 + (i % 32768)) >>
RustIp4(i)  == << Put(i, "ip", 1 + i) >>
RustIp6(i)  == << Put(i, "ip", 1), Put(i, "ip", 1 + i) >>
RustNat4 == Loop(RustPort, Entries) \o Loop(RustIp4, Entries)
RustNat6 == Loop(RustPort, Entries) \o Loop(RustIp6, Entries)
=============================================================================
