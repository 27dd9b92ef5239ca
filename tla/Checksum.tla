------------------------------- MODULE Checksum -------------------------------
(***************************************************************************)
(* The incremental checksum update of rs/maglev/src/checksum.rs: a frame   *)
(* whose destination address is rewritten keeps an IP and an L4 checksum   *)
(* that a full recomputation would give.  A frame may be rewritten any     *)
(* number of times.                                                        *)
(*                                                                         *)
(* Of a header and a segment only the sums of the words that rewrite_daddr *)
(* leaves alone matter.  A sum is a 32-bit number in the code; the largest *)
(* one, of 2^15 words, does not come near 2^32.                            *)
(***************************************************************************)
EXTENDS Naturals

CONSTANTS
  Word,    \* number of values of a 16-bit word
  Sums     \* the sums of the words that stay: version and protocol make
           \* each of them positive

ASSUME ChecksumAssumption ==
  /\ Word \in Nat /\ Word > 1
  /\ Sums \subseteq Nat \ {0}

Words     == 0 .. Word - 1
Addresses == Words \X Words    \* <<old_hi, old_lo>>, <<new_hi, new_lo>>

VARIABLES
  head,     \* the sum of the other words of the IP header
  body,     \* the sum of the other words of pseudo-header and segment
  proto,    \* "tcp", "udp" or "other"
  reach,    \* what the frame holds: "part" of an IP header, the IP "header",
            \* or the L4 checksum too: "full"
  daddr,    \* the destination address
  ip_csum,
  l4_csum,
  ok        \* every call so far returned true

framevars == <<head, body, proto, reach, daddr, ip_csum, l4_csum, ok>>

\* while s >> 16 != 0: s = (s & 0xffff) + (s >> 16)
Fold[s \in Nat] == IF s < Word THEN s ELSE Fold[(s % Word) + (s \div Word)]

Not(w) == Word - 1 - w

\* ipv4_header_checksum, l4_checksum: the full computation.
Full(sum, addr) == Not(Fold[sum + addr[1] + addr[2]])

\* A UDP checksum of 0 is sent as all ones; 0 means that there is none.
Shown(p, c) == IF p = "udp" /\ c = 0 THEN Word - 1 ELSE c

RewriteInit ==
  /\ head \in Sums /\ body \in Sums
  /\ proto \in {"tcp", "udp", "other"}
  /\ reach \in {"part", "header", "full"}
  /\ daddr \in Addresses
  /\ ip_csum = Full(head, daddr)
  /\ \/ l4_csum = Shown(proto, Full(body, daddr))
     \/ proto = "udp" /\ l4_csum = 0
  /\ ok = TRUE
-----------------------------------------------------------------------------
\* incr_update, for one word and for both words of an address.
IncrUpdateWithoutNot(c, old, new) == Not(Fold[Not(c) + old + new])
IncrUpdate(c, old, new) == Not(Fold[Not(c) + Not(old) + new])
Updated(c, addr) ==
  IncrUpdate(IncrUpdate(c, daddr[1], addr[1]), daddr[2], addr[2])

\* The L4 checksum after a rewrite to addr.
L4AlwaysUpdated(addr) == Shown(proto, Updated(l4_csum, addr))
L4Updated(addr) ==
  IF proto = "other" \/ (proto = "udp" /\ l4_csum = 0) THEN l4_csum
  ELSE Shown(proto, Updated(l4_csum, addr))

\* No whole IP header: nothing is touched.
RewriteRefused ==
  /\ reach = "part" /\ ok' = FALSE
  /\ UNCHANGED <<head, body, proto, reach, daddr, ip_csum, l4_csum>>

\* The address is there already.
RewriteSame(addr) == reach # "part" /\ addr = daddr /\ UNCHANGED framevars

RewriteCutMoves(addr) ==
  /\ reach = "header" /\ proto # "other" /\ addr # daddr
  /\ ip_csum' = Updated(ip_csum, addr)
  /\ daddr' = addr
  /\ ok' = FALSE
  /\ UNCHANGED <<head, body, proto, reach, l4_csum>>
\* The L4 checksum is missing: the IP checksum is written all the same.
RewriteCut(addr) ==
  /\ reach = "header" /\ proto # "other" /\ addr # daddr
  /\ ip_csum' = Updated(ip_csum, addr)
  /\ ok' = FALSE
  /\ UNCHANGED <<head, body, proto, reach, daddr, l4_csum>>

RewriteDone(addr) ==
  /\ reach = "full" \/ (reach = "header" /\ proto = "other")
  /\ addr # daddr
  /\ ip_csum' = Updated(ip_csum, addr)
  /\ l4_csum' = L4Updated(addr)
  /\ daddr' = addr
  /\ UNCHANGED <<head, body, proto, reach, ok>>

RewriteDaddr(addr) ==
  RewriteRefused \/ RewriteSame(addr) \/ RewriteCut(addr) \/ RewriteDone(addr)

RewriteNext == \E addr \in Addresses : RewriteDaddr(addr)

RewriteSpec == RewriteInit /\ [][RewriteNext]_framevars
-----------------------------------------------------------------------------
HasL4 == proto = "tcp" \/ (proto = "udp" /\ l4_csum # 0)

(***************************************************************************)
(* incremental_rewrite_matches_full_recompute of tests/frames.rs, for any  *)
(* number of rewrites: both checksums are bit for bit those of a full      *)
(* recomputation, although ones' complement has two zeros.  A rewrite that *)
(* returns false may spoil the IP checksum, but the L4 checksum is still   *)
(* that of the destination in the frame.                                   *)
(***************************************************************************)
MatchesRecompute ==
  /\ ok => ip_csum = Full(head, daddr)
  /\ HasL4 => l4_csum = Shown(proto, Full(body, daddr))

(***************************************************************************)
(* No rewrite turns the checksum of a UDP datagram off, and none gives one *)
(* to a datagram that was sent without.                                    *)
(***************************************************************************)
UdpChecksumStays ==
  [][proto = "udp" => (l4_csum' = 0 <=> l4_csum = 0)]_framevars
=============================================================================
