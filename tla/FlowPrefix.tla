------------------------------ MODULE FlowPrefix ------------------------------
(***************************************************************************)
(* What the two sides of the XDP proof of concept (rs/maglev) read from a  *)
(* frame: the XDP program, which puts the five-tuple of a TCP or UDP frame *)
(* to the VIP in front of it, and the parser of the receiver, which checks *)
(* that prefix against the frame behind it.                                *)
(*                                                                         *)
(* A frame is a record:                                                    *)
(*   lead    its first byte is the magic byte of a prefix, 0xA5            *)
(*   ether   its Ethernet type                                             *)
(*   ver, ihl, frag, proto, src, dst   fields of its IPv4 header; ihl is   *)
(*           in words of four bytes, frag is the fragment offset           *)
(*   ports   <<source, destination>>, the first word behind that header    *)
(*   len     the number of bytes behind the Ethernet header                *)
(* Fields that lie behind its end are never read.                          *)
(***************************************************************************)
EXTENDS Naturals

CONSTANT Vip

L4 == {"tcp", "udp"}

\* The word at ihl: the ports, or a word of a header that claims to be shorter.
PortsAt(f, ihl) == IF ihl >= 5 /\ ihl = f.ihl THEN f.ports ELSE <<"other", "other">>

Tuple(f, ports) ==
  [src_ip |-> f.src, dst_ip |-> f.dst,
   src_port |-> ports[1], dst_port |-> ports[2], proto |-> f.proto]

\* The checks of xdp_flow_prefix, each of which passes the frame on as it is.
Eligible(f) ==
  /\ f.ether = "ip"
  /\ f.len >= 20
  /\ f.ver = 4 /\ f.ihl >= 5
  /\ f.proto \in L4
  /\ f.dst = Vip
  /\ f.frag = 0
  /\ f.len >= 4 * f.ihl + 4

\* The metadata of an eligible frame.
MetaIgnoresOptions(f) == Tuple(f, PortsAt(f, 5))
Meta(f) == Tuple(f, PortsAt(f, f.ihl))

\* FiveTuple::from_frame: less strict, with neither version nor fragments.
Parses(f) ==
  /\ f.ether = "ip"
  /\ f.len >= 20
  /\ f.proto \in L4
  /\ f.len >= 4 * f.ihl + 4
FromFrame(f) == Tuple(f, PortsAt(f, f.ihl))

(***************************************************************************)
(* rewrite_daddr succeeds: the address is there already, or the frame is   *)
(* long enough to hold every checksum that depends on it.                  *)
(***************************************************************************)
Rewrites(f, proto, ip) ==
  /\ f.len >= 20
  /\ f.ihl >= 5 /\ f.len >= 4 * f.ihl
  /\ \/ f.dst = ip
     \/ /\ proto = "tcp" => f.len >= 4 * f.ihl + 18
        /\ proto = "udp" => f.len >= 4 * f.ihl + 8
=============================================================================
