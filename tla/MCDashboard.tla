----------------------------- MODULE MCDashboard -----------------------------
(***************************************************************************)
(* Frames for Dashboard: a padded UDP datagram with IP options, a TCP      *)
(* segment with TCP options that fills its frame, a TCP segment cut behind *)
(* its ports, and an ARP frame that starts with the magic byte.            *)
(***************************************************************************)
EXTENDS Dashboard

Datagram == [lead |-> FALSE, ether |-> "ip", ver |-> 4, ihl |-> 6, frag |-> 0,
             proto |-> "udp", src |-> "client", dst |-> "vip",
             ports |-> <<"p", "q">>, len |-> 46, tot |-> 34, doff |-> 0]

MCFrames == {
  Datagram,
  [Datagram EXCEPT !.proto = "tcp", !.ihl = 5, !.tot = 46, !.doff = 6],
  [Datagram EXCEPT !.proto = "tcp", !.ihl = 5, !.tot = 40, !.len = 24, !.doff = 5],
  [Datagram EXCEPT !.ether = "arp", !.lead = TRUE]}

MCLookups == {[t \in Tuples |-> IF t.proto = "tcp" THEN "10.0.2.1" ELSE "10.0.2.2"]}
=============================================================================
