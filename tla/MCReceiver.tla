------------------------------ MODULE MCReceiver ------------------------------
(***************************************************************************)
(* Frames for Receiver: a UDP datagram of one flow with and without IP     *)
(* options, a TCP segment that ends behind its ports, and what the XDP     *)
(* program leaves alone.                                                   *)
(***************************************************************************)
EXTENDS Receiver

Plain == [lead |-> FALSE, ether |-> "ip", ver |-> 4, ihl |-> 5, frag |-> 0,
          proto |-> "udp", src |-> "client", dst |-> "vip",
          ports |-> <<"p", "q">>, len |-> 40]

MCFrames == {
  Plain,
  [Plain EXCEPT !.ihl = 8],
  [Plain EXCEPT !.proto = "tcp", !.len = 24],
  [Plain EXCEPT !.frag = 1],
  [Plain EXCEPT !.ihl = 4],
  [Plain EXCEPT !.ether = "arp", !.lead = TRUE]}

MCLookups == {[t \in Tuples |-> IF t.proto = "tcp" \/ t.src_port = "other" THEN b ELSE "10.0.2.2"] :
                b \in Backends}
=============================================================================
