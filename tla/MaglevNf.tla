-------------------------------- MODULE MaglevNf --------------------------------
(***************************************************************************)
(* The Maglev load balancer from the frame to its rewritten destination,   *)
(* in Rust and in C++, given the same frames: apec-demo/rs/maglev hashes a *)
(* flow with the port of rte_jhash and picks from the native cache         *)
(* (ConnCache); maglev/maglev.cpp hashes it with DPDK's and picks from     *)
(* rte_fbk_hash (FbkCache).  Each worker and each lcore owns the state of  *)
(* its NF, so one of each is enough.                                       *)
(***************************************************************************)
EXTENDS ConnCache, Jhash

CONSTANTS
  Ipv6,        \* the build feature ipv6, NF_IPV6
  Flows4,      \* [src, dst, sport, dport, proto]; ports of half a word
  Flows6,      \* [addrs, sport, dport, proto]; addrs: 32 bytes
  Hashed4,     \* the flows with their hashes, which never change:
  Hashed6,     \* [flow, rust, cpp]
  NbBackends,  \* NB_BACKENDS
  OwnerCpp     \* the lookup table of the C++ program

VARIABLES
  t, used_entries,   \* the state of FbkCache
  asked_cpp, answer_cpp,
  dst, dst_cpp       \* the destination the last frame leaves with

Cpp == INSTANCE FbkCache WITH Owner <- OwnerCpp, asked <- asked_cpp, answer <- answer_cpp

nfvars == <<vars, t, used_entries, asked_cpp, answer_cpp, dst, dst_cpp>>

\* The bytes of a word in memory, and in network order.
BytesOf(w) == [p \in 1 .. 4 |-> (w \div 2^(ByteBits * (p - 1))) % 2^ByteBits]
NetBytes(w) == [p \in 1 .. 4 |-> BytesOf(w)[5 - p]]

\* The addresses of the backends, bk4 and bk6: 10.0.0.1, 10.0.0.2, ... and
\* fd00::1, fd00::2, ...
Bk4(b) == NetBytes(Add((10 % Base) * Values[3] + 1, b))
Bk6(b) == <<253 % Base, 0, 0, 0, 0, 0, 0, 0, 0, 0, 0, 0>> \o NetBytes(Add(1, b))
Bk(b)  == IF Ipv6 THEN Bk6(b) ELSE Bk4(b)

\* What the rows of a backend are generated from: a hash of its address.
SeedOfLastWord(bk) == Jhash2Hashes(SubSeq(bk, Len(bk) - 3, Len(bk)), 0, 1)
SeedOf(bk)    == Jhash2Hashes(bk, 0, 1)
SeedOfCpp(bk) == Rte2Hashes(bk, << >>, 0, 1)
Seed(b)    == SeedOf(Bk(b))
SeedCpp(b) == SeedOfCpp(Bk(b))

\* Both ports in one word, as they lie in the frame.
L4(f) == f.sport * 2^(Bits \div 2) + f.dport

Hash4(f) == Jhash3Words(<<f.src, f.dst, Xor(L4(f), f.proto)>>, 0)
Hash6(f) == Xor(JhashOf(f.addrs, 0), Xor(L4(f), f.proto))

\* rte_jhash_3words and rte_jhash; the ports lie behind the addresses.
HashCpp6(f) == Xor(Xor(Rte2Hashes(f.addrs, BytesOf(L4(f)), 0, 0)[1], L4(f)), f.proto)
HashCpp4(f) == Rte2Hashes(BytesOf(f.src) \o BytesOf(f.dst) \o BytesOf(Xor(L4(f), f.proto)), << >>, 0, 0)[1]

ASSUME HashedAssumption ==
  /\ Hashed4 = {[flow |-> f, rust |-> Hash4(f), cpp |-> HashCpp4(f)] : f \in Flows4}
  /\ Hashed6 = {[flow |-> f, rust |-> Hash6(f), cpp |-> HashCpp6(f)] : f \in Flows6}

Hashed(f) == CHOOSE h \in IF Ipv6 THEN Hashed6 ELSE Hashed4 : h.flow = f

\* Both caches are keyed by words, and populate() gives every word an owner, in
\* both programs.  The fields of a flow have the widths they have in a frame.
ASSUME NfAssumption ==
  /\ Ipv6 \in BOOLEAN
  /\ OwnerCpp \in [Hashes -> Nat] /\ Word \subseteq Hashes
  /\ \A f \in Flows4 : f.src \in Word /\ f.dst \in Word
  /\ \A f \in Flows6 : f.addrs \in [1 .. 32 -> Byte]
  /\ \A f \in Flows4 \cup Flows6 :
       f.sport \in 0 .. Values[2] - 1 /\ f.dport \in 0 .. Values[2] - 1 /\ f.proto \in Byte

NfInit ==
  /\ Init /\ Cpp!Init
  /\ answer_cpp = answer
  /\ dst = Bk(answer) /\ dst_cpp = Bk(answer_cpp)
-----------------------------------------------------------------------------
\* pick(), then the destination is rewritten.
AppWritesHash(f) ==
  /\ LET h == Hashed(f).rust IN PickFill(h) \/ PickHit(h) \/ PickEvict(h)
  /\ dst' = Bk(Hashed(f).rust % NbBackends)
App(f) ==
  /\ LET h == Hashed(f).rust IN PickFill(h) \/ PickHit(h) \/ PickEvict(h)
  /\ dst' = Bk(answer')

NfApp(f) ==
  /\ LET h == Hashed(f).cpp IN Cpp!PickFill(h) \/ Cpp!PickHit(h) \/ Cpp!PickEvict(h)
  /\ dst_cpp' = Bk(answer_cpp')

Flows == IF Ipv6 THEN Flows6 ELSE Flows4

NfNext == \E f \in Flows : App(f) /\ NfApp(f)

NfSpec == NfInit /\ [][NfNext]_nfvars
-----------------------------------------------------------------------------
(***************************************************************************)
(* backend_picks_match_c_nf_app (main.rs:99), for every sequence of        *)
(* frames: the port sends a frame to the backend the C++ program sends it  *)
(* to, across hits, evictions and the different shapes of hash and cache.  *)
(***************************************************************************)
SameBackendAsCpp == dst = dst_cpp

\* The cache inside rte_fbk_hash implements the native one (module FbkCache).
ImplementsNative == Cpp!ImplementsNative
=============================================================================
