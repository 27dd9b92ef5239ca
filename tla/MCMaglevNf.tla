------------------------------ MODULE MCMaglevNf ------------------------------
(***************************************************************************)
(* MaglevNf with bytes of one bit, in both its builds, and the library     *)
(* function it hashes with called for other keys too, before the first     *)
(* frame: it keeps no state.  Two buckets of four slots; the flows have    *)
(* six hashes in the first one (five over IPv6), some in the other, and    *)
(* hash 0 is one of them.                                                  *)
(***************************************************************************)
EXTENDS MaglevNf, JhashCalls, SequencesExt

\* Owner and OwnerCpp of the IPv6 build.
CONSTANTS Owner6, OwnerCpp6

\* The lookup table of K slots, populated from the rows of the seeds; with 11
\* slots the owner of hash 0 is not 0, the value of a slot nobody wrote.
K == 11
R == INSTANCE MaglevRows WITH Word <- WordMax

Populated(From(_)) ==
  LET Take(table, b) ==
        LET row   == R!SteppedRow(From(b))
            first == CHOOSE j \in 0 .. K - 1 :
                       /\ row[j] \notin DOMAIN table
                       /\ \A i \in 0 .. j - 1 : row[i] \in DOMAIN table
        IN  table @@ (row[first] :> b)
      table == FoldLeft(Take, << >>, [n \in 1 .. K |-> (n - 1) % NbBackends])
  IN  [h \in Word |-> table[h % K]] @@ << >>

Lut    == Populated(Seed)
LutCpp == Populated(SeedCpp)

Seed6(b)    == SeedOf(Bk6(b))
SeedCpp6(b) == SeedOfCpp(Bk6(b))
Lut6    == Populated(Seed6)
LutCpp6 == Populated(SeedCpp6)

MCHashes   == Word
MCBuckets  == {0, 1}
MCBucket   == [h \in Word |-> h % 2]
\* Values that TLC computes once; behind a LET its statistics of a run do not
\* unfold how they come about.
MCOwner     == LET value == Lut IN value
MCOwnerCpp  == LET value == LutCpp IN value
MCOwner6    == LET value == Lut6 IN value
MCOwnerCpp6 == LET value == LutCpp6 IN value

AllFlows4 == [src : {1, 2, 7}, dst : {5, 12}, sport : {0, 3}, dport : {1, 2}, proto : Byte]
Address6 == {[p \in 1 .. 32 |-> IF p \in {q, 16, 32} THEN 1 ELSE 0] : q \in 1 .. 32}
AllFlows6 == [addrs : Address6, sport : {2}, dport : {1, 3}, proto : Byte]
\* One flow of each hash, and of hash 0 two.
OneEach(flows, HashOf(_), hashes) ==
  LET hashed == {<<f, HashOf(f)>> : f \in flows}
      of(h)  == {p[1] : p \in {q \in hashed : q[2] = h}}
  IN  UNION {{CHOOSE f \in of(h) : TRUE} : h \in {h \in hashes : of(h) # {}}}
      \cup (LET f == CHOOSE f \in of(0) : TRUE IN {CHOOSE g \in of(0) : g # f})
Four == OneEach(AllFlows4, Hash4, 0 .. 4 \cup {6, 8, 10})
Six  == OneEach(AllFlows6, Hash6, {0, 2, 3, 4, 6, 8})
MCFlows4 == LET value == Four IN value
MCFlows6 == LET value == Six IN value

\* The flows and their hashes.
HashedFour == {[flow |-> f, rust |-> Hash4(f), cpp |-> HashCpp4(f)] : f \in Four}
HashedSix  == {[flow |-> f, rust |-> Hash6(f), cpp |-> HashCpp6(f)] : f \in Six}
MCHashed4 == LET value == HashedFour IN value
MCHashed6 == LET value == HashedSix IN value

\* Short keys, and long ones of equal bytes but for one.
Lengths == {11, 12, 13, 24, 25}
Tried == UNION {[1 .. n -> Byte] : n \in 0 .. 4}
          \cup {[p \in 1 .. n |-> IF p = q THEN 1 - bit ELSE bit] : n \in Lengths, q \in 0 .. 25, bit \in Byte}
MCKeys  == Tried
MCSeeds == {0, 9}
-----------------------------------------------------------------------------
\* The IPv6 build: what it has of its own, and the same frames.
VARIABLES slots6, last6, asked6, answer6, t6, used6, asked_cpp6, answer_cpp6, dst6, dst_cpp6

Build6 ==
  INSTANCE MaglevNf WITH
    Ipv6 <- TRUE, Owner <- Owner6, OwnerCpp <- OwnerCpp6,
    slots <- slots6, last <- last6, asked <- asked6, answer <- answer6,
    t <- t6, used_entries <- used6, asked_cpp <- asked_cpp6, answer_cpp <- answer_cpp6,
    dst <- dst6, dst_cpp <- dst_cpp6

nfvars6 == <<slots6, last6, asked6, answer6, t6, used6, asked_cpp6, answer_cpp6, dst6, dst_cpp6>>

\* One build after the other has its frames: neither has seen any of the other.
Idle4 == asked = {} /\ answer = 0
Idle6 == asked6 = {} /\ answer6 = 0

MCInit == NfInit /\ Build6!NfInit /\ CallInit /\ (Idle4 \/ Idle6)
CallFirst == Idle4 /\ Idle6 /\ CallJhash /\ UNCHANGED <<nfvars, nfvars6>>
Frame4 == Idle6 /\ NfNext /\ CallReturns /\ UNCHANGED nfvars6
Frame6 == Idle4 /\ Build6!NfNext /\ CallReturns /\ UNCHANGED nfvars

MCNext == CallFirst \/ Frame4 \/ Frame6
MCSpec == MCInit /\ [][MCNext]_<<nfvars, nfvars6, call>>

(***************************************************************************)
(* backend_picks_match_c_nf_app (main.rs:99) in the IPv6 build: rows come  *)
(* from the sixteen bytes of an address, two rounds of jhash with a tail,  *)
(* and a flow is hashed by its addresses and the word behind them.         *)
(***************************************************************************)
SameBackendOverIpv6 == Build6!SameBackendAsCpp
=============================================================================
