--------------------------------- MODULE Lpm6 ---------------------------------
(***************************************************************************)
(* The IPv6 route table of rs/l3fwd/src/lpm.rs: the routes in a vector     *)
(* kept deepest first, which a lookup scans for the first that matches.    *)
(* Addresses are sequences of bytes; the code has ByteBits = 8, Bytes = 16.*)
(***************************************************************************)
EXTENDS Naturals, Sequences, SequencesExt

CONSTANTS
  ByteBits, Bytes,
  NextHops,
  Nets,        \* the networks added: addresses, their low bits included
  MaxRoutes    \* bound: adds of a behaviour

Byte    == 0 .. 2^ByteBits - 1
Address == [1 .. Bytes -> Byte]
Depths  == 0 .. ByteBits * Bytes
Routes  == [net : Nets, depth : Depths, nh : NextHops]

VARIABLES
  routes,   \* the vector
  added     \* history: the routes in the order of their adds

vars == <<routes, added>>

Init == routes = << >> /\ added = << >>
-----------------------------------------------------------------------------
\* sort_by() is stable: the route pushed last goes behind those of its depth.
DeeperFirst(r, n) ==
  /\ \A i \in 1 .. n - 1 : routes[i].depth > r.depth
  /\ \A i \in n .. Len(routes) : routes[i].depth <= r.depth
Sorted(r, n) ==
  /\ \A i \in 1 .. n - 1 : routes[i].depth >= r.depth
  /\ \A i \in n .. Len(routes) : routes[i].depth < r.depth

\* add(net, depth, nh): net keeps the bits below its depth.
Add(r) ==
  /\ Len(routes) < MaxRoutes
  /\ \E n \in 1 .. Len(routes) + 1 :
       Sorted(r, n) /\ routes' = InsertAt(routes, n, r)
  /\ added' = Append(added, r)

Next == \E r \in Routes : Add(r)

Spec == Init /\ [][Next]_vars

\* Whole bytes first, then the upper bits of the byte the prefix ends in.
Matches(r, addr) ==
  LET full == r.depth \div ByteBits
      rem  == r.depth % ByteBits
      top(byte) == byte \div 2^(ByteBits - rem)
  IN  /\ \A i \in 1 .. full : addr[i] = r.net[i]
      /\ rem # 0 => top(addr[full + 1]) = top(r.net[full + 1])

\* lookup(addr): the next hop of the first route that matches, or none.
FirstHit(addr) == {i \in DOMAIN routes : /\ Matches(routes[i], addr)
                                         /\ \A k \in 1 .. i - 1 : ~Matches(routes[k], addr)}
Lookup(addr) == {routes[i].nh : i \in FirstHit(addr)}
-----------------------------------------------------------------------------
\* An address as one number, whose upper bits are the prefix.
Number(addr) ==
  LET n[i \in 0 .. Bytes] == IF i = 0 THEN 0 ELSE n[i - 1] * 2^ByteBits + addr[i]
  IN  n[Bytes]
Prefix(addr, depth) == Number(addr) \div 2^(ByteBits * Bytes - depth)
Covers(r, addr) == Prefix(r.net, r.depth) = Prefix(addr, r.depth)

(***************************************************************************)
(* What a lookup promises of the routes added: the next hop of the longest *)
(* prefix that covers the address, of several such routes that of the      *)
(* first one added; none if no route covers it.                            *)
(***************************************************************************)
Best(addr) ==
  LET covering == {n \in DOMAIN added : Covers(added[n], addr)}
      longest  == {n \in covering : \A m \in covering : added[m].depth <= added[n].depth}
  IN  {added[n].nh : n \in {k \in longest : \A m \in longest : k <= m}}
=============================================================================
