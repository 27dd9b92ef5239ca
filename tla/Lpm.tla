---------------------------------- MODULE Lpm ----------------------------------
(***************************************************************************)
(* The IPv4 route table of rs/l3fwd/src/lpm.rs (DIR-24-8): a first-level   *)
(* table indexed by the upper address bits, whose slots hold a route or    *)
(* point to a group of second-level entries indexed by the lower bits.     *)
(***************************************************************************)
EXTENDS Integers, Sequences

CONSTANTS
  Hi, Lo,      \* values of the upper and of the lower address bits
  TopDepth,    \* depth of the deepest prefix the first level can hold
  Prefixes,    \* [depth, hi, lo]: the prefixes, with the bits they cover
  NextHops,
  GroupLimit   \* groups the 16-bit field of a first-level entry can name

SameBlock(p, q)  == p.hi = q.hi /\ p.lo = q.lo
Apart(p, q)      == p.hi \cap q.hi = {} \/ p.lo \cap q.lo = {}

ASSUME LpmAssumption ==
  /\ TopDepth \in Nat
  /\ GroupLimit \in Nat \ {0}
  /\ NextHops \subseteq Nat
  /\ Prefixes \subseteq [depth : Nat, hi : SUBSET Hi, lo : SUBSET Lo]
  /\ \A p \in Prefixes :
       /\ p.depth <= TopDepth => p.lo = Lo
       /\ p.depth > TopDepth => \E h \in Hi : p.hi = {h}
  /\ \A p, q \in Prefixes : p.depth = q.depth => SameBlock(p, q) \/ Apart(p, q)

NoRoute == -1

VARIABLES
  tbl24,    \* first level: an entry for every value of the upper bits
  tbl8,     \* the second-level groups, group g at index g + 1
  routes    \* history: the next hop every prefix was last added with

vars == <<tbl24, tbl8, routes>>

Blank            == [valid |-> FALSE, ext |-> FALSE, depth |-> 0, value |-> 0]
Entry(depth, nh) == [valid |-> TRUE, ext |-> FALSE, depth |-> depth, value |-> nh]
Pointer(group)   == [valid |-> TRUE, ext |-> TRUE, depth |-> 0, value |-> group]

Init ==
  /\ tbl24 = [h \in Hi |-> Blank]
  /\ tbl8 = << >>
  /\ routes = [p \in Prefixes |-> NoRoute]
-----------------------------------------------------------------------------
\* Whether an entry that holds a route gives way to one of this depth.
YieldsToDeeper(e, depth) == ~e.valid \/ e.depth < depth
Yields(e, depth) == ~e.valid \/ e.depth <= depth

Overlay(e, p, nh) == IF Yields(e, p.depth) THEN Entry(p.depth, nh) ELSE e

AddShallow(p, nh) ==
  /\ p.depth <= TopDepth
  /\ tbl24' = [h \in Hi |-> IF h \in p.hi /\ ~tbl24[h].ext
                            THEN Overlay(tbl24[h], p, nh) ELSE tbl24[h]]
  /\ tbl8' = [n \in DOMAIN tbl8 |->
               IF \E h \in p.hi : tbl24[h].ext /\ tbl24[h].value + 1 = n
               THEN [l \in Lo |-> Overlay(tbl8[n][l], p, nh)] ELSE tbl8[n]]

\* The slot becomes a pointer to a group that inherits its route.
Inherit(h) == [l \in Lo |-> tbl24[h]]
LastGroup == IF tbl8 = << >> THEN 0 ELSE Len(tbl8) - 1
NewGroup == Len(tbl8) % GroupLimit

\* `groups` after the deep entries of group g are written.
WriteDeep(groups, g, p, nh) ==
  [groups EXCEPT ![g + 1] =
     [l \in Lo |-> IF l \in p.lo THEN Overlay(@[l], p, nh) ELSE @[l]]]

AddDeep(p, nh) ==
  /\ p.depth > TopDepth
  /\ \E h \in p.hi :
       \/ /\ tbl24[h].ext
          /\ tbl8' = WriteDeep(tbl8, tbl24[h].value, p, nh)
          /\ UNCHANGED tbl24
       \/ /\ ~tbl24[h].ext
          /\ tbl8' = WriteDeep(Append(tbl8, Inherit(h)), NewGroup, p, nh)
          /\ tbl24' = [tbl24 EXCEPT ![h] = Pointer(NewGroup)]

\* add(net, depth, nh)
Add(p, nh) ==
  /\ AddShallow(p, nh) \/ AddDeep(p, nh)
  /\ routes' = [routes EXCEPT ![p] = nh]

Next == \E p \in Prefixes, nh \in NextHops : Add(p, nh)

Spec == Init /\ [][Next]_vars
-----------------------------------------------------------------------------
\* The entry an address ends at.
Found(h, l) == IF tbl24[h].ext THEN tbl8[tbl24[h].value + 1][l] ELSE tbl24[h]

\* lookup(ip)
Lookup(h, l) == IF Found(h, l).valid THEN Found(h, l).value ELSE NoRoute

Covering(h, l) == {p \in Prefixes : routes[p] # NoRoute /\ h \in p.hi /\ l \in p.lo}
Deepest(S)     == {p \in S : \A q \in S : q.depth <= p.depth}

(***************************************************************************)
(* "Deeper prefixes win regardless of insert order" (lpm.rs:43), and of    *)
(* two adds of one prefix the later one: a lookup finds the next hop of    *)
(* the longest prefix added that covers the address, or nothing.           *)
(***************************************************************************)
LongestPrefixWins ==
  \A h \in Hi, l \in Lo :
    /\ Covering(h, l) = {} => Lookup(h, l) = NoRoute
    /\ \A p \in Deepest(Covering(h, l)) : Lookup(h, l) = routes[p]

(***************************************************************************)
(* No two first-level slots point to the same group, and no group points   *)
(* any further.  One slot's deep routes never show under another.          *)
(***************************************************************************)
GroupsAreDisjoint ==
  /\ \A h, k \in Hi :
       tbl24[h].ext /\ tbl24[k].ext /\ tbl24[h].value = tbl24[k].value => h = k
  /\ \A n \in DOMAIN tbl8, l \in Lo : ~tbl8[n][l].ext
=============================================================================
