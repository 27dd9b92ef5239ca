------------------------------ MODULE LpmProofs ------------------------------
(***************************************************************************)
(* Both route tables of l3fwd find the longest prefix, for every address   *)
(* width, every split of it in two levels and every sequence of adds, the  *)
(* IPv4 one as long as its groups can be numbered; and the port forwards a *)
(* frame to the next hop the C++ application forwards it to.               *)
(*                                                                         *)
(* LongestPrefixWins is not inductive: a later add compares depths that no *)
(* lookup returns, and a slot that becomes a pointer hands its entry to a  *)
(* whole group.  What is inductive is that the entry every address ends at *)
(* holds both the depth and the next hop of the longest prefix (Right),    *)
(* together with GroupsAreDisjoint, by which writing one slot's group      *)
(* changes no other slot.  Of the IPv6 vector it is that its order is the  *)
(* order of the adds within a depth, and deeper first across depths        *)
(* (Ordered6), and of the test a scan makes that it compares prefixes      *)
(* (MatchesIsCovers).                                                      *)
(***************************************************************************)
EXTENDS L3fwd, SumProofs, SequenceTheorems

Entries == [valid : BOOLEAN, ext : BOOLEAN, depth : Nat, value : Nat]

TypeOK ==
  /\ tbl24 \in [Hi -> Entries]
  /\ tbl8 \in Seq([Lo -> Entries])
  /\ routes \in [Prefixes -> NextHops \cup {NoRoute}]

\* A pointer names a group that exists: add() and lookup() index tbl8 with it.
PointersInRange == \A h \in Hi : tbl24[h].ext => tbl24[h].value + 1 \in DOMAIN tbl8

\* The routes r cover <<h, l>>; entry e holds the longest of them.
Cover(r, h, l) == {p \in Prefixes : r[p] # NoRoute /\ h \in p.hi /\ l \in p.lo}
Right(e, r, h, l) ==
  /\ ~e.ext
  /\ ~e.valid => Cover(r, h, l) = {}
  /\ e.valid => \E p \in Deepest(Cover(r, h, l)) : e.depth = p.depth /\ e.value = r[p]

IInv ==
  /\ TypeOK
  /\ PointersInRange
  /\ GroupsAreDisjoint
  /\ \A h \in Hi, l \in Lo : Right(Found(h, l), routes, h, l)

\* The groups the 16-bit field can tell apart.
Numbered == Len(tbl8) <= GroupLimit
-----------------------------------------------------------------------------
LEMMA PrefixFields ==
  ASSUME NEW p \in Prefixes
  PROVE  p.depth \in Nat /\ p.hi \subseteq Hi /\ p.lo \subseteq Lo
BY LpmAssumption

\* Two prefixes of one depth that cover one address are the same prefix.
LEMMA OnePerDepth ==
  ASSUME NEW p \in Prefixes, NEW q \in Prefixes, p.depth = q.depth,
         NEW h \in p.hi \cap q.hi, NEW l \in p.lo \cap q.lo
  PROVE  p = q
<1>1. SameBlock(p, q)
  BY LpmAssumption DEF Apart
<1>2. p \in [depth : Nat, hi : SUBSET Hi, lo : SUBSET Lo]
  BY LpmAssumption
<1>3. q \in [depth : Nat, hi : SUBSET Hi, lo : SUBSET Lo]
  BY LpmAssumption
<1> QED  BY <1>1, <1>2, <1>3 DEF SameBlock

LEMMA OverlayType ==
  ASSUME NEW e \in Entries, NEW p \in Prefixes, NEW nh \in NextHops
  PROVE  /\ Overlay(e, p, nh) \in Entries
         /\ ~e.ext => ~Overlay(e, p, nh).ext
BY PrefixFields, LpmAssumption DEF Overlay, Entry, Entries

LEMMA DeepestHas ==
  ASSUME NEW S, NEW p \in S, \A q \in S : q.depth <= p.depth
  PROVE  p \in Deepest(S)
BY Zenon DEF Deepest

\* An add overlays the entries it covers rightly.
LEMMA OverlayIsRight ==
  ASSUME NEW e \in Entries, NEW p \in Prefixes, NEW nh \in NextHops,
         NEW r \in [Prefixes -> NextHops \cup {NoRoute}],
         NEW h \in p.hi, NEW l \in p.lo,
         Right(e, r, h, l)
  PROVE  Right(Overlay(e, p, nh), [r EXCEPT ![p] = nh], h, l)
<1> DEFINE s == [r EXCEPT ![p] = nh]
<1>1. nh # NoRoute /\ s[p] = nh /\ \A q \in Prefixes : q # p => s[q] = r[q]
  BY LpmAssumption DEF NoRoute
<1>2. Cover(s, h, l) = Cover(r, h, l) \cup {p}
  BY <1>1 DEF Cover
<1>3. \A q \in Cover(r, h, l) \cup {p} : q \in Prefixes /\ q.depth \in Nat /\ h \in q.hi /\ l \in q.lo
  BY PrefixFields DEF Cover
<1>4. CASE ~e.valid
  <2>0. Cover(s, h, l) = {p}
    BY <1>2, <1>4 DEF Right
  <2>1. p \in Deepest(Cover(s, h, l))
    <3>1. p.depth <= p.depth
      BY <1>3
    <3> QED  BY <2>0, <3>1, DeepestHas, Zenon
  <2>2. Overlay(e, p, nh) = Entry(p.depth, nh)
    BY <1>4 DEF Overlay, Yields
  <2> QED  BY <1>1, <2>0, <2>1, <2>2 DEF Right, Entry
<1>5. CASE e.valid
  <2>1. PICK q \in Deepest(Cover(r, h, l)) : e.depth = q.depth /\ e.value = r[q]
    BY <1>5 DEF Right
  <2>2. q \in Cover(r, h, l) /\ \A k \in Cover(r, h, l) : k.depth <= q.depth
    BY <2>1 DEF Deepest
  <2>3. CASE q.depth <= p.depth
    <3>1. Overlay(e, p, nh) = Entry(p.depth, nh)
      BY <2>1, <2>3 DEF Overlay, Yields
    <3>2. p \in Deepest(Cover(s, h, l))
      <4>1. p.depth <= p.depth /\ \A k \in Cover(r, h, l) : k.depth <= p.depth
        BY <1>3, <2>2, <2>3
      <4> QED  BY <1>2, <4>1, DeepestHas, Zenon
    <3> QED  BY <1>1, <3>1, <3>2 DEF Right, Entry
  <2>4. CASE p.depth < q.depth
    <3>1. Overlay(e, p, nh) = e
      BY <1>3, <1>5, <2>1, <2>2, <2>4 DEF Overlay, Yields
    <3>2. q \in Deepest(Cover(s, h, l))
      <4>1. p.depth <= q.depth
        BY <1>3, <2>2, <2>4
      <4> QED  BY <1>2, <2>2, <4>1, DeepestHas, Zenon
    <3>3. q # p /\ s[q] = r[q]
      BY <1>1, <1>3, <2>2, <2>4
    <3> QED  BY <1>5, <2>1, <3>1, <3>2, <3>3 DEF Right
  <2> QED  BY <1>3, <2>2, <2>3, <2>4
<1> QED  BY <1>4, <1>5

\* The entries an add does not cover stay right.
LEMMA OthersStayRight ==
  ASSUME NEW e \in Entries, NEW p \in Prefixes, NEW nh \in NextHops,
         NEW r \in [Prefixes -> NextHops \cup {NoRoute}],
         NEW h \in Hi, NEW l \in Lo,
         ~(h \in p.hi /\ l \in p.lo), Right(e, r, h, l)
  PROVE  Right(e, [r EXCEPT ![p] = nh], h, l)
<1> DEFINE s == [r EXCEPT ![p] = nh]
<1>1. \A q \in Prefixes : q # p => s[q] = r[q]
  OBVIOUS
<1>2. Cover(s, h, l) = Cover(r, h, l) /\ p \notin Cover(r, h, l)
  BY <1>1 DEF Cover
<1>3. \A q \in Cover(r, h, l) : s[q] = r[q]
  BY <1>1, <1>2 DEF Cover
<1> QED  BY <1>2, <1>3 DEF Right, Deepest
-----------------------------------------------------------------------------
\* What an add leaves of the two levels, and where every address ends then.
Written(p, nh) ==
  /\ tbl24' \in [Hi -> Entries] /\ tbl8' \in Seq([Lo -> Entries])
  /\ PointersInRange'
  /\ GroupsAreDisjoint'
  /\ \A h \in Hi, l \in Lo :
       Found(h, l)' = IF h \in p.hi /\ l \in p.lo
                      THEN Overlay(Found(h, l), p, nh) ELSE Found(h, l)

LEMMA ShallowWrites ==
  ASSUME TypeOK, PointersInRange, GroupsAreDisjoint,
         NEW p \in Prefixes, NEW nh \in NextHops, AddShallow(p, nh)
  PROVE  Written(p, nh)
<1> DEFINE under(n) == \E h \in p.hi : tbl24[h].ext /\ tbl24[h].value + 1 = n
<1>1. p.lo = Lo /\ p.hi \subseteq Hi
  BY PrefixFields, LpmAssumption DEF AddShallow
<1>2. /\ tbl24' \in [Hi -> Entries]
      /\ \A h \in Hi : tbl24[h].ext => tbl24'[h] = tbl24[h]
      /\ \A h \in Hi : ~tbl24[h].ext => tbl24'[h] = IF h \in p.hi THEN Overlay(tbl24[h], p, nh) ELSE tbl24[h]
      /\ \A h \in Hi : tbl24'[h].ext = tbl24[h].ext
  BY <1>1, OverlayType DEF AddShallow, TypeOK, Entries
<1>3. /\ tbl8' \in Seq([Lo -> Entries]) /\ DOMAIN tbl8' = DOMAIN tbl8
      /\ \A n \in DOMAIN tbl8, l \in Lo :
           tbl8'[n][l] = IF under(n) THEN Overlay(tbl8[n][l], p, nh) ELSE tbl8[n][l]
  <2>1. tbl8' = [n \in DOMAIN tbl8 |-> IF under(n) THEN [l \in Lo |-> Overlay(tbl8[n][l], p, nh)] ELSE tbl8[n]]
    BY DEF AddShallow
  <2>2. \A n \in DOMAIN tbl8 : tbl8[n] \in [Lo -> Entries]
    BY DEF TypeOK
  <2> HIDE DEF under
  <2>3. \A n \in DOMAIN tbl8 : tbl8'[n] \in [Lo -> Entries]
    BY <2>1, <2>2, OverlayType
  <2>4. DOMAIN tbl8' = DOMAIN tbl8 /\ DOMAIN tbl8 = 1 .. Len(tbl8) /\ Len(tbl8) \in Nat
    BY <2>1 DEF TypeOK
  <2>5. tbl8' = [n \in 1 .. Len(tbl8) |-> tbl8'[n]]
    BY <2>1, <2>4
  <2>6. tbl8' \in Seq([Lo -> Entries])
    BY <2>3, <2>4, <2>5
  <2>7. \A n \in DOMAIN tbl8, l \in Lo :
          tbl8'[n][l] = IF under(n) THEN Overlay(tbl8[n][l], p, nh) ELSE tbl8[n][l]
    BY <2>1
  <2> QED  BY <2>4, <2>6, <2>7
<1>4. PointersInRange'
  BY <1>2, <1>3 DEF PointersInRange
<1>5. GroupsAreDisjoint'
  <2>1. \A n \in DOMAIN tbl8, l \in Lo : tbl8[n][l] \in Entries /\ ~tbl8[n][l].ext
    BY DEF GroupsAreDisjoint, TypeOK
  <2>2. \A n \in DOMAIN tbl8', l \in Lo : ~tbl8'[n][l].ext
    BY <1>3, <2>1, OverlayType
  <2>3. \A h, k \in Hi :
          tbl24'[h].ext /\ tbl24'[k].ext /\ tbl24'[h].value = tbl24'[k].value => h = k
    BY <1>2 DEF GroupsAreDisjoint
  <2> QED  BY <2>2, <2>3 DEF GroupsAreDisjoint
<1>6. ASSUME NEW h \in Hi, NEW l \in Lo
      PROVE  Found(h, l)' = IF h \in p.hi /\ l \in p.lo
                            THEN Overlay(Found(h, l), p, nh) ELSE Found(h, l)
  <2>1. CASE ~tbl24[h].ext
    BY <1>1, <1>2, <2>1 DEF Found
  <2>2. CASE tbl24[h].ext
    <3>1. tbl24'[h] = tbl24[h] /\ tbl24[h].value + 1 \in DOMAIN tbl8
      BY <1>2, <2>2 DEF PointersInRange
    <3>2. under(tbl24[h].value + 1) <=> h \in p.hi
      <4>1. \A k \in Hi : tbl24[k].value \in Nat
        BY DEF TypeOK, Entries
      <4> QED  BY <1>1, <2>2, <4>1 DEF GroupsAreDisjoint
    <3> QED  BY <1>1, <1>3, <2>2, <3>1, <3>2 DEF Found
  <2> QED  BY <2>1, <2>2
<1> QED  BY <1>2, <1>3, <1>4, <1>5, <1>6 DEF Written

LEMMA DeepWrites ==
  ASSUME TypeOK, PointersInRange, GroupsAreDisjoint, Numbered',
         NEW p \in Prefixes, NEW nh \in NextHops, AddDeep(p, nh)
  PROVE  Written(p, nh)
<1>1. PICK k \in Hi : p.hi = {k}
  BY LpmAssumption DEF AddDeep
<1>2. p.lo \subseteq Lo
  BY PrefixFields
<1>3. CASE tbl24[k].ext
  <2> DEFINE n == tbl24[k].value + 1
  <2>1. n \in DOMAIN tbl8 /\ tbl8[n] \in [Lo -> Entries]
    BY <1>3 DEF PointersInRange, TypeOK
  <2>2. tbl24' = tbl24 /\ tbl8' = WriteDeep(tbl8, tbl24[k].value, p, nh)
    BY <1>1, <1>3 DEF AddDeep
  <2>3. /\ tbl8' \in Seq([Lo -> Entries]) /\ DOMAIN tbl8' = DOMAIN tbl8
        /\ \A m \in DOMAIN tbl8 : m # n => tbl8'[m] = tbl8[m]
        /\ \A l \in Lo : tbl8'[n][l] = IF l \in p.lo THEN Overlay(tbl8[n][l], p, nh) ELSE tbl8[n][l]
    BY <2>1, <2>2, OverlayType DEF WriteDeep, TypeOK
  <2>4. PointersInRange'
    BY <2>2, <2>3 DEF PointersInRange
  <2>5. GroupsAreDisjoint'
    <3>1. \A m \in DOMAIN tbl8, l \in Lo : tbl8[m][l] \in Entries /\ ~tbl8[m][l].ext
      BY DEF GroupsAreDisjoint, TypeOK
    <3>2. ASSUME NEW m \in DOMAIN tbl8, NEW l \in Lo
          PROVE  ~tbl8'[m][l].ext
      <4>1. tbl8[m][l] \in Entries /\ ~tbl8[m][l].ext
        BY <3>1
      <4>2. ~Overlay(tbl8[m][l], p, nh).ext
        BY <4>1, OverlayType
      <4>3. tbl8'[m][l] = tbl8[m][l] \/ tbl8'[m][l] = Overlay(tbl8[m][l], p, nh)
        BY <2>1, <2>3
      <4> QED  BY <4>1, <4>2, <4>3
    <3>3. \A m \in DOMAIN tbl8', l \in Lo : ~tbl8'[m][l].ext
      BY <2>3, <3>2
    <3> QED  BY <2>2, <3>3 DEF GroupsAreDisjoint
  <2>6. ASSUME NEW h \in Hi, NEW l \in Lo
        PROVE  Found(h, l)' = IF h \in p.hi /\ l \in p.lo
                              THEN Overlay(Found(h, l), p, nh) ELSE Found(h, l)
    <3>1. CASE h = k
      BY <1>1, <1>3, <2>2, <2>3, <3>1 DEF Found
    <3>2. CASE h # k
      <4>1. ASSUME tbl24[h].ext
            PROVE  tbl24[h].value + 1 \in DOMAIN tbl8 /\ tbl24[h].value + 1 # n
        <5>1. tbl24[h].value \in Nat /\ tbl24[k].value \in Nat
          BY DEF TypeOK, Entries
        <5> QED  BY <1>3, <3>2, <4>1, <5>1 DEF PointersInRange, GroupsAreDisjoint
      <4> QED  BY <1>1, <2>2, <2>3, <3>2, <4>1 DEF Found
    <3> QED  BY <3>1, <3>2
  <2> QED  BY <2>2, <2>3, <2>4, <2>5, <2>6 DEF Written, TypeOK
<1>4. CASE ~tbl24[k].ext
  <2> DEFINE n == Len(tbl8) + 1
             grown == Append(tbl8, Inherit(k))
  <2>1. /\ grown \in Seq([Lo -> Entries]) /\ Len(grown) = n /\ DOMAIN grown = 1 .. n
        /\ \A m \in DOMAIN tbl8 : grown[m] = tbl8[m] /\ m \in Nat /\ m <= Len(tbl8)
        /\ grown[n] = Inherit(k) /\ Len(tbl8) \in Nat
    BY DEF TypeOK, Inherit
  <2>2. /\ tbl8' = WriteDeep(grown, NewGroup, p, nh)
        /\ tbl24' = [tbl24 EXCEPT ![k] = Pointer(NewGroup)]
    BY <1>1, <1>4 DEF AddDeep
  <2>3. NewGroup = Len(tbl8)
    <3>1. NewGroup \in Nat /\ GroupLimit \in Nat \ {0}
      BY <2>1, LpmAssumption DEF NewGroup
    <3>2. Len(tbl8') = n
      BY <2>1, <2>2 DEF WriteDeep
    <3>3. Len(tbl8) < GroupLimit
      BY <2>1, <3>1, <3>2 DEF Numbered
    <3>4. \A g \in Nat, limit \in Nat \ {0} : g < limit => g % limit = g
      OBVIOUS
    <3> QED  BY <2>1, <3>1, <3>3, <3>4 DEF NewGroup
  <2>4. /\ tbl8' \in Seq([Lo -> Entries]) /\ DOMAIN tbl8' = 1 .. n
        /\ \A m \in DOMAIN tbl8 : tbl8'[m] = tbl8[m]
        /\ \A l \in Lo : tbl8'[n][l] = IF l \in p.lo THEN Overlay(tbl24[k], p, nh) ELSE tbl24[k]
    <3>1. tbl8' = [grown EXCEPT ![n] = [l \in Lo |-> IF l \in p.lo THEN Overlay(tbl24[k], p, nh) ELSE tbl24[k]]]
      BY <2>1, <2>2, <2>3 DEF WriteDeep, Inherit
    <3>2. tbl24[k] \in Entries
      BY DEF TypeOK
    <3>3. [l \in Lo |-> IF l \in p.lo THEN Overlay(tbl24[k], p, nh) ELSE tbl24[k]] \in [Lo -> Entries]
      BY <3>2, OverlayType
    <3> HIDE DEF grown
    <3>4. tbl8' \in Seq([Lo -> Entries]) /\ DOMAIN tbl8' = 1 .. n
      BY <2>1, <3>1, <3>3
    <3>5. \A m \in DOMAIN tbl8 : tbl8'[m] = tbl8[m]
      BY <2>1, <3>1
    <3>6. \A l \in Lo : tbl8'[n][l] = IF l \in p.lo THEN Overlay(tbl24[k], p, nh) ELSE tbl24[k]
      BY <2>1, <3>1
    <3> QED  BY <3>4, <3>5, <3>6
  <2>5. /\ tbl24' \in [Hi -> Entries]
        /\ tbl24'[k].ext /\ tbl24'[k].value = Len(tbl8)
        /\ \A h \in Hi : h # k => tbl24'[h] = tbl24[h]
    BY <2>1, <2>2, <2>3 DEF TypeOK, Pointer, Entries
  <2>6. \A h \in Hi : /\ tbl24[h].value \in Nat
                     /\ tbl24[h].ext => tbl24[h].value + 1 \in DOMAIN tbl8 /\ tbl24[h].value < Len(tbl8)
    BY <2>1 DEF PointersInRange, TypeOK, Entries
  <2>7. PointersInRange'
    BY <2>1, <2>4, <2>5, <2>6 DEF PointersInRange
  <2>8. GroupsAreDisjoint'
    <3>1. \A h, m \in Hi :
            tbl24'[h].ext /\ tbl24'[m].ext /\ tbl24'[h].value = tbl24'[m].value => h = m
      BY <2>1, <2>5, <2>6 DEF GroupsAreDisjoint
    <3>2. tbl24[k] \in Entries /\ ~tbl24[k].ext
      BY <1>4 DEF TypeOK
    <3>3. \A m \in DOMAIN tbl8', l \in Lo : ~tbl8'[m][l].ext
      <4>1. DOMAIN tbl8' = DOMAIN tbl8 \cup {n}
        BY <2>1, <2>4 DEF TypeOK
      <4>2. \A l \in Lo : ~tbl8'[n][l].ext
        BY <2>4, <3>2, OverlayType
      <4> QED  BY <2>4, <4>1, <4>2 DEF GroupsAreDisjoint
    <3> QED  BY <3>1, <3>3 DEF GroupsAreDisjoint
  <2>9. ASSUME NEW h \in Hi, NEW l \in Lo
        PROVE  Found(h, l)' = IF h \in p.hi /\ l \in p.lo
                              THEN Overlay(Found(h, l), p, nh) ELSE Found(h, l)
    <3>1. CASE h = k
      BY <1>1, <1>4, <2>4, <2>5, <3>1 DEF Found
    <3>2. CASE h # k
      <4>1. tbl24'[h] = tbl24[h] /\ h \notin p.hi
        BY <1>1, <2>5, <3>2
      <4>2. tbl24[h].ext => tbl8'[tbl24[h].value + 1][l] = tbl8[tbl24[h].value + 1][l]
        <5> SUFFICES ASSUME tbl24[h].ext
                     PROVE  tbl8'[tbl24[h].value + 1] = tbl8[tbl24[h].value + 1]
          OBVIOUS
        <5>1. tbl24[h].value + 1 \in DOMAIN tbl8
          BY DEF PointersInRange
        <5> QED  BY <2>4, <5>1
      <4> QED  BY <4>1, <4>2 DEF Found
    <3> QED  BY <3>1, <3>2
  <2> QED  BY <2>4, <2>5, <2>7, <2>8, <2>9 DEF Written
<1> QED  BY <1>3, <1>4
-----------------------------------------------------------------------------
LEMMA FoundType ==
  ASSUME TypeOK, PointersInRange, NEW h \in Hi, NEW l \in Lo
  PROVE  Found(h, l) \in Entries
BY DEF Found, TypeOK, PointersInRange

LEMMA InductiveInvariant ==
  /\ Init => IInv
  /\ Numbered' /\ IInv /\ [Next]_vars => IInv'
<1>1. Init => IInv
  <2> SUFFICES ASSUME Init PROVE IInv
    OBVIOUS
  <2>1. TypeOK /\ PointersInRange /\ GroupsAreDisjoint
    BY DEF Init, TypeOK, PointersInRange, GroupsAreDisjoint, Blank, Entries
  <2>2. ASSUME NEW h \in Hi, NEW l \in Lo
        PROVE  Right(Found(h, l), routes, h, l)
    BY DEF Init, Blank, Found, Right, Cover
  <2> QED  BY <2>1, <2>2 DEF IInv
<1>2. ASSUME Numbered', IInv, [Next]_vars
      PROVE  IInv'
  <2>1. ASSUME NEW p \in Prefixes, NEW nh \in NextHops, Add(p, nh)
        PROVE  IInv'
    <3>1. TypeOK /\ PointersInRange /\ GroupsAreDisjoint
      BY <1>2 DEF IInv
    <3>2. Written(p, nh)
      BY <1>2, <2>1, <3>1, ShallowWrites, DeepWrites DEF Add
    <3>3. routes' = [routes EXCEPT ![p] = nh] /\ routes' \in [Prefixes -> NextHops \cup {NoRoute}]
      BY <2>1, <3>1 DEF Add, TypeOK
    <3>4. ASSUME NEW h \in Hi, NEW l \in Lo
          PROVE  Right(Found(h, l)', routes', h, l)
      <4>1. Found(h, l) \in Entries /\ Right(Found(h, l), routes, h, l)
            /\ routes \in [Prefixes -> NextHops \cup {NoRoute}]
        BY <1>2, <3>1, FoundType DEF IInv, TypeOK
      <4>2. CASE h \in p.hi /\ l \in p.lo
        <5>1. Found(h, l)' = Overlay(Found(h, l), p, nh)
          BY <3>2, <4>2 DEF Written
        <5>2. Right(Overlay(Found(h, l), p, nh), [routes EXCEPT ![p] = nh], h, l)
          BY <4>1, <4>2, OverlayIsRight
        <5> QED  BY <3>3, <5>1, <5>2
      <4>3. CASE ~(h \in p.hi /\ l \in p.lo)
        <5>1. Found(h, l)' = Found(h, l)
          BY <3>2, <4>3 DEF Written
        <5>2. Right(Found(h, l), [routes EXCEPT ![p] = nh], h, l)
          BY <4>1, <4>3, OthersStayRight
        <5> QED  BY <3>3, <5>1, <5>2
      <4> QED  BY <4>2, <4>3
    <3> QED  BY <3>2, <3>3, <3>4 DEF IInv, TypeOK, Written
  <2>2. ASSUME UNCHANGED vars
        PROVE  IInv'
    BY <1>2, <2>2 DEF IInv, TypeOK, PointersInRange, GroupsAreDisjoint, Found, vars
  <2> QED  BY <1>2, <2>1, <2>2 DEF Next
<1> QED  BY <1>1, <1>2

\* Entries and groups keep their types even beyond GroupLimit, and groups are
\* never given back.
LEMMA TypesStay ==
  ASSUME TypeOK, [Next]_vars
  PROVE  TypeOK' /\ Len(tbl8) <= Len(tbl8')
<1>1. ASSUME NEW p \in Prefixes, NEW nh \in NextHops, Add(p, nh)
      PROVE  TypeOK' /\ Len(tbl8) <= Len(tbl8')
  <2>1. routes' \in [Prefixes -> NextHops \cup {NoRoute}]
    BY <1>1 DEF Add, TypeOK
  <2>2. CASE AddShallow(p, nh)
    <3>1. tbl24' \in [Hi -> Entries]
      BY <2>2, OverlayType DEF AddShallow, TypeOK
    <3>2. tbl8' \in Seq([Lo -> Entries]) /\ DOMAIN tbl8' = DOMAIN tbl8
      <4>1. \A n \in DOMAIN tbl8 : tbl8[n] \in [Lo -> Entries]
        BY DEF TypeOK
      <4>2. /\ DOMAIN tbl8' = DOMAIN tbl8
            /\ \A n \in DOMAIN tbl8 : \/ tbl8'[n] = tbl8[n]
                                      \/ tbl8'[n] = [l \in Lo |-> Overlay(tbl8[n][l], p, nh)]
            /\ tbl8' = [n \in DOMAIN tbl8 |-> tbl8'[n]]
        BY <2>2 DEF AddShallow
      <4>3. \A n \in DOMAIN tbl8 : tbl8'[n] \in [Lo -> Entries]
        BY <4>1, <4>2, OverlayType
      <4>4. DOMAIN tbl8 = 1 .. Len(tbl8) /\ Len(tbl8) \in Nat
        BY DEF TypeOK
      <4> QED  BY <4>2, <4>3, <4>4
    <3>3. Len(tbl8') = Len(tbl8) /\ Len(tbl8) \in Nat
      BY <3>2 DEF TypeOK
    <3> QED  BY <2>1, <3>1, <3>2, <3>3 DEF TypeOK
  <2>3. CASE AddDeep(p, nh)
    <3>1. PICK k \in Hi :
            \/ tbl8' = WriteDeep(tbl8, tbl24[k].value, p, nh) /\ tbl24' = tbl24
            \/ /\ tbl8' = WriteDeep(Append(tbl8, Inherit(k)), NewGroup, p, nh)
               /\ tbl24' = [tbl24 EXCEPT ![k] = Pointer(NewGroup)]
      BY <2>3, PrefixFields DEF AddDeep
    <3>2. ASSUME NEW groups \in Seq([Lo -> Entries]), NEW g
          PROVE  /\ WriteDeep(groups, g, p, nh) \in Seq([Lo -> Entries])
                 /\ Len(WriteDeep(groups, g, p, nh)) = Len(groups)
      <4>1. CASE g + 1 \in DOMAIN groups
        <5>1. [l \in Lo |-> IF l \in p.lo THEN Overlay(groups[g + 1][l], p, nh) ELSE groups[g + 1][l]]
                \in [Lo -> Entries]
          BY <4>1, OverlayType
        <5> QED  BY <4>1, <5>1 DEF WriteDeep
      <4>2. CASE g + 1 \notin DOMAIN groups
        <5>1. WriteDeep(groups, g, p, nh) = groups
          BY <4>2 DEF WriteDeep
        <5> QED  BY <5>1
      <4> QED  BY <4>1, <4>2
    <3>3. /\ Append(tbl8, Inherit(k)) \in Seq([Lo -> Entries])
          /\ Len(Append(tbl8, Inherit(k))) = Len(tbl8) + 1
          /\ tbl8 \in Seq([Lo -> Entries]) /\ Len(tbl8) \in Nat
      BY DEF TypeOK, Inherit
    <3>4. NewGroup \in Nat
      BY <3>3, LpmAssumption DEF NewGroup
    <3>5. Pointer(NewGroup) \in Entries
      BY <3>4 DEF Pointer, Entries
    <3>6. tbl24' \in [Hi -> Entries]
      BY <3>1, <3>5 DEF TypeOK
    <3>7. CASE tbl8' = WriteDeep(tbl8, tbl24[k].value, p, nh)
      BY <3>2, <3>3, <3>6, <3>7, <2>1 DEF TypeOK
    <3>8. CASE tbl8' = WriteDeep(Append(tbl8, Inherit(k)), NewGroup, p, nh)
      <4>1. tbl8' \in Seq([Lo -> Entries]) /\ Len(tbl8') = Len(tbl8) + 1
        BY <3>2, <3>3, <3>8
      <4> QED  BY <2>1, <3>3, <3>6, <4>1 DEF TypeOK
    <3> QED  BY <3>1, <3>7, <3>8
  <2> QED  BY <1>1, <2>2, <2>3 DEF Add
<1> QED  BY <1>1 DEF Next, vars, TypeOK

\* The invariant holds while the groups can be numbered.
LEMMA NumberedGroupsAreRight == Spec => [](Numbered => IInv)
<1> DEFINE J == TypeOK /\ (Numbered => IInv)
<1>1. Init => J
  BY InductiveInvariant DEF IInv
<1>2. J /\ [Next]_vars => J'
  <2> SUFFICES ASSUME J, [Next]_vars PROVE J'
    OBVIOUS
  <2>1. TypeOK' /\ Len(tbl8) <= Len(tbl8')
    BY TypesStay
  <2>2. Numbered' => Numbered
    BY <2>1, LpmAssumption DEF Numbered, TypeOK
  <2>3. Numbered' => IInv'
    BY <2>2, InductiveInvariant
  <2> QED  BY <2>1, <2>3
<1>3. J => (Numbered => IInv)
  OBVIOUS
<1> QED  BY <1>1, <1>2, <1>3, PTL DEF Spec
LEMMA RoutesAreRight == IInv => LongestPrefixWins
<1> SUFFICES ASSUME IInv, NEW h \in Hi, NEW l \in Lo
             PROVE  /\ Covering(h, l) = {} => Lookup(h, l) = NoRoute
                    /\ \A p \in Deepest(Covering(h, l)) : Lookup(h, l) = routes[p]
  BY DEF LongestPrefixWins
<1>1. Right(Found(h, l), routes, h, l) /\ Covering(h, l) = Cover(routes, h, l)
  BY DEF IInv, Covering, Cover
<1>2. CASE ~Found(h, l).valid
  BY <1>1, <1>2 DEF Right, Lookup, Deepest
<1>3. CASE Found(h, l).valid
  <2>1. PICK q \in Deepest(Covering(h, l)) : Found(h, l).value = routes[q]
    BY <1>1, <1>3 DEF Right
  <2>2. \A p \in Deepest(Covering(h, l)) : p = q
    <3> SUFFICES ASSUME NEW p \in Deepest(Covering(h, l)) PROVE p = q
      OBVIOUS
    <3>1. /\ p \in Covering(h, l) /\ q \in Covering(h, l)
          /\ p.depth <= q.depth /\ q.depth <= p.depth
      BY <2>1 DEF Deepest
    <3>2. /\ p \in Prefixes /\ h \in p.hi /\ l \in p.lo
          /\ q \in Prefixes /\ h \in q.hi /\ l \in q.lo
      BY <3>1 DEF Covering
    <3> QED  BY <3>1, <3>2, OnePerDepth, PrefixFields
  <2>3. Covering(h, l) # {}
    BY <2>1 DEF Deepest
  <2> QED  BY <1>3, <2>1, <2>2, <2>3 DEF Lookup
<1> QED  BY <1>2, <1>3
-----------------------------------------------------------------------------
(***************************************************************************)
(* Add and lookup of lpm.rs: for every number of address bits in either    *)
(* level, every set of prefixes and every order of adds, a lookup finds    *)
(* the next hop of the longest prefix added that covers the address, or    *)
(* nothing -- as long as no more than GroupLimit groups were made.         *)
(***************************************************************************)
THEOREM DeeperPrefixesWin == Spec => [](Numbered => LongestPrefixWins)
  BY RoutesAreRight, NumberedGroupsAreRight, PTL

(***************************************************************************)
(* add() of lpm.rs never lets two first-level slots share a group, as long *)
(* as no more than GroupLimit groups were made.                            *)
(***************************************************************************)
THEOREM GroupsNeverShared == Spec => [](Numbered => GroupsAreDisjoint)
<1>1. IInv => GroupsAreDisjoint
  BY DEF IInv
<1> QED  BY <1>1, NumberedGroupsAreRight, PTL
-----------------------------------------------------------------------------
(***************************************************************************)
(* The IPv6 table.  pos tells where in the vector the n-th route added     *)
(* lies: a deeper route before a shallower one, and of two routes of one   *)
(* depth the one added first (Placed).                                     *)
(***************************************************************************)
Placed(pos) ==
  /\ \A n \in DOMAIN added6 : routes6[pos[n]] = added6[n]
  /\ \A m, n \in DOMAIN added6 :
       m < n => /\ pos[m] # pos[n]
                /\ pos[m] < pos[n] <=> added6[m].depth >= added6[n].depth
  /\ \A i \in DOMAIN routes6 : \E n \in DOMAIN added6 : pos[n] = i

Ordered6 ==
  /\ routes6 \in Seq(V6!Routes)
  /\ added6 \in Seq(V6!Routes)
  /\ \E pos \in [DOMAIN added6 -> DOMAIN routes6] : Placed(pos)

LEMMA DepthsAreNats == \A r \in V6!Routes : r.depth \in Nat
<1>1. ByteBits * Bytes \in Nat
  BY L3fwdAssumption
<1> QED  BY <1>1 DEF V6!Routes, V6!Depths

\* What inserting an element at n does to a sequence of len elements.
Shifts(u, s, len, n, r) ==
  \A i \in 1 .. len + 1 : u[i] = IF i < n THEN s[i] ELSE IF i = n THEN r ELSE s[i - 1]

LEMMA Inserted ==
  ASSUME NEW S, NEW s \in Seq(S), NEW r \in S, NEW len \in Nat, len = Len(s),
         NEW n \in 1 .. len + 1, NEW u, u = V6!InsertAt(s, n, r)
  PROVE  u \in Seq(S) /\ Len(u) = len + 1 /\ Shifts(u, s, len, n, r)
<1>1. \A i \in 1 .. len : s[i] \in S
  BY ElementOfSeq
<1> DEFINE front == SubSeq(s, 1, n - 1)
           back  == SubSeq(s, n, len)
<1>2. /\ front \in Seq(S) /\ Len(front) = n - 1
      /\ \A i \in 1 .. n - 1 : front[i] = s[i]
  <2>1. 1 \in Int /\ n - 1 \in Int /\ \A i \in 1 .. n - 1 : s[i] \in S
    BY <1>1
  <2>2. /\ front \in Seq(S)
        /\ Len(front) = IF 1 <= n - 1 THEN n - 1 - 1 + 1 ELSE 0
        /\ \A i \in 1 .. n - 1 - 1 + 1 : front[i] = s[1 + i - 1]
    BY <2>1, SubSeqProperties
  <2> HIDE DEF front
  <2>3. Len(front) = n - 1
    BY <2>2
  <2>4. \A i \in 1 .. n - 1 : i \in 1 .. n - 1 - 1 + 1 /\ 1 + i - 1 = i
    OBVIOUS
  <2> QED  BY <2>2, <2>3, <2>4
<1>3. /\ back \in Seq(S) /\ Len(back) = len + 1 - n
      /\ \A i \in 1 .. len + 1 - n : back[i] = s[n + i - 1]
  <2>1. n \in Int /\ len \in Int /\ \A i \in n .. len : s[i] \in S
    BY <1>1
  <2>2. /\ back \in Seq(S)
        /\ Len(back) = IF n <= len THEN len - n + 1 ELSE 0
        /\ \A i \in 1 .. len - n + 1 : back[i] = s[n + i - 1]
    BY <2>1, SubSeqProperties
  <2> HIDE DEF back
  <2> QED  BY <2>2
<1>4. u = (front \o << r >>) \o back
  BY DEF V6!InsertAt
<1> HIDE DEF front, back
<1>5. << r >> \in Seq(S) /\ Len(<< r >>) = 1 /\ << r >>[1] = r
  OBVIOUS
<1> DEFINE left == front \o << r >>
<1>6. /\ left \in Seq(S) /\ Len(left) = n
      /\ \A i \in 1 .. n : left[i] = IF i < n THEN s[i] ELSE r
  <2>1. /\ left \in Seq(S) /\ Len(left) = Len(front) + Len(<< r >>)
        /\ \A i \in 1 .. Len(front) + Len(<< r >>) :
             left[i] = IF i <= Len(front) THEN front[i] ELSE << r >>[i - Len(front)]
    BY <1>2, <1>5, ConcatProperties
  <2> HIDE DEF left
  <2> QED  BY <1>2, <1>5, <2>1
<1> HIDE DEF left
<1>7. /\ u \in Seq(S) /\ Len(u) = n + (len + 1 - n)
      /\ \A i \in 1 .. n + (len + 1 - n) : u[i] = IF i <= n THEN left[i] ELSE back[i - n]
  <2>1. u = left \o back
    BY <1>4 DEF left
  <2>2. /\ u \in Seq(S) /\ Len(u) = Len(left) + Len(back)
        /\ \A i \in 1 .. Len(left) + Len(back) :
             u[i] = IF i <= Len(left) THEN left[i] ELSE back[i - Len(left)]
    BY <1>3, <1>6, <2>1, ConcatProperties
  <2> QED  BY <1>3, <1>6, <2>2
<1>8. ASSUME NEW i \in 1 .. len + 1
      PROVE  u[i] = IF i < n THEN s[i] ELSE IF i = n THEN r ELSE s[i - 1]
  <2>1. CASE i <= n
    BY <1>6, <1>7, <2>1
  <2>2. CASE i > n
    <3>1. i - n \in 1 .. len + 1 - n /\ n + (i - n) - 1 = i - 1
      BY <2>2
    <3>2. u[i] = back[i - n]
      BY <1>7, <2>2
    <3> QED  BY <1>3, <2>2, <3>1, <3>2
  <2> QED  BY <2>1, <2>2
<1> QED  BY <1>7, <1>8 DEF Shifts

\* A route pushed and sorted in: the ones behind it move by one.
LEMMA AddKeepsOrder ==
  ASSUME Ordered6, NEW r \in V6!Routes, V6!Add(r)
  PROVE  Ordered6'
<1>1. PICK pos \in [DOMAIN added6 -> DOMAIN routes6] : Placed(pos)
  BY DEF Ordered6
<1>2. PICK len \in Nat, num \in Nat : len = Len(routes6) /\ num = Len(added6)
  BY DEF Ordered6
<1>3. DOMAIN routes6 = 1 .. len /\ DOMAIN added6 = 1 .. num
  BY <1>2 DEF Ordered6
<1>4. PICK n \in 1 .. len + 1 : V6!Sorted(r, n) /\ routes6' = V6!InsertAt(routes6, n, r)
  BY <1>2 DEF V6!Add
<1>5. /\ routes6' \in Seq(V6!Routes) /\ DOMAIN routes6' = 1 .. len + 1
      /\ \A i \in 1 .. len + 1 :
           routes6'[i] = IF i < n THEN routes6[i] ELSE IF i = n THEN r ELSE routes6[i - 1]
  <2>1. PICK u : u = routes6'
    OBVIOUS
  <2>2. routes6 \in Seq(V6!Routes) /\ u = V6!InsertAt(routes6, n, r)
    BY <1>4, <2>1 DEF Ordered6
  <2>3. /\ u \in Seq(V6!Routes) /\ Len(u) = len + 1
        /\ \A i \in 1 .. len + 1 :
             u[i] = IF i < n THEN routes6[i] ELSE IF i = n THEN r ELSE routes6[i - 1]
    <3>1. PICK all : all = V6!Routes
      OBVIOUS
    <3>2. routes6 \in Seq(all) /\ r \in all
      BY <2>2, <3>1
    <3>3. len = Len(routes6) /\ len \in Nat /\ n \in 1 .. len + 1
      BY <1>2
    <3>4. u \in Seq(all)
      BY <2>2, <3>2, <3>3, Inserted
    <3>5. Len(u) = len + 1
      BY <2>2, <3>2, <3>3, Inserted
    <3>6. Shifts(u, routes6, len, n, r)
      BY <2>2, <3>2, <3>3, Inserted
    <3> QED  BY <3>1, <3>4, <3>5, <3>6 DEF Shifts
  <2>4. DOMAIN u = 1 .. len + 1
    BY <2>3
  <2> QED  BY <2>1, <2>3, <2>4
<1>6. /\ added6' \in Seq(V6!Routes) /\ DOMAIN added6' = 1 .. num + 1
      /\ added6'[num + 1] = r /\ \A m \in 1 .. num : added6'[m] = added6[m]
  BY <1>2 DEF V6!Add, Ordered6
<1>7. \A m \in 1 .. num : pos[m] \in 1 .. len /\ added6[m] \in V6!Routes
                          /\ added6[m].depth \in Nat /\ routes6[pos[m]] = added6[m]
  <2> SUFFICES ASSUME NEW m \in 1 .. num
               PROVE  /\ pos[m] \in 1 .. len /\ added6[m] \in V6!Routes
                      /\ added6[m].depth \in Nat /\ routes6[pos[m]] = added6[m]
    OBVIOUS
  <2>1. m \in DOMAIN added6
    BY <1>3
  <2>2. pos[m] \in 1 .. len
    BY <1>1, <1>3, <2>1
  <2>3. added6[m] \in V6!Routes
    BY <1>2, ElementOfSeq DEF Ordered6
  <2>4. routes6[pos[m]] = added6[m]
    BY <1>1, <2>1 DEF Placed
  <2> QED  BY <2>2, <2>3, <2>4, DepthsAreNats
<1>8. \A m \in 1 .. num : pos[m] < n <=> added6[m].depth >= r.depth
  <2> SUFFICES ASSUME NEW m \in 1 .. num PROVE pos[m] < n <=> added6[m].depth >= r.depth
    OBVIOUS
  <2>1. pos[m] \in 1 .. n - 1 => added6[m].depth >= r.depth
    BY <1>4, <1>7 DEF V6!Sorted
  <2>2. pos[m] \in n .. len => added6[m].depth < r.depth
    BY <1>2, <1>4, <1>7 DEF V6!Sorted
  <2>3. added6[m].depth \in Nat /\ r.depth \in Nat /\ pos[m] \in 1 .. len
    BY <1>7, DepthsAreNats
  <2> QED  BY <2>1, <2>2, <2>3
<1> DEFINE moved(i) == IF i < n THEN i ELSE i + 1
           next == [m \in 1 .. num + 1 |-> IF m = num + 1 THEN n ELSE moved(pos[m])]
<1>9. next \in [1 .. num + 1 -> 1 .. len + 1]
  BY <1>7
<1>10. next[num + 1] = n /\ \A m \in 1 .. num : next[m] = moved(pos[m])
  OBVIOUS
<1> HIDE DEF next
<1>11. \A m \in 1 .. num + 1 : routes6'[next[m]] = added6'[m]
  <2> SUFFICES ASSUME NEW m \in 1 .. num + 1 PROVE routes6'[next[m]] = added6'[m]
    OBVIOUS
  <2>1. CASE m = num + 1
    BY <1>5, <1>6, <1>10, <2>1
  <2>2. CASE m # num + 1
    <3>1. m \in 1 .. num
      BY <2>2
    <3>2. moved(pos[m]) \in 1 .. len + 1 /\ routes6'[moved(pos[m])] = routes6[pos[m]]
      BY <1>5, <1>7, <3>1
    <3> QED  BY <1>6, <1>7, <1>10, <3>1, <3>2
  <2> QED  BY <2>1, <2>2
<1>12. ASSUME NEW m \in 1 .. num + 1, NEW k \in 1 .. num + 1, m < k
       PROVE  /\ next[m] # next[k]
              /\ next[m] < next[k] <=> added6'[m].depth >= added6'[k].depth
  <2>1. m \in 1 .. num
    BY <1>12
  <2>2. CASE k = num + 1
    <3>1. PICK a \in 1 .. len : a = pos[m]
      BY <1>7, <2>1
    <3>2. next[m] = moved(a) /\ next[k] = n
      BY <1>10, <2>1, <2>2, <3>1
    <3>3. added6'[m] = added6[m] /\ added6'[k] = r
      BY <1>6, <2>1, <2>2
    <3>4. a < n <=> added6[m].depth >= r.depth
      BY <1>8, <2>1, <3>1
    <3>5. moved(a) # n /\ (moved(a) < n <=> a < n)
      OBVIOUS
    <3> QED  BY <3>2, <3>3, <3>4, <3>5
  <2>3. CASE k # num + 1
    <3>1. k \in 1 .. num
      BY <2>3
    <3>2. pos[m] # pos[k] /\ (pos[m] < pos[k] <=> added6[m].depth >= added6[k].depth)
      BY <1>1, <1>3, <1>12, <2>1, <3>1 DEF Placed
    <3>3. moved(pos[m]) # moved(pos[k]) /\ (moved(pos[m]) < moved(pos[k]) <=> pos[m] < pos[k])
      <4>1. PICK a \in 1 .. len, b \in 1 .. len : a = pos[m] /\ b = pos[k]
        BY <1>7, <2>1, <3>1
      <4>2. moved(a) # moved(b) /\ (moved(a) < moved(b) <=> a < b)
        BY <3>2, <4>1
      <4> QED  BY <4>1, <4>2
    <3> QED  BY <1>6, <1>10, <2>1, <3>1, <3>2, <3>3
  <2> QED  BY <2>2, <2>3
<1>13. ASSUME NEW i \in 1 .. len + 1
       PROVE  \E m \in 1 .. num + 1 : next[m] = i
  <2>1. CASE i = n
    BY <1>10, <2>1
  <2>2. CASE i # n
    <3>1. PICK j \in 1 .. len : moved(j) = i
      <4>1. CASE i < n
        BY <4>1
      <4>2. CASE i > n
        <5>1. i - 1 \in 1 .. len /\ moved(i - 1) = i
          BY <4>2
        <5> QED  BY <5>1
      <4> QED  BY <2>2, <4>1, <4>2
    <3>2. PICK m \in 1 .. num : pos[m] = j
      BY <1>1, <1>3 DEF Placed
    <3> QED  BY <1>10, <3>1, <3>2
  <2> QED  BY <2>1, <2>2
<1>14. Placed(next)'
  BY <1>5, <1>6, <1>11, <1>12, <1>13 DEF Placed
<1> QED  BY <1>5, <1>6, <1>9, <1>14 DEF Ordered6

LEMMA OrderHolds == L3Spec => []Ordered6
<1>1. L3Init => Ordered6
  <2> SUFFICES ASSUME L3Init PROVE Ordered6
    OBVIOUS
  <2>1. routes6 = << >> /\ added6 = << >>
    BY DEF L3Init, V6!Init
  <2>2. routes6 \in Seq(V6!Routes) /\ added6 \in Seq(V6!Routes)
        /\ DOMAIN routes6 = {} /\ DOMAIN added6 = {}
    BY <2>1
  <2> DEFINE none == [n \in {} |-> n]
  <2>3. none \in [DOMAIN added6 -> DOMAIN routes6] /\ Placed(none)
    BY <2>2 DEF Placed
  <2> HIDE DEF none
  <2> QED  BY <2>2, <2>3 DEF Ordered6
<1>2. Ordered6 /\ [L3Next]_<<vars, ipv6, adds, routes6, added6>> => Ordered6'
  <2> SUFFICES ASSUME Ordered6, [L3Next]_<<vars, ipv6, adds, routes6, added6>>
               PROVE  Ordered6'
    OBVIOUS
  <2>1. CASE AddRoute6
    BY <2>1, AddKeepsOrder DEF AddRoute6, V6!Next
  <2>2. ASSUME UNCHANGED <<routes6, added6>> PROVE Ordered6'
    <3>1. routes6' = routes6 /\ added6' = added6
      BY <2>2
    <3>2. PICK pos \in [DOMAIN added6 -> DOMAIN routes6] : Placed(pos)
      BY DEF Ordered6
    <3>3. Placed(pos)'
      BY <3>1, <3>2 DEF Placed
    <3> QED  BY <3>1, <3>2, <3>3 DEF Ordered6
  <2>3. CASE AddRoute4
    BY <2>2, <2>3 DEF AddRoute4
  <2>4. CASE UNCHANGED <<vars, ipv6, adds, routes6, added6>>
    BY <2>2, <2>4
  <2> QED  BY <2>1, <2>3, <2>4 DEF L3Next
<1> QED  BY <1>1, <1>2, PTL DEF L3Spec

CoveringAt(addr) == {n \in DOMAIN added6 : V6!Covers(added6[n], addr)}
LongestAt(addr)  == {n \in CoveringAt(addr) :
                       \A m \in CoveringAt(addr) : added6[m].depth <= added6[n].depth}
FirstLongest(addr) == {n \in LongestAt(addr) : \A m \in LongestAt(addr) : n <= m}

(***************************************************************************)
(* The test a scan applies to a route, whole bytes first and then bits,    *)
(* decides whether its prefix covers the address, as one number.           *)
(***************************************************************************)
\* The powers of two up to the width of an address.
Pow == [i \in 0 .. ByteBits * Bytes |-> 2^i]

LEMMA PowType ==
  /\ Pow[0] = 1
  /\ \A i \in 0 .. ByteBits * Bytes : Pow[i] = 2^i /\ Pow[i] \in Nat \ {0}
  /\ \A b \in 0 .. ByteBits * Bytes : \A a \in 0 .. ByteBits * Bytes - b : Pow[a + b] = Pow[a] * Pow[b]
<1>1. PICK w \in Nat : w = ByteBits * Bytes
  BY L3fwdAssumption
<1>2. \A i \in 0 .. w : Pow[i] = 2^i
  BY <1>1 DEF Pow
<1>3. Pow[0] = 1
  <2>1. 0 \in 0 .. w
    OBVIOUS
  <2>2. 2^0 = 1
    BY L3fwdAssumption
  <2> QED  BY <1>2, <2>1, <2>2
<1>4. \A i \in 0 .. w - 1 : Pow[i + 1] = 2 * Pow[i]
  <2> SUFFICES ASSUME NEW i \in 0 .. w - 1 PROVE Pow[i + 1] = 2 * Pow[i]
    OBVIOUS
  <2>1. i \in 0 .. w /\ i + 1 \in 0 .. w
    BY <1>1
  <2>2. 2^(i + 1) = 2 * 2^i
    BY <1>1, L3fwdAssumption
  <2> QED  BY <1>2, <2>1, <2>2
<1>5. \A b \in 0 .. w : Pow[b] \in Nat \ {0} /\ \A a \in 0 .. w - b : Pow[a + b] = Pow[a] * Pow[b]
  BY <1>3, <1>4, Exponents
<1> QED  BY <1>1, <1>2, <1>3, <1>5

\* Two numbers with the same low part: quotient and remainder are unique.
LEMMA SplitOnce ==
  ASSUME NEW v \in Nat \ {0}, NEW p \in Nat, NEW q \in Nat, NEW a \in 0 .. v - 1, NEW b \in 0 .. v - 1
  PROVE  a + p * v = b + q * v <=> p = q /\ a = b
<1>1. PICK x, y \in Nat : x = a + p * v /\ y = b + q * v
  <2>1. p * v \in Nat /\ q * v \in Nat
    OBVIOUS
  <2> QED  BY <2>1
<1>2. x \div v = p /\ y \div v = q
  BY <1>1, QuotientPart
<1>3. x % v = a /\ y % v = b
  <2>1. LowOf(a, x, v) /\ LowOf(b, y, v)
    BY <1>1 DEF LowOf
  <2> QED  BY <2>1, LowPart
<1>4. x = y => p = q /\ a = b
  BY <1>2, <1>3
<1> QED  BY <1>1, <1>4

\* g[i] is the number of the first i bytes.
Heads(g, addr, n) == g = [i \in 0 .. n |-> IF i = 0 THEN 0 ELSE g[i - 1] * 2^ByteBits + addr[i]]
Steps(g, addr, n) == g[0] = 0 /\ \A i \in 0 .. n : i # 0 => g[i] = g[i - 1] * 2^ByteBits + addr[i]

\* What the table holds, unfolded.
LEMMA HeadsStep ==
  ASSUME NEW addr, NEW n \in Nat, NEW g, Heads(g, addr, n)
  PROVE  Steps(g, addr, n)
<1> DEFINE More(v, i) == v * 2^ByteBits + addr[i]
<1>1. PICK e : e = [i \in 0 .. n |-> IF i = 0 THEN 0 ELSE More(g[i - 1], i)]
  OBVIOUS
<1>2. g = e
  BY <1>1 DEF Heads
<1>3. e[0] = 0 /\ \A i \in 0 .. n : i # 0 => e[i] = More(g[i - 1], i)
  <2> HIDE DEF More
  <2> QED  BY <1>1
<1> QED  BY <1>2, <1>3 DEF Steps

LEMMA HeadsExist ==
  ASSUME NEW addr
  PROVE  \A n \in Nat : \E g : Heads(g, addr, n)
<1> DEFINE M == {n \in Nat : \E g : Heads(g, addr, n)}
           More(v, i) == v * 2^ByteBits + addr[i]
<1>1. 0 \in M
  <2> DEFINE g == [i \in 0 .. 0 |-> 0]
  <2>1. g = [i \in 0 .. 0 |-> IF i = 0 THEN 0 ELSE More(g[i - 1], i)]
    <3>1. \A i \in 0 .. 0 : i = 0
      OBVIOUS
    <3> HIDE DEF More
    <3> QED  BY <3>1
  <2> HIDE DEF g
  <2> QED  BY <2>1 DEF Heads
<1>2. ASSUME NEW n \in M PROVE n + 1 \in M
  <2>1. PICK h : Heads(h, addr, n)
    OBVIOUS
  <2>2. h[0] = 0 /\ \A i \in 0 .. n : i # 0 => h[i] = More(h[i - 1], i)
    BY <2>1, HeadsStep DEF Steps
  <2> HIDE DEF More
  <2> DEFINE g == [i \in 0 .. n + 1 |-> IF i = 0 THEN 0 ELSE More(h[i - 1], i)]
  <2>3. \A i \in 0 .. n : g[i] = h[i] /\ i \in 0 .. n + 1
    BY <2>2
  <2>4. \A i \in 0 .. n + 1 : i # 0 => g[i - 1] = h[i - 1]
    <3>1. \A i \in 0 .. n + 1 : i # 0 => i - 1 \in 0 .. n
      OBVIOUS
    <3> HIDE DEF g
    <3> QED  BY <2>3, <3>1
  <2>5. [i \in 0 .. n + 1 |-> IF i = 0 THEN 0 ELSE More(h[i - 1], i)]
          = [i \in 0 .. n + 1 |-> IF i = 0 THEN 0 ELSE More(g[i - 1], i)]
    <3> HIDE DEF g
    <3> QED  BY <2>4
  <2>6. g = [i \in 0 .. n + 1 |-> IF i = 0 THEN 0 ELSE More(g[i - 1], i)]
    BY <2>5, Zenon
  <2> HIDE DEF g
  <2>7. Heads(g, addr, n + 1)
    BY <2>6, Zenon DEF Heads, More
  <2>8. n + 1 \in Nat
    OBVIOUS
  <2> QED  BY <2>7, <2>8
<1> HIDE DEF More
<1>3. M = Nat
  <2> HIDE DEF M
  <2> QED  BY <1>1, <1>2, NumbersByInduction DEF M
<1> QED  BY <1>3

\* The number of an address is built up byte by byte.
LEMMA NumberIsHead ==
  ASSUME NEW addr
  PROVE  \E g : Steps(g, addr, Bytes) /\ V6!Number(addr) = g[Bytes]
<1>1. Bytes \in Nat
  BY L3fwdAssumption
<1>2. PICK g : /\ g = CHOOSE s : Heads(s, addr, Bytes)
               /\ Heads(g, addr, Bytes)
  BY <1>1, HeadsExist
<1>3. V6!Number(addr) = g[Bytes]
  BY <1>2 DEF V6!Number, Heads
<1> QED  BY <1>1, <1>2, <1>3, HeadsStep

\* The base is a power, and every byte is below it.
LEMMA ByteType ==
  /\ Bytes > 0 => 2^ByteBits \in Nat \ {0} /\ 2^ByteBits = Pow[ByteBits]
  /\ \A addr \in V6!Address, i \in 1 .. Bytes : addr[i] \in 0 .. 2^ByteBits - 1
<1>1. Bytes > 0 => ByteBits \in 0 .. ByteBits * Bytes
  <2>1. PICK b \in Nat \ {0}, n \in Nat : b = ByteBits /\ n = Bytes
    BY L3fwdAssumption
  <2>2. n > 0 => b <= b * n
    BY <2>1
  <2>3. b * n \in Nat
    BY <2>1
  <2> QED  BY <2>1, <2>2, <2>3
<1>2. Bytes > 0 => 2^ByteBits \in Nat \ {0} /\ 2^ByteBits = Pow[ByteBits]
  BY <1>1, PowType
<1> QED  BY <1>2 DEF V6!Address, V6!Byte

\* n bytes have so many values.
Aligned(n) == Pow[ByteBits * n]

LEMMA AlignedType ==
  ASSUME NEW n \in 0 .. Bytes
  PROVE  /\ ByteBits * n \in 0 .. ByteBits * Bytes /\ Aligned(n) \in Nat \ {0}
         /\ Aligned(n) = 2^(ByteBits * n)
         /\ n < Bytes => Aligned(n + 1) = Aligned(n) * 2^ByteBits
<1>1. PICK b \in Nat \ {0}, w \in Nat : b = ByteBits /\ w = Bytes
  BY L3fwdAssumption
<1>2. PICK k \in Nat : w = n + k
  <2>1. w = n + (w - n) /\ w - n \in Nat
    BY <1>1
  <2> QED  BY <2>1
<1>3. PICK bn, bk \in Nat : bn = b * n /\ bk = b * k /\ b * w = bn + bk
  <2>1. b * n \in Nat /\ b * k \in Nat /\ b * (n + k) = b * n + b * k
    BY <1>1, <1>2
  <2> QED  BY <1>2, <2>1
<1>4. bn \in 0 .. b * w /\ b * w \in Nat
  BY <1>3
<1>5. n < Bytes => Aligned(n + 1) = Aligned(n) * 2^ByteBits
  <2> SUFFICES ASSUME n < Bytes PROVE Aligned(n + 1) = Aligned(n) * 2^ByteBits
    OBVIOUS
  <2>1. b * (n + 1) = bn + b
    BY <1>1, <1>3
  <2>2. b <= bk
    BY <1>1, <1>2, <1>3
  <2>3. b \in 0 .. b * w /\ bn \in 0 .. b * w - b
    BY <1>3, <2>2
  <2>4. Pow[bn + b] = Pow[bn] * Pow[b]
    BY <1>1, <2>3, PowType
  <2>5. Pow[b] = 2^ByteBits
    BY <1>1, ByteType
  <2> QED  BY <1>1, <1>3, <2>1, <2>4, <2>5 DEF Aligned
<1> QED  BY <1>1, <1>3, <1>4, <1>5, PowType DEF Aligned

LEMMA HeadsAreNats ==
  ASSUME NEW addr \in V6!Address, NEW g, Steps(g, addr, Bytes)
  PROVE  \A m \in 0 .. Bytes : g[m] \in Nat
<1> DEFINE M == {m \in Nat : m <= Bytes => g[m] \in Nat}
<1>1. 0 \in M
  BY DEF Steps
<1>2. ASSUME NEW m \in M PROVE m + 1 \in M
  <2> SUFFICES ASSUME m + 1 <= Bytes PROVE g[m + 1] \in Nat
    OBVIOUS
  <2>1. m + 1 \in 0 .. Bytes /\ m + 1 # 0 /\ (m + 1) - 1 = m /\ m + 1 \in 1 .. Bytes /\ m \in 0 .. Bytes
    BY L3fwdAssumption
  <2>2. PICK b \in Nat \ {0} : b = 2^ByteBits
    BY <2>1, L3fwdAssumption, ByteType
  <2>3. PICK x, y \in Nat : x = g[m] /\ y = addr[m + 1]
    BY <2>1, <2>2, ByteType
  <2>4. g[m + 1] = x * b + y
    BY <2>1, <2>2, <2>3 DEF Steps
  <2>5. x * b + y \in Nat
    OBVIOUS
  <2> QED  BY <2>4, <2>5
<1>3. M = Nat
  <2> HIDE DEF M
  <2> QED  BY <1>1, <1>2, NumbersByInduction DEF M
<1> QED  BY <1>3, L3fwdAssumption

\* The number of an address is that of its first m bytes, and a low part.
LEMMA LowBytes ==
  ASSUME NEW addr \in V6!Address, NEW g, Steps(g, addr, Bytes), NEW m \in 0 .. Bytes
  PROVE  \E low \in 0 .. Aligned(Bytes - m) - 1 : g[Bytes] = g[m] * Aligned(Bytes - m) + low
<1>1. PICK w \in Nat : w = Bytes
  BY L3fwdAssumption
<1> DEFINE L == {n \in Nat : m + n <= w =>
                   \E low \in 0 .. Aligned(n) - 1 : g[m + n] = g[m] * Aligned(n) + low}
<1>2. 0 \in L
  <2>1. PICK x \in Nat : x = g[m]
    BY HeadsAreNats
  <2>2. Aligned(0) = 1
    <3>1. ByteBits * 0 = 0
      BY L3fwdAssumption
    <3> QED  BY <3>1, PowType DEF Aligned
  <2>3. 0 \in 0 .. Aligned(0) - 1 /\ g[m + 0] = x * Aligned(0) + 0
    BY <2>1, <2>2
  <2> QED  BY <2>1, <2>3
<1>3. ASSUME NEW n \in L PROVE n + 1 \in L
  <2> SUFFICES ASSUME m + (n + 1) <= w
               PROVE \E low \in 0 .. Aligned(n + 1) - 1 : g[m + (n + 1)] = g[m] * Aligned(n + 1) + low
    OBVIOUS
  <2>1. n \in 0 .. Bytes /\ n < Bytes /\ m + n <= w
    BY <1>1
  <2>2. PICK b \in Nat \ {0} : b = 2^ByteBits
    BY <2>1, L3fwdAssumption, ByteType
  <2>3. PICK p \in Nat \ {0} : p = Aligned(n) /\ Aligned(n + 1) = p * b
    BY <2>1, <2>2, AlignedType
  <2>4. PICK low \in 0 .. p - 1 : g[m + n] = g[m] * p + low
    BY <2>1, <2>3
  <2>5. PICK k \in 1 .. w : k = m + (n + 1) /\ k - 1 = m + n
    OBVIOUS
  <2>6. PICK x, y \in Nat : x = g[m] /\ y = addr[k] /\ y \in 0 .. b - 1
    BY <1>1, <2>2, <2>5, HeadsAreNats, ByteType
  <2>7. g[k] = (x * p + low) * b + y
    <3>1. k \in 0 .. Bytes /\ k # 0
      BY <1>1, <2>5
    <3>2. g[k] = g[k - 1] * b + addr[k]
      BY <2>2, <3>1 DEF Steps
    <3> QED  BY <2>4, <2>5, <2>6, <3>2
  <2>8. PICK l \in Nat : l = low * b + y
    <3>1. low * b \in Nat
      OBVIOUS
    <3> QED  BY <3>1
  <2>9. (x * p + low) * b + y = x * (p * b) + l
    <3>1. (x * p + low) * b = x * (p * b) + low * b /\ x * (p * b) \in Nat /\ low * b \in Nat
      OBVIOUS
    <3> QED  BY <2>8, <3>1
  <2>10. l \in 0 .. p * b - 1
    <3>1. (low + 1) * b = low * b + b /\ (low + 1) * b <= p * b /\ low * b \in Nat /\ p * b \in Nat
      OBVIOUS
    <3> QED  BY <2>6, <2>8, <3>1
  <2> QED  BY <2>3, <2>5, <2>6, <2>7, <2>9, <2>10
<1>4. L = Nat
  <2> HIDE DEF L
  <2> QED  BY <1>2, <1>3, NumbersByInduction DEF L
<1>5. w - m \in Nat /\ m + (w - m) = w
  BY <1>1
<1>6. w - m \in L
  BY <1>4, <1>5
<1> QED  BY <1>1, <1>5, <1>6

\* The numbers of the first m bytes agree exactly if these bytes do.
LEMMA HeadsAgree ==
  ASSUME NEW a \in V6!Address, NEW c \in V6!Address, NEW g, NEW h,
         Steps(g, a, Bytes), Steps(h, c, Bytes)
  PROVE  \A m \in 0 .. Bytes : g[m] = h[m] <=> \A i \in 1 .. m : a[i] = c[i]
<1>1. PICK w \in Nat : w = Bytes
  BY L3fwdAssumption
<1> DEFINE M == {m \in Nat : m <= w => (g[m] = h[m] <=> \A i \in 1 .. m : a[i] = c[i])}
<1>2. 0 \in M
  BY DEF Steps
<1>3. ASSUME NEW m \in M PROVE m + 1 \in M
  <2> SUFFICES ASSUME m + 1 <= w
               PROVE g[m + 1] = h[m + 1] <=> \A i \in 1 .. m + 1 : a[i] = c[i]
    OBVIOUS
  <2>1. PICK k \in 1 .. w : k = m + 1 /\ k - 1 = m /\ k \in 0 .. Bytes /\ k # 0 /\ m \in 0 .. Bytes
    BY <1>1
  <2>2. PICK b \in Nat \ {0} : b = 2^ByteBits
    BY <1>1, <2>1, ByteType
  <2>3. PICK p, q \in Nat : p = g[m] /\ q = h[m]
    BY <2>1, HeadsAreNats
  <2>4. PICK x, y \in 0 .. b - 1 : x = a[k] /\ y = c[k]
    BY <1>1, <2>1, <2>2, ByteType
  <2>5. g[k] = x + p * b /\ h[k] = y + q * b
    <3>1. g[k] = p * b + x /\ h[k] = q * b + y
      BY <2>1, <2>2, <2>3, <2>4 DEF Steps
    <3>2. p * b \in Nat /\ q * b \in Nat
      OBVIOUS
    <3> QED  BY <3>1, <3>2
  <2>6. x + p * b = y + q * b <=> p = q /\ x = y
    BY SplitOnce
  <2>7. p = q <=> \A i \in 1 .. m : a[i] = c[i]
    BY <2>1, <2>3
  <2>8. (\A i \in 1 .. m + 1 : a[i] = c[i]) <=> (\A i \in 1 .. m : a[i] = c[i]) /\ a[k] = c[k]
    BY <2>1
  <2> QED  BY <2>1, <2>4, <2>5, <2>6, <2>7, <2>8
<1>4. M = Nat
  <2> HIDE DEF M
  <2> QED  BY <1>2, <1>3, NumbersByInduction DEF M
<1> QED  BY <1>1, <1>4

\* A depth, in whole bytes and bits.
LEMMA DepthSplits ==
  ASSUME NEW d \in V6!Depths, NEW full, NEW rem, full = d \div ByteBits, rem = d % ByteBits
  PROVE  /\ full \in 0 .. Bytes /\ rem \in 0 .. ByteBits - 1 /\ d = full * ByteBits + rem
         /\ rem # 0 => full < Bytes
<1>1. PICK b \in Nat \ {0}, w \in Nat : b = ByteBits /\ w = Bytes
  BY L3fwdAssumption
<1>2. PICK n \in Nat : n = b * w /\ d \in 0 .. n
  <2>1. b * w \in Nat
    BY <1>1
  <2> QED  BY <1>1, <2>1 DEF V6!Depths
<1>3. PICK f \in Int, r \in 0 .. b - 1 : f = full /\ r = rem /\ d = f * b + r
  BY <1>1, <1>2
<1>4. f >= 0
  <2>1. SUFFICES ASSUME f <= -1 PROVE FALSE
    BY <1>3
  <2>2. f * b <= -b
    BY <2>1
  <2>3. f * b \in Int
    OBVIOUS
  <2> QED  BY <1>2, <1>3, <2>2, <2>3
<1>5. ASSUME f >= w PROVE f = w /\ r = 0
  <2>1. PICK k \in Nat : f = w + k
    <3>1. f - w \in Nat /\ f = w + (f - w)
      BY <1>5
    <3> QED  BY <3>1
  <2>2. PICK kb \in Nat : kb = k * b
    BY <2>1
  <2>3. f * b = n + kb
    BY <1>2, <2>1, <2>2
  <2>4. kb = 0 /\ r = 0
    BY <1>2, <1>3, <2>3
  <2>5. k = 0
    BY <2>2, <2>4
  <2> QED  BY <2>1, <2>4, <2>5
<1> QED  BY <1>1, <1>3, <1>4, <1>5

\* A prefix of whole bytes is the number of these bytes.
LEMMA PrefixOfBytes ==
  ASSUME NEW addr \in V6!Address, NEW g, Steps(g, addr, Bytes), V6!Number(addr) = g[Bytes],
         NEW m \in 0 .. Bytes, NEW d, d = m * ByteBits
  PROVE  V6!Prefix(addr, d) = g[m]
<1>1. PICK b \in Nat \ {0}, w \in Nat : b = ByteBits /\ w = Bytes
  BY L3fwdAssumption
<1>2. PICK n \in 0 .. Bytes : n = w - m
  BY <1>1
<1>3. ByteBits * Bytes - d = ByteBits * n
  <2>1. b * n = b * w - b * m /\ m * b = b * m
    BY <1>1, <1>2
  <2> QED  BY <1>1, <2>1
<1>4. PICK p \in Nat \ {0} : p = Aligned(n) /\ p = 2^(ByteBits * n)
  BY AlignedType
<1>5. PICK low \in 0 .. p - 1 : g[Bytes] = g[m] * p + low
  BY <1>1, <1>2, <1>4, LowBytes
<1>6. PICK x \in Nat : x = g[m]
  BY HeadsAreNats
<1>7. g[Bytes] = low + x * p
  <2>1. x * p \in Nat
    OBVIOUS
  <2> QED  BY <1>5, <1>6, <2>1
<1>8. g[Bytes] \div p = x
  BY <1>7, QuotientPart
<1> QED  BY <1>3, <1>4, <1>6, <1>8 DEF V6!Prefix

\* A prefix that ends in a byte has the upper bits of this byte as well.
LEMMA PrefixOfBits ==
  ASSUME NEW addr \in V6!Address, NEW g, Steps(g, addr, Bytes), V6!Number(addr) = g[Bytes],
         NEW m \in 0 .. Bytes, m < Bytes, NEW rem \in 1 .. ByteBits - 1,
         NEW d, d = m * ByteBits + rem
  PROVE  /\ Pow[rem] \in Nat \ {0}
         /\ addr[m + 1] \div 2^(ByteBits - rem) \in 0 .. Pow[rem] - 1
         /\ V6!Prefix(addr, d) = addr[m + 1] \div 2^(ByteBits - rem) + g[m] * Pow[rem]
<1>1. PICK b \in Nat \ {0}, w \in Nat : b = ByteBits /\ w = Bytes
  BY L3fwdAssumption
<1>2. PICK n \in 0 .. Bytes, k \in 1 .. b - 1 : n = w - (m + 1) /\ k = b - rem /\ m + 1 \in 1 .. Bytes
  BY <1>1
<1>3. PICK bw, bn \in Nat : bw = b * w /\ bn = b * n /\ bw - d = k + bn /\ bn + b <= bw
  <2>1. b * w \in Nat /\ b * n \in Nat /\ b * m \in Nat /\ m * b = b * m
    BY <1>1, <1>2
  <2>2. b * w = b * n + b * m + b
    BY <1>1, <1>2
  <2> QED  BY <1>1, <1>2, <2>1, <2>2
<1>4. /\ rem \in 0 .. bw /\ k \in 0 .. bw - rem /\ k + rem = b
      /\ bn \in 0 .. bw /\ k \in 0 .. bw - bn /\ k \in 0 .. bw /\ k + bn \in 0 .. bw
  BY <1>1, <1>2, <1>3
<1>5. PICK r, e, p \in Nat \ {0} : r = Pow[rem] /\ e = Pow[k] /\ p = Pow[bn]
  BY <1>1, <1>3, <1>4, PowType
<1>6. 2^ByteBits = e * r
  <2>1. Pow[k + rem] = Pow[k] * Pow[rem]
    BY <1>1, <1>3, <1>4, PowType
  <2>2. 2^ByteBits = Pow[ByteBits]
    BY <1>1, <1>2, ByteType
  <2> QED  BY <1>1, <1>4, <1>5, <2>1, <2>2
<1>7. 2^(ByteBits * Bytes - d) = e * p /\ 2^(ByteBits - rem) = e
  <2>1. Pow[k + bn] = Pow[k] * Pow[bn] /\ Pow[k + bn] = 2^(k + bn) /\ Pow[k] = 2^k
    BY <1>1, <1>3, <1>4, PowType
  <2> QED  BY <1>1, <1>2, <1>3, <1>5, <2>1
<1>8. PICK y \in 0 .. r * e - 1 : y = addr[m + 1]
  <2>1. addr[m + 1] \in 0 .. 2^ByteBits - 1
    BY <1>2, ByteType
  <2>2. e * r = r * e
    OBVIOUS
  <2> QED  BY <1>6, <2>1, <2>2
<1>9. PICK top \in 0 .. r - 1, rest \in 0 .. e - 1 : top = y \div e /\ y = rest + top * e
  BY QuotientBelow
<1>10. PICK x \in Nat : x = g[m]
  BY HeadsAreNats
<1>11. g[m + 1] = x * (e * r) + y
  <2>1. m + 1 \in 0 .. Bytes /\ m + 1 # 0 /\ (m + 1) - 1 = m
    BY <1>1, <1>2
  <2> QED  BY <1>6, <1>8, <1>10, <2>1 DEF Steps
<1>12. PICK low \in 0 .. p - 1 : g[Bytes] = g[m + 1] * p + low
  <2>1. p = Aligned(n)
    BY <1>1, <1>3, <1>5 DEF Aligned
  <2>2. m + 1 \in 0 .. Bytes /\ Bytes - (m + 1) = n
    BY <1>1, <1>2
  <2> QED  BY <2>1, <2>2, LowBytes
<1>13. PICK z \in Nat : z = top + x * r
  <2>1. x * r \in Nat
    OBVIOUS
  <2> QED  BY <2>1
<1>14. PICK l \in Nat : l = rest * p + low
  <2>1. rest * p \in Nat
    OBVIOUS
  <2> QED  BY <2>1
<1>15. l \in 0 .. e * p - 1
  <2>1. (rest + 1) * p = rest * p + p /\ (rest + 1) * p <= e * p /\ rest * p \in Nat /\ e * p \in Nat
    BY <1>9
  <2> QED  BY <1>12, <1>14, <2>1
<1>16. g[Bytes] = l + z * (e * p)
  <2>1. g[m + 1] = rest + z * e
    <3>1. z * e = top * e + (x * r) * e /\ (x * r) * e = x * (e * r)
      BY <1>13
    <3>2. top * e \in Nat /\ x * (e * r) \in Nat
      OBVIOUS
    <3> QED  BY <1>9, <1>11, <3>1, <3>2
  <2>2. (rest + z * e) * p = rest * p + z * (e * p) /\ rest * p \in Nat /\ z * (e * p) \in Nat
    OBVIOUS
  <2> QED  BY <1>12, <1>14, <2>1, <2>2
<1>17. g[Bytes] \div (e * p) = z
  <2>1. PICK v \in Nat \ {0} : v = e * p
    OBVIOUS
  <2>2. l \in 0 .. v - 1 /\ g[Bytes] = l + z * v
    BY <1>15, <1>16, <2>1
  <2>3. g[Bytes] \div v = z
    BY <2>2, QuotientPart
  <2> QED  BY <2>1, <2>3
<1>18. V6!Prefix(addr, d) = z
  BY <1>7, <1>17 DEF V6!Prefix
<1> QED  BY <1>5, <1>7, <1>8, <1>9, <1>10, <1>13, <1>18

\* A route matches an address exactly if its prefix covers it.
LEMMA MatchesIsCovers ==
  ASSUME NEW r \in V6!Routes, NEW addr \in V6!Address
  PROVE  V6!Matches(r, addr) <=> V6!Covers(r, addr)
<1>1. r.net \in V6!Address /\ r.depth \in V6!Depths
  BY L3fwdAssumption DEF V6!Routes, V6!Address, V6!Byte
<1>2. PICK c, d : c = r.net /\ d = r.depth
  OBVIOUS
<1>3. PICK full, rem : full = d \div ByteBits /\ rem = d % ByteBits
  OBVIOUS
<1>4. /\ full \in 0 .. Bytes /\ rem \in 0 .. ByteBits - 1 /\ d = full * ByteBits + rem
      /\ rem # 0 => full < Bytes
  BY <1>1, <1>2, <1>3, DepthSplits
<1>5. PICK g : Steps(g, addr, Bytes) /\ V6!Number(addr) = g[Bytes]
  BY NumberIsHead
<1>6. PICK h : Steps(h, c, Bytes) /\ V6!Number(c) = h[Bytes]
  BY NumberIsHead
<1>7. V6!Covers(r, addr) <=> V6!Prefix(c, d) = V6!Prefix(addr, d)
  BY <1>2 DEF V6!Covers
<1>8. h[full] = g[full] <=> \A i \in 1 .. full : addr[i] = c[i]
  <2>1. g[full] = h[full] <=> \A i \in 1 .. full : addr[i] = c[i]
    BY <1>1, <1>2, <1>4, <1>5, <1>6, HeadsAgree
  <2> QED  BY <2>1
<1>9. CASE rem = 0
  <2>1. d = full * ByteBits
    BY <1>4, <1>9, L3fwdAssumption
  <2>2. V6!Prefix(c, d) = h[full] /\ V6!Prefix(addr, d) = g[full]
    BY <1>1, <1>2, <1>4, <1>5, <1>6, <2>1, PrefixOfBytes
  <2>3. V6!Matches(r, addr) <=> \A i \in 1 .. full : addr[i] = c[i]
    BY <1>2, <1>3, <1>9 DEF V6!Matches
  <2> QED  BY <1>7, <1>8, <2>2, <2>3
<1>10. CASE rem # 0
  <2>1. full < Bytes /\ rem \in 1 .. ByteBits - 1
    BY <1>4, <1>10, L3fwdAssumption
  <2>2. PICK s, t : s = addr[full + 1] \div 2^(ByteBits - rem) /\ t = c[full + 1] \div 2^(ByteBits - rem)
    OBVIOUS
  <2>3. PICK v \in Nat \ {0} : v = Pow[rem]
    BY <1>4, <1>5, <2>1, PrefixOfBits
  <2>4. s \in 0 .. v - 1 /\ V6!Prefix(addr, d) = s + g[full] * v
    BY <1>4, <1>5, <2>1, <2>2, <2>3, PrefixOfBits
  <2>5. t \in 0 .. v - 1 /\ V6!Prefix(c, d) = t + h[full] * v
    BY <1>1, <1>2, <1>4, <1>6, <2>1, <2>2, <2>3, PrefixOfBits
  <2>6. PICK p, q \in Nat : p = g[full] /\ q = h[full]
    BY <1>1, <1>2, <1>4, <1>5, <1>6, HeadsAreNats
  <2>7. t + q * v = s + p * v <=> q = p /\ t = s
    BY <2>4, <2>5, SplitOnce
  <2>8. V6!Matches(r, addr) <=> (\A i \in 1 .. full : addr[i] = c[i]) /\ s = t
    BY <1>2, <1>3, <1>10, <2>2 DEF V6!Matches
  <2>9. q = p <=> \A i \in 1 .. full : addr[i] = c[i]
    BY <1>8, <2>6
  <2>10. V6!Covers(r, addr) <=> t + q * v = s + p * v
    BY <1>7, <2>4, <2>5, <2>6
  <2> QED  BY <2>7, <2>8, <2>9, <2>10
<1> QED  BY <1>9, <1>10
-----------------------------------------------------------------------------
\* The first route that matches is the first one added of the longest.
LEMMA FirstHitIsBest ==
  ASSUME Ordered6, NEW addr \in V6!Address
  PROVE  V6!Lookup(addr) = V6!Best(addr)
<1>1. PICK pos \in [DOMAIN added6 -> DOMAIN routes6] : Placed(pos)
  BY DEF Ordered6
<1>2. PICK len \in Nat, num \in Nat : len = Len(routes6) /\ num = Len(added6)
  BY DEF Ordered6
<1>3. DOMAIN routes6 = 1 .. len /\ DOMAIN added6 = 1 .. num
  BY <1>2 DEF Ordered6
<1>4. ASSUME NEW n \in 1 .. num
      PROVE  /\ pos[n] \in 1 .. len /\ routes6[pos[n]] = added6[n]
             /\ added6[n].depth \in Nat
             /\ V6!Matches(routes6[pos[n]], addr) <=> n \in CoveringAt(addr)
  <2>1. n \in DOMAIN added6 /\ pos[n] \in 1 .. len
    BY <1>1, <1>3
  <2>2. added6[n] \in V6!Routes
    BY <1>2, ElementOfSeq DEF Ordered6
  <2>3. routes6[pos[n]] = added6[n]
    BY <1>1, <2>1 DEF Placed
  <2>4. V6!Matches(added6[n], addr) <=> V6!Covers(added6[n], addr)
    BY <2>2, MatchesIsCovers
  <2> QED  BY <2>1, <2>2, <2>3, <2>4, DepthsAreNats DEF CoveringAt
<1>5. ASSUME NEW m \in 1 .. num, NEW n \in 1 .. num
      PROVE  m < n => /\ pos[m] # pos[n]
                      /\ pos[m] < pos[n] <=> added6[m].depth >= added6[n].depth
  BY <1>1, <1>3 DEF Placed
<1>6. \A i \in 1 .. len : \E n \in 1 .. num : pos[n] = i
  BY <1>1, <1>3 DEF Placed
<1>7. CoveringAt(addr) \subseteq 1 .. num
  BY <1>3 DEF CoveringAt
\* A covering route lies behind another exactly if it is worse.
<1>8. ASSUME NEW m \in 1 .. num, NEW n \in 1 .. num, pos[m] < pos[n]
      PROVE  \/ added6[m].depth > added6[n].depth
             \/ added6[m].depth = added6[n].depth /\ m < n
  <2>1. pos[m] \in Nat /\ pos[n] \in Nat /\ added6[m].depth \in Nat /\ added6[n].depth \in Nat
    BY <1>4
  <2>2. CASE m < n
    <3>1. added6[m].depth >= added6[n].depth
      BY <1>5, <1>8, <2>2
    <3> QED  BY <2>1, <2>2, <3>1
  <2>3. CASE n < m
    <3>1. ~(added6[n].depth >= added6[m].depth)
      BY <1>5, <1>8, <2>1, <2>3
    <3> QED  BY <2>1, <3>1
  <2>4. m # n
    BY <1>8, <2>1
  <2> QED  BY <2>2, <2>3, <2>4
<1>9. ASSUME NEW n \in 1 .. num
      PROVE  pos[n] \in V6!FirstHit(addr) <=> n \in FirstLongest(addr)
  <2>1. pos[n] \in 1 .. len /\ pos[n] \in Nat
    BY <1>4
  <2>2. pos[n] \in V6!FirstHit(addr)
          <=> /\ n \in CoveringAt(addr)
              /\ \A i \in 1 .. pos[n] - 1 : ~V6!Matches(routes6[i], addr)
    BY <1>3, <1>4, <2>1 DEF V6!FirstHit
  <2>3. (\A i \in 1 .. pos[n] - 1 : ~V6!Matches(routes6[i], addr))
          <=> \A m \in 1 .. num : pos[m] < pos[n] => m \notin CoveringAt(addr)
    <3>1. ASSUME \A i \in 1 .. pos[n] - 1 : ~V6!Matches(routes6[i], addr),
                 NEW m \in 1 .. num, pos[m] < pos[n]
          PROVE  m \notin CoveringAt(addr)
      <4>1. pos[m] \in 1 .. pos[n] - 1
        BY <1>4, <2>1, <3>1
      <4> QED  BY <1>4, <3>1, <4>1
    <3>2. ASSUME \A m \in 1 .. num : pos[m] < pos[n] => m \notin CoveringAt(addr),
                 NEW i \in 1 .. pos[n] - 1
          PROVE  ~V6!Matches(routes6[i], addr)
      <4>1. i \in 1 .. len /\ i < pos[n]
        BY <2>1
      <4>2. PICK m \in 1 .. num : pos[m] = i
        BY <1>6, <4>1
      <4> QED  BY <1>4, <3>2, <4>1, <4>2
    <3> QED  BY <3>1, <3>2
  <2>4. ASSUME n \in CoveringAt(addr),
               \A m \in 1 .. num : pos[m] < pos[n] => m \notin CoveringAt(addr)
        PROVE  n \in FirstLongest(addr)
    <3>1. ASSUME NEW m \in CoveringAt(addr)
          PROVE  \/ added6[m].depth < added6[n].depth
                 \/ added6[m].depth = added6[n].depth /\ n <= m
      <4>1. m \in 1 .. num /\ pos[m] \in Nat /\ ~(pos[m] < pos[n])
        BY <1>4, <1>7, <2>4
      <4>2. CASE m = n
        BY <1>4, <4>2
      <4>3. CASE m # n
        <5>1. pos[m] # pos[n]
          BY <1>5, <4>1, <4>3
        <5>2. pos[n] < pos[m]
          BY <2>1, <4>1, <5>1
        <5> QED  BY <1>4, <1>8, <4>1, <5>2
      <4> QED  BY <4>2, <4>3
    <3>2. \A m \in CoveringAt(addr) : m \in 1 .. num /\ added6[m].depth \in Nat
      BY <1>4, <1>7
    <3>3. n \in LongestAt(addr)
      BY <2>4, <3>1, <3>2 DEF LongestAt
    <3>4. \A m \in LongestAt(addr) : n <= m
      <4> SUFFICES ASSUME NEW m \in LongestAt(addr) PROVE n <= m
        OBVIOUS
      <4>1. m \in CoveringAt(addr) /\ added6[n].depth <= added6[m].depth
        BY <2>4 DEF LongestAt
      <4> QED  BY <1>4, <3>1, <3>2, <4>1
    <3> QED  BY <3>3, <3>4 DEF FirstLongest
  <2>5. ASSUME n \in FirstLongest(addr)
        PROVE  /\ n \in CoveringAt(addr)
               /\ \A m \in 1 .. num : pos[m] < pos[n] => m \notin CoveringAt(addr)
    <3>1. n \in CoveringAt(addr) /\ n \in LongestAt(addr)
      BY <2>5 DEF FirstLongest, LongestAt
    <3>2. ASSUME NEW m \in 1 .. num, pos[m] < pos[n], m \in CoveringAt(addr)
          PROVE  FALSE
      <4>1. added6[m].depth <= added6[n].depth
        BY <3>1, <3>2 DEF LongestAt
      <4>2. added6[m].depth \in Nat /\ added6[n].depth \in Nat
        BY <1>4
      <4>3. added6[m].depth = added6[n].depth /\ m < n
        BY <1>8, <3>2, <4>1, <4>2
      <4>4. m \in LongestAt(addr)
        BY <3>1, <3>2, <4>3 DEF LongestAt
      <4>5. n <= m
        BY <2>5, <4>4 DEF FirstLongest
      <4> QED  BY <4>3, <4>5
    <3> QED  BY <3>1, <3>2
  <2> QED  BY <2>2, <2>3, <2>4, <2>5
<1>10. V6!Best(addr) = {added6[n].nh : n \in FirstLongest(addr)}
  BY DEF V6!Best, FirstLongest, LongestAt, CoveringAt
<1>11. \A i \in V6!FirstHit(addr) : i \in 1 .. len
  BY <1>3 DEF V6!FirstHit
<1>12. \A n \in FirstLongest(addr) : n \in 1 .. num
  BY <1>7 DEF FirstLongest, LongestAt
<1>13. ASSUME NEW hop
       PROVE  hop \in V6!Lookup(addr) <=> hop \in V6!Best(addr)
  <2>1. ASSUME hop \in V6!Lookup(addr) PROVE hop \in V6!Best(addr)
    <3>1. PICK i \in V6!FirstHit(addr) : hop = routes6[i].nh
      BY <2>1 DEF V6!Lookup
    <3>2. PICK n \in 1 .. num : pos[n] = i
      BY <1>6, <1>11
    <3>3. n \in FirstLongest(addr) /\ hop = added6[n].nh
      BY <1>4, <1>9, <3>1, <3>2
    <3> QED  BY <1>10, <3>3
  <2>2. ASSUME hop \in V6!Best(addr) PROVE hop \in V6!Lookup(addr)
    <3>1. PICK n \in FirstLongest(addr) : hop = added6[n].nh
      BY <1>10, <2>2
    <3>2. n \in 1 .. num
      BY <1>12
    <3>3. pos[n] \in V6!FirstHit(addr) /\ hop = routes6[pos[n]].nh
      BY <1>4, <1>9, <3>1, <3>2
    <3> QED  BY <3>3 DEF V6!Lookup
  <2> QED  BY <2>1, <2>2
<1> QED  BY <1>13

\* When no prefix was added twice, only one route is the longest.
LEMMA OnlyOneLongest ==
  ASSUME Ordered6, AddedOnce, NEW addr
  PROVE  V6!Best(addr) = RteLookup6(addr)
<1>1. ASSUME NEW m \in LongestAt(addr), NEW n \in LongestAt(addr)
      PROVE  m = n
  <2>1. /\ m \in DOMAIN added6 /\ n \in DOMAIN added6
        /\ V6!Covers(added6[m], addr) /\ V6!Covers(added6[n], addr)
        /\ added6[m].depth <= added6[n].depth /\ added6[n].depth <= added6[m].depth
    BY DEF LongestAt, CoveringAt
  <2>2. added6[m].depth \in Nat /\ added6[n].depth \in Nat
    BY <2>1, ElementOfSeq, DepthsAreNats DEF Ordered6
  <2>3. added6[m].depth = added6[n].depth
    BY <2>1, <2>2
  <2>4. V6!Prefix(added6[m].net, added6[m].depth) = V6!Prefix(added6[n].net, added6[n].depth)
    BY <2>1, <2>3 DEF V6!Covers
  <2> QED  BY <2>1, <2>3, <2>4 DEF AddedOnce
<1>2. \A n \in LongestAt(addr) : n <= n
  <2>1. \A n \in LongestAt(addr) : n \in Nat
    BY DEF LongestAt, CoveringAt, Ordered6
  <2> QED  BY <2>1
<1>3. V6!Best(addr) = {added6[n].nh : n \in LongestAt(addr)}
  <2>1. FirstLongest(addr) = LongestAt(addr)
    BY <1>1, <1>2 DEF FirstLongest
  <2>2. V6!Best(addr) = {added6[n].nh : n \in FirstLongest(addr)}
    BY DEF V6!Best, FirstLongest, LongestAt, CoveringAt
  <2> QED  BY <2>1, <2>2
<1>4. RteLookup6(addr) = {added6[n].nh : n \in LongestAt(addr)}
  <2> DEFINE LastLongest == {n \in LongestAt(addr) : \A m \in LongestAt(addr) : m <= n}
  <2>1. LastLongest = LongestAt(addr)
    BY <1>1, <1>2
  <2>2. RteLookup6(addr) = {added6[n].nh : n \in LastLongest}
    BY DEF RteLookup6, LongestAt, CoveringAt
  <2> QED  BY <2>1, <2>2
<1> QED  BY <1>3, <1>4

\* A lookup in the IPv4 table and one in that of rte_lpm find the same hop.
LEMMA SameHop4 ==
  ASSUME IInv, NEW h \in Hi, NEW l \in Lo
  PROVE  App4(h, l) = NfApp4(h, l)
<1>1. Right(Found(h, l), routes, h, l) /\ Covering(h, l) = Cover(routes, h, l)
  BY DEF IInv, Covering, Cover
<1>2. LongestPrefixWins
  BY RoutesAreRight
<1>3. CASE Covering(h, l) = {}
  <2>1. Lookup(h, l) = NoRoute /\ RteLookup4(h, l) = {}
    BY <1>2, <1>3 DEF LongestPrefixWins, RteLookup4, Deepest
  <2> QED  BY <2>1 DEF App4, NfApp4, NfApp
<1>4. CASE Covering(h, l) # {}
  <2>1. PICK p \in Deepest(Covering(h, l)) : TRUE
    BY <1>1, <1>4 DEF Right
  <2>2. \A q \in Deepest(Covering(h, l)) : routes[q] = Lookup(h, l)
    BY <1>2 DEF LongestPrefixWins
  <2>3. RteLookup4(h, l) = {Lookup(h, l)}
    BY <2>1, <2>2 DEF RteLookup4
  <2>4. Lookup(h, l) # NoRoute
    BY <2>1, <2>2 DEF Deepest, Covering
  <2>5. (CHOOSE hop \in {Lookup(h, l)} : TRUE) = Lookup(h, l)
    OBVIOUS
  <2> QED  BY <2>3, <2>4, <2>5 DEF App4, NfApp4, NfApp
<1> QED  BY <1>3, <1>4

LEMMA L3RunsLpm == L3Spec => Spec
<1>1. L3Init => Init
  BY DEF L3Init
<1>2. [L3Next]_<<vars, ipv6, adds, routes6, added6>> => [Next]_vars
  BY DEF L3Next, AddRoute4, AddRoute6
<1> QED  BY <1>1, <1>2, PTL DEF L3Spec, Spec

(***************************************************************************)
(* app() of the l3fwd port and nf_app() of the C++ one give a frame the    *)
(* same next hop, that of the longest prefix, for any routes added in any  *)
(* order: in IPv4 as long as groups can be numbered, in IPv6 if no prefix  *)
(* is added twice.                                                         *)
(***************************************************************************)
THEOREM FramesFollowTheRoutes == L3Spec => [](Numbered => FramesLeaveForBestHop)
<1>1. ASSUME IInv, Ordered6
      PROVE  FramesLeaveForBestHop
  <2>1. \A h \in Hi, l \in Lo : App4(h, l) = NfApp4(h, l)
    BY <1>1, SameHop4
  <2>2. ASSUME NEW addr \in V6!Address
        PROVE  /\ App6(addr) = NfApp(V6!Best(addr))
               /\ AddedOnce => App6(addr) = NfApp6(addr)
    <3>1. V6!Lookup(addr) = V6!Best(addr)
      BY <1>1, FirstHitIsBest
    <3>2. App6(addr) = NfApp(V6!Best(addr))
      BY <3>1 DEF App6, NfApp
    <3>3. AddedOnce => V6!Best(addr) = RteLookup6(addr)
      BY <1>1, OnlyOneLongest
    <3> QED  BY <3>2, <3>3 DEF NfApp6
  <2> QED  BY <2>1, <2>2 DEF FramesLeaveForBestHop
<1>2. L3Spec => [](Numbered => IInv)
  BY L3RunsLpm, NumberedGroupsAreRight
<1> QED  BY <1>1, <1>2, OrderHolds, PTL
=============================================================================
