---------------------------- MODULE MaglevProofs ----------------------------
(***************************************************************************)
(* Proofs about the two algorithms of the maglev crate.                    *)
(*                                                                         *)
(* The populate loop, for every table size, every number of backends and   *)
(* every set of rows.  What TypeOK and PrefixTaken say needs no more; the  *)
(* rest needs N <= Sentinel, so that no backend has the number that marks  *)
(* a free slot.                                                            *)
(*                                                                         *)
(* Its rows: of a prime number of slots, the row that adds skip step by    *)
(* step visits each, and where nothing wraps the product gives that row.   *)
(*                                                                         *)
(* The checksum update, for every width of a word and every frame: sums    *)
(* that differ by a multiple of Word - 1 fold to the same word, 0 apart.   *)
(***************************************************************************)
EXTENDS MaglevPopulate, Checksum, SumProofs, FiniteSetTheorems, WellFoundedInduction, TLAPS

(***************************************************************************)
(* The inductive invariant.  The loop counter has to be tied to the table  *)
(* and to pc: only then does an unfinished loop have a free slot to find.  *)
(***************************************************************************)
LoopGoesOn == pc = "probe" => filled < K

IInv ==
  /\ TypeOK
  /\ PrefixTaken
  /\ FilledCountsClaims
  /\ LoopGoesOn
  /\ OntoRowsNeverOverrun
  /\ Balanced

LEMMA SlotsFinite == IsFiniteSet(Slots) /\ Cardinality(Slots) = K
  BY FS_Interval, PopulateAssumption DEF Slots

\* Quotient and remainder.
LEMMA RemainderOf ==
  ASSUME NEW x \in Nat, NEW k \in Nat \ {0}
  PROVE  x \div k \in Nat /\ x % k \in 0 .. k - 1 /\ x = k * (x \div k) + (x % k)
<1>1. x % k \in 0 .. k - 1
  OBVIOUS
<1>2. x = k * (x \div k) + (x % k)
  OBVIOUS
<1>3. x \div k \in Nat
  OBVIOUS
<1> QED  BY <1>1, <1>2, <1>3

\* A row is stored or computed as it is read.
LEMMA RowShape ==
  ASSUME TypeOK, NEW i \in Backends
  PROVE  /\ \E n \in {K, Reach} : rows[i] \in [0 .. n - 1 -> Slots]
         /\ next[i] \in 0 .. Reach - 1
         /\ next[i] = 0 \/ next[i] - 1 \in DOMAIN rows[i]
<1>1. PICK p \in RowSets : rows \in [Backends -> p]
  BY DEF TypeOK
<1>2. rows[i] \in AnyRow
  BY <1>1, PopulateAssumption
<1> QED  BY <1>2 DEF AnyRow, Slots, TypeOK

LEMMA WantedIsSlot ==
  ASSUME TypeOK, InRow
  PROVE  Wanted \in Slots
<1>1. turn \in Backends
  BY DEF TypeOK
<1> QED  BY <1>1, RowShape DEF InRow, Wanted

LEMMA AdvanceType ==
  ASSUME NEW j \in 0 .. Reach - 1
  PROVE  Advance(j) \in 0 .. Reach - 1 /\ (Advance(j) = 0 \/ Advance(j) = j + 1)
<1>1. Reach \in Nat \ {0} /\ j + 1 \in 0 .. Reach
  BY PopulateAssumption
<1>2. PICK x \in Nat : x = j + 1
  BY <1>1
<1>3. PICK q \in Nat, r \in 0 .. Reach - 1 : r = x % Reach /\ x = Reach * q + r
  BY <1>1, RemainderOf
<1>4. q = 0 \/ Reach * q >= Reach
  <2>1. ASSUME q # 0
        PROVE  Reach * q >= Reach
    <3>1. PICK d \in Nat : q = d + 1
      BY <1>3, <2>1
    <3>2. Reach * q = Reach * d + Reach /\ Reach * d \in Nat
      BY <1>1, <3>1
    <3> QED  BY <1>1, <3>2
  <2> QED  BY <2>1
<1>5. r = j + 1 \/ r = 0
  <2>1. PICK m \in Nat : m = Reach * q
    BY <1>1, <1>3
  <2>2. CASE q = 0
    BY <1>1, <1>2, <1>3, <2>2
  <2>3. CASE m >= Reach
    BY <1>1, <1>2, <1>3, <2>1, <2>3
  <2> QED  BY <1>4, <2>1, <2>2, <2>3
<1> QED  BY <1>2, <1>3, <1>5 DEF Advance

\* A cursor that read its row moves to the next entry, or to 0.
LEMMA CursorMoves ==
  ASSUME TypeOK, InRow, next' = [next EXCEPT ![turn] = Advance(@)]
  PROVE  /\ next' \in [Backends -> 0 .. Reach - 1]
         /\ \A i \in Backends : next'[i] = 0 \/ next'[i] - 1 \in DOMAIN rows[i]
<1>1. turn \in Backends /\ next \in [Backends -> 0 .. Reach - 1]
  BY DEF TypeOK
<1>2. next[turn] \in 0 .. Reach - 1 /\ next'[turn] = Advance(next[turn])
  BY <1>1
<1>3. next'[turn] \in 0 .. Reach - 1 /\ (next'[turn] = 0 \/ next'[turn] - 1 = next[turn])
  BY <1>2, AdvanceType
<1> QED  BY <1>1, <1>3 DEF TypeOK, InRow

LEMMA NextTurnType ==
  ASSUME TypeOK
  PROVE  /\ NextTurn \in Backends
         /\ \/ NextTurn = turn + 1
            \/ NextTurn = 0 /\ turn = N - 1
  BY PopulateAssumption DEF TypeOK, NextTurn, Backends

\* While slots are unclaimed there is a free one.
LEMMA FreeSlotExists ==
  ASSUME TypeOK, FilledCountsClaims, filled < K
  PROVE  \E s \in Slots : Free(s)
<1> SUFFICES ASSUME \A s \in Slots : ~Free(s) PROVE FALSE
  OBVIOUS
<1>1. Claimed = Slots
  BY DEF Claimed
<1> QED
  BY <1>1, SlotsFinite, PopulateAssumption DEF FilledCountsClaims, TypeOK

\* The free slot of an onto row lies at or behind its cursor.
LEMMA OntoRowHasEntry ==
  ASSUME TypeOK, PrefixTaken, FilledCountsClaims, filled < K, OntoRows
  PROVE  InRow
<1>1. PICK s \in Slots : Free(s)
  BY FreeSlotExists
<1>2. turn \in Backends
  BY DEF TypeOK
<1>3. PICK j \in DOMAIN rows[turn] : rows[turn][j] = s
  BY <1>2 DEF OntoRows, Onto
<1>4. PICK n \in Nat : DOMAIN rows[turn] = 0 .. n - 1
  BY <1>2, RowShape, PopulateAssumption
<1>5. next[turn] \in Nat
  BY <1>2 DEF TypeOK
<1>6. ~(j < next[turn])
  BY <1>1, <1>2, <1>3, <1>4, <1>5 DEF PrefixTaken
<1> QED
  BY <1>3, <1>4, <1>5, <1>6 DEF InRow

\* A claim adds exactly the slot asked for, and only to the claiming backend.
LEMMA ClaimAdds ==
  ASSUME TypeOK, Claim, N <= Sentinel
  PROVE  /\ Wanted \in Slots
         /\ table'[Wanted] = turn
         /\ \A s \in Slots \ {Wanted} : table'[s] = table[s]
         /\ Claimed' = Claimed \cup {Wanted}
         /\ Wanted \notin Claimed
         /\ \A i \in Backends : Wanted \notin Claims(i)
         /\ \A i \in Backends :
              Claims(i)' = IF i = turn THEN Claims(i) \cup {Wanted} ELSE Claims(i)
<1>1. Wanted \in Slots
  BY WantedIsSlot DEF Claim
<1>2. table' = [table EXCEPT ![Wanted] = turn]
  BY DEF Claim
<1>3. table'[Wanted] = turn /\ \A s \in Slots \ {Wanted} : table'[s] = table[s]
  BY <1>1, <1>2 DEF TypeOK
<1>4. turn # Sentinel /\ \A i \in Backends : i # Sentinel
  BY PopulateAssumption DEF TypeOK, Backends
<1>5. table[Wanted] = Sentinel
  BY DEF Claim, Free
<1>6. Claimed' = Claimed \cup {Wanted} /\ Wanted \notin Claimed
  BY <1>1, <1>3, <1>4, <1>5 DEF Claimed, Free
<1>7. \A i \in Backends : Wanted \notin Claims(i)
  BY <1>4, <1>5 DEF Claims
<1>8. ASSUME NEW i \in Backends
      PROVE  Claims(i)' = IF i = turn THEN Claims(i) \cup {Wanted} ELSE Claims(i)
  BY <1>1, <1>3, <1>4, <1>5 DEF Claims
<1> QED
  BY <1>1, <1>3, <1>6, <1>7, <1>8
-----------------------------------------------------------------------------
LEMMA InitIInv ==
  ASSUME Init, N <= Sentinel
  PROVE  IInv
<1> USE PopulateAssumption DEF Init
<1>1. TypeOK
  BY DEF TypeOK, Slots, Backends
<1>2. Claimed = {} /\ PrefixTaken
  BY DEF Claimed, Free, PrefixTaken
<1>3. FilledCountsClaims
  BY <1>2, FS_EmptySet DEF FilledCountsClaims
<1>4. LoopGoesOn /\ OntoRowsNeverOverrun
  BY DEF LoopGoesOn, OntoRowsNeverOverrun
<1>5. \A i \in Backends : Claims(i) = {}
  BY DEF Claims, Slots, Backends
<1>6. Balanced
  <2>1. \A i \in Backends : Cardinality(Claims(i)) = 0
    BY <1>5, FS_EmptySet
  <2>2. \A i \in Backends : ~(i < turn)
    BY DEF Backends
  <2> QED
    BY <2>1, <2>2 DEF Balanced
<1> QED
  BY <1>1, <1>2, <1>3, <1>4, <1>6 DEF IInv

LEMMA PassTakenIInv ==
  ASSUME IInv, PassTaken
  PROVE  IInv'
<1> USE DEF PassTaken
<1>0. TypeOK
  BY DEF IInv
<1>1. TypeOK /\ turn \in Backends /\ next[turn] \in 0 .. Reach - 1
  BY <1>0 DEF TypeOK
<1>2. TypeOK'
  BY <1>0, <1>1, CursorMoves DEF TypeOK
<1>3. Claimed' = Claimed /\ \A i \in Backends : Claims(i)' = Claims(i)
  BY DEF Claimed, Claims, Free
<1>4. PrefixTaken'
  <2> SUFFICES ASSUME NEW i \in Backends, NEW j \in 0 .. next'[i] - 1
               PROVE  ~Free(rows[i][j])'
    BY DEF PrefixTaken
  <2>1. i = turn => next'[i] = Advance(next[turn])
    BY <1>1 DEF TypeOK
  <2>2. i = turn => j = next[turn] \/ j \in 0 .. next[i] - 1
    BY <1>1, <2>1, AdvanceType
  <2>3. i # turn => j \in 0 .. next[i] - 1
    BY <1>1 DEF TypeOK
  <2> QED
    BY <2>2, <2>3 DEF IInv, PrefixTaken, Wanted, Free
<1>5. FilledCountsClaims' /\ Balanced'
  BY <1>3 DEF IInv, FilledCountsClaims, Balanced
<1>6. LoopGoesOn' /\ OntoRowsNeverOverrun'
  BY DEF IInv, LoopGoesOn, OntoRowsNeverOverrun, OntoRows, Onto
<1> QED
  BY <1>2, <1>4, <1>5, <1>6 DEF IInv

LEMMA ClaimIInv ==
  ASSUME IInv, Claim, N <= Sentinel
  PROVE  IInv'
<1>0. TypeOK
  BY DEF IInv
<1>1. TypeOK /\ turn \in Backends /\ next[turn] \in 0 .. Reach - 1
  BY <1>0 DEF TypeOK
<1>2. filled < K /\ filled \in Nat
  BY DEF IInv, LoopGoesOn, TypeOK, Claim
<1>3. TypeOK'
  <2>1. turn \in 0 .. Sentinel
    BY <1>1, PopulateAssumption DEF Backends
  <2>2. table' \in [Slots -> 0 .. Sentinel]
    BY <2>1, <1>1 DEF TypeOK, Claim
  <2>3. /\ next' \in [Backends -> 0 .. Reach - 1]
        /\ \A i \in Backends : next'[i] = 0 \/ next'[i] - 1 \in DOMAIN rows[i]
    BY <1>1, CursorMoves DEF Claim
  <2>4. turn' \in Backends
    BY <1>1, NextTurnType DEF Claim
  <2>5. filled' \in 0 .. K /\ pc' \in {"probe", "done", "overrun"}
    BY <1>2, PopulateAssumption DEF Claim
  <2> QED
    BY <2>2, <2>3, <2>4, <2>5, <1>1 DEF TypeOK, Claim
<1>4. PrefixTaken'
  <2> SUFFICES ASSUME NEW i \in Backends, NEW j \in 0 .. next'[i] - 1
               PROVE  ~Free(rows[i][j])'
    BY DEF PrefixTaken
  <2>1. rows[i][j] \in Slots /\ Free(rows[i][j])' => Free(rows[i][j])
    <3>1. turn # Sentinel
      BY <1>1, PopulateAssumption DEF Backends
    <3> QED
      BY <1>1, <3>1, ClaimAdds DEF Free, Claim
  <2>2. i = turn => next'[i] = Advance(next[turn])
    BY <1>1 DEF TypeOK, Claim
  <2>3. i = turn => j = next[turn] \/ j \in 0 .. next[i] - 1
    BY <1>1, <2>2, AdvanceType
  <2>4. i # turn => j \in 0 .. next[i] - 1
    BY <1>1 DEF TypeOK, Claim
  <2>5. rows[i][j] \in Slots
    <3>1. PICK n \in Nat : rows[i] \in [0 .. n - 1 -> Slots]
      BY <1>1, RowShape, PopulateAssumption
    <3>2. j \in 0 .. n - 1
      BY <1>1, <2>3, <2>4, <3>1, RowShape DEF InRow, Claim
    <3> QED  BY <3>1, <3>2
  <2>6. CASE j \in 0 .. next[i] - 1
    BY <2>6, <2>1, <2>5 DEF IInv, PrefixTaken, Claim, Free
  <2>7. CASE i = turn /\ j = next[turn]
    <3>1. rows'[i][j] = Wanted
      BY <2>7 DEF Wanted, Claim
    <3> QED
      BY <3>1, <1>1, ClaimAdds, PopulateAssumption DEF Free, Backends
  <2> QED
    BY <2>3, <2>4, <2>6, <2>7
<1>5. FilledCountsClaims'
  <2>1. IsFiniteSet(Claimed)
    BY SlotsFinite, FS_Subset DEF Claimed
  <2> QED
    BY <1>1, <2>1, ClaimAdds, FS_AddElement
    DEF IInv, FilledCountsClaims, Claim
<1>6. LoopGoesOn' /\ OntoRowsNeverOverrun'
  BY <1>2, PopulateAssumption
  DEF LoopGoesOn, OntoRowsNeverOverrun, Claim
<1>7. Balanced'
  <2> DEFINE c == [i \in Backends |-> Cardinality(Claims(i))]
  <2>1. \A i \in Backends : IsFiniteSet(Claims(i))
    BY SlotsFinite, FS_Subset DEF Claims
  <2>2. c \in [Backends -> Nat]
    BY <2>1, FS_CardinalityType
  <2>3. \A i \in Backends : c'[i] = IF i = turn THEN c[i] + 1 ELSE c[i]
    BY <1>1, <2>1, ClaimAdds, FS_AddElement
  <2>4. \A i, k \in Backends : c[i] = c[k] + (IF i < turn THEN 1 ELSE 0)
                                            - (IF k < turn THEN 1 ELSE 0)
    BY DEF IInv, Balanced
  <2>5. turn' = turn + 1 \/ (turn' = 0 /\ turn = N - 1)
    BY <1>1, NextTurnType DEF Claim
  <2>6. \A i, k \in Backends : c'[i] = c'[k] + (IF i < turn' THEN 1 ELSE 0)
                                             - (IF k < turn' THEN 1 ELSE 0)
    <3> HIDE DEF c
    <3> SUFFICES ASSUME NEW i \in Backends, NEW k \in Backends
                 PROVE  c'[i] = c'[k] + (IF i < turn' THEN 1 ELSE 0)
                                      - (IF k < turn' THEN 1 ELSE 0)
      OBVIOUS
    <3>1. c[i] = c[k] + (IF i < turn THEN 1 ELSE 0)
                      - (IF k < turn THEN 1 ELSE 0)
      BY <2>4
    <3>2. c[i] \in Nat /\ c[k] \in Nat
      BY <2>2
    <3>3. /\ c'[i] = IF i = turn THEN c[i] + 1 ELSE c[i]
          /\ c'[k] = IF k = turn THEN c[k] + 1 ELSE c[k]
      BY <2>3
    <3>4. i \in 0 .. N - 1 /\ k \in 0 .. N - 1 /\ turn \in 0 .. N - 1
      BY <1>1 DEF Backends
    <3>5. CASE turn' = turn + 1
      BY <3>1, <3>2, <3>3, <3>4, <3>5, PopulateAssumption
    <3>6. CASE turn' = 0 /\ turn = N - 1
      BY <3>1, <3>2, <3>3, <3>4, <3>6, PopulateAssumption
    <3> QED
      BY <2>5, <3>5, <3>6
  <2> QED
    BY <2>6 DEF Balanced
<1> QED
  BY <1>3, <1>4, <1>5, <1>6, <1>7 DEF IInv

LEMMA OverrunIInv ==
  ASSUME IInv, Overrun
  PROVE  IInv'
<1>1. ~OntoRows
  BY OntoRowHasEntry DEF IInv, LoopGoesOn, Overrun
<1>2. OntoRowsNeverOverrun'
  BY <1>1 DEF OntoRowsNeverOverrun, OntoRows, Onto, Overrun
<1>3. TypeOK' /\ LoopGoesOn'
  BY DEF IInv, TypeOK, LoopGoesOn, Overrun
<1>4. PrefixTaken' /\ FilledCountsClaims' /\ Balanced'
  BY DEF IInv, PrefixTaken, FilledCountsClaims, Claimed, Balanced, Claims,
         Free, Overrun
<1> QED
  BY <1>2, <1>3, <1>4 DEF IInv

LEMMA NextIInv ==
  ASSUME IInv, [Next]_vars, N <= Sentinel
  PROVE  IInv'
<1>1. CASE PassTaken
  BY <1>1, PassTakenIInv
<1>2. CASE Claim
  BY <1>2, ClaimIInv
<1>3. CASE Overrun
  BY <1>3, OverrunIInv
<1>4. CASE UNCHANGED vars
  BY <1>4
  DEF vars, IInv, TypeOK, PrefixTaken, FilledCountsClaims, Claimed, LoopGoesOn,
      OntoRowsNeverOverrun, OntoRows, Onto, Balanced, Claims, Free
<1> QED
  BY <1>1, <1>2, <1>3, <1>4 DEF Next
-----------------------------------------------------------------------------
(***************************************************************************)
(* The invariant holds throughout populate(), in each of its three copies, *)
(* for every table size, number of backends and choice of rows.            *)
(***************************************************************************)
THEOREM InvariantHolds ==
  ASSUME N <= Sentinel
  PROVE  Spec => []IInv
<1>1. Init => IInv
  BY InitIInv
<1>2. IInv /\ [Next]_vars => IInv'
  BY NextIInv
<1> QED
  BY <1>1, <1>2, PTL DEF Spec

(***************************************************************************)
(* Every variable of populate() keeps its type; in particular the counter  *)
(* never exceeds the table and a cursor never exceeds its row.             *)
(***************************************************************************)
THEOREM TypeCorrect ==
  ASSUME N <= Sentinel
  PROVE  Spec => []TypeOK
  BY InvariantHolds, PTL DEF IInv

(***************************************************************************)
(* populate() never reads behind a row when all rows visit every slot.     *)
(***************************************************************************)
THEOREM NeverOverruns ==
  ASSUME N <= Sentinel
  PROVE  Spec => []OntoRowsNeverOverrun
  BY InvariantHolds, PTL DEF IInv

(***************************************************************************)
(* populate() deals the slots out evenly, at every moment.                 *)
(***************************************************************************)
THEOREM SharesAreEven ==
  ASSUME N <= Sentinel
  PROVE  Spec => []Balanced
  BY InvariantHolds, PTL DEF IInv

(***************************************************************************)
(* The loop with its cursors implements the greedy allocation: a claim     *)
(* takes the free slot that comes first in the row of the backend on turn. *)
(***************************************************************************)
THEOREM PopulateImplementsGreedy ==
  ASSUME N <= Sentinel
  PROVE  Spec => ImplementsGreedy
<1>1. Init => Greedy!Init
  BY DEF Init, Greedy!Init, Slots, Backends, Greedy!Slots, Greedy!Backends
<1>2. ASSUME IInv, [Next]_vars
      PROVE  [Greedy!Claim]_<<rows, table, turn>>
  <2>1. CASE Claim
    <3> DEFINE j == next[turn]
    <3>1. turn \in Backends /\ j \in 0 .. Reach - 1 /\ j \in DOMAIN rows[turn]
      BY <1>2, <2>1 DEF IInv, TypeOK, Claim, InRow
    <3>2. Greedy!FirstFree(rows[turn], j)
      <4>1. Greedy!Free(rows[turn][j])
        BY <2>1 DEF Claim, Free, Wanted, Greedy!Free
      <4>2. \A k \in DOMAIN rows[turn] : k \in Nat
        BY <1>2, <3>1, RowShape, PopulateAssumption DEF IInv
      <4>3. \A k \in DOMAIN rows[turn] : k < j => ~Free(rows[turn][k])
        BY <1>2, <3>1, <4>2 DEF IInv, PrefixTaken
      <4> QED
        BY <4>1, <4>3 DEF Greedy!FirstFree, Greedy!Free, Free
    <3>3. /\ table' = [table EXCEPT ![rows[turn][j]] = turn]
          /\ turn' = IF turn + 1 = N THEN 0 ELSE turn + 1
          /\ rows' = rows
      BY <2>1 DEF Claim, Wanted, NextTurn
    <3> QED
      BY <3>1, <3>2, <3>3 DEF Greedy!Claim
  <2>2. CASE PassTaken \/ Overrun \/ UNCHANGED vars
    BY <2>2 DEF PassTaken, Overrun, vars
  <2> QED
    BY <1>2, <2>1, <2>2 DEF Next
<1> QED
  BY <1>1, <1>2, InvariantHolds, PTL DEF Spec, ImplementsGreedy, Greedy!Spec
-----------------------------------------------------------------------------
\* The rows, in words of 32 bits.
Steps == INSTANCE MaglevRows WITH Word <- 4294967296

\* K is a prime number, as 65537 is.
Prime == K > 1 /\ \A m \in 1 .. K, n \in Nat : K = m * n => m \in {1, K}

\* Hashes of a backend's name.
HashPairs == Nat \X Nat

\* No two numbers below K are the remainder of one number.
LEMMA OneRemainder ==
  ASSUME NEW p \in Nat, NEW q \in Nat, NEW r \in Slots, NEW s \in Slots, p * K + r = q * K + s
  PROVE  r = s
<1>1. K \in Nat \ {0} /\ r \in 0 .. K - 1 /\ s \in 0 .. K - 1
  BY PopulateAssumption DEF Slots
<1>2. ASSUME NEW a \in Nat, NEW b \in Nat, a < b
      PROVE  a * K + K <= b * K
  <2>1. PICK d \in Nat : b = a + 1 + d
    <3>1. b - a - 1 \in Nat /\ b = a + 1 + (b - a - 1)
      BY <1>2
    <3> QED  BY <3>1
  <2>2. b * K = a * K + K + d * K /\ d * K \in Nat
    BY <1>1, <2>1
  <2>3. a * K \in Nat
    BY <1>1
  <2> QED  BY <1>1, <2>2, <2>3
<1>3. p * K \in Nat /\ q * K \in Nat
  BY <1>1
<1>4. CASE p < q
  BY <1>1, <1>2, <1>3, <1>4
<1>5. CASE q < p
  BY <1>1, <1>2, <1>3, <1>5
<1>6. CASE p = q
  BY <1>1, <1>3, <1>6
<1> QED  BY <1>4, <1>5, <1>6

\* Adds skip to e, modulo K.
Added(e, skip) == IF e + skip >= K THEN (e + skip) - K ELSE e + skip

\* The sum of j skips, less K whenever it is reached, is the product modulo K.
IsProduct(off, skip, j, e) == e \in Slots /\ \E q \in Nat : off + j * skip = q * K + e
RowLaw(off, skip, f) ==
  f = [j \in Slots |-> IF j = 0 THEN off ELSE Added(f[j - 1], skip)]

LEMMA NextProduct ==
  ASSUME NEW off \in Slots, NEW skip \in Slots, NEW j \in Nat, NEW e, IsProduct(off, skip, j, e)
  PROVE  IsProduct(off, skip, j + 1, Added(e, skip))
<1>1. K \in Nat \ {0} /\ off \in 0 .. K - 1 /\ skip \in 0 .. K - 1 /\ e \in 0 .. K - 1
  BY PopulateAssumption DEF Slots, IsProduct
<1>2. PICK q \in Nat : off + j * skip = q * K + e
  BY DEF IsProduct
<1>3. (j + 1) * skip = j * skip + skip /\ j * skip \in Nat /\ q * K \in Nat
  BY <1>1
<1>4. (q + 1) * K = q * K + K
  BY <1>1
<1>5. off + (j + 1) * skip = q * K + (e + skip)
  BY <1>1, <1>2, <1>3
<1>6. CASE e + skip >= K
  <2>1. e + skip - K \in Slots /\ off + (j + 1) * skip = (q + 1) * K + (e + skip - K)
    BY <1>1, <1>3, <1>4, <1>5, <1>6 DEF Slots
  <2>2. Added(e, skip) = e + skip - K
    BY <1>1, <1>6 DEF Added
  <2> QED  BY <2>1, <2>2 DEF IsProduct
<1>7. CASE ~(e + skip >= K)
  <2>1. e + skip \in Slots
    BY <1>1, <1>7 DEF Slots
  <2>2. Added(e, skip) = e + skip
    BY <1>1, <1>7 DEF Added
  <2> QED  BY <1>5, <2>1, <2>2 DEF IsProduct
<1> QED  BY <1>6, <1>7

LEMMA FirstProduct ==
  ASSUME NEW off \in Slots, NEW skip \in Slots
  PROVE  IsProduct(off, skip, 0, off)
<1>1. off \in Nat /\ skip \in Nat /\ K \in Nat
  BY PopulateAssumption DEF Slots
<1>2. 0 * skip = 0 /\ 0 * K = 0
  BY <1>1
<1>3. off + 0 * skip = 0 * K + off
  BY <1>1, <1>2
<1> QED  BY <1>3 DEF IsProduct

\* Whatever obeys the law is the row of products; and something does.
LEMMA LawGivesProducts ==
  ASSUME NEW off \in Slots, NEW skip \in Slots, NEW f, RowLaw(off, skip, f)
  PROVE  \A j \in Slots : IsProduct(off, skip, j, f[j])
<1> DEFINE M == {j \in Nat : j \in Slots => IsProduct(off, skip, j, f[j])}
<1>0. K \in Nat \ {0}
  BY PopulateAssumption
<1>1. \A j \in Slots : f[j] = IF j = 0 THEN off
                              ELSE Added(f[j - 1], skip)
  <2>1. PICK g : g = [j \in Slots |-> IF j = 0 THEN off
                              ELSE Added(f[j - 1], skip)]
    OBVIOUS
  <2>2. g = f
    BY <2>1, Zenon DEF RowLaw
  <2> QED  BY <2>1, <2>2
<1>2. 0 \in M
  <2>1. 0 \in Slots /\ f[0] = off
    BY <1>0, <1>1 DEF Slots
  <2> QED  BY <2>1, FirstProduct
<1>3. ASSUME NEW j \in M
      PROVE  j + 1 \in M
  <2> SUFFICES ASSUME j + 1 \in Slots PROVE IsProduct(off, skip, j + 1, f[j + 1])
    OBVIOUS
  <2>1. j \in Nat /\ j \in Slots /\ j + 1 # 0 /\ (j + 1) - 1 = j
    BY <1>0 DEF Slots
  <2>2. f[j + 1] = Added(f[j], skip)
    BY <1>1, <2>1
  <2> QED  BY <2>1, <2>2, NextProduct
<1>4. M = Nat
  <2> HIDE DEF M
  <2>1. M \subseteq Nat
    BY DEF M
  <2> QED  BY <1>2, <1>3, <2>1, NumbersByInduction
<1>5. Slots \subseteq Nat
  BY <1>0 DEF Slots
<1> QED  BY <1>4, <1>5

LEMMA LawHasRow ==
  ASSUME NEW off \in Slots, NEW skip \in Slots
  PROVE  \E f : RowLaw(off, skip, f)
<1> DEFINE g == [j \in Slots |-> CHOOSE e : IsProduct(off, skip, j, e)]
           M == {j \in Nat : \E e : IsProduct(off, skip, j, e)}
<1>0. K \in Nat \ {0}
  BY PopulateAssumption
<1>1. M = Nat
  <2>1. 0 \in M /\ M \subseteq Nat
    BY FirstProduct
  <2>2. \A j \in M : j + 1 \in M
    BY NextProduct
  <2> HIDE DEF M
  <2> QED  BY <2>1, <2>2, NumbersByInduction
<1>2. \A j \in Slots : IsProduct(off, skip, j, g[j])
  <2>1. Slots \subseteq Nat
    BY <1>0 DEF Slots
  <2> QED  BY <1>1, <2>1
<1> HIDE DEF g
<1>3. \A j \in Nat : \A d, e : IsProduct(off, skip, j, d) /\ IsProduct(off, skip, j, e) => d = e
  BY OneRemainder DEF IsProduct
<1>4. ASSUME NEW j \in Slots
      PROVE  g[j] = IF j = 0 THEN off
                    ELSE Added(g[j - 1], skip)
  <2>1. j \in Nat /\ (j # 0 => j - 1 \in Slots /\ j - 1 \in Nat /\ (j - 1) + 1 = j)
    BY <1>0 DEF Slots
  <2>2. CASE j = 0
    BY <1>2, <1>3, <2>1, <2>2, FirstProduct
  <2>3. CASE j # 0
    <3>1. IsProduct(off, skip, (j - 1) + 1, Added(g[j - 1], skip))
      BY <1>2, <2>1, <2>3, NextProduct
    <3> QED  BY <1>2, <1>3, <2>1, <2>3, <3>1
  <2> QED  BY <2>2, <2>3
<1>5. g = [j \in Slots |-> IF j = 0 THEN off
                           ELSE Added(g[j - 1], skip)]
  <2>1. g = [j \in Slots |-> g[j]]
    BY DEF g
  <2> QED  BY <1>4, <2>1
<1> QED  BY <1>5 DEF RowLaw

LEMMA SeedTypes ==
  ASSUME K > 1, NEW seed \in HashPairs
  PROVE  Steps!Off(seed) \in Slots /\ Steps!Skip(seed) \in Slots \ {0}
<1>1. K \in Nat /\ seed[1] \in Nat /\ seed[2] \in Nat
  BY PopulateAssumption DEF HashPairs
<1>2. PICK k \in Nat : k = K - 1 /\ k > 0 /\ K = k + 1
  BY <1>1
<1>3. \A n \in Nat : n % K \in 0 .. K - 1 /\ n % k \in 0 .. k - 1
  BY <1>1, <1>2
<1>4. seed[1] % K \in 0 .. K - 1
  BY <1>1, <1>3
<1>5. (seed[2] % k) + 1 \in 1 .. K - 1
  <2>1. PICK n : n = seed[2] % k
    OBVIOUS
  <2>2. n \in 0 .. k - 1
    BY <1>1, <1>3, <2>1
  <2> QED  BY <1>1, <1>2, <2>1, <2>2
<1>6. Steps!Skip(seed) \in 1 .. K - 1
  BY <1>2, <1>5 DEF Steps!Skip
<1> QED  BY <1>1, <1>4, <1>6 DEF Steps!Off, Slots

(***************************************************************************)
(* The rows MaglevTable::build of rs/maglev adds up are the rows the other *)
(* two sources mean by (off + j * skip) % K, computed without overflow.    *)
(***************************************************************************)
THEOREM StepsAreProducts ==
  ASSUME K > 1, NEW seed \in HashPairs
  PROVE  /\ Steps!SteppedRow(seed) \in [Slots -> Slots]
         /\ \A j \in Slots :
              \E q \in Nat : Steps!Off(seed) + j * Steps!Skip(seed) = q * K + Steps!SteppedRow(seed)[j]
<1>1. PICK off \in Slots, skip \in Slots : off = Steps!Off(seed) /\ skip = Steps!Skip(seed)
  BY SeedTypes
<1>2. PICK f : RowLaw(off, skip, f) /\ Steps!SteppedRow(seed) = f
  <2>1. Steps!SteppedRow(seed) = CHOOSE f : RowLaw(off, skip, f)
    BY <1>1 DEF Steps!SteppedRow, RowLaw, Slots, Added
  <2> QED  BY <2>1, LawHasRow
<1>3. \A j \in Slots : IsProduct(off, skip, j, f[j])
  BY <1>2, LawGivesProducts
<1>4. f \in [Slots -> Slots]
  <2>1. f = [j \in Slots |-> f[j]]
    <3>1. \E g : f = [j \in Slots |-> g[j]]
      <4>1. PICK g : g = [j \in Slots |-> IF j = 0 THEN off
                              ELSE Added(f[j - 1], skip)]
        OBVIOUS
      <4>2. g = f
        BY <1>2, <4>1, Zenon DEF RowLaw
      <4> QED  BY <4>1, <4>2
    <3> QED  BY <3>1
  <2> QED  BY <1>3, <2>1 DEF IsProduct
<1> QED  BY <1>1, <1>2, <1>3, <1>4 DEF IsProduct

\* A set of numbers that is not empty has a least member.
LEMMA LeastNumber ==
  ASSUME NEW D \in SUBSET Nat, D # {}
  PROVE  \E m \in D : \A d \in D : m <= d
<1>1. PICK m \in D : \A d \in D : ~(<<d, m>> \in OpToRel(<, Nat))
  BY NatLessThanWellFounded, WFMin
<1>2. \A d \in D : d \in Nat /\ m \in Nat /\ ~(d < m)
  BY <1>1 DEF OpToRel
<1>3. \A d \in D : m <= d
  BY <1>2
<1> QED  BY <1>3

\* A prime divides no product of two numbers less than it.
LEMMA NoSmallMultiple ==
  ASSUME Prime, NEW d \in 1 .. K - 1, NEW s \in 1 .. K - 1, NEW q \in Int
  PROVE  d * s # q * K
<1> DEFINE D == {m \in 1 .. K : \E p \in Int : m * s = p * K}
<1>0. K \in Nat \ {0} /\ K > 1 /\ s \in Nat
  BY PopulateAssumption DEF Prime
<1>1. K \in D
  <2>1. K * s = s * K /\ s \in Int
    BY <1>0
  <2> QED  BY <1>0, <2>1
<1>2. PICK m \in D : \A e \in D : m <= e
  <2>1. D \in SUBSET Nat /\ D # {}
    BY <1>0, <1>1
  <2> HIDE DEF D
  <2> QED  BY <2>1, LeastNumber
<1>3. PICK p \in Int : m * s = p * K
  BY <1>2
<1>4. m \in Nat \ {0} /\ m <= K
  BY <1>0, <1>2
<1>5. PICK t, r : t = K \div m /\ r = K % m
  OBVIOUS
<1>6. t \in Nat /\ r \in 0 .. m - 1 /\ K = m * t + r
  BY <1>0, <1>4, <1>5
<1>7. r = 0
  <2> SUFFICES ASSUME r \in 1 .. m - 1 PROVE FALSE
    BY <1>4, <1>6
  <2>1. r * s = (s - t * p) * K
    <3>1. r = K - m * t
      BY <1>0, <1>4, <1>6
    <3>2. r * s = K * s - (m * t) * s
      BY <1>0, <1>4, <1>6, <3>1
    <3>3. (m * t) * s = t * (m * s)
      BY <1>0, <1>4, <1>6
    <3>4. t * (p * K) = (t * p) * K
      BY <1>0, <1>3, <1>6
    <3>5. r * s = K * s - (t * p) * K
      BY <1>3, <3>2, <3>3, <3>4
    <3>6. PICK u \in Int : u = t * p
      BY <1>3, <1>6
    <3>7. K * s - u * K = (s - u) * K
      BY <1>0, <3>6
    <3> QED  BY <3>5, <3>6, <3>7
  <2>2. s - t * p \in Int
    BY <1>0, <1>3, <1>6
  <2>3. r \in D
    BY <1>0, <1>4, <2>1, <2>2
  <2> QED  BY <1>2, <1>4, <2>3
<1>8. m \in {1, K}
  <2>1. K = m * t /\ m \in 1 .. K
    BY <1>0, <1>4, <1>6, <1>7
  <2> QED  BY <1>6, <2>1 DEF Prime
<1>9. m # 1
  <2> SUFFICES ASSUME m = 1 PROVE FALSE
    OBVIOUS
  <2>1. s = p * K
    BY <1>0, <1>3
  <2>2. CASE p <= 0
    <3>1. p * K <= 0
      BY <1>0, <2>2
    <3> QED  BY <2>1, <3>1
  <2>3. CASE p >= 1
    <3>1. p * K >= K
      BY <1>0, <2>3
    <3> QED  BY <1>0, <2>1, <3>1
  <2> QED  BY <2>2, <2>3
<1> QED
  <2> SUFFICES ASSUME d * s = q * K PROVE FALSE
    OBVIOUS
  <2>1. d \in D
    BY <1>0
  <2> QED  BY <1>0, <1>2, <1>8, <1>9, <2>1

\* Two entries of a row are different, so that it visits every slot.
LEMMA SteppedRowsAreOnto ==
  ASSUME Prime, NEW seed \in HashPairs
  PROVE  \A x \in Slots : \E j \in Slots : Steps!SteppedRow(seed)[j] = x
<1>0. K \in Nat \ {0} /\ K > 1
  BY PopulateAssumption DEF Prime
<1>1. PICK off \in Slots, skip \in Slots \ {0} : off = Steps!Off(seed) /\ skip = Steps!Skip(seed)
  BY <1>0, SeedTypes
<1>2. PICK row \in [Slots -> Slots] :
        /\ row = Steps!SteppedRow(seed)
        /\ \A j \in Slots : \E q \in Nat : off + j * skip = q * K + row[j]
  BY <1>0, <1>1, StepsAreProducts
<1>3. off \in Nat /\ skip \in 1 .. K - 1 /\ \A j \in Slots : j \in 0 .. K - 1 /\ row[j] \in Nat
  <2>1. off \in Nat /\ skip \in 1 .. K - 1
    BY <1>0 DEF Slots
  <2>2. \A j \in Slots : j \in 0 .. K - 1 /\ row[j] \in Slots
    BY DEF Slots
  <2>3. \A x \in Slots : x \in Nat
    BY <1>0 DEF Slots
  <2> QED  BY <2>1, <2>2, <2>3
<1>4. ASSUME NEW i \in Slots, NEW j \in Slots, i < j, row[i] = row[j]
      PROVE  FALSE
  <2>1. PICK p \in Nat : off + i * skip = p * K + row[i]
    BY <1>2
  <2>2. PICK q \in Nat : off + j * skip = q * K + row[i]
    BY <1>2, <1>4
  <2>3. j - i \in 1 .. K - 1 /\ i \in Nat /\ j \in Nat
    BY <1>0, <1>3, <1>4
  <2>4. (j - i) * skip = j * skip - i * skip /\ i * skip \in Nat /\ j * skip \in Nat
    BY <1>3, <2>3
  <2>5. (q - p) * K = q * K - p * K /\ p * K \in Nat /\ q * K \in Nat
    BY <1>0
  <2>6. (j - i) * skip = (q - p) * K /\ q - p \in Int
    BY <1>3, <2>1, <2>2, <2>4, <2>5
  <2> QED  BY <1>3, <2>3, <2>6, NoSmallMultiple
<1>5. \A i, j \in Slots : row[i] = row[j] => i = j
  <2>1. \A i, j \in Slots : i \in Nat /\ j \in Nat /\ (i = j \/ i < j \/ j < i)
    BY <1>0 DEF Slots
  <2> QED  BY <1>4, <2>1
<1>6. row \in Injection(Slots, Slots)
  BY <1>5 DEF Injection, IsInjective
<1>7. row \in Surjection(Slots, Slots)
  BY <1>6, FS_Injection, SlotsFinite
<1> QED  BY <1>2, <1>7 DEF Surjection


\* Seeds for which no entry of the row needs more than 32 bits.
Unwrapped == {seed \in HashPairs : Steps!Off(seed) + (K - 1) * Steps!Skip(seed) < 4294967296}

(***************************************************************************)
(* Where nothing wraps, (off + j * skip) % K of maglev.cpp and table.rs    *)
(* gives the row that rs/maglev computes with additions.                   *)
(***************************************************************************)
THEOREM UnwrappedRowsAreSteps ==
  ASSUME K > 1, NEW seed \in Unwrapped
  PROVE  Steps!WrappedRow(seed, K) = Steps!SteppedRow(seed)
<1>0. K \in Nat \ {0} /\ seed \in HashPairs
  BY PopulateAssumption DEF Unwrapped
<1>1. PICK off \in Slots, skip \in Slots \ {0} : off = Steps!Off(seed) /\ skip = Steps!Skip(seed)
  BY <1>0, SeedTypes
<1>2. PICK row \in [Slots -> Slots] :
        /\ row = Steps!SteppedRow(seed)
        /\ \A j \in Slots : \E q \in Nat : off + j * skip = q * K + row[j]
  BY <1>0, <1>1, StepsAreProducts
<1>3. off \in Nat /\ skip \in Nat /\ off + (K - 1) * skip < 4294967296
  BY <1>0, <1>1 DEF Slots, Unwrapped
<1>4. ASSUME NEW j \in Slots
      PROVE  ((off + ((j * skip) % 4294967296)) % 4294967296) % K = row[j]
  <2>1. j \in Nat /\ (K - 1) - j \in Nat
    BY <1>0 DEF Slots
  <2>2. PICK d \in Nat : (K - 1) - j = d
    BY <2>1
  <2>3. (K - 1) * skip = j * skip + d * skip /\ d * skip \in Nat /\ j * skip \in Nat
    <3>1. K - 1 = j + d
      BY <1>0, <2>1, <2>2
    <3>2. (j + d) * skip = j * skip + d * skip
      BY <1>3, <2>1, <2>2
    <3> QED  BY <1>3, <2>1, <2>2, <3>1, <3>2
  <2>4. PICK n \in Nat : n = j * skip /\ off + n < 4294967296
    BY <1>3, <2>3
  <2>5. (off + (n % 4294967296)) % 4294967296 = off + n
    BY <1>3, <2>4
  <2>6. PICK x \in Nat : x = off + n
    BY <1>3, <2>4
  <2>7. PICK p, r : p = x \div K /\ r = x % K
    OBVIOUS
  <2>8. p \in Nat /\ r \in 0 .. K - 1 /\ x = K * p + r
    BY <1>0, <2>6, <2>7, RemainderOf
  <2>9. x = p * K + r /\ r \in Slots
    BY <1>0, <2>8 DEF Slots
  <2>10. PICK q \in Nat : x = q * K + row[j]
    BY <1>2, <2>4, <2>6
  <2>11. r = row[j]
    <3>1. row[j] \in Slots /\ p * K + r = q * K + row[j]
      BY <1>2, <2>9, <2>10
    <3> QED  BY <2>8, <2>9, <3>1, OneRemainder
  <2> QED  BY <2>4, <2>5, <2>6, <2>7, <2>11
<1>5. Steps!WrappedRow(seed, K) = [j \in Slots |-> row[j]]
  BY <1>1, <1>4 DEF Steps!WrappedRow, Slots
<1> QED  BY <1>2, <1>5

(***************************************************************************)
(* MaglevTable::build of rs/maglev indexes perm[i][next[i]] without a      *)
(* bound (maglev_table.rs:47), and so does maglev.cpp.  The one never      *)
(* leaves a row, whatever the names of the backends hash to, because the   *)
(* number of slots is prime; nor does the other, if no row of it wraps.    *)
(***************************************************************************)
THEOREM BuildStaysInRows ==
  ASSUME Prime, N <= Sentinel,
         NEW SafeRows, RowSets \subseteq SUBSET SafeRows,
         SafeRows = {Steps!SteppedRow(seed) : seed \in HashPairs}
                      \cup {Steps!WrappedRow(seed, K) : seed \in Unwrapped}
  PROVE  Spec => [](pc # "overrun")
<1>1. TypeOK /\ OntoRowsNeverOverrun => pc # "overrun"
  <2> SUFFICES ASSUME TypeOK PROVE OntoRows
    BY DEF OntoRowsNeverOverrun
  <2>1. ASSUME NEW i \in Backends
        PROVE  Onto(rows[i])
    <3>1. rows[i] \in SafeRows
      BY DEF TypeOK
    <3>2. \A seed \in Unwrapped : seed \in HashPairs /\ Steps!WrappedRow(seed, K) = Steps!SteppedRow(seed)
      BY UnwrappedRowsAreSteps DEF Unwrapped, Prime
    <3>3. PICK seed \in HashPairs : rows[i] = Steps!SteppedRow(seed)
      BY <3>1, <3>2
    <3>4. DOMAIN rows[i] = Slots
      <4>1. \E off, skip \in Slots : off = Steps!Off(seed) /\ skip = Steps!Skip(seed)
        BY PopulateAssumption, SeedTypes DEF Prime
      <4> QED  BY <3>3, <4>1, PopulateAssumption, StepsAreProducts DEF Prime
    <3> QED  BY <3>3, <3>4, SteppedRowsAreOnto DEF Onto
  <2> QED  BY <2>1 DEF OntoRows
<1> QED  BY <1>1, TypeCorrect, NeverOverruns, PTL
-----------------------------------------------------------------------------
\* Sums that differ by a multiple of Word - 1, as a sum and its fold do.
Multiples == {k * (Word - 1) : k \in Int}
Congruent(x, y) == x - y \in Multiples

LEMMA MultiplesAdd ==
  ASSUME Word \in Nat, Word > 1
  PROVE  /\ Multiples \subseteq Int
         /\ \A a, b \in Multiples : a + b \in Multiples /\ a - b \in Multiples
         /\ \A a \in Multiples : -(Word - 1) < a /\ a < Word - 1 => a = 0
         /\ 0 \in Multiples /\ Word - 1 \in Multiples
<1>1. PICK m \in Nat \ {0} : m = Word - 1
  OBVIOUS
<1>2. Multiples = {k * m : k \in Int}
  BY <1>1 DEF Multiples
<1>3. ASSUME NEW a \in Multiples, NEW b \in Multiples
      PROVE  a \in Int /\ a + b \in Multiples /\ a - b \in Multiples
  <2>1. PICK k \in Int, l \in Int : a = k * m /\ b = l * m
    BY <1>2, <1>3
  <2>2. a + b = (k + l) * m /\ a - b = (k - l) * m /\ k + l \in Int /\ k - l \in Int /\ a \in Int
    BY <1>1, <2>1
  <2> QED  BY <1>2, <2>2
<1>4. ASSUME NEW a \in Multiples, -m < a, a < m
      PROVE  a = 0
  <2>1. PICK k \in Int : a = k * m
    BY <1>2, <1>4
  <2>2. CASE k >= 1
    <3>1. k * m >= m
      BY <1>1, <2>2
    <3> QED  BY <1>1, <1>4, <2>1, <3>1
  <2>3. CASE k <= -1
    <3>1. k * m <= -m
      <4>1. PICK j \in Nat : k = -1 - j
        <5>1. -1 - k \in Nat /\ k = -1 - (-1 - k)
          BY <2>3
        <5> QED  BY <5>1
      <4>2. k * m = -m - j * m /\ j * m \in Nat
        BY <1>1, <4>1
      <4> QED  BY <1>1, <4>2
    <3> QED  BY <1>1, <1>4, <2>1, <3>1
  <2>4. k = 0 => k * m = 0
    BY <1>1
  <2> QED  BY <2>1, <2>2, <2>3, <2>4
<1>5. 0 * m = 0 /\ 1 * m = m /\ 0 \in Int /\ 1 \in Int
  BY <1>1
<1>6. 0 \in Multiples /\ m \in Multiples
  BY <1>2, <1>5
<1>7. \A a, b \in Multiples : a + b \in Multiples /\ a - b \in Multiples
  BY <1>3
<1>8. \A a \in Multiples : -m < a /\ a < m => a = 0
  BY <1>4
<1> QED  BY <1>1, <1>3, <1>6, <1>7, <1>8

LEMMA CongruentSums ==
  ASSUME Word \in Nat, Word > 1,
         NEW x \in Int, NEW y \in Int, Congruent(x, y)
  PROVE  /\ Congruent(y, x) /\ Congruent(x, x)
         /\ \A z \in Int : Congruent(y, z) => Congruent(x, z)
         /\ \A z \in Int : Congruent(x + z, y + z)
         /\ Congruent(x, y + (Word - 1)) /\ Congruent(x + (Word - 1), y)
<1>1. PICK a \in Int : a = x - y /\ a \in Multiples /\ 0 \in Multiples /\ Word - 1 \in Multiples
  BY MultiplesAdd DEF Congruent
<1>2. PICK m \in Int : m = Word - 1 /\ m \in Multiples
  BY <1>1
<1>3. \A b, c \in Multiples : b + c \in Multiples /\ b - c \in Multiples
  BY MultiplesAdd
<1>4. Congruent(y, x) /\ Congruent(x, x)
  <2>1. 0 - a \in Multiples /\ y - x = 0 - a /\ x - x = 0
    BY <1>1, <1>3
  <2> QED  BY <1>1, <2>1 DEF Congruent
<1>5. ASSUME NEW z \in Int, Congruent(y, z)
      PROVE  Congruent(x, z)
  <2>1. PICK b \in Int : b = y - z /\ b \in Multiples
    BY <1>5 DEF Congruent
  <2>2. a + b \in Multiples /\ x - z = a + b
    BY <1>1, <1>3, <2>1
  <2> QED  BY <2>2 DEF Congruent
<1>6. ASSUME NEW z \in Int
      PROVE  Congruent(x + z, y + z)
  <2>1. (x + z) - (y + z) = a
    BY <1>1
  <2> QED  BY <1>1, <2>1 DEF Congruent
<1>7. Congruent(x, y + m) /\ Congruent(x + m, y)
  <2>1. /\ a - m \in Multiples /\ x - (y + m) = a - m
        /\ a + m \in Multiples /\ (x + m) - y = a + m
    BY <1>1, <1>2, <1>3
  <2> QED  BY <2>1 DEF Congruent
<1> QED  BY <1>2, <1>4, <1>5, <1>6, <1>7

LEMMA OneOfEach ==
  ASSUME Word \in Nat, Word > 1, NEW x \in 1 .. Word - 1, NEW y \in 1 .. Word - 1, Congruent(x, y)
  PROVE  x = y
<1>1. PICK a \in Int : a = x - y /\ a \in Multiples
  BY DEF Congruent
<1>2. -(Word - 1) < a /\ a < Word - 1
  BY <1>1
<1>3. a = 0
  BY <1>1, <1>2, MultiplesAdd
<1> QED  BY <1>1, <1>3
-----------------------------------------------------------------------------
\* What folding a sum gives, and that it can be had in no other way.
Remainder(s) == IF s = 0 THEN 0 ELSE CHOOSE r \in 1 .. Word - 1 : Congruent(s, r)
Folds(f) == [s \in Nat |-> IF s < Word THEN s ELSE f[(s % Word) + (s \div Word)]]

LEMMA Folded ==
  ASSUME Word \in Nat, Word > 1
  PROVE  /\ Fold[0] = 0
         /\ \A s \in Nat \ {0} : Fold[s] \in 1 .. Word - 1 /\ Congruent(s, Fold[s])
<1>1. ASSUME NEW s \in Nat, s >= Word
      PROVE  LET n == (s % Word) + (s \div Word)
             IN  /\ n \in Nat \ {0} /\ n < s
                 /\ s - n \in Multiples
  <2>1. PICK w \in Nat : w = Word /\ w > 1
    OBVIOUS
  <2>2. PICK q \in Int, r \in 0 .. w - 1 : q = s \div w /\ r = s % w /\ s = w * q + r
    BY <1>1, <2>1
  <2>3. q >= 1
    <3>1. CASE q <= 0
      <4>1. w * q <= 0
        BY <2>1, <3>1
      <4> QED  BY <1>1, <2>1, <2>2, <4>1
    <3> QED  BY <3>1
  <2>4. PICK p \in Int : p = q * (w - 1)
    BY <2>1
  <2>5. w * q = q + p /\ p >= 1
    BY <2>1, <2>3, <2>4
  <2>6. PICK n \in Int : n = r + q
    OBVIOUS
  <2>7. n \in Nat \ {0} /\ n < s /\ s - n = p
    <3>1. s = q + p + r
      BY <2>2, <2>5
    <3> QED  BY <2>2, <2>3, <2>5, <2>6, <3>1
  <2>8. s - n \in Multiples
    BY <2>1, <2>4, <2>7 DEF Multiples
  <2>9. n = (s % Word) + (s \div Word)
    BY <2>1, <2>2, <2>6
  <2> QED  BY <2>7, <2>8, <2>9
<1>2. ASSUME NEW s \in Nat \ {0}
      PROVE  Remainder(s) \in 1 .. Word - 1 /\ Congruent(s, Remainder(s))
  <2>1. PICK m \in Nat \ {0} : m = Word - 1
    OBVIOUS
  <2>2. PICK q \in Int, r \in Int : q = (s - 1) \div m /\ r = (s - 1) % m
    BY <2>1
  <2>3. r \in 0 .. m - 1 /\ s - 1 = m * q + r
    BY <2>1, <2>2
  <2>4. 1 + r \in 1 .. Word - 1 /\ s - (1 + r) = q * m
    BY <2>1, <2>3
  <2>5. Congruent(s, 1 + r)
    BY <2>1, <2>4 DEF Congruent, Multiples
  <2> QED  BY <2>4, <2>5 DEF Remainder
<1> DEFINE g == [s \in Nat |-> Remainder(s)]
<1>3. ASSUME NEW s \in Nat
      PROVE  g[s] = IF s < Word THEN s ELSE g[(s % Word) + (s \div Word)]
  <2>1. CASE s = 0
    BY <2>1 DEF Remainder
  <2>2. CASE s \in 1 .. Word - 1
    <3>1. Congruent(Remainder(s), s) /\ Remainder(s) \in 1 .. Word - 1
      BY <1>2, <2>2, CongruentSums
    <3> QED  BY <2>2, <3>1, OneOfEach
  <2>3. CASE s >= Word
    <3>1. PICK n : n = (s % Word) + (s \div Word)
      OBVIOUS
    <3>2. n \in Nat \ {0} /\ s - n \in Multiples
      BY <1>1, <2>3, <3>1
    <3>3. Congruent(s, n)
      BY <3>2 DEF Congruent
    <3>4. Congruent(n, Remainder(n)) /\ Remainder(n) \in 1 .. Word - 1
      BY <1>2, <3>2
    <3>5. Congruent(Remainder(s), s) /\ Remainder(s) \in 1 .. Word - 1 /\ s \in Nat \ {0}
      BY <1>2, <2>3, CongruentSums
    <3>6. Congruent(Remainder(s), Remainder(n))
      <4>1. Congruent(s, Remainder(n))
        BY <3>2, <3>3, <3>4, CongruentSums
      <4> QED  BY <3>4, <3>5, <4>1, CongruentSums
    <3>7. Remainder(s) = Remainder(n)
      BY <3>4, <3>5, <3>6, OneOfEach
    <3> QED  BY <2>3, <3>1, <3>2, <3>7
  <2> QED  BY <2>1, <2>2, <2>3
<1>4. g = Folds(g)
  BY <1>3 DEF Folds
<1>5. PICK f : f = Fold
  OBVIOUS
<1>6. f = Folds(f)
  <2>1. f = CHOOSE h : h = Folds(h)
    BY <1>5 DEF Fold, Folds
  <2> HIDE DEF g
  <2> QED  BY <1>4, <2>1
<1>7. ASSUME NEW s \in Nat, f[s] # g[s]
      PROVE  FALSE
  <2> DEFINE M == {k \in Nat : f[k] # g[k]}
  <2>1. PICK n \in M : \A k \in M : ~(<<k, n>> \in OpToRel(<, Nat))
    BY <1>7, NatLessThanWellFounded, WFMin
  <2>2. n \in Nat /\ f[n] # g[n]
    BY <2>1
  <2>3. \A k \in Nat : k < n => f[k] = g[k]
    BY <2>1, <2>2 DEF OpToRel
  <2> HIDE DEF g, M
  <2>4. f[n] = IF n < Word THEN n ELSE f[(n % Word) + (n \div Word)]
    BY <1>6, <2>2 DEF Folds
  <2>5. CASE n < Word
    BY <1>3, <2>2, <2>4, <2>5
  <2>6. CASE n >= Word
    <3>1. PICK k : k = (n % Word) + (n \div Word)
      OBVIOUS
    <3>2. k \in Nat /\ k < n
      BY <1>1, <2>2, <2>6, <3>1
    <3>3. ~(n < Word)
      BY <2>2, <2>6
    <3> QED  BY <1>3, <2>2, <2>3, <2>4, <3>1, <3>2, <3>3
  <2> QED  BY <2>2, <2>5, <2>6
<1>8. \A s \in Nat : Fold[s] = Remainder(s)
  BY <1>5, <1>7
<1>9. Remainder(0) = 0
  BY DEF Remainder
<1> QED  BY <1>2, <1>8, <1>9
-----------------------------------------------------------------------------
\* The sum a checksum stands for.
SumOf(sum, addr) == sum + addr[1] + addr[2]
StandsFor(c, sum, addr) == Congruent(Word - 1 - c, SumOf(sum, addr))

LEMMA ChecksumTypes ==
  /\ Word \in Nat /\ Word > 1
  /\ \A sum \in Sums, addr \in Addresses :
       /\ addr[1] \in 0 .. Word - 1 /\ addr[2] \in 0 .. Word - 1
       /\ SumOf(sum, addr) \in Nat \ {0} /\ sum \in Nat
BY ChecksumAssumption DEF Addresses, Words, SumOf

LEMMA FullStands ==
  ASSUME NEW sum \in Sums, NEW addr \in Addresses
  PROVE  /\ Full(sum, addr) \in 0 .. Word - 2
         /\ StandsFor(Full(sum, addr), sum, addr)
         /\ \A c \in 0 .. Word - 2 : StandsFor(c, sum, addr) => c = Full(sum, addr)
<1>1. PICK m \in Nat \ {0} : m = Word - 1 /\ m - 1 = Word - 2
  BY ChecksumTypes
<1>2. PICK t \in Nat \ {0} : t = SumOf(sum, addr)
  BY ChecksumTypes
<1>3. PICK r \in 1 .. m : r = Fold[t] /\ Congruent(t, r)
  BY <1>1, ChecksumTypes, Folded
<1>4. PICK f : f = Full(sum, addr)
  OBVIOUS
<1>5. f = m - r
  BY <1>1, <1>2, <1>3, <1>4 DEF Full, Not, SumOf
<1>6. f \in 0 .. m - 1 /\ m - f = r
  BY <1>5
<1>7. Congruent(r, t)
  BY <1>3, ChecksumTypes, CongruentSums
<1>8. ASSUME NEW c \in 0 .. m - 1, StandsFor(c, sum, addr)
      PROVE  c = f
  <2>1. m - c \in 1 .. m /\ Congruent(m - c, t)
    BY <1>1, <1>2, <1>8 DEF StandsFor
  <2>2. Congruent(m - c, r)
    BY <1>3, <2>1, ChecksumTypes, CongruentSums
  <2>3. m - c = r
    BY <1>1, <2>1, <2>2, ChecksumTypes, OneOfEach
  <2> QED  BY <1>5, <2>3
<1> QED  BY <1>1, <1>2, <1>4, <1>6, <1>7, <1>8 DEF StandsFor

\* One incremental update takes the old word out of the sum and the new one in.
LEMMA OneUpdate ==
  ASSUME NEW c \in 0 .. Word - 1,
         NEW old \in 0 .. Word - 1, NEW new \in 0 .. Word - 1
  PROVE  /\ IncrUpdate(c, old, new) \in 0 .. Word - 1
         /\ Congruent(Word - 1 - IncrUpdate(c, old, new), (Word - 1 - c) - old + new)
         /\ c # Word - 1 => IncrUpdate(c, old, new) # Word - 1
<1>1. PICK m \in Nat \ {0} : m = Word - 1
  BY ChecksumTypes
<1>2. PICK t \in Nat : t = (m - c) + (m - old) + new
  BY <1>1
<1>3. PICK d : d = IncrUpdate(c, old, new)
  OBVIOUS
<1>4. d = m - Fold[t]
  BY <1>1, <1>2, <1>3 DEF IncrUpdate, Not
<1>5. PICK e \in Int : e = (m - c) - old + new /\ t = e + m
  BY <1>1, <1>2
<1>6. CASE t = 0
  <2>1. d = m
    BY <1>4, <1>6, ChecksumTypes, Folded
  <2>2. 0 \in Int /\ Congruent(0, 0)
    BY MultiplesAdd, ChecksumTypes DEF Congruent
  <2>3. Congruent(e + m, 0)
    BY <1>5, <1>6, <2>2
  <2>4. Congruent(0, e)
    <3>1. -m \in Int /\ e = -m
      BY <1>5, <1>6
    <3>2. m \in Multiples /\ 0 - e = m
      BY <1>1, <3>1, ChecksumTypes, MultiplesAdd
    <3> QED  BY <3>2 DEF Congruent
  <2>5. c = m
    BY ChecksumTypes, <1>1, <1>2, <1>6
  <2> QED  BY <1>1, <1>3, <1>5, <2>1, <2>4, <2>5
<1>7. CASE t # 0
  <2>1. PICK r \in 1 .. m : r = Fold[t] /\ Congruent(t, r)
    BY <1>1, <1>7, ChecksumTypes, Folded
  <2>2. d = m - r /\ d \in 0 .. m - 1 /\ m - d = r
    BY <1>4, <2>1
  <2>3. Congruent(r, t)
    BY <2>1, ChecksumTypes, CongruentSums
  <2>4. Congruent(r, e)
    <3>1. PICK a \in Int : a = r - t /\ a \in Multiples
      BY <2>3 DEF Congruent
    <3>2. a + m \in Multiples /\ r - e = a + m
      BY <1>1, <1>5, <3>1, ChecksumTypes, MultiplesAdd
    <3> QED  BY <3>2 DEF Congruent
  <2> QED  BY <1>1, <1>3, <1>5, <2>2, <2>4
<1> QED  BY <1>6, <1>7

LEMMA BothUpdates ==
  ASSUME daddr \in Addresses,
         NEW addr \in Addresses, NEW sum \in Sums,
         NEW c \in 0 .. Word - 1, StandsFor(c, sum, daddr)
  PROVE  /\ Updated(c, addr) \in 0 .. Word - 1
         /\ StandsFor(Updated(c, addr), sum, addr)
         /\ c # Word - 1 => Updated(c, addr) # Word - 1
<1>1. PICK m \in Nat \ {0} : m = Word - 1
  BY ChecksumTypes
<1>2. /\ daddr[1] \in 0 .. m /\ daddr[2] \in 0 .. m /\ addr[1] \in 0 .. m /\ addr[2] \in 0 .. m
      /\ sum \in Nat
  BY <1>1, ChecksumTypes
<1>3. PICK d : d = IncrUpdate(c, daddr[1], addr[1])
  OBVIOUS
<1>4. PICK e : e = IncrUpdate(d, daddr[2], addr[2]) /\ e = Updated(c, addr)
  BY <1>3 DEF Updated
<1>5. d \in 0 .. m /\ Congruent(m - d, (m - c) - daddr[1] + addr[1]) /\ (c # m => d # m)
  BY <1>1, <1>2, <1>3, OneUpdate
<1>6. e \in 0 .. m /\ Congruent(m - e, (m - d) - daddr[2] + addr[2]) /\ (d # m => e # m)
  BY <1>1, <1>2, <1>4, <1>5, OneUpdate
<1>7. Congruent(m - c, SumOf(sum, daddr))
  BY <1>1 DEF StandsFor
<1>8. Congruent(m - e, SumOf(sum, addr))
  <2>1. PICK u \in Int : u = (m - d) - ((m - c) - daddr[1] + addr[1]) /\ u \in Multiples
    BY <1>1, <1>2, <1>5 DEF Congruent
  <2>2. PICK v \in Int : v = (m - e) - ((m - d) - daddr[2] + addr[2]) /\ v \in Multiples
    BY <1>1, <1>2, <1>5, <1>6 DEF Congruent
  <2>3. PICK w \in Int : w = (m - c) - (sum + daddr[1] + daddr[2]) /\ w \in Multiples
    BY <1>1, <1>2, <1>7 DEF Congruent, SumOf
  <2>4. PICK uv \in Int : uv = u + v /\ uv \in Multiples
    BY <2>1, <2>2, ChecksumTypes, MultiplesAdd
  <2>5. uv + w \in Multiples
    BY <2>3, <2>4, ChecksumTypes, MultiplesAdd
  <2>6. (m - e) - (sum + addr[1] + addr[2]) = uv + w
    BY <1>1, <1>2, <1>5, <1>6, <2>1, <2>2, <2>3, <2>4
  <2> QED  BY <2>5, <2>6 DEF Congruent, SumOf
<1> QED  BY <1>1, <1>4, <1>5, <1>6, <1>8 DEF StandsFor

\* What is written into a UDP header is what a recomputation would write.
LEMMA ShownRight ==
  ASSUME NEW addr \in Addresses, NEW sum \in Sums,
         NEW c \in 0 .. Word - 1, StandsFor(c, sum, addr)
  PROVE  Shown("udp", c) = Shown("udp", Full(sum, addr))
<1>1. PICK m \in Nat \ {0} : m = Word - 1 /\ m - 1 = Word - 2
  BY ChecksumTypes
<1>2. CASE c = m
  <2>1. PICK t \in Nat : t = SumOf(sum, addr) /\ Congruent(0, t)
    BY <1>1, <1>2, ChecksumTypes DEF StandsFor
  <2>2. Congruent(m, t)
    <3>1. 0 - t \in Multiples /\ m \in Multiples
      BY <1>1, <2>1, ChecksumTypes, MultiplesAdd DEF Congruent
    <3>2. PICK a \in Int : a = 0 - t /\ a \in Multiples
      BY <2>1, <3>1
    <3>3. m + a \in Multiples /\ m - t = m + a
      BY <3>1, <3>2, ChecksumTypes, MultiplesAdd
    <3> QED  BY <3>3 DEF Congruent
  <2>3. 0 \in 0 .. Word - 2 /\ StandsFor(0, sum, addr)
    BY ChecksumTypes, <1>1, <2>1, <2>2 DEF StandsFor
  <2>4. Full(sum, addr) = 0
    BY <2>3, FullStands
  <2> QED  BY <1>1, <1>2, <2>4 DEF Shown
<1>3. CASE c # m
  <2>1. c \in 0 .. Word - 2
    BY <1>1, <1>3
  <2> QED  BY <2>1, FullStands
<1> QED  BY <1>2, <1>3

\* One rewrite, for the IP checksum and for a TCP one; and for a UDP one, where
\* all ones may stand for 0.
LEMMA UpdatedIsFull ==
  ASSUME daddr \in Addresses, NEW addr \in Addresses, NEW sum \in Sums
  PROVE  /\ Updated(Full(sum, daddr), addr) = Full(sum, addr)
         /\ Shown("udp", Updated(Shown("udp", Full(sum, daddr)), addr))
              = Shown("udp", Full(sum, addr))
<1>1. PICK m \in Nat \ {0} : m = Word - 1 /\ m - 1 = Word - 2
  BY ChecksumTypes
<1>2. PICK c \in 0 .. m - 1 : c = Full(sum, daddr) /\ StandsFor(c, sum, daddr)
  BY <1>1, FullStands
<1>3. c \in 0 .. Word - 1 /\ c # Word - 1 /\ 0 .. Word - 1 = 0 .. m
  BY <1>1, <1>2
<1>4. Updated(c, addr) = Full(sum, addr)
  <2>1. PICK d \in 0 .. Word - 1 : /\ d = Updated(c, addr) /\ StandsFor(d, sum, addr)
                                   /\ d # Word - 1
    BY <1>2, <1>3, BothUpdates
  <2>2. d \in 0 .. Word - 2
    BY <1>1, <2>1
  <2> QED  BY <2>1, <2>2, FullStands
<1>5. PICK u : u = Shown("udp", c)
  OBVIOUS
<1>6. u \in 0 .. Word - 1 /\ StandsFor(u, sum, daddr)
  <2>1. CASE c # 0
    BY <1>2, <1>3, <1>5, <2>1 DEF Shown
  <2>2. CASE c = 0
    <3>1. u = m /\ u \in 0 .. Word - 1
      BY <1>1, <1>5, <2>2 DEF Shown
    <3>2. PICK t \in Nat : t = SumOf(sum, daddr) /\ Congruent(m, t)
      BY <1>1, <1>2, <2>2, ChecksumTypes DEF StandsFor
    <3>3. Congruent(0, t)
      <4>1. PICK a \in Int : a = m - t /\ a \in Multiples
        BY <3>2 DEF Congruent
      <4>2. m \in Multiples /\ a - m \in Multiples
        BY <1>1, <4>1, ChecksumTypes, MultiplesAdd
      <4>3. 0 - t = a - m
        BY <4>1
      <4> QED  BY <4>2, <4>3 DEF Congruent
    <3> QED  BY <1>1, <3>1, <3>2, <3>3 DEF StandsFor
  <2> QED  BY <2>1, <2>2
<1>7. Shown("udp", Updated(u, addr)) = Shown("udp", Full(sum, addr))
  <2>1. PICK d \in 0 .. Word - 1 : d = Updated(u, addr) /\ StandsFor(d, sum, addr)
    BY <1>6, BothUpdates
  <2> QED  BY <2>1, ShownRight
<1> QED  BY <1>2, <1>4, <1>5, <1>7

ChecksumInv ==
  /\ head \in Sums /\ body \in Sums /\ daddr \in Addresses
  /\ MatchesRecompute

(***************************************************************************)
(* However often rewrite_daddr of checksum.rs rewrites a frame, both       *)
(* checksums are those of a full recomputation: for words of any width and *)
(* headers and segments of any sum.                                        *)
(***************************************************************************)
THEOREM ChecksumsAreRight == RewriteSpec => []MatchesRecompute
<1>1. RewriteInit => ChecksumInv
  BY DEF RewriteInit, ChecksumInv, MatchesRecompute, HasL4
<1>2. ASSUME ChecksumInv, [RewriteNext]_framevars
      PROVE  ChecksumInv'
  <2>1. CASE UNCHANGED framevars
    BY <1>2, <2>1 DEF ChecksumInv, framevars, MatchesRecompute, HasL4
  <2>2. ASSUME NEW addr \in Addresses, RewriteRefused \/ RewriteCut(addr)
        PROVE  ChecksumInv'
    BY <1>2, <2>2
    DEF ChecksumInv, RewriteRefused, RewriteCut, MatchesRecompute, HasL4
  <2>3. ASSUME NEW addr \in Addresses, RewriteDone(addr)
        PROVE  ChecksumInv'
    <3>1. /\ head' \in Sums /\ body' \in Sums /\ daddr' \in Addresses
          /\ UNCHANGED <<head, body, proto, ok>> /\ daddr' = addr
          /\ ip_csum' = Updated(ip_csum, addr) /\ l4_csum' = L4Updated(addr)
      BY <1>2, <2>3 DEF ChecksumInv, RewriteDone
    <3>2. ok => ip_csum' = Full(head, addr)
      BY <1>2, <3>1, UpdatedIsFull DEF ChecksumInv, MatchesRecompute
    <3>3. HasL4' => l4_csum' = Shown(proto, Full(body, addr))
      <4>1. CASE proto = "udp" /\ l4_csum # 0
        BY <1>2, <3>1, <4>1, UpdatedIsFull
        DEF ChecksumInv, MatchesRecompute, HasL4, L4Updated
      <4>2. CASE proto = "tcp"
        BY <1>2, <3>1, <4>2, UpdatedIsFull
        DEF ChecksumInv, MatchesRecompute, HasL4, L4Updated, Shown
      <4>3. CASE ~HasL4
        BY <3>1, <4>3 DEF HasL4, L4Updated
      <4> QED  BY <4>1, <4>2, <4>3 DEF HasL4
    <3>4. MatchesRecompute'
      BY <3>1, <3>2, <3>3 DEF MatchesRecompute, Full, Shown, Not
    <3> QED  BY <3>1, <3>4 DEF ChecksumInv
  <2> QED  BY <1>2, <2>1, <2>2, <2>3 DEF RewriteNext, RewriteDaddr, RewriteSame
<1>3. ChecksumInv => MatchesRecompute
  BY DEF ChecksumInv
<1> QED  BY <1>1, <1>2, <1>3, PTL DEF RewriteSpec

(***************************************************************************)
(* rewrite_daddr neither turns the checksum of a UDP datagram off nor      *)
(* gives one to a datagram that was sent without.                          *)
(***************************************************************************)
THEOREM UdpChecksumsStay == RewriteSpec => UdpChecksumStays
<1>1. ASSUME [RewriteNext]_framevars
      PROVE  [proto = "udp" => (l4_csum' = 0 <=> l4_csum = 0)]_framevars
  <2>1. CASE l4_csum' = l4_csum
    BY <2>1
  <2>2. ASSUME NEW addr \in Addresses, RewriteDone(addr), proto = "udp", l4_csum # 0
        PROVE  l4_csum' # 0
    <3>1. l4_csum' = Shown("udp", Updated(l4_csum, addr))
      BY <2>2 DEF RewriteDone, L4Updated
    <3>2. Word - 1 # 0
      BY ChecksumTypes
    <3> QED  BY <3>1, <3>2 DEF Shown
  <2>3. ASSUME NEW addr \in Addresses, RewriteDone(addr), proto = "udp", l4_csum = 0
        PROVE  l4_csum' = 0
    BY <2>3 DEF RewriteDone, L4Updated
  <2> QED  BY <1>1, <2>1, <2>2, <2>3
           DEF RewriteNext, RewriteDaddr, RewriteSame, RewriteRefused, RewriteCut, framevars
<1> QED  BY <1>1, PTL DEF RewriteSpec, UdpChecksumStays
=============================================================================
