---------------------------- MODULE DpdkSetupProofs ----------------------------
(***************************************************************************)
(* Setups may overlap: for any number of lcores and any programs, a        *)
(* polling lcore reads final values in all cells that are stored one value *)
(* only, and the last setup to return leaves final tables.  The programs   *)
(* of acl, nat and l3fwd are then read as rows of stores, one row for each *)
(* table entry, which gives their final tables and what frames meet there. *)
(***************************************************************************)
EXTENDS FrameHandlers, FiniteSetTheorems, SequenceTheorems, WellFoundedInduction, TLAPS

ArePrograms == \A p \in Programs : IsProgram(p)

\* The tables have final values where only one value is stored.
FinalIn(t) == \A x \in Steady(program) : t[x] = Final(program)[x]

\* What an lcore has stored is in place, and stays: others store it again.
StoredIsFinal ==
  \A c \in Lcores, x \in Steady(program) :
    LastStore(program, x) < at[c] => mem[x] = Final(program)[x]

\* A cell that is not final has its last store ahead of it, on some lcore.
ComesRight ==
  \A x \in Cells(program) :
    \/ mem[x] = Final(program)[x]
    \/ \E c \in Lcores : at[c] <= LastStore(program, x)

IInv ==
  /\ IsProgram(program)
  /\ mem \in [Cells(program) -> Nat]
  /\ at \in [Lcores -> 1 .. Len(program) + 1]
  /\ loop \in [Lcores -> {"setup", "poll", "left"}]
  /\ \A c \in Lcores : loop[c] # "setup" => at[c] = Len(program) + 1
  /\ \A c \in Lcores : seen[c] # Unseen => FinalIn(seen[c])
  /\ seen = [c \in Lcores |-> seen[c]]
  /\ StoredIsFinal
  /\ ComesRight

\* A cell of a program has a last store.
LEMMA LastStoreExists ==
  ASSUME NEW p, IsProgram(p), NEW y \in Cells(p)
  PROVE  /\ LastStore(p, y) \in DOMAIN p
         /\ p[LastStore(p, y)].cell = y
         /\ \A m \in DOMAIN p : p[m].cell = y => m <= LastStore(p, y)
         /\ DOMAIN p = 1 .. Len(p) /\ Len(p) \in Nat
<1>0. PICK n \in DOMAIN p : p[n].cell = y
  BY DEF Cells
<1> DEFINE D == DOMAIN p
           M == {m \in D : p[m].cell = y}
           Above(m) == {k \in D : m < k}
           T == {Above(m) : m \in M}
<1>1. D = 1 .. Len(p) /\ Len(p) \in Nat
  BY DEF IsProgram
<1>2. IsFiniteSet(D)
  BY <1>1, FS_Interval
<1>3. IsWellFoundedOn(StrictSubsetOrdering(D), SUBSET D)
  <2> HIDE DEF D
  <2> QED
    BY <1>2, FS_FiniteSubsetsOfFinite, FS_StrictSubsetOrderingWellFounded
<1>4. T \subseteq SUBSET D /\ T # {}
  BY <1>0
<1>5. PICK U \in T : \A V \in T : ~(<<V, U>> \in StrictSubsetOrdering(D))
  <2> HIDE DEF D, T
  <2> QED
    BY <1>3, <1>4, WFMin
<1>6. PICK m \in M : U = Above(m)
  BY <1>5
<1>7. \A k \in M : k <= m
  <2> SUFFICES ASSUME NEW k \in M, m < k PROVE FALSE
    BY <1>1
  <2>1. Above(k) \subseteq Above(m) /\ k \in Above(m) /\ k \notin Above(k)
    BY <1>1
  <2>2. <<Above(k), Above(m)>> \in StrictSubsetOrdering(D)
    BY <2>1 DEF StrictSubsetOrdering
  <2> QED
    BY <1>5, <1>6, <2>2
<1>8. \E k \in D : p[k].cell = y /\ \A j \in D : p[j].cell = y => j <= k
  BY <1>7
<1> QED
  BY <1>1, <1>8 DEF LastStore

\* Every store to a steady cell stores its final value.
LEMMA StoreIsFinal ==
  ASSUME NEW p, IsProgram(p), NEW n \in DOMAIN p,
         \/ p[n].cell \in Steady(p)
         \/ n = LastStore(p, p[n].cell)
  PROVE  Final(p)[p[n].cell] = p[n].value
BY DEF Final, Steady, Cells
-----------------------------------------------------------------------------
LEMMA Starts == ArePrograms /\ Init => IInv
<1> SUFFICES ASSUME ArePrograms, Init PROVE IInv
  OBVIOUS
<1>1. IsProgram(program)
  BY DEF Init, ArePrograms
<1>2. \A y \in Cells(program) : LastStore(program, y) >= 1
  BY <1>1, LastStoreExists
<1>3. DOMAIN program = 1 .. Len(program) /\ Len(program) \in Nat
  BY <1>1 DEF IsProgram
<1>4. StoredIsFinal
  <2> SUFFICES ASSUME NEW c \in Lcores, NEW y \in Steady(program), LastStore(program, y) < at[c]
               PROVE  FALSE
    BY DEF StoredIsFinal
  <2>1. y \in Cells(program) /\ at[c] = 1
    BY DEF Init, Steady
  <2>2. LastStore(program, y) \in DOMAIN program
    BY <1>1, <2>1, LastStoreExists
  <2> QED
    BY <1>3, <2>1, <2>2
<1>5. ComesRight
  BY <1>2, SetupAssumption DEF Init, ComesRight
<1> QED
  BY <1>1, <1>3, <1>4, <1>5 DEF Init, IInv

\* An lcore that is through with its setup leaves the steady cells final.
LEMMA DoneIsFinal ==
  ASSUME IInv, NEW c \in Lcores, at[c] = Len(program) + 1
  PROVE  FinalIn(mem)
<1> SUFFICES ASSUME NEW y \in Steady(program) PROVE mem[y] = Final(program)[y]
  BY DEF FinalIn
<1>1. y \in Cells(program) /\ IsProgram(program)
  BY DEF Steady, IInv
<1>2. LastStore(program, y) < at[c]
  <2>1. LastStore(program, y) \in 1 .. Len(program) /\ Len(program) \in Nat
    BY <1>1, LastStoreExists
  <2> QED
    BY <2>1
<1> QED
  BY <1>2 DEF IInv, StoredIsFinal

LEMMA StepsKeep == IInv /\ [Next]_vars => IInv'
<1> SUFFICES ASSUME IInv, [Next]_vars PROVE IInv'
  OBVIOUS
<1>1. ASSUME NEW c \in Lcores, Store(c) PROVE IInv'
  <2> DEFINE n == at[c]
             y == program[n].cell
  <2>1. /\ n \in DOMAIN program /\ y \in Cells(program)
        /\ program[n].value \in Nat
        /\ DOMAIN program = 1 .. Len(program) /\ Len(program) \in Nat
    <3>1. n \in DOMAIN program /\ DOMAIN program = 1 .. Len(program) /\ Len(program) \in Nat
      BY <1>1 DEF Store, IInv, IsProgram
    <3> DEFINE R == [cell : Cells(program), value : Nat]
    <3>2. program \in Seq(R)
      BY DEF IInv, IsProgram
    <3>3. \A q \in Seq(R) : \A k \in DOMAIN q : q[k] \in R
      <4> HIDE DEF R
      <4> QED
        OBVIOUS
    <3> QED
      BY <3>1, <3>2, <3>3
  <2>2. /\ program' = program /\ loop' = loop /\ seen' = seen
        /\ mem' = [mem EXCEPT ![y] = program[n].value]
        /\ at' = [at EXCEPT ![c] = n + 1]
        /\ loop[c] = "setup"
    BY <1>1 DEF Store
  <2>3. mem' \in [Cells(program) -> Nat] /\ at' \in [Lcores -> 1 .. Len(program) + 1]
    BY <2>1, <2>2 DEF IInv
  <2>4. \A d \in Lcores : at[d] \in Nat /\ at'[d] = (IF d = c THEN n + 1 ELSE at[d])
    BY <2>1, <2>2 DEF IInv
  <2>5. \A x \in Cells(program) : mem'[x] = (IF x = y THEN program[n].value ELSE mem[x])
    BY <2>1, <2>2 DEF IInv
  <2>6. StoredIsFinal'
    <3> SUFFICES ASSUME NEW d \in Lcores, NEW x \in Steady(program), LastStore(program, x) < at'[d]
                 PROVE  mem'[x] = Final(program)[x]
      BY <2>2 DEF StoredIsFinal
    <3>1. x \in Cells(program) /\ LastStore(program, x) \in Nat
      BY <2>1, LastStoreExists DEF Steady, IInv
    <3>2. CASE x = y
      BY <2>1, <2>5, <3>1, <3>2, StoreIsFinal DEF IInv
    <3>3. CASE x # y
      <4>1. LastStore(program, x) # n
        BY <3>1, <3>3, LastStoreExists DEF IInv
      <4>2. LastStore(program, x) < at[d]
        BY <2>4, <3>1, <4>1
      <4> QED
        BY <2>5, <3>1, <3>3, <4>2 DEF IInv, StoredIsFinal
    <3> QED
      BY <3>2, <3>3
  <2>7. ComesRight'
    <3> SUFFICES ASSUME NEW x \in Cells(program)
                 PROVE  \/ mem'[x] = Final(program)[x]
                        \/ \E d \in Lcores : at'[d] <= LastStore(program, x)
      BY <2>2 DEF ComesRight
    <3>1. /\ LastStore(program, x) \in DOMAIN program
          /\ LastStore(program, x) \in Nat
          /\ program[LastStore(program, x)].cell = x
      BY <2>1, LastStoreExists DEF IInv
    <3>2. CASE x = y /\ n = LastStore(program, x)
      BY <2>1, <2>5, <3>2, StoreIsFinal DEF IInv
    <3>3. CASE x = y /\ n # LastStore(program, x)
      <4>1. n <= LastStore(program, y)
        BY <2>1, LastStoreExists DEF IInv
      <4>2. at'[c] <= LastStore(program, x)
        BY <2>4, <3>1, <3>3, <4>1
      <4> QED
        BY <4>2
    <3>4. CASE x # y
      <4>1. n # LastStore(program, x)
        BY <3>1, <3>4
      <4>2. mem'[x] = mem[x]
        BY <2>5, <3>4
      <4>3. \A d \in Lcores : at[d] <= LastStore(program, x) => at'[d] <= LastStore(program, x)
        BY <2>4, <3>1, <4>1
      <4> QED
        BY <4>2, <4>3 DEF IInv, ComesRight
    <3> QED
      BY <3>2, <3>3, <3>4
  <2>8. (\A d \in Lcores : loop[d] # "setup" => at[d] = Len(program) + 1)'
    BY <2>2, <2>4 DEF IInv
  <2>9. (\A d \in Lcores : seen[d] # Unseen => FinalIn(seen[d]))'
    BY <2>2 DEF IInv, FinalIn
  <2> QED
    BY <2>2, <2>3, <2>6, <2>7, <2>8, <2>9 DEF IInv
<1>2. ASSUME NEW c \in Lcores, EnterLoop(c) PROVE IInv'
  <2>1. at[c] = Len(program) + 1
    BY <1>2 DEF EnterLoop, SetupReturns, IInv, IsProgram
  <2>2. UNCHANGED <<program, mem, at, seen>> /\ loop' = [loop EXCEPT ![c] = "poll"]
    BY <1>2 DEF EnterLoop
  <2> QED
    BY <2>1, <2>2 DEF IInv, StoredIsFinal, ComesRight, FinalIn
<1>3. ASSUME NEW c \in Lcores, Burst(c) PROVE IInv'
  <2>1. FinalIn(mem)
    BY <1>3, DoneIsFinal DEF Burst, IInv
  <2>2. UNCHANGED <<program, mem, at, loop>> /\ seen' = [seen EXCEPT ![c] = mem]
    BY <1>3 DEF Burst
  <2>3. /\ seen' = [d \in Lcores |-> seen'[d]]
        /\ \A d \in Lcores : seen'[d] # Unseen => FinalIn(seen'[d])
    BY <2>1, <2>2 DEF IInv
  <2> QED
    BY <2>2, <2>3 DEF IInv, StoredIsFinal, ComesRight, FinalIn
<1>4. ASSUME (\E c \in Lcores : Leave(c)) \/ Signal \/ UNCHANGED vars PROVE IInv'
  <2>1. CASE Signal \/ UNCHANGED vars
    BY <2>1 DEF Signal, vars, IInv, StoredIsFinal, ComesRight, FinalIn
  <2>2. ASSUME NEW c \in Lcores, Leave(c) PROVE IInv'
    <3>1. /\ UNCHANGED <<program, mem, at, seen>>
          /\ loop[c] = "poll" /\ loop' = [loop EXCEPT ![c] = "left"]
      BY <2>2 DEF Leave
    <3> QED
      BY <3>1 DEF IInv, StoredIsFinal, ComesRight, FinalIn
  <2> QED
    BY <1>4, <2>1, <2>2
<1> QED
  BY <1>1, <1>2, <1>3, <1>4 DEF Next
-----------------------------------------------------------------------------
(***************************************************************************)
(* nf_setup() may run on any number of lcores at once: no lcore ever finds *)
(* a value other than its own setup's in a cell that is stored one value   *)
(* only, which all cells of the IPv4 acl and nat are.                      *)
(***************************************************************************)
THEOREM OverlapIsHarmless ==
  ASSUME ArePrograms
  PROVE  Spec => []SetupStands
<1>1. IInv => SetupStands
  BY DEF IInv, SetupStands, FinalIn
<1> QED
  BY Starts, StepsKeep, <1>1, PTL DEF Spec

(***************************************************************************)
(* And when the last nf_setup() has returned, the tables are those one     *)
(* setup alone builds, in the cells that are stored several values too.    *)
(***************************************************************************)
THEOREM SetupsConverge ==
  ASSUME ArePrograms
  PROVE  Spec => []SetupConverges
<1>1. IInv => SetupConverges
  <2> SUFFICES ASSUME IInv, AllReturned PROVE mem = Final(program)
    BY DEF SetupConverges
  <2>1. \A y \in Cells(program) : mem[y] = Final(program)[y]
    <3> SUFFICES ASSUME NEW y \in Cells(program), NEW c \in Lcores PROVE ~(at[c] <= LastStore(program, y))
      BY DEF IInv, ComesRight
    <3>1. at[c] = Len(program) + 1
      BY DEF IInv, AllReturned
    <3>2. LastStore(program, y) \in 1 .. Len(program) /\ Len(program) \in Nat
      BY LastStoreExists DEF IInv
    <3> QED
      BY <3>1, <3>2
  <2>2. mem = [x \in Cells(program) |-> mem[x]] /\ Final(program) = [x \in Cells(program) |-> Final(program)[x]]
    BY DEF IInv, Final
  <2> QED
    BY <2>1, <2>2
<1> QED
  BY Starts, StepsKeep, <1>1, PTL DEF Spec
-----------------------------------------------------------------------------
\* The values a setup stores in a cell.
Values(p, x) == {p[n].value : n \in {m \in DOMAIN p : p[m].cell = x}}

\* What an lcore has stored holds a value that a setup stores there, and so
\* does every cell a burst was handled with.
StoredByASetup ==
  /\ \A c \in Lcores, n \in DOMAIN program :
       n < at[c] => mem[program[n].cell] \in Values(program, program[n].cell)
  /\ \A c \in Lcores :
       seen[c] # Unseen => \A x \in Cells(program) : seen[c][x] \in Values(program, x)

LEMMA ValuesKept ==
  ASSUME IInv, StoredByASetup, [Next]_vars
  PROVE  StoredByASetup'
<1>1. ASSUME NEW c \in Lcores, Store(c)
      PROVE  StoredByASetup'
  <2> DEFINE n == at[c]
             y == program[n].cell
  <2>1. /\ program' = program /\ seen' = seen
        /\ mem' = [mem EXCEPT ![y] = program[n].value]
        /\ at' = [at EXCEPT ![c] = n + 1]
        /\ n \in DOMAIN program
    BY <1>1 DEF Store
  <2>2. y \in Cells(program) /\ program[n].value \in Values(program, y)
    BY <2>1 DEF Cells, Values
  <2>3. \A x \in Cells(program) : mem'[x] = (IF x = y THEN program[n].value ELSE mem[x])
    BY <2>1, <2>2 DEF IInv
  <2>4. ASSUME NEW d \in Lcores, NEW m \in DOMAIN program, m < at'[d]
        PROVE  mem'[program[m].cell] \in Values(program, program[m].cell)
    <3>1. program[m].cell \in Cells(program)
      BY DEF Cells
    <3>2. CASE program[m].cell = y
      BY <2>2, <2>3, <3>1, <3>2
    <3>3. CASE program[m].cell # y
      <4>1. m # n /\ m \in Int /\ at[d] \in Int
        <5>1. DOMAIN program = 1 .. Len(program) /\ at \in [Lcores -> 1 .. Len(program) + 1]
          BY DEF IInv, IsProgram
        <5> QED  BY <3>3, <5>1
      <4>2. m < at[d]
        BY <2>1, <2>4, <4>1 DEF IInv
      <4> QED  BY <2>3, <3>1, <3>3, <4>2 DEF StoredByASetup
    <3> QED  BY <3>2, <3>3
  <2> QED  BY <2>1, <2>4 DEF StoredByASetup
<1>2. ASSUME NEW c \in Lcores, Burst(c)
      PROVE  StoredByASetup'
  <2>1. UNCHANGED <<program, mem, at>> /\ seen' = [seen EXCEPT ![c] = mem]
    BY <1>2 DEF Burst
  <2>2. ASSUME NEW x \in Cells(program)
        PROVE  mem[x] \in Values(program, x)
    <3>1. PICK n \in DOMAIN program : program[n].cell = x
      BY DEF Cells
    <3>2. at[c] = Len(program) + 1 /\ n \in 1 .. Len(program) /\ Len(program) \in Nat
      <4>1. loop[c] # "setup" /\ IsProgram(program)
        BY <1>2 DEF Burst, IInv
      <4>2. n \in 1 .. Len(program) /\ Len(program) \in Nat
        BY <4>1 DEF IsProgram
      <4> QED  BY <4>1, <4>2 DEF IInv
    <3>3. n < at[c]
      BY <3>2
    <3> QED  BY <3>1, <3>3 DEF StoredByASetup
  <2> QED  BY <2>1, <2>2 DEF StoredByASetup, IInv
<1>3. ASSUME UNCHANGED <<program, mem, at, seen>>
      PROVE  StoredByASetup'
  BY <1>3 DEF StoredByASetup
<1> QED
  BY <1>1, <1>2, <1>3 DEF Next, EnterLoop, Leave, Signal, vars

LEMMA ValuesHold ==
  ASSUME ArePrograms
  PROVE  Spec => []StoredByASetup
<1>1. Init => StoredByASetup
  <2> SUFFICES ASSUME Init PROVE StoredByASetup
    OBVIOUS
  <2>1. DOMAIN program = 1 .. Len(program)
    BY DEF Init, ArePrograms, IsProgram
  <2>2. \A c \in Lcores : at[c] = 1 /\ seen[c] = Unseen
    BY DEF Init
  <2>3. \A c \in Lcores, n \in DOMAIN program : ~(n < at[c])
    BY <2>1, <2>2
  <2> QED  BY <2>2, <2>3 DEF StoredByASetup
<1> QED  BY <1>1, Starts, StepsKeep, ValuesKept, PTL DEF Spec
-----------------------------------------------------------------------------
\* A setup is rows of stores, one for each table entry.
Fields == {"sip", "sip_mask", "prefix_len", "sport_hi", "dport_hi", "permit",
           "port", "ip", "rest", "last"}
Stores == [cell : Nat \X Fields, value : Nat]

LEMMA StoresMakeAProgram ==
  ASSUME NEW p \in Seq(Stores)
  PROVE  IsProgram(p)
<1>1. \A n \in DOMAIN p : p[n] \in Stores
  BY ElementOfSeq
<1>2. \A n \in DOMAIN p : p[n] \in [cell : Cells(p), value : Nat]
  BY <1>1 DEF Cells, Stores
<1>3. p = [n \in 1 .. Len(p) |-> p[n]] /\ Len(p) \in Nat /\ DOMAIN p = 1 .. Len(p)
  OBVIOUS
<1> DEFINE R == [cell : Cells(p), value : Nat]
<1>4. p \in [1 .. Len(p) -> R]
  BY <1>2, <1>3
<1> HIDE DEF R
<1>5. p \in Seq(R)
  BY <1>3, <1>4, SeqDef
<1> QED  BY <1>5 DEF IsProgram, R

Index(n, per)  == (n - 1) \div per
Within(n, per) == 1 + ((n - 1) % per)

\* The lengths of the rows.
RowLengths == {1, 2, 3, 5, 10}

LEMMA Positions ==
  ASSUME NEW per \in RowLengths, NEW count \in Nat
  PROVE  /\ \A n \in 1 .. per * count :
              /\ Index(n, per) \in 0 .. count - 1 /\ Within(n, per) \in 1 .. per
              /\ n = per * Index(n, per) + Within(n, per)
         /\ \A i \in 0 .. count - 1, j \in 1 .. per :
              /\ per * i + j \in 1 .. per * count
              /\ Index(per * i + j, per) = i /\ Within(per * i + j, per) = j
<1> USE DEF Index, Within
<1>1. CASE per = 1
  BY <1>1
<1>2. CASE per = 2
  BY <1>2
<1>3. CASE per = 3
  BY <1>3
<1>4. CASE per = 5
  BY <1>4
<1>5. CASE per = 10
  BY <1>5
<1> QED  BY <1>1, <1>2, <1>3, <1>4, <1>5 DEF RowLengths

\* A row of stores, all of them to entry i.
IsRow(row, i, len) ==
  row \in Seq(Stores) /\ Len(row) = len /\ \A j \in 1 .. len : row[j].cell[1] = i

Flat(row, per, count) == [n \in 1 .. per * count |-> row[Index(n, per)][Within(n, per)]]
FlatHas(row, per, count) ==
  /\ Flat(row, per, count) \in Seq(Stores)
  /\ Len(Flat(row, per, count)) = per * count
  /\ \A i \in 0 .. count - 1, j \in 1 .. per : Flat(row, per, count)[per * i + j] = row[i][j]

LEMMA FlatLoop ==
  ASSUME NEW per \in RowLengths, NEW count \in Nat, NEW row,
         \A i \in 0 .. count - 1 : IsRow(row[i], i, per)
  PROVE  FlatHas(row, per, count)
<1>1. PICK size \in Nat : size = per * count
  BY DEF RowLengths
<1>2. ASSUME NEW n \in 1 .. size
      PROVE  row[Index(n, per)][Within(n, per)] \in Stores
  <2>1. Index(n, per) \in 0 .. count - 1 /\ Within(n, per) \in 1 .. per
    BY <1>1, Positions
  <2>2. Within(n, per) \in 1 .. Len(row[Index(n, per)]) /\ row[Index(n, per)] \in Seq(Stores)
    BY <2>1 DEF IsRow
  <2> HIDE DEF Stores
  <2> QED  BY <2>2, ElementOfSeq
<1>3. Flat(row, per, count) \in [1 .. size -> Stores]
  BY <1>1, <1>2 DEF Flat
<1>4. Flat(row, per, count) \in Seq(Stores) /\ Len(Flat(row, per, count)) = size
  BY <1>3, SeqDef, LenProperties
<1>5. ASSUME NEW i \in 0 .. count - 1, NEW j \in 1 .. per
      PROVE  Flat(row, per, count)[per * i + j] = row[i][j]
  <2>1. PICK n : n = per * i + j
    OBVIOUS
  <2>2. n \in 1 .. size /\ Index(n, per) = i /\ Within(n, per) = j
    BY <1>1, <2>1, Positions
  <2>3. Flat(row, per, count)[n] = row[i][j]
    BY <1>1, <2>2 DEF Flat
  <2> QED  BY <2>1, <2>3
<1> QED  BY <1>1, <1>4, <1>5 DEF FlatHas

\* The last store to a cell decides, or any that stores what the last one does.
LEMMA LaterStoresDecide ==
  ASSUME NEW p, IsProgram(p), NEW n \in DOMAIN p,
         \A m \in DOMAIN p : n <= m /\ p[m].cell = p[n].cell => p[m].value = p[n].value
  PROVE  p[n].cell \in Cells(p) /\ Final(p)[p[n].cell] = p[n].value
<1>1. p[n].cell \in Cells(p)
  BY DEF Cells
<1>2. /\ LastStore(p, p[n].cell) \in DOMAIN p
      /\ p[LastStore(p, p[n].cell)].cell = p[n].cell
      /\ n <= LastStore(p, p[n].cell)
  BY <1>1, LastStoreExists
<1> QED  BY <1>1, <1>2 DEF Final

\* No later store of a row to the same cell stores another value.
Decides(row, j) ==
  \A k \in 1 .. Len(row) : j <= k /\ row[k].cell = row[j].cell => row[k].value = row[j].value

\* The ladders: rows of equal length, and a last one.
Ladder(row, per, count, end) == Flat(row, per, count) \o end

LadderHas(p, row, size, per, count, end) ==
  /\ IsProgram(p) /\ DOMAIN p = 1 .. size + Len(end)
  /\ \A i \in 0 .. count - 1, j \in 1 .. per :
       per * i + j \in 1 .. size /\ p[per * i + j] = row[i][j]
  /\ \A j \in 1 .. Len(end) : p[size + j] = end[j]
  /\ size \in Nat /\ Len(end) \in Nat

LEMMA LadderStores ==
  ASSUME NEW per \in RowLengths, NEW count \in Nat, NEW row, NEW end, NEW last,
         \A i \in 0 .. count - 1 : IsRow(row[i], i, per),
         IsRow(end, count, last)
  PROVE  LadderHas(Ladder(row, per, count, end), row, per * count, per, count, end)
<1>1. PICK size \in Nat : size = per * count
  BY DEF RowLengths
<1>2. PICK loop_ : loop_ = Flat(row, per, count)
  OBVIOUS
<1>3. /\ loop_ \in Seq(Stores) /\ Len(loop_) = size
      /\ \A i \in 0 .. count - 1, j \in 1 .. per : loop_[per * i + j] = row[i][j]
  <2>1. FlatHas(row, per, count)
    BY FlatLoop
  <2> QED  BY <1>1, <1>2, <2>1 DEF FlatHas
<1>4. PICK p : p = loop_ \o end /\ p = Ladder(row, per, count, end)
  BY <1>2 DEF Ladder
<1>5. /\ p \in Seq(Stores) /\ Len(p) = size + Len(end)
      /\ \A n \in 1 .. size + Len(end) :
           p[n] = IF n <= size THEN loop_[n] ELSE end[n - size]
  <2>1. end \in Seq(Stores)
    BY DEF IsRow
  <2>2. /\ loop_ \o end \in Seq(Stores)
        /\ Len(loop_ \o end) = Len(loop_) + Len(end)
        /\ \A n \in 1 .. Len(loop_) + Len(end) :
             (loop_ \o end)[n] = IF n <= Len(loop_) THEN loop_[n] ELSE end[n - Len(loop_)]
    <3> HIDE DEF Stores
    <3> QED  BY <1>3, <2>1, ConcatProperties, Zenon
  <2> QED  BY <1>3, <1>4, <2>2
<1>6. IsProgram(p) /\ DOMAIN p = 1 .. size + Len(end) /\ Len(end) \in Nat
  BY <1>5, StoresMakeAProgram, LenProperties DEF IsRow
<1>7. ASSUME NEW i \in 0 .. count - 1, NEW j \in 1 .. per
      PROVE  per * i + j \in 1 .. size /\ p[per * i + j] = row[i][j]
  <2>1. PICK n : n = per * i + j
    OBVIOUS
  <2>2. n \in 1 .. size
    BY <1>1, <2>1, Positions
  <2>3. n \in 1 .. size + Len(end) /\ n <= size
    BY <1>6, <2>2
  <2>4. p[n] = loop_[n]
    BY <1>5, <2>3
  <2> QED  BY <1>3, <2>1, <2>2, <2>4
<1>8. ASSUME NEW j \in 1 .. Len(end)
      PROVE  p[size + j] = end[j]
  <2>1. size + j \in 1 .. size + Len(end) /\ ~(size + j <= size) /\ (size + j) - size = j
    BY <1>6
  <2> QED  BY <1>5, <2>1
<1> QED  BY <1>1, <1>4, <1>6, <1>7, <1>8 DEF LadderHas

\* The final table has what the row stores last in each of its cells.
Settles(p, row) ==
  \A j \in 1 .. Len(row) :
    Decides(row, j) => row[j].cell \in Cells(p) /\ Final(p)[row[j].cell] = row[j].value

LadderSettles(p, row, count, end) ==
  /\ \A i \in 0 .. count - 1 : Settles(p, row[i])
  /\ Settles(p, end)
  /\ \A x \in Cells(p) : x[1] = count => \E j \in 1 .. Len(end) : x = end[j].cell

LEMMA LadderFinal ==
  ASSUME NEW per \in RowLengths, NEW count \in Nat, NEW row, NEW end, NEW last,
         \A i \in 0 .. count - 1 : IsRow(row[i], i, per),
         IsRow(end, count, last),
         NEW p, p = Ladder(row, per, count, end)
  PROVE  /\ IsProgram(p) /\ LadderSettles(p, row, count, end)
         /\ DOMAIN p = 1 .. per * count + Len(end)
<1>0. /\ \A i \in 0 .. count - 1 : /\ row[i] \in Seq(Stores) /\ Len(row[i]) = per
                                   /\ \A j \in 1 .. per : row[i][j].cell[1] = i
      /\ end \in Seq(Stores) /\ \A j \in 1 .. Len(end) : end[j].cell[1] = count
  BY DEF IsRow
<1>2. PICK m : m = per * count
  OBVIOUS
<1>1. /\ IsProgram(p) /\ DOMAIN p = 1 .. m + Len(end)
      /\ \A i \in 0 .. count - 1, j \in 1 .. per :
           per * i + j \in 1 .. m /\ p[per * i + j] = row[i][j]
      /\ \A j \in 1 .. Len(end) : p[m + j] = end[j]
      /\ m \in Nat /\ Len(end) \in Nat
  <2>1. LadderHas(p, row, m, per, count, end)
    BY <1>2, LadderStores
  <2> QED  BY <2>1 DEF LadderHas
<1>3. ASSUME NEW n \in DOMAIN p
      PROVE  \/ /\ n \in 1 .. m
                /\ \E i \in 0 .. count - 1, j \in 1 .. per : n = per * i + j /\ p[n] = row[i][j]
             \/ n > m /\ \E j \in 1 .. Len(end) : n = m + j /\ p[n] = end[j]
  <2>1. CASE n \in 1 .. m
    <3>1. PICK i \in 0 .. count - 1, j \in 1 .. per : n = per * i + j
      BY <1>2, <2>1, Positions
    <3> QED  BY <1>1, <2>1, <3>1, Zenon
  <2>2. CASE n \notin 1 .. m
    <3>1. n \in 1 .. m + Len(end)
      BY <1>1
    <3>2. n > m /\ n - m \in 1 .. Len(end) /\ n = m + (n - m)
      BY <1>1, <2>2, <3>1
    <3> QED  BY <1>1, <3>2
  <2> QED  BY <2>1, <2>2
<1>4. ASSUME NEW i \in 0 .. count - 1, NEW j \in 1 .. per, Decides(row[i], j)
      PROVE  row[i][j].cell \in Cells(p) /\ Final(p)[row[i][j].cell] = row[i][j].value
  <2>1. PICK n : n = per * i + j
    OBVIOUS
  <2>2. n \in DOMAIN p /\ p[n] = row[i][j] /\ Len(row[i]) = per /\ row[i][j].cell[1] = i
    <3>1. n \in 1 .. m /\ p[n] = row[i][j]
      BY <1>1, <1>2, <2>1
    <3>2. n \in DOMAIN p
      BY <1>1, <1>2, <3>1
    <3> QED  BY <1>0, <3>1, <3>2
  <2>3. ASSUME NEW k \in DOMAIN p, n <= k, p[k].cell = p[n].cell
        PROVE  p[k].value = p[n].value
    <3>1. ASSUME NEW h \in 1 .. Len(end), p[k] = end[h]
          PROVE  FALSE
      <4>1. count = i
        BY <1>0, <2>2, <2>3, <3>1
      <4> QED  BY <4>1
    <3>2. ASSUME NEW g \in 0 .. count - 1, NEW h \in 1 .. per, k = per * g + h, p[k] = row[g][h]
          PROVE  p[k].value = p[n].value
      <4>1. g = i
        <5>1. row[g][h].cell[1] = g /\ row[g][h].cell[1] = i
          BY <1>0, <2>2, <2>3, <3>2
        <5> QED  BY <5>1
      <4>2. j <= h
        <5>1. PICK a : a = per * i
          OBVIOUS
        <5>2. a \in Int
          BY <5>1 DEF RowLengths
        <5>3. a + j <= a + h
          BY <2>1, <2>3, <3>2, <4>1, <5>1
        <5> QED  BY <5>2, <5>3 DEF RowLengths
      <4> QED  BY <1>4, <2>2, <2>3, <3>2, <4>1, <4>2 DEF Decides
    <3> QED  BY <1>3, <3>1, <3>2
  <2>4. IsProgram(p) /\ n \in DOMAIN p
    BY <1>1, <2>2
  <2>5. p[n].cell \in Cells(p) /\ Final(p)[p[n].cell] = p[n].value
    BY <2>3, <2>4, LaterStoresDecide
  <2> QED  BY <2>2, <2>5
<1>5. ASSUME NEW j \in 1 .. Len(end), Decides(end, j)
      PROVE  end[j].cell \in Cells(p) /\ Final(p)[end[j].cell] = end[j].value
  <2>1. PICK n : n = m + j
    OBVIOUS
  <2>2. n \in DOMAIN p /\ p[n] = end[j] /\ ~(n <= m)
    BY <1>1, <1>2, <2>1
  <2>3. ASSUME NEW k \in DOMAIN p, n <= k, p[k].cell = p[n].cell
        PROVE  p[k].value = p[n].value
    <3>1. PICK h \in 1 .. Len(end) : k = m + h /\ p[k] = end[h]
      <4>1. ~(k \in 1 .. m)
        BY <1>1, <1>2, <2>1, <2>3
      <4> QED  BY <1>3, <4>1, Zenon
    <3>2. j <= h
      BY <1>1, <2>1, <2>3, <3>1
    <3> QED  BY <1>5, <2>2, <2>3, <3>1, <3>2 DEF Decides
  <2>4. IsProgram(p) /\ n \in DOMAIN p
    BY <1>1, <2>2
  <2>5. p[n].cell \in Cells(p) /\ Final(p)[p[n].cell] = p[n].value
    BY <2>3, <2>4, LaterStoresDecide
  <2> QED  BY <2>2, <2>5
<1>6. ASSUME NEW x \in Cells(p), x[1] = count
      PROVE  \E j \in 1 .. Len(end) : x = end[j].cell
  <2>1. PICK n \in DOMAIN p : p[n].cell = x
    BY DEF Cells
  <2>2. ASSUME NEW i \in 0 .. count - 1, NEW j \in 1 .. per, p[n] = row[i][j]
        PROVE  FALSE
    <3>1. count = i
      BY <1>0, <1>6, <2>1, <2>2
    <3> QED  BY <3>1
  <2> QED  BY <1>3, <2>1, <2>2
<1>7. \A i \in 0 .. count - 1 : Settles(p, row[i])
  BY <1>0, <1>4 DEF Settles
<1> QED  BY <1>1, <1>2, <1>5, <1>6, <1>7 DEF Settles, LadderSettles
-----------------------------------------------------------------------------
\* The ladders of acl, as finished tables.
DenyRow(t, i, field, prefix) ==
  /\ t[<<i, "sip">>] = i + 1 /\ t[<<i, field>>] = prefix
  /\ t[<<i, "sport_hi">>] = 65535 /\ t[<<i, "dport_hi">>] = 65535
  /\ t[<<i, "permit">>] = 0
PermitRow(t, i, field) ==
  /\ t[<<i, "sip">>] = 0 /\ t[<<i, field>>] = 0
  /\ t[<<i, "sport_hi">>] = 65535 /\ t[<<i, "dport_hi">>] = 65535
  /\ t[<<i, "permit">>] = 1
LadderOf(t, field, prefix) ==
  /\ \A i \in 0 .. Entries - 2 : DenyRow(t, i, field, prefix)
  /\ PermitRow(t, Entries - 1, field)

HasRow(p, i, fields) == \A f \in fields : <<i, f>> \in Cells(p)

LEMMA PutIsStore ==
  ASSUME NEW i \in Nat, NEW field \in Fields, NEW value \in Nat
  PROVE  /\ Put(i, field, value) \in Stores
         /\ Put(i, field, value).cell = <<i, field>> /\ Put(i, field, value).cell[1] = i
         /\ Put(i, field, value).value = value
BY DEF Put, Stores

\* The row of a rule that denies, and its entry in the table.
DenyStores(i, field, prefix) ==
  << Put(i, "sip", i + 1), Put(i, field, prefix), Put(i, "sport_hi", 65535),
     Put(i, "dport_hi", 65535), Put(i, "permit", 0) >>
Rows(field, prefix) == [i \in Nat |-> DenyStores(i, field, prefix)]
AclFields(field) == {"sip", field, "sport_hi", "dport_hi", "permit"}

LEMMA DenyStoresRow ==
  ASSUME NEW i \in Nat, NEW field \in {"sip_mask", "prefix_len"}, NEW prefix \in Nat
  PROVE  /\ IsRow(DenyStores(i, field, prefix), i, 5)
         /\ \A j \in 1 .. 5 : Decides(DenyStores(i, field, prefix), j)
<1> DEFINE row == DenyStores(i, field, prefix)
<1>1. /\ Put(i, "sip", i + 1) \in Stores /\ Put(i, field, prefix) \in Stores
      /\ Put(i, "sport_hi", 65535) \in Stores /\ Put(i, "dport_hi", 65535) \in Stores
      /\ Put(i, "permit", 0) \in Stores
  BY DEF Put, Stores, Fields
<1>2. row \in Seq(Stores) /\ Len(row) = 5
  <2> HIDE DEF Stores
  <2> QED  BY <1>1 DEF DenyStores
<1>3. \A j \in 1 .. 5 : row[j].cell[1] = i
  BY DEF DenyStores, Put
<1>4. \A j, k \in 1 .. 5 : row[k].cell = row[j].cell => row[k] = row[j]
  BY DEF DenyStores, Put
<1> QED  BY <1>2, <1>3, <1>4 DEF IsRow, Decides

\* The entries such rows leave in the final table.
LEMMA DenyRowsStand ==
  ASSUME NEW p, NEW count \in Nat, NEW end,
         NEW field \in {"sip_mask", "prefix_len"}, NEW prefix \in Nat,
         LadderSettles(p, Rows(field, prefix), count, end)
  PROVE  \A i \in 0 .. count - 1 :
           HasRow(p, i, AclFields(field)) /\ DenyRow(Final(p), i, field, prefix)
<1> SUFFICES ASSUME NEW i \in 0 .. count - 1
             PROVE  HasRow(p, i, AclFields(field)) /\ DenyRow(Final(p), i, field, prefix)
  OBVIOUS
<1> DEFINE row == DenyStores(i, field, prefix)
<1>1. Settles(p, row)
  BY DEF LadderSettles, Rows
<1>2. Len(row) = 5 /\ \A j \in 1 .. 5 : Decides(row, j)
  <2>1. i \in Nat
    OBVIOUS
  <2>2. IsRow(row, i, 5) /\ \A j \in 1 .. 5 : Decides(row, j)
    BY <2>1, DenyStoresRow
  <2> HIDE DEF row
  <2> QED  BY <2>2 DEF IsRow
<1>3. \A j \in 1 .. 5 : row[j].cell \in Cells(p) /\ Final(p)[row[j].cell] = row[j].value
  BY <1>1, <1>2 DEF Settles
<1> QED  BY <1>3 DEF DenyStores, Put, AclFields, HasRow, DenyRow

LEMMA RowsAreLadders ==
  /\ Acl4 = Ladder(Rows("sip_mask", 24), 5, Entries - 1, Permit4)
  /\ RustAcl4 = Ladder(Rows("sip_mask", 24), 5, Entries - 1, RustLast)
  /\ RustAcl6 = Ladder(Rows("prefix_len", 8), 5, Entries - 1, RustLast)
<1>1. \A n \in 1 .. 5 * (Entries - 1) : Index(n, 5) \in Nat
  BY EntriesAssumption DEF Index
<1>2. ASSUME NEW i \in Nat
      PROVE  /\ Deny4(i) = DenyStores(i, "sip_mask", 24)
             /\ RustDeny4(i) = DenyStores(i, "sip_mask", 24)
             /\ RustDeny6(i) = DenyStores(i, "prefix_len", 8)
  BY DEF Deny4, RustDeny4, RustDeny6, DenyStores
<1>3. Len(DenyStores(0, "sip_mask", 24)) = 5 /\ Len(DenyStores(0, "prefix_len", 8)) = 5
  BY DenyStoresRow DEF IsRow
<1> DEFINE AsLoop(f, q) == [n \in 1 .. 5 * (Entries - 1) |->
                              DenyStores((n - 1) \div 5, f, q)[1 + ((n - 1) % 5)]]
<1>4. \A n \in 1 .. 5 * (Entries - 1) : (n - 1) \div 5 \in Nat
  BY <1>1 DEF Index
<1>5. /\ Loop(Deny4, Entries - 1) = AsLoop("sip_mask", 24)
      /\ Loop(RustDeny4, Entries - 1) = AsLoop("sip_mask", 24)
      /\ Loop(RustDeny6, Entries - 1) = AsLoop("prefix_len", 8)
  BY <1>2, <1>3, <1>4 DEF Loop
<1>6. /\ AsLoop("sip_mask", 24) = Flat(Rows("sip_mask", 24), 5, Entries - 1)
      /\ AsLoop("prefix_len", 8) = Flat(Rows("prefix_len", 8), 5, Entries - 1)
  BY <1>4 DEF Flat, Rows, Index, Within
<1> QED  BY <1>5, <1>6 DEF Acl4, RustAcl4, RustAcl6, Ladder

LEMMA Permit4Row ==
  /\ IsRow(Permit4, Entries - 1, 5) /\ \A j \in 1 .. 5 : Decides(Permit4, j)
<1> DEFINE i == Entries - 1
<1>0. i \in Nat
  BY EntriesAssumption
<1>1. /\ Put(i, "sip", 0) \in Stores /\ Put(i, "sip_mask", 0) \in Stores
      /\ Put(i, "sport_hi", 65535) \in Stores /\ Put(i, "dport_hi", 65535) \in Stores
      /\ Put(i, "permit", 1) \in Stores
  BY <1>0 DEF Put, Stores, Fields
<1>2. Permit4 \in Seq(Stores) /\ Len(Permit4) = 5
  <2> HIDE DEF Stores
  <2> QED  BY <1>1 DEF Permit4
<1>3. \A j \in 1 .. 5 : Permit4[j].cell[1] = i
  BY DEF Permit4, Put
<1>4. \A j, k \in 1 .. 5 : Permit4[k].cell = Permit4[j].cell => Permit4[k] = Permit4[j]
  BY DEF Permit4, Put
<1> QED  BY <1>2, <1>3, <1>4 DEF IsRow, Decides

LEMMA Acl4Final ==
  /\ IsProgram(Acl4)
  /\ \A i \in 0 .. Entries - 1 : HasRow(Acl4, i, AclFields("sip_mask"))
  /\ LadderOf(Final(Acl4), "sip_mask", 24)
  /\ DOMAIN Acl4 = 1 .. 5 * (Entries - 1) + 5
<1> DEFINE rows == Rows("sip_mask", 24)
<1>1. PICK count \in Nat : count = Entries - 1 /\ count - 1 = Entries - 2
  BY EntriesAssumption
<1>2. PICK p : p = Acl4
  OBVIOUS
<1>3. /\ IsProgram(p) /\ LadderSettles(p, rows, count, Permit4)
      /\ DOMAIN p = 1 .. 5 * count + Len(Permit4)
  <2>1. \A i \in 0 .. count - 1 : IsRow(rows[i], i, 5)
    BY DenyStoresRow DEF Rows
  <2>2. IsRow(Permit4, count, 5) /\ p = Ladder(rows, 5, count, Permit4)
    BY <1>1, <1>2, Permit4Row, RowsAreLadders
  <2>3. 5 \in RowLengths
    BY DEF RowLengths
  <2> HIDE DEF rows
  <2> QED  BY <2>1, <2>2, <2>3, LadderFinal
<1>4. \A i \in 0 .. count - 1 :
        HasRow(p, i, AclFields("sip_mask")) /\ DenyRow(Final(p), i, "sip_mask", 24)
  BY <1>3, DenyRowsStand
<1>5. HasRow(p, count, AclFields("sip_mask")) /\ PermitRow(Final(p), count, "sip_mask")
  <2>1. \A j \in 1 .. 5 : Permit4[j].cell \in Cells(p) /\ Final(p)[Permit4[j].cell] = Permit4[j].value
    BY <1>3, Permit4Row DEF LadderSettles, Settles, IsRow
  <2> QED  BY <1>1, <2>1 DEF Permit4, Put, AclFields, HasRow, PermitRow
<1>6. \A i \in 0 .. Entries - 1 : HasRow(p, i, AclFields("sip_mask"))
  <2>1. \A i \in 0 .. Entries - 1 : i \in 0 .. count - 1 \/ i = count
    BY <1>1
  <2> QED  BY <1>4, <1>5, <2>1
<1>7. LadderOf(Final(p), "sip_mask", 24)
  BY <1>1, <1>4, <1>5 DEF LadderOf
<1>8. DOMAIN p = 1 .. 5 * (Entries - 1) + 5
  BY <1>1, <1>3, Permit4Row DEF IsRow
<1> QED  BY <1>2, <1>3, <1>6, <1>7, <1>8

\* acl over IPv6: the second half of a row decides.
LEMMA Deny6Row ==
  ASSUME NEW i \in Nat
  PROVE  /\ IsRow(Deny6(i), i, 10) /\ \A j \in 6 .. 10 : Decides(Deny6(i), j)
         /\ \A j \in 1 .. 5 : DenyStores(i, "prefix_len", 8)[j] = Deny6(i)[5 + j]
<1> DEFINE a == Cleared(i)
           b == << Put(i, "sip", i + 1), Put(i, "prefix_len", 8), Put(i, "sport_hi", 65535),
                   Put(i, "dport_hi", 65535), Put(i, "permit", 0) >>
<1>1. /\ Put(i, "sip", 0) \in Stores /\ Put(i, "prefix_len", 0) \in Stores
      /\ Put(i, "sport_hi", 0) \in Stores /\ Put(i, "dport_hi", 0) \in Stores
      /\ Put(i, "permit", 0) \in Stores
  BY DEF Put, Stores, Fields
<1>2. /\ Put(i, "sip", i + 1) \in Stores /\ Put(i, "prefix_len", 8) \in Stores
      /\ Put(i, "sport_hi", 65535) \in Stores /\ Put(i, "dport_hi", 65535) \in Stores
  BY DEF Put, Stores, Fields
<1>3. a \in Seq(Stores) /\ Len(a) = 5
  <2> HIDE DEF Stores
  <2> QED  BY <1>1 DEF Cleared
<1>4. b \in Seq(Stores) /\ Len(b) = 5
  <2> HIDE DEF Stores
  <2> QED  BY <1>1, <1>2
<1>5. /\ a \o b \in Seq(Stores) /\ Len(a \o b) = Len(a) + Len(b)
      /\ \A j \in 1 .. Len(a) + Len(b) : (a \o b)[j] = IF j <= Len(a) THEN a[j] ELSE b[j - Len(a)]
  <2> HIDE DEF Stores, a, b
  <2> QED  BY <1>3, <1>4, ConcatProperties, Zenon
<1>6. /\ a \o b \in Seq(Stores) /\ Len(a \o b) = 10
      /\ \A j \in 1 .. 5 : (a \o b)[j] = a[j] /\ (a \o b)[5 + j] = b[j]
  <2> HIDE DEF Stores, a, b
  <2> QED  BY <1>3, <1>4, <1>5
<1>7. \A j \in 1 .. 5 : a[j].cell[1] = i /\ b[j].cell[1] = i
  BY DEF Cleared, Put
<1>8. \A j, k \in 1 .. 5 : b[k].cell = b[j].cell => b[k] = b[j]
  BY DEF Put
<1>9a. Deny6(i) = a \o b /\ b = DenyStores(i, "prefix_len", 8)
  BY DEF Deny6, DenyStores
<1> HIDE DEF a, b
<1>9. PICK u : u = a \o b /\ u = Deny6(i)
  BY <1>9a
<1>10. /\ u \in Seq(Stores) /\ Len(u) = 10
       /\ \A j \in 1 .. 5 : u[j] = a[j] /\ u[5 + j] = b[j]
  BY <1>6, <1>9
<1>11. ASSUME NEW j \in 1 .. 10
       PROVE  j \in 1 .. 5 \/ \E k \in 1 .. 5 : j = 5 + k
  <2>1. CASE j \notin 1 .. 5
    <3>1. j - 5 \in 1 .. 5 /\ j = 5 + (j - 5)
      BY <2>1
    <3> QED  BY <3>1
  <2> QED  BY <2>1
<1>12. IsRow(u, i, 10)
  <2>1. ASSUME NEW j \in 1 .. 10 PROVE u[j].cell[1] = i
    <3>1. CASE j \in 1 .. 5
      BY <1>7, <1>10, <3>1
    <3>2. ASSUME NEW k \in 1 .. 5, j = 5 + k PROVE u[j].cell[1] = i
      BY <1>7, <1>10, <3>2
    <3> QED  BY <1>11, <3>1, <3>2
  <2> QED  BY <1>10, <2>1 DEF IsRow
<1>13. ASSUME NEW j \in 6 .. 10
       PROVE  Decides(u, j)
  <2>1. ASSUME NEW k \in 6 .. 10
        PROVE  \E g \in 1 .. 5 : u[k] = b[g]
    <3>1. k \in 1 .. 10 /\ ~(k \in 1 .. 5)
      OBVIOUS
    <3> QED  BY <1>10, <1>11, <3>1
  <2>2. ASSUME NEW k \in 1 .. 10, j <= k, u[k].cell = u[j].cell
        PROVE  u[k].value = u[j].value
    <3>1. k \in 6 .. 10
      BY <2>2
    <3>2. PICK g \in 1 .. 5, h \in 1 .. 5 : u[k] = b[g] /\ u[j] = b[h]
      BY <2>1, <3>1
    <3> QED  BY <1>8, <2>2, <3>2
  <2> QED  BY <1>10, <2>2 DEF Decides
<1> QED  BY <1>9, <1>9a, <1>10, <1>12, <1>13

LEMMA Permit6Row ==
  /\ IsRow(Permit6, Entries - 1, 9)
  /\ Decides(Permit6, 1) /\ \A j \in 6 .. 9 : Decides(Permit6, j)
  /\ Permit6[1] = Put(Entries - 1, "sip", 0)
  /\ Permit6[6] = Put(Entries - 1, "prefix_len", 0)
  /\ Permit6[7] = Put(Entries - 1, "sport_hi", 65535)
  /\ Permit6[8] = Put(Entries - 1, "dport_hi", 65535)
  /\ Permit6[9] = Put(Entries - 1, "permit", 1)
<1>0. PICK i \in Nat : i = Entries - 1
  BY EntriesAssumption
<1> DEFINE a == Cleared(i)
           b == << Put(i, "prefix_len", 0), Put(i, "sport_hi", 65535),
                   Put(i, "dport_hi", 65535), Put(i, "permit", 1) >>
<1>1. /\ Put(i, "sip", 0) \in Stores /\ Put(i, "prefix_len", 0) \in Stores
      /\ Put(i, "sport_hi", 0) \in Stores /\ Put(i, "dport_hi", 0) \in Stores
      /\ Put(i, "permit", 0) \in Stores
  BY DEF Put, Stores, Fields
<1>2. /\ Put(i, "sport_hi", 65535) \in Stores /\ Put(i, "dport_hi", 65535) \in Stores
      /\ Put(i, "permit", 1) \in Stores
  BY DEF Put, Stores, Fields
<1>3. a \in Seq(Stores) /\ Len(a) = 5
  <2> HIDE DEF Stores
  <2> QED  BY <1>1 DEF Cleared
<1>4. b \in Seq(Stores) /\ Len(b) = 4
  <2> HIDE DEF Stores
  <2> QED  BY <1>1, <1>2
<1>5. /\ a \o b \in Seq(Stores) /\ Len(a \o b) = Len(a) + Len(b)
      /\ \A j \in 1 .. Len(a) + Len(b) : (a \o b)[j] = IF j <= Len(a) THEN a[j] ELSE b[j - Len(a)]
  <2> HIDE DEF Stores, a, b
  <2> QED  BY <1>3, <1>4, ConcatProperties, Zenon
<1>6. /\ a \o b \in Seq(Stores) /\ Len(a \o b) = 9
      /\ \A j \in 1 .. 5 : (a \o b)[j] = a[j]
      /\ \A j \in 1 .. 4 : (a \o b)[5 + j] = b[j]
  <2> HIDE DEF Stores, a, b
  <2> QED  BY <1>3, <1>4, <1>5
<1>7. \A j \in 1 .. 5 : a[j].cell[1] = i /\ (a[j].cell = a[1].cell => j = 1)
  BY DEF Cleared, Put
<1>8. /\ \A j \in 1 .. 4 : b[j].cell[1] = i /\ b[j].cell # a[1].cell
      /\ \A j, k \in 1 .. 4 : b[k].cell = b[j].cell => b[k] = b[j]
  BY DEF Cleared, Put
<1>9a. Permit6 = a \o b
  BY <1>0 DEF Permit6
<1>10. /\ a[1] = Put(i, "sip", 0) /\ b[1] = Put(i, "prefix_len", 0)
       /\ b[2] = Put(i, "sport_hi", 65535) /\ b[3] = Put(i, "dport_hi", 65535)
       /\ b[4] = Put(i, "permit", 1)
  BY DEF Cleared
<1> HIDE DEF a, b
<1>9. PICK u : u = a \o b /\ u = Permit6
  BY <1>9a
<1>11. /\ u \in Seq(Stores) /\ Len(u) = 9 /\ u[1] = a[1]
       /\ u[6] = b[1] /\ u[7] = b[2] /\ u[8] = b[3] /\ u[9] = b[4]
  BY <1>6, <1>9
<1>12. ASSUME NEW j \in 1 .. 9
       PROVE  \/ j \in 1 .. 5 /\ u[j] = a[j]
              \/ j \in 6 .. 9 /\ \E k \in 1 .. 4 : u[j] = b[k]
  <2>1. CASE j \in 1 .. 5
    BY <1>6, <1>9, <2>1
  <2>2. CASE j \notin 1 .. 5
    <3>1. PICK k \in 1 .. 4 : j = 5 + k
      <4>1. j - 5 \in 1 .. 4 /\ j = 5 + (j - 5)
        BY <2>2
      <4> QED  BY <4>1
    <3> QED  BY <1>6, <1>9, <3>1
  <2> QED  BY <2>1, <2>2
<1>13. IsRow(u, i, 9)
  <2>1. ASSUME NEW j \in 1 .. 9 PROVE u[j].cell[1] = i
    <3>1. CASE u[j] = a[j] /\ j \in 1 .. 5
      BY <1>7, <3>1
    <3>2. ASSUME NEW k \in 1 .. 4, u[j] = b[k] PROVE u[j].cell[1] = i
      BY <1>8, <3>2
    <3> QED  BY <1>12, <3>1, <3>2
  <2> QED  BY <1>11, <2>1 DEF IsRow
<1>14. Decides(u, 1)
  <2>1. ASSUME NEW j \in 1 .. 9, u[j].cell = u[1].cell
        PROVE  u[j] = u[1]
    <3>1. CASE u[j] = a[j] /\ j \in 1 .. 5
      BY <1>7, <1>11, <2>1, <3>1
    <3>2. ASSUME NEW k \in 1 .. 4, u[j] = b[k] PROVE FALSE
      BY <1>8, <1>11, <2>1, <3>2
    <3> QED  BY <1>12, <3>1, <3>2
  <2> QED  BY <1>11, <2>1 DEF Decides
<1>15. ASSUME NEW j \in 6 .. 9
       PROVE  Decides(u, j)
  <2>1. ASSUME NEW k \in 6 .. 9
        PROVE  \E g \in 1 .. 4 : u[k] = b[g]
    <3>1. k \in 1 .. 9 /\ ~(k \in 1 .. 5)
      OBVIOUS
    <3> QED  BY <1>12, <3>1
  <2>2. ASSUME NEW k \in 1 .. 9, j <= k, u[k].cell = u[j].cell
        PROVE  u[k].value = u[j].value
    <3>1. k \in 6 .. 9
      BY <2>2
    <3>2. PICK g \in 1 .. 4, h \in 1 .. 4 : u[k] = b[g] /\ u[j] = b[h]
      BY <2>1, <3>1
    <3> QED  BY <1>8, <2>2, <3>2
  <2> QED  BY <1>11, <2>2 DEF Decides
<1> QED  BY <1>0, <1>9, <1>10, <1>11, <1>13, <1>14, <1>15

LEMMA RustLastRow ==
  /\ IsRow(RustLast, Entries - 1, 3) /\ \A j \in 1 .. 3 : Decides(RustLast, j)
<1> DEFINE i == Entries - 1
<1>0. i \in Nat
  BY EntriesAssumption
<1>1. /\ Put(i, "sport_hi", 65535) \in Stores /\ Put(i, "dport_hi", 65535) \in Stores
      /\ Put(i, "permit", 1) \in Stores
  BY <1>0 DEF Put, Stores, Fields
<1>2. RustLast \in Seq(Stores) /\ Len(RustLast) = 3
  <2> HIDE DEF Stores
  <2> QED  BY <1>1 DEF RustLast
<1>3. \A j \in 1 .. 3 : RustLast[j].cell[1] = i
  BY DEF RustLast, Put
<1>4. \A j, k \in 1 .. 3 : RustLast[k].cell = RustLast[j].cell => RustLast[k] = RustLast[j]
  BY DEF RustLast, Put
<1> QED  BY <1>2, <1>3, <1>4 DEF IsRow, Decides

Rows6 == [i \in Nat |-> Deny6(i)]

LEMMA Acl6IsLadder == Acl6 = Ladder(Rows6, 10, Entries - 1, Permit6)
<1>1. Len(Deny6(0)) = 10
  BY Deny6Row DEF IsRow
<1>2. \A n \in 1 .. 10 * (Entries - 1) : Index(n, 10) \in Nat
  BY EntriesAssumption DEF Index
<1>3. Loop(Deny6, Entries - 1) = Flat(Rows6, 10, Entries - 1)
  BY <1>1, <1>2 DEF Loop, Flat, Rows6, Index, Within
<1> QED  BY <1>3 DEF Acl6, Ladder

LEMMA Acl6Final ==
  /\ IsProgram(Acl6)
  /\ \A i \in 0 .. Entries - 1 : HasRow(Acl6, i, AclFields("prefix_len"))
  /\ LadderOf(Final(Acl6), "prefix_len", 8)
  /\ DOMAIN Acl6 = 1 .. 10 * (Entries - 1) + 9
<1>1. PICK count \in Nat : count = Entries - 1 /\ count - 1 = Entries - 2
  BY EntriesAssumption
<1>2. PICK p : p = Acl6
  OBVIOUS
<1>3. /\ IsProgram(p) /\ LadderSettles(p, Rows6, count, Permit6)
      /\ DOMAIN p = 1 .. 10 * count + Len(Permit6)
  <2>1. \A i \in 0 .. count - 1 : IsRow(Rows6[i], i, 10)
    BY Deny6Row DEF Rows6
  <2>2. IsRow(Permit6, count, 9) /\ p = Ladder(Rows6, 10, count, Permit6)
    BY <1>1, <1>2, Permit6Row, Acl6IsLadder
  <2>3. 10 \in RowLengths
    BY DEF RowLengths
  <2> QED  BY <2>1, <2>2, <2>3, LadderFinal
<1>4. ASSUME NEW i \in 0 .. count - 1
      PROVE  HasRow(p, i, AclFields("prefix_len")) /\ DenyRow(Final(p), i, "prefix_len", 8)
  <2>0. i \in Nat
    OBVIOUS
  <2>1. Settles(p, Deny6(i)) /\ Len(Deny6(i)) = 10 /\ \A j \in 6 .. 10 : Decides(Deny6(i), j)
    <3>1. Settles(p, Rows6[i]) /\ Rows6[i] = Deny6(i)
      BY <1>3 DEF LadderSettles, Rows6
    <3> QED  BY <2>0, <3>1, Deny6Row DEF IsRow
  <2>2. \A j \in 6 .. 10 : Deny6(i)[j].cell \in Cells(p) /\ Final(p)[Deny6(i)[j].cell] = Deny6(i)[j].value
    BY <2>1 DEF Settles
  <2>3. \A j \in 1 .. 5 : DenyStores(i, "prefix_len", 8)[j] = Deny6(i)[5 + j]
    BY Deny6Row, <2>0
  <2>4. \A j \in 1 .. 5 :
          LET s == DenyStores(i, "prefix_len", 8)[j]
          IN  s.cell \in Cells(p) /\ Final(p)[s.cell] = s.value
    <3>1. \A j \in 1 .. 5 : 5 + j \in 6 .. 10
      OBVIOUS
    <3> QED  BY <2>2, <2>3, <3>1
  <2> QED  BY <2>4 DEF DenyStores, Put, AclFields, HasRow, DenyRow
<1>5. HasRow(p, count, AclFields("prefix_len")) /\ PermitRow(Final(p), count, "prefix_len")
  <2>1. \A j \in {1} \cup 6 .. 9 : Permit6[j].cell \in Cells(p) /\ Final(p)[Permit6[j].cell] = Permit6[j].value
    BY <1>3, Permit6Row DEF LadderSettles, Settles, IsRow
  <2>2. \A s \in {Put(count, "sip", 0), Put(count, "prefix_len", 0), Put(count, "sport_hi", 65535),
                  Put(count, "dport_hi", 65535), Put(count, "permit", 1)} :
          s.cell \in Cells(p) /\ Final(p)[s.cell] = s.value
    BY <1>1, <2>1, Permit6Row
  <2> QED  BY <2>2 DEF Put, AclFields, HasRow, PermitRow
<1>6. \A i \in 0 .. Entries - 1 : HasRow(p, i, AclFields("prefix_len"))
  <2>1. \A i \in 0 .. Entries - 1 : i \in 0 .. count - 1 \/ i = count
    BY <1>1
  <2> QED  BY <1>4, <1>5, <2>1
<1>7. LadderOf(Final(p), "prefix_len", 8)
  BY <1>1, <1>4, <1>5 DEF LadderOf
<1>8. DOMAIN p = 1 .. 10 * (Entries - 1) + 9
  BY <1>1, <1>3, Permit6Row DEF IsRow
<1> QED  BY <1>2, <1>3, <1>6, <1>7, <1>8

\* Nf::setup() leaves the ladder of nf_setup(): what it does not store is zero.
Zeroed(cells, q) == [x \in cells |-> IF x \in Cells(q) THEN Final(q)[x] ELSE 0]

LEMMA RustFinal ==
  ASSUME NEW field \in {"sip_mask", "prefix_len"}, NEW prefix \in Nat, NEW cells,
         \A i \in 0 .. Entries - 1, f \in AclFields(field) : <<i, f>> \in cells
  PROVE  LadderOf(Zeroed(cells, Ladder(Rows(field, prefix), 5, Entries - 1, RustLast)), field, prefix)
<1> DEFINE rows == Rows(field, prefix)
<1>1. PICK count \in Nat : count = Entries - 1 /\ count - 1 = Entries - 2
  BY EntriesAssumption
<1>2. PICK q : q = Ladder(rows, 5, count, RustLast)
  OBVIOUS
<1>3. LadderSettles(q, rows, count, RustLast)
  <2>1. \A i \in 0 .. count - 1 : IsRow(rows[i], i, 5)
    BY DenyStoresRow DEF Rows
  <2>2. IsRow(RustLast, count, 3)
    BY <1>1, RustLastRow
  <2>3. 5 \in RowLengths
    BY DEF RowLengths
  <2> HIDE DEF rows
  <2> QED  BY <1>2, <2>1, <2>2, <2>3, LadderFinal
<1>4. PICK t : t = Zeroed(cells, q)
  OBVIOUS
<1>5. \A i \in 0 .. Entries - 1, f \in AclFields(field) :
        t[<<i, f>>] = IF <<i, f>> \in Cells(q) THEN Final(q)[<<i, f>>] ELSE 0
  BY <1>4 DEF Zeroed
<1>6. ASSUME NEW i \in 0 .. count - 1
      PROVE  DenyRow(t, i, field, prefix)
  <2>1. HasRow(q, i, AclFields(field)) /\ DenyRow(Final(q), i, field, prefix)
    BY <1>3, DenyRowsStand
  <2>2. i \in 0 .. Entries - 1
    BY <1>1
  <2>3. \A f \in AclFields(field) : t[<<i, f>>] = Final(q)[<<i, f>>]
    BY <1>5, <2>1, <2>2 DEF HasRow
  <2> QED  BY <2>1, <2>3 DEF DenyRow, AclFields
<1>7. PermitRow(t, count, field)
  <2>0. Len(RustLast) = 3 /\ \A j \in 1 .. 3 : Decides(RustLast, j)
    BY RustLastRow DEF IsRow
  <2>1. \A j \in 1 .. 3 : RustLast[j].cell \in Cells(q) /\ Final(q)[RustLast[j].cell] = RustLast[j].value
    BY <1>3, <2>0 DEF LadderSettles, Settles
  <2>2. \A f \in {"sport_hi", "dport_hi", "permit"} :
          /\ <<count, f>> \in Cells(q)
          /\ Final(q)[<<count, f>>] = IF f = "permit" THEN 1 ELSE 65535
    BY <1>1, <2>1 DEF RustLast, Put
  <2>3. \A f \in {"sip", field} : <<count, f>> \notin Cells(q)
    <3>1. \A x \in Cells(q) : x[1] = count => \E j \in 1 .. 3 : x = RustLast[j].cell
      BY <1>3, <2>0 DEF LadderSettles
    <3>2. \A j \in 1 .. 3 : RustLast[j].cell[2] \notin {"sip", field}
      BY DEF RustLast, Put
    <3>3. \A f \in {"sip", field} : <<count, f>>[1] = count /\ <<count, f>>[2] = f
      OBVIOUS
    <3> QED  BY <3>1, <3>2, <3>3
  <2>4. count \in 0 .. Entries - 1
    BY <1>1
  <2> QED  BY <1>5, <2>2, <2>3, <2>4 DEF PermitRow, AclFields
<1> QED  BY <1>1, <1>2, <1>4, <1>6, <1>7 DEF LadderOf
-----------------------------------------------------------------------------
\* The pool of nat: the loop over the ports, then the one over the addresses.
PoolStores(p, ports, ips, per, count, off) ==
  /\ IsProgram(p) /\ DOMAIN p = 1 .. off + per * count
  /\ \A i \in 0 .. count - 1 : 1 + i \in DOMAIN p /\ p[1 + i] = ports[i][1]
  /\ \A i \in 0 .. count - 1, j \in 1 .. per :
       off + (per * i + j) \in DOMAIN p /\ p[off + (per * i + j)] = ips[i][j]

LEMMA PoolHas ==
  ASSUME NEW per \in {1, 2}, NEW count \in Nat, NEW ports, NEW ips,
         \A i \in 0 .. count - 1 : IsRow(ports[i], i, 1) /\ IsRow(ips[i], i, per)
  PROVE  PoolStores(Flat(ports, 1, count) \o Flat(ips, per, count), ports, ips, per, count, count)
<1> DEFINE size == per * count
<1>0. per \in RowLengths /\ 1 \in RowLengths /\ 1 * count = count /\ size \in Nat
  BY DEF RowLengths
<1>1. PICK a : a = Flat(ports, 1, count)
  OBVIOUS
<1>2. PICK b : b = Flat(ips, per, count)
  OBVIOUS
<1>3. /\ a \in Seq(Stores) /\ Len(a) = count
      /\ \A i \in 0 .. count - 1 : a[1 + i] = ports[i][1]
  <2>1. FlatHas(ports, 1, count)
    BY <1>0, FlatLoop
  <2>2. \A i \in 0 .. count - 1 : 1 * i + 1 = 1 + i /\ 1 \in 1 .. 1
    OBVIOUS
  <2> QED  BY <1>0, <1>1, <2>1, <2>2 DEF FlatHas
<1>4. /\ b \in Seq(Stores) /\ Len(b) = size
      /\ \A i \in 0 .. count - 1, j \in 1 .. per : b[per * i + j] = ips[i][j]
  <2>1. FlatHas(ips, per, count)
    BY <1>0, FlatLoop
  <2> QED  BY <1>2, <2>1 DEF FlatHas
<1>5. PICK p : p = a \o b
  OBVIOUS
<1>6. /\ p \in Seq(Stores) /\ Len(p) = count + size
      /\ \A n \in 1 .. count + size : p[n] = IF n <= count THEN a[n] ELSE b[n - count]
  <2>1. /\ a \o b \in Seq(Stores) /\ Len(a \o b) = Len(a) + Len(b)
        /\ \A n \in 1 .. Len(a) + Len(b) : (a \o b)[n] = IF n <= Len(a) THEN a[n] ELSE b[n - Len(a)]
    <3> HIDE DEF Stores
    <3> QED  BY <1>3, <1>4, ConcatProperties, Zenon
  <2> HIDE DEF size
  <2> QED  BY <1>3, <1>4, <1>5, <2>1
<1>7. IsProgram(p) /\ DOMAIN p = 1 .. count + size
  BY <1>6, StoresMakeAProgram
<1>8. ASSUME NEW i \in 0 .. count - 1
      PROVE  1 + i \in DOMAIN p /\ p[1 + i] = ports[i][1]
  <2>1. 1 + i \in 1 .. count + size /\ 1 + i <= count
    BY <1>0
  <2> QED  BY <1>3, <1>6, <1>7, <2>1
<1>9. ASSUME NEW i \in 0 .. count - 1, NEW j \in 1 .. per
      PROVE  count + (per * i + j) \in DOMAIN p /\ p[count + (per * i + j)] = ips[i][j]
  <2>1. PICK n : n = per * i + j
    OBVIOUS
  <2>2. n \in 1 .. size
    BY <1>0, <2>1, Positions
  <2>3. count + n \in 1 .. count + size /\ ~(count + n <= count) /\ (count + n) - count = n
    BY <1>0, <2>2
  <2>4. p[count + n] = b[n]
    BY <1>6, <2>3
  <2>5. count + n \in DOMAIN p /\ b[n] = ips[i][j]
    BY <1>4, <1>7, <2>1, <2>3
  <2> QED  BY <2>1, <2>4, <2>5
<1> QED  BY <1>1, <1>2, <1>5, <1>7, <1>8, <1>9 DEF PoolStores

\* The external port of entry i.
PortOf(i) == 10000 + (i % 32768)

PoolOf(p) ==
  \A i \in 0 .. Entries - 1 :
    /\ <<i, "ip">> \in Cells(p) /\ Final(p)[<<i, "ip">>] = 1 + i
    /\ <<i, "port">> \in Cells(p) /\ Final(p)[<<i, "port">>] = PortOf(i)

\* The last store of a row of addresses leaves the entry's own.
LEMMA PoolFinal ==
  ASSUME NEW per \in {1, 2}, NEW ips,
         \A i \in 0 .. Entries - 1 :
           /\ IsRow(ips[i], i, per) /\ ips[i][per] = Put(i, "ip", 1 + i)
           /\ \A j \in 1 .. per : ips[i][j].cell = <<i, "ip">>
  PROVE  LET p == Flat([i \in Nat |-> Port(i)], 1, Entries) \o Flat(ips, per, Entries)
         IN  IsProgram(p) /\ PoolOf(p) /\ DOMAIN p = 1 .. Entries + per * Entries
<1> DEFINE ports == [i \in Nat |-> Port(i)]
<1>0. PICK count \in Nat : count = Entries
  BY EntriesAssumption
<1>1. ASSUME NEW i \in 0 .. count - 1
      PROVE  /\ IsRow(ports[i], i, 1) /\ ports[i][1] = Put(i, "port", PortOf(i))
             /\ ports[i][1].cell = <<i, "port">>
             /\ ports[i][1].value = PortOf(i)
  <2>1. i \in Nat /\ PortOf(i) \in Nat /\ "port" \in Fields
    BY DEF Fields, PortOf
  <2>2. PICK s \in Stores : s = Put(i, "port", PortOf(i))
    BY <2>1, PutIsStore
  <2>3. ports[i] = <<s>> /\ s.cell = <<i, "port">> /\ s.value = PortOf(i) /\ s.cell[1] = i
    <3>1. ports[i] = << Put(i, "port", PortOf(i)) >>
      BY <2>1 DEF Port, PortOf, ports
    <3>2. s.cell = <<i, "port">> /\ s.value = PortOf(i) /\ s.cell[1] = i
      BY <2>1, <2>2, PutIsStore
    <3> HIDE DEF ports
    <3> QED  BY <2>2, <3>1, <3>2
  <2>4. <<s>> \in Seq(Stores) /\ Len(<<s>>) = 1 /\ <<s>>[1] = s
    <3> HIDE DEF Stores
    <3> QED  OBVIOUS
  <2>5. PICK r : r = ports[i]
    OBVIOUS
  <2>6. r \in Seq(Stores) /\ Len(r) = 1 /\ r[1] = s /\ \A j \in 1 .. 1 : j = 1
    <3>1. r = <<s>>
      BY <2>3, <2>5
    <3>2. \A j \in 1 .. 1 : j = 1
      OBVIOUS
    <3> HIDE DEF Stores
    <3> QED  BY <2>4, <3>1, <3>2
  <2>7. IsRow(r, i, 1)
    BY <2>3, <2>6 DEF IsRow
  <2> HIDE DEF ports
  <2> QED  BY <2>2, <2>3, <2>5, <2>6, <2>7
<1> HIDE DEF ports
<1>2. PICK p : p = Flat(ports, 1, count) \o Flat(ips, per, count)
  OBVIOUS
<1>3. PICK off \in Nat : off = count /\ PoolStores(p, ports, ips, per, count, off)
  <2>1. PoolStores(p, ports, ips, per, count, count)
    <3>1. \A i \in 0 .. count - 1 : IsRow(ports[i], i, 1) /\ IsRow(ips[i], i, per)
      BY <1>0, <1>1
    <3> QED  BY <1>2, <3>1, PoolHas
  <2> QED  BY <2>1
<1>4. /\ IsProgram(p) /\ DOMAIN p = 1 .. off + per * count
      /\ \A i \in 0 .. count - 1 : 1 + i \in DOMAIN p /\ p[1 + i] = ports[i][1]
      /\ \A i \in 0 .. count - 1, j \in 1 .. per :
           off + (per * i + j) \in DOMAIN p /\ p[off + (per * i + j)] = ips[i][j]
  BY <1>3 DEF PoolStores
<1>5. ASSUME NEW n \in DOMAIN p
      PROVE  \/ \E i \in 0 .. count - 1 : n = 1 + i /\ p[n] = ports[i][1]
             \/ \E i \in 0 .. count - 1, j \in 1 .. per : n = off + (per * i + j) /\ p[n] = ips[i][j]
  <2>1. CASE n <= off
    <3>1. n - 1 \in 0 .. count - 1 /\ n = 1 + (n - 1)
      BY <1>3, <1>4, <2>1
    <3> QED  BY <1>4, <3>1
  <2>2. CASE ~(n <= off)
    <3>1. PICK m \in 1 .. per * count : n = off + m
      <4>1. n - off \in 1 .. per * count /\ n = off + (n - off)
        BY <1>4, <2>2
      <4> QED  BY <4>1
    <3>2. PICK i \in 0 .. count - 1, j \in 1 .. per : m = per * i + j
      <4>1. per \in RowLengths
        BY DEF RowLengths
      <4>2. m = per * Index(m, per) + Within(m, per)
            /\ Index(m, per) \in 0 .. count - 1 /\ Within(m, per) \in 1 .. per
        BY <4>1, Positions
      <4> QED  BY <4>2
    <3> QED  BY <1>4, <3>1, <3>2
  <2> QED  BY <2>1, <2>2
<1>6. ASSUME NEW i \in 0 .. count - 1
      PROVE  <<i, "port">> \in Cells(p) /\ Final(p)[<<i, "port">>] = PortOf(i)
  <2>1. PICK n : n = 1 + i
    OBVIOUS
  <2>2. n \in DOMAIN p /\ p[n].cell = <<i, "port">> /\ p[n].value = PortOf(i)
    <3>1. n \in DOMAIN p /\ p[n] = ports[i][1]
      BY <1>4, <2>1
    <3> QED  BY <1>1, <3>1
  <2>3. ASSUME NEW m \in DOMAIN p, p[m].cell = p[n].cell
        PROVE  p[m].value = p[n].value
    <3>1. ASSUME NEW g \in 0 .. count - 1, p[m] = ports[g][1]
          PROVE  p[m].value = p[n].value
      <4>1. <<g, "port">> = <<i, "port">>
        BY <1>1, <2>2, <2>3, <3>1
      <4>2. g = i
        BY <4>1
      <4> QED  BY <1>1, <2>2, <3>1, <4>2
    <3>2. ASSUME NEW g \in 0 .. count - 1, NEW j \in 1 .. per, p[m] = ips[g][j]
          PROVE  FALSE
      <4>1. <<g, "ip">> = <<i, "port">>
        BY <1>0, <2>2, <2>3, <3>2
      <4> QED  BY <4>1
    <3> QED  BY <1>5, <3>1, <3>2
  <2>4. IsProgram(p)
    BY <1>4
  <2>5. p[n].cell \in Cells(p) /\ Final(p)[p[n].cell] = p[n].value
    BY <2>2, <2>3, <2>4, LaterStoresDecide
  <2> QED  BY <2>2, <2>5
<1>7. ASSUME NEW i \in 0 .. count - 1
      PROVE  <<i, "ip">> \in Cells(p) /\ Final(p)[<<i, "ip">>] = 1 + i
  <2>1. PICK n : n = off + (per * i + per)
    OBVIOUS
  <2>2. n \in DOMAIN p /\ p[n].cell = <<i, "ip">> /\ p[n].value = 1 + i
    <3>1. per \in 1 .. per /\ i \in Nat /\ 1 + i \in Nat /\ "ip" \in Fields
      BY DEF Fields
    <3>2. n \in DOMAIN p /\ p[n] = ips[i][per]
      BY <1>4, <2>1, <3>1
    <3>3. p[n] = Put(i, "ip", 1 + i)
      BY <1>0, <3>2
    <3> QED  BY <3>1, <3>2, <3>3, PutIsStore
  <2>3. ASSUME NEW m \in DOMAIN p, n <= m, p[m].cell = p[n].cell
        PROVE  p[m].value = p[n].value
    <3>1. ASSUME NEW g \in 0 .. count - 1, p[m] = ports[g][1]
          PROVE  FALSE
      <4>1. <<g, "port">> = <<i, "ip">>
        BY <1>1, <2>2, <2>3, <3>1
      <4> QED  BY <4>1
    <3>2. ASSUME NEW g \in 0 .. count - 1, NEW j \in 1 .. per, m = off + (per * g + j), p[m] = ips[g][j]
          PROVE  p[m].value = p[n].value
      <4>1. <<g, "ip">> = <<i, "ip">>
        BY <1>0, <2>2, <2>3, <3>2
      <4>2. g = i
        BY <4>1
      <4>3. per <= j
        BY <2>1, <2>3, <3>2, <4>2
      <4>4. j = per
        BY <4>3
      <4> QED  BY <2>1, <3>2, <4>2, <4>4
    <3> QED  BY <1>5, <3>1, <3>2
  <2>4. IsProgram(p)
    BY <1>4
  <2>5. p[n].cell \in Cells(p) /\ Final(p)[p[n].cell] = p[n].value
    BY <2>2, <2>3, <2>4, LaterStoresDecide
  <2> QED  BY <2>2, <2>5
<1> QED  BY <1>0, <1>2, <1>3, <1>4, <1>6, <1>7 DEF PoolOf, ports

LEMMA PoolsAreFull ==
  /\ RustNat4 = Nat4 /\ RustNat6 = Nat6
  /\ IsProgram(Nat4) /\ PoolOf(Nat4) /\ DOMAIN Nat4 = 1 .. Entries + 1 * Entries
  /\ IsProgram(Nat6) /\ PoolOf(Nat6) /\ DOMAIN Nat6 = 1 .. Entries + 2 * Entries
<1> DEFINE ports == [i \in Nat |-> Port(i)]
           ips4  == [i \in Nat |-> Ip4(i)]
           ips6  == [i \in Nat |-> Ip6(i)]
<1>1. \A i : RustPort(i) = Port(i) /\ RustIp4(i) = Ip4(i) /\ RustIp6(i) = Ip6(i)
  BY DEF RustPort, Port, RustIp4, Ip4, RustIp6, Ip6
<1>2. RustNat4 = Nat4 /\ RustNat6 = Nat6
  BY <1>1 DEF RustNat4, Nat4, RustNat6, Nat6, Loop
<1>3. ASSUME NEW i \in Nat
      PROVE  /\ IsRow(Ip4(i), i, 1) /\ Ip4(i)[1] = Put(i, "ip", 1 + i)
             /\ Ip4(i)[1].cell = <<i, "ip">>
             /\ IsRow(Ip6(i), i, 2) /\ Ip6(i)[2] = Put(i, "ip", 1 + i)
             /\ Ip6(i)[1].cell = <<i, "ip">> /\ Ip6(i)[2].cell = <<i, "ip">>
  <2>1. 1 + i \in Nat /\ 1 \in Nat /\ "ip" \in Fields
    BY DEF Fields
  <2>2. PICK s \in Stores : s = Put(i, "ip", 1 + i)
    BY <2>1, PutIsStore
  <2>3. PICK b \in Stores : b = Put(i, "ip", 1)
    BY <2>1, PutIsStore
  <2>4. s.cell = <<i, "ip">> /\ b.cell = <<i, "ip">> /\ s.cell[1] = i /\ b.cell[1] = i
    BY <2>1, <2>2, <2>3, PutIsStore
  <2>5. /\ <<s>> \in Seq(Stores) /\ Len(<<s>>) = 1 /\ <<s>>[1] = s
        /\ <<b, s>> \in Seq(Stores) /\ Len(<<b, s>>) = 2 /\ <<b, s>>[1] = b /\ <<b, s>>[2] = s
    <3> HIDE DEF Stores
    <3> QED  OBVIOUS
  <2>6. PICK r4 : r4 = <<s>> /\ r4 = Ip4(i)
    BY <2>2 DEF Ip4
  <2>7. PICK r6 : r6 = <<b, s>> /\ r6 = Ip6(i)
    BY <2>2, <2>3 DEF Ip6
  <2>8. /\ r4 \in Seq(Stores) /\ Len(r4) = 1 /\ r4[1] = s
        /\ r6 \in Seq(Stores) /\ Len(r6) = 2 /\ r6[1] = b /\ r6[2] = s
    BY <2>5, <2>6, <2>7
  <2>9. (\A j \in 1 .. 1 : j = 1) /\ (\A j \in 1 .. 2 : j = 1 \/ j = 2)
    OBVIOUS
  <2>10. IsRow(r4, i, 1) /\ IsRow(r6, i, 2)
    <3> HIDE DEF Stores
    <3> QED  BY <2>4, <2>8, <2>9 DEF IsRow
  <2> QED  BY <2>2, <2>4, <2>6, <2>7, <2>8, <2>10
<1>4. \A i \in 0 .. Entries - 1 :
        /\ IsRow(ips4[i], i, 1) /\ ips4[i][1] = Put(i, "ip", 1 + i)
        /\ \A j \in 1 .. 1 : ips4[i][j].cell = <<i, "ip">>
  <2>1. \A j \in 1 .. 1 : j = 1
    OBVIOUS
  <2> QED  BY <1>3, <2>1
<1>5. \A i \in 0 .. Entries - 1 :
        /\ IsRow(ips6[i], i, 2) /\ ips6[i][2] = Put(i, "ip", 1 + i)
        /\ \A j \in 1 .. 2 : ips6[i][j].cell = <<i, "ip">>
  <2>1. \A j \in 1 .. 2 : j = 1 \/ j = 2
    OBVIOUS
  <2> QED  BY <1>3, <2>1
<1>6. Nat4 = Flat(ports, 1, Entries) \o Flat(ips4, 1, Entries)
  <2>1. Len(Port(0)) = 1 /\ Len(Ip4(0)) = 1
    BY DEF Port, Ip4
  <2>2. \A n \in 1 .. 1 * Entries : (n - 1) \div 1 \in Nat
    BY EntriesAssumption
  <2> QED  BY <2>1, <2>2 DEF Nat4, Loop, Flat, Index, Within
<1>7. Nat6 = Flat(ports, 1, Entries) \o Flat(ips6, 2, Entries)
  <2>1. Len(Port(0)) = 1 /\ Len(Ip6(0)) = 2
    BY DEF Port, Ip6
  <2>2. /\ \A n \in 1 .. 1 * Entries : (n - 1) \div 1 \in Nat
        /\ \A n \in 1 .. 2 * Entries : (n - 1) \div 2 \in Nat
    BY EntriesAssumption
  <2> QED  BY <2>1, <2>2 DEF Nat6, Loop, Flat, Index, Within
<1>8. IsProgram(Nat4) /\ PoolOf(Nat4) /\ DOMAIN Nat4 = 1 .. Entries + 1 * Entries
  <2> HIDE DEF ips4
  <2>1. 1 \in {1, 2}
    OBVIOUS
  <2> QED  BY <1>4, <1>6, <2>1, PoolFinal
<1>9. IsProgram(Nat6) /\ PoolOf(Nat6) /\ DOMAIN Nat6 = 1 .. Entries + 2 * Entries
  <2> HIDE DEF ips6
  <2>1. 2 \in {1, 2}
    OBVIOUS
  <2> QED  BY <1>5, <1>7, <2>1, PoolFinal
<1> QED  BY <1>2, <1>8, <1>9
-----------------------------------------------------------------------------
\* No two of the four programs are the same.
LEMMA ProgramsDiffer ==
  /\ Acl6 # Acl4
  /\ Nat4 # Acl4 /\ Nat4 # Acl6
  /\ Nat6 # Acl4 /\ Nat6 # Acl6 /\ Nat6 # Nat4
<1>1. PICK n \in Nat \ {0} : n = Entries
  BY EntriesAssumption
<1>2. /\ DOMAIN Acl4 = 1 .. 5 * n /\ DOMAIN Acl6 = 1 .. 10 * n - 1
      /\ DOMAIN Nat4 = 1 .. 2 * n /\ DOMAIN Nat6 = 1 .. 3 * n
  <2>1. /\ 5 * (n - 1) + 5 = 5 * n /\ 10 * (n - 1) + 9 = 10 * n - 1
        /\ n + 1 * n = 2 * n /\ n + 2 * n = 3 * n
    OBVIOUS
  <2> QED  BY <1>1, <2>1, Acl4Final, Acl6Final, PoolsAreFull
<1>3. \A i, j \in Nat : i >= 1 /\ (1 .. i) = (1 .. j) => i = j
  <2> SUFFICES ASSUME NEW i \in Nat, NEW j \in Nat, i >= 1, (1 .. i) = (1 .. j) PROVE i = j
    OBVIOUS
  <2>1. i \in 1 .. j /\ j >= 1
    OBVIOUS
  <2>2. j \in 1 .. i
    BY <2>1
  <2> QED  BY <2>1, <2>2
<1>4. \A p, q : \A i, j \in Nat :
        DOMAIN p = 1 .. i /\ DOMAIN q = 1 .. j /\ i >= 1 /\ i # j => p # q
  BY <1>3
<1> QED  BY <1>1, <1>2, <1>4

\* Settled tables are final, and the Rust workers' tables are their like.
LEMMA SettledIsFinal ==
  ASSUME SetupStands, SetupConverges, NEW t \in SettledTables
  PROVE  \A x \in Cells(program) : t[x] = Final(program)[x]
BY DEF SetupStands, SetupConverges, SettledTables

\* What the rules of a ladder match, in tables of either version.
RuleMatches(t, i, field, net, sport, dport) ==
  IF field = "sip_mask" THEN Matches4(t, i, net, sport, dport)
                        ELSE Matches6(t, i, net, sport, dport)

LEMMA WholeRanges ==
  ASSUME NEW t, NEW i, NEW sport, NEW dport, sport <= 65535, dport <= 65535,
         t[<<i, "sport_hi">>] = 65535, t[<<i, "dport_hi">>] = 65535
  PROVE  InRanges(t, i, sport, dport)
BY DEF InRanges

LEMMA DenyMatches ==
  ASSUME NEW t, NEW i \in Nat, NEW net, NEW sport, NEW dport, sport <= 65535, dport <= 65535,
         NEW field \in {"sip_mask", "prefix_len"}, NEW prefix \in Nat \ {0},
         DenyRow(t, i, field, prefix)
  PROVE  t[<<i, "permit">>] = 0 /\ (RuleMatches(t, i, field, net, sport, dport) <=> net = i + 1)
<1>1. /\ t[<<i, "sip">>] = i + 1 /\ t[<<i, field>>] # 0 /\ t[<<i, "permit">>] = 0
      /\ t[<<i, "sport_hi">>] = 65535 /\ t[<<i, "dport_hi">>] = 65535
  BY DEF DenyRow
<1>2. InRanges(t, i, sport, dport)
  BY <1>1, WholeRanges
<1>3. CASE field = "sip_mask"
  BY <1>1, <1>2, <1>3 DEF RuleMatches, Matches4
<1>4. CASE field = "prefix_len"
  BY <1>1, <1>2, <1>4 DEF RuleMatches, Matches6
<1> QED  BY <1>1, <1>3, <1>4

LEMMA PermitMatches ==
  ASSUME NEW t, NEW i, NEW net, NEW sport, NEW dport, sport <= 65535, dport <= 65535,
         NEW field \in {"sip_mask", "prefix_len"}, PermitRow(t, i, field)
  PROVE  t[<<i, "permit">>] = 1 /\ RuleMatches(t, i, field, net, sport, dport)
<1>1. /\ t[<<i, "sip">>] = 0 /\ t[<<i, field>>] = 0 /\ t[<<i, "permit">>] = 1
      /\ t[<<i, "sport_hi">>] = 65535 /\ t[<<i, "dport_hi">>] = 65535
  BY DEF PermitRow
<1>2. InRanges(t, i, sport, dport)
  BY <1>1, WholeRanges
<1>3. CASE field = "sip_mask"
  BY <1>1, <1>2, <1>3 DEF RuleMatches, Matches4
<1>4. CASE field = "prefix_len"
  BY <1>1, <1>2, <1>4 DEF RuleMatches, Matches6
<1> QED  BY <1>1, <1>3, <1>4

\* The tables of the running program hold its ladder.
LadderIn(t) ==
  \/ program = Acl4 /\ LadderOf(t, "sip_mask", 24)
  \/ program = Acl6 /\ LadderOf(t, "prefix_len", 8)

\* A ladder denies the sources of its first rules and permits the others.
LEMMA LadderDecides ==
  ASSUME NEW t, NEW net \in Networks, NEW sport \in Ports, NEW dport \in Ports, LadderIn(t)
  PROVE  Classify(t, net, sport, dport) <=> net \notin Denied
<1>1. PICK count \in Nat : count = Entries - 1 /\ count - 1 = Entries - 2
  BY EntriesAssumption
<1>2. sport <= 65535 /\ dport <= 65535
  BY FramesAssumption
<1>2a. PICK field \in {"sip_mask", "prefix_len"}, prefix \in Nat \ {0} :
         /\ LadderOf(t, field, prefix)
         /\ \A i : Matches(t, i, net, sport, dport) <=> RuleMatches(t, i, field, net, sport, dport)
  <2>1. CASE program = Acl4 /\ LadderOf(t, "sip_mask", 24)
    BY <2>1 DEF Matches, RuleMatches
  <2>2. CASE program = Acl6 /\ LadderOf(t, "prefix_len", 8)
    BY <2>2, ProgramsDiffer DEF Matches, RuleMatches
  <2> QED  BY <2>1, <2>2 DEF LadderIn
<1>3a. ASSUME NEW i \in 0 .. count - 1
       PROVE  t[<<i, "permit">>] = 0 /\ (Matches(t, i, net, sport, dport) <=> net = i + 1)
  <2>1. DenyRow(t, i, field, prefix)
    BY <1>1, <1>2a DEF LadderOf
  <2>2. t[<<i, "permit">>] = 0 /\ (RuleMatches(t, i, field, net, sport, dport) <=> net = i + 1)
    <3>1. i \in Nat
      OBVIOUS
    <3> QED  BY <1>2, <2>1, <3>1, DenyMatches
  <2> QED  BY <1>2a, <2>2
<1>3b. t[<<count, "permit">>] = 1 /\ Matches(t, count, net, sport, dport)
  <2>1. PermitRow(t, count, field)
    BY <1>1, <1>2a DEF LadderOf
  <2>2. t[<<count, "permit">>] = 1 /\ RuleMatches(t, count, field, net, sport, dport)
    BY <1>2, <2>1, PermitMatches
  <2> QED  BY <1>2a, <2>2
<1>4. 0 .. Entries - 1 = 0 .. count /\ Denied = 1 .. count
  BY <1>1 DEF Denied
<1>5. ASSUME net \notin 1 .. count
      PROVE  Classify(t, net, sport, dport)
  <2>1. \A j \in 0 .. count - 1 : ~Matches(t, j, net, sport, dport)
    <3>1. \A j \in 0 .. count - 1 : net # j + 1
      BY <1>5
    <3> QED  BY <1>3a, <3>1
  <2>2. count \in 0 .. count
    OBVIOUS
  <2> QED  BY <1>3b, <1>4, <2>1, <2>2 DEF Classify
<1>6. ASSUME Classify(t, net, sport, dport)
      PROVE  net \notin 1 .. count
  <2>1. PICK i \in 0 .. count :
          /\ t[<<i, "permit">>] = 1
          /\ \A j \in 0 .. i - 1 : ~Matches(t, j, net, sport, dport)
    BY <1>4, <1>6 DEF Classify
  <2>2. i = count
    <3>1. i \notin 0 .. count - 1
      BY <1>3a, <2>1
    <3> QED  BY <3>1
  <2>3. ASSUME net \in 1 .. count PROVE FALSE
    <3>1. net - 1 \in 0 .. count - 1 /\ net = (net - 1) + 1
      BY <2>3
    <3> QED  BY <1>3a, <2>1, <2>2, <3>1
  <2> QED  BY <2>3
<1> QED  BY <1>4, <1>5, <1>6

LEMMA TablesHoldTheLadder ==
  ASSUME program \in {Acl4, Acl6}
  PROVE  /\ LadderIn(RustTable)
         /\ \A t : (\A x \in Cells(program) : t[x] = Final(program)[x]) => LadderIn(t)
<1>1. PICK p : p = program
  OBVIOUS
<1>2. ASSUME NEW field \in {"sip_mask", "prefix_len"}, NEW prefix,
             \A i \in 0 .. Entries - 1 : HasRow(p, i, AclFields(field)),
             LadderOf(Final(p), field, prefix),
             NEW t, \A x \in Cells(p) : t[x] = Final(p)[x]
      PROVE  LadderOf(t, field, prefix)
  <2>1. PICK count \in Nat : count = Entries - 1 /\ count - 1 = Entries - 2
    BY EntriesAssumption
  <2>2. \A i \in 0 .. count, f \in AclFields(field) : t[<<i, f>>] = Final(p)[<<i, f>>]
    BY <1>2, <2>1 DEF HasRow
  <2>3. ASSUME NEW i \in 0 .. count - 1 PROVE DenyRow(t, i, field, prefix)
    <3>1. DenyRow(Final(p), i, field, prefix) /\ i \in 0 .. count
      BY <1>2, <2>1 DEF LadderOf
    <3>2. \A f \in AclFields(field) : t[<<i, f>>] = Final(p)[<<i, f>>]
      BY <2>2, <3>1
    <3> QED  BY <3>1, <3>2 DEF DenyRow, AclFields
  <2>4. PermitRow(t, count, field)
    <3>1. PermitRow(Final(p), count, field) /\ count \in 0 .. count
      BY <1>2, <2>1 DEF LadderOf
    <3>2. \A f \in AclFields(field) : t[<<count, f>>] = Final(p)[<<count, f>>]
      BY <2>2, <3>1
    <3> QED  BY <3>1, <3>2 DEF PermitRow, AclFields
  <2> QED  BY <2>1, <2>3, <2>4 DEF LadderOf
<1>3. CASE p = Acl4
  <2>1. /\ \A i \in 0 .. Entries - 1 : HasRow(p, i, AclFields("sip_mask"))
        /\ LadderOf(Final(p), "sip_mask", 24)
    BY <1>3, Acl4Final
  <2>2. RustTable = Zeroed(Cells(p), Ladder(Rows("sip_mask", 24), 5, Entries - 1, RustLast))
    <3>1. RustProgram = RustAcl4
      BY <1>1, <1>3, ProgramsDiffer DEF RustProgram
    <3> QED  BY <1>1, <3>1, RowsAreLadders DEF RustTable, Zeroed
  <2>3. LadderOf(RustTable, "sip_mask", 24)
    BY <2>1, <2>2, RustFinal DEF HasRow
  <2> QED  BY <1>1, <1>2, <1>3, <2>1, <2>3 DEF LadderIn
<1>4. CASE p = Acl6
  <2>1. /\ \A i \in 0 .. Entries - 1 : HasRow(p, i, AclFields("prefix_len"))
        /\ LadderOf(Final(p), "prefix_len", 8)
    BY <1>4, Acl6Final
  <2>2. RustTable = Zeroed(Cells(p), Ladder(Rows("prefix_len", 8), 5, Entries - 1, RustLast))
    <3>1. RustProgram = RustAcl6
      BY <1>1, <1>4, ProgramsDiffer DEF RustProgram
    <3> QED  BY <1>1, <3>1, RowsAreLadders DEF RustTable, Zeroed
  <2>3. LadderOf(RustTable, "prefix_len", 8)
    BY <2>1, <2>2, RustFinal DEF HasRow
  <2> QED  BY <1>1, <1>2, <1>4, <2>1, <2>3 DEF LadderIn
<1> QED  BY <1>1, <1>3, <1>4

(***************************************************************************)
(* "deny a spread of /24 sources, last rule permits all" (acl.cpp:86):     *)
(* whatever number of lcores run acl, in whatever order their setups       *)
(* store, a finished ladder of any length denies exactly the sources in    *)
(* the spread, and gives every frame the verdict of the Rust worker.       *)
(***************************************************************************)
THEOREM VerdictsAreThePorts ==
  ASSUME ArePrograms
  PROVE  Spec => []VerdictsMatchPort
<1>1. SetupStands /\ SetupConverges => VerdictsMatchPort
  <2> SUFFICES ASSUME SetupStands, SetupConverges, program \in {Acl4, Acl6},
                      NEW t \in SettledTables, NEW net \in Networks,
                      NEW sport \in Ports, NEW dport \in Ports
               PROVE  /\ Classify(t, net, sport, dport) <=> net \notin Denied
                      /\ Classify(t, net, sport, dport) <=> Classify(RustTable, net, sport, dport)
    BY DEF VerdictsMatchPort
  <2>1. LadderIn(t) /\ LadderIn(RustTable)
    BY SettledIsFinal, TablesHoldTheLadder
  <2>2. /\ Classify(t, net, sport, dport) <=> net \notin Denied
        /\ Classify(RustTable, net, sport, dport) <=> net \notin Denied
    BY <2>1, LadderDecides
  <2> QED  BY <2>2, Zenon
<1> QED
  BY OverlapIsHarmless, SetupsConverge, <1>1, PTL

\* The stores of a loop are those of its rows.
LoopHas(p, row, per, count) ==
  /\ \A i \in 0 .. count - 1, j \in 1 .. per : \E n \in DOMAIN p : p[n] = row[i][j]
  /\ \A n \in DOMAIN p : \E i \in Nat, j \in 1 .. per : p[n] = row[i][j]

LEMMA LoopStores ==
  ASSUME NEW per \in RowLengths, NEW count \in Nat, NEW row
  PROVE  LoopHas(Flat(row, per, count), row, per, count)
<1>1. PICK size : size = per * count
  OBVIOUS
<1>2. PICK p : p = Flat(row, per, count)
  OBVIOUS
<1>3. DOMAIN p = 1 .. size /\ \A n \in 1 .. size : p[n] = row[Index(n, per)][Within(n, per)]
  BY <1>1, <1>2 DEF Flat
<1>4. ASSUME NEW i \in 0 .. count - 1, NEW j \in 1 .. per
      PROVE  \E n \in DOMAIN p : p[n] = row[i][j]
  <2>1. PICK n : n = per * i + j
    OBVIOUS
  <2>2. n \in 1 .. size /\ Index(n, per) = i /\ Within(n, per) = j
    BY <1>1, <2>1, Positions
  <2>3. p[n] = row[i][j]
    BY <1>3, <2>2
  <2> QED  BY <1>3, <2>2, <2>3
<1>5. ASSUME NEW n \in DOMAIN p
      PROVE  \E i \in Nat, j \in 1 .. per : p[n] = row[i][j]
  <2>1. Index(n, per) \in Nat /\ Within(n, per) \in 1 .. per
    BY <1>1, <1>3, Positions
  <2> QED  BY <1>3, <2>1
<1> QED  BY <1>2, <1>4, <1>5 DEF LoopHas

\* Flattened rows of stores in a set, and two such programs one after the other.
LEMMA FlatStoresIn ==
  ASSUME NEW per \in RowLengths, NEW count \in Nat, NEW row, NEW S,
         \A i \in Nat, j \in 1 .. per : row[i][j] \in S
  PROVE  Flat(row, per, count) \in Seq(S)
<1>1. PICK size : size = per * count
  OBVIOUS
<1>2. size \in Nat
  BY <1>1 DEF RowLengths
<1>3. PICK p : p = Flat(row, per, count)
  OBVIOUS
<1>4. DOMAIN p = 1 .. size /\ p = [n \in 1 .. size |-> p[n]]
  BY <1>1, <1>3 DEF Flat
<1>5. \A n \in 1 .. size : p[n] \in S
  <2>1. LoopHas(p, row, per, count)
    BY <1>3, LoopStores
  <2> QED  BY <1>4, <2>1 DEF LoopHas
<1>6. p \in [1 .. size -> S]
  BY <1>4, <1>5
<1> QED  BY <1>2, <1>3, <1>6, SeqDef

\* What the setups of nat store in a cell.
LEMMA PoolValues ==
  ASSUME NEW i \in 0 .. Entries - 1
  PROVE  /\ Values(Nat4, <<i, "port">>) \subseteq {PortOf(i)}
         /\ Values(Nat6, <<i, "port">>) \subseteq {PortOf(i)}
         /\ Values(Nat4, <<i, "ip">>) \subseteq {1 + i}
         /\ Values(Nat6, <<i, "ip">>) \subseteq {1, 1 + i}
<1> DEFINE ports == [k \in Nat |-> Port(k)]
           ips4  == [k \in Nat |-> Ip4(k)]
           ips6  == [k \in Nat |-> Ip6(k)]
           PortStores == {Put(k, "port", PortOf(k)) : k \in Nat}
           IpStores   == {Put(k, "ip", 1 + k) : k \in Nat}
           BaseStores == {Put(k, "ip", 1) : k \in Nat}
<1>1. PICK count \in Nat : count = Entries
  BY EntriesAssumption
<1>2. Nat4 = Flat(ports, 1, count) \o Flat(ips4, 1, count)
  <2>1. Len(Port(0)) = 1 /\ Len(Ip4(0)) = 1
    BY DEF Port, Ip4
  <2>2. \A n \in 1 .. 1 * count : (n - 1) \div 1 \in Nat
    OBVIOUS
  <2> QED  BY <1>1, <2>1, <2>2 DEF Nat4, Loop, Flat, Index, Within
<1>3. Nat6 = Flat(ports, 1, count) \o Flat(ips6, 2, count)
  <2>1. Len(Port(0)) = 1 /\ Len(Ip6(0)) = 2
    BY DEF Port, Ip6
  <2>2. /\ \A n \in 1 .. 1 * count : (n - 1) \div 1 \in Nat
        /\ \A n \in 1 .. 2 * count : (n - 1) \div 2 \in Nat
    OBVIOUS
  <2> QED  BY <1>1, <2>1, <2>2 DEF Nat6, Loop, Flat, Index, Within
<1>4. \A k \in Nat : /\ \A j \in 1 .. 1 : ports[k][j] \in PortStores
                     /\ \A j \in 1 .. 1 : ips4[k][j] \in IpStores
                     /\ \A j \in 1 .. 2 : ips6[k][j] \in BaseStores \cup IpStores
  <2> SUFFICES ASSUME NEW k \in Nat
               PROVE  /\ \A j \in 1 .. 1 : ports[k][j] \in PortStores
                      /\ \A j \in 1 .. 1 : ips4[k][j] \in IpStores
                      /\ \A j \in 1 .. 2 : ips6[k][j] \in BaseStores \cup IpStores
    OBVIOUS
  <2>1. /\ ports[k][1] = Put(k, "port", PortOf(k)) /\ ips4[k][1] = Put(k, "ip", 1 + k)
        /\ ips6[k][1] = Put(k, "ip", 1) /\ ips6[k][2] = Put(k, "ip", 1 + k)
    BY DEF Port, Ip4, Ip6, PortOf
  <2>2. (\A j \in 1 .. 1 : j = 1) /\ (\A j \in 1 .. 2 : j = 1 \/ j = 2)
    OBVIOUS
  <2> QED  BY <2>1, <2>2
<1> HIDE DEF ports, ips4, ips6, PortStores, IpStores, BaseStores
<1>5. \A n \in DOMAIN Nat4 : Nat4[n] \in PortStores \cup IpStores
  <2>1. PICK S : S = PortStores \cup IpStores
    OBVIOUS
  <2>2. /\ \A k \in Nat, j \in 1 .. 1 : ports[k][j] \in S
        /\ \A k \in Nat, j \in 1 .. 1 : ips4[k][j] \in S
    BY <1>4, <2>1
  <2>3. 1 \in RowLengths
    BY DEF RowLengths
  <2>4. Flat(ports, 1, count) \in Seq(S) /\ Flat(ips4, 1, count) \in Seq(S)
    BY <2>2, <2>3, FlatStoresIn
  <2>5. Nat4 \in Seq(S)
    BY <1>2, <2>4, ConcatProperties
  <2> QED  BY <2>1, <2>5, ElementOfSeq, LenProperties
<1>6. \A n \in DOMAIN Nat6 : Nat6[n] \in PortStores \cup BaseStores \cup IpStores
  <2>1. PICK S : S = PortStores \cup BaseStores \cup IpStores
    OBVIOUS
  <2>2. /\ \A k \in Nat, j \in 1 .. 1 : ports[k][j] \in S
        /\ \A k \in Nat, j \in 1 .. 2 : ips6[k][j] \in S
    BY <1>4, <2>1
  <2>3. 1 \in RowLengths /\ 2 \in RowLengths
    BY DEF RowLengths
  <2>4. Flat(ports, 1, count) \in Seq(S) /\ Flat(ips6, 2, count) \in Seq(S)
    BY <2>2, <2>3, FlatStoresIn
  <2>5. Nat6 \in Seq(S)
    BY <1>3, <2>4, ConcatProperties
  <2> QED  BY <2>1, <2>5, ElementOfSeq, LenProperties
<1>7. \A k, f, v : Put(k, f, v).cell = <<k, f>> /\ Put(k, f, v).value = v
  BY DEF Put
<1>8. \A k, l, f, g : <<k, f>> = <<l, g>> => k = l /\ f = g
  OBVIOUS
<1>9. /\ \A s \in PortStores : s.cell = <<i, "port">> => s.value = PortOf(i)
      /\ \A s \in IpStores : s.cell = <<i, "ip">> => s.value = 1 + i
      /\ \A s \in BaseStores : s.cell = <<i, "ip">> => s.value = 1
      /\ \A s \in PortStores : s.cell # <<i, "ip">>
      /\ \A s \in IpStores \cup BaseStores : s.cell # <<i, "port">>
  <2>1. ASSUME NEW k \in Nat
        PROVE  /\ Put(k, "port", PortOf(k)).cell = <<i, "port">> => Put(k, "port", PortOf(k)).value = PortOf(i)
               /\ Put(k, "port", PortOf(k)).cell # <<i, "ip">>
    BY <1>7, <1>8
  <2>2. ASSUME NEW k \in Nat
        PROVE  /\ Put(k, "ip", 1 + k).cell = <<i, "ip">> => Put(k, "ip", 1 + k).value = 1 + i
               /\ Put(k, "ip", 1 + k).cell # <<i, "port">>
    BY <1>7, <1>8
  <2>3. ASSUME NEW k \in Nat
        PROVE  Put(k, "ip", 1).value = 1 /\ Put(k, "ip", 1).cell # <<i, "port">>
    BY <1>7, <1>8
  <2> QED  BY <2>1, <2>2, <2>3 DEF PortStores, IpStores, BaseStores
<1> QED  BY <1>5, <1>6, <1>9 DEF Values

(***************************************************************************)
(* "hash the flow 5-tuple to an entry in an external address/port pool     *)
(* and rewrite" (nat.cpp:2), for a pool of any size.  Over IPv4 any lcore  *)
(* that forwards gives a flow the pair of the Rust worker, over IPv6 once  *)
(* all setups have returned; before, it may give it the base address, but  *)
(* never the port of another entry nor an address of neither.              *)
(***************************************************************************)
THEOREM FlowsGetPoolPairs ==
  ASSUME ArePrograms
  PROVE  Spec => []PairsComeFromPool
<1>1. SetupStands /\ SetupConverges /\ StoredByASetup => PairsComeFromPool
  <2> SUFFICES ASSUME SetupStands, SetupConverges, StoredByASetup, program \in {Nat4, Nat6},
                      NEW hash \in Hashes, NEW pair, pair = Translate(RustTable, hash)
               PROVE  /\ \E i \in 0 .. Entries - 1 : pair = << 1 + i, 10000 + (i % 32768) >>
                      /\ \A t \in SettledTables : Translate(t, hash) = pair
                      /\ \A c \in Lcores : seen[c] # Unseen =>
                           \/ Translate(seen[c], hash) = pair
                           \/ program = Nat6 /\ Translate(seen[c], hash) = << 1, pair[2] >>
    BY DEF PairsComeFromPool
  <2>1. RustProgram = program /\ PoolOf(program)
    <3>1. CASE program = Nat4
      BY <3>1, PoolsAreFull, ProgramsDiffer DEF RustProgram
    <3>2. CASE program = Nat6
      BY <3>2, PoolsAreFull, ProgramsDiffer DEF RustProgram
    <3> QED  BY <3>1, <3>2
  <2>2. \A x \in Cells(program) : RustTable[x] = Final(program)[x]
    BY <2>1 DEF RustTable
  <2>3. PICK i \in 0 .. Entries - 1 : i = PoolEntry(hash)
    <3>1. hash \in Nat /\ Entries \in Nat \ {0}
      BY EntriesAssumption, FramesAssumption
    <3>2. hash % Entries \in 0 .. Entries - 1
      BY <3>1
    <3> QED  BY <3>2 DEF PoolEntry
  <2>4. pair = << 1 + i, PortOf(i) >>
    <3>1. RustTable[<<i, "ip">>] = 1 + i /\ RustTable[<<i, "port">>] = PortOf(i)
      BY <2>1, <2>2 DEF PoolOf
    <3> QED  BY <2>3, <3>1 DEF Translate
  <2>5. ASSUME NEW t \in SettledTables
        PROVE  Translate(t, hash) = pair
    <3>1. \A x \in Cells(program) : t[x] = Final(program)[x]
      BY SettledIsFinal
    <3>2. t[<<i, "ip">>] = 1 + i /\ t[<<i, "port">>] = PortOf(i)
      BY <2>1, <3>1 DEF PoolOf
    <3> QED  BY <2>3, <2>4, <3>2 DEF Translate
  <2>6. ASSUME NEW c \in Lcores, seen[c] # Unseen
        PROVE  \/ Translate(seen[c], hash) = pair
               \/ program = Nat6 /\ Translate(seen[c], hash) = << 1, pair[2] >>
    <3>1. /\ seen[c][<<i, "ip">>] \in Values(program, <<i, "ip">>)
          /\ seen[c][<<i, "port">>] \in Values(program, <<i, "port">>)
      BY <2>1, <2>6 DEF PoolOf, StoredByASetup
    <3>2. Translate(seen[c], hash) = << seen[c][<<i, "ip">>], seen[c][<<i, "port">>] >>
      BY <2>3 DEF Translate
    <3>3. CASE program = Nat4
      <4>1. seen[c][<<i, "ip">>] = 1 + i /\ seen[c][<<i, "port">>] = PortOf(i)
        BY <3>1, <3>3, PoolValues
      <4> QED  BY <2>4, <3>2, <4>1
    <3>4. CASE program = Nat6
      <4>1. seen[c][<<i, "ip">>] \in {1, 1 + i} /\ seen[c][<<i, "port">>] = PortOf(i)
        BY <3>1, <3>4, PoolValues
      <4>2. pair[2] = PortOf(i)
        BY <2>4
      <4> QED  BY <2>4, <3>2, <3>4, <4>1, <4>2
    <3> QED  BY <3>3, <3>4
  <2>7. pair = << 1 + i, 10000 + (i % 32768) >>
    BY <2>4 DEF PortOf
  <2> QED  BY <2>5, <2>6, <2>7
<1> QED
  BY OverlapIsHarmless, SetupsConverge, ValuesHold, <1>1, PTL

\* The stores to the MACs, and the values a hop's two cells are stored.
LEMMA MacStores ==
  /\ \A hop \in 0 .. Entries - 1 :
       /\ {<<hop, "rest">>, <<hop, "last">>} \subseteq Cells(Macs)
       /\ Values(Macs, <<hop, "rest">>) \subseteq {2}
       /\ Values(Macs, <<hop, "last">>) \subseteq {2, hop % 256}
  /\ \A hop \in 0 .. Entries - 1 :
       /\ {<<hop, "rest">>, <<hop, "last">>} \subseteq Cells(MacsFixed)
       /\ Values(MacsFixed, <<hop, "rest">>) \subseteq {7}
       /\ Values(MacsFixed, <<hop, "last">>) \subseteq {7}
<1> DEFINE fabricated == [i \in Nat |-> Fabricated(i)]
           fixed == [i \in Nat |-> Fixed(i)]
<1>1. PICK count \in Nat : count = Entries
  BY EntriesAssumption
<1>2. Len(Fabricated(0)) = 3 /\ Len(Fixed(0)) = 2
  BY DEF Fabricated, Fixed
<1>3. Macs = Flat(fabricated, 3, count) /\ MacsFixed = Flat(fixed, 2, count)
  <2>1. /\ \A n \in 1 .. 3 * count : (n - 1) \div 3 \in Nat
        /\ \A n \in 1 .. 2 * count : (n - 1) \div 2 \in Nat
    OBVIOUS
  <2> QED  BY <1>1, <1>2, <2>1 DEF Macs, MacsFixed, Loop, Flat, Index, Within
<1>4. 3 \in RowLengths /\ 2 \in RowLengths
  BY DEF RowLengths
<1>5. ASSUME NEW i \in Nat
      PROVE  /\ fabricated[i][1] = Put(i, "rest", 2) /\ fabricated[i][2] = Put(i, "last", 2)
             /\ fabricated[i][3] = Put(i, "last", i % 256)
             /\ fixed[i][1] = Put(i, "rest", 7) /\ fixed[i][2] = Put(i, "last", 7)
  BY DEF Fabricated, Fixed
<1> HIDE DEF fabricated, fixed
<1>6. \A i, f, v : Put(i, f, v).cell = <<i, f>> /\ Put(i, f, v).value = v
  BY DEF Put
<1>7. /\ \A i \in 0 .. count - 1, j \in 1 .. 3 : \E n \in DOMAIN Macs : Macs[n] = fabricated[i][j]
      /\ \A n \in DOMAIN Macs : \E i \in Nat, j \in 1 .. 3 : Macs[n] = fabricated[i][j]
      /\ \A i \in 0 .. count - 1, j \in 1 .. 2 : \E n \in DOMAIN MacsFixed : MacsFixed[n] = fixed[i][j]
      /\ \A n \in DOMAIN MacsFixed : \E i \in Nat, j \in 1 .. 2 : MacsFixed[n] = fixed[i][j]
  <2>1. LoopHas(Macs, fabricated, 3, count) /\ LoopHas(MacsFixed, fixed, 2, count)
    BY <1>3, <1>4, LoopStores
  <2> QED  BY <2>1 DEF LoopHas
<1>8. ASSUME NEW hop \in 0 .. count - 1
      PROVE  /\ {<<hop, "rest">>, <<hop, "last">>} \subseteq Cells(Macs)
             /\ {<<hop, "rest">>, <<hop, "last">>} \subseteq Cells(MacsFixed)
  <2>1. hop \in Nat /\ 1 \in 1 .. 3 /\ 2 \in 1 .. 3 /\ 1 \in 1 .. 2 /\ 2 \in 1 .. 2
    OBVIOUS
  <2>2. PICK n \in DOMAIN Macs : Macs[n] = Put(hop, "rest", 2)
    BY <1>5, <1>7, <2>1
  <2>3. PICK m \in DOMAIN Macs : Macs[m] = Put(hop, "last", 2)
    BY <1>5, <1>7, <2>1
  <2>4. PICK k \in DOMAIN MacsFixed : MacsFixed[k] = Put(hop, "rest", 7)
    BY <1>5, <1>7, <2>1
  <2>5. PICK l \in DOMAIN MacsFixed : MacsFixed[l] = Put(hop, "last", 7)
    BY <1>5, <1>7, <2>1
  <2>6. /\ Macs[n].cell = <<hop, "rest">> /\ Macs[m].cell = <<hop, "last">>
        /\ MacsFixed[k].cell = <<hop, "rest">> /\ MacsFixed[l].cell = <<hop, "last">>
    BY <1>6, <2>2, <2>3, <2>4, <2>5
  <2> QED  BY <2>6 DEF Cells
<1>9. ASSUME NEW n \in DOMAIN Macs
      PROVE  \E i \in Nat : Macs[n] \in {Put(i, "rest", 2), Put(i, "last", 2), Put(i, "last", i % 256)}
  <2>1. PICK i \in Nat, j \in 1 .. 3 : Macs[n] = fabricated[i][j]
    BY <1>7
  <2>2. j = 1 \/ j = 2 \/ j = 3
    OBVIOUS
  <2> QED  BY <1>5, <2>1, <2>2
<1>10. ASSUME NEW n \in DOMAIN MacsFixed
       PROVE  \E i \in Nat : MacsFixed[n] \in {Put(i, "rest", 7), Put(i, "last", 7)}
  <2>1. PICK i \in Nat, j \in 1 .. 2 : MacsFixed[n] = fixed[i][j]
    BY <1>7
  <2>2. j = 1 \/ j = 2
    OBVIOUS
  <2> QED  BY <1>5, <2>1, <2>2
<1>11. \A i, j, f, g : <<i, f>> = <<j, g>> => i = j /\ f = g
  OBVIOUS
<1>12. ASSUME NEW hop
       PROVE  /\ Values(Macs, <<hop, "rest">>) \subseteq {2}
              /\ Values(Macs, <<hop, "last">>) \subseteq {2, hop % 256}
  <2>1. ASSUME NEW n \in DOMAIN Macs, NEW f, Macs[n].cell = <<hop, f>>
        PROVE  /\ f = "rest" => Macs[n].value = 2
               /\ f = "last" => Macs[n].value \in {2, hop % 256}
    <3>1. PICK i : Macs[n] \in {Put(i, "rest", 2), Put(i, "last", 2), Put(i, "last", i % 256)}
      BY <1>9
    <3>2. CASE Macs[n] = Put(i, "rest", 2)
      BY <1>6, <1>11, <2>1, <3>2
    <3>3. CASE Macs[n] = Put(i, "last", 2)
      BY <1>6, <1>11, <2>1, <3>3
    <3>4. CASE Macs[n] = Put(i, "last", i % 256)
      BY <1>6, <1>11, <2>1, <3>4
    <3> QED  BY <3>1, <3>2, <3>3, <3>4
  <2> QED  BY <2>1 DEF Values
<1>13. ASSUME NEW hop, NEW f
       PROVE  Values(MacsFixed, <<hop, f>>) \subseteq {7}
  <2>1. \A n \in DOMAIN MacsFixed : MacsFixed[n].value = 7
    BY <1>6, <1>10
  <2> QED  BY <2>1 DEF Values
<1>14. 0 .. Entries - 1 = 0 .. count - 1
  BY <1>1
<1>15. ASSUME NEW hop \in 0 .. Entries - 1
       PROVE  /\ {<<hop, "rest">>, <<hop, "last">>} \subseteq Cells(Macs)
              /\ {<<hop, "rest">>, <<hop, "last">>} \subseteq Cells(MacsFixed)
  <2>1. hop \in 0 .. count - 1
    BY <1>14
  <2> QED  BY <1>8, <2>1
<1> QED  BY <1>12, <1>13, <1>15

(***************************************************************************)
(* Whatever the setups of the other lcores are doing, a frame leaves for   *)
(* the MAC of its next hop or for hop 2's, whose bytes a setup stores      *)
(* first (l3fwd.cpp:26), and with NF_NEXTHOP_MAC only ever for that one.   *)
(***************************************************************************)
THEOREM NoMixedMacs ==
  ASSUME ArePrograms
  PROVE  Spec => []MacsBelongToHops
<1>1. StoredByASetup => MacsBelongToHops
  <2> SUFFICES ASSUME StoredByASetup, NEW c \in Lcores, NEW hop \in 0 .. Entries - 1,
                      seen[c] # Unseen
               PROVE  /\ program = Macs => MacOf(seen[c], hop) \in {<<2, hop % 256>>, <<2, 2>>}
                      /\ program = MacsFixed => MacOf(seen[c], hop) = <<7, 7>>
    BY DEF MacsBelongToHops
  <2>1. \A x \in Cells(program) : seen[c][x] \in Values(program, x)
    BY DEF StoredByASetup
  <2>2. ASSUME program = Macs
        PROVE  MacOf(seen[c], hop) \in {<<2, hop % 256>>, <<2, 2>>}
    <3>1. seen[c][<<hop, "rest">>] = 2 /\ seen[c][<<hop, "last">>] \in {2, hop % 256}
      BY <2>1, <2>2, MacStores
    <3> QED  BY <3>1 DEF MacOf
  <2>3. ASSUME program = MacsFixed
        PROVE  MacOf(seen[c], hop) = <<7, 7>>
    <3>1. seen[c][<<hop, "rest">>] = 7 /\ seen[c][<<hop, "last">>] = 7
      BY <2>1, <2>3, MacStores
    <3> QED  BY <3>1 DEF MacOf
  <2> QED  BY <2>2, <2>3
<1> QED
  BY ValuesHold, <1>1, PTL
-----------------------------------------------------------------------------
\* The stores to the MACs are a program.
LEMMA MacsAreProgram == IsProgram(Macs) /\ IsProgram(MacsFixed)
<1> DEFINE fabricated == [i \in Nat |-> Fabricated(i)]
           fixed == [i \in Nat |-> Fixed(i)]
<1>1. PICK count \in Nat : count = Entries
  BY EntriesAssumption
<1>2. ASSUME NEW i \in Nat
      PROVE  IsRow(Fabricated(i), i, 3) /\ IsRow(Fixed(i), i, 2)
  <2>1. \A f \in {"rest", "last"}, v \in Nat : Put(i, f, v) \in Stores /\ Put(i, f, v).cell[1] = i
    BY DEF Put, Stores, Fields
  <2>2. {Put(i, "rest", 2), Put(i, "last", 2), Put(i, "last", i % 256),
         Put(i, "rest", 7), Put(i, "last", 7)} \subseteq Stores
    <3>1. i % 256 \in Nat
      OBVIOUS
    <3> QED  BY <2>1, <3>1
  <2> HIDE DEF Stores
  <2>3. /\ Fabricated(i) \in Seq(Stores) /\ Len(Fabricated(i)) = 3
        /\ Fixed(i) \in Seq(Stores) /\ Len(Fixed(i)) = 2
    BY <2>2 DEF Fabricated, Fixed
  <2>4. /\ \A j \in 1 .. 3 : Fabricated(i)[j].cell[1] = i
        /\ \A j \in 1 .. 2 : Fixed(i)[j].cell[1] = i
    BY <2>1 DEF Fabricated, Fixed
  <2> QED  BY <2>3, <2>4 DEF IsRow
<1>3. Macs = Flat(fabricated, 3, count) /\ MacsFixed = Flat(fixed, 2, count)
  <2>1. Len(Fabricated(0)) = 3 /\ Len(Fixed(0)) = 2
    BY DEF Fabricated, Fixed
  <2>2. /\ \A n \in 1 .. 3 * count : (n - 1) \div 3 \in Nat
        /\ \A n \in 1 .. 2 * count : (n - 1) \div 2 \in Nat
    OBVIOUS
  <2> QED  BY <1>1, <2>1, <2>2 DEF Macs, MacsFixed, Loop, Flat, Index, Within
<1>4. /\ \A i \in 0 .. count - 1 : IsRow(fabricated[i], i, 3)
      /\ \A i \in 0 .. count - 1 : IsRow(fixed[i], i, 2)
  BY <1>2
<1>5. 3 \in RowLengths /\ 2 \in RowLengths
  BY DEF RowLengths
<1> HIDE DEF fabricated, fixed
<1>6. FlatHas(fabricated, 3, count) /\ FlatHas(fixed, 2, count)
  BY <1>4, <1>5, FlatLoop
<1> QED  BY <1>3, <1>6, StoresMakeAProgram DEF FlatHas

(***************************************************************************)
(* What the theorems assume of Programs holds of every nf_setup() in       *)
(* acl.cpp, nat.cpp and l3fwd.cpp, for tables of any size.                 *)
(***************************************************************************)
THEOREM SetupsArePrograms ==
  ASSUME Programs \subseteq {Acl4, Acl6, Nat4, Nat6, Macs, MacsFixed}
  PROVE  ArePrograms
<1>1. IsProgram(Acl4) /\ IsProgram(Acl6)
  BY Acl4Final, Acl6Final
<1>2. IsProgram(Nat4) /\ IsProgram(Nat6)
  BY PoolsAreFull
<1> QED  BY <1>1, <1>2, MacsAreProgram DEF ArePrograms
=============================================================================
