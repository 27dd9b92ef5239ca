--------------------------- MODULE MaglevPopulate ---------------------------
(***************************************************************************)
(* The populate loop that builds a Maglev lookup table.  Backends take     *)
(* turns; the backend on turn walks down its preference row, past the      *)
(* slots that are taken, and claims the first free one, until every slot   *)
(* of the table is claimed.                                                *)
(*                                                                         *)
(* The same loop is in maglev/maglev.cpp, apec-demo/rs/maglev/src/table.rs *)
(* and rs/maglev/src/maglev_table.rs.  They differ in their rows (module   *)
(* MaglevRows), and the rows show what lies behind entry K - 1:            *)
(*   - maglev.cpp and maglev_table.rs store K entries; one step further    *)
(*     reads past the row (undefined in C++, a panic in Rust), which this  *)
(*     module shows as pc = "overrun";                                     *)
(*   - table.rs computes entry j for any 32-bit j, and in a release build  *)
(*     the cursor goes on from 0 once it has wrapped.                      *)
(***************************************************************************)
EXTENDS Integers, FiniteSets

CONSTANTS
  K,           \* number of slots (kSize = K_SIZE = LUT_SIZE = 65537)
  N,           \* number of backends
  Sentinel,    \* the 16-bit value 0xffff that marks a slot nobody has claimed
  Reach,       \* number of values of a cursor (2^32)
  RowSets      \* for each way to compute rows, the rows a backend may have

Slots    == 0 .. K - 1
Backends == 0 .. N - 1

\* A row mentions only slots, and is stored or computed as it is read.
AnyRow == [Slots -> Slots] \cup [0 .. Reach - 1 -> Slots]

\* Backend numbers are stored in the type of the sentinel.
ASSUME PopulateAssumption ==
  /\ K \in Nat \ {0}
  /\ N \in Nat \ {0}
  /\ Sentinel \in Nat
  /\ N <= Sentinel + 1
  /\ Reach \in Nat
  /\ K < Reach
  /\ RowSets \subseteq SUBSET AnyRow

VARIABLES
  rows,      \* rows[i]: the preference row of backend i
  table,     \* hash_table / lut: the owner of every slot, or Sentinel
  next,      \* next[i]: how far backend i has walked down its row
  turn,      \* i, the backend of the current iteration of the inner loop
  filled,    \* n / filled, the number of claims made
  pc         \* "probe" in the loop, "done" returned, "overrun" past a row

vars == <<rows, table, next, turn, filled, pc>>

Init ==
  /\ \E p \in RowSets : rows \in [Backends -> p]
  /\ table = [s \in Slots |-> Sentinel]
  /\ next = [i \in Backends |-> 0]
  /\ turn = 0
  /\ filled = 0
  /\ pc = "probe"
-----------------------------------------------------------------------------
Free(s) == table[s] = Sentinel

\* The slot the backend on turn asks for: permutations_[i][next[i]].
Wanted == rows[turn][next[turn]]

InRow == next[turn] \in DOMAIN rows[turn]

\* ++next[i], in 32 bits.
AdvanceInTable(j) == (j + 1) % K
AdvanceByTwo(j)   == (j + 2) % Reach
Advance(j)        == (j + 1) % Reach

\* for i in 0 .. n: the first backend follows the last one.
TurnStaysLast == IF turn + 1 = N THEN turn ELSE turn + 1
NextTurn == IF turn + 1 = N THEN 0 ELSE turn + 1

\* while hash_table[c] != 0xffff: walk past a slot that is taken.
PassTaken ==
  /\ pc = "probe" /\ InRow
  /\ ~Free(Wanted)
  /\ next' = [next EXCEPT ![turn] = Advance(@)]
  /\ UNCHANGED <<rows, table, turn, filled, pc>>

\* hash_table[c] = i; ++next[i]; if (++n == kSize) return;
Claim ==
  /\ pc = "probe" /\ InRow
  /\ Free(Wanted)
  /\ table' = [table EXCEPT ![Wanted] = turn]
  /\ next' = [next EXCEPT ![turn] = Advance(@)]
  /\ filled' = filled + 1
  /\ pc' = IF filled + 1 = K THEN "done" ELSE "probe"
  /\ turn' = NextTurn
  /\ UNCHANGED rows

\* The read of entry K of a stored row, which does not exist.
Overrun ==
  /\ pc = "probe" /\ ~InRow
  /\ pc' = "overrun"
  /\ UNCHANGED <<rows, table, next, turn, filled>>

Next == PassTaken \/ Claim \/ Overrun

\* The loop runs on one thread and waits for nothing.
Spec == Init /\ [][Next]_vars /\ WF_vars(Next)
-----------------------------------------------------------------------------
Claimed   == {s \in Slots : ~Free(s)}
Claims(i) == {s \in Slots : table[s] = i}

Onto(row) == \A s \in Slots : \E j \in DOMAIN row : row[j] = s
OntoRows  == \A i \in Backends : Onto(rows[i])

\* Claims are backends, and a cursor goes at most one entry past its row.
TypeOK ==
  /\ \E p \in RowSets : rows \in [Backends -> p]
  /\ table \in [Slots -> 0 .. Sentinel]
  /\ next \in [Backends -> 0 .. Reach - 1]
  /\ \A i \in Backends : next[i] = 0 \/ next[i] - 1 \in DOMAIN rows[i]
  /\ turn \in Backends
  /\ filled \in 0 .. K
  /\ pc \in {"probe", "done", "overrun"}

(***************************************************************************)
(* What populate() relies on without checking it: while a slot is free,    *)
(* the row of the backend on turn still has an entry to read.  The inner   *)
(* while loop has no bound of its own, so this holds only of rows that     *)
(* visit every slot, and only because the cursor never passed a free one.  *)
(***************************************************************************)
OntoRowsNeverOverrun == OntoRows => pc # "overrun"

(***************************************************************************)
(* A cursor never leaves a free slot behind: every entry of row i before   *)
(* next[i] is taken.  This is what makes the claim of a backend the claim  *)
(* of the slot it prefers most.                                            *)
(***************************************************************************)
PrefixTaken ==
  \A i \in Backends : \A j \in 0 .. next[i] - 1 : ~Free(rows[i][j])

(***************************************************************************)
(* The even share Maglev promises, at every moment of the loop and in the  *)
(* finished table: the backends that had their turn in this round have one *)
(* slot more than the others, so no two shares differ by more than one     *)
(* (the tests expect 21846, 21846, 21845 of 65537).                        *)
(***************************************************************************)
Balanced ==
  \A i, k \in Backends :
    Cardinality(Claims(i)) =
      Cardinality(Claims(k)) + (IF i < turn THEN 1 ELSE 0)
                             - (IF k < turn THEN 1 ELSE 0)

(***************************************************************************)
(* The counter that ends the loop (n, filled) is the number of slots that  *)
(* have an owner: the table is complete when populate() returns, and the   *)
(* loop never looks for a free slot in a full table.                       *)
(***************************************************************************)
FilledCountsClaims == filled = Cardinality(Claimed)

(***************************************************************************)
(* populate() returns.  Nothing but the rows makes the loop end.           *)
(***************************************************************************)
PopulateFinishes == <>(pc = "done")

(***************************************************************************)
(* populate() returns whenever every row visits every slot.  A row that    *)
(* table.rs computes goes on behind entry K - 1, as far as a cursor counts *)
(* and then again from entry 0: it may meet there, after a wrap of the     *)
(* product j * skip, a slot its first K entries missed, but a slot that it *)
(* misses for good is waited for for ever.                                 *)
(***************************************************************************)
OntoRowsFinish == OntoRows ~> (pc = "done")

(***************************************************************************)
(* The loop is the greedy allocation of module MaglevGreedy: cursors,      *)
(* probes and the counter are hidden, a probe of a taken slot is a stutter *)
(* and a claim is a claim of the most preferred free slot.                 *)
(***************************************************************************)
Greedy == INSTANCE MaglevGreedy
ImplementsGreedy == Greedy!Spec
=============================================================================
