----------------------------- MODULE MaglevGreedy -----------------------------
(***************************************************************************)
(* What Maglev promises about the table it builds, without cursors: the    *)
(* backends take turns, and the one on turn gets the free slot that comes  *)
(* first in its row, until no slot is free.  MaglevPopulate implements it. *)
(***************************************************************************)
EXTENDS Integers

CONSTANTS K, N, Sentinel, RowSets

Slots    == 0 .. K - 1
Backends == 0 .. N - 1

VARIABLES rows, table, turn

Init ==
  /\ \E p \in RowSets : rows \in [Backends -> p]
  /\ table = [s \in Slots |-> Sentinel]
  /\ turn = 0

Free(s) == table[s] = Sentinel

FirstFree(row, j) ==
  /\ Free(row[j])
  /\ \A k \in DOMAIN row : k < j => ~Free(row[k])

Claim ==
  /\ \E j \in DOMAIN rows[turn] :
       /\ FirstFree(rows[turn], j)
       /\ table' = [table EXCEPT ![rows[turn][j]] = turn]
  /\ turn' = IF turn + 1 = N THEN 0 ELSE turn + 1
  /\ UNCHANGED rows

Spec == Init /\ [][Claim]_<<rows, table, turn>>
=============================================================================
