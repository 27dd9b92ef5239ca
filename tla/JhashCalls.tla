------------------------------ MODULE JhashCalls ------------------------------
(***************************************************************************)
(* Calls of jhash_2hashes and jhash_3words, one after the other, each with *)
(* a key and seeds of its own: the functions keep no state.                *)
(***************************************************************************)
EXTENDS Jhash

CONSTANTS Keys, Seeds

ASSUME KeysAssumption == Keys \subseteq Seq(Byte) /\ Seeds \subseteq Word

VARIABLE call   \* the last call: {} or {[key, pc, pb]}

CallInit == call = {}

CallReturns == call' = {}
CallJhash ==
  /\ call = {}
  /\ \E key \in Keys, pc, pb \in Seeds : call' = {[key |-> key, pc |-> pc, pb |-> pb]}

CallSpec == CallInit /\ [][CallJhash \/ CallReturns]_call
-----------------------------------------------------------------------------
(***************************************************************************)
(* "Bit-exact with the C functions" (jhash.rs:1), for keys of any length:  *)
(* reading the tail through a zero-padded block gives the sums of the C    *)
(* version, whatever bytes follow the key in memory, and jhash_3words is   *)
(* the hash of its twelve bytes.                                           *)
(***************************************************************************)
MatchesRteJhash ==
  \A c \in call :
    /\ \A bit \in Byte :
         Jhash2Hashes(c.key, c.pc, c.pb) = Rte2Hashes(c.key, [p \in 1 .. 3 |-> bit], c.pc, c.pb)
    /\ Len(c.key) = 12 => Jhash3Words(WordsOf(c.key), c.pc) = JhashOf(c.key, c.pc)
=============================================================================
