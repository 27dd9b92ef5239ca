----------------------------- MODULE MaglevRows -----------------------------
(***************************************************************************)
(* The preference row of one Maglev backend: the order in which it asks    *)
(* for the slots of the lookup table.  The repository computes it in two   *)
(* ways:                                                                   *)
(*   - maglev/maglev.cpp and apec-demo/rs/maglev/src/table.rs evaluate     *)
(*     (off + j * skip) % K in 32-bit words, which wrap;                   *)
(*   - rs/maglev/src/maglev_table.rs adds skip step by step and subtracts  *)
(*     K when it reaches it, so that nothing wraps.                        *)
(* The code has K = 65537 = 2^16 + 1 and words of 2^32 = (2^16)^2 values;  *)
(* a model keeps that shape with K = 2^k + 1 and Word = (2^k)^2.           *)
(***************************************************************************)
EXTENDS Naturals

CONSTANTS K,      \* number of slots of the lookup table (kSize, LUT_SIZE)
          Word    \* number of values of an unsigned machine word

\* A seed is the pair <<h1, h2>> of hashes of one backend's address or name.
Off(seed)  == seed[1] % K

Skip(seed) == (seed[2] % (K - 1)) + 1

(***************************************************************************)
(* generate_permutations() and the perm closure of populate(): entry j is  *)
(* computed from j alone, every intermediate result modulo Word.  The C++  *)
(* matrix stores the entries 0 .. K-1; the Rust closure can be asked for   *)
(* any word j, so `len` is K for the one and Word for the other.           *)
(***************************************************************************)
WrappedRow(seed, len) ==
  [j \in 0 .. len - 1 |->
     ((Off(seed) + ((j * Skip(seed)) % Word)) % Word) % K]

(***************************************************************************)
(* The loop of MaglevTable::build that fills one row of perm.              *)
(***************************************************************************)
SteppedRow(seed) ==
  LET row[j \in 0 .. K - 1] ==
        IF j = 0 THEN Off(seed)
        ELSE LET sum == row[j - 1] + Skip(seed)
             IN  IF sum >= K THEN sum - K ELSE sum
  IN  row
=============================================================================
