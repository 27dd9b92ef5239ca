--------------------------------- MODULE Jhash ---------------------------------
(***************************************************************************)
(* rs/nf-runtime/src/jhash.rs, the Rust port of DPDK's rte_jhash.h: 12     *)
(* bytes of a key at a time are added to three words and mixed, and the    *)
(* last 1 to 12 bytes go through a final mix.  Words have four bytes; a    *)
(* model has small bytes, of ByteBits bits.  A key is a sequence of bytes. *)
(***************************************************************************)
EXTENDS Integers, Sequences, FiniteSets

CONSTANT ByteBits   \* 8

Bits    == 4 * ByteBits

\* The first n powers of two, which the proofs cannot compute.
Doubles(n) == 2^0 = 1 /\ \A i \in 0 .. n - 1 : 2^(i + 1) = 2 * 2^i
ASSUME ByteAssumption == ByteBits \in Nat \ {0} /\ Doubles(Bits)

Base    == 2^ByteBits
Values  == <<Base, Base * Base, Base * Base * Base, Base * Base * Base * Base>>
WordMax == Values[4]   \* Values[n]: the number of values of n bytes
Byte    == 0 .. Base - 1
Word    == 0 .. WordMax - 1

\* 0xdeadbeef
GOLDEN_RATIO == ((57005 % WordMax) * (65536 % WordMax) + 48879) % WordMax

\* x ^ y, bit by bit.
XorOf[x \in Word] ==
  [y \in Word |-> IF x = 0 THEN y ELSE IF y = 0 THEN x
                  ELSE ((x + y) % 2) + 2 * XorOf[x \div 2][y \div 2]]
Xor(x, y) == XorOf[x][y]

Add(x, y) == (x + y) % WordMax         \* wrapping_add
Sub(x, y) == (x - y) % WordMax         \* wrapping_sub
RotateLeft(x, n) ==
  LET k == n % Bits IN ((x * 2^k) % WordMax) + (x \div 2^(Bits - k))
-----------------------------------------------------------------------------
\* The words a, b, c are s[1], s[2], s[3]; each has one before and behind it.
Before(x) == IF x = 1 THEN 3 ELSE x - 1
Behind(x) == IF x = 3 THEN 1 ELSE x + 1

\* x -= z;  x ^= rotl(z, n);  z += y
MixStep(s, x, n) ==
  LET z == Before(x)
  IN  [s EXCEPT ![x] = Xor(Sub(s[x], s[z]), RotateLeft(s[z], n)),
                ![z] = Add(s[z], s[Behind(x)])]
\* x ^= z;  x -= rotl(z, n)
FinalStep(s, x, n) ==
  LET z == Before(x) IN [s EXCEPT ![x] = Sub(Xor(s[x], s[z]), RotateLeft(s[z], n))]

Mix(s) ==
  MixStep(MixStep(MixStep(MixStep(MixStep(MixStep(s,
    1, 4), 2, 6), 3, 8), 1, 16), 2, 19), 3, 4)
FinalMix(s) ==
  FinalStep(FinalStep(FinalStep(FinalStep(FinalStep(FinalStep(FinalStep(s,
    3, 14), 1, 11), 2, 25), 3, 16), 1, 4), 2, 14), 3, 24)

\* The little-endian word of four bytes.
WordOf(k) == k[1] + k[2] * Values[1] + k[3] * Values[2] + k[4] * Values[3]

\* The three words of a block of 12 bytes, and their addition.
WordsOf(block) ==
  <<WordOf(SubSeq(block, 1, 4)), WordOf(SubSeq(block, 5, 8)), WordOf(SubSeq(block, 9, 12))>>
AddWords(s, w) == <<Add(s[1], w[1]), Add(s[2], w[2]), Add(s[3], w[3])>>

Seeded(len, pc, pb) ==
  LET init == Add(Add(GOLDEN_RATIO, len), pc) IN <<init, init, Add(init, pb)>>

\* while len > 12: the blocks that are mixed; at least one byte stays.
RoundsUpTo12(len) == len \div 12
Rounds(len) == IF len = 0 THEN 0 ELSE (len - 1) \div 12
MixedOver(key, n, seeded) ==
  LET s[r \in 0 .. n] ==
        IF r = 0 THEN seeded
        ELSE Mix(AddWords(s[r - 1], WordsOf(SubSeq(key, 12 * r - 11, 12 * r))))
  IN  s[n]

\* The last bytes, in a block padded with zeroes.
Tail12(key) ==
  LET at == 12 * Rounds(Len(key))
  IN  [p \in 1 .. 12 |-> IF at + p <= Len(key) THEN key[at + p] ELSE 0]

\* All of the key is in the words; the final mix has not been made.
Absorbed(key, pc, pb) ==
  AddWords(MixedOver(key, Rounds(Len(key)), Seeded(Len(key), pc, pb)), WordsOf(Tail12(key)))

\* jhash_2hashes: the primary and the secondary hash.  Nothing left of the
\* key, nothing to mix in.
Left(key) == Len(key) - 12 * Rounds(Len(key))
Jhash2Hashes(key, pc, pb) ==
  LET s == IF Left(key) = 0 THEN MixedOver(key, Rounds(Len(key)), Seeded(Len(key), pc, pb))
           ELSE FinalMix(Absorbed(key, pc, pb))
  IN  <<s[3], s[2]>>

JhashOf(key, initval) == Jhash2Hashes(key, initval, 0)[1]

\* jhash_3words: every word gets 12, the length, and the seeds.
Jhash3Words(w, initval) ==
  FinalMix(AddWords(w, [x \in 1 .. 3 |-> Add(Add(12, GOLDEN_RATIO), initval)]))[3]
-----------------------------------------------------------------------------
(***************************************************************************)
(* rte_jhash as jhash.rs:40 describes it: the last words are read from     *)
(* memory where the key lies, `behind' being the bytes that follow it, and *)
(* the bytes that do not belong to the key are masked.                     *)
(***************************************************************************)
RteWord(memory, at, len) ==
  IF len <= 0 THEN 0 ELSE WordOf(SubSeq(memory, at, at + 3)) % Values[IF len < 4 THEN len ELSE 4]
RteRounds(key) == Cardinality({n \in 1 .. Len(key) : 12 * n < Len(key)})
RteTail(key, behind) ==
  LET at == 12 * RteRounds(key)
  IN  [x \in 1 .. 3 |-> RteWord(key \o behind, at + 4 * x - 3, Len(key) - at - 4 * (x - 1))]

Rte2Hashes(key, behind, pc, pb) ==
  LET mixed == MixedOver(key, RteRounds(key), Seeded(Len(key), pc, pb))
      s     == IF key = << >> THEN mixed ELSE FinalMix(AddWords(mixed, RteTail(key, behind)))
  IN  <<s[3], s[2]>>
=============================================================================
