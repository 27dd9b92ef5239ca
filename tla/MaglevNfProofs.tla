--------------------------- MODULE MaglevNfProofs ---------------------------
(***************************************************************************)
(* The Maglev load balancer, in three parts.  The hash: the port of jhash  *)
(* returns what DPDK's does, and every flow has the same hash in both      *)
(* programs.  The connection caches, for every set of hashes, every        *)
(* assignment of hashes to buckets and owners, and every associativity:    *)
(* the native one (ConnCache) shows nothing but the owner of a hash and is *)
(* first in first out, and the one inside rte_fbk_hash (FbkCache, the      *)
(* instance Cpp) implements it.  The network functions around them send a  *)
(* frame to the same backend.                                              *)
(***************************************************************************)
EXTENDS MaglevNf, JhashCalls, SumProofs, SequenceTheorems

(***************************************************************************)
(* Exclusive or, by induction over the bits: it is defined on words,       *)
(* returns words, and associates.                                          *)
(***************************************************************************)
\* A step of the exclusive or, given the results for the halves.
XorStep(g, x, y) == IF x = 0 THEN y ELSE IF y = 0 THEN x ELSE ((x + y) % 2) + 2 * g[x \div 2][y \div 2]
XorLaw(g, m) == g = [x \in 0 .. m - 1 |-> [y \in 0 .. m - 1 |-> XorStep(g, x, y)]]

\* A table that obeys the law is what the law says of two words.
LEMMA XorUnfolds ==
  ASSUME NEW m, NEW g, XorLaw(g, m)
  PROVE  \A x, y \in 0 .. m - 1 : g[x][y] = XorStep(g, x, y)
<1>1. PICK e : e = [x \in 0 .. m - 1 |-> [y \in 0 .. m - 1 |-> XorStep(g, x, y)]]
  OBVIOUS
<1>2. \A x, y \in 0 .. m - 1 : e[x][y] = XorStep(g, x, y)
  <2> HIDE DEF XorStep
  <2> QED  BY <1>1
<1>3. g = e
  BY <1>1 DEF XorLaw
<1> QED  BY <1>2, <1>3

\* A table for numbers below m gives one for numbers below 2 * m.
LEMMA XorExtends ==
  ASSUME NEW m \in Nat \ {0}, NEW h, XorLaw(h, m)
  PROVE  \E g : XorLaw(g, 2 * m)
<1> DEFINE D == 0 .. m - 1
           E == 0 .. 2 * m - 1
           g == [x \in E |-> [y \in E |-> XorStep(h, x, y)]]
<1>1. \A x \in E : x \div 2 \in D
  BY Halves
<1>2. \A x \in D : x \in E
  OBVIOUS
<1>3. \A x, y \in D : h[x][y] = XorStep(h, x, y)
  BY XorUnfolds
<1>4. \A x, y \in E : g[x][y] = XorStep(h, x, y)
  <2> HIDE DEF E
  <2> QED OBVIOUS
<1>5. \A x, y \in D : g[x][y] = h[x][y]
  <2> HIDE DEF g, D, E
  <2> QED  BY <1>2, <1>3, <1>4
<1>6. \A x, y \in E : XorStep(g, x, y) = XorStep(h, x, y)
  <2> HIDE DEF g, D, E
  <2> QED  BY <1>1, <1>5 DEF XorStep
<1>7. g = [x \in E |-> [y \in E |-> XorStep(g, x, y)]]
  <2> DEFINE r == [x \in E |-> [y \in E |-> XorStep(g, x, y)]]
  <2>1. \A x \in E : g[x] = r[x]
    <3> SUFFICES ASSUME NEW x \in E PROVE [y \in E |-> XorStep(h, x, y)] = [y \in E |-> XorStep(g, x, y)]
      <4> HIDE DEF E
      <4> QED OBVIOUS
    <3> HIDE DEF g, E
    <3> QED  BY <1>6
  <2> HIDE DEF E
  <2> QED  BY <2>1, Zenon
<1> HIDE DEF g
<1> QED  BY <1>7 DEF XorLaw

Pow == [i \in 0 .. Bits |-> 2^i]

\* The powers of two up to the width of a word.
LEMMA PowType ==
  /\ Bits \in Nat \ {0} /\ Pow[0] = 1
  /\ \A i \in 0 .. Bits : Pow[i] = 2^i /\ Pow[i] \in Nat \ {0}
  /\ \A i \in 0 .. Bits - 1 : Pow[i + 1] = 2 * Pow[i]
  /\ \A b \in 0 .. Bits : \A a \in 0 .. Bits - b : Pow[a + b] = Pow[a] * Pow[b]
<1>1. Bits \in Nat \ {0} /\ 0 \in 0 .. Bits
  BY ByteAssumption DEF Bits
<1>2. \A i \in 0 .. Bits : Pow[i] = 2^i
  BY DEF Pow
<1>3. Pow[0] = 1
  BY <1>1, <1>2, ByteAssumption DEF Doubles
<1>4. \A i \in 0 .. Bits - 1 : Pow[i + 1] = 2 * Pow[i]
  <2> SUFFICES ASSUME NEW i \in 0 .. Bits - 1 PROVE Pow[i + 1] = 2 * Pow[i]
    OBVIOUS
  <2>1. i \in 0 .. Bits /\ i + 1 \in 0 .. Bits
    BY <1>1
  <2>2. 2^(i + 1) = 2 * 2^i
    BY ByteAssumption DEF Doubles
  <2> QED  BY <1>2, <2>1, <2>2
<1> QED  BY <1>1, <1>2, <1>3, <1>4, Exponents

LEMMA WordIsPower == WordMax = Pow[Bits] /\ Word = 0 .. Pow[Bits] - 1
<1>1. PICK b \in Nat \ {0} : b = ByteBits /\ Bits = b + b + b + b
  BY ByteAssumption DEF Bits
<1>2. PICK c \in Nat : c = Pow[b] /\ c = Base
  <2>1. b \in 0 .. Bits
    BY <1>1
  <2>2. Pow[b] \in Nat /\ Pow[b] = 2^b
    BY <2>1, PowType
  <2> QED  BY <1>1, <2>2 DEF Base
<1>3. Pow[b + b] = c * c /\ Pow[(b + b) + b] = (c * c) * c /\ Pow[((b + b) + b) + b] = ((c * c) * c) * c
  <2>1. /\ b \in 0 .. Bits /\ b \in 0 .. Bits - b /\ b + b \in 0 .. Bits - b
        /\ (b + b) + b \in 0 .. Bits - b
    BY <1>1
  <2>2. Pow[b + b] = Pow[b] * Pow[b]
    BY <2>1, PowType
  <2>3. Pow[(b + b) + b] = Pow[b + b] * Pow[b]
    BY <2>1, PowType
  <2>4. Pow[((b + b) + b) + b] = Pow[(b + b) + b] * Pow[b]
    BY <2>1, PowType
  <2> QED  BY <1>2, <2>2, <2>3, <2>4
<1>4. WordMax = c * c * c * c
  BY <1>2 DEF WordMax, Values
<1> QED  BY <1>1, <1>3, <1>4 DEF Word

\* The recursion ends, so that XorOf is a table that obeys the law.
LEMMA XorIsDefined == XorLaw(XorOf, WordMax)
<1> DEFINE M == {n \in Nat : n <= Bits => \E g : XorLaw(g, Pow[n])}
<1>1. 0 \in M
  <2> DEFINE g == [x \in 0 .. 0 |-> [y \in 0 .. 0 |-> 0]]
  <2>1. g = [x \in 0 .. 0 |-> [y \in 0 .. 0 |-> XorStep(g, x, y)]]
    <3>1. \A x, y \in 0 .. 0 : XorStep(g, x, y) = 0
      BY DEF XorStep
    <3> HIDE DEF g
    <3>2. [x \in 0 .. 0 |-> [y \in 0 .. 0 |-> 0]] = [x \in 0 .. 0 |-> [y \in 0 .. 0 |-> XorStep(g, x, y)]]
      BY <3>1
    <3> QED  BY <3>2 DEF g
  <2> HIDE DEF g
  <2>2. 0 = Pow[0] - 1
    BY PowType
  <2>3. XorLaw(g, Pow[0])
    BY <2>1, <2>2 DEF XorLaw
  <2> QED  BY <2>3
<1>2. ASSUME NEW n \in M PROVE n + 1 \in M
  <2> SUFFICES ASSUME n + 1 <= Bits PROVE \E g : XorLaw(g, Pow[n + 1])
    OBVIOUS
  <2>1. PICK h : XorLaw(h, Pow[n])
    BY PowType
  <2>2. Pow[n] \in Nat \ {0} /\ Pow[n + 1] = 2 * Pow[n]
    BY PowType
  <2> QED  BY <2>1, <2>2, XorExtends
<1>3. M = Nat
  <2> HIDE DEF M
  <2> QED  BY <1>1, <1>2, NumbersByInduction DEF M
<1>4. \E g : XorLaw(g, WordMax)
  <2>1. Bits \in Nat /\ Bits \in M
    BY <1>3, PowType
  <2>2. \E g : XorLaw(g, Pow[Bits])
    BY <2>1
  <2> QED  BY <2>2, WordIsPower
<1>5. XorOf = CHOOSE g : XorLaw(g, WordMax)
  BY DEF XorOf, XorLaw, XorStep, Word
<1> QED  BY <1>4, <1>5

\* What XorOf returns for two words.
LEMMA XorValue ==
  ASSUME NEW x \in Word, NEW y \in Word
  PROVE  Xor(x, y) = IF x = 0 THEN y ELSE IF y = 0 THEN x
                     ELSE ((x + y) % 2) + 2 * Xor(x \div 2, y \div 2)
<1>1. XorOf[x][y] = XorStep(XorOf, x, y)
  BY XorIsDefined, XorUnfolds DEF Word
<1> QED  BY <1>1 DEF Xor, XorStep

\* The words of n bits.
Small(n) == 0 .. Pow[n] - 1

\* The numbers of few bits, for an induction over the bits of a word.
LEMMA SmallWords ==
  /\ \A n \in 0 .. Bits : Small(n) \subseteq Word
  /\ Small(0) = {0} /\ Small(Bits) = Word
  /\ \A n \in 0 .. Bits - 1 : \A x \in Small(n + 1) : x \div 2 \in Small(n) /\ x \in Nat
<1>1. ASSUME NEW n \in 0 .. Bits PROVE Small(n) \subseteq Word
  <2>1. PICK p, q \in Nat \ {0} : p = Pow[n] /\ q = Pow[Bits - n] /\ q * p = Pow[Bits]
    <3>1. Bits - n \in 0 .. Bits - n /\ Bits - n \in 0 .. Bits /\ (Bits - n) + n = Bits
      BY PowType
    <3>2. Pow[(Bits - n) + n] = Pow[Bits - n] * Pow[n]
      BY <3>1, PowType
    <3>3. Pow[n] \in Nat \ {0} /\ Pow[Bits - n] \in Nat \ {0}
      BY <3>1, PowType
    <3> QED  BY <3>1, <3>2, <3>3
  <2>2. q * p >= p /\ q * p \in Nat
    BY <2>1
  <2> QED  BY <2>1, <2>2, WordIsPower DEF Small
<1>2. Small(0) = {0} /\ Small(Bits) = Word
  BY PowType, WordIsPower DEF Small
<1>3. ASSUME NEW n \in 0 .. Bits - 1, NEW x \in Small(n + 1) PROVE x \div 2 \in Small(n) /\ x \in Nat
  <2>1. PICK m \in Nat \ {0} : m = Pow[n] /\ Pow[n + 1] = 2 * m
    <3>1. n \in 0 .. Bits
      BY PowType
    <3> QED  BY <3>1, PowType
  <2>2. x \in 0 .. 2 * m - 1
    BY <2>1 DEF Small
  <2> QED  BY <2>1, <2>2, Halves DEF Small
<1> QED  BY <1>1, <1>2, <1>3

\* The exclusive or of two numbers of n bits has n bits.
LEMMA XorType ==
  \A n \in 0 .. Bits : \A x, y \in Small(n) : Xor(x, y) \in Small(n)
<1> DEFINE M == {n \in Nat : n <= Bits => \A x, y \in Small(n) : Xor(x, y) \in Small(n)}
<1>1. 0 \in M
  <2>1. 0 \in Word
    BY SmallWords, PowType
  <2>2. Xor(0, 0) = 0
    BY <2>1, XorValue
  <2> QED  BY <2>2, SmallWords
<1>2. ASSUME NEW n \in M PROVE n + 1 \in M
  <2> SUFFICES ASSUME n + 1 <= Bits, NEW x \in Small(n + 1), NEW y \in Small(n + 1)
               PROVE  Xor(x, y) \in Small(n + 1)
    OBVIOUS
  <2>1. n \in 0 .. Bits - 1 /\ n \in 0 .. Bits /\ n + 1 \in 0 .. Bits
    BY PowType
  <2>2. x \in Word /\ y \in Word
    BY <2>1, SmallWords
  <2>3. x \div 2 \in Small(n) /\ y \div 2 \in Small(n) /\ x \in Nat /\ y \in Nat
    BY <2>1, SmallWords
  <2>4. PICK v \in Small(n) : v = Xor(x \div 2, y \div 2)
    <3>1. PICK a, b \in Small(n) : a = x \div 2 /\ b = y \div 2
      BY <2>3
    <3>2. Xor(a, b) \in Small(n)
      BY <2>1
    <3> QED  BY <3>1, <3>2
  <2>5. PICK m \in Nat \ {0} : m = Pow[n] /\ Pow[n + 1] = 2 * m
    BY <2>1, PowType
  <2>6. (x + y) % 2 \in {0, 1}
    BY <2>3
  <2>7. ((x + y) % 2) + 2 * v \in Small(n + 1)
    BY <2>5, <2>6 DEF Small
  <2>8. Xor(x, y) = IF x = 0 THEN y ELSE IF y = 0 THEN x ELSE ((x + y) % 2) + 2 * v
    BY <2>2, <2>4, XorValue
  <2> QED  BY <2>7, <2>8
<1>3. M = Nat
  <2> HIDE DEF M
  <2> QED  BY <1>1, <1>2, NumbersByInduction DEF M
<1> QED  BY <1>3

LEMMA WordXor == \A x, y \in Word : Xor(x, y) \in Word
<1>1. Bits \in 0 .. Bits
  BY PowType
<1> QED  BY <1>1, XorType, SmallWords

\* The last bit of the exclusive or, and the others.
LEMMA XorBits ==
  ASSUME NEW x \in Word, NEW y \in Word
  PROVE  /\ x \div 2 \in Word /\ y \div 2 \in Word /\ Xor(x, y) \in Word
         /\ Xor(x, y) % 2 = (x + y) % 2
         /\ Xor(x, y) \div 2 = Xor(x \div 2, y \div 2)
<1>1. /\ x \in Nat /\ y \in Nat /\ 0 \in Word /\ Word \subseteq Nat
      /\ x \div 2 \in Word /\ y \div 2 \in Word
  <2>1. Bits \in 0 .. Bits
    BY PowType
  <2>2. Pow[Bits] \in Nat \ {0}
    BY <2>1, PowType
  <2>3. PICK w \in Nat \ {0} : Word = 0 .. w - 1
    BY <2>2, WordIsPower
  <2> QED  BY <2>3
<1>2. PICK v \in Word : v = Xor(x \div 2, y \div 2)
  <2>1. PICK a, b \in Word : a = x \div 2 /\ b = y \div 2
    BY <1>1
  <2>2. Xor(a, b) \in Word
    BY WordXor
  <2> QED  BY <2>1, <2>2
<1>3. Xor(x, y) \in Word
  BY WordXor
<1>4. Xor(x, y) = IF x = 0 THEN y ELSE IF y = 0 THEN x ELSE ((x + y) % 2) + 2 * v
  BY <1>2, XorValue
<1>5. PICK a, b \in Word : a = x \div 2 /\ b = y \div 2
  BY <1>1
<1>6. (a = 0 => v = b) /\ (b = 0 => v = a)
  BY <1>2, <1>5, XorValue
<1>7. v \in Nat /\ a \in Nat /\ b \in Nat
  BY <1>1, <1>2, <1>5
<1>8. CASE x = 0
  BY <1>1, <1>2, <1>3, <1>4, <1>5, <1>6, <1>8
<1>9. CASE x # 0 /\ y = 0
  BY <1>1, <1>2, <1>3, <1>4, <1>5, <1>6, <1>9
<1>10. CASE x # 0 /\ y # 0
  <2>1. PICK r \in {0, 1} : r = (x + y) % 2
    BY <1>1
  <2>2. (r + 2 * v) % 2 = r /\ (r + 2 * v) \div 2 = v
    BY <1>7
  <2> QED  BY <1>1, <1>2, <1>3, <1>4, <1>10, <2>1, <2>2
<1> QED  BY <1>8, <1>9, <1>10

\* Two words are the same if their last bits and the others are.
LEMMA SameBits ==
  ASSUME NEW x \in Nat, NEW y \in Nat, x % 2 = y % 2, x \div 2 = y \div 2
  PROVE  x = y
OBVIOUS

LEMMA SameParity ==
  ASSUME NEW x \in Nat, NEW y \in Nat, NEW z \in Nat, NEW v \in Nat, NEW w \in Nat,
         v % 2 = (x + y) % 2, w % 2 = (y + z) % 2
  PROVE  (v + z) % 2 = (x + w) % 2
OBVIOUS

Associates(n) == \A a, b, c \in Small(n) : Xor(Xor(a, b), c) = Xor(a, Xor(b, c))

\* hash_6 folds the ports and the protocol first, the C++ program last.
LEMMA XorAssociates ==
  ASSUME NEW x \in Word, NEW y \in Word, NEW z \in Word
  PROVE  Xor(Xor(x, y), z) = Xor(x, Xor(y, z))
<1> DEFINE M == {n \in Nat : n <= Bits => Associates(n)}
<1>1. 0 \in M
  <2>1. 0 \in Word
    BY SmallWords, PowType
  <2>2. Xor(0, 0) = 0
    BY <2>1, XorValue
  <2> QED  BY <2>2, SmallWords DEF Associates
<1>2. ASSUME NEW n \in M PROVE n + 1 \in M
  <2> SUFFICES ASSUME n + 1 <= Bits, NEW a \in Small(n + 1), NEW b \in Small(n + 1), NEW c \in Small(n + 1)
               PROVE  Xor(Xor(a, b), c) = Xor(a, Xor(b, c))
    BY DEF Associates
  <2>1. n \in 0 .. Bits - 1 /\ n + 1 \in 0 .. Bits /\ n <= Bits
    BY PowType
  <2>2. a \in Word /\ b \in Word /\ c \in Word
    BY <2>1, SmallWords
  <2>3. PICK v \in Word : v = Xor(a, b) /\ v % 2 = (a + b) % 2 /\ v \div 2 = Xor(a \div 2, b \div 2)
    BY <2>2, XorBits
  <2>4. PICK w \in Word : w = Xor(b, c) /\ w % 2 = (b + c) % 2 /\ w \div 2 = Xor(b \div 2, c \div 2)
    BY <2>2, XorBits
  <2>5. PICK l \in Word : l = Xor(v, c) /\ l % 2 = (v + c) % 2 /\ l \div 2 = Xor(v \div 2, c \div 2)
    BY <2>2, XorBits
  <2>6. PICK r \in Word : r = Xor(a, w) /\ r % 2 = (a + w) % 2 /\ r \div 2 = Xor(a \div 2, w \div 2)
    BY <2>2, XorBits
  <2>7. a \in Nat /\ b \in Nat /\ c \in Nat /\ v \in Nat /\ w \in Nat /\ l \in Nat /\ r \in Nat
    BY <2>2, WordIsPower, PowType
  <2>8. (v + c) % 2 = (a + w) % 2
    <3>1. v % 2 = (a + b) % 2 /\ w % 2 = (b + c) % 2
      BY <2>3, <2>4
    <3> QED  BY <2>7, <3>1, SameParity
  <2>9. Xor(v \div 2, c \div 2) = Xor(a \div 2, w \div 2)
    <3>1. PICK d, e, f \in Small(n) : d = a \div 2 /\ e = b \div 2 /\ f = c \div 2
      BY <2>1, SmallWords
    <3>2. Associates(n)
      BY <2>1
    <3>3. Xor(Xor(d, e), f) = Xor(d, Xor(e, f))
      BY <3>2 DEF Associates
    <3> QED  BY <2>3, <2>4, <3>1, <3>3
  <2>10. l = r
    BY <2>5, <2>6, <2>7, <2>8, <2>9, SameBits
  <2> QED  BY <2>3, <2>4, <2>5, <2>6, <2>10
<1>3. Bits \in M
  <2> HIDE DEF M
  <2>1. M = Nat
    BY <1>1, <1>2, NumbersByInduction DEF M
  <2> QED  BY <2>1, PowType
<1>4. Bits <= Bits
  BY PowType
<1> QED  BY <1>3, <1>4, SmallWords DEF Associates

LEMMA BaseType == Base \in Nat \ {0} /\ Base = Pow[ByteBits]
<1>1. ByteBits \in 0 .. Bits
  BY ByteAssumption DEF Bits
<1> QED  BY <1>1, PowType DEF Base
-----------------------------------------------------------------------------
\* The powers of the base, as products.
LEMMA ValueTypes ==
  /\ Values[1] \in Nat \ {0} /\ Values[2] \in Nat \ {0}
  /\ Values[3] \in Nat \ {0} /\ Values[4] \in Nat \ {0}
  /\ WordMax = Values[4] /\ Byte = 0 .. Values[1] - 1
<1>1. PICK b \in Nat \ {0} : b = Base
  BY BaseType
<1>2. PICK c \in Nat \ {0} : c = b * b
  OBVIOUS
<1>3. PICK d \in Nat \ {0} : d = c * b
  OBVIOUS
<1>4. PICK e \in Nat \ {0} : e = d * b
  OBVIOUS
<1>5. Values[1] = b /\ Values[2] = c /\ Values[3] = d /\ Values[4] = e
  BY <1>1, <1>2, <1>3, <1>4 DEF Values
<1> QED  BY <1>1, <1>2, <1>3, <1>4, <1>5 DEF WordMax, Byte

LEMMA Powers ==
  /\ Values[2] = Values[1] * Values[1]
  /\ Values[3] = Values[2] * Values[1] /\ Values[4] = Values[3] * Values[1]
BY DEF Values

\* The bytes of a word that stay when the others are masked.
KeptBytes(m, l) == [i \in 1 .. 4 |-> IF i <= l THEN m[i] ELSE 0]

\* LOWERxb_MASK of a word is the word of its first bytes.
LEMMA MaskedWord ==
  ASSUME NEW m, \A i \in 1 .. 4 : m[i] \in Byte, NEW l \in 1 .. 4
  PROVE  WordOf(m) % Values[l] = WordOf(KeptBytes(m, l))
<1>1. PICK b \in Nat \ {0} : b = Values[1]
  BY ValueTypes
<1>2. PICK c \in Nat \ {0} : c = b * b /\ c = Values[2]
  <2>1. Values[2] = b * b
    BY <1>1, Powers
  <2> QED  BY <2>1, ValueTypes
<1>3. PICK d \in Nat \ {0} : d = c * b /\ d = Values[3]
  <2>1. Values[3] = c * b
    BY <1>1, <1>2, Powers
  <2> QED  BY <2>1, ValueTypes
<1>4. PICK e \in Nat \ {0} : e = d * b /\ e = Values[4]
  <2>1. Values[4] = d * b
    BY <1>1, <1>3, Powers
  <2> QED  BY <2>1, ValueTypes
<1>5. PICK w, x, y, z \in 0 .. b - 1 : w = m[1] /\ x = m[2] /\ y = m[3] /\ z = m[4]
  BY <1>1, ValueTypes
<1>6. WordOf(m) = w + x * b + y * c + z * d
  BY <1>1, <1>2, <1>3, <1>5 DEF WordOf
<1>7. WordOf(KeptBytes(m, l)) = w + (IF 2 <= l THEN x ELSE 0) * b + (IF 3 <= l THEN y ELSE 0) * c
                               + (IF 4 <= l THEN z ELSE 0) * d
  BY <1>1, <1>2, <1>3, <1>5 DEF WordOf, KeptBytes
<1>8. PICK xb \in Nat : xb = x * b
  BY <1>5
<1>9. PICK yc \in Nat : yc = y * c
  BY <1>5
<1>10. PICK zd \in Nat : zd = z * d
  BY <1>5
<1>11. w + xb \in 0 .. c - 1
  <2>1. (x + 1) * b = xb + b /\ (x + 1) * b <= b * b
    BY <1>5, <1>8
  <2> QED  BY <1>2, <1>5, <1>8, <2>1
<1>12. w + xb + yc \in 0 .. d - 1
  <2>1. (y + 1) * c = yc + c /\ (y + 1) * c <= b * c
    BY <1>5, <1>9
  <2>2. b * c = d
    BY <1>3
  <2> QED  BY <1>5, <1>8, <1>9, <1>11, <2>1, <2>2
<1>13. w + xb + yc + zd \in 0 .. e - 1
  <2>1. (z + 1) * d = zd + d /\ (z + 1) * d <= b * d
    BY <1>5, <1>10
  <2>2. b * d = e
    BY <1>4
  <2> QED  BY <1>5, <1>8, <1>9, <1>10, <1>12, <2>1, <2>2
<1>14. CASE l = 1
  <2>1. PICK q \in Nat : q = x + y * b + z * c
    <3>1. y * b \in Nat /\ z * c \in Nat
      BY <1>5
    <3> QED  BY <1>5, <3>1
  <2>2. WordOf(m) = w + q * b
    <3>1. q * b = x * b + (y * b) * b + (z * c) * b
      BY <1>5, <2>1
    <3>2. (y * b) * b = y * c /\ (z * c) * b = z * d
      BY <1>2, <1>3, <1>5
    <3> QED  BY <1>6, <1>8, <1>9, <1>10, <3>1, <3>2
  <2>3. LowOf(w, WordOf(m), b)
    BY <1>5, <2>1, <2>2 DEF LowOf
  <2>4. WordOf(m) % b = w
    BY <2>3, LowPart
  <2> QED  BY <1>1, <1>5, <1>7, <1>14, <2>4
<1>15. CASE l = 2
  <2>1. PICK q \in Nat : q = y + z * b
    <3>1. z * b \in Nat
      BY <1>5
    <3> QED  BY <1>5, <3>1
  <2>2. WordOf(m) = (w + xb) + q * c
    <3>1. q * c = y * c + (z * b) * c /\ (z * b) * c = z * d
      BY <1>3, <1>5, <2>1
    <3> QED  BY <1>6, <1>8, <1>9, <1>10, <3>1
  <2>3. LowOf(w + xb, WordOf(m), c)
    BY <1>11, <2>1, <2>2 DEF LowOf
  <2>4. WordOf(m) % c = w + xb
    BY <2>3, LowPart
  <2> QED  BY <1>2, <1>5, <1>7, <1>8, <1>15, <2>4
<1>16. CASE l = 3
  <2>1. WordOf(m) = (w + xb + yc) + z * d
    BY <1>6, <1>8, <1>9
  <2>2. LowOf(w + xb + yc, WordOf(m), d)
    <3>1. z \in Nat
      BY <1>5
    <3> QED  BY <1>12, <2>1, <3>1 DEF LowOf
  <2>3. WordOf(m) % d = w + xb + yc
    BY <2>2, LowPart
  <2> QED  BY <1>3, <1>5, <1>7, <1>8, <1>9, <1>16, <2>3
<1>17. CASE l = 4
  <2>1. WordOf(m) = (w + xb + yc + zd) + 0 * e
    BY <1>6, <1>8, <1>9, <1>10
  <2>2. LowOf(w + xb + yc + zd, WordOf(m), e)
    <3>1. 0 \in Nat
      OBVIOUS
    <3> QED  BY <1>13, <2>1, <3>1 DEF LowOf
  <2>3. WordOf(m) % e = w + xb + yc + zd
    BY <2>2, LowPart
  <2> QED  BY <1>4, <1>7, <1>8, <1>9, <1>10, <1>17, <2>3
<1> QED  BY <1>14, <1>15, <1>16, <1>17
-----------------------------------------------------------------------------
\* A word is its bytes.
LEMMA SameWord ==
  ASSUME NEW k, NEW m, \A i \in 1 .. 4 : k[i] = m[i]
  PROVE  WordOf(k) = WordOf(m)
BY DEF WordOf

\* A loop of jhash_2hashes leaves at least one byte and at most 12.
LEMMA RoundsLeave ==
  ASSUME NEW n \in Nat
  PROVE  /\ Rounds(n) \in Nat
         /\ IF n = 0 THEN Rounds(n) = 0 ELSE n - 12 * Rounds(n) \in 1 .. 12
<1>1. CASE n = 0
  BY <1>1 DEF Rounds
<1>2. CASE n # 0
  <2>1. PICK q \in Int, r \in Int : q = (n - 1) \div 12 /\ r = (n - 1) % 12
    OBVIOUS
  <2>2. r \in 0 .. 11 /\ n - 1 = 12 * q + r
    BY <1>2, <2>1
  <2> QED  BY <1>2, <2>1, <2>2 DEF Rounds
<1> QED  BY <1>1, <1>2

\* Both versions mix the same number of whole blocks.
LEMMA SameRounds ==
  ASSUME NEW key \in Seq(Byte)
  PROVE  RteRounds(key) = Rounds(Len(key))
<1>1. PICK n \in Nat : n = Len(key)
  OBVIOUS
<1>2. PICK r \in Nat : r = Rounds(n) /\ (IF n = 0 THEN r = 0 ELSE n - 12 * r \in 1 .. 12)
  BY RoundsLeave
<1>3. {k \in 1 .. n : 12 * k < n} = 1 .. r
  <2>1. CASE n = 0
    BY <1>2, <2>1
  <2>2. CASE n # 0
    <3>1. n - 12 * r \in 1 .. 12
      BY <1>2, <2>2
    <3>2. 12 * r < n /\ n <= 12 * r + 12 /\ r <= n
      BY <3>1
    <3>3. \A k \in Nat : 12 * k < n <=> k <= r
      BY <3>2
    <3> QED  BY <3>2, <3>3
  <2> QED  BY <2>1, <2>2
<1>4. Cardinality(1 .. r) = r
  <2>1. 1 \in Int /\ r \in Int
    BY <1>2
  <2>2. Cardinality(1 .. r) = IF 1 > r THEN 0 ELSE r - 1 + 1
    BY <2>1, FS_Interval
  <2> QED  BY <1>2, <2>2
<1> QED  BY <1>1, <1>2, <1>3, <1>4 DEF RteRounds

\* What SubSeq reads for a word.
LEMMA FourBytes ==
  ASSUME NEW s \in Seq(Byte), NEW f \in 1 .. Len(s), f + 3 \in 1 .. Len(s), NEW i \in 1 .. 4
  PROVE  SubSeq(s, f, f + 3)[i] = s[f + i - 1]
OBVIOUS

\* The last bytes are a block of twelve.
LEMMA TailType ==
  ASSUME NEW key \in Seq(Byte)
  PROVE  /\ Tail12(key) \in Seq(Byte) /\ Len(Tail12(key)) = 12
         /\ \A p \in 1 .. 12 : Tail12(key)[p] = LET at == 12 * Rounds(Len(key))
                                              IN  IF at + p <= Len(key) THEN key[at + p] ELSE 0
<1>1. PICK n \in Nat, r \in Nat : n = Len(key) /\ r = Rounds(n)
  BY RoundsLeave
<1>2. PICK at \in Nat : at = 12 * r
  OBVIOUS
<1>3. Tail12(key) = [p \in 1 .. 12 |-> IF at + p <= n THEN key[at + p] ELSE 0]
  BY <1>1, <1>2 DEF Tail12
<1>4. 0 \in Byte
  BY ValueTypes
<1>5. \A p \in 1 .. 12 : at + p <= n => key[at + p] \in Byte
  BY <1>1
<1>6. \A p \in 1 .. 12 : Tail12(key)[p] \in Byte
  BY <1>3, <1>4, <1>5
<1>7. Tail12(key) \in Seq(Byte) /\ Len(Tail12(key)) = 12
  BY <1>3, <1>6
<1> QED  BY <1>1, <1>2, <1>3, <1>7

\* A word that holds the last byte of the key lies in memory.
Readable(key, behind) == Len(behind) >= 3 \/ Len(key) % 4 = 0

\* The words of the zero-padded block are those read from memory and masked.
LEMMA SameTail ==
  ASSUME NEW key \in Seq(Byte), NEW behind \in Seq(Byte), Readable(key, behind), NEW x \in 1 .. 3
  PROVE  RteTail(key, behind)[x] = WordsOf(Tail12(key))[x]
<1>1. PICK n \in Nat : n = Len(key)
  OBVIOUS
<1>2. PICK r \in Nat : /\ r = Rounds(n) /\ r = RteRounds(key)
                      /\ (IF n = 0 THEN r = 0 ELSE n - 12 * r \in 1 .. 12)
  BY <1>1, RoundsLeave, SameRounds
<1>3. PICK at \in Nat : at = 12 * r
  OBVIOUS
<1>4. PICK from \in Nat : from = at + 4 * x - 3
  OBVIOUS
<1>5. PICK l \in Int : l = n - at - 4 * (x - 1)
  OBVIOUS
<1>6. PICK memory : memory = key \o behind
  OBVIOUS
<1>7. RteTail(key, behind)[x] = RteWord(memory, from, l)
  BY <1>1, <1>2, <1>3, <1>4, <1>5, <1>6 DEF RteTail
<1>8. PICK tail : tail = Tail12(key)
  OBVIOUS
<1>9. /\ tail \in Seq(Byte) /\ Len(tail) = 12
      /\ \A p \in 1 .. 12 : tail[p] = IF at + p <= n THEN key[at + p] ELSE 0
  BY <1>1, <1>2, <1>3, <1>8, TailType
<1>10. PICK part : /\ WordsOf(tail)[x] = WordOf(part)
                   /\ \A i \in 1 .. 4 : part[i] = tail[4 * (x - 1) + i]
  <2>1. PICK f \in 1 .. 12 : f = 4 * x - 3 /\ f + 3 \in 1 .. 12
    OBVIOUS
  <2>2. f \in 1 .. Len(tail) /\ f + 3 \in 1 .. Len(tail)
    BY <1>9, <2>1
  <2>3. PICK p : p = SubSeq(tail, f, f + 3)
    OBVIOUS
  <2>4. \A i \in 1 .. 4 : p[i] = tail[f + i - 1]
    BY <1>9, <2>2, <2>3, FourBytes
  <2>5. \A i \in 1 .. 4 : f + i - 1 = 4 * (x - 1) + i
    BY <2>1
  <2>6. WordsOf(tail)[x] = WordOf(p)
    <3>1. CASE x = 1
      BY <2>1, <2>3, <3>1 DEF WordsOf
    <3>2. CASE x = 2
      BY <2>1, <2>3, <3>2 DEF WordsOf
    <3>3. CASE x = 3
      BY <2>1, <2>3, <3>3 DEF WordsOf
    <3> QED  BY <3>1, <3>2, <3>3
  <2> QED  BY <2>4, <2>5, <2>6
<1>11. CASE l <= 0
  <2>1. \A i \in 1 .. 4 : part[i] = 0
    <3> SUFFICES ASSUME NEW i \in 1 .. 4 PROVE part[i] = 0
      OBVIOUS
    <3>1. PICK j \in 1 .. 12 : j = 4 * (x - 1) + i /\ at + j > n
      BY <1>5, <1>11
    <3>2. part[i] = tail[j]
      BY <1>10, <3>1
    <3>3. tail[j] = 0
      <4>1. tail[j] = IF at + j <= n THEN key[at + j] ELSE 0
        BY <1>9
      <4> QED  BY <3>1, <4>1
    <3> QED  BY <3>2, <3>3
  <2>2. WordOf(part) = 0
    <3>1. part[1] = 0 /\ part[2] = 0 /\ part[3] = 0 /\ part[4] = 0
      BY <2>1
    <3>2. PICK b, c, d \in Nat : b = Values[1] /\ c = Values[2] /\ d = Values[3]
      BY ValueTypes
    <3>3. WordOf(part) = 0 + 0 * b + 0 * c + 0 * d
      BY <3>1, <3>2 DEF WordOf
    <3> QED  BY <3>3
  <2> QED  BY <1>7, <1>8, <1>10, <1>11, <2>2 DEF RteWord
<1>12. CASE l > 0
  <2>1. PICK m \in 1 .. 4 : m = IF l < 4 THEN l ELSE 4
    BY <1>12
  <2>2. PICK read : read = SubSeq(memory, from, from + 3)
    OBVIOUS
  <2>3. /\ memory \in Seq(Byte) /\ Len(memory) = n + Len(behind)
        /\ \A p \in 1 .. n : memory[p] = key[p]
    BY <1>1, <1>6
  <2>4. from \in 1 .. Len(memory) /\ from + 3 \in 1 .. Len(memory)
    <3>1. PICK b \in Nat : b = Len(behind) /\ Len(memory) = n + b /\ (b >= 3 \/ n % 4 = 0)
      BY <1>1, <2>3 DEF Readable
    <3>2. n >= from
      BY <1>3, <1>4, <1>5, <1>12
    <3>3. n % 4 = 0 => n >= from + 3
      BY <1>3, <1>4, <3>2
    <3> QED  BY <1>4, <3>1, <3>2, <3>3
  <2>5. \A i \in 1 .. 4 : read[i] = memory[from + i - 1] /\ memory[from + i - 1] \in Byte
    BY <1>4, <2>2, <2>3, <2>4
  <2>6. RteWord(memory, from, l) = WordOf(read) % Values[m]
    BY <1>12, <2>1, <2>2 DEF RteWord
  <2>7. WordOf(read) % Values[m] = WordOf(KeptBytes(read, m))
    BY <2>5, MaskedWord
  <2>8. \A i \in 1 .. 4 : KeptBytes(read, m)[i] = part[i]
    <3> SUFFICES ASSUME NEW i \in 1 .. 4 PROVE KeptBytes(read, m)[i] = part[i]
      OBVIOUS
    <3>1. i <= m <=> at + 4 * (x - 1) + i <= n
      BY <1>5, <2>1
    <3>2. PICK j \in 1 .. 12 : j = 4 * (x - 1) + i /\ from + i - 1 = at + j
      BY <1>3, <1>4
    <3>3. part[i] = IF at + j <= n THEN key[at + j] ELSE 0
      <4>1. part[i] = tail[j]
        BY <1>10, <3>2
      <4>2. tail[j] = IF at + j <= n THEN key[at + j] ELSE 0
        BY <1>9
      <4> QED  BY <4>1, <4>2
    <3>4. at + j <= n => read[i] = key[at + j]
      <4>1. read[i] = memory[at + j]
        BY <2>5, <3>2
      <4>2. \A p \in 1 .. n : memory[p] = key[p]
        BY <2>3
      <4>3. at + j <= n => at + j \in 1 .. n
        OBVIOUS
      <4> QED  BY <4>1, <4>2, <4>3
    <3>5. KeptBytes(read, m)[i] = IF i <= m THEN read[i] ELSE 0
      BY DEF KeptBytes
    <3>6. i <= m <=> at + j <= n
      BY <3>1, <3>2
    <3> QED  BY <3>3, <3>4, <3>5, <3>6
  <2>9. WordOf(KeptBytes(read, m)) = WordOf(part)
    BY <2>8, SameWord
  <2> QED  BY <1>7, <1>8, <1>10, <2>6, <2>7, <2>9
<1> QED  BY <1>5, <1>11, <1>12
-----------------------------------------------------------------------------
\* jhash_2hashes is rte_jhash_2hashes, whatever lies behind the key.
LEMMA SameHashes ==
  ASSUME NEW key \in Seq(Byte), NEW behind \in Seq(Byte), Readable(key, behind), NEW pc, NEW pb
  PROVE  Jhash2Hashes(key, pc, pb) = Rte2Hashes(key, behind, pc, pb)
<1>1. PICK n \in Nat : n = Len(key)
  OBVIOUS
<1>2. PICK mixed : /\ mixed = MixedOver(key, Rounds(n), Seeded(n, pc, pb))
                   /\ mixed = MixedOver(key, RteRounds(key), Seeded(n, pc, pb))
  BY <1>1, SameRounds
<1>3. Left(key) = 0 <=> key = << >>
  <2>1. PICK r \in Nat : r = Rounds(n) /\ (IF n = 0 THEN r = 0 ELSE n - 12 * r \in 1 .. 12)
    BY RoundsLeave
  <2>2. Left(key) = n - 12 * r
    BY <1>1, <2>1 DEF Left
  <2>3. n = 0 <=> key = << >>
    BY <1>1
  <2> QED  BY <2>1, <2>2, <2>3
<1>4. AddWords(mixed, RteTail(key, behind)) = AddWords(mixed, WordsOf(Tail12(key)))
  <2>1. \A x \in 1 .. 3 : RteTail(key, behind)[x] = WordsOf(Tail12(key))[x]
    BY SameTail
  <2> QED  BY <2>1 DEF AddWords
<1> QED  BY <1>1, <1>2, <1>3, <1>4 DEF Jhash2Hashes, Rte2Hashes, Absorbed

\* A key of at most one block goes through no loop.
LEMMA NoRounds ==
  ASSUME NEW key, NEW seeded
  PROVE  MixedOver(key, 0, seeded) = seeded
<1> DEFINE Step(s, r) == IF r = 0 THEN seeded
                         ELSE Mix(AddWords(s[r - 1], WordsOf(SubSeq(key, 12 * r - 11, 12 * r))))
           Loop(s) == [r \in 0 .. 0 |-> Step(s, r)]
           none == [r \in 0 .. 0 |-> seeded]
<1>1. none = Loop(none)
  OBVIOUS
<1>2. PICK f : f = CHOOSE s : s = Loop(s)
  OBVIOUS
<1>3. f = Loop(f)
  <2> HIDE DEF Loop, none
  <2> QED  BY <1>1, <1>2
<1>4. f[0] = seeded
  BY <1>3
<1>5. MixedOver(key, 0, seeded) = f[0]
  BY <1>2 DEF MixedOver
<1> QED  BY <1>4, <1>5

\* wrapping_add commutes, and adding nothing leaves a word.
LEMMA SameAdd ==
  ASSUME NEW a \in Int, NEW b \in Int
  PROVE  /\ Add(a, b) = Add(b, a) /\ Add(a, b) \in Word
         /\ Add(Add(a, b), 0) = Add(a, b)
<1>1. PICK w \in Nat \ {0} : w = WordMax
  BY ValueTypes
<1>2. PICK s \in Int : s = a + b /\ s = b + a
  OBVIOUS
<1>3. s % w \in 0 .. w - 1
  OBVIOUS
<1>4. \A x \in 0 .. w - 1 : x % w = x
  <2> SUFFICES ASSUME NEW x \in 0 .. w - 1 PROVE x % w = x
    OBVIOUS
  <2>1. LowOf(x, x, w)
    <3>1. x = x + 0 * w /\ 0 \in Nat
      OBVIOUS
    <3> QED  BY <3>1 DEF LowOf
  <2> QED  BY <2>1, LowPart
<1> QED  BY <1>1, <1>2, <1>3, <1>4 DEF Add, Word

\* Types of bytes, words and the golden ratio.
LEMMA ByteOf ==
  ASSUME NEW s \in Seq(Byte)
  PROVE  \A i \in 1 .. Len(s) : s[i] \in Byte
OBVIOUS

LEMMA WordType == \A w \in Word : w \in Nat /\ w \in Int
BY ValueTypes DEF Word

LEMMA GoldenType == GOLDEN_RATIO \in Nat
<1>1. PICK w \in Nat \ {0} : w = WordMax
  BY ValueTypes
<1>2. PICK x \in Int : x = (57005 % w) * (65536 % w) + 48879
  <2>1. 57005 % w \in Int /\ 65536 % w \in Int
    OBVIOUS
  <2> QED  BY <2>1
<1>3. x % w \in Nat
  OBVIOUS
<1> QED  BY <1>1, <1>2, <1>3 DEF GOLDEN_RATIO

LEMMA WordIsNat ==
  ASSUME NEW k, \A i \in 1 .. 4 : k[i] \in Byte
  PROVE  WordOf(k) \in Nat
<1>1. PICK b, c, d \in Nat : b = Values[1] /\ c = Values[2] /\ d = Values[3]
  BY ValueTypes
<1>2. PICK w, x, y, z \in Nat : w = k[1] /\ x = k[2] /\ y = k[3] /\ z = k[4]
  <2>1. \A i \in 1 .. 4 : k[i] \in Nat
    BY ValueTypes
  <2>2. k[1] \in Nat /\ k[2] \in Nat /\ k[3] \in Nat /\ k[4] \in Nat
    BY <2>1
  <2> QED  BY <2>2
<1>3. x * b \in Nat /\ y * c \in Nat /\ z * d \in Nat
  OBVIOUS
<1> QED  BY <1>1, <1>2, <1>3 DEF WordOf

\* jhash_3words is the hash of the twelve bytes of its words.
LEMMA SameWords ==
  ASSUME NEW key \in Seq(Byte), Len(key) = 12, NEW pc \in Word
  PROVE  Jhash3Words(WordsOf(key), pc) = JhashOf(key, pc)
<1>1. Rounds(Len(key)) = 0 /\ Left(key) = 12
  <2>1. PICK r \in Nat : r = Rounds(12) /\ 12 - 12 * r \in 1 .. 12
    <3>1. 12 \in Nat /\ 12 # 0
      OBVIOUS
    <3>2. Rounds(12) \in Nat /\ 12 - 12 * Rounds(12) \in 1 .. 12
      BY <3>1, RoundsLeave
    <3> QED  BY <3>2
  <2>2. r = 0
    BY <2>1
  <2> QED  BY <2>1, <2>2 DEF Left
<1>2. Tail12(key) = key
  <2>1. Tail12(key) = [p \in 1 .. 12 |-> IF p <= 12 THEN key[p] ELSE 0]
    BY <1>1 DEF Tail12
  <2>2. key = [p \in 1 .. 12 |-> key[p]]
    OBVIOUS
  <2> QED  BY <2>1, <2>2
<1>3. PICK seeded : seeded = Seeded(12, pc, 0)
  OBVIOUS
<1>4. Absorbed(key, pc, 0) = AddWords(seeded, WordsOf(key))
  BY <1>1, <1>2, <1>3, NoRounds DEF Absorbed
<1>5. JhashOf(key, pc) = FinalMix(AddWords(seeded, WordsOf(key)))[3]
  BY <1>1, <1>4 DEF JhashOf, Jhash2Hashes
<1>6. PICK init \in Word : /\ init = Add(Add(12, GOLDEN_RATIO), pc)
                           /\ init = Add(Add(GOLDEN_RATIO, 12), pc)
                           /\ Add(init, 0) = init
  <2>1. PICK g \in Nat : g = GOLDEN_RATIO
    BY GoldenType
  <2>2. PICK sum \in Word : sum = Add(12, g) /\ sum = Add(g, 12)
    BY SameAdd
  <2>3. Add(sum, pc) \in Word /\ Add(Add(sum, pc), 0) = Add(sum, pc)
    <3>1. sum \in Int /\ pc \in Int
      BY WordType
    <3> QED  BY <3>1, SameAdd
  <2> QED  BY <2>1, <2>2, <2>3
<1>7. seeded = <<init, init, init>>
  BY <1>3, <1>6 DEF Seeded
<1>8. PICK w : w = WordsOf(key) /\ \A x \in 1 .. 3 : w[x] \in Nat
  <2>1. \A i \in 1 .. 12 : key[i] \in Byte
    <3>1. \A i \in 1 .. Len(key) : key[i] \in Byte
      BY ByteOf
    <3> QED  BY <3>1
  <2>2. \A f \in {1, 5, 9} : WordOf(SubSeq(key, f, f + 3)) \in Nat
    <3> SUFFICES ASSUME NEW f \in {1, 5, 9} PROVE WordOf(SubSeq(key, f, f + 3)) \in Nat
      OBVIOUS
    <3>1. PICK k : k = SubSeq(key, f, f + 3)
      OBVIOUS
    <3>2. \A i \in 1 .. 4 : k[i] \in Byte
      <4>1. f \in 1 .. Len(key) /\ f + 3 \in 1 .. Len(key) /\ \A i \in 1 .. 4 : f + i - 1 \in 1 .. 12
        OBVIOUS
      <4> QED  BY <2>1, <3>1, <4>1, FourBytes
    <3> QED  BY <3>1, <3>2, WordIsNat
  <2>3. /\ WordOf(SubSeq(key, 1, 4)) \in Nat /\ WordOf(SubSeq(key, 5, 8)) \in Nat
        /\ WordOf(SubSeq(key, 9, 12)) \in Nat
    <3>1. 1 + 3 = 4 /\ 5 + 3 = 8 /\ 9 + 3 = 12
      OBVIOUS
    <3> QED  BY <2>2, <3>1
  <2>4. \A x \in 1 .. 3 : WordsOf(key)[x] \in Nat
    BY <2>3 DEF WordsOf
  <2> QED  BY <2>4
<1>9. \A x \in 1 .. 3 : Add(init, w[x]) = Add(w[x], init)
  <2>1. \A x \in 1 .. 3 : init \in Int /\ w[x] \in Int
    BY <1>6, <1>8, WordType
  <2> QED  BY <2>1, SameAdd
<1>10. AddWords(seeded, w) = AddWords(w, [x \in 1 .. 3 |-> init])
  BY <1>7, <1>9 DEF AddWords
<1> QED  BY <1>5, <1>6, <1>8, <1>10 DEF Jhash3Words
-----------------------------------------------------------------------------
\* The state of the hash stays three words through every operation on it.
LEMMA RotateType ==
  ASSUME NEW x \in Word, NEW n \in Nat
  PROVE  RotateLeft(x, n) \in Word
<1>1. PICK k \in 0 .. Bits - 1 : k = n % Bits
  <2>1. PICK b \in Nat \ {0} : b = Bits
    BY PowType
  <2>2. n % b \in 0 .. b - 1
    OBVIOUS
  <2> QED  BY <2>1, <2>2
<1>2. PICK p, q, w \in Nat \ {0} : /\ p = 2^k /\ q = 2^(Bits - k) /\ w = WordMax
                                   /\ p * q = w
  <2>1. k \in 0 .. Bits /\ Bits - k \in 0 .. Bits /\ k \in 0 .. Bits - (Bits - k)
        /\ k + (Bits - k) = Bits /\ Bits \in 0 .. Bits
    BY PowType
  <2>2. Pow[k + (Bits - k)] = Pow[k] * Pow[Bits - k]
    BY <2>1, PowType
  <2>3. Pow[k] = 2^k /\ Pow[Bits - k] = 2^(Bits - k)
    BY <2>1, PowType
  <2>4. Pow[k] \in Nat \ {0} /\ Pow[Bits - k] \in Nat \ {0} /\ Pow[Bits] \in Nat \ {0}
    BY <2>1, PowType
  <2> QED  BY <2>1, <2>2, <2>3, <2>4, WordIsPower
<1>3. x \in 0 .. p * q - 1
  BY <1>2 DEF Word
<1>4. PICK hi \in 0 .. p - 1, lo \in 0 .. q - 1 : hi = x \div q /\ x = lo + hi * q
  BY <1>3, QuotientBelow
<1>5. (x * p) % w = lo * p
  <2>1. x * p = lo * p + hi * w
    <3>1. x * p = lo * p + (hi * q) * p
      <4>1. PICK hq \in Nat : hq = hi * q
        BY <1>4
      <4>2. (lo + hq) * p = lo * p + hq * p
        BY <1>4
      <4> QED  BY <1>4, <4>1, <4>2
    <3>2. (hi * q) * p = hi * (p * q)
      BY <1>4
    <3> QED  BY <1>2, <3>1, <3>2
  <2>2. lo * p \in 0 .. w - 1
    <3>1. (lo + 1) * p <= q * p /\ (lo + 1) * p = lo * p + p /\ lo * p \in Nat
      BY <1>4
    <3>2. q * p = w
      BY <1>2
    <3> QED  BY <3>1, <3>2
  <2>3. LowOf(lo * p, x * p, w)
    <3>1. hi \in Nat
      BY <1>4
    <3> QED  BY <2>1, <2>2, <3>1 DEF LowOf
  <2> QED  BY <2>3, LowPart
<1>6. lo * p + hi \in 0 .. w - 1
  <2>1. (lo + 1) * p <= q * p /\ (lo + 1) * p = lo * p + p /\ lo * p \in Nat
    BY <1>4
  <2>2. q * p = w
    BY <1>2
  <2> QED  BY <1>4, <2>1, <2>2
<1>7. RotateLeft(x, n) = lo * p + hi
  BY <1>1, <1>2, <1>4, <1>5 DEF RotateLeft
<1> QED  BY <1>2, <1>6, <1>7 DEF Word

LEMMA AddSubType ==
  ASSUME NEW x \in Int, NEW y \in Int
  PROVE  Add(x, y) \in Word /\ Sub(x, y) \in Word
<1>1. PICK w \in Nat \ {0} : w = WordMax
  BY ValueTypes
<1>2. (x + y) % w \in 0 .. w - 1 /\ (x - y) % w \in 0 .. w - 1
  OBVIOUS
<1> QED  BY <1>1, <1>2 DEF Add, Sub, Word

Triples == [1 .. 3 -> Word]

LEMMA StepTypes ==
  ASSUME NEW s \in Triples, NEW x \in 1 .. 3, NEW n \in Nat
  PROVE  MixStep(s, x, n) \in Triples /\ FinalStep(s, x, n) \in Triples
<1>1. PICK z \in 1 .. 3 : z = Before(x)
  BY DEF Before
<1>2. PICK y \in 1 .. 3 : y = Behind(x)
  BY DEF Behind
<1>3. s[x] \in Word /\ s[y] \in Word /\ s[z] \in Word
  BY DEF Triples
<1>4. RotateLeft(s[z], n) \in Word
  BY <1>3, RotateType
<1>5. Sub(s[x], s[z]) \in Word /\ Add(s[z], s[y]) \in Word
  BY <1>3, WordType, AddSubType
<1>6. Xor(Sub(s[x], s[z]), RotateLeft(s[z], n)) \in Word
  BY <1>4, <1>5, WordXor
<1>7. Xor(s[x], s[z]) \in Word
  BY <1>3, WordXor
<1>8. Sub(Xor(s[x], s[z]), RotateLeft(s[z], n)) \in Word
  BY <1>4, <1>7, WordType, AddSubType
<1>9. MixStep(s, x, n) \in Triples
  <2>1. MixStep(s, x, n) = [s EXCEPT ![x] = Xor(Sub(s[x], s[z]), RotateLeft(s[z], n)), ![z] = Add(s[z], s[y])]
    BY <1>1, <1>2 DEF MixStep
  <2> QED  BY <1>5, <1>6, <2>1 DEF Triples
<1>10. FinalStep(s, x, n) \in Triples
  <2>1. FinalStep(s, x, n) = [s EXCEPT ![x] = Sub(Xor(s[x], s[z]), RotateLeft(s[z], n))]
    BY <1>1 DEF FinalStep
  <2> QED  BY <1>8, <2>1 DEF Triples
<1> QED  BY <1>9, <1>10

LEMMA MixTypes ==
  ASSUME NEW s \in Triples
  PROVE  Mix(s) \in Triples /\ FinalMix(s) \in Triples
<1>1. Mix(s) \in Triples
  <2>1. PICK s1 \in Triples : s1 = MixStep(s, 1, 4)
    BY StepTypes
  <2>2. PICK s2 \in Triples : s2 = MixStep(s1, 2, 6)
    BY StepTypes
  <2>3. PICK s3 \in Triples : s3 = MixStep(s2, 3, 8)
    BY StepTypes
  <2>4. PICK s4 \in Triples : s4 = MixStep(s3, 1, 16)
    BY StepTypes
  <2>5. PICK s5 \in Triples : s5 = MixStep(s4, 2, 19)
    BY StepTypes
  <2>6. MixStep(s5, 3, 4) \in Triples
    BY StepTypes
  <2> QED  BY <2>1, <2>2, <2>3, <2>4, <2>5, <2>6 DEF Mix
<1>2. FinalMix(s) \in Triples
  <2>1. PICK s1 \in Triples : s1 = FinalStep(s, 3, 14)
    BY StepTypes
  <2>2. PICK s2 \in Triples : s2 = FinalStep(s1, 1, 11)
    BY StepTypes
  <2>3. PICK s3 \in Triples : s3 = FinalStep(s2, 2, 25)
    BY StepTypes
  <2>4. PICK s4 \in Triples : s4 = FinalStep(s3, 3, 16)
    BY StepTypes
  <2>5. PICK s5 \in Triples : s5 = FinalStep(s4, 1, 4)
    BY StepTypes
  <2>6. PICK s6 \in Triples : s6 = FinalStep(s5, 2, 14)
    BY StepTypes
  <2>7. FinalStep(s6, 3, 24) \in Triples
    BY StepTypes
  <2> QED  BY <2>1, <2>2, <2>3, <2>4, <2>5, <2>6, <2>7 DEF FinalMix
<1> QED  BY <1>1, <1>2

LEMMA BlockTypes ==
  ASSUME NEW block \in Seq(Byte), Len(block) = 12
  PROVE  \A x \in 1 .. 3 : WordsOf(block)[x] \in Nat
<1>1. \A i \in 1 .. 12 : block[i] \in Byte
  <2>1. \A i \in 1 .. Len(block) : block[i] \in Byte
    BY ByteOf
  <2> QED  BY <2>1
<1>2. \A f \in {1, 5, 9} : WordOf(SubSeq(block, f, f + 3)) \in Nat
  <2> SUFFICES ASSUME NEW f \in {1, 5, 9} PROVE WordOf(SubSeq(block, f, f + 3)) \in Nat
    OBVIOUS
  <2>1. PICK k : k = SubSeq(block, f, f + 3)
    OBVIOUS
  <2>2. \A i \in 1 .. 4 : k[i] \in Byte
    <3>1. f \in 1 .. Len(block) /\ f + 3 \in 1 .. Len(block) /\ \A i \in 1 .. 4 : f + i - 1 \in 1 .. 12
      OBVIOUS
    <3> QED  BY <1>1, <2>1, <3>1, FourBytes
  <2> QED  BY <2>1, <2>2, WordIsNat
<1>3. /\ WordOf(SubSeq(block, 1, 4)) \in Nat /\ WordOf(SubSeq(block, 5, 8)) \in Nat
      /\ WordOf(SubSeq(block, 9, 12)) \in Nat
  <2>1. 1 + 3 = 4 /\ 5 + 3 = 8 /\ 9 + 3 = 12
    OBVIOUS
  <2> QED  BY <1>2, <2>1
<1> QED  BY <1>3 DEF WordsOf

LEMMA AddTypes ==
  ASSUME NEW s \in Triples, NEW w, \A x \in 1 .. 3 : w[x] \in Nat
  PROVE  AddWords(s, w) \in Triples
<1>1. \A x \in 1 .. 3 : s[x] \in Int /\ w[x] \in Int
  BY WordType DEF Triples
<1>2. Add(s[1], w[1]) \in Word /\ Add(s[2], w[2]) \in Word /\ Add(s[3], w[3]) \in Word
  BY <1>1, AddSubType
<1> QED  BY <1>2 DEF AddWords, Triples

LEMMA SeededType ==
  ASSUME NEW n \in Nat, NEW pc \in Word, NEW pb \in Word
  PROVE  Seeded(n, pc, pb) \in Triples
<1>1. pc \in Int /\ pb \in Int /\ GOLDEN_RATIO \in Int /\ n \in Int
  BY WordType, GoldenType
<1>2. PICK g \in Word : g = Add(GOLDEN_RATIO, n)
  BY <1>1, AddSubType
<1>3. PICK init \in Word : init = Add(g, pc)
  BY <1>1, WordType, AddSubType
<1>4. PICK c \in Word : c = Add(init, pb)
  BY <1>1, WordType, AddSubType
<1> QED  BY <1>2, <1>3, <1>4 DEF Seeded, Triples

\* The rounds of the loop, as a function.
Rounded(g, key, n, seeded) ==
  g = [r \in 0 .. n |->
         IF r = 0 THEN seeded
         ELSE Mix(AddWords(g[r - 1], WordsOf(SubSeq(key, 12 * r - 11, 12 * r))))]

Unrolled(g, key, n, seeded) ==
  /\ g[0] = seeded
  /\ \A r \in 0 .. n :
       r # 0 => g[r] = Mix(AddWords(g[r - 1], WordsOf(SubSeq(key, 12 * r - 11, 12 * r))))

\* The loop over n blocks, unfolded: a table that is defined block by block
\* holds the words after each of them.
LEMMA RoundsUnfold ==
  ASSUME NEW key, NEW n \in Nat, NEW seeded, NEW g, Rounded(g, key, n, seeded)
  PROVE  Unrolled(g, key, n, seeded)
<1> DEFINE Block(v, r) == Mix(AddWords(v, WordsOf(SubSeq(key, 12 * r - 11, 12 * r))))
<1>1. PICK e : e = [r \in 0 .. n |-> IF r = 0 THEN seeded ELSE Block(g[r - 1], r)]
  OBVIOUS
<1>2. g = e
  BY <1>1 DEF Rounded
<1>3. e[0] = seeded /\ \A r \in 0 .. n : r # 0 => e[r] = Block(g[r - 1], r)
  <2> HIDE DEF Block
  <2> QED  BY <1>1
<1> QED  BY <1>2, <1>3 DEF Unrolled

LEMMA RoundsExist ==
  ASSUME NEW key, NEW seeded
  PROVE  \A n \in Nat : \E g : Rounded(g, key, n, seeded)
<1> DEFINE M == {n \in Nat : \E g : Rounded(g, key, n, seeded)}
           Block(v, r) == Mix(AddWords(v, WordsOf(SubSeq(key, 12 * r - 11, 12 * r))))
<1>1. 0 \in M
  <2> DEFINE g == [r \in 0 .. 0 |-> seeded]
  <2>1. g = [r \in 0 .. 0 |-> IF r = 0 THEN seeded ELSE Block(g[r - 1], r)]
    <3>1. \A r \in 0 .. 0 : r = 0
      OBVIOUS
    <3> HIDE DEF Block
    <3> QED  BY <3>1
  <2> HIDE DEF g
  <2> QED  BY <2>1 DEF Rounded
<1>2. ASSUME NEW n \in M PROVE n + 1 \in M
  <2>1. PICK h : Rounded(h, key, n, seeded)
    OBVIOUS
  <2>2. h[0] = seeded /\ \A r \in 0 .. n : r # 0 => h[r] = Block(h[r - 1], r)
    BY <2>1, RoundsUnfold DEF Unrolled
  <2> HIDE DEF Block
  <2> DEFINE g == [r \in 0 .. n + 1 |-> IF r = 0 THEN seeded ELSE Block(h[r - 1], r)]
  <2>3. \A r \in 0 .. n : g[r] = h[r] /\ r \in 0 .. n + 1
    BY <2>2
  <2>4. \A r \in 0 .. n + 1 : r # 0 => g[r - 1] = h[r - 1]
    <3>1. \A r \in 0 .. n + 1 : r # 0 => r - 1 \in 0 .. n
      OBVIOUS
    <3> HIDE DEF g
    <3> QED  BY <2>3, <3>1
  <2>5. [r \in 0 .. n + 1 |-> IF r = 0 THEN seeded ELSE Block(h[r - 1], r)]
          = [r \in 0 .. n + 1 |-> IF r = 0 THEN seeded ELSE Block(g[r - 1], r)]
    <3> HIDE DEF g
    <3> QED  BY <2>4
  <2>6. g = [r \in 0 .. n + 1 |-> IF r = 0 THEN seeded ELSE Block(g[r - 1], r)]
    BY <2>5, Zenon
  <2> HIDE DEF g
  <2>7. Rounded(g, key, n + 1, seeded)
    BY <2>6, Zenon DEF Rounded, Block
  <2>8. n + 1 \in Nat
    OBVIOUS
  <2> QED  BY <2>7, <2>8
<1> HIDE DEF Block
<1>3. M = Nat
  <2> HIDE DEF M
  <2> QED  BY <1>1, <1>2, NumbersByInduction DEF M
<1> QED  BY <1>3

\* The loop over the blocks returns words.
LEMMA MixedType ==
  ASSUME NEW key \in Seq(Byte), NEW n \in Nat, 12 * n <= Len(key), NEW seeded \in Triples
  PROVE  MixedOver(key, n, seeded) \in Triples
<1>1. PICK g : /\ g = CHOOSE s : Rounded(s, key, n, seeded)
               /\ Rounded(g, key, n, seeded)
  BY RoundsExist
<1>2. MixedOver(key, n, seeded) = g[n]
  BY <1>1 DEF MixedOver, Rounded
<1>3. /\ g[0] = seeded
      /\ \A r \in 0 .. n : r # 0 => g[r] = Mix(AddWords(g[r - 1], WordsOf(SubSeq(key, 12 * r - 11, 12 * r))))
  <2>1. Rounded(g, key, n, seeded)
    BY <1>1
  <2>2. Unrolled(g, key, n, seeded)
    BY <2>1, RoundsUnfold
  <2> QED  BY <2>2 DEF Unrolled
<1> DEFINE M == {r \in Nat : r <= n => g[r] \in Triples}
<1>4. 0 \in M
  BY <1>3
<1>5. ASSUME NEW r \in M PROVE r + 1 \in M
  <2> SUFFICES ASSUME r + 1 <= n PROVE g[r + 1] \in Triples
    OBVIOUS
  <2>1. r + 1 \in 0 .. n /\ r + 1 # 0 /\ (r + 1) - 1 = r /\ g[r] \in Triples
    OBVIOUS
  <2>2. PICK block : block = SubSeq(key, 12 * (r + 1) - 11, 12 * (r + 1))
    OBVIOUS
  <2>3. block \in Seq(Byte) /\ Len(block) = 12
    <3>1. PICK f \in 1 .. Len(key) : f = 12 * (r + 1) - 11 /\ f + 11 = 12 * (r + 1) /\ f + 11 \in 1 .. Len(key)
      OBVIOUS
    <3>2. SubSeq(key, f, f + 11) \in Seq(Byte) /\ Len(SubSeq(key, f, f + 11)) = 12
      BY <3>1
    <3> QED  BY <2>2, <3>1, <3>2
  <2>4. AddWords(g[r], WordsOf(block)) \in Triples
    <3>1. PICK w : w = WordsOf(block)
      OBVIOUS
    <3>2. \A x \in 1 .. 3 : w[x] \in Nat
      BY <2>3, <3>1, BlockTypes
    <3> QED  BY <2>1, <3>1, <3>2, AddTypes
  <2>5. g[r + 1] = Mix(AddWords(g[r], WordsOf(block)))
    BY <1>3, <2>1, <2>2
  <2> QED  BY <2>4, <2>5, MixTypes
<1>6. M = Nat
  <2> HIDE DEF M
  <2> QED  BY <1>4, <1>5, NumbersByInduction DEF M
<1> QED  BY <1>2, <1>6

\* Every hash is a word.
LEMMA JhashType ==
  ASSUME NEW key \in Seq(Byte), NEW pc \in Word, NEW pb \in Word
  PROVE  Jhash2Hashes(key, pc, pb)[1] \in Word
<1>1. PICK n \in Nat, r \in Nat : n = Len(key) /\ r = Rounds(n) /\ 12 * r <= n
  <2>1. PICK n \in Nat : n = Len(key)
    OBVIOUS
  <2>2. PICK r \in Nat : r = Rounds(n) /\ (IF n = 0 THEN r = 0 ELSE n - 12 * r \in 1 .. 12)
    BY RoundsLeave
  <2> QED  BY <2>1, <2>2
<1>2. PICK mixed \in Triples : mixed = MixedOver(key, r, Seeded(n, pc, pb))
  BY <1>1, SeededType, MixedType
<1>3. PICK tail : tail = Tail12(key)
  OBVIOUS
<1>4. AddWords(mixed, WordsOf(tail)) \in Triples
  <2>1. tail \in Seq(Byte) /\ Len(tail) = 12
    BY <1>3, TailType
  <2>2. PICK w : w = WordsOf(tail)
    OBVIOUS
  <2>3. \A x \in 1 .. 3 : w[x] \in Nat
    BY <2>1, <2>2, BlockTypes
  <2> QED  BY <1>2, <2>2, <2>3, AddTypes
<1>5. PICK s \in Triples : Jhash2Hashes(key, pc, pb) = <<s[3], s[2]>>
  <2>1. Absorbed(key, pc, pb) = AddWords(mixed, WordsOf(tail))
    BY <1>1, <1>2, <1>3 DEF Absorbed
  <2>2. FinalMix(Absorbed(key, pc, pb)) \in Triples
    BY <1>4, <2>1, MixTypes
  <2> QED  BY <1>1, <1>2, <2>2 DEF Jhash2Hashes
<1> QED  BY <1>5 DEF Triples

(***************************************************************************)
(* The Rust jhash returns what DPDK's does, for every key of any length,   *)
(* every pair of seeds and every width of a byte: the zero-padded tail and *)
(* the masked read past the key give the same words.                       *)
(***************************************************************************)
THEOREM PortedHashIsExact == CallSpec => []MatchesRteJhash
<1> DEFINE Called == \A c \in call : c.key \in Seq(Byte) /\ c.pc \in Word /\ c.pb \in Word
<1>1. CallInit => Called
  BY DEF CallInit
<1>2. Called /\ [CallJhash \/ CallReturns]_call => Called'
  <2> SUFFICES ASSUME Called, [CallJhash \/ CallReturns]_call PROVE Called'
    OBVIOUS
  <2>1. CASE CallJhash
    <3>1. PICK key \in Keys, pc \in Seeds, pb \in Seeds : call' = {[key |-> key, pc |-> pc, pb |-> pb]}
      BY <2>1 DEF CallJhash
    <3>2. key \in Seq(Byte) /\ pc \in Word /\ pb \in Word
      BY KeysAssumption
    <3> QED  BY <3>1, <3>2
  <2>2. CASE CallReturns
    BY <2>2 DEF CallReturns
  <2>3. CASE UNCHANGED call
    BY <2>3
  <2> QED  BY <2>1, <2>2, <2>3
<1>3. Called => MatchesRteJhash
  <2> SUFFICES ASSUME Called, NEW c \in call
               PROVE  /\ \A bit \in Byte : Jhash2Hashes(c.key, c.pc, c.pb)
                                           = Rte2Hashes(c.key, [p \in 1 .. 3 |-> bit], c.pc, c.pb)
                      /\ Len(c.key) = 12 => Jhash3Words(WordsOf(c.key), c.pc) = JhashOf(c.key, c.pc)
    BY DEF MatchesRteJhash
  <2>1. c.key \in Seq(Byte) /\ c.pc \in Word
    OBVIOUS
  <2>2. \A bit \in Byte : /\ [p \in 1 .. 3 |-> bit] \in Seq(Byte)
                         /\ Len([p \in 1 .. 3 |-> bit]) = 3
    OBVIOUS
  <2> HIDE DEF Called
  <2>3. ASSUME NEW bit \in Byte
        PROVE  Jhash2Hashes(c.key, c.pc, c.pb) = Rte2Hashes(c.key, [p \in 1 .. 3 |-> bit], c.pc, c.pb)
    <3>1. PICK behind : behind = [p \in 1 .. 3 |-> bit]
      OBVIOUS
    <3>2. behind \in Seq(Byte) /\ Len(behind) >= 3
      BY <2>2, <3>1
    <3>3. PICK key, pc, pb : key = c.key /\ pc = c.pc /\ pb = c.pb
      OBVIOUS
    <3>4. Jhash2Hashes(key, pc, pb) = Rte2Hashes(key, behind, pc, pb)
      BY <2>1, <3>2, <3>3, SameHashes DEF Readable
    <3> QED  BY <3>1, <3>3, <3>4
  <2>4. Len(c.key) = 12 => Jhash3Words(WordsOf(c.key), c.pc) = JhashOf(c.key, c.pc)
    BY <2>1, SameWords
  <2> QED  BY <2>3, <2>4
<1> QED  BY <1>1, <1>2, <1>3, PTL DEF CallSpec
-----------------------------------------------------------------------------
(***************************************************************************)
(* The hashes of a flow and of a backend, in both programs.                *)
(***************************************************************************)
\* The bytes of a field of a frame.
LEMMA FieldOfBytes ==
  ASSUME NEW n \in Nat, NEW field \in [1 .. n -> Byte]
  PROVE  field \in Seq(Byte) /\ Len(field) = n
OBVIOUS

\* Nothing behind a key.
LEMMA NoBytes == << >> \in Seq(Byte)
BY EmptySeq

\* The bytes of a word are those the word is read from.
LEMMA WordBytes ==
  ASSUME NEW w \in Word
  PROVE  /\ BytesOf(w) \in Seq(Byte) /\ Len(BytesOf(w)) = 4
         /\ WordOf(BytesOf(w)) = w
<1>1. PICK b \in Nat \ {0} : b = Values[1]
  BY ValueTypes
<1>2. PICK c \in Nat \ {0} : c = b * b /\ c = Values[2]
  <2>1. Values[2] = b * b
    BY <1>1, Powers
  <2> QED  BY <2>1, ValueTypes
<1>3. PICK d \in Nat \ {0} : d = c * b /\ d = Values[3]
  <2>1. Values[3] = c * b
    BY <1>1, <1>2, Powers
  <2> QED  BY <2>1, ValueTypes
<1>4. PICK e \in Nat \ {0} : e = d * b /\ e = Values[4]
  <2>1. Values[4] = d * b
    BY <1>1, <1>3, Powers
  <2> QED  BY <2>1, ValueTypes
<1>5. /\ 2^(ByteBits * 0) = 1 /\ 2^(ByteBits * 1) = b /\ 2^ByteBits = b
      /\ 2^(ByteBits * 2) = c /\ 2^(ByteBits * 3) = d
  <2>1. PICK n \in Nat \ {0} : n = ByteBits /\ Bits = n + n + n + n
    BY ByteAssumption DEF Bits
  <2>2. n \in 0 .. Bits /\ n \in 0 .. Bits - n /\ n + n \in 0 .. Bits - n /\ 0 \in 0 .. Bits
        /\ n + n \in 0 .. Bits /\ (n + n) + n \in 0 .. Bits
    BY <2>1
  <2>3. Pow[n] = b
    BY <1>1, <2>1, BaseType, ValueTypes DEF Values
  <2>4. Pow[n + n] = b * b
    BY <2>2, <2>3, PowType
  <2>5. Pow[(n + n) + n] = (b * b) * b
    <3>1. Pow[(n + n) + n] = Pow[n + n] * Pow[n]
      BY <2>2, PowType
    <3> QED  BY <2>3, <2>4, <3>1
  <2>6. Pow[0] = 2^0 /\ Pow[n] = 2^n /\ Pow[n + n] = 2^(n + n) /\ Pow[(n + n) + n] = 2^((n + n) + n)
    BY <2>2, PowType
  <2>7. ByteBits * 0 = 0 /\ ByteBits * 1 = n /\ ByteBits * 2 = n + n /\ ByteBits * 3 = (n + n) + n
    BY <2>1
  <2>8. Pow[0] = 1
    BY PowType
  <2> QED  BY <1>2, <1>3, <2>1, <2>3, <2>4, <2>5, <2>6, <2>7, <2>8
<1>6. PICK q1 \in 0 .. d - 1, r0 \in 0 .. b - 1 : q1 = w \div b /\ r0 = w % b /\ w = r0 + q1 * b
  <2>1. w \in 0 .. d * b - 1
    BY <1>4, ValueTypes DEF Word
  <2> QED  BY <2>1, QuotientBelow
<1>7. PICK q2 \in 0 .. c - 1, r1 \in 0 .. b - 1 : q2 = q1 \div b /\ r1 = q1 % b /\ q1 = r1 + q2 * b
  <2>1. q1 \in 0 .. c * b - 1
    BY <1>3
  <2> QED  BY <2>1, QuotientBelow
<1>8. PICK q3 \in 0 .. b - 1, r2 \in 0 .. b - 1 : q3 = q2 \div b /\ r2 = q2 % b /\ q2 = r2 + q3 * b
  <2>1. q2 \in 0 .. b * b - 1
    BY <1>2
  <2> QED  BY <2>1, QuotientBelow
<1>9. PICK r1b, r2c, q3d \in Nat : r1b = r1 * b /\ r2c = r2 * c /\ q3d = q3 * d
  <2>1. r1 * b \in Nat
    BY <1>7
  <2>2. r2 * c \in Nat /\ q3 * d \in Nat
    BY <1>8
  <2> QED  BY <2>1, <2>2
<1>10. q2 * c = r2c + q3d
  <2>1. PICK q3b \in Nat : q3b = q3 * b
    BY <1>8
  <2>2. (r2 + q3b) * c = r2 * c + q3b * c
    BY <1>8
  <2>3. q3b * c = q3 * d
    BY <1>3, <1>8, <2>1
  <2> QED  BY <1>8, <1>9, <2>1, <2>2, <2>3
<1>11. q1 * b = r1b + q2 * c
  <2>1. PICK q2b \in Nat : q2b = q2 * b
    BY <1>7
  <2>2. (r1 + q2b) * b = r1 * b + q2b * b
    BY <1>7
  <2>3. q2b * b = q2 * c
    BY <1>2, <1>7, <2>1
  <2> QED  BY <1>7, <1>9, <2>1, <2>2, <2>3
<1>12. w = r0 + r1b + r2c + q3d
  BY <1>6, <1>9, <1>10, <1>11
<1>13. w \div c = q2
  <2>1. r0 + r1b \in 0 .. c - 1
    <3>1. (r1 + 1) * b = r1b + b /\ (r1 + 1) * b <= b * b
      BY <1>7, <1>9
    <3> QED  BY <1>2, <1>6, <1>9, <3>1
  <2>2. w = (r0 + r1b) + q2 * c
    BY <1>6, <1>9, <1>10, <1>12
  <2>3. q2 \in Nat
    BY <1>7
  <2> QED  BY <2>1, <2>2, <2>3, QuotientPart
<1>14. w \div d = q3
  <2>1. r0 + r1b + r2c \in 0 .. d - 1
    <3>1. (r1 + 1) * b = r1b + b /\ (r1 + 1) * b <= b * b
      BY <1>7, <1>9
    <3>2. (r2 + 1) * c = r2c + c /\ (r2 + 1) * c <= b * c
      BY <1>8, <1>9
    <3>3. r1b + b <= c
      BY <1>2, <3>1
    <3>4. r2c + c <= d
      <4>1. b * c = d
        BY <1>3
      <4> QED  BY <3>2, <4>1
    <3>5. r1b \in Nat /\ r2c \in Nat /\ r0 \in 0 .. b - 1
      BY <1>6, <1>9
    <3> QED  BY <3>3, <3>4, <3>5
  <2>2. w = (r0 + r1b + r2c) + q3 * d
    BY <1>9, <1>12
  <2>3. q3 \in Nat
    BY <1>8
  <2> QED  BY <2>1, <2>2, <2>3, QuotientPart
<1>15. q3 % b = q3 /\ w \div 1 = w
  <2>1. LowOf(q3, q3, b)
    <3>1. q3 = q3 + 0 * b /\ 0 \in Nat
      BY <1>8
    <3> QED  BY <1>8, <3>1 DEF LowOf
  <2>2. w \in Nat
    BY WordType
  <2> QED  BY <2>1, <2>2, LowPart
<1>16. PICK k : k = BytesOf(w)
  OBVIOUS
<1>17. k[1] = r0 /\ k[2] = r1 /\ k[3] = r2 /\ k[4] = q3
  <2>1. /\ k[1] = (w \div 2^(ByteBits * 0)) % b /\ k[2] = (w \div 2^(ByteBits * 1)) % b
        /\ k[3] = (w \div 2^(ByteBits * 2)) % b /\ k[4] = (w \div 2^(ByteBits * 3)) % b
    BY <1>5, <1>16 DEF BytesOf
  <2>2. k[1] = (w \div 1) % b /\ k[2] = (w \div b) % b /\ k[3] = (w \div c) % b /\ k[4] = (w \div d) % b
    BY <1>5, <2>1
  <2> QED  BY <1>6, <1>7, <1>8, <1>13, <1>14, <1>15, <2>2
<1>18. k \in Seq(Byte) /\ Len(k) = 4
  <2>1. k \in [1 .. 4 -> Byte]
    <3>1. k[1] \in Byte /\ k[2] \in Byte /\ k[3] \in Byte /\ k[4] \in Byte
      BY <1>1, <1>6, <1>7, <1>8, <1>17, ValueTypes
    <3>2. \A i \in 1 .. 4 : k[i] \in Byte
      BY <3>1
    <3>3. k = [i \in 1 .. 4 |-> k[i]]
      BY <1>16 DEF BytesOf
    <3> QED  BY <3>2, <3>3
  <2> QED  BY <2>1, FieldOfBytes
<1>19. WordOf(k) = w
  BY <1>1, <1>2, <1>3, <1>9, <1>12, <1>17 DEF WordOf
<1> QED  BY <1>16, <1>18, <1>19

\* What lies where in a key that is put together.
LEMMA ConcatFour ==
  ASSUME NEW k \in Seq(Byte), NEW l \in Seq(Byte), NEW n \in Nat, Len(k) = n, Len(l) = 4
  PROVE  /\ k \o l \in Seq(Byte) /\ Len(k \o l) = n + 4
         /\ \A i \in 1 .. n : (k \o l)[i] = k[i]
         /\ \A i \in 1 .. 4 : (k \o l)[n + i] = l[i]
<1>1. PICK j : j = k \o l
  OBVIOUS
<1>2. /\ j \in Seq(Byte) /\ Len(j) = Len(k) + Len(l)
      /\ \A i \in 1 .. Len(k) + Len(l) : j[i] = IF i <= Len(k) THEN k[i] ELSE l[i - Len(k)]
  BY <1>1, ConcatProperties
<1>3. Len(j) = n + 4 /\ \A i \in 1 .. n + 4 : j[i] = IF i <= n THEN k[i] ELSE l[i - n]
  BY <1>2
<1>4. \A i \in 1 .. n : j[i] = k[i]
  BY <1>3
<1>5. ASSUME NEW i \in 1 .. 4 PROVE j[n + i] = l[i]
  <2>1. n + i \in 1 .. n + 4 /\ ~(n + i <= n) /\ (n + i) - n = i
    OBVIOUS
  <2> QED  BY <1>3, <2>1
<1> QED  BY <1>1, <1>2, <1>3, <1>4, <1>5

\* A key of three words.
LEMMA JoinedWords ==
  ASSUME NEW x \in Word, NEW y \in Word, NEW z \in Word
  PROVE  \E key \in Seq(Byte) : /\ key = BytesOf(x) \o BytesOf(y) \o BytesOf(z)
                                /\ Len(key) = 12 /\ WordsOf(key) = <<x, y, z>>
<1>0. PICK key : key = BytesOf(x) \o BytesOf(y) \o BytesOf(z)
  OBVIOUS
<1>1. PICK k, l, m \in Seq(Byte) : /\ k = BytesOf(x) /\ l = BytesOf(y) /\ m = BytesOf(z)
                                   /\ Len(k) = 4 /\ Len(l) = 4 /\ Len(m) = 4
                                   /\ WordOf(k) = x /\ WordOf(l) = y /\ WordOf(m) = z
  BY WordBytes
<1>2. key = (k \o l) \o m
  BY <1>0, <1>1
<1>3. PICK kl : /\ kl = k \o l /\ kl \in Seq(Byte) /\ Len(kl) = 8
                /\ \A i \in 1 .. 4 : kl[i] = k[i] /\ kl[4 + i] = l[i]
  <2>1. PICK j : j = k \o l
    OBVIOUS
  <2>2. j \in Seq(Byte) /\ Len(j) = 8
    BY <1>1, <2>1, ConcatFour
  <2>3. /\ \A i \in 1 .. 4 : j[i] = k[i]
        /\ \A i \in 1 .. 4 : j[4 + i] = l[i]
    <3>1. 4 \in Nat /\ Len(k) = 4 /\ Len(l) = 4
      BY <1>1
    <3>2. /\ \A i \in 1 .. 4 : (k \o l)[i] = k[i]
          /\ \A i \in 1 .. 4 : (k \o l)[4 + i] = l[i]
      BY <3>1, ConcatFour, Z3
    <3> QED  BY <2>1, <3>2
  <2> QED  BY <2>1, <2>2, <2>3
<1>4. /\ key \in Seq(Byte) /\ Len(key) = 12
      /\ \A i \in 1 .. 8 : key[i] = kl[i]
      /\ \A i \in 1 .. 4 : key[8 + i] = m[i]
  <2>1. key = kl \o m
    BY <1>2, <1>3
  <2>2. /\ kl \o m \in Seq(Byte) /\ Len(kl \o m) = 8 + 4
        /\ \A i \in 1 .. 8 : (kl \o m)[i] = kl[i]
        /\ \A i \in 1 .. 4 : (kl \o m)[8 + i] = m[i]
    <3>1. 8 \in Nat
      OBVIOUS
    <3>2. kl \in Seq(Byte) /\ m \in Seq(Byte) /\ Len(kl) = 8 /\ Len(m) = 4
      BY <1>1, <1>3
    <3> QED  BY <3>1, <3>2, ConcatFour, ZenonT(20)
  <2>3. 8 + 4 = 12
    OBVIOUS
  <2> QED  BY <2>1, <2>2, <2>3
<1>5. ASSUME NEW f \in {1, 5, 9}, NEW u, \A i \in 1 .. 4 : key[f + i - 1] = u[i]
      PROVE  WordOf(SubSeq(key, f, f + 3)) = WordOf(u)
  <2>1. PICK s : s = SubSeq(key, f, f + 3)
    OBVIOUS
  <2>2. f \in 1 .. Len(key) /\ f + 3 \in 1 .. Len(key)
    <3>1. f \in 1 .. 12 /\ f + 3 \in 1 .. 12
      OBVIOUS
    <3>2. Len(key) = 12
      BY <1>4
    <3> QED  BY <3>1, <3>2
  <2>3. \A i \in 1 .. 4 : s[i] = key[f + i - 1]
    BY <1>4, <2>1, <2>2, FourBytes
  <2>4. \A i \in 1 .. 4 : s[i] = u[i]
    BY <1>5, <2>3
  <2> QED  BY <2>1, <2>4, SameWord
<1>6. WordOf(SubSeq(key, 1, 4)) = x
  <2>1. \A i \in 1 .. 4 : key[1 + i - 1] = k[i]
    <3>1. \A i \in 1 .. 4 : 1 + i - 1 = i /\ i \in 1 .. 8
      OBVIOUS
    <3> QED  BY <1>3, <1>4, <3>1
  <2>2. WordOf(SubSeq(key, 1, 1 + 3)) = WordOf(k)
    BY <1>5, <2>1
  <2>3. 1 + 3 = 4
    OBVIOUS
  <2> QED  BY <1>1, <2>2, <2>3
<1>7. WordOf(SubSeq(key, 5, 8)) = y
  <2>1. \A i \in 1 .. 4 : key[5 + i - 1] = l[i]
    <3> SUFFICES ASSUME NEW i \in 1 .. 4 PROVE key[5 + i - 1] = l[i]
      OBVIOUS
    <3>1. PICK j \in 1 .. 8 : j = 5 + i - 1 /\ j = 4 + i
      OBVIOUS
    <3>2. key[j] = kl[j]
      BY <1>4
    <3>3. kl[4 + i] = l[i]
      BY <1>3
    <3> QED  BY <3>1, <3>2, <3>3
  <2>2. WordOf(SubSeq(key, 5, 5 + 3)) = WordOf(l)
    BY <1>5, <2>1
  <2>3. 5 + 3 = 8
    OBVIOUS
  <2> QED  BY <1>1, <2>2, <2>3
<1>8. WordOf(SubSeq(key, 9, 12)) = z
  <2>1. \A i \in 1 .. 4 : key[9 + i - 1] = m[i]
    <3>1. \A i \in 1 .. 4 : 9 + i - 1 = 8 + i
      OBVIOUS
    <3> QED  BY <1>4, <3>1
  <2>2. WordOf(SubSeq(key, 9, 9 + 3)) = WordOf(m)
    BY <1>5, <2>1
  <2>3. 9 + 3 = 12
    OBVIOUS
  <2> QED  BY <1>1, <2>2, <2>3
<1>9. WordsOf(key) = <<x, y, z>>
  BY <1>6, <1>7, <1>8 DEF WordsOf
<1> QED  BY <1>0, <1>4, <1>9

\* The fields of a flow are words.
LEMMA FlowTypes ==
  ASSUME NEW f \in Flows4 \cup Flows6
  PROVE  L4(f) \in Word /\ f.proto \in Word /\ 0 \in Word
<1>1. PICK b \in Nat \ {0} : b = Values[1]
  BY ValueTypes
<1>2. PICK c \in Nat \ {0} : c = Values[2] /\ c = b * b
  BY <1>1, ValueTypes, Powers
<1>3. PICK e \in Nat \ {0} : e = Values[4] /\ e = c * c
  <2>1. Values[4] = ((b * b) * b) * b
    BY <1>1, Powers
  <2>2. ((b * b) * b) * b = (b * b) * (b * b)
    OBVIOUS
  <2> QED  BY <1>2, <2>1, <2>2, ValueTypes
<1>4. 2^(Bits \div 2) = c
  <2>1. PICK n \in Nat \ {0} : n = ByteBits /\ Bits = n + n + n + n
    BY ByteAssumption DEF Bits
  <2>2. n \in 0 .. Bits /\ n \in 0 .. Bits - n /\ n + n \in 0 .. Bits /\ Bits \div 2 = n + n
    BY <2>1
  <2>3. Pow[n] = b
    BY <1>1, <2>1, BaseType DEF Values
  <2>4. Pow[n + n] = b * b /\ Pow[n + n] = 2^(n + n)
    BY <2>2, <2>3, PowType
  <2> QED  BY <1>2, <2>2, <2>4
<1>5. PICK s, p \in 0 .. c - 1 : s = f.sport /\ p = f.dport
  BY <1>2, NfAssumption
<1>6. s * c + p \in 0 .. e - 1
  <2>1. (s + 1) * c = s * c + c /\ (s + 1) * c <= c * c /\ s * c \in Nat
    BY <1>5
  <2> QED  BY <1>3, <1>5, <2>1
<1>7. b <= e
  <2>1. b <= b * b /\ c <= c * c
    BY <1>2
  <2> QED  BY <1>2, <1>3, <2>1
<1>8. Word = 0 .. e - 1 /\ Byte = 0 .. b - 1
  BY <1>1, <1>3, ValueTypes DEF Word
<1>9. f.proto \in Byte
  BY NfAssumption
<1> QED  BY <1>4, <1>5, <1>6, <1>7, <1>8, <1>9 DEF L4

\* hash_4 of the port is rte_jhash_3words as maglev.cpp calls it.
LEMMA SameHash4 ==
  ASSUME NEW f \in Flows4
  PROVE  Hash4(f) = HashCpp4(f) /\ Hash4(f) \in Word
<1>1. PICK x \in Word : x = Xor(L4(f), f.proto)
  BY FlowTypes, WordXor
<1>2. f.src \in Word /\ f.dst \in Word /\ 0 \in Word
  BY FlowTypes, NfAssumption
<1>3. PICK key \in Seq(Byte) : /\ key = BytesOf(f.src) \o BytesOf(f.dst) \o BytesOf(x)
                               /\ Len(key) = 12 /\ WordsOf(key) = <<f.src, f.dst, x>>
  BY <1>2, JoinedWords
<1>4. Rte2Hashes(key, << >>, 0, 0) = Jhash2Hashes(key, 0, 0)
  <2>1. ASSUME NEW behind \in Seq(Byte)
        PROVE  Rte2Hashes(key, behind, 0, 0) = Jhash2Hashes(key, 0, 0)
    <3>1. 12 % 4 = 0
      OBVIOUS
    <3>2. Readable(key, behind)
      BY <1>3, <3>1 DEF Readable
    <3> QED  BY <3>2, SameHashes
  <2> QED  BY <2>1, NoBytes
<1>5. HashCpp4(f) = JhashOf(key, 0)
  BY <1>1, <1>3, <1>4 DEF HashCpp4, JhashOf
<1>6. Hash4(f) = JhashOf(key, 0)
  BY <1>1, <1>2, <1>3, SameWords DEF Hash4
<1>7. JhashOf(key, 0) \in Word
  BY <1>2, JhashType DEF JhashOf
<1> QED  BY <1>5, <1>6, <1>7

\* hash_6 of the port is rte_jhash as maglev.cpp calls it, the ports behind
\* the addresses in memory.
LEMMA SameHash6 ==
  ASSUME NEW f \in Flows6
  PROVE  Hash6(f) = HashCpp6(f) /\ Hash6(f) \in Word
<1>1. PICK w, p \in Word : w = L4(f) /\ p = f.proto
  BY FlowTypes
<1>2. PICK key \in Seq(Byte) : key = f.addrs
  <2>1. f.addrs \in [1 .. 32 -> Byte]
    BY NfAssumption
  <2>2. 32 \in Nat
    OBVIOUS
  <2> QED  BY <2>1, <2>2, FieldOfBytes
<1>3. Rte2Hashes(key, BytesOf(w), 0, 0) = Jhash2Hashes(key, 0, 0)
  <2>1. PICK behind \in Seq(Byte) : behind = BytesOf(w) /\ Len(behind) = 4
    BY WordBytes
  <2>2. Readable(key, behind)
    BY <2>1 DEF Readable
  <2> QED  BY <2>1, <2>2, SameHashes
<1>4. PICK j \in Word : j = JhashOf(key, 0) /\ j = Rte2Hashes(key, BytesOf(w), 0, 0)[1]
  <2>1. 0 \in Word
    BY FlowTypes
  <2> QED  BY <1>3, <2>1, JhashType DEF JhashOf
<1>5. Hash6(f) = Xor(j, Xor(w, p))
  BY <1>1, <1>2, <1>4 DEF Hash6
<1>6. HashCpp6(f) = Xor(Xor(j, w), p)
  BY <1>1, <1>2, <1>4 DEF HashCpp6
<1>7. Xor(Xor(j, w), p) = Xor(j, Xor(w, p))
  BY XorAssociates
<1>8. Xor(j, Xor(w, p)) \in Word
  BY WordXor
<1> QED  BY <1>5, <1>6, <1>7, <1>8

\* Both programs ask their cache for the same word.
LEMMA SameFlowHash ==
  ASSUME NEW f \in Flows
  PROVE  Hashed(f).rust = Hashed(f).cpp /\ Hashed(f).rust \in Word
<1>1. PICK H : H = IF Ipv6 THEN Hashed6 ELSE Hashed4
  OBVIOUS
<1>2. PICK h \in H : h.flow = f /\ h = Hashed(f)
  <2>1. \E h \in H : h.flow = f
    <3>1. CASE Ipv6
      <4>1. [flow |-> f, rust |-> Hash6(f), cpp |-> HashCpp6(f)] \in H
        BY <1>1, <3>1, HashedAssumption DEF Flows
      <4> QED  BY <4>1
    <3>2. CASE ~Ipv6
      <4>1. [flow |-> f, rust |-> Hash4(f), cpp |-> HashCpp4(f)] \in H
        BY <1>1, <3>2, HashedAssumption DEF Flows
      <4> QED  BY <4>1
    <3> QED  BY <3>1, <3>2
  <2> QED  BY <1>1, <2>1 DEF Hashed
<1>3. CASE Ipv6
  <2>1. PICK g \in Flows6 : h = [flow |-> g, rust |-> Hash6(g), cpp |-> HashCpp6(g)]
    BY <1>1, <1>2, <1>3, HashedAssumption
  <2> QED  BY <1>2, <2>1, SameHash6
<1>4. CASE ~Ipv6
  <2>1. PICK g \in Flows4 : h = [flow |-> g, rust |-> Hash4(g), cpp |-> HashCpp4(g)]
    BY <1>1, <1>2, <1>4, HashedAssumption
  <2> QED  BY <1>2, <2>1, SameHash4
<1> QED  BY <1>3, <1>4

LEMMA NetBytesType ==
  ASSUME NEW w \in Word
  PROVE  NetBytes(w) \in Seq(Byte) /\ Len(NetBytes(w)) = 4
<1>1. PICK k \in Seq(Byte) : k = BytesOf(w) /\ Len(k) = 4
  BY WordBytes
<1>2. NetBytes(w) = [p \in 1 .. 4 |-> k[5 - p]]
  BY <1>1 DEF NetBytes
<1>3. \A p \in 1 .. 4 : 5 - p \in 1 .. 4 /\ k[5 - p] \in Byte
  <2>1. \A q \in 1 .. 4 : k[q] \in Byte
    <3>1. PICK S : S = Byte
      OBVIOUS
    <3>2. k \in Seq(S) /\ Len(k) = 4
      BY <1>1, <3>1
    <3>3. \A q \in 1 .. 4 : k[q] \in S
      BY <3>2
    <3> QED  BY <3>1, <3>3
  <2>2. \A p \in 1 .. 4 : 5 - p \in 1 .. 4
    OBVIOUS
  <2> QED  BY <2>1, <2>2
<1>4. NetBytes(w) \in [1 .. 4 -> Byte] /\ 4 \in Nat
  <2> HIDE DEF Byte
  <2> QED  BY <1>2, <1>3
<1> QED  BY <1>4, FieldOfBytes

\* The addresses of the backends are whole words.
LEMMA AddressType ==
  ASSUME NEW b \in Nat
  PROVE  Bk(b) \in Seq(Byte) /\ Len(Bk(b)) % 4 = 0
<1>1. PICK m \in Nat \ {0} : m = WordMax
  BY ValueTypes
<1>2. PICK c \in Nat \ {0} : c = Base /\ Byte = 0 .. c - 1
  BY BaseType DEF Byte
<1>3. PICK d \in Nat : d = Values[3]
  BY ValueTypes
<1>4. 10 % c \in Nat /\ 253 % c \in 0 .. c - 1 /\ 0 \in 0 .. c - 1
  BY <1>2
<1>5. \A n \in Nat : Add(n, b) \in Word
  <2> SUFFICES ASSUME NEW n \in Nat PROVE (n + b) % m \in 0 .. m - 1
    BY <1>1 DEF Add, Word
  <2> QED OBVIOUS
<1>6. 4 % 4 = 0 /\ (12 + 4) % 4 = 0
  OBVIOUS
<1>7. CASE ~Ipv6
  <2>1. PICK n \in Nat : n = (10 % Base) * Values[3] + 1
    <3>1. PICK high \in Nat : high = 10 % Base
      BY <1>2, <1>4
    <3>2. high * d + 1 \in Nat
      OBVIOUS
    <3> QED  BY <1>3, <3>1, <3>2
  <2>2. Bk(b) = NetBytes(Add(n, b)) /\ Add(n, b) \in Word
    BY <1>5, <1>7, <2>1 DEF Bk, Bk4
  <2>3. Bk(b) \in Seq(Byte) /\ Len(Bk(b)) = 4
    BY <2>2, NetBytesType
  <2> QED  BY <1>6, <2>3
<1>8. CASE Ipv6
  <2>1. PICK k \in Seq(Byte) : k = NetBytes(Add(1, b)) /\ Len(k) = 4
    BY <1>5, NetBytesType
  <2>2. PICK h : h = <<253 % c, 0, 0, 0, 0, 0, 0, 0, 0, 0, 0, 0>>
    OBVIOUS
  <2>3. h \in Seq(Byte) /\ Len(h) = 12
    <3>1. PICK x \in Byte : x = 253 % c
      BY <1>2, <1>4
    <3>2. PICK o \in Byte : o = 0
      BY <1>2, <1>4
    <3>3. h = <<x, o, o, o, o, o, o, o, o, o, o, o>>
      BY <2>2, <3>1, <3>2
    <3> QED  BY <3>3
  <2>4. Bk(b) = h \o k
    BY <1>2, <1>8, <2>1, <2>2 DEF Bk, Bk6
  <2>5. h \o k \in Seq(Byte) /\ Len(h \o k) = 12 + 4
    <3>1. PICK n \in Nat : n = 12
      OBVIOUS
    <3>2. Len(h) = n /\ Len(k) = 4
      BY <2>1, <2>3, <3>1
    <3>3. h \o k \in Seq(Byte) /\ Len(h \o k) = n + 4
      BY <2>1, <2>3, <3>2, ConcatFour
    <3> QED  BY <3>1, <3>3
  <2>6. Bk(b) \in Seq(Byte) /\ Len(Bk(b)) = 12 + 4
    BY <2>4, <2>5
  <2> QED  BY <1>6, <2>6
<1> QED  BY <1>7, <1>8

(***************************************************************************)
(* The rows of a backend are generated from the same two hashes in both    *)
(* programs.                                                               *)
(***************************************************************************)
THEOREM SeedsAgree == \A b \in Nat : Seed(b) = SeedCpp(b)
<1> SUFFICES ASSUME NEW b \in Nat PROVE Seed(b) = SeedCpp(b)
  OBVIOUS
<1>1. PICK key \in Seq(Byte) : key = Bk(b) /\ Len(key) % 4 = 0
  BY AddressType
<1>2. ASSUME NEW behind \in Seq(Byte)
      PROVE  Jhash2Hashes(key, 0, 1) = Rte2Hashes(key, behind, 0, 1)
  <2>1. Readable(key, behind)
    BY <1>1 DEF Readable
  <2> QED  BY <2>1, SameHashes
<1> QED  BY <1>1, <1>2, NoBytes DEF Seed, SeedCpp, SeedOf, SeedOfCpp
-----------------------------------------------------------------------------
(***************************************************************************)
(* Transparency is inductive once it speaks of the slots as well: what is  *)
(* cached under a hash is the owner of that hash.                          *)
(***************************************************************************)
SlotsHoldOwners ==
  \A b \in Buckets : \A i \in Ids :
    slots[b][i].valid => slots[b][i].value = Owner[slots[b][i].key]

IInv ==
  /\ TypeOK
  /\ SlotsHoldOwners
  /\ Transparent
  /\ UsedFirst
  /\ OneSlotPerHash

LEMMA BucketType ==
  ASSUME NEW h \in Hashes
  PROVE  /\ Bucket[h] \in Buckets /\ Owner[h] \in Nat
         /\ Entry(h) \in [key : Hashes, value : Nat, valid : BOOLEAN]
  BY CacheAssumption DEF Entry

LEMMA VictimType ==
  ASSUME NEW b \in Buckets, last \in [Buckets -> Ids]
  PROVE  Victim(b) \in Ids
<1>1. last[b] \in Int /\ Ways \in Int /\ Ways > 0
  BY CacheAssumption DEF Ids
<1> QED
  BY <1>1 DEF Victim, Ids

LEMMA InitIInv == Init => IInv
<1> SUFFICES ASSUME Init PROVE IInv
  OBVIOUS
<1> USE CacheAssumption DEF Init
<1>1. \A b \in Buckets : \A i \in Ids : slots[b][i] = Empty
  OBVIOUS
<1>2. Empty \in [key : Hashes, value : Nat, valid : BOOLEAN] /\ ~Empty.valid
  BY DEF Empty
<1>3. 0 \in Ids
  BY DEF Ids
<1>4. TypeOK
  BY <1>2, <1>3 DEF TypeOK
<1>5. SlotsHoldOwners /\ UsedFirst /\ OneSlotPerHash
  BY <1>1, <1>2 DEF SlotsHoldOwners, UsedFirst, OneSlotPerHash
<1>6. Transparent
  BY DEF Transparent
<1> QED
  BY <1>4, <1>5, <1>6 DEF IInv

(***************************************************************************)
(* Writing a hash into a slot of its bucket keeps the invariant when the   *)
(* bucket does not hold the hash in another slot and has no unused slot    *)
(* below the one written.                                                  *)
(***************************************************************************)
LEMMA WriteIInv ==
  ASSUME IInv, NEW h \in Hashes, NEW i \in Ids,
         Write(Bucket[h], i, h), Return(h, Owner[h]),
         \A k \in Ids : slots[Bucket[h]][k].valid => slots[Bucket[h]][k].key # h,
         \A k \in Ids : k < i => slots[Bucket[h]][k].valid
  PROVE  IInv'
<1> DEFINE b == Bucket[h]
<1>1. b \in Buckets /\ TypeOK
  BY BucketType DEF IInv
<1>2. /\ slots'[b][i] = Entry(h)
      /\ \A c \in Buckets, k \in Ids :
           c # b \/ k # i => slots'[c][k] = slots[c][k]
  BY <1>1 DEF Write, TypeOK
<1>3. Entry(h).key = h /\ Entry(h).value = Owner[h] /\ Entry(h).valid
  BY DEF Entry
<1>4. TypeOK'
  BY <1>1, BucketType DEF TypeOK, Write, Return
<1>5. SlotsHoldOwners'
  BY <1>1, <1>2, <1>3 DEF IInv, SlotsHoldOwners
<1>6. Transparent'
  BY DEF Transparent, Return
<1>7. UsedFirst'
  BY <1>1, <1>2, <1>3 DEF IInv, UsedFirst, Ids
<1>8. OneSlotPerHash'
  BY <1>1, <1>2, <1>3 DEF IInv, OneSlotPerHash
<1> QED
  BY <1>4, <1>5, <1>6, <1>7, <1>8 DEF IInv

LEMMA NextIInv ==
  ASSUME IInv, [Next]_vars
  PROVE  IInv'
<1>1. ASSUME NEW h \in Hashes, PickFill(h)
      PROVE  IInv'
  <2>1. PICK i \in Ids : /\ StopAt(Bucket[h], h, i)
                         /\ ~slots[Bucket[h]][i].valid
                         /\ Write(Bucket[h], i, h)
                         /\ Return(h, Owner[h])
    BY <1>1 DEF PickFill
  <2>2. \A k \in Ids : k < i => /\ slots[Bucket[h]][k].valid
                                /\ slots[Bucket[h]][k].key # h
    BY <2>1 DEF StopAt, Stops
  <2>3. ASSUME NEW k \in Ids, i <= k
        PROVE  ~slots[Bucket[h]][k].valid
    BY <2>1, <2>3, BucketType DEF IInv, UsedFirst, Ids
  <2>4. \A k \in Ids :
          slots[Bucket[h]][k].valid => slots[Bucket[h]][k].key # h
    BY <2>2, <2>3 DEF Ids
  <2> QED
    BY <2>1, <2>2, <2>4, WriteIInv
<1>2. ASSUME NEW h \in Hashes, PickHit(h)
      PROVE  IInv'
  <2>1. PICK i \in Ids : /\ StopAt(Bucket[h], h, i)
                         /\ slots[Bucket[h]][i].valid
                         /\ Return(h, slots[Bucket[h]][i].value)
                         /\ UNCHANGED <<slots, last>>
    BY <1>2 DEF PickHit
  <2>2. slots[Bucket[h]][i].value = Owner[h]
    BY <2>1, BucketType DEF IInv, SlotsHoldOwners, StopAt, Stops
  <2>3. TypeOK' /\ Transparent'
    BY <2>1, <2>2, BucketType DEF IInv, TypeOK, Transparent, Return
  <2>4. SlotsHoldOwners' /\ UsedFirst' /\ OneSlotPerHash'
    BY <2>1 DEF IInv, SlotsHoldOwners, UsedFirst, OneSlotPerHash
  <2> QED
    BY <2>3, <2>4 DEF IInv
<1>3. ASSUME NEW h \in Hashes, PickEvict(h)
      PROVE  IInv'
  <2>1. Victim(Bucket[h]) \in Ids
    BY BucketType, VictimType DEF IInv, TypeOK
  <2>2. \A k \in Ids : slots[Bucket[h]][k].valid /\ slots[Bucket[h]][k].key # h
    BY <1>3 DEF PickEvict, Stops
  <2> QED
    BY <1>3, <2>1, <2>2, WriteIInv DEF PickEvict
<1>4. CASE UNCHANGED vars
  BY <1>4 DEF vars, IInv, TypeOK, SlotsHoldOwners, Transparent, UsedFirst,
              OneSlotPerHash
<1> QED
  BY <1>1, <1>2, <1>3, <1>4 DEF Next
-----------------------------------------------------------------------------
\* The inductive invariant holds: in particular TypeOK and UsedFirst of pick().
THEOREM CacheInvariant == Spec => []IInv
<1>1. Init => IInv
  BY InitIInv
<1>2. IInv /\ [Next]_vars => IInv'
  BY NextIInv
<1> QED
  BY <1>1, <1>2, PTL DEF Spec

(***************************************************************************)
(* pick() always returns the owner that populate() gave the hash: caching, *)
(* eviction and the zero key of an unused slot cannot be observed.         *)
(***************************************************************************)
THEOREM CacheIsTransparent == Spec => []Transparent
  BY CacheInvariant, PTL DEF IInv

(***************************************************************************)
(* No hash is cached twice, so a bucket of Ways slots remembers as many    *)
(* hashes as it has slots in use.                                          *)
(***************************************************************************)
THEOREM CacheHasNoDuplicates == Spec => []OneSlotPerHash
  BY CacheInvariant, PTL DEF IInv
-----------------------------------------------------------------------------
\* A bucket s whose last write went to slot l, as a queue; n slots are in use.
InUseOf(s)    == {i \in Ids : s[i].valid}
QueueOf(s, l) == [p \in 1 .. Cardinality(InUseOf(s)) |-> s[(l + p) % Cardinality(InUseOf(s))].key]
Queues        == [b \in Buckets |-> QueueOf(slots[b], last[b])]

SlotType == [key : Hashes, value : Nat, valid : BOOLEAN]

\* The slots are taken in order, and until all are the last one taken is the
\* last one written.
Filled(s, l, n) ==
  /\ n \in 0 .. Ways /\ s \in [Ids -> SlotType] /\ l \in Ids
  /\ \A i \in Ids : s[i].valid <=> i < n
  /\ n < Ways => l = IF n = 0 THEN 0 ELSE n - 1

\* Where the queue has its p-th member.
At(l, n, p) == IF l + p < n THEN l + p ELSE l + p - n

LEMMA AtIsModulo ==
  ASSUME NEW n \in Nat \ {0}, NEW l \in 0 .. n - 1, NEW p \in 1 .. n
  PROVE  (l + p) % n = At(l, n, p) /\ At(l, n, p) \in 0 .. n - 1
<1>1. PICK x \in Nat : x = l + p
  OBVIOUS
<1>2. PICK q \in Int, r \in Int : q = x \div n /\ r = x % n
  BY <1>1
<1>3. r \in 0 .. n - 1 /\ x = n * q + r
  BY <1>1, <1>2
<1>4. PICK m \in Int : m = n * q
  OBVIOUS
<1>5. q <= 0 => m <= 0
  BY <1>4
<1>6. q >= 2 => m >= 2 * n
  BY <1>4
<1>7. q = 0 => m = 0
  BY <1>4
<1>8. q = 1 => m = n
  BY <1>4
<1>9. q = 0 \/ q = 1
  <2>1. CASE q >= 2
    BY <1>1, <1>3, <1>4, <1>6, <2>1
  <2>2. CASE q < 0
    <3>1. m <= -n
      <4>1. PICK k \in Nat : k = -1 - q
        BY <2>2
      <4>2. m = -n - n * k /\ n * k \in Nat
        BY <1>4, <4>1
      <4> QED  BY <4>2
    <3> QED  BY <1>1, <1>3, <1>4, <3>1
  <2> QED  BY <2>1, <2>2
<1> QED  BY <1>1, <1>2, <1>3, <1>4, <1>7, <1>8, <1>9 DEF At

LEMMA FilledCount ==
  ASSUME NEW s, NEW l, NEW n, Filled(s, l, n)
  PROVE  /\ Cardinality(InUseOf(s)) = n /\ n \in Nat /\ Ways \in Nat \ {0}
         /\ n # 0 => l \in 0 .. n - 1
<1>1. n \in Nat /\ n <= Ways /\ Ways \in Nat \ {0} /\ l \in Ids
  BY CacheAssumption DEF Filled
<1>2. InUseOf(s) = 0 .. n - 1
  BY <1>1 DEF Filled, InUseOf, Ids
<1>3. Cardinality(0 .. n - 1) = n
  <2>1. 0 \in Int /\ n - 1 \in Int
    BY <1>1
  <2>2. Cardinality(0 .. n - 1) = IF 0 > n - 1 THEN 0 ELSE (n - 1) - 0 + 1
    BY <2>1, FS_Interval
  <2> QED  BY <1>1, <2>2
<1> QED  BY <1>1, <1>2, <1>3 DEF Filled, Ids

Enqueued(q, s, l, n) ==
  /\ q \in Seq(Hashes) /\ Len(q) = n
  /\ \A p \in 1 .. n : q[p] = s[At(l, n, p)].key

LEMMA QueueType ==
  ASSUME NEW s, NEW l, NEW n, Filled(s, l, n)
  PROVE  /\ Enqueued(QueueOf(s, l), s, l, n)
         /\ \A p \in 1 .. n : At(l, n, p) \in 0 .. n - 1
<1>1. n \in Nat /\ Ways \in Nat \ {0} /\ Cardinality(InUseOf(s)) = n
  BY FilledCount
<1>2. QueueOf(s, l) = [p \in 1 .. n |-> s[(l + p) % n].key]
  BY <1>1 DEF QueueOf
<1>3. \A p \in 1 .. n : (l + p) % n = At(l, n, p) /\ At(l, n, p) \in 0 .. n - 1
  <2> SUFFICES ASSUME NEW p \in 1 .. n
               PROVE  (l + p) % n = At(l, n, p) /\ At(l, n, p) \in 0 .. n - 1
    OBVIOUS
  <2>1. n \in Nat \ {0} /\ l \in 0 .. n - 1
    BY <1>1, FilledCount
  <2> QED  BY <2>1, AtIsModulo
<1>4. \A i \in 0 .. n - 1 : s[i].key \in Hashes
  BY <1>1 DEF Filled, SlotType, Ids
<1>5. \A p \in 1 .. n : s[(l + p) % n].key \in Hashes
  BY <1>3, <1>4
<1> QED  BY <1>1, <1>2, <1>3, <1>5 DEF Enqueued

\* The queue holds what the bucket does.
LEMMA QueueHolds ==
  ASSUME NEW s, NEW l, NEW n, Filled(s, l, n), NEW h
  PROVE  (\E p \in DOMAIN QueueOf(s, l) : QueueOf(s, l)[p] = h)
           <=> \E i \in Ids : s[i].valid /\ s[i].key = h
<1> DEFINE q == QueueOf(s, l)
<1>1. /\ n \in Nat /\ Ways \in Nat \ {0} /\ DOMAIN q = 1 .. n
      /\ \A p \in 1 .. n : q[p] = s[At(l, n, p)].key /\ At(l, n, p) \in 0 .. n - 1
  BY FilledCount, QueueType DEF Enqueued
<1>2. n <= Ways /\ \A i \in Ids : s[i].valid <=> i < n
  BY <1>1 DEF Filled
<1> HIDE DEF q
<1>3. ASSUME NEW p \in DOMAIN q, q[p] = h
      PROVE  \E i \in Ids : s[i].valid /\ s[i].key = h
  <2>1. PICK i \in 0 .. n - 1 : i = At(l, n, p) /\ q[p] = s[i].key
    BY <1>1, <1>3
  <2>2. i \in Ids /\ s[i].valid
    BY <1>1, <1>2, <2>1 DEF Ids
  <2> QED  BY <1>3, <2>1, <2>2
<1>4. ASSUME NEW i \in Ids, s[i].valid, s[i].key = h
      PROVE  \E p \in DOMAIN q : q[p] = h
  <2>1. i \in 0 .. n - 1 /\ l \in 0 .. n - 1
    BY <1>1, <1>2, <1>4, FilledCount DEF Ids
  <2>2. PICK p \in Int : p = IF i > l THEN i - l ELSE i - l + n
    BY <1>1, <2>1
  <2>3. p \in 1 .. n
    BY <1>1, <2>1, <2>2
  <2>4. At(l, n, p) = i
    BY <1>1, <2>1, <2>2 DEF At
  <2> QED  BY <1>1, <1>4, <2>3, <2>4
<1> QED  BY <1>3, <1>4 DEF q

LEMMA SameQueues ==
  ASSUME NEW S, NEW q \in Seq(S), NEW r \in Seq(S), Len(q) = Len(r),
         \A p \in 1 .. Len(q) : q[p] = r[p]
  PROVE  q = r
OBVIOUS

\* A write into a slot not in use yet puts a hash at the end of the queue.
LEMMA FillAppends ==
  ASSUME NEW s, NEW l, NEW n, Filled(s, l, n), n < Ways, NEW h \in Hashes,
         NEW u, u = [s EXCEPT ![n] = Entry(h)]
  PROVE  Filled(u, n, n + 1) /\ QueueOf(u, n) = Append(QueueOf(s, l), h)
<1>1. /\ n \in Nat /\ Ways \in Nat \ {0} /\ n \in Ids
      /\ s \in [Ids -> SlotType]
      /\ l = IF n = 0 THEN 0 ELSE n - 1
      /\ \A i \in Ids : s[i].valid <=> i < n
  <2>1. n \in Nat /\ Ways \in Nat \ {0}
    BY FilledCount
  <2> QED  BY <2>1 DEF Filled, Ids
<1>2. Entry(h) \in SlotType /\ Entry(h).valid /\ Entry(h).key = h
  BY BucketType DEF Entry, SlotType
<1>3. u \in [Ids -> SlotType] /\ \A i \in Ids : u[i] = IF i = n THEN Entry(h) ELSE s[i]
  BY <1>1, <1>2
<1>4. \A i \in Ids : u[i].valid <=> i < n + 1
  <2> SUFFICES ASSUME NEW i \in Ids PROVE u[i].valid <=> i < n + 1
    OBVIOUS
  <2>1. i \in Nat
    BY DEF Ids
  <2> QED  BY <1>1, <1>2, <1>3, <2>1
<1>5. Filled(u, n, n + 1)
  BY <1>1, <1>3, <1>4 DEF Filled, Ids
<1>6. PICK q : q = QueueOf(s, l) /\ Enqueued(q, s, l, n)
  BY QueueType
<1>7. PICK r : r = QueueOf(u, n) /\ Enqueued(r, u, n, n + 1)
  BY <1>5, QueueType
<1>8. ASSUME NEW p \in 1 .. n
      PROVE  r[p] = q[p]
  <2>1. At(l, n, p) = p - 1 /\ At(n, n + 1, p) = p - 1
    BY <1>1 DEF At
  <2>2. p - 1 \in Ids /\ p - 1 # n /\ p \in 1 .. n + 1
    BY <1>1 DEF Ids
  <2>3. r[p] = u[p - 1].key
    BY <1>7, <2>1, <2>2 DEF Enqueued
  <2>4. q[p] = s[p - 1].key
    BY <1>6, <2>1 DEF Enqueued
  <2>5. u[p - 1] = s[p - 1]
    BY <1>3, <2>2
  <2> QED  BY <2>3, <2>4, <2>5
<1>9. r[n + 1] = h
  <2>1. At(n, n + 1, n + 1) = n /\ n + 1 \in 1 .. n + 1
    BY <1>1 DEF At
  <2>2. r[n + 1] = u[n].key
    BY <1>7, <2>1 DEF Enqueued
  <2>3. u[n] = Entry(h)
    BY <1>1, <1>3
  <2> QED  BY <1>2, <2>2, <2>3
<1>10. /\ Append(q, h) \in Seq(Hashes) /\ Len(Append(q, h)) = n + 1
       /\ \A p \in 1 .. n + 1 : Append(q, h)[p] = IF p = n + 1 THEN h ELSE q[p]
  <2>1. q \in Seq(Hashes) /\ Len(q) = n
    BY <1>6 DEF Enqueued
  <2> QED  BY <2>1
<1>11. r = Append(q, h)
  <2>1. r \in Seq(Hashes) /\ Len(r) = n + 1 /\ r[n + 1] = h /\ \A p \in 1 .. n : r[p] = q[p]
    BY <1>7, <1>8, <1>9 DEF Enqueued
  <2>2. \A p \in 1 .. n + 1 : r[p] = Append(q, h)[p]
    BY <1>1, <1>10, <2>1
  <2> QED  BY <1>10, <2>1, <2>2, SameQueues
<1> QED  BY <1>5, <1>6, <1>7, <1>11

Follows(v, l)       == v = (l + 1) % Ways
Written(u, s, v, h) == u = [s EXCEPT ![v] = Entry(h)]

\* A write into the slot after the last one, once all are in use, takes the
\* head out of the queue.
LEMMA EvictRotates ==
  ASSUME NEW s, NEW l, Filled(s, l, Ways), NEW h \in Hashes,
         NEW v, Follows(v, l), NEW u, Written(u, s, v, h)
  PROVE  Filled(u, v, Ways) /\ QueueOf(u, v) = Append(Tail(QueueOf(s, l)), h)
<1>1. /\ Ways \in Nat \ {0} /\ l \in 0 .. Ways - 1 /\ s \in [Ids -> SlotType]
      /\ \A i \in Ids : s[i].valid <=> i < Ways
  <2>1. Ways \in Nat \ {0}
    BY CacheAssumption
  <2> QED  BY <2>1 DEF Filled, Ids
<1>2. v \in Ids /\ v = IF l + 1 < Ways THEN l + 1 ELSE 0
  <2>1. 1 \in 1 .. Ways
    BY <1>1
  <2>2. v = At(l, Ways, 1) /\ At(l, Ways, 1) \in 0 .. Ways - 1
    BY <1>1, <2>1, AtIsModulo DEF Follows
  <2>3. At(l, Ways, 1) = IF l + 1 < Ways THEN l + 1 ELSE 0
    BY <1>1 DEF At
  <2> QED  BY <2>2, <2>3 DEF Ids
<1>3. Entry(h) \in SlotType /\ Entry(h).valid /\ Entry(h).key = h
  BY BucketType DEF Entry, SlotType
<1>4. u \in [Ids -> SlotType] /\ \A i \in Ids : u[i] = IF i = v THEN Entry(h) ELSE s[i]
  BY <1>1, <1>2, <1>3 DEF Written
<1>5. Filled(u, v, Ways)
  <2>1. \A i \in Ids : u[i].valid <=> i < Ways
    BY <1>1, <1>3, <1>4 DEF Ids
  <2> QED  BY <1>1, <1>2, <1>4, <2>1 DEF Filled
<1>6. PICK q : q = QueueOf(s, l) /\ Enqueued(q, s, l, Ways)
  BY QueueType
<1>7. PICK r : r = QueueOf(u, v) /\ Enqueued(r, u, v, Ways)
  BY <1>5, QueueType
<1>8. ASSUME NEW p \in 1 .. Ways - 1
      PROVE  r[p] = q[p + 1]
  <2>1. p \in 1 .. Ways /\ p + 1 \in 1 .. Ways
    BY <1>1
  <2>2. v \in Int /\ p \in Int /\ Ways \in Int
    BY <1>1, <1>2 DEF Ids
  <2>3. PICK i \in Int : i = IF v + p < Ways THEN v + p ELSE v + p - Ways
    BY <2>2
  <2>4. i \in Ids /\ i = At(v, Ways, p) /\ i = At(l, Ways, p + 1) /\ i # v
    BY <1>1, <1>2, <2>3 DEF At, Ids
  <2>5. r[p] = u[i].key
    BY <1>7, <2>1, <2>4 DEF Enqueued
  <2>6. q[p + 1] = s[i].key
    BY <1>6, <2>1, <2>4 DEF Enqueued
  <2>7. u[i] = s[i]
    BY <1>4, <2>4
  <2> QED  BY <2>5, <2>6, <2>7
<1>9. r[Ways] = h
  <2>1. At(v, Ways, Ways) = v /\ Ways \in 1 .. Ways
    BY <1>1, <1>2 DEF At, Ids
  <2>2. r[Ways] = u[v].key
    BY <1>7, <2>1 DEF Enqueued
  <2> QED  BY <1>2, <1>3, <1>4, <2>2
<1>10. /\ Tail(q) \in Seq(Hashes) /\ Len(Tail(q)) = Ways - 1
       /\ \A p \in 1 .. Ways - 1 : Tail(q)[p] = q[p + 1]
  BY <1>1, <1>6 DEF Enqueued
<1>11. PICK rest \in Seq(Hashes) : rest = Tail(q)
  BY <1>10
<1>12. /\ Append(rest, h) \in Seq(Hashes) /\ Len(Append(rest, h)) = Ways
       /\ \A p \in 1 .. Ways : Append(rest, h)[p] = IF p = Ways THEN h ELSE rest[p]
  BY <1>1, <1>10, <1>11
<1>13. r = Append(rest, h)
  <2>1. r \in Seq(Hashes) /\ Len(r) = Ways /\ r[Ways] = h
        /\ \A p \in 1 .. Ways - 1 : r[p] = q[p + 1]
    BY <1>7, <1>8, <1>9 DEF Enqueued
  <2>2. \A p \in 1 .. Ways : r[p] = Append(rest, h)[p]
    BY <1>1, <1>10, <1>11, <1>12, <2>1
  <2> QED  BY <1>12, <2>1, <2>2, SameQueues
<1> QED  BY <1>5, <1>6, <1>7, <1>11, <1>13
-----------------------------------------------------------------------------
\* At any time the buckets are filled in order.
FilledInOrder == \A b \in Buckets : \E n \in 0 .. Ways : Filled(slots[b], last[b], n)

\* What a write does to the queues, when the bucket does not hold the hash.
WriteKinds(b, i, n) ==
  \/ n < Ways /\ i = n
  \/ n = Ways /\ i = Victim(b)

LEMMA WriteEnters ==
  ASSUME TypeOK, FilledInOrder, NEW h \in Hashes, NEW b \in Buckets, b = Bucket[h],
         NEW i \in Ids, Write(b, i, h),
         NEW n, Filled(slots[b], last[b], n), WriteKinds(b, i, n)
  PROVE  /\ FilledInOrder'
         /\ Queues' = [Queues EXCEPT ![b] = Fifo!Entered(@, h)]
<1>1. PICK s, l : s = slots[b] /\ l = last[b] /\ Filled(s, l, n)
  OBVIOUS
<1>2. PICK u : u = [s EXCEPT ![i] = Entry(h)]
  OBVIOUS
<1>3. /\ slots'[b] = u /\ last'[b] = i
      /\ \A c \in Buckets \ {b} : slots'[c] = slots[c] /\ last'[c] = last[c]
  BY <1>1, <1>2 DEF TypeOK, Write
<1>4. PICK m \in 0 .. Ways :
        /\ Filled(u, i, m)
        /\ QueueOf(u, i) = Fifo!Entered(QueueOf(s, l), h)
  <2>1. n \in Nat /\ Ways \in Nat \ {0} /\ Len(QueueOf(s, l)) = n
    BY <1>1, FilledCount, QueueType DEF Enqueued
  <2>2. CASE n < Ways /\ i = n
    <3>1. Filled(u, n, n + 1) /\ QueueOf(u, n) = Append(QueueOf(s, l), h)
      BY <1>1, <1>2, <2>2, FillAppends
    <3>2. n + 1 \in 0 .. Ways /\ n # Ways
      BY <2>1, <2>2
    <3> QED  BY <2>1, <2>2, <3>1, <3>2 DEF Fifo!Entered
  <2>3. CASE n = Ways /\ i = Victim(b)
    <3>1. PICK v : Follows(v, l) /\ v = i /\ Filled(s, l, Ways)
      BY <1>1, <2>3 DEF Victim, Follows
    <3>2. Written(u, s, v, h)
      BY <1>2, <3>1 DEF Written
    <3>3. Filled(u, v, Ways) /\ QueueOf(u, v) = Append(Tail(QueueOf(s, l)), h)
      BY <3>1, <3>2, EvictRotates
    <3>4. Ways \in 0 .. Ways
      BY <2>1
    <3> QED  BY <2>1, <2>3, <3>1, <3>3, <3>4 DEF Fifo!Entered
  <2> QED  BY <2>2, <2>3 DEF WriteKinds
<1>5. FilledInOrder'
  <2> SUFFICES ASSUME NEW c \in Buckets
               PROVE  \E k \in 0 .. Ways : Filled(slots'[c], last'[c], k)
    BY DEF FilledInOrder
  <2>1. CASE c = b
    BY <1>3, <1>4, <2>1
  <2>2. CASE c # b
    BY <1>3, <2>2 DEF FilledInOrder
  <2> QED  BY <2>1, <2>2
<1>6. Queues' = [Queues EXCEPT ![b] = Fifo!Entered(@, h)]
  <2>1. PICK old : old = Queues
    OBVIOUS
  <2>2. PICK new : new = Queues'
    OBVIOUS
  <2>3. new = [c \in Buckets |-> QueueOf(slots'[c], last'[c])]
    BY <2>2 DEF Queues
  <2>4. old = [c \in Buckets |-> QueueOf(slots[c], last[c])]
    BY <2>1 DEF Queues
  <2>5. new[b] = Fifo!Entered(old[b], h)
    BY <1>1, <1>3, <1>4, <2>3, <2>4
  <2>6. \A c \in Buckets \ {b} : new[c] = old[c]
    BY <1>3, <2>3, <2>4
  <2>7. new = [old EXCEPT ![b] = Fifo!Entered(@, h)]
    BY <2>3, <2>4, <2>5, <2>6
  <2> QED  BY <2>1, <2>2, <2>7
<1> QED  BY <1>5, <1>6

\* Queues is the state of the abstract cache.
LEMMA FifoState ==
  /\ Fifo!Init <=> /\ Queues = [b \in Buckets |-> << >>]
                   /\ asked = {} /\ answer \in {Owner[h] : h \in Hashes}
  /\ \A h : Fifo!Cached(h) <=>
              \E p \in DOMAIN Queues[Bucket[h]] : Queues[Bucket[h]][p] = h
  /\ \A h : Fifo!Pick(h) <=>
              /\ Queues' = IF Fifo!Cached(h) THEN Queues
                           ELSE [Queues EXCEPT ![Bucket[h]] = Fifo!Entered(@, h)]
              /\ asked' = {h} /\ answer' = Owner[h]
BY DEF Fifo!Init, Fifo!Cached, Fifo!Pick, Queues, QueueOf, InUseOf, Used

\* Until it is full, a bucket has its first slot not in use after all others.
LEMMA FirstUnused ==
  ASSUME NEW s, NEW l, NEW n, Filled(s, l, n), NEW i \in Ids,
         ~s[i].valid, \A k \in Ids : k < i => s[k].valid
  PROVE  i = n /\ n < Ways
<1>1. n \in Nat /\ Ways \in Nat \ {0} /\ i \in Nat /\ i < Ways
  BY FilledCount DEF Ids
<1>2. n <= i /\ \A k \in Ids : k < i => k < n
  BY <1>1 DEF Filled
<1>3. CASE n < i
  <2>1. n \in Ids
    BY <1>1, <1>3 DEF Ids
  <2> QED  BY <1>1, <1>2, <1>3, <2>1
<1> QED  BY <1>1, <1>2, <1>3

(***************************************************************************)
(* pick() of the native cache is a first-in first-out cache of Ways hashes *)
(* for every bucket: every call is a call of FlowFifo, with its hit or its *)
(* miss, its victim and its answer.                                        *)
(***************************************************************************)
THEOREM CacheIsFifo == Spec => ImplementsFifo
<1>1. Init => FilledInOrder /\ Fifo!Init
  <2> SUFFICES ASSUME Init PROVE FilledInOrder /\ Fifo!Init
    OBVIOUS
  <2>1. ASSUME NEW b \in Buckets
        PROVE  Filled(slots[b], last[b], 0)
    <3>1. Ways \in Nat \ {0} /\ 0 \in Hashes
      BY CacheAssumption
    <3> QED  BY <3>1 DEF Init, Filled, SlotType, Empty, Ids
  <2>2. FilledInOrder
    <3>1. 0 \in 0 .. Ways
      BY CacheAssumption
    <3> QED  BY <2>1, <3>1 DEF FilledInOrder
  <2>3. \A b \in Buckets : QueueOf(slots[b], last[b]) = << >>
    <3> SUFFICES ASSUME NEW b \in Buckets PROVE QueueOf(slots[b], last[b]) = << >>
      OBVIOUS
    <3>1. PICK q : q = QueueOf(slots[b], last[b]) /\ q \in Seq(Hashes) /\ Len(q) = 0
      BY <2>1, QueueType DEF Enqueued
    <3> QED  BY <3>1
  <2>4. Queues = [b \in Buckets |-> << >>]
    BY <2>3 DEF Queues
  <2> QED  BY <2>2, <2>4, FifoState DEF Init
<1>2. ASSUME IInv, FilledInOrder, [Next]_vars
      PROVE  FilledInOrder' /\ [Fifo!Next]_<<Queues, asked, answer>>
  <2> SUFFICES ASSUME Next PROVE FilledInOrder' /\ Fifo!Next
    <3>1. CASE UNCHANGED vars
      BY <1>2, <3>1 DEF FilledInOrder, vars, Queues
    <3> QED  BY <1>2, <3>1
  <2>1. PICK h \in Hashes : PickFill(h) \/ PickHit(h) \/ PickEvict(h)
    BY DEF Next
  <2>2. PICK b \in Buckets : b = Bucket[h]
    BY BucketType
  <2>3. PICK n \in 0 .. Ways : Filled(slots[b], last[b], n)
    BY <1>2 DEF FilledInOrder
  <2>4. PICK q : /\ q = Queues[b]
                 /\ (\E p \in DOMAIN q : q[p] = h) <=> \E i \in Ids : slots[b][i].valid /\ slots[b][i].key = h
    BY <2>3, QueueHolds DEF Queues
  <2>5. Fifo!Cached(h) <=> \E i \in Ids : slots[b][i].valid /\ slots[b][i].key = h
    BY <2>2, <2>4, FifoState
  <2>6. ASSUME NEW i \in Ids, Write(b, i, h), WriteKinds(b, i, n), Return(h, Owner[h]),
               \A k \in Ids : slots[b][k].valid => slots[b][k].key # h
        PROVE  FilledInOrder' /\ Fifo!Pick(h)
    <3>1. ~Fifo!Cached(h)
      BY <2>5, <2>6
    <3>2. /\ FilledInOrder'
          /\ Queues' = [Queues EXCEPT ![b] = Fifo!Entered(@, h)]
      BY <1>2, <2>2, <2>3, <2>6, WriteEnters DEF IInv
    <3> QED  BY <2>2, <2>6, <3>1, <3>2, FifoState DEF Return
  <2>7. CASE PickFill(h)
    <3>1. PICK i \in Ids : /\ StopAt(b, h, i) /\ ~slots[b][i].valid
                           /\ Write(b, i, h) /\ Return(h, Owner[h])
      BY <2>2, <2>7 DEF PickFill
    <3>2. \A k \in Ids : k < i => slots[b][k].valid /\ slots[b][k].key # h
      BY <3>1 DEF StopAt, Stops
    <3>3. i = n /\ n < Ways
      BY <2>3, <3>1, <3>2, FirstUnused
    <3>4. \A k \in Ids : slots[b][k].valid => slots[b][k].key # h
      BY <2>3, <3>2, <3>3 DEF Filled
    <3> QED  BY <2>6, <3>1, <3>3, <3>4 DEF Fifo!Next, WriteKinds
  <2>8. CASE PickEvict(h)
    <3>1. /\ \A k \in Ids : slots[b][k].valid /\ slots[b][k].key # h
          /\ Write(b, Victim(b), h) /\ Return(h, Owner[h])
      BY <2>2, <2>8 DEF PickEvict, Stops
    <3>2. n = Ways
      <4>1. Ways \in Nat \ {0} /\ Ways - 1 \in Ids
        BY CacheAssumption DEF Ids
      <4>2. Ways - 1 < n
        BY <2>3, <3>1, <4>1 DEF Filled
      <4> QED  BY <4>1, <4>2
    <3>3. Victim(b) \in Ids
      BY <1>2, VictimType DEF IInv, TypeOK
    <3> QED  BY <2>6, <3>1, <3>2, <3>3 DEF Fifo!Next, WriteKinds
  <2>9. CASE PickHit(h)
    <3>1. PICK i \in Ids : /\ StopAt(b, h, i) /\ slots[b][i].valid
                           /\ Return(h, slots[b][i].value) /\ UNCHANGED <<slots, last>>
      BY <2>2, <2>9 DEF PickHit
    <3>2. slots[b][i].key = h
      BY <3>1 DEF StopAt, Stops
    <3>3. slots[b][i].value = Owner[h]
      BY <1>2, <3>1, <3>2 DEF IInv, SlotsHoldOwners
    <3>4. Fifo!Cached(h)
      BY <2>5, <3>1, <3>2
    <3>5. Queues' = Queues /\ FilledInOrder'
      BY <1>2, <3>1 DEF Queues, FilledInOrder
    <3>6. Fifo!Pick(h)
      BY <3>1, <3>3, <3>4, <3>5, FifoState DEF Return
    <3> QED  BY <3>5, <3>6 DEF Fifo!Next
  <2> QED  BY <2>1, <2>7, <2>8, <2>9
<1>3. Fifo!Spec <=> Fifo!Init /\ [][Fifo!Next]_<<Queues, asked, answer>>
  BY DEF Fifo!Spec, Queues, QueueOf, InUseOf, Used
<1> QED  BY <1>1, <1>2, <1>3, CacheInvariant, PTL DEF Spec, ImplementsFifo
-----------------------------------------------------------------------------
\* The state of the native cache that a state of the intrusive one stands for.
NSlots == [b \in Buckets |-> [i \in Cpp!Ids |->
            [key |-> t[b][i].key, value |-> t[b][i].value, valid |-> Cpp!InUse(b, i)]]]
NLast  == [b \in Buckets |-> Cpp!LastPut(b)]

LEMMA CppConstants ==
  /\ 0 \in Cpp!Ids
  /\ \A h \in Hashes : Bucket[h] \in Buckets /\ OwnerCpp[h] \in Nat
  BY CacheAssumption, NfAssumption DEF Cpp!Ids

LEMMA EvictedType ==
  ASSUME Cpp!TypeOK, NEW b \in Buckets
  PROVE  Cpp!Evicted(b) \in Cpp!Ids
<1>1. t[b][0].is_entry \in Nat
  BY CppConstants, CacheAssumption, NfAssumption DEF Cpp!TypeOK
<1>2. Cpp!LastPut(b) \in Int
  BY <1>1 DEF Cpp!LastPut
<1> QED
  BY <1>2, CacheAssumption, NfAssumption DEF Cpp!Evicted, Cpp!Ids

\* What a write does to every entry of the table.
LEMMA PutEffect ==
  ASSUME Cpp!TypeOK, NEW h \in Hashes, NEW i \in Cpp!Ids, Cpp!Put(Bucket[h], i, h)
  PROVE  /\ t' \in [Buckets -> [Cpp!Ids -> [is_entry : 0 .. 2 * Ways - 1,
                                        value : Nat, key : Hashes]]]
         /\ \A c \in Buckets \ {Bucket[h]} : t'[c] = t[c]
         /\ \A k \in Cpp!Ids :
              /\ t'[Bucket[h]][k].key = IF k = i THEN h ELSE t[Bucket[h]][k].key
              /\ t'[Bucket[h]][k].value = IF k = i THEN OwnerCpp[h]
                                          ELSE t[Bucket[h]][k].value
              /\ t'[Bucket[h]][k].is_entry =
                   IF k = 0 THEN 2 * i + 1
                   ELSE IF k = i THEN 1 ELSE t[Bucket[h]][k].is_entry
<1> DEFINE R == [is_entry : 0 .. 2 * Ways - 1, value : Nat, key : Hashes]
           b == Bucket[h]
           e == [t[b] EXCEPT ![i] = Cpp!Entry(h)]
           m == [e EXCEPT ![0].is_entry = 2 * i + 1]
<1>1. b \in Buckets /\ t[b] \in [Cpp!Ids -> R]
  BY CppConstants DEF Cpp!TypeOK
<1>2. Cpp!Entry(h) \in R /\ 2 * i + 1 \in 0 .. 2 * Ways - 1
  BY CppConstants, CacheAssumption, NfAssumption DEF Cpp!Entry, Cpp!Ids
<1>3. e \in [Cpp!Ids -> R]
  BY <1>1, <1>2
<1>4. m \in [Cpp!Ids -> R]
  BY <1>2, <1>3
<1>5. t' = [t EXCEPT ![b] = m]
  BY DEF Cpp!Put, Cpp!Mark
<1>6. \A k \in Cpp!Ids : e[k] = IF k = i THEN Cpp!Entry(h) ELSE t[b][k]
  BY <1>1
<1>7. \A k \in Cpp!Ids : /\ m[k].key = e[k].key
                     /\ m[k].value = e[k].value
                     /\ m[k].is_entry = IF k = 0 THEN 2 * i + 1 ELSE e[k].is_entry
  BY <1>3, CppConstants
<1>8. t'[b] = m
  BY <1>1, <1>5 DEF Cpp!TypeOK
<1>9. \A k \in Cpp!Ids :
        /\ t'[b][k].key = IF k = i THEN h ELSE t[b][k].key
        /\ t'[b][k].value = IF k = i THEN OwnerCpp[h] ELSE t[b][k].value
        /\ t'[b][k].is_entry = IF k = 0 THEN 2 * i + 1
                               ELSE IF k = i THEN 1 ELSE t[b][k].is_entry
  <2> HIDE DEF e, m
  <2> QED
    BY <1>6, <1>7, <1>8 DEF Cpp!Entry
<1>10. t' \in [Buckets -> [Cpp!Ids -> R]] /\ \A c \in Buckets \ {b} : t'[c] = t[c]
  <2> HIDE DEF m
  <2> QED
    BY <1>1, <1>4, <1>5 DEF Cpp!TypeOK
<1> QED
  BY <1>9, <1>10

\* A write is a write of the native cache, when the slots below are in use.
LEMMA PutImplementsWrite ==
  ASSUME Cpp!TypeOK, NEW h \in Hashes, NEW i \in Cpp!Ids, Cpp!Put(Bucket[h], i, h),
         \A k \in Cpp!Ids : k < i => Cpp!InUse(Bucket[h], k)
  PROVE  Cpp!Native!Write(Bucket[h], i, h)
<1> DEFINE b == Bucket[h]
<1>1. b \in Buckets /\ 0 \in Cpp!Ids /\ i \in Nat
  BY CppConstants DEF Cpp!Ids
<1>2. \A c \in Buckets \ {b} : /\ Cpp!LastPut(c)' = Cpp!LastPut(c)
                               /\ \A k \in Cpp!Ids : Cpp!InUse(c, k)' = Cpp!InUse(c, k)
  BY PutEffect DEF Cpp!LastPut, Cpp!InUse
<1>3. Cpp!LastPut(b)' = i
  <2>1. t'[b][0].is_entry = 2 * i + 1
    BY <1>1, PutEffect
  <2> QED
    BY <1>1, <2>1 DEF Cpp!LastPut
<1>4. \A k \in Cpp!Ids : Cpp!InUse(b, k)' = (k = i \/ Cpp!InUse(b, k))
  <2> SUFFICES ASSUME NEW k \in Cpp!Ids
               PROVE  Cpp!InUse(b, k)' <=> (k = i \/ Cpp!InUse(b, k))
    BY DEF Cpp!InUse
  <2>1. t'[b][k].is_entry = IF k = 0 THEN 2 * i + 1
                            ELSE IF k = i THEN 1 ELSE t[b][k].is_entry
    BY PutEffect
  <2>2. k = 0 => k = i \/ Cpp!InUse(b, k)
    BY <1>1
  <2> QED
    BY <1>1, <2>1, <2>2 DEF Cpp!InUse
<1>5. NSlots' = [NSlots EXCEPT ![b][i] = Cpp!Native!Entry(h)]
  <2>1. ASSUME NEW c \in Buckets, NEW k \in Cpp!Ids
        PROVE  NSlots'[c][k] = [NSlots EXCEPT ![b][i] = Cpp!Native!Entry(h)][c][k]
    <3>1. CASE c # b
      <4>1. t'[c] = t[c]
        BY <3>1, PutEffect
      <4>2. NSlots'[c][k] = NSlots[c][k]
        BY <4>1 DEF NSlots, Cpp!InUse
      <4> QED
        BY <1>1, <3>1, <4>2 DEF NSlots
    <3>2. CASE c = b /\ k # i
      <4>1. t'[b][k].key = t[b][k].key /\ t'[b][k].value = t[b][k].value
        BY <3>2, PutEffect
      <4>2. Cpp!InUse(b, k)' = Cpp!InUse(b, k)
        <5>1. Cpp!InUse(b, k)' <=> Cpp!InUse(b, k)
          BY <1>4, <3>2
        <5> QED
          BY <5>1 DEF Cpp!InUse
      <4>3. NSlots'[b][k] = NSlots[b][k]
        BY <1>1, <4>1, <4>2 DEF NSlots
      <4> QED
        BY <1>1, <3>2, <4>3 DEF NSlots
    <3>3. CASE c = b /\ k = i
      BY <1>1, <1>4, <3>3, PutEffect DEF NSlots, Cpp!Native!Entry
    <3> QED
      BY <3>1, <3>2, <3>3
  <2> PICK new : new = NSlots'
    OBVIOUS
  <2>2. new = [c \in Buckets |-> [k \in Cpp!Ids |-> new[c][k]]]
    BY DEF NSlots
  <2>3. PICK next : next = [NSlots EXCEPT ![b][i] = Cpp!Native!Entry(h)]
    OBVIOUS
  <2>4. next = [c \in Buckets |-> [k \in Cpp!Ids |-> next[c][k]]]
    BY <1>1, <2>3 DEF NSlots
  <2>5. ASSUME NEW c \in Buckets, NEW k \in Cpp!Ids
        PROVE  new[c][k] = next[c][k]
    <3>1. new[c][k] = [NSlots EXCEPT ![b][i] = Cpp!Native!Entry(h)][c][k]
      BY <2>1
    <3> QED
      BY <2>3, <3>1
  <2>6. new = next
    BY <2>2, <2>4, <2>5
  <2> QED
    BY <2>3, <2>6
<1>6. NLast' = [NLast EXCEPT ![b] = i]
  BY <1>1, <1>2, <1>3 DEF NLast
<1> QED
  BY <1>5, <1>6 DEF NSlots, NLast, Cpp!Native!Write

LEMMA StopsMaps ==
  ASSUME NEW b \in Buckets, NEW i \in Cpp!Ids, NEW h
  PROVE  /\ Cpp!Native!Stops(NSlots[b][i], h) <=> Cpp!Stops(b, i, h)
         /\ NSlots[b][i].valid <=> Cpp!InUse(b, i)
         /\ NSlots[b][i].value = t[b][i].value
  BY DEF NSlots, Cpp!Native!Stops, Cpp!Stops, Cpp!InUse
-----------------------------------------------------------------------------
\* pick() keeps every entry in its type, the intrusive is_entry included.
LEMMA CppTypeInvariant == Cpp!Spec => []Cpp!TypeOK
<1>1. Cpp!Init => Cpp!TypeOK
  BY CacheAssumption, NfAssumption DEF Cpp!Init, Cpp!TypeOK, Cpp!Ids
<1>2. ASSUME Cpp!TypeOK, [Cpp!Next]_(Cpp!vars)
      PROVE  Cpp!TypeOK'
  <2>1. ASSUME NEW h \in Hashes, Cpp!PickFill(h)
        PROVE  Cpp!TypeOK'
    BY <1>2, <2>1, PutEffect, CppConstants DEF Cpp!PickFill, Cpp!TypeOK, Cpp!Return
  <2>2. ASSUME NEW h \in Hashes, Cpp!PickHit(h)
        PROVE  Cpp!TypeOK'
    BY <1>2, <2>2, CppConstants DEF Cpp!PickHit, Cpp!TypeOK, Cpp!Return
  <2>3. ASSUME NEW h \in Hashes, Cpp!PickEvict(h)
        PROVE  Cpp!TypeOK'
    <3>1. Cpp!Evicted(Bucket[h]) \in Cpp!Ids
      BY <1>2, CppConstants, EvictedType
    <3> QED
      BY <1>2, <2>3, <3>1, PutEffect, CppConstants DEF Cpp!PickEvict, Cpp!TypeOK, Cpp!Return
  <2>4. CASE UNCHANGED Cpp!vars
    BY <1>2, <2>4 DEF Cpp!TypeOK, Cpp!vars
  <2> QED
    BY <1>2, <2>1, <2>2, <2>3, <2>4 DEF Cpp!Next
<1> QED
  BY <1>1, <1>2, PTL DEF Cpp!Spec

(***************************************************************************)
(* "Identical results": every call of the C++ pick() is a call of the Rust *)
(* pick() on the corresponding cache, with the same hit, the same victim   *)
(* and the same answer.                                                    *)
(***************************************************************************)
THEOREM FbkImplementsNative == Cpp!Spec => Cpp!ImplementsNative
<1>1. Cpp!Init => Cpp!Native!Init
  <2> SUFFICES ASSUME Cpp!Init PROVE Cpp!Native!Init
    OBVIOUS
  <2>1. \A b \in Buckets : ~Cpp!InUse(b, 0) /\ Cpp!LastPut(b) = 0
    BY CppConstants DEF Cpp!Init, Cpp!InUse, Cpp!LastPut
  <2>2. \A b \in Buckets, i \in Cpp!Ids : Cpp!InUse(b, i) = FALSE
    BY DEF Cpp!Init, Cpp!InUse
  <2>3. NSlots = [b \in Buckets |-> [i \in Cpp!Native!Ids |-> Cpp!Native!Empty]]
    BY <2>2 DEF Cpp!Init, NSlots, Cpp!Native!Ids, Cpp!Native!Empty, Cpp!Ids
  <2>4. NLast = [b \in Buckets |-> 0]
    BY <2>1 DEF NLast
  <2> QED
    BY <2>3, <2>4 DEF Cpp!Native!Init, NSlots, NLast, Cpp!Init
<1>2. ASSUME Cpp!TypeOK, [Cpp!Next]_(Cpp!vars)
      PROVE  [Cpp!Native!Next]_(Cpp!Native!vars)
  <2>1. ASSUME NEW h \in Hashes, Cpp!PickFill(h)
        PROVE  Cpp!Native!PickFill(h)
    <3>1. PICK i \in Cpp!Ids : /\ Cpp!FirstStop(Bucket[h], i, h)
                           /\ ~Cpp!InUse(Bucket[h], i)
                           /\ Cpp!Put(Bucket[h], i, h)
                           /\ Cpp!Return(h, OwnerCpp[h])
      BY <2>1 DEF Cpp!PickFill
    <3>2. \A k \in Cpp!Ids : k < i => Cpp!InUse(Bucket[h], k)
      BY <3>1 DEF Cpp!FirstStop, Cpp!Stops
    <3>3. Cpp!Native!Write(Bucket[h], i, h)
      BY <1>2, <3>1, <3>2, PutImplementsWrite
    <3>4. Cpp!Native!StopAt(Bucket[h], h, i) /\ ~NSlots[Bucket[h]][i].valid
      BY <3>1, StopsMaps, CppConstants
      DEF Cpp!FirstStop, Cpp!Native!StopAt, Cpp!Native!Ids, Cpp!Ids, NSlots
    <3> QED
      BY <3>1, <3>3, <3>4
      DEF Cpp!Native!PickFill, Cpp!Native!Ids, Cpp!Ids, Cpp!Native!Return, Cpp!Return, NSlots
  <2>2. ASSUME NEW h \in Hashes, Cpp!PickHit(h)
        PROVE  Cpp!Native!PickHit(h)
    <3>1. PICK i \in Cpp!Ids : /\ Cpp!FirstStop(Bucket[h], i, h)
                           /\ Cpp!InUse(Bucket[h], i)
                           /\ Cpp!Return(h, t[Bucket[h]][i].value)
                           /\ UNCHANGED <<t, used_entries>>
      BY <2>2 DEF Cpp!PickHit
    <3>2. Cpp!Native!StopAt(Bucket[h], h, i) /\ NSlots[Bucket[h]][i].valid
      BY <3>1, StopsMaps, CppConstants
      DEF Cpp!FirstStop, Cpp!Native!StopAt, Cpp!Native!Ids, Cpp!Ids, NSlots
    <3>3. Cpp!Native!Return(h, NSlots[Bucket[h]][i].value)
      BY <3>1, StopsMaps, CppConstants DEF Cpp!Native!Return, Cpp!Return
    <3>4. NSlots' = NSlots /\ NLast' = NLast
      BY <3>1 DEF NSlots, NLast, Cpp!InUse, Cpp!LastPut
    <3> QED
      BY <3>1, <3>2, <3>3, <3>4
      DEF Cpp!Native!PickHit, Cpp!Native!Ids, Cpp!Ids, NSlots, NLast
  <2>3. ASSUME NEW h \in Hashes, Cpp!PickEvict(h)
        PROVE  Cpp!Native!PickEvict(h)
    <3>1. \A k \in Cpp!Ids : ~Cpp!Stops(Bucket[h], k, h) /\ Cpp!InUse(Bucket[h], k)
      BY <2>3 DEF Cpp!PickEvict, Cpp!Stops
    <3>2. PICK i \in Cpp!Ids : i = Cpp!Evicted(Bucket[h])
      BY <1>2, CppConstants, EvictedType
    <3>3. Cpp!Put(Bucket[h], i, h)
      BY <2>3, <3>2 DEF Cpp!PickEvict
    <3>4. Cpp!Native!Write(Bucket[h], i, h)
      BY <1>2, <3>1, <3>3, PutImplementsWrite
    <3>5. i = Cpp!Native!Victim(Bucket[h])
      BY <3>2, CppConstants DEF Cpp!Native!Victim, Cpp!Evicted
    <3>6. \A k \in Cpp!Native!Ids : ~Cpp!Native!Stops(NSlots[Bucket[h]][k], h)
      BY <3>1, StopsMaps, CppConstants DEF Cpp!Native!Ids, Cpp!Ids
    <3>7. Cpp!Native!Return(h, OwnerCpp[h])
      BY <2>3 DEF Cpp!PickEvict, Cpp!Return, Cpp!Native!Return
    <3>8. Cpp!Native!Write(Bucket[h], Cpp!Native!Victim(Bucket[h]), h)
      BY <3>4, <3>5 DEF Cpp!Native!Write
    <3> QED
      BY <3>6, <3>7, <3>8 DEF Cpp!Native!PickEvict, NSlots
  <2>4. CASE UNCHANGED Cpp!vars
    <3>1. NSlots' = NSlots /\ NLast' = NLast
      BY <2>4 DEF Cpp!vars, NSlots, NLast, Cpp!InUse, Cpp!LastPut
    <3> QED
      BY <2>4, <3>1 DEF Cpp!vars, NSlots, NLast, Cpp!Native!vars
  <2> QED
    BY <1>2, <2>1, <2>2, <2>3, <2>4 DEF Cpp!Next, Cpp!Native!Next
<1> QED
  BY <1>1, <1>2, CppTypeInvariant, PTL DEF Cpp!Spec, Cpp!ImplementsNative, Cpp!Native!Spec
-----------------------------------------------------------------------------
(***************************************************************************)
(* The intrusive cache is transparent too: what is in use under a hash is  *)
(* the owner of that hash in the C++ program's table.                      *)
(***************************************************************************)
CppSlotsHoldOwners ==
  \A b \in Buckets : \A i \in Cpp!Ids :
    Cpp!InUse(b, i) => t[b][i].value = OwnerCpp[t[b][i].key]

CppTransparent == \A h \in asked_cpp : answer_cpp = OwnerCpp[h]

CppInv == Cpp!TypeOK /\ CppSlotsHoldOwners /\ CppTransparent

LEMMA PutKeepsOwners ==
  ASSUME Cpp!TypeOK, CppSlotsHoldOwners, NEW h \in Hashes, NEW i \in Cpp!Ids,
         Cpp!Put(Bucket[h], i, h),
         \A k \in Cpp!Ids : k < i => Cpp!InUse(Bucket[h], k)
  PROVE  CppSlotsHoldOwners'
<1> SUFFICES ASSUME NEW c \in Buckets, NEW k \in Cpp!Ids, t'[c][k].is_entry # 0
             PROVE  t'[c][k].value = OwnerCpp[t'[c][k].key]
  BY DEF CppSlotsHoldOwners, Cpp!InUse
<1>1. CASE c # Bucket[h]
  <2>1. t'[c] = t[c]
    BY <1>1, PutEffect
  <2> QED
    BY <2>1 DEF CppSlotsHoldOwners, Cpp!InUse
<1>2. CASE c = Bucket[h] /\ k = i
  <2>1. t'[Bucket[h]][i].key = h /\ t'[Bucket[h]][i].value = OwnerCpp[h]
    BY PutEffect
  <2> QED
    BY <1>2, <2>1
<1>3. CASE c = Bucket[h] /\ k # i
  <2>1. /\ t'[c][k].key = t[c][k].key
        /\ t'[c][k].value = t[c][k].value
        /\ t'[c][k].is_entry = IF k = 0 THEN 2 * i + 1 ELSE t[c][k].is_entry
    BY <1>3, PutEffect
  <2>2. t[c][k].is_entry # 0
    <3>1. CASE k = 0
      <4>1. k < i
        BY <1>3, <3>1 DEF Cpp!Ids
      <4> QED
        BY <1>3, <4>1 DEF Cpp!InUse
    <3>2. CASE k # 0
      BY <2>1, <3>2
    <3> QED
      BY <3>1, <3>2
  <2> QED
    BY <2>1, <2>2 DEF CppSlotsHoldOwners, Cpp!InUse
<1> QED
  BY <1>1, <1>2, <1>3

LEMMA CppTransparency == Cpp!Spec => []CppInv
<1>1. Cpp!Init => CppSlotsHoldOwners /\ CppTransparent
  <2> SUFFICES ASSUME Cpp!Init PROVE CppSlotsHoldOwners /\ CppTransparent
    OBVIOUS
  <2>1. \A b \in Buckets : \A i \in Cpp!Ids : t[b][i].is_entry = 0
    BY DEF Cpp!Init
  <2> QED
    BY <2>1 DEF Cpp!Init, CppSlotsHoldOwners, CppTransparent, Cpp!InUse
<1>2. ASSUME Cpp!TypeOK, CppSlotsHoldOwners, CppTransparent, [Cpp!Next]_(Cpp!vars)
      PROVE  CppSlotsHoldOwners' /\ CppTransparent'
  <2>1. ASSUME NEW h \in Hashes, Cpp!PickFill(h)
        PROVE  CppSlotsHoldOwners' /\ CppTransparent'
    <3>1. PICK i \in Cpp!Ids : /\ Cpp!FirstStop(Bucket[h], i, h)
                               /\ Cpp!Put(Bucket[h], i, h)
                               /\ Cpp!Return(h, OwnerCpp[h])
      BY <2>1 DEF Cpp!PickFill
    <3>2. \A k \in Cpp!Ids : k < i => Cpp!InUse(Bucket[h], k)
      BY <3>1 DEF Cpp!FirstStop, Cpp!Stops
    <3>3. CppSlotsHoldOwners'
      BY <1>2, <3>1, <3>2, PutKeepsOwners
    <3> QED
      BY <3>1, <3>3 DEF CppTransparent, Cpp!Return
  <2>2. ASSUME NEW h \in Hashes, Cpp!PickHit(h)
        PROVE  CppSlotsHoldOwners' /\ CppTransparent'
    <3>1. PICK i \in Cpp!Ids : /\ Cpp!FirstStop(Bucket[h], i, h)
                               /\ Cpp!InUse(Bucket[h], i)
                               /\ Cpp!Return(h, t[Bucket[h]][i].value)
                               /\ UNCHANGED <<t, used_entries>>
      BY <2>2 DEF Cpp!PickHit
    <3>2. t[Bucket[h]][i].key = h
      BY <3>1 DEF Cpp!FirstStop, Cpp!Stops
    <3>3. t[Bucket[h]][i].value = OwnerCpp[h]
      BY <1>2, <3>1, <3>2, CppConstants DEF CppSlotsHoldOwners
    <3> QED
      BY <1>2, <3>1, <3>3 DEF CppTransparent, CppSlotsHoldOwners, Cpp!InUse, Cpp!Return
  <2>3. ASSUME NEW h \in Hashes, Cpp!PickEvict(h)
        PROVE  CppSlotsHoldOwners' /\ CppTransparent'
    <3>1. \A k \in Cpp!Ids : Cpp!InUse(Bucket[h], k)
      BY <2>3 DEF Cpp!PickEvict, Cpp!Stops
    <3>2. PICK i \in Cpp!Ids : i = Cpp!Evicted(Bucket[h])
      BY <1>2, CppConstants, EvictedType
    <3>3. Cpp!Put(Bucket[h], i, h) /\ Cpp!Return(h, OwnerCpp[h])
      BY <2>3, <3>2 DEF Cpp!PickEvict
    <3>4. CppSlotsHoldOwners'
      BY <1>2, <3>1, <3>3, PutKeepsOwners
    <3> QED
      BY <3>3, <3>4 DEF CppTransparent, Cpp!Return
  <2>4. CASE UNCHANGED Cpp!vars
    BY <1>2, <2>4 DEF Cpp!vars, CppSlotsHoldOwners, CppTransparent, Cpp!InUse
  <2> QED
    BY <1>2, <2>1, <2>2, <2>3, <2>4 DEF Cpp!Next
<1> QED
  BY <1>1, <1>2, CppTypeInvariant, PTL DEF Cpp!Spec, CppInv
-----------------------------------------------------------------------------
\* The network functions run the caches: a frame is one call of each pick().
LEMMA FlowHashes ==
  ASSUME NEW f \in Flows
  PROVE  Hashed(f).rust \in Hashes /\ Hashed(f).cpp \in Hashes
  BY SameFlowHash, NfAssumption

LEMMA NfRunsNative == NfSpec => Spec
<1>1. NfInit => Init
  BY DEF NfInit
<1>2. ASSUME [NfNext]_nfvars
      PROVE  [Next]_vars
  <2>1. ASSUME NEW f \in Flows, App(f)
        PROVE  Next
    <3>1. PICK h \in Hashes : h = Hashed(f).rust
      BY FlowHashes
    <3>2. PickFill(h) \/ PickHit(h) \/ PickEvict(h)
      BY <2>1, <3>1 DEF App
    <3> QED
      BY <3>2 DEF Next
  <2> QED
    BY <1>2, <2>1 DEF NfNext, nfvars, vars
<1> QED
  BY <1>1, <1>2, PTL DEF NfSpec, Spec

LEMMA NfRunsIntrusive == NfSpec => Cpp!Spec
<1>1. NfInit => Cpp!Init
  BY DEF NfInit
<1>2. ASSUME [NfNext]_nfvars
      PROVE  [Cpp!Next]_(Cpp!vars)
  <2>1. ASSUME NEW f \in Flows, NfApp(f)
        PROVE  Cpp!Next
    <3>1. PICK h \in Hashes : h = Hashed(f).cpp
      BY FlowHashes
    <3>2. Cpp!PickFill(h) \/ Cpp!PickHit(h) \/ Cpp!PickEvict(h)
      BY <2>1, <3>1 DEF NfApp
    <3> QED
      BY <3>2 DEF Cpp!Next
  <2> QED
    BY <1>2, <2>1 DEF NfNext, nfvars, Cpp!vars
<1> QED
  BY <1>1, <1>2, PTL DEF NfSpec, Cpp!Spec

(***************************************************************************)
(* In a run of both network functions, whatever frames arrive, the cache   *)
(* of the C++ one implements a cache of the Rust kind.                     *)
(***************************************************************************)
THEOREM CppCacheIsNative == NfSpec => ImplementsNative
  BY NfRunsIntrusive, FbkImplementsNative DEF ImplementsNative

\* Both programs look the backend of a hash up in the same table.
SameTable == \A h \in Word : Owner[h] = OwnerCpp[h]

\* populate() computes a program's table from the seeds of its backends.
NfBackends == {b \in Nat : b < NbBackends}
Populated(populate) ==
  /\ Owner = populate[[b \in NfBackends |-> Seed(b)]]
  /\ OwnerCpp = populate[[b \in NfBackends |-> SeedCpp(b)]]

\* Both answered the last frame alike, and sent it there.
InStep ==
  /\ answer = answer_cpp
  /\ dst = Bk(answer)
  /\ dst_cpp = Bk(answer_cpp)

\* Both pick()s end by returning for the hash they were asked for.
LEMMA PickAsks ==
  ASSUME NEW h
  PROVE  /\ PickFill(h) \/ PickHit(h) \/ PickEvict(h) => asked' = {h}
         /\ Cpp!PickFill(h) \/ Cpp!PickHit(h) \/ Cpp!PickEvict(h) => asked_cpp' = {h}
  BY DEF PickFill, PickHit, PickEvict, Return,
         Cpp!PickFill, Cpp!PickHit, Cpp!PickEvict, Cpp!Return

LEMMA AppsStayInStep ==
  ASSUME SameTable, InStep, [NfNext]_nfvars, Transparent', CppTransparent'
  PROVE  InStep'
<1>1. ASSUME NEW f \in Flows, App(f), NfApp(f)
      PROVE  InStep'
  <2>1. asked' = {Hashed(f).rust} /\ asked_cpp' = {Hashed(f).cpp}
    BY <1>1, PickAsks DEF App, NfApp
  <2>2. answer' = Owner[Hashed(f).rust] /\ answer_cpp' = OwnerCpp[Hashed(f).cpp]
    BY <2>1 DEF Transparent, CppTransparent
  <2>3. Owner[Hashed(f).rust] = OwnerCpp[Hashed(f).cpp]
    BY SameFlowHash DEF SameTable
  <2>4. dst' = Bk(answer') /\ dst_cpp' = Bk(answer_cpp')
    BY <1>1 DEF App, NfApp
  <2> QED
    BY <2>2, <2>3, <2>4 DEF InStep
<1>2. CASE UNCHANGED nfvars
  BY <1>2 DEF nfvars, vars, InStep
<1> QED
  BY <1>1, <1>2 DEF NfNext

LEMMA OneTable ==
  ASSUME NEW populate, Populated(populate)
  PROVE  SameTable
<1>1. [b \in NfBackends |-> Seed(b)] = [b \in NfBackends |-> SeedCpp(b)]
  BY SeedsAgree DEF NfBackends
<1> QED  BY <1>1 DEF Populated, SameTable

(***************************************************************************)
(* The port sends every frame to the backend the C++ program sends it to,  *)
(* across any sequence of hits, fills and evictions in two caches of       *)
(* different shape, whatever the computation that populates the tables     *)
(* from the seeds of the backends, as long as both programs have the same: *)
(* the hashes of a flow agree, and so do the seeds (SeedsAgree).           *)
(***************************************************************************)
THEOREM PortFollowsCpp ==
  ASSUME NEW populate, Populated(populate)
  PROVE  NfSpec => []SameBackendAsCpp
<1>1. SameTable
  BY OneTable
<1>2. NfInit => InStep
  BY DEF NfInit, InStep
<1>3. InStep /\ [NfNext]_nfvars /\ Transparent' /\ CppTransparent' => InStep'
  BY <1>1, AppsStayInStep
<1>4. InStep => SameBackendAsCpp
  BY DEF InStep, SameBackendAsCpp
<1>5. NfSpec => []Transparent
  BY NfRunsNative, CacheIsTransparent
<1>6. NfSpec => []CppTransparent
  <2>1. CppInv => CppTransparent
    BY DEF CppInv
  <2> QED
    BY <2>1, NfRunsIntrusive, CppTransparency, PTL
<1> QED
  BY <1>2, <1>3, <1>4, <1>5, <1>6, PTL DEF NfSpec
=============================================================================
