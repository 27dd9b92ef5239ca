------------------------------- MODULE SumProofs -------------------------------
(***************************************************************************)
(* FoldFunction(+, 0, f), with which the models add up a counter over all  *)
(* lcores, workers or backends, is the sum of the values of f: what is     *)
(* known of finite sums holds of it, in whatever order the values are      *)
(* taken.                                                                  *)
(*                                                                         *)
(* The fold is a recursive function on the subsets of its domain, so facts *)
(* about it are proved by induction on finite sets and on numbers.  Both   *)
(* are stated for the set of the arguments for which a fact holds.         *)
(***************************************************************************)
EXTENDS Integers, FiniteSets, Functions, FiniteSetTheorems, TLAPS

Total(f) == FoldFunction(+, 0, f)

\* A set of numbers that holds 0 and the successors of its members.
LEMMA NumbersByInduction ==
  ASSUME NEW M \in SUBSET Nat, 0 \in M, \A n \in M : n + 1 \in M
  PROVE  M = Nat
<1> SUFFICES ASSUME Nat \ M # {} PROVE FALSE
  OBVIOUS
<1>1. PICK n \in Nat \ M : \A k \in Nat \ M : ~(<<k, n>> \in OpToRel(<, Nat))
  BY NatLessThanWellFounded, WFMin
<1>2. n \in Nat /\ n \notin M /\ n # 0 /\ n - 1 \in Nat /\ (n - 1) + 1 = n
  OBVIOUS
<1>3. <<n - 1, n>> \in OpToRel(<, Nat)
  <2>1. n - 1 < n
    BY <1>2
  <2> QED  BY <1>2, <2>1 DEF OpToRel
<1>4. n - 1 \in M
  BY <1>1, <1>2, <1>3
<1>5. (n - 1) + 1 \in M
  BY <1>4
<1> QED  BY <1>2, <1>5

\* Among some subsets of a finite set one has none of the others as a part.
LEMMA SmallestSubset ==
  ASSUME NEW S, IsFiniteSet(S), NEW N \in SUBSET SUBSET S, N # {}
  PROVE  \E T \in N : \A U \in N : U \subseteq T => U = T
<1>1. IsWellFoundedOn(StrictSubsetOrdering(S), SUBSET S)
  BY FS_FiniteSubsetsOfFinite, FS_StrictSubsetOrderingWellFounded
<1>2. PICK T \in N : \A U \in N : ~(<<U, T>> \in StrictSubsetOrdering(S))
  BY <1>1, WFMin
<1> QED  BY <1>2 DEF StrictSubsetOrdering

\* A set of subsets of S that holds a set as soon as it holds all smaller ones.
LEMMA SubsetsByInduction ==
  ASSUME NEW S, IsFiniteSet(S), NEW M \in SUBSET SUBSET S,
         \A T \in SUBSET S : (\A U \in SUBSET T : U = T \/ U \in M) => T \in M
  PROVE  M = SUBSET S
<1> SUFFICES ASSUME (SUBSET S) \ M # {} PROVE FALSE
  OBVIOUS
<1> DEFINE N == (SUBSET S) \ M
<1>1. PICK T \in N : \A U \in N : U \subseteq T => U = T
  <2>1. N \in SUBSET SUBSET S /\ N # {}
    OBVIOUS
  <2> HIDE DEF N
  <2> QED  BY <2>1, SmallestSubset
<1> QED  BY <1>1
-----------------------------------------------------------------------------
\* The equation of the recursive function, on the subsets of S in D.
Equation(g, f, D) ==
  g = [s \in D |-> IF s = {} THEN 0
                   ELSE f[CHOOSE x \in s : TRUE] + g[s \ {CHOOSE x \in s : TRUE}]]

\* It has a solution on the subsets with up to n elements, thus on all.
LEMMA FoldExists ==
  ASSUME NEW S, IsFiniteSet(S), NEW f
  PROVE  \E g : Equation(g, f, SUBSET S)
<1> DEFINE UpTo(n) == {T \in SUBSET S : Cardinality(T) <= n}
           M == {n \in Nat : \E g : Equation(g, f, UpTo(n))}
<1>1. \A T \in SUBSET S : IsFiniteSet(T) /\ Cardinality(T) \in Nat /\ (Cardinality(T) = 0 <=> T = {})
  BY FS_Subset, FS_CardinalityType, FS_EmptySet
<1>2. 0 \in M
  <2> DEFINE g == [T \in UpTo(0) |-> 0]
  <2>1. \A T \in UpTo(0) : T = {}
    BY <1>1
  <2>2. Equation(g, f, UpTo(0))
    BY <2>1 DEF Equation
  <2> QED  BY <2>2
<1>3. ASSUME NEW n \in M PROVE n + 1 \in M
  <2>1. PICK h : Equation(h, f, UpTo(n))
    BY <1>3
  <2> DEFINE x(s) == CHOOSE y \in s : TRUE
             g == [s \in UpTo(n + 1) |-> IF s = {} THEN 0 ELSE f[x(s)] + h[s \ {x(s)}]]
  <2>2. ASSUME NEW s \in UpTo(n + 1), s # {}
        PROVE  x(s) \in s /\ s \ {x(s)} \in UpTo(n)
    <3>1. x(s) \in s
      BY <2>2
    <3>2. Cardinality(s \ {x(s)}) = Cardinality(s) - 1
      BY <1>1, <3>1, FS_RemoveElement
    <3> QED  BY <1>1, <3>1, <3>2
  <2>3. \A s \in UpTo(n) : g[s] = h[s]
    <3>1. \A s \in UpTo(n) : s \in UpTo(n + 1)
      BY <1>1
    <3>2. \A s \in UpTo(n) : h[s] = IF s = {} THEN 0 ELSE f[x(s)] + h[s \ {x(s)}]
      BY <2>1 DEF Equation
    <3> QED  BY <3>1, <3>2
  <2>4. Equation(g, f, UpTo(n + 1))
    <3>1. \A s \in UpTo(n + 1) : s # {} => g[s \ {x(s)}] = h[s \ {x(s)}]
      <4> HIDE DEF UpTo, g, x
      <4> QED  BY <2>2, <2>3
    <3>2. [s \in UpTo(n + 1) |-> IF s = {} THEN 0 ELSE f[x(s)] + h[s \ {x(s)}]]
            = [s \in UpTo(n + 1) |-> IF s = {} THEN 0 ELSE f[x(s)] + g[s \ {x(s)}]]
      <4> HIDE DEF UpTo, g, x
      <4> QED  BY <3>1, Zenon
    <3> QED  BY <3>2, Zenon DEF Equation
  <2>5. n + 1 \in Nat
    OBVIOUS
  <2> HIDE DEF g, UpTo
  <2> QED  BY <2>4, <2>5
<1>4. M = Nat
  <2> HIDE DEF M
  <2> QED  BY <1>2, <1>3, NumbersByInduction DEF M
<1>5. Cardinality(S) \in M /\ UpTo(Cardinality(S)) = SUBSET S
  BY <1>1, <1>4, FS_Subset
<1> QED  BY <1>5

\* Its values are numbers.
LEMMA FoldType ==
  ASSUME NEW S, IsFiniteSet(S), NEW f, \A x \in S : f[x] \in Int,
         NEW g, Equation(g, f, SUBSET S)
  PROVE  g \in [SUBSET S -> Int]
<1> DEFINE pick(s) == CHOOSE y \in s : TRUE
           M == {T \in SUBSET S : g[T] \in Int}
<1>1. \A s \in SUBSET S : g[s] = IF s = {} THEN 0 ELSE f[pick(s)] + g[s \ {pick(s)}]
  BY DEF Equation
<1>2. \A s \in SUBSET S : s # {} => pick(s) \in s
  OBVIOUS
<1>3. ASSUME NEW T \in SUBSET S, \A U \in SUBSET T : U = T \/ U \in M
      PROVE  T \in M
  <2> SUFFICES g[T] \in Int
    OBVIOUS
  <2> HIDE DEF pick
  <2>1. CASE T = {}
    <3>1. g[T] = 0
      BY <1>1, <2>1
    <3> QED  BY <3>1
  <2>2. CASE T # {}
    <3>1. pick(T) \in T /\ T \ {pick(T)} \in M
      BY <1>2, <1>3, <2>2
    <3>2. f[pick(T)] \in Int /\ g[T \ {pick(T)}] \in Int
      BY <3>1
    <3>3. g[T] = f[pick(T)] + g[T \ {pick(T)}]
      BY <1>1, <2>2
    <3> HIDE DEF M
    <3> QED  BY <3>2, <3>3
  <2> QED  BY <2>1, <2>2
<1>4. M = SUBSET S
  <2>1. M \subseteq SUBSET S
    OBVIOUS
  <2> HIDE DEF M
  <2> QED  BY <1>3, <2>1, SubsetsByInduction
<1>5. g = [s \in SUBSET S |-> g[s]]
  BY DEF Equation
<1> QED  BY <1>4, <1>5

\* What can be said of a solution: any element of a set may be taken out of it.
IsSum(g, f, S) ==
  /\ g \in [SUBSET S -> Int]
  /\ g[{}] = 0
  /\ \A T \in SUBSET S : \A x \in T : g[T] = f[x] + g[T \ {x}]

LEMMA FoldIsSum ==
  ASSUME NEW S, IsFiniteSet(S), NEW f, \A x \in S : f[x] \in Int,
         NEW g, Equation(g, f, SUBSET S)
  PROVE  IsSum(g, f, S)
<1> DEFINE M == {T \in SUBSET S : \A x \in T : g[T] = f[x] + g[T \ {x}]}
<1> DEFINE pick(s) == CHOOSE y \in s : TRUE
<1>1. g \in [SUBSET S -> Int]
  BY FoldType
<1>2. \A s \in SUBSET S : g[s] = IF s = {} THEN 0 ELSE f[pick(s)] + g[s \ {pick(s)}]
  BY DEF Equation
<1>3. \A s \in SUBSET S : s # {} => pick(s) \in s
  OBVIOUS
<1> HIDE DEF pick
<1>4. ASSUME NEW T \in SUBSET S, \A U \in SUBSET T : U = T \/ U \in M
      PROVE  T \in M
  <2> SUFFICES ASSUME NEW x \in T PROVE g[T] = f[x] + g[T \ {x}]
    OBVIOUS
  <2> DEFINE y == pick(T)
  <2>1. y \in T /\ g[T] = f[y] + g[T \ {y}]
    BY <1>2, <1>3
  <2>2. CASE x = y
    BY <2>1, <2>2
  <2>3. CASE x # y
    <3> HIDE DEF y
    <3>1. T \ {y} \in M /\ T \ {x} \in M /\ (T \ {y}) \ {x} = (T \ {x}) \ {y}
      BY <1>4, <2>1
    <3> DEFINE U == (T \ {x}) \ {y}
    <3>2. g[T \ {y}] = f[x] + g[U] /\ g[T \ {x}] = f[y] + g[U]
      BY <2>1, <2>3, <3>1
    <3>3. f[x] \in Int /\ f[y] \in Int /\ g[U] \in Int
      BY <1>1, <2>1
    <3> QED  BY <2>1, <3>2, <3>3
  <2> QED  BY <2>2, <2>3
<1>5. M \subseteq SUBSET S
  OBVIOUS
<1>6. M = SUBSET S
  <2> HIDE DEF M
  <2> QED  BY <1>4, <1>5, SubsetsByInduction
<1> QED  BY <1>1, <1>2, <1>6 DEF IsSum

\* On the same subsets there is one such function, if f is the same there.
LEMMA SumsAgree ==
  ASSUME NEW S, IsFiniteSet(S), NEW f, NEW g, NEW h, NEW k,
         IsSum(g, f, S), IsSum(k, h, S), NEW T \in SUBSET S, \A x \in T : f[x] = h[x]
  PROVE  g[T] = k[T]
<1> DEFINE M == {U \in SUBSET S : (\A x \in U : f[x] = h[x]) => g[U] = k[U]}
<1>1. ASSUME NEW U \in SUBSET S, \A V \in SUBSET U : V = U \/ V \in M
      PROVE  U \in M
  <2>1. CASE U = {}
    BY <2>1 DEF IsSum
  <2>2. CASE U # {}
    <3>1. PICK x \in U : TRUE
      BY <2>2
    <3>2. U \ {x} \in M
      BY <1>1, <3>1
    <3>3. g[U] = f[x] + g[U \ {x}] /\ k[U] = h[x] + k[U \ {x}]
      BY <3>1 DEF IsSum
    <3> QED  BY <3>1, <3>2, <3>3
  <2> QED  BY <2>1, <2>2
<1>2. M = SUBSET S
  <2>1. M \subseteq SUBSET S
    OBVIOUS
  <2> HIDE DEF M
  <2> QED  BY <1>1, <2>1, SubsetsByInduction
<1> QED  BY <1>2

\* Total is the value of such a function.
LEMMA TotalIsSum ==
  ASSUME NEW S, IsFiniteSet(S), NEW f \in [S -> Int]
  PROVE  \E g : IsSum(g, f, S) /\ Total(f) = g[S]
<1> DEFINE g == CHOOSE iter : Equation(iter, f, SUBSET S)
<1>1. \E h : Equation(h, f, SUBSET S)
  BY FoldExists
<1>2. Equation(g, f, SUBSET S)
  BY <1>1
<1>3. Total(f) = g[S]
  BY DEF Total, FoldFunction, FoldFunctionOnSet, MapThenFoldSet, Equation
<1>4. IsSum(g, f, S)
  <2> HIDE DEF g
  <2> QED  BY <1>2, FoldIsSum
<1> QED  BY <1>3, <1>4
-----------------------------------------------------------------------------
(***************************************************************************)
(* The facts that proofs cite.  S is finite and the values are integers.   *)
(***************************************************************************)
LEMMA TotalType ==
  ASSUME NEW S, IsFiniteSet(S), NEW f \in [S -> Int]
  PROVE  Total(f) \in Int
<1>1. PICK g : IsSum(g, f, S) /\ Total(f) = g[S]
  BY TotalIsSum
<1> QED  BY <1>1 DEF IsSum

\* One value is changed.
LEMMA TotalExcept ==
  ASSUME NEW S, IsFiniteSet(S), NEW f \in [S -> Int], NEW h \in [S -> Int], NEW x \in S,
         \A y \in S \ {x} : h[y] = f[y]
  PROVE  Total(h) = Total(f) - f[x] + h[x]
<1>1. PICK g : IsSum(g, f, S) /\ Total(f) = g[S]
  BY TotalIsSum
<1>2. PICK k : IsSum(k, h, S) /\ Total(h) = k[S]
  BY TotalIsSum
<1>3. g[S \ {x}] = k[S \ {x}]
  BY <1>1, <1>2, SumsAgree
<1>4. g[S] = f[x] + g[S \ {x}] /\ k[S] = h[x] + k[S \ {x}] /\ g[S \ {x}] \in Int
  BY <1>1, <1>2 DEF IsSum
<1>5. f[x] \in Int /\ h[x] \in Int
  OBVIOUS
<1> QED  BY <1>1, <1>2, <1>3, <1>4, <1>5

\* All values are the same.
LEMMA TotalConstant ==
  ASSUME NEW S, IsFiniteSet(S), NEW v \in Int, NEW f \in [S -> Int], \A x \in S : f[x] = v
  PROVE  Total(f) = v * Cardinality(S)
<1>1. PICK g : IsSum(g, f, S) /\ Total(f) = g[S]
  BY TotalIsSum
<1> DEFINE M == {T \in SUBSET S : g[T] = v * Cardinality(T)}
<1>2. ASSUME NEW T \in SUBSET S, \A U \in SUBSET T : U = T \/ U \in M
      PROVE  T \in M
  <2> SUFFICES g[T] = v * Cardinality(T)
    OBVIOUS
  <2>1. CASE T = {}
    BY <1>1, <2>1, FS_EmptySet DEF IsSum
  <2>2. CASE T # {}
    <3>1. PICK x \in T : TRUE
      BY <2>2
    <3>2. g[T] = v + g[T \ {x}] /\ g[T \ {x}] = v * Cardinality(T \ {x})
      BY <1>1, <1>2, <3>1 DEF IsSum
    <3>3. Cardinality(T) \in Nat /\ Cardinality(T \ {x}) = Cardinality(T) - 1
      BY <3>1, FS_Subset, FS_CardinalityType, FS_RemoveElement
    <3> HIDE DEF M
    <3> QED  BY <3>2, <3>3
  <2> QED  BY <2>1, <2>2
<1>3. M = SUBSET S
  <2>1. M \subseteq SUBSET S
    OBVIOUS
  <2> HIDE DEF M
  <2> QED  BY <1>2, <2>1, SubsetsByInduction
<1> QED  BY <1>1, <1>3

\* Values that are added, and compared, one by one.
LEMMA TotalsCompare ==
  ASSUME NEW S, IsFiniteSet(S), NEW e \in [S -> Int], NEW f \in [S -> Int], NEW h \in [S -> Int]
  PROVE  /\ (\A x \in S : h[x] = e[x] + f[x]) => Total(h) = Total(e) + Total(f)
         /\ (\A x \in S : e[x] <= f[x]) => Total(e) <= Total(f)
<1>1. PICK i : IsSum(i, e, S) /\ Total(e) = i[S]
  BY TotalIsSum
<1>2. PICK j : IsSum(j, f, S) /\ Total(f) = j[S]
  BY TotalIsSum
<1>3. PICK k : IsSum(k, h, S) /\ Total(h) = k[S]
  BY TotalIsSum
<1> DEFINE M == {T \in SUBSET S : /\ (\A x \in S : h[x] = e[x] + f[x]) => k[T] = i[T] + j[T]
                                  /\ (\A x \in S : e[x] <= f[x]) => i[T] <= j[T]}
<1>4. ASSUME NEW T \in SUBSET S, \A U \in SUBSET T : U = T \/ U \in M
      PROVE  T \in M
  <2>1. CASE T = {}
    BY <1>1, <1>2, <1>3, <2>1 DEF IsSum
  <2>2. CASE T # {}
    <3>1. PICK x \in T : TRUE
      BY <2>2
    <3> DEFINE U == T \ {x}
    <3>2. U \in M
      BY <1>4, <3>1
    <3>3. i[T] = e[x] + i[U] /\ j[T] = f[x] + j[U] /\ k[T] = h[x] + k[U]
      BY <1>1, <1>2, <1>3, <3>1 DEF IsSum
    <3>4. {e[x], f[x], h[x], i[U], j[U], k[U]} \subseteq Int
      BY <1>1, <1>2, <1>3, <3>1 DEF IsSum
    <3> QED  BY <3>1, <3>2, <3>3, <3>4
  <2> QED  BY <2>1, <2>2
<1>5. M = SUBSET S
  <2>1. M \subseteq SUBSET S
    OBVIOUS
  <2> HIDE DEF M
  <2> QED  BY <1>4, <2>1, SubsetsByInduction
<1> QED  BY <1>1, <1>2, <1>3, <1>5

\* The sum of natural numbers is at least each of them.
LEMMA TotalOfNats ==
  ASSUME NEW S, IsFiniteSet(S), NEW f \in [S -> Nat]
  PROVE  /\ f \in [S -> Int]
         /\ Total(f) \in Nat
         /\ \A x \in S : f[x] <= Total(f)
<1> DEFINE zero == [x \in S |-> 0]
<1>1. f \in [S -> Int] /\ zero \in [S -> Int] /\ \A x \in S : f[x] \in Nat /\ zero[x] = 0
  OBVIOUS
<1> HIDE DEF zero
<1>2. Total(zero) = 0
  <2>1. Total(zero) = 0 * Cardinality(S) /\ Cardinality(S) \in Nat
    BY <1>1, TotalConstant, FS_CardinalityType
  <2> QED  BY <2>1
<1>3. Total(f) \in Int /\ Total(zero) <= Total(f)
  BY <1>1, TotalType, TotalsCompare
<1>4. ASSUME NEW x \in S PROVE f[x] <= Total(f)
  <2> DEFINE one == [zero EXCEPT ![x] = f[x]]
  <2>1. /\ one \in [S -> Int] /\ one[x] = f[x]
        /\ \A y \in S : one[y] <= f[y]
        /\ \A y \in S \ {x} : one[y] = zero[y]
    BY <1>1
  <2> HIDE DEF one
  <2>2. Total(one) = Total(zero) - zero[x] + one[x]
    BY <1>1, <2>1, TotalExcept
  <2>3. Total(one) <= Total(f)
    BY <1>1, <2>1, TotalsCompare
  <2> QED  BY <1>1, <1>2, <1>3, <2>1, <2>2, <2>3
<1> QED  BY <1>1, <1>2, <1>3, <1>4

\* Nothing counted yet.
LEMMA TotalZero ==
  ASSUME NEW S, IsFiniteSet(S), NEW f \in [S -> Nat], \A x \in S : f[x] = 0
  PROVE  Total(f) = 0
<1>1. f \in [S -> Int] /\ Cardinality(S) \in Nat
  BY TotalOfNats, FS_CardinalityType
<1>2. Total(f) = 0 * Cardinality(S)
  BY <1>1, TotalConstant
<1> QED  BY <1>1, <1>2

\* One value grows by one.
LEMMA OneMoreInTotal ==
  ASSUME NEW S, IsFiniteSet(S), NEW f \in [S -> Nat], NEW h \in [S -> Nat], NEW x \in S,
         h[x] = f[x] + 1, \A y \in S \ {x} : h[y] = f[y]
  PROVE  Total(h) = Total(f) + 1
<1>1. f \in [S -> Int] /\ h \in [S -> Int] /\ Total(f) \in Nat /\ f[x] \in Nat
  BY TotalOfNats
<1>2. Total(h) = Total(f) - f[x] + h[x]
  BY <1>1, TotalExcept
<1> QED  BY <1>1, <1>2

LEMMA FoldIsTotal == \A f : FoldFunction(+, 0, f) = Total(f)
BY DEF Total
-----------------------------------------------------------------------------
(***************************************************************************)
(* Powers, remainders and quotients, for divisors that are not literals.   *)
(***************************************************************************)
\* Exponents add, for a table of the powers of two.
LEMMA Exponents ==
  ASSUME NEW n \in Nat, NEW p, p[0] = 1, \A i \in 0 .. n - 1 : p[i + 1] = 2 * p[i]
  PROVE  \A b \in 0 .. n : p[b] \in Nat \ {0} /\ \A a \in 0 .. n - b : p[a + b] = p[a] * p[b]
<1> DEFINE M == {b \in Nat : b <= n => p[b] \in Nat \ {0}}
<1>1. M = Nat
  <2>1. 0 \in M
    OBVIOUS
  <2>2. ASSUME NEW b \in M PROVE b + 1 \in M
    <3>1. b + 1 <= n => b \in 0 .. n - 1
      OBVIOUS
    <3>2. b + 1 <= n => p[b + 1] = 2 * p[b] /\ p[b] \in Nat \ {0}
      BY <3>1
    <3> QED  BY <3>2
  <2> HIDE DEF M
  <2> QED  BY <2>1, <2>2, NumbersByInduction DEF M
<1>2. \A b \in 0 .. n : p[b] \in Nat \ {0}
  BY <1>1
<1> DEFINE L == {b \in Nat : b <= n => \A a \in 0 .. n - b : p[a + b] = p[a] * p[b]}
<1>3. L = Nat
  <2>1. 0 \in L
    <3>1. \A a \in 0 .. n : p[a] * p[0] = p[a] /\ a + 0 = a
      BY <1>2
    <3> QED  BY <3>1
  <2>2. ASSUME NEW b \in L PROVE b + 1 \in L
    <3> SUFFICES ASSUME b + 1 <= n, NEW a \in 0 .. n - (b + 1) PROVE p[a + (b + 1)] = p[a] * p[b + 1]
      OBVIOUS
    <3>1. p[a + b] = p[a] * p[b]
      OBVIOUS
    <3>2. p[a + (b + 1)] = 2 * p[a + b]
      <4>1. a + b \in 0 .. n - 1 /\ a + (b + 1) = (a + b) + 1
        OBVIOUS
      <4> QED  BY <4>1
    <3>3. p[b + 1] = 2 * p[b]
      OBVIOUS
    <3>4. PICK x, y \in Nat : x = p[a] /\ y = p[b]
      BY <1>2
    <3>5. 2 * (x * y) = x * (2 * y)
      BY <3>4
    <3> QED  BY <3>1, <3>2, <3>3, <3>4, <3>5
  <2> HIDE DEF L
  <2> QED  BY <2>1, <2>2, NumbersByInduction DEF L
<1> QED  BY <1>2, <1>3

\* The last bit of a number and the others.
LEMMA Halves ==
  ASSUME NEW m \in Nat, NEW x \in 0 .. 2 * m - 1
  PROVE  /\ x \div 2 \in 0 .. m - 1 /\ x \in Nat
         /\ x % 2 \in {0, 1} /\ x = 2 * (x \div 2) + (x % 2)
OBVIOUS

\* x is a modulo v.
LowOf(a, x, v) == a \in 0 .. v - 1 /\ \E q \in Nat : x = a + q * v

\* The remainder is the part below the divisor.
LEMMA LowPart ==
  ASSUME NEW v \in Nat \ {0}, NEW a, NEW x, LowOf(a, x, v)
  PROVE  x % v = a
<1>1. PICK q \in Nat : x \in Nat /\ a \in 0 .. v - 1 /\ x = a + q * v
  <2>1. PICK q \in Nat : a \in 0 .. v - 1 /\ x = a + q * v
    BY DEF LowOf
  <2>2. q * v \in Nat
    OBVIOUS
  <2> QED  BY <2>1, <2>2
<1>2. PICK d \in Int, r \in Int : d = x \div v /\ r = x % v
  BY <1>1
<1>3. r \in 0 .. v - 1 /\ x = v * d + r
  BY <1>1, <1>2
<1>4. PICK k \in Int : k = d - q
  OBVIOUS
<1>5. a - r = v * k
  BY <1>1, <1>3, <1>4
<1>6. PICK m \in Int : m = v * k
  OBVIOUS
<1>7. k >= 1 => m >= v
  BY <1>6
<1>8. k <= -1 => m <= -v
  <2>1. SUFFICES ASSUME k <= -1 PROVE m <= -v
    OBVIOUS
  <2>2. PICK j \in Nat : k = -1 - j
    <3>1. -1 - k \in Nat /\ k = -1 - (-1 - k)
      BY <2>1
    <3> QED  BY <3>1
  <2>3. m = -v - v * j /\ v * j \in Nat
    BY <1>6, <2>2
  <2> QED  BY <2>3
<1>9. k = 0
  BY <1>1, <1>3, <1>5, <1>6, <1>7, <1>8
<1>10. a = r
  BY <1>1, <1>3, <1>5, <1>9
<1> QED  BY <1>1, <1>2, <1>10

\* The quotient is what the divisor is taken by.
LEMMA QuotientPart ==
  ASSUME NEW v \in Nat \ {0}, NEW q \in Nat, NEW a \in 0 .. v - 1, NEW x, x = a + q * v
  PROVE  x \div v = q
<1>1. x \in Nat
  <2>1. q * v \in Nat
    OBVIOUS
  <2> QED  BY <2>1
<1>2. LowOf(a, x, v)
  BY DEF LowOf
<1>3. x % v = a
  BY <1>2, LowPart
<1>4. PICK d \in Int : d = x \div v /\ x = v * d + a
  BY <1>1, <1>3
<1>5. v * d = v * q
  <2>1. q * v = v * q
    OBVIOUS
  <2>2. v * d \in Int /\ v * q \in Int
    OBVIOUS
  <2> QED  BY <1>4, <2>1, <2>2
<1>6. d = q
  BY <1>5
<1> QED  BY <1>4, <1>6

\* A number below e * v has a quotient below e.
LEMMA QuotientBelow ==
  ASSUME NEW v \in Nat \ {0}, NEW e \in Nat, NEW x \in 0 .. e * v - 1
  PROVE  /\ x \div v \in 0 .. e - 1 /\ x % v \in 0 .. v - 1
         /\ x = (x % v) + (x \div v) * v
<1>1. x \in Nat
  <2>1. e * v \in Nat
    OBVIOUS
  <2> QED  BY <2>1
<1>2. PICK d \in Int, r \in 0 .. v - 1 : d = x \div v /\ r = x % v /\ x = r + d * v
  BY <1>1
<1>3. d >= 0
  <2>1. SUFFICES ASSUME d <= -1 PROVE FALSE
    BY <1>2
  <2>2. d * v <= -v
    BY <2>1
  <2> QED  BY <1>1, <1>2, <2>2
<1>4. d < e
  <2>1. SUFFICES ASSUME d >= e PROVE FALSE
    BY <1>2
  <2>2. d * v >= e * v
    BY <2>1
  <2>3. x < e * v /\ e * v \in Nat /\ d * v \in Int
    OBVIOUS
  <2> QED  BY <1>2, <2>2, <2>3
<1> QED  BY <1>2, <1>3, <1>4
=============================================================================
