----------------------------- MODULE Arithmetic ------------------------------
(***************************************************************************)
(* What the proofs of several components rest on: induction over a set of  *)
(* numbers and what follows from it for functions that are defined by      *)
(* recursion; and that the numbers of Rationals that are finite make an    *)
(* ordered field: Euclid's algorithm, lowest terms, the operations and the *)
(* order.                                                                  *)
(***************************************************************************)
EXTENDS Rationals, FiniteSetTheorems, FunctionTheorems, TLAPS

(* Induction over Nat for a set: the successor would otherwise map the     *)
(* members up to a missing number onto themselves but for 0.               *)

LEMMA SetInduction ==
  ASSUME NEW S, 0 \in S, \A k \in S \cap Nat : k + 1 \in S
  PROVE  Nat \subseteq S
<1> SUFFICES ASSUME NEW n \in Nat, n \notin S PROVE FALSE
  OBVIOUS
<1> DEFINE T == {k \in 0 .. n : k \in S}
           f == [k \in T |-> k + 1]
<1>1. IsFiniteSet(T)
  <2>1. IsFiniteSet(0 .. n)
    BY FS_Interval
  <2>2. T \in SUBSET (0 .. n)
    OBVIOUS
  <2> QED
    BY ONLY <2>1, <2>2, FS_Subset
<1>2. \A k \in T : k + 1 \in T
  OBVIOUS
<1>3. f \in Injection(T, T)
  BY <1>2 DEF Injection, IsInjective
<1>4. f \in Surjection(T, T)
  BY <1>1, <1>3, FS_Injection
<1>5. 0 \in T /\ \A k \in T : f[k] # 0
  OBVIOUS
<1> HIDE DEF f
<1> QED
  BY <1>4, <1>5 DEF Surjection

\* The stages of something that is done again and again to what one starts with.
Stages(M, D, base, step) ==
  {f \in [0 .. M -> D] : f[0] = base /\ \A k \in 1 .. M : f[k] = step[f[k - 1]]}

(* Something that is done again and again to what one starts with has all  *)
(* its stages in a sequence.                                               *)
LEMMA StagesExist ==
  ASSUME NEW D, NEW base \in D, NEW step \in [D -> D], NEW M \in Nat
  PROVE  Stages(M, D, base, step) # {}
<1> DEFINE Good(n) == \E f \in [0 .. n -> D] :
             f[0] = base /\ \A k \in 1 .. n : f[k] = step[f[k - 1]]
           S == {n \in Nat : Good(n)}
<1>1. 0 \in S
  <2> DEFINE f == [k \in 0 .. 0 |-> base]
  <2>1. f \in [0 .. 0 -> D] /\ f[0] = base /\ \A k \in 1 .. 0 : f[k] = step[f[k - 1]]
    OBVIOUS
  <2> QED
    BY <2>1
<1>2. ASSUME NEW n \in S \cap Nat PROVE n + 1 \in S
  <2>1. PICK f \in [0 .. n -> D] :
          f[0] = base /\ \A k \in 1 .. n : f[k] = step[f[k - 1]]
    BY <1>2
  <2> DEFINE g == [k \in 0 .. n + 1 |-> IF k = n + 1 THEN step[f[n]] ELSE f[k]]
  <2>2. g \in [0 .. n + 1 -> D]
    BY <2>1
  <2>3. g[0] = base
    BY <2>1
  <2>4. ASSUME NEW k \in 1 .. n + 1 PROVE g[k] = step[g[k - 1]]
    BY <2>1
  <2>5. Good(n + 1)
    BY <2>2, <2>3, <2>4
  <2> QED
    BY <2>5
<1> HIDE DEF S
<1>3. M \in S
  BY <1>1, <1>2, SetInduction
<1> QED
  BY <1>3 DEF S, Stages

(* Induction along a rank, for a set.                                      *)
LEMMA RankInduction ==
  ASSUME NEW I, NEW r \in [I -> Nat], NEW S,
         \A j \in I : (\A i \in I : r[i] < r[j] => i \in S) => j \in S
  PROVE  I \subseteq S
<1> DEFINE T == {n \in Nat : \A j \in I : r[j] < n => j \in S}
<1>1. 0 \in T
  OBVIOUS
<1>2. ASSUME NEW n \in T \cap Nat PROVE n + 1 \in T
  <2> SUFFICES ASSUME NEW j \in I, r[j] < n + 1 PROVE j \in S
    OBVIOUS
  <2>1. ASSUME NEW i \in I, r[i] < r[j] PROVE i \in S
    <3>1. r[i] < n
      BY <2>1
    <3> QED
      BY <1>2, <3>1
  <2> QED
    BY <2>1
<1>3. Nat \subseteq T
  <2> HIDE DEF T
  <2> QED
    BY <1>1, <1>2, SetInduction
<1> SUFFICES ASSUME NEW j \in I PROVE j \in S
  OBVIOUS
<1>4. r[j] + 1 \in T /\ r[j] < r[j] + 1
  BY <1>3
<1> QED
  BY <1>4

\* A step by which each value follows from those of lower rank.
Descends(I, r, D, G) ==
  /\ G \in [[I -> D] -> [I -> D]]
  /\ \A f, g \in [I -> D] : \A j \in I :
       (\A i \in I : r[i] < r[j] => f[i] = g[i]) => G[f][j] = G[g][j]

(* An equation for a function, by which each value follows from those of   *)
(* lower rank, has a solution: the stage that is one more than the ranks.  *)
LEMMA RecursionSolved ==
  ASSUME NEW I, NEW N \in Nat, NEW r \in [I -> 0 .. N], NEW D, D # {},
         NEW G, Descends(I, r, D, G)
  PROVE  \E f \in [I -> D] : f = G[f]
<1> G \in [[I -> D] -> [I -> D]]
  BY DEF Descends
<1>1. PICK d \in D : TRUE
  OBVIOUS
<1> DEFINE base == [j \in I |-> d]
<1>2. PICK h \in Stages(N + 2, [I -> D], base, G) : TRUE
  <2> DEFINE F == [I -> D]
             M == N + 2
  <2>1. base \in F /\ M \in Nat /\ G \in [F -> F]
    OBVIOUS
  <2> HIDE DEF base, F, M
  <2>2. Stages(M, F, base, G) # {}
    BY <2>1, StagesExist
  <2> QED
    BY <2>2 DEF F, M
<1>3. /\ h \in [0 .. N + 2 -> [I -> D]]
      /\ \A k \in 1 .. N + 2 : h[k] = G[h[k - 1]]
  BY <1>2 DEF Stages
<1> HIDE DEF base
<1> DEFINE T == {k \in Nat : k <= N + 1 => \A j \in I : r[j] < k => h[k][j] = h[k + 1][j]}
<1>4. 0 \in T
  OBVIOUS
<1>5. ASSUME NEW k \in T \cap Nat PROVE k + 1 \in T
  <2> SUFFICES ASSUME k + 1 <= N + 1, NEW j \in I, r[j] < k + 1
               PROVE  h[k + 1][j] = h[k + 2][j]
    OBVIOUS
  <2>1. /\ h[k] \in [I -> D] /\ h[k + 1] \in [I -> D]
        /\ h[k + 1] = G[h[k]] /\ h[k + 2] = G[h[k + 1]]
    <3>1. /\ k \in 0 .. N + 2 /\ k + 1 \in 1 .. N + 2 /\ k + 2 \in 1 .. N + 2
          /\ k + 1 - 1 = k /\ k + 2 - 1 = k + 1 /\ k + 1 \in 0 .. N + 2
      OBVIOUS
    <3>2. h[k] \in [I -> D] /\ h[k + 1] \in [I -> D]
      BY <1>3, <3>1
    <3>3. \A i \in 1 .. N + 2 : h[i] = G[h[i - 1]]
      BY <1>3
    <3>4. h[k + 1] = G[h[k + 1 - 1]] /\ h[k + 2] = G[h[k + 2 - 1]]
      BY ONLY <3>1, <3>3
    <3> QED
      BY <3>1, <3>2, <3>4
  <2>2. ASSUME NEW i \in I, r[i] < r[j] PROVE h[k][i] = h[k + 1][i]
    <3>1. r[i] < k /\ k <= N + 1
      BY <2>2
    <3> QED
      BY <3>1, <1>5
  <2> QED
    BY <2>1, <2>2 DEF Descends
<1>6. N + 1 \in T
  <2>1. Nat \subseteq T
    <3> HIDE DEF T
    <3> QED
      BY <1>4, <1>5, SetInduction
  <2> QED
    BY <2>1
<1>7. /\ h[N + 1] \in [I -> D] /\ h[N + 2] \in [I -> D] /\ h[N + 2] = G[h[N + 1]]
  <2>1. N + 1 \in 0 .. N + 2 /\ N + 2 \in 1 .. N + 2 /\ N + 2 - 1 = N + 1
    OBVIOUS
  <2> QED
    BY <1>3, <2>1
<1>8. h[N + 1] = h[N + 2]
  <2>1. \A j \in I : h[N + 1][j] = h[N + 2][j]
    <3>1. \A j \in I : r[j] < N + 1
      OBVIOUS
    <3>2. N + 1 + 1 = N + 2 /\ N + 1 <= N + 1
      OBVIOUS
    <3> QED
      BY <1>6, <3>1, <3>2
  <2> QED
    BY <1>7, <2>1
<1> QED
  BY <1>7, <1>8

(* Induction up to a number.                                               *)
LEMMA UpTo ==
  ASSUME NEW n \in Nat, NEW S, 0 \in S, \A i \in 1 .. n : i - 1 \in S => i \in S
  PROVE  \A i \in 0 .. n : i \in S
<1> DEFINE T == {i \in Nat : i <= n => i \in S}
<1>1. 0 \in T
  OBVIOUS
<1>2. ASSUME NEW i \in T \cap Nat PROVE i + 1 \in T
  <2> SUFFICES ASSUME i + 1 <= n PROVE i + 1 \in S
    OBVIOUS
  <2>1. i + 1 \in 1 .. n /\ i + 1 - 1 = i /\ i \in S
    BY <1>2
  <2> QED
    BY <2>1
<1> HIDE DEF T
<1>3. Nat \subseteq T
  BY <1>1, <1>2, SetInduction
<1> QED
  BY <1>3 DEF T

\* What each turn of a loop does, and the course of it.
Turns(n, D) == [1 .. n -> [D -> D]]
Courses(n, D, base, turn) ==
  {f \in [0 .. n -> D] : f[0] = base /\ \A i \in 1 .. n : f[i] = turn[i][f[i - 1]]}

(* A loop over a count has a course.                                       *)
LEMMA LoopRuns ==
  ASSUME NEW n \in Nat, NEW D, NEW base \in D, NEW turn \in Turns(n, D)
  PROVE  Courses(n, D, base, turn) # {}
<1>1. turn \in [1 .. n -> [D -> D]]
  BY DEF Turns
<1> DEFINE Good(k) == \E f \in [0 .. k -> D] :
             f[0] = base /\ \A i \in 1 .. k : f[i] = turn[i][f[i - 1]]
           S == {k \in Nat : k <= n => Good(k)}
<1>2. 0 \in S
  <2> DEFINE f == [k \in 0 .. 0 |-> base]
  <2>1. f \in [0 .. 0 -> D] /\ f[0] = base
    OBVIOUS
  <2>2. \A i \in 1 .. 0 : FALSE
    OBVIOUS
  <2> QED
    BY <2>1, <2>2
<1>3. ASSUME NEW k \in S \cap Nat PROVE k + 1 \in S
  <2> SUFFICES ASSUME k + 1 <= n PROVE Good(k + 1)
    <3> HIDE DEF Good
    <3> QED
      OBVIOUS
  <2>1. PICK f \in [0 .. k -> D] :
          f[0] = base /\ \A i \in 1 .. k : f[i] = turn[i][f[i - 1]]
    <3>1. k <= n
      OBVIOUS
    <3> QED
      BY <1>3, <3>1
  <2> DEFINE g == [i \in 0 .. k + 1 |-> IF i = k + 1 THEN turn[k + 1][f[k]] ELSE f[i]]
  <2>2. g \in [0 .. k + 1 -> D]
    <3>1. k + 1 \in 1 .. n /\ f[k] \in D
      BY <2>1
    <3>2. turn[k + 1][f[k]] \in D
      BY <3>1, <1>1
    <3>3. \A i \in 0 .. k + 1 : i # k + 1 => f[i] \in D
      BY <2>1
    <3> QED
      BY <3>2, <3>3
  <2>3. g[0] = base
    BY <2>1
  <2>4. ASSUME NEW i \in 1 .. k + 1 PROVE g[i] = turn[i][g[i - 1]]
    <3>1. CASE i = k + 1
      <4>1. g[i - 1] = f[k] /\ g[i] = turn[k + 1][f[k]]
        BY <3>1
      <4> QED
        BY <3>1, <4>1
    <3>2. CASE i # k + 1
      <4>1. i \in 1 .. k /\ g[i - 1] = f[i - 1] /\ g[i] = f[i]
        BY <3>2
      <4> QED
        BY <4>1, <2>1
    <3> QED
      BY <3>1, <3>2
  <2> QED
    BY <2>2, <2>3, <2>4
<1> HIDE DEF S
<1>4. n \in S
  BY <1>2, <1>3, SetInduction
<1> QED
  BY <1>4 DEF S, Courses

(* What is given by the equation of a loop is in the loop's range.         *)
LEMMA LoopStays ==
  ASSUME NEW n \in Nat, NEW D, NEW c, c[0] \in D,
         \A i \in 1 .. n : c[i - 1] \in D => c[i] \in D
  PROVE  \A i \in 0 .. n : c[i] \in D
<1> DEFINE S == {i \in 0 .. n : c[i] \in D}
<1>1. 0 \in S
  OBVIOUS
<1>2. ASSUME NEW i \in 1 .. n, i - 1 \in S PROVE i \in S
  BY <1>2
<1> HIDE DEF S
<1>3. \A i \in 0 .. n : i \in S
  BY <1>1, <1>2, UpTo
<1> QED
  BY <1>3 DEF S

------------------------------------------------------------------------------
(* Division and common divisors.                                           *)

Divides(k, m) == \E q \in Int : m = k * q
Divisors(m) == {k \in Nat : Divides(k, m)}
CommonDivisors(m, n) == Divisors(m) \cap Divisors(n)

(* Euclid's division.                                                      *)
LEMMA EuclidDivision ==
  ASSUME NEW a \in Int, NEW b \in Nat \ {0}
  PROVE  /\ a \div b \in Int /\ a % b \in 0 .. b - 1
         /\ a = b * (a \div b) + (a % b)
<1>1. a \div b \in Int
  OBVIOUS
<1>2. a % b \in 0 .. b - 1
  OBVIOUS
<1>3. a = b * (a \div b) + (a % b)
  OBVIOUS
<1> QED
  BY <1>1, <1>2, <1>3

(* Quotient and remainder are unique.                                      *)
LEMMA DivisionUnique ==
  ASSUME NEW b \in Nat \ {0}, NEW q \in Int, NEW r \in 0 .. b - 1
  PROVE  (b * q + r) \div b = q /\ (b * q + r) % b = r
<1> DEFINE a == b * q + r
           p == a \div b
           s == a % b
<1>1. a \in Int
  OBVIOUS
<1>2. p \in Int /\ s \in 0 .. b - 1 /\ a = b * p + s
  BY <1>1, EuclidDivision
<1>3. b * q + r = b * p + s
  BY <1>2
<1> HIDE DEF p, s
<1>4. b * (q - p) = s - r
  BY <1>2, <1>3
<1>5. ~(q - p >= 1)
  <2> SUFFICES ASSUME q - p >= 1 PROVE FALSE
    OBVIOUS
  <2>1. b * (q - p) >= b
    BY <1>2
  <2> QED
    BY <2>1, <1>4, <1>2
<1>6. ~(q - p <= -1)
  <2> SUFFICES ASSUME q - p <= -1 PROVE FALSE
    OBVIOUS
  <2>1. b * (q - p) <= -b
    BY <1>2
  <2> QED
    BY <2>1, <1>4, <1>2
<1>7. q = p
  BY <1>5, <1>6, <1>2
<1>8. r = s
  BY <1>3, <1>7, <1>2
<1> QED
  BY <1>7, <1>8 DEF p, s

(* What divides a number and its divisor divides the remainder.            *)
LEMMA SameDivisors ==
  ASSUME NEW m \in Nat, NEW n \in Nat \ {0}
  PROVE  CommonDivisors(m, n) = CommonDivisors(n, m % n)
<1> DEFINE q == m \div n
           r == m % n
<1>1. q \in Int /\ r \in Nat /\ m = n * q + r
  BY EuclidDivision
<1> HIDE DEF q, r
<1>2. ASSUME NEW k \in Nat, Divides(k, m), Divides(k, n) PROVE Divides(k, r)
  <2>1. PICK x \in Int : m = k * x
    BY <1>2 DEF Divides
  <2>2. PICK y \in Int : n = k * y
    BY <1>2 DEF Divides
  <2>3. r = k * x - (k * y) * q
    BY <1>1, <2>1, <2>2
  <2>4. k * x - (k * y) * q = k * (x - y * q)
    BY <1>1
  <2>5. x - y * q \in Int
    BY <1>1
  <2> QED
    BY <2>3, <2>4, <2>5 DEF Divides
<1>3. ASSUME NEW k \in Nat, Divides(k, n), Divides(k, r) PROVE Divides(k, m)
  <2>1. PICK x \in Int : r = k * x
    BY <1>3 DEF Divides
  <2>2. PICK y \in Int : n = k * y
    BY <1>3 DEF Divides
  <2>3. m = (k * y) * q + k * x
    BY <1>1, <2>1, <2>2
  <2>4. (k * y) * q + k * x = k * (y * q + x)
    BY <1>1
  <2>5. y * q + x \in Int
    BY <1>1
  <2> QED
    BY <2>3, <2>4, <2>5 DEF Divides
<1> QED
  BY <1>2, <1>3 DEF CommonDivisors, Divisors, r

LEMMA DividesItself == ASSUME NEW m \in Nat PROVE m \in Divisors(m)
<1>1. m = m * 1
  OBVIOUS
<1> QED
  BY <1>1 DEF Divisors, Divides

LEMMA AllDivideZero == ASSUME NEW m \in Nat PROVE CommonDivisors(m, 0) = Divisors(m)
<1>1. \A k \in Nat : 0 = k * 0
  OBVIOUS
<1> QED
  BY <1>1 DEF CommonDivisors, Divisors, Divides

(* A number is known by its divisors.                                      *)
LEMMA DivisorsDistinct ==
  ASSUME NEW m \in Nat, NEW n \in Nat, Divisors(m) = Divisors(n)
  PROVE  m = n
<1>1. PICK x \in Int : m = n * x
  BY DividesItself DEF Divisors, Divides
<1>2. PICK y \in Int : n = m * y
  BY DividesItself DEF Divisors, Divides
<1>3. CASE m = 0
  BY <1>2, <1>3
<1>4. CASE n = 0
  BY <1>1, <1>4
<1>5. CASE m > 0 /\ n > 0
  <2>1. x >= 1
    <3> SUFFICES ASSUME x <= 0 PROVE FALSE
      OBVIOUS
    <3>1. n * x <= 0
      BY <1>5
    <3> QED
      BY <3>1, <1>1, <1>5
  <2>2. y >= 1
    <3> SUFFICES ASSUME y <= 0 PROVE FALSE
      OBVIOUS
    <3>1. m * y <= 0
      BY <1>5
    <3> QED
      BY <3>1, <1>2, <1>5
  <2>3. n * x >= n
    BY <2>1, <1>5
  <2>4. m * y >= m
    BY <2>2, <1>5
  <2> QED
    BY <2>3, <2>4, <1>1, <1>2
<1> QED
  BY <1>3, <1>4, <1>5

(* Euclid's algorithm: the function exists, since the number whose divisors*)
(* are the common ones stays the same from step to step.                   *)
LEMMA GcdStep ==
  ASSUME NEW m \in Nat, NEW n \in Nat
  PROVE  Gcd[<<m, n>>] = IF n = 0 THEN m ELSE Gcd[<<n, m % n>>]
<1> DEFINE f == [p \in Nat \X Nat |->
                   CHOOSE k \in Nat : Divisors(k) = CommonDivisors(p[1], p[2])]
<1>1. ASSUME NEW p \in Nat \X Nat, p[2] = 0 PROVE f[p] = p[1]
  <2>1. \A k \in Nat : Divisors(k) = CommonDivisors(p[1], 0) <=> k = p[1]
    BY AllDivideZero, DivisorsDistinct
  <2> QED
    BY <2>1, <1>1
<1>2. ASSUME NEW p \in Nat \X Nat, p[2] # 0 PROVE f[p] = f[<<p[2], p[1] % p[2]>>]
  <2>0. p[1] \in Int /\ p[2] \in Nat \ {0}
    BY <1>2
  <2>1. p[1] % p[2] \in Nat
    <3>1. \A a \in Int : \A b \in Nat \ {0} : a % b \in Nat
      BY EuclidDivision
    <3> QED
      BY <2>0, <3>1
  <2>2. <<p[2], p[1] % p[2]>> \in Nat \X Nat
    BY <2>1
  <2>3. CommonDivisors(p[1], p[2]) = CommonDivisors(p[2], p[1] % p[2])
    BY <1>2, SameDivisors
  <2> QED
    BY <2>2, <2>3
<1>3. f = [p \in Nat \X Nat |-> IF p[2] = 0 THEN p[1] ELSE f[<<p[2], p[1] % p[2]>>]]
  <2> HIDE DEF f
  <2>1. \A p \in Nat \X Nat : f[p] = IF p[2] = 0 THEN p[1] ELSE f[<<p[2], p[1] % p[2]>>]
    BY <1>1, <1>2
  <2>2. f = [p \in Nat \X Nat |-> f[p]]
    BY DEF f
  <2> QED
    BY <2>1, <2>2
<1> HIDE DEF f
<1>4. Gcd = [p \in Nat \X Nat |-> IF p[2] = 0 THEN p[1] ELSE Gcd[<<p[2], p[1] % p[2]>>]]
  BY <1>3 DEF Gcd
<1> QED
  BY ONLY <1>4, m \in Nat, n \in Nat

(* It finds a greatest common divisor.                                     *)
LEMMA GcdDivides ==
  ASSUME NEW m \in Nat, NEW n \in Nat
  PROVE  /\ Gcd[<<m, n>>] \in Nat
         /\ Divisors(Gcd[<<m, n>>]) = CommonDivisors(m, n)
<1> DEFINE Good(x, y) == /\ Gcd[<<x, y>>] \in Nat
                         /\ Divisors(Gcd[<<x, y>>]) = CommonDivisors(x, y)
           S == {k \in Nat : \A x \in Nat : \A y \in 0 .. k : Good(x, y)}
<1>1. \A x \in Nat : Good(x, 0)
  BY GcdStep, AllDivideZero
<1>2. 0 \in S
  <2>1. 0 .. 0 = {0}
    OBVIOUS
  <2> HIDE DEF Good
  <2> QED
    BY <1>1, <2>1
<1>3. ASSUME NEW k \in S \cap Nat PROVE k + 1 \in S
  <2>1. ASSUME NEW x \in Nat PROVE Good(x, k + 1)
    <3>1. x \in Int /\ k + 1 \in Nat \ {0}
      OBVIOUS
    <3>2. x % (k + 1) \in 0 .. k
      <4>1. x % (k + 1) \in 0 .. (k + 1) - 1
        BY <3>1, EuclidDivision
      <4> QED
        BY <4>1
    <3>3. Good(k + 1, x % (k + 1))
      <4> HIDE DEF Good
      <4>1. \A a \in Nat : \A b \in 0 .. k : Good(a, b)
        BY <1>3
      <4> QED
        BY <4>1, <3>1, <3>2
    <3>4. Gcd[<<x, k + 1>>] = Gcd[<<k + 1, x % (k + 1)>>]
      BY GcdStep, <3>1
    <3>5. CommonDivisors(x, k + 1) = CommonDivisors(k + 1, x % (k + 1))
      BY SameDivisors, <3>1
    <3> QED
      BY <3>3, <3>4, <3>5
  <2> HIDE DEF Good
  <2>2. \A y \in 0 .. k + 1 : y \in 0 .. k \/ y = k + 1
    OBVIOUS
  <2>3. \A x \in Nat : \A y \in 0 .. k + 1 : Good(x, y)
    BY <2>1, <2>2, <1>3
  <2> QED
    BY <2>3
<1> HIDE DEF S
<1>4. n \in S
  BY <1>2, <1>3, SetInduction
<1> HIDE DEF Good
<1>5. Good(m, n)
  <2>1. n \in 0 .. n
    OBVIOUS
  <2> QED
    BY <1>4, <2>1 DEF S
<1> QED
  BY <1>5 DEF Good

LEMMA GcdFactors ==
  ASSUME NEW m \in Nat, NEW n \in Nat \ {0}
  PROVE  /\ Gcd[<<m, n>>] \in Nat \ {0}
         /\ Divides(Gcd[<<m, n>>], m) /\ Divides(Gcd[<<m, n>>], n)
<1>1. Gcd[<<m, n>>] \in CommonDivisors(m, n)
  BY GcdDivides, DividesItself
<1>2. Gcd[<<m, n>>] \in Nat /\ Divides(Gcd[<<m, n>>], m) /\ Divides(Gcd[<<m, n>>], n)
  BY <1>1 DEF CommonDivisors, Divisors
<1>3. Gcd[<<m, n>>] # 0
  BY <1>2 DEF Divides
<1> QED
  BY <1>2, <1>3

LEMMA RemainderScales ==
  ASSUME NEW k \in Nat \ {0}, NEW m \in Nat, NEW n \in Nat \ {0}
  PROVE  (k * m) % (k * n) = k * (m % n)
<1> DEFINE q == m \div n
           r == m % n
<1>1. q \in Int /\ r \in 0 .. n - 1 /\ m = n * q + r
  BY EuclidDivision
<1> HIDE DEF q, r
<1>2. k * n \in Nat \ {0}
  <2>1. k * n \in Int
    OBVIOUS
  <2>2. k * n >= 1
    OBVIOUS
  <2> QED
    BY <2>1, <2>2
<1>3. k * r \in 0 .. k * n - 1
  <2>1. k * r >= 0 /\ k * r \in Int
    BY <1>1
  <2>2. k * r <= k * (n - 1)
    BY <1>1
  <2>3. k * (n - 1) = k * n - k
    OBVIOUS
  <2> QED
    BY <2>1, <2>2, <2>3, <1>1
<1>4. k * m = (k * n) * q + k * r
  BY <1>1
<1>5. ((k * n) * q + k * r) % (k * n) = k * r
  BY <1>1, <1>2, <1>3, DivisionUnique
<1> QED
  BY <1>4, <1>5 DEF r

(* A common factor is a factor of it.                                      *)
LEMMA GcdScales ==
  ASSUME NEW k \in Nat \ {0}, NEW m \in Nat, NEW n \in Nat
  PROVE  Gcd[<<k * m, k * n>>] = k * Gcd[<<m, n>>]
<1> DEFINE Good(x, y) == Gcd[<<k * x, k * y>>] = k * Gcd[<<x, y>>]
           S == {b \in Nat : \A x \in Nat : \A y \in 0 .. b : Good(x, y)}
<1>0. \A x \in Nat : k * x \in Nat
  OBVIOUS
<1>1. ASSUME NEW x \in Nat PROVE Good(x, 0)
  <2>1. k * 0 = 0
    OBVIOUS
  <2>2. Gcd[<<k * x, 0>>] = k * x
    BY <1>0, GcdStep
  <2>3. Gcd[<<x, 0>>] = x
    BY GcdStep
  <2> QED
    BY <2>1, <2>2, <2>3
<1>2. 0 \in S
  <2>1. 0 .. 0 = {0}
    OBVIOUS
  <2> HIDE DEF Good
  <2> QED
    BY <1>1, <2>1
<1>3. ASSUME NEW b \in S \cap Nat PROVE b + 1 \in S
  <2>1. ASSUME NEW x \in Nat PROVE Good(x, b + 1)
    <3>1. x \in Int /\ b + 1 \in Nat \ {0}
      OBVIOUS
    <3>2. x % (b + 1) \in 0 .. b
      <4>1. x % (b + 1) \in 0 .. (b + 1) - 1
        BY <3>1, EuclidDivision
      <4> QED
        BY <4>1
    <3>3. Good(b + 1, x % (b + 1))
      <4> HIDE DEF Good
      <4>1. \A a \in Nat : \A c \in 0 .. b : Good(a, c)
        BY <1>3
      <4> QED
        BY <4>1, <3>1, <3>2
    <3>4. Gcd[<<x, b + 1>>] = Gcd[<<b + 1, x % (b + 1)>>]
      BY GcdStep, <3>1
    <3>5. k * (b + 1) \in Nat \ {0}
      <4>1. k * (b + 1) >= 1
        OBVIOUS
      <4> QED
        BY <4>1
    <3>6. (k * x) % (k * (b + 1)) = k * (x % (b + 1))
      BY <3>1, RemainderScales
    <3>7. Gcd[<<k * x, k * (b + 1)>>] = Gcd[<<k * (b + 1), k * (x % (b + 1))>>]
      BY GcdStep, <1>0, <3>5, <3>6
    <3> QED
      BY <3>3, <3>4, <3>7
  <2> HIDE DEF Good
  <2>2. \A y \in 0 .. b + 1 : y \in 0 .. b \/ y = b + 1
    OBVIOUS
  <2>3. \A x \in Nat : \A y \in 0 .. b + 1 : Good(x, y)
    BY <2>1, <2>2, <1>3
  <2> QED
    BY <2>3
<1> HIDE DEF S
<1>4. n \in S
  BY <1>2, <1>3, SetInduction
<1> HIDE DEF Good
<1>5. Good(m, n)
  <2>1. n \in 0 .. n
    OBVIOUS
  <2> QED
    BY <1>4, <2>1 DEF S
<1> QED
  BY <1>5 DEF Good
------------------------------------------------------------------------------
(* Fractions in lowest terms.                                              *)

Positives == Nat \ {0}

LEMMA AbsIntType == ASSUME NEW n \in Int PROVE AbsInt(n) \in Nat /\ AbsInt(n) \in {n, -n}
  BY DEF AbsInt

LEMMA ProductPositive ==
  ASSUME NEW d \in Positives, NEW e \in Positives
  PROVE  d * e \in Positives
<1>1. d * e \in Int
  BY DEF Positives
<1>2. d * e >= 1
  BY DEF Positives
<1> QED
  BY <1>1, <1>2 DEF Positives

LEMMA Cancel ==
  ASSUME NEW k \in Int \ {0}, NEW x \in Int, NEW y \in Int, k * x = k * y
  PROVE  x = y
<1>1. k * (x - y) = 0
  OBVIOUS
<1>2. x - y = 0
  BY <1>1
<1> QED
  BY <1>2

LEMMA CancelLeq ==
  ASSUME NEW k \in Positives, NEW x \in Int, NEW y \in Int
  PROVE  k * x <= k * y <=> x <= y
<1>1. ASSUME x <= y PROVE k * x <= k * y
  BY <1>1 DEF Positives
<1>2. ASSUME x > y PROVE k * x > k * y
  <2>1. k * (x - y) >= 1
    BY <1>2 DEF Positives
  <2>2. k * (x - y) = k * x - k * y
    BY DEF Positives
  <2>3. k * x \in Int /\ k * y \in Int
    BY DEF Positives
  <2> QED
    BY <2>1, <2>2, <2>3
<1>3. k * x \in Int /\ k * y \in Int
  BY DEF Positives
<1> QED
  BY <1>1, <1>2, <1>3

LEMMA QuotientExact ==
  ASSUME NEW k \in Positives, NEW x \in Int
  PROVE  (k * x) \div k = x
<1>1. 0 \in 0 .. k - 1 /\ k \in Nat \ {0}
  BY DEF Positives
<1>2. (k * x + 0) \div k = x
  BY <1>1, DivisionUnique
<1> QED
  BY <1>2 DEF Positives

(* What Frac does: the denominator becomes positive and what both parts    *)
(* share is taken out.                                                     *)
LEMMA FracForm ==
  ASSUME NEW n \in Int, NEW d \in Int \ {0}
  PROVE  /\ Frac(n, d) \in Number
         /\ Frac(n, d)[1] * d = n * Frac(n, d)[2]
<1> DEFINE G == Gcd[<<AbsInt(n), AbsInt(d)>>]
<1>1. AbsInt(n) \in Nat /\ AbsInt(d) \in Nat \ {0}
  BY DEF AbsInt
<1>2. G \in Positives /\ Divides(G, AbsInt(n)) /\ Divides(G, AbsInt(d))
  BY <1>1, GcdFactors DEF Positives
<1> DEFINE sigma == IF d < 0 THEN -1 ELSE 1
<1>3. Frac(n, d) = <<(sigma * n) \div G, (sigma * d) \div G>>
  <2>1. sigma \in {1, -1}
    OBVIOUS
  <2>2. G * sigma < 0 <=> sigma = -1
    <3>1. G * 1 = G /\ G * (-1) = -G
      BY <1>2 DEF Positives
    <3> HIDE DEF G
    <3> QED
      BY <2>1, <3>1, <1>2 DEF Positives
  <2>3. sigma * (G * sigma) = G
    <3> HIDE DEF G
    <3>1. 1 * (G * 1) = G /\ (-1) * (G * (-1)) = G
      BY <1>2 DEF Positives
    <3> QED
      BY <2>1, <3>1
  <2>4. (IF G * sigma < 0 THEN -1 ELSE 1) = sigma
    BY <2>1, <2>2
  <2>5. Frac(n, d) = LET g == G * sigma
                         sign == IF g < 0 THEN -1 ELSE 1
                     IN  <<(sign * n) \div (sign * g), (sign * d) \div (sign * g)>>
    BY DEF Frac
  <2> HIDE DEF G, sigma
  <2> QED
    BY <2>3, <2>4, <2>5
<1> HIDE DEF G
<1>4. PICK x \in Int : AbsInt(n) = G * x
  BY <1>2 DEF Divides
<1>5. PICK y \in Int : AbsInt(d) = G * y
  BY <1>2 DEF Divides
<1>6. sigma * d = AbsInt(d)
  BY DEF AbsInt
<1>7. y \in Positives
  <2>1. ~(y <= 0)
    <3> SUFFICES ASSUME y <= 0 PROVE FALSE
      OBVIOUS
    <3>1. G * y <= 0
      BY <1>2 DEF Positives
    <3> QED
      BY <3>1, <1>5, <1>1
  <2> QED
    BY <2>1 DEF Positives
<1>8. x \in Nat
  <2>1. ~(x < 0)
    <3> SUFFICES ASSUME x < 0 PROVE FALSE
      OBVIOUS
    <3>1. G * x < 0
      BY <1>2 DEF Positives
    <3> QED
      BY <3>1, <1>4, <1>1
  <2> QED
    BY <2>1
<1>9. PICK z \in {x, -x} : sigma * n = G * z
  <2>1. sigma * n \in {AbsInt(n), -AbsInt(n)}
    BY DEF AbsInt
  <2>2. -(G * x) = G * (-x)
    BY <1>2 DEF Positives
  <2> QED
    BY <2>1, <2>2, <1>4
<1>10. z \in Int /\ AbsInt(z) = x
  BY <1>8 DEF AbsInt
<1>11. Frac(n, d) = <<z, y>>
  <2>1. (G * z) \div G = z /\ (G * y) \div G = y
    BY <1>2, <1>10, QuotientExact
  <2> QED
    BY <2>1, <1>3, <1>5, <1>6, <1>9
<1>12. Gcd[<<x, y>>] = 1
  <2>1. G = G * Gcd[<<x, y>>]
    <3>1. G \in Nat \ {0} /\ y \in Nat
      BY <1>2, <1>7 DEF Positives
    <3>2. Gcd[<<G * x, G * y>>] = G * Gcd[<<x, y>>]
      BY <3>1, <1>8, GcdScales
    <3> QED
      BY <3>2, <1>4, <1>5 DEF G
  <2>2. Gcd[<<x, y>>] \in Int
    BY <1>7, <1>8, GcdDivides DEF Positives
  <2>3. G * 1 = G /\ G \in Int \ {0}
    BY <1>2 DEF Positives
  <2>4. G * Gcd[<<x, y>>] = G * 1 /\ 1 \in Int
    BY <2>1, <2>3
  <2> QED
    BY <2>2, <2>3, <2>4, Cancel
<1>13. z * d = n * y
  <2>1. sigma * n = G * z /\ sigma * d = G * y
    BY <1>5, <1>6, <1>9
  <2>2. G * (z * d) = (sigma * n) * d
    BY <2>1, <1>2, <1>10 DEF Positives
  <2>3. G * (n * y) = n * (sigma * d)
    BY <2>1, <1>2 DEF Positives
  <2>4. (sigma * n) * d = n * (sigma * d)
    OBVIOUS
  <2>5. G \in Int \ {0} /\ z * d \in Int /\ n * y \in Int
    BY <1>2, <1>10 DEF Positives
  <2>6. G * (z * d) = G * (n * y)
    BY <2>2, <2>3, <2>4
  <2> QED
    BY <2>5, <2>6, Cancel
<1> QED
  BY <1>7, <1>10, <1>11, <1>12, <1>13 DEF Number, Positives
LEMMA NumberType ==
  ASSUME NEW a \in Number
  PROVE  a[1] \in Int /\ a[2] \in Positives /\ a = <<a[1], a[2]>>
  BY DEF Number, Positives

(* Two fractions in lowest terms with the same value are the same.         *)
LEMMA NumberUnique ==
  ASSUME NEW a \in Number, NEW b \in Number, a[1] * b[2] = b[1] * a[2]
  PROVE  a = b
<1> DEFINE m == a[1]
           n == a[2]
           x == b[1]
           y == b[2]
<1>1. m \in Int /\ n \in Positives /\ x \in Int /\ y \in Positives
  BY NumberType
<1>2. Gcd[<<AbsInt(m), n>>] = 1 /\ Gcd[<<AbsInt(x), y>>] = 1
  BY DEF Number
<1>3. m * y = x * n
  OBVIOUS
<1>4. a = <<m, n>> /\ b = <<x, y>>
  BY NumberType
<1> HIDE DEF m, n, x, y
<1>5. AbsInt(m) * y = AbsInt(x) * n
  <2>1. CASE m < 0
    <3>1. m * y < 0
      BY <1>1, <2>1 DEF Positives
    <3>2. x < 0
      <4> SUFFICES ASSUME x >= 0 PROVE FALSE
        BY <1>1
      <4>1. x * n >= 0
        BY <1>1 DEF Positives
      <4>2. m * y \in Int /\ x * n \in Int
        BY <1>1 DEF Positives
      <4> QED
        BY <3>1, <4>1, <4>2, <1>3
    <3>3. (-m) * y = -(m * y) /\ (-x) * n = -(x * n)
      BY <1>1 DEF Positives
    <3> QED
      BY <2>1, <3>2, <3>3, <1>3 DEF AbsInt
  <2>2. CASE m >= 0
    <3>1. m * y >= 0
      BY <1>1, <2>2 DEF Positives
    <3>2. x >= 0
      <4> SUFFICES ASSUME x < 0 PROVE FALSE
        BY <1>1
      <4>1. x * n < 0
        BY <1>1 DEF Positives
      <4>2. m * y \in Int /\ x * n \in Int
        BY <1>1 DEF Positives
      <4> QED
        BY <3>1, <4>1, <4>2, <1>3
    <3> QED
      BY <2>2, <3>2, <1>3, <1>1 DEF AbsInt
  <2> QED
    BY <2>1, <2>2, <1>1
<1>6. y = n
  <2>1. AbsInt(m) \in Nat /\ AbsInt(x) \in Nat
    BY <1>1, AbsIntType
  <2>2. Gcd[<<y * AbsInt(m), y * n>>] = y * Gcd[<<AbsInt(m), n>>]
    BY <1>1, <2>1, GcdScales DEF Positives
  <2>3. Gcd[<<n * AbsInt(x), n * y>>] = n * Gcd[<<AbsInt(x), y>>]
    BY <1>1, <2>1, GcdScales DEF Positives
  <2>4. y * AbsInt(m) = n * AbsInt(x) /\ y * n = n * y
    BY <1>1, <1>5, <2>1 DEF Positives
  <2>5. y * 1 = y /\ n * 1 = n
    BY <1>1 DEF Positives
  <2> QED
    BY <2>2, <2>3, <2>4, <2>5, <1>2
<1>7. m = x
  <2>1. y * m = y * x /\ y \in Int \ {0}
    BY <1>1, <1>3, <1>6 DEF Positives
  <2> QED
    BY <2>1, <1>1, Cancel
<1> QED
  BY <1>4, <1>6, <1>7

LEMMA FracOfNumber == ASSUME NEW a \in Number PROVE Frac(a[1], a[2]) = a
<1>1. a[1] \in Int /\ a[2] \in Int \ {0}
  BY NumberType DEF Positives
<1>2. Frac(a[1], a[2]) \in Number /\ Frac(a[1], a[2])[1] * a[2] = a[1] * Frac(a[1], a[2])[2]
  BY <1>1, FracForm
<1> QED
  BY <1>2, NumberUnique

(* Fractions are equal when crosswise products are.                        *)
LEMMA FracEqual ==
  ASSUME NEW n \in Int, NEW d \in Int \ {0}, NEW m \in Int, NEW e \in Int \ {0},
         n * e = m * d
  PROVE  Frac(n, d) = Frac(m, e)
<1> DEFINE a == Frac(n, d)
           b == Frac(m, e)
<1>1. /\ a \in Number /\ a[1] * d = n * a[2]
      /\ b \in Number /\ b[1] * e = m * b[2]
  BY FracForm
<1> HIDE DEF a, b
<1>2. PICK p \in Int : p = a[1]
  BY <1>1, NumberType
<1>3. PICK q \in Positives : q = a[2]
  BY <1>1, NumberType
<1>4. PICK r \in Int : r = b[1]
  BY <1>1, NumberType
<1>5. PICK s \in Positives : s = b[2]
  BY <1>1, NumberType
<1>6. p * d = n * q /\ r * e = m * s
  BY <1>1, <1>2, <1>3, <1>4, <1>5
<1>7. (d * e) * (p * s) = (d * e) * (r * q)
  <2>1. (d * e) * (p * s) = (p * d) * (e * s)
    BY DEF Positives
  <2>2. (n * q) * (e * s) = (n * e) * (q * s)
    BY DEF Positives
  <2>3. (m * d) * (q * s) = (m * s) * (d * q)
    BY DEF Positives
  <2>4. (r * e) * (d * q) = (d * e) * (r * q)
    BY DEF Positives
  <2> QED
    BY <2>1, <2>2, <2>3, <2>4, <1>6
<1>8. d * e \in Int \ {0} /\ p * s \in Int /\ r * q \in Int
  BY DEF Positives
<1>9. p * s = r * q
  BY <1>7, <1>8, Cancel
<1> QED
  BY <1>1, <1>2, <1>3, <1>4, <1>5, <1>9, NumberUnique DEF a, b

LEMMA FracPositive ==
  ASSUME NEW n \in Int, NEW d \in Positives
  PROVE  /\ Frac(n, d) \in Number
         /\ Frac(n, d)[1] * d = n * Frac(n, d)[2]
  BY FracForm DEF Positives

------------------------------------------------------------------------------
(* The operations, of fractions whatever their terms.                      *)

LEMMA PlusFrac ==
  ASSUME NEW n \in Int, NEW d \in Positives, NEW m \in Int, NEW e \in Positives
  PROVE  Plus(Frac(n, d), Frac(m, e)) = Frac(n * e + m * d, d * e)
<1> DEFINE a == Frac(n, d)
           b == Frac(m, e)
<1>1. /\ a \in Number /\ a[1] * d = n * a[2]
      /\ b \in Number /\ b[1] * e = m * b[2]
  BY FracPositive
<1> HIDE DEF a, b
<1>2. PICK p \in Int : p = a[1]
  BY <1>1, NumberType
<1>3. PICK q \in Positives : q = a[2]
  BY <1>1, NumberType
<1>4. PICK r \in Int : r = b[1]
  BY <1>1, NumberType
<1>5. PICK s \in Positives : s = b[2]
  BY <1>1, NumberType
<1>6. p * d = n * q /\ r * e = m * s
  BY <1>1, <1>2, <1>3, <1>4, <1>5
<1>7. Plus(a, b) = Frac(p * s + r * q, q * s)
  BY <1>2, <1>3, <1>4, <1>5 DEF Plus
<1>8. (p * s + r * q) * (d * e) = (n * e + m * d) * (q * s)
  <2>1. (p * s + r * q) * (d * e) = (p * d) * (s * e) + (r * e) * (q * d)
    BY DEF Positives
  <2>2. (n * e + m * d) * (q * s) = (n * q) * (s * e) + (m * s) * (q * d)
    BY DEF Positives
  <2> QED
    BY <2>1, <2>2, <1>6
<1>9. q * s \in Int \ {0} /\ d * e \in Int \ {0}
  BY ProductPositive DEF Positives
<1>10. p * s + r * q \in Int /\ n * e + m * d \in Int
  BY DEF Positives
<1>11. Frac(p * s + r * q, q * s) = Frac(n * e + m * d, d * e)
  <2>1. \A x, y \in Int : \A u, w \in Int \ {0} : x * w = y * u => Frac(x, u) = Frac(y, w)
    BY FracEqual
  <2> QED
    BY <1>8, <1>9, <1>10, <2>1
<1> QED
  BY <1>7, <1>11 DEF a, b

LEMMA TimesFrac ==
  ASSUME NEW n \in Int, NEW d \in Positives, NEW m \in Int, NEW e \in Positives
  PROVE  Times(Frac(n, d), Frac(m, e)) = Frac(n * m, d * e)
<1> DEFINE a == Frac(n, d)
           b == Frac(m, e)
<1>1. /\ a \in Number /\ a[1] * d = n * a[2]
      /\ b \in Number /\ b[1] * e = m * b[2]
  BY FracPositive
<1> HIDE DEF a, b
<1>2. PICK p \in Int : p = a[1]
  BY <1>1, NumberType
<1>3. PICK q \in Positives : q = a[2]
  BY <1>1, NumberType
<1>4. PICK r \in Int : r = b[1]
  BY <1>1, NumberType
<1>5. PICK s \in Positives : s = b[2]
  BY <1>1, NumberType
<1>6. p * d = n * q /\ r * e = m * s
  BY <1>1, <1>2, <1>3, <1>4, <1>5
<1>7. Times(a, b) = Frac(p * r, q * s)
  BY <1>2, <1>3, <1>4, <1>5 DEF Times
<1>8. (p * r) * (d * e) = (n * m) * (q * s)
  <2>1. (p * r) * (d * e) = (p * d) * (r * e)
    BY DEF Positives
  <2>2. (n * m) * (q * s) = (n * q) * (m * s)
    BY DEF Positives
  <2> QED
    BY <2>1, <2>2, <1>6
<1>9. q * s \in Int \ {0} /\ d * e \in Int \ {0}
  BY ProductPositive DEF Positives
<1>10. p * r \in Int /\ n * m \in Int
  BY DEF Positives
<1>11. Frac(p * r, q * s) = Frac(n * m, d * e)
  BY <1>8, <1>9, <1>10, FracEqual
<1> QED
  BY <1>7, <1>11 DEF a, b

LEMMA LeqFrac ==
  ASSUME NEW n \in Int, NEW d \in Positives, NEW m \in Int, NEW e \in Positives
  PROVE  Leq(Frac(n, d), Frac(m, e)) <=> n * e <= m * d
<1> DEFINE a == Frac(n, d)
           b == Frac(m, e)
<1>1. /\ a \in Number /\ a[1] * d = n * a[2]
      /\ b \in Number /\ b[1] * e = m * b[2]
  BY FracPositive
<1> HIDE DEF a, b
<1>2. PICK p \in Int : p = a[1]
  BY <1>1, NumberType
<1>3. PICK q \in Positives : q = a[2]
  BY <1>1, NumberType
<1>4. PICK r \in Int : r = b[1]
  BY <1>1, NumberType
<1>5. PICK s \in Positives : s = b[2]
  BY <1>1, NumberType
<1>6. p * d = n * q /\ r * e = m * s
  BY <1>1, <1>2, <1>3, <1>4, <1>5
<1>7. Leq(a, b) <=> p * s <= r * q
  BY <1>2, <1>3, <1>4, <1>5 DEF Leq
<1>8. (d * e) * (p * s) = (q * s) * (n * e)
  <2>1. (d * e) * (p * s) = (p * d) * (e * s)
    BY DEF Positives
  <2>2. (q * s) * (n * e) = (n * q) * (e * s)
    BY DEF Positives
  <2> QED
    BY <2>1, <2>2, <1>6
<1>9. (d * e) * (r * q) = (q * s) * (m * d)
  <2>1. (d * e) * (r * q) = (r * e) * (d * q)
    BY DEF Positives
  <2>2. (q * s) * (m * d) = (m * s) * (d * q)
    BY DEF Positives
  <2> QED
    BY <2>1, <2>2, <1>6
<1>10. d * e \in Positives /\ q * s \in Positives
  BY ProductPositive
<1>11. p * s \in Int /\ r * q \in Int /\ n * e \in Int /\ m * d \in Int
  BY DEF Positives
<1>12. p * s <= r * q <=> (d * e) * (p * s) <= (d * e) * (r * q)
  BY <1>10, <1>11, CancelLeq
<1>13. n * e <= m * d <=> (q * s) * (n * e) <= (q * s) * (m * d)
  BY <1>10, <1>11, CancelLeq
<1> QED
  BY <1>7, <1>8, <1>9, <1>12, <1>13 DEF a, b
LEMMA SameDenominator ==
  ASSUME NEW n \in Int, NEW m \in Int, NEW d \in Positives
  PROVE  /\ Plus(Frac(n, d), Frac(m, d)) = Frac(n + m, d)
         /\ Leq(Frac(n, d), Frac(m, d)) <=> n <= m
<1>1. d * d \in Int \ {0} /\ d \in Int \ {0}
  BY ProductPositive DEF Positives
<1>2. PICK k \in Int : k = n * d + m * d
  BY DEF Positives
<1>3. PICK j \in Int : j = n + m
  OBVIOUS
<1>4. k * d = j * (d * d)
  BY <1>2, <1>3 DEF Positives
<1>5. Frac(k, d * d) = Frac(j, d)
  BY <1>1, <1>4, FracEqual
<1>6. Plus(Frac(n, d), Frac(m, d)) = Frac(n * d + m * d, d * d)
  BY PlusFrac
<1>7. d * n <= d * m <=> n <= m
  BY CancelLeq
<1>8. n * d = d * n /\ m * d = d * m
  BY DEF Positives
<1>9. Leq(Frac(n, d), Frac(m, d)) <=> n * d <= m * d
  BY LeqFrac
<1> QED
  BY <1>2, <1>3, <1>5, <1>6, <1>7, <1>8, <1>9

LEMMA NegatedFrac ==
  ASSUME NEW n \in Int, NEW d \in Positives
  PROVE  Negated(Frac(n, d)) = Frac(-n, d)
<1> DEFINE a == Frac(n, d)
<1>1. a \in Number /\ a[1] * d = n * a[2]
  BY FracPositive
<1> HIDE DEF a
<1>2. PICK p \in Int : p = a[1]
  BY <1>1, NumberType
<1>3. PICK q \in Positives : q = a[2]
  BY <1>1, NumberType
<1>4. Negated(a) = <<-p, q>>
  BY <1>2, <1>3 DEF Negated
<1>5. AbsInt(-p) = AbsInt(p)
  BY DEF AbsInt
<1>6. Negated(a) \in Number
  BY <1>1, <1>2, <1>3, <1>4, <1>5 DEF Number, Positives
<1>7. (-p) * d = (-n) * q
  <2>1. (-p) * d = -(p * d) /\ (-n) * q = -(n * q)
    BY DEF Positives
  <2> QED
    BY <2>1, <1>1, <1>2, <1>3
<1>8. Frac(-p, q) = Frac(-n, d)
  <2>1. -p \in Int /\ -n \in Int /\ q \in Int \ {0} /\ d \in Int \ {0}
    BY DEF Positives
  <2>2. \A x, y \in Int : \A u, w \in Int \ {0} : x * w = y * u => Frac(x, u) = Frac(y, w)
    BY FracEqual
  <2> QED
    BY <2>1, <2>2, <1>7
<1>9. Frac(-p, q) = Negated(a)
  BY <1>4, <1>6, FracOfNumber
<1> QED
  BY <1>8, <1>9 DEF a

LEMMA ReciprocalFrac ==
  ASSUME NEW n \in Positives, NEW d \in Positives
  PROVE  Reciprocal(Frac(n, d)) = Frac(d, n)
<1> DEFINE a == Frac(n, d)
<1>0. n \in Int
  BY DEF Positives
<1>1. a \in Number /\ a[1] * d = n * a[2]
  BY <1>0, FracPositive
<1> HIDE DEF a
<1>2. PICK p \in Int : p = a[1]
  BY <1>1, NumberType
<1>3. PICK q \in Positives : q = a[2]
  BY <1>1, NumberType
<1>4. p * d = n * q
  BY <1>1, <1>2, <1>3
<1>5. p # 0
  <2>1. n * q \in Positives
    BY ProductPositive
  <2> QED
    BY <2>1, <1>4 DEF Positives
<1>6. Reciprocal(a) = Frac(q, p)
  BY <1>2, <1>3 DEF Reciprocal
<1>7. q * n = d * p
  BY <1>4 DEF Positives
<1>8. Frac(q, p) = Frac(d, n)
  BY <1>5, <1>7, FracEqual DEF Positives
<1> QED
  BY <1>6, <1>8 DEF a

LEMMA NegatedNegated ==
  ASSUME NEW a \in Number PROVE Negated(a) \in Number /\ Negated(Negated(a)) = a
<1>1. a[1] \in Int /\ a[2] \in Positives /\ a = Frac(a[1], a[2])
  BY NumberType, FracOfNumber
<1>2. Negated(a) = Frac(-a[1], a[2])
  BY <1>1, NegatedFrac
<1>3. Negated(Negated(a)) = Frac(-(-a[1]), a[2])
  BY <1>1, <1>2, NegatedFrac
<1>4. Negated(a) \in Number
  BY <1>1, <1>2, FracPositive
<1> QED
  BY <1>1, <1>3, <1>4

------------------------------------------------------------------------------
(* Common denominators turn laws of numbers into laws of integers.         *)

\* a, b and c over d.
LEMMA CommonDenominator ==
  ASSUME NEW a \in Number, NEW b \in Number, NEW c \in Number
  PROVE  \E d \in Positives : \E x, y, z \in Int :
           a = Frac(x, d) /\ b = Frac(y, d) /\ c = Frac(z, d)
<1>1. PICK p \in Int, q \in Positives : a = <<p, q>> /\ a = Frac(p, q)
  BY NumberType, FracOfNumber
<1>2. PICK r \in Int, s \in Positives : b = <<r, s>> /\ b = Frac(r, s)
  BY NumberType, FracOfNumber
<1>3. PICK t \in Int, u \in Positives : c = <<t, u>> /\ c = Frac(t, u)
  BY NumberType, FracOfNumber
<1>4. PICK d \in Positives : d = (q * s) * u
  BY ProductPositive
<1>5. ASSUME NEW n \in Int, NEW e \in Positives, NEW k \in Int, e * k = d
      PROVE  Frac(n, e) = Frac(n * k, d) /\ n * k \in Int
  <2>1. n * d = (n * k) * e
    BY <1>5 DEF Positives
  <2>2. n * k \in Int
    OBVIOUS
  <2> QED
    BY <2>1, <2>2, FracEqual DEF Positives
<1>6. q * (s * u) = d /\ s * (q * u) = d /\ u * (q * s) = d
  BY <1>4 DEF Positives
<1>7. s * u \in Int /\ q * u \in Int /\ q * s \in Int
  BY DEF Positives
<1> QED
  BY <1>1, <1>2, <1>3, <1>5, <1>6, <1>7
LEMMA NumFrac ==
  ASSUME NEW n \in Int
  PROVE  Num(n) \in Number /\ \A d \in Positives : Num(n) = Frac(n * d, d)
<1>1. Gcd[<<AbsInt(n), 1>>] = 1
  <2>1. AbsInt(n) \in Nat /\ AbsInt(n) % 1 = 0
    BY DEF AbsInt
  <2>2. Gcd[<<AbsInt(n), 1>>] = Gcd[<<1, AbsInt(n) % 1>>]
    BY <2>1, GcdStep
  <2>3. Gcd[<<1, 0>>] = 1
    BY GcdStep
  <2> QED
    BY <2>1, <2>2, <2>3
<1>2. Num(n) \in Number
  BY <1>1 DEF Num, Number, Positives
<1>3. Num(n) = Frac(n, 1)
  BY <1>2, FracOfNumber DEF Num
<1>4. ASSUME NEW d \in Positives PROVE Frac(n, 1) = Frac(n * d, d)
  <2>1. n * d \in Int /\ n * d = (n * d) * 1 /\ d \in Int \ {0} /\ 1 \in Int \ {0}
    BY DEF Positives
  <2> QED
    BY <2>1, FracEqual
<1> QED
  BY <1>2, <1>3, <1>4

LEMMA NumbersClosed ==
  ASSUME NEW a \in Number, NEW b \in Number
  PROVE  /\ Plus(a, b) \in Number /\ Times(a, b) \in Number
         /\ Negated(a) \in Number /\ Minus(a, b) \in Number
         /\ Squared(a) \in Number /\ Sgn(a) \in Number
<1>1. ASSUME NEW x \in Number, NEW y \in Number
      PROVE  Plus(x, y) \in Number /\ Times(x, y) \in Number
  <2>1. PICK p \in Int, q \in Positives : x = <<p, q>>
    BY NumberType
  <2>2. PICK r \in Int, s \in Positives : y = <<r, s>>
    BY NumberType
  <2>3. q * s \in Positives /\ p * s + r * q \in Int /\ p * r \in Int
    BY ProductPositive DEF Positives
  <2>4. \A n \in Int : \A d \in Positives : Frac(n, d) \in Number
    BY FracPositive
  <2>5. Frac(p * s + r * q, q * s) \in Number /\ Frac(p * r, q * s) \in Number
    BY <2>3, <2>4
  <2> QED
    BY <2>1, <2>2, <2>5 DEF Plus, Times
<1>2. Negated(a) \in Number /\ Negated(b) \in Number
  BY NegatedNegated
<1>3. Sgn(a) \in Number
  <2>1. \A n \in {-1, 0, 1} : Num(n) \in Number
    BY NumFrac
  <2> QED
    BY <2>1 DEF Sgn
<1> QED
  BY <1>1, <1>2, <1>3 DEF Minus, Squared

LEMMA PlusLaws ==
  ASSUME NEW a \in Number, NEW b \in Number, NEW c \in Number
  PROVE  /\ Plus(a, b) = Plus(b, a)
         /\ Plus(Plus(a, b), c) = Plus(a, Plus(b, c))
         /\ Plus(a, Num(0)) = a
         /\ Plus(a, Negated(a)) = Num(0)
<1>1. PICK d \in Positives, x \in Int, y \in Int, z \in Int :
        a = Frac(x, d) /\ b = Frac(y, d) /\ c = Frac(z, d)
  BY CommonDenominator
<1>2. \A m, n \in Int : Plus(Frac(m, d), Frac(n, d)) = Frac(m + n, d)
  BY SameDenominator
<1>3. Plus(a, b) = Frac(x + y, d) /\ Plus(b, a) = Frac(y + x, d) /\ Plus(b, c) = Frac(y + z, d)
  BY <1>1, <1>2
<1>4. Plus(Plus(a, b), c) = Frac((x + y) + z, d)
  <2>1. x + y \in Int
    OBVIOUS
  <2> QED
    BY <1>1, <1>2, <1>3, <2>1
<1>5. Plus(a, Plus(b, c)) = Frac(x + (y + z), d)
  <2>1. y + z \in Int
    OBVIOUS
  <2> QED
    BY <1>1, <1>2, <1>3, <2>1
<1>6. Num(0) = Frac(0, d)
  <2>1. Num(0) = Frac(0 * d, d) /\ 0 * d = 0
    BY NumFrac DEF Positives
  <2> QED
    BY <2>1
<1>7. Plus(a, Num(0)) = Frac(x + 0, d)
  BY <1>1, <1>2, <1>6
<1>8. Plus(a, Negated(a)) = Frac(x + (-x), d)
  <2>1. Negated(a) = Frac(-x, d) /\ -x \in Int
    BY <1>1, NegatedFrac
  <2> QED
    BY <1>1, <1>2, <2>1
<1>9. /\ x + y = y + x /\ (x + y) + z = x + (y + z)
      /\ x + 0 = x /\ x + (-x) = 0
  OBVIOUS
<1> QED
  BY <1>1, <1>3, <1>4, <1>5, <1>6, <1>7, <1>8, <1>9

LEMMA TimesLaws ==
  ASSUME NEW a \in Number, NEW b \in Number, NEW c \in Number
  PROVE  /\ Times(a, b) = Times(b, a)
         /\ Times(Times(a, b), c) = Times(a, Times(b, c))
         /\ Times(a, Plus(b, c)) = Plus(Times(a, b), Times(a, c))
         /\ Times(Num(1), a) = a
         /\ Times(Num(0), a) = Num(0)
         /\ Times(Negated(a), b) = Negated(Times(a, b))
         /\ Negated(Plus(a, b)) = Plus(Negated(a), Negated(b))
<1>1. PICK d \in Positives, x \in Int, y \in Int, z \in Int :
        a = Frac(x, d) /\ b = Frac(y, d) /\ c = Frac(z, d)
  BY CommonDenominator
<1>2. d * d \in Positives
  BY ProductPositive
<1>3. \A m, n \in Int : \A e, f \in Positives :
        Times(Frac(m, e), Frac(n, f)) = Frac(m * n, e * f)
  BY TimesFrac
<1>4. /\ Times(a, b) = Frac(x * y, d * d) /\ Times(b, a) = Frac(y * x, d * d)
      /\ Times(a, c) = Frac(x * z, d * d) /\ Times(b, c) = Frac(y * z, d * d)
  BY <1>1, <1>3
<1>5. /\ x * y = y * x /\ x * y \in Int /\ y * z \in Int /\ x * z \in Int
  OBVIOUS
<1>6. Times(Times(a, b), c) = Times(a, Times(b, c))
  <2>1. Times(Times(a, b), c) = Frac((x * y) * z, (d * d) * d)
    BY <1>1, <1>2, <1>3, <1>4, <1>5
  <2>2. Times(a, Times(b, c)) = Frac(x * (y * z), d * (d * d))
    BY <1>1, <1>2, <1>3, <1>4, <1>5
  <2>3. (x * y) * z = x * (y * z) /\ (d * d) * d = d * (d * d)
    BY DEF Positives
  <2> QED
    BY <2>1, <2>2, <2>3
<1>7. Times(a, Plus(b, c)) = Plus(Times(a, b), Times(a, c))
  <2>1. Plus(b, c) = Frac(y + z, d) /\ y + z \in Int
    BY <1>1, SameDenominator
  <2>2. Times(a, Plus(b, c)) = Frac(x * (y + z), d * d)
    BY <1>1, <1>3, <2>1
  <2>3. Plus(Times(a, b), Times(a, c)) = Frac(x * y + x * z, d * d)
    <3>1. \A m, n \in Int : Plus(Frac(m, d * d), Frac(n, d * d)) = Frac(m + n, d * d)
      BY <1>2, SameDenominator
    <3> QED
      BY <3>1, <1>4, <1>5
  <2>4. x * (y + z) = x * y + x * z
    OBVIOUS
  <2> QED
    BY <2>2, <2>3, <2>4
<1>8. Times(Num(1), a) = a
  <2>1. Num(1) = Frac(1 * 1, 1) /\ 1 \in Positives /\ 1 * 1 = 1
    BY NumFrac DEF Positives
  <2>2. Times(Num(1), a) = Frac(1 * x, 1 * d)
    BY <2>1, <1>1, <1>3
  <2>3. 1 * x = x /\ 1 * d = d
    BY DEF Positives
  <2> QED
    BY <2>2, <2>3, <1>1
<1>9. Times(Num(0), a) = Num(0)
  <2>1. Num(0) = Frac(0 * 1, 1) /\ 1 \in Positives /\ 0 * 1 = 0 /\ 0 \in Int
    BY NumFrac DEF Positives
  <2>2. Times(Num(0), a) = Frac(0 * x, 1 * d)
    BY <2>1, <1>1, <1>3
  <2>3. 0 * x = 0 * d /\ 1 * d = d
    BY DEF Positives
  <2>4. Num(0) = Frac(0 * d, d)
    BY NumFrac
  <2> QED
    BY <2>2, <2>3, <2>4
<1>10. Times(Negated(a), b) = Negated(Times(a, b))
  <2>1. Negated(a) = Frac(-x, d) /\ -x \in Int
    BY <1>1, NegatedFrac
  <2>2. Times(Negated(a), b) = Frac((-x) * y, d * d)
    BY <2>1, <1>1, <1>3
  <2>3. Negated(Times(a, b)) = Frac(-(x * y), d * d)
    BY <1>2, <1>4, <1>5, NegatedFrac
  <2>4. (-x) * y = -(x * y)
    OBVIOUS
  <2> QED
    BY <2>2, <2>3, <2>4
<1>11. Negated(Plus(a, b)) = Plus(Negated(a), Negated(b))
  <2>1. /\ Negated(a) = Frac(-x, d) /\ -x \in Int
        /\ Negated(b) = Frac(-y, d) /\ -y \in Int
    BY <1>1, NegatedFrac
  <2>2. Plus(Negated(a), Negated(b)) = Frac((-x) + (-y), d)
    BY <2>1, SameDenominator
  <2>3. Plus(a, b) = Frac(x + y, d) /\ x + y \in Int
    BY <1>1, SameDenominator
  <2>4. Negated(Plus(a, b)) = Frac(-(x + y), d)
    BY <2>3, NegatedFrac
  <2>5. (-x) + (-y) = -(x + y)
    OBVIOUS
  <2> QED
    BY <2>2, <2>4, <2>5
<1> QED
  BY <1>4, <1>5, <1>6, <1>7, <1>8, <1>9, <1>10, <1>11

(* A number that is not zero can be divided by.                            *)
LEMMA ReciprocalLaw ==
  ASSUME NEW a \in Number, a # Num(0)
  PROVE  /\ Reciprocal(a) \in Number /\ Times(a, Reciprocal(a)) = Num(1)
         /\ Positive(a) => Positive(Reciprocal(a))
<1>1. PICK p \in Int, q \in Positives : a = <<p, q>> /\ a = Frac(p, q)
  BY NumberType, FracOfNumber
<1>2. p # 0
  <2> SUFFICES ASSUME p = 0 PROVE a = Num(0)
    BY <1>1
  <2>1. Num(0) \in Number
    BY NumFrac
  <2>2. Num(0)[1] = 0 /\ Num(0)[2] = 1 /\ a[1] = 0 /\ a[2] = q
    BY <1>1 DEF Num
  <2>3. 0 * 1 = 0 * q
    BY DEF Positives
  <2> QED
    BY <2>1, <2>2, <2>3, NumberUnique
<1> DEFINE r == Frac(q, p)
<1>3. Reciprocal(a) = r
  BY <1>1 DEF Reciprocal
<1>4. r \in Number /\ r[1] * p = q * r[2]
  BY <1>2, FracForm DEF Positives
<1> HIDE DEF r
<1>5. PICK m \in Int, n \in Positives : r = <<m, n>> /\ r = Frac(m, n)
  BY <1>4, NumberType, FracOfNumber
<1>6. m * p = q * n
  BY <1>4, <1>5
<1>7. Times(a, r) = Frac(p * m, q * n)
  BY <1>1, <1>5, TimesFrac
<1>8. Num(1) = Frac(1 * (q * n), q * n)
  BY NumFrac, ProductPositive
<1>9. p * m = 1 * (q * n)
  BY <1>6 DEF Positives
<1>10. p > 0 => m > 0
  <2> SUFFICES ASSUME p > 0, m <= 0 PROVE FALSE
    OBVIOUS
  <2>1. m * p <= 0
    OBVIOUS
  <2>2. q * n >= 1
    BY DEF Positives
  <2> QED
    BY <2>1, <2>2, <1>6
<1> QED
  BY <1>1, <1>3, <1>4, <1>5, <1>7, <1>8, <1>9, <1>10 DEF Positive

LEMMA OrderLaws ==
  ASSUME NEW a \in Number, NEW b \in Number, NEW c \in Number
  PROVE  /\ Leq(a, a)
         /\ Leq(a, b) \/ Leq(b, a)
         /\ Leq(a, b) /\ Leq(b, a) => a = b
         /\ Leq(a, b) /\ Leq(b, c) => Leq(a, c)
         /\ Leq(a, b) <=> Leq(Plus(a, c), Plus(b, c))
         /\ Leq(a, b) <=> Leq(Negated(b), Negated(a))
<1>1. PICK d \in Positives, x \in Int, y \in Int, z \in Int :
        a = Frac(x, d) /\ b = Frac(y, d) /\ c = Frac(z, d)
  BY CommonDenominator
<1>2. \A m, n \in Int : Leq(Frac(m, d), Frac(n, d)) <=> m <= n
  BY SameDenominator
<1>3. /\ Leq(a, a) <=> x <= x
      /\ Leq(a, b) <=> x <= y
      /\ Leq(b, a) <=> y <= x
      /\ Leq(b, c) <=> y <= z
      /\ Leq(a, c) <=> x <= z
  BY <1>1, <1>2
<1>4. Leq(Plus(a, c), Plus(b, c)) <=> x + z <= y + z
  <2>1. Plus(a, c) = Frac(x + z, d) /\ Plus(b, c) = Frac(y + z, d)
    BY <1>1, SameDenominator
  <2>2. x + z \in Int /\ y + z \in Int
    OBVIOUS
  <2> QED
    BY <2>1, <2>2, <1>2
<1>5. Leq(Negated(b), Negated(a)) <=> -y <= -x
  <2>1. Negated(a) = Frac(-x, d) /\ Negated(b) = Frac(-y, d)
    BY <1>1, NegatedFrac
  <2>2. -x \in Int /\ -y \in Int
    OBVIOUS
  <2> QED
    BY <2>1, <2>2, <1>2
<1>6. x <= y /\ y <= x => x = y
  OBVIOUS
<1> QED
  BY <1>1, <1>3, <1>4, <1>5, <1>6

LEMMA PositiveLaws ==
  ASSUME NEW a \in Number, NEW b \in Number, NEW c \in Number
  PROVE  /\ Positive(a) <=> ~Leq(a, Num(0))
         /\ Positive(c) => (Leq(a, b) <=> Leq(Times(c, a), Times(c, b)))
         /\ Leq(Num(0), c) /\ Leq(a, b) => Leq(Times(c, a), Times(c, b))
         /\ Leq(Num(0), Squared(a))
<1>1. PICK d \in Positives, x \in Int, y \in Int, z \in Int :
        a = Frac(x, d) /\ b = Frac(y, d) /\ c = Frac(z, d)
  BY CommonDenominator
<1>2. ASSUME NEW e \in Number, NEW n \in Int, e = Frac(n, d)
      PROVE  /\ Positive(e) <=> n > 0
             /\ Leq(Num(0), e) <=> 0 <= n
             /\ Leq(e, Num(0)) <=> n <= 0
  <2>1. Num(0) = Frac(0, d)
    <3>1. Num(0) = Frac(0 * d, d) /\ 0 * d = 0
      BY NumFrac DEF Positives
    <3> QED
      BY <3>1
  <2>2. /\ Leq(Num(0), e) <=> 0 <= n
        /\ Leq(e, Num(0)) <=> n <= 0
    <3>1. \A m, k \in Int : Leq(Frac(m, d), Frac(k, d)) <=> m <= k
      BY SameDenominator
    <3> QED
      BY <2>1, <1>2, <3>1
  <2>3. PICK p \in Int, q \in Positives : e = <<p, q>>
    BY NumberType
  <2>4. Leq(e, Num(0)) <=> p * 1 <= 0 * q
    BY <2>3 DEF Leq, Num
  <2>5. p * 1 = p /\ 0 * q = 0
    BY DEF Positives
  <2>6. Positive(e) <=> p > 0
    BY <2>3 DEF Positive
  <2> QED
    BY <2>2, <2>4, <2>5, <2>6
<1>3. Positive(a) <=> ~Leq(a, Num(0))
  BY <1>1, <1>2
<1>4. d * d \in Positives /\ z * x \in Int /\ z * y \in Int /\ x * x \in Int
  BY ProductPositive
<1>5. Times(c, a) = Frac(z * x, d * d) /\ Times(c, b) = Frac(z * y, d * d)
  BY <1>1, TimesFrac
<1>6. Leq(Times(c, a), Times(c, b)) <=> z * x <= z * y
  <2>1. \A m, k \in Int : Leq(Frac(m, d * d), Frac(k, d * d)) <=> m <= k
    BY <1>4, SameDenominator
  <2> QED
    BY <2>1, <1>4, <1>5
<1>7. Leq(a, b) <=> x <= y
  BY <1>1, SameDenominator
<1>8. z > 0 => (x <= y <=> z * x <= z * y)
  BY CancelLeq DEF Positives
<1>9. 0 <= z /\ x <= y => z * x <= z * y
  <2>1. CASE z = 0
    <3>1. 0 * x = 0 /\ 0 * y = 0
      OBVIOUS
    <3> QED
      BY <2>1, <3>1
  <2> QED
    BY <2>1, <1>8
<1>10. Leq(Num(0), Squared(a))
  <2>1. Squared(a) = Frac(x * x, d * d)
    BY <1>1, TimesFrac DEF Squared
  <2>2. Num(0) = Frac(0 * (d * d), d * d) /\ 0 * (d * d) = 0
    BY <1>4, NumFrac DEF Positives
  <2>3. 0 <= x * x
    OBVIOUS
  <2>4. Leq(Frac(0, d * d), Frac(x * x, d * d)) <=> 0 <= x * x
    BY <1>4, SameDenominator
  <2> QED
    BY <2>1, <2>2, <2>3, <2>4
<1> QED
  BY <1>1, <1>2, <1>3, <1>6, <1>7, <1>8, <1>9, <1>10

------------------------------------------------------------------------------
(* Calculation.                                                            *)

(* One and zero.                                                           *)
LEMMA OneAndZero ==
  /\ One \in Number /\ Zero \in Number
  /\ Negated(Zero) = Zero
<1>1. Num(1) \in Number /\ Num(0) \in Number
  BY NumFrac
<1>2. Negated(Zero) = Zero
  <2>1. \A n \in Int : n + n = n => -n = n
    OBVIOUS
  <2>2. PICK z \in Int : z = 0
    OBVIOUS
  <2>3. z + z = z
    BY <2>2
  <2>4. -z = z
    BY <2>1, <2>3
  <2>5. Negated(<<z, 1>>) = <<-z, 1>>
    BY DEF Negated
  <2> QED
    BY <2>2, <2>4, <2>5 DEF Zero, Num
<1> QED
  BY <1>1, <1>2 DEF One, Zero

(* What one and zero do to a number.                                       *)
LEMMA WithZero ==
  ASSUME NEW a \in Number
  PROVE  /\ Plus(a, Zero) = a /\ Plus(Zero, a) = a /\ Minus(a, Zero) = a
         /\ Times(Zero, a) = Zero /\ Times(a, Zero) = Zero
         /\ Times(One, a) = a /\ Times(a, One) = a
         /\ Times(Negated(One), a) = Negated(a)
         /\ Minus(a, a) = Zero
<1>1. Zero \in Number /\ One \in Number
  BY OneAndZero
<1>2. Plus(a, Zero) = a /\ Plus(a, Negated(a)) = Zero
  BY <1>1, PlusLaws DEF Zero
<1>3. Plus(Zero, a) = Plus(a, Zero)
  BY <1>1, PlusLaws
<1>4. Times(Zero, a) = Zero /\ Times(One, a) = a
  BY <1>1, TimesLaws DEF Zero, One
<1>5. Times(a, Zero) = Times(Zero, a) /\ Times(a, One) = Times(One, a)
  BY <1>1, TimesLaws
<1>6. Times(Negated(One), a) = Negated(Times(One, a))
  BY <1>1, TimesLaws
<1>7. Minus(a, Zero) = a
  BY <1>2, OneAndZero DEF Minus
<1> QED
  BY <1>2, <1>3, <1>4, <1>5, <1>6, <1>7 DEF Minus

(* The sign of a number, said in three ways.                               *)
LEMMA SignLaws ==
  ASSUME NEW a \in Number
  PROVE  /\ Positive(a) <=> ~Leq(a, Zero)
         /\ Leq(Zero, a) <=> a[1] >= 0
         /\ Positive(a) => a # Zero
         /\ Leq(Zero, a) <=> Leq(Negated(a), Zero)
<1>1. Zero \in Number /\ Negated(Zero) = Zero
  BY OneAndZero
<1>2. Positive(a) <=> ~Leq(a, Zero)
  BY <1>1, PositiveLaws DEF Zero
<1>3. PICK p \in Int, q \in Positives : a = <<p, q>>
  BY NumberType
<1>4. Leq(Zero, a) <=> 0 * q <= p * 1
  BY <1>3 DEF Leq, Zero, Num
<1>5. 0 * q = 0 /\ p * 1 = p
  BY DEF Positives
<1>6. Leq(Zero, a) <=> Leq(Negated(a), Negated(Zero))
  BY <1>1, OrderLaws
<1>7. Positive(Zero) <=> FALSE
  BY DEF Positive, Zero, Num
<1> QED
  BY <1>1, <1>2, <1>3, <1>4, <1>5, <1>6, <1>7

(* A term changes sides.                                                   *)
LEMMA ChangeSides ==
  ASSUME NEW a \in Number, NEW b \in Number, NEW e \in Number
  PROVE  /\ Leq(Plus(Negated(a), b), e) <=> Leq(b, Plus(e, a))
         /\ Leq(Plus(Negated(a), b), Zero) <=> Leq(b, a)
         /\ Leq(Minus(b, a), e) <=> Leq(b, Plus(e, a))
         /\ Leq(e, Minus(b, a)) <=> Leq(Plus(e, a), b)
<1>1. /\ Negated(a) \in Number /\ Zero \in Number
      /\ Plus(Negated(a), b) \in Number /\ Plus(b, Negated(a)) \in Number
  BY NumbersClosed, OneAndZero
<1>2. Plus(Plus(b, Negated(a)), a) = b
  <2>1. Plus(Plus(b, Negated(a)), a) = Plus(b, Plus(Negated(a), a))
    BY <1>1, PlusLaws
  <2>2. Plus(Negated(a), a) = Plus(a, Negated(a))
    BY <1>1, PlusLaws
  <2>3. Plus(a, Negated(a)) = Zero
    BY PlusLaws DEF Zero
  <2> QED
    BY <2>1, <2>2, <2>3, WithZero
<1>3. Plus(Negated(a), b) = Plus(b, Negated(a))
  BY <1>1, PlusLaws
<1>4. \A x, y \in Number : Leq(x, y) <=> Leq(Plus(x, a), Plus(y, a))
  BY OrderLaws
<1>5. Leq(Plus(b, Negated(a)), e) <=> Leq(b, Plus(e, a))
  BY <1>1, <1>2, <1>4
<1>6. Leq(Plus(b, Negated(a)), Zero) <=> Leq(b, Plus(Zero, a))
  BY <1>1, <1>2, <1>4
<1>7. Leq(e, Plus(b, Negated(a))) <=> Leq(Plus(e, a), b)
  BY <1>1, <1>2, <1>4
<1> QED
  BY <1>3, <1>5, <1>6, <1>7, WithZero DEF Minus

(* The size of a number bounds it on both sides.                           *)
LEMMA SizeBounds ==
  ASSUME NEW a \in Number, NEW b \in Number
  PROVE  /\ Size(a) \in Number /\ Leq(Zero, Size(a))
         /\ Leq(Size(a), b) <=> Leq(a, b) /\ Leq(Negated(a), b)
<1>1. Negated(a) \in Number /\ Zero \in Number
  BY NumbersClosed, OneAndZero
<1>2. CASE Positive(a)
  <2>1. Leq(Zero, a) /\ Leq(Negated(a), Zero)
    <3>1. ~Leq(a, Zero)
      BY <1>2, SignLaws
    <3>2. Leq(a, Zero) \/ Leq(Zero, a)
      BY <1>1, OrderLaws
    <3> QED
      BY <3>1, <3>2, SignLaws
  <2>2. Leq(Negated(a), a)
    BY <2>1, <1>1, OrderLaws
  <2>3. Leq(a, b) => Leq(Negated(a), b)
    BY <2>2, <1>1, OrderLaws
  <2> QED
    BY <1>2, <2>1, <2>3 DEF Size
<1>3. CASE ~Positive(a)
  <2>1. Leq(a, Zero)
    BY <1>3, SignLaws
  <2>2. Leq(Zero, Negated(a))
    <3>1. Leq(a, Zero) <=> Leq(Negated(Zero), Negated(a))
      BY <1>1, OrderLaws
    <3> QED
      BY <2>1, <3>1, OneAndZero
  <2>3. Leq(a, Negated(a))
    BY <2>1, <2>2, <1>1, OrderLaws
  <2>4. Leq(Negated(a), b) => Leq(a, b)
    BY <2>3, <1>1, OrderLaws
  <2> QED
    BY <1>1, <1>3, <2>2, <2>4 DEF Size
<1> QED
  BY <1>2, <1>3

(* Of numbers that are not negative the larger has the larger square.      *)
LEMMA SquaresOrdered ==
  ASSUME NEW a \in Number, NEW b \in Number, Leq(Zero, a), Leq(Zero, b)
  PROVE  Leq(a, b) <=> Leq(Squared(a), Squared(b))
<1>1. Zero \in Number /\ Squared(a) \in Number /\ Squared(b) \in Number /\ Times(a, b) \in Number
  BY OneAndZero, NumbersClosed
<1>2. Times(a, b) = Times(b, a)
  BY TimesLaws
<1>3. ASSUME Leq(a, b) PROVE Leq(Squared(a), Squared(b))
  <2>1. Leq(Times(a, a), Times(a, b)) /\ Leq(Times(b, a), Times(b, b))
    BY <1>3, PositiveLaws DEF Zero
  <2> QED
    BY <2>1, <1>1, <1>2, OrderLaws DEF Squared
<1>4. ASSUME ~Leq(a, b) PROVE ~Leq(Squared(a), Squared(b))
  <2>1. Leq(b, a)
    BY <1>4, OrderLaws
  <2>2. Positive(a)
    <3>1. ~Leq(a, Zero)
      BY <1>1, <1>4, OrderLaws
    <3> QED
      BY <3>1, SignLaws
  <2>3. Leq(Times(b, b), Times(b, a))
    BY <2>1, PositiveLaws DEF Zero
  <2>4. ~Leq(Times(a, a), Times(a, b))
    BY <1>4, <2>2, PositiveLaws
  <2> QED
    BY <2>3, <2>4, <1>1, <1>2, OrderLaws DEF Squared
<1> QED
  BY <1>3, <1>4

(* A number and its size have the same square.                             *)
LEMMA SquareOfSize ==
  ASSUME NEW a \in Number
  PROVE  Squared(Size(a)) = Squared(a)
<1>1. Negated(a) \in Number /\ Times(a, a) \in Number
  BY NumbersClosed
<1>2. Times(Negated(a), Negated(a)) = Negated(Times(a, Negated(a)))
  BY <1>1, TimesLaws
<1>3. Times(a, Negated(a)) = Times(Negated(a), a) /\ Times(Negated(a), a) = Negated(Times(a, a))
  BY <1>1, TimesLaws
<1>4. Negated(Negated(Times(a, a))) = Times(a, a)
  BY <1>1, NegatedNegated
<1> QED
  BY <1>2, <1>3, <1>4 DEF Size, Squared

(* The square of a product.                                                *)
LEMMA SquareOfProduct ==
  ASSUME NEW a \in Number, NEW b \in Number
  PROVE  Squared(Times(a, b)) = Times(Squared(a), Squared(b))
<1>1. Times(a, b) \in Number /\ Times(b, b) \in Number /\ Times(a, a) \in Number
  BY NumbersClosed DEF Squared
<1>2. Times(Times(a, b), Times(a, b)) = Times(a, Times(b, Times(a, b)))
  BY <1>1, TimesLaws
<1>3. Times(b, Times(a, b)) = Times(Times(a, b), b)
  BY <1>1, TimesLaws
<1>4. Times(Times(a, b), b) = Times(a, Times(b, b))
  BY TimesLaws
<1>5. Times(a, Times(a, Times(b, b))) = Times(Times(a, a), Times(b, b))
  BY <1>1, TimesLaws
<1> QED
  BY <1>2, <1>3, <1>4, <1>5 DEF Squared

(* Integers keep their order as numbers.                                   *)
LEMMA NumOrdered ==
  ASSUME NEW m \in Int, NEW n \in Int
  PROVE  Leq(Num(m), Num(n)) <=> m <= n
  BY DEF Leq, Num

(* Two and its half.                                                       *)
LEMMA Half ==
  /\ Num(2) \in Number /\ Positive(Num(2))
  /\ Frac(1, 2) \in Number /\ Times(Num(2), Frac(1, 2)) = One
<1>1. Num(2) \in Number /\ Num(2) # Num(0) /\ Reciprocal(Num(2)) = Frac(1, 2)
      /\ Positive(Num(2))
  BY NumFrac DEF Num, Reciprocal, Positive
<1> QED
  BY <1>1, ReciprocalLaw DEF One

(* A product of positive numbers.                                          *)
LEMMA ProductOfPositives ==
  ASSUME NEW a \in Number, NEW b \in Number, Positive(a), Positive(b)
  PROVE  Positive(Times(a, b))
<1>1. ~Leq(b, Zero) /\ Zero \in Number /\ Times(a, b) \in Number
  BY SignLaws, OneAndZero, NumbersClosed
<1>2. ~Leq(Times(a, b), Times(a, Zero))
  BY <1>1, PositiveLaws
<1> QED
  BY <1>1, <1>2, WithZero, SignLaws

(* A sum of two terms, neither of which falls, rises unless both stay.     *)
LEMMA SumRises ==
  ASSUME NEW u \in Number, NEW v \in Number, NEW w \in Number, NEW z \in Number,
         Leq(u, v), Leq(w, z), Leq(Plus(v, z), Plus(u, w))
  PROVE  u = v /\ w = z
<1>1. Plus(v, z) \in Number /\ Plus(u, w) \in Number /\ Plus(v, w) \in Number
      /\ Plus(u, z) \in Number
  BY NumbersClosed
<1>2. Leq(Plus(u, w), Plus(v, w)) /\ Leq(Plus(u, z), Plus(v, z))
  BY OrderLaws
<1>3. Leq(Plus(v, w), Plus(v, z)) /\ Leq(Plus(u, w), Plus(u, z))
  <2>1. Leq(Plus(w, v), Plus(z, v)) /\ Leq(Plus(w, u), Plus(z, u))
    BY OrderLaws
  <2> QED
    BY <2>1, PlusLaws
<1>4. Leq(Plus(v, w), Plus(u, w))
  BY <1>1, <1>3, OrderLaws
<1>5. Leq(Plus(u, z), Plus(u, w))
  BY <1>1, <1>2, OrderLaws
<1>6. Leq(v, u)
  BY <1>4, OrderLaws
<1>7. Leq(z, w)
  <2>1. Leq(Plus(z, u), Plus(w, u))
    BY <1>5, PlusLaws
  <2> QED
    BY <2>1, OrderLaws
<1> QED
  BY <1>6, <1>7, OrderLaws

(* The sign of Q, taken off and put on again.                              *)
LEMMA SgnCases ==
  ASSUME NEW q \in Number
  PROVE  /\ Sgn(q) \in Number /\ Size(q) \in Number
         /\ Times(Sgn(q), q) = Size(q) /\ Times(Sgn(q), Size(q)) = q
         /\ \/ Size(q) = q /\ \A z \in Number : Times(Sgn(q), z) = z
            \/ Size(q) = Negated(q) /\ \A z \in Number : Times(Sgn(q), z) = Negated(z)
            \/ q = Zero /\ Size(q) = Zero /\ \A z \in Number : Times(Sgn(q), z) = Zero
<1>1. q[1] \in Int /\ Size(q) \in Number /\ Sgn(q) \in Number /\ Negated(q) \in Number
  BY NumberType, SizeBounds, NumbersClosed
<1>2. CASE q[1] > 0
  <2>1. Sgn(q) = One /\ Size(q) = q
    BY <1>1, <1>2 DEF Sgn, One, Size, Positive
  <2>2. \A z \in Number : Times(One, z) = z
    BY WithZero
  <2> QED
    BY <1>1, <2>1, <2>2
<1>3. CASE q[1] < 0
  <2>1. ~(q[1] > 0)
    BY <1>1, <1>3
  <2>2. Size(q) = Negated(q)
    BY <2>1 DEF Size, Positive
  <2>3. PICK n \in Int : n = 1
    OBVIOUS
  <2>4. -n = -1
    BY <2>3
  <2>5. Negated(One) = Num(-1)
    BY <2>3, <2>4 DEF Negated, One, Num
  <2>6. Sgn(q) = Num(-1)
    BY <1>3, <2>1 DEF Sgn
  <2>7. \A z \in Number : Times(Sgn(q), z) = Negated(z)
    BY <2>5, <2>6, WithZero
  <2>8. Negated(Negated(q)) = q
    BY NegatedNegated
  <2> QED
    BY <1>1, <2>2, <2>7, <2>8
<1>4. CASE q[1] = 0
  <2>1. Leq(Zero, q) /\ ~Positive(q)
    BY <1>1, <1>4, SignLaws DEF Positive
  <2>2. Leq(q, Zero)
    BY <2>1, SignLaws
  <2>3. q = Zero
    BY <2>1, <2>2, OneAndZero, OrderLaws
  <2>4. Sgn(q) = Zero
    BY <1>4 DEF Sgn, Zero
  <2>5. Size(q) = Zero
    BY <2>1, <2>3, OneAndZero DEF Size
  <2>6. \A z \in Number : Times(Zero, z) = Zero
    BY WithZero
  <2> QED
    BY <1>1, <2>3, <2>4, <2>5, <2>6
<1> QED
  BY <1>1, <1>2, <1>3, <1>4

\* The side of x that y is on does not matter.
LEMMA Within ==
  ASSUME NEW x \in Number, NEW y \in Number, NEW z \in Number
  PROVE  /\ Leq(x, z) /\ Leq(z, y) => Leq(Least(x, y), z) /\ Leq(z, Greatest(x, y))
         /\ Leq(x, z) /\ Leq(z, y) => Leq(Least(y, x), z) /\ Leq(z, Greatest(y, x))
         /\ Leq(x, y) /\ Leq(Least(x, y), z) /\ Leq(z, Greatest(x, y)) => Leq(x, z) /\ Leq(z, y)
         /\ Leq(x, y) /\ Leq(Least(y, x), z) /\ Leq(z, Greatest(y, x)) => Leq(x, z) /\ Leq(z, y)
<1>1. /\ Leq(x, z) /\ Leq(z, y) => Leq(x, y)
      /\ Leq(x, y) /\ Leq(y, x) => x = y
  BY OrderLaws
<1> QED
  BY <1>1 DEF Least, Greatest

(* What Q becomes when its size falls lies between Q and what it becomes   *)
(* when its size falls further.                                            *)
LEMMA FallsBetween ==
  ASSUME NEW q \in Number, NEW u \in Number, NEW w \in Number, Leq(u, w), Leq(w, Size(q))
  PROVE  /\ Leq(Least(q, Times(Sgn(q), u)), Times(Sgn(q), w))
         /\ Leq(Times(Sgn(q), w), Greatest(q, Times(Sgn(q), u)))
<1>1. Times(Sgn(q), u) \in Number /\ Times(Sgn(q), w) \in Number /\ Size(q) \in Number
      /\ Negated(u) \in Number /\ Negated(w) \in Number /\ Negated(q) \in Number
      /\ Zero \in Number
  BY SgnCases, NumbersClosed, OneAndZero
<1>2. CASE Size(q) = q /\ \A z \in Number : Times(Sgn(q), z) = z
  BY <1>1, <1>2, Within
<1>3. CASE Size(q) = Negated(q) /\ \A z \in Number : Times(Sgn(q), z) = Negated(z)
  <2>1. Leq(Negated(w), Negated(u)) /\ Leq(Negated(Negated(q)), Negated(w))
    BY <1>1, <1>3, OrderLaws
  <2>2. Leq(q, Negated(w))
    BY <2>1, NegatedNegated
  <2> QED
    BY <2>1, <2>2, <1>1, <1>3, Within
<1>4. CASE q = Zero /\ \A z \in Number : Times(Sgn(q), z) = Zero
  <2>1. Leq(Zero, Zero)
    BY <1>1, OrderLaws
  <2> QED
    BY <2>1, <1>1, <1>4, Within
<1> QED
  BY <1>2, <1>3, <1>4, SgnCases

(* A list of numbers has a least one.                                      *)
LEMMA LeastExists ==
  ASSUME NEW n \in Nat, NEW f \in [1 .. n + 1 -> Number]
  PROVE  \E m \in 1 .. n + 1 : \A i \in 1 .. n + 1 : Leq(f[m], f[i])
<1> DEFINE S == {k \in Nat : k <= n =>
                   \E m \in 1 .. k + 1 : \A i \in 1 .. k + 1 : Leq(f[m], f[i])}
<1>0. \A i \in 1 .. n + 1 : f[i] \in Number
  OBVIOUS
<1>1. 0 \in S
  <2>1. 1 \in 1 .. 0 + 1 /\ \A i \in 1 .. 0 + 1 : i = 1
    OBVIOUS
  <2>2. f[1] \in Number
    OBVIOUS
  <2>3. Leq(f[1], f[1])
    BY <2>2, OrderLaws
  <2> QED
    BY <2>1, <2>3
<1>2. ASSUME NEW k \in S \cap Nat PROVE k + 1 \in S
  <2>1. SUFFICES ASSUME k + 1 <= n
                 PROVE \E m \in 1 .. k + 2 : \A i \in 1 .. k + 2 : Leq(f[m], f[i])
    OBVIOUS
  <2>2. PICK m \in 1 .. k + 1 : \A i \in 1 .. k + 1 : Leq(f[m], f[i])
    BY <2>1, <1>2
  <2>3. /\ m \in 1 .. k + 2 /\ k + 2 \in 1 .. k + 2 /\ f[m] \in Number /\ f[k + 2] \in Number
        /\ \A i \in 1 .. k + 2 : (i = k + 2 \/ i \in 1 .. k + 1) /\ f[i] \in Number
    BY <2>1, <1>0
  <2>4. CASE Leq(f[m], f[k + 2])
    <3>1. \A i \in 1 .. k + 2 : Leq(f[m], f[i])
      BY <2>2, <2>3, <2>4
    <3> QED
      BY <2>3, <3>1
  <2>5. CASE ~Leq(f[m], f[k + 2])
    <3>1. Leq(f[k + 2], f[m]) /\ Leq(f[k + 2], f[k + 2])
      BY <2>3, <2>5, OrderLaws
    <3>2. \A i \in 1 .. k + 1 : Leq(f[k + 2], f[i])
      <4> TAKE i \in 1 .. k + 1
      <4>1. f[i] \in Number /\ Leq(f[m], f[i])
        BY <2>1, <2>2, <1>0
      <4> QED
        BY <4>1, <3>1, <2>3, OrderLaws
    <3>3. \A i \in 1 .. k + 2 : Leq(f[k + 2], f[i])
      BY <2>3, <3>1, <3>2
    <3> QED
      BY <2>3, <3>3
  <2> QED
    BY <2>4, <2>5
<1> HIDE DEF S
<1>3. n \in S
  BY <1>1, <1>2, SetInduction
<1> QED
  BY <1>3 DEF S

(* So has a finite set.                                                    *)
LEMMA FiniteLeast ==
  ASSUME NEW S, IsFiniteSet(S), S # {}, S \subseteq Number
  PROVE  \E x \in S : \A y \in S : Leq(x, y)
<1>1. PICK n \in Nat : ExistsSurjection(1 .. n, S)
  BY FS_NatSurjection
<1>2. PICK f \in Surjection(1 .. n, S) : TRUE
  BY <1>1 DEF ExistsSurjection
<1>3. f \in [1 .. n -> S] /\ \A y \in S : \E i \in 1 .. n : f[i] = y
  BY <1>2 DEF Surjection
<1>4. n # 0
  BY <1>3
<1>5. n - 1 \in Nat /\ (n - 1) + 1 = n
  BY <1>4
<1>6. f \in [1 .. n -> Number]
  BY <1>3
<1>7. PICK m \in 1 .. n : \A i \in 1 .. n : Leq(f[m], f[i])
  BY <1>5, <1>6, LeastExists
<1> QED
  BY <1>3, <1>7

(* What a function makes of a finite set is finite.                        *)
LEMMA FiniteImage ==
  ASSUME NEW S, IsFiniteSet(S), NEW f, DOMAIN f = S, f = [x \in S |-> f[x]]
  PROVE  IsFiniteSet({f[x] : x \in S})
<1>1. f \in Surjection(S, {f[x] : x \in S})
  BY DEF Surjection
<1> QED
  BY <1>1, FS_Surjection

(* The choices of LeastOf and GreatestOf exist.                            *)
LEMMA Extremes ==
  ASSUME NEW S, IsFiniteSet(S), S # {}, S \subseteq Number
  PROVE  /\ LeastOf(S) \in S /\ \A y \in S : Leq(LeastOf(S), y)
         /\ GreatestOf(S) \in S /\ \A y \in S : Leq(y, GreatestOf(S))
<1>1. \E x \in S : \A y \in S : Leq(x, y)
  BY FiniteLeast
<1>2. \E x \in S : \A y \in S : Leq(y, x)
  <2> DEFINE f == [x \in S |-> Negated(x)]
             N == {f[x] : x \in S}
  <2>1. IsFiniteSet(N)
    BY FiniteImage
  <2>2. N \subseteq Number /\ N # {}
    BY NumbersClosed
  <2>3. PICK z \in N : \A y \in N : Leq(z, y)
    BY <2>1, <2>2, FiniteLeast
  <2>4. PICK x \in S : z = Negated(x)
    OBVIOUS
  <2>5. ASSUME NEW y \in S PROVE Leq(y, x)
    <3>1. Leq(Negated(x), Negated(y))
      BY <2>3, <2>4
    <3> QED
      BY <3>1, OrderLaws
  <2> QED
    BY <2>5
<1>3. LeastOf(S) \in S /\ \A y \in S : Leq(LeastOf(S), y)
  BY <1>1 DEF LeastOf
<1>4. GreatestOf(S) \in S /\ \A y \in S : Leq(y, GreatestOf(S))
  BY <1>2 DEF GreatestOf
<1> QED
  BY <1>3, <1>4

(* Two sums, added by their terms.                                         *)
LEMMA FourSum ==
  ASSUME NEW a \in Number, NEW b \in Number, NEW x \in Number, NEW y \in Number
  PROVE  Plus(Plus(a, b), Plus(x, y)) = Plus(Plus(a, x), Plus(b, y))
<1>1. Plus(x, y) \in Number /\ Plus(b, y) \in Number
  BY NumbersClosed
<1>2. Plus(Plus(a, b), Plus(x, y)) = Plus(a, Plus(b, Plus(x, y)))
  BY <1>1, PlusLaws
<1>3. Plus(b, Plus(x, y)) = Plus(Plus(b, x), y) /\ Plus(Plus(x, b), y) = Plus(x, Plus(b, y))
  BY PlusLaws
<1>4. Plus(b, x) = Plus(x, b)
  BY PlusLaws
<1>5. Plus(a, Plus(x, Plus(b, y))) = Plus(Plus(a, x), Plus(b, y))
  BY <1>1, PlusLaws
<1> QED
  BY <1>2, <1>3, <1>4, <1>5

(* Two factors change places.                                              *)
LEMMA SwapFactors ==
  ASSUME NEW a \in Number, NEW b \in Number, NEW x \in Number
  PROVE  Times(a, Times(b, x)) = Times(b, Times(a, x))
<1>1. Times(Times(a, b), x) = Times(a, Times(b, x)) /\ Times(Times(b, a), x) = Times(b, Times(a, x))
  BY TimesLaws
<1> QED
  BY <1>1, TimesLaws

(* Differences.                                                            *)
LEMMA MinusLaws ==
  ASSUME NEW a \in Number, NEW b \in Number, NEW x \in Number
  PROVE  /\ Minus(Plus(a, x), Plus(b, x)) = Minus(a, b)
         /\ Minus(Plus(x, a), Plus(x, b)) = Minus(a, b)
         /\ Times(x, Minus(a, b)) = Minus(Times(x, a), Times(x, b))
         /\ Minus(a, b) = Zero => a = b
         /\ Leq(Zero, Minus(a, b)) <=> Leq(b, a)
<1>1. /\ Negated(b) \in Number /\ Negated(x) \in Number /\ Zero \in Number
      /\ Minus(a, b) \in Number /\ Times(x, b) \in Number
  BY NumbersClosed, OneAndZero
<1>2. Minus(Plus(a, x), Plus(b, x)) = Minus(a, b)
  <2>1. Negated(Plus(b, x)) = Plus(Negated(b), Negated(x))
    BY TimesLaws
  <2>2. Plus(Plus(a, x), Plus(Negated(b), Negated(x))) =
          Plus(Plus(a, Negated(b)), Plus(x, Negated(x)))
    BY <1>1, FourSum
  <2>3. Plus(x, Negated(x)) = Zero /\ Plus(Minus(a, b), Zero) = Minus(a, b)
    BY <1>1, PlusLaws, WithZero DEF Zero
  <2> QED
    BY <2>1, <2>2, <2>3 DEF Minus
<1>3. Plus(x, a) = Plus(a, x) /\ Plus(x, b) = Plus(b, x)
  BY PlusLaws
<1>4. Times(x, Minus(a, b)) = Minus(Times(x, a), Times(x, b))
  <2>1. Times(x, Plus(a, Negated(b))) = Plus(Times(x, a), Times(x, Negated(b)))
    BY <1>1, TimesLaws
  <2>2. Times(x, Negated(b)) = Times(Negated(b), x) /\ Times(b, x) = Times(x, b)
    BY <1>1, TimesLaws
  <2>3. Times(Negated(b), x) = Negated(Times(b, x))
    BY TimesLaws
  <2> QED
    BY <2>1, <2>2, <2>3 DEF Minus
<1>5. Leq(Zero, Minus(a, b)) <=> Leq(b, a)
  BY <1>1, ChangeSides, WithZero
<1>6. ASSUME Minus(a, b) = Zero PROVE a = b
  <2>1. Leq(Zero, Minus(a, b)) /\ Leq(Minus(a, b), Zero)
    BY <1>1, <1>6, OrderLaws
  <2>2. Leq(Minus(a, b), Zero) <=> Leq(a, Plus(Zero, b))
    BY <1>1, ChangeSides
  <2>3. Leq(a, b) /\ Leq(b, a)
    BY <2>1, <2>2, <1>5, WithZero
  <2> QED
    BY <2>3, OrderLaws
<1> QED
  BY <1>2, <1>3, <1>4, <1>5, <1>6

(* The last factor comes first.                                            *)
LEMMA Rotated ==
  ASSUME NEW a \in Number, NEW b \in Number, NEW x \in Number
  PROVE  Times(a, Times(b, x)) = Times(x, Times(a, b))
<1>1. Times(a, b) \in Number
  BY NumbersClosed
<1>2. Times(Times(a, b), x) = Times(a, Times(b, x)) /\ Times(Times(a, b), x) = Times(x, Times(a, b))
  BY <1>1, TimesLaws
<1> QED
  BY <1>2
==============================================================================
