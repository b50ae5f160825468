--------------------------- MODULE ExpressionProofs --------------------------
(***************************************************************************)
(* Expressions, whatever is written and at whichever place: the            *)
(* interpreter's value, if it has one, is that of the expression as it was *)
(* written, and its derivative a slope of it.  A polynomial is read as it  *)
(* was written, since offsets that an int holds have one digit per         *)
(* variable; every term of an expression has its nodes in the message, in  *)
(* an order in which the interpreter can evaluate them; each operation     *)
(* then calculates what its term means.                                    *)
(***************************************************************************)
EXTENDS Expression, Arithmetic, SequenceTheorems

\* Numbers, and what is not finite.
Value == Number \cup {NotFinite}

\* Numbers alone, or with what is not finite.
Domains == {Number, Value}

(* The one value that is not finite has no sign.                           *)
LEMMA NegatedNotFinite == Negated(NotFinite) = NotFinite
<1>1. \A n \in Int : n + n = n => -n = n
  OBVIOUS
<1>2. PICK z \in Int : z = 0
  OBVIOUS
<1>3. z + z = z
  BY <1>2
<1>5. -z = z
  BY <1>1, <1>3
<1>4. Negated(<<z, 0>>) = <<-z, 0>>
  BY DEF Negated
<1> QED
  BY <1>2, <1>5, <1>4 DEF NotFinite

(* The operations lead from values to values, and what is not finite is    *)
(* handed on.                                                              *)
LEMMA ValuesClosed ==
  ASSUME NEW a \in Value, NEW b \in Value
  PROVE  /\ Plus(a, b) \in Value /\ Times(a, b) \in Value /\ Negated(a) \in Value
         /\ Reciprocal(a) \in Value /\ Sgn(a) \in Number
         /\ Least(a, b) \in Value /\ Greatest(a, b) \in Value
         /\ a[1] \in Int /\ a[2] \in Nat
<1>1. \A x \in Value : x \in Number \/ x = NotFinite
  BY DEF Value
<1>2. \A x \in Number : x[1] \in Int /\ x[2] \in Int /\ x[2] # 0 /\ x[2] \in Nat
  BY NumberType DEF Positives
<1>3. \A x \in Value : x[1] \in Int /\ x[2] \in Int /\ x[2] \in Nat
  BY <1>1, <1>2 DEF NotFinite
<1>4. \A n, d \in Int : Frac(n, d) \in Value
  <2> SUFFICES ASSUME NEW n \in Int, NEW d \in Int PROVE Frac(n, d) \in Value
    OBVIOUS
  <2>1. CASE d = 0
    BY <2>1 DEF Frac, Value
  <2>2. CASE d # 0
    BY <2>2, FracForm DEF Value
  <2> QED
    BY <2>1, <2>2
<1>5. \A x, y \in Value : Plus(x, y) \in Value /\ Times(x, y) \in Value
  <2> SUFFICES ASSUME NEW x \in Value, NEW y \in Value
               PROVE  Plus(x, y) \in Value /\ Times(x, y) \in Value
    OBVIOUS
  <2>1. /\ x[1] * y[2] + y[1] * x[2] \in Int /\ x[2] * y[2] \in Int
        /\ x[1] * y[1] \in Int
    BY <1>3
  <2> QED
    BY <2>1, <1>4 DEF Plus, Times
<1>6. Reciprocal(a) \in Value
  BY <1>3, <1>4 DEF Reciprocal
<1>7. Negated(a) \in Value
  <2>1. CASE a \in Number
    BY <2>1, NegatedNegated DEF Value
  <2>2. CASE a = NotFinite
    BY <2>2, NegatedNotFinite DEF Value
  <2> QED
    BY <1>1, <2>1, <2>2
<1>8. Sgn(a) \in Number
  BY NumFrac DEF Sgn
<1> QED
  BY <1>3, <1>5, <1>6, <1>7, <1>8 DEF Least, Greatest

(* What is not finite is handed on, with any value; it is none of the      *)
(* numbers.                                                                *)
LEMMA NotFiniteStays ==
  ASSUME NEW a \in Value
  PROVE  /\ Plus(a, NotFinite) = NotFinite /\ Plus(NotFinite, a) = NotFinite
         /\ Times(a, NotFinite) = NotFinite /\ Times(NotFinite, a) = NotFinite
         /\ Negated(NotFinite) = NotFinite /\ Reciprocal(NotFinite) = NotFinite
         /\ NotFinite \notin Number
<1>1. a[1] \in Int /\ a[2] \in Int
  BY ValuesClosed
<1>2. /\ a[2] * 0 = 0 /\ 0 * a[2] = 0 /\ a[1] * 0 + 0 * a[2] \in Int
      /\ 0 * a[2] + a[1] * 0 \in Int
  BY <1>1
<1>4. NotFinite[1] = 0 /\ NotFinite[2] = 0
  BY DEF NotFinite
<1>5. \A n : Frac(n, 0) = NotFinite
  BY DEF Frac
<1>7. Plus(a, NotFinite) = NotFinite /\ Plus(NotFinite, a) = NotFinite
  BY <1>2, <1>4, <1>5 DEF Plus
<1>8. Times(a, NotFinite) = NotFinite /\ Times(NotFinite, a) = NotFinite
  BY <1>2, <1>4, <1>5 DEF Times
<1>3. NotFinite \notin Number
  BY NumberType DEF NotFinite, Positives
<1> QED
  BY <1>3, <1>4, <1>5, NegatedNotFinite, <1>7, <1>8 DEF Reciprocal

------------------------------------------------------------------------------
(* Sums, products and powers, as their loops calculate them.               *)

(* The course of a sum,                                                    *)
LEMMA SumUpRuns ==
  ASSUME NEW D, D \in Domains, NEW n \in Nat, NEW s \in [1 .. n -> D]
  PROVE  \E f \in [0 .. n -> D] :
           /\ f[0] = Num(0) /\ \A i \in 1 .. n : f[i] = Plus(f[i - 1], s[i])
           /\ SumUp(s) = f[n]
<1>0. \A x, y \in D : Plus(x, y) \in D
  BY ValuesClosed, NumbersClosed DEF Domains
<1> DEFINE turn == [i \in 1 .. n |-> [x \in D |-> Plus(x, s[i])]]
<1>1. turn \in Turns(n, D) /\ Num(0) \in D
  <2>1. Num(0) \in D
    BY NumFrac DEF Value, Domains
  <2>2. ASSUME NEW i \in 1 .. n, NEW x \in D PROVE Plus(x, s[i]) \in D
    BY <1>0
  <2> QED
    BY <2>1, <2>2 DEF Turns
<1>2. PICK f \in [0 .. n -> D] :
        f[0] = Num(0) /\ \A i \in 1 .. n : f[i] = turn[i][f[i - 1]]
  <2> HIDE DEF turn
  <2>1. Courses(n, D, Num(0), turn) # {}
    BY <1>1, LoopRuns
  <2> QED
    BY <2>1 DEF Courses
<1> DEFINE c == CHOOSE g : g = [i \in 0 .. Len(s) |->
                  IF i = 0 THEN Num(0) ELSE Plus(g[i - 1], s[i])]
<1>3. SumUp(s) = c[n] /\ Len(s) = n
  BY DEF SumUp
<1>4. f = [i \in 0 .. Len(s) |-> IF i = 0 THEN Num(0) ELSE Plus(f[i - 1], s[i])]
  <2>1. \A i \in 1 .. n : f[i] = Plus(f[i - 1], s[i])
    <3>1. \A i \in 1 .. n : f[i - 1] \in D
      BY <1>2
    <3> QED
      BY <3>1, <1>2
  <2> QED
    BY <2>1, <1>2, <1>3
<1>5. c = [i \in 0 .. Len(s) |-> IF i = 0 THEN Num(0) ELSE Plus(c[i - 1], s[i])]
  BY <1>4
<1> HIDE DEF c, turn
<1>6. c[0] = Num(0) /\ \A i \in 1 .. n : c[i] = Plus(c[i - 1], s[i])
  BY <1>3, <1>5
<1>7. c \in [0 .. n -> D]
  <2>1. \A i \in 1 .. n : c[i - 1] \in D => c[i] \in D
    BY <1>0, <1>6
  <2>2. \A i \in 0 .. n : c[i] \in D
    BY <2>1, <1>1, <1>6, LoopStays
  <2> QED
    BY <2>2, <1>3, <1>5
<1> QED
  BY <1>3, <1>6, <1>7

(* and of a product.                                                       *)
LEMMA ProductRuns ==
  ASSUME NEW D, D \in Domains, NEW n \in Nat, NEW s \in [1 .. n -> D]
  PROVE  \E f \in [0 .. n -> D] :
           /\ f[0] = Num(1) /\ \A i \in 1 .. n : f[i] = Times(f[i - 1], s[i])
           /\ Product(s) = f[n]
<1>0. \A x, y \in D : Times(x, y) \in D
  BY ValuesClosed, NumbersClosed DEF Domains
<1> DEFINE turn == [i \in 1 .. n |-> [x \in D |-> Times(x, s[i])]]
<1>1. turn \in Turns(n, D) /\ Num(1) \in D
  <2>1. Num(1) \in D
    BY NumFrac DEF Value, Domains
  <2>2. ASSUME NEW i \in 1 .. n, NEW x \in D PROVE Times(x, s[i]) \in D
    BY <1>0
  <2> QED
    BY <2>1, <2>2 DEF Turns
<1>2. PICK f \in [0 .. n -> D] :
        f[0] = Num(1) /\ \A i \in 1 .. n : f[i] = turn[i][f[i - 1]]
  <2> HIDE DEF turn
  <2>1. Courses(n, D, Num(1), turn) # {}
    BY <1>1, LoopRuns
  <2> QED
    BY <2>1 DEF Courses
<1> DEFINE c == CHOOSE g : g = [i \in 0 .. Len(s) |->
                  IF i = 0 THEN Num(1) ELSE Times(g[i - 1], s[i])]
<1>3. Product(s) = c[n] /\ Len(s) = n
  BY DEF Product
<1>4. f = [i \in 0 .. Len(s) |-> IF i = 0 THEN Num(1) ELSE Times(f[i - 1], s[i])]
  <2>1. \A i \in 1 .. n : f[i] = Times(f[i - 1], s[i])
    <3>1. \A i \in 1 .. n : f[i - 1] \in D
      BY <1>2
    <3> QED
      BY <3>1, <1>2
  <2> QED
    BY <2>1, <1>2, <1>3
<1>5. c = [i \in 0 .. Len(s) |-> IF i = 0 THEN Num(1) ELSE Times(c[i - 1], s[i])]
  BY <1>4
<1> HIDE DEF c, turn
<1>6. c[0] = Num(1) /\ \A i \in 1 .. n : c[i] = Times(c[i - 1], s[i])
  BY <1>3, <1>5
<1>7. c \in [0 .. n -> D]
  <2>1. \A i \in 1 .. n : c[i - 1] \in D => c[i] \in D
    BY <1>0, <1>6
  <2>2. \A i \in 0 .. n : c[i] \in D
    BY <2>1, <1>1, <1>6, LoopStays
  <2> QED
    BY <2>2, <1>3, <1>5
<1> QED
  BY <1>3, <1>6, <1>7

(* The sum of integers.                                                    *)
LEMMA TotalRuns ==
  ASSUME NEW n \in Nat, NEW s \in [1 .. n -> Int]
  PROVE  \E f \in [0 .. n -> Int] :
           /\ f[0] = 0 /\ \A i \in 1 .. n : f[i] = f[i - 1] + s[i]
           /\ Total(s) = f[n]
<1> DEFINE turn == [i \in 1 .. n |-> [x \in Int |-> x + s[i]]]
<1>1. turn \in Turns(n, Int) /\ 0 \in Int
  BY DEF Turns
<1>2. PICK f \in [0 .. n -> Int] :
        f[0] = 0 /\ \A i \in 1 .. n : f[i] = turn[i][f[i - 1]]
  <2> HIDE DEF turn
  <2>1. Courses(n, Int, 0, turn) # {}
    BY <1>1, LoopRuns
  <2> QED
    BY <2>1 DEF Courses
<1> DEFINE c == CHOOSE g : g = [i \in 0 .. Len(s) |->
                  IF i = 0 THEN 0 ELSE g[i - 1] + s[i]]
<1>3. Total(s) = c[n] /\ Len(s) = n
  BY DEF Total
<1>4. f = [i \in 0 .. Len(s) |-> IF i = 0 THEN 0 ELSE f[i - 1] + s[i]]
  <2>1. \A i \in 1 .. n : f[i] = f[i - 1] + s[i]
    <3>1. \A i \in 1 .. n : f[i - 1] \in Int
      BY <1>2
    <3> QED
      BY <3>1, <1>2
  <2> QED
    BY <2>1, <1>2, <1>3
<1>5. c = [i \in 0 .. Len(s) |-> IF i = 0 THEN 0 ELSE c[i - 1] + s[i]]
  BY <1>4
<1> HIDE DEF c, turn
<1>6. c[0] = 0 /\ \A i \in 1 .. n : c[i] = c[i - 1] + s[i]
  BY <1>3, <1>5
<1>7. c \in [0 .. n -> Int]
  <2>1. \A i \in 1 .. n : c[i - 1] \in Int => c[i] \in Int
    BY <1>6
  <2>2. \A i \in 0 .. n : c[i] \in Int
    BY <2>1, <1>1, <1>6, LoopStays
  <2> QED
    BY <2>2, <1>3, <1>5
<1> QED
  BY <1>3, <1>6, <1>7

(* Powers of a natural number.                                             *)
LEMMA RaiseRuns ==
  ASSUME NEW b \in Nat \ {0}, NEW n \in Nat
  PROVE  \E f \in [0 .. n -> Nat \ {0}] :
           /\ f[0] = 1 /\ \A i \in 1 .. n : f[i] = b * f[i - 1]
           /\ Raise(b, n) = f[n]
<1> DEFINE D == Nat \ {0}
<1>0. \A x \in D : b * x \in D
  <2>1. b \in Positives /\ D = Positives
    BY DEF Positives
  <2> QED
    BY <2>1, ProductPositive
<1> DEFINE turn == [i \in 1 .. n |-> [x \in D |-> b * x]]
<1>1. turn \in Turns(n, D) /\ 1 \in D
  BY <1>0 DEF Turns
<1>2. PICK f \in [0 .. n -> D] :
        f[0] = 1 /\ \A i \in 1 .. n : f[i] = turn[i][f[i - 1]]
  <2> HIDE DEF turn, D
  <2>1. Courses(n, D, 1, turn) # {}
    BY <1>1, LoopRuns
  <2> QED
    BY <2>1 DEF Courses
<1> DEFINE c == CHOOSE g : g = [i \in 0 .. n |-> IF i = 0 THEN 1 ELSE b * g[i - 1]]
<1>3. Raise(b, n) = c[n]
  BY DEF Raise
<1>4. f = [i \in 0 .. n |-> IF i = 0 THEN 1 ELSE b * f[i - 1]]
  <2>1. \A i \in 1 .. n : f[i] = b * f[i - 1]
    <3>1. \A i \in 1 .. n : f[i - 1] \in D
      BY <1>2
    <3> QED
      BY <3>1, <1>2
  <2> QED
    BY <2>1, <1>2
<1>5. c = [i \in 0 .. n |-> IF i = 0 THEN 1 ELSE b * c[i - 1]]
  BY <1>4
<1> HIDE DEF c, turn
<1>6. c[0] = 1 /\ \A i \in 1 .. n : c[i] = b * c[i - 1]
  BY <1>5
<1>7. c \in [0 .. n -> D]
  <2>1. \A i \in 1 .. n : c[i - 1] \in D => c[i] \in D
    BY <1>0, <1>6
  <2> HIDE DEF D
  <2>2. \A i \in 0 .. n : c[i] \in D
    BY <2>1, <1>1, <1>6, LoopStays
  <2> QED
    BY <2>2, <1>5
<1> QED
  BY <1>3, <1>6, <1>7

(* They are powers: one, and once more multiplied for each step.           *)
LEMMA RaiseLaws ==
  ASSUME NEW b \in Nat \ {0}, NEW n \in Nat
  PROVE  /\ Raise(b, n) \in Nat \ {0} /\ Raise(b, 0) = 1
         /\ Raise(b, n + 1) = b * Raise(b, n)
<1>1. PICK f \in [0 .. n -> Nat \ {0}] :
        /\ f[0] = 1 /\ \A i \in 1 .. n : f[i] = b * f[i - 1]
        /\ Raise(b, n) = f[n]
  BY RaiseRuns
<1>2. PICK g \in [0 .. n + 1 -> Nat \ {0}] :
        /\ g[0] = 1 /\ \A i \in 1 .. n + 1 : g[i] = b * g[i - 1]
        /\ Raise(b, n + 1) = g[n + 1]
  <2>1. n + 1 \in Nat
    OBVIOUS
  <2> HIDE DEF Positives
  <2> QED
    BY <2>1, RaiseRuns
<1>3. Raise(b, 0) = 1
  BY RaiseRuns, 0 \in Nat
<1>4. g[n] = f[n]
  <2> DEFINE S == {i \in 0 .. n : g[i] = f[i]}
  <2>1. 0 \in S
    BY <1>1, <1>2
  <2>2. ASSUME NEW i \in 1 .. n, i - 1 \in S PROVE i \in S
    <3>1. i \in 1 .. n + 1
      OBVIOUS
    <3> QED
      BY <3>1, <2>2, <1>1, <1>2
  <2> HIDE DEF S
  <2>3. \A i \in 0 .. n : i \in S
    BY <2>1, <2>2, UpTo
  <2> QED
    BY <2>3 DEF S
<1>5. g[n + 1] = b * g[n]
  <2>1. n + 1 \in 1 .. n + 1 /\ n + 1 - 1 = n
    OBVIOUS
  <2> QED
    BY <2>1, <1>2
<1> QED
  BY <1>1, <1>2, <1>3, <1>4, <1>5

(* Powers of a number.                                                     *)
LEMMA RaisedLaws ==
  ASSUME NEW D, D \in Domains, NEW a \in D, NEW n \in Nat
  PROVE  /\ Raised(a, n) \in D /\ Raised(a, 0) = Num(1)
         /\ Raised(a, n + 1) = Times(Raised(a, n), a)
<1> DEFINE s(k) == [x \in 1 .. k |-> a]
<1>0. \A k \in Nat : s(k) \in [1 .. k -> D] /\ Raised(a, k) = Product(s(k))
  BY DEF Raised
<1>1. PICK f \in [0 .. n -> D] :
        /\ f[0] = Num(1) /\ \A i \in 1 .. n : f[i] = Times(f[i - 1], s(n)[i])
        /\ Product(s(n)) = f[n]
  <2> DEFINE t == s(n)
  <2>1. t \in [1 .. n -> D]
    BY <1>0
  <2> HIDE DEF t
  <2>2. \E h \in [0 .. n -> D] :
          /\ h[0] = Num(1) /\ \A i \in 1 .. n : h[i] = Times(h[i - 1], t[i])
          /\ Product(t) = h[n]
    BY <2>1, ProductRuns
  <2> QED
    BY <2>2 DEF t
<1>2. PICK g \in [0 .. n + 1 -> D] :
        /\ g[0] = Num(1) /\ \A i \in 1 .. n + 1 : g[i] = Times(g[i - 1], s(n + 1)[i])
        /\ Product(s(n + 1)) = g[n + 1]
  <2> DEFINE N == n + 1
             t == s(N)
  <2>1. N \in Nat /\ t \in [1 .. N -> D]
    BY <1>0
  <2> HIDE DEF t, N
  <2>2. \E h \in [0 .. N -> D] :
          /\ h[0] = Num(1) /\ \A i \in 1 .. N : h[i] = Times(h[i - 1], t[i])
          /\ Product(t) = h[N]
    BY ZenonT(60), <2>1, ProductRuns
  <2> QED
    BY <2>2 DEF t, N
<1>3. Raised(a, 0) = Num(1)
  <2>1. \E h \in [0 .. 0 -> D] : h[0] = Num(1) /\ Product(s(0)) = h[0]
    <3> DEFINE t == s(0)
    <3>1. t \in [1 .. 0 -> D] /\ 0 \in Nat
      BY <1>0
    <3> HIDE DEF t
    <3>2. \E h \in [0 .. 0 -> D] :
            /\ h[0] = Num(1) /\ \A i \in 1 .. 0 : h[i] = Times(h[i - 1], t[i])
            /\ Product(t) = h[0]
      BY <3>1, ProductRuns
    <3> QED
      BY <3>2 DEF t
  <2> QED
    BY <2>1, <1>0
<1>4. g[n] = f[n]
  <2> DEFINE S == {i \in 0 .. n : g[i] = f[i]}
  <2>1. 0 \in S
    BY <1>1, <1>2
  <2>2. ASSUME NEW i \in 1 .. n, i - 1 \in S PROVE i \in S
    <3>1. i \in 1 .. n + 1 /\ s(n)[i] = a /\ s(n + 1)[i] = a
      OBVIOUS
    <3> HIDE DEF s
    <3> QED
      BY <3>1, <2>2, <1>1, <1>2
  <2> HIDE DEF S
  <2>3. \A i \in 0 .. n : i \in S
    BY <2>1, <2>2, UpTo
  <2> QED
    BY <2>3 DEF S
<1>5. g[n + 1] = Times(g[n], a)
  <2>1. n + 1 \in 1 .. n + 1 /\ n + 1 - 1 = n /\ s(n + 1)[n + 1] = a
    OBVIOUS
  <2> HIDE DEF s
  <2> QED
    BY <2>1, <1>2
<1> HIDE DEF s
<1> QED
  BY <1>0, <1>1, <1>2, <1>3, <1>4, <1>5

(* A factor may be taken out of a product.                                 *)
LEMMA ProductSplit ==
  ASSUME NEW n \in Nat, NEW s \in [1 .. n -> Number], NEW m \in 1 .. n
  PROVE  /\ Product([s EXCEPT ![m] = Num(1)]) \in Number
         /\ Product(s) = Times(Product([s EXCEPT ![m] = Num(1)]), s[m])
<1> DEFINE t == [s EXCEPT ![m] = Num(1)]
<1>1. Num(1) \in Number /\ \A x \in Number : Times(x, Num(1)) = x
  BY OneAndZero, WithZero DEF One
<1>2. t \in [1 .. n -> Number] /\ t[m] = Num(1) /\ \A i \in 1 .. n : i # m => t[i] = s[i]
  BY <1>1
<1> HIDE DEF t
<1>3. Number \in Domains
  BY DEF Domains
<1>4. PICK f \in [0 .. n -> Number] :
        /\ f[0] = Num(1) /\ \A i \in 1 .. n : f[i] = Times(f[i - 1], s[i])
        /\ Product(s) = f[n]
  BY <1>3, ProductRuns
<1>5. PICK g \in [0 .. n -> Number] :
        /\ g[0] = Num(1) /\ \A i \in 1 .. n : g[i] = Times(g[i - 1], t[i])
        /\ Product(t) = g[n]
  <2>1. t \in [1 .. n -> Number]
    BY <1>2
  <2> QED
    BY ONLY n \in Nat, <2>1, <1>3, ProductRuns
<1> DEFINE S == {i \in 0 .. n : f[i] = IF i < m THEN g[i] ELSE Times(g[i], s[m])}
<1>6. 0 \in S
  BY <1>4, <1>5
<1>7. ASSUME NEW i \in 1 .. n, i - 1 \in S PROVE i \in S
  <2>1. /\ f[i] = Times(f[i - 1], s[i]) /\ g[i] = Times(g[i - 1], t[i])
        /\ f[i - 1] = IF i - 1 < m THEN g[i - 1] ELSE Times(g[i - 1], s[m])
    BY <1>4, <1>5, <1>7
  <2>2. g[i - 1] \in Number /\ s[i] \in Number /\ s[m] \in Number
    BY <1>5
  <2>3. CASE i < m
    <3>1. f[i - 1] = g[i - 1] /\ t[i] = s[i]
      BY <2>1, <2>3, <1>2
    <3> QED
      BY <3>1, <2>1, <2>3
  <2>4. CASE i = m
    <3>1. f[i - 1] = g[i - 1] /\ t[i] = Num(1)
      BY <2>1, <2>4, <1>2
    <3>2. g[i] = g[i - 1]
      BY <2>1, <2>2, <3>1, <1>1
    <3> QED
      BY <3>1, <3>2, <2>1, <2>4
  <2>5. CASE i > m
    <3>1. f[i - 1] = Times(g[i - 1], s[m]) /\ t[i] = s[i]
      BY <2>1, <2>5, <1>2
    <3>2. Times(Times(g[i - 1], s[m]), s[i]) = Times(Times(g[i - 1], s[i]), s[m])
      <4> DEFINE x == g[i - 1]
                 y == s[m]
                 z == s[i]
      <4>1. x \in Number /\ y \in Number /\ z \in Number
        BY <2>2
      <4> HIDE DEF x, y, z
      <4>2. Times(Times(x, y), z) = Times(x, Times(y, z)) /\ Times(y, z) = Times(z, y)
            /\ Times(Times(x, z), y) = Times(x, Times(z, y))
        BY <4>1, TimesLaws
      <4>3. Times(Times(x, y), z) = Times(Times(x, z), y)
        BY <4>2
      <4> QED
        BY <4>3 DEF x, y, z
    <3> QED
      BY <3>1, <3>2, <2>1, <2>5
  <2> QED
    BY <2>3, <2>4, <2>5
<1> HIDE DEF S
<1>8. n \in S
  <2>1. \A i \in 0 .. n : i \in S
    BY <1>6, <1>7, UpTo
  <2> QED
    BY <2>1
<1>9. f[n] = Times(g[n], s[m]) /\ g[n] \in Number
  BY <1>8, <1>5 DEF S
<1> QED
  BY <1>4, <1>5, <1>9 DEF t

(* A term may be taken out of a sum.                                       *)
LEMMA TotalSplit ==
  ASSUME NEW n \in Nat, NEW s \in [1 .. n -> Int], NEW m \in 1 .. n
  PROVE  /\ Total([s EXCEPT ![m] = 0]) \in Int
         /\ Total(s) = Total([s EXCEPT ![m] = 0]) + s[m]
<1> DEFINE t == [s EXCEPT ![m] = 0]
<1>1. t \in [1 .. n -> Int] /\ t[m] = 0 /\ \A i \in 1 .. n : i # m => t[i] = s[i]
  OBVIOUS
<1> HIDE DEF t
<1>2. PICK f \in [0 .. n -> Int] :
        /\ f[0] = 0 /\ \A i \in 1 .. n : f[i] = f[i - 1] + s[i]
        /\ Total(s) = f[n]
  BY TotalRuns
<1>3. PICK g \in [0 .. n -> Int] :
        /\ g[0] = 0 /\ \A i \in 1 .. n : g[i] = g[i - 1] + t[i]
        /\ Total(t) = g[n]
  BY <1>1, TotalRuns
<1> DEFINE S == {i \in 0 .. n : f[i] = IF i < m THEN g[i] ELSE g[i] + s[m]}
<1>4. 0 \in S
  BY <1>2, <1>3
<1>5. ASSUME NEW i \in 1 .. n, i - 1 \in S PROVE i \in S
  <2>1. /\ f[i] = f[i - 1] + s[i] /\ g[i] = g[i - 1] + t[i]
        /\ f[i - 1] = IF i - 1 < m THEN g[i - 1] ELSE g[i - 1] + s[m]
    BY <1>2, <1>3, <1>5
  <2>2. g[i - 1] \in Int /\ s[i] \in Int /\ s[m] \in Int /\ t[i] \in Int
    BY SMTT(30), <1>1, <1>3
  <2>3. CASE i < m
    <3>1. f[i - 1] = g[i - 1] /\ t[i] = s[i]
      BY <2>1, <2>3, <1>1
    <3> QED
      BY <3>1, <2>1, <2>3
  <2>4. CASE i = m
    <3>1. f[i - 1] = g[i - 1] /\ t[i] = 0
      BY <2>1, <2>4, <1>1
    <3> QED
      BY <3>1, <2>1, <2>2, <2>4
  <2>5. CASE i > m
    <3>1. f[i - 1] = g[i - 1] + s[m] /\ t[i] = s[i]
      BY <2>1, <2>5, <1>1
    <3> QED
      BY <3>1, <2>1, <2>2, <2>5
  <2> QED
    BY <2>3, <2>4, <2>5
<1> HIDE DEF S
<1>6. n \in S
  <2>1. \A i \in 0 .. n : i \in S
    BY <1>4, <1>5, UpTo
  <2> QED
    BY <2>1
<1>7. f[n] = g[n] + s[m] /\ g[n] \in Int
  BY <1>6, <1>3 DEF S
<1> QED
  BY <1>2, <1>3, <1>7 DEF t

(* A product of ones.                                                      *)
LEMMA ProductOfOnes ==
  ASSUME NEW n \in Nat, NEW s \in [1 .. n -> Number], \A i \in 1 .. n : s[i] = Num(1)
  PROVE  Product(s) = Num(1)
<1>1. Number \in Domains /\ Num(1) \in Number /\ Times(Num(1), Num(1)) = Num(1)
  BY OneAndZero, WithZero DEF One, Domains
<1>2. PICK f \in [0 .. n -> Number] :
        /\ f[0] = Num(1) /\ \A i \in 1 .. n : f[i] = Times(f[i - 1], s[i])
        /\ Product(s) = f[n]
  BY <1>1, ProductRuns
<1> DEFINE S == {i \in 0 .. n : f[i] = Num(1)}
<1>3. 0 \in S
  BY <1>2
<1>4. ASSUME NEW i \in 1 .. n, i - 1 \in S PROVE i \in S
  BY <1>1, <1>2, <1>4
<1> HIDE DEF S
<1>5. \A i \in 0 .. n : i \in S
  BY <1>3, <1>4, UpTo
<1>6. n \in S
  BY <1>5
<1> QED
  BY <1>2, <1>6 DEF S

(* A sum of zeros.                                                         *)
LEMMA TotalOfZeros ==
  ASSUME NEW n \in Nat, NEW s \in [1 .. n -> Int], \A i \in 1 .. n : s[i] = 0
  PROVE  Total(s) = 0
<1>1. PICK f \in [0 .. n -> Int] :
        /\ f[0] = 0 /\ \A i \in 1 .. n : f[i] = f[i - 1] + s[i]
        /\ Total(s) = f[n]
  BY TotalRuns
<1> DEFINE S == {i \in 0 .. n : f[i] = 0}
<1>2. 0 \in S
  BY <1>1
<1>3. ASSUME NEW i \in 1 .. n, i - 1 \in S PROVE i \in S
  BY <1>1, <1>3
<1> HIDE DEF S
<1>4. \A i \in 0 .. n : i \in S
  BY <1>2, <1>3, UpTo
<1>5. n \in S
  BY <1>4
<1> QED
  BY <1>1, <1>5 DEF S

------------------------------------------------------------------------------
(* Polynomials: the digits of an offset are the exponents of its monomial, *)
(* so the interpreter reads what buildPolynomial wrote.                    *)

(* The digits of a number that is put together of digits.                  *)
LEMMA DigitsRead ==
  ASSUME NEW B \in Nat \ {0}, NEW L \in Nat, NEW E \in [1 .. L -> 0 .. B - 1],
         NEW t, t = [x \in 1 .. L |-> E[x] * Raise(B, x - 1)]
  PROVE  /\ Total(t) \in Nat /\ Total(t) < Raise(B, L)
         /\ \A x \in 1 .. L : (Total(t) \div Raise(B, x - 1)) % B = E[x]
<1> DEFINE p == [k \in Nat |-> Raise(B, k)]
<1>1. /\ p \in [Nat -> Nat \ {0}] /\ p[0] = 1 /\ \A k \in Nat : p[k + 1] = B * p[k]
      /\ \A k \in Nat : p[k] = Raise(B, k)
  <2>1. \A k \in Nat : Raise(B, k) \in Nat \ {0} /\ Raise(B, k + 1) = B * Raise(B, k)
    BY RaiseLaws
  <2>2. Raise(B, 0) = 1
    BY RaiseLaws, 0 \in Nat
  <2>3. \A k \in Nat : k + 1 \in Nat
    OBVIOUS
  <2> QED
    BY <2>1, <2>2, <2>3
<1>10. \A k \in Nat : p[k] = Raise(B, k) /\ p[k] \in Int
  BY RaiseLaws
<1> HIDE DEF p
<1>2. \A x \in 1 .. L : p[x] = B * p[x - 1] /\ p[x - 1] \in Nat \ {0} /\ p[x] \in Nat \ {0}
  <2> SUFFICES ASSUME NEW x \in 1 .. L
               PROVE  p[x] = B * p[x - 1] /\ p[x - 1] \in Nat \ {0} /\ p[x] \in Nat \ {0}
    OBVIOUS
  <2>1. x - 1 \in Nat /\ x - 1 + 1 = x /\ x \in Nat
    OBVIOUS
  <2>2. p[x - 1 + 1] = B * p[x - 1]
    BY <1>1, <2>1
  <2> QED
    BY <1>1, <2>1, <2>2
<1>3. t \in [1 .. L -> Int] /\ \A x \in 1 .. L : t[x] = E[x] * p[x - 1]
  <2>1. \A x \in 1 .. L : Raise(B, x - 1) = p[x - 1] /\ p[x - 1] \in Int
    <3>1. \A x \in 1 .. L : x - 1 \in Nat
      OBVIOUS
    <3> QED
      BY <3>1, <1>10
  <2>2. \A x \in 1 .. L : E[x] * p[x - 1] \in Int
    BY <2>1
  <2> QED
    BY <2>1, <2>2
<1>4. PICK f \in [0 .. L -> Int] :
        /\ f[0] = 0 /\ \A i \in 1 .. L : f[i] = f[i - 1] + t[i]
        /\ Total(t) = f[L]
  BY <1>3, TotalRuns
<1>5. \A i \in 1 .. L : f[i] = f[i - 1] + E[i] * p[i - 1]
  BY <1>3, <1>4
<1>6. \A i \in 0 .. L : f[i] \in 0 .. p[i] - 1
  <2> DEFINE S == {i \in 0 .. L : f[i] \in 0 .. p[i] - 1}
  <2>1. 0 \in S
    <3>1. f[0] = 0 /\ p[0] = 1 /\ 0 \in 0 .. 1 - 1 /\ 0 \in 0 .. L
      BY <1>1, <1>4
    <3> QED
      BY <3>1
  <2>2. ASSUME NEW i \in 1 .. L, i - 1 \in S PROVE i \in S
    <3> DEFINE x == f[i - 1]
               k == p[i - 1]
               d == E[i]
    <3>1. x \in 0 .. k - 1 /\ k \in Nat \ {0} /\ d \in 0 .. B - 1
          /\ f[i] = x + d * k /\ p[i] = B * k
      BY <2>2, <1>2, <1>5
    <3> HIDE DEF x, k, d
    <3>2. PICK c \in Nat : B = d + 1 + c
      <4>1. B - d - 1 \in Nat /\ B = d + 1 + (B - d - 1)
        BY <3>1
      <4> QED
        BY <4>1
    <3>3. B * k = d * k + k + c * k /\ d * k \in Nat /\ c * k \in Nat
      BY <3>1, <3>2
    <3>4. x + d * k \in 0 .. B * k - 1
      <4> DEFINE y == d * k
                 z == c * k
      <4> HIDE DEF y, z
      <4>1. y \in Nat /\ z \in Nat /\ B * k = y + k + z
        BY <3>3 DEF y, z
      <4>2. x + y \in 0 .. B * k - 1
        BY <4>1, <3>1
      <4> QED
        BY <4>2 DEF y
    <3> QED
      BY <3>1, <3>4
  <2> HIDE DEF S
  <2>3. \A i \in 0 .. L : i \in S
    BY <2>1, <2>2, UpTo
  <2> QED
    BY <2>3 DEF S
<1>7. ASSUME NEW x \in 1 .. L
      PROVE  \E q \in Nat : f[L] = f[x] + p[x] * q
  <2> DEFINE S == {i \in 0 .. L : i >= x =>
                     \E q, r \in Nat : f[i] = f[x] + p[x] * q /\ p[i] = p[x] * r}
  <2>0. /\ f[x] \in Int /\ p[x] \in Nat /\ x \in 0 .. L
    BY <1>2, <1>4
  <2>1. 0 \in S
    OBVIOUS
  <2>2. ASSUME NEW i \in 1 .. L, i - 1 \in S PROVE i \in S
    <3>1. CASE i < x
      BY <3>1
    <3>2. CASE i = x
      <4>1. f[i] = f[x] + p[x] * 0 /\ p[i] = p[x] * 1
        BY <2>0, <3>2
      <4> QED
        BY <4>1
    <3>3. CASE i > x
      <4>1. PICK q, r \in Nat : f[i - 1] = f[x] + p[x] * q /\ p[i - 1] = p[x] * r
        BY <2>2, <3>3
      <4>2. f[i] = f[i - 1] + E[i] * p[i - 1] /\ p[i] = B * p[i - 1] /\ E[i] \in Nat
        BY <1>2, <1>5
      <4> DEFINE u == f[x]
                 w == p[x]
                 d == E[i]
      <4>3. u \in Int /\ w \in Nat /\ d \in Nat
        BY <2>0, <4>2
      <4> HIDE DEF u, w, d
      <4>4. u + w * q + d * (w * r) = u + w * (q + d * r) /\ B * (w * r) = w * (B * r)
        <5>1. \A a, b, c \in Int : a * (b * c) = b * (a * c) /\ a * (b + c) = a * b + a * c
          OBVIOUS
        <5>2. d * r \in Int /\ w * q \in Int /\ w * (d * r) \in Int
          BY <4>3
        <5>3. d * (w * r) = w * (d * r) /\ w * (q + d * r) = w * q + w * (d * r)
              /\ B * (w * r) = w * (B * r)
          BY <4>3, <5>1, <5>2
        <5> HIDE DEF p
        <5> QED
          BY <4>3, <5>2, <5>3
      <4>5. q + d * r \in Nat /\ B * r \in Nat
        <5>1. \A a, b \in Nat : a * b \in Nat
          OBVIOUS
        <5>2. d * r \in Nat /\ B * r \in Nat
          BY <4>3, <5>1
        <5> QED
          BY <5>2
      <4>6. f[i] = u + w * (q + d * r) /\ p[i] = w * (B * r)
        BY <4>1, <4>2, <4>4 DEF u, w, d
      <4>7. \E y, z \in Nat : f[i] = u + w * y /\ p[i] = w * z
        BY <4>5, <4>6
      <4> QED
        BY <4>7 DEF u, w
    <3> QED
      BY <3>1, <3>2, <3>3
  <2> HIDE DEF S
  <2>3. \A i \in 0 .. L : i \in S
    BY <2>1, <2>2, UpTo
  <2>4. L \in S /\ L >= x
    BY <2>3
  <2> QED
    BY <2>4 DEF S
<1>8. ASSUME NEW x \in 1 .. L
      PROVE  (Total(t) \div Raise(B, x - 1)) % B = E[x]
  <2>1. PICK q \in Nat : f[L] = f[x] + p[x] * q
    BY <1>7
  <2> DEFINE u == f[x - 1]
             w == p[x - 1]
             d == E[x]
  <2>2. /\ u \in 0 .. w - 1 /\ w \in Nat \ {0} /\ d \in 0 .. B - 1
        /\ f[x] = u + d * w /\ p[x] = B * w /\ w = Raise(B, x - 1)
    <3>1. x - 1 \in 0 .. L /\ x - 1 \in Nat
      OBVIOUS
    <3>2. f[x - 1] \in 0 .. p[x - 1] - 1
      BY <3>1, <1>6
    <3>3. p[x - 1] = Raise(B, x - 1)
      BY <3>1, <1>1
    <3> QED
      BY <3>2, <3>3, <1>2, <1>5
  <2>3. Total(t) = u + d * w + (B * w) * q
    BY <1>4, <2>1, <2>2
  <2> HIDE DEF u, w, d
  <2>4. Total(t) = w * (B * q + d) + u /\ B * q + d \in Int
    BY <2>2, <2>3
  <2>5. Total(t) \div w = B * q + d
    BY ZenonT(60), <2>2, <2>4, DivisionUnique
  <2>6. (B * q + d) % B = d
    <3>1. B \in Nat \ {0} /\ q \in Int /\ d \in 0 .. B - 1
      BY <2>2
    <3> QED
      BY ONLY <3>1, DivisionUnique
  <2> QED
    BY <2>2, <2>5, <2>6 DEF d
<1>9. Total(t) \in Nat /\ Total(t) < Raise(B, L)
  <2>1. f[L] \in 0 .. p[L] - 1 /\ p[L] = Raise(B, L) /\ p[L] \in Nat
    BY <1>1, <1>6
  <2> QED
    BY <2>1, <1>4
<1> QED
  BY <1>8, <1>9

(* A set of numbers up to a bound has a largest.                           *)
LEMMA LargestExists ==
  ASSUME NEW n \in Nat, NEW S \in SUBSET (0 .. n), S # {}
  PROVE  \E x \in S : \A y \in S : x >= y
<1> DEFINE T == {k \in 0 .. n : (\E y \in S : n - k <= y) => \E x \in S : \A y \in S : x >= y}
<1>1. 0 \in T
  OBVIOUS
<1>2. ASSUME NEW k \in 1 .. n, k - 1 \in T PROVE k \in T
  <2> SUFFICES ASSUME NEW z \in S, n - k <= z
               PROVE  \E x \in S : \A y \in S : x >= y
    OBVIOUS
  <2>1. CASE \E y \in S : n - (k - 1) <= y
    BY <2>1, <1>2
  <2>2. CASE \A y \in S : ~(n - (k - 1) <= y)
    <3>1. \A y \in S : z >= y
      BY <2>2
    <3> QED
      BY <3>1
  <2> QED
    BY <2>1, <2>2
<1> HIDE DEF T
<1>3. \A k \in 0 .. n : k \in T
  BY <1>1, <1>2, UpTo
<1>4. n \in T
  BY <1>3
<1>5. PICK y \in S : TRUE
  OBVIOUS
<1>6. n - n <= y
  <2>1. y \in 0 .. n
    OBVIOUS
  <2> QED
    BY <2>1
<1> QED
  BY <1>4, <1>6 DEF T

\* Polynomials that may be written.
Monomials(s) == IsSequence(s) /\ \A j \in DOMAIN s : IsMonomial(s[j])

(* No power is above the degree, which fits a byte.                        *)
LEMMA DegreeBounds ==
  ASSUME NEW s, Monomials(s)
  PROVE  /\ maxVarDegree(s) \in 0 .. ByteValues - 1
         /\ maxVarDegree(s) % ByteValues = maxVarDegree(s)
         /\ \A j \in DOMAIN s : \A a \in DOMAIN s[j].powers :
              s[j].powers[a].pow \in 0 .. maxVarDegree(s)
<1> DEFINE S == {0} \cup UNION {Powers(s[x]) : x \in DOMAIN s}
           n == ByteValues - 1
<1>1. n \in Nat /\ ByteValues \in Nat \ {0}
  BY ByteAssumption
<1>2. \A j \in DOMAIN s : \A a \in DOMAIN s[j].powers : s[j].powers[a].pow \in 0 .. n
  <2> SUFFICES ASSUME NEW j \in DOMAIN s, NEW a \in DOMAIN s[j].powers
               PROVE  s[j].powers[a].pow \in 0 .. n
    OBVIOUS
  <2> DEFINE p == s[j].powers
  <2> DEFINE R == [var : Names, pow : 0 .. n]
  <2>1. p \in Seq(R)
    BY DEF Monomials, IsMonomial
  <2> HIDE DEF p, R
  <2>2. \A b \in DOMAIN p : p[b] \in R
    BY <2>1
  <2>3. s[j].powers[a] \in R
    BY <2>2 DEF p
  <2> QED
    BY <2>3 DEF R
<1>3. S \in SUBSET (0 .. n) /\ 0 \in S
  <2>1. \A j \in DOMAIN s : Powers(s[j]) \subseteq 0 .. n
    BY <1>2 DEF Powers
  <2>2. 0 \in 0 .. n
    BY <1>1
  <2> QED
    BY <2>1, <2>2
<1>4. \A j \in DOMAIN s : \A a \in DOMAIN s[j].powers : s[j].powers[a].pow \in S
  BY DEF Powers
<1>5. maxVarDegree(s) = Max(S)
  BY DEF maxVarDegree
<1> HIDE DEF S, n
<1>6. \E x \in S : \A y \in S : x >= y
  BY <1>1, <1>3, LargestExists
<1>7. Max(S) \in S /\ \A y \in S : Max(S) >= y
  BY <1>6 DEF Max
<1>8. maxVarDegree(s) \in 0 .. n /\ \A y \in S : y \in 0 .. maxVarDegree(s)
  <2>1. \A y \in S : y \in 0 .. n
    BY <1>3
  <2>2. Max(S) \in 0 .. n
    BY <1>7, <2>1
  <2>3. \A y \in S : y \in 0 .. Max(S)
    BY <1>1, <1>7, <2>1, <2>2
  <2> QED
    BY <1>5, <2>2, <2>3
<1>9. maxVarDegree(s) % ByteValues = maxVarDegree(s)
  <2> DEFINE d == maxVarDegree(s)
  <2>1. d \in 0 .. ByteValues - 1
    BY <1>8 DEF n
  <2> HIDE DEF d
  <2>2. (ByteValues * 0 + d) % ByteValues = d
    BY <1>1, <2>1, DivisionUnique, 0 \in Int
  <2>3. ByteValues * 0 + d = d
    BY <1>1, <2>1
  <2> QED
    BY <2>2, <2>3 DEF d
<1> QED
  BY <1>4, <1>8, <1>9 DEF n

\* Names on a list, each once, among them those that occur.
Lists(vs, s) ==
  /\ vs \in [1 .. Len(vs) -> Names] /\ Len(vs) \in Nat
  /\ \A x, y \in DOMAIN vs : vs[x] = vs[y] => x = y
  /\ \A j \in DOMAIN s : \A v \in Named(s[j]) : v \in Names => \E x \in DOMAIN vs : vs[x] = v

(* The list of the variables.                                              *)
LEMMA VariablesListed ==
  ASSUME NEW s
  PROVE  Lists(variables(s), s)
<1> DEFINE N == Len(VarNames)
           Used(x) == \E j \in DOMAIN s : VarNames[x] \in Named(s[j])
           D == Seq(Names)
           turn == [x \in 1 .. N |-> [l \in D |-> IF Used(x) THEN Append(l, VarNames[x]) ELSE l]]
<1>1. /\ N \in Nat /\ \A x \in 1 .. N : VarNames[x] \in Names
      /\ \A v \in Names : \E x \in 1 .. N : VarNames[x] = v
      /\ \A x, y \in 1 .. N : VarNames[x] = VarNames[y] => x = y
  <2>1. VarNames \in Seq(STRING) /\ \A x, y \in DOMAIN VarNames : VarNames[x] = VarNames[y] => x = y
    BY NamesAssumption
  <2>2. N \in Nat /\ DOMAIN VarNames = 1 .. N
    BY <2>1
  <2> QED
    BY <2>1, <2>2 DEF Names
<1>0. N \in Nat
  BY <1>1
<1> HIDE DEF Used
<1>2. turn \in Turns(N, D) /\ <<>> \in D
  BY <1>1 DEF Turns
<1>3. PICK f \in [0 .. N -> D] :
        f[0] = <<>> /\ \A x \in 1 .. N : f[x] = turn[x][f[x - 1]]
  <2> HIDE DEF turn, D, N
  <2>1. Courses(N, D, <<>>, turn) # {}
    BY <1>1, <1>2, LoopRuns
  <2> QED
    BY <2>1 DEF Courses
<1> DEFINE c == CHOOSE g : g = [x \in 0 .. N |->
                  IF x = 0 THEN <<>>
                  ELSE IF Used(x) THEN Append(g[x - 1], VarNames[x]) ELSE g[x - 1]]
<1>4. variables(s) = c[N]
  BY DEF variables, Used
<1>5. \A x \in 1 .. N : f[x] = IF Used(x) THEN Append(f[x - 1], VarNames[x]) ELSE f[x - 1]
  <2>1. \A x \in 1 .. N : f[x - 1] \in D
    BY <1>1, <1>3
  <2> HIDE DEF D, N
  <2> QED
    BY <2>1, <1>3
<1> HIDE DEF turn
<1>6. f = [x \in 0 .. N |-> IF x = 0 THEN <<>>
             ELSE IF Used(x) THEN Append(f[x - 1], VarNames[x]) ELSE f[x - 1]]
  <2> HIDE DEF D, N
  <2>1. \A x \in 0 .. N : x # 0 => x \in 1 .. N
    BY <1>0
  <2> QED
    BY <1>0, <1>3, <1>5, <2>1
<1>7. c = [x \in 0 .. N |-> IF x = 0 THEN <<>>
             ELSE IF Used(x) THEN Append(c[x - 1], VarNames[x]) ELSE c[x - 1]]
  BY <1>6
<1> HIDE DEF c, N
<1>8. c[0] = <<>> /\ \A x \in 1 .. N :
        c[x] = IF Used(x) THEN Append(c[x - 1], VarNames[x]) ELSE c[x - 1]
  <2>1. 0 \in 0 .. N /\ \A x \in 1 .. N : x \in 0 .. N /\ x # 0
    BY <1>0
  <2> QED
    BY <1>7, <2>1
<1> DEFINE Good(x, l) ==
             /\ l \in Seq(Names)
             /\ \A i \in 1 .. Len(l) : \E y \in 1 .. x : l[i] = VarNames[y]
             /\ \A i, k \in 1 .. Len(l) : l[i] = l[k] => i = k
             /\ \A y \in 1 .. x : Used(y) => \E i \in 1 .. Len(l) : l[i] = VarNames[y]
           S == {x \in 0 .. N : Good(x, c[x])}
<1>9. 0 \in S
  <2>1. \A x \in 1 .. 0 : FALSE
    OBVIOUS
  <2>2. <<>> \in Seq(Names) /\ Len(<<>>) = 0
    OBVIOUS
  <2>3. Good(0, <<>>)
    BY <2>1, <2>2
  <2> HIDE DEF Good
  <2> QED
    BY <1>0, <1>8, <2>3
<1>10. ASSUME NEW x \in 1 .. N, x - 1 \in S PROVE x \in S
  <2>0. x \in 0 .. N
    BY <1>0
  <2> DEFINE l == c[x - 1]
  <2>1. Good(x - 1, l) /\ x \in Nat /\ x - 1 \in Nat
    <3>1. x \in Nat /\ x - 1 \in Nat
      BY <1>1
    <3>2. Good(x - 1, c[x - 1])
      <4> HIDE DEF Good
      <4> QED
        BY <1>10
    <3> QED
      BY <3>1, <3>2
  <2>2. CASE ~Used(x)
    <3>1. c[x] = l
      BY <1>8, <2>2
    <3> HIDE DEF l
    <3>2. Good(x, l)
      <4>1. \A y \in 1 .. x : y = x \/ y \in 1 .. (x - 1)
        BY <2>1
      <4>2. \A y \in 1 .. (x - 1) : y \in 1 .. x
        BY <2>1
      <4> QED
        BY <2>1, <2>2, <4>1, <4>2
    <3> HIDE DEF Good
    <3> QED
      BY <3>1, <3>2, <2>0
  <2>3. CASE Used(x)
    <3>1. c[x] = Append(l, VarNames[x])
      BY <1>8, <2>3
    <3> DEFINE k == Append(l, VarNames[x])
               n == Len(l)
    <3> HIDE DEF l
    <3>2. /\ k \in Seq(Names) /\ Len(k) = n + 1 /\ n \in Nat /\ k[n + 1] = VarNames[x]
          /\ \A i \in 1 .. n : k[i] = l[i]
      BY <2>1, <1>1
    <3> HIDE DEF k, n
    <3>3. \A i \in 1 .. n : \E y \in 1 .. x - 1 : k[i] = VarNames[y]
      BY <2>1, <3>2 DEF n
    <3>4. \A i \in 1 .. n : k[i] # VarNames[x]
      BY <1>1, <2>1, <3>3
    <3>5. \A i \in 1 .. n + 1 : i = n + 1 \/ i \in 1 .. n
      BY <3>2
    <3>6. \A i \in 1 .. n + 1 : \E y \in 1 .. x : k[i] = VarNames[y]
      BY <3>2, <3>3, <3>5
    <3>7. \A i, j \in 1 .. n + 1 : k[i] = k[j] => i = j
      <4>1. \A i, j \in 1 .. n : k[i] = k[j] => i = j
        BY <2>1, <3>2 DEF n
      <4> QED
        BY <4>1, <3>2, <3>4, <3>5
    <3>8. \A y \in 1 .. x : Used(y) => \E i \in 1 .. n + 1 : k[i] = VarNames[y]
      <4> SUFFICES ASSUME NEW y \in 1 .. x, Used(y)
                   PROVE  \E i \in 1 .. n + 1 : k[i] = VarNames[y]
        OBVIOUS
      <4>1. CASE y = x
        BY <4>1, <3>2
      <4>2. CASE y # x
        <5>1. y \in 1 .. x - 1
          BY <4>2
        <5>2. PICK i \in 1 .. n : l[i] = VarNames[y]
          BY <5>1, <2>1 DEF n
        <5>3. i \in 1 .. n + 1 /\ k[i] = VarNames[y]
          BY <5>2, <3>2
        <5> QED
          BY <5>3
      <4> QED
        BY <4>1, <4>2
    <3>9. Good(x, k)
      BY <3>2, <3>6, <3>7, <3>8
    <3> HIDE DEF Good
    <3> QED
      BY <3>1, <3>9, <2>0 DEF k
  <2> QED
    BY <2>2, <2>3
<1>11. Good(N, c[N])
  <2> HIDE DEF S, Good
  <2>1. \A x \in 0 .. N : x \in S
    BY <1>1, <1>9, <1>10, UpTo
  <2> QED
    BY <2>1, <1>1 DEF S
<1> DEFINE vs == c[N]
<1> HIDE DEF vs
<1>12. Good(N, vs)
  BY <1>11 DEF vs
<1>13. /\ vs \in [1 .. Len(vs) -> Names] /\ Len(vs) \in Nat /\ DOMAIN vs = 1 .. Len(vs)
  BY <1>12
<1>14. ASSUME NEW j \in DOMAIN s, NEW v \in Named(s[j]), v \in Names
       PROVE  \E x \in DOMAIN vs : vs[x] = v
  <2>1. PICK y \in 1 .. N : VarNames[y] = v
    BY <1>1, <1>14
  <2>2. Used(y)
    BY <1>14, <2>1 DEF Used
  <2> QED
    BY <1>12, <1>13, <2>1, <2>2
<1>15. Lists(vs, s)
  BY <1>12, <1>13, <1>14 DEF Lists
<1> QED
  BY <1>4, <1>15 DEF vs

\* The powers of a monomial fit into digits, of variables on the list.
Placed(vs, p, B) ==
  /\ vs \in [1 .. Len(vs) -> Names] /\ Len(vs) \in Nat
  /\ \A x, y \in 1 .. Len(vs) : vs[x] = vs[y] => x = y
  /\ Len(p) \in Nat /\ DOMAIN p = 1 .. Len(p) /\ B \in Nat \ {0}
  /\ \A a \in 1 .. Len(p) : p[a].pow \in 0 .. B - 1
  /\ \A a \in 1 .. Len(p) : \E x \in 1 .. Len(vs) : vs[x] = p[a].var
  /\ \A a, b \in 1 .. Len(p) : p[a].var = p[b].var => a = b

\* The exponent of each variable on the list in the first a powers.
Exponents(vs, p, a) ==
  [x \in 1 .. Len(vs) |->
    IF \E b \in 1 .. a : p[b].var = vs[x]
      THEN p[CHOOSE b \in 1 .. a : p[b].var = vs[x]].pow
      ELSE 0]

(* One power more is one exponent more.                                    *)
LEMMA ExponentsGrow ==
  ASSUME NEW vs, NEW p, NEW B, Placed(vs, p, B), NEW a \in 1 .. Len(p),
         NEW m, m = Distance(vs, p[a].var)
  PROVE  /\ m \in 1 .. Len(vs) /\ vs[m] = p[a].var
         /\ Exponents(vs, p, a - 1)[m] = 0
         /\ Exponents(vs, p, a) = [Exponents(vs, p, a - 1) EXCEPT ![m] = p[a].pow]
<1>1. DOMAIN vs = 1 .. Len(vs) /\ Len(p) \in Nat
  BY DEF Placed
<1>2. \E x \in 1 .. Len(vs) : vs[x] = p[a].var
  BY DEF Placed
<1>3. m \in 1 .. Len(vs) /\ vs[m] = p[a].var
  BY <1>1, <1>2 DEF Distance
<1>4. \A b \in 1 .. a - 1 : p[b].var # p[a].var
  BY <1>1 DEF Placed
<1>5. Exponents(vs, p, a - 1)[m] = 0
  BY <1>3, <1>4 DEF Exponents
<1>6. ASSUME NEW x \in 1 .. Len(vs)
      PROVE  Exponents(vs, p, a)[x] = IF x = m THEN p[a].pow ELSE Exponents(vs, p, a - 1)[x]
  <2>1. CASE x = m
    <3>1. \A b \in 1 .. a : p[b].var = vs[x] => b = a
      BY <1>1, <1>3, <2>1 DEF Placed
    <3>2. p[a].var = vs[x] /\ a \in 1 .. a
      BY <1>3, <2>1, <1>1
    <3>3. (CHOOSE b \in 1 .. a : p[b].var = vs[x]) = a
      BY <3>1, <3>2
    <3>4. Exponents(vs, p, a)[x] = p[CHOOSE b \in 1 .. a : p[b].var = vs[x]].pow
      BY <3>2 DEF Exponents
    <3> QED
      BY <3>3, <3>4, <2>1
  <2>2. CASE x # m
    <3>1. p[a].var # vs[x]
      BY <1>3, <2>2 DEF Placed
    <3>2. \A b : (b \in 1 .. a /\ p[b].var = vs[x]) <=> (b \in 1 .. a - 1 /\ p[b].var = vs[x])
      BY <3>1, <1>1
    <3>3. (CHOOSE b \in 1 .. a : p[b].var = vs[x]) = (CHOOSE b \in 1 .. a - 1 : p[b].var = vs[x])
      BY <3>2
    <3>4. (\E b \in 1 .. a : p[b].var = vs[x]) <=> (\E b \in 1 .. a - 1 : p[b].var = vs[x])
      BY <3>2
    <3> QED
      BY <3>3, <3>4, <2>2 DEF Exponents
  <2> QED
    BY <2>1, <2>2
<1>7. /\ DOMAIN Exponents(vs, p, a - 1) = 1 .. Len(vs)
      /\ Exponents(vs, p, a) = [x \in 1 .. Len(vs) |-> Exponents(vs, p, a)[x]]
  BY DEF Exponents
<1>8. Exponents(vs, p, a) = [Exponents(vs, p, a - 1) EXCEPT ![m] = p[a].pow]
  BY <1>6, <1>7
<1> QED
  BY <1>3, <1>5, <1>8

(* The exponents fit into digits, and there are none at first.             *)
LEMMA ExponentsFit ==
  ASSUME NEW vs, NEW p, NEW B, Placed(vs, p, B)
  PROVE  /\ \A a \in 0 .. Len(p) : Exponents(vs, p, a) \in [1 .. Len(vs) -> 0 .. B - 1]
         /\ \A x \in 1 .. Len(vs) : Exponents(vs, p, 0)[x] = 0
<1>1. Len(p) \in Nat /\ B \in Nat \ {0} /\ \A a \in 1 .. Len(p) : p[a].pow \in 0 .. B - 1
  BY DEF Placed
<1>2. ASSUME NEW a \in 0 .. Len(p)
      PROVE  Exponents(vs, p, a) \in [1 .. Len(vs) -> 0 .. B - 1]
  <2>1. \A b \in 1 .. a : p[b].pow \in 0 .. B - 1
    BY <1>1
  <2>2. 0 \in 0 .. B - 1
    BY <1>1
  <2> QED
    BY <2>1, <2>2 DEF Exponents
<1>3. \A x \in 1 .. Len(vs) : Exponents(vs, p, 0)[x] = 0
  <2>1. \A b \in 1 .. 0 : FALSE
    OBVIOUS
  <2> QED
    BY <2>1 DEF Exponents
<1> QED
  BY <1>2, <1>3

(* The offset of a monomial is put together of its exponents.              *)
LEMMA OffsetOfExponents ==
  ASSUME NEW vs, NEW p, NEW B, Placed(vs, p, B)
  PROVE  Total([a \in DOMAIN p |-> p[a].pow * Raise(B, Distance(vs, p[a].var) - 1)])
           = Total([x \in 1 .. Len(vs) |-> Exponents(vs, p, Len(p))[x] * Raise(B, x - 1)])
<1> DEFINE n == Len(p)
           L == Len(vs)
           d(a) == Distance(vs, p[a].var)
           E(a) == Exponents(vs, p, a)
           s == [a \in 1 .. n |-> p[a].pow * Raise(B, d(a) - 1)]
           t(a) == [x \in 1 .. L |-> E(a)[x] * Raise(B, x - 1)]
<1>1. n \in Nat /\ L \in Nat /\ DOMAIN p = 1 .. n /\ B \in Nat \ {0}
  BY DEF Placed
<1>2. \A x \in 1 .. L : Raise(B, x - 1) \in Nat
  <2>1. \A x \in 1 .. L : x - 1 \in Nat
    OBVIOUS
  <2> QED
    BY <1>1, <2>1, RaiseLaws
<1>3. ASSUME NEW a \in 1 .. n PROVE d(a) \in 1 .. L /\ p[a].pow \in Nat
  <2>1. d(a) \in 1 .. L
    BY ExponentsGrow
  <2>2. p[a].pow \in 0 .. B - 1
    BY DEF Placed
  <2> QED
    BY <1>1, <2>1, <2>2
<1>4. s \in [1 .. n -> Int]
  <2>1. ASSUME NEW a \in 1 .. n PROVE p[a].pow * Raise(B, d(a) - 1) \in Int
    <3> DEFINE w == Raise(B, d(a) - 1)
    <3>1. w \in Nat /\ p[a].pow \in Nat
      BY <1>2, <1>3
    <3> HIDE DEF w
    <3>2. p[a].pow * w \in Int
      BY <3>1
    <3> QED
      BY <3>2 DEF w
  <2> QED
    BY <2>1
<1>5. \A a \in 0 .. n : t(a) \in [1 .. L -> Int]
  <2> SUFFICES ASSUME NEW a \in 0 .. n, NEW x \in 1 .. L
               PROVE  E(a)[x] * Raise(B, x - 1) \in Int
    OBVIOUS
  <2>1. E(a)[x] \in Int
    BY ExponentsFit
  <2>2. Raise(B, x - 1) \in Int
    BY <1>2
  <2> HIDE DEF E
  <2> QED
    BY <2>1, <2>2
<1>6. PICK f \in [0 .. n -> Int] :
        /\ f[0] = 0 /\ \A a \in 1 .. n : f[a] = f[a - 1] + s[a]
        /\ Total(s) = f[n]
  <2> HIDE DEF s
  <2> QED
    BY <1>1, <1>4, TotalRuns
<1> DEFINE S == {a \in 0 .. n : f[a] = Total(t(a))}
<1>7. 0 \in S
  <2> DEFINE u == t(0)
  <2>1. u \in [1 .. L -> Int]
    BY <1>1, <1>5
  <2>2. \A x \in 1 .. L : u[x] = 0
    BY <1>2, ExponentsFit
  <2> HIDE DEF u
  <2>3. Total(u) = 0
    BY <1>1, <2>1, <2>2, TotalOfZeros
  <2> QED
    BY <1>1, <1>6, <2>3 DEF u
<1>8. ASSUME NEW a \in 1 .. n, a - 1 \in S PROVE a \in S
  <2> DEFINE m == d(a)
             w == Raise(B, m - 1)
             u == t(a - 1)
             v == t(a)
  <2>1. /\ m \in 1 .. L /\ E(a - 1)[m] = 0 /\ E(a) = [E(a - 1) EXCEPT ![m] = p[a].pow]
    BY ExponentsGrow
  <2>2. a \in 0 .. n /\ a - 1 \in 0 .. n
    BY <1>1
  <2>3. u \in [1 .. L -> Int] /\ v \in [1 .. L -> Int]
    BY <1>5, <2>2
  <2>4. DOMAIN E(a - 1) = 1 .. L
    BY DEF Exponents
  <2>5. w \in Nat /\ p[a].pow \in Nat /\ s[a] = p[a].pow * w
    BY <1>2, <1>3
  <2>6. u[m] = 0 /\ v[m] = s[a] /\ \A x \in 1 .. L : x # m => u[x] = v[x]
    <3> HIDE DEF E, d
    <3>1. E(a)[m] = p[a].pow /\ \A x \in 1 .. L : x # m => E(a)[x] = E(a - 1)[x]
      BY <2>1, <2>4
    <3>2. u[m] = 0 * w
      BY <2>1
    <3>3. 0 * w = 0
      BY <2>5
    <3>4. v[m] = p[a].pow * w
      BY <2>1, <3>1
    <3> QED
      BY <2>5, <3>1, <3>2, <3>3, <3>4
  <2>7. f[a] = f[a - 1] + s[a] /\ f[a - 1] = Total(u)
    BY <1>6, <1>8
  <2>8. s[a] \in Int
    BY <1>4
  <2> HIDE DEF u, v, m, w, s
  <2>9. /\ Total([u EXCEPT ![m] = 0]) \in Int /\ Total(u) = Total([u EXCEPT ![m] = 0]) + u[m]
        /\ Total([v EXCEPT ![m] = 0]) \in Int /\ Total(v) = Total([v EXCEPT ![m] = 0]) + v[m]
    BY <1>1, <2>1, <2>3, TotalSplit
  <2>10. [u EXCEPT ![m] = 0] = [v EXCEPT ![m] = 0]
    BY <2>3, <2>6
  <2>11. f[a] = Total(v)
    BY <2>6, <2>7, <2>8, <2>9, <2>10
  <2> QED
    BY <2>2, <2>11 DEF v
<1> HIDE DEF S
<1>9. n \in S
  <2>1. \A a \in 0 .. n : a \in S
    BY <1>1, <1>7, <1>8, UpTo
  <2> QED
    BY <1>1, <2>1
<1>10. Total(s) = Total(t(n))
  BY <1>6, <1>9 DEF S
<1> QED
  BY <1>1, <1>10

(* What an int holds is an integer, and never zero instead of another.     *)
LEMMA HeldInt ==
  ASSUME NEW n \in Int
  PROVE  /\ Held(n) \in Int /\ (n # 0 => Held(n) # 0)
         /\ (n \in Nat /\ n < IntValues => Held(n) = n)
<1>1. IntValues \in Nat \ {0} /\ Overflow \in Int \ {0}
  BY IntAssumption
<1>2. n \in Nat /\ n < IntValues => n \in -IntValues .. IntValues - 1
  BY <1>1
<1> QED
  BY <1>1, <1>2 DEF Held

(* Division towards zero.                                                  *)
LEMMA DividedInt ==
  ASSUME NEW a \in Int, NEW b \in Int \ {0}
  PROVE  /\ Quotient(a, b) \in Int
         /\ (a >= 0 /\ b > 0 => Quotient(a, b) = a \div b /\ Quotient(a, b) >= 0)
<1>1. AbsInt(a) \in Nat /\ AbsInt(b) \in Nat \ {0}
  BY DEF AbsInt
<1>2. \A x \in Nat : \A y \in Nat \ {0} : x \div y \in Nat
  <2> SUFFICES ASSUME NEW x \in Nat, NEW y \in Nat \ {0} PROVE x \div y \in Nat
    OBVIOUS
  <2>1. x \div y \in Int
    BY EuclidDivision
  <2>2. x \div y >= 0
    OBVIOUS
  <2> QED
    BY <2>1, <2>2
<1> DEFINE q == AbsInt(a) \div AbsInt(b)
<1>3. q \in Nat
  BY <1>1, <1>2
<1>4. Quotient(a, b) = IF (a < 0) = (b < 0) THEN q ELSE -q
  BY DEF Quotient
<1>5. a >= 0 /\ b > 0 => AbsInt(a) = a /\ AbsInt(b) = b /\ (a < 0) = (b < 0)
  BY DEF AbsInt
<1> HIDE DEF q
<1>6. Quotient(a, b) \in Int
  BY <1>3, <1>4
<1>7. a >= 0 /\ b > 0 => Quotient(a, b) = q
  BY <1>4, <1>5
<1> QED
  BY <1>3, <1>5, <1>6, <1>7 DEF q

(* And its remainder.                                                      *)
LEMMA RemainderInt ==
  ASSUME NEW a \in Int, NEW b \in Nat \ {0}
  PROVE  Remainder(a, b) \in Int /\ (a >= 0 => Remainder(a, b) = a % b)
<1>1. \A x \in Int : x % b \in Int
  <2> SUFFICES ASSUME NEW x \in Int PROVE x % b \in Int
    OBVIOUS
  <2> QED
    BY EuclidDivision
<1>2. -a \in Int
  OBVIOUS
<1>3. a % b \in Int /\ (-a) % b \in Int
  BY <1>1, <1>2
<1> QED
  BY <1>3 DEF Remainder

(* The powers of a monomial are digits, of variables on the list.          *)
LEMMA MonomialPlaced ==
  ASSUME NEW s, Monomials(s), NEW j \in DOMAIN s
  PROVE  /\ Placed(variables(s), s[j].powers, maxVarDegree(s) + 1)
         /\ maxVarDegree(s) + 1 \in Nat \ {0}
<1> DEFINE vs == variables(s)
           B == maxVarDegree(s) + 1
           p == s[j].powers
           n == Len(p)
<1>1. /\ maxVarDegree(s) \in Nat /\ B \in Nat \ {0} /\ B - 1 = maxVarDegree(s)
      /\ \A a \in DOMAIN p : p[a].pow \in 0 .. maxVarDegree(s)
  <2>1. maxVarDegree(s) \in 0 .. ByteValues - 1
    BY DegreeBounds
  <2>2. \A a \in DOMAIN p : p[a].pow \in 0 .. maxVarDegree(s)
    BY DegreeBounds
  <2> QED
    BY <2>1, <2>2, ByteAssumption
<1>2. /\ n \in Nat /\ DOMAIN p = 1 .. n /\ \A a \in DOMAIN p : p[a].var \in Names
      /\ \A a, b \in DOMAIN p : p[a].var = p[b].var => a = b
  <2> DEFINE R == [var : Names, pow : 0 .. ByteValues - 1]
  <2>1. p \in Seq(R) /\ \A a, b \in DOMAIN p : p[a].var = p[b].var => a = b
    BY DEF Monomials, IsMonomial
  <2> HIDE DEF R, p
  <2>2. n \in Nat /\ DOMAIN p = 1 .. n /\ \A a \in DOMAIN p : p[a] \in R
    BY <2>1
  <2>3. \A a \in DOMAIN p : p[a].var \in Names
    BY <2>2 DEF R
  <2> QED
    BY <2>1, <2>2, <2>3
<1>3. Placed(vs, p, B)
  <2>1. Lists(vs, s)
    BY VariablesListed
  <2>2. /\ vs \in [1 .. Len(vs) -> Names] /\ Len(vs) \in Nat
        /\ \A x, y \in 1 .. Len(vs) : vs[x] = vs[y] => x = y
    BY <2>1 DEF Lists
  <2>3. \A a \in DOMAIN p : p[a].var \in Named(s[j])
    BY DEF Named
  <2>4. \A a \in DOMAIN p : \E x \in 1 .. Len(vs) : vs[x] = p[a].var
    <3> HIDE DEF vs, p
    <3>1. \A v \in Named(s[j]) : v \in Names => \E x \in DOMAIN vs : vs[x] = v
      BY <2>1 DEF Lists
    <3> QED
      BY <3>1, <2>2, <2>3, <1>2
  <2> HIDE DEF vs, p, B
  <2> QED
    BY <2>2, <2>4, <1>1, <1>2 DEF Placed
<1> QED
  BY <1>1, <1>3

(* A monomial whose offset fits is read as it was written: its offset has  *)
(* one digit per variable, and they are the exponents.                     *)
LEMMA OffsetRead ==
  ASSUME NEW s, Monomials(s), Fits(s), NEW j \in DOMAIN s
  PROVE  /\ Placed(variables(s), s[j].powers, maxVarDegree(s) + 1)
         /\ Offset(s, s[j]) \in Nat
         /\ Offset(s, s[j]) < Raise(maxVarDegree(s) + 1, Len(variables(s)))
         /\ \A x \in 1 .. Len(variables(s)) :
              Digit(buildPolynomial(s), Offset(s, s[j]), x)
                = Exponents(variables(s), s[j].powers, Len(s[j].powers))[x]
<1> DEFINE vs == variables(s)
           B == maxVarDegree(s) + 1
           p == s[j].powers
           n == Len(p)
           E == Exponents(vs, p, n)
           t == [x \in 1 .. Len(vs) |-> E[x] * Raise(B, x - 1)]
<1>1. B \in Nat \ {0} /\ Placed(vs, p, B) /\ n \in Nat
  <2>1. B \in Nat \ {0} /\ Placed(vs, p, B)
    BY MonomialPlaced
  <2> QED
    BY <2>1 DEF Placed
<1>3. Placed(vs, p, B)
  BY <1>1
<1> DEFINE Z == Total([a \in DOMAIN p |-> p[a].pow * Raise(B, Distance(vs, p[a].var) - 1)])
<1>9. ASSUME NEW x \in 1 .. Len(vs)
      PROVE  Held(Raise(B, x - 1)) = Raise(B, x - 1) /\ Raise(B, x - 1) \in Nat \ {0}
  <2>1. x \in DOMAIN variables(s)
    BY <1>3 DEF Placed
  <2>2. Place(s, x) < IntValues
    BY <2>1 DEF Fits
  <2>3. Place(s, x) = Raise(B, x - 1)
    BY DEF Place
  <2> HIDE DEF B
  <2>4. x - 1 \in Nat
    OBVIOUS
  <2>5. Raise(B, x - 1) \in Nat \ {0}
    BY <2>4, <1>1, RaiseLaws
  <2> QED
    BY <2>2, <2>3, <2>5, HeldInt
<1>4. Offset(s, s[j]) = Held(Z) /\ Z < IntValues
  <2>1. \A a \in DOMAIN p : Distance(vs, p[a].var) \in 1 .. Len(vs)
    <3> HIDE DEF vs, p, B
    <3> SUFFICES ASSUME NEW a \in DOMAIN p PROVE Distance(vs, p[a].var) \in 1 .. Len(vs)
      OBVIOUS
    <3>1. a \in 1 .. Len(p)
      BY <1>3 DEF Placed
    <3> QED
      BY <3>1, <1>3, ExponentsGrow
  <2>2. Exact(s, s[j]) = Z
    BY DEF Exact, Place
  <2>3. Exact(s, s[j]) < IntValues
    BY DEF Fits
  <2>4. [a \in DOMAIN p |-> p[a].pow * Held(Raise(B, Distance(vs, p[a].var) - 1))]
          = [a \in DOMAIN p |-> p[a].pow * Raise(B, Distance(vs, p[a].var) - 1)]
    <3> HIDE DEF vs, p, B
    <3> QED
      BY <2>1, <1>9
  <2>5. Offset(s, s[j])
          = Held(Total([a \in DOMAIN p |-> p[a].pow * Held(Raise(B, Distance(vs, p[a].var) - 1))]))
    BY DEF Offset, Place
  <2> QED
    BY <2>2, <2>3, <2>4, <2>5
<1>10. Z = Total(t)
  <2> HIDE DEF vs, p, B
  <2> QED
    BY <1>3, OffsetOfExponents
<1>6. E \in [1 .. Len(vs) -> 0 .. B - 1] /\ Len(vs) \in Nat
  <2>1. n \in 0 .. n
    BY <1>1
  <2> HIDE DEF vs, p, B, n
  <2>2. \A a \in 0 .. Len(p) : Exponents(vs, p, a) \in [1 .. Len(vs) -> 0 .. B - 1]
    BY <1>3, ExponentsFit
  <2> QED
    BY <2>1, <2>2, <1>3 DEF Placed, n
<1>7. /\ Total(t) \in Nat /\ Total(t) < Raise(B, Len(vs))
      /\ \A x \in 1 .. Len(vs) : (Total(t) \div Raise(B, x - 1)) % B = E[x]
  <2> DEFINE L == Len(vs)
             F == E
             u == [x \in 1 .. L |-> F[x] * Raise(B, x - 1)]
  <2>1. B \in Nat \ {0} /\ L \in Nat /\ F \in [1 .. L -> 0 .. B - 1]
    BY <1>1, <1>6
  <2> HIDE DEF L, F, B
  <2>2. /\ Total(u) \in Nat /\ Total(u) < Raise(B, L)
        /\ \A x \in 1 .. L : (Total(u) \div Raise(B, x - 1)) % B = F[x]
    BY ZenonT(60), <2>1, DigitsRead
  <2> QED
    BY <2>2 DEF L, F
<1>5. Offset(s, s[j]) = Total(t)
  <2> HIDE DEF Z, t
  <2>1. Z \in Int /\ Z \in Nat /\ Z < IntValues
    BY <1>4, <1>7, <1>10
  <2> QED
    BY <2>1, <1>4, <1>10, HeldInt
<1>8. ASSUME NEW x \in 1 .. Len(vs)
      PROVE  Digit(buildPolynomial(s), Offset(s, s[j]), x) = E[x]
  <2> DEFINE o == Offset(s, s[j])
             w == Raise(B, x - 1)
  <2>1. buildPolynomial(s).maxVarDegree + 1 = B
    BY DegreeBounds DEF buildPolynomial
  <2>2. Digit(buildPolynomial(s), o, x) = Remainder(Quotient(o, Held(w)), B)
    BY <2>1 DEF Digit
  <2>3. Held(w) = w /\ w \in Nat \ {0}
    BY <1>9
  <2>4. o \in Nat
    BY <1>5, <1>7
  <2>5. (o \div w) % B = E[x]
    BY <1>5, <1>7
  <2> HIDE DEF o, w, B, E
  <2>6. Quotient(o, w) = o \div w /\ Quotient(o, w) >= 0 /\ Quotient(o, w) \in Int
    <3>1. w \in Int \ {0} /\ w > 0 /\ o \in Int /\ o >= 0
      BY <2>3, <2>4
    <3> QED
      BY <3>1, DividedInt
  <2>7. Remainder(Quotient(o, w), B) = (o \div w) % B
    BY <2>6, <1>1, RemainderInt
  <2> QED
    BY <2>2, <2>3, <2>5, <2>7 DEF o
<1> QED
  BY <1>3, <1>5, <1>7, <1>8

(* The offsets of a polynomial are well built if they fit.                 *)
LEMMA PolynomialWellBuilt ==
  ASSUME NEW s, Monomials(s), Fits(s)
  PROVE  WellBuilt(buildPolynomial(s))
<1> DEFINE m == buildPolynomial(s)
<1>1. /\ m.variables = variables(s) /\ m.maxVarDegree = maxVarDegree(s)
      /\ DOMAIN m.coefficients = DOMAIN s
      /\ \A x \in DOMAIN s : m.coefficients[x].offset = Offset(s, s[x])
  BY DegreeBounds DEF buildPolynomial
<1>2. \A x \in DOMAIN s : Offset(s, s[x]) \in 0 .. Raise(maxVarDegree(s) + 1, Len(variables(s))) - 1
  <2> SUFFICES ASSUME NEW x \in DOMAIN s
               PROVE  Offset(s, s[x]) \in 0 .. Raise(maxVarDegree(s) + 1, Len(variables(s))) - 1
    OBVIOUS
  <2> DEFINE B == maxVarDegree(s) + 1
             L == Len(variables(s))
  <2>1. Offset(s, s[x]) \in Nat /\ Offset(s, s[x]) < Raise(B, L)
        /\ Placed(variables(s), s[x].powers, B)
    BY OffsetRead
  <2>2. B \in Nat \ {0} /\ L \in Nat
    BY <2>1 DEF Placed
  <2> HIDE DEF B, L
  <2>3. Raise(B, L) \in Nat
    BY <2>2, RaiseLaws
  <2>4. Offset(s, s[x]) \in 0 .. Raise(B, L) - 1
    BY <2>1, <2>3
  <2> QED
    BY <2>4 DEF B, L
<1> HIDE DEF m
<1> QED
  BY <1>1, <1>2 DEF WellBuilt, m

(* A term that is no polynomial has an empty list of monomials.            *)
LEMMA NoMonomials == Monomials(<<>>)
<1>1. \A S : <<>> \in Seq(S)
  OBVIOUS
<1>2. DOMAIN <<>> = {}
  OBVIOUS
<1> QED
  BY <1>1, <1>2 DEF Monomials, IsSequence

(* There is nothing in it that does not fit.                               *)
LEMMA EmptyFits == Fits(<<>>)
<1>1. DOMAIN <<>> = {}
  OBVIOUS
<1> DEFINE N == Len(VarNames)
           s == <<>>
           Used(x) == \E j \in DOMAIN s : VarNames[x] \in Named(s[j])
           c == CHOOSE g : g = [x \in 0 .. N |->
                  IF x = 0 THEN <<>>
                  ELSE IF Used(x) THEN Append(g[x - 1], VarNames[x]) ELSE g[x - 1]]
           none == [x \in 0 .. N |-> <<>>]
           S == {n \in Nat : n \in 0 .. N => c[n] = <<>>}
<1>2. variables(s) = c[N]
  BY DEF variables
<1>3. N \in Nat
  <2>1. VarNames \in Seq(STRING)
    BY NamesAssumption
  <2> QED
    BY <2>1
<1>4. \A x : ~Used(x)
  BY <1>1
<1> HIDE DEF Used, s, N
<1>5. none = [x \in 0 .. N |-> IF x = 0 THEN <<>>
                ELSE IF Used(x) THEN Append(none[x - 1], VarNames[x]) ELSE none[x - 1]]
  <2>1. \A x \in 0 .. N : x # 0 => x - 1 \in 0 .. N
    BY <1>3
  <2> QED
    BY <1>4, <2>1
<1>6. c = [x \in 0 .. N |-> IF x = 0 THEN <<>>
             ELSE IF Used(x) THEN Append(c[x - 1], VarNames[x]) ELSE c[x - 1]]
  <2> HIDE DEF none
  <2> QED
    BY <1>5
<1> HIDE DEF c
<1>7. \A x \in 0 .. N : c[x] = IF x = 0 THEN <<>> ELSE c[x - 1]
  BY <1>4, <1>6
<1>8. 0 \in S
  BY <1>3, <1>7
<1>9. \A k \in S \cap Nat : k + 1 \in S
  BY <1>3, <1>7
<1>10. Nat \subseteq S
  <2> HIDE DEF S
  <2> QED
    BY <1>8, <1>9, SetInduction
<1>11. variables(s) = <<>>
  BY <1>2, <1>3, <1>10
<1> QED
  BY <1>1, <1>11 DEF Fits, s

------------------------------------------------------------------------------
(* Polynomials: what is read of them is what they mean.                    *)

\* Pairs of a value and a slope.
Duals == Number \X Number

(* Pairs of a value and a slope.                                           *)
LEMMA DualsClosed ==
  ASSUME NEW a \in Duals, NEW b \in Duals
  PROVE  /\ a[1] \in Number /\ a[2] \in Number /\ a = <<a[1], a[2]>>
         /\ PlusD(a, b) \in Duals /\ TimesD(a, b) \in Duals
         /\ \A x, y \in Number : <<x, y>> \in Duals
<1>1. \A c \in Duals : c[1] \in Number /\ c[2] \in Number /\ c = <<c[1], c[2]>>
  BY DEF Duals
<1>2. \A x, y \in Number : Plus(x, y) \in Number /\ Times(x, y) \in Number
  BY NumbersClosed
<1>3. \A x, y \in Number : <<x, y>> \in Duals
  BY DEF Duals
<1> QED
  BY <1>1, <1>2, <1>3 DEF PlusD, TimesD

\* The slope of a power.
PowSlope(c, n, d) == IF n = 0 THEN Num(0) ELSE Times(Times(Num(n), Raised(c, n - 1)), d)

(* Powers of numbers are numbers.                                          *)
LEMMA RaisedNumber ==
  ASSUME NEW a \in Number, NEW n \in Nat
  PROVE  /\ Raised(a, n) \in Number /\ Raised(a, 0) = Num(1)
         /\ Raised(a, n + 1) = Times(Raised(a, n), a)
<1>1. Number \in Domains
  BY DEF Domains
<1> QED
  BY <1>1, RaisedLaws

(* The next whole number.                                                  *)
LEMMA NumSuccessor ==
  ASSUME NEW n \in Int
  PROVE  Num(n + 1) = Plus(Num(n), Num(1)) /\ Num(n) \in Number /\ Num(n + 1) \in Number
<1>1. 1 \in Positives /\ n + 1 \in Int
  BY DEF Positives
<1>2. \A k \in Int : Num(k) = Frac(k, 1) /\ Num(k) \in Number
  <2> SUFFICES ASSUME NEW k \in Int PROVE Num(k) = Frac(k, 1) /\ Num(k) \in Number
    OBVIOUS
  <2>1. Num(k) \in Number /\ Num(k) = Frac(k * 1, 1)
    BY <1>1, NumFrac
  <2> QED
    BY <2>1
<1>3. Plus(Frac(n, 1), Frac(1, 1)) = Frac(n + 1, 1)
  BY <1>1, SameDenominator
<1> QED
  BY <1>1, <1>2, <1>3

(* The slope of a power with one factor more, by the rule of products.     *)
LEMMA PowSlopeStep ==
  ASSUME NEW c \in Number, NEW d \in Number, NEW n \in Nat
  PROVE  /\ PowSlope(c, n, d) \in Number
         /\ Plus(Times(c, PowSlope(c, n, d)), Times(d, Raised(c, n))) = PowSlope(c, n + 1, d)
<1>1. n + 1 # 0 /\ n + 1 - 1 = n /\ Num(n) \in Number /\ Raised(c, n) \in Number
      /\ Num(0) \in Number /\ Num(1) \in Number
  BY NumSuccessor, RaisedNumber, OneAndZero DEF One, Zero
<1>2. PowSlope(c, n + 1, d) = Times(Times(Num(n + 1), Raised(c, n)), d)
  BY <1>1 DEF PowSlope
<1>3. CASE n = 0
  <2>1. PowSlope(c, n, d) = Num(0) /\ Raised(c, n) = Num(1) /\ n + 1 = 1
    BY <1>3, RaisedNumber DEF PowSlope
  <2>2. Times(c, Num(0)) = Num(0) /\ Times(d, Num(1)) = d /\ Plus(Num(0), d) = d
        /\ Times(Num(1), Num(1)) = Num(1) /\ Times(Num(1), d) = d
    BY <1>1, WithZero DEF One, Zero
  <2> QED
    BY <1>1, <1>2, <2>1, <2>2
<1>4. CASE n # 0
  <2> DEFINE N == Num(n)
             P == Raised(c, n - 1)
             R == Raised(c, n)
  <2>1. n - 1 \in Nat /\ n - 1 + 1 = n
    BY <1>4
  <2>2. P \in Number /\ R = Times(P, c) /\ PowSlope(c, n, d) = Times(Times(N, P), d)
    BY <2>1, <1>4, RaisedNumber DEF PowSlope
  <2>3. Num(n + 1) = Plus(N, Num(1)) /\ N \in Number
    BY NumSuccessor
  <2> HIDE DEF N, P, R
  <2>4. Times(N, P) \in Number /\ R \in Number /\ Times(N, R) \in Number
        /\ Times(c, d) \in Number /\ Times(R, d) \in Number /\ Times(Times(N, P), d) \in Number
    BY <2>2, <2>3, NumbersClosed
  <2>5. Times(c, Times(Times(N, P), d)) = Times(Times(N, R), d)
    <3>1. Times(c, Times(Times(N, P), d)) = Times(Times(c, Times(N, P)), d)
      BY <2>4, TimesLaws
    <3>2. Times(c, Times(N, P)) = Times(Times(N, P), c)
      BY <2>4, TimesLaws
    <3>3. Times(Times(N, P), c) = Times(N, R)
      BY <2>2, <2>3, TimesLaws
    <3> QED
      BY <3>1, <3>2, <3>3
  <2>6. Times(d, R) = Times(R, d)
    BY <2>4, TimesLaws
  <2>7. Times(Times(N, R), d) = Times(N, Times(R, d))
    BY <2>3, <2>4, TimesLaws
  <2>8. Times(Times(Num(n + 1), R), d) = Times(Num(n + 1), Times(R, d))
    BY <2>4, NumSuccessor, TimesLaws
  <2>9. Times(Plus(N, Num(1)), Times(R, d)) = Plus(Times(N, Times(R, d)), Times(R, d))
    <3> DEFINE y == Times(R, d)
    <3>1. y \in Number /\ N \in Number /\ Num(1) \in Number /\ Plus(N, Num(1)) \in Number
      BY <2>3, <2>4, <1>1, NumbersClosed
    <3> HIDE DEF y
    <3>2. Times(Plus(N, Num(1)), y) = Times(y, Plus(N, Num(1)))
          /\ Times(y, Plus(N, Num(1))) = Plus(Times(y, N), Times(y, Num(1)))
          /\ Times(y, N) = Times(N, y)
      BY <3>1, TimesLaws
    <3>3. Times(y, Num(1)) = y
      BY <3>1, WithZero DEF One
    <3> QED
      BY <3>2, <3>3 DEF y
  <2>10. Times(c, PowSlope(c, n, d)) \in Number /\ PowSlope(c, n, d) \in Number
    BY <2>2, <2>4, NumbersClosed
  <2>11. PowSlope(c, n + 1, d) = Times(Times(Num(n + 1), R), d)
    BY <1>2 DEF R
  <2>12. Plus(Times(c, PowSlope(c, n, d)), Times(d, R))
          = Plus(Times(N, Times(R, d)), Times(R, d))
    BY <2>2, <2>5, <2>6, <2>7
  <2> QED
    BY <2>3, <2>8, <2>9, <2>10, <2>11, <2>12 DEF R
<1> QED
  BY <1>3, <1>4

(* A power of a pair.                                                      *)
LEMMA PowDMeans ==
  ASSUME NEW a \in Duals, NEW n \in Nat
  PROVE  /\ PowD(a, n) = <<Raised(a[1], n), PowSlope(a[1], n, a[2])>>
         /\ PowD(a, n) \in Duals
<1> DEFINE c == a[1]
           d == a[2]
           F(k) == <<Raised(c, k), PowSlope(c, k, d)>>
           g == CHOOSE h : h = [k \in 0 .. n |-> IF k = 0 THEN <<Num(1), Num(0)>>
                                 ELSE TimesD(a, h[k - 1])]
           f == [k \in 0 .. n |-> F(k)]
<1>1. c \in Number /\ d \in Number
  BY DualsClosed
<1>2. PowD(a, n) = g[n]
  BY DEF PowD
<1>3. ASSUME NEW k \in 1 .. n PROVE F(k) = TimesD(a, F(k - 1))
  <2> DEFINE i == k - 1
  <2>1. i \in Nat /\ i + 1 = k
    OBVIOUS
  <2> HIDE DEF i, c, d
  <2>2. /\ Raised(c, i + 1) = Times(Raised(c, i), c) /\ Raised(c, i) \in Number
    BY <2>1, <1>1, RaisedNumber
  <2>3. Plus(Times(c, PowSlope(c, i, d)), Times(d, Raised(c, i))) = PowSlope(c, i + 1, d)
    BY <2>1, <1>1, PowSlopeStep
  <2>4. Times(Raised(c, i), c) = Times(c, Raised(c, i))
    BY <2>2, <1>1, TimesLaws
  <2>5. TimesD(a, F(i)) = <<Times(c, Raised(c, i)),
          Plus(Times(c, PowSlope(c, i, d)), Times(d, Raised(c, i)))>>
    BY DEF TimesD, c, d
  <2>6. F(i + 1) = TimesD(a, F(i))
    BY <2>2, <2>3, <2>4, <2>5
  <2>7. F(k) = TimesD(a, F(i))
    BY <2>1, <2>6
  <2> QED
    BY <2>7 DEF i
<1>4. F(0) = <<Num(1), Num(0)>>
  BY <1>1, RaisedNumber DEF PowSlope
<1> HIDE DEF F
<1>5. f = [k \in 0 .. n |-> IF k = 0 THEN <<Num(1), Num(0)>> ELSE TimesD(a, f[k - 1])]
  <2>1. ASSUME NEW k \in 1 .. n PROVE f[k] = TimesD(a, f[k - 1])
    <3>1. k \in 0 .. n /\ k - 1 \in 0 .. n
      OBVIOUS
    <3>2. f[k] = F(k) /\ f[k - 1] = F(k - 1)
      BY <3>1
    <3> HIDE DEF f
    <3> QED
      BY <3>2, <1>3
  <2>2. f[0] = F(0)
    OBVIOUS
  <2>3. f = [k \in 0 .. n |-> f[k]]
    OBVIOUS
  <2>4. \A k \in 0 .. n : k # 0 => k \in 1 .. n
    OBVIOUS
  <2> HIDE DEF f
  <2> QED
    BY <2>1, <2>2, <2>3, <2>4, <1>4
<1>6. g = [k \in 0 .. n |-> IF k = 0 THEN <<Num(1), Num(0)>> ELSE TimesD(a, g[k - 1])]
  <2> HIDE DEF f
  <2> QED
    BY <1>5
<1> HIDE DEF g
<1>7. g[n] = f[n]
  <2> DEFINE S == {k \in 0 .. n : g[k] = F(k)}
  <2>1. 0 \in S
    BY <1>6, <1>4
  <2>2. ASSUME NEW k \in 1 .. n, k - 1 \in S PROVE k \in S
    <3>1. g[k] = TimesD(a, g[k - 1])
      <4>1. k \in 0 .. n /\ k # 0
        OBVIOUS
      <4> QED
        BY <4>1, <1>6
    <3> QED
      BY <3>1, <2>2, <1>3
  <2> HIDE DEF S
  <2>3. n \in S
    <3>1. \A k \in 0 .. n : k \in S
      BY <2>1, <2>2, UpTo
    <3> QED
      BY <3>1
  <2> QED
    BY <2>3 DEF S
<1>8. PowD(a, n) = F(n)
  BY <1>2, <1>7
<1>9. PowSlope(c, n, d) \in Number /\ Raised(c, n) \in Number
  BY <1>1, PowSlopeStep, RaisedNumber
<1> QED
  BY <1>8, <1>9, DualsClosed DEF F

(* A power as it is meant and as it is read.                               *)
LEMMA PowerMeans ==
  ASSUME NEW c \in Number, NEW n \in Nat, NEW b \in BOOLEAN
  PROVE  /\ PowD(<<c, Truth(b)>>, n)
              = <<Factor(c, n, FALSE), IF b THEN Factor(c, n, TRUE) ELSE Num(0)>>
         /\ Factor(c, n, FALSE) \in Number /\ Factor(c, n, TRUE) \in Number
         /\ Factor(c, 0, FALSE) = Num(1) /\ Factor(c, 0, TRUE) = Num(0)
<1>1. Num(0) \in Number /\ Num(1) \in Number /\ Num(n) \in Number
  BY NumSuccessor, OneAndZero DEF One, Zero
<1>2. Truth(b) \in Number /\ (b => Truth(b) = Num(1)) /\ (~b => Truth(b) = Num(0))
  BY <1>1 DEF Truth
<1>3. Factor(c, n, FALSE) = Raised(c, n) /\ Raised(c, n) \in Number
      /\ Factor(c, 0, FALSE) = Num(1) /\ Factor(c, 0, TRUE) = Num(0)
  <2>1. ~(n < 0) /\ ~(0 < 0)
    OBVIOUS
  <2> QED
    BY <2>1, RaisedNumber DEF Factor, Power
<1>4. PowD(<<c, Truth(b)>>, n) = <<Raised(c, n), PowSlope(c, n, Truth(b))>>
  <2> DEFINE a == <<c, Truth(b)>>
  <2>1. a \in Duals /\ a[1] = c /\ a[2] = Truth(b)
    BY <1>2 DEF Duals
  <2> HIDE DEF a
  <2>2. PowD(a, n) = <<Raised(a[1], n), PowSlope(a[1], n, a[2])>>
    BY <2>1, PowDMeans
  <2> QED
    BY <2>1, <2>2 DEF a
<1>5. CASE n = 0
  <2>1. PowSlope(c, n, Truth(b)) = Num(0) /\ Factor(c, n, TRUE) = Num(0)
    BY <1>5 DEF PowSlope, Factor
  <2> QED
    BY <2>1, <1>1, <1>3, <1>4
<1>6. CASE n # 0
  <2> DEFINE R == Times(Num(n), Raised(c, n - 1))
  <2>1. n - 1 \in Nat
    BY <1>6
  <2>2. Raised(c, n - 1) \in Number
    BY <2>1, RaisedNumber
  <2>3. R \in Number
    BY <1>1, <2>2, NumbersClosed
  <2>4. Factor(c, n, TRUE) = R /\ PowSlope(c, n, Truth(b)) = Times(R, Truth(b))
    BY <1>6 DEF Factor, PowSlope
  <2> HIDE DEF R
  <2>5. Times(R, Num(1)) = R /\ Times(R, Num(0)) = Num(0)
    BY <2>3, WithZero DEF One, Zero
  <2>6. PowSlope(c, n, Truth(b)) = IF b THEN Factor(c, n, TRUE) ELSE Num(0)
    BY <1>2, <2>4, <2>5
  <2> QED
    BY <1>3, <1>4, <2>3, <2>4, <2>6
<1> QED
  BY <1>5, <1>6

\* What is multiplied to read a monomial.
Factors(vs, e, v, x) == [y \in 1 .. Len(vs) |-> Factor(v[vs[y]], e[y], vs[y] = x)]

\* Values for all names.
IsPlace(v) == \A y \in Names : v[y] \in Number

(* The factors of a monomial are numbers.                                  *)
LEMMA FactorsClosed ==
  ASSUME NEW vs, NEW L, L = Len(vs), vs \in [1 .. L -> Names], NEW e \in [1 .. L -> Nat],
         NEW v, IsPlace(v), NEW x
  PROVE  Factors(vs, e, v, x) \in [1 .. L -> Number]
<1> SUFFICES ASSUME NEW y \in 1 .. L
             PROVE  Factor(v[vs[y]], e[y], vs[y] = x) \in Number
  BY DEF Factors
<1>1. v[vs[y]] \in Number /\ e[y] \in Nat
  BY DEF IsPlace
<1>2. CASE vs[y] = x
  <2>1. Factor(v[vs[y]], e[y], TRUE) \in Number
    BY <1>1, PowerMeans
  <2> QED
    BY <1>2, <2>1
<1>3. CASE vs[y] # x
  <2>1. Factor(v[vs[y]], e[y], FALSE) \in Number
    BY <1>1, PowerMeans
  <2> QED
    BY <1>3, <2>1
<1> QED
  BY <1>2, <1>3

(* Another factor in the place of a one, and a zero.                       *)
LEMMA ProductReplaced ==
  ASSUME NEW n \in Nat, NEW s \in [1 .. n -> Number], NEW m \in 1 .. n
  PROVE  /\ Product(s) \in Number
         /\ s[m] = Num(0) => Product(s) = Num(0)
         /\ s[m] = Num(1) => \A c \in Number : Product([s EXCEPT ![m] = c]) = Times(Product(s), c)
<1>1. Num(1) \in Number
  BY OneAndZero DEF One
<1>2. Product([s EXCEPT ![m] = Num(1)]) \in Number
      /\ Product(s) = Times(Product([s EXCEPT ![m] = Num(1)]), s[m])
  BY ProductSplit
<1>3. s[m] = Num(0) => Product(s) = Num(0)
  BY <1>2, WithZero DEF Zero
<1>4. ASSUME s[m] = Num(1), NEW c \in Number
      PROVE  Product([s EXCEPT ![m] = c]) = Times(Product(s), c)
  <2> DEFINE t == [s EXCEPT ![m] = c]
  <2>1. t \in [1 .. n -> Number] /\ [t EXCEPT ![m] = Num(1)] = s /\ t[m] = c
    BY <1>4
  <2> HIDE DEF t
  <2>2. Product(t) = Times(Product([t EXCEPT ![m] = Num(1)]), t[m])
    BY <2>1, ProductSplit
  <2> QED
    BY <2>1, <2>2 DEF t
<1>5. Product(s) \in Number
  BY <1>2, NumbersClosed
<1> QED
  BY <1>3, <1>4, <1>5

\* What a list of exponents is read as.
Reading(vs, e, v, x) ==
  <<Product(Factors(vs, e, v, "")),
    IF \E y \in 1 .. Len(vs) : vs[y] = x THEN Product(Factors(vs, e, v, x)) ELSE Num(0)>>

\* Distinct names on a list of a length.
Distinct(vs, L) ==
  /\ L \in Nat /\ L = Len(vs) /\ vs \in [1 .. L -> Names]
  /\ \A y, z \in 1 .. L : vs[y] = vs[z] => y = z

(* A monomial of no powers,                                                *)
LEMMA ReadingStarts ==
  ASSUME NEW vs, NEW L, Distinct(vs, L), NEW v, IsPlace(v), NEW x,
         NEW e \in [1 .. L -> Nat], \A y \in 1 .. L : e[y] = 0
  PROVE  Reading(vs, e, v, x) = FlatD(Num(1))
<1>0. L \in Nat /\ L = Len(vs) /\ vs \in [1 .. L -> Names]
  BY DEF Distinct
<1>1. /\ Factors(vs, e, v, "") \in [1 .. L -> Number]
      /\ Factors(vs, e, v, x) \in [1 .. L -> Number]
  BY <1>0, FactorsClosed
<1>2. \A y \in 1 .. L : v[vs[y]] \in Number /\ vs[y] # ""
  BY <1>0, NamesAssumption DEF IsPlace
<1>3. \A c \in Number : Factor(c, 0, FALSE) = Num(1) /\ Factor(c, 0, TRUE) = Num(0)
  BY PowerMeans, 0 \in Nat, TRUE \in BOOLEAN
<1>4. \A y \in 1 .. L : Factors(vs, e, v, "")[y] = Num(1)
  <2>1. \A y \in 1 .. L : Factors(vs, e, v, "")[y] = Factor(v[vs[y]], 0, FALSE)
    BY <1>0, <1>2 DEF Factors
  <2> QED
    BY <2>1, <1>2, <1>3
<1>5. Product(Factors(vs, e, v, "")) = Num(1)
  BY <1>0, <1>1, <1>4, ProductOfOnes
<1>6. ASSUME NEW y \in 1 .. L, vs[y] = x
      PROVE  Product(Factors(vs, e, v, x)) = Num(0)
  <2>1. Factors(vs, e, v, x)[y] = Factor(v[vs[y]], 0, TRUE)
    BY <1>0, <1>6 DEF Factors
  <2>2. Factors(vs, e, v, x)[y] = Num(0)
    BY <2>1, <1>2, <1>3
  <2> QED
    BY <2>2, <1>0, <1>1, ProductReplaced
<1> QED
  BY <1>0, <1>5, <1>6 DEF Reading, FlatD

\* Exponents with one more, of a variable that had none.
Grown(L, e, m, n, f) ==
  /\ e \in [1 .. L -> Nat] /\ m \in 1 .. L /\ e[m] = 0 /\ n \in Nat
  /\ f = [e EXCEPT ![m] = n]

(* and one with a power more.                                              *)
LEMMA ReadingGrows ==
  ASSUME NEW vs, NEW L, Distinct(vs, L), NEW v, IsPlace(v), NEW x,
         NEW e, NEW m, NEW n, NEW f, Grown(L, e, m, n, f)
  PROVE  /\ Reading(vs, f, v, x)
              = TimesD(Reading(vs, e, v, x), PowerMeaning(vs[m], n, v, x))
         /\ Reading(vs, f, v, x) \in Duals /\ Reading(vs, e, v, x) \in Duals
<1> DEFINE q == PowerMeaning(vs[m], n, v, x)
<1>13. /\ e \in [1 .. L -> Nat] /\ m \in 1 .. L /\ e[m] = 0 /\ n \in Nat
       /\ f = [e EXCEPT ![m] = n]
  BY DEF Grown
<1>0. L \in Nat /\ L = Len(vs) /\ vs \in [1 .. L -> Names]
  BY DEF Distinct
<1>1. f \in [1 .. L -> Nat] /\ f[m] = n /\ \A y \in 1 .. L : y # m => f[y] = e[y]
  BY <1>13
<1> DEFINE P == Factors(vs, e, v, "")
           Q == Factors(vs, f, v, "")
           D == Factors(vs, e, v, x)
           G == Factors(vs, f, v, x)
           c == v[vs[m]]
<1>2. /\ P \in [1 .. L -> Number] /\ Q \in [1 .. L -> Number]
      /\ D \in [1 .. L -> Number] /\ G \in [1 .. L -> Number]
  BY <1>0, <1>13, <1>1, FactorsClosed
<1>3. /\ c \in Number /\ \A y \in 1 .. L : vs[y] # ""
  BY <1>0, <1>13, NamesAssumption DEF IsPlace
<1>4. /\ q = <<Factor(c, n, FALSE), IF vs[m] = x THEN Factor(c, n, TRUE) ELSE Num(0)>>
      /\ Factor(c, n, FALSE) \in Number /\ Factor(c, n, TRUE) \in Number
      /\ Factor(c, 0, FALSE) = Num(1) /\ Factor(c, 0, TRUE) = Num(0)
  <2> HIDE DEF c
  <2>1. (vs[m] = x) \in BOOLEAN
    OBVIOUS
  <2>2. \A b \in BOOLEAN :
          /\ PowD(<<c, Truth(b)>>, n)
               = <<Factor(c, n, FALSE), IF b THEN Factor(c, n, TRUE) ELSE Num(0)>>
          /\ Factor(c, n, FALSE) \in Number /\ Factor(c, n, TRUE) \in Number
          /\ Factor(c, 0, FALSE) = Num(1) /\ Factor(c, 0, TRUE) = Num(0)
    BY <1>3, <1>13, PowerMeans
  <2>3. q = PowD(<<c, Truth(vs[m] = x)>>, n)
    BY DEF PowerMeaning, c, q
  <2> QED
    BY <2>1, <2>2, <2>3 DEF c
<1>5. /\ P[m] = Num(1) /\ Q[m] = Factor(c, n, FALSE)
      /\ \A y \in 1 .. L : y # m => Q[y] = P[y]
  BY <1>0, <1>13, <1>1, <1>3, <1>4 DEF Factors
<1>6. /\ vs[m] = x => D[m] = Num(0) /\ G[m] = Factor(c, n, TRUE)
      /\ vs[m] # x => D[m] = Num(1) /\ G[m] = Factor(c, n, FALSE)
      /\ \A y \in 1 .. L : y # m => G[y] = D[y]
  BY <1>0, <1>13, <1>1, <1>4 DEF Factors
<1>7. vs[m] = x => \A y \in 1 .. L : y # m => G[y] = P[y]
  <2>1. vs[m] = x => \A y \in 1 .. L : y # m => vs[y] # x
    BY <1>13 DEF Distinct
  <2> QED
    BY <2>1, <1>0, <1>13, <1>1, <1>3 DEF Factors
<1> HIDE DEF P, Q, D, G, c
<1> DEFINE p1 == Product(P)
           q1 == Factor(c, n, FALSE)
           q2 == Factor(c, n, TRUE)
<1>12. ASSUME NEW s \in [1 .. L -> Number]
       PROVE  /\ Product(s) \in Number
              /\ s[m] = Num(0) => Product(s) = Num(0)
              /\ s[m] = Num(1) => \A r \in Number :
                   Product([s EXCEPT ![m] = r]) = Times(Product(s), r)
  BY <1>0, <1>13, ProductReplaced
<1> HIDE DEF q
<1>8. p1 \in Number /\ Num(0) \in Number
  BY <1>2, <1>12, OneAndZero DEF Zero
<1>9. Product(Q) = Times(p1, q1)
  <2>1. Q = [P EXCEPT ![m] = q1]
    BY <1>2, <1>5, <1>13
  <2> HIDE DEF q1
  <2>2. q1 \in Number
    BY <1>4 DEF q1
  <2> QED
    BY <2>1, <2>2, <1>2, <1>5, <1>12
<1>10. CASE vs[m] = x
  <2>1. Product(D) = Num(0)
    BY <1>2, <1>6, <1>10, <1>12
  <2>2. Product(G) = Times(p1, q2)
    <3>1. G = [P EXCEPT ![m] = q2]
      BY <1>2, <1>6, <1>7, <1>10, <1>13
    <3> HIDE DEF q2
    <3>2. q2 \in Number
      BY <1>4 DEF q2
    <3> QED
      BY <3>1, <3>2, <1>2, <1>5, <1>12
  <2>3. \E y \in 1 .. Len(vs) : vs[y] = x
    BY <1>0, <1>13, <1>10
  <2>4. Reading(vs, e, v, x) = <<p1, Num(0)>>
    BY <2>1, <2>3 DEF Reading, P, D
  <2>5. Reading(vs, f, v, x) = <<Times(p1, q1), Times(p1, q2)>>
    BY <1>9, <2>2, <2>3 DEF Reading, Q, G
  <2>6. q = <<q1, q2>>
    BY <1>4, <1>10
  <2> HIDE DEF p1, q1, q2
  <2>7. p1 \in Number /\ q1 \in Number /\ q2 \in Number
    BY <1>4, <1>8 DEF q1, q2
  <2>8. Plus(Times(p1, q2), Times(Num(0), q1)) = Times(p1, q2)
    <3>1. Times(Num(0), q1) = Num(0)
      BY <2>7, WithZero DEF Zero
    <3>2. Times(p1, q2) \in Number
      BY <2>7, NumbersClosed
    <3>3. Plus(Times(p1, q2), Num(0)) = Times(p1, q2)
      BY <3>2, WithZero DEF Zero
    <3> QED
      BY <3>1, <3>3
  <2>9. TimesD(<<p1, Num(0)>>, q) = <<Times(p1, q1), Times(p1, q2)>>
    BY <2>6, <2>8 DEF TimesD
  <2>10. Times(p1, q1) \in Number /\ Times(p1, q2) \in Number
    BY <2>7, NumbersClosed
  <2> QED
    BY <2>4, <2>5, <2>9, <2>10, <2>7, <1>8 DEF Duals, q
<1>11. CASE vs[m] # x
  <2> DEFINE d1 == IF \E y \in 1 .. Len(vs) : vs[y] = x THEN Product(D) ELSE Num(0)
  <2>1. Product(D) \in Number /\ Product(G) = Times(Product(D), q1)
    <3>1. G = [D EXCEPT ![m] = q1]
      BY <1>2, <1>6, <1>11, <1>13
    <3> HIDE DEF q1
    <3>2. q1 \in Number
      BY <1>4 DEF q1
    <3> QED
      BY <3>1, <3>2, <1>2, <1>6, <1>11, <1>12
  <2>2. Reading(vs, e, v, x) = <<p1, d1>> /\ d1 \in Number
    BY <2>1, <1>8 DEF Reading, P, D
  <2>3. q1 \in Number /\ Times(Num(0), q1) = Num(0)
    BY <1>4, WithZero DEF Zero
  <2>4. Reading(vs, f, v, x) = <<Times(p1, q1), Times(d1, q1)>>
    BY <1>9, <2>1, <2>3 DEF Reading, Q, G
  <2>5. q = <<q1, Num(0)>>
    BY <1>4, <1>11
  <2> HIDE DEF p1, q1, d1
  <2>6. Plus(Times(p1, Num(0)), Times(d1, q1)) = Times(d1, q1)
    <3>1. Times(d1, q1) \in Number /\ Times(p1, Num(0)) = Num(0)
      BY <1>8, <2>2, <2>3, NumbersClosed, WithZero DEF Zero
    <3>2. Plus(Num(0), Times(d1, q1)) = Times(d1, q1)
      BY <3>1, WithZero DEF Zero
    <3> QED
      BY <3>1, <3>2
  <2>7. TimesD(<<p1, d1>>, q) = <<Times(p1, q1), Times(d1, q1)>>
    BY <2>5, <2>6 DEF TimesD
  <2>8. Times(p1, q1) \in Number /\ Times(d1, q1) \in Number
    BY <1>8, <2>2, <2>3, NumbersClosed
  <2> QED
    BY <2>2, <2>4, <2>7, <2>8, <1>8 DEF Duals, q
<1> QED
  BY <1>10, <1>11 DEF q

(* The powers of a monomial mean what their exponents are read as.         *)
LEMMA PowersMean ==
  ASSUME NEW vs, NEW p, NEW B, Placed(vs, p, B), NEW v, IsPlace(v), NEW x
  PROVE  /\ PowersMeaning(p, v, x) = Reading(vs, Exponents(vs, p, Len(p)), v, x)
         /\ PowersMeaning(p, v, x) \in Duals
<1> DEFINE n == Len(p)
           L == Len(vs)
           E(a) == Exponents(vs, p, a)
           R(a) == Reading(vs, E(a), v, x)
           Q(a) == PowerMeaning(p[a].var, p[a].pow, v, x)
           c == CHOOSE g : g = [a \in 0 .. n |->
                  IF a = 0 THEN FlatD(Num(1)) ELSE TimesD(g[a - 1], Q(a))]
<1>1. n \in Nat /\ Distinct(vs, L) /\ B \in Nat \ {0}
  BY DEF Placed, Distinct
<1>2. PowersMeaning(p, v, x) = c[n]
  BY DEF PowersMeaning
<1>3. ASSUME NEW a \in 0 .. n PROVE E(a) \in [1 .. L -> Nat]
  <2>1. E(a) \in [1 .. L -> 0 .. B - 1]
    BY ExponentsFit
  <2>2. 0 .. B - 1 \subseteq Nat
    BY <1>1
  <2> HIDE DEF E
  <2> QED
    BY <2>1, <2>2
<1>4. R(0) = FlatD(Num(1)) /\ FlatD(Num(1)) \in Duals
  <2>1. \A y \in 1 .. L : E(0)[y] = 0
    BY ExponentsFit
  <2>2. 0 \in 0 .. n
    BY <1>1
  <2>3. E(0) \in [1 .. L -> Nat]
    BY <1>3, <2>2
  <2> HIDE DEF E
  <2>4. R(0) = FlatD(Num(1))
    BY <2>1, <2>3, <1>1, ReadingStarts
  <2>5. FlatD(Num(1)) \in Duals
    BY OneAndZero DEF One, Zero, FlatD, Duals
  <2> QED
    BY <2>4, <2>5
<1>5. ASSUME NEW a \in 1 .. n PROVE R(a) = TimesD(R(a - 1), Q(a)) /\ R(a) \in Duals
  <2> DEFINE m == Distance(vs, p[a].var)
             k == p[a].pow
  <2>1. /\ m \in 1 .. L /\ vs[m] = p[a].var /\ E(a - 1)[m] = 0
        /\ E(a) = [E(a - 1) EXCEPT ![m] = k]
    BY ExponentsGrow
  <2>2. k \in Nat
    <3>1. k \in 0 .. B - 1
      BY DEF Placed
    <3> QED
      BY <3>1, <1>1
  <2>3. a - 1 \in 0 .. n
    OBVIOUS
  <2>4. E(a - 1) \in [1 .. L -> Nat]
    BY <2>3, <1>3
  <2>5. Grown(L, E(a - 1), m, k, E(a))
    BY <2>1, <2>2, <2>4 DEF Grown
  <2> HIDE DEF E, m, k
  <2>6. R(a) = TimesD(R(a - 1), PowerMeaning(vs[m], k, v, x)) /\ R(a) \in Duals
    BY <2>5, <1>1, ReadingGrows
  <2> QED
    BY <2>1, <2>6 DEF k
<1> HIDE DEF R, Q
<1> DEFINE h == [a \in 0 .. n |-> R(a)]
<1>6. h = [a \in 0 .. n |-> IF a = 0 THEN FlatD(Num(1)) ELSE TimesD(h[a - 1], Q(a))]
  <2>1. ASSUME NEW a \in 1 .. n PROVE h[a] = TimesD(h[a - 1], Q(a))
    <3>1. h[a] = R(a) /\ h[a - 1] = R(a - 1)
      BY <1>1
    <3> QED
      BY <3>1, <1>5
  <2>2. h[0] = R(0) /\ h = [a \in 0 .. n |-> h[a]]
    BY <1>1
  <2>3. \A a \in 0 .. n : a # 0 => a \in 1 .. n
    BY <1>1
  <2> HIDE DEF h
  <2> QED
    BY <2>1, <2>2, <2>3, <1>4
<1>7. c = [a \in 0 .. n |-> IF a = 0 THEN FlatD(Num(1)) ELSE TimesD(c[a - 1], Q(a))]
  <2> HIDE DEF h
  <2> QED
    BY <1>6
<1> HIDE DEF c, n
<1> DEFINE S == {a \in 0 .. n : c[a] = R(a)}
<1>8. 0 \in S
  <2>1. 0 \in 0 .. n
    BY <1>1
  <2>2. c[0] = FlatD(Num(1))
    BY <2>1, <1>7
  <2> QED
    BY <2>1, <2>2, <1>4
<1>9. ASSUME NEW a \in 1 .. n, a - 1 \in S PROVE a \in S
  <2>1. a \in 0 .. n /\ a # 0
    BY <1>1
  <2>2. c[a] = TimesD(c[a - 1], Q(a))
    BY <2>1, <1>7
  <2> QED
    BY <2>1, <2>2, <1>5, <1>9
<1>10. n \in S
  <2> HIDE DEF S
  <2>1. \A a \in 0 .. n : a \in S
    BY <1>1, <1>8, <1>9, UpTo
  <2> QED
    BY <1>1, <2>1
<1>11. c[n] = R(n) /\ R(n) \in Duals
  <2>1. n = 0 \/ n \in 1 .. n
    BY <1>1
  <2> QED
    BY <2>1, <1>4, <1>5, <1>10
<1> QED
  BY <1>2, <1>11 DEF R, n

(* A sum of zeros.                                                         *)
LEMMA SumOfZeros ==
  ASSUME NEW n \in Nat, NEW s \in [1 .. n -> Number], \A i \in 1 .. n : s[i] = Num(0)
  PROVE  SumUp(s) = Num(0)
<1>1. Number \in Domains /\ Num(0) \in Number /\ Plus(Num(0), Num(0)) = Num(0)
  BY OneAndZero, WithZero DEF Zero, Domains
<1>2. PICK f \in [0 .. n -> Number] :
        /\ f[0] = Num(0) /\ \A i \in 1 .. n : f[i] = Plus(f[i - 1], s[i])
        /\ SumUp(s) = f[n]
  BY <1>1, SumUpRuns
<1> DEFINE S == {i \in 0 .. n : f[i] = Num(0)}
<1>3. 0 \in S
  BY <1>2
<1>4. ASSUME NEW i \in 1 .. n, i - 1 \in S PROVE i \in S
  BY <1>1, <1>2, <1>4
<1> HIDE DEF S
<1>5. \A i \in 0 .. n : i \in S
  BY <1>3, <1>4, UpTo
<1>6. n \in S
  BY <1>5
<1> QED
  BY <1>2, <1>6 DEF S

\* The monomials of a polynomial, as they are read.
Readings(s, v, x) ==
  [j \in DOMAIN s |->
    Reading(variables(s), Exponents(variables(s), s[j].powers, Len(s[j].powers)), v, x)]

\* Sums over monomials that are read as r, which is what they mean.
ReadAs(s, v, x, r) ==
  /\ Len(s) \in Nat /\ DOMAIN s = 1 .. Len(s)
  /\ \A j \in DOMAIN s : s[j].coeff \in Number /\ r[j] \in Duals
                          /\ r[j] = PowersMeaning(s[j].powers, v, x)
  /\ EvalPolynomial(buildPolynomial(s), v, "")
       = SumUp([j \in DOMAIN s |-> Times(s[j].coeff, r[j][1])])
  /\ DerivePolynomial(buildPolynomial(s), v, x)
       = SumUp([j \in DOMAIN s |-> Times(s[j].coeff, r[j][2])])

(* The value and the slope of a polynomial, as the interpreter finds them  *)
(* in the message, are the sums over what its monomials mean.              *)
LEMMA PolynomialRead ==
  ASSUME NEW s, Monomials(s), Fits(s), NEW v, IsPlace(v), NEW x
  PROVE  ReadAs(s, v, x, Readings(s, v, x))
<1> DEFINE r == Readings(s, v, x)
<1> SUFFICES ReadAs(s, v, x, r)
  OBVIOUS
<1> DEFINE vs == variables(s)
           L == Len(vs)
           m == buildPolynomial(s)
           E(j) == Exponents(vs, s[j].powers, Len(s[j].powers))
<1>1. Len(s) \in Nat /\ DOMAIN s = 1 .. Len(s)
  <2>1. s \in Seq({s[y] : y \in DOMAIN s})
    BY DEF Monomials, IsSequence
  <2> QED
    BY <2>1
<1>2. /\ m.variables = vs /\ DOMAIN m.coefficients = DOMAIN s
      /\ \A j \in DOMAIN s : m.coefficients[j].offset = Offset(s, s[j])
                             /\ m.coefficients[j].value = s[j].coeff
  BY DEF buildPolynomial
<1>3. DOMAIN vs = 1 .. L /\ vs \in [1 .. L -> Names]
  <2>1. Lists(vs, s)
    BY VariablesListed
  <2> QED
    BY <2>1 DEF Lists
<1>4. ASSUME NEW j \in DOMAIN s
      PROVE  /\ s[j].coeff \in Number /\ r[j] = Reading(vs, E(j), v, x)
             /\ r[j] = PowersMeaning(s[j].powers, v, x) /\ r[j] \in Duals
             /\ \A by : Monom(m, Offset(s, s[j]), v, by) = Product(Factors(vs, E(j), v, by))
  <2>1. /\ Placed(vs, s[j].powers, maxVarDegree(s) + 1)
        /\ \A y \in 1 .. L : Digit(m, Offset(s, s[j]), y) = E(j)[y]
    BY OffsetRead
  <2>2. r[j] = Reading(vs, E(j), v, x)
    BY DEF Readings
  <2>3. s[j].coeff \in Number
    BY DEF Monomials, IsMonomial
  <2> DEFINE p == s[j].powers
             off == Offset(s, s[j])
             e == E(j)
             B == maxVarDegree(s) + 1
  <2> HIDE DEF vs, p, B, m, off
  <2>4. /\ PowersMeaning(p, v, x) = Reading(vs, Exponents(vs, p, Len(p)), v, x)
        /\ PowersMeaning(p, v, x) \in Duals
    <3>1. Placed(vs, p, B)
      BY <2>1 DEF p, B
    <3> QED
      BY <3>1, PowersMean
  <2>5. e = Exponents(vs, p, Len(p))
    BY DEF p
  <2> HIDE DEF e, E
  <2>6. ASSUME NEW by PROVE Monom(m, off, v, by) = Product(Factors(vs, e, v, by))
    <3>1. \A y \in 1 .. L : Digit(m, off, y) = e[y]
      BY <2>1 DEF off, e
    <3>2. [y \in DOMAIN m.variables |->
             Factor(v[m.variables[y]], Digit(m, off, y), m.variables[y] = by)]
            = [y \in 1 .. L |-> Factor(v[vs[y]], e[y], vs[y] = by)]
      BY <3>1, <1>2, <1>3
    <3> QED
      BY <3>2 DEF Monom, Factors
  <2> QED
    BY <2>2, <2>3, <2>4, <2>5, <2>6 DEF p, off, e
<1> HIDE DEF E, vs, m, r
<1>5. ASSUME NEW by
      PROVE  EvalPolynomial(m, v, by)
               = SumUp([j \in DOMAIN s |-> Times(s[j].coeff, Product(Factors(vs, E(j), v, by)))])
  <2>1. [j \in DOMAIN m.coefficients |->
           Times(m.coefficients[j].value, Monom(m, m.coefficients[j].offset, v, by))]
          = [j \in DOMAIN s |-> Times(s[j].coeff, Product(Factors(vs, E(j), v, by)))]
    BY <1>2, <1>4
  <2> QED
    BY <2>1 DEF EvalPolynomial
<1>9. \A j \in DOMAIN s : r[j] = Reading(vs, E(j), v, x)
  BY <1>4
<1>10. \A e : /\ Reading(vs, e, v, x)[1] = Product(Factors(vs, e, v, ""))
              /\ Reading(vs, e, v, x)[2] = IF \E y \in 1 .. L : vs[y] = x
                                            THEN Product(Factors(vs, e, v, x)) ELSE Num(0)
  BY DEF Reading
<1>6. EvalPolynomial(m, v, "") = SumUp([j \in DOMAIN s |-> Times(s[j].coeff, r[j][1])])
  <2>1. \A j \in DOMAIN s : Product(Factors(vs, E(j), v, "")) = r[j][1]
    BY <1>9, <1>10
  <2>2. [j \in DOMAIN s |-> Times(s[j].coeff, Product(Factors(vs, E(j), v, "")))]
          = [j \in DOMAIN s |-> Times(s[j].coeff, r[j][1])]
    BY <2>1
  <2> QED
    BY <2>2, <1>5
<1>7. CASE \E y \in 1 .. L : vs[y] = x
  <2>1. \A j \in DOMAIN s : Product(Factors(vs, E(j), v, x)) = r[j][2]
    BY <1>7, <1>9, <1>10
  <2>2. [j \in DOMAIN s |-> Times(s[j].coeff, Product(Factors(vs, E(j), v, x)))]
          = [j \in DOMAIN s |-> Times(s[j].coeff, r[j][2])]
    BY <2>1
  <2>3. DerivePolynomial(m, v, x) = EvalPolynomial(m, v, x)
    BY <1>2, <1>3, <1>7 DEF DerivePolynomial
  <2> QED
    BY <2>2, <2>3, <1>1, <1>4, <1>5, <1>6 DEF m, ReadAs
<1>8. CASE ~ \E y \in 1 .. L : vs[y] = x
  <2>1. \A j \in DOMAIN s : r[j][2] = Num(0)
    BY <1>8, <1>9, <1>10
  <2>2. DerivePolynomial(m, v, x) = Num(0)
    BY <1>2, <1>3, <1>8 DEF DerivePolynomial
  <2> DEFINE n == Len(s)
             z == [j \in DOMAIN s |-> Times(s[j].coeff, r[j][2])]
  <2>3. z \in [1 .. n -> Number] /\ \A j \in 1 .. n : z[j] = Num(0)
    <3>1. \A c \in Number : Times(c, Num(0)) = Num(0)
      BY WithZero DEF Zero
    <3>2. Num(0) \in Number
      BY OneAndZero DEF Zero
    <3>3. \A j \in DOMAIN s : Times(s[j].coeff, r[j][2]) = Num(0)
      BY <3>1, <1>4, <2>1
    <3> QED
      BY <3>2, <3>3, <1>1
  <2> HIDE DEF z
  <2>4. SumUp(z) = Num(0)
    BY <2>3, <1>1, SumOfZeros
  <2> QED
    BY <2>2, <2>4, <1>1, <1>4, <1>6 DEF m, z, ReadAs
<1> QED
  BY <1>7, <1>8

(* A polynomial whose offsets fit in an int means its value and its        *)
(* derivative in the message (buildPolynomial; eval(Polynomial)).          *)
THEOREM PolynomialMeans ==
  ASSUME NEW s, Monomials(s), Fits(s), NEW v, IsPlace(v), NEW x
  PROVE  /\ PolynomialMeaning(s, v, x)
              = <<EvalPolynomial(buildPolynomial(s), v, ""),
                  DerivePolynomial(buildPolynomial(s), v, x)>>
         /\ PolynomialMeaning(s, v, x) \in Duals
<1> DEFINE r == Readings(s, v, x)
           n == Len(s)
           q(j) == TimesD(FlatD(s[j].coeff), PowersMeaning(s[j].powers, v, x))
           z1 == [j \in DOMAIN s |-> Times(s[j].coeff, r[j][1])]
           z2 == [j \in DOMAIN s |-> Times(s[j].coeff, r[j][2])]
           c == CHOOSE g : g = [j \in 0 .. n |->
                  IF j = 0 THEN FlatD(Num(0)) ELSE PlusD(g[j - 1], q(j))]
<1>1. PolynomialMeaning(s, v, x) = c[n]
  BY DEF PolynomialMeaning
<1>2. /\ n \in Nat /\ DOMAIN s = 1 .. n
      /\ \A j \in DOMAIN s : s[j].coeff \in Number /\ r[j] \in Duals
           /\ r[j] = PowersMeaning(s[j].powers, v, x)
      /\ EvalPolynomial(buildPolynomial(s), v, "") = SumUp(z1)
      /\ DerivePolynomial(buildPolynomial(s), v, x) = SumUp(z2)
  <2>1. ReadAs(s, v, x, r)
    BY PolynomialRead
  <2> HIDE DEF r
  <2> QED
    BY <2>1 DEF ReadAs
<1>0. n \in Nat
  BY <1>2
<1> HIDE DEF r
<1>3. ASSUME NEW j \in 1 .. n
      PROVE  q(j) = <<z1[j], z2[j]>> /\ z1[j] \in Number /\ z2[j] \in Number
  <2> DEFINE k == s[j].coeff
             a == r[j]
  <2>1. /\ k \in Number /\ a \in Duals /\ q(j) = TimesD(FlatD(k), a)
        /\ z1[j] = Times(k, a[1]) /\ z2[j] = Times(k, a[2])
    BY <1>2
  <2> HIDE DEF k, a, z1, z2, q
  <2>2. a[1] \in Number /\ a[2] \in Number
    BY <2>1, DualsClosed
  <2>3. Times(Num(0), a[1]) = Num(0) /\ Times(k, a[2]) \in Number /\ Times(k, a[1]) \in Number
    BY <2>1, <2>2, NumbersClosed, WithZero DEF Zero
  <2>4. Plus(Times(k, a[2]), Num(0)) = Times(k, a[2])
    BY <2>3, WithZero DEF Zero
  <2>5. TimesD(FlatD(k), a) = <<Times(k, a[1]), Times(k, a[2])>>
    BY <2>3, <2>4 DEF TimesD, FlatD
  <2> QED
    BY <2>1, <2>3, <2>5
<1>4. z1 \in [1 .. n -> Number] /\ z2 \in [1 .. n -> Number] /\ Number \in Domains
  BY <1>2, <1>3 DEF Domains
<1> HIDE DEF z1, z2, q
<1>5. PICK f1 \in [0 .. n -> Number] :
        /\ f1[0] = Num(0) /\ \A j \in 1 .. n : f1[j] = Plus(f1[j - 1], z1[j])
        /\ SumUp(z1) = f1[n]
  BY ZenonT(60), <1>0, <1>4, SumUpRuns
<1>6. PICK f2 \in [0 .. n -> Number] :
        /\ f2[0] = Num(0) /\ \A j \in 1 .. n : f2[j] = Plus(f2[j - 1], z2[j])
        /\ SumUp(z2) = f2[n]
  BY ZenonT(60), <1>0, <1>4, SumUpRuns
<1> DEFINE R(j) == <<f1[j], f2[j]>>
           h == [j \in 0 .. n |-> R(j)]
<1>7. R(0) = FlatD(Num(0)) /\ \A j \in 1 .. n : R(j) = PlusD(R(j - 1), q(j))
  BY <1>3, <1>5, <1>6 DEF FlatD, PlusD
<1>8. R(n) \in Duals
  BY <1>0, <1>5, <1>6 DEF Duals
<1> HIDE DEF R
<1> HIDE DEF n
<1>9. h = [j \in 0 .. n |-> IF j = 0 THEN FlatD(Num(0)) ELSE PlusD(h[j - 1], q(j))]
  <2>1. ASSUME NEW j \in 1 .. n PROVE h[j] = PlusD(h[j - 1], q(j))
    <3>1. h[j] = R(j) /\ h[j - 1] = R(j - 1)
      BY <1>0
    <3> QED
      BY <3>1, <1>7
  <2>2. h[0] = R(0) /\ h = [j \in 0 .. n |-> h[j]]
    BY <1>0
  <2>3. \A j \in 0 .. n : j # 0 => j \in 1 .. n
    BY <1>0
  <2> HIDE DEF h
  <2> QED
    BY <2>1, <2>2, <2>3, <1>7
<1>10. c = [j \in 0 .. n |-> IF j = 0 THEN FlatD(Num(0)) ELSE PlusD(c[j - 1], q(j))]
  <2> HIDE DEF h
  <2> QED
    BY <1>9
<1> HIDE DEF c
<1> DEFINE S == {j \in 0 .. n : c[j] = R(j)}
<1>11. 0 \in S
  <2>1. 0 \in 0 .. n
    BY <1>0
  <2>2. c[0] = FlatD(Num(0))
    BY <2>1, <1>10
  <2> QED
    BY <2>1, <2>2, <1>7
<1>12. ASSUME NEW j \in 1 .. n, j - 1 \in S PROVE j \in S
  <2>1. j \in 0 .. n /\ j # 0
    BY <1>0
  <2>2. c[j] = PlusD(c[j - 1], q(j))
    BY <2>1, <1>10
  <2> QED
    BY <2>1, <2>2, <1>7, <1>12
<1>13. n \in S
  <2> HIDE DEF S
  <2>1. \A j \in 0 .. n : j \in S
    BY <1>0, <1>11, <1>12, UpTo
  <2> QED
    BY <1>0, <2>1
<1>14. PolynomialMeaning(s, v, x) = R(n)
  BY <1>1, <1>13
<1> QED
  BY <1>14, <1>2, <1>5, <1>6, <1>8 DEF R

------------------------------------------------------------------------------
(* Messages: the interpreter finds a value and a slope for every node of a *)
(* message whose nodes have an order.                                      *)

\* The operations of a message with one operand, two, and three.
OneOperand ==
  {"name", "negate", "multinv", "square", "abs", "sign", "round", "floor", "ceil"}
TwoOperands == {"case", "sum", "prod", "lesseq", "greater", "min", "max", "pow"}

\* Node j is one that the interpreter can read, of operands that come before
\* it in an order r.
NodeMade(m, r, j) ==
  LET op == m[j].op
      args == m[j].args
  IN  /\ \A i \in DOMAIN args : args[i] \in DOMAIN m /\ r[args[i]] < r[j]
      /\ \/ op = "real" /\ m[j].num \in Number
         \/ op = "variable" /\ m[j].id \in Names
         \/ op = "polynomial" /\ \E s : Monomials(s) /\ m[j].poly = buildPolynomial(s)
         \/ op = "reference" /\ Referred(m) \in DOMAIN m /\ r[Referred(m)] < r[j]
         \/ op \in OneOperand /\ DOMAIN args = 1 .. 1
         \/ op \in TwoOperands /\ DOMAIN args = 1 .. 2 /\ (op = "case" => "x" \in Names)
         \/ op \in ListedOps /\ DOMAIN args = 1 .. 3

\* A message of N nodes.
MessageMade(m, r, N, M) ==
  /\ N \in Nat /\ M \in Nat /\ DOMAIN m = 1 .. N /\ r \in [1 .. N -> 0 .. M]
  /\ \A j \in 1 .. N : NodeMade(m, r, j)

(* A fraction that is rounded is a whole number.                           *)
LEMMA RoundingClosed ==
  ASSUME NEW a \in Value
  PROVE  /\ (IF Finite(a) THEN Rounded(a) ELSE a) \in Value
         /\ (IF Finite(a) THEN Floor(a) ELSE a) \in Value
         /\ (IF Finite(a) THEN Negated(Floor(Negated(a))) ELSE a) \in Value
<1> SUFFICES ASSUME Finite(a)
             PROVE  Rounded(a) \in Value /\ Floor(a) \in Value
                    /\ Negated(Floor(Negated(a))) \in Value
  OBVIOUS
<1>1. a \in Number
  BY DEF Value, Finite, NotFinite
<1>2. ASSUME NEW c \in Number PROVE Floor(c) \in Number
  <2>1. c[1] \in Int /\ c[2] \in Nat \ {0}
    BY NumberType DEF Positives
  <2>2. c[1] \div c[2] \in Int
    BY <2>1
  <2> QED
    BY <2>2, NumFrac DEF Floor
<1>3. /\ Frac(1, 2) \in Number
      /\ \A c \in Number : Negated(c) \in Number /\ Plus(c, Frac(1, 2)) \in Number
  BY Half, NumbersClosed
<1> QED
  BY <1>1, <1>2, <1>3 DEF Rounded, Value

(* Powers of values, also with an exponent that is not natural, are        *)
(* values.                                                                 *)
LEMMA PowerClosed ==
  ASSUME NEW a \in Value, NEW n \in Int
  PROVE  Power(a, n) \in Value
<1>1. Value \in Domains
  BY DEF Domains
<1>2. \A k \in Nat : Raised(a, k) \in Value
  BY <1>1, RaisedLaws
<1>3. \A b \in Value : Reciprocal(b) \in Value
  BY ValuesClosed
<1>4. CASE n < 0
  <2>1. -n \in Nat
    BY <1>4
  <2>2. Reciprocal(Raised(a, -n)) \in Value
    BY <2>1, <1>2, <1>3
  <2> QED
    BY <2>2, <1>4 DEF Power
<1>5. CASE ~(n < 0)
  BY <1>2, <1>5 DEF Power
<1> QED
  BY <1>4, <1>5

(* Sums and products of lists are values, or numbers if all of the list    *)
(* are.                                                                    *)
LEMMA ListsClosed ==
  ASSUME NEW D, D \in Domains, NEW n \in Nat, NEW s \in [1 .. n -> D]
  PROVE  SumUp(s) \in D /\ Product(s) \in D
<1>1. SumUp(s) \in D
  <2>1. PICK f \in [0 .. n -> D] : SumUp(s) = f[n]
    BY SumUpRuns
  <2> QED
    BY <2>1
<1>2. Product(s) \in D
  <2>1. PICK f \in [0 .. n -> D] : Product(s) = f[n]
    BY ProductRuns
  <2> QED
    BY <2>1
<1> QED
  BY <1>1, <1>2

(* Values and slopes of polynomials, of overflown offsets too.             *)
LEMMA PolynomialClosed ==
  ASSUME NEW s, Monomials(s), NEW v, IsPlace(v), NEW x
  PROVE  /\ EvalPolynomial(buildPolynomial(s), v, x) \in Value
         /\ DerivePolynomial(buildPolynomial(s), v, x) \in Value
<1> DEFINE m == buildPolynomial(s)
           vs == variables(s)
           L == Len(vs)
           B == maxVarDegree(s) + 1
           n == Len(s)
<1>1. n \in Nat /\ DOMAIN s = 1 .. n
  <2>1. s \in Seq({s[y] : y \in DOMAIN s})
    BY DEF Monomials, IsSequence
  <2> QED
    BY <2>1
<1>2. L \in Nat /\ vs \in [1 .. L -> Names] /\ DOMAIN vs = 1 .. L
  <2>1. Lists(vs, s)
    BY VariablesListed
  <2> QED
    BY <2>1 DEF Lists
<1>3. /\ m.variables = vs /\ m.maxVarDegree = maxVarDegree(s)
      /\ DOMAIN m.coefficients = DOMAIN s
      /\ \A j \in DOMAIN s : /\ m.coefficients[j].offset = Offset(s, s[j])
                             /\ m.coefficients[j].value = s[j].coeff
  BY DegreeBounds DEF buildPolynomial
<1>4. B \in Nat \ {0}
  <2>1. maxVarDegree(s) \in 0 .. ByteValues - 1
    BY DegreeBounds
  <2> QED
    BY <2>1, ByteAssumption
<1>5. Number \subseteq Value /\ Value \in Domains /\ Num(0) \in Number /\ Num(1) \in Number
  BY OneAndZero DEF Value, Domains, One, Zero
<1>6. ASSUME NEW y \in 1 .. L
      PROVE  Held(Raise(B, y - 1)) \in Int \ {0}
  <2> HIDE DEF B
  <2>1. y - 1 \in Nat
    OBVIOUS
  <2>2. Raise(B, y - 1) \in Nat \ {0}
    BY <2>1, <1>4, RaiseLaws
  <2> QED
    BY <2>2, HeldInt
<1>7. ASSUME NEW j \in DOMAIN s PROVE Offset(s, s[j]) \in Int
  <2> DEFINE p == s[j].powers
             h(a) == Held(Place(s, Distance(vs, p[a].var)))
             t == [a \in DOMAIN p |-> p[a].pow * h(a)]
  <2>6. Placed(vs, p, B)
    BY MonomialPlaced
  <2>1. /\ Len(p) \in Nat /\ DOMAIN p = 1 .. Len(p)
        /\ \A a \in DOMAIN p : p[a].pow \in Int
    <3> HIDE DEF vs, p, B
    <3>1. \A a \in DOMAIN p : p[a].pow \in 0 .. B - 1
      BY <2>6 DEF Placed
    <3> QED
      BY <2>6, <3>1 DEF Placed
  <2>2. ASSUME NEW a \in DOMAIN p PROVE h(a) \in Int
    <3> DEFINE y == Distance(vs, p[a].var)
    <3>1. y \in 1 .. L
      <4> HIDE DEF vs, p, B
      <4>1. a \in 1 .. Len(p)
        BY <2>1
      <4> QED
        BY <4>1, <2>6, ExponentsGrow
    <3> HIDE DEF y, B
    <3>2. Held(Raise(B, y - 1)) \in Int
      BY <3>1, <1>6
    <3> QED
      BY <3>2 DEF Place, B, y
  <2> HIDE DEF p, h
  <2>3. t \in [1 .. Len(p) -> Int]
    <3> SUFFICES ASSUME NEW a \in DOMAIN p PROVE p[a].pow * h(a) \in Int
      BY <2>1
    <3> QED
      BY <2>1, <2>2
  <2>4. Total(t) \in Int
    <3> HIDE DEF t
    <3>1. PICK f \in [0 .. Len(p) -> Int] : Total(t) = f[Len(p)]
      BY <2>1, <2>3, TotalRuns
    <3> QED
      BY <3>1, <2>1
  <2>5. Offset(s, s[j]) = Held(Total(t))
    BY DEF Offset, p, h
  <2> QED
    BY <2>4, <2>5, HeldInt
<1>8. ASSUME NEW o \in Int, NEW y \in 1 .. L PROVE Digit(m, o, y) \in Int
  <2> DEFINE w == Held(Raise(B, y - 1))
  <2>1. w \in Int \ {0}
    BY <1>6
  <2>2. Digit(m, o, y) = Remainder(Quotient(o, w), B)
    BY <1>3 DEF Digit
  <2> HIDE DEF w, B, m
  <2>3. Quotient(o, w) \in Int
    BY <2>1, DividedInt
  <2> QED
    BY <2>2, <2>3, <1>4, RemainderInt
<1>9. ASSUME NEW c \in Number, NEW rem \in Int, NEW b \in BOOLEAN
      PROVE  Factor(c, rem, b) \in Value
  <2>1. Power(c, rem) \in Value
    BY <1>5, PowerClosed
  <2>2. ASSUME rem # 0, ~(rem < 0) PROVE Times(Num(rem), Raised(c, rem - 1)) \in Value
    <3>1. rem - 1 \in Nat /\ rem \in Int
      BY <2>2
    <3>2. Raised(c, rem - 1) \in Number /\ Num(rem) \in Number
      BY <3>1, RaisedNumber, NumSuccessor
    <3> QED
      BY <3>2, <1>5, NumbersClosed
  <2> QED
    BY <2>1, <2>2, <1>5 DEF Factor
<1>10. ASSUME NEW by PROVE EvalPolynomial(m, v, by) \in Value
  <2> DEFINE u(j) == Monom(m, Offset(s, s[j]), v, by)
             z == [j \in DOMAIN s |-> Times(s[j].coeff, u(j))]
  <2>1. ASSUME NEW j \in DOMAIN s PROVE u(j) \in Value
    <3> DEFINE o == Offset(s, s[j])
               F == [y \in 1 .. L |-> Factor(v[vs[y]], Digit(m, o, y), vs[y] = by)]
    <3>1. o \in Int
      BY <1>7
    <3>2. u(j) = Product(F)
      BY <1>2, <1>3 DEF Monom
    <3> HIDE DEF o, m, vs, L
    <3>3. ASSUME NEW y \in 1 .. L
          PROVE  Factor(v[vs[y]], Digit(m, o, y), vs[y] = by) \in Value
      <4>1. v[vs[y]] \in Number
        BY <1>2 DEF IsPlace
      <4>2. Digit(m, o, y) \in Int
        BY <3>1, <1>8
      <4>3. (vs[y] = by) \in BOOLEAN
        OBVIOUS
      <4> QED
        BY <4>1, <4>2, <4>3, <1>9
    <3>4. F \in [1 .. L -> Value]
      BY <3>3
    <3> HIDE DEF F, u
    <3>5. Product(F) \in Value
      BY <3>4, <1>2, <1>5, ListsClosed
    <3> QED
      BY <3>2, <3>5
  <2>2. EvalPolynomial(m, v, by) = SumUp(z)
    <3>1. [j \in DOMAIN m.coefficients |->
            Times(m.coefficients[j].value, Monom(m, m.coefficients[j].offset, v, by))] = z
      <4> HIDE DEF m
      <4> QED
        BY <1>3
    <3> QED
      BY <3>1 DEF EvalPolynomial
  <2> HIDE DEF u, m
  <2>3. z \in [1 .. n -> Value]
    <3> SUFFICES ASSUME NEW j \in DOMAIN s PROVE Times(s[j].coeff, u(j)) \in Value
      BY <1>1
    <3>1. s[j].coeff \in Value
      BY <1>5 DEF Monomials, IsMonomial
    <3> QED
      BY <3>1, <2>1, ValuesClosed
  <2> HIDE DEF z, n
  <2>4. SumUp(z) \in Value
    BY <2>3, <1>1, <1>5, ListsClosed
  <2> QED
    BY <2>2, <2>4
<1> HIDE DEF m
<1>11. DerivePolynomial(m, v, x) \in {EvalPolynomial(m, v, x), Num(0)}
  BY DEF DerivePolynomial
<1> QED
  BY <1>5, <1>10, <1>11 DEF m

(* Values of nodes are numbers, or what is not finite.                     *)
LEMMA NodeValueClosed ==
  ASSUME NEW m, NEW r, NEW N, NEW M, MessageMade(m, r, N, M), NEW v, IsPlace(v),
         NEW e \in [1 .. N -> Value], NEW j \in 1 .. N
  PROVE  NodeValue(m, v, e, j) \in Value
<1> DEFINE op == m[j].op
           args == m[j].args
           a == e[args[1]]
           b == e[args[2]]
           y == NodeValue(m, v, e, j)
<1>1. NodeMade(m, r, j) /\ DOMAIN m = 1 .. N
  BY DEF MessageMade
<1>2. \A i \in DOMAIN args : e[args[i]] \in Value
  BY <1>1 DEF NodeMade
<1>3. Number \subseteq Value /\ Value \in Domains /\ Num(0) \in Number /\ Num(1) \in Number
  BY OneAndZero DEF Value, Domains, One, Zero
<1>4. CASE op = "real" /\ m[j].num \in Number
  <2>1. y = m[j].num
    BY <1>4 DEF NodeValue
  <2> QED
    BY <2>1, <1>3, <1>4
<1>5. CASE op = "variable" /\ m[j].id \in Names
  <2>1. y = v[m[j].id]
    BY <1>5 DEF NodeValue
  <2> QED
    BY <2>1, <1>3, <1>5 DEF IsPlace
<1>6. CASE op = "polynomial" /\ \E s : Monomials(s) /\ m[j].poly = buildPolynomial(s)
  <2>1. PICK s : Monomials(s) /\ m[j].poly = buildPolynomial(s)
    BY <1>6
  <2>2. y = EvalPolynomial(buildPolynomial(s), v, "")
    BY <2>1, <1>6 DEF NodeValue
  <2> QED
    BY <2>1, <2>2, PolynomialClosed
<1>7. CASE op = "reference" /\ Referred(m) \in DOMAIN m
  <2>1. y = e[Referred(m)]
    BY <1>7 DEF NodeValue
  <2> QED
    BY <2>1, <1>1, <1>7
<1>8. CASE op \in OneOperand /\ DOMAIN args = 1 .. 1
  <2>1. a \in Value
    BY <1>2, <1>8
  <2>2. /\ Negated(a) \in Value /\ Reciprocal(a) \in Value /\ Times(a, a) \in Value
        /\ Sgn(a) \in Value
    BY <2>1, <1>3, ValuesClosed
  <2>3. Times(Sgn(a), a) \in Value
    BY <2>1, <2>2, ValuesClosed
  <2>4. /\ (IF Finite(a) THEN Rounded(a) ELSE a) \in Value
        /\ (IF Finite(a) THEN Floor(a) ELSE a) \in Value
        /\ (IF Finite(a) THEN Negated(Floor(Negated(a))) ELSE a) \in Value
    BY <2>1, RoundingClosed
  <2>5. y \in {a, Negated(a), Reciprocal(a), Times(a, a), Times(Sgn(a), a), Sgn(a),
               IF Finite(a) THEN Rounded(a) ELSE a,
               IF Finite(a) THEN Floor(a) ELSE a,
               IF Finite(a) THEN Negated(Floor(Negated(a))) ELSE a}
    BY <1>8 DEF NodeValue, OneOperand
  <2> HIDE DEF y, a
  <2>20. y \in Value
    BY <2>1, <2>2, <2>3, <2>4, <2>5
  <2> QED
    BY <2>20 DEF y
<1>9. CASE op \in TwoOperands /\ DOMAIN args = 1 .. 2
  <2>1. a \in Value /\ b \in Value
    BY <1>2, <1>9
  <2>2. Plus(a, b) \in Value /\ Times(a, b) \in Value /\ Least(a, b) \in Value
        /\ Greatest(a, b) \in Value /\ b[1] \in Int
    BY <2>1, ValuesClosed
  <2>3. Power(a, b[1]) \in Value
    BY <2>1, <2>2, PowerClosed
  <2>4. \A t : Truth(t) \in Value
    BY <1>3 DEF Truth
  <2>5. op = "case" => y = e[Chosen(args, v)] /\ Chosen(args, v) \in {args[1], args[2]}
    BY DEF NodeValue, Chosen
  <2>6. op # "case" => y \in {Plus(a, b), Times(a, b), Least(a, b), Greatest(a, b),
               Power(a, b[1]), Truth(Leq(a, b)), Truth(Less(b, a))}
    BY <1>9 DEF NodeValue, TwoOperands
  <2>7. op = "case" => y \in {a, b}
    BY <2>5
  <2> HIDE DEF y, a, b
  <2>20. y \in Value
    BY <2>1, <2>2, <2>3, <2>4, <2>6, <2>7
  <2> QED
    BY <2>20 DEF y
<1>10. CASE op \in ListedOps /\ DOMAIN args = 1 .. 3
  <2> DEFINE n == 3
             all == [i \in DOMAIN args |-> e[args[i]]]
  <2>1. all \in [1 .. n -> Value] /\ n \in Nat
    BY <1>2, <1>10
  <2>2. y \in {SumUp(all), Product(all)}
    BY <1>10 DEF NodeValue, ListedOps
  <2> HIDE DEF all, n, y
  <2>3. SumUp(all) \in Value /\ Product(all) \in Value
    BY <2>1, <1>3, ListsClosed
  <2>20. y \in Value
    BY <2>2, <2>3
  <2> QED
    BY <2>20 DEF y
<1> QED
  BY <1>1, <1>4, <1>5, <1>6, <1>7, <1>8, <1>9, <1>10 DEF NodeMade

\* The nodes before node j have the same values.
SameBefore(m, r, j, f, g) == \A i \in DOMAIN m : r[i] < r[j] => f[i] = g[i]

(* The value of a node depends on those of the nodes before it.            *)
LEMMA NodeValueLocal ==
  ASSUME NEW m, NEW r, NEW j, NodeMade(m, r, j), NEW v, NEW f, NEW g,
         SameBefore(m, r, j, f, g)
  PROVE  NodeValue(m, v, f, j) = NodeValue(m, v, g, j)
<1> DEFINE op == m[j].op
           args == m[j].args
<1>1. \A i \in DOMAIN args : f[args[i]] = g[args[i]]
  BY DEF NodeMade, SameBefore
<1>2. CASE op \in {"real", "variable", "polynomial"}
  BY <1>2 DEF NodeValue
<1>3. CASE op = "reference" /\ Referred(m) \in DOMAIN m /\ r[Referred(m)] < r[j]
  BY <1>3 DEF NodeValue, SameBefore
<1>4. CASE op \in OneOperand /\ DOMAIN args = 1 .. 1
  <2>1. f[args[1]] = g[args[1]]
    BY <1>1, <1>4
  <2> QED
    BY <2>1, <1>4 DEF NodeValue, OneOperand
<1>5. CASE op \in TwoOperands /\ DOMAIN args = 1 .. 2
  <2>1. f[args[1]] = g[args[1]] /\ f[args[2]] = g[args[2]]
    BY <1>1, <1>5
  <2>2. f[Chosen(args, v)] = g[Chosen(args, v)]
    BY <2>1 DEF Chosen
  <2> QED
    BY <2>1, <2>2, <1>5 DEF NodeValue, TwoOperands
<1>6. CASE op \in ListedOps /\ DOMAIN args = 1 .. 3
  <2>1. [i \in DOMAIN args |-> f[args[i]]] = [i \in DOMAIN args |-> g[args[i]]]
    BY <1>1
  <2> QED
    BY <2>1, <1>6 DEF NodeValue, ListedOps
<1> QED
  BY <1>2, <1>3, <1>4, <1>5, <1>6 DEF NodeMade

(* Slopes of nodes are numbers, or what is not finite.                     *)
LEMMA NodeSlopeClosed ==
  ASSUME NEW m, NEW r, NEW N, NEW M, MessageMade(m, r, N, M), NEW v, IsPlace(v), NEW x,
         NEW e \in [1 .. N -> Value], NEW d \in [1 .. N -> Value], NEW j \in 1 .. N
  PROVE  NodeSlope(m, v, x, e, d, j) \in Value
<1> DEFINE op == m[j].op
           args == m[j].args
           a == e[args[1]]
           b == e[args[2]]
           da == d[args[1]]
           db == d[args[2]]
           y == NodeSlope(m, v, x, e, d, j)
<1>1. NodeMade(m, r, j) /\ DOMAIN m = 1 .. N
  BY DEF MessageMade
<1>2. \A i \in DOMAIN args : e[args[i]] \in Value /\ d[args[i]] \in Value
  BY <1>1 DEF NodeMade
<1>3. Number \subseteq Value /\ Value \in Domains /\ Num(0) \in Value /\ Num(1) \in Value
      /\ \A n \in Int : Num(n) \in Value
  BY NumFrac DEF Value, Domains
<1>11. \A c, z \in Value : /\ Plus(c, z) \in Value /\ Times(c, z) \in Value
                          /\ Negated(c) \in Value /\ Reciprocal(c) \in Value
                          /\ Sgn(c) \in Value /\ c[1] \in Int
  BY ValuesClosed, <1>3
<1>4. CASE op \in {"real", "variable"}
  <2>1. y \in {Num(0), Num(1)}
    BY <1>4 DEF NodeSlope, Truth
  <2> QED
    BY <2>1, <1>3
<1>6. CASE op = "polynomial" /\ \E s : Monomials(s) /\ m[j].poly = buildPolynomial(s)
  <2>1. PICK s : Monomials(s) /\ m[j].poly = buildPolynomial(s)
    BY <1>6
  <2>2. y = DerivePolynomial(buildPolynomial(s), v, x)
    BY <2>1, <1>6 DEF NodeSlope
  <2> QED
    BY <2>1, <2>2, PolynomialClosed
<1>7. CASE op = "reference" /\ Referred(m) \in DOMAIN m
  <2>1. y = d[Referred(m)]
    BY <1>7 DEF NodeSlope
  <2> QED
    BY <2>1, <1>1, <1>7
<1>8. CASE op \in OneOperand /\ DOMAIN args = 1 .. 1
  <2>1. a \in Value /\ da \in Value
    BY <1>2, <1>8
  <2>2. y \in {Num(0), da, Negated(da), Times(Negated(Reciprocal(Times(a, a))), da),
               Times(Num(2), da), Times(Sgn(a), da)}
    BY <1>8 DEF NodeSlope, OneOperand
  <2> HIDE DEF y, a, da
  <2>3. Negated(da) \in Value /\ Times(Num(2), da) \in Value
    <3>1. Num(2) \in Value
      BY <1>3
    <3> QED
      BY <3>1, <2>1, <1>11
  <2>4. Times(Sgn(a), da) \in Value
    BY <2>1, <1>11
  <2>5. Times(Negated(Reciprocal(Times(a, a))), da) \in Value
    <3>1. Negated(Reciprocal(Times(a, a))) \in Value
      BY <2>1, <1>11
    <3> QED
      BY <3>1, <2>1, <1>11
  <2>20. y \in Value
    BY <2>1, <2>2, <2>3, <2>4, <2>5, <1>3
  <2> QED
    BY <2>20 DEF y
<1>9. CASE op \in TwoOperands /\ DOMAIN args = 1 .. 2
  <2>1. a \in Value /\ da \in Value /\ b \in Value /\ db \in Value
    BY <1>2, <1>9
  <2>2. y \in {Num(0), da, db, Plus(da, db), Plus(Times(a, db), Times(b, da)),
               PowerRule(a, b[1], da)}
    BY <1>9 DEF NodeSlope, TwoOperands, Chosen
  <2> HIDE DEF y, a, da, b, db
  <2>3. Plus(da, db) \in Value /\ Plus(Times(a, db), Times(b, da)) \in Value
    BY <2>1, <1>11
  <2>4. PowerRule(a, b[1], da) \in Value
    <3> DEFINE n == b[1]
    <3>1. n \in Int /\ n - 1 \in Int
      BY <2>1, <1>11
    <3> HIDE DEF n
    <3>2. Power(a, n - 1) \in Value
      BY <2>1, <3>1, PowerClosed
    <3>3. NotFinite \in Value
      BY DEF Value
    <3>4. Times(Num(n), da) \in Value
      BY <2>1, <3>1, <1>3, <1>11
    <3>5. Plus(Times(Num(n), da), Num(0)) \in Value
          /\ Plus(Times(Num(n), da), NotFinite) \in Value
      BY <3>3, <3>4, <1>3, <1>11
    <3>6. PowerRule(a, n, da) \in Value
      BY <3>2, <3>5, <1>11 DEF PowerRule
    <3> QED
      BY <3>6 DEF n
  <2>20. y \in Value
    BY <2>1, <2>2, <2>3, <2>4, <1>3
  <2> QED
    BY <2>20 DEF y
<1>10. CASE op \in ListedOps /\ DOMAIN args = 1 .. 3
  <2> DEFINE n == 3
             s == [i \in DOMAIN args |-> e[args[i]]]
             ds == [i \in DOMAIN args |-> d[args[i]]]
             p(i) == [k \in DOMAIN s |-> IF k = i THEN ds[i] ELSE s[k]]
             z == [i \in DOMAIN s |-> Product(p(i))]
  <2>1. /\ s \in [1 .. n -> Value] /\ ds \in [1 .. n -> Value] /\ n \in Nat
        /\ \A i \in 1 .. n : p(i) \in [1 .. n -> Value]
    BY <1>2, <1>10
  <2>2. y \in {SumUp(ds), ProductRule(s, ds)} /\ ProductRule(s, ds) = SumUp(z)
    BY <1>10 DEF NodeSlope, ListedOps, ProductRule
  <2> HIDE DEF n, p, y, ds
  <2>3. \A i \in 1 .. n : Product(p(i)) \in Value
    BY <2>1, <1>3, ListsClosed
  <2>4. z \in [1 .. n -> Value]
    BY <2>1, <2>3
  <2> HIDE DEF s, z
  <2>20. y \in Value
    BY <2>1, <2>2, <2>4, <1>3, ListsClosed
  <2> QED
    BY <2>20 DEF y
<1> QED
  BY <1>1, <1>4, <1>6, <1>7, <1>8, <1>9, <1>10 DEF NodeMade

(* The slope of a node depends on those of the nodes before it.            *)
LEMMA NodeSlopeLocal ==
  ASSUME NEW m, NEW r, NEW j, NodeMade(m, r, j), NEW v, NEW x, NEW e, NEW f, NEW g,
         SameBefore(m, r, j, f, g)
  PROVE  NodeSlope(m, v, x, e, f, j) = NodeSlope(m, v, x, e, g, j)
<1> DEFINE op == m[j].op
           args == m[j].args
<1>1. \A i \in DOMAIN args : f[args[i]] = g[args[i]]
  BY DEF NodeMade, SameBefore
<1>2. CASE op \in {"real", "variable", "polynomial"}
  BY <1>2 DEF NodeSlope
<1>3. CASE op = "reference" /\ Referred(m) \in DOMAIN m /\ r[Referred(m)] < r[j]
  BY <1>3 DEF NodeSlope, SameBefore
<1>4. CASE op \in OneOperand /\ DOMAIN args = 1 .. 1
  <2>1. f[args[1]] = g[args[1]]
    BY <1>1, <1>4
  <2> QED
    BY <2>1, <1>4 DEF NodeSlope, OneOperand
<1>5. CASE op \in TwoOperands /\ DOMAIN args = 1 .. 2
  <2>1. f[args[1]] = g[args[1]] /\ f[args[2]] = g[args[2]]
    BY <1>1, <1>5
  <2>2. f[Chosen(args, v)] = g[Chosen(args, v)]
    BY <2>1 DEF Chosen
  <2> QED
    BY <2>1, <2>2, <1>5 DEF NodeSlope, TwoOperands
<1>6. CASE op \in ListedOps /\ DOMAIN args = 1 .. 3
  <2>1. [i \in DOMAIN args |-> f[args[i]]] = [i \in DOMAIN args |-> g[args[i]]]
    BY <1>1
  <2> QED
    BY <2>1, <1>6 DEF NodeSlope, ListedOps
<1> QED
  BY <1>2, <1>3, <1>4, <1>5, <1>6 DEF NodeMade

(* Reading a message comes to an end, with a value for every node,         *)
LEMMA EvalRuns ==
  ASSUME NEW m, NEW r, NEW N, NEW M, MessageMade(m, r, N, M), NEW v, IsPlace(v)
  PROVE  /\ Eval(m, v) \in [1 .. N -> Value]
         /\ \A j \in 1 .. N : Eval(m, v)[j] = NodeValue(m, v, Eval(m, v), j)
<1> DEFINE I == 1 .. N
           D == Value
           F == [I -> D]
           G == [f \in F |-> [j \in I |-> NodeValue(m, v, f, j)]]
           e == CHOOSE g : g = [j \in DOMAIN m |-> NodeValue(m, v, g, j)]
<1>1. /\ M \in Nat /\ DOMAIN m = I /\ r \in [I -> 0 .. M]
      /\ \A j \in I : NodeMade(m, r, j)
  BY DEF MessageMade
<1>2. G \in [F -> F]
  BY NodeValueClosed
<1>3. D # {}
  BY DEF Value
<1>4. ASSUME NEW f \in F, NEW g \in F, NEW j \in I,
             \A i \in I : r[i] < r[j] => f[i] = g[i]
      PROVE  G[f][j] = G[g][j]
  <2>1. NodeValue(m, v, f, j) = NodeValue(m, v, g, j)
    <3>1. SameBefore(m, r, j, f, g)
      BY <1>1, <1>4 DEF SameBefore
    <3> QED
      BY <3>1, <1>1, NodeValueLocal
  <2> QED
    BY <2>1
<1>5. \E f \in F : f = G[f]
  <2> HIDE DEF G, D, I
  <2>1. Descends(I, r, D, G)
    BY <1>2, <1>4 DEF Descends
  <2> QED
    BY <1>1, <1>3, <2>1, RecursionSolved
<1>6. PICK f \in F : f = [j \in DOMAIN m |-> NodeValue(m, v, f, j)]
  BY <1>1, <1>5
<1>7. e = [j \in DOMAIN m |-> NodeValue(m, v, e, j)]
  BY <1>6
<1>8. Eval(m, v) = e
  BY DEF Eval
<1> HIDE DEF e, G
<1>9. \A j \in I : e[j] = NodeValue(m, v, e, j)
  BY <1>1, <1>7
<1> DEFINE S == {j \in I : e[j] = f[j]}
<1>10. ASSUME NEW j \in I, \A i \in I : r[i] < r[j] => i \in S PROVE j \in S
  <2>1. \A i \in DOMAIN m : r[i] < r[j] => e[i] = f[i]
    BY <1>1, <1>10
  <2>2. NodeValue(m, v, e, j) = NodeValue(m, v, f, j)
    <3>1. SameBefore(m, r, j, e, f)
      BY <2>1 DEF SameBefore
    <3> QED
      BY <3>1, <1>1, NodeValueLocal
  <2>3. f[j] = NodeValue(m, v, f, j)
    BY <1>1, <1>6
  <2> QED
    BY <2>2, <2>3, <1>9
<1>11. I \subseteq S
  <2>1. r \in [I -> Nat]
    BY <1>1
  <2> HIDE DEF S, I
  <2> QED
    BY <2>1, <1>10, RankInduction
<1>12. e = f
  BY <1>1, <1>6, <1>7, <1>11
<1> QED
  BY <1>8, <1>9, <1>12

(* and with a slope.                                                       *)
LEMMA DeriveRuns ==
  ASSUME NEW m, NEW r, NEW N, NEW M, MessageMade(m, r, N, M), NEW v, IsPlace(v), NEW x
  PROVE  /\ Derive(m, v, x) \in [1 .. N -> Value]
         /\ \A j \in 1 .. N : Derive(m, v, x)[j]
              = NodeSlope(m, v, x, Eval(m, v), Derive(m, v, x), j)
<1> DEFINE I == 1 .. N
           D == Value
           F == [I -> D]
           E == Eval(m, v)
           G == [f \in F |-> [j \in I |-> NodeSlope(m, v, x, E, f, j)]]
           e == CHOOSE g : g = [j \in DOMAIN m |-> NodeSlope(m, v, x, E, g, j)]
<1>1. /\ M \in Nat /\ DOMAIN m = I /\ r \in [I -> 0 .. M]
      /\ \A j \in I : NodeMade(m, r, j)
  BY DEF MessageMade
<1>13. E \in F
  BY EvalRuns
<1>8. Derive(m, v, x) = e
  BY DEF Derive
<1> HIDE DEF E
<1>2. G \in [F -> F]
  BY <1>13, NodeSlopeClosed
<1>3. D # {}
  BY DEF Value
<1>4. ASSUME NEW f \in F, NEW g \in F, NEW j \in I,
             \A i \in I : r[i] < r[j] => f[i] = g[i]
      PROVE  G[f][j] = G[g][j]
  <2>1. NodeSlope(m, v, x, E, f, j) = NodeSlope(m, v, x, E, g, j)
    <3>1. SameBefore(m, r, j, f, g)
      BY <1>1, <1>4 DEF SameBefore
    <3> QED
      BY <3>1, <1>1, NodeSlopeLocal
  <2> QED
    BY <2>1
<1>5. \E f \in F : f = G[f]
  <2> HIDE DEF G, D, I
  <2>1. Descends(I, r, D, G)
    BY <1>2, <1>4 DEF Descends
  <2> QED
    BY <1>1, <1>3, <2>1, RecursionSolved
<1>6. PICK f \in F : f = [j \in DOMAIN m |-> NodeSlope(m, v, x, E, f, j)]
  BY <1>1, <1>5
<1>7. e = [j \in DOMAIN m |-> NodeSlope(m, v, x, E, e, j)]
  BY <1>6
<1> HIDE DEF e, G
<1>9. \A j \in I : e[j] = NodeSlope(m, v, x, E, e, j)
  BY <1>1, <1>7
<1> DEFINE S == {j \in I : e[j] = f[j]}
<1>10. ASSUME NEW j \in I, \A i \in I : r[i] < r[j] => i \in S PROVE j \in S
  <2>1. \A i \in DOMAIN m : r[i] < r[j] => e[i] = f[i]
    BY <1>1, <1>10
  <2>2. NodeSlope(m, v, x, E, e, j) = NodeSlope(m, v, x, E, f, j)
    <3>1. SameBefore(m, r, j, e, f)
      BY <2>1 DEF SameBefore
    <3> QED
      BY <3>1, <1>1, NodeSlopeLocal
  <2>3. f[j] = NodeSlope(m, v, x, E, f, j)
    BY <1>1, <1>6
  <2> QED
    BY <2>2, <2>3, <1>9
<1>11. I \subseteq S
  <2>1. r \in [I -> Nat]
    BY <1>1
  <2> HIDE DEF S, I
  <2> QED
    BY <2>1, <1>10, RankInduction
<1>12. e = f
  BY <1>1, <1>6, <1>7, <1>11
<1> QED
  BY <1>8, <1>9, <1>12 DEF E

------------------------------------------------------------------------------
(* Terms: what may be written, and the parts of an expression.             *)

\* Terms are made of earlier ones.
Ordered(w) ==
  /\ Len(w) \in Nat /\ DOMAIN w = 1 .. Len(w)
  /\ \A k \in 1 .. Len(w) : \A i \in DOMAIN w[k].args : w[k].args[i] \in 1 .. k - 1

(* The parts of a term are the term and the parts of its operands.         *)
LEMMA PartsAre ==
  ASSUME NEW w, Ordered(w), NEW k \in 1 .. Len(w)
  PROVE  /\ Parts(w, k) = {k} \cup UNION {Parts(w, w[k].args[i]) : i \in DOMAIN w[k].args}
         /\ Parts(w, k) \subseteq 1 .. k
<1> DEFINE N == Len(w)
           I == 1 .. N
           D == SUBSET I
           F == [I -> D]
           step(f, j) == {j} \cup UNION {f[w[j].args[i]] : i \in DOMAIN w[j].args}
           G == [f \in F |-> [j \in I |-> step(f, j)]]
           r == [j \in I |-> j]
           e == CHOOSE g : g = [j \in DOMAIN w |-> step(g, j)]
<1>1. /\ N \in Nat /\ DOMAIN w = I /\ D # {} /\ r \in [I -> 0 .. N] /\ r \in [I -> Nat]
      /\ \A j \in I : \A i \in DOMAIN w[j].args : w[j].args[i] \in I /\ w[j].args[i] < j
  BY SMTT(30) DEF Ordered
<1>2. G \in [F -> F]
  <2>1. ASSUME NEW f \in F, NEW j \in I PROVE step(f, j) \in D
    <3>1. \A i \in DOMAIN w[j].args : f[w[j].args[i]] \subseteq I
      BY <1>1
    <3> QED
      BY <3>1
  <2> QED
    BY <2>1
<1>4. Descends(I, r, D, G)
  <2>1. ASSUME NEW f \in F, NEW g \in F, NEW j \in I, \A i \in I : r[i] < r[j] => f[i] = g[i]
        PROVE  G[f][j] = G[g][j]
    <3>1. step(f, j) = step(g, j)
      <4>1. \A i \in I : i < j => f[i] = g[i]
        BY <2>1
      <4>2. \A i \in DOMAIN w[j].args : f[w[j].args[i]] = g[w[j].args[i]]
        BY <4>1, <1>1
      <4> QED
        BY <4>2
    <3> HIDE DEF step
    <3> QED
      BY <3>1
  <2> HIDE DEF G
  <2> QED
    BY <1>2, <2>1 DEF Descends
<1>5. \E f \in F : f = G[f]
  <2> HIDE DEF G, D, I, r
  <2> QED
    BY <1>1, <1>4, RecursionSolved
<1> HIDE DEF step
<1>6. PICK f \in F : f = [j \in DOMAIN w |-> step(f, j)]
  BY <1>1, <1>5
<1>7. e = [j \in DOMAIN w |-> step(e, j)]
  BY <1>6
<1>8. \A j : Parts(w, j) = e[j]
  BY DEF Parts, step
<1> HIDE DEF e, G
<1>9. \A j \in I : e[j] = step(e, j)
  BY <1>1, <1>7
<1>10. \A j \in I : e[j] \subseteq 1 .. j
  <2> DEFINE S == {j \in I : e[j] \subseteq 1 .. j}
  <2>1. ASSUME NEW j \in I, \A i \in I : r[i] < r[j] => i \in S PROVE j \in S
    <3>1. \A i \in DOMAIN w[j].args : e[w[j].args[i]] \subseteq 1 .. j
      BY <1>1, <2>1
    <3> QED
      BY <3>1, <1>9 DEF step
  <2>2. I \subseteq S
    <3> HIDE DEF S, I, r
    <3> QED
      BY <1>1, <2>1, RankInduction
  <2> QED
    BY <2>2
<1> QED
  BY <1>8, <1>9, <1>10 DEF step

(* Parts of parts are parts.                                               *)
LEMMA PartsDown ==
  ASSUME NEW w, Ordered(w), NEW k \in 1 .. Len(w)
  PROVE  /\ \A j \in Parts(w, k) : Parts(w, j) \subseteq Parts(w, k)
         /\ k \in Parts(w, k)
         /\ \A j \in Parts(w, k) : \A i \in DOMAIN w[j].args : w[j].args[i] \in Parts(w, k)
<1> DEFINE I == 1 .. Len(w)
           r == [j \in I |-> j]
           S == {n \in I : \A j \in Parts(w, n) : Parts(w, j) \subseteq Parts(w, n)}
<1>1. /\ r \in [I -> Nat]
      /\ \A j \in I : \A i \in DOMAIN w[j].args : w[j].args[i] \in I /\ w[j].args[i] < j
  BY DEF Ordered
<1>2. \A n \in I :
        /\ Parts(w, n) = {n} \cup UNION {Parts(w, w[n].args[i]) : i \in DOMAIN w[n].args}
        /\ n \in Parts(w, n) /\ Parts(w, n) \subseteq I
        /\ \A i \in DOMAIN w[n].args : Parts(w, w[n].args[i]) \subseteq Parts(w, n)
  <2>1. ASSUME NEW n \in I
        PROVE  /\ Parts(w, n) = {n} \cup UNION {Parts(w, w[n].args[i]) : i \in DOMAIN w[n].args}
               /\ Parts(w, n) \subseteq I
    BY PartsAre DEF Ordered
  <2> HIDE DEF I
  <2> QED
    BY <2>1
<1>3. ASSUME NEW n \in I, \A j \in I : r[j] < r[n] => j \in S PROVE n \in S
  <2> SUFFICES ASSUME NEW j \in Parts(w, n) PROVE Parts(w, j) \subseteq Parts(w, n)
    OBVIOUS
  <2>1. CASE j = n
    BY <2>1
  <2>2. CASE j # n
    <3>1. PICK i \in DOMAIN w[n].args : j \in Parts(w, w[n].args[i])
      BY <1>2, <2>2
    <3>2. w[n].args[i] \in S
      BY <1>1, <1>3
    <3> QED
      BY <3>1, <3>2, <1>2
  <2> QED
    BY <2>1, <2>2
<1>4. I \subseteq S
  <2> HIDE DEF S, I, r
  <2> QED
    BY <1>1, <1>3, RankInduction
<1>5. ASSUME NEW j \in Parts(w, k), NEW i \in DOMAIN w[j].args
      PROVE  w[j].args[i] \in Parts(w, k)
  <2>1. j \in I /\ Parts(w, j) \subseteq Parts(w, k)
    BY <1>2, <1>4
  <2>2. w[j].args[i] \in Parts(w, w[j].args[i]) /\ Parts(w, w[j].args[i]) \subseteq Parts(w, j)
    BY <2>1, <1>1, <1>2
  <2> QED
    BY <2>1, <2>2
<1> QED
  BY <1>2, <1>4, <1>5

(* What is written later does not change the parts of a term.              *)
LEMMA PartsKept ==
  ASSUME NEW w, Ordered(w), NEW u, Ordered(u), Len(w) <= Len(u),
         \A k \in 1 .. Len(w) : u[k] = w[k]
  PROVE  \A k \in 1 .. Len(w) : Parts(u, k) = Parts(w, k)
<1> DEFINE I == 1 .. Len(w)
           r == [j \in I |-> j]
           S == {n \in I : Parts(u, n) = Parts(w, n)}
<1>1. /\ r \in [I -> Nat] /\ I \subseteq 1 .. Len(u)
      /\ \A j \in I : \A i \in DOMAIN w[j].args : w[j].args[i] \in I /\ w[j].args[i] < j
  BY DEF Ordered
<1>2. ASSUME NEW n \in I, \A j \in I : r[j] < r[n] => j \in S PROVE n \in S
  <2>1. \A i \in DOMAIN w[n].args : Parts(u, w[n].args[i]) = Parts(w, w[n].args[i])
    BY <1>1, <1>2
  <2>2. Parts(w, n) = {n} \cup UNION {Parts(w, w[n].args[i]) : i \in DOMAIN w[n].args}
    BY PartsAre
  <2>3. n \in 1 .. Len(u) /\ u[n] = w[n]
    BY <1>1
  <2>4. Parts(u, n) = {n} \cup UNION {Parts(u, u[n].args[i]) : i \in DOMAIN u[n].args}
    BY <2>3, PartsAre
  <2>5. Parts(u, n) = Parts(w, n)
    BY <2>1, <2>2, <2>3, <2>4
  <2> QED
    BY <2>5
<1>3. I \subseteq S
  <2> HIDE DEF S, I, r
  <2> QED
    BY <1>1, <1>2, RankInduction
<1> QED
  BY <1>3

\* Term k is one of the operations that may be written, put onto others.
TermMade(w, n, k) ==
  LET t == w[k] IN
  /\ t = Term(t.op, t.args)
  /\ \/ t.op \in UnaryOps /\ t.args \in [1 .. 1 -> 1 .. k - 1]
     \/ t.op \in BinaryOps /\ t.args \in [1 .. 2 -> 1 .. k - 1]
     \/ t.op \in ListedOps /\ t.args \in [1 .. 3 -> 1 .. k - 1]
  /\ t.op = "case" => "x" \in Names
  /\ t.op = "pow" =>
       w[t.args[2]].op = "real" /\ w[t.args[2]].num \in {Num(i) : i \in 0 .. 9}
  /\ t.op = "name" =>
       ~Uses(w, t.args[1], "name") /\ ~Uses(w, t.args[1], "reference")
  /\ k > n + 1 => \E i \in DOMAIN t.args : t.args[i] = k - 1

\* Leaves first, and what is put onto them.
WrittenMade(w, n) ==
  /\ IsSequence(w) /\ n \in 1 .. Len(w)
  /\ \A k \in 1 .. n : IsLeaf(w[k])
  /\ \A k \in n + 1 .. Len(w) : TermMade(w, n, k)

(* What a sequence is, whatever it is made of.                             *)
LEMMA Sequences ==
  ASSUME NEW w
  PROVE  /\ IsSequence(w) => Len(w) \in Nat /\ DOMAIN w = 1 .. Len(w)
         /\ \A S : w \in Seq(S) => IsSequence(w)
<1>1. ASSUME IsSequence(w) PROVE Len(w) \in Nat /\ DOMAIN w = 1 .. Len(w)
  <2>1. w \in Seq({w[x] : x \in DOMAIN w})
    BY <1>1 DEF IsSequence
  <2> QED
    BY <2>1
<1>2. ASSUME NEW S, w \in Seq(S) PROVE IsSequence(w)
  <2>1. w \in [1 .. Len(w) -> {w[x] : x \in DOMAIN w}] /\ Len(w) \in Nat
    BY <1>2
  <2> QED
    BY <2>1 DEF IsSequence
<1> QED
  BY <1>1, <1>2

(* The kinds of leaves, none of which has operands.                        *)
LEMMA LeafKinds ==
  ASSUME NEW t, IsLeaf(t)
  PROVE  /\ t = [op |-> t.op, args |-> <<>>, num |-> t.num, id |-> t.id, poly |-> t.poly]
         /\ DOMAIN t.args = {} /\ Monomials(t.poly)
         /\ \/ t.op = "real" /\ t.num \in Number
            \/ t.op = "variable" /\ t.id \in Names
            \/ t.op = "reference"
            \/ t.op = "polynomial"
            \/ t.op = "untagged" /\ t.num \in Number
<1>1. DOMAIN <<>> = {}
  OBVIOUS
<1>2. CASE t = Constant(t.num) /\ t.num \in Number
  BY <1>1, <1>2, NoMonomials DEF Constant, Term
<1>3. CASE t = Var(t.id) /\ t.id \in Names
  BY <1>1, <1>3, NoMonomials DEF Var, Term
<1>4. CASE t = Ref(TheName)
  BY <1>1, <1>4, NoMonomials DEF Ref, Term
<1>5. CASE /\ t \in {Sum(t.poly), Polynomial(t.poly)}
           /\ IsSequence(t.poly) /\ \A j \in DOMAIN t.poly : IsMonomial(t.poly[j])
  <2>1. Monomials(t.poly)
    BY <1>5 DEF Monomials
  <2>2. CASE t = Sum(t.poly)
    BY <1>1, <2>1, <2>2 DEF Sum, Term
  <2>3. CASE t = Polynomial(t.poly)
    <3>1. Num(0) \in Number
      BY OneAndZero DEF Zero
    <3> QED
      BY <1>1, <2>1, <2>3, <3>1 DEF Polynomial, Term
  <2> QED
    BY <1>5, <2>2, <2>3
<1> QED
  BY <1>2, <1>3, <1>4, <1>5 DEF IsLeaf

(* What is written is not empty, and its terms are made of earlier ones.   *)
LEMMA WrittenOrdered ==
  ASSUME NEW w, NEW n, WrittenMade(w, n)
  PROVE  /\ Ordered(w) /\ Len(w) \in 1 .. Len(w)
         /\ \A k \in 1 .. Len(w) : k \in 1 .. n \/ k \in n + 1 .. Len(w)
<1>1. /\ Len(w) \in Nat /\ DOMAIN w = 1 .. Len(w) /\ n \in 1 .. Len(w)
  BY Sequences DEF WrittenMade
<1>2. \A k \in 1 .. Len(w) : k \in 1 .. n \/ k \in n + 1 .. Len(w)
  BY <1>1
<1>3. ASSUME NEW k \in 1 .. Len(w), NEW i \in DOMAIN w[k].args
      PROVE  w[k].args[i] \in 1 .. k - 1
  <2>1. CASE k \in 1 .. n
    BY <2>1, <1>3, LeafKinds DEF WrittenMade
  <2>2. CASE k \in n + 1 .. Len(w)
    <3>1. TermMade(w, n, k)
      BY <2>2 DEF WrittenMade
    <3> QED
      BY <3>1, <1>3 DEF TermMade
  <2> QED
    BY <2>1, <2>2, <1>2
<1> QED
  BY <1>1, <1>2, <1>3 DEF Ordered

(* Terms that are put onto others are parts of the last one, and at most   *)
(* one of them gives the name.                                             *)
LEMMA AllOnTop ==
  ASSUME NEW w, NEW n, WrittenMade(w, n)
  PROVE  /\ \A k \in n + 1 .. Len(w) : \A j \in n + 1 .. k : j \in Parts(w, k)
         /\ \A j, k \in 1 .. Len(w) : w[j].op = "name" /\ w[k].op = "name" => j = k
<1>1. /\ Len(w) \in Nat /\ n \in 1 .. Len(w) /\ n \in Nat
      /\ \A k \in n + 1 .. Len(w) : TermMade(w, n, k) /\ k \in 1 .. Len(w)
  BY Sequences DEF WrittenMade
<1>2. \A k \in 1 .. Len(w) :
        /\ k \in Parts(w, k)
        /\ \A i \in DOMAIN w[k].args : Parts(w, w[k].args[i]) \subseteq Parts(w, k)
  <2> SUFFICES ASSUME NEW k \in 1 .. Len(w)
               PROVE  /\ k \in Parts(w, k)
                      /\ \A i \in DOMAIN w[k].args : Parts(w, w[k].args[i]) \subseteq Parts(w, k)
    OBVIOUS
  <2>1. Parts(w, k) = {k} \cup UNION {Parts(w, w[k].args[i]) : i \in DOMAIN w[k].args}
    BY WrittenOrdered, PartsAre
  <2> QED
    BY <2>1
<1> DEFINE S == {k \in 0 .. Len(w) : k > n => \A j \in n + 1 .. k : j \in Parts(w, k)}
<1>3. 0 \in S
  BY <1>1
<1>4. ASSUME NEW k \in 1 .. Len(w), k - 1 \in S PROVE k \in S
  <2> SUFFICES ASSUME k > n, NEW j \in n + 1 .. k PROVE j \in Parts(w, k)
    OBVIOUS
  <2>1. CASE j = k
    BY <2>1, <1>2
  <2>2. CASE j # k
    <3>1. k > n + 1 /\ k \in n + 1 .. Len(w) /\ j \in n + 1 .. k - 1 /\ k - 1 > n
      BY <2>2, <1>1
    <3>2. TermMade(w, n, k)
      BY <3>1, <1>1
    <3>3. PICK i \in DOMAIN w[k].args : w[k].args[i] = k - 1
      BY <3>1, <3>2 DEF TermMade
    <3>4. j \in Parts(w, k - 1)
      BY <3>1, <1>4
    <3> QED
      BY <3>3, <3>4, <1>2
  <2> QED
    BY <2>1, <2>2
<1>5. \A k \in 0 .. Len(w) : k \in S
  <2> HIDE DEF S
  <2> QED
    BY <1>1, <1>3, <1>4, UpTo
<1>6. \A k \in n + 1 .. Len(w) : \A j \in n + 1 .. k : j \in Parts(w, k)
  BY <1>1, <1>5
<1>7. ASSUME NEW k \in 1 .. Len(w), w[k].op = "name"
      PROVE  k \in n + 1 .. Len(w)
  <2>1. CASE k \in 1 .. n
    <3>1. w[k].op \in {"real", "variable", "reference", "polynomial", "untagged"}
      BY <2>1, LeafKinds DEF WrittenMade
    <3> QED
      BY <3>1, <1>7
  <2> QED
    BY <2>1, WrittenOrdered
<1>8. ASSUME NEW j \in 1 .. Len(w), NEW k \in 1 .. Len(w), j < k,
             w[j].op = "name", w[k].op = "name"
      PROVE  FALSE
  <2>1. j \in n + 1 .. Len(w) /\ k \in n + 1 .. Len(w)
    BY <1>7, <1>8
  <2>2. TermMade(w, n, k) /\ k > n + 1
    BY <1>1, <1>8, <2>1
  <2>3. DOMAIN w[k].args = 1 .. 1
    BY <2>2, <1>8 DEF TermMade, UnaryOps, BinaryOps, ListedOps
  <2>4. w[k].args[1] = k - 1
    BY <2>2, <2>3 DEF TermMade
  <2>5. k - 1 \in n + 1 .. Len(w) /\ j \in n + 1 .. k - 1
    BY <2>1, <2>2, <1>8, <1>1
  <2>6. j \in Parts(w, k - 1)
    BY <2>5, <1>6
  <2>7. Uses(w, k - 1, "name")
    BY <2>6, <1>8 DEF Uses
  <2>8. ~Uses(w, w[k].args[1], "name")
    BY <2>2, <1>8 DEF TermMade
  <2> QED
    BY <2>4, <2>7, <2>8
<1>9. \A j, k \in 1 .. Len(w) : w[j].op = "name" /\ w[k].op = "name" => j = k
  <2>1. \A j, k \in 1 .. Len(w) : j < k \/ k < j \/ j = k
    OBVIOUS
  <2> QED
    BY <2>1, <1>8
<1> QED
  BY <1>6, <1>9

(* One operation more.                                                     *)
LEMMA WrittenGrows ==
  ASSUME NEW w, NEW n, WrittenMade(w, n), NEW op, NEW q \in 1 .. 3,
         \/ op \in UnaryOps /\ q = 1
         \/ op \in BinaryOps /\ q = 2
         \/ op \in ListedOps /\ q = 3,
         op = "case" => "x" \in Names,
         NEW args \in [1 .. q -> DOMAIN w],
         Len(w) = n \/ \E i \in 1 .. q : args[i] = Len(w),
         NEW u, u = Append(w, Term(op, args)), Writable(u)
  PROVE  WrittenMade(u, n)
<1> DEFINE N == Len(w)
           t == Term(op, args)
<1>1. N \in Nat /\ DOMAIN w = 1 .. N /\ n \in 1 .. N
  BY Sequences DEF WrittenMade
<1>2. /\ IsSequence(u) /\ Len(u) = N + 1 /\ u[N + 1] = t
      /\ \A k \in 1 .. N : u[k] = w[k]
  <2> DEFINE S == {w[x] : x \in DOMAIN w} \cup {t}
  <2>1. w \in Seq(S) /\ t \in S
    BY DEF WrittenMade, IsSequence
  <2> HIDE DEF S, t
  <2>2. u \in Seq(S) /\ Len(u) = N + 1 /\ u[N + 1] = t /\ \A k \in 1 .. N : u[k] = w[k]
    BY <2>1 DEF t
  <2> QED
    BY <2>2, Sequences
<1>3. t.op = op /\ t.args = args /\ t = Term(t.op, t.args)
  BY DEF Term
<1>12. N = Len(w)
  OBVIOUS
<1>11. Len(u) = N + 1 /\ DOMAIN w = 1 .. N /\ \A k \in 1 .. N : u[k] = w[k]
  BY <1>1, <1>2
<1> HIDE DEF N, t
<1>0. N = Len(w) /\ N \in Nat /\ n \in Nat /\ n <= N /\ n >= 1
  <2>1. N \in Nat /\ n \in 1 .. N
    BY <1>1
  <2>2. n \in Nat /\ n <= N /\ n >= 1
    BY ONLY <2>1
  <2> QED
    BY <2>1, <2>2, <1>12
<1>4. Ordered(w) /\ Ordered(u)
  <2>1. Ordered(w)
    BY WrittenOrdered
  <2>2. Len(u) \in Nat /\ DOMAIN u = 1 .. Len(u)
    BY <1>2, Sequences
  <2>3. ASSUME NEW k \in 1 .. N + 1, NEW i \in DOMAIN u[k].args
        PROVE  u[k].args[i] \in 1 .. k - 1
    <3>1. CASE k \in 1 .. N
      BY <3>1, <2>1, <2>3, <1>0, <1>11 DEF Ordered
    <3>2. CASE k = N + 1
      <4>1. args[i] \in 1 .. N
        BY <3>2, <2>3, <1>11, <1>2, <1>3
      <4> QED
        BY <4>1, <3>2, <1>0, <1>2, <1>3
    <3> QED
      BY <3>1, <3>2, <1>0
  <2>4. \A k \in 1 .. Len(u) : \A i \in DOMAIN u[k].args : u[k].args[i] \in 1 .. k - 1
    BY <2>3, <1>11
  <2> QED
    BY <2>1, <2>2, <2>4 DEF Ordered
<1>5. \A k \in 1 .. N : \A o : Uses(u, k, o) <=> Uses(w, k, o)
  <2>1. \A k \in 1 .. N : Parts(u, k) = Parts(w, k)
    <3>1. Len(w) <= Len(u)
      BY <1>0, <1>11
    <3> QED
      BY <3>1, <1>0, <1>11, <1>4, PartsKept
  <2>2. \A k \in 1 .. N : Parts(w, k) \subseteq 1 .. N
    <3> SUFFICES ASSUME NEW k \in 1 .. N PROVE Parts(w, k) \subseteq 1 .. N
      OBVIOUS
    <3>1. Parts(w, k) \subseteq 1 .. k
      BY <1>0, <1>4, PartsAre
    <3> QED
      BY <3>1, <1>0
  <2> SUFFICES ASSUME NEW k \in 1 .. N, NEW o
               PROVE  Uses(u, k, o) <=> Uses(w, k, o)
    OBVIOUS
  <2>3. \A j \in Parts(w, k) : u[j] = w[j]
    BY <2>2, <1>2
  <2> QED
    BY <2>1, <2>3 DEF Uses
<1>6. \A k \in 1 .. n : IsLeaf(u[k])
  BY <1>0, <1>11 DEF WrittenMade
<1>7. ASSUME NEW k \in n + 1 .. N PROVE TermMade(u, n, k)
  <2>1. TermMade(w, n, k) /\ k \in 1 .. N /\ u[k] = w[k]
    BY <1>0, <1>11 DEF WrittenMade
  <2>2. \A i \in DOMAIN w[k].args : w[k].args[i] \in 1 .. N
    BY <2>1, <1>0, <1>4 DEF Ordered
  <2>3. w[k].op = "pow" => 2 \in DOMAIN w[k].args
    BY <2>1 DEF TermMade, UnaryOps, BinaryOps, ListedOps
  <2>4. w[k].op = "name" => 1 \in DOMAIN w[k].args
    BY <2>1 DEF TermMade, UnaryOps, BinaryOps, ListedOps
  <2>5. w[k].op = "pow" =>
          u[u[k].args[2]].op = "real" /\ u[u[k].args[2]].num \in {Num(i) : i \in 0 .. 9}
    <3>1. w[k].op = "pow" => u[w[k].args[2]] = w[w[k].args[2]]
      BY <2>2, <2>3, <1>11
    <3>2. w[k].op = "pow" =>
            w[w[k].args[2]].op = "real" /\ w[w[k].args[2]].num \in {Num(i) : i \in 0 .. 9}
      BY <2>1 DEF TermMade
    <3> QED
      BY <3>1, <3>2, <2>1
  <2>6. w[k].op = "name" => ~Uses(u, u[k].args[1], "name") /\ ~Uses(u, u[k].args[1], "reference")
    <3>1. w[k].op = "name" => ~Uses(w, w[k].args[1], "name") /\ ~Uses(w, w[k].args[1], "reference")
      BY <2>1 DEF TermMade
    <3>2. w[k].op = "name" => w[k].args[1] \in 1 .. N
      BY <2>2, <2>4
    <3> QED
      BY <3>1, <3>2, <2>1, <1>5
  <2> QED
    BY <2>1, <2>5, <2>6 DEF TermMade
<1>8. TermMade(u, n, N + 1)
  <2> DEFINE k == N + 1
  <2>1. k - 1 = N /\ u[k] = t /\ args \in [1 .. q -> 1 .. k - 1]
    BY <1>0, <1>2, <1>11
  <2>2. LastTerm(u) = t
    BY <1>2 DEF LastTerm
  <2>3. op = "pow" => u[args[2]].op = "real" /\ u[args[2]].num \in {Num(i) : i \in 0 .. 9}
    BY <2>2, <1>3 DEF Writable
  <2>4. op = "name" => ~Uses(u, args[1], "name") /\ ~Uses(u, args[1], "reference")
    BY <2>2, <1>3 DEF Writable
  <2>5. k > n + 1 => \E i \in DOMAIN args : args[i] = k - 1
    <3>1. k > n + 1 => N # n
      BY <1>0
    <3>2. DOMAIN args = 1 .. q
      OBVIOUS
    <3> QED
      BY <3>1, <3>2, <2>1, <1>0
  <2>6. \/ op \in UnaryOps /\ args \in [1 .. 1 -> 1 .. k - 1]
        \/ op \in BinaryOps /\ args \in [1 .. 2 -> 1 .. k - 1]
        \/ op \in ListedOps /\ args \in [1 .. 3 -> 1 .. k - 1]
    BY <2>1
  <2> HIDE DEF k, t
  <2>7. TermMade(u, n, k)
    BY <2>1, <2>3, <2>4, <2>5, <2>6, <1>3 DEF TermMade
  <2> QED
    BY <2>7 DEF k
<1>9. \A k \in n + 1 .. Len(u) : TermMade(u, n, k)
  <2>1. \A k \in n + 1 .. Len(u) : k \in n + 1 .. N \/ k = N + 1
    BY <1>0, <1>11
  <2> QED
    BY <2>1, <1>7, <1>8
<1>10. n \in 1 .. Len(u)
  BY <1>0, <1>11
<1> QED
  BY <1>2, <1>6, <1>9, <1>10 DEF WrittenMade

------------------------------------------------------------------------------
(* The message of an expression: what is sent of each term, and the order  *)
(* of its nodes.                                                           *)

\* An order of the terms in which a reference comes after the name.
Rank(w, k) == IF Uses(w, k, "reference") THEN k + Len(w) ELSE k

\* And of the nodes.
Ranks(w) ==
  [j \in 1 .. Node(Len(w)) |->
    LET k == (j + 1) \div 2 IN
    IF j = Node(k) THEN 2 * Rank(w, k) ELSE 2 * Rank(w, k) - 1]

\* The record of a term.
IsTerm(t) == t = [op |-> t.op, args |-> t.args, num |-> t.num, id |-> t.id, poly |-> t.poly]

(* Each node of a message belongs to one term.                             *)
LEMMA NodeNumbers ==
  ASSUME NEW N \in Nat
  PROVE  /\ \A k \in 1 .. N : /\ Node(k) \in 1 .. Node(N) /\ Inner(k) \in 1 .. Node(N)
                             /\ (Node(k) + 1) \div 2 = k /\ (Inner(k) + 1) \div 2 = k
                             /\ Inner(k) # Node(k) /\ Inner(k) + 1 = Node(k)
         /\ \A j \in 1 .. Node(N) : \E k \in 1 .. N : j = Node(k) \/ j = Inner(k)
<1>1. ASSUME NEW k \in 1 .. N
      PROVE  /\ Node(k) \in 1 .. Node(N) /\ Inner(k) \in 1 .. Node(N)
             /\ (Node(k) + 1) \div 2 = k /\ (Inner(k) + 1) \div 2 = k
             /\ Inner(k) # Node(k) /\ Inner(k) + 1 = Node(k)
  BY DEF Node, Inner
<1>2. ASSUME NEW j \in 1 .. Node(N)
      PROVE  \E k \in 1 .. N : j = Node(k) \/ j = Inner(k)
  <2> DEFINE k == (j + 1) \div 2
  <2>1. k \in 1 .. N /\ (j = 2 * k \/ j = 2 * k - 1)
    BY DEF Node
  <2> HIDE DEF k
  <2> QED
    BY <2>1 DEF Node, Inner
<1> QED
  BY <1>1, <1>2

\* The record of a node without its polynomial made.
Raw(w, k) == IF k \in Parts(w, Len(w)) THEN Built(w, k) ELSE Constant(Num(0))
\* The same of the node around its second operand.
RawInner(w, k) == IF k \in Parts(w, Len(w)) THEN BuiltInner(w, k) ELSE Constant(Num(0))

\* Node j of a message comes from the record t.
ComesFrom(m, j, t) ==
  /\ m[j].op = t.op /\ m[j].args = t.args /\ m[j].num = t.num /\ m[j].id = t.id
  /\ m[j].poly = buildPolynomial(t.poly)

(* The nodes of a message.                                                 *)
LEMMA MessageNodes ==
  ASSUME NEW w, NEW N \in Nat, N = Len(w), NEW k \in 1 .. N, IsTerm(Raw(w, k)),
         IsTerm(RawInner(w, k))
  PROVE  /\ DOMAIN Message(w) = 1 .. Node(N)
         /\ ComesFrom(Message(w), Node(k), Raw(w, k))
         /\ ComesFrom(Message(w), Inner(k), RawInner(w, k))
<1> DEFINE node(j) ==
             LET i == (j + 1) \div 2 IN
             IF i \notin Parts(w, Len(w)) THEN Constant(Num(0))
             ELSE IF j = Node(i) THEN Built(w, i) ELSE BuiltInner(w, i)
<1>1. Message(w) = [j \in 1 .. Node(N) |-> [node(j) EXCEPT !.poly = buildPolynomial(@)]]
  BY DEF Message
<1>2. /\ Node(k) \in 1 .. Node(N) /\ Inner(k) \in 1 .. Node(N)
      /\ (Node(k) + 1) \div 2 = k /\ (Inner(k) + 1) \div 2 = k /\ Inner(k) # Node(k)
  BY NodeNumbers
<1>3. node(Node(k)) = Raw(w, k) /\ node(Inner(k)) = RawInner(w, k)
  BY <1>2 DEF Raw, RawInner
<1>4. ASSUME NEW t, IsTerm(t)
      PROVE  LET u == [t EXCEPT !.poly = buildPolynomial(@)]
             IN  /\ u.op = t.op /\ u.args = t.args /\ u.num = t.num /\ u.id = t.id
                 /\ u.poly = buildPolynomial(t.poly)
  BY <1>4 DEF IsTerm
<1> HIDE DEF node
<1>5. Message(w)[Node(k)] = [Raw(w, k) EXCEPT !.poly = buildPolynomial(@)]
  BY <1>1, <1>2, <1>3
<1>6. Message(w)[Inner(k)] = [RawInner(w, k) EXCEPT !.poly = buildPolynomial(@)]
  BY <1>1, <1>2, <1>3
<1>7. ComesFrom(Message(w), Node(k), Raw(w, k))
  BY <1>4, <1>5 DEF ComesFrom
<1>8. ComesFrom(Message(w), Inner(k), RawInner(w, k))
  BY <1>4, <1>6 DEF ComesFrom
<1> QED
  BY <1>1, <1>7, <1>8

\* The operation that an operator becomes, and the nodes it is put onto.
OpOf(op) ==
  CASE op = "+" -> "sum" [] op = "-" -> "sum"
    [] op = "*" -> "prod" [] op = "/" -> "prod"
    [] op = "untagged" -> "real"
    [] OTHER -> op

\* The node that operand i becomes.
ArgOf(w, k, i) ==
  IF w[k].op \in {"-", "/"} /\ i = 2 THEN Inner(k) ELSE Node(w[k].args[i])

(* The record of a constant.                                               *)
LEMMA ZeroTerm ==
  LET t == Constant(Num(0))
  IN  /\ IsTerm(t) /\ t.poly = <<>> /\ t.num = Num(0) /\ t.op = "real" /\ t.args = <<>>
<1>1. ASSUME NEW t, t = Constant(Num(0))
      PROVE  IsTerm(t) /\ t.poly = <<>> /\ t.num = Num(0) /\ t.op = "real" /\ t.args = <<>>
  BY <1>1 DEF Constant, Term, IsTerm
<1> QED
  BY <1>1

(* The record of an operation.                                             *)
LEMMA TermRecord ==
  ASSUME NEW op, NEW as
  PROVE  LET y == Term(op, as)
         IN  /\ IsTerm(y) /\ y.op = op /\ y.args = as /\ y.num = Num(0) /\ y.poly = <<>>
  BY DEF IsTerm, Term

\* A term of another operation and with other operands.
Changed(t, op, as) == [t EXCEPT !.op = op, !.args = as]

(* The record of a term that is changed.                                   *)
LEMMA ChangedTerm ==
  ASSUME NEW t, IsTerm(t), NEW op, NEW as
  PROVE  LET y == Changed(t, op, as)
         IN  /\ IsTerm(y) /\ y.op = op /\ y.args = as
             /\ y.num = t.num /\ y.id = t.id /\ y.poly = t.poly
<1>1. ASSUME NEW y, y = [t EXCEPT !.op = op, !.args = as]
      PROVE  /\ IsTerm(y) /\ y.op = op /\ y.args = as
             /\ y.num = t.num /\ y.id = t.id /\ y.poly = t.poly
  BY ONLY <1>1, IsTerm(t) DEF IsTerm
<1> QED
  BY <1>1 DEF Changed

\* A term with other operands.
ChangedArgs(t, as) == [t EXCEPT !.args = as]

(* It is the same change where the operation stays.                        *)
LEMMA ArgsChanged ==
  ASSUME NEW t, IsTerm(t), NEW as
  PROVE  ChangedArgs(t, as) = Changed(t, t.op, as)
BY DEF ChangedArgs, Changed, IsTerm

(* What an operator builds.                                                *)
LEMMA BuiltIs ==
  ASSUME NEW w, NEW k, IsTerm(w[k]), w[k].op \in {"-", "/"} => DOMAIN w[k].args = 1 .. 2
  PROVE  LET t == Built(w, k)
         IN  /\ IsTerm(t) /\ t.op = OpOf(w[k].op)
             /\ DOMAIN t.args = DOMAIN w[k].args
             /\ \A i \in DOMAIN w[k].args : t.args[i] = ArgOf(w, k, i)
             /\ t.num = w[k].num /\ t.id = w[k].id /\ t.poly = w[k].poly
<1> DEFINE t == w[k]
           args == [i \in DOMAIN t.args |-> Node(t.args[i])]
           u == Built(w, k)
<1>3. CASE t.op = "+"
  <2>1. u = Changed(t, "sum", args)
    BY <1>3 DEF Built, Changed
  <2>2. /\ IsTerm(u) /\ u.op = "sum" /\ u.args = args
        /\ u.num = t.num /\ u.id = t.id /\ u.poly = t.poly
    <3> HIDE DEF u, args
    <3> QED
      BY <2>1, ChangedTerm
  <2> QED
    BY ONLY <2>2, <1>3 DEF OpOf, ArgOf
<1>4. CASE t.op = "*"
  <2>1. u = Changed(t, "prod", args)
    BY <1>4 DEF Built, Changed
  <2>2. /\ IsTerm(u) /\ u.op = "prod" /\ u.args = args
        /\ u.num = t.num /\ u.id = t.id /\ u.poly = t.poly
    <3> HIDE DEF u, args
    <3> QED
      BY <2>1, ChangedTerm
  <2> QED
    BY ONLY <2>2, <1>4 DEF OpOf, ArgOf
<1>5. CASE t.op = "-"
  <2>1. u = Changed(t, "sum", <<args[1], Inner(k)>>)
    BY <1>5 DEF Built, Changed
  <2>2. /\ DOMAIN <<args[1], Inner(k)>> = 1 .. 2
        /\ <<args[1], Inner(k)>>[1] = args[1] /\ <<args[1], Inner(k)>>[2] = Inner(k)
    OBVIOUS
  <2>3. /\ IsTerm(u) /\ u.op = "sum" /\ u.args = <<args[1], Inner(k)>>
        /\ u.num = t.num /\ u.id = t.id /\ u.poly = t.poly
    <3> HIDE DEF u, args
    <3> QED
      BY <2>1, ChangedTerm
  <2>4. DOMAIN t.args = 1 .. 2 /\ args[1] = Node(t.args[1])
    BY <1>5
  <2>5. \A i \in 1 .. 2 : i = 1 \/ i = 2
    OBVIOUS
  <2> HIDE DEF u, args, IsTerm
  <2>6. u.args[1] = Node(t.args[1]) /\ u.args[2] = Inner(k) /\ DOMAIN u.args = 1 .. 2
    BY <2>2, <2>3, <2>4
  <2>7. \A i \in DOMAIN t.args : u.args[i] = ArgOf(w, k, i)
    BY <2>4, <2>5, <2>6, <1>5 DEF ArgOf
  <2> QED
    BY <2>3, <2>4, <2>6, <2>7, <1>5 DEF OpOf, u
<1>6. CASE t.op = "/"
  <2>1. u = Changed(t, "prod", <<args[1], Inner(k)>>)
    BY <1>6 DEF Built, Changed
  <2>2. /\ DOMAIN <<args[1], Inner(k)>> = 1 .. 2
        /\ <<args[1], Inner(k)>>[1] = args[1] /\ <<args[1], Inner(k)>>[2] = Inner(k)
    OBVIOUS
  <2>3. /\ IsTerm(u) /\ u.op = "prod" /\ u.args = <<args[1], Inner(k)>>
        /\ u.num = t.num /\ u.id = t.id /\ u.poly = t.poly
    <3> HIDE DEF u, args
    <3> QED
      BY <2>1, ChangedTerm
  <2>4. DOMAIN t.args = 1 .. 2 /\ args[1] = Node(t.args[1])
    BY <1>6
  <2>5. \A i \in 1 .. 2 : i = 1 \/ i = 2
    OBVIOUS
  <2> HIDE DEF u, args, IsTerm
  <2>6. u.args[1] = Node(t.args[1]) /\ u.args[2] = Inner(k) /\ DOMAIN u.args = 1 .. 2
    BY <2>2, <2>3, <2>4
  <2>7. \A i \in DOMAIN t.args : u.args[i] = ArgOf(w, k, i)
    BY <2>4, <2>5, <2>6, <1>6 DEF ArgOf
  <2> QED
    BY <2>3, <2>4, <2>6, <2>7, <1>6 DEF OpOf, u
<1>8. CASE t.op = "untagged"
  <2>1. u = Changed(t, "real", args)
    BY <1>8 DEF Built, Changed
  <2>2. /\ IsTerm(u) /\ u.op = "real" /\ u.args = args
        /\ u.num = t.num /\ u.id = t.id /\ u.poly = t.poly
    <3> HIDE DEF u, args
    <3> QED
      BY <2>1, ChangedTerm
  <2> QED
    BY ONLY <2>2, <1>8 DEF OpOf, ArgOf
<1>7. CASE t.op \notin {"+", "-", "*", "/", "untagged"}
  <2>1. u = ChangedArgs(t, args)
    BY <1>7 DEF Built, ChangedArgs
  <2>2. u = Changed(t, t.op, args)
    <3> HIDE DEF u, args
    <3> QED
      BY <2>1, ArgsChanged
  <2>3. /\ IsTerm(u) /\ u.op = t.op /\ u.args = args
        /\ u.num = t.num /\ u.id = t.id /\ u.poly = t.poly
    <3> HIDE DEF u, args
    <3> QED
      BY <2>2, ChangedTerm
  <2> QED
    BY ONLY <2>3, <1>7 DEF OpOf, ArgOf
<1> QED
  BY <1>3, <1>4, <1>5, <1>6, <1>7, <1>8

(* The node around a second operand.                                       *)
LEMMA BuiltInnerIs ==
  ASSUME NEW w, NEW k
  PROVE  LET t == BuiltInner(w, k)
         IN  /\ IsTerm(t) /\ t.poly = <<>> /\ t.num = Num(0)
             /\ w[k].op = "-" => t.op = "negate"
             /\ w[k].op = "/" => t.op = "multinv"
             /\ w[k].op \in {"-", "/"} =>
                  DOMAIN t.args = 1 .. 1 /\ t.args[1] = Node(w[k].args[2])
             /\ w[k].op \notin {"-", "/"} => t.op = "real" /\ DOMAIN t.args = {}
<1> DEFINE t == BuiltInner(w, k)
<1>1. ASSUME NEW op, NEW as
      PROVE  LET y == Term(op, as)
             IN  /\ IsTerm(y) /\ y.op = op /\ y.args = as
                 /\ y.num = Num(0) /\ y.poly = <<>>
  BY DEF IsTerm, Term
<1>2. /\ DOMAIN <<Node(w[k].args[2])>> = 1 .. 1
      /\ <<Node(w[k].args[2])>>[1] = Node(w[k].args[2]) /\ DOMAIN <<>> = {}
  OBVIOUS
<1>3. CASE w[k].op = "-"
  <2>1. t = Term("negate", <<Node(w[k].args[2])>>)
    BY <1>3 DEF BuiltInner
  <2> QED
    BY <2>1, <1>1, <1>2, <1>3
<1>4. CASE w[k].op = "/"
  <2>1. t = Term("multinv", <<Node(w[k].args[2])>>)
    BY <1>4 DEF BuiltInner
  <2> QED
    BY <2>1, <1>1, <1>2, <1>4
<1>5. CASE w[k].op \notin {"-", "/"}
  <2>1. t = Constant(Num(0))
    BY <1>5 DEF BuiltInner
  <2>2. /\ IsTerm(Constant(Num(0))) /\ Constant(Num(0)).poly = <<>>
        /\ Constant(Num(0)).num = Num(0) /\ Constant(Num(0)).op = "real"
        /\ Constant(Num(0)).args = <<>>
    BY ZeroTerm
  <2> QED
    BY <2>1, <2>2, <1>2, <1>5
<1> QED
  BY <1>3, <1>4, <1>5

\* What is known of a term: a leaf, or an operation with its operands.
TermKinds(w, k) ==
  LET t == w[k] IN
  /\ IsTerm(t) /\ Monomials(t.poly)
  /\ \A i \in DOMAIN t.args : t.args[i] \in 1 .. k - 1
  /\ \/ /\ DOMAIN t.args = {}
        /\ \/ t.op = "real" /\ t.num \in Number
           \/ t.op = "variable" /\ t.id \in Names
           \/ t.op = "reference"
           \/ t.op = "polynomial"
           \/ t.op = "untagged" /\ t.num \in Number
     \/ t.op \in UnaryOps /\ DOMAIN t.args = 1 .. 1
     \/ t.op \in BinaryOps /\ DOMAIN t.args = 1 .. 2 /\ (t.op = "case" => "x" \in Names)
     \/ t.op \in ListedOps /\ DOMAIN t.args = 1 .. 3

(* Every term is of one of the kinds.                                      *)
LEMMA TermsAre ==
  ASSUME NEW w, NEW n, WrittenMade(w, n), NEW k \in 1 .. Len(w)
  PROVE  TermKinds(w, k)
<1>0. Ordered(w)
  BY WrittenOrdered
<1>1. CASE k \in 1 .. n
  <2>1. IsLeaf(w[k])
    BY <1>1 DEF WrittenMade
  <2> QED
    BY <2>1, <1>0, LeafKinds DEF TermKinds, IsTerm, Ordered
<1>2. CASE k \in n + 1 .. Len(w)
  <2>1. TermMade(w, n, k)
    BY <1>2 DEF WrittenMade
  <2>2. IsTerm(w[k]) /\ w[k].poly = <<>>
    <3>1. w[k] = Term(w[k].op, w[k].args)
      BY <2>1 DEF TermMade
    <3> HIDE DEF IsTerm
    <3> QED
      BY <3>1, TermRecord
  <2>3. Monomials(w[k].poly)
    BY <2>2, NoMonomials
  <2> QED
    BY <2>1, <2>2, <2>3, <1>0 DEF TermKinds, TermMade, Ordered
<1> QED
  BY <1>1, <1>2, WrittenOrdered

\* What message m holds of term k, a part of the expression, and of one that
\* is not.
Carries(m, w, k) ==
  /\ m[Node(k)].op = OpOf(w[k].op)
  /\ DOMAIN m[Node(k)].args = DOMAIN w[k].args
  /\ \A i \in DOMAIN w[k].args : m[Node(k)].args[i] = ArgOf(w, k, i)
  /\ m[Node(k)].num = w[k].num /\ m[Node(k)].id = w[k].id
  /\ m[Node(k)].poly = buildPolynomial(w[k].poly)
  /\ w[k].op = "-" => m[Inner(k)].op = "negate"
  /\ w[k].op = "/" => m[Inner(k)].op = "multinv"
  /\ w[k].op \in {"-", "/"} =>
       DOMAIN m[Inner(k)].args = 1 .. 1 /\ m[Inner(k)].args[1] = Node(w[k].args[2])
  /\ w[k].op \notin {"-", "/"} =>
       m[Inner(k)].op = "real" /\ m[Inner(k)].num = Num(0) /\ DOMAIN m[Inner(k)].args = {}
  /\ m[Inner(k)].poly = buildPolynomial(<<>>)

\* A node that stands for nothing.
Empty(m, j) ==
  /\ m[j].op = "real" /\ m[j].num = Num(0) /\ DOMAIN m[j].args = {}
  /\ m[j].poly = buildPolynomial(<<>>)

(* A message has two nodes per term, which hold what Carries says of a     *)
(* part of the expression, and nothing of other terms.                     *)
LEMMA MessageCarries ==
  ASSUME NEW w, NEW n, WrittenMade(w, n), NEW k \in 1 .. Len(w)
  PROVE  /\ DOMAIN Message(w) = 1 .. Node(Len(w))
         /\ k \in Parts(w, Len(w)) => Carries(Message(w), w, k)
         /\ k \notin Parts(w, Len(w)) =>
              Empty(Message(w), Node(k)) /\ Empty(Message(w), Inner(k))
<1> DEFINE N == Len(w)
           m == Message(w)
<1>1. N \in Nat
  BY Sequences DEF WrittenMade
<1>2. TermKinds(w, k)
  BY TermsAre
<1>3. IsTerm(w[k]) /\ (w[k].op \in {"-", "/"} => DOMAIN w[k].args = 1 .. 2)
  BY <1>2 DEF TermKinds, UnaryOps, BinaryOps, ListedOps
<1>4. IsTerm(Built(w, k)) /\ IsTerm(BuiltInner(w, k)) /\ IsTerm(Constant(Num(0)))
  BY <1>3, BuiltIs, BuiltInnerIs, ZeroTerm
<1>5. IsTerm(Raw(w, k)) /\ IsTerm(RawInner(w, k))
  BY <1>4 DEF Raw, RawInner
<1>6. /\ DOMAIN m = 1 .. Node(N)
      /\ ComesFrom(m, Node(k), Raw(w, k))
      /\ ComesFrom(m, Inner(k), RawInner(w, k))
  <2> HIDE DEF m
  <2> QED
    BY <1>1, <1>5, MessageNodes DEF m
<1>7. ASSUME k \in Parts(w, N) PROVE Carries(m, w, k)
  <2>1. Raw(w, k) = Built(w, k) /\ RawInner(w, k) = BuiltInner(w, k)
    BY <1>7 DEF Raw, RawInner
  <2>2. LET t == Built(w, k)
        IN  /\ t.op = OpOf(w[k].op)
            /\ DOMAIN t.args = DOMAIN w[k].args
            /\ \A i \in DOMAIN w[k].args : t.args[i] = ArgOf(w, k, i)
            /\ t.num = w[k].num /\ t.id = w[k].id /\ t.poly = w[k].poly
    BY <1>3, BuiltIs
  <2>3. LET t == BuiltInner(w, k)
        IN  /\ t.poly = <<>> /\ t.num = Num(0)
            /\ w[k].op = "-" => t.op = "negate"
            /\ w[k].op = "/" => t.op = "multinv"
            /\ w[k].op \in {"-", "/"} =>
                 DOMAIN t.args = 1 .. 1 /\ t.args[1] = Node(w[k].args[2])
            /\ w[k].op \notin {"-", "/"} => t.op = "real" /\ DOMAIN t.args = {}
    BY BuiltInnerIs
  <2> HIDE DEF m
  <2>4. /\ ComesFrom(m, Node(k), Built(w, k))
        /\ ComesFrom(m, Inner(k), BuiltInner(w, k))
    BY <2>1, <1>6
  <2> QED
    BY <2>2, <2>3, <2>4 DEF Carries, ComesFrom
<1>8. ASSUME k \notin Parts(w, N) PROVE Empty(m, Node(k)) /\ Empty(m, Inner(k))
  <2>1. Raw(w, k) = Constant(Num(0)) /\ RawInner(w, k) = Constant(Num(0))
    BY <1>8 DEF Raw, RawInner
  <2>2. LET t == Constant(Num(0))
        IN  t.poly = <<>> /\ t.num = Num(0) /\ t.op = "real" /\ t.args = <<>>
    BY ZeroTerm
  <2>3. DOMAIN <<>> = {}
    OBVIOUS
  <2> HIDE DEF m
  <2> QED
    BY <2>1, <2>2, <2>3, <1>6 DEF Empty, ComesFrom
<1> QED
  BY <1>6, <1>7, <1>8

(* The order of the terms and nodes.                                       *)
LEMMA RanksAre ==
  ASSUME NEW w, Ordered(w), NEW k \in 1 .. Len(w)
  PROVE  /\ Rank(w, k) \in 1 .. 2 * Len(w) /\ Rank(w, k) >= k
         /\ \A i \in DOMAIN w[k].args : Rank(w, w[k].args[i]) < Rank(w, k)
         /\ Ranks(w)[Node(k)] = 2 * Rank(w, k) /\ Ranks(w)[Inner(k)] = 2 * Rank(w, k) - 1
         /\ Ranks(w) \in [1 .. Node(Len(w)) -> 0 .. 4 * Len(w)]
<1> DEFINE N == Len(w)
<1>1. N \in Nat /\ \A j \in 1 .. N : j \in Int /\ 1 <= j /\ j <= N
  BY DEF Ordered
<1>2. \A j \in 1 .. N : Rank(w, j) \in 1 .. 2 * N /\ Rank(w, j) >= j
                        /\ Rank(w, j) \in {j, j + N}
  BY <1>1 DEF Rank
<1>3. ASSUME NEW i \in DOMAIN w[k].args PROVE Rank(w, w[k].args[i]) < Rank(w, k)
  <2> DEFINE j == w[k].args[i]
  <2>1. j \in 1 .. k - 1 /\ j \in 1 .. N /\ j < k
    BY <1>1, <1>3 DEF Ordered
  <2>2. Parts(w, j) \subseteq Parts(w, k)
    <3>1. Parts(w, k) = {k} \cup UNION {Parts(w, w[k].args[h]) : h \in DOMAIN w[k].args}
      BY PartsAre
    <3> QED
      BY <3>1
  <2>3. Uses(w, j, "reference") => Uses(w, k, "reference")
    BY <2>2 DEF Uses
  <2> HIDE DEF j, N
  <2>4. CASE Uses(w, j, "reference")
    <3>1. Rank(w, j) = j + N /\ Rank(w, k) = k + N
      BY <2>3, <2>4 DEF Rank, N
    <3> QED
      BY <3>1, <2>1, <1>1 DEF j, N
  <2>5. CASE ~Uses(w, j, "reference")
    <3>1. Rank(w, j) = j /\ Rank(w, k) >= k
      BY <2>5, <1>2 DEF Rank, N
    <3>2. j \in Int /\ j < k /\ k \in Int /\ Rank(w, k) \in Int
      BY <2>1, <1>1, <1>2 DEF N
    <3>3. j < Rank(w, k)
      BY ONLY <3>1, <3>2
    <3> QED
      BY <3>1, <3>3 DEF j
  <2> QED
    BY <2>4, <2>5
<1>4. /\ Node(k) \in 1 .. Node(N) /\ Inner(k) \in 1 .. Node(N)
      /\ (Node(k) + 1) \div 2 = k /\ (Inner(k) + 1) \div 2 = k /\ Inner(k) # Node(k)
  BY <1>1, NodeNumbers
<1>5. Ranks(w)[Node(k)] = 2 * Rank(w, k) /\ Ranks(w)[Inner(k)] = 2 * Rank(w, k) - 1
  BY <1>4 DEF Ranks
<1>6. ASSUME NEW j \in 1 .. Node(N)
      PROVE  LET i == (j + 1) \div 2 IN
             (IF j = Node(i) THEN 2 * Rank(w, i) ELSE 2 * Rank(w, i) - 1) \in 0 .. 4 * N
  <2> DEFINE i == (j + 1) \div 2
  <2>1. PICK h \in 1 .. N : j = Node(h) \/ j = Inner(h)
    BY <1>1, <1>6, NodeNumbers
  <2>2. i = h
    BY <2>1, <1>1, NodeNumbers
  <2>3. Rank(w, i) \in 1 .. 2 * N
    BY <2>2, <1>2
  <2>4. \A x \in 1 .. 2 * N : 2 * x \in 0 .. 4 * N /\ 2 * x - 1 \in 0 .. 4 * N
    BY <1>1
  <2> HIDE DEF i, N
  <2>5. (IF j = Node(i) THEN 2 * Rank(w, i) ELSE 2 * Rank(w, i) - 1) \in 0 .. 4 * N
    BY <2>3, <2>4
  <2> QED
    BY <2>5 DEF i
<1>7. Ranks(w) \in [1 .. Node(N) -> 0 .. 4 * N]
  BY <1>6 DEF Ranks
<1> QED
  BY <1>2, <1>3, <1>5, <1>7

\* A reference that is used has its name.
Referable(w) == Uses(w, Len(w), "reference") => Uses(w, Len(w), "name")

(* The name is given once, and what it is given to does not refer to it.   *)
LEMMA NameFound ==
  ASSUME NEW w, NEW n, WrittenMade(w, n), Referable(w), Uses(w, Len(w), "reference")
  PROVE  \E t \in Parts(w, Len(w)) :
           /\ w[t].op = "name" /\ t \in 1 .. Len(w) /\ Rank(w, t) = t
           /\ ReferredTerm(w) = t
           /\ Referred(Message(w)) = Node(t)
<1> DEFINE N == Len(w)
           m == Message(w)
<1>1. /\ Ordered(w) /\ N \in 1 .. N /\ N \in Nat /\ DOMAIN w = 1 .. N
      /\ \A k \in 1 .. N : k \in 1 .. n \/ k \in n + 1 .. N
  BY WrittenOrdered DEF Ordered
<1>2. PICK t \in Parts(w, N) : w[t].op = "name"
  BY DEF Referable, Uses
<1>3. t \in 1 .. N
  BY <1>1, PartsAre
<1>4. \A j \in 1 .. N : w[j].op = "name" => j = t
  BY <1>2, <1>3, AllOnTop
<1>5. ~Uses(w, t, "reference")
  <2>1. t \notin 1 .. n
    <3>1. ASSUME t \in 1 .. n PROVE FALSE
      <4>1. w[t].op \in {"real", "variable", "reference", "polynomial", "untagged"}
        BY <3>1, LeafKinds DEF WrittenMade
      <4> QED
        BY <4>1, <1>2
    <3> QED
      BY <3>1
  <2>2. TermMade(w, n, t)
    BY <2>1, <1>1, <1>3 DEF WrittenMade
  <2>3. DOMAIN w[t].args = 1 .. 1 /\ ~Uses(w, w[t].args[1], "reference")
    BY <2>2, <1>2 DEF TermMade, UnaryOps, BinaryOps, ListedOps
  <2>4. Parts(w, t) = {t} \cup UNION {Parts(w, w[t].args[i]) : i \in DOMAIN w[t].args}
    BY <1>1, <1>3, PartsAre
  <2>5. \A i \in 1 .. 1 : i = 1
    OBVIOUS
  <2> SUFFICES ASSUME NEW j \in Parts(w, t), w[j].op = "reference" PROVE FALSE
    BY DEF Uses
  <2>6. j # t
    BY <1>2
  <2>7. PICK i \in DOMAIN w[t].args : j \in Parts(w, w[t].args[i])
    BY <2>4, <2>6
  <2>8. j \in Parts(w, w[t].args[1])
    BY <2>3, <2>5, <2>7
  <2> QED
    BY <2>3, <2>8 DEF Uses
<1>6. Rank(w, t) = t
  BY <1>5 DEF Rank
<1>7. ReferredTerm(w) = t
  BY <1>1, <1>2, <1>3, <1>4 DEF ReferredTerm
<1>8. m[Node(t)].op = "name" /\ Node(t) \in DOMAIN m
  <2> HIDE DEF m
  <2>1. Carries(m, w, t) /\ DOMAIN m = 1 .. Node(N)
    BY <1>2, <1>3, MessageCarries DEF m
  <2>2. Node(t) \in 1 .. Node(N)
    BY <1>1, <1>3, NodeNumbers
  <2> QED
    BY <2>1, <2>2, <1>2 DEF Carries, OpOf
<1>9. ASSUME NEW j \in DOMAIN m, m[j].op = "name" PROVE j = Node(t)
  <2> HIDE DEF m
  <2>1. DOMAIN m = 1 .. Node(N)
    BY <1>1, MessageCarries DEF m
  <2>2. PICK k \in 1 .. N : j = Node(k) \/ j = Inner(k)
    <3>1. j \in 1 .. Node(N)
      BY <2>1, <1>9
    <3> HIDE DEF N
    <3> QED
      BY <3>1, <1>1, NodeNumbers
  <2>3. k \in Parts(w, N)
    <3>1. ASSUME k \notin Parts(w, N) PROVE FALSE
      <4>1. Empty(m, Node(k)) /\ Empty(m, Inner(k))
        BY <3>1, MessageCarries DEF m
      <4> QED
        BY <4>1, <2>2, <1>9 DEF Empty
    <3> QED
      BY <3>1
  <2>4. Carries(m, w, k)
    BY <2>3, MessageCarries DEF m
  <2>5. j # Inner(k)
    BY <2>4, <1>9 DEF Carries
  <2>6. OpOf(w[k].op) = "name"
    BY <2>2, <2>4, <2>5, <1>9 DEF Carries
  <2>7. w[k].op = "name"
    BY <2>6 DEF OpOf
  <2> QED
    BY <2>2, <2>5, <2>7, <1>4
<1>10. Referred(m) = Node(t)
  <2> HIDE DEF m
  <2> QED
    BY <1>8, <1>9 DEF Referred
<1> QED
  BY <1>2, <1>3, <1>6, <1>7, <1>10

(* A message that is built can be read.                                    *)
LEMMA MessageIsMade ==
  ASSUME NEW w, NEW n, WrittenMade(w, n), Referable(w)
  PROVE  MessageMade(Message(w), Ranks(w), Node(Len(w)), 4 * Len(w))
<1> DEFINE N == Len(w)
           m == Message(w)
           r == Ranks(w)
<1>1. /\ Ordered(w) /\ N \in 1 .. N /\ N \in Nat /\ DOMAIN w = 1 .. N
      /\ Node(N) \in Nat /\ 4 * N \in Nat
  BY WrittenOrdered DEF Ordered, Node
<1>2. DOMAIN m = 1 .. Node(N) /\ r \in [1 .. Node(N) -> 0 .. 4 * N]
  BY <1>1, MessageCarries, RanksAre
<1>3. ASSUME NEW j, Empty(m, j) PROVE NodeMade(m, r, j)
  <2>1. Num(0) \in Number
    BY OneAndZero DEF Zero
  <2> HIDE DEF m, r
  <2> QED
    BY <2>1, <1>3 DEF NodeMade, Empty
<1>4. ASSUME NEW k \in 1 .. N, k \in Parts(w, N)
      PROVE  NodeMade(m, r, Node(k)) /\ NodeMade(m, r, Inner(k))
  <2>1. Carries(m, w, k) /\ TermKinds(w, k)
    BY <1>4, MessageCarries, TermsAre
  <2>2. ASSUME NEW i \in DOMAIN w[k].args
        PROVE  /\ Node(w[k].args[i]) \in 1 .. Node(N) /\ Inner(k) \in 1 .. Node(N)
               /\ r[Node(w[k].args[i])] < r[Inner(k)] /\ r[Inner(k)] < r[Node(k)]
    <3> DEFINE a == w[k].args[i]
    <3>1. a \in 1 .. N
      BY <2>2, <1>1 DEF Ordered
    <3>2. Rank(w, a) < Rank(w, k) /\ Rank(w, a) \in 1 .. 2 * N /\ Rank(w, k) \in 1 .. 2 * N
      BY <3>1, <2>2, <1>1, RanksAre
    <3>3. r[Node(a)] = 2 * Rank(w, a) /\ r[Inner(k)] = 2 * Rank(w, k) - 1 /\ r[Node(k)] = 2 * Rank(w, k)
      BY <3>1, <1>1, RanksAre
    <3>4. Node(a) \in 1 .. Node(N) /\ Inner(k) \in 1 .. Node(N)
      BY <3>1, <1>1, NodeNumbers
    <3>5. \A x, y \in Int : x < y => 2 * x < 2 * y - 1 /\ 2 * y - 1 < 2 * y
      OBVIOUS
    <3>6. Rank(w, a) \in Int /\ Rank(w, k) \in Int
      BY <3>2, <1>1
    <3> HIDE DEF a, r
    <3>7. r[Node(a)] < r[Inner(k)] /\ r[Inner(k)] < r[Node(k)]
      BY <3>2, <3>3, <3>5, <3>6
    <3> QED
      BY <3>4, <3>7 DEF a
  <2>3. ASSUME NEW i \in DOMAIN w[k].args
        PROVE  r[Node(w[k].args[i])] < r[Node(k)]
    <3>1. /\ r[Node(w[k].args[i])] < r[Inner(k)] /\ r[Inner(k)] < r[Node(k)]
          /\ Node(w[k].args[i]) \in 1 .. Node(N) /\ Inner(k) \in 1 .. Node(N)
          /\ Node(k) \in 1 .. Node(N)
      BY <2>2, <1>1, NodeNumbers
    <3>2. /\ r[Node(w[k].args[i])] \in Int /\ r[Inner(k)] \in Int /\ r[Node(k)] \in Int
      BY <3>1, <1>1, <1>2
    <3>3. \A x, y, z \in Int : x < y /\ y < z => x < z
      OBVIOUS
    <3> HIDE DEF r
    <3> QED
      BY <3>1, <3>2, <3>3
  <2>4. ASSUME NEW i \in DOMAIN m[Node(k)].args
        PROVE  m[Node(k)].args[i] \in DOMAIN m /\ r[m[Node(k)].args[i]] < r[Node(k)]
    <3>1. i \in DOMAIN w[k].args /\ m[Node(k)].args[i] = ArgOf(w, k, i)
      BY <2>1, <2>4 DEF Carries
    <3>2. ArgOf(w, k, i) \in {Inner(k), Node(w[k].args[i])}
      BY DEF ArgOf
    <3> QED
      BY <3>1, <3>2, <2>2, <2>3, <1>2
  <2>5. w[k].op = "reference" => Referred(m) \in DOMAIN m /\ r[Referred(m)] < r[Node(k)]
    <3> SUFFICES ASSUME w[k].op = "reference"
                 PROVE  Referred(m) \in DOMAIN m /\ r[Referred(m)] < r[Node(k)]
      OBVIOUS
    <3>1. Uses(w, N, "reference")
      BY <1>4 DEF Uses
    <3>2. PICK t \in 1 .. N : Referred(m) = Node(t) /\ Rank(w, t) = t
      BY <3>1, NameFound
    <3>3. k \in Parts(w, k)
      BY <1>1, PartsAre
    <3>4. Rank(w, k) = k + N
      BY <3>3 DEF Uses, Rank
    <3>5. r[Node(t)] = 2 * t /\ r[Node(k)] = 2 * (k + N)
      BY <3>2, <3>4, <1>1, RanksAre
    <3>6. Node(t) \in 1 .. Node(N)
      BY <1>1, NodeNumbers
    <3>7. 2 * t < 2 * (k + N)
      BY <1>1
    <3> HIDE DEF m, r, N
    <3> QED
      BY <3>2, <3>5, <3>6, <3>7, <1>2
  <2>6. NodeMade(m, r, Node(k))
    <3> DEFINE op == m[Node(k)].op
               args == m[Node(k)].args
    <3>1. op = OpOf(w[k].op) /\ DOMAIN args = DOMAIN w[k].args
          /\ m[Node(k)].num = w[k].num /\ m[Node(k)].id = w[k].id
          /\ m[Node(k)].poly = buildPolynomial(w[k].poly)
      BY <2>1 DEF Carries
    <3>2. \/ op = "real" /\ m[Node(k)].num \in Number
          \/ op = "variable" /\ m[Node(k)].id \in Names
          \/ op = "polynomial" /\ \E s : Monomials(s) /\ m[Node(k)].poly = buildPolynomial(s)
          \/ op = "reference" /\ w[k].op = "reference"
          \/ op \in OneOperand /\ DOMAIN args = 1 .. 1
          \/ op \in TwoOperands /\ DOMAIN args = 1 .. 2 /\ (op = "case" => "x" \in Names)
          \/ op \in ListedOps /\ DOMAIN args = 1 .. 3
      <4>1. CASE DOMAIN w[k].args = {} /\ w[k].op = "real" /\ w[k].num \in Number
        BY <4>1, <3>1 DEF OpOf
      <4>2. CASE w[k].op = "variable" /\ w[k].id \in Names
        BY <4>2, <3>1 DEF OpOf
      <4>3. CASE w[k].op = "reference"
        BY <4>3, <3>1 DEF OpOf
      <4>4. CASE w[k].op = "polynomial"
        <5>1. Monomials(w[k].poly)
          BY <2>1 DEF TermKinds
        <5> QED
          BY <5>1, <4>4, <3>1 DEF OpOf
      <4>8. CASE w[k].op = "untagged" /\ w[k].num \in Number
        BY <4>8, <3>1 DEF OpOf
      <4>5. CASE w[k].op \in UnaryOps /\ DOMAIN w[k].args = 1 .. 1
        BY <4>5, <3>1 DEF OpOf, UnaryOps, OneOperand
      <4>6. CASE w[k].op \in BinaryOps /\ DOMAIN w[k].args = 1 .. 2 /\ (w[k].op = "case" => "x" \in Names)
        BY <4>6, <3>1 DEF OpOf, BinaryOps, TwoOperands
      <4>7. CASE w[k].op \in ListedOps /\ DOMAIN w[k].args = 1 .. 3
        BY <4>7, <3>1 DEF OpOf, ListedOps
      <4> QED
        BY <2>1, <4>1, <4>2, <4>3, <4>4, <4>5, <4>6, <4>7, <4>8 DEF TermKinds
    <3> HIDE DEF m, r
    <3> QED
      BY <3>2, <2>4, <2>5 DEF NodeMade
  <2>7. NodeMade(m, r, Inner(k))
    <3>1. Num(0) \in Number
      BY OneAndZero DEF Zero
    <3>2. CASE w[k].op \notin {"-", "/"}
      <4>1. /\ m[Inner(k)].op = "real" /\ m[Inner(k)].num = Num(0)
            /\ DOMAIN m[Inner(k)].args = {}
        BY <2>1, <3>2 DEF Carries
      <4> HIDE DEF m, r
      <4> QED
        BY <3>1, <4>1 DEF NodeMade
    <3>3. CASE w[k].op \in {"-", "/"}
      <4>1. /\ m[Inner(k)].op \in OneOperand /\ DOMAIN m[Inner(k)].args = 1 .. 1
            /\ m[Inner(k)].args[1] = Node(w[k].args[2])
        BY <2>1, <3>3 DEF Carries, OneOperand
      <4>2. 2 \in DOMAIN w[k].args
        BY <2>1, <3>3 DEF TermKinds, UnaryOps, BinaryOps, ListedOps
      <4>3. \A i \in 1 .. 1 : i = 1
        OBVIOUS
      <4>4. \A i \in DOMAIN m[Inner(k)].args :
              m[Inner(k)].args[i] \in DOMAIN m /\ r[m[Inner(k)].args[i]] < r[Inner(k)]
        BY <4>1, <4>2, <4>3, <2>2, <1>2
      <4> HIDE DEF m, r
      <4> QED
        BY <4>1, <4>4 DEF NodeMade
    <3> QED
      BY <3>2, <3>3
  <2> QED
    BY <2>6, <2>7
<1>5. ASSUME NEW j \in 1 .. Node(N) PROVE NodeMade(m, r, j)
  <2>1. PICK k \in 1 .. N : j = Node(k) \/ j = Inner(k)
    BY <1>1, <1>5, NodeNumbers
  <2>2. CASE k \in Parts(w, N)
    BY <2>1, <2>2, <1>4
  <2>3. CASE k \notin Parts(w, N)
    <3>1. Empty(m, Node(k)) /\ Empty(m, Inner(k))
      BY <2>3, MessageCarries
    <3> QED
      BY <3>1, <2>1, <1>3
  <2> QED
    BY <2>2, <2>3
<1> HIDE DEF m, r, N
<1> QED
  BY <1>1, <1>2, <1>5 DEF MessageMade, m, r, N

------------------------------------------------------------------------------
(* The inductive invariant of writing, sending and asking.                 *)

\* Nothing is sent yet,
Before ==
  /\ pc = "write" /\ message = <<>> /\ result = Num(0)
  /\ query.place \in Places

\* the message is sent,
Sent ==
  /\ pc = "sent" /\ Referable(written) /\ message = Message(written) /\ result = Num(0)
  /\ query.place \in Places

\* and a question is answered, or gone into too deeply.
Asked ==
  /\ pc = "answered" /\ Referable(written) /\ message = Message(written)
  /\ query.place \in Places /\ result \in {Answer(message, query), TooDeep}

\* The inductive invariant: the terms are leaves with operations put onto them;
\* what is sent is their message; the result is its value or derivative.
WritingInv ==
  /\ start \in Starts
  /\ WrittenMade(written, Leaves)
  /\ Before \/ Sent \/ Asked

(* Leaves are what an expression starts with.                              *)
LEMMA LeavesMade ==
  ASSUME NEW s \in Starts
  PROVE  WrittenMade(s.leaves, Len(s.leaves))
<1> DEFINE w == s.leaves
<1>1. IsSequence(w) /\ w # <<>> /\ \A k \in DOMAIN w : IsLeaf(w[k])
  BY LeavesAssumption
<1>2. Len(w) \in Nat /\ DOMAIN w = 1 .. Len(w) /\ w \in Seq({w[x] : x \in DOMAIN w})
  BY <1>1, Sequences DEF IsSequence
<1>3. Len(w) # 0
  <2> HIDE DEF w
  <2>1. w # <<>>
    BY <1>1 DEF w
  <2> QED
    BY <1>2, <2>1
<1> HIDE DEF w
<1>4. Len(w) \in 1 .. Len(w) /\ Len(w) + 1 .. Len(w) = {}
  BY <1>2, <1>3
<1> QED
  BY <1>1, <1>2, <1>4 DEF WrittenMade, w

(* Points of evaluation give every variable a number.                      *)
LEMMA PlacesGiven ==
  ASSUME NEW v \in Places
  PROVE  IsPlace(v)
BY PlacesAssumption DEF IsPlace

(* Every answer is a number, or not finite.                                *)
LEMMA AnswersAreValues ==
  ASSUME NEW w, NEW n, WrittenMade(w, n), Referable(w), NEW q, q.place \in Places
  PROVE  /\ Answer(Message(w), q) \in Value
         /\ Len(Message(w)) = Node(Len(w)) /\ Node(Len(w)) \in 1 .. Node(Len(w))
<1> DEFINE m == Message(w)
           r == Ranks(w)
           N == Node(Len(w))
           M == 4 * Len(w)
           v == q.place
<1>1. Len(w) \in Nat /\ Len(w) \in 1 .. Len(w)
  BY WrittenOrdered DEF Ordered
<1>2. N \in 1 .. N /\ N \in Nat
  BY <1>1 DEF Node
<1>3. MessageMade(m, r, N, M)
  BY MessageIsMade
<1>4. DOMAIN m = 1 .. N
  BY <1>3 DEF MessageMade
<1>5. Len(m) = N
  <2>1. \E f : m = [j \in 1 .. N |-> f[j]]
    <3>1. m = [j \in 1 .. N |-> m[j]]
      BY <1>1 DEF Message
    <3> QED
      BY <3>1
  <2> HIDE DEF m, N
  <2>2. PICK f : m = [j \in 1 .. N |-> f[j]]
    BY <2>1
  <2> QED
    BY <1>2, <2>2
<1>6. IsPlace(v)
  BY PlacesGiven
<1> HIDE DEF m, r, N, M, v
<1>7. Eval(m, v) \in [1 .. N -> Value] /\ Derive(m, v, q.d) \in [1 .. N -> Value]
  BY <1>3, <1>6, EvalRuns, DeriveRuns
<1>8. Answer(m, q) \in Value
  BY <1>2, <1>5, <1>7 DEF Answer, v
<1> QED
  BY <1>2, <1>5, <1>8 DEF m, N

(* The inductive invariant holds at the beginning, with the leaves,        *)
LEMMA WritingInit == Init => WritingInv
<1> SUFFICES ASSUME Init PROVE WritingInv
  OBVIOUS
<1>1. start \in Starts /\ written = start.leaves /\ Leaves = Len(start.leaves)
  BY DEF Init, Leaves
<1>2. WrittenMade(written, Leaves)
  BY <1>1, LeavesMade
<1>3. (CHOOSE v \in Places : TRUE) \in Places
  BY PlacesAssumption
<1> QED
  BY <1>1, <1>2, <1>3 DEF Init, WritingInv, Before

(* is kept by an operator (Write), by build (Send) and by a call of the    *)
(* interpreter (Ask),                                                      *)
LEMMA WritingStep == WritingInv /\ [Next]_vars => WritingInv'
<1> SUFFICES ASSUME WritingInv, [Next]_vars PROVE WritingInv'
  OBVIOUS
<1>1. CASE Write
  <2>1. PICK q \in 1 .. 3, op \in Unary \cup Binary \cup Listed :
          /\ op \in Unary => q = 1
          /\ op \in Binary => q = 2
          /\ op \in Listed => q = 3
          /\ \E args \in [1 .. q -> DOMAIN written] :
               /\ Len(written) = Leaves \/ \E i \in 1 .. q : args[i] = Len(written)
               /\ written' = Append(written, Term(op, args))
               /\ Writable(written')
    BY <1>1 DEF Write
  <2>2. PICK args \in [1 .. q -> DOMAIN written] :
               /\ Len(written) = Leaves \/ \E i \in 1 .. q : args[i] = Len(written)
               /\ written' = Append(written, Term(op, args))
               /\ Writable(written')
    BY <2>1
  <2>3. /\ \/ op \in UnaryOps /\ q = 1
           \/ op \in BinaryOps /\ q = 2
           \/ op \in ListedOps /\ q = 3
        /\ op = "case" => "x" \in Names
    <3>1. op = "case" => op \in Binary
      BY <2>1, OperatorsAssumption DEF UnaryOps, ListedOps
    <3> QED
      BY <3>1, <2>1, OperatorsAssumption
  <2>4. start \in Starts /\ WrittenMade(written, Leaves) /\ Before
    BY <1>1 DEF WritingInv, Sent, Asked, Write
  <2>5. WrittenMade(written', Leaves)
    BY <2>2, <2>3, <2>4, WrittenGrows
  <2>6. start' = start /\ pc' = pc /\ message' = message /\ query' = query /\ result' = result
    BY <1>1 DEF Write
  <2>7. Leaves' = Leaves /\ Before'
    BY <2>4, <2>6 DEF Leaves, Before
  <2> QED
    BY <2>4, <2>5, <2>6, <2>7 DEF WritingInv
<1>2. CASE Send
  <2>1. /\ Before /\ start \in Starts /\ WrittenMade(written, Leaves) /\ Referable(written)
        /\ pc' = "sent" /\ message' = Message(written) /\ start' = start
        /\ written' = written /\ query' = query /\ result' = result
    BY <1>2 DEF WritingInv, Sent, Asked, Send, Referable
  <2>2. Leaves' = Leaves /\ Sent'
    BY <2>1 DEF Leaves, Before, Sent
  <2> QED
    BY <2>1, <2>2 DEF WritingInv
<1>3. CASE Ask
  <2>1. /\ Sent /\ start \in Starts /\ WrittenMade(written, Leaves)
        /\ pc' = "answered" /\ message' = message /\ start' = start /\ written' = written
    BY <1>3 DEF WritingInv, Before, Asked, Ask
  <2>2. PICK v \in Places : \E x \in {""} \cup DOMAIN v : query' = [d |-> x, place |-> v]
    BY <1>3 DEF Ask
  <2>3. PICK x \in {""} \cup DOMAIN v : query' = [d |-> x, place |-> v]
    BY <2>2
  <2>4. query'.place \in Places
    BY <2>2, <2>3
  <2>6. result' \in {Answer(message, query'), TooDeep}
    BY <1>3 DEF Ask
  <2>5. Leaves' = Leaves /\ Asked'
    BY <2>1, <2>4, <2>6 DEF Leaves, Sent, Asked
  <2> QED
    BY <2>1, <2>5 DEF WritingInv
<1>4. CASE UNCHANGED vars
  BY <1>4 DEF vars, WritingInv, Before, Sent, Asked, Leaves
<1> QED
  BY <1>1, <1>2, <1>3, <1>4 DEF Next

(* and says what the type invariant does.                                  *)
LEMMA WritingInvTypes == WritingInv => TypeOK
<1> SUFFICES ASSUME WritingInv PROVE TypeOK
  OBVIOUS
<1> DEFINE w == written
           N == Len(w)
           m == Message(w)
<1>1. WrittenMade(w, Leaves) /\ Ordered(w)
  BY WrittenOrdered DEF WritingInv
<1>2. N \in Nat /\ DOMAIN w = 1 .. N /\ N \in 1 .. N
  BY <1>1, WrittenOrdered DEF Ordered
<1>3. \A k \in DOMAIN w : \A i \in DOMAIN w[k].args : w[k].args[i] < k
  BY <1>1, <1>2 DEF Ordered
<1>4. ASSUME NEW j \in 1 .. Node(N)
      PROVE  /\ AllFit(w) => WellBuilt(m[j].poly)
             /\ \A i \in DOMAIN m[j].args : m[j].args[i] < j
  <2>1. PICK k \in 1 .. N : j = Node(k) \/ j = Inner(k)
    BY <1>2, <1>4, NodeNumbers
  <2>2. WellBuilt(buildPolynomial(<<>>))
    BY NoMonomials, EmptyFits, PolynomialWellBuilt
  <2>3. CASE k \notin Parts(w, N)
    <3>1. Empty(m, Node(k)) /\ Empty(m, Inner(k))
      BY <2>3, <1>1, MessageCarries
    <3> HIDE DEF m
    <3> QED
      BY <2>1, <2>2, <3>1 DEF Empty
  <2>4. CASE k \in Parts(w, N)
    <3>1. Carries(m, w, k) /\ TermKinds(w, k)
      BY <2>4, <1>1, MessageCarries, TermsAre
    <3>2. AllFit(w) => WellBuilt(buildPolynomial(w[k].poly))
      <4> SUFFICES ASSUME AllFit(w) PROVE WellBuilt(buildPolynomial(w[k].poly))
        OBVIOUS
      <4>1. Fits(w[k].poly)
        BY <2>4 DEF AllFit
      <4> QED
        BY <3>1, <4>1, PolynomialWellBuilt DEF TermKinds
    <3>3. ASSUME NEW i \in DOMAIN w[k].args
          PROVE  Node(w[k].args[i]) < Inner(k) /\ Inner(k) < Node(k)
                 /\ Node(w[k].args[i]) < Node(k)
      <4>1. w[k].args[i] \in 1 .. k - 1
        BY <3>1, <3>3 DEF TermKinds
      <4>2. \A a, b \in Int : a \in 1 .. b - 1 =>
              2 * a < 2 * b - 1 /\ 2 * b - 1 < 2 * b /\ 2 * a < 2 * b
        OBVIOUS
      <4>3. k \in Int /\ w[k].args[i] \in Int
        BY <4>1
      <4> QED
        BY <4>1, <4>2, <4>3 DEF Node, Inner
    <3>4. CASE j = Node(k)
      <4> SUFFICES ASSUME NEW i \in DOMAIN m[Node(k)].args
                   PROVE  m[Node(k)].args[i] < Node(k)
        BY <3>1, <3>2, <3>4 DEF Carries
      <4>1. i \in DOMAIN w[k].args /\ m[Node(k)].args[i] = ArgOf(w, k, i)
        BY <3>1 DEF Carries
      <4> QED
        BY <4>1, <3>3 DEF ArgOf
    <3>5. CASE j = Inner(k)
      <4>1. CASE w[k].op \in {"-", "/"}
        <5>1. DOMAIN m[Inner(k)].args = 1 .. 1 /\ m[Inner(k)].args[1] = Node(w[k].args[2])
          BY <3>1, <4>1 DEF Carries
        <5>2. 2 \in DOMAIN w[k].args
          BY <3>1, <4>1 DEF TermKinds, UnaryOps, BinaryOps, ListedOps
        <5>3. \A i \in 1 .. 1 : i = 1
          OBVIOUS
        <5> HIDE DEF m
        <5> QED
          BY <5>1, <5>2, <5>3, <3>1, <3>3, <3>5, <2>2 DEF Carries
      <4>2. CASE w[k].op \notin {"-", "/"}
        <5> HIDE DEF m
        <5> QED
          BY <4>2, <3>1, <3>5, <2>2 DEF Carries
      <4> QED
        BY <4>1, <4>2
    <3> QED
      BY <2>1, <3>4, <3>5
  <2> QED
    BY <2>3, <2>4
<1>5. DOMAIN m = 1 .. Node(N)
  BY <1>1, <1>2, MessageCarries
<1>6. Num(0) \in Value
  BY OneAndZero DEF Value, Zero
<1>7. CASE Before
  <2>1. DOMAIN <<>> = {}
    OBVIOUS
  <2> QED
    BY <2>1, <1>3, <1>6, <1>7 DEF Before, TypeOK, IsNumber, Value
<1>8. CASE Sent
  BY <1>3, <1>4, <1>5, <1>6, <1>8 DEF Sent, TypeOK, IsNumber, Value
<1>9. CASE Asked
  <2>1. Answer(m, query) \in Value
    BY <1>1, <1>9, AnswersAreValues DEF Asked
  <2> QED
    BY <2>1, <1>3, <1>4, <1>5, <1>9 DEF Asked, TypeOK, IsNumber, Value
<1> QED
  BY <1>7, <1>8, <1>9 DEF WritingInv

(* Whatever is written, sent and asked: the terms are operators of         *)
(* namespace cv on earlier terms, what is sent is their message            *)
(* (buildRealExpr), and the result is what the interpreter finds in that   *)
(* message (eval and evalPartialDerivative), or its exception.             *)
THEOREM WritingAlways == Spec => []WritingInv
BY WritingInit, WritingStep, PTL DEF Spec

(* The type invariant: no expression is made of itself or of what comes    *)
(* later, the offsets that buildPolynomial writes have one digit for each  *)
(* variable unless an int overflows, and the interpreter's results are     *)
(* numbers or the exception of the nesting limit.                          *)
THEOREM TypeCorrect == Spec => []TypeOK
BY WritingAlways, WritingInvTypes, PTL

------------------------------------------------------------------------------
(* What an expression means: the reference is defined for every part.      *)

\* The parts before part k have the same meanings.
SameEarlier(w, k, f, g) ==
  \A j \in Parts(w, Len(w)) : Rank(w, j) < Rank(w, k) => f[j] = g[j]

(* Parts of the expression, the operands of one, and the named term.       *)
LEMMA PartsOf ==
  ASSUME NEW w, NEW n, WrittenMade(w, n), Referable(w), NEW k \in Parts(w, Len(w))
  PROVE  /\ k \in 1 .. Len(w) /\ Rank(w, k) \in 0 .. 2 * Len(w)
         /\ \A i \in DOMAIN w[k].args :
              /\ w[k].args[i] \in Parts(w, Len(w)) /\ w[k].args[i] \in 1 .. Len(w)
              /\ Rank(w, w[k].args[i]) < Rank(w, k)
         /\ w[k].op = "reference" =>
              /\ ReferredTerm(w) \in Parts(w, Len(w))
              /\ Rank(w, ReferredTerm(w)) < Rank(w, k)
              /\ Referred(Message(w)) = Node(ReferredTerm(w))
<1> DEFINE N == Len(w)
           P == Parts(w, N)
<1>1. Ordered(w) /\ N \in 1 .. N /\ N \in Nat
  BY WrittenOrdered DEF Ordered
<1>2. P \subseteq 1 .. N
  BY <1>1, PartsAre
<1>3. k \in 1 .. N
  BY <1>2
<1>4. Rank(w, k) \in 0 .. 2 * N /\ Rank(w, k) >= k
  <2>1. Rank(w, k) \in 1 .. 2 * N /\ Rank(w, k) >= k
    BY <1>1, <1>3, RanksAre
  <2> QED
    BY <2>1
<1>5. \A i \in DOMAIN w[k].args : Rank(w, w[k].args[i]) < Rank(w, k)
  BY <1>1, <1>3, RanksAre
<1>6. \A i \in DOMAIN w[k].args : w[k].args[i] \in P
  BY <1>1, PartsDown
<1>7. ASSUME w[k].op = "reference"
      PROVE  /\ ReferredTerm(w) \in P /\ Rank(w, ReferredTerm(w)) < Rank(w, k)
             /\ Referred(Message(w)) = Node(ReferredTerm(w))
  <2>1. Uses(w, N, "reference")
    BY <1>7 DEF Uses
  <2>2. PICK t \in P : /\ t \in 1 .. N /\ Rank(w, t) = t
                       /\ ReferredTerm(w) = t
                       /\ Referred(Message(w)) = Node(t)
    BY <2>1, NameFound
  <2>3. k \in Parts(w, k)
    BY <1>1, <1>3, PartsAre
  <2>4. Rank(w, k) = k + N
    BY <2>3, <1>7 DEF Uses, Rank
  <2>5. t < k + N
    BY <2>2, <1>1, <1>3
  <2> QED
    BY <2>2, <2>4, <2>5
<1> QED
  BY <1>2, <1>3, <1>4, <1>5, <1>6, <1>7

(* The meaning of a term depends on those of the terms before it.          *)
LEMMA TermMeaningLocal ==
  ASSUME NEW w, NEW n, WrittenMade(w, n), Referable(w), NEW k \in Parts(w, Len(w)),
         NEW f, NEW g, SameEarlier(w, k, f, g), NEW v, NEW x
  PROVE  TermMeaning(w, v, x, f, k) = TermMeaning(w, v, x, g, k)
<1> DEFINE op == w[k].op
           args == w[k].args
<1>1. \A i \in DOMAIN args : f[args[i]] = g[args[i]]
  BY PartsOf DEF SameEarlier
<1>2. TermKinds(w, k)
  BY PartsOf, TermsAre
<1>3. CASE op \in {"real", "variable", "polynomial", "untagged"}
  BY <1>3 DEF TermMeaning, UnaryOps, BinaryOps, ListedOps
<1>4. CASE op = "reference"
  <2> DEFINE t == ReferredTerm(w)
  <2>1. t \in Parts(w, Len(w)) /\ Rank(w, t) < Rank(w, k)
    BY <1>4, PartsOf
  <2>2. f[t] = g[t]
    <3> HIDE DEF t
    <3> QED
      BY <2>1 DEF SameEarlier
  <2>3. TermMeaning(w, v, x, f, k) = f[t] /\ TermMeaning(w, v, x, g, k) = g[t]
    BY <1>4 DEF TermMeaning, UnaryOps, BinaryOps, ListedOps
  <2> QED
    BY <2>2, <2>3
<1>5. CASE op \in UnaryOps /\ DOMAIN args = 1 .. 1
  <2>1. f[args[1]] = g[args[1]]
    BY <1>1, <1>5
  <2>2. ASSUME NEW h
        PROVE  TermMeaning(w, v, x, h, k) = UnaryMeanings(op, h[args[1]])
    BY <1>5 DEF TermMeaning, UnaryOps, BinaryOps, ListedOps
  <2> QED
    BY <2>1, <2>2
<1>6. CASE op \in BinaryOps /\ DOMAIN args = 1 .. 2
  <2>1. f[args[1]] = g[args[1]] /\ f[args[2]] = g[args[2]]
    BY <1>1, <1>6
  <2>2. ASSUME NEW h
        PROVE  TermMeaning(w, v, x, h, k)
                 = BinaryMeanings(op, h[args[1]], h[args[2]], v)
    BY <1>6 DEF TermMeaning, UnaryOps, BinaryOps, ListedOps
  <2> QED
    BY <2>1, <2>2
<1>7. CASE op \in ListedOps /\ DOMAIN args = 1 .. 3
  <2>1. f[args[1]] = g[args[1]] /\ f[args[2]] = g[args[2]] /\ f[args[3]] = g[args[3]]
    BY <1>1, <1>7
  <2>2. ASSUME NEW h
        PROVE  TermMeaning(w, v, x, h, k)
                 = ListedMeanings(op, h[args[1]], h[args[2]], h[args[3]])
    BY <1>7 DEF TermMeaning, UnaryOps, BinaryOps, ListedOps
  <2> QED
    BY <2>1, <2>2
<1> QED
  BY <1>2, <1>3, <1>4, <1>5, <1>6, <1>7 DEF TermKinds

(* Every part of an expression that refers to nothing unnamed has a        *)
(* meaning: one round for each rank gives those of that rank.              *)
LEMMA MeaningRuns ==
  ASSUME NEW w, NEW n, WrittenMade(w, n), Referable(w), NEW v, NEW x
  PROVE  \A k \in Parts(w, Len(w)) :
           Meaning(w, v, x)[k] = TermMeaning(w, v, x, Meaning(w, v, x), k)
<1> DEFINE N == Len(w)
           P == Parts(w, N)
           M == 2 * N + 1
           I(h) == {k \in P : Rank(w, k) < h}
           step(f, k) == TermMeaning(w, v, x, f, k)
           S == {h \in 0 .. M : \E f : f = [k \in I(h) |-> step(f, k)]}
<1>1. N \in Nat /\ M \in Nat /\ \A k \in P : Rank(w, k) \in 0 .. 2 * N
  <2>1. N \in Nat
    BY WrittenOrdered DEF Ordered
  <2>2. \A k \in P : Rank(w, k) \in 0 .. 2 * N
    BY PartsOf
  <2> QED
    BY <2>1, <2>2
<1>2. 0 \in S
  <2>1. I(0) = {}
    BY <1>1
  <2> DEFINE f == [k \in {} |-> k]
  <2>2. f = [k \in I(0) |-> step(f, k)]
    <3> HIDE DEF step, I
    <3> QED
      BY <2>1
  <2>3. 0 \in 0 .. M
    BY <1>1
  <2>4. \E g : g = [k \in I(0) |-> step(g, k)]
    <3> HIDE DEF f
    <3> QED
      BY <2>2
  <2> QED
    BY <2>3, <2>4
<1>3. ASSUME NEW h \in 1 .. M, h - 1 \in S PROVE h \in S
  <2>1. PICK f : f = [k \in I(h - 1) |-> step(f, k)]
    BY <1>3
  <2> DEFINE g == [k \in I(h) |-> step(f, k)]
  <2>2. ASSUME NEW k \in I(h) PROVE step(f, k) = step(g, k)
    <3>1. k \in P /\ Rank(w, k) < h /\ Rank(w, k) \in Int /\ h \in Int
      BY <1>1, <2>2
    <3>2. ASSUME NEW j \in P, Rank(w, j) < Rank(w, k) PROVE f[j] = g[j]
      <4>1. Rank(w, j) \in Int
        BY <1>1
      <4>2. \A a, b, c \in Int : a < b /\ b < c => a < c - 1 /\ a < c
        OBVIOUS
      <4>3. Rank(w, j) < h - 1 /\ Rank(w, j) < h
        BY <3>1, <3>2, <4>1, <4>2
      <4>4. j \in I(h - 1) /\ j \in I(h)
        BY <4>3
      <4> HIDE DEF step, I
      <4>5. f[j] = step(f, j) /\ g[j] = step(f, j)
        BY <4>4, <2>1
      <4> QED
        BY <4>5
    <3>3. SameEarlier(w, k, f, g)
      <4> HIDE DEF g
      <4> QED
        BY <3>2 DEF SameEarlier
    <3> HIDE DEF g
    <3> QED
      BY <3>1, <3>3, TermMeaningLocal
  <2>3. g = [k \in I(h) |-> step(g, k)]
    <3> DEFINE u == [k \in I(h) |-> step(g, k)]
    <3>1. u = [k \in I(h) |-> step(f, k)]
      <4> HIDE DEF step, I, g
      <4> QED
        BY <2>2
    <3> QED
      BY <3>1
  <2>4. \E y : y = [k \in I(h) |-> step(y, k)]
    <3> HIDE DEF g
    <3> QED
      BY <2>3
  <2>5. h \in 0 .. M
    BY <1>1
  <2> HIDE DEF I, step, M
  <2> QED
    BY <2>4, <2>5
<1>4. M \in S
  <2> HIDE DEF S
  <2>1. \A h \in 0 .. M : h \in S
    <3> HIDE DEF M
    <3> QED
      BY <1>1, <1>2, <1>3, UpTo
  <2> QED
    BY <2>1, <1>1
<1>5. I(M) = P
  <2>1. \A k \in P : Rank(w, k) < M
    <3> SUFFICES ASSUME NEW k \in P PROVE Rank(w, k) < M
      OBVIOUS
    <3>1. Rank(w, k) \in 0 .. 2 * N
      BY <1>1
    <3> HIDE DEF N, P
    <3> QED
      BY <3>1, <1>1
  <2> HIDE DEF M, P
  <2> QED
    BY <2>1
<1>6. \E f : f = [k \in P |-> step(f, k)]
  <2> HIDE DEF step
  <2> QED
    BY <1>4, <1>5
<1> DEFINE e == CHOOSE g : g = [k \in P |-> step(g, k)]
<1>7. e = [k \in P |-> step(e, k)]
  <2> HIDE DEF step, P
  <2> QED
    BY <1>6
<1>8. Meaning(w, v, x) = e
  BY DEF Meaning
<1>9. ASSUME NEW k \in P PROVE e[k] = step(e, k)
  <2> HIDE DEF e, step, P
  <2> QED
    BY <1>7, <1>9
<1> HIDE DEF e
<1> QED
  BY <1>8, <1>9

------------------------------------------------------------------------------
(* Rounding: division finds the whole numbers that floor, ceil and round   *)
(* are to find.                                                            *)

(* Division finds the whole number that is to be found.                    *)
LEMMA FloorDivides ==
  ASSUME NEW a \in Number, NEW n \in Int
  PROVE  IsFloor(n, a) <=> n = a[1] \div a[2]
<1> DEFINE p == a[1]
           q == a[2]
<1>1. p \in Int /\ q \in Nat \ {0}
  BY NumberType DEF Positives
<1> HIDE DEF p, q
<1>2. IsFloor(n, a) <=> n * q <= p /\ ~((n + 1) * q <= p)
  <2>1. Leq(Num(n), a) <=> n * q <= p
    <3>1. Leq(Num(n), a) <=> n * q <= p * 1
      BY DEF Leq, Num, p, q
    <3> QED
      BY <3>1, <1>1
  <2>2. Leq(Num(n + 1), a) <=> (n + 1) * q <= p
    <3>1. Leq(Num(n + 1), a) <=> (n + 1) * q <= p * 1
      BY DEF Leq, Num, p, q
    <3> QED
      BY <3>1, <1>1
  <2> QED
    BY <2>1, <2>2 DEF IsFloor, Less
<1>3. ASSUME n = p \div q PROVE n * q <= p /\ ~((n + 1) * q <= p)
  <2> DEFINE s == p % q
  <2>1. s \in 0 .. q - 1 /\ p = q * n + s
    BY <1>1, <1>3, EuclidDivision
  <2>2. q * n = n * q /\ (n + 1) * q = n * q + q /\ n * q \in Int
    BY <1>1
  <2> HIDE DEF s
  <2>3. \A u, x, y, z \in Int : z \in 0 .. y - 1 /\ x = u + z => u <= x /\ ~(u + y <= x)
    OBVIOUS
  <2>4. s \in Int /\ q \in Int
    BY <2>1, <1>1
  <2> QED
    BY <2>1, <2>2, <2>3, <2>4, <1>1
<1>4. ASSUME n * q <= p, ~((n + 1) * q <= p) PROVE n = p \div q
  <2> DEFINE s == p - q * n
  <2>2. q * n = n * q /\ (n + 1) * q = n * q + q /\ n * q \in Int
    BY <1>1
  <2>3. \A u, x, y \in Int : u <= x /\ ~(u + y <= x) => x - u \in 0 .. y - 1 /\ u + (x - u) = x
    OBVIOUS
  <2>4. n * q \in Int /\ p \in Int /\ q \in Int
    BY <1>1
  <2>5. p - n * q \in 0 .. q - 1 /\ n * q + (p - n * q) = p
    BY <1>4, <2>2, <2>3, <2>4
  <2>1. s \in 0 .. q - 1 /\ q * n + s = p
    BY <2>2, <2>5
  <2> HIDE DEF s
  <2>6. (q * n + s) \div q = n
    BY <1>1, <2>1, DivisionUnique
  <2> QED
    BY <2>1, <2>6
<1> QED
  BY <1>2, <1>3, <1>4 DEF p, q

(* Up is down on the other side of zero.                                   *)
LEMMA FloorsAndCeilings ==
  ASSUME NEW a \in Number, NEW n \in Int
  PROVE  IsCeil(n, a) <=> IsFloor(-n, Negated(a))
<1>1. /\ a[1] \in Int /\ a[2] \in Int /\ Num(n) \in Number /\ Num(n - 1) \in Number
  BY NumberType, NumFrac DEF Positives
<1>2. Negated(Num(n)) = Num(-n) /\ Negated(Num(n - 1)) = Num(-n + 1)
  <2>1. -(n - 1) = -n + 1
    OBVIOUS
  <2> QED
    BY <2>1 DEF Negated, Num
<1>3. Leq(a, Num(n)) <=> Leq(Negated(Num(n)), Negated(a))
  BY <1>1, OrderLaws
<1>4. Leq(a, Num(n - 1)) <=> Leq(Negated(Num(n - 1)), Negated(a))
  BY <1>1, OrderLaws
<1> QED
  BY <1>2, <1>3, <1>4 DEF IsCeil, IsFloor, Less

(* A half.                                                                 *)
LEMMA HalfLaws ==
  /\ Frac(-1, 2) = Negated(Frac(1, 2)) /\ Frac(1, 2) \in Number
  /\ Plus(Frac(1, 2), Frac(1, 2)) = Num(1)
  /\ Leq(Num(0), Frac(1, 2)) /\ ~Leq(Num(1), Frac(1, 2))
<1>1. 2 \in Positives /\ 1 \in Int /\ 0 \in Int /\ 2 \in Int
  BY DEF Positives
<1>2. Frac(-1, 2) = Negated(Frac(1, 2))
  BY <1>1, NegatedFrac
<1>3. Plus(Frac(1, 2), Frac(1, 2)) = Frac(2, 2)
  <2>1. Plus(Frac(1, 2), Frac(1, 2)) = Frac(1 + 1, 2)
    BY <1>1, SameDenominator
  <2>2. 1 + 1 = 2
    OBVIOUS
  <2> QED
    BY <2>1, <2>2
<1>4. Num(1) = Frac(2, 2) /\ Num(0) = Frac(0, 2)
  <2>1. Num(1) = Frac(1 * 2, 2) /\ Num(0) = Frac(0 * 2, 2)
    BY <1>1, NumFrac
  <2>2. 1 * 2 = 2 /\ 0 * 2 = 0
    OBVIOUS
  <2> QED
    BY <2>1, <2>2
<1>5. Leq(Frac(0, 2), Frac(1, 2)) /\ ~Leq(Frac(2, 2), Frac(1, 2))
  BY <1>1, SameDenominator
<1> QED
  BY <1>2, <1>3, <1>4, <1>5, Half

(* A number is rounded by half a step, to the side it is on.               *)
LEMMA RoundedByHalf ==
  ASSUME NEW a \in Number, NEW n \in Int
  PROVE  /\ Positive(a) => (IsRound(n, a) <=> IsFloor(n, Plus(a, Frac(1, 2))))
         /\ ~Positive(a) =>
              (IsRound(n, a) <=> IsFloor(-n, Plus(Negated(a), Frac(1, 2))))
<1> DEFINE h == Frac(1, 2)
<1>1. /\ h \in Number /\ Num(n) \in Number /\ Num(n + 1) \in Number /\ Num(-n) \in Number
      /\ Negated(a) \in Number /\ Negated(Num(n)) \in Number /\ Num(1) \in Number
  BY HalfLaws, NumFrac, NumbersClosed
<1>2. Negated(Num(n)) = Num(-n) /\ Negated(Num(-n)) = Num(n)
  <2>1. -(-n) = n
    OBVIOUS
  <2> QED
    BY <2>1 DEF Negated, Num
<1>3. ASSUME NEW c \in Number, NEW m \in Int, NEW off, off = Minus(c, Num(m))
      PROVE  (Leq(Frac(-1, 2), off) /\ Less(off, h)) <=> IsFloor(m, Plus(c, h))
  <2> DEFINE u == Plus(Num(m), h)
             z == Negated(Num(m))
  <2>1. Num(m) \in Number /\ Num(m + 1) \in Number /\ z \in Number /\ u \in Number
        /\ off \in Number /\ Plus(c, h) \in Number /\ Negated(h) \in Number
    <3>1. Num(m) \in Number /\ Num(m + 1) \in Number
      BY NumSuccessor
    <3>2. z \in Number /\ u \in Number
      BY <3>1, <1>1, NumbersClosed
    <3>3. off \in Number /\ Plus(c, h) \in Number /\ Negated(h) \in Number
      BY <3>1, <1>1, <1>3, NumbersClosed
    <3> QED
      BY <3>1, <3>2, <3>3
  <2>2. Plus(Frac(-1, 2), u) = Num(m)
    <3>1. Plus(Negated(h), Plus(Num(m), h)) = Plus(Plus(Num(m), h), Negated(h))
      BY <2>1, PlusLaws
    <3>2. Plus(Plus(Num(m), h), Negated(h)) = Plus(Num(m), Plus(h, Negated(h)))
      BY <2>1, <1>1, PlusLaws
    <3>3. Plus(h, Negated(h)) = Num(0) /\ Plus(Num(m), Num(0)) = Num(m)
      BY <2>1, <1>1, PlusLaws
    <3> QED
      BY <3>1, <3>2, <3>3, HalfLaws
  <2>3. Plus(off, u) = Plus(c, h)
    <3>1. Plus(Plus(c, z), Plus(Num(m), h)) = Plus(c, Plus(z, Plus(Num(m), h)))
      BY <2>1, PlusLaws
    <3>2. Plus(z, Plus(Num(m), h)) = Plus(Plus(z, Num(m)), h)
      BY <2>1, <1>1, PlusLaws
    <3>3. Plus(z, Num(m)) = Num(0) /\ Plus(Num(0), h) = h
      BY <2>1, <1>1, PlusLaws, WithZero DEF Zero
    <3> QED
      BY <3>1, <3>2, <3>3, <1>3 DEF Minus
  <2>4. Plus(h, u) = Num(m + 1)
    <3>1. Plus(h, Plus(Num(m), h)) = Plus(Plus(Num(m), h), h)
      BY <2>1, <1>1, PlusLaws
    <3>2. Plus(Plus(Num(m), h), h) = Plus(Num(m), Plus(h, h))
      BY <2>1, <1>1, PlusLaws
    <3>3. Plus(h, h) = Num(1) /\ Num(m + 1) = Plus(Num(m), Num(1))
      BY HalfLaws, NumSuccessor
    <3> QED
      BY <3>1, <3>2, <3>3
  <2>5. Leq(Frac(-1, 2), off) <=> Leq(Num(m), Plus(c, h))
    <3>1. Frac(-1, 2) \in Number
      BY <2>1, HalfLaws
    <3>2. Leq(Frac(-1, 2), off) <=> Leq(Plus(Frac(-1, 2), u), Plus(off, u))
      <4> HIDE DEF u
      <4> QED
        BY <3>1, <2>1, OrderLaws
    <3> QED
      BY <3>2, <2>2, <2>3
  <2>6. Leq(h, off) <=> Leq(Num(m + 1), Plus(c, h))
    <3>2. Leq(h, off) <=> Leq(Plus(h, u), Plus(off, u))
      <4> HIDE DEF u, h
      <4> QED
        BY <1>1, <2>1, OrderLaws
    <3> QED
      BY <3>2, <2>3, <2>4
  <2> QED
    BY <2>5, <2>6 DEF IsFloor, Less
<1>4. CASE Positive(a)
  <2>1. Minus(a, Num(n)) \in Number
    BY <1>1, NumbersClosed
  <2>2. Times(Num(1), Minus(a, Num(n))) = Minus(a, Num(n))
    BY <2>1, TimesLaws
  <2> DEFINE off == Minus(a, Num(n))
  <2>3. IsRound(n, a) <=> Leq(Frac(-1, 2), off) /\ Less(off, h)
    BY <1>4, <2>2 DEF IsRound
  <2> HIDE DEF off
  <2>4. (Leq(Frac(-1, 2), off) /\ Less(off, h)) <=> IsFloor(n, Plus(a, h))
    BY <1>3 DEF off
  <2> QED
    BY <2>3, <2>4, <1>4
<1>5. CASE ~Positive(a)
  <2>1. Minus(a, Num(n)) \in Number
    BY <1>1, NumbersClosed
  <2>2. Times(Num(-1), Minus(a, Num(n))) = Minus(Negated(a), Num(-n))
    <3>1. Num(-1) = Negated(One)
      BY DEF Num, Negated, One
    <3>2. Times(Negated(One), Minus(a, Num(n))) = Negated(Minus(a, Num(n)))
      BY <2>1, WithZero
    <3>3. Negated(Plus(a, Negated(Num(n)))) = Plus(Negated(a), Negated(Negated(Num(n))))
      BY <1>1, TimesLaws
    <3> QED
      BY <3>1, <3>2, <3>3, <1>2 DEF Minus
  <2> DEFINE off == Minus(Negated(a), Num(-n))
  <2>3. IsRound(n, a) <=> Leq(Frac(-1, 2), off) /\ Less(off, h)
    BY <1>5, <2>2 DEF IsRound
  <2> HIDE DEF off
  <2>4. (Leq(Frac(-1, 2), off) /\ Less(off, h)) <=> IsFloor(-n, Plus(Negated(a), h))
    <3>1. -n \in Int
      OBVIOUS
    <3> QED
      BY <3>1, <1>1, <1>3 DEF off
  <2> QED
    BY <2>3, <2>4, <1>5
<1> QED
  BY <1>4, <1>5

(* Where the whole numbers are that a number is rounded to.                *)
LEMMA FloorBounds ==
  ASSUME NEW c \in Number, NEW n \in Int, IsFloor(n, c), NEW k \in Int,
         NEW j \in Int, Leq(c, Num(k)), Leq(Num(j), c)
  PROVE  j <= n /\ n <= k
<1>1. /\ Num(n) \in Number /\ Num(n + 1) \in Number /\ Num(k) \in Number /\ Num(j) \in Number
      /\ n + 1 \in Int
  BY NumSuccessor
<1>2. n <= k
  <2>1. Leq(Num(n), Num(k))
    BY <1>1, OrderLaws DEF IsFloor
  <2> QED
    BY <2>1, NumOrdered
<1>3. j <= n
  <2>1. ~Leq(Num(n + 1), Num(j))
    BY <1>1, OrderLaws DEF IsFloor, Less
  <2>2. ~(n + 1 <= j)
    BY <2>1, <1>1, NumOrdered
  <2> QED
    BY <2>2
<1> QED
  BY <1>2, <1>3

(* A number lies between whole numbers as large as its numerator, and so   *)
(* does a half more.                                                       *)
LEMMA NumeratorBounds ==
  ASSUME NEW a \in Number, NEW p, p = AbsInt(a[1])
  PROVE  /\ p \in Nat /\ AbsInt(Negated(a)[1]) = p
         /\ Leq(a, Num(p)) /\ Leq(Num(-p), a)
         /\ Leq(Plus(a, Frac(1, 2)), Num(p + 1)) /\ Leq(Num(-p), Plus(a, Frac(1, 2)))
<1>1. a[1] \in Int /\ a[2] \in Nat \ {0}
  BY NumberType DEF Positives
<1>2. p \in Nat /\ a[1] <= p /\ -p <= a[1]
  BY <1>1 DEF AbsInt
<1>3. AbsInt(Negated(a)[1]) = p
  <2>1. Negated(a)[1] = -a[1]
    BY DEF Negated
  <2> QED
    BY <2>1, <1>1 DEF AbsInt
<1>4. \A x, y \in Nat : y # 0 => x <= x * y
  <2> SUFFICES ASSUME NEW x \in Nat, NEW y \in Nat, y # 0 PROVE x <= x * y
    OBVIOUS
  <2>1. y - 1 \in Nat /\ x * y = x * (y - 1) + x
    OBVIOUS
  <2>2. x * (y - 1) \in Nat
    BY <2>1
  <2> QED
    BY <2>1, <2>2
<1>5. p <= p * a[2] /\ p * a[2] \in Int /\ (-p) * a[2] = -(p * a[2])
  BY <1>1, <1>2, <1>4
<1>6. Leq(a, Num(p))
  <2>1. a[1] * 1 <= p * a[2]
    BY <1>1, <1>2, <1>5
  <2> QED
    BY <2>1 DEF Leq, Num
<1>7. Leq(Num(-p), a)
  <2>1. (-p) * a[2] <= a[1] * 1
    BY <1>1, <1>2, <1>5
  <2> QED
    BY <2>1 DEF Leq, Num
<1> DEFINE h == Frac(1, 2)
<1>8. /\ h \in Number /\ Num(0) \in Number /\ Num(1) \in Number /\ Num(p) \in Number
      /\ Num(-p) \in Number /\ Leq(Num(0), h) /\ Leq(h, Num(1)) /\ Plus(a, h) \in Number
      /\ Num(p + 1) = Plus(Num(p), Num(1)) /\ Num(p + 1) \in Number
      /\ Plus(Num(p), h) \in Number
  <2>1. /\ h \in Number /\ Num(0) \in Number /\ Num(1) \in Number /\ Num(p) \in Number
        /\ Num(-p) \in Number
    BY <1>2, HalfLaws, NumFrac
  <2>2. Leq(h, Num(1))
    BY <2>1, HalfLaws, OrderLaws
  <2>3. Plus(a, h) \in Number /\ Plus(Num(p), h) \in Number
    BY <2>1, NumbersClosed
  <2>4. Num(p + 1) = Plus(Num(p), Num(1)) /\ Num(p + 1) \in Number
    BY <1>2, NumSuccessor
  <2> QED
    BY <2>1, <2>2, <2>3, <2>4, HalfLaws
<1>9. Leq(a, Plus(a, h))
  <2> HIDE DEF h
  <2>1. Leq(Plus(Num(0), a), Plus(h, a))
    BY <1>8, OrderLaws
  <2> QED
    BY <2>1, <1>8, PlusLaws
<1>10. Leq(Plus(a, h), Num(p + 1))
  <2> HIDE DEF h
  <2>1. Leq(Plus(a, h), Plus(Num(p), h))
    BY <1>6, <1>8, OrderLaws
  <2>2. Leq(Plus(h, Num(p)), Plus(Num(1), Num(p)))
    BY <1>8, OrderLaws
  <2>3. Leq(Plus(Num(p), h), Plus(Num(p), Num(1)))
    BY <2>2, <1>8, PlusLaws
  <2> QED
    BY <2>1, <2>3, <1>8, OrderLaws
<1>11. Leq(Num(-p), Plus(a, h))
  <2> HIDE DEF h
  <2> QED
    BY <1>7, <1>8, <1>9, OrderLaws
<1> QED
  BY <1>2, <1>3, <1>6, <1>7, <1>10, <1>11

(* The code's floor, ceil and round are what they should be.               *)
LEMMA RoundingMeans ==
  ASSUME NEW a \in Number
  PROVE  /\ Num(FloorOf(a)) = Floor(a) /\ Num(CeilOf(a)) = Negated(Floor(Negated(a)))
         /\ Num(RoundOf(a)) = Rounded(a)
         /\ Num(FloorOf(a)) \in Number /\ Num(CeilOf(a)) \in Number
         /\ Num(RoundOf(a)) \in Number
<1> DEFINE p == AbsInt(a[1])
<1>1. ASSUME NEW c \in Number PROVE c[1] \div c[2] \in Int
  BY NumberType DEF Positives
<1>2. /\ p \in Nat /\ AbsInt(Negated(a)[1]) = p /\ Negated(a) \in Number
      /\ Leq(a, Num(p)) /\ Leq(Num(-p), a)
      /\ Leq(Plus(a, Frac(1, 2)), Num(p + 1)) /\ Leq(Num(-p), Plus(a, Frac(1, 2)))
      /\ Plus(a, Frac(1, 2)) \in Number /\ Plus(Negated(a), Frac(1, 2)) \in Number
  BY NumeratorBounds, NumbersClosed, HalfLaws
<1>3. /\ Leq(Negated(a), Num(p)) /\ Leq(Num(-p), Negated(a))
      /\ Leq(Plus(Negated(a), Frac(1, 2)), Num(p + 1))
      /\ Leq(Num(-p), Plus(Negated(a), Frac(1, 2)))
  BY <1>2, NumeratorBounds
<1>4. Around(a) = -(p + 1) .. p + 1
  BY DEF Around
<1> HIDE DEF p
<1>5. \A n \in Int : -p <= n /\ n <= p + 1 => n \in Around(a) /\ -n \in Around(a)
  BY <1>2, <1>4
<1>6. p \in Int /\ -p \in Int /\ p + 1 \in Int /\ p <= p + 1
      /\ \A n \in Int : n <= p => n <= p + 1
  BY <1>2
<1>7. Num(FloorOf(a)) = Floor(a)
  <2> DEFINE q == a[1] \div a[2]
  <2>1. q \in Int /\ IsFloor(q, a)
    BY <1>1, FloorDivides
  <2>2. q \in Around(a)
    <3> HIDE DEF q
    <3>1. -p <= q /\ q <= p
      BY <2>1, <1>2, <1>6, FloorBounds
    <3> QED
      BY <3>1, <2>1, <1>5, <1>6
  <2>3. \A n \in Around(a) : n \in Int
    BY <1>4, <1>6
  <2>4. \A n \in Around(a) : IsFloor(n, a) => n = q
    BY <2>3, FloorDivides
  <2>5. FloorOf(a) = q
    <3> HIDE DEF q
    <3> QED
      BY <2>1, <2>2, <2>4 DEF FloorOf
  <2> QED
    BY <2>5 DEF Floor
<1>8. Num(CeilOf(a)) = Negated(Floor(Negated(a)))
  <2> DEFINE b == Negated(a)
             q == b[1] \div b[2]
  <2>1. q \in Int /\ IsFloor(q, b)
    BY <1>1, <1>2, FloorDivides
  <2>2. -q \in Around(a)
    <3> HIDE DEF q
    <3>1. -p <= q /\ q <= p
      <4> HIDE DEF b
      <4> QED
        BY <2>1, <1>2, <1>3, <1>6, FloorBounds DEF b
    <3> QED
      BY <3>1, <2>1, <1>5, <1>6
  <2>3. \A n \in Around(a) : n \in Int
    BY <1>4, <1>6
  <2> HIDE DEF q
  <2>4. \A n \in Around(a) : IsCeil(n, a) => n = -q
    <3> SUFFICES ASSUME NEW n \in Around(a), IsCeil(n, a) PROVE n = -q
      OBVIOUS
    <3>1. n \in Int /\ -n \in Int
      BY <2>3
    <3>2. IsFloor(-n, b)
      BY <3>1, FloorsAndCeilings
    <3>3. -n = q
      BY <3>1, <3>2, <1>2, FloorDivides DEF q
    <3> QED
      BY <3>1, <3>3
  <2>5. IsCeil(-q, a)
    <3>1. -(-q) = q /\ -q \in Int
      BY <2>1
    <3> QED
      BY <3>1, <2>1, FloorsAndCeilings
  <2>6. CeilOf(a) = -q
    BY <2>2, <2>4, <2>5 DEF CeilOf
  <2> QED
    BY <2>6 DEF Floor, Negated, Num, q
<1>9. Num(RoundOf(a)) = Rounded(a)
  <2> DEFINE up == Positive(a)
             b == IF up THEN a ELSE Negated(a)
             c == Plus(b, Frac(1, 2))
             q == c[1] \div c[2]
             to == IF up THEN q ELSE -q
  <2>1. c \in Number
    BY <1>2
  <2>2. q \in Int /\ IsFloor(q, c)
    BY <2>1, <1>1, FloorDivides
  <2>3. -p <= q /\ q <= p + 1
    <3>1. Leq(c, Num(p + 1)) /\ Leq(Num(-p), c)
      BY <1>2, <1>3
    <3> HIDE DEF q, c
    <3> QED
      BY <3>1, <2>1, <2>2, <1>6, FloorBounds
  <2>4. \A n \in Around(a) : n \in Int
    BY <1>4, <1>6
  <2>5. \A n \in Int : IsRound(n, a) <=> IsFloor(IF up THEN n ELSE -n, c)
    BY RoundedByHalf
  <2>6. \A n \in Int : IsFloor(n, c) <=> n = q
    <3> HIDE DEF c
    <3> QED
      BY <2>1, FloorDivides
  <2>7. Rounded(a) = Num(to)
    BY DEF Rounded, Floor, Num, Negated
  <2> HIDE DEF up, q, c
  <2>8. to \in Around(a) /\ to \in Int /\ (IF up THEN to ELSE -to) = q
    BY <2>2, <2>3, <1>5
  <2>9. IsRound(to, a)
    BY <2>5, <2>6, <2>8
  <2>10. \A n \in Around(a) : IsRound(n, a) => n = to
    <3> SUFFICES ASSUME NEW n \in Around(a), IsRound(n, a) PROVE n = to
      OBVIOUS
    <3>1. n \in Int /\ (IF up THEN n ELSE -n) \in Int
      BY <2>4
    <3>2. (IF up THEN n ELSE -n) = q
      BY <3>1, <2>5, <2>6
    <3> QED
      BY <3>1, <3>2, <2>2
  <2> HIDE DEF to
  <2>11. RoundOf(a) = to
    BY <2>8, <2>9, <2>10 DEF RoundOf
  <2> QED
    BY <2>7, <2>11
<1>10. Floor(a) \in Number /\ Floor(Negated(a)) \in Number /\ Negated(Floor(Negated(a))) \in Number
       /\ Rounded(a) \in Number
  <2>1. \A c \in Number : Floor(c) \in Number
    BY <1>1, NumFrac DEF Floor
  <2> QED
    BY <2>1, <1>2, NumbersClosed DEF Rounded
<1> QED
  BY <1>7, <1>8, <1>9, <1>10

------------------------------------------------------------------------------
(* Values: each operation calculates what its term means.                  *)

\* A term means at least one thing, and all that it means has value c.
Meant(A, c) == A # {} /\ A \subseteq Duals /\ \A a \in A : a[1] = c

(* A single pair means its value.                                          *)
LEMMA OneMeant ==
  ASSUME NEW x \in Number, NEW y \in Number
  PROVE  Meant({<<x, y>>}, x)
<1>1. <<x, y>> \in Duals
  BY DEF Duals
<1>2. \A p, q : <<p, q>>[1] = p
  OBVIOUS
<1>3. <<x, y>>[1] = x
  BY ONLY <1>2
<1>4. \A b \in {<<x, y>>} : b = <<x, y>>
  OBVIOUS
<1>5. <<x, y>> \in {<<x, y>>}
  OBVIOUS
<1> QED
  BY <1>1, <1>3, <1>4, <1>5 DEF Meant

(* So does a value without a slope.                                        *)
LEMMA FlatMeant ==
  ASSUME NEW x \in Number
  PROVE  Meant({FlatD(x)}, x) /\ Num(0) \in Number
BY OneAndZero, OneMeant DEF FlatD, Zero

(* An operator that has one value for every pair in its operand's meaning  *)
(* means that value,                                                       *)
LEMMA UnariesMeant ==
  ASSUME NEW A, A # {}, NEW op, NEW c, \A a \in A : Meant(UnaryMeaning(op, a), c)
  PROVE  Meant(UnaryMeanings(op, A), c)
BY DEF Meant, UnaryMeanings

(* with two operands as well.                                              *)
LEMMA BinariesMeant ==
  ASSUME NEW A, A # {}, NEW B, B # {}, NEW op, NEW v, NEW c,
         \A a \in A, b \in B : Meant(BinaryMeaning(op, a, b, v), c)
  PROVE  Meant(BinaryMeanings(op, A, B, v), c)
<1> DEFINE C == {BinaryMeaning(op, a, b, v) : a \in A, b \in B}
           M == BinaryMeanings(op, A, B, v)
<1>0. /\ \A p \in A \X B : p[1] \in A /\ p[2] \in B
      /\ \A a \in A, b \in B : <<a, b>> \in A \X B /\ <<a, b>>[1] = a /\ <<a, b>>[2] = b
  OBVIOUS
<1>1. ASSUME NEW y \in M PROVE \E a \in A, b \in B : y \in BinaryMeaning(op, a, b, v)
  <2>1. PICK p \in A \X B : y \in BinaryMeaning(op, p[1], p[2], v)
    BY <1>1 DEF BinaryMeanings
  <2> QED
    BY <2>1, <1>0
<1>2. ASSUME NEW a \in A, NEW b \in B, NEW y \in BinaryMeaning(op, a, b, v) PROVE y \in M
  <2>1. <<a, b>> \in A \X B /\ <<a, b>>[1] = a /\ <<a, b>>[2] = b
    BY <1>0
  <2>2. \E p \in A \X B : y \in BinaryMeaning(op, p[1], p[2], v)
    BY <2>1, <1>2
  <2> QED
    BY <2>2 DEF BinaryMeanings
<1> HIDE DEF M
<1>3. PICK a \in A, b \in B : TRUE
  OBVIOUS
<1>4. BinaryMeaning(op, a, b, v) # {}
  BY DEF Meant
<1>5. M # {}
  BY <1>2, <1>4
<1>6. M \subseteq Duals /\ \A y \in M : y[1] = c
  BY <1>1 DEF Meant
<1> QED
  BY <1>5, <1>6 DEF Meant, M

(* The sign of a number, as it is in the code.                             *)
LEMMA SgnIs ==
  ASSUME NEW c \in Number
  PROVE  /\ Positive(c) => Sgn(c) = Num(1)
         /\ c = Num(0) => Sgn(c) = Num(0)
         /\ ~Positive(c) /\ c # Num(0) => Sgn(c) = Num(-1)
<1>1. c[1] \in Int /\ c[2] \in Int
  BY NumberType DEF Positives
<1>2. c[1] = 0 => c = Num(0)
  <2> SUFFICES ASSUME c[1] = 0 PROVE c = Num(0)
    OBVIOUS
  <2>1. Num(0) \in Number /\ Num(0)[1] = 0 /\ Num(0)[2] = 1
    BY OneAndZero DEF Zero, Num
  <2>2. c[1] * Num(0)[2] = Num(0)[1] * c[2]
    BY <2>1, <1>1
  <2> QED
    BY <2>1, <2>2, NumberUnique
<1>3. c = Num(0) => c[1] = 0
  BY DEF Num
<1> QED
  BY <1>1, <1>2, <1>3 DEF Sgn, Positive

(* What operators on one operand mean has the value that is calculated.    *)
LEMMA UnaryMeant ==
  ASSUME NEW a \in Duals
  PROVE  /\ Meant(UnaryMeaning("name", a), a[1])
         /\ Meant(UnaryMeaning("square", a), Times(a[1], a[1]))
         /\ Meant(UnaryMeaning("abs", a), Times(Sgn(a[1]), a[1]))
         /\ Meant(UnaryMeaning("sign", a), Sgn(a[1]))
         /\ Meant(UnaryMeaning("round", a), Rounded(a[1]))
         /\ Meant(UnaryMeaning("floor", a), Floor(a[1]))
         /\ Meant(UnaryMeaning("ceil", a), Negated(Floor(Negated(a[1]))))
<1> DEFINE c == a[1]
           d == a[2]
<1>1. c \in Number /\ d \in Number /\ a = <<c, d>>
  BY DualsClosed
<1>2. Meant(UnaryMeaning("name", a), c)
  <2>1. UnaryMeaning("name", a) = {<<c, d>>}
    BY <1>1 DEF UnaryMeaning
  <2> QED
    BY <2>1, <1>1, OneMeant
<1>3. Meant(UnaryMeaning("square", a), Times(c, c))
  <2>1. UnaryMeaning("square", a) = {TimesD(a, a)}
    BY DEF UnaryMeaning
  <2>2. Times(c, c) \in Number /\ Plus(Times(c, d), Times(c, d)) \in Number
    BY <1>1, NumbersClosed
  <2>3. TimesD(a, a) = <<Times(c, c), Plus(Times(c, d), Times(d, c))>>
    BY DEF TimesD
  <2>4. Plus(Times(c, d), Times(d, c)) \in Number
    BY <1>1, <2>2, TimesLaws
  <2> QED
    BY <2>1, <2>2, <2>3, <2>4, OneMeant
<1>4. Meant(UnaryMeaning("sign", a), Sgn(c))
  <2>1. UnaryMeaning("sign", a) = {FlatD(Sgn(c))} /\ Sgn(c) \in Number
    BY <1>1, NumbersClosed DEF UnaryMeaning
  <2> QED
    BY <2>1, FlatMeant
<1>5. Meant(UnaryMeaning("round", a), Rounded(c))
  <2>1. UnaryMeaning("round", a) = {<<Num(RoundOf(c)), d>>}
    BY DEF UnaryMeaning
  <2>2. Num(RoundOf(c)) = Rounded(c) /\ Num(RoundOf(c)) \in Number
    BY <1>1, RoundingMeans
  <2> QED
    BY <2>1, <2>2, <1>1, OneMeant
<1>6. Meant(UnaryMeaning("floor", a), Floor(c))
  <2>1. UnaryMeaning("floor", a) = {<<Num(FloorOf(c)), d>>}
    BY DEF UnaryMeaning
  <2>2. Num(FloorOf(c)) = Floor(c) /\ Num(FloorOf(c)) \in Number
    BY <1>1, RoundingMeans
  <2> QED
    BY <2>1, <2>2, <1>1, OneMeant
<1>7. Meant(UnaryMeaning("ceil", a), Negated(Floor(Negated(c))))
  <2>1. UnaryMeaning("ceil", a) = {<<Num(CeilOf(c)), d>>}
    BY DEF UnaryMeaning
  <2>2. Num(CeilOf(c)) = Negated(Floor(Negated(c))) /\ Num(CeilOf(c)) \in Number
    BY <1>1, RoundingMeans
  <2> QED
    BY <2>1, <2>2, <1>1, OneMeant
<1>8. Meant(UnaryMeaning("abs", a), Times(Sgn(c), c))
  <2> DEFINE S == IF Positive(c) THEN {1} ELSE IF c = Num(0) THEN {-1, 0, 1} ELSE {-1}
             A == UnaryMeaning("abs", a)
  <2>1. A = {ScaledD(s, a) : s \in S}
    BY DEF UnaryMeaning
  <2>2. S # {} /\ S \subseteq Int
    OBVIOUS
  <2>3. ASSUME NEW s \in S
        PROVE  ScaledD(s, a) \in Duals /\ ScaledD(s, a)[1] = Times(Sgn(c), c)
    <3>1. Num(s) \in Number
      BY <2>2, NumFrac
    <3>2. Times(Num(s), c) \in Number /\ Times(Num(s), d) \in Number
      BY <3>1, <1>1, NumbersClosed
    <3>3. ScaledD(s, a) = <<Times(Num(s), c), Times(Num(s), d)>>
      BY DEF ScaledD
    <3>4. ScaledD(s, a)[1] = Times(Num(s), c)
      <4>1. \A p, q : <<p, q>>[1] = p
        OBVIOUS
      <4> HIDE DEF c, d
      <4> QED
        BY ONLY <3>3, <4>1
    <3>5. Times(Num(s), c) = Times(Sgn(c), c)
      <4>1. CASE Positive(c)
        BY <4>1, <1>1, SgnIs
      <4>2. CASE ~Positive(c) /\ c # Num(0)
        BY <4>2, <1>1, SgnIs
      <4>3. CASE c = Num(0)
        <5>1. Sgn(c) \in Number
          BY <1>1, NumbersClosed
        <5>2. Times(Num(s), Zero) = Zero /\ Times(Sgn(c), Zero) = Zero
          BY <5>1, <3>1, WithZero
        <5> QED
          BY <5>2, <4>3 DEF Zero
      <4> QED
        BY <4>1, <4>2, <4>3
    <3>6. ScaledD(s, a) \in Duals
      BY <3>2, <3>3 DEF Duals
    <3> QED
      BY <3>4, <3>5, <3>6
  <2> HIDE DEF S, A
  <2>4. A # {} /\ A \subseteq Duals /\ \A y \in A : y[1] = Times(Sgn(c), c)
    <3>1. PICK s \in S : TRUE
      BY <2>2
    <3>2. A # {}
      BY <3>1, <2>1
    <3>3. \A y \in A : y \in Duals /\ y[1] = Times(Sgn(c), c)
      BY <2>1, <2>3
    <3> QED
      BY <3>2, <3>3
  <2> QED
    BY <2>4 DEF Meant, A
<1> QED
  BY <1>2, <1>3, <1>4, <1>5, <1>6, <1>7, <1>8

(* A pair means its value.                                                 *)
LEMMA DualMeant ==
  ASSUME NEW a \in Duals
  PROVE  Meant({a}, a[1])
<1>1. \A y \in {a} : y = a
  OBVIOUS
<1>2. a \in {a}
  OBVIOUS
<1> QED
  BY <1>1, <1>2 DEF Meant

(* What is added for a difference.                                         *)
LEMMA OppositeIs ==
  ASSUME NEW b \in Duals
  PROVE  /\ ScaledD(-1, b) \in Duals
         /\ ScaledD(-1, b) = <<Negated(b[1]), Negated(b[2])>>
<1>1. b[1] \in Number /\ b[2] \in Number
  BY DualsClosed
<1>2. Num(-1) = Negated(One)
  BY DEF Num, Negated, One
<1>3. /\ Times(Num(-1), b[1]) = Negated(b[1]) /\ Times(Num(-1), b[2]) = Negated(b[2])
      /\ Negated(b[1]) \in Number /\ Negated(b[2]) \in Number
  BY <1>1, <1>2, WithZero, NumbersClosed
<1>4. ScaledD(-1, b) = <<Negated(b[1]), Negated(b[2])>>
  BY <1>3 DEF ScaledD
<1>5. <<Negated(b[1]), Negated(b[2])>> \in Duals
  BY <1>3 DEF Duals
<1> QED
  BY <1>4, <1>5

(* The two of a pair.                                                      *)
LEMMA FirstOf ==
  ASSUME NEW p, NEW q
  PROVE  <<p, q>>[1] = p /\ <<p, q>>[2] = q
OBVIOUS

(* A divisor that is not zero has a square that is not.                    *)
LEMMA SquareNotZero ==
  ASSUME NEW d \in Number, d # Num(0)
  PROVE  Times(d, d) # Num(0)
<1> DEFINE r == Reciprocal(d)
<1>1. r \in Number /\ Times(d, r) = Num(1)
  BY ReciprocalLaw
<1> HIDE DEF r
<1> SUFFICES ASSUME Times(d, d) = Num(0) PROVE FALSE
  OBVIOUS
<1>2. Times(Times(d, d), r) = Times(d, Times(d, r))
  BY <1>1, TimesLaws
<1>3. Times(d, Num(1)) = d /\ Times(Num(0), r) = Num(0)
  BY <1>1, WithZero DEF One, Zero
<1> QED
  BY <1>1, <1>2, <1>3

(* What operators on two operands mean has the value that is calculated.   *)
LEMMA BinaryMeant ==
  ASSUME NEW a \in Duals, NEW b \in Duals, NEW v
  PROVE  /\ Meant(BinaryMeaning("+", a, b, v), Plus(a[1], b[1]))
         /\ Meant(BinaryMeaning("-", a, b, v), Plus(a[1], Negated(b[1])))
         /\ Meant(BinaryMeaning("*", a, b, v), Times(a[1], b[1]))
         /\ b[1] # Num(0) =>
              Meant(BinaryMeaning("/", a, b, v), Times(a[1], Reciprocal(b[1])))
         /\ Meant(BinaryMeaning("min", a, b, v), Least(a[1], b[1]))
         /\ Meant(BinaryMeaning("max", a, b, v), Greatest(a[1], b[1]))
         /\ Meant(BinaryMeaning("lesseq", a, b, v), Truth(Leq(a[1], b[1])))
         /\ Meant(BinaryMeaning("greater", a, b, v), Truth(Less(b[1], a[1])))
         /\ Meant(BinaryMeaning("case", a, b, v),
                  IF Leq(v["x"], Num(0)) THEN a[1] ELSE b[1])
<1>1. /\ a[1] \in Number /\ a[2] \in Number /\ b[1] \in Number /\ b[2] \in Number
      /\ PlusD(a, b) \in Duals /\ TimesD(a, b) \in Duals
  BY DualsClosed
<1>2. Meant(BinaryMeaning("+", a, b, v), Plus(a[1], b[1]))
  <2>1. BinaryMeaning("+", a, b, v) = {PlusD(a, b)}
    BY DEF BinaryMeaning
  <2>2. PlusD(a, b)[1] = Plus(a[1], b[1])
    BY FirstOf DEF PlusD
  <2>3. Meant({PlusD(a, b)}, PlusD(a, b)[1])
    BY <1>1, DualMeant
  <2> QED
    BY <2>1, <2>2, <2>3
<1>3. Meant(BinaryMeaning("-", a, b, v), Plus(a[1], Negated(b[1])))
  <2> DEFINE c == ScaledD(-1, b)
             y == PlusD(a, c)
  <2>1. BinaryMeaning("-", a, b, v) = {y}
    BY DEF BinaryMeaning
  <2>2. c \in Duals /\ c[1] = Negated(b[1])
    <3>1. c \in Duals /\ c = <<Negated(b[1]), Negated(b[2])>>
      BY OppositeIs
    <3> HIDE DEF c
    <3> QED
      BY <3>1, FirstOf
  <2> HIDE DEF c
  <2>3. y \in Duals
    BY <2>2, DualsClosed
  <2>4. y[1] = Plus(a[1], Negated(b[1]))
    BY <2>2, FirstOf DEF PlusD
  <2> HIDE DEF y
  <2>5. Meant({y}, y[1])
    BY <2>3, DualMeant
  <2> QED
    BY <2>1, <2>4, <2>5
<1>4. Meant(BinaryMeaning("*", a, b, v), Times(a[1], b[1]))
  <2>1. BinaryMeaning("*", a, b, v) = {TimesD(a, b)}
    BY DEF BinaryMeaning
  <2>2. TimesD(a, b)[1] = Times(a[1], b[1])
    BY FirstOf DEF TimesD
  <2>3. Meant({TimesD(a, b)}, TimesD(a, b)[1])
    BY <1>1, DualMeant
  <2> QED
    BY <2>1, <2>2, <2>3
<1>5. ASSUME b[1] # Num(0)
      PROVE  Meant(BinaryMeaning("/", a, b, v), Times(a[1], Reciprocal(b[1])))
  <2> DEFINE p == Times(a[1], Reciprocal(b[1]))
             q == Times(Minus(Times(a[2], b[1]), Times(a[1], b[2])),
                        Reciprocal(Times(b[1], b[1])))
  <2>1. BinaryMeaning("/", a, b, v) = {<<p, q>>}
    BY DEF BinaryMeaning, OverD
  <2>2. Reciprocal(b[1]) \in Number
    BY <1>1, <1>5, ReciprocalLaw
  <2>3. p \in Number
    BY <1>1, <2>2, NumbersClosed
  <2>4. Times(b[1], b[1]) \in Number /\ Times(b[1], b[1]) # Num(0)
    <3>1. Times(b[1], b[1]) \in Number
      BY <1>1, NumbersClosed
    <3> QED
      BY <3>1, <1>1, <1>5, SquareNotZero
  <2>5. Reciprocal(Times(b[1], b[1])) \in Number
    BY <2>4, ReciprocalLaw
  <2>6. /\ Times(a[2], b[1]) \in Number /\ Times(a[1], b[2]) \in Number
    BY <1>1, NumbersClosed
  <2>7. Minus(Times(a[2], b[1]), Times(a[1], b[2])) \in Number
    BY <2>6, NumbersClosed
  <2>8. q \in Number
    BY <2>5, <2>7, NumbersClosed
  <2> HIDE DEF p, q
  <2>9. Meant({<<p, q>>}, p)
    BY <2>3, <2>8, OneMeant
  <2> QED
    BY <2>1, <2>9 DEF p
<1>6. Meant(BinaryMeaning("min", a, b, v), Least(a[1], b[1]))
  <2> DEFINE A == BinaryMeaning("min", a, b, v)
  <2>1. A = {y \in {a, b} : Leq(y[1], a[1]) /\ Leq(y[1], b[1])}
    BY DEF BinaryMeaning
  <2>2. /\ Leq(a[1], a[1]) /\ Leq(b[1], b[1])
        /\ Leq(a[1], b[1]) \/ Leq(b[1], a[1])
        /\ Leq(a[1], b[1]) /\ Leq(b[1], a[1]) => a[1] = b[1]
    BY <1>1, OrderLaws
  <2> HIDE DEF A
  <2>3. A # {} /\ A \subseteq Duals /\ \A y \in A : y[1] = Least(a[1], b[1])
    BY <2>1, <2>2 DEF Least
  <2> QED
    BY <2>3 DEF Meant, A
<1>7. Meant(BinaryMeaning("max", a, b, v), Greatest(a[1], b[1]))
  <2> DEFINE A == BinaryMeaning("max", a, b, v)
  <2>1. A = {y \in {a, b} : Leq(a[1], y[1]) /\ Leq(b[1], y[1])}
    BY DEF BinaryMeaning
  <2>2. /\ Leq(a[1], a[1]) /\ Leq(b[1], b[1])
        /\ Leq(a[1], b[1]) \/ Leq(b[1], a[1])
        /\ Leq(a[1], b[1]) /\ Leq(b[1], a[1]) => a[1] = b[1]
    BY <1>1, OrderLaws
  <2> HIDE DEF A
  <2>3. A # {} /\ A \subseteq Duals /\ \A y \in A : y[1] = Greatest(a[1], b[1])
    BY <2>1, <2>2 DEF Greatest
  <2> QED
    BY <2>3 DEF Meant, A
<1>8. \A t : Truth(t) \in Number
  BY OneAndZero DEF Truth, One, Zero
<1>9. Meant(BinaryMeaning("lesseq", a, b, v), Truth(Leq(a[1], b[1])))
  <2> DEFINE y == Truth(Leq(a[1], b[1]))
  <2>1. BinaryMeaning("lesseq", a, b, v) = {FlatD(y)}
    BY DEF BinaryMeaning
  <2>2. y \in Number
    BY <1>8
  <2> HIDE DEF y
  <2>3. Meant({FlatD(y)}, y)
    BY <2>2, FlatMeant
  <2> QED
    BY <2>1, <2>3 DEF y
<1>10. Meant(BinaryMeaning("greater", a, b, v), Truth(Less(b[1], a[1])))
  <2> DEFINE y == Truth(~Leq(a[1], b[1]))
  <2>1. BinaryMeaning("greater", a, b, v) = {FlatD(y)}
    BY DEF BinaryMeaning
  <2>2. y \in Number
    BY <1>8
  <2>4. y = Truth(Less(b[1], a[1]))
    BY DEF Less
  <2> HIDE DEF y
  <2>3. Meant({FlatD(y)}, y)
    BY <2>2, FlatMeant
  <2> QED
    BY <2>1, <2>3, <2>4
<1>11. Meant(BinaryMeaning("case", a, b, v), IF Leq(v["x"], Num(0)) THEN a[1] ELSE b[1])
  <2>1. BinaryMeaning("case", a, b, v) = {IF Leq(v["x"], Num(0)) THEN a ELSE b}
    BY DEF BinaryMeaning
  <2>2. Meant({a}, a[1]) /\ Meant({b}, b[1])
    BY DualMeant
  <2> QED
    BY <2>1, <2>2
<1> QED
  BY <1>2, <1>3, <1>4, <1>5, <1>6, <1>7, <1>9, <1>10, <1>11

(* Powers, of exponents that may be written.                               *)
LEMMA PowMeant ==
  ASSUME NEW a \in Duals, NEW b, NEW n \in Nat, b = FlatD(Num(n)), NEW v
  PROVE  Meant(BinaryMeaning("pow", a, b, v), Power(a[1], n))
<1>1. b[1][1] = n
  <2>1. b[1] = Num(n)
    BY FirstOf DEF FlatD
  <2> QED
    BY <2>1, FirstOf DEF Num
<1>2. BinaryMeaning("pow", a, b, v) = {PowD(a, n)}
  BY <1>1 DEF BinaryMeaning
<1>3. /\ PowD(a, n) = <<Raised(a[1], n), PowSlope(a[1], n, a[2])>>
      /\ PowD(a, n) \in Duals
  BY PowDMeans
<1>4. PowD(a, n)[1] = Raised(a[1], n)
  BY <1>3, FirstOf
<1>5. Power(a[1], n) = Raised(a[1], n)
  BY DEF Power
<1>6. Meant({PowD(a, n)}, PowD(a, n)[1])
  BY <1>3, DualMeant
<1> QED
  BY <1>2, <1>4, <1>5, <1>6

(* Sums and products of three, in their order.                             *)
LEMMA ThreeListed ==
  ASSUME NEW D, D \in Domains, NEW s \in [1 .. 3 -> D]
  PROVE  /\ SumUp(s) = Plus(Plus(Plus(Num(0), s[1]), s[2]), s[3])
         /\ Product(s) = Times(Times(Times(Num(1), s[1]), s[2]), s[3])
<1> DEFINE n == 3
<1>1. n \in Nat /\ s \in [1 .. n -> D] /\ 1 \in 1 .. n /\ 2 \in 1 .. n /\ 3 \in 1 .. n
      /\ 1 - 1 = 0 /\ 2 - 1 = 1 /\ 3 - 1 = 2
  OBVIOUS
<1>7. n \in Nat
  OBVIOUS
<1>8. s \in [1 .. n -> D]
  OBVIOUS
<1>4. n = 3
  OBVIOUS
<1> HIDE DEF n
<1>2. PICK f \in [0 .. n -> D] :
        /\ f[0] = Num(0) /\ \A i \in 1 .. n : f[i] = Plus(f[i - 1], s[i])
        /\ SumUp(s) = f[n]
  BY ONLY ZenonT(60), <1>7, <1>8, D \in Domains, SumUpRuns
<1>3. PICK g \in [0 .. n -> D] :
        /\ g[0] = Num(1) /\ \A i \in 1 .. n : g[i] = Times(g[i - 1], s[i])
        /\ Product(s) = g[n]
  BY ONLY ZenonT(60), <1>7, <1>8, D \in Domains, ProductRuns
<1>5. f[1] = Plus(f[0], s[1]) /\ f[2] = Plus(f[1], s[2]) /\ f[3] = Plus(f[2], s[3])
  BY <1>1, <1>2
<1>6. g[1] = Times(g[0], s[1]) /\ g[2] = Times(g[1], s[2]) /\ g[3] = Times(g[2], s[3])
  BY <1>1, <1>3
<1> QED
  BY <1>2, <1>3, <1>4, <1>5, <1>6

(* What operators on three operands mean.                                  *)
LEMMA ListMeant ==
  ASSUME NEW A, NEW B, NEW C, NEW a, NEW b, NEW c, Meant(A, a), Meant(B, b), Meant(C, c)
  PROVE  /\ Meant(ListedMeanings("listsum", A, B, C), Plus(Plus(a, b), c))
         /\ Meant(ListedMeanings("listprod", A, B, C), Times(Times(a, b), c))
<1>1. ASSUME NEW x \in A, NEW y \in B, NEW z \in C
      PROVE  /\ PlusD(PlusD(x, y), z) \in Duals /\ TimesD(TimesD(x, y), z) \in Duals
             /\ PlusD(PlusD(x, y), z)[1] = Plus(Plus(a, b), c)
             /\ TimesD(TimesD(x, y), z)[1] = Times(Times(a, b), c)
  <2>1. /\ x \in Duals /\ y \in Duals /\ z \in Duals
        /\ x[1] = a /\ y[1] = b /\ z[1] = c
    BY DEF Meant
  <2>2. PlusD(x, y) \in Duals /\ TimesD(x, y) \in Duals
    BY <2>1, DualsClosed
  <2>3. PlusD(x, y)[1] = Plus(a, b) /\ TimesD(x, y)[1] = Times(a, b)
    BY <2>1, FirstOf DEF PlusD, TimesD
  <2>4. PlusD(PlusD(x, y), z) \in Duals /\ TimesD(TimesD(x, y), z) \in Duals
    BY <2>1, <2>2, DualsClosed
  <2>5. \A p : PlusD(p, z)[1] = Plus(p[1], z[1]) /\ TimesD(p, z)[1] = Times(p[1], z[1])
    BY FirstOf DEF PlusD, TimesD
  <2> QED
    BY <2>1, <2>3, <2>4, <2>5
<1>2. PICK x \in A, y \in B, z \in C : TRUE
  BY DEF Meant
<1>3. /\ \A t \in A \X B \X C : t[1] \in A /\ t[2] \in B /\ t[3] \in C
      /\ <<x, y, z>> \in A \X B \X C
  BY <1>2
<1>4. ASSUME NEW op, NEW u \in ListedMeanings(op, A, B, C)
      PROVE  \E p \in A, q \in B, r \in C :
               u = IF op = "listsum" THEN PlusD(PlusD(p, q), r) ELSE TimesD(TimesD(p, q), r)
  <2>1. PICK t \in A \X B \X C :
          u = IF op = "listsum" THEN PlusD(PlusD(t[1], t[2]), t[3])
              ELSE TimesD(TimesD(t[1], t[2]), t[3])
    BY <1>4 DEF ListedMeanings
  <2> QED
    BY <2>1, <1>3
<1>5. ListedMeanings("listsum", A, B, C) # {} /\ ListedMeanings("listprod", A, B, C) # {}
  BY <1>3 DEF ListedMeanings
<1>6. Meant(ListedMeanings("listsum", A, B, C), Plus(Plus(a, b), c))
  <2> DEFINE M == ListedMeanings("listsum", A, B, C)
  <2>1. \A u \in M : \E p \in A, q \in B, r \in C : u = PlusD(PlusD(p, q), r)
    BY <1>4
  <2> HIDE DEF M
  <2>2. \A u \in M : u \in Duals /\ u[1] = Plus(Plus(a, b), c)
    BY <2>1, <1>1
  <2> QED
    BY <2>2, <1>5 DEF Meant, M
<1>7. Meant(ListedMeanings("listprod", A, B, C), Times(Times(a, b), c))
  <2> DEFINE M == ListedMeanings("listprod", A, B, C)
  <2>1. \A u \in M : \E p \in A, q \in B, r \in C : u = TimesD(TimesD(p, q), r)
    BY <1>4
  <2> HIDE DEF M
  <2>2. \A u \in M : u \in Duals /\ u[1] = Times(Times(a, b), c)
    BY <2>1, <1>1
  <2> QED
    BY <2>2, <1>5 DEF Meant, M
<1> QED
  BY <1>6, <1>7

\* The nodes of the operands of a term in their places.
OperandValues(w, e, k) == [i \in DOMAIN w[k].args |-> e[Node(w[k].args[i])]]

\* The value of a term's node by those of its operands' nodes.
Calculated(w, v, e, k) ==
  LET op == w[k].op
      y == e[Node(k)]
      a == e[Node(w[k].args[1])]
      b == e[Node(w[k].args[2])]
  IN  /\ op = "real" => y = w[k].num
      /\ op = "variable" => y = v[w[k].id]
      /\ op = "polynomial" => y = EvalPolynomial(buildPolynomial(w[k].poly), v, "")
      /\ op = "reference" => y = e[Node(ReferredTerm(w))]
      /\ op = "name" => y = a
      /\ op = "square" => y = Times(a, a)
      /\ op = "abs" => y = Times(Sgn(a), a)
      /\ op = "sign" => y = Sgn(a)
      /\ op = "round" => y = IF Finite(a) THEN Rounded(a) ELSE a
      /\ op = "floor" => y = IF Finite(a) THEN Floor(a) ELSE a
      /\ op = "ceil" => y = IF Finite(a) THEN Negated(Floor(Negated(a))) ELSE a
      /\ op = "+" => y = Plus(a, b)
      /\ op = "-" => y = Plus(a, Negated(b))
      /\ op = "*" => y = Times(a, b)
      /\ op = "/" => y = Times(a, Reciprocal(b))
      /\ op = "min" => y = Least(a, b)
      /\ op = "max" => y = Greatest(a, b)
      /\ op = "lesseq" => y = Truth(Leq(a, b))
      /\ op = "greater" => y = Truth(Less(b, a))
      /\ op = "pow" => y = Power(a, b[1])
      /\ op = "case" => y = IF Leq(v["x"], Num(0)) THEN a ELSE b
      /\ op = "listsum" => y = SumUp(OperandValues(w, e, k))
      /\ op = "listprod" => y = Product(OperandValues(w, e, k))

\* The same of a message of one node per operand, and one around it.
NodesCalculated(m, v, e, j) == e[j] = NodeValue(m, v, e, j)

(* The node of a term has its operation, put onto the nodes of its         *)
(* operands or, for a difference and a quotient, onto the node around the  *)
(* second.                                                                 *)
LEMMA ArgsOf ==
  ASSUME NEW w, NEW k, NEW m, Carries(m, w, k), TermKinds(w, k)
  PROVE  /\ m[Node(k)].op = OpOf(w[k].op)
         /\ w[k].op \in UnaryOps => m[Node(k)].args[1] = Node(w[k].args[1])
         /\ w[k].op \in BinaryOps => m[Node(k)].args[1] = Node(w[k].args[1])
         /\ w[k].op \in BinaryOps \ {"-", "/"} => m[Node(k)].args[2] = Node(w[k].args[2])
         /\ w[k].op \in {"-", "/"} =>
              m[Node(k)].args[2] = Inner(k) /\ m[Inner(k)].args[1] = Node(w[k].args[2])
         /\ w[k].op \in ListedOps =>
              /\ DOMAIN m[Node(k)].args = 1 .. 3
              /\ \A i \in 1 .. 3 : m[Node(k)].args[i] = Node(w[k].args[i])
<1>0. 1 \in 1 .. 1 /\ 1 \in 1 .. 2 /\ 2 \in 1 .. 2 /\ 1 # 2
  OBVIOUS
<1>1. CASE w[k].op \in UnaryOps /\ DOMAIN w[k].args = 1 .. 1
  BY <1>0, <1>1 DEF Carries, ArgOf, UnaryOps, BinaryOps, ListedOps
<1>2. CASE w[k].op \in BinaryOps /\ DOMAIN w[k].args = 1 .. 2
  BY <1>0, <1>2 DEF Carries, ArgOf, UnaryOps, BinaryOps, ListedOps
<1>3. CASE w[k].op \in ListedOps /\ DOMAIN w[k].args = 1 .. 3
  BY <1>3 DEF Carries, ArgOf, UnaryOps, BinaryOps, ListedOps
<1>4. CASE w[k].op \in {"real", "variable", "reference", "polynomial", "untagged"}
  BY <1>4 DEF Carries, UnaryOps, BinaryOps, ListedOps
<1> QED
  BY <1>1, <1>2, <1>3, <1>4 DEF TermKinds

(* So the interpreter calculates a term's node from its operands' nodes.   *)
LEMMA Calculates ==
  ASSUME NEW w, NEW k, NEW m, Carries(m, w, k), TermKinds(w, k), NEW v, NEW e,
         NodesCalculated(m, v, e, Node(k)), NodesCalculated(m, v, e, Inner(k)),
         w[k].op = "reference" => Referred(m) = Node(ReferredTerm(w))
  PROVE  Calculated(w, v, e, k)
<1> DEFINE op == w[k].op
           y == e[Node(k)]
           a == e[Node(w[k].args[1])]
           b == e[Node(w[k].args[2])]
<1>1. y = NodeValue(m, v, e, Node(k)) /\ e[Inner(k)] = NodeValue(m, v, e, Inner(k))
  BY DEF NodesCalculated
<1>2. m[Node(k)].op = OpOf(op)
  BY ArgsOf
<1>3. CASE op \in {"real", "variable", "polynomial", "reference"}
  <2>1. m[Node(k)].op = op
    BY <1>2, <1>3 DEF OpOf
  <2>2. /\ m[Node(k)].num = w[k].num /\ m[Node(k)].id = w[k].id
        /\ m[Node(k)].poly = buildPolynomial(w[k].poly)
    BY DEF Carries
  <2>3. op = "real" => y = w[k].num
    BY <1>1, <2>1, <2>2 DEF NodeValue
  <2>4. op = "variable" => y = v[w[k].id]
    BY <1>1, <2>1, <2>2 DEF NodeValue
  <2>5. op = "polynomial" => y = EvalPolynomial(buildPolynomial(w[k].poly), v, "")
    BY <1>1, <2>1, <2>2 DEF NodeValue
  <2>6. op = "reference" => y = e[Node(ReferredTerm(w))]
    BY <1>1, <2>1, <2>2 DEF NodeValue
  <2> HIDE DEF y, a, b
  <2> QED
    BY <1>3, <2>3, <2>4, <2>5, <2>6 DEF Calculated, y
<1>11. CASE op = "untagged"
  BY <1>11 DEF Calculated
<1>4. CASE op \in UnaryOps
  <2>1. m[Node(k)].op = op /\ e[m[Node(k)].args[1]] = a
    BY <1>2, <1>4, ArgsOf DEF OpOf, UnaryOps
  <2>2. /\ op = "name" => y = a
        /\ op = "square" => y = Times(a, a)
        /\ op = "abs" => y = Times(Sgn(a), a)
        /\ op = "sign" => y = Sgn(a)
        /\ op = "round" => y = IF Finite(a) THEN Rounded(a) ELSE a
        /\ op = "floor" => y = IF Finite(a) THEN Floor(a) ELSE a
        /\ op = "ceil" => y = IF Finite(a) THEN Negated(Floor(Negated(a))) ELSE a
    <3> HIDE DEF a, y
    <3> QED
      BY <1>1, <1>4, <2>1 DEF NodeValue, UnaryOps
  <2> HIDE DEF y, a, b
  <2> QED
    BY <1>4, <2>2 DEF Calculated, UnaryOps, y, a
<1>5. CASE op \in BinaryOps \ {"+", "-", "*", "/", "case"}
  <2>1. m[Node(k)].op = op /\ e[m[Node(k)].args[1]] = a /\ e[m[Node(k)].args[2]] = b
    BY <1>2, <1>5, ArgsOf DEF OpOf, BinaryOps
  <2>2. /\ op = "min" => y = Least(a, b)
        /\ op = "max" => y = Greatest(a, b)
        /\ op = "lesseq" => y = Truth(Leq(a, b))
        /\ op = "greater" => y = Truth(Less(b, a))
        /\ op = "pow" => y = Power(a, b[1])
    <3> HIDE DEF a, b, y
    <3> QED
      BY <1>1, <1>5, <2>1 DEF NodeValue, BinaryOps
  <2> HIDE DEF y, a, b
  <2> QED
    BY <1>5, <2>2 DEF Calculated, BinaryOps, y, a, b
<1>6. CASE op = "+" \/ op = "*"
  <2>1. e[m[Node(k)].args[1]] = a /\ e[m[Node(k)].args[2]] = b
    BY <1>6, ArgsOf DEF BinaryOps
  <2>2. /\ op = "+" => m[Node(k)].op = "sum"
        /\ op = "*" => m[Node(k)].op = "prod"
    BY <1>2 DEF OpOf
  <2>3. /\ op = "+" => y = Plus(a, b)
        /\ op = "*" => y = Times(a, b)
    <3> HIDE DEF a, b, y
    <3> QED
      BY <1>1, <1>6, <2>1, <2>2 DEF NodeValue
  <2> HIDE DEF y, a, b
  <2> QED
    BY <1>6, <2>3 DEF Calculated, y, a, b
<1>7. CASE op = "-" \/ op = "/"
  <2>1. e[m[Node(k)].args[1]] = a /\ m[Node(k)].args[2] = Inner(k)
        /\ e[m[Inner(k)].args[1]] = b
    BY <1>7, ArgsOf DEF BinaryOps
  <2>2. /\ op = "-" => m[Node(k)].op = "sum" /\ m[Inner(k)].op = "negate"
        /\ op = "/" => m[Node(k)].op = "prod" /\ m[Inner(k)].op = "multinv"
    BY <1>2 DEF OpOf, Carries
  <2>3. /\ op = "-" => e[Inner(k)] = Negated(b)
        /\ op = "/" => e[Inner(k)] = Reciprocal(b)
    <3> HIDE DEF a, b, y
    <3> QED
      BY <1>1, <1>7, <2>1, <2>2 DEF NodeValue
  <2>4. /\ op = "-" => y = Plus(a, Negated(b))
        /\ op = "/" => y = Times(a, Reciprocal(b))
    <3> HIDE DEF a, b, y
    <3> QED
      BY <1>1, <1>7, <2>1, <2>2, <2>3 DEF NodeValue
  <2> HIDE DEF y, a, b
  <2> QED
    BY <1>7, <2>4 DEF Calculated, y, a, b
<1>8. CASE op = "case"
  <2>1. e[m[Node(k)].args[1]] = a /\ e[m[Node(k)].args[2]] = b
    BY <1>8, ArgsOf DEF BinaryOps
  <2>2. m[Node(k)].op = "case"
    BY <1>2, <1>8 DEF OpOf
  <2>3. y = e[Chosen(m[Node(k)].args, v)]
    BY <1>1, <2>2 DEF NodeValue
  <2>4. y = IF Leq(v["x"], Num(0)) THEN a ELSE b
    BY <2>1, <2>3 DEF Chosen
  <2> HIDE DEF y, a, b
  <2> QED
    BY <1>8, <2>4 DEF Calculated, y, a, b
<1>9. CASE op \in ListedOps
  <2> DEFINE s == OperandValues(w, e, k)
  <2>1. DOMAIN w[k].args = 1 .. 3 /\ m[Node(k)].op = op
    BY <1>2, <1>9 DEF TermKinds, UnaryOps, BinaryOps, ListedOps, OpOf
  <2>2. [i \in DOMAIN m[Node(k)].args |-> e[m[Node(k)].args[i]]] = s
    <3>1. /\ DOMAIN m[Node(k)].args = 1 .. 3
          /\ \A i \in 1 .. 3 : m[Node(k)].args[i] = Node(w[k].args[i])
      BY <1>9, ArgsOf
    <3> QED
      BY <3>1, <2>1 DEF OperandValues
  <2>3. /\ op = "listsum" => y = SumUp(s)
        /\ op = "listprod" => y = Product(s)
    <3> HIDE DEF s, y
    <3> QED
      BY <1>1, <1>9, <2>1, <2>2 DEF NodeValue
  <2> HIDE DEF y, a, b
  <2> QED
    BY <1>9, <2>3 DEF Calculated, ListedOps, y
<1> QED
  BY <1>3, <1>4, <1>5, <1>6, <1>7, <1>8, <1>9, <1>11 DEF TermKinds

\* A power is of a natural number.
PowerOf(w, e, mean, k) ==
  \E n \in 0 .. 9 : /\ mean[w[k].args[2]] = {FlatD(Num(n))}
                    /\ e[Node(w[k].args[2])] = Num(n)

\* The operands of a term mean the values of their nodes, and can be worked on.
MeantBefore(w, e, mean, k) ==
  /\ \A i \in DOMAIN w[k].args : Meant(mean[w[k].args[i]], e[Node(w[k].args[i])])
  /\ w[k].op = "reference" => Meant(mean[ReferredTerm(w)], e[Node(ReferredTerm(w))])
  /\ w[k].op = "/" => e[Node(w[k].args[2])] # Num(0)
  /\ w[k].op = "pow" => PowerOf(w, e, mean, k)

(* What is meant is a number.                                              *)
LEMMA MeantNumber ==
  ASSUME NEW A, NEW c, Meant(A, c)
  PROVE  c \in Number /\ Finite(c) /\ A # {} /\ \A a \in A : a \in Duals /\ a[1] = c
<1>1. PICK a \in A : a \in Duals /\ a[1] = c
  BY DEF Meant
<1>2. c \in Number
  BY <1>1, DualsClosed
<1>3. Finite(c)
  BY <1>2, NumberType DEF Finite, Positives
<1> QED
  BY <1>2, <1>3 DEF Meant

(* Leaves mean their values.                                               *)
LEMMA LeafMeant ==
  ASSUME NEW w, NEW k, TermKinds(w, k), NEW v, IsPlace(v), NEW x, NEW e, NEW mean,
         Calculated(w, v, e, k), MeantBefore(w, e, mean, k),
         w[k].op \in {"real", "variable", "polynomial", "reference"}, Fits(w[k].poly)
  PROVE  Meant(TermMeaning(w, v, x, mean, k), e[Node(k)])
<1> DEFINE op == w[k].op
           y == e[Node(k)]
           M == TermMeaning(w, v, x, mean, k)
<1>0. \A t : Truth(t) \in Number
  BY OneAndZero DEF Truth, One, Zero
<1>1. CASE op = "real"
  <2>1. M = {FlatD(w[k].num)} /\ y = w[k].num /\ w[k].num \in Number
    BY <1>1 DEF TermMeaning, Calculated, TermKinds, UnaryOps, BinaryOps, ListedOps
  <2> QED
    BY <2>1, FlatMeant
<1>2. CASE op = "variable"
  <2>1. /\ M = {<<v[w[k].id], Truth(w[k].id = x)>>} /\ y = v[w[k].id]
        /\ w[k].id \in Names
    BY <1>2 DEF TermMeaning, Calculated, TermKinds, UnaryOps, BinaryOps, ListedOps
  <2>2. v[w[k].id] \in Number /\ Truth(w[k].id = x) \in Number
    BY <2>1, <1>0 DEF IsPlace
  <2> QED
    BY <2>1, <2>2, OneMeant
<1>3. CASE op = "polynomial"
  <2> DEFINE s == w[k].poly
             p == EvalPolynomial(buildPolynomial(s), v, "")
             q == DerivePolynomial(buildPolynomial(s), v, x)
  <2>1. M = {PolynomialMeaning(s, v, x)} /\ y = p /\ Monomials(s)
    BY <1>3 DEF TermMeaning, Calculated, TermKinds, UnaryOps, BinaryOps, ListedOps
  <2>2. PolynomialMeaning(s, v, x) = <<p, q>> /\ PolynomialMeaning(s, v, x) \in Duals
    BY <2>1, PolynomialMeans
  <2>3. PolynomialMeaning(s, v, x)[1] = p
    <3> HIDE DEF p, q, s
    <3> QED
      BY <2>2, FirstOf
  <2>4. Meant({PolynomialMeaning(s, v, x)}, PolynomialMeaning(s, v, x)[1])
    BY <2>2, DualMeant
  <2> QED
    BY <2>1, <2>3, <2>4
<1>4. CASE op = "reference"
  <2>1. M = mean[ReferredTerm(w)] /\ y = e[Node(ReferredTerm(w))]
    BY <1>4 DEF TermMeaning, Calculated, UnaryOps, BinaryOps, ListedOps
  <2> QED
    BY <2>1, <1>4 DEF MeantBefore
<1> QED
  BY <1>1, <1>2, <1>3, <1>4

(* Operators on one operand mean what is calculated.                       *)
LEMMA UnaryTermMeant ==
  ASSUME NEW w, NEW k, TermKinds(w, k), NEW v, NEW x, NEW e, NEW mean,
         Calculated(w, v, e, k), MeantBefore(w, e, mean, k), w[k].op \in UnaryOps
  PROVE  Meant(TermMeaning(w, v, x, mean, k), e[Node(k)])
<1> DEFINE op == w[k].op
           y == e[Node(k)]
           A == mean[w[k].args[1]]
           c == e[Node(w[k].args[1])]
<1>1. DOMAIN w[k].args = 1 .. 1 /\ 1 \in 1 .. 1
  BY DEF TermKinds, UnaryOps, BinaryOps, ListedOps
<1>2. Meant(A, c)
  BY <1>1 DEF MeantBefore
<1>3. TermMeaning(w, v, x, mean, k) = UnaryMeanings(op, A)
  BY DEF TermMeaning, UnaryOps, BinaryOps, ListedOps
<1>4. /\ op = "name" => y = c
      /\ op = "square" => y = Times(c, c)
      /\ op = "abs" => y = Times(Sgn(c), c)
      /\ op = "sign" => y = Sgn(c)
      /\ op = "round" => y = IF Finite(c) THEN Rounded(c) ELSE c
      /\ op = "floor" => y = IF Finite(c) THEN Floor(c) ELSE c
      /\ op = "ceil" => y = IF Finite(c) THEN Negated(Floor(Negated(c))) ELSE c
  BY DEF Calculated
<1> HIDE DEF A, c, y
<1>5. c \in Number /\ Finite(c) /\ A # {} /\ \A a \in A : a \in Duals /\ a[1] = c
  BY <1>2, MeantNumber
<1>6. ASSUME NEW a \in A PROVE Meant(UnaryMeaning(op, a), y)
  <2>1. a \in Duals /\ a[1] = c
    BY <1>5
  <2>2. /\ Meant(UnaryMeaning("name", a), c)
        /\ Meant(UnaryMeaning("square", a), Times(c, c))
        /\ Meant(UnaryMeaning("abs", a), Times(Sgn(c), c))
        /\ Meant(UnaryMeaning("sign", a), Sgn(c))
        /\ Meant(UnaryMeaning("round", a), Rounded(c))
        /\ Meant(UnaryMeaning("floor", a), Floor(c))
        /\ Meant(UnaryMeaning("ceil", a), Negated(Floor(Negated(c))))
    BY <2>1, UnaryMeant
  <2> QED
    BY <2>2, <1>4, <1>5 DEF UnaryOps
<1>7. Meant(UnaryMeanings(op, A), y)
  BY <1>5, <1>6, UnariesMeant
<1> QED
  BY <1>3, <1>7 DEF y

(* And those on two.                                                       *)
LEMMA BinaryTermMeant ==
  ASSUME NEW w, NEW k, TermKinds(w, k), NEW v, NEW x, NEW e, NEW mean,
         Calculated(w, v, e, k), MeantBefore(w, e, mean, k), w[k].op \in BinaryOps
  PROVE  Meant(TermMeaning(w, v, x, mean, k), e[Node(k)])
<1> DEFINE op == w[k].op
           y == e[Node(k)]
           A == mean[w[k].args[1]]
           B == mean[w[k].args[2]]
           c == e[Node(w[k].args[1])]
           d == e[Node(w[k].args[2])]
<1>1. DOMAIN w[k].args = 1 .. 2 /\ 1 \in 1 .. 2 /\ 2 \in 1 .. 2
  BY DEF TermKinds, UnaryOps, BinaryOps, ListedOps
<1>2. Meant(A, c) /\ Meant(B, d)
  BY <1>1 DEF MeantBefore
<1>3. TermMeaning(w, v, x, mean, k) = BinaryMeanings(op, A, B, v)
  BY DEF TermMeaning, UnaryOps, BinaryOps, ListedOps
<1>4. /\ op = "+" => y = Plus(c, d)
      /\ op = "-" => y = Plus(c, Negated(d))
      /\ op = "*" => y = Times(c, d)
      /\ op = "/" => y = Times(c, Reciprocal(d))
      /\ op = "min" => y = Least(c, d)
      /\ op = "max" => y = Greatest(c, d)
      /\ op = "lesseq" => y = Truth(Leq(c, d))
      /\ op = "greater" => y = Truth(Less(d, c))
      /\ op = "pow" => y = Power(c, d[1])
      /\ op = "case" => y = IF Leq(v["x"], Num(0)) THEN c ELSE d
  BY DEF Calculated
<1>8. op = "/" => d # Num(0)
  BY DEF MeantBefore
<1>9. op = "pow" => \E n \in 0 .. 9 : B = {FlatD(Num(n))} /\ d = Num(n)
  BY DEF MeantBefore, PowerOf
<1> HIDE DEF A, B, c, d, y
<1>5. /\ A # {} /\ \A a \in A : a \in Duals /\ a[1] = c
      /\ B # {} /\ \A b \in B : b \in Duals /\ b[1] = d
  BY <1>2, MeantNumber
<1>6. ASSUME NEW a \in A, NEW b \in B PROVE Meant(BinaryMeaning(op, a, b, v), y)
  <2>1. a \in Duals /\ a[1] = c /\ b \in Duals /\ b[1] = d
    BY <1>5
  <2>2. /\ Meant(BinaryMeaning("+", a, b, v), Plus(c, d))
        /\ Meant(BinaryMeaning("-", a, b, v), Plus(c, Negated(d)))
        /\ Meant(BinaryMeaning("*", a, b, v), Times(c, d))
        /\ d # Num(0) => Meant(BinaryMeaning("/", a, b, v), Times(c, Reciprocal(d)))
        /\ Meant(BinaryMeaning("min", a, b, v), Least(c, d))
        /\ Meant(BinaryMeaning("max", a, b, v), Greatest(c, d))
        /\ Meant(BinaryMeaning("lesseq", a, b, v), Truth(Leq(c, d)))
        /\ Meant(BinaryMeaning("greater", a, b, v), Truth(Less(d, c)))
        /\ Meant(BinaryMeaning("case", a, b, v), IF Leq(v["x"], Num(0)) THEN c ELSE d)
    BY <2>1, BinaryMeant
  <2>3. CASE op = "pow"
    <3>1. PICK n \in 0 .. 9 : B = {FlatD(Num(n))} /\ d = Num(n)
      BY <1>9, <2>3
    <3>2. b = FlatD(Num(n)) /\ n \in Nat
      BY <3>1
    <3>3. Meant(BinaryMeaning("pow", a, b, v), Power(a[1], n))
      BY <2>1, <3>2, PowMeant
    <3>4. d[1] = n
      BY <3>1, FirstOf DEF Num
    <3> QED
      BY <3>3, <3>4, <2>1, <2>3, <1>4
  <2> QED
    BY <2>2, <2>3, <1>4, <1>8 DEF BinaryOps
<1>7. Meant(BinaryMeanings(op, A, B, v), y)
  BY <1>5, <1>6, BinariesMeant
<1> QED
  BY <1>3, <1>7 DEF y

(* And those on three.                                                     *)
LEMMA ListedTermMeant ==
  ASSUME NEW w, NEW k, TermKinds(w, k), NEW v, NEW x, NEW e, NEW mean,
         Calculated(w, v, e, k), MeantBefore(w, e, mean, k), w[k].op \in ListedOps
  PROVE  Meant(TermMeaning(w, v, x, mean, k), e[Node(k)])
<1> DEFINE op == w[k].op
           y == e[Node(k)]
           A == mean[w[k].args[1]]
           B == mean[w[k].args[2]]
           C == mean[w[k].args[3]]
           a == e[Node(w[k].args[1])]
           b == e[Node(w[k].args[2])]
           c == e[Node(w[k].args[3])]
           s == OperandValues(w, e, k)
<1>1. DOMAIN w[k].args = 1 .. 3 /\ 1 \in 1 .. 3 /\ 2 \in 1 .. 3 /\ 3 \in 1 .. 3
  BY DEF TermKinds, UnaryOps, BinaryOps, ListedOps
<1>2. Meant(A, a) /\ Meant(B, b) /\ Meant(C, c)
  BY <1>1 DEF MeantBefore
<1>3. TermMeaning(w, v, x, mean, k) = ListedMeanings(op, A, B, C)
  BY DEF TermMeaning, UnaryOps, BinaryOps, ListedOps
<1>4. /\ op = "listsum" => y = SumUp(s)
      /\ op = "listprod" => y = Product(s)
  BY DEF Calculated
<1>5. a \in Number /\ b \in Number /\ c \in Number
  <2> HIDE DEF a, b, c, A, B, C
  <2> QED
    BY <1>2, MeantNumber
<1>6. s \in [1 .. 3 -> Number] /\ s[1] = a /\ s[2] = b /\ s[3] = c
  <2>1. \A i \in 1 .. 3 : i = 1 \/ i = 2 \/ i = 3
    OBVIOUS
  <2>2. s = [i \in 1 .. 3 |-> e[Node(w[k].args[i])]]
    BY <1>1 DEF OperandValues
  <2>3. \A i \in 1 .. 3 : e[Node(w[k].args[i])] \in Number
    BY <2>1, <1>5
  <2> HIDE DEF s
  <2> QED
    BY <2>2, <2>3
<1> HIDE DEF A, B, C, a, b, c, s, y
<1>7. /\ SumUp(s) = Plus(Plus(Plus(Num(0), a), b), c)
      /\ Product(s) = Times(Times(Times(Num(1), a), b), c)
  <2>1. Number \in Domains
    BY DEF Domains
  <2> QED
    BY <2>1, <1>6, ThreeListed
<1>8. Plus(Num(0), a) = a /\ Times(Num(1), a) = a
  BY <1>5, WithZero DEF One, Zero
<1>9. /\ Meant(ListedMeanings("listsum", A, B, C), Plus(Plus(a, b), c))
      /\ Meant(ListedMeanings("listprod", A, B, C), Times(Times(a, b), c))
  BY <1>2, ListMeant
<1>10. Meant(ListedMeanings(op, A, B, C), y)
  BY <1>4, <1>7, <1>8, <1>9 DEF ListedOps
<1> QED
  BY <1>3, <1>10 DEF y

(* All terms mean what is calculated.                                      *)
LEMMA TermMeant ==
  ASSUME NEW w, NEW k, TermKinds(w, k), NEW v, IsPlace(v), NEW x, NEW e, NEW mean,
         Calculated(w, v, e, k), MeantBefore(w, e, mean, k),
         Fits(w[k].poly), w[k].op # "untagged"
  PROVE  Meant(TermMeaning(w, v, x, mean, k), e[Node(k)])
BY LeafMeant, UnaryTermMeant, BinaryTermMeant, ListedTermMeant DEF TermKinds

\* The polynomials of an expression are in its message.
Carried(w) == AllFit(w) /\ ~Uses(w, Len(w), "untagged")

\* The node of a divisor is not zero, or the divisor does not mean zero.
Divisible(w, e, mean) ==
  \A k \in Parts(w, Len(w)) : w[k].op = "/" =>
    \/ e[Node(w[k].args[2])] # Num(0)
    \/ \A a \in mean[w[k].args[2]] : a[1] # Num(0)

\* All parts of the expression mean the values of their nodes.
AllMeant(w, e, mean) ==
  \A k \in Parts(w, Len(w)) : Meant(mean[k], e[Node(k)])

(* The nodes of a message are calculated, those of all its terms.          *)
LEMMA AllCalculated ==
  ASSUME NEW w, NEW n, WrittenMade(w, n), Referable(w), NEW v, IsPlace(v),
         NEW k \in Parts(w, Len(w))
  PROVE  Calculated(w, v, Eval(Message(w), v), k) /\ TermKinds(w, k)
<1> DEFINE N == Len(w)
           m == Message(w)
           e == Eval(m, v)
<1>1. /\ k \in 1 .. N /\ N \in Nat
      /\ w[k].op = "reference" => Referred(m) = Node(ReferredTerm(w))
  BY PartsOf, WrittenOrdered DEF Ordered
<1>2. Carries(m, w, k) /\ TermKinds(w, k)
  BY <1>1, MessageCarries, TermsAre
<1>3. \A j \in 1 .. Node(N) : e[j] = NodeValue(m, v, e, j)
  <2>1. MessageMade(m, Ranks(w), Node(N), 4 * N)
    BY MessageIsMade
  <2> HIDE DEF m, N
  <2> QED
    BY <2>1, EvalRuns
<1>4. Node(k) \in 1 .. Node(N) /\ Inner(k) \in 1 .. Node(N)
  BY <1>1, NodeNumbers
<1>5. NodesCalculated(m, v, e, Node(k)) /\ NodesCalculated(m, v, e, Inner(k))
  <2> HIDE DEF m, e, N
  <2> QED
    BY <1>3, <1>4 DEF NodesCalculated
<1> HIDE DEF m, e, N
<1>6. Calculated(w, v, e, k)
  BY <1>1, <1>2, <1>5, Calculates
<1> QED
  BY <1>2, <1>6 DEF m, e

(* The exponent of a power is a leaf.                                      *)
LEMMA ExponentMeant ==
  ASSUME NEW w, NEW n, WrittenMade(w, n), Referable(w), NEW v, IsPlace(v), NEW x,
         NEW k \in Parts(w, Len(w)), w[k].op = "pow"
  PROVE  PowerOf(w, Eval(Message(w), v), Meaning(w, v, x), k)
<1> DEFINE j == w[k].args[2]
           e == Eval(Message(w), v)
           mean == Meaning(w, v, x)
<1>1. TermKinds(w, k) /\ k \in 1 .. Len(w)
  BY PartsOf, TermsAre
<1>2. DOMAIN w[k].args = 1 .. 2 /\ 2 \in 1 .. 2
  BY <1>1 DEF TermKinds, UnaryOps, ListedOps
<1>3. j \in Parts(w, Len(w))
  BY <1>2, PartsOf
<1>4. TermMade(w, n, k)
  <2>1. CASE k \in 1 .. n
    <3>1. w[k].op \in {"real", "variable", "reference", "polynomial", "untagged"}
      BY <2>1, LeafKinds DEF WrittenMade
    <3> QED
      BY <3>1
  <2> QED
    BY <2>1, <1>1, WrittenOrdered DEF WrittenMade
<1>5. w[j].op = "real" /\ w[j].num \in {Num(i) : i \in 0 .. 9}
  BY <1>4 DEF TermMade
<1>6. PICK i \in 0 .. 9 : w[j].num = Num(i)
  BY <1>5
<1>7. Calculated(w, v, e, j) /\ mean[j] = TermMeaning(w, v, x, mean, j)
  BY <1>3, AllCalculated, MeaningRuns
<1>8. e[Node(j)] = Num(i)
  BY <1>5, <1>6, <1>7 DEF Calculated
<1> HIDE DEF mean, j
<1>9. mean[j] = {FlatD(Num(i))}
  BY <1>5, <1>6, <1>7 DEF TermMeaning, UnaryOps, BinaryOps, ListedOps
<1> QED
  BY <1>8, <1>9 DEF PowerOf, mean, j

(* The interpreter calculates what the parts of an expression mean, in the *)
(* order in which each comes after its operands, where no divisor is zero. *)
LEMMA ValuesMeant ==
  ASSUME NEW w, NEW n, WrittenMade(w, n), Referable(w), Carried(w), NEW v, IsPlace(v), NEW x,
         Divisible(w, Eval(Message(w), v), Meaning(w, v, x))
  PROVE  AllMeant(w, Eval(Message(w), v), Meaning(w, v, x))
<1> DEFINE P == Parts(w, Len(w))
           e == Eval(Message(w), v)
           mean == Meaning(w, v, x)
           r == [k \in P |-> Rank(w, k)]
           S == {k \in P : Meant(mean[k], e[Node(k)])}
<1>1. r \in [P -> Nat]
  <2>1. ASSUME NEW k \in P PROVE Rank(w, k) \in Nat
    <3>1. Rank(w, k) \in 0 .. 2 * Len(w)
      BY PartsOf
    <3> QED
      BY <3>1
  <2> HIDE DEF P
  <2> QED
    BY <2>1
<1>2. ASSUME NEW k \in P, \A i \in P : r[i] < r[k] => i \in S PROVE k \in S
  <2>1. \A i \in P : Rank(w, i) < Rank(w, k) => Meant(mean[i], e[Node(i)])
    <3> HIDE DEF P, mean, e
    <3> QED
      BY <1>2
  <2>2. Calculated(w, v, e, k) /\ TermKinds(w, k)
    BY AllCalculated
  <2>3. mean[k] = TermMeaning(w, v, x, mean, k)
    BY MeaningRuns
  <2>6. Fits(w[k].poly) /\ w[k].op # "untagged"
    BY DEF Carried, AllFit, Uses
  <2>4. MeantBefore(w, e, mean, k)
    <3>1. \A i \in DOMAIN w[k].args : Meant(mean[w[k].args[i]], e[Node(w[k].args[i])])
      <4> SUFFICES ASSUME NEW i \in DOMAIN w[k].args
                   PROVE  Meant(mean[w[k].args[i]], e[Node(w[k].args[i])])
        OBVIOUS
      <4>1. w[k].args[i] \in P /\ Rank(w, w[k].args[i]) < Rank(w, k)
        BY PartsOf
      <4> HIDE DEF P, mean, e
      <4> QED
        BY <4>1, <2>1
    <3>2. w[k].op = "reference" => Meant(mean[ReferredTerm(w)], e[Node(ReferredTerm(w))])
      <4> SUFFICES ASSUME w[k].op = "reference"
                   PROVE  Meant(mean[ReferredTerm(w)], e[Node(ReferredTerm(w))])
        OBVIOUS
      <4>1. ReferredTerm(w) \in P /\ Rank(w, ReferredTerm(w)) < Rank(w, k)
        BY PartsOf
      <4> HIDE DEF P, mean, e
      <4> QED
        BY <4>1, <2>1
    <3>3. w[k].op = "/" => e[Node(w[k].args[2])] # Num(0)
      <4> SUFFICES ASSUME w[k].op = "/" PROVE e[Node(w[k].args[2])] # Num(0)
        OBVIOUS
      <4>1. 2 \in DOMAIN w[k].args
        BY <2>2 DEF TermKinds, UnaryOps, BinaryOps, ListedOps
      <4>2. Meant(mean[w[k].args[2]], e[Node(w[k].args[2])])
        BY <4>1, <3>1
      <4> HIDE DEF mean, e
      <4>3. PICK a \in mean[w[k].args[2]] : a[1] = e[Node(w[k].args[2])]
        BY <4>2 DEF Meant
      <4> QED
        BY <4>3 DEF Divisible, mean, e
    <3>4. w[k].op = "pow" => PowerOf(w, e, mean, k)
      BY ExponentMeant
    <3> HIDE DEF mean, e
    <3> QED
      BY <3>1, <3>2, <3>3, <3>4 DEF MeantBefore
  <2> HIDE DEF mean, e
  <2>5. Meant(TermMeaning(w, v, x, mean, k), e[Node(k)])
    BY <2>2, <2>4, <2>6, TermMeant
  <2> HIDE DEF P
  <2> QED
    BY <2>3, <2>5
<1>3. P \subseteq S
  <2> HIDE DEF P, S, r
  <2> QED
    BY <1>1, <1>2, RankInduction
<1> QED
  BY <1>3 DEF AllMeant

\* No divisor means zero, or what is not finite.
NoneBroken(w, n, v) ==
  \A k \in n + 1 .. Len(w) : w[k].op = "/" =>
    \A a \in Meaning(w, v, "")[w[k].args[2]] : a[1] \notin {Num(0), NotFinite}

(* Where no division is broken the values of all parts are those that are  *)
(* meant, whichever slopes are asked for.                                  *)
LEMMA AllValuesMeant ==
  ASSUME NEW w, NEW n, WrittenMade(w, n), Referable(w), Carried(w), NEW v, IsPlace(v),
         NoneBroken(w, n, v), NEW x
  PROVE  /\ AllMeant(w, Eval(Message(w), v), Meaning(w, v, x))
         /\ Divisible(w, Eval(Message(w), v), Meaning(w, v, x))
<1> DEFINE e == Eval(Message(w), v)
           flat == Meaning(w, v, "")
<1>1. ASSUME NEW k \in Parts(w, Len(w)), w[k].op = "/"
      PROVE  /\ \A a \in flat[w[k].args[2]] : a[1] # Num(0)
             /\ w[k].args[2] \in Parts(w, Len(w))
  <2>1. k \in 1 .. Len(w) /\ TermKinds(w, k)
    BY PartsOf, TermsAre
  <2>2. ASSUME k \in 1 .. n PROVE FALSE
    <3>1. w[k].op \in {"real", "variable", "reference", "polynomial", "untagged"}
      BY <2>2, LeafKinds DEF WrittenMade
    <3> QED
      BY <3>1, <1>1
  <2>3. k \in n + 1 .. Len(w)
    BY <2>1, <2>2, WrittenOrdered
  <2>4. 2 \in DOMAIN w[k].args
    BY <2>1, <1>1 DEF TermKinds, UnaryOps, BinaryOps, ListedOps
  <2> QED
    BY <2>3, <2>4, <1>1, PartsOf DEF NoneBroken
<1>2. Divisible(w, e, flat)
  <2> HIDE DEF e, flat
  <2> QED
    BY <1>1 DEF Divisible
<1>3. AllMeant(w, e, flat)
  BY <1>2, ValuesMeant
<1>4. Divisible(w, e, Meaning(w, v, x))
  <2> SUFFICES ASSUME NEW k \in Parts(w, Len(w)), w[k].op = "/"
               PROVE  e[Node(w[k].args[2])] # Num(0)
    BY DEF Divisible
  <2>1. /\ \A a \in flat[w[k].args[2]] : a[1] # Num(0)
        /\ w[k].args[2] \in Parts(w, Len(w))
    BY <1>1
  <2> HIDE DEF e, flat
  <2>2. Meant(flat[w[k].args[2]], e[Node(w[k].args[2])])
    BY <1>3, <2>1 DEF AllMeant
  <2> QED
    BY <2>1, <2>2 DEF Meant
<1> QED
  BY <1>4, ValuesMeant

(* The value that the interpreter finds is that of the expression as it    *)
(* was written, whatever the operators built of it (operator-, operator/,  *)
(* name and Ref; AdvFunc::eval), wherever no division is by zero, if it    *)
(* finds one within the nesting limit; the offsets of polynomials have to  *)
(* fit in an int, and operands of class cv::Polynomial lose their tag.     *)
THEOREM ValueIsMeant == Spec => []ValueMeant
<1>1. WritingInv => ValueMeant
  <2> SUFFICES ASSUME WritingInv, Answered, query.d = "", ~Broken
               PROVE  {a[1] : a \in Meaning(written, query.place, "")[Len(written)]} = {result}
    BY DEF ValueMeant
  <2> DEFINE w == written
             v == query.place
             N == Len(w)
             m == Message(w)
             A == Meaning(w, v, "")[N]
  <2>1. /\ WrittenMade(w, Leaves) /\ Referable(w) /\ message = m /\ v \in Places
        /\ result = Answer(m, query) /\ Carried(w)
    BY DEF WritingInv, Before, Sent, Asked, Answered, Carried
  <2>2. IsPlace(v) /\ Len(m) = Node(N)
    BY <2>1, PlacesGiven, AnswersAreValues
  <2>3. result = Eval(m, v)[Node(N)]
    BY <2>1, <2>2 DEF Answer
  <2>4. NoneBroken(w, Leaves, v)
    BY DEF Broken, Terms, NoneBroken
  <2>5. N \in Parts(w, N)
    BY <2>1, WrittenOrdered, PartsAre
  <2>6. AllMeant(w, Eval(m, v), Meaning(w, v, ""))
    BY <2>1, <2>2, <2>4, AllValuesMeant
  <2>7. Meant(A, result)
    BY <2>3, <2>5, <2>6 DEF AllMeant
  <2> HIDE DEF A
  <2>8. {a[1] : a \in A} = {result}
    BY <2>7 DEF Meant
  <2> QED
    BY <2>8 DEF A
<1> QED
  BY <1>1, WritingAlways, PTL

------------------------------------------------------------------------------
(* Slopes: each operation derives what its term means.                     *)

\* The slope of a term's node by the values and slopes of its operands' nodes.
Derived(w, v, x, e, d, k) ==
  LET op == w[k].op
      y == d[Node(k)]
      a == e[Node(w[k].args[1])]
      b == e[Node(w[k].args[2])]
      da == d[Node(w[k].args[1])]
      db == d[Node(w[k].args[2])]
      ds == OperandValues(w, d, k)
  IN  /\ op \in {"real", "sign", "lesseq", "greater"} => y = Num(0)
      /\ op = "variable" => y = Truth(w[k].id = x)
      /\ op = "polynomial" => y = DerivePolynomial(buildPolynomial(w[k].poly), v, x)
      /\ op = "reference" => y = d[Node(ReferredTerm(w))]
      /\ op \in {"name", "round", "floor", "ceil"} => y = da
      /\ op = "abs" => y = Times(Sgn(a), da)
      /\ op = "+" => y = Plus(da, db)
      /\ op = "-" => y = Plus(da, Negated(db))
      /\ op = "*" => y = Plus(Times(a, db), Times(b, da))
      /\ op = "/" => y = Plus(Times(a, Times(Negated(Reciprocal(Times(b, b))), db)),
                              Times(Reciprocal(b), da))
      /\ op = "min" => y = IF Leq(a, b) THEN da ELSE db
      /\ op = "max" => y = IF Less(b, a) THEN da ELSE db
      /\ op = "pow" => y = PowerRule(a, b[1], da)
      /\ op = "case" => y = IF Leq(v["x"], Num(0)) THEN da ELSE db
      /\ op = "listsum" => y = SumUp(ds)
      /\ op = "listprod" => y = ProductRule(OperandValues(w, e, k), ds)

\* The same of its slope.
NodesDerived(m, v, x, e, d, j) == d[j] = NodeSlope(m, v, x, e, d, j)

(* The interpreter derives a term's node from its operands' nodes.         *)
LEMMA Derives ==
  ASSUME NEW w, NEW k, NEW m, Carries(m, w, k), TermKinds(w, k), NEW v, NEW x, NEW e, NEW d,
         NodesCalculated(m, v, e, Inner(k)),
         NodesDerived(m, v, x, e, d, Node(k)), NodesDerived(m, v, x, e, d, Inner(k)),
         w[k].op = "reference" => Referred(m) = Node(ReferredTerm(w))
  PROVE  Derived(w, v, x, e, d, k)
<1> DEFINE op == w[k].op
           y == d[Node(k)]
           a == e[Node(w[k].args[1])]
           b == e[Node(w[k].args[2])]
           da == d[Node(w[k].args[1])]
           db == d[Node(w[k].args[2])]
<1>1. /\ y = NodeSlope(m, v, x, e, d, Node(k))
      /\ e[Inner(k)] = NodeValue(m, v, e, Inner(k))
      /\ d[Inner(k)] = NodeSlope(m, v, x, e, d, Inner(k))
  BY DEF NodesCalculated, NodesDerived
<1>2. m[Node(k)].op = OpOf(op)
  BY ArgsOf
<1>3. CASE op \in {"real", "variable", "polynomial", "reference"}
  <2>1. m[Node(k)].op = op
    BY <1>2, <1>3 DEF OpOf
  <2>2. /\ m[Node(k)].num = w[k].num /\ m[Node(k)].id = w[k].id
        /\ m[Node(k)].poly = buildPolynomial(w[k].poly)
    BY DEF Carries
  <2>3. op = "real" => y = Num(0)
    BY <1>1, <2>1, <2>2 DEF NodeSlope
  <2>4. op = "variable" => y = Truth(w[k].id = x)
    <3> SUFFICES ASSUME op = "variable" PROVE y = Truth(w[k].id = x)
      OBVIOUS
    <3>1. y = Truth(m[Node(k)].id = x)
      BY <1>1, <2>1 DEF NodeSlope
    <3>2. m[Node(k)].id = x <=> w[k].id = x
      BY <2>2
    <3> QED
      BY <3>1, <3>2 DEF Truth
  <2>5. op = "polynomial" => y = DerivePolynomial(buildPolynomial(w[k].poly), v, x)
    BY <1>1, <2>1, <2>2 DEF NodeSlope
  <2>6. op = "reference" => y = d[Node(ReferredTerm(w))]
    BY <1>1, <2>1, <2>2 DEF NodeSlope
  <2> HIDE DEF y, a, b, da, db
  <2> QED
    BY <1>3, <2>3, <2>4, <2>5, <2>6 DEF Derived, y
<1>4. CASE op \in UnaryOps /\ op # "square"
  <2>1. /\ m[Node(k)].op = op /\ e[m[Node(k)].args[1]] = a
        /\ d[m[Node(k)].args[1]] = da
    BY <1>2, <1>4, ArgsOf DEF OpOf, UnaryOps
  <2>2. /\ op = "sign" => y = Num(0)
        /\ op \in {"name", "round", "floor", "ceil"} => y = da
        /\ op = "abs" => y = Times(Sgn(a), da)
    <3> HIDE DEF a, da, y
    <3> QED
      BY <1>1, <1>4, <2>1 DEF NodeSlope, UnaryOps
  <2> HIDE DEF y, a, b, da, db
  <2> QED
    BY <1>4, <2>2 DEF Derived, UnaryOps, y, a, da
<1>10. CASE op = "square"
  BY <1>10 DEF Derived
<1>12. CASE op = "untagged"
  BY <1>12 DEF Derived
<1>5. CASE op \in BinaryOps \ {"+", "-", "*", "/", "case"}
  <2>1. /\ m[Node(k)].op = op /\ e[m[Node(k)].args[1]] = a /\ e[m[Node(k)].args[2]] = b
        /\ d[m[Node(k)].args[1]] = da /\ d[m[Node(k)].args[2]] = db
    BY <1>2, <1>5, ArgsOf DEF OpOf, BinaryOps
  <2>2. /\ op = "min" => y = IF Leq(a, b) THEN da ELSE db
        /\ op = "max" => y = IF Less(b, a) THEN da ELSE db
        /\ op \in {"lesseq", "greater"} => y = Num(0)
        /\ op = "pow" => y = PowerRule(a, b[1], da)
    <3> HIDE DEF a, b, y, da, db
    <3> QED
      BY <1>1, <1>5, <2>1 DEF NodeSlope, BinaryOps
  <2> HIDE DEF y, a, b, da, db
  <2> QED
    BY <1>5, <2>2 DEF Derived, BinaryOps, y, a, b, da, db
<1>6. CASE op = "+" \/ op = "*"
  <2>1. /\ e[m[Node(k)].args[1]] = a /\ e[m[Node(k)].args[2]] = b
        /\ d[m[Node(k)].args[1]] = da /\ d[m[Node(k)].args[2]] = db
    BY <1>6, ArgsOf DEF BinaryOps
  <2>2. /\ op = "+" => m[Node(k)].op = "sum"
        /\ op = "*" => m[Node(k)].op = "prod"
    BY <1>2 DEF OpOf
  <2>3. /\ op = "+" => y = Plus(da, db)
        /\ op = "*" => y = Plus(Times(a, db), Times(b, da))
    <3> HIDE DEF a, b, y, da, db
    <3> QED
      BY <1>1, <1>6, <2>1, <2>2 DEF NodeSlope
  <2> HIDE DEF y, a, b, da, db
  <2> QED
    BY <1>6, <2>3 DEF Derived, y, a, b, da, db
<1>7. CASE op = "-" \/ op = "/"
  <2>1. /\ e[m[Node(k)].args[1]] = a /\ m[Node(k)].args[2] = Inner(k)
        /\ e[m[Inner(k)].args[1]] = b
        /\ d[m[Node(k)].args[1]] = da /\ d[m[Inner(k)].args[1]] = db
    BY <1>7, ArgsOf DEF BinaryOps
  <2>2. /\ op = "-" => m[Node(k)].op = "sum" /\ m[Inner(k)].op = "negate"
        /\ op = "/" => m[Node(k)].op = "prod" /\ m[Inner(k)].op = "multinv"
    BY <1>2 DEF OpOf, Carries
  <2>3. op = "/" => e[Inner(k)] = Reciprocal(b)
    <3> HIDE DEF a, b, y, da, db
    <3> QED
      BY <1>1, <1>7, <2>1, <2>2 DEF NodeValue
  <2>4. /\ op = "-" => d[Inner(k)] = Negated(db)
        /\ op = "/" => d[Inner(k)] = Times(Negated(Reciprocal(Times(b, b))), db)
    <3> HIDE DEF a, b, y, da, db
    <3> QED
      BY <1>1, <1>7, <2>1, <2>2 DEF NodeSlope
  <2>5. /\ op = "-" => y = Plus(da, Negated(db))
        /\ op = "/" => y = Plus(Times(a, Times(Negated(Reciprocal(Times(b, b))), db)),
                                Times(Reciprocal(b), da))
    <3> HIDE DEF a, b, y, da, db
    <3> QED
      BY <1>1, <1>7, <2>1, <2>2, <2>3, <2>4 DEF NodeSlope
  <2> HIDE DEF y, a, b, da, db
  <2> QED
    BY <1>7, <2>5 DEF Derived, y, a, b, da, db
<1>8. CASE op = "case"
  <2>1. d[m[Node(k)].args[1]] = da /\ d[m[Node(k)].args[2]] = db
    BY <1>8, ArgsOf DEF BinaryOps
  <2>2. m[Node(k)].op = "case"
    BY <1>2, <1>8 DEF OpOf
  <2>3. y = d[Chosen(m[Node(k)].args, v)]
    BY <1>1, <2>2 DEF NodeSlope
  <2>4. y = IF Leq(v["x"], Num(0)) THEN da ELSE db
    BY <2>1, <2>3 DEF Chosen
  <2> HIDE DEF y, a, b, da, db
  <2> QED
    BY <1>8, <2>4 DEF Derived, y, da, db
<1>9. CASE op \in ListedOps
  <2> DEFINE s == OperandValues(w, e, k)
             ds == OperandValues(w, d, k)
  <2>1. DOMAIN w[k].args = 1 .. 3 /\ m[Node(k)].op = op
    BY <1>2, <1>9 DEF TermKinds, UnaryOps, BinaryOps, ListedOps, OpOf
  <2>2. /\ [i \in DOMAIN m[Node(k)].args |-> e[m[Node(k)].args[i]]] = s
        /\ [i \in DOMAIN m[Node(k)].args |-> d[m[Node(k)].args[i]]] = ds
    <3>1. /\ DOMAIN m[Node(k)].args = 1 .. 3
          /\ \A i \in 1 .. 3 : m[Node(k)].args[i] = Node(w[k].args[i])
      BY <1>9, ArgsOf
    <3> QED
      BY <3>1, <2>1 DEF OperandValues
  <2>3. /\ op = "listsum" => y = SumUp(ds)
        /\ op = "listprod" => y = ProductRule(s, ds)
    <3> HIDE DEF s, ds, y
    <3> QED
      BY <1>1, <1>9, <2>1, <2>2 DEF NodeSlope
  <2> HIDE DEF y, a, b, da, db
  <2> QED
    BY <1>9, <2>3 DEF Derived, ListedOps, y
<1> QED
  BY <1>3, <1>4, <1>5, <1>6, <1>7, <1>8, <1>9, <1>10, <1>12 DEF TermKinds

(* The nodes of a message are derived, those of all its terms.             *)
LEMMA AllDerived ==
  ASSUME NEW w, NEW n, WrittenMade(w, n), Referable(w), NEW v, IsPlace(v), NEW x,
         NEW k \in Parts(w, Len(w))
  PROVE  /\ Derived(w, v, x, Eval(Message(w), v), Derive(Message(w), v, x), k)
         /\ Derive(Message(w), v, x)[Node(k)] \in Value
<1> DEFINE N == Len(w)
           m == Message(w)
           e == Eval(m, v)
           d == Derive(m, v, x)
<1>1. /\ k \in 1 .. N /\ N \in Nat
      /\ w[k].op = "reference" => Referred(m) = Node(ReferredTerm(w))
  BY PartsOf, WrittenOrdered DEF Ordered
<1>2. Carries(m, w, k) /\ TermKinds(w, k)
  BY <1>1, MessageCarries, TermsAre
<1>3. /\ \A j \in 1 .. Node(N) : e[j] = NodeValue(m, v, e, j)
      /\ \A j \in 1 .. Node(N) : d[j] = NodeSlope(m, v, x, e, d, j)
      /\ d \in [1 .. Node(N) -> Value]
  <2>1. MessageMade(m, Ranks(w), Node(N), 4 * N)
    BY MessageIsMade
  <2> HIDE DEF m, N
  <2> QED
    BY <2>1, EvalRuns, DeriveRuns
<1>4. Node(k) \in 1 .. Node(N) /\ Inner(k) \in 1 .. Node(N)
  BY <1>1, NodeNumbers
<1>5. /\ NodesCalculated(m, v, e, Inner(k))
      /\ NodesDerived(m, v, x, e, d, Node(k)) /\ NodesDerived(m, v, x, e, d, Inner(k))
  <2> HIDE DEF m, e, N, d
  <2> QED
    BY <1>3, <1>4 DEF NodesCalculated, NodesDerived
<1>6. d[Node(k)] \in Value
  BY <1>3, <1>4
<1> HIDE DEF m, e, N, d
<1>7. Derived(w, v, x, e, d, k)
  BY <1>1, <1>2, <1>5, Derives
<1> QED
  BY <1>6, <1>7 DEF m, e, d

\* A node has slope p: with value c, it is what the term means, or it is not finite
\* where the expression has powers of what is not positive, which are in set S.
Sloped(A, c, p, S) ==
  \/ p = NotFinite /\ S # {}
  \/ <<c, p>> \in A /\ <<c, p>> \in Duals

(* The slope of a quotient, as it is for a product by a reciprocal.        *)
LEMMA QuotientSlope ==
  ASSUME NEW c \in Number, NEW p \in Number, NEW d \in Number, NEW q \in Number, d # Num(0)
  PROVE  /\ Plus(Times(c, Times(Negated(Reciprocal(Times(d, d))), q)), Times(Reciprocal(d), p))
              = Times(Minus(Times(p, d), Times(c, q)), Reciprocal(Times(d, d)))
         /\ Times(c, Reciprocal(d)) \in Number
         /\ Times(Minus(Times(p, d), Times(c, q)), Reciprocal(Times(d, d))) \in Number
<1> DEFINE r == Reciprocal(d)
           D == Times(d, d)
           R == Reciprocal(D)
<1>1. r \in Number /\ Times(d, r) = Num(1)
  BY ReciprocalLaw
<1>2. D \in Number
  BY NumbersClosed
<1>3. D # Num(0)
  BY SquareNotZero
<1>4. R \in Number /\ Times(D, R) = Num(1)
  BY <1>2, <1>3, ReciprocalLaw
<1> HIDE DEF r
<1>5. Times(d, R) \in Number
  BY <1>4, NumbersClosed
<1>6. r = Times(d, R)
  <2> HIDE DEF R
  <2>1. Times(Times(d, d), R) = Times(d, Times(d, R))
    BY <1>4, TimesLaws
  <2>2. Times(d, Times(d, R)) = Num(1)
    BY <2>1, <1>4
  <2> DEFINE u == Times(d, R)
  <2>3. u \in Number /\ Times(d, u) = Num(1)
    BY <1>5, <2>2
  <2> HIDE DEF u, D
  <2>4. Times(Times(d, r), u) = Times(d, Times(r, u)) /\ Times(r, u) = Times(u, r)
    BY <2>3, <1>1, TimesLaws
  <2>5. Times(Times(d, u), r) = Times(d, Times(u, r))
    BY <2>3, <1>1, TimesLaws
  <2>6. Times(Num(1), u) = u /\ Times(Num(1), r) = r
    BY <2>3, <1>1, WithZero DEF One
  <2> QED
    BY <2>3, <2>4, <2>5, <2>6, <1>1 DEF u
<1> HIDE DEF R, D
<1>7. Times(p, d) \in Number /\ Times(c, q) \in Number /\ Negated(R) \in Number
  BY <1>4, NumbersClosed
<1>8. Times(Negated(R), q) = Negated(Times(R, q)) /\ Times(R, q) \in Number
  BY <1>4, TimesLaws, NumbersClosed
<1>9. Times(c, Negated(Times(R, q))) = Negated(Times(R, Times(c, q)))
  <2>1. Negated(Times(R, q)) \in Number
    BY <1>8, NumbersClosed
  <2>2. Times(c, Negated(Times(R, q))) = Times(Negated(Times(R, q)), c)
    BY <2>1, TimesLaws
  <2>3. Times(Negated(Times(R, q)), c) = Negated(Times(Times(R, q), c))
    BY <1>8, TimesLaws
  <2>4. Times(Times(R, q), c) = Times(R, Times(q, c)) /\ Times(q, c) = Times(c, q)
    BY <1>4, TimesLaws
  <2> QED
    BY <2>2, <2>3, <2>4
<1>10. Times(r, p) = Times(R, Times(p, d))
  <2>1. Times(Times(d, R), p) = Times(d, Times(R, p)) /\ Times(R, p) = Times(p, R)
    BY <1>4, TimesLaws
  <2>2. Times(d, Times(R, p)) = Times(R, Times(d, p)) /\ Times(d, p) = Times(p, d)
    BY <1>4, SwapFactors, TimesLaws
  <2> QED
    BY <1>6, <2>1, <2>2
<1> DEFINE x == Times(c, q)
           y == Times(p, d)
<1>11. x \in Number /\ y \in Number
  BY <1>7
<1> HIDE DEF x, y
<1>12. Plus(Negated(Times(R, x)), Times(R, y)) = Minus(Times(R, y), Times(R, x))
  <2>1. Times(R, x) \in Number /\ Times(R, y) \in Number
    BY <1>4, <1>11, NumbersClosed
  <2>2. Negated(Times(R, x)) \in Number
    BY <2>1, NumbersClosed
  <2> QED
    BY <2>1, <2>2, PlusLaws DEF Minus
<1>13. Minus(Times(R, y), Times(R, x)) = Times(R, Minus(y, x))
  BY <1>4, <1>11, MinusLaws
<1>14. Minus(y, x) \in Number
  BY <1>11, NumbersClosed
<1>15. Times(R, Minus(y, x)) = Times(Minus(y, x), R) /\ Times(Minus(y, x), R) \in Number
  BY <1>4, <1>14, TimesLaws, NumbersClosed
<1>16. Times(c, r) \in Number
  BY <1>1, NumbersClosed
<1>17. Plus(Times(c, Times(Negated(R), q)), Times(r, p)) = Times(Minus(y, x), R)
  BY <1>8, <1>9, <1>10, <1>12, <1>13, <1>15 DEF x, y
<1> QED
  BY <1>15, <1>16, <1>17 DEF r, R, D, x, y

(* The slope of a product of three.                                        *)
LEMMA ProductSlope ==
  ASSUME NEW a \in Number, NEW b \in Number, NEW c \in Number,
         NEW p \in Number, NEW q \in Number, NEW r \in Number
  PROVE  Plus(Plus(Times(Times(p, b), c), Times(Times(a, q), c)), Times(Times(a, b), r))
           = Plus(Times(Times(a, b), r), Times(Plus(Times(a, q), Times(p, b)), c))
<1> DEFINE x == Times(p, b)
           y == Times(a, q)
           z == Times(Times(a, b), r)
<1>1. x \in Number /\ y \in Number /\ Times(a, b) \in Number
  BY NumbersClosed
<1>2. z \in Number
  BY <1>1, NumbersClosed
<1> HIDE DEF x, y, z
<1>3. Plus(x, y) \in Number /\ Plus(y, x) \in Number /\ Plus(x, y) = Plus(y, x)
  BY <1>1, NumbersClosed, PlusLaws
<1>4. Times(c, Plus(x, y)) = Plus(Times(c, x), Times(c, y))
  BY <1>1, TimesLaws
<1>5. Times(c, Plus(x, y)) = Times(Plus(x, y), c) /\ Times(c, x) = Times(x, c)
      /\ Times(c, y) = Times(y, c)
  BY <1>1, <1>3, TimesLaws
<1>6. Times(Plus(x, y), c) \in Number
  BY <1>3, NumbersClosed
<1>7. Plus(Times(Plus(x, y), c), z) = Plus(z, Times(Plus(x, y), c))
  BY <1>2, <1>6, PlusLaws
<1> QED
  BY <1>3, <1>4, <1>5, <1>7 DEF x, y, z

(* The rule of powers gives the slope of repeated multiplication, at bases *)
(* that are positive; elsewhere it is not finite.                          *)
LEMMA PowerSlope ==
  ASSUME NEW c \in Number, NEW p \in Value, NEW n \in Nat
  PROVE  /\ ~Positive(c) \/ p = NotFinite => PowerRule(c, n, p) = NotFinite
         /\ Positive(c) /\ p \in Number => PowerRule(c, n, p) = PowSlope(c, n, p)
<1> DEFINE f == Power(c, n - 1)
<1>1. c \in Value /\ Num(n) \in Number /\ Num(n) \in Value /\ Num(0) \in Number
      /\ Num(0) \in Value
  BY NumFrac DEF Value
<1>2. f \in Value
  BY <1>1, PowerClosed
<1>3. Times(Num(n), p) \in Value
  BY <1>1, ValuesClosed
<1>4. ASSUME ~Positive(c) PROVE PowerRule(c, n, p) = NotFinite
  <2>1. PowerRule(c, n, p) = Times(f, Plus(Times(Num(n), p), NotFinite))
    BY <1>4 DEF PowerRule
  <2> HIDE DEF f
  <2> QED
    BY <2>1, <1>2, <1>3, NotFiniteStays
<1>5. ASSUME Positive(c) PROVE PowerRule(c, n, p) = Times(f, Plus(Times(Num(n), p), Num(0)))
  BY <1>5 DEF PowerRule
<1>6. ASSUME Positive(c), p = NotFinite PROVE PowerRule(c, n, p) = NotFinite
  <2>1. Times(Num(n), p) = NotFinite
    BY <1>1, <1>6, NotFiniteStays
  <2>2. Plus(NotFinite, Num(0)) = NotFinite
    BY <1>1, NotFiniteStays
  <2> HIDE DEF f
  <2>3. Times(f, NotFinite) = NotFinite
    BY <1>2, NotFiniteStays
  <2> QED
    BY <2>1, <2>2, <2>3, <1>5, <1>6
<1>7. ASSUME Positive(c), p \in Number PROVE PowerRule(c, n, p) = PowSlope(c, n, p)
  <2>1. Times(Num(n), p) \in Number
    BY <1>1, <1>7, NumbersClosed
  <2>2. Plus(Times(Num(n), p), Num(0)) = Times(Num(n), p)
    BY <2>1, WithZero DEF Zero
  <2>3. PowerRule(c, n, p) = Times(f, Times(Num(n), p))
    BY <2>2, <1>5, <1>7
  <2>4. CASE n = 0
    <3>1. Times(Num(n), p) = Num(0)
      BY <2>4, <1>7, WithZero DEF Zero
    <3>2. Raised(c, 1) = c
      <4>1. Raised(c, 0 + 1) = Times(Raised(c, 0), c) /\ Raised(c, 0) = Num(1)
        BY RaisedNumber, 0 \in Nat
      <4>2. Times(Num(1), c) = c
        BY WithZero DEF One
      <4> QED
        BY <4>1, <4>2
    <3>3. f = Reciprocal(c)
      BY <2>4, <3>2 DEF Power
    <3>4. c # Num(0)
      BY <1>7, SignLaws DEF Zero
    <3>5. f \in Number
      BY <3>3, <3>4, ReciprocalLaw
    <3> HIDE DEF f
    <3>6. Times(f, Num(0)) = Num(0)
      BY <3>5, WithZero DEF Zero
    <3> QED
      BY <2>3, <2>4, <3>1, <3>6 DEF PowSlope
  <2>5. CASE n # 0
    <3>1. n - 1 \in Nat /\ ~(n - 1 < 0)
      BY <2>5
    <3>2. f = Raised(c, n - 1)
      BY <3>1 DEF Power
    <3>3. f \in Number
      BY <3>1, <3>2, RaisedNumber
    <3>4. PowSlope(c, n, p) = Times(Times(Num(n), Raised(c, n - 1)), p)
      BY <2>5 DEF PowSlope
    <3> HIDE DEF f
    <3>5. /\ Times(f, Times(Num(n), p)) = Times(Num(n), Times(f, p))
          /\ Times(Times(Num(n), f), p) = Times(Num(n), Times(f, p))
      BY <1>1, <1>7, <3>3, SwapFactors, TimesLaws
    <3> QED
      BY <2>3, <3>2, <3>4, <3>5
  <2> QED
    BY <2>4, <2>5
<1> QED
  BY <1>4, <1>6, <1>7

(* What is meant of operands is meant of a term: operators on one,         *)
LEMMA SlopesOfOne ==
  ASSUME NEW op, NEW A, NEW c, NEW p, <<c, p>> \in A,
         NEW y \in Number, NEW z \in Number, <<y, z>> \in UnaryMeaning(op, <<c, p>>), NEW S
  PROVE  Sloped(UnaryMeanings(op, A), y, z, S)
<1>1. <<y, z>> \in UnaryMeanings(op, A)
  BY DEF UnaryMeanings
<1>2. <<y, z>> \in Duals
  BY DEF Duals
<1> QED
  BY <1>1, <1>2 DEF Sloped

(* on two,                                                                 *)
LEMMA SlopesOfTwo ==
  ASSUME NEW op, NEW v, NEW A, NEW a \in A, NEW B, NEW b \in B,
         NEW y \in Number, NEW z \in Number, <<y, z>> \in BinaryMeaning(op, a, b, v), NEW S
  PROVE  Sloped(BinaryMeanings(op, A, B, v), y, z, S)
<1>1. <<a, b>> \in A \X B /\ <<a, b>>[1] = a /\ <<a, b>>[2] = b
  OBVIOUS
<1>2. <<y, z>> \in BinaryMeanings(op, A, B, v)
  BY <1>1 DEF BinaryMeanings
<1>3. <<y, z>> \in Duals
  BY DEF Duals
<1> QED
  BY <1>2, <1>3 DEF Sloped

(* and on three.                                                           *)
LEMMA SlopesOfThree ==
  ASSUME NEW op, NEW A, NEW a \in A, NEW B, NEW b \in B, NEW C, NEW c \in C,
         NEW y \in Number, NEW z \in Number,
         <<y, z>> = IF op = "listsum" THEN PlusD(PlusD(a, b), c) ELSE TimesD(TimesD(a, b), c),
         NEW S
  PROVE  Sloped(ListedMeanings(op, A, B, C), y, z, S)
<1>1. <<a, b, c>> \in A \X B \X C /\ <<a, b, c>>[1] = a /\ <<a, b, c>>[2] = b
      /\ <<a, b, c>>[3] = c
  OBVIOUS
<1>2. <<y, z>> \in ListedMeanings(op, A, B, C)
  BY <1>1 DEF ListedMeanings
<1>3. <<y, z>> \in Duals
  BY DEF Duals
<1> QED
  BY <1>2, <1>3 DEF Sloped

(* A slope is not finite, or that of a pair in the meaning.                *)
LEMMA SlopedIs ==
  ASSUME NEW A, NEW c, NEW p, NEW S, Sloped(A, c, p, S), p # NotFinite
  PROVE  <<c, p>> \in A /\ <<c, p>> \in Duals /\ c \in Number /\ p \in Number
BY DEF Sloped, Duals

(* Operators on one operand.                                               *)
LEMMA UnarySlopes ==
  ASSUME NEW A, NEW c, NEW p, NEW S, Meant(A, c), Sloped(A, c, p, S)
  PROVE  /\ Sloped(UnaryMeanings("name", A), c, p, S)
         /\ Sloped(UnaryMeanings("abs", A), Times(Sgn(c), c), Times(Sgn(c), p), S)
         /\ Sloped(UnaryMeanings("sign", A), Sgn(c), Num(0), S)
         /\ Sloped(UnaryMeanings("round", A), Rounded(c), p, S)
         /\ Sloped(UnaryMeanings("floor", A), Floor(c), p, S)
         /\ Sloped(UnaryMeanings("ceil", A), Negated(Floor(Negated(c))), p, S)
<1>1. c \in Number /\ A # {} /\ \A a \in A : a \in Duals /\ a[1] = c
  BY MeantNumber
<1>2. Sgn(c) \in Number /\ Sgn(c) \in Value /\ Num(0) \in Number
  BY <1>1, NumbersClosed, OneAndZero DEF Value, Zero
<1>3. Sloped(UnaryMeanings("sign", A), Sgn(c), Num(0), S)
  <2>1. PICK a \in A : a \in Duals /\ a[1] = c
    BY <1>1
  <2>2. a = <<c, a[2]>>
    BY <2>1, DualsClosed
  <2>3. <<Sgn(c), Num(0)>> \in UnaryMeaning("sign", <<c, a[2]>>)
    BY <2>1, <2>2 DEF UnaryMeaning, FlatD
  <2> QED
    BY <2>1, <2>2, <2>3, <1>2, SlopesOfOne
<1>4. CASE p = NotFinite
  <2>1. S # {}
    <3>1. ASSUME <<c, p>> \in Duals PROVE FALSE
      <4>1. p \in Number
        BY <3>1 DEF Duals
      <4>2. NotFinite \notin Number
        BY <1>2, NotFiniteStays
      <4> QED
        BY <4>1, <4>2, <1>4
    <3> QED
      BY <3>1 DEF Sloped
  <2>2. Times(Sgn(c), p) = NotFinite
    BY <1>2, <1>4, NotFiniteStays
  <2> QED
    BY <2>1, <2>2, <1>3, <1>4 DEF Sloped
<1>5. CASE p # NotFinite
  <2>1. <<c, p>> \in A /\ <<c, p>> \in Duals /\ p \in Number
    BY <1>5, SlopedIs
  <2> DEFINE b == <<c, p>>
  <2>2. b[1] = c /\ b[2] = p
    BY FirstOf
  <2>3. <<c, p>> \in UnaryMeaning("name", b)
    BY DEF UnaryMeaning
  <2>4. <<Rounded(c), p>> \in UnaryMeaning("round", b) /\ Rounded(c) \in Number
    BY <1>1, <2>2, RoundingMeans DEF UnaryMeaning
  <2>5. <<Floor(c), p>> \in UnaryMeaning("floor", b) /\ Floor(c) \in Number
    BY <1>1, <2>2, RoundingMeans DEF UnaryMeaning
  <2>6. /\ <<Negated(Floor(Negated(c))), p>> \in UnaryMeaning("ceil", b)
        /\ Negated(Floor(Negated(c))) \in Number
    BY <1>1, <2>2, RoundingMeans DEF UnaryMeaning
  <2>7. /\ <<Times(Sgn(c), c), Times(Sgn(c), p)>> \in UnaryMeaning("abs", b)
        /\ Times(Sgn(c), c) \in Number /\ Times(Sgn(c), p) \in Number
    <3>1. Times(Sgn(c), c) \in Number /\ Times(Sgn(c), p) \in Number
      BY <1>1, <1>2, <2>1, NumbersClosed
    <3> DEFINE R == IF Positive(c) THEN {1} ELSE IF c = Num(0) THEN {-1, 0, 1} ELSE {-1}
    <3>2. UnaryMeaning("abs", b) = {ScaledD(s, b) : s \in R}
      BY <2>2 DEF UnaryMeaning
    <3>3. PICK s \in R : Sgn(c) = Num(s)
      BY <1>1, SgnIs
    <3>4. ScaledD(s, b) = <<Times(Num(s), c), Times(Num(s), p)>>
      BY <2>2 DEF ScaledD
    <3> HIDE DEF R, b
    <3> QED
      BY <3>1, <3>2, <3>3, <3>4
  <2> HIDE DEF b
  <2>8. b = <<c, p>>
    BY DEF b
  <2> QED
    BY <1>1, <1>3, <2>1, <2>3, <2>4, <2>5, <2>6, <2>7, <2>8, SlopesOfOne
<1> QED
  BY <1>4, <1>5

(* A slope that is not finite has its reason, and only there is one.       *)
LEMMA SlopedCases ==
  ASSUME NEW A, NEW c, NEW p, NEW S, Sloped(A, c, p, S)
  PROVE  /\ p = NotFinite => S # {}
         /\ p # NotFinite => <<c, p>> \in A /\ p \in Number
<1>1. ASSUME p = NotFinite, <<c, p>> \in Duals PROVE FALSE
  <2>1. p \in Number
    BY <1>1 DEF Duals
  <2>2. Num(0) \in Value
    BY OneAndZero DEF Zero, Value
  <2>3. NotFinite \notin Number
    BY <2>2, NotFiniteStays
  <2> QED
    BY <2>1, <2>3, <1>1
<1>2. p # NotFinite => <<c, p>> \in A /\ p \in Number
  BY DEF Sloped, Duals
<1> QED
  BY <1>1, <1>2 DEF Sloped

(* Operators on two operands, of pairs in their meanings.                  *)
LEMMA PairsOfTwo ==
  ASSUME NEW c \in Number, NEW p \in Number, NEW d \in Number, NEW q \in Number, NEW v
  PROVE  /\ <<Plus(c, d), Plus(p, q)>> \in BinaryMeaning("+", <<c, p>>, <<d, q>>, v)
         /\ <<Plus(c, Negated(d)), Plus(p, Negated(q))>>
              \in BinaryMeaning("-", <<c, p>>, <<d, q>>, v)
         /\ <<Times(c, d), Plus(Times(c, q), Times(d, p))>>
              \in BinaryMeaning("*", <<c, p>>, <<d, q>>, v)
         /\ d # Num(0) =>
              <<Times(c, Reciprocal(d)),
                Plus(Times(c, Times(Negated(Reciprocal(Times(d, d))), q)),
                     Times(Reciprocal(d), p))>>
              \in BinaryMeaning("/", <<c, p>>, <<d, q>>, v)
<1> DEFINE a == <<c, p>>
           b == <<d, q>>
<1>1. a[1] = c /\ a[2] = p /\ b[1] = d /\ b[2] = q
  BY FirstOf
<1>2. b \in Duals
  BY DEF Duals
<1> HIDE DEF a, b
<1>3. <<Plus(c, d), Plus(p, q)>> \in BinaryMeaning("+", a, b, v)
  BY <1>1 DEF BinaryMeaning, PlusD
<1>4. <<Plus(c, Negated(d)), Plus(p, Negated(q))>> \in BinaryMeaning("-", a, b, v)
  <2> DEFINE o == ScaledD(-1, b)
  <2>1. o = <<Negated(d), Negated(q)>>
    BY <1>1, <1>2, OppositeIs
  <2> HIDE DEF o
  <2>2. o[1] = Negated(d) /\ o[2] = Negated(q)
    BY <2>1, FirstOf
  <2>3. BinaryMeaning("-", a, b, v) = {PlusD(a, o)}
    BY DEF BinaryMeaning, o
  <2>4. PlusD(a, o) = <<Plus(c, Negated(d)), Plus(p, Negated(q))>>
    BY <1>1, <2>2 DEF PlusD
  <2> QED
    BY <2>3, <2>4
<1>5. <<Times(c, d), Plus(Times(c, q), Times(d, p))>> \in BinaryMeaning("*", a, b, v)
  <2>1. Times(p, d) = Times(d, p)
    BY TimesLaws
  <2>2. TimesD(a, b) = <<Times(c, d), Plus(Times(c, q), Times(p, d))>>
    BY <1>1 DEF TimesD
  <2> QED
    BY <2>1, <2>2 DEF BinaryMeaning
<1>6. ASSUME d # Num(0)
      PROVE  <<Times(c, Reciprocal(d)),
               Plus(Times(c, Times(Negated(Reciprocal(Times(d, d))), q)),
                    Times(Reciprocal(d), p))>>
             \in BinaryMeaning("/", a, b, v)
  <2>1. OverD(a, b) = <<Times(c, Reciprocal(d)),
                        Times(Minus(Times(p, d), Times(c, q)), Reciprocal(Times(d, d)))>>
    BY <1>1 DEF OverD
  <2>2. Plus(Times(c, Times(Negated(Reciprocal(Times(d, d))), q)), Times(Reciprocal(d), p))
          = Times(Minus(Times(p, d), Times(c, q)), Reciprocal(Times(d, d)))
    BY <1>6, QuotientSlope
  <2> QED
    BY <2>1, <2>2 DEF BinaryMeaning
<1> QED
  BY <1>3, <1>4, <1>5, <1>6 DEF a, b

(* Sums, differences, products and quotients.                              *)
LEMMA CalculationSlopes ==
  ASSUME NEW A, NEW c, NEW p \in Value, NEW B, NEW d, NEW q \in Value, NEW S, NEW v,
         Meant(A, c), Sloped(A, c, p, S), Meant(B, d), Sloped(B, d, q, S)
  PROVE  /\ Sloped(BinaryMeanings("+", A, B, v), Plus(c, d), Plus(p, q), S)
         /\ Sloped(BinaryMeanings("-", A, B, v), Plus(c, Negated(d)), Plus(p, Negated(q)), S)
         /\ Sloped(BinaryMeanings("*", A, B, v),
                   Times(c, d), Plus(Times(c, q), Times(d, p)), S)
         /\ d # Num(0) =>
              Sloped(BinaryMeanings("/", A, B, v), Times(c, Reciprocal(d)),
                     Plus(Times(c, Times(Negated(Reciprocal(Times(d, d))), q)),
                          Times(Reciprocal(d), p)), S)
<1> DEFINE r == Reciprocal(d)
           R == Reciprocal(Times(d, d))
<1>1. c \in Number /\ d \in Number /\ c \in Value /\ d \in Value
  BY MeantNumber DEF Value
<1>2. /\ r \in Value /\ R \in Value /\ Negated(R) \in Value
      /\ Negated(q) \in Value
      /\ Times(c, q) \in Value /\ Times(d, p) \in Value
  BY <1>1, ValuesClosed
<1> HIDE DEF r, R
<1>3. /\ Times(Negated(R), q) \in Value /\ Times(r, p) \in Value
      /\ Times(c, Times(Negated(R), q)) \in Value
  BY <1>1, <1>2, ValuesClosed
<1>4. CASE p = NotFinite \/ q = NotFinite
  <2>1. S # {}
    BY <1>4, SlopedCases
  <2>2. Plus(p, q) = NotFinite
    BY <1>4, NotFiniteStays
  <2>3. Plus(p, Negated(q)) = NotFinite
    BY <1>2, <1>4, NotFiniteStays
  <2>4. Plus(Times(c, q), Times(d, p)) = NotFinite
    <3>1. p = NotFinite => Times(d, p) = NotFinite
      BY <1>1, NotFiniteStays
    <3>2. q = NotFinite => Times(c, q) = NotFinite
      BY <1>1, NotFiniteStays
    <3> QED
      BY <1>2, <1>4, <3>1, <3>2, NotFiniteStays
  <2>5. Plus(Times(c, Times(Negated(R), q)), Times(r, p)) = NotFinite
    <3>1. p = NotFinite => Times(r, p) = NotFinite
      BY <1>2, NotFiniteStays
    <3>2. q = NotFinite => Times(Negated(R), q) = NotFinite
      BY <1>2, NotFiniteStays
    <3>3. q = NotFinite => Times(c, Times(Negated(R), q)) = NotFinite
      BY <3>2, <1>1, NotFiniteStays
    <3> QED
      BY <1>3, <1>4, <3>1, <3>3, NotFiniteStays
  <2> QED
    BY <2>1, <2>2, <2>3, <2>4, <2>5 DEF Sloped, r, R
<1>5. CASE p # NotFinite /\ q # NotFinite
  <2>1. /\ <<c, p>> \in A /\ p \in Number /\ <<d, q>> \in B /\ q \in Number
    BY <1>5, SlopedCases
  <2>2. /\ Plus(c, d) \in Number /\ Plus(p, q) \in Number
        /\ Negated(d) \in Number /\ Negated(q) \in Number
        /\ Times(c, d) \in Number /\ Times(c, q) \in Number /\ Times(d, p) \in Number
    BY <1>1, <2>1, NumbersClosed
  <2>3. /\ Plus(c, Negated(d)) \in Number /\ Plus(p, Negated(q)) \in Number
        /\ Plus(Times(c, q), Times(d, p)) \in Number
    BY <1>1, <2>1, <2>2, NumbersClosed
  <2> DEFINE z == Plus(Times(c, Times(Negated(R), q)), Times(r, p))
             pairs(op) == BinaryMeaning(op, <<c, p>>, <<d, q>>, v)
  <2>4. d # Num(0) => Times(c, r) \in Number /\ z \in Number
    BY <1>1, <2>1, QuotientSlope DEF r, R
  <2>5. /\ <<Plus(c, d), Plus(p, q)>> \in pairs("+")
        /\ <<Plus(c, Negated(d)), Plus(p, Negated(q))>> \in pairs("-")
        /\ <<Times(c, d), Plus(Times(c, q), Times(d, p))>> \in pairs("*")
        /\ d # Num(0) => <<Times(c, r), z>> \in pairs("/")
    BY <1>1, <2>1, PairsOfTwo DEF r, R
  <2> HIDE DEF z
  <2>6. Sloped(BinaryMeanings("+", A, B, v), Plus(c, d), Plus(p, q), S)
    BY <2>1, <2>2, <2>5, SlopesOfTwo
  <2>7. Sloped(BinaryMeanings("-", A, B, v), Plus(c, Negated(d)), Plus(p, Negated(q)), S)
    BY <2>1, <2>3, <2>5, SlopesOfTwo
  <2>8. Sloped(BinaryMeanings("*", A, B, v), Times(c, d), Plus(Times(c, q), Times(d, p)), S)
    BY <2>1, <2>2, <2>3, <2>5, SlopesOfTwo
  <2>9. d # Num(0) => Sloped(BinaryMeanings("/", A, B, v), Times(c, r), z, S)
    BY <2>1, <2>4, <2>5, SlopesOfTwo
  <2> QED
    BY <2>6, <2>7, <2>8, <2>9 DEF z, r, R
<1> QED
  BY <1>4, <1>5

(* Comparisons and distinctions, whose slope is that of one operand or     *)
(* none.                                                                   *)
LEMMA ChoiceSlopes ==
  ASSUME NEW A, NEW c, NEW p \in Value, NEW B, NEW d, NEW q \in Value, NEW S, NEW v,
         Meant(A, c), Sloped(A, c, p, S), Meant(B, d), Sloped(B, d, q, S)
  PROVE  /\ Sloped(BinaryMeanings("min", A, B, v), Least(c, d),
                   IF Leq(c, d) THEN p ELSE q, S)
         /\ Sloped(BinaryMeanings("max", A, B, v), Greatest(c, d),
                   IF Less(d, c) THEN p ELSE q, S)
         /\ Sloped(BinaryMeanings("lesseq", A, B, v), Truth(Leq(c, d)), Num(0), S)
         /\ Sloped(BinaryMeanings("greater", A, B, v), Truth(Less(d, c)), Num(0), S)
         /\ Sloped(BinaryMeanings("case", A, B, v), IF Leq(v["x"], Num(0)) THEN c ELSE d,
                   IF Leq(v["x"], Num(0)) THEN p ELSE q, S)
<1>1. /\ c \in Number /\ A # {} /\ \A a \in A : a \in Duals /\ a[1] = c
      /\ d \in Number /\ B # {} /\ \A b \in B : b \in Duals /\ b[1] = d
  BY MeantNumber
<1>2. /\ Leq(c, c) /\ Leq(d, d) /\ (Leq(c, d) \/ Leq(d, c))
  BY <1>1, OrderLaws
<1>3. PICK s \in A : s[1] = c
  BY <1>1
<1>4. PICK t \in B : t[1] = d
  BY <1>1
<1>5. /\ p = NotFinite => S # {}
      /\ p # NotFinite => <<c, p>> \in A /\ p \in Number
      /\ q = NotFinite => S # {}
      /\ q # NotFinite => <<d, q>> \in B /\ q \in Number
  BY SlopedCases
<1>6. <<c, p>>[1] = c /\ <<d, q>>[1] = d
  BY FirstOf
<1>7. \A x : Truth(x) \in Number /\ Num(0) \in Number
  BY OneAndZero DEF Truth, One, Zero
<1>8. Sloped(BinaryMeanings("min", A, B, v), Least(c, d), IF Leq(c, d) THEN p ELSE q, S)
  <2>1. CASE Leq(c, d)
    <3>1. CASE p = NotFinite
      BY <1>5, <2>1, <3>1 DEF Sloped
    <3>2. CASE p # NotFinite
      <4> DEFINE a == <<c, p>>
      <4>1. a \in A /\ p \in Number /\ a[1] = c
        BY <1>5, <1>6, <3>2
      <4> HIDE DEF a
      <4>2. a \in BinaryMeaning("min", a, t, v)
        BY <4>1, <1>2, <1>4, <2>1 DEF BinaryMeaning
      <4>3. <<c, p>> \in BinaryMeaning("min", a, t, v)
        BY <4>2 DEF a
      <4>4. Sloped(BinaryMeanings("min", A, B, v), c, p, S)
        BY <4>1, <4>3, <1>1, <1>4, SlopesOfTwo
      <4> QED
        BY <4>4, <2>1 DEF Least
    <3> QED
      BY <3>1, <3>2
  <2>2. CASE ~Leq(c, d)
    <3>1. CASE q = NotFinite
      BY <1>5, <2>2, <3>1 DEF Sloped
    <3>2. CASE q # NotFinite
      <4> DEFINE b == <<d, q>>
      <4>1. b \in B /\ q \in Number /\ b[1] = d
        BY <1>5, <1>6, <3>2
      <4> HIDE DEF b
      <4>2. b \in BinaryMeaning("min", s, b, v)
        BY <4>1, <1>2, <1>3, <2>2 DEF BinaryMeaning
      <4>3. <<d, q>> \in BinaryMeaning("min", s, b, v)
        BY <4>2 DEF b
      <4>4. Sloped(BinaryMeanings("min", A, B, v), d, q, S)
        BY <4>1, <4>3, <1>1, <1>3, SlopesOfTwo
      <4> QED
        BY <4>4, <2>2 DEF Least
    <3> QED
      BY <3>1, <3>2
  <2> QED
    BY <2>1, <2>2
<1>9. Sloped(BinaryMeanings("max", A, B, v), Greatest(c, d), IF Less(d, c) THEN p ELSE q, S)
  <2>1. CASE ~Leq(c, d)
    <3>1. CASE p = NotFinite
      BY <1>5, <2>1, <3>1 DEF Sloped, Less
    <3>2. CASE p # NotFinite
      <4> DEFINE a == <<c, p>>
      <4>1. a \in A /\ p \in Number /\ a[1] = c
        BY <1>5, <1>6, <3>2
      <4> HIDE DEF a
      <4>2. a \in BinaryMeaning("max", a, t, v)
        BY <4>1, <1>2, <1>4, <2>1 DEF BinaryMeaning
      <4>3. <<c, p>> \in BinaryMeaning("max", a, t, v)
        BY <4>2 DEF a
      <4>4. Sloped(BinaryMeanings("max", A, B, v), c, p, S)
        BY <4>1, <4>3, <1>1, <1>4, SlopesOfTwo
      <4> QED
        BY <4>4, <2>1 DEF Greatest, Less
    <3> QED
      BY <3>1, <3>2
  <2>2. CASE Leq(c, d)
    <3>1. CASE q = NotFinite
      BY <1>5, <2>2, <3>1 DEF Sloped, Less
    <3>2. CASE q # NotFinite
      <4> DEFINE b == <<d, q>>
      <4>1. b \in B /\ q \in Number /\ b[1] = d
        BY <1>5, <1>6, <3>2
      <4> HIDE DEF b
      <4>2. b \in BinaryMeaning("max", s, b, v)
        BY <4>1, <1>2, <1>3, <2>2 DEF BinaryMeaning
      <4>3. <<d, q>> \in BinaryMeaning("max", s, b, v)
        BY <4>2 DEF b
      <4>4. Sloped(BinaryMeanings("max", A, B, v), d, q, S)
        BY <4>1, <4>3, <1>1, <1>3, SlopesOfTwo
      <4> QED
        BY <4>4, <2>2 DEF Greatest, Less
    <3> QED
      BY <3>1, <3>2
  <2> QED
    BY <2>1, <2>2
<1>10. Sloped(BinaryMeanings("lesseq", A, B, v), Truth(Leq(c, d)), Num(0), S)
  <2> DEFINE y == Truth(Leq(c, d))
  <2>1. <<y, Num(0)>> \in BinaryMeaning("lesseq", s, t, v)
    BY <1>3, <1>4 DEF BinaryMeaning, FlatD
  <2>2. y \in Number /\ Num(0) \in Number
    BY <1>7
  <2> HIDE DEF y
  <2>3. Sloped(BinaryMeanings("lesseq", A, B, v), y, Num(0), S)
    BY <2>1, <2>2, <1>3, <1>4, SlopesOfTwo
  <2> QED
    BY <2>3 DEF y
<1>11. Sloped(BinaryMeanings("greater", A, B, v), Truth(Less(d, c)), Num(0), S)
  <2> DEFINE y == Truth(Less(d, c))
  <2>1. <<y, Num(0)>> \in BinaryMeaning("greater", s, t, v)
    BY <1>3, <1>4 DEF BinaryMeaning, FlatD, Less
  <2>2. y \in Number /\ Num(0) \in Number
    BY <1>7
  <2> HIDE DEF y
  <2>3. Sloped(BinaryMeanings("greater", A, B, v), y, Num(0), S)
    BY <2>1, <2>2, <1>3, <1>4, SlopesOfTwo
  <2> QED
    BY <2>3 DEF y
<1>12. Sloped(BinaryMeanings("case", A, B, v), IF Leq(v["x"], Num(0)) THEN c ELSE d,
              IF Leq(v["x"], Num(0)) THEN p ELSE q, S)
  <2>1. CASE Leq(v["x"], Num(0))
    <3>1. CASE p = NotFinite
      BY <1>5, <2>1, <3>1 DEF Sloped
    <3>2. CASE p # NotFinite
      <4>1. <<c, p>> \in A /\ p \in Number
        BY <1>5, <3>2
      <4>2. <<c, p>> \in BinaryMeaning("case", <<c, p>>, t, v)
        BY <2>1 DEF BinaryMeaning
      <4>3. Sloped(BinaryMeanings("case", A, B, v), c, p, S)
        BY <4>1, <4>2, <1>1, <1>4, SlopesOfTwo
      <4> QED
        BY <4>3, <2>1
    <3> QED
      BY <3>1, <3>2
  <2>2. CASE ~Leq(v["x"], Num(0))
    <3>1. CASE q = NotFinite
      BY <1>5, <2>2, <3>1 DEF Sloped
    <3>2. CASE q # NotFinite
      <4>1. <<d, q>> \in B /\ q \in Number
        BY <1>5, <3>2
      <4>2. <<d, q>> \in BinaryMeaning("case", s, <<d, q>>, v)
        BY <2>2 DEF BinaryMeaning
      <4>3. Sloped(BinaryMeanings("case", A, B, v), d, q, S)
        BY <4>1, <4>2, <1>1, <1>3, SlopesOfTwo
      <4> QED
        BY <4>3, <2>2
    <3> QED
      BY <3>1, <3>2
  <2> QED
    BY <2>1, <2>2
<1> QED
  BY <1>8, <1>9, <1>10, <1>11, <1>12

(* Powers, the one place where a slope may be lost.                        *)
LEMMA PowerSlopes ==
  ASSUME NEW A, NEW c, NEW p \in Value, NEW n \in Nat, NEW S, NEW v,
         Meant(A, c), Sloped(A, c, p, S), Positive(c) \/ S # {}
  PROVE  Sloped(BinaryMeanings("pow", A, {FlatD(Num(n))}, v),
                Power(c, n), PowerRule(c, n, p), S)
<1>1. c \in Number
  BY MeantNumber
<1>2. CASE ~Positive(c) \/ p = NotFinite
  <2>1. S # {}
    BY <1>2, SlopedCases
  <2>2. PowerRule(c, n, p) = NotFinite
    BY <1>1, <1>2, PowerSlope
  <2> QED
    BY <2>1, <2>2 DEF Sloped
<1>3. CASE Positive(c) /\ p # NotFinite
  <2> DEFINE a == <<c, p>>
             b == FlatD(Num(n))
  <2>1. a \in A /\ p \in Number /\ a[1] = c /\ a[2] = p
    BY <1>3, SlopedCases, FirstOf
  <2>2. a \in Duals
    BY <1>1, <2>1 DEF Duals
  <2>3. b[1][1] = n
    <3>1. b[1] = Num(n)
      BY FirstOf DEF FlatD
    <3> HIDE DEF b
    <3> QED
      BY <3>1, FirstOf DEF Num
  <2>4. b \in {FlatD(Num(n))}
    OBVIOUS
  <2> HIDE DEF a, b
  <2>5. BinaryMeaning("pow", a, b, v) = {PowD(a, n)}
    BY <2>3 DEF BinaryMeaning
  <2>6. PowD(a, n) = <<Raised(c, n), PowSlope(c, n, p)>>
    BY <2>1, <2>2, PowDMeans
  <2>7. PowerRule(c, n, p) = PowSlope(c, n, p) /\ PowSlope(c, n, p) \in Number
    BY <1>1, <1>3, <2>1, PowerSlope, PowSlopeStep
  <2>8. Power(c, n) = Raised(c, n) /\ Raised(c, n) \in Number
    BY <1>1, RaisedNumber DEF Power
  <2>9. <<Power(c, n), PowerRule(c, n, p)>> \in BinaryMeaning("pow", a, b, v)
    BY <2>5, <2>6, <2>7, <2>8
  <2>10. Power(c, n) \in Number /\ PowerRule(c, n, p) \in Number
    BY <2>7, <2>8
  <2> QED
    BY <2>1, <2>4, <2>9, <2>10, SlopesOfTwo
<1> QED
  BY <1>2, <1>3

(* Sums of lists,                                                          *)
LEMMA ListSumSlopes ==
  ASSUME NEW A, NEW a, NEW p \in Value, Meant(A, a), NEW S, Sloped(A, a, p, S),
         NEW B, NEW b, NEW q \in Value, Meant(B, b), Sloped(B, b, q, S),
         NEW C, NEW c, NEW r \in Value, Meant(C, c), Sloped(C, c, r, S)
  PROVE  Sloped(ListedMeanings("listsum", A, B, C),
                Plus(Plus(a, b), c), Plus(Plus(Plus(Num(0), p), q), r), S)
<1> DEFINE z == Plus(Plus(Plus(Num(0), p), q), r)
<1>1. a \in Number /\ b \in Number /\ c \in Number
  BY MeantNumber
<1>2. Num(0) \in Value
  BY OneAndZero DEF Zero, Value
<1>3. Plus(Num(0), p) \in Value /\ Plus(Plus(Num(0), p), q) \in Value
  <2>1. Plus(Num(0), p) \in Value
    BY <1>2, ValuesClosed
  <2> QED
    BY <2>1, ValuesClosed
<1>4. CASE p = NotFinite \/ q = NotFinite \/ r = NotFinite
  <2>1. S # {}
    BY <1>4, SlopedCases
  <2>2. p = NotFinite => Plus(Num(0), p) = NotFinite
    BY <1>2, NotFiniteStays
  <2>3. p = NotFinite \/ q = NotFinite => Plus(Plus(Num(0), p), q) = NotFinite
    BY <1>3, <2>2, NotFiniteStays
  <2>4. z = NotFinite
    BY <1>3, <1>4, <2>3, NotFiniteStays
  <2> QED
    BY <2>1, <2>4 DEF Sloped
<1>5. CASE p # NotFinite /\ q # NotFinite /\ r # NotFinite
  <2>1. /\ <<a, p>> \in A /\ p \in Number /\ <<b, q>> \in B /\ q \in Number
        /\ <<c, r>> \in C /\ r \in Number
    BY <1>5, SlopedCases
  <2>2. Plus(Num(0), p) = p
    BY <2>1, WithZero DEF Zero
  <2>3. Plus(a, b) \in Number /\ Plus(p, q) \in Number
    BY <1>1, <2>1, NumbersClosed
  <2>4. Plus(Plus(a, b), c) \in Number /\ Plus(Plus(p, q), r) \in Number
    BY <1>1, <2>1, <2>3, NumbersClosed
  <2>5. PlusD(<<a, p>>, <<b, q>>) = <<Plus(a, b), Plus(p, q)>>
    BY FirstOf DEF PlusD
  <2>6. \A u, t : PlusD(<<u, t>>, <<c, r>>) = <<Plus(u, c), Plus(t, r)>>
    BY FirstOf DEF PlusD
  <2>7. PlusD(PlusD(<<a, p>>, <<b, q>>), <<c, r>>)
          = <<Plus(Plus(a, b), c), Plus(Plus(p, q), r)>>
    BY <2>5, <2>6
  <2>8. Sloped(ListedMeanings("listsum", A, B, C),
               Plus(Plus(a, b), c), Plus(Plus(p, q), r), S)
    BY <2>1, <2>4, <2>7, SlopesOfThree
  <2> QED
    BY <2>2, <2>8
<1> QED
  BY <1>4, <1>5

(* and products, each factor derived in turn.                              *)
LEMMA ListProductSlopes ==
  ASSUME NEW A, NEW a, NEW p \in Value, Meant(A, a), NEW S, Sloped(A, a, p, S),
         NEW B, NEW b, NEW q \in Value, Meant(B, b), Sloped(B, b, q, S),
         NEW C, NEW c, NEW r \in Value, Meant(C, c), Sloped(C, c, r, S)
  PROVE  Sloped(ListedMeanings("listprod", A, B, C), Times(Times(a, b), c),
                Plus(Plus(Plus(Num(0), Times(Times(p, b), c)), Times(Times(a, q), c)),
                     Times(Times(a, b), r)), S)
<1> DEFINE x == Times(Times(p, b), c)
           y == Times(Times(a, q), c)
           z == Times(Times(a, b), r)
           t == Plus(Plus(Plus(Num(0), x), y), z)
<1>1. a \in Number /\ b \in Number /\ c \in Number /\ a \in Value /\ b \in Value /\ c \in Value
  BY MeantNumber DEF Value
<1>2. Num(0) \in Value
  BY OneAndZero DEF Zero, Value
<1>3. Times(p, b) \in Value /\ Times(a, q) \in Value /\ Times(a, b) \in Value
  BY <1>1, ValuesClosed
<1>4. x \in Value /\ y \in Value /\ z \in Value
  BY <1>1, <1>3, ValuesClosed
<1>5. /\ p = NotFinite => x = NotFinite
      /\ q = NotFinite => y = NotFinite
      /\ r = NotFinite => z = NotFinite
  <2>1. /\ p = NotFinite => Times(p, b) = NotFinite
        /\ q = NotFinite => Times(a, q) = NotFinite
    BY <1>1, NotFiniteStays
  <2> QED
    BY <1>1, <1>3, <2>1, NotFiniteStays
<1>6. CASE p = NotFinite \/ q = NotFinite \/ r = NotFinite
  <2> HIDE DEF x, y, z
  <2>1. S # {}
    BY <1>6, SlopedCases
  <2>2. Plus(Num(0), x) \in Value
    BY <1>2, <1>4, ValuesClosed
  <2>3. Plus(Plus(Num(0), x), y) \in Value
    BY <1>4, <2>2, ValuesClosed
  <2>4. x = NotFinite => Plus(Num(0), x) = NotFinite
    BY <1>2, NotFiniteStays
  <2>5. x = NotFinite \/ y = NotFinite => Plus(Plus(Num(0), x), y) = NotFinite
    BY <1>4, <2>2, <2>4, NotFiniteStays
  <2>6. t = NotFinite
    BY <1>4, <1>5, <1>6, <2>3, <2>5, NotFiniteStays
  <2> HIDE DEF t
  <2>7. Sloped(ListedMeanings("listprod", A, B, C), Times(Times(a, b), c), t, S)
    BY <2>1, <2>6 DEF Sloped
  <2> QED
    BY <2>7 DEF t, x, y, z
<1>7. CASE p # NotFinite /\ q # NotFinite /\ r # NotFinite
  <2>1. /\ <<a, p>> \in A /\ p \in Number /\ <<b, q>> \in B /\ q \in Number
        /\ <<c, r>> \in C /\ r \in Number
    BY <1>7, SlopedCases
  <2>2. /\ Times(a, b) \in Number /\ Times(p, b) \in Number /\ Times(a, q) \in Number
    BY <1>1, <2>1, NumbersClosed
  <2>3. /\ x \in Number /\ y \in Number /\ z \in Number
        /\ Times(Times(a, b), c) \in Number
    BY <1>1, <2>1, <2>2, NumbersClosed
  <2>4. t = Plus(Plus(x, y), z) /\ t \in Number
    <3> HIDE DEF x, y, z
    <3>1. Plus(Num(0), x) = x
      BY <2>3, WithZero DEF Zero
    <3>2. Plus(x, y) \in Number
      BY <2>3, NumbersClosed
    <3>3. Plus(Plus(x, y), z) \in Number
      BY <2>3, <3>2, NumbersClosed
    <3> QED
      BY <3>1, <3>3
  <2>5. Plus(Plus(x, y), z) = Plus(Times(Times(a, b), r),
                                   Times(Plus(Times(a, q), Times(p, b)), c))
    BY <1>1, <2>1, ProductSlope
  <2>6. TimesD(<<a, p>>, <<b, q>>) = <<Times(a, b), Plus(Times(a, q), Times(p, b))>>
    BY FirstOf DEF TimesD
  <2>7. \A u, w : TimesD(<<u, w>>, <<c, r>>) = <<Times(u, c), Plus(Times(u, r), Times(w, c))>>
    BY FirstOf DEF TimesD
  <2> HIDE DEF x, y, z
  <2>8. TimesD(TimesD(<<a, p>>, <<b, q>>), <<c, r>>) = <<Times(Times(a, b), c), t>>
    BY <2>4, <2>5, <2>6, <2>7
  <2> HIDE DEF t
  <2>9. Sloped(ListedMeanings("listprod", A, B, C), Times(Times(a, b), c), t, S)
    BY <2>1, <2>3, <2>4, <2>8, SlopesOfThree
  <2> QED
    BY <2>9 DEF t, x, y, z
<1> QED
  BY <1>6, <1>7

(* The rule of products, of three factors.                                 *)
LEMMA ThreeFactors ==
  ASSUME NEW s \in [1 .. 3 -> Number], NEW ds \in [1 .. 3 -> Value]
  PROVE  ProductRule(s, ds)
           = Plus(Plus(Plus(Num(0), Times(Times(ds[1], s[2]), s[3])),
                       Times(Times(s[1], ds[2]), s[3])),
                  Times(Times(s[1], s[2]), ds[3]))
<1> DEFINE turn(i) == [j \in 1 .. 3 |-> IF j = i THEN ds[i] ELSE s[j]]
           f == [i \in 1 .. 3 |-> Product(turn(i))]
<1>0. DOMAIN s = 1 .. 3 /\ 1 \in 1 .. 3 /\ 2 \in 1 .. 3 /\ 3 \in 1 .. 3
      /\ Value \in Domains
  BY DEF Domains
<1>1. ASSUME NEW i \in 1 .. 3
      PROVE  /\ turn(i) \in [1 .. 3 -> Value]
             /\ Product(turn(i)) = Times(Times(Times(Num(1), turn(i)[1]), turn(i)[2]), turn(i)[3])
             /\ Product(turn(i)) \in Value
  <2>1. turn(i) \in [1 .. 3 -> Value]
    BY DEF Value
  <2> DEFINE t == turn(i)
  <2>2. t \in [1 .. 3 -> Value]
    BY <2>1
  <2> HIDE DEF t
  <2>3. Product(t) = Times(Times(Times(Num(1), t[1]), t[2]), t[3])
    BY <1>0, <2>2, ThreeListed
  <2>4. Num(1) \in Value /\ t[1] \in Value /\ t[2] \in Value /\ t[3] \in Value
    BY <1>0, <2>2, OneAndZero DEF One, Value
  <2>5. Times(Num(1), t[1]) \in Value
    BY <2>4, ValuesClosed
  <2>6. Times(Times(Num(1), t[1]), t[2]) \in Value
    BY <2>4, <2>5, ValuesClosed
  <2>7. Product(t) \in Value
    BY <2>3, <2>4, <2>6, ValuesClosed
  <2> QED
    BY <2>2, <2>3, <2>7 DEF t
<1>2. f \in [1 .. 3 -> Value]
  <2> HIDE DEF turn
  <2> QED
    BY <1>1
<1>3. ProductRule(s, ds) = SumUp(f)
  BY <1>0 DEF ProductRule
<1>4. /\ f[1] = Product(turn(1)) /\ f[2] = Product(turn(2)) /\ f[3] = Product(turn(3))
  BY <1>0
<1>5. SumUp(f) = Plus(Plus(Plus(Num(0), f[1]), f[2]), f[3])
  <2> HIDE DEF f
  <2> QED
    BY <1>0, <1>2, ThreeListed
<1>6. \A x \in Value : Times(Num(1), x) = x
  <2> SUFFICES ASSUME NEW x \in Value PROVE Times(Num(1), x) = x
    OBVIOUS
  <2>1. CASE x \in Number
    BY <2>1, WithZero DEF One
  <2>2. CASE x = NotFinite
    <3>1. Num(1) \in Value
      BY OneAndZero DEF One, Value
    <3> QED
      BY <2>2, <3>1, NotFiniteStays
  <2> QED
    BY <2>1, <2>2 DEF Value
<1>7. /\ turn(1)[1] = ds[1] /\ turn(1)[2] = s[2] /\ turn(1)[3] = s[3]
      /\ turn(2)[1] = s[1] /\ turn(2)[2] = ds[2] /\ turn(2)[3] = s[3]
      /\ turn(3)[1] = s[1] /\ turn(3)[2] = s[2] /\ turn(3)[3] = ds[3]
  BY <1>0
<1>8. ds[1] \in Value /\ s[1] \in Value
  BY <1>0 DEF Value
<1> HIDE DEF f, turn
<1>9. /\ f[1] = Times(Times(ds[1], s[2]), s[3])
      /\ f[2] = Times(Times(s[1], ds[2]), s[3])
      /\ f[3] = Times(Times(s[1], s[2]), ds[3])
  <2>1. /\ Times(Num(1), ds[1]) = ds[1] /\ Times(Num(1), s[1]) = s[1]
    BY <1>6, <1>8
  <2>2. f[1] = Times(Times(ds[1], s[2]), s[3])
    BY <2>1, <1>0, <1>1, <1>4, <1>7
  <2>3. f[2] = Times(Times(s[1], ds[2]), s[3])
    BY <2>1, <1>0, <1>1, <1>4, <1>7
  <2>4. f[3] = Times(Times(s[1], s[2]), ds[3])
    BY <2>1, <1>0, <1>1, <1>4, <1>7
  <2> QED
    BY <2>2, <2>3, <2>4
<1> QED
  BY <1>3, <1>5, <1>9

\* The nodes of a term's operands have the slopes that are meant, and a power whose
\* base is not positive counts among those of set S.
SlopedBefore(w, e, d, mean, S, k) ==
  /\ \A i \in DOMAIN w[k].args :
       LET j == w[k].args[i] IN
       Sloped(mean[j], e[Node(j)], d[Node(j)], S) /\ d[Node(j)] \in Value
  /\ w[k].op = "reference" =>
       LET j == ReferredTerm(w) IN Sloped(mean[j], e[Node(j)], d[Node(j)], S)
  /\ w[k].op = "pow" => Positive(e[Node(w[k].args[1])]) \/ S # {}

(* Leaves have the slopes that they mean.                                  *)
LEMMA LeafSloped ==
  ASSUME NEW w, NEW k, TermKinds(w, k), NEW v, IsPlace(v), NEW x, NEW e, NEW d, NEW mean, NEW S,
         Calculated(w, v, e, k), Derived(w, v, x, e, d, k),
         MeantBefore(w, e, mean, k), SlopedBefore(w, e, d, mean, S, k),
         w[k].op \in {"real", "variable", "polynomial", "reference"}, Fits(w[k].poly)
  PROVE  Sloped(TermMeaning(w, v, x, mean, k), e[Node(k)], d[Node(k)], S)
<1> DEFINE op == w[k].op
           y == e[Node(k)]
           z == d[Node(k)]
           M == TermMeaning(w, v, x, mean, k)
<1>0. \A t : Truth(t) \in Number /\ Num(0) \in Number
  BY OneAndZero DEF Truth, One, Zero
<1>1. CASE op = "real"
  <2>1. M = {FlatD(w[k].num)} /\ y = w[k].num /\ w[k].num \in Number
    BY <1>1 DEF TermMeaning, Calculated, TermKinds, UnaryOps, BinaryOps, ListedOps
  <2>2. z = Num(0)
    BY <1>1 DEF Derived
  <2>3. <<y, z>> \in M
    BY <2>1, <2>2 DEF FlatD
  <2>4. <<y, z>> \in Duals
    BY <2>1, <2>2, <1>0 DEF Duals
  <2> QED
    BY <2>3, <2>4 DEF Sloped
<1>2. CASE op = "variable"
  <2>1. /\ M = {<<v[w[k].id], Truth(w[k].id = x)>>} /\ y = v[w[k].id]
        /\ w[k].id \in Names
    BY <1>2 DEF TermMeaning, Calculated, TermKinds, UnaryOps, BinaryOps, ListedOps
  <2>2. z = Truth(w[k].id = x)
    BY <1>2 DEF Derived
  <2>3. v[w[k].id] \in Number /\ Truth(w[k].id = x) \in Number
    BY <2>1, <1>0 DEF IsPlace
  <2>4. <<y, z>> \in M /\ <<y, z>> \in Duals
    BY <2>1, <2>2, <2>3 DEF Duals
  <2> QED
    BY <2>4 DEF Sloped
<1>3. CASE op = "polynomial"
  <2> DEFINE s == w[k].poly
             p == EvalPolynomial(buildPolynomial(s), v, "")
             q == DerivePolynomial(buildPolynomial(s), v, x)
  <2>1. M = {PolynomialMeaning(s, v, x)} /\ y = p /\ Monomials(s)
    BY <1>3 DEF TermMeaning, Calculated, TermKinds, UnaryOps, BinaryOps, ListedOps
  <2>2. PolynomialMeaning(s, v, x) = <<p, q>> /\ PolynomialMeaning(s, v, x) \in Duals
    BY <2>1, PolynomialMeans
  <2>3. z = q
    BY <1>3 DEF Derived
  <2> HIDE DEF p, q, s, M, y, z
  <2>4. <<y, z>> \in M /\ <<y, z>> \in Duals
    BY <2>1, <2>2, <2>3
  <2> QED
    BY <2>4 DEF Sloped, M, y, z
<1>4. CASE op = "reference"
  <2>1. M = mean[ReferredTerm(w)] /\ y = e[Node(ReferredTerm(w))]
    BY <1>4 DEF TermMeaning, Calculated, UnaryOps, BinaryOps, ListedOps
  <2>2. z = d[Node(ReferredTerm(w))]
    BY <1>4 DEF Derived
  <2> QED
    BY <2>1, <2>2, <1>4 DEF SlopedBefore
<1> QED
  BY <1>1, <1>2, <1>3, <1>4

(* So do operators on one operand,                                         *)
LEMMA UnaryTermSloped ==
  ASSUME NEW w, NEW k, TermKinds(w, k), NEW v, NEW x, NEW e, NEW d, NEW mean, NEW S,
         Calculated(w, v, e, k), Derived(w, v, x, e, d, k),
         MeantBefore(w, e, mean, k), SlopedBefore(w, e, d, mean, S, k),
         w[k].op \in UnaryOps, w[k].op # "square"
  PROVE  Sloped(TermMeaning(w, v, x, mean, k), e[Node(k)], d[Node(k)], S)
<1> DEFINE op == w[k].op
           y == e[Node(k)]
           z == d[Node(k)]
           A == mean[w[k].args[1]]
           c == e[Node(w[k].args[1])]
           p == d[Node(w[k].args[1])]
<1>1. DOMAIN w[k].args = 1 .. 1 /\ 1 \in 1 .. 1
  BY DEF TermKinds, UnaryOps, BinaryOps, ListedOps
<1>2. Meant(A, c) /\ Sloped(A, c, p, S)
  BY <1>1 DEF MeantBefore, SlopedBefore
<1>3. TermMeaning(w, v, x, mean, k) = UnaryMeanings(op, A)
  BY DEF TermMeaning, UnaryOps, BinaryOps, ListedOps
<1>4. /\ op = "name" => y = c
      /\ op = "abs" => y = Times(Sgn(c), c)
      /\ op = "sign" => y = Sgn(c)
      /\ op = "round" => y = IF Finite(c) THEN Rounded(c) ELSE c
      /\ op = "floor" => y = IF Finite(c) THEN Floor(c) ELSE c
      /\ op = "ceil" => y = IF Finite(c) THEN Negated(Floor(Negated(c))) ELSE c
  BY DEF Calculated
<1>5. /\ op = "sign" => z = Num(0)
      /\ op \in {"name", "round", "floor", "ceil"} => z = p
      /\ op = "abs" => z = Times(Sgn(c), p)
  BY DEF Derived
<1> HIDE DEF A, c, y, p, z
<1>6. Finite(c)
  BY <1>2, MeantNumber
<1>7. /\ Sloped(UnaryMeanings("name", A), c, p, S)
      /\ Sloped(UnaryMeanings("abs", A), Times(Sgn(c), c), Times(Sgn(c), p), S)
      /\ Sloped(UnaryMeanings("sign", A), Sgn(c), Num(0), S)
      /\ Sloped(UnaryMeanings("round", A), Rounded(c), p, S)
      /\ Sloped(UnaryMeanings("floor", A), Floor(c), p, S)
      /\ Sloped(UnaryMeanings("ceil", A), Negated(Floor(Negated(c))), p, S)
  BY <1>2, UnarySlopes
<1>8. Sloped(UnaryMeanings(op, A), y, z, S)
  BY <1>4, <1>5, <1>6, <1>7 DEF UnaryOps
<1> QED
  BY <1>3, <1>8 DEF y, z

(* on two,                                                                 *)
LEMMA BinaryTermSloped ==
  ASSUME NEW w, NEW k, TermKinds(w, k), NEW v, NEW x, NEW e, NEW d, NEW mean, NEW S,
         Calculated(w, v, e, k), Derived(w, v, x, e, d, k),
         MeantBefore(w, e, mean, k), SlopedBefore(w, e, d, mean, S, k),
         w[k].op \in BinaryOps
  PROVE  Sloped(TermMeaning(w, v, x, mean, k), e[Node(k)], d[Node(k)], S)
<1> DEFINE op == w[k].op
           y == e[Node(k)]
           z == d[Node(k)]
           A == mean[w[k].args[1]]
           B == mean[w[k].args[2]]
           c == e[Node(w[k].args[1])]
           f == e[Node(w[k].args[2])]
           p == d[Node(w[k].args[1])]
           q == d[Node(w[k].args[2])]
<1>1. DOMAIN w[k].args = 1 .. 2 /\ 1 \in 1 .. 2 /\ 2 \in 1 .. 2
  BY DEF TermKinds, UnaryOps, BinaryOps, ListedOps
<1>2. Meant(A, c) /\ Meant(B, f)
  BY <1>1 DEF MeantBefore
<1>3. /\ Sloped(A, c, p, S) /\ p \in Value /\ Sloped(B, f, q, S) /\ q \in Value
      /\ op = "pow" => Positive(c) \/ S # {}
  BY <1>1 DEF SlopedBefore
<1>4. TermMeaning(w, v, x, mean, k) = BinaryMeanings(op, A, B, v)
  BY DEF TermMeaning, UnaryOps, BinaryOps, ListedOps
<1>5. /\ op = "+" => y = Plus(c, f)
      /\ op = "-" => y = Plus(c, Negated(f))
      /\ op = "*" => y = Times(c, f)
      /\ op = "/" => y = Times(c, Reciprocal(f))
      /\ op = "min" => y = Least(c, f)
      /\ op = "max" => y = Greatest(c, f)
      /\ op = "lesseq" => y = Truth(Leq(c, f))
      /\ op = "greater" => y = Truth(Less(f, c))
      /\ op = "pow" => y = Power(c, f[1])
      /\ op = "case" => y = IF Leq(v["x"], Num(0)) THEN c ELSE f
  BY DEF Calculated
<1>6. /\ op \in {"lesseq", "greater"} => z = Num(0)
      /\ op = "+" => z = Plus(p, q)
      /\ op = "-" => z = Plus(p, Negated(q))
      /\ op = "*" => z = Plus(Times(c, q), Times(f, p))
      /\ op = "/" => z = Plus(Times(c, Times(Negated(Reciprocal(Times(f, f))), q)),
                              Times(Reciprocal(f), p))
      /\ op = "min" => z = IF Leq(c, f) THEN p ELSE q
      /\ op = "max" => z = IF Less(f, c) THEN p ELSE q
      /\ op = "pow" => z = PowerRule(c, f[1], p)
      /\ op = "case" => z = IF Leq(v["x"], Num(0)) THEN p ELSE q
  BY DEF Derived
<1>7. op = "/" => f # Num(0)
  BY DEF MeantBefore
<1>8. op = "pow" => \E n \in 0 .. 9 : B = {FlatD(Num(n))} /\ f = Num(n)
  BY DEF MeantBefore, PowerOf
<1> HIDE DEF A, B, c, f, p, q, y, z
<1>9. /\ Sloped(BinaryMeanings("+", A, B, v), Plus(c, f), Plus(p, q), S)
      /\ Sloped(BinaryMeanings("-", A, B, v), Plus(c, Negated(f)), Plus(p, Negated(q)), S)
      /\ Sloped(BinaryMeanings("*", A, B, v), Times(c, f), Plus(Times(c, q), Times(f, p)), S)
      /\ f # Num(0) =>
           Sloped(BinaryMeanings("/", A, B, v), Times(c, Reciprocal(f)),
                  Plus(Times(c, Times(Negated(Reciprocal(Times(f, f))), q)),
                       Times(Reciprocal(f), p)), S)
  BY <1>2, <1>3, CalculationSlopes
<1>10. /\ Sloped(BinaryMeanings("min", A, B, v), Least(c, f), IF Leq(c, f) THEN p ELSE q, S)
       /\ Sloped(BinaryMeanings("max", A, B, v), Greatest(c, f), IF Less(f, c) THEN p ELSE q, S)
       /\ Sloped(BinaryMeanings("lesseq", A, B, v), Truth(Leq(c, f)), Num(0), S)
       /\ Sloped(BinaryMeanings("greater", A, B, v), Truth(Less(f, c)), Num(0), S)
       /\ Sloped(BinaryMeanings("case", A, B, v), IF Leq(v["x"], Num(0)) THEN c ELSE f,
                 IF Leq(v["x"], Num(0)) THEN p ELSE q, S)
  BY <1>2, <1>3, ChoiceSlopes
<1>11. op = "pow" => Sloped(BinaryMeanings("pow", A, B, v), Power(c, f[1]), PowerRule(c, f[1], p), S)
  <2> SUFFICES ASSUME op = "pow"
               PROVE  Sloped(BinaryMeanings("pow", A, B, v), Power(c, f[1]), PowerRule(c, f[1], p), S)
    OBVIOUS
  <2>1. PICK n \in 0 .. 9 : B = {FlatD(Num(n))} /\ f = Num(n)
    BY <1>8
  <2>2. f[1] = n /\ n \in Nat
    BY <2>1, FirstOf DEF Num
  <2>3. Sloped(BinaryMeanings("pow", A, {FlatD(Num(n))}, v), Power(c, n), PowerRule(c, n, p), S)
    BY <1>2, <1>3, <2>2, PowerSlopes
  <2> QED
    BY <2>1, <2>2, <2>3
<1>12. Sloped(BinaryMeanings(op, A, B, v), y, z, S)
  <2>1. CASE op \in {"+", "-", "*", "/"}
    BY <2>1, <1>5, <1>6, <1>7, <1>9
  <2>2. CASE op \in {"min", "max", "lesseq", "greater", "case"}
    BY <2>2, <1>5, <1>6, <1>10
  <2>3. CASE op = "pow"
    BY <2>3, <1>5, <1>6, <1>11
  <2> QED
    BY <2>1, <2>2, <2>3 DEF BinaryOps
<1> QED
  BY <1>4, <1>12 DEF y, z

(* and on three.                                                           *)
LEMMA ListedTermSloped ==
  ASSUME NEW w, NEW k, TermKinds(w, k), NEW v, NEW x, NEW e, NEW d, NEW mean, NEW S,
         Calculated(w, v, e, k), Derived(w, v, x, e, d, k),
         MeantBefore(w, e, mean, k), SlopedBefore(w, e, d, mean, S, k),
         w[k].op \in ListedOps
  PROVE  Sloped(TermMeaning(w, v, x, mean, k), e[Node(k)], d[Node(k)], S)
<1> DEFINE op == w[k].op
           y == e[Node(k)]
           z == d[Node(k)]
           A == mean[w[k].args[1]]
           B == mean[w[k].args[2]]
           C == mean[w[k].args[3]]
           a == e[Node(w[k].args[1])]
           b == e[Node(w[k].args[2])]
           c == e[Node(w[k].args[3])]
           p == d[Node(w[k].args[1])]
           q == d[Node(w[k].args[2])]
           r == d[Node(w[k].args[3])]
           s == OperandValues(w, e, k)
           ds == OperandValues(w, d, k)
<1>1. DOMAIN w[k].args = 1 .. 3 /\ 1 \in 1 .. 3 /\ 2 \in 1 .. 3 /\ 3 \in 1 .. 3
  BY DEF TermKinds, UnaryOps, BinaryOps, ListedOps
<1>2. Meant(A, a) /\ Meant(B, b) /\ Meant(C, c)
  BY <1>1 DEF MeantBefore
<1>3. /\ Sloped(A, a, p, S) /\ p \in Value
      /\ Sloped(B, b, q, S) /\ q \in Value
      /\ Sloped(C, c, r, S) /\ r \in Value
  BY <1>1 DEF SlopedBefore
<1>4. TermMeaning(w, v, x, mean, k) = ListedMeanings(op, A, B, C)
  BY DEF TermMeaning, UnaryOps, BinaryOps, ListedOps
<1>5. /\ op = "listsum" => y = SumUp(s) /\ z = SumUp(ds)
      /\ op = "listprod" => y = Product(s) /\ z = ProductRule(s, ds)
  BY DEF Calculated, Derived
<1>6. a \in Number /\ b \in Number /\ c \in Number
  <2> HIDE DEF a, b, c, A, B, C
  <2> QED
    BY <1>2, MeantNumber
<1>7. \A i \in 1 .. 3 : i = 1 \/ i = 2 \/ i = 3
  OBVIOUS
<1>8. s \in [1 .. 3 -> Number] /\ s[1] = a /\ s[2] = b /\ s[3] = c
  <2>2. s = [i \in 1 .. 3 |-> e[Node(w[k].args[i])]]
    BY <1>1 DEF OperandValues
  <2>3. \A i \in 1 .. 3 : e[Node(w[k].args[i])] \in Number
    BY <1>7, <1>6
  <2> HIDE DEF s
  <2> QED
    BY <2>2, <2>3
<1>9. ds \in [1 .. 3 -> Value] /\ ds[1] = p /\ ds[2] = q /\ ds[3] = r
  <2>2. ds = [i \in 1 .. 3 |-> d[Node(w[k].args[i])]]
    BY <1>1 DEF OperandValues
  <2>3. \A i \in 1 .. 3 : d[Node(w[k].args[i])] \in Value
    BY <1>7, <1>3
  <2> HIDE DEF ds
  <2> QED
    BY <2>2, <2>3
<1> HIDE DEF A, B, C, a, b, c, p, q, r, s, ds, y, z
<1>10. Number \in Domains /\ Value \in Domains
  BY DEF Domains
<1>11. CASE op = "listsum"
  <2>1. SumUp(s) = Plus(Plus(Plus(Num(0), a), b), c)
    BY <1>8, <1>10, ThreeListed
  <2>2. SumUp(ds) = Plus(Plus(Plus(Num(0), p), q), r)
    BY <1>9, <1>10, ThreeListed
  <2>3. Plus(Num(0), a) = a
    BY <1>6, WithZero DEF Zero
  <2>4. Sloped(ListedMeanings("listsum", A, B, C),
               Plus(Plus(a, b), c), Plus(Plus(Plus(Num(0), p), q), r), S)
    BY <1>2, <1>3, ListSumSlopes
  <2> QED
    BY <1>4, <1>5, <1>11, <2>1, <2>2, <2>3, <2>4 DEF y, z
<1>12. CASE op = "listprod"
  <2>1. Product(s) = Times(Times(Times(Num(1), a), b), c)
    BY <1>8, <1>10, ThreeListed
  <2>2. ProductRule(s, ds)
          = Plus(Plus(Plus(Num(0), Times(Times(p, b), c)), Times(Times(a, q), c)),
                 Times(Times(a, b), r))
    BY <1>8, <1>9, ThreeFactors
  <2>3. Times(Num(1), a) = a
    BY <1>6, WithZero DEF One
  <2>4. Sloped(ListedMeanings("listprod", A, B, C), Times(Times(a, b), c),
               Plus(Plus(Plus(Num(0), Times(Times(p, b), c)), Times(Times(a, q), c)),
                    Times(Times(a, b), r)), S)
    BY <1>2, <1>3, ListProductSlopes
  <2> QED
    BY <1>4, <1>5, <1>12, <2>1, <2>2, <2>3, <2>4 DEF y, z
<1> QED
  BY <1>11, <1>12 DEF ListedOps

(* All terms but squares.                                                  *)
LEMMA TermSloped ==
  ASSUME NEW w, NEW k, TermKinds(w, k), NEW v, IsPlace(v), NEW x, NEW e, NEW d, NEW mean, NEW S,
         Calculated(w, v, e, k), Derived(w, v, x, e, d, k),
         MeantBefore(w, e, mean, k), SlopedBefore(w, e, d, mean, S, k),
         w[k].op # "square", Fits(w[k].poly), w[k].op # "untagged"
  PROVE  Sloped(TermMeaning(w, v, x, mean, k), e[Node(k)], d[Node(k)], S)
BY LeafSloped, UnaryTermSloped, BinaryTermSloped, ListedTermSloped DEF TermKinds

\* The powers in an expression whose base is not positive.
Lost(w, e) ==
  {k \in Parts(w, Len(w)) : w[k].op = "pow" /\ ~Positive(e[Node(w[k].args[1])])}

(* The interpreter derives what the parts of an expression mean.           *)
LEMMA SlopesMeant ==
  ASSUME NEW w, NEW n, WrittenMade(w, n), Referable(w), Carried(w), NEW v, IsPlace(v),
         NoneBroken(w, n, v), NEW x, ~Uses(w, Len(w), "square"), NEW k \in Parts(w, Len(w))
  PROVE  Sloped(Meaning(w, v, x)[k], Eval(Message(w), v)[Node(k)],
                Derive(Message(w), v, x)[Node(k)], Lost(w, Eval(Message(w), v)))
<1> DEFINE P == Parts(w, Len(w))
           e == Eval(Message(w), v)
           d == Derive(Message(w), v, x)
           mean == Meaning(w, v, x)
           L == Lost(w, e)
           r == [j \in P |-> Rank(w, j)]
           S == {j \in P : Sloped(mean[j], e[Node(j)], d[Node(j)], L)}
<1>1. r \in [P -> Nat]
  <2>1. ASSUME NEW j \in P PROVE Rank(w, j) \in Nat
    <3>1. Rank(w, j) \in 0 .. 2 * Len(w)
      BY PartsOf
    <3> QED
      BY <3>1
  <2> HIDE DEF P
  <2> QED
    BY <2>1
<1>2. AllMeant(w, e, mean) /\ Divisible(w, e, mean)
  BY AllValuesMeant
<1>3. ASSUME NEW j \in P, \A i \in P : r[i] < r[j] => i \in S PROVE j \in S
  <2>1. \A i \in P : Rank(w, i) < Rank(w, j) => Sloped(mean[i], e[Node(i)], d[Node(i)], L)
    <3> HIDE DEF P, mean, e, d, L
    <3> QED
      BY <1>3
  <2>2. Calculated(w, v, e, j) /\ TermKinds(w, j) /\ Derived(w, v, x, e, d, j)
    BY AllCalculated, AllDerived
  <2>3. mean[j] = TermMeaning(w, v, x, mean, j)
    BY MeaningRuns
  <2>4. \A i \in P : d[Node(i)] \in Value
    BY AllDerived
  <2>5. w[j].op # "square" /\ Fits(w[j].poly) /\ w[j].op # "untagged"
    BY DEF Uses, Carried, AllFit
  <2>6. \A i \in DOMAIN w[j].args :
          w[j].args[i] \in P /\ Rank(w, w[j].args[i]) < Rank(w, j)
    BY PartsOf
  <2>7. w[j].op = "reference" =>
          ReferredTerm(w) \in P /\ Rank(w, ReferredTerm(w)) < Rank(w, j)
    BY PartsOf
  <2>8. w[j].op = "/" => 2 \in DOMAIN w[j].args
    BY <2>2 DEF TermKinds, UnaryOps, BinaryOps, ListedOps
  <2>9. w[j].op = "pow" => PowerOf(w, e, mean, j)
    BY ExponentMeant
  <2>10. MeantBefore(w, e, mean, j)
    <3> HIDE DEF mean, e
    <3>1. \A i \in P : Meant(mean[i], e[Node(i)])
      BY <1>2 DEF AllMeant
    <3>2. w[j].op = "/" => e[Node(w[j].args[2])] # Num(0)
      <4> SUFFICES ASSUME w[j].op = "/" PROVE e[Node(w[j].args[2])] # Num(0)
        OBVIOUS
      <4>1. PICK a \in mean[w[j].args[2]] : a[1] = e[Node(w[j].args[2])]
        BY <2>6, <2>8, <3>1 DEF Meant
      <4> QED
        BY <4>1, <1>2 DEF Divisible
    <3> QED
      BY <2>6, <2>7, <2>9, <3>1, <3>2 DEF MeantBefore
  <2>11. SlopedBefore(w, e, d, mean, L, j)
    <3>1. w[j].op = "pow" => Positive(e[Node(w[j].args[1])]) \/ L # {}
      BY DEF Lost
    <3> HIDE DEF mean, e, d, L
    <3> QED
      BY <2>1, <2>4, <2>6, <2>7, <3>1 DEF SlopedBefore
  <2> HIDE DEF mean, e, d, L
  <2>12. Sloped(TermMeaning(w, v, x, mean, j), e[Node(j)], d[Node(j)], L)
    BY <2>2, <2>5, <2>10, <2>11, TermSloped
  <2> HIDE DEF P
  <2> QED
    BY <2>3, <2>12
<1>4. P \subseteq S
  <2> HIDE DEF P, S, r
  <2> QED
    BY <1>1, <1>3, RankInduction
<1> QED
  BY <1>4

(* A lost slope has its reason in what was written.                        *)
LEMMA LostMeans ==
  ASSUME NEW w, NEW n, WrittenMade(w, n), Referable(w), Carried(w), NEW v, IsPlace(v),
         NoneBroken(w, n, v), NEW k \in Lost(w, Eval(Message(w), v))
  PROVE  /\ k \in n + 1 .. Len(w) /\ w[k].op = "pow"
         /\ \E a \in Meaning(w, v, "")[w[k].args[1]] : ~Positive(a[1])
<1> DEFINE e == Eval(Message(w), v)
           flat == Meaning(w, v, "")
<1>1. k \in Parts(w, Len(w)) /\ w[k].op = "pow" /\ ~Positive(e[Node(w[k].args[1])])
  BY DEF Lost
<1>2. k \in 1 .. Len(w) /\ TermKinds(w, k)
  BY <1>1, PartsOf, TermsAre
<1>3. ASSUME k \in 1 .. n PROVE FALSE
  <2>1. w[k].op \in {"real", "variable", "reference", "polynomial", "untagged"}
    BY <1>3, LeafKinds DEF WrittenMade
  <2> QED
    BY <2>1, <1>1
<1>4. k \in n + 1 .. Len(w)
  BY <1>2, <1>3, WrittenOrdered
<1>5. 1 \in DOMAIN w[k].args
  BY <1>1, <1>2 DEF TermKinds, UnaryOps, BinaryOps, ListedOps
<1>6. w[k].args[1] \in Parts(w, Len(w))
  BY <1>1, <1>5, PartsOf
<1>7. AllMeant(w, e, flat)
  BY AllValuesMeant
<1> HIDE DEF e, flat
<1>8. PICK a \in flat[w[k].args[1]] : a[1] = e[Node(w[k].args[1])]
  BY <1>6, <1>7 DEF AllMeant, Meant
<1> QED
  BY <1>1, <1>4, <1>8 DEF flat

(* The derivative that the interpreter finds is a slope of the expression  *)
(* as it was written, or is not finite for the logarithm of a base that is *)
(* not positive (evalPartialDerivative), under the same conditions and     *)
(* without squares.                                                        *)
THEOREM DerivativeIsMeant == Spec => []DerivativeMeant
<1>1. WritingInv => DerivativeMeant
  <2> SUFFICES ASSUME WritingInv, Answered, query.d # "", ~Broken,
                      ~Uses(written, Len(written), "square")
               PROVE  \/ \E a \in Meaning(written, query.place, query.d)[Len(written)] :
                           result = a[2]
                      \/ result = NotFinite /\ PowerOfNonPositive
    BY DEF DerivativeMeant
  <2> DEFINE w == written
             v == query.place
             x == query.d
             N == Len(w)
             m == Message(w)
             A == Meaning(w, v, x)[N]
             e == Eval(m, v)
             c == e[Node(N)]
  <2>1. /\ WrittenMade(w, Leaves) /\ Referable(w) /\ message = m /\ v \in Places
        /\ result = Answer(m, query) /\ Carried(w)
    BY DEF WritingInv, Before, Sent, Asked, Answered, Carried
  <2>2. IsPlace(v) /\ Len(m) = Node(N)
    BY <2>1, PlacesGiven, AnswersAreValues
  <2>3. result = Derive(m, v, x)[Node(N)]
    BY <2>1, <2>2 DEF Answer
  <2>4. NoneBroken(w, Leaves, v)
    BY DEF Broken, Terms, NoneBroken
  <2>5. N \in Parts(w, N)
    BY ZenonT(60), <2>1, WrittenOrdered, PartsAre
  <2>6. Sloped(A, c, result, Lost(w, e))
    BY <2>1, <2>2, <2>3, <2>4, <2>5, SlopesMeant
  <2>7. CASE result = NotFinite /\ Lost(w, e) # {}
    <3>1. PICK k \in Lost(w, e) : TRUE
      BY <2>7
    <3>2. /\ k \in Leaves + 1 .. N /\ w[k].op = "pow"
          /\ \E a \in Meaning(w, v, "")[w[k].args[1]] : ~Positive(a[1])
      BY <2>1, <2>2, <2>4, LostMeans
    <3>3. PowerOfNonPositive
      BY <3>2 DEF PowerOfNonPositive, Terms
    <3> QED
      BY <2>7, <3>3
  <2>8. CASE <<c, result>> \in A
    <3>1. <<c, result>>[2] = result
      BY FirstOf
    <3> HIDE DEF A, c
    <3>2. \E a \in A : result = a[2]
      BY <2>8, <3>1
    <3> QED
      BY <3>2 DEF A
  <2> QED
    BY <2>6, <2>7, <2>8 DEF Sloped
<1> QED
  BY <1>1, WritingAlways, PTL
==============================================================================
