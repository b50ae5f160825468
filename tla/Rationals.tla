------------------------------ MODULE Rationals ------------------------------
(***************************************************************************)
(* Numbers: fractions in lowest terms, which stand for doubles without     *)
(* their rounding errors.  What a division by zero or log(0) leads to is   *)
(* one value more, that all operations hand on.                            *)
(***************************************************************************)
EXTENDS Integers

NotFinite == <<0, 0>>

AbsInt(n) == IF n < 0 THEN -n ELSE n

Gcd[p \in Nat \X Nat] == IF p[2] = 0 THEN p[1] ELSE Gcd[<<p[2], p[1] % p[2]>>]

Frac(n, d) ==
  IF d = 0 THEN NotFinite
  ELSE LET g == Gcd[<<AbsInt(n), AbsInt(d)>>] * (IF d < 0 THEN -1 ELSE 1)
           sign == IF g < 0 THEN -1 ELSE 1
       IN  <<(sign * n) \div (sign * g), (sign * d) \div (sign * g)>>

Num(n) == <<n, 1>>
One == Num(1)
Zero == Num(0)

Finite(a) == a[2] # 0

\* Those that are finite, and all.
Number == {a \in Int \X (Nat \ {0}) : Gcd[<<AbsInt(a[1]), a[2]>>] = 1}
IsNumber(a) == a \in Number \cup {NotFinite}

Plus(a, b) == Frac(a[1] * b[2] + b[1] * a[2], a[2] * b[2])
Times(a, b) == Frac(a[1] * b[1], a[2] * b[2])
Squared(a) == Times(a, a)
Negated(a) == <<-a[1], a[2]>>
Minus(a, b) == Plus(a, Negated(b))
Reciprocal(a) == Frac(a[2], a[1])

\* Of finite numbers.
Leq(a, b) == a[1] * b[2] <= b[1] * a[2]
Less(a, b) == ~Leq(b, a)
Positive(a) == a[1] > 0

Least(a, b) == IF Leq(a, b) THEN a ELSE b
Greatest(a, b) == IF Leq(a, b) THEN b ELSE a
LeastOf(S) == CHOOSE a \in S : \A b \in S : Leq(a, b)
GreatestOf(S) == CHOOSE a \in S : \A b \in S : Leq(b, a)
Size(a) == IF Positive(a) THEN a ELSE Negated(a)
Sgn(a) == Num(IF a[1] > 0 THEN 1 ELSE IF a[1] < 0 THEN -1 ELSE 0)
==============================================================================
