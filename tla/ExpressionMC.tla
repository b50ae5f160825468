---------------------------- MODULE ExpressionMC -----------------------------
(* Every expression of two operators in two variables, one constant and a  *)
(* reference, at points on both sides of zero and on it; every sum of two  *)
(* monomials in up to three variables, with degrees up to the largest that *)
(* a byte of four values can hold, and every operator on some of them.     *)
(* Some of their offsets do not fit in an int, and the largest expressions *)
(* go over the nesting limit.                                              *)
EXTENDS Expression

MCLeaves == <<Var("x"), Var("y"), Constant(Num(2)), Ref(TheName)>>

MCVarNames == <<"x", "y", "z">>
Of(v, p) == [var |-> v, pow |-> p]
MCPowers ==
  {<<>>} \cup {<<Of(v, p)>> : v \in Names, p \in 0 .. 3}
    \cup {<<Of(x[1], x[2]), Of(x[3], x[4])>> :
            x \in {y \in Names \X {1, 3} \X Names \X {1, 2} : y[1] # y[3]}}
Monomial(c, p) == [coeff |-> Num(c), powers |-> p]
MCSums == {<<Monomial(2, p), Monomial(-1, q)>> : p, q \in MCPowers}
Operands ==
  {<<Monomial(2, <<Of("y", 1), Of("x", 2)>>), Monomial(-1, <<Of("x", 1)>>)>>,
   <<Monomial(-1, <<>>), Monomial(2, <<Of("x", 3)>>)>>}

MCStarts ==
  {[leaves |-> MCLeaves, operators |-> 2]}
    \cup {[leaves |-> <<Sum(s)>>, operators |-> 0] : s \in MCSums}
    \cup {[leaves |-> <<Var("x"), Sum(s)>>, operators |-> 1] : s \in Operands}
    \cup {[leaves |-> <<Polynomial(s)>>, operators |-> 1] : s \in Operands}

MCOverflow == -32

MCPlaces ==
  {[x |-> a, y |-> b, z |-> Num(3)] :
    a \in {Num(-2), Num(0), Frac(1, 2)}, b \in {Num(-1), Num(2)}}
==============================================================================
