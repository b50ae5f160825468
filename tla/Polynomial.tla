----------------------------- MODULE Polynomial ------------------------------
(***************************************************************************)
(* Polynomials in an advertisement: buildPolynomial                        *)
(* (polynomial-convenience.hpp) writes the powers of each monomial as the  *)
(* digits of one offset, and the interpreter (AdvFunc::eval(Polynomial))   *)
(* takes them apart again to evaluate the polynomial or a derivative.      *)
(***************************************************************************)
EXTENDS Rationals, Sequences, FiniteSetsExt

CONSTANTS
  VarNames,      \* the names of variables, in their order
  ByteValues,    \* values of maxVarDegree, a UInt8
  IntValues,     \* an int lies in -IntValues .. IntValues - 1
  Overflow       \* the int that stands for a number outside of it: undefined, the
                 \*   least int on some machines and the largest on others

Names == {VarNames[x] : x \in DOMAIN VarNames}

ASSUME ByteAssumption == ByteValues \in Nat \ {0}
ASSUME IntAssumption == IntValues \in Nat \ {0} /\ Overflow \in Int \ {0}
ASSUME NamesAssumption ==
  /\ VarNames \in Seq(STRING) /\ "" \notin Names
  /\ \A x, y \in DOMAIN VarNames : VarNames[x] = VarNames[y] => x = y

IsSequence(s) == s \in Seq({s[x] : x \in DOMAIN s})

\* A monomial is a coefficient and a list of powers of distinct variables.
IsMonomial(monom) ==
  LET p == monom.powers IN
  /\ monom.coeff \in Number
  /\ p \in Seq([var : Names, pow : 0 .. ByteValues - 1])
  /\ \A a, b \in DOMAIN p : p[a].var = p[b].var => a = b

SumUp(s) ==
  LET sum[i \in 0 .. Len(s)] == IF i = 0 THEN Num(0) ELSE Plus(sum[i - 1], s[i])
  IN  sum[Len(s)]

Product(s) ==
  LET prod[i \in 0 .. Len(s)] == IF i = 0 THEN Num(1) ELSE Times(prod[i - 1], s[i])
  IN  prod[Len(s)]

\* Of integers.
Total(s) ==
  LET total[i \in 0 .. Len(s)] == IF i = 0 THEN 0 ELSE total[i - 1] + s[i]
  IN  total[Len(s)]

Raise(b, n) ==
  LET raise[i \in 0 .. n] == IF i = 0 THEN 1 ELSE b * raise[i - 1]
  IN  raise[n]

\* What an int holds of an integer.
Held(n) == IF n \in -IntValues .. IntValues - 1 THEN n ELSE Overflow

------------------------------------------------------------------------------
(* Writing.                                                                *)

Powers(monom) == {monom.powers[a].pow : a \in DOMAIN monom.powers}

\* MUTANT: the degree of the first monomial.
maxVarDegreeFirst(s) == Max({0} \cup UNION {Powers(s[x]) : x \in DOMAIN s \cap {1}})

maxVarDegree(s) == Max({0} \cup UNION {Powers(s[x]) : x \in DOMAIN s})

Named(monom) == {monom.powers[a].var : a \in DOMAIN monom.powers}

variables(s) ==
  LET list[x \in 0 .. Len(VarNames)] ==
        IF x = 0 THEN <<>>
        ELSE IF \E j \in DOMAIN s : VarNames[x] \in Named(s[j])
               THEN Append(list[x - 1], VarNames[x])
               ELSE list[x - 1]
  IN  list[Len(VarNames)]

Distance(vs, v) == CHOOSE x \in DOMAIN vs : vs[x] = v

\* The value of digit x of an offset, in base one more than the degree (not yet
\* cut to a byte).
Place(s, x) == Raise(maxVarDegree(s) + 1, x - 1)

\* Digit x is the power of variable x.
Exact(s, monom) ==
  Total([a \in DOMAIN monom.powers |->
    monom.powers[a].pow * Place(s, Distance(variables(s), monom.powers[a].var))])

\* The same in ints.
Offset(s, monom) ==
  Held(Total([a \in DOMAIN monom.powers |->
    monom.powers[a].pow * Held(Place(s, Distance(variables(s), monom.powers[a].var)))]))

\* No int overflows.
Fits(s) ==
  /\ \A x \in DOMAIN variables(s) : Place(s, x) < IntValues
  /\ \A j \in DOMAIN s : Exact(s, s[j]) < IntValues

\* The message of a MonomialSum (an offset is a UInt32 there, and an int again when
\* it is read).
buildPolynomial(s) ==
  [variables |-> variables(s),
   maxVarDegree |-> maxVarDegree(s) % ByteValues,
   coefficients |-> [x \in DOMAIN s |-> [offset |-> Offset(s, s[x]), value |-> s[x].coeff]]]

\* An offset has one digit per variable.
WellBuilt(m) ==
  \A x \in DOMAIN m.coefficients :
    m.coefficients[x].offset \in 0 .. Raise(m.maxVarDegree + 1, Len(m.variables)) - 1

------------------------------------------------------------------------------
(* Reading.                                                                *)

Raised(a, n) == Product([x \in 1 .. n |-> a])

Power(a, n) == IF n < 0 THEN Reciprocal(Raised(a, -n)) ELSE Raised(a, n)

\* Division in C++ is towards zero.
Quotient(a, b) ==
  LET q == AbsInt(a) \div AbsInt(b) IN IF (a < 0) = (b < 0) THEN q ELSE -q

Remainder(a, b) == IF a < 0 THEN -((-a) % b) ELSE a % b

Digit(m, offset, x) ==
  LET base == m.maxVarDegree + 1
  IN  Remainder(Quotient(offset, Held(Raise(base, x - 1))), base)

\* A power below zero leaves the product of a derivative alone.
Factor(value, rem, derive) ==
  IF ~derive THEN Power(value, rem)
  ELSE IF rem = 0 THEN Num(0)
  ELSE IF rem < 0 THEN Num(1)
  ELSE Times(Num(rem), Raised(value, rem - 1))

Monom(m, offset, point, by) ==
  Product([x \in DOMAIN m.variables |->
    Factor(point[m.variables[x]], Digit(m, offset, x), m.variables[x] = by)])

\* The value at a point, or the derivative by one of the variables.
EvalPolynomial(m, point, by) ==
  SumUp([x \in DOMAIN m.coefficients |->
    Times(m.coefficients[x].value, Monom(m, m.coefficients[x].offset, point, by))])

\* The derivative by a variable that is not on the list is zero at once.
DerivePolynomial(m, point, by) ==
  IF \E x \in DOMAIN m.variables : m.variables[x] = by
    THEN EvalPolynomial(m, point, by)
    ELSE Num(0)
==============================================================================
