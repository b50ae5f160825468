----------------------------- MODULE Expression ------------------------------
(***************************************************************************)
(* Expressions from writing to reading: a program writes one with the      *)
(* operators of namespace cv (realexpr-convenience.hpp), build turns it    *)
(* into a message, and the interpreter evaluates the message or its        *)
(* partial derivative (adv-interpreter-eval.cpp).  Sums and products of    *)
(* lists, comparisons and case distinctions, which have no such operator,  *)
(* are put into the message as they are, and so is a polynomial that       *)
(* buildPolynomial writes on its own; one that is an operand of operators  *)
(* (cv::Polynomial) is written without the tag that would make it one.     *)
(*                                                                         *)
(* An expression is a sequence of terms, each made of earlier ones; the    *)
(* last is the expression itself.  Term k is node 2k of the message, node  *)
(* 2k - 1 is the one that an operator puts around its second operand.      *)
(***************************************************************************)
EXTENDS Polynomial

CONSTANTS
  Starts,     \* terms at hand (constants, variables, references, polynomials)
              \*   and a bound on the operators that are put on top of them
  Unary, Binary, Listed,  \* operators that may be written
  Places,     \* evaluation points: values of the variables
  MAX_NESTING_DEPTH

Term(op, args) == [op |-> op, args |-> args, num |-> Num(0), id |-> "", poly |-> <<>>]
Constant(x) == [Term("real", <<>>) EXCEPT !.num = x]
Var(x) == [Term("variable", <<>>) EXCEPT !.id = x]
Ref(a) == [Term("reference", <<>>) EXCEPT !.id = a]
Sum(s) == [Term("polynomial", <<>>) EXCEPT !.poly = s]
Polynomial(s) == [Term("untagged", <<>>) EXCEPT !.poly = s]

UnaryOps == {"square", "abs", "sign", "round", "floor", "ceil", "name"}
BinaryOps == {"+", "-", "*", "/", "min", "max", "pow", "lesseq", "greater", "case"}
ListedOps == {"listsum", "listprod"}
TheName == "a"             \* the one that "name" gives

ASSUME OperatorsAssumption ==
  /\ Unary \subseteq UnaryOps /\ Binary \subseteq BinaryOps /\ Listed \subseteq ListedOps
  /\ "case" \in Binary => "x" \in Names

IsLeaf(t) ==
  \/ t = Constant(t.num) /\ t.num \in Number
  \/ t = Var(t.id) /\ t.id \in Names
  \/ t = Ref(TheName)
  \/ /\ t \in {Sum(t.poly), Polynomial(t.poly)}
     /\ IsSequence(t.poly) /\ \A j \in DOMAIN t.poly : IsMonomial(t.poly[j])

ASSUME LeavesAssumption ==
  \A start \in Starts :
    /\ IsSequence(start.leaves) /\ start.leaves # <<>>
    /\ \A k \in DOMAIN start.leaves : IsLeaf(start.leaves[k])
ASSUME NestingAssumption == MAX_NESTING_DEPTH \in Nat \ {0}
ASSUME PlacesAssumption ==
  /\ Places # {}
  /\ \A v \in Places : Names \subseteq DOMAIN v /\ \A x \in DOMAIN v : v[x] \in Number

VARIABLES
  pc,         \* "write", "sent" or "answered"
  start,
  written,    \* the terms
  message,    \* the nodes of the RealExpr
  query,      \* the variable of the derivative, or "" for the value, and where
  result

vars == <<pc, start, written, message, query, result>>

LastTerm(w) == w[Len(w)]
Leaves == Len(start.leaves)

Init ==
  /\ pc = "write"
  /\ start \in Starts
  /\ written = start.leaves
  /\ message = <<>>
  /\ query = [d |-> "", place |-> CHOOSE v \in Places : TRUE]
  /\ result = Num(0)

------------------------------------------------------------------------------
(* Writing and building                                                    *)

\* The terms that term k is made of, and itself.
Parts(w, k) ==
  LET parts[j \in DOMAIN w] ==
        {j} \cup UNION {parts[w[j].args[i]] : i \in DOMAIN w[j].args}
  IN  parts[k]

Uses(w, k, op) == \E j \in Parts(w, k) : w[j].op = op

\* A name is given once, to a term that does not refer to it; an exponent
\* is a natural number.
Writable(w) ==
  LET t == LastTerm(w) IN
  /\ t.op = "name" =>
       /\ ~Uses(w, t.args[1], "name") /\ ~Uses(w, t.args[1], "reference")
  /\ t.op = "pow" =>
       w[t.args[2]].op = "real" /\ w[t.args[2]].num \in {Num(n) : n \in 0 .. 9}

\* A term is made of earlier ones, the last one among them.
Write ==
  /\ pc = "write" /\ Len(written) < Leaves + start.operators
  /\ \E n \in 1 .. 3, op \in Unary \cup Binary \cup Listed :
       /\ op \in Unary => n = 1
       /\ op \in Binary => n = 2
       /\ op \in Listed => n = 3
       /\ \E args \in [1 .. n -> DOMAIN written] :
            /\ Len(written) = Leaves \/ \E i \in 1 .. n : args[i] = Len(written)
            /\ written' = Append(written, Term(op, args))
            /\ Writable(written')
  /\ UNCHANGED <<pc, start, message, query, result>>

Node(k) == 2 * k
Inner(k) == 2 * k - 1

\* The operation of a binary operator and what it does to its operands.  A RealExpr
\* whose polynomial is got and not initialized keeps the tag that it starts with,
\* which is that of a real.
Built(w, k) ==
  LET t == w[k]
      args == [i \in DOMAIN t.args |-> Node(t.args[i])]
  IN  CASE t.op = "+" -> [t EXCEPT !.op = "sum", !.args = args]
        [] t.op = "*" -> [t EXCEPT !.op = "prod", !.args = args]
        [] t.op = "-" -> [t EXCEPT !.op = "sum", !.args = <<args[1], Inner(k)>>]
        [] t.op = "/" -> [t EXCEPT !.op = "prod", !.args = <<args[1], Inner(k)>>]
        [] t.op = "untagged" -> [t EXCEPT !.op = "real", !.args = args]
        [] OTHER -> [t EXCEPT !.args = args]

BuiltInner(w, k) ==
  CASE w[k].op = "-" -> Term("negate", <<Node(w[k].args[2])>>)
    [] w[k].op = "/" -> Term("multinv", <<Node(w[k].args[2])>>)
    [] OTHER -> Constant(Num(0))

\* What the message holds of the polynomials and the terms; a leaf that is not part
\* of the expression does not get into its message.
Message(w) ==
  LET node(j) ==
        LET k == (j + 1) \div 2 IN
        IF k \notin Parts(w, Len(w)) THEN Constant(Num(0))
        ELSE IF j = Node(k) THEN Built(w, k) ELSE BuiltInner(w, k)
  IN  [j \in 1 .. Node(Len(w)) |-> [node(j) EXCEPT !.poly = buildPolynomial(@)]]

\* buildRealExpr; a name goes onto the node of the term it is given to.
Send ==
  /\ pc = "write"
  /\ Uses(written, Len(written), "reference") => Uses(written, Len(written), "name")
  /\ message' = Message(written)
  /\ pc' = "sent"
  /\ UNCHANGED <<start, written, query, result>>

------------------------------------------------------------------------------
(* Reading: AdvFunc::eval and evalPartialDerivative.                       *)

\* findReferences
Referred(m) == CHOOSE j \in DOMAIN m : m[j].op = "name"

Floor(a) == Num(a[1] \div a[2])

\* MUTANT: halves go up.
RoundedUp(a) == Floor(Plus(a, Frac(1, 2)))

\* Halves away from zero.
Rounded(a) ==
  IF Positive(a) THEN Floor(Plus(a, Frac(1, 2)))
  ELSE Negated(Floor(Plus(Negated(a), Frac(1, 2))))

Truth(b) == Num(IF b THEN 1 ELSE 0)

\* The cases are x <= 0 and x >= 0, in that order.
Chosen(args, v) == IF Leq(v["x"], Num(0)) THEN args[1] ELSE args[2]

\* The value of a node, given those of others.
NodeValue(m, v, e, j) ==
  LET op == m[j].op
      a == e[m[j].args[1]]
      b == e[m[j].args[2]]
      all == [i \in DOMAIN m[j].args |-> e[m[j].args[i]]]
  IN  CASE op = "real" -> m[j].num
        [] op = "variable" -> v[m[j].id]
        [] op = "polynomial" -> EvalPolynomial(m[j].poly, v, "")
        [] op = "reference" -> e[Referred(m)]
        [] op = "name" -> a
        [] op = "case" -> e[Chosen(m[j].args, v)]
        [] op = "negate" -> Negated(a)
        [] op = "multinv" -> Reciprocal(a)
        [] op = "square" -> Times(a, a)
        [] op = "abs" -> Times(Sgn(a), a)
        [] op = "sign" -> Sgn(a)
        [] op = "round" -> IF Finite(a) THEN Rounded(a) ELSE a
        [] op = "floor" -> IF Finite(a) THEN Floor(a) ELSE a
        [] op = "ceil" -> IF Finite(a) THEN Negated(Floor(Negated(a))) ELSE a
        [] op = "sum" -> Plus(a, b)
        [] op = "prod" -> Times(a, b)
        [] op = "lesseq" -> Truth(Leq(a, b))
        [] op = "greater" -> Truth(Less(b, a))
        [] op = "min" -> Least(a, b)
        [] op = "max" -> Greatest(a, b)
        [] op = "pow" -> Power(a, b[1])
        [] op = "listsum" -> SumUp(all)
        [] op = "listprod" -> Product(all)

Eval(m, v) ==
  LET e[j \in DOMAIN m] == NodeValue(m, v, e, j)
  IN  e

\* MUTANT: every factor is multiplied in, the derived one included.
ProductRuleAll(s, ds) ==
  SumUp([i \in DOMAIN s |-> Times(ds[i], Product(s))])

\* Each factor derived in turn, times the others.
ProductRule(s, ds) ==
  SumUp([i \in DOMAIN s |->
    Product([j \in DOMAIN s |-> IF j = i THEN ds[i] ELSE s[j]])])

\* pow(a, n - 1) * (n * da + a * log(a) * dn), of a constant n: the
\* logarithm counts only where it is not finite.
PowerRule(a, n, da) ==
  LET log == IF Positive(a) THEN Num(0) ELSE NotFinite
  IN  Times(Power(a, n - 1), Plus(Times(Num(n), da), log))

\* The derivative of a node, given the values and derivatives of others.
NodeSlope(m, v, x, e, d, j) ==
  LET op == m[j].op
      args == m[j].args
      a == e[args[1]]
      b == e[args[2]]
      da == d[args[1]]
      db == d[args[2]]
      ds == [i \in DOMAIN args |-> d[args[i]]]
  IN  CASE op \in {"real", "sign", "lesseq", "greater"} -> Num(0)
        [] op = "variable" -> Truth(m[j].id = x)
        [] op = "polynomial" -> DerivePolynomial(m[j].poly, v, x)
        [] op = "reference" -> d[Referred(m)]
        [] op \in {"name", "round", "floor", "ceil"} -> da
        [] op = "case" -> d[Chosen(args, v)]
        [] op = "negate" -> Negated(da)
        [] op = "multinv" -> Times(Negated(Reciprocal(Times(a, a))), da)
        [] op = "square" -> Times(Num(2), da)
        [] op = "abs" -> Times(Sgn(a), da)
        [] op = "sum" -> Plus(da, db)
        [] op = "prod" -> Plus(Times(a, db), Times(b, da))
        [] op = "min" -> IF Leq(a, b) THEN da ELSE db
        [] op = "max" -> IF Less(b, a) THEN da ELSE db
        [] op = "pow" -> PowerRule(a, b[1], da)
        [] op = "listsum" -> SumUp(ds)
        [] op = "listprod" -> ProductRule([i \in DOMAIN args |-> e[args[i]]], ds)

Derive(m, v, x) ==
  LET e == Eval(m, v)
      d[j \in DOMAIN m] == NodeSlope(m, v, x, e, d, j)
  IN  d

Answer(m, q) ==
  IF q.d = "" THEN Eval(m, q.place)[Len(m)] ELSE Derive(m, q.place, q.d)[Len(m)]

\* The tests of membership that choose a case, in sets of one boundary pair each.
Tests(v) == IF Leq(v["x"], Num(0)) THEN 3 ELSE 6

\* How often a function counts up the nesting depth to find the value of a node.  A
\* name is a field of its node.
EvalEntries(m, v) ==
  LET n[j \in DOMAIN m] ==
        LET args == m[j].args IN
        CASE m[j].op = "name" -> n[args[1]]
          [] m[j].op = "reference" -> 1 + n[Referred(m)]
          [] m[j].op = "case" -> 1 + Tests(v) + n[Chosen(args, v)]
          [] OTHER -> 1 + Total([i \in DOMAIN args |-> n[args[i]]])
  IN  n

\* And its derivative: these operations need the values of their operands, too.
NeedValues == {"multinv", "abs", "prod", "min", "max", "pow", "listprod"}

DeriveEntries(m, v) ==
  LET e == Eval(m, v)
      n == EvalEntries(m, v)
      d[j \in DOMAIN m] ==
        LET op == m[j].op
            args == m[j].args
            values == IF op \in NeedValues THEN Total([i \in DOMAIN args |-> n[args[i]]]) ELSE 0
            slopes ==
              CASE op \in {"sign", "lesseq", "greater"} -> 0
                [] op = "min" -> IF Leq(e[args[1]], e[args[2]]) THEN d[args[1]] ELSE d[args[2]]
                [] op = "max" -> IF Less(e[args[2]], e[args[1]]) THEN d[args[1]] ELSE d[args[2]]
                [] OTHER -> Total([i \in DOMAIN args |-> d[args[i]]])
        IN  CASE op = "name" -> d[args[1]]
              [] op = "reference" -> 1 + d[Referred(m)]
              [] op = "case" -> 1 + Tests(v) + d[Chosen(args, v)]
              [] OTHER -> 1 + values + slopes
  IN  d

Entries(m, q) ==
  IF q.d = "" THEN EvalEntries(m, q.place)[Len(m)] ELSE DeriveEntries(m, q.place)[Len(m)]

\* The exception "max nesting depth reached".
TooDeep == <<>>

\* evaluate and evalPartialDerivative, called by the user.  Past its limit the count
\* starts anew where it is a test of membership that reaches it; operands are
\* evaluated in any order.
Ask ==
  /\ pc = "sent"
  /\ \E v \in Places : \E x \in {""} \cup DOMAIN v : query' = [d |-> x, place |-> v]
  /\ LET over == Entries(message, query') > MAX_NESTING_DEPTH IN
       \/ over /\ result' = TooDeep
       \/ /\ over => \E j \in DOMAIN message : message[j].op = "case"
          /\ result' = Answer(message, query')
  /\ pc' = "answered"
  /\ UNCHANGED <<start, written, message>>

Next == Write \/ Send \/ Ask

Spec == Init /\ [][Next]_vars

------------------------------------------------------------------------------
\* No offset of a polynomial in the expression overflows.
AllFit(w) == \A k \in Parts(w, Len(w)) : Fits(w[k].poly)

(* An expression is made of what was written before it and a message of    *)
(* nodes inside one another, never of itself; the offsets of a polynomial  *)
(* have one digit per variable, unless an int overflows; results are       *)
(* numbers or the exception (build, which initializes an operand within    *)
(* the operation, and buildPolynomial).                                    *)
TypeOK ==
  /\ pc \in {"write", "sent", "answered"}
  /\ \A k \in DOMAIN written : \A i \in DOMAIN written[k].args : written[k].args[i] < k
  /\ \A j \in DOMAIN message :
       /\ AllFit(written) => WellBuilt(message[j].poly)
       /\ \A i \in DOMAIN message[j].args : message[j].args[i] < j
  /\ query.place \in Places
  /\ IsNumber(result) \/ result = TooDeep

(* The reference: the value of the expression as written together with its *)
(* slope, by calculation with <<value, slope>> pairs.  An expression has   *)
(* more than one slope where two pieces of it meet.                        *)

PlusD(a, b) == <<Plus(a[1], b[1]), Plus(a[2], b[2])>>
TimesD(a, b) == <<Times(a[1], b[1]), Plus(Times(a[1], b[2]), Times(a[2], b[1]))>>
ScaledD(n, a) == <<Times(Num(n), a[1]), Times(Num(n), a[2])>>
OverD(a, b) ==
  <<Times(a[1], Reciprocal(b[1])),
    Times(Minus(Times(a[2], b[1]), Times(a[1], b[2])), Reciprocal(Times(b[1], b[1])))>>
PowD(a, n) ==
  LET p[k \in 0 .. n] == IF k = 0 THEN <<Num(1), Num(0)>> ELSE TimesD(a, p[k - 1])
  IN  p[n]

FlatD(x) == <<x, Num(0)>>

\* A fraction lies between whole numbers as large as its numerator.
Around(a) == LET n == AbsInt(a[1]) + 1 IN -n .. n

IsFloor(n, a) == Leq(Num(n), a) /\ Less(a, Num(n + 1))
IsCeil(n, a) == Leq(a, Num(n)) /\ Less(Num(n - 1), a)

\* A half goes away from zero.
IsRound(n, a) ==
  LET side == Num(IF Positive(a) THEN 1 ELSE -1)
      off == Times(side, Minus(a, Num(n)))
  IN  Leq(Frac(-1, 2), off) /\ Less(off, Frac(1, 2))

FloorOf(a) == CHOOSE n \in Around(a) : IsFloor(n, a)
CeilOf(a) == CHOOSE n \in Around(a) : IsCeil(n, a)
RoundOf(a) == CHOOSE n \in Around(a) : IsRound(n, a)

UnaryMeaning(op, a) ==
  CASE op = "name" -> {a}
    [] op = "square" -> {TimesD(a, a)}
    [] op = "abs" -> {ScaledD(s, a) : s \in
         IF Positive(a[1]) THEN {1} ELSE IF a[1] = Num(0) THEN {-1, 0, 1} ELSE {-1}}
    [] op = "sign" -> {FlatD(Sgn(a[1]))}
    [] op = "floor" -> {<<Num(FloorOf(a[1])), a[2]>>}
    [] op = "ceil" -> {<<Num(CeilOf(a[1])), a[2]>>}
    [] op = "round" -> {<<Num(RoundOf(a[1])), a[2]>>}

BinaryMeaning(op, a, b, v) ==
  CASE op = "+" -> {PlusD(a, b)}
    [] op = "-" -> {PlusD(a, ScaledD(-1, b))}
    [] op = "*" -> {TimesD(a, b)}
    [] op = "/" -> {OverD(a, b)}
    [] op = "pow" -> {PowD(a, b[1][1])}
    [] op = "min" -> {x \in {a, b} : Leq(x[1], a[1]) /\ Leq(x[1], b[1])}
    [] op = "max" -> {x \in {a, b} : Leq(a[1], x[1]) /\ Leq(b[1], x[1])}
    [] op = "lesseq" -> {FlatD(Truth(Leq(a[1], b[1])))}
    [] op = "greater" -> {FlatD(Truth(~Leq(a[1], b[1])))}
    [] op = "case" -> {IF Leq(v["x"], Num(0)) THEN a ELSE b}

PowerMeaning(y, n, v, x) == PowD(<<v[y], Truth(y = x)>>, n)

PowersMeaning(p, v, x) ==
  LET f[a \in 0 .. Len(p)] ==
        IF a = 0 THEN FlatD(Num(1))
        ELSE TimesD(f[a - 1], PowerMeaning(p[a].var, p[a].pow, v, x))
  IN  f[Len(p)]

\* Each monomial is its coefficient times the powers as they were written.
PolynomialMeaning(s, v, x) ==
  LET g[j \in 0 .. Len(s)] ==
        IF j = 0 THEN FlatD(Num(0))
        ELSE PlusD(g[j - 1], TimesD(FlatD(s[j].coeff), PowersMeaning(s[j].powers, v, x)))
  IN  g[Len(s)]

UnaryMeanings(op, A) == UNION {UnaryMeaning(op, a) : a \in A}

BinaryMeanings(op, A, B, v) == UNION {BinaryMeaning(op, p[1], p[2], v) : p \in A \X B}

ListedMeanings(op, A, B, C) ==
  {IF op = "listsum" THEN PlusD(PlusD(t[1], t[2]), t[3])
   ELSE TimesD(TimesD(t[1], t[2]), t[3]) : t \in A \X B \X C}

ReferredTerm(w) == CHOOSE j \in DOMAIN w : w[j].op = "name"

\* All values and slopes of a term, given those of others.
TermMeaning(w, v, x, mean, k) ==
  LET arg(i) == mean[w[k].args[i]]
      op == w[k].op
  IN  CASE op = "real" -> {FlatD(w[k].num)}
        [] op = "variable" -> {<<v[w[k].id], Truth(w[k].id = x)>>}
        [] op \in {"polynomial", "untagged"} -> {PolynomialMeaning(w[k].poly, v, x)}
        [] op = "reference" -> mean[ReferredTerm(w)]
        [] op \in UnaryOps -> UnaryMeanings(op, arg(1))
        [] op \in BinaryOps -> BinaryMeanings(op, arg(1), arg(2), v)
        [] op \in ListedOps -> ListedMeanings(op, arg(1), arg(2), arg(3))

Meaning(w, v, x) ==
  LET mean[k \in Parts(w, Len(w))] == TermMeaning(w, v, x, mean, k)
  IN  mean

Terms == Leaves + 1 .. Len(written)

\* Somewhere in it there is a division by zero.
Broken ==
  \E k \in Terms : written[k].op = "/" /\
    \E a \in Meaning(written, query.place, "")[written[k].args[2]] :
      a[1] \in {Num(0), NotFinite}

\* The interpreter gave an answer to an expression whose polynomials are in the message.
Answered ==
  /\ pc = "answered" /\ result # TooDeep
  /\ AllFit(written) /\ ~Uses(written, Len(written), "untagged")

(* What is read is what was written: the value that the interpreter finds  *)
(* is that of the expression, wherever it can be calculated, no offset     *)
(* overflows and no polynomial lost its tag, if it gives one (operator-    *)
(* and operator/, which build sums and products; name and Ref; eval).      *)
ValueMeant ==
  Answered /\ query.d = "" /\ ~Broken =>
    {a[1] : a \in Meaning(written, query.place, "")[Len(written)]} = {result}

\* Squares have another derivative in the code; a power has none at a base
\* that is not positive.
PowerOfNonPositive ==
  \E k \in Terms : written[k].op = "pow" /\
    \E a \in Meaning(written, query.place, "")[written[k].args[1]] : ~Positive(a[1])

(* The derivative is a slope of the expression as written, on one side at  *)
(* least where pieces meet, or it is not a number for the one reason that  *)
(* it takes the logarithm of a base that is not positive                   *)
(* (evalPartialDerivative; squares, overflows and lost tags aside).        *)
DerivativeMeant ==
  Answered /\ query.d # "" /\ ~Broken /\ ~Uses(written, Len(written), "square") =>
    \/ \E a \in Meaning(written, query.place, query.d)[Len(written)] : result = a[2]
    \/ result = NotFinite /\ PowerOfNonPositive
==============================================================================
