--------------------------- MODULE DiscreteDevice ----------------------------
(***************************************************************************)
(* Advertisements of devices that implement discrete setpoints only        *)
(* (hlapi.cpp, DiscreteDevice with its belief policies): the belief        *)
(* function is a list of cases, built once, that the interpreter tests in  *)
(* order for each P it is asked about.  Powers are integers; an interval   *)
(* is kept in halves of their unit, because its boundary may be a midpoint.*)
(***************************************************************************)
EXTENDS Integers, Sequences

CONSTANTS
  PointLists,   \* setpoints of a realDiscreteDevice, as configured
  Profiles,     \* <<Pmin, Pmax>>
  Steps,        \* stepSize of a uniformRealDiscreteDevice
  Errors,       \* accumulated errors
  Powers,       \* P of the setpoints the controller asks about
  Inf           \* stands for infinity, in halves

ASSUME NumbersAssumption ==
  /\ PointLists \subseteq Seq(Int)
  /\ Profiles \subseteq {x \in Int \X Int : x[1] <= x[2]}
  /\ Steps \subseteq Nat \ {0} /\ Errors \subseteq Int
  /\ Powers \subseteq Int
ASSUME InfAssumption ==
  /\ Inf \in Nat
  /\ \A x \in Powers : 2 * x \in -Inf .. Inf
  /\ \A x \in Profiles, e \in Errors : {2 * (x[1] + e), 2 * (x[2] + e)} \subseteq -Inf .. Inf
  /\ \A s \in PointLists, e \in Errors : \A i \in DOMAIN s :
       2 * (s[i] + e) \in -Inf .. Inf

VARIABLES
  pc,        \* "start" | "build" | "ready" | "test" | "answered"
             \*   | "refused" (empty list) | "unhandled" (EvaluationError)
             \*   | "off" (the device is not a discrete one)
  policy,    \* "proj" (ProjBelief) | "round" (RoundBelief, ZenoneBelief)
  points, step, error, Pmin, Pmax,
  cases,     \* the case distinction
  P, c,      \* the request being evaluated, and the case being tested
  result

device == <<policy, step, error, Pmin, Pmax>>
vars == <<pc, device, points, cases, P, c, result>>

TypeOK ==
  /\ pc \in {"off", "start", "build", "ready", "test", "answered", "refused", "unhandled"}
  /\ policy \in {"proj", "round"}
  /\ points \in Seq(Int) /\ step \in Nat \ {0} /\ error \in Int
  /\ Pmin \in Int /\ Pmax \in Int
  /\ cases \in Seq([left : Int, right : Int, value : Int, rounds : BOOLEAN])
  /\ Len(cases) <= IF policy = "proj" THEN Len(points) ELSE 3
  /\ P \in Int /\ c \in 1 .. Len(cases) + 1
  /\ result \in Int

Init ==
  /\ pc = "start"
  /\ policy \in {"proj", "round"}
  /\ points \in IF policy = "proj" THEN PointLists ELSE {<<>>}
  /\ step \in IF policy = "round" THEN Steps ELSE {1}
  /\ error \in Errors
  /\ \E x \in Profiles : Pmin = x[1] /\ Pmax = x[2]
  /\ cases = <<>>
  /\ P = 0 /\ c = 1 /\ result = 0

------------------------------------------------------------------------------
(* The belief function: makeBelief.                                        *)

\* addCase: between l and r the value is v.
Fixed(l, r, v) == [left |-> l, right |-> r, value |-> v, rounds |-> FALSE]
Rounding == [left |-> -Inf, right |-> Inf, value |-> 0, rounds |-> TRUE]

\* MUTANT: the points are taken as they come.
SortedNot(s) == s

\* std::sort: the list in an order that ascends.
Sorted(s) ==
  LET order == CHOOSE p \in [DOMAIN s -> DOMAIN s] :
                 /\ \A i \in DOMAIN s : \E j \in DOMAIN s : p[j] = i
                 /\ \A i, j \in DOMAIN s : i < j => s[p[i]] <= s[p[j]]
  IN  [i \in DOMAIN s |-> s[order[i]]]

Begin ==
  /\ pc = "start"
  /\ points' = Sorted(points)
  /\ pc' = IF policy = "proj" /\ points = <<>> THEN "refused" ELSE "build"
  /\ UNCHANGED <<device, cases, P, c, result>>

\* MUTANT: the last point is given up above itself.
RightEndLast(i) ==
  IF i < Len(points) THEN points[i] + points[i + 1] + 2 * error
  ELSE 2 * (points[i] + error)

\* Of case i: the midpoint to the next point, shifted by the error.
RightEnd(i) ==
  IF i < Len(points) THEN points[i] + points[i + 1] + 2 * error ELSE Inf

\* ProjBelief: intervals that overlap, the last of them the whole line.
AddProjCase ==
  /\ pc = "build" /\ policy = "proj" /\ Len(cases) < Len(points)
  /\ LET i == Len(cases) + 1 IN
     cases' = Append(cases, Fixed(-Inf, RightEnd(i), points[i]))
  /\ UNCHANGED <<pc, device, points, P, c, result>>

\* RoundBelief: project to the boundary of the profile, else round.
RoundCases ==
  <<Fixed(-Inf, 2 * (Pmin + error), Pmin),
    Fixed(2 * (Pmax + error), Inf, Pmax),
    Rounding>>

AddRoundCases ==
  /\ pc = "build" /\ policy = "round" /\ cases = <<>>
  /\ cases' = RoundCases
  /\ UNCHANGED <<pc, device, points, P, c, result>>

Built ==
  /\ pc = "build"
  /\ Len(cases) = IF policy = "proj" THEN Len(points) ELSE 3
  /\ pc' = "ready"
  /\ UNCHANGED <<device, points, cases, P, c, result>>

------------------------------------------------------------------------------
(* The interpreter: AdvFunc::eval(CaseDistinction).                        *)

Abs(x) == IF x < 0 THEN -x ELSE x
Sign(x) == IF x < 0 THEN -1 ELSE 1

\* fmod: the remainder has the sign of x.
Fmod(x, y) == Sign(x) * (Abs(x) % y)

\* round(x / y): to the nearest integer, halves away from zero.
RoundedQuotient(x, y) == Sign(x) * ((2 * Abs(x) + y) \div (2 * y))

\* MUTANT: the multiples of the step are not aligned to Pmin.
RoundedFromZero(x) == step * RoundedQuotient(x - error, step)

Rounded(x) ==
  step * RoundedQuotient(x - error - Fmod(Pmin, step), step) + Fmod(Pmin, step)

Ask ==
  /\ pc \in {"ready", "answered"}
  /\ P' \in Powers
  /\ c' = 1
  /\ pc' = "test"
  /\ UNCHANGED <<device, points, cases, result>>

InInterval(k, x) == cases[k].left <= 2 * x /\ 2 * x <= cases[k].right

TestCase ==
  /\ pc = "test"
  /\ IF c > Len(cases)
       THEN pc' = "unhandled" /\ UNCHANGED <<c, result>>
     ELSE IF ~InInterval(c, P)
       THEN c' = c + 1 /\ UNCHANGED <<pc, result>>
     ELSE /\ pc' = "answered"
          /\ result' = IF cases[c].rounds THEN Rounded(P)
                       ELSE cases[c].value
          /\ UNCHANGED c
  /\ UNCHANGED <<device, points, cases, P>>

Next == Begin \/ AddProjCase \/ AddRoundCases \/ Built \/ Ask \/ TestCase

Spec == Init /\ [][Next]_vars

------------------------------------------------------------------------------
Distance(x, y) == Abs(x - y)

(* The belief of a device with a list of setpoints is the one nearest to   *)
(* P - error, the lower of two as near: no matter how the list was         *)
(* ordered, and although the intervals of the cases overlap (ProjBelief).  *)
NearestPoint ==
  (pc = "answered" /\ policy = "proj") =>
    /\ \E i \in DOMAIN points : points[i] = result
    /\ \A i \in DOMAIN points :
         /\ Distance(result, P - error) <= Distance(points[i], P - error)
         /\ Distance(result, P - error) = Distance(points[i], P - error)
              => result <= points[i]

Setpoints == {x \in Pmin .. Pmax + step : (x - Pmin) % step = 0}

(* The belief of a device with a step is the multiple of the step from     *)
(* Pmin nearest to P - error, once that is brought into the profile; it    *)
(* leaves the profile by less than a step, and only where the profile is   *)
(* no multiple of the step wide (RoundBelief, fmod of a negative Pmin).    *)
NearestStep ==
  (pc = "answered" /\ policy = "round") =>
    LET x == IF P - error < Pmin THEN Pmin
             ELSE IF P - error > Pmax THEN Pmax ELSE P - error
    IN  /\ result \in Setpoints \cup {Pmax}
        /\ 2 * Distance(result, x) <= step
        /\ (Pmax - Pmin) % step = 0 => result <= Pmax

(* The case distinction decides every P: the interpreter never runs out of *)
(* cases (the "else" intervals of RoundBelief and ProjBelief).             *)
Handled == pc # "unhandled"
==============================================================================
