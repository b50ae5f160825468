---------------------------- MODULE DevicesProofs ----------------------------
(***************************************************************************)
(* For every order, and whenever its device is asked about: the belief of  *)
(* a discrete device is the setpoint nearest to P; the profile of a plant  *)
(* is what its parameters mean; costs lie in the order that the device     *)
(* prefers; beliefs hold what a device may do; and the box that rectHull   *)
(* puts around a set holds all of its points.                              *)
(***************************************************************************)
EXTENDS Devices, Arithmetic, SequenceTheorems

------------------------------------------------------------------------------
(* Sorting.                                                                *)

Ascends(s) == \A i, j \in DOMAIN s : i < j => s[i] <= s[j]

\* p puts the list in an order that ascends.
PutsInOrder(p, s) ==
  /\ p \in [DOMAIN s -> DOMAIN s]
  /\ \A i \in DOMAIN s : \E j \in DOMAIN s : p[j] = i
  /\ \A i, j \in DOMAIN s : i < j => s[p[i]] <= s[p[j]]

(* A list that is not empty has a largest member.                          *)
LEMMA LargestExists ==
  ASSUME NEW n \in Nat, NEW s \in [1 .. n + 1 -> Int]
  PROVE  \E m \in 1 .. n + 1 : \A i \in 1 .. n + 1 : s[i] <= s[m]
<1> DEFINE S == {k \in Nat : k <= n =>
                   \E m \in 1 .. k + 1 : \A i \in 1 .. k + 1 : s[i] <= s[m]}
<1>1. 0 \in S
  OBVIOUS
<1>2. ASSUME NEW k \in S \cap Nat PROVE k + 1 \in S
  <2>1. SUFFICES ASSUME k + 1 <= n
                 PROVE \E m \in 1 .. k + 2 : \A i \in 1 .. k + 2 : s[i] <= s[m]
    OBVIOUS
  <2>2. PICK m \in 1 .. k + 1 : \A i \in 1 .. k + 1 : s[i] <= s[m]
    BY <2>1, <1>2
  <2>3. m \in 1 .. n + 1 /\ k + 2 \in 1 .. n + 1 /\ s[m] \in Int /\ s[k + 2] \in Int
    BY <2>1
  <2>4. \A i \in 1 .. k + 2 : i = k + 2 \/ i \in 1 .. k + 1
    OBVIOUS
  <2>5. \A i \in 1 .. k + 1 : s[i] \in Int
    BY <2>1
  <2>6. CASE s[m] <= s[k + 2]
    <3>1. \A i \in 1 .. k + 1 : s[i] <= s[k + 2]
      BY <2>2, <2>3, <2>5, <2>6
    <3>2. \A i \in 1 .. k + 2 : s[i] <= s[k + 2]
      BY <3>1, <2>3, <2>4
    <3> QED
      BY <3>2
  <2>7. CASE ~(s[m] <= s[k + 2])
    <3>1. \A i \in 1 .. k + 2 : s[i] <= s[m]
      BY <2>2, <2>3, <2>4, <2>7
    <3> QED
      BY <3>1
  <2> QED
    BY <2>6, <2>7
<1> HIDE DEF S
<1>3. n \in S
  BY <1>1, <1>2, SetInduction
<1> QED
  BY <1>3 DEF S

(* Every list can be put in order: the largest member changes places with  *)
(* the last one, and the others are put in order.                          *)
LEMMA OrderExists ==
  ASSUME NEW n \in Nat, NEW s \in [1 .. n -> Int]
  PROVE  \E p : PutsInOrder(p, s)
<1> DEFINE Sortable(k) == \A t \in [1 .. k -> Int] : \E p : PutsInOrder(p, t)
           S == {k \in Nat : Sortable(k)}
<1>1. 0 \in S
  <2>1. \A t \in [1 .. 0 -> Int] : PutsInOrder([i \in 1 .. 0 |-> 0], t)
    BY DEF PutsInOrder
  <2> QED
    BY <2>1
<1>2. ASSUME NEW k \in S \cap Nat PROVE k + 1 \in S
  <2> SUFFICES ASSUME NEW t \in [1 .. k + 1 -> Int] PROVE \E p : PutsInOrder(p, t)
    OBVIOUS
  <2>1. PICK m \in 1 .. k + 1 : \A i \in 1 .. k + 1 : t[i] <= t[m]
    BY LargestExists
  <2> DEFINE u == [i \in 1 .. k |-> IF i = m THEN t[k + 1] ELSE t[i]]
  <2>2. u \in [1 .. k -> Int]
    OBVIOUS
  <2>3. PICK q : PutsInOrder(q, u)
    BY <1>2, <2>2
  <2>4. /\ q \in [1 .. k -> 1 .. k]
        /\ \A i \in 1 .. k : \E j \in 1 .. k : q[j] = i
        /\ \A i, j \in 1 .. k : i < j => u[q[i]] <= u[q[j]]
    BY <2>3, <2>2 DEF PutsInOrder
  <2> DEFINE p == [i \in 1 .. k + 1 |-> IF i = k + 1 THEN m
                                        ELSE IF q[i] = m THEN k + 1 ELSE q[i]]
  <2>5. p \in [1 .. k + 1 -> 1 .. k + 1]
    <3>1. \A i \in 1 .. k : q[i] \in 1 .. k
      BY <2>4
    <3>2. \A i \in 1 .. k + 1 : i # k + 1 => i \in 1 .. k
      OBVIOUS
    <3>3. \A i \in 1 .. k : i \in 1 .. k + 1
      OBVIOUS
    <3> QED
      BY <3>1, <3>2, <3>3
  <2>6. ASSUME NEW i \in 1 .. k + 1 PROVE \E j \in 1 .. k + 1 : p[j] = i
    <3>1. CASE i = m
      BY <3>1
    <3>2. CASE i # m /\ i = k + 1
      <4>1. PICK j \in 1 .. k : q[j] = m
        BY <2>4, <3>2
      <4> QED
        BY <4>1, <3>2
    <3>3. CASE i # m /\ i # k + 1
      <4>1. PICK j \in 1 .. k : q[j] = i
        BY <2>4, <3>3
      <4> QED
        BY <4>1, <3>3
    <3> QED
      BY <3>1, <3>2, <3>3
  <2>7. ASSUME NEW i \in 1 .. k PROVE t[p[i]] = u[q[i]]
    <3>1. q[i] \in 1 .. k /\ i \in 1 .. k + 1 /\ i # k + 1
      BY <2>4
    <3>2. p[i] = IF q[i] = m THEN k + 1 ELSE q[i]
      BY <3>1
    <3>3. u[q[i]] = IF q[i] = m THEN t[k + 1] ELSE t[q[i]]
      BY <3>1
    <3> HIDE DEF p, u
    <3> QED
      BY <3>2, <3>3
  <2>8. ASSUME NEW i \in 1 .. k + 1, NEW j \in 1 .. k + 1, i < j
        PROVE  t[p[i]] <= t[p[j]]
    <3>1. CASE j = k + 1
      BY <3>1, <2>1, <2>5
    <3>2. CASE j # k + 1
      <4>1. i \in 1 .. k /\ j \in 1 .. k
        BY <3>2, <2>8
      <4> QED
        BY <4>1, <2>4, <2>7, <2>8
    <3> QED
      BY <3>1, <3>2
  <2> HIDE DEF p
  <2>9. PutsInOrder(p, t)
    BY <2>5, <2>6, <2>8 DEF PutsInOrder
  <2> QED
    BY <2>9
<1> HIDE DEF S
<1>3. n \in S
  BY <1>1, <1>2, SetInduction
<1> QED
  BY <1>3 DEF S

(* What std::sort makes of a list of setpoints.                            *)
LEMMA SortedAscends ==
  ASSUME NEW s \in Seq(Int)
  PROVE  /\ Sorted(s) \in Seq(Int) /\ Len(Sorted(s)) = Len(s)
         /\ Ascends(Sorted(s))
         /\ {Sorted(s)[i] : i \in DOMAIN s} = {s[i] : i \in DOMAIN s}
<1>1. s \in [1 .. Len(s) -> Int] /\ DOMAIN s = 1 .. Len(s) /\ Len(s) \in Nat
  OBVIOUS
<1>2. \E p : PutsInOrder(p, s)
  BY <1>1, OrderExists
<1> DEFINE perm == CHOOSE p \in [DOMAIN s -> DOMAIN s] :
                 /\ \A i \in DOMAIN s : \E j \in DOMAIN s : p[j] = i
                 /\ \A i, j \in DOMAIN s : i < j => s[p[i]] <= s[p[j]]
<1>3. PutsInOrder(perm, s)
  BY <1>2 DEF PutsInOrder
<1>4. Sorted(s) = [i \in DOMAIN s |-> s[perm[i]]]
  BY DEF Sorted
<1> HIDE DEF perm
<1>5. \A i \in DOMAIN s : perm[i] \in DOMAIN s /\ s[perm[i]] \in Int
  BY <1>3, <1>1 DEF PutsInOrder
<1>6. Sorted(s) \in Seq(Int) /\ Len(Sorted(s)) = Len(s) /\ DOMAIN Sorted(s) = DOMAIN s
  BY <1>1, <1>4, <1>5
<1>7. Ascends(Sorted(s))
  BY <1>3, <1>4, <1>6 DEF Ascends, PutsInOrder
<1>8. {Sorted(s)[i] : i \in DOMAIN s} = {s[i] : i \in DOMAIN s}
  BY <1>3, <1>4, <1>5 DEF PutsInOrder
<1> QED
  BY <1>6, <1>7, <1>8

------------------------------------------------------------------------------
(* Rounding to a step.                                                     *)

(* The value that RoundBelief advertises is an integer.                    *)
LEMMA RoundedType ==
  ASSUME step \in Nat \ {0}, error \in Int, Pmin \in Int, NEW x \in Int
  PROVE  Rounded(x) \in Int
<1>1. \A y \in Int : Abs(y) \in Nat /\ Sign(y) \in {-1, 1}
  BY DEF Abs, Sign
<1>2. Fmod(Pmin, step) \in Int
  <2>1. Abs(Pmin) % step \in Int
    BY <1>1, EuclidDivision
  <2> QED
    BY <1>1, <2>1 DEF Fmod
<1>3. ASSUME NEW y \in Int PROVE RoundedQuotient(y, step) \in Int
  <2>1. 2 * Abs(y) + step \in Int /\ 2 * step \in Nat \ {0}
    BY <1>1
  <2>2. (2 * Abs(y) + step) \div (2 * step) \in Int
    BY <2>1, EuclidDivision
  <2> QED
    BY <1>1, <2>2 DEF RoundedQuotient
<1> QED
  BY <1>2, <1>3 DEF Rounded

------------------------------------------------------------------------------
(* The cases and the search for the one that holds P.                      *)

Belongs == pc \in {"test", "answered"} => P \in Powers

CasesOfList ==
  policy = "proj" =>
    /\ pc \notin {"off", "start"} => Ascends(points)
    /\ pc \in {"build", "ready", "test", "answered"} => points # <<>>
    /\ pc \in {"off", "start", "refused"} => cases = <<>>
    /\ pc \in {"ready", "test", "answered"} => Len(cases) = Len(points)
    /\ \A k \in DOMAIN cases : cases[k] = Fixed(-Inf, RightEnd(k), points[k])

CasesOfStep ==
  policy = "round" =>
    /\ cases \in {<<>>, RoundCases}
    /\ pc \in {"off", "start", "refused"} => cases = <<>>
    /\ pc \in {"ready", "test", "answered"} => cases = RoundCases

\* The cases before c do not hold P; an answer is that of case c.
Search ==
  /\ pc \in {"test", "answered"} => \A j \in 1 .. c - 1 : ~InInterval(j, P)
  /\ pc = "answered" =>
       /\ c \in DOMAIN cases /\ InInterval(c, P)
       /\ result = IF cases[c].rounds THEN Rounded(P) ELSE cases[c].value

DeviceInv ==
  /\ TypeOK /\ Pmin <= Pmax /\ Belongs /\ CasesOfList /\ CasesOfStep /\ Search
  /\ Handled

(* A device starts without cases.                                          *)
LEMMA StartsWell == Init \/ NoSteps => DeviceInv
<1>1. CASE Init
  <2>1. PICK x \in Profiles : Pmin = x[1] /\ Pmax = x[2]
    BY <1>1 DEF Init
  <2>2. Pmin \in Int /\ Pmax \in Int /\ Pmin <= Pmax
    BY <2>1, NumbersAssumption
  <2>3. points \in Seq(Int)
    <3>1. points \in PointLists \/ points = <<>>
      BY <1>1 DEF Init
    <3>2. PointLists \subseteq Seq(Int)
      BY NumbersAssumption
    <3>3. <<>> \in Seq(Int)
      OBVIOUS
    <3> QED
      BY <3>1, <3>2, <3>3, Zenon
  <2>4. step \in Nat \ {0} /\ error \in Int
    <3>1. (step \in Steps \/ step = 1) /\ error \in Errors
      BY <1>1 DEF Init
    <3>2. Steps \subseteq Nat \ {0} /\ Errors \subseteq Int
      BY NumbersAssumption
    <3>3. 1 \in Nat \ {0}
      OBVIOUS
    <3> QED
      BY <3>1, <3>2, <3>3, Zenon
  <2> QED
    BY <1>1, <2>2, <2>3, <2>4
       DEF Init, DeviceInv, TypeOK, Belongs, CasesOfList, CasesOfStep, Search, Handled
<1>2. CASE NoSteps
  BY <1>2 DEF NoSteps, DeviceInv, TypeOK, Belongs, CasesOfList, CasesOfStep, Search, Handled
<1> QED
  BY <1>1, <1>2

(* The setpoints are sorted before the belief is built, and a device that  *)
(* has none is refused.                                                    *)
LEMMA BeginKeeps == ASSUME DeviceInv, Begin PROVE DeviceInv'
<1>1. /\ points' \in Seq(Int) /\ Len(points') = Len(points) /\ Ascends(points')
  BY SortedAscends DEF Begin, DeviceInv, TypeOK
<1>2. points # <<>> => points' # <<>>
  BY <1>1 DEF DeviceInv, TypeOK
<1> USE DEF Begin, device
<1>3. cases' = <<>>
  BY DEF DeviceInv, TypeOK, CasesOfList, CasesOfStep
<1>4. TypeOK'
  BY <1>1, <1>3 DEF DeviceInv, TypeOK
<1>5. CasesOfList'
  BY <1>1, <1>2, <1>3 DEF CasesOfList
<1>6. CasesOfStep'
  BY <1>3 DEF CasesOfStep, DeviceInv
<1> QED
  BY <1>4, <1>5, <1>6 DEF DeviceInv, Belongs, Search, Handled

(* The case of the next setpoint.                                          *)
LEMMA AddProjKeeps == ASSUME DeviceInv, AddProjCase PROVE DeviceInv'
<1> USE DEF AddProjCase, device
<1> DEFINE n == Len(cases) + 1
<1>1. n \in DOMAIN points /\ points[n] \in Int /\ RightEnd(n) \in Int
  BY InfAssumption DEF DeviceInv, TypeOK, RightEnd
<1>2. cases' = Append(cases, Fixed(-Inf, RightEnd(n), points[n]))
  OBVIOUS
<1>3. Fixed(-Inf, RightEnd(n), points[n])
        \in [left : Int, right : Int, value : Int, rounds : BOOLEAN]
  BY <1>1, InfAssumption DEF Fixed
<1>4. TypeOK'
  BY <1>1, <1>2, <1>3 DEF DeviceInv, TypeOK
<1>5. CasesOfList'
  <2>1. ASSUME NEW k \in DOMAIN cases'
        PROVE  cases'[k] = Fixed(-Inf, RightEnd(k), points[k])
    BY SMTT(30), <1>2 DEF DeviceInv, TypeOK, CasesOfList
  <2>2. \A k : RightEnd(k)' = RightEnd(k)
    BY DEF RightEnd
  <2> QED
    BY <2>1, <2>2 DEF DeviceInv, CasesOfList, Fixed
<1> QED
  BY <1>4, <1>5 DEF DeviceInv, Belongs, CasesOfStep, Search, Handled

(* The three cases of a device with a step.                                *)
LEMMA AddRoundKeeps == ASSUME DeviceInv, AddRoundCases PROVE DeviceInv'
<1> USE DEF AddRoundCases, device
<1>1. RoundCases \in Seq([left : Int, right : Int, value : Int, rounds : BOOLEAN])
  BY InfAssumption DEF DeviceInv, TypeOK, RoundCases, Fixed, Rounding
<1>2. Len(RoundCases) = 3 /\ RoundCases' = RoundCases
  BY DEF RoundCases
<1>3. TypeOK'
  BY <1>1, <1>2 DEF DeviceInv, TypeOK
<1> QED
  BY <1>2, <1>3 DEF DeviceInv, Belongs, CasesOfList, CasesOfStep, Search, Handled

(* The belief is built when every setpoint has its case.                   *)
LEMMA BuiltKeeps == ASSUME DeviceInv, Built PROVE DeviceInv'
<1> USE DEF Built, device
<1>1. TypeOK'
  BY DEF DeviceInv, TypeOK
<1>2. RightEnd(1)' = RightEnd(1) /\ \A k : RightEnd(k)' = RightEnd(k)
  BY DEF RightEnd
<1>3. CasesOfList'
  BY <1>2 DEF DeviceInv, CasesOfList
<1>4. CasesOfStep'
  <2>1. policy = "round" => Len(cases) = 3
    OBVIOUS
  <2>2. policy = "round" => cases = RoundCases
    BY <2>1 DEF DeviceInv, CasesOfStep
  <2> QED
    BY <2>2 DEF DeviceInv, CasesOfStep, RoundCases
<1> QED
  BY <1>1, <1>3, <1>4 DEF DeviceInv, Belongs, Search, Handled

(* A request starts with the first case.                                   *)
LEMMA AskKeeps == ASSUME DeviceInv, Ask PROVE DeviceInv'
<1> USE DEF Ask, device
<1>1. TypeOK'
  BY NumbersAssumption DEF DeviceInv, TypeOK
<1>2. \A k : RightEnd(k)' = RightEnd(k)
  BY DEF RightEnd
<1>3. CasesOfList'
  BY <1>2 DEF DeviceInv, CasesOfList
<1>4. CasesOfStep'
  BY DEF DeviceInv, CasesOfStep, RoundCases
<1> QED
  BY <1>1, <1>3, <1>4 DEF DeviceInv, Belongs, Search, Handled

(* The last case holds every P: the else of ProjBelief and RoundBelief.    *)
LEMMA LastHolds ==
  ASSUME DeviceInv, pc = "test"
  PROVE  Len(cases) \in Nat \ {0} /\ InInterval(Len(cases), P)
<1>1. P \in Int /\ 2 * P \in -Inf .. Inf /\ Inf \in Int
  BY InfAssumption, NumbersAssumption DEF DeviceInv, Belongs, TypeOK
<1>2. CASE policy = "proj"
  <2>1. /\ Len(cases) = Len(points) /\ points # <<>> /\ points \in Seq(Int)
        /\ cases \in Seq([left : Int, right : Int, value : Int, rounds : BOOLEAN])
    BY <1>2 DEF DeviceInv, TypeOK, CasesOfList
  <2>2. Len(cases) \in Nat \ {0} /\ Len(cases) \in DOMAIN cases
    BY <2>1
  <2>3. cases[Len(cases)] = Fixed(-Inf, RightEnd(Len(cases)), points[Len(cases)])
    BY <1>2, <2>2 DEF DeviceInv, CasesOfList
  <2>4. RightEnd(Len(cases)) = Inf
    BY <2>1, <2>2 DEF RightEnd
  <2> QED
    BY <1>1, <2>2, <2>3, <2>4 DEF InInterval, Fixed
<1>3. CASE policy = "round"
  <2>1. cases = RoundCases
    BY <1>3 DEF DeviceInv, CasesOfStep
  <2>2. Len(cases) = 3 /\ cases[3] = Rounding
    BY <2>1 DEF RoundCases
  <2> QED
    BY <1>1, <2>2 DEF Rounding, InInterval
<1> QED
  BY <1>2, <1>3 DEF DeviceInv, TypeOK

(* A step of the search.                                                   *)
LEMMA TestKeeps == ASSUME DeviceInv, TestCase PROVE DeviceInv'
<1> USE DEF TestCase, device
<1>1. \A k : RightEnd(k)' = RightEnd(k)
  BY DEF RightEnd
<1>2. /\ Len(cases) \in Nat \ {0} /\ InInterval(Len(cases), P)
      /\ c \in 1 .. Len(cases) + 1
  BY LastHolds DEF DeviceInv, TypeOK
<1>3. c <= Len(cases)
  BY <1>2 DEF DeviceInv, Search
<1>4. /\ step \in Nat \ {0} /\ error \in Int /\ Pmin \in Int /\ P \in Int
      /\ cases \in Seq([left : Int, right : Int, value : Int, rounds : BOOLEAN])
  BY DEF DeviceInv, TypeOK
<1>5. Rounded(P) \in Int
  BY <1>4, RoundedType
<1>6. cases[c].value \in Int
  <2>1. c \in DOMAIN cases
    BY <1>2, <1>3, <1>4
  <2>2. \A S : cases \in Seq(S) => cases[c] \in S
    BY <2>1
  <2> QED
    BY <1>4, <2>2
<1>7. TypeOK'
  <2>1. result' \in Int
    BY <1>3, <1>5, <1>6 DEF DeviceInv, TypeOK
  <2>2. c' \in 1 .. Len(cases) + 1
    BY <1>2, <1>3
  <2>3. pc' \in {"test", "answered"}
    BY <1>2, <1>3
  <2> QED
    BY <2>1, <2>2, <2>3 DEF DeviceInv, TypeOK
<1>8. CasesOfList'
  BY <1>1, <1>3 DEF DeviceInv, CasesOfList
<1>9. CasesOfStep'
  BY <1>3 DEF DeviceInv, CasesOfStep, RoundCases
<1>10. Search'
  <2>1. \A j, x : InInterval(j, x)' = InInterval(j, x)
    BY DEF InInterval
  <2>2. Rounded(P)' = Rounded(P)
    BY DEF Rounded
  <2>3. CASE ~InInterval(c, P)
    <3>1. \A j \in 1 .. c' - 1 : j \in 1 .. c - 1 \/ j = c
      BY <1>2, <1>3, <2>3
    <3> QED
      BY <1>3, <2>1, <2>3, <3>1 DEF DeviceInv, Search
  <2>4. CASE InInterval(c, P)
    <3>1. c \in DOMAIN cases
      BY <1>2, <1>3, <1>4
    <3> QED
      BY <1>3, <2>1, <2>2, <2>4, <3>1 DEF DeviceInv, Search
  <2> QED
    BY <2>3, <2>4
<1>11. pc' \in {"test", "answered"} /\ UNCHANGED <<P, Pmin, Pmax>>
  BY <1>2, <1>3
<1> QED
  BY <1>7, <1>8, <1>9, <1>10, <1>11 DEF DeviceInv, Belongs, Handled

------------------------------------------------------------------------------
(* The nearest setpoint.                                                   *)

(* Of a setpoint below the one that is answered and its neighbour.         *)
LEMMA NearerThanBelow ==
  ASSUME NEW x \in Int, NEW p \in Int, NEW q \in Int, NEW r \in Int,
         p <= q, q <= r, q + r < 2 * x
  PROVE  /\ Distance(r, x) <= Distance(p, x)
         /\ Distance(r, x) = Distance(p, x) => r <= p
  BY DEF Distance, Abs

(* Of a setpoint above the one that is answered and its neighbour.         *)
LEMMA NearerThanAbove ==
  ASSUME NEW x \in Int, NEW p \in Int, NEW q \in Int, NEW r \in Int,
         q <= p, r <= q, 2 * x <= r + q
  PROVE  /\ Distance(r, x) <= Distance(p, x)
         /\ Distance(r, x) = Distance(p, x) => r <= p
  BY DEF Distance, Abs

(* The search has passed the midpoints below P, and not the next one.      *)
LEMMA SearchNearest == DeviceInv => NearestPoint
<1> SUFFICES ASSUME DeviceInv, pc = "answered", policy = "proj"
             PROVE  /\ \E i \in DOMAIN points : points[i] = result
                    /\ \A i \in DOMAIN points :
                         /\ Distance(result, P - error) <= Distance(points[i], P - error)
                         /\ Distance(result, P - error) = Distance(points[i], P - error)
                              => result <= points[i]
  BY DEF NearestPoint
<1> DEFINE x == P - error
<1>1. /\ P \in Int /\ error \in Int /\ points \in Seq(Int) /\ Inf \in Nat
      /\ 2 * P \in -Inf .. Inf /\ x \in Int
  BY NumbersAssumption, InfAssumption DEF DeviceInv, TypeOK, Belongs
<1>2. /\ Len(cases) = Len(points) /\ DOMAIN cases = DOMAIN points /\ Ascends(points)
      /\ c \in DOMAIN points
  BY DEF DeviceInv, TypeOK, CasesOfList, Search
<1>3. \A k \in DOMAIN points : cases[k] = Fixed(-Inf, RightEnd(k), points[k])
  BY <1>2 DEF DeviceInv, CasesOfList
<1>4. result = points[c]
  BY <1>2, <1>3 DEF DeviceInv, Search, Fixed
<1>5. \A i \in DOMAIN points : points[i] \in Int
  BY <1>1
<1>6. ASSUME NEW j \in 1 .. c - 1
      PROVE  j + 1 \in DOMAIN points /\ points[j] + points[j + 1] < 2 * x
  <2>1. j \in DOMAIN points /\ j + 1 \in DOMAIN points /\ j < Len(points)
    BY <1>1, <1>2
  <2>2. RightEnd(j) = points[j] + points[j + 1] + 2 * error
    BY <2>1 DEF RightEnd
  <2>3. ~(cases[j].left <= 2 * P /\ 2 * P <= cases[j].right)
    BY <1>6 DEF DeviceInv, Search, InInterval
  <2>4. cases[j].left = -Inf /\ cases[j].right = RightEnd(j)
    <3>1. cases[j] = Fixed(-Inf, RightEnd(j), points[j])
      BY <1>3, <2>1
    <3> QED
      BY <3>1 DEF Fixed
  <2> QED
    BY <1>1, <1>5, <2>1, <2>2, <2>3, <2>4
<1>7. ASSUME c < Len(points)
      PROVE  c + 1 \in DOMAIN points /\ 2 * x <= points[c] + points[c + 1]
  <2>1. c + 1 \in DOMAIN points
    BY <1>1, <1>2, <1>7
  <2>2. RightEnd(c) = points[c] + points[c + 1] + 2 * error
    BY <1>7 DEF RightEnd
  <2>3. 2 * P <= cases[c].right
    BY DEF DeviceInv, Search, InInterval
  <2>4. cases[c].right = RightEnd(c)
    BY <1>2, <1>3 DEF Fixed
  <2> QED
    BY <1>1, <1>2, <1>5, <2>1, <2>2, <2>3, <2>4
<1>8. ASSUME NEW i \in DOMAIN points
      PROVE  /\ Distance(points[c], x) <= Distance(points[i], x)
             /\ Distance(points[c], x) = Distance(points[i], x) => points[c] <= points[i]
  <2>0. i \in 1 .. Len(points) /\ c \in 1 .. Len(points)
    BY <1>1, <1>2
  <2>1. CASE i < c
    <3>1. c - 1 \in 1 .. c - 1 /\ (c - 1) + 1 = c /\ i <= c - 1 /\ c - 1 \in DOMAIN points
      BY <1>1, <2>0, <2>1
    <3>2. points[c - 1] + points[c] < 2 * x
      BY <1>6, <3>1
    <3>3. points[i] <= points[c - 1] /\ points[c - 1] <= points[c]
      BY <1>2, <1>5, <2>0, <3>1 DEF Ascends
    <3> QED
      BY <1>1, <1>2, <1>5, <3>1, <3>2, <3>3, NearerThanBelow
  <2>2. CASE i = c
    BY <2>2, <1>1, <1>2, <1>5 DEF Distance, Abs
  <2>3. CASE c < i
    <3>1. c < Len(points) /\ c + 1 <= i
      BY <2>0, <2>3
    <3>2. points[c + 1] <= points[i] /\ points[c] <= points[c + 1]
      BY <1>2, <1>5, <1>7, <2>0, <3>1 DEF Ascends
    <3> QED
      BY <1>1, <1>2, <1>5, <1>7, <3>1, <3>2, NearerThanAbove
  <2> QED
    BY <2>0, <2>1, <2>2, <2>3
<1> QED
  BY <1>2, <1>4, <1>8

------------------------------------------------------------------------------
(* The nearest step.                                                       *)

(* Dividing by a step and rounding goes to the nearest multiple of it.     *)
LEMMA QuotientNearest ==
  ASSUME NEW z \in Int, NEW s \in Nat \ {0}
  PROVE  /\ RoundedQuotient(z, s) \in Int
         /\ 2 * Distance(s * RoundedQuotient(z, s), z) <= s
<1> DEFINE a == Abs(z)
           k == (2 * a + s) \div (2 * s)
<1>1. a \in Nat /\ Sign(z) \in {-1, 1} /\ z = Sign(z) * a
  BY DEF Abs, Sign
<1>2. 2 * a + s \in Int /\ 2 * s \in Nat \ {0}
  BY <1>1
<1>3. PICK r \in 0 .. 2 * s - 1 : k \in Int /\ 2 * a + s = (2 * s) * k + r
  BY <1>2, EuclidDivision
<1>4. RoundedQuotient(z, s) = Sign(z) * k
  BY DEF RoundedQuotient
<1> HIDE DEF a, k
<1>5. PICK w \in Int : w = s * k
  BY <1>3
<1>6. 2 * a + s = 2 * w + r
  <2>1. (2 * s) * k = 2 * (s * k)
    BY <1>3
  <2> QED
    BY <1>3, <1>5, <2>1
<1>7. s * RoundedQuotient(z, s) = Sign(z) * w
  BY <1>1, <1>3, <1>4, <1>5
<1>8. 2 * Distance(Sign(z) * w, z) <= s
  BY <1>1, <1>3, <1>5, <1>6 DEF Distance, Abs
<1> QED
  BY <1>1, <1>3, <1>4, <1>7, <1>8

(* Pmin less its remainder is a multiple of the step, below zero too.      *)
LEMMA AlignedToPmin ==
  ASSUME NEW p \in Int, NEW s \in Nat \ {0}
  PROVE  \E q \in Int : Fmod(p, s) \in Int /\ p - Fmod(p, s) = s * q
<1>1. Abs(p) \in Int /\ Sign(p) \in {-1, 1} /\ p = Sign(p) * Abs(p)
  BY DEF Abs, Sign
<1>2. PICK a \in Int : a = Abs(p)
  BY <1>1
<1>3. PICK k \in Int, r \in Int : a % s = r /\ a = s * k + r
  <2>1. a \div s \in Int /\ a % s \in Int /\ a = s * (a \div s) + (a % s)
    BY EuclidDivision
  <2> QED
    BY <2>1
<1>4. Fmod(p, s) = Sign(p) * r
  BY <1>2, <1>3 DEF Fmod
<1>5. CASE Sign(p) = 1
  <2>1. Fmod(p, s) \in Int /\ p - Fmod(p, s) = s * k
    BY <1>1, <1>2, <1>3, <1>4, <1>5
  <2> QED
    BY <2>1
<1>6. CASE Sign(p) = -1
  <2>1. s * (-k) = -(s * k)
    OBVIOUS
  <2>2. Fmod(p, s) \in Int /\ p - Fmod(p, s) = s * (-k)
    BY <1>1, <1>2, <1>3, <1>4, <1>6, <2>1
  <2>3. -k \in Int
    OBVIOUS
  <2> QED
    BY <2>2, <2>3
<1> QED
  BY <1>1, <1>5, <1>6

(* Multiples of the step that are nearer than half a step apart.           *)
LEMMA MultiplesOrdered ==
  ASSUME NEW s \in Nat \ {0}, NEW k \in Int, NEW q \in Int,
         2 * (s * k) > 2 * (s * q) - s
  PROVE  q <= k
<1>1. ASSUME k < q PROVE s * k <= s * q - s
  BY <1>1
<1> QED
  BY <1>1

(* Multiples keep the order of their factors.                              *)
LEMMA MultiplesMonotone ==
  ASSUME NEW s \in Nat \ {0}, NEW k \in Int, NEW q \in Int, q <= k
  PROVE  s * q <= s * k
  OBVIOUS

(* A remainder of zero, of a multiple.                                     *)
LEMMA MultipleRemainder ==
  ASSUME NEW s \in Nat \ {0}, NEW k \in Int
  PROVE  (s * k) % s = 0
  OBVIOUS

(* The setpoint that is rounded to, for a P inside of the profile.         *)
LEMMA RoundedInside ==
  ASSUME DeviceInv, NEW y \in Int, Pmin < y, y < Pmax, NEW r \in Int,
         r = Rounded(y + error)
  PROVE  /\ r \in Setpoints
         /\ 2 * Distance(r, y) <= step
         /\ (Pmax - Pmin) % step = 0 => r <= Pmax
<1>1. /\ Pmin \in Int /\ Pmax \in Int /\ step \in Nat \ {0} /\ error \in Int
  BY DEF DeviceInv, TypeOK
<1>2. PICK q \in Int : Fmod(Pmin, step) \in Int /\ Pmin - Fmod(Pmin, step) = step * q
  BY <1>1, AlignedToPmin
<1> DEFINE f == Fmod(Pmin, step)
           z == y - f
           k == RoundedQuotient(z, step)
<1>3. z \in Int /\ (y + error) - error - f = z
  BY <1>1, <1>2
<1>4. k \in Int /\ 2 * Distance(step * k, z) <= step
  BY <1>1, <1>3, QuotientNearest
<1>5. r = step * k + f
  BY <1>3 DEF Rounded
<1> HIDE DEF k
<1>6. PICK w \in Int : w = step * k
  BY <1>1, <1>4
<1>7. PICK v \in Int : v = step * q
  BY <1>1
<1>8. /\ 2 * (w - z) <= step /\ 2 * (z - w) <= step
      /\ 2 * Distance(r, y) <= step
  BY <1>1, <1>2, <1>3, <1>4, <1>5, <1>6 DEF Distance, Abs
<1>9. q <= k
  <2>1. 2 * (step * k) > 2 * (step * q) - step
    BY <1>1, <1>2, <1>3, <1>6, <1>7, <1>8
  <2> QED
    BY ONLY <1>1, <1>4, <2>1, MultiplesOrdered
<1>10. r - Pmin = step * (k - q) /\ k - q \in Int
  BY <1>1, <1>2, <1>4, <1>5
<1>11. Pmin <= r
  <2>1. step * q <= step * k
    BY ONLY <1>1, <1>4, <1>9, MultiplesMonotone
  <2> QED
    BY <1>1, <1>2, <1>4, <1>5, <2>1
<1>12. r <= Pmax + step
  BY <1>1, <1>2, <1>3, <1>5, <1>6, <1>8
<1>13. (r - Pmin) % step = 0
  BY <1>1, <1>10, MultipleRemainder
<1>14. ASSUME (Pmax - Pmin) % step = 0 PROVE r <= Pmax
  <2>1. PICK d \in Int : Pmax - Pmin = step * d
    <3>1. PICK a \in Int : a = Pmax - Pmin
      BY <1>1
    <3>2. PICK d \in Int, e \in Int : e = a % step /\ a = step * d + e
      <4>1. /\ a \div step \in Int /\ a % step \in Int
            /\ a = step * (a \div step) + (a % step)
        BY <1>1, EuclidDivision
      <4> QED
        BY <4>1
    <3>3. e = 0
      BY <1>14, <3>1, <3>2
    <3>4. a = step * d
      <4>1. step * d \in Int
        BY <1>1
      <4> QED
        BY <3>2, <3>3, <4>1
    <3> QED
      BY <3>1, <3>4
  <2>2. PICK u \in Int : u = step * d
    BY <1>1
  <2>3. PICK t \in Int : t = step * (k - q)
    BY <1>1, <1>10
  <2>4. 2 * t < 2 * u + step
    BY <1>1, <1>2, <1>3, <1>5, <1>6, <1>8, <1>10, <2>1, <2>2, <2>3
  <2>5. k - q <= d
    BY ONLY <1>1, <1>10, <2>2, <2>3, <2>4, MultiplesOrdered
  <2>6. step * (k - q) <= step * d
    BY ONLY <1>1, <1>10, <2>5, MultiplesMonotone
  <2> QED
    BY <1>1, <1>10, <2>1, <2>6
<1> QED
  BY <1>1, <1>8, <1>11, <1>12, <1>13, <1>14 DEF Setpoints

(* Of the three cases, each is met where it is meant.                      *)
LEMMA SearchRounds == DeviceInv => NearestStep
<1> SUFFICES ASSUME DeviceInv, pc = "answered", policy = "round"
             PROVE  LET x == IF P - error < Pmin THEN Pmin
                             ELSE IF P - error > Pmax THEN Pmax ELSE P - error
                    IN  /\ result \in Setpoints \cup {Pmax}
                        /\ 2 * Distance(result, x) <= step
                        /\ (Pmax - Pmin) % step = 0 => result <= Pmax
  BY DEF NearestStep
<1> DEFINE x == IF P - error < Pmin THEN Pmin
                ELSE IF P - error > Pmax THEN Pmax ELSE P - error
<1>1. /\ Pmin \in Int /\ Pmax \in Int /\ step \in Nat \ {0} /\ error \in Int
      /\ P \in Int /\ Pmin <= Pmax /\ Inf \in Nat /\ 2 * P \in -Inf .. Inf
  BY NumbersAssumption, InfAssumption DEF DeviceInv, TypeOK, Belongs
<1>2. /\ Len(cases) = 3
      /\ cases[1] = Fixed(-Inf, 2 * (Pmin + error), Pmin)
      /\ cases[2] = Fixed(2 * (Pmax + error), Inf, Pmax)
      /\ cases[3] = Rounding
  BY DEF DeviceInv, CasesOfStep, RoundCases
<1>3. c \in 1 .. 3 /\ InInterval(c, P) /\ \A j \in 1 .. c - 1 : ~InInterval(j, P)
  BY <1>2 DEF DeviceInv, Search, TypeOK
<1>4. /\ InInterval(1, P) <=> P - error <= Pmin
      /\ InInterval(2, P) <=> Pmax <= P - error
  BY <1>1, <1>2 DEF InInterval, Fixed
<1>5. CASE c = 1
  <2>1. result = Pmin /\ x = Pmin
    BY <1>1, <1>2, <1>3, <1>4, <1>5 DEF DeviceInv, Search, Fixed
  <2>2. (Pmin - Pmin) % step = 0
    BY <1>1
  <2>3. Pmin \in Setpoints
    BY <1>1, <2>2 DEF Setpoints
  <2> QED
    BY <1>1, <2>1, <2>3 DEF Distance, Abs
<1>6. CASE c = 2
  <2>1. result = Pmax /\ x = Pmax
    BY <1>1, <1>2, <1>3, <1>4, <1>6 DEF DeviceInv, Search, Fixed
  <2> QED
    BY <1>1, <2>1 DEF Distance, Abs
<1>7. CASE c = 3
  <2>1. Pmin < P - error /\ P - error < Pmax
    BY <1>1, <1>3, <1>4, <1>7
  <2>2. result = Rounded(P) /\ result \in Int /\ x = P - error
    BY <1>1, <1>2, <1>7, <2>1 DEF DeviceInv, TypeOK, Search, Rounding
  <2>3. (P - error) + error = P /\ P - error \in Int
    BY <1>1
  <2> QED
    BY <2>1, <2>2, <2>3, RoundedInside
<1> QED
  BY <1>3, <1>5, <1>6, <1>7

------------------------------------------------------------------------------
(* The theorems about discrete devices.                                    *)

(* Every step of a discrete device, of its advertisement and of the        *)
(* interpreter keeps the cases and the search right.                       *)
LEMMA NextKeeps == ASSUME DeviceInv, [DevicesNext]_allvars PROVE DeviceInv'
<1>1. CASE Next
  BY <1>1, BeginKeeps, AddProjKeeps, AddRoundKeeps, BuiltKeeps, AskKeeps, TestKeeps
     DEF Next
<1>2. CASE UNCHANGED vars
  <2>1. \A k, x : RightEnd(k)' = RightEnd(k) /\ InInterval(k, x)' = InInterval(k, x)
    BY <1>2 DEF vars, device, RightEnd, InInterval
  <2>2. RoundCases' = RoundCases /\ Rounded(P)' = Rounded(P)
    BY <1>2 DEF vars, device, RoundCases, Rounded
  <2> QED
    BY <1>2, <2>1, <2>2 DEF vars, device, DeviceInv, TypeOK, Belongs, CasesOfList,
       CasesOfStep, Search, Handled
<1>3. Next \/ UNCHANGED vars
  BY DEF DevicesNext, Refuse, Make, DiscreteStep, Box, allvars
<1> QED
  BY <1>1, <1>2, <1>3

(* The cases of a discrete device and the search through them, for every   *)
(* order and in whatever order devices are built and asked about.          *)
THEOREM DeviceInvariant == DevicesSpec => []DeviceInv
<1>1. DevicesInit => DeviceInv
  BY StartsWell DEF DevicesInit
<1>2. DeviceInv /\ [DevicesNext]_allvars => DeviceInv'
  BY NextKeeps
<1> QED
  BY <1>1, <1>2, PTL DEF DevicesSpec

(* The interpreter never runs out of the cases that ProjBelief and         *)
(* RoundBelief write, whichever the list, the step and the error: no       *)
(* belief of a discrete device is an EvaluationError.                      *)
THEOREM HandledCorrect == DevicesSpec => []Handled
<1>1. DeviceInv => Handled
  BY DEF DeviceInv
<1> QED
  BY <1>1, DeviceInvariant, PTL

(* The belief of a device with a list of setpoints is the nearest one, for *)
(* a list of any length in any order (std::sort in ProjBelief::makeBelief  *)
(* and the first interval that holds P, whose right end is the midpoint).  *)
THEOREM NearestPointCorrect == DevicesSpec => []NearestPoint
  BY DeviceInvariant, SearchNearest, PTL

(* The belief of a device with a step is the nearest multiple from Pmin,   *)
(* for any step, profile and error, a negative Pmin included, whose fmod   *)
(* is negative (RoundBelief::makeBelief).                                  *)
THEOREM NearestStepCorrect == DevicesSpec => []NearestStep
  BY DeviceInvariant, SearchRounds, PTL

------------------------------------------------------------------------------
(* Rows, disks and intersections.                                          *)

Plane == Number \X Number

(* The origin is a point of it.                                            *)
LEMMA OriginInPlane == Origin \in Plane
  BY OneAndZero DEF Origin, Plane, Zero

(* Rows that bound one coordinate.                                         *)
LEMMA UprightRows ==
  ASSUME NEW p \in Plane, NEW b \in Number
  PROVE  /\ Below(<<One, Zero, b>>, p) <=> Leq(p[1], b)
         /\ Below(<<Zero, One, b>>, p) <=> Leq(p[2], b)
         /\ Below(<<Negated(One), Zero, b>>, p) <=> Leq(Negated(p[1]), b)
         /\ Below(<<Zero, Negated(One), b>>, p) <=> Leq(Negated(p[2]), b)
<1>1. PICK x \in Number, y \in Number : p = <<x, y>>
  BY DEF Plane
<1>2. Negated(x) \in Number /\ Negated(y) \in Number
  BY NumbersClosed
<1>3. /\ Plus(Times(One, x), Times(Zero, y)) = x
      /\ Plus(Times(Zero, x), Times(One, y)) = y
      /\ Plus(Times(Negated(One), x), Times(Zero, y)) = Negated(x)
      /\ Plus(Times(Zero, x), Times(Negated(One), y)) = Negated(y)
  BY <1>2, WithZero
<1> QED
  BY <1>1, <1>3 DEF Below

\* The sides of the triangle of a plant.
LEMMA SlopingRows ==
  ASSUME NEW p \in Plane, NEW s \in Number
  PROVE  /\ Times(p[1], s) \in Number
         /\ Below(<<Negated(s), One, Zero>>, p) <=> Leq(p[2], Times(p[1], s))
         /\ Below(<<Negated(s), Negated(One), Zero>>, p)
              <=> Leq(Negated(p[2]), Times(p[1], s))
<1>1. PICK x \in Number, y \in Number : p = <<x, y>>
  BY DEF Plane
<1>2. Negated(x) \in Number /\ Negated(y) \in Number /\ Times(x, s) \in Number
  BY NumbersClosed
<1>3. Times(Negated(s), x) = Negated(Times(x, s))
  <2>1. Times(Negated(s), x) = Negated(Times(s, x)) /\ Times(s, x) = Times(x, s)
    BY TimesLaws
  <2> QED
    BY <2>1
<1>4. Times(One, y) = y /\ Times(Negated(One), y) = Negated(y)
  BY WithZero
<1>5. Below(<<Negated(s), One, Zero>>, p) <=> Leq(Plus(Negated(Times(x, s)), y), Zero)
  BY <1>1, <1>3, <1>4 DEF Below
<1>6. Below(<<Negated(s), Negated(One), Zero>>, p)
        <=> Leq(Plus(Negated(Times(x, s)), Negated(y)), Zero)
  BY <1>1, <1>3, <1>4 DEF Below
<1> QED
  BY <1>1, <1>2, <1>5, <1>6, ChangeSides

(* The disk of a rating.                                                   *)
LEMMA InDisk ==
  ASSUME NEW p \in Plane, NEW r
  PROVE  InPart(Disk(r), p) <=> Leq(Plus(Squared(p[1]), Squared(p[2])), Squared(r))
<1>1. Minus(p[1], Origin[1]) = p[1] /\ Minus(p[2], Origin[2]) = p[2]
  BY WithZero DEF Plane, Origin, Zero
<1> QED
  BY <1>1 DEF InPart, Disk

(* A polytope is all its rows.                                             *)
LEMMA InPolytope ==
  ASSUME NEW rows, NEW p
  PROVE  InPart(Polytope(rows), p) <=> \A i \in DOMAIN rows : Below(rows[i], p)
  BY DEF InPart, Polytope

(* A rectangle, by the bounds as they are given.                           *)
LEMMA InRectangle ==
  ASSUME NEW u, NEW w, NEW p
  PROVE  InPart(Rectangle(u, w), p) <=>
           \A i \in {1, 2} : /\ Leq(Least(u[i], w[i]), p[i])
                             /\ Leq(p[i], Greatest(u[i], w[i]))
  BY DEF InPart, Rectangle

(* A set that is no intersection.                                          *)
LEMMA MemberOfOne ==
  ASSUME NEW set, set.shape # "intersection", NEW p
  PROVE  Member(set, p) <=> InPart(set, p)
  BY DEF Member

(* An intersection of two sets.                                            *)
LEMMA MemberOfTwo ==
  ASSUME NEW x, NEW y, NEW p
  PROVE  Member(Intersection(<<x, y>>), p) <=> InPart(x, p) /\ InPart(y, p)
  BY DEF Member, Intersection

(* An intersection of three sets.                                          *)
LEMMA MemberOfThree ==
  ASSUME NEW x, NEW y, NEW z, NEW p
  PROVE  Member(Intersection(<<x, y, z>>), p)
           <=> InPart(x, p) /\ InPart(y, p) /\ InPart(z, p)
  BY DEF Member, Intersection
------------------------------------------------------------------------------
(* Profiles.                                                               *)

\* What order o is described by are numbers.
LEMMA ParametersAreNumbers ==
  ASSUME NEW o \in Orders
  PROVE  /\ o.kind \in Kinds /\ o.via \in {"api", "daemon"}
         /\ o.kind \in BatteryLike =>
              /\ o.Srated \in Number /\ o.Pmin \in Number /\ o.Pmax \in Number
              /\ o.coeffP \in Number /\ o.coeffPsquared \in Number
         /\ o.kind = "pv" =>
              /\ o.Srated \in Number /\ o.Pmax \in Number /\ o.Pdelta \in Number
              /\ o.a \in Number /\ o.b \in Number
              /\ IF o.via = "daemon" THEN o.cosPhi \in Number ELSE o.tanPhi \in Number
         /\ o.kind \in Uncontrollable =>
              /\ o.Pexp \in Number /\ o.Qexp \in Number /\ o.Srated \in Number
              /\ o.dPup \in Number /\ o.dPdown \in Number
              /\ o.dQup \in Number /\ o.dQdown \in Number
         /\ o.kind = "uncontrollableGenerator" => o.PmaxAbsorb \in Number
         /\ o.kind \in Discrete => o.alpha \in Number /\ o.beta \in Number
<1>1. /\ o.kind \in Kinds /\ o.via \in {"api", "daemon"}
      /\ \A f \in Parameters(o) : o[f] \in Number
  BY OrdersAssumption
<1>2. CASE o.kind \in BatteryLike
  <2>1. Parameters(o) = {"Srated", "Pmin", "Pmax", "coeffP", "coeffPsquared"}
    BY <1>2 DEF Parameters, BatteryLike, Uncontrollable, Discrete
  <2>2. o.kind # "pv" /\ o.kind \notin Uncontrollable /\ o.kind \notin Discrete
        /\ o.kind # "uncontrollableGenerator"
    BY <1>2 DEF BatteryLike, Uncontrollable, Discrete
  <2> QED
    BY <1>1, <1>2, <2>1, <2>2
<1>3. CASE o.kind = "pv"
  <2>1. Parameters(o) = {"Srated", "Pmax", "Pdelta", "a", "b",
                         IF o.via = "daemon" THEN "cosPhi" ELSE "tanPhi"}
    BY <1>3 DEF Parameters, BatteryLike, Uncontrollable, Discrete
  <2>2. o.kind \notin BatteryLike /\ o.kind \notin Uncontrollable
        /\ o.kind \notin Discrete
    BY <1>3 DEF BatteryLike, Uncontrollable, Discrete
  <2> QED
    BY <1>1, <1>3, <2>1, <2>2
<1>4. CASE o.kind \in Uncontrollable
  <2>1. Parameters(o) =
          {"Pexp", "Qexp", "Srated", "dPup", "dPdown", "dQup", "dQdown"}
            \cup (IF o.kind = "uncontrollableGenerator" THEN {"PmaxAbsorb"} ELSE {})
    BY <1>4 DEF Parameters, BatteryLike, Uncontrollable, Discrete
  <2>2. o.kind # "pv" /\ o.kind \notin BatteryLike /\ o.kind \notin Discrete
    BY <1>4 DEF BatteryLike, Uncontrollable, Discrete
  <2> QED
    BY <1>1, <1>4, <2>1, <2>2
<1>5. CASE o.kind \in Discrete
  <2>1. Parameters(o) = {"alpha", "beta"}
    BY <1>5 DEF Parameters, BatteryLike, Uncontrollable, Discrete
  <2>2. o.kind # "pv" /\ o.kind \notin BatteryLike /\ o.kind \notin Uncontrollable
        /\ o.kind # "uncontrollableGenerator"
    BY <1>5 DEF BatteryLike, Uncontrollable, Discrete
  <2> QED
    BY <1>1, <1>5, <2>1, <2>2
<1> QED
  BY <1>1, <1>2, <1>3, <1>4, <1>5 DEF Kinds

(* A disk between two lines is what a battery can be set to; a fuel cell   *)
(* of the C interface has both lines above zero.                           *)
LEMMA BatteryProfileMeant ==
  ASSUME NEW o \in Orders, o.kind \in BatteryLike, ~Illegal(o), NEW sp \in Plane
  PROVE  Member(Profile(o), sp) <=> Able(o, sp)
<1>1. o.Srated \in Number /\ o.Pmin \in Number /\ o.Pmax \in Number
  BY ParametersAreNumbers
<1>2. Profile(o) = BatteryProfile(o)
  BY DEF Profile, BatteryLike, Uncontrollable, Discrete
<1>3. sp[1] \in Number /\ Negated(o.Pmin) \in Number
  BY <1>1, NumbersClosed DEF Plane
<1> DEFINE rows == << <<One, Zero, o.Pmax>>, <<Negated(One), Zero, Negated(o.Pmin)>> >>
<1>4. InPart(Polytope(rows), sp) <=> Leq(o.Pmin, sp[1]) /\ Leq(sp[1], o.Pmax)
  <2>1. DOMAIN rows = {1, 2} /\ rows[1] = <<One, Zero, o.Pmax>>
        /\ rows[2] = <<Negated(One), Zero, Negated(o.Pmin)>>
    OBVIOUS
  <2>2. Below(rows[1], sp) <=> Leq(sp[1], o.Pmax)
    BY <1>1, <2>1, UprightRows
  <2>3. Below(rows[2], sp) <=> Leq(Negated(sp[1]), Negated(o.Pmin))
    BY <1>3, <2>1, UprightRows
  <2>4. Leq(Negated(sp[1]), Negated(o.Pmin)) <=> Leq(o.Pmin, sp[1])
    BY <1>1, <1>3, OrderLaws
  <2> HIDE DEF rows
  <2> QED
    BY <2>1, <2>2, <2>3, <2>4, InPolytope
<1>5. Member(Profile(o), sp) <=> Between(o.Pmin, sp[1], o.Pmax) /\ InRating(o, sp)
  BY <1>2, <1>4, MemberOfTwo, InDisk DEF BatteryProfile, Between, InRating
<1>6. ASSUME o.kind = "fuelcell", o.via = "api", Leq(o.Pmin, sp[1]) PROVE Leq(Zero, sp[1])
  <2>1. ~(o.Pmin[1] < 0) /\ o.Pmin[1] \in Int
    BY <1>1, <1>6, NumberType DEF Illegal
  <2>2. Leq(Zero, o.Pmin)
    BY <1>1, <2>1, SignLaws
  <2> QED
    BY <1>1, <1>3, <1>6, <2>2, OneAndZero, OrderLaws
<1>7. Able(o, sp) <=> /\ Between(o.Pmin, sp[1], o.Pmax) /\ InRating(o, sp)
                      /\ o.kind = "fuelcell" /\ o.via = "api" => Leq(Zero, sp[1])
  BY DEF Able, BatteryLike, Uncontrollable, Discrete
<1> QED
  BY <1>5, <1>6, <1>7 DEF Between

(* The angle of a power factor.                                            *)
LEMMA TanPhiMeant ==
  ASSUME NEW cos \in Number, PowerFactor(cos)
  PROVE  /\ TanPhi(cos) \in Number /\ Leq(Zero, TanPhi(cos))
         /\ Squared(Times(cos, TanPhi(cos))) = Minus(One, Squared(cos))
<1> DEFINE sine == CHOOSE s \in {Frac(n, cos[2]) : n \in 0 .. cos[2]} :
                 Squared(s) = Minus(One, Squared(cos))
<1>1. sine \in {Frac(n, cos[2]) : n \in 0 .. cos[2]} /\ Squared(sine) = Minus(One, Squared(cos))
  BY DEF PowerFactor
<1>2. TanPhi(cos) = Times(sine, Reciprocal(cos))
  BY DEF TanPhi
<1> HIDE DEF sine
<1>3. cos[2] \in Positives
  BY NumberType
<1>4. PICK n \in Nat : sine = Frac(n, cos[2])
  BY <1>1, <1>3 DEF Positives
<1>5. sine \in Number /\ Leq(Zero, sine)
  <2>1. sine \in Number
    BY <1>3, <1>4, FracPositive
  <2>2. Zero = Frac(0 * cos[2], cos[2])
    BY <1>3, NumFrac DEF Zero
  <2>3. 0 * cos[2] = 0
    BY <1>3 DEF Positives
  <2>4. Leq(Frac(0, cos[2]), Frac(n, cos[2])) <=> 0 <= n
    BY <1>3, SameDenominator
  <2> QED
    BY <2>1, <2>2, <2>3, <2>4, <1>4
<1> DEFINE r == Reciprocal(cos)
<1>6. r \in Number /\ Times(cos, r) = One /\ Positive(r)
  <2>1. cos # Num(0)
    BY SignLaws DEF PowerFactor, Zero
  <2> QED
    BY <2>1, ReciprocalLaw DEF One, PowerFactor
<1> HIDE DEF r
<1>7. Leq(Zero, r)
  <2>1. ~Leq(r, Zero)
    BY <1>6, SignLaws
  <2> QED
    BY <2>1, <1>6, OneAndZero, OrderLaws
<1>8. Times(sine, r) \in Number /\ Leq(Zero, Times(sine, r))
  <2>1. Leq(Times(sine, Zero), Times(sine, r))
    BY <1>5, <1>6, <1>7, OneAndZero, PositiveLaws DEF Zero
  <2>2. Times(sine, Zero) = Zero
    BY <1>5, WithZero
  <2> QED
    BY <2>1, <2>2, <1>5, <1>6, NumbersClosed
<1>9. Times(cos, Times(sine, r)) = sine
  <2>1. Times(cos, Times(sine, r)) = Times(Times(sine, r), cos)
    BY <1>8, TimesLaws
  <2>2. Times(Times(sine, r), cos) = Times(sine, Times(r, cos))
    BY <1>5, <1>6, TimesLaws
  <2>3. Times(r, cos) = One
    BY <1>6, TimesLaws
  <2> QED
    BY <2>1, <2>2, <2>3, <1>5, WithZero
<1> QED
  BY <1>1, <1>2, <1>8, <1>9 DEF r

(* The sides of a triangle rise.                                           *)
LEMMA SlopeType ==
  ASSUME NEW o \in Orders, o.kind = "pv", PlantSound(o)
  PROVE  Slope(o) \in Number /\ Leq(Zero, Slope(o))
<1>1. CASE o.via = "daemon"
  <2>1. o.cosPhi \in Number /\ PowerFactor(o.cosPhi)
    BY <1>1, ParametersAreNumbers DEF PlantSound
  <2>2. Slope(o) = TanPhi(o.cosPhi)
    BY <1>1 DEF Slope
  <2> QED
    BY <2>1, <2>2, TanPhiMeant
<1>2. CASE o.via # "daemon"
  <2>1. o.tanPhi \in Number /\ Leq(Zero, o.tanPhi)
    BY <1>2, ParametersAreNumbers DEF PlantSound
  <2> QED
    BY <2>1, <1>2 DEF Slope
<1> QED
  BY <1>1, <1>2

(* A line through the origin holds the points of a power factor.           *)
LEMMA PowerFactorMeant ==
  ASSUME NEW cos \in Number, PowerFactor(cos), NEW sp \in Plane, Leq(Zero, sp[1])
  PROVE  InPowerFactor(cos, sp) <=> Leq(Size(sp[2]), Times(sp[1], TanPhi(cos)))
<1> DEFINE t == TanPhi(cos)
           x == sp[1]
           q == sp[2]
           cc == Squared(cos)
           xx == Squared(x)
           qq == Squared(q)
<1>1. /\ t \in Number /\ Leq(Zero, t) /\ Squared(Times(cos, t)) = Minus(One, cc)
      /\ x \in Number /\ q \in Number /\ Leq(Zero, x)
  BY TanPhiMeant DEF Plane
<1>2. /\ cc \in Number /\ xx \in Number /\ qq \in Number /\ Squared(t) \in Number
      /\ Times(x, t) \in Number /\ One \in Number /\ Zero \in Number
      /\ Times(cc, xx) \in Number /\ Times(cc, qq) \in Number
  BY <1>1, NumbersClosed, OneAndZero
<1> HIDE DEF t, x, q
<1>3. Leq(Zero, Times(x, t))
  <2>1. Leq(Times(x, Zero), Times(x, t))
    BY <1>1, <1>2, PositiveLaws DEF Zero
  <2> QED
    BY <2>1, <1>1, WithZero
<1>4. Leq(Size(q), Times(x, t)) <=> Leq(qq, Squared(Times(x, t)))
  <2>1. Size(q) \in Number /\ Leq(Zero, Size(q)) /\ Squared(Size(q)) = qq
    BY <1>1, <1>2, SizeBounds, SquareOfSize
  <2> QED
    BY <2>1, <1>2, <1>3, SquaresOrdered
<1>5. Positive(cc)
  <2>1. Positive(cos)
    BY DEF PowerFactor
  <2>2. Leq(cos, Zero) <=> Leq(Times(cos, cos), Times(cos, Zero))
    BY <2>1, <1>2, PositiveLaws
  <2>3. ~Leq(Times(cos, cos), Zero)
    BY <2>1, <2>2, SignLaws, WithZero
  <2> QED
    BY <2>3, <1>2, SignLaws DEF Squared
<1>6. Times(cc, Squared(Times(x, t))) = Minus(xx, Times(cc, xx))
  <2>1. Squared(Times(x, t)) = Times(xx, Squared(t)) /\ Squared(Times(cos, t)) = Times(cc, Squared(t))
    BY <1>1, SquareOfProduct
  <2>2. Times(cc, Times(xx, Squared(t))) = Times(xx, Times(cc, Squared(t)))
    <3>1. Times(cc, Times(xx, Squared(t))) = Times(Times(cc, xx), Squared(t))
      BY <1>2, TimesLaws
    <3>2. Times(xx, Times(cc, Squared(t))) = Times(Times(xx, cc), Squared(t))
      BY <1>2, TimesLaws
    <3>3. Times(cc, xx) = Times(xx, cc)
      BY <1>2, TimesLaws
    <3> QED
      BY <3>1, <3>2, <3>3
  <2>3. Times(xx, Minus(One, cc)) = Minus(xx, Times(cc, xx))
    <3>1. Negated(cc) \in Number
      BY <1>2, NumbersClosed
    <3>2. Times(xx, Plus(One, Negated(cc))) = Plus(Times(xx, One), Times(xx, Negated(cc)))
      BY <1>2, <3>1, TimesLaws
    <3>3. Times(xx, Negated(cc)) = Times(Negated(cc), xx)
      BY <1>2, <3>1, TimesLaws
    <3>4. Times(Negated(cc), xx) = Negated(Times(cc, xx))
      BY <1>2, TimesLaws
    <3>5. Times(xx, One) = xx
      BY <1>2, WithZero
    <3> QED
      BY <3>2, <3>3, <3>4, <3>5 DEF Minus
  <2> QED
    BY <2>1, <2>2, <2>3, <1>1
<1>7. Leq(qq, Squared(Times(x, t))) <=> Leq(Times(cc, qq), Minus(xx, Times(cc, xx)))
  <2>1. Squared(Times(x, t)) \in Number
    BY <1>2, NumbersClosed
  <2>2. Leq(qq, Squared(Times(x, t))) <=> Leq(Times(cc, qq), Times(cc, Squared(Times(x, t))))
    BY <2>1, <1>2, <1>5, PositiveLaws
  <2> QED
    BY <2>2, <1>6
<1>8. Leq(Times(cc, qq), Minus(xx, Times(cc, xx))) <=> Leq(Plus(Times(cc, qq), Times(cc, xx)), xx)
  BY <1>2, ChangeSides
<1>9. Plus(Times(cc, qq), Times(cc, xx)) = Times(cc, Plus(xx, qq))
  <2>1. Times(cc, Plus(xx, qq)) = Plus(Times(cc, xx), Times(cc, qq))
    BY <1>2, TimesLaws
  <2>2. Plus(Times(cc, xx), Times(cc, qq)) = Plus(Times(cc, qq), Times(cc, xx))
    BY <1>2, PlusLaws
  <2> QED
    BY <2>1, <2>2
<1>10. InPowerFactor(cos, sp) <=> Leq(Times(cc, Plus(xx, qq)), xx)
  BY DEF InPowerFactor, x, q
<1> QED
  BY <1>4, <1>7, <1>8, <1>9, <1>10 DEF x, q, t

(* The triangle of a plant, cut by its disk, is what it can be set to; but *)
(* its sides go on below zero where they are one line.                     *)
LEMMA PVProfileMeant ==
  ASSUME NEW o \in Orders, o.kind = "pv", PlantSound(o), NEW sp \in Plane
  PROVE  \/ Member(Profile(o), sp) <=> Able(o, sp)
         \/ Flat(o) /\ sp[1][1] < 0 /\ sp[2] = Zero
<1> DEFINE s == Slope(o)
           x == sp[1]
           q == sp[2]
           rows == << <<One, Zero, o.Pmax>>, <<Negated(s), One, Zero>>,
                      <<Negated(s), Negated(One), Zero>> >>
<1>1. /\ s \in Number /\ Leq(Zero, s) /\ x \in Number /\ q \in Number
      /\ o.Pmax \in Number /\ Zero \in Number /\ Size(q) \in Number
  BY SlopeType, ParametersAreNumbers, OneAndZero, SizeBounds DEF Plane
<1>2. Profile(o) = Intersection(<<Polytope(rows), Disk(o.Srated)>>)
  BY DEF Profile, PVProfile, BatteryLike, Uncontrollable, Discrete
<1>3. InPart(Polytope(rows), sp) <=> Leq(x, o.Pmax) /\ Leq(Size(q), Times(x, s))
  <2>1. DOMAIN rows = {1, 2, 3} /\ rows[1] = <<One, Zero, o.Pmax>>
        /\ rows[2] = <<Negated(s), One, Zero>>
        /\ rows[3] = <<Negated(s), Negated(One), Zero>>
    OBVIOUS
  <2>2. Below(rows[1], sp) <=> Leq(x, o.Pmax)
    BY <1>1, <2>1, UprightRows
  <2>3. /\ Below(rows[2], sp) <=> Leq(q, Times(x, s))
        /\ Below(rows[3], sp) <=> Leq(Negated(q), Times(x, s))
        /\ Times(x, s) \in Number
    BY <1>1, <2>1, SlopingRows
  <2>4. Leq(Size(q), Times(x, s)) <=> Leq(q, Times(x, s)) /\ Leq(Negated(q), Times(x, s))
    BY <1>1, <2>3, SizeBounds
  <2> HIDE DEF rows, s, x, q
  <2> QED
    BY <2>1, <2>2, <2>3, <2>4, InPolytope
<1> HIDE DEF rows
<1>4. Member(Profile(o), sp)
        <=> Leq(x, o.Pmax) /\ Leq(Size(q), Times(x, s)) /\ InRating(o, sp)
  BY <1>2, <1>3, MemberOfTwo, InDisk DEF InRating
<1>5. Able(o, sp) <=>
        /\ Between(Zero, x, o.Pmax) /\ InRating(o, sp)
        /\ IF o.via = "daemon" THEN InPowerFactor(o.cosPhi, sp)
           ELSE Leq(Size(q), Times(x, o.tanPhi))
  BY DEF Able, BatteryLike, Uncontrollable, Discrete
<1>6. CASE Leq(Zero, x)
  <2>1. CASE o.via = "daemon"
    <3>1. o.cosPhi \in Number /\ PowerFactor(o.cosPhi) /\ s = TanPhi(o.cosPhi)
      BY <2>1, ParametersAreNumbers DEF PlantSound, Slope
    <3>2. InPowerFactor(o.cosPhi, sp) <=> Leq(Size(q), Times(x, s))
      BY <3>1, <1>6, PowerFactorMeant
    <3> QED
      BY <3>2, <2>1, <1>4, <1>5, <1>6 DEF Between
  <2>2. CASE o.via # "daemon"
    BY <2>2, <1>4, <1>5, <1>6 DEF Between, Slope
  <2> QED
    BY <2>1, <2>2
<1>7. CASE ~Leq(Zero, x)
  <2>1. ~Able(o, sp)
    BY <1>5, <1>7 DEF Between
  <2>2. SUFFICES ASSUME Leq(Size(q), Times(x, s))
                 PROVE  Flat(o) /\ x[1] < 0 /\ q = Zero
    BY <2>1, <1>4
  <2>3. Leq(Zero, Size(q)) /\ Times(x, s) \in Number
    BY <1>1, SizeBounds, NumbersClosed
  <2>4. Leq(Zero, Times(x, s))
    BY <2>2, <2>3, <1>1, OrderLaws
  <2>5. s = Zero
    <3> SUFFICES ASSUME s # Zero PROVE FALSE
      OBVIOUS
    <3>1. ~Leq(s, Zero)
      BY <1>1, OrderLaws
    <3>2. Positive(s)
      BY <3>1, <1>1, SignLaws
    <3>3. Leq(Zero, x) <=> Leq(Times(s, Zero), Times(s, x))
      BY <3>2, <1>1, PositiveLaws
    <3>4. Times(s, Zero) = Zero /\ Times(s, x) = Times(x, s)
      BY <1>1, WithZero, TimesLaws
    <3> QED
      BY <3>3, <3>4, <2>4, <1>7
  <2>6. Size(q) = Zero
    <3>1. Times(x, s) = Zero
      BY <2>5, <1>1, WithZero
    <3> QED
      BY <3>1, <2>2, <2>3, <1>1, OrderLaws
  <2>7. q = Zero
    <3>1. Negated(Negated(q)) = q /\ Negated(Zero) = Zero
      BY <1>1, NegatedNegated, OneAndZero
    <3> QED
      BY <2>6, <3>1 DEF Size
  <2>8. x[1] < 0
    <3>1. x[1] \in Int /\ ~(x[1] >= 0)
      BY <1>1, <1>7, SignLaws, NumberType
    <3> QED
      BY <3>1
  <2> QED
    BY <2>5, <2>7, <2>8 DEF Flat
<1> QED
  BY <1>6, <1>7

(* A device that is not controlled is where it is expected.                *)
LEMMA UncontrollableProfileMeant ==
  ASSUME NEW o, o.kind \in Uncontrollable, NEW sp
  PROVE  Member(Profile(o), sp) <=> Able(o, sp)
<1>1. Profile(o) = Singleton(<<o.Pexp, o.Qexp>>) /\ (Able(o, sp) <=> sp = <<o.Pexp, o.Qexp>>)
  BY DEF Profile, Able, UncontrollableProfile, BatteryLike, Uncontrollable, Discrete
<1> QED
  BY <1>1 DEF Member, InPart, Singleton

(* A discrete device is set between Pmin and Pmax.                         *)
LEMMA DiscreteProfileMeant ==
  ASSUME NEW o, o.kind \in Discrete, NEW sp \in Plane,
         Pmin \in Int, Pmax \in Int, Pmin <= Pmax
  PROVE  Member(Profile(o), sp) <=> Able(o, sp)
<1>1. Profile(o) = Rectangle(<<Num(Pmin), Zero>>, <<Num(Pmax), Zero>>)
      /\ (Able(o, sp) <=> Between(Num(Pmin), sp[1], Num(Pmax)) /\ sp[2] = Zero)
  BY DEF Profile, Able, DiscreteProfile, BatteryLike, Uncontrollable, Discrete
<1>2. Leq(Num(Pmin), Num(Pmax))
  BY NumOrdered
<1>3. Least(Num(Pmin), Num(Pmax)) = Num(Pmin) /\ Greatest(Num(Pmin), Num(Pmax)) = Num(Pmax)
      /\ Least(Zero, Zero) = Zero /\ Greatest(Zero, Zero) = Zero
  BY <1>2 DEF Least, Greatest
<1>4. Member(Profile(o), sp) <=> InPart(Profile(o), sp)
  BY <1>1 DEF Member, Rectangle
<1>5. InPart(Profile(o), sp) <=>
        /\ Leq(Num(Pmin), sp[1]) /\ Leq(sp[1], Num(Pmax))
        /\ Leq(Zero, sp[2]) /\ Leq(sp[2], Zero)
  BY <1>1, <1>3, InRectangle
<1>6. Leq(Zero, sp[2]) /\ Leq(sp[2], Zero) <=> sp[2] = Zero
  BY OneAndZero, OrderLaws DEF Plane
<1> QED
  BY <1>1, <1>4, <1>5, <1>6 DEF Between

------------------------------------------------------------------------------
(* The advertisement and its order.                                        *)

(* What is advertised stays with its order.                                *)
Advertised ==
  /\ order \in Orders /\ asked.at \in Grid \cup {Origin}
  /\ order.kind \in Discrete \/ pc = "off"
  /\ stage \in {"ordered", "refused", "made", "boxed"}
  /\ stage \in {"made", "boxed"} =>
       /\ adv = [profile |-> Profile(order), cost |-> CostFunction(order)]
       /\ ~Illegal(order)
  /\ stage = "refused" => Illegal(order)
  /\ box = IF stage = "boxed" THEN rectHull(AskedSet) ELSE NoBox

(* Nothing is advertised at first.                                         *)
LEMMA AdvertisedStarts == DevicesInit => Advertised
  BY DEF DevicesInit, Advertised, NoSteps

\* The ends of a profile never change, nor does what goes with them.
LEMMA SameProfile ==
  ASSUME Pmin' = Pmin, Pmax' = Pmax, NEW o
  PROVE  /\ Profile(o)' = Profile(o) /\ CostFunction(o)' = CostFunction(o)
         /\ Illegal(o)' = Illegal(o)
  BY DEF Profile, DiscreteProfile, CostFunction, Illegal, BatteryProfile, PVProfile,
         UncontrollableProfile, Slope

(* A discrete device keeps its profile.                                    *)
LEMMA StepsKeepProfile == Next => Pmin' = Pmin /\ Pmax' = Pmax
  BY DEF Next, Begin, AddProjCase, AddRoundCases, Built, Ask, TestCase, device

(* An advertisement is made of its order, a box of the set asked about.    *)
LEMMA AdvertisedKeeps == ASSUME Advertised, [DevicesNext]_allvars PROVE Advertised'
<1>1. CASE Refuse
  <2>1. /\ order' = order /\ asked' = asked /\ pc' = pc /\ box' = box
        /\ stage = "ordered" /\ stage' = "refused" /\ Illegal(order)
    BY <1>1 DEF Refuse, vars, device
  <2>2. Illegal(order)'
    BY <2>1 DEF Illegal
  <2> QED
    BY <2>1, <2>2 DEF Advertised
<1>2. CASE Make
  <2>1. Pmin' = Pmin /\ Pmax' = Pmax /\ order' = order /\ asked' = asked /\ pc' = pc
    BY <1>2 DEF Make, vars, device
  <2>2. Profile(order)' = Profile(order) /\ CostFunction(order)' = CostFunction(order)
        /\ Illegal(order)' = Illegal(order)
    BY <2>1, SameProfile
  <2>3. /\ adv' = [profile |-> Profile(order), cost |-> CostFunction(order)]
        /\ ~Illegal(order) /\ stage = "ordered" /\ stage' = "made" /\ box' = box
    BY <1>2 DEF Make
  <2> QED
    BY <2>1, <2>2, <2>3 DEF Advertised
<1>3. CASE DiscreteStep
  <2>1. /\ order' = order /\ stage' = stage /\ adv' = adv /\ asked' = asked /\ box' = box
        /\ order.kind \in Discrete /\ stage \in {"ordered", "made"}
    BY <1>3 DEF DiscreteStep, devvars
  <2>2. Pmin' = Pmin /\ Pmax' = Pmax
    BY <1>3, StepsKeepProfile DEF DiscreteStep
  <2>3. Profile(order)' = Profile(order) /\ CostFunction(order)' = CostFunction(order)
        /\ Illegal(order)' = Illegal(order)
    BY <2>1, <2>2, SameProfile
  <2> QED
    BY <2>1, <2>3 DEF Advertised
<1>4. CASE Box
  <2>1. /\ Pmin' = Pmin /\ Pmax' = Pmax /\ order' = order /\ adv' = adv /\ pc' = pc
        /\ result' = result /\ stage = "made" /\ stage' = "boxed"
    BY <1>4 DEF Box, vars, device
  <2>2. Profile(order)' = Profile(order) /\ CostFunction(order)' = CostFunction(order)
        /\ Illegal(order)' = Illegal(order)
    BY <2>1, SameProfile
  <2>3. asked'.at \in Grid \cup {Origin} /\ box' = rectHull(AskedSet)'
    <3>1. CASE asked' = [of |-> "profile", at |-> Origin] /\ box' = rectHull(adv.profile)
      <4>1. AskedSet' = adv.profile
        BY <3>1, <2>1 DEF AskedSet
      <4> QED
        BY <3>1, <4>1
    <3>2. CASE \E sp \in Grid : /\ asked' = [of |-> "belief", at |-> sp]
                                /\ box' = rectHull(Belief(order, sp))
      <4>1. PICK sp \in Grid : /\ asked' = [of |-> "belief", at |-> sp]
                               /\ box' = rectHull(Belief(order, sp))
        BY <3>2
      <4>2. Belief(order, sp)' = Belief(order, sp)
        BY <2>1 DEF Belief, PVBelief, UncontrollableBelief, ZenoneBelief
      <4>3. AskedSet' = Belief(order, sp)
        BY <4>1, <4>2, <2>1 DEF AskedSet
      <4> QED
        BY <4>1, <4>3
    <3> QED
      BY <1>4, <3>1, <3>2 DEF Box
  <2> QED
    BY <2>1, <2>2, <2>3 DEF Advertised
<1>5. CASE UNCHANGED allvars
  <2>1. /\ Pmin' = Pmin /\ Pmax' = Pmax /\ order' = order /\ adv' = adv /\ pc' = pc
        /\ result' = result /\ stage' = stage /\ asked' = asked /\ box' = box
    BY <1>5 DEF allvars, devvars, vars, device
  <2>2. Profile(order)' = Profile(order) /\ CostFunction(order)' = CostFunction(order)
        /\ Illegal(order)' = Illegal(order)
    BY <2>1, SameProfile
  <2>3. AskedSet' = AskedSet
    BY <2>1 DEF AskedSet, Belief, PVBelief, UncontrollableBelief, ZenoneBelief
  <2> QED
    BY <2>1, <2>2, <2>3 DEF Advertised
<1> QED
  BY <1>1, <1>2, <1>3, <1>4, <1>5 DEF DevicesNext

(* What is advertised and boxed, for every order.                          *)
THEOREM AdvertisedInvariant == DevicesSpec => []Advertised
<1>1. DevicesInit => Advertised
  BY AdvertisedStarts
<1>2. Advertised /\ [DevicesNext]_allvars => Advertised'
  BY AdvertisedKeeps
<1> QED
  BY <1>1, <1>2, PTL DEF DevicesSpec

(* What is advertised is what was ordered, so that it means the same.      *)
LEMMA ProfilesMeant ==
  ASSUME \A o \in Orders : PlantSound(o), DeviceInv, Advertised
  PROVE  ProfileMeant
<1> SUFFICES ASSUME JustMade, NEW sp \in Grid
             PROVE  \/ Member(adv.profile, sp) <=> Able(order, sp)
                    \/ Flat(order) /\ sp[1][1] < 0 /\ sp[2] = Zero
  BY DEF ProfileMeant
<1>1. /\ sp \in Plane /\ order \in Orders /\ PlantSound(order) /\ ~Illegal(order)
      /\ adv.profile = Profile(order) /\ order.kind \in Kinds
  BY GridAssumption, OrdersAssumption DEF Advertised, JustMade, Plane
<1>2. Pmin \in Int /\ Pmax \in Int /\ Pmin <= Pmax
  BY DEF DeviceInv, TypeOK
<1> QED
  BY <1>1, <1>2, BatteryProfileMeant, PVProfileMeant, UncontrollableProfileMeant,
     DiscreteProfileMeant DEF Kinds

(* A profile holds the setpoints its device can be set to and no other,    *)
(* for every order the checks of hlapi.cpp let through whose plants have   *)
(* an angle that is not negative, or a power factor: the rows of           *)
(* _BatteryAdvertisement and _PVAdvertisement, the conversion of the       *)
(* daemon to tan(phi), and the check of makeFuelCellAdvertisement.         *)
THEOREM ProfileMeantCorrect ==
  ASSUME \A o \in Orders : PlantSound(o)
  PROVE  DevicesSpec => []ProfileMeant
<1>1. DeviceInv /\ Advertised => ProfileMeant
  BY ProfilesMeant
<1> QED
  BY <1>1, DeviceInvariant, AdvertisedInvariant, PTL

------------------------------------------------------------------------------
(* Costs.                                                                  *)

(* The cost that is advertised is the curve over 2 alpha.                  *)
LEMMA ScaledCost ==
  ASSUME NEW a \in Number, a # Zero, NEW b \in Number, NEW x \in Number, NEW e \in Number
  PROVE  LET k == Times(Num(2), a)
             cost == Cost(Quadratic(Frac(1, 2), Times(b, Reciprocal(k)), Zero), <<x, e>>)
         IN  /\ k \in Number /\ cost \in Number
             /\ Times(k, cost) = Plus(Times(a, Squared(x)), Times(b, x))
<1> DEFINE k == Times(Num(2), a)
           r == Reciprocal(k)
           h == Frac(1, 2)
           xx == Squared(x)
           cost == Cost(Quadratic(h, Times(b, r), Zero), <<x, e>>)
<1>3. h \in Number /\ Num(2) \in Number /\ Times(Num(2), h) = One
  BY Half
<1>1. k \in Number
  BY <1>3, NumbersClosed
<1>2. r \in Number /\ Times(k, r) = One
  <2>1. Times(Times(h, Num(2)), a) = Times(h, k) /\ Times(h, Num(2)) = One
    BY <1>3, TimesLaws DEF k
  <2>2. Times(One, a) = a /\ Times(h, Zero) = Zero
    BY <1>3, WithZero
  <2>3. k # Num(0)
    BY <2>1, <2>2 DEF Zero
  <2> QED
    BY <1>1, <2>3, ReciprocalLaw DEF One
<1> HIDE DEF k, r, h
<1>4. xx \in Number /\ Squared(e) \in Number /\ Times(h, xx) \in Number
      /\ Times(b, r) \in Number /\ Times(k, b) \in Number
  BY <1>1, <1>2, <1>3, NumbersClosed
<1>5. Times(Times(b, r), x) \in Number
  BY <1>4, NumbersClosed
<1>6. Plus(Times(h, xx), Times(Times(b, r), x)) \in Number
  BY <1>4, <1>5, NumbersClosed
<1>7. cost = Plus(Times(h, xx), Times(Times(b, r), x))
  <2>1. cost = Plus(Plus(Times(h, xx), Times(Times(b, r), x)), Times(Zero, Squared(e)))
    BY DEF Cost, Quadratic
  <2> QED
    BY <2>1, <1>4, <1>6, WithZero
<1>8. Times(k, Times(h, xx)) = Times(a, xx)
  <2>1. Times(k, Times(h, xx)) = Times(Times(k, h), xx)
    BY <1>1, <1>3, <1>4, TimesLaws
  <2>2. k = Times(a, Num(2))
    BY <1>3, TimesLaws DEF k
  <2>3. Times(Times(a, Num(2)), h) = Times(a, Times(Num(2), h))
    BY <1>3, TimesLaws
  <2>4. Times(a, One) = a
    BY WithZero
  <2> QED
    BY <2>1, <2>2, <2>3, <2>4, <1>3
<1>9. Times(k, Times(Times(b, r), x)) = Times(b, x)
  <2>1. Times(k, Times(Times(b, r), x)) = Times(Times(k, Times(b, r)), x)
    BY <1>1, <1>4, TimesLaws
  <2>2. Times(k, Times(b, r)) = Times(Times(b, r), k)
    BY <1>1, <1>4, TimesLaws
  <2>3. Times(Times(b, r), k) = Times(b, Times(r, k))
    BY <1>1, <1>2, TimesLaws
  <2>4. Times(r, k) = One
    BY <1>1, <1>2, TimesLaws
  <2> QED
    BY <2>1, <2>2, <2>3, <2>4, WithZero
<1>10. Times(k, cost) = Plus(Times(a, xx), Times(b, x))
  <2>1. Times(k, Plus(Times(h, xx), Times(Times(b, r), x))) =
          Plus(Times(k, Times(h, xx)), Times(k, Times(Times(b, r), x)))
    BY <1>1, <1>4, <1>5, TimesLaws
  <2> QED
    BY <2>1, <1>7, <1>8, <1>9
<1> QED
  BY <1>1, <1>6, <1>7, <1>10 DEF k, r, h

(* Zero is within 1e-6 of zero.                                            *)
LEMMA ZeroIsTiny == Tiny(Zero)
<1>1. Num(0) = Frac(0, 1000000)
  <2>1. 1000000 \in Positives /\ 0 * 1000000 = 0
    BY DEF Positives
  <2> QED
    BY <2>1, NumFrac
<1>2. Leq(Frac(0, 1000000), Frac(1, 1000000))
  <2>1. 1000000 \in Positives /\ 0 \in Int /\ 1 \in Int /\ 0 <= 1
    BY DEF Positives
  <2> QED
    BY <2>1, SameDenominator
<1>3. Zero \in Number /\ Sgn(Zero) \in Number
  BY OneAndZero, NumbersClosed
<1>4. Times(Sgn(Zero), Zero) = Num(0)
  BY <1>3, WithZero DEF Zero
<1> QED
  BY <1>1, <1>2, <1>4 DEF Tiny

(* Division by 2 alpha keeps the order of a curve that opens upwards and   *)
(* turns the one of a curve that opens downwards.                          *)
LEMMA NormalizedOrders ==
  ASSUME NEW a \in Number, NEW b \in Number, ~Tiny(a),
         NEW x \in Number, NEW y \in Number
  PROVE  LET lhs == Leq(Cost(Normalized(a, b), <<x, One>>), Cost(Normalized(a, b), <<y, Zero>>))
             u == Plus(Times(a, Squared(x)), Times(b, x))
             v == Plus(Times(a, Squared(y)), Times(b, y))
         IN  /\ Positive(a) => (lhs <=> Leq(u, v))
             /\ ~Positive(a) => (lhs <=> Leq(v, u))
<1> DEFINE k == Times(Num(2), a)
           f == Quadratic(Frac(1, 2), Times(b, Reciprocal(k)), Zero)
           g == Cost(f, <<x, One>>)
           h == Cost(f, <<y, Zero>>)
           u == Plus(Times(a, Squared(x)), Times(b, x))
           v == Plus(Times(a, Squared(y)), Times(b, y))
<1>1. Normalized(a, b) = f
  BY DEF Normalized
<1>2. One \in Number /\ Zero \in Number /\ Num(2) \in Number /\ Positive(Num(2))
  BY OneAndZero, Half
<1>3. a # Zero
  BY ZeroIsTiny
<1>4. ASSUME NEW t \in Number, NEW e \in Number
      PROVE  /\ k \in Number /\ Cost(f, <<t, e>>) \in Number
             /\ Times(k, Cost(f, <<t, e>>)) = Plus(Times(a, Squared(t)), Times(b, t))
  BY ONLY <1>3, a \in Number, b \in Number, ScaledCost
<1>5. /\ k \in Number /\ g \in Number /\ h \in Number
      /\ Times(k, g) = u /\ Times(k, h) = v
  BY <1>2, <1>4
<1>6. Positive(a) => Positive(k)
  BY <1>2, ProductOfPositives
<1>7. ~Positive(a) => Positive(Negated(k))
  <2> SUFFICES ASSUME ~Positive(a) PROVE Positive(Negated(k))
    OBVIOUS
  <2>1. Leq(a, Zero) /\ ~Leq(Zero, a)
    BY <1>2, <1>3, SignLaws, OrderLaws
  <2>2. Negated(a) \in Number /\ Leq(Zero, Negated(a)) /\ ~Leq(Negated(a), Zero)
    <3>1. Negated(a) \in Number /\ Negated(Zero) = Zero
      BY NumbersClosed, OneAndZero
    <3>2. Leq(Negated(Zero), Negated(a)) /\ ~Leq(Negated(a), Negated(Zero))
      BY <1>2, <2>1, OrderLaws
    <3> QED
      BY <3>1, <3>2
  <2>3. Positive(Negated(a))
    BY <2>2, SignLaws
  <2>4. Positive(Times(Num(2), Negated(a)))
    BY <1>2, <2>2, <2>3, ProductOfPositives
  <2>5. Times(Num(2), Negated(a)) = Times(Negated(a), Num(2))
    BY <1>2, <2>2, TimesLaws
  <2>6. Times(Negated(a), Num(2)) = Negated(Times(a, Num(2)))
    BY <1>2, TimesLaws
  <2>7. Times(a, Num(2)) = k
    BY <1>2, TimesLaws
  <2> QED
    BY <2>4, <2>5, <2>6, <2>7
<1> HIDE DEF k, f, g, h, u, v
<1>8. Positive(k) => (Leq(g, h) <=> Leq(u, v))
  BY <1>5, PositiveLaws
<1>9. Positive(Negated(k)) => (Leq(g, h) <=> Leq(v, u))
  <2>1. Negated(k) \in Number /\ u \in Number /\ v \in Number
    BY <1>5, NumbersClosed
  <2>2. Times(Negated(k), g) = Negated(u) /\ Times(Negated(k), h) = Negated(v)
    BY <1>5, TimesLaws
  <2>3. Positive(Negated(k)) => (Leq(g, h) <=> Leq(Negated(u), Negated(v)))
    BY <1>5, <2>1, <2>2, PositiveLaws
  <2>4. Leq(v, u) <=> Leq(Negated(u), Negated(v))
    BY <2>1, OrderLaws
  <2> QED
    BY <2>3, <2>4
<1> QED
  BY <1>1, <1>6, <1>7, <1>8, <1>9 DEF g, h, u, v

(* The cost of a curve that is all but straight is the same everywhere.    *)
LEMMA TinyCost ==
  ASSUME NEW a \in Number, NEW b \in Number, Tiny(a), NEW x \in Number, NEW y \in Number
  PROVE  Leq(Cost(Normalized(a, b), <<x, One>>), Cost(Normalized(a, b), <<y, Zero>>))
<1> DEFINE f == Quadratic(Zero, Zero, Zero)
<1>1. One \in Number /\ Zero \in Number
  BY OneAndZero
<1>2. ASSUME NEW t \in Number, NEW e \in Number PROVE Cost(f, <<t, e>>) = Zero
  <2>1. Squared(t) \in Number /\ Squared(e) \in Number
    BY NumbersClosed
  <2>2. Cost(f, <<t, e>>) = Plus(Plus(Times(Zero, Squared(t)), Times(Zero, t)),
                                 Times(Zero, Squared(e)))
    BY DEF Cost, Quadratic
  <2> QED
    BY <1>1, <2>1, <2>2, WithZero
<1>3. Normalized(a, b) = f
  BY DEF Normalized
<1> HIDE DEF f
<1>4. Cost(f, <<x, One>>) = Zero /\ Cost(f, <<y, Zero>>) = Zero
  BY <1>1, <1>2
<1> QED
  BY <1>1, <1>3, <1>4, OrderLaws

(* More active and less reactive power costs a plant less.                 *)
LEMMA PVCostOrders ==
  ASSUME NEW a \in Number, NEW b \in Number, Positive(a), Positive(b),
         NEW s \in Plane, NEW t \in Plane,
         Leq(t[1], s[1]), Leq(Size(s[2]), Size(t[2])),
         s[1] # t[1] \/ Size(s[2]) # Size(t[2])
  PROVE  LET f == Quadratic(Zero, Negated(a), b) IN Less(Cost(f, s), Cost(f, t))
<1> DEFINE f == Quadratic(Zero, Negated(a), b)
<1>1. PICK x \in Number, q \in Number, y \in Number, r \in Number :
        s = <<x, q>> /\ t = <<y, r>>
  BY DEF Plane
<1>2. /\ Squared(x) \in Number /\ Squared(q) \in Number /\ Squared(y) \in Number
      /\ Squared(r) \in Number /\ Negated(a) \in Number
      /\ Times(Negated(a), x) \in Number /\ Times(Negated(a), y) \in Number
      /\ Size(q) \in Number /\ Size(r) \in Number
      /\ Times(a, x) \in Number /\ Times(a, y) \in Number /\ Zero \in Number
  BY NumbersClosed, SizeBounds, OneAndZero
<1>3. Times(b, Squared(q)) \in Number /\ Times(b, Squared(r)) \in Number
  BY <1>2, NumbersClosed
<1>4. /\ Cost(f, s) = Plus(Times(Negated(a), x), Times(b, Squared(q)))
      /\ Cost(f, t) = Plus(Times(Negated(a), y), Times(b, Squared(r)))
  <2>1. /\ Times(Zero, Squared(x)) = Zero /\ Times(Zero, Squared(y)) = Zero
        /\ Plus(Zero, Times(Negated(a), x)) = Times(Negated(a), x)
        /\ Plus(Zero, Times(Negated(a), y)) = Times(Negated(a), y)
    BY <1>2, WithZero
  <2> QED
    BY <1>1, <2>1 DEF Cost, Quadratic
<1>5. Times(Negated(a), x) = Negated(Times(a, x)) /\ Times(Negated(a), y) = Negated(Times(a, y))
  BY TimesLaws
<1>6. Leq(y, x) /\ Leq(Size(q), Size(r)) /\ (x # y \/ Size(q) # Size(r))
  BY <1>1
<1>7. Leq(Times(Negated(a), x), Times(Negated(a), y))
  <2>1. Leq(Times(a, y), Times(a, x))
    BY <1>6, PositiveLaws
  <2> QED
    BY <2>1, <1>2, <1>5, OrderLaws
<1>8. /\ Leq(Size(q), Size(r)) <=> Leq(Squared(q), Squared(r))
      /\ Leq(Size(r), Size(q)) <=> Leq(Squared(r), Squared(q))
  BY <1>2, SizeBounds, SquareOfSize, SquaresOrdered
<1>9. Leq(Times(b, Squared(q)), Times(b, Squared(r)))
  BY <1>2, <1>6, <1>8, PositiveLaws
<1>10. SUFFICES ASSUME Leq(Cost(f, t), Cost(f, s)) PROVE FALSE
  BY DEF Less
<1> HIDE DEF f
<1>11. Times(Negated(a), x) = Times(Negated(a), y) /\ Times(b, Squared(q)) = Times(b, Squared(r))
  BY <1>2, <1>3, <1>4, <1>7, <1>9, <1>10, SumRises
<1>12. x = y
  <2>1. Leq(Times(Negated(a), y), Times(Negated(a), x))
    BY <1>2, <1>11, OrderLaws
  <2>2. Leq(Times(a, x), Times(a, y))
    BY <2>1, <1>2, <1>5, OrderLaws
  <2> QED
    BY <2>2, <1>6, PositiveLaws, OrderLaws
<1>13. Size(q) = Size(r)
  <2>1. Leq(Times(b, Squared(r)), Times(b, Squared(q)))
    BY <1>3, <1>11, OrderLaws
  <2>2. Leq(Squared(r), Squared(q))
    BY <2>1, <1>2, PositiveLaws
  <2> QED
    BY <2>2, <1>2, <1>6, <1>8, OrderLaws
<1> QED
  BY <1>6, <1>12, <1>13

(* The costs of all kinds of devices.                                      *)
LEMMA CostsOrder == ASSUME Advertised PROVE CostOrders
<1> DEFINE Xs == {g[1] : g \in Grid}
<1>1. SUFFICES ASSUME JustMade
               PROVE  CASE order.kind \in BatteryLike \cup Discrete ->
                             \A x, y \in Xs :
                               Leq(Cost(adv.cost, <<x, One>>), Cost(adv.cost, <<y, Zero>>))
                                 <=> NoWorse(order, x, y)
                        [] order.kind = "pv" /\ order.via = "api" ->
                             \A s, t \in Grid :
                               /\ Leq(t[1], s[1]) /\ Leq(Size(s[2]), Size(t[2]))
                               /\ s[1] # t[1] \/ Size(s[2]) # Size(t[2])
                               => Less(Cost(adv.cost, s), Cost(adv.cost, t))
                        [] OTHER -> TRUE
  BY DEF CostOrders
<1>2. /\ order \in Orders /\ ~Illegal(order) /\ adv.cost = CostFunction(order)
  BY <1>1 DEF Advertised, JustMade
<1>3. Xs \subseteq Number /\ Grid \subseteq Plane
  BY GridAssumption DEF Plane
<1>4. CASE order.kind \in BatteryLike \cup Discrete
  <2>1. PICK a \in Number, b \in Number :
          /\ Leading(order) = a /\ CostFunction(order) = Normalized(a, b)
          /\ \A x \in Number : Curve(order, x) = Plus(Times(a, Squared(x)), Times(b, x))
    <3>1. CASE order.kind \in BatteryLike
      <4>1. order.coeffP \in Number /\ order.coeffPsquared \in Number
        BY <1>2, <3>1, ParametersAreNumbers
      <4>2. CostFunction(order) = Normalized(order.coeffPsquared, order.coeffP)
        BY <3>1 DEF CostFunction, BatteryLike, Uncontrollable, Discrete
      <4> QED
        BY <3>1, <4>1, <4>2 DEF Leading, Curve
    <3>2. CASE order.kind \in Discrete
      <4>1. order.alpha \in Number /\ order.beta \in Number
        BY <1>2, <3>2, ParametersAreNumbers
      <4>2. CostFunction(order) = Normalized(order.alpha, order.beta)
            /\ order.kind \notin BatteryLike
        BY <3>2 DEF CostFunction, BatteryLike, Uncontrollable, Discrete
      <4> QED
        BY <4>1, <4>2 DEF Leading, Curve
    <3> QED
      BY <1>4, <3>1, <3>2
  <2>2. ASSUME NEW x \in Xs, NEW y \in Xs
        PROVE  Leq(Cost(adv.cost, <<x, One>>), Cost(adv.cost, <<y, Zero>>))
                 <=> NoWorse(order, x, y)
    <3>1. x \in Number /\ y \in Number
      BY <1>3
    <3>2. CASE Tiny(a)
      BY <1>2, <2>1, <3>1, <3>2, TinyCost DEF NoWorse
    <3>3. CASE ~Tiny(a)
      BY <1>2, <2>1, <3>1, <3>3, NormalizedOrders DEF NoWorse
    <3> QED
      BY <3>2, <3>3
  <2> QED
    BY <1>4, <2>1, <2>2 DEF BatteryLike, Discrete
<1>5. CASE order.kind = "pv" /\ order.via = "api"
  <2>1. order.a \in Number /\ order.b \in Number
    BY <1>2, <1>5, ParametersAreNumbers
  <2>2. Positive(order.a) /\ Positive(order.b)
    BY <1>2, <1>5 DEF Illegal
  <2>3. adv.cost = Quadratic(Zero, Negated(order.a), order.b)
    BY <1>2, <1>5 DEF CostFunction, BatteryLike, Uncontrollable, Discrete
  <2>4. ASSUME NEW s \in Grid, NEW t \in Grid,
               Leq(t[1], s[1]), Leq(Size(s[2]), Size(t[2])),
               s[1] # t[1] \/ Size(s[2]) # Size(t[2])
        PROVE  Less(Cost(adv.cost, s), Cost(adv.cost, t))
    BY <1>3, <2>1, <2>2, <2>3, <2>4, PVCostOrders
  <2> QED
    BY <1>5, <2>4 DEF BatteryLike, Discrete
<1> QED
  BY <1>1, <1>4, <1>5

(* The advertised cost orders the setpoints as the curve does if alpha is  *)
(* above 1e-6, the other way round if it is below -1e-6, and not at all in *)
(* between (the normalization by 2 alpha of _BatteryAdvertisement and of   *)
(* the discrete devices, for coefficients of any size); a plant of the C   *)
(* interface prefers to produce more active and less reactive power, for   *)
(* any a_pv and b_pv that makePVAdvertisement lets through.                *)
THEOREM CostOrdersCorrect == DevicesSpec => []CostOrders
<1>1. Advertised => CostOrders
  BY CostsOrder
<1> QED
  BY <1>1, AdvertisedInvariant, PTL

------------------------------------------------------------------------------
(* Beliefs.                                                                *)

\* The belief of a plant.
LEMMA PVBeliefHolds ==
  ASSUME NEW o \in Orders, o.kind = "pv", PlantSound(o), NEW sp \in Plane,
         NEW r \in Responses(o, sp)
  PROVE  Member(Belief(o, sp), r)
<1> DEFINE s == Slope(o)
           x == sp[1]
           q == sp[2]
           fall == Minus(x, o.Pdelta)
           p2 == Greatest(Zero, fall)
           w(p) == IF Leq(Size(q), Times(p, s)) THEN Size(q) ELSE Times(p, s)
           q2 == Times(Sgn(q), w(p2))
<1>1. /\ s \in Number /\ Leq(Zero, s) /\ x \in Number /\ q \in Number /\ Zero \in Number
      /\ o.Pdelta \in Number /\ Size(q) \in Number /\ Sgn(q) \in Number
      /\ Times(Sgn(q), q) = Size(q) /\ Times(Sgn(q), Size(q)) = q
  BY SlopeType, ParametersAreNumbers, OneAndZero, SgnCases DEF Plane
<1>2. fall \in Number /\ p2 \in Number
  BY <1>1, NumbersClosed DEF Greatest
<1>3. Belief(o, sp) = Rectangle(sp, <<p2, q2>>)
  BY <1>1 DEF Belief, PVBelief, Minus, Least, BatteryLike, Uncontrollable, Discrete
<1>4. PICK p \in {z \in {g[1] : g \in Grid} : Between(Zero, z, x) /\ Leq(fall, z)} :
        r = <<p, IF Leq(Size(q), Times(p, s)) THEN q ELSE Times(Sgn(q), Times(p, s))>>
  BY DEF Responses, BatteryLike, Uncontrollable, Discrete
<1>5. /\ p \in Number /\ Leq(Zero, p) /\ Leq(p, x) /\ Leq(fall, p)
      /\ r = <<p, Times(Sgn(q), w(p))>>
  BY <1>1, <1>4, GridAssumption DEF Between
<1>6. Leq(p2, p)
  BY <1>5 DEF Greatest
<1>7. Times(p, s) \in Number /\ Times(p2, s) \in Number /\ Leq(Times(p2, s), Times(p, s))
  <2>1. Leq(Times(s, p2), Times(s, p))
    BY <1>1, <1>2, <1>5, <1>6, PositiveLaws DEF Zero
  <2> QED
    BY <2>1, <1>1, <1>2, <1>5, NumbersClosed, TimesLaws
<1>8. w(p) \in Number /\ w(p2) \in Number /\ Leq(w(p2), w(p)) /\ Leq(w(p), Size(q))
  <2>1. Leq(Size(q), Times(p2, s)) => Leq(Size(q), Times(p, s))
    BY <1>1, <1>7, OrderLaws
  <2>2. ~Leq(Size(q), Times(p, s)) => Leq(Times(p, s), Size(q))
    BY <1>1, <1>7, OrderLaws
  <2>3. ~Leq(Size(q), Times(p2, s)) => Leq(Times(p2, s), Size(q))
    BY <1>1, <1>7, OrderLaws
  <2>4. Leq(Size(q), Size(q))
    BY <1>1, OrderLaws
  <2> QED
    BY <2>1, <2>2, <2>3, <2>4, <1>1, <1>7
<1> HIDE DEF w, s, fall
<1>9. Leq(Least(x, p2), p) /\ Leq(p, Greatest(x, p2))
  BY <1>1, <1>2, <1>5, <1>6, Within
<1>10. Leq(Least(q, q2), Times(Sgn(q), w(p))) /\ Leq(Times(Sgn(q), w(p)), Greatest(q, q2))
  BY <1>1, <1>8, FallsBetween
<1>11. InPart(Belief(o, sp), r)
  BY <1>3, <1>5, <1>9, <1>10, InRectangle
<1> QED
  BY <1>3, <1>11 DEF Member, Rectangle

(* A plant that is believed to produce p may produce p.                    *)
LEMMA PVBeliefMeant ==
  ASSUME NEW o \in Orders, o.kind = "pv", Leq(Zero, o.Pdelta),
         NEW sp \in Plane, Leq(Zero, sp[1]),
         NEW r \in Grid, Member(Belief(o, sp), r)
  PROVE  \E x \in Responses(o, sp) : x[1] = r[1]
<1> DEFINE x == sp[1]
           fall == Minus(x, o.Pdelta)
           p2 == Greatest(Zero, fall)
<1>1. x \in Number /\ o.Pdelta \in Number /\ Zero \in Number /\ r[1] \in Number
  BY ParametersAreNumbers, OneAndZero, GridAssumption DEF Plane
<1>2. fall \in Number /\ p2 \in Number
  BY <1>1, NumbersClosed DEF Greatest
<1>3. PICK q2 : Belief(o, sp) = Rectangle(sp, <<p2, q2>>)
  BY DEF Belief, PVBelief, Minus, BatteryLike, Uncontrollable, Discrete
<1>4. Leq(fall, x)
  <2>1. Leq(fall, x) <=> Leq(x, Plus(x, o.Pdelta))
    BY <1>1, ChangeSides
  <2>2. Leq(Plus(Zero, x), Plus(o.Pdelta, x))
    BY <1>1, OrderLaws
  <2> QED
    BY <2>1, <2>2, <1>1, WithZero, PlusLaws
<1>5. Leq(p2, x)
  BY <1>4 DEF Greatest
<1>6. Leq(Least(x, p2), r[1]) /\ Leq(r[1], Greatest(x, p2))
  <2>1. InPart(Belief(o, sp), r)
    BY <1>3 DEF Member, Rectangle
  <2> QED
    BY <2>1, <1>3, InRectangle
<1>7. Leq(p2, r[1]) /\ Leq(r[1], x)
  BY <1>1, <1>2, <1>5, <1>6, Within
<1>8. Leq(Zero, p2) /\ Leq(fall, p2)
  BY <1>1, <1>2, OrderLaws DEF Greatest
<1>9. Leq(Zero, r[1]) /\ Leq(fall, r[1])
  BY <1>1, <1>2, <1>7, <1>8, OrderLaws
<1>10. r[1] \in {z \in {g[1] : g \in Grid} : Between(Zero, z, x) /\ Leq(fall, z)}
  BY <1>7, <1>9 DEF Between
<1> DEFINE answer == <<r[1], IF Leq(Size(sp[2]), Times(r[1], Slope(o))) THEN sp[2]
                             ELSE Times(Sgn(sp[2]), Times(r[1], Slope(o)))>>
<1>11. answer \in Responses(o, sp)
  BY <1>10 DEF Responses, BatteryLike, Uncontrollable, Discrete
<1> QED
  BY <1>11

\* Both bounds of a drift.
LEMMA DriftBounds ==
  ASSUME NEW x \in Number, NEW down \in Number, NEW up \in Number, NEW z \in Number
  PROVE  /\ Minus(x, down) \in Number /\ Plus(x, up) \in Number
         /\ Leq(Negated(down), Minus(z, x)) <=> Leq(Minus(x, down), z)
         /\ Leq(Minus(z, x), up) <=> Leq(z, Plus(x, up))
         /\ Leq(Negated(down), up) => Leq(Minus(x, down), Plus(x, up))
<1>1. Minus(x, down) \in Number /\ Plus(x, up) \in Number /\ Negated(down) \in Number
  BY NumbersClosed
<1>2. Plus(Negated(down), x) = Minus(x, down) /\ Plus(up, x) = Plus(x, up)
  BY <1>1, PlusLaws DEF Minus
<1>3. Leq(Negated(down), Minus(z, x)) <=> Leq(Plus(Negated(down), x), z)
  BY <1>1, ChangeSides
<1>4. Leq(Minus(z, x), up) <=> Leq(z, Plus(up, x))
  BY ChangeSides
<1>5. Leq(Negated(down), up) <=> Leq(Plus(Negated(down), x), Plus(up, x))
  BY <1>1, OrderLaws
<1> QED
  BY <1>1, <1>2, <1>3, <1>4, <1>5

\* Within the bounds, the rating and the half-plane.
Drifts(o, sp, r) ==
  /\ Between(Negated(o.dPdown), Minus(r[1], sp[1]), o.dPup)
  /\ Between(Negated(o.dQdown), Minus(r[2], sp[2]), o.dQup)
  /\ InRating(o, r)
  /\ IF o.kind = "uncontrollableLoad" THEN Leq(r[1], Zero)
     ELSE Leq(Negated(o.PmaxAbsorb), r[1])

(* The belief of a device that drifts is where it may drift to, provided   *)
(* that the bounds of a drift are in order.                                *)
LEMMA DriftBelieved ==
  ASSUME NEW o \in Orders, o.kind \in Uncontrollable, NEW sp \in Plane, NEW r \in Plane
  PROVE  /\ Drifts(o, sp, r) => Member(Belief(o, sp), r)
         /\ DriftSound(o) /\ Member(Belief(o, sp), r) => Drifts(o, sp, r)
<1> DEFINE lo == <<Minus(sp[1], o.dPdown), Minus(sp[2], o.dQdown)>>
           hi == <<Plus(sp[1], o.dPup), Plus(sp[2], o.dQup)>>
           rows == <<HalfPlane(o)>>
           inside == \A i \in {1, 2} : Leq(Least(lo[i], hi[i]), r[i]) /\ Leq(r[i], Greatest(lo[i], hi[i]))
           drifts == Leq(lo[1], r[1]) /\ Leq(r[1], hi[1]) /\ Leq(lo[2], r[2]) /\ Leq(r[2], hi[2])
<1>1. /\ sp[1] \in Number /\ sp[2] \in Number /\ r[1] \in Number /\ r[2] \in Number
      /\ o.dPup \in Number /\ o.dPdown \in Number /\ o.dQup \in Number /\ o.dQdown \in Number
      /\ Zero \in Number
  BY ParametersAreNumbers, OneAndZero DEF Plane
<1>2. Belief(o, sp) = Intersection(<<Rectangle(lo, hi), Disk(o.Srated), Polytope(rows)>>)
  BY DEF Belief, UncontrollableBelief, BatteryLike, Uncontrollable, Discrete
<1>3. InPart(Polytope(rows), r) <=>
        IF o.kind = "uncontrollableLoad" THEN Leq(r[1], Zero)
        ELSE Leq(Negated(o.PmaxAbsorb), r[1])
  <2>1. InPart(Polytope(rows), r) <=> Below(HalfPlane(o), r)
    BY InPolytope
  <2>2. CASE o.kind = "uncontrollableLoad"
    <3>1. HalfPlane(o) = <<One, Zero, Zero>>
      BY <2>2 DEF HalfPlane
    <3> QED
      BY <2>1, <2>2, <3>1, <1>1, UprightRows
  <2>3. CASE o.kind = "uncontrollableGenerator"
    <3>1. HalfPlane(o) = <<Negated(One), Zero, o.PmaxAbsorb>> /\ o.PmaxAbsorb \in Number
      BY <2>3, ParametersAreNumbers DEF HalfPlane
    <3>2. Below(HalfPlane(o), r) <=> Leq(Negated(r[1]), o.PmaxAbsorb)
      BY <3>1, UprightRows
    <3>3. Negated(r[1]) \in Number /\ Negated(o.PmaxAbsorb) \in Number
          /\ Negated(Negated(r[1])) = r[1]
      BY <1>1, <3>1, NegatedNegated
    <3>4. Leq(Negated(r[1]), o.PmaxAbsorb) <=> Leq(Negated(o.PmaxAbsorb), Negated(Negated(r[1])))
      BY <3>1, <3>3, OrderLaws
    <3> QED
      BY <2>1, <2>3, <3>2, <3>3, <3>4
  <2> QED
    BY <2>2, <2>3 DEF Uncontrollable
<1>4. Member(Belief(o, sp), r) <=>
        InPart(Rectangle(lo, hi), r) /\ InPart(Disk(o.Srated), r) /\ InPart(Polytope(rows), r)
  BY <1>2, MemberOfThree
<1>5. InPart(Disk(o.Srated), r) <=> InRating(o, r)
  BY InDisk DEF InRating
<1>6. InPart(Rectangle(lo, hi), r) <=> inside
  BY InRectangle
<1>7. lo[1] \in Number /\ lo[2] \in Number /\ hi[1] \in Number /\ hi[2] \in Number
  BY <1>1, DriftBounds
<1>8. /\ Between(Negated(o.dPdown), Minus(r[1], sp[1]), o.dPup) <=> Leq(lo[1], r[1]) /\ Leq(r[1], hi[1])
      /\ Between(Negated(o.dQdown), Minus(r[2], sp[2]), o.dQup) <=> Leq(lo[2], r[2]) /\ Leq(r[2], hi[2])
  BY <1>1, DriftBounds DEF Between
<1>9. DriftSound(o) => Leq(lo[1], hi[1]) /\ Leq(lo[2], hi[2])
  BY <1>1, DriftBounds DEF DriftSound
<1>10. Drifts(o, sp, r) <=> drifts /\ InRating(o, r) /\ InPart(Polytope(rows), r)
  BY <1>3, <1>8 DEF Drifts
<1> HIDE DEF lo, hi, rows
<1>11. drifts => inside
  BY <1>1, <1>7, Within
<1>12. Leq(lo[1], hi[1]) /\ Leq(lo[2], hi[2]) /\ inside => drifts
  BY <1>1, <1>7, Within
<1> QED
  BY <1>4, <1>5, <1>6, <1>9, <1>10, <1>11, <1>12

(* The beliefs of all kinds of devices.                                    *)
LEMMA BeliefsHold ==
  ASSUME \A o \in Orders : PlantSound(o) /\ DriftSound(o), Advertised
  PROVE  ResponsesBelieved
<1> SUFFICES ASSUME JustMade, order.kind \notin Discrete,
                    NEW sp \in Grid, Able(order, sp)
             PROVE  /\ \A r \in Responses(order, sp) : Member(Belief(order, sp), r)
                    /\ \A r \in Grid : Member(Belief(order, sp), r) =>
                         \E x \in Responses(order, sp) : x[1] = r[1]
  BY DEF ResponsesBelieved
<1>1. /\ order \in Orders /\ PlantSound(order) /\ DriftSound(order) /\ order.kind \in Kinds
      /\ sp \in Plane /\ Grid \subseteq Plane
  BY GridAssumption, OrdersAssumption DEF Advertised, Plane
<1>2. CASE order.kind \in BatteryLike
  <2>1. Belief(order, sp) = Singleton(sp) /\ Responses(order, sp) = {sp}
    BY <1>2 DEF Belief, Responses, BatteryLike, Uncontrollable, Discrete
  <2>2. \A r : Member(Singleton(sp), r) <=> r = sp
    BY DEF Member, InPart, Singleton
  <2> QED
    BY <2>1, <2>2
<1>3. CASE order.kind = "pv"
  <2>1. Leq(Zero, sp[1]) /\ Leq(Zero, order.Pdelta)
    BY <1>1, <1>3 DEF Able, Between, DriftSound, BatteryLike, Uncontrollable, Discrete
  <2> QED
    BY <2>1, <1>1, <1>3, PVBeliefHolds, PVBeliefMeant
<1>4. CASE order.kind \in Uncontrollable
  <2>1. Responses(order, sp) = {r \in Grid : Drifts(order, sp, r)}
    BY <1>4 DEF Responses, Drifts, BatteryLike, Uncontrollable, Discrete
  <2>2. \A r \in Grid : Drifts(order, sp, r) <=> Member(Belief(order, sp), r)
    BY <1>1, <1>4, DriftBelieved
  <2> QED
    BY <2>1, <2>2
<1> QED
  BY <1>1, <1>2, <1>3, <1>4 DEF Kinds

(* Whatever a device does is believed of it and it is believed of none     *)
(* that it takes a power that it cannot, for every parameter, when the     *)
(* bounds of a drift are in order and a production does not rise by        *)
(* Pdelta: the signs of the rows and the clipping of _PVAdvertisement, the *)
(* rectangle, disk and half-plane of _uncontrollableResource.              *)
THEOREM ResponsesBelievedCorrect ==
  ASSUME \A o \in Orders : PlantSound(o) /\ DriftSound(o)
  PROVE  DevicesSpec => []ResponsesBelieved
<1>1. Advertised => ResponsesBelieved
  BY BeliefsHold
<1> QED
  BY <1>1, AdvertisedInvariant, PTL

------------------------------------------------------------------------------
(* Rows and where a ray leaves them.                                       *)

Rows == Number \X Number \X Number

Dot(r, p) == Plus(Times(r[1], p[1]), Times(r[2], p[2]))

Moved(p, t, d) == <<Plus(p[1], Times(t, d[1])), Plus(p[2], Times(t, d[2]))>>

Feasible(rows, p) == \A i \in DOMAIN rows : Below(rows[i], p)

\* Whichever way one goes, a row ends it.
Bounded(rows) ==
  \A d \in Plane : d # Origin => \E k \in DOMAIN rows : Positive(Dot(rows[k], d))

(* What a row makes of a point that moves.                                 *)
LEMMA DotMoved ==
  ASSUME NEW r, r[1] \in Number, r[2] \in Number,
         NEW p \in Plane, NEW t \in Number, NEW d \in Plane
  PROVE  /\ Moved(p, t, d) \in Plane
         /\ Dot(r, p) \in Number /\ Dot(r, d) \in Number
         /\ Dot(r, Moved(p, t, d)) = Plus(Dot(r, p), Times(t, Dot(r, d)))
<1> DEFINE r1 == r[1]
           r2 == r[2]
<1>1. PICK x \in Number, y \in Number : p = <<x, y>>
  BY DEF Plane
<1>2. PICK u \in Number, v \in Number : d = <<u, v>>
  BY DEF Plane
<1>3. r1 \in Number /\ r2 \in Number
  OBVIOUS
<1> HIDE DEF r1, r2
<1>4. /\ Times(t, u) \in Number /\ Times(t, v) \in Number
      /\ Times(r1, x) \in Number /\ Times(r2, y) \in Number
      /\ Times(r1, u) \in Number /\ Times(r2, v) \in Number
  BY <1>3, NumbersClosed
<1>5. /\ Plus(x, Times(t, u)) \in Number /\ Plus(y, Times(t, v)) \in Number
      /\ Plus(Times(r1, x), Times(r2, y)) \in Number /\ Plus(Times(r1, u), Times(r2, v)) \in Number
      /\ Times(r1, Times(t, u)) \in Number /\ Times(r2, Times(t, v)) \in Number
  BY <1>3, <1>4, NumbersClosed
<1>6. /\ Times(r1, Plus(x, Times(t, u))) = Plus(Times(r1, x), Times(r1, Times(t, u)))
      /\ Times(r2, Plus(y, Times(t, v))) = Plus(Times(r2, y), Times(r2, Times(t, v)))
  BY <1>3, <1>4, TimesLaws
<1>7. /\ Times(r1, Times(t, u)) = Times(t, Times(r1, u))
      /\ Times(r2, Times(t, v)) = Times(t, Times(r2, v))
  BY <1>3, SwapFactors
<1>8. Plus(Plus(Times(r1, x), Times(r1, Times(t, u))), Plus(Times(r2, y), Times(r2, Times(t, v))))
        = Plus(Plus(Times(r1, x), Times(r2, y)), Plus(Times(r1, Times(t, u)), Times(r2, Times(t, v))))
  BY <1>4, <1>5, FourSum
<1>9. Plus(Times(t, Times(r1, u)), Times(t, Times(r2, v))) =
        Times(t, Plus(Times(r1, u), Times(r2, v)))
  BY <1>4, TimesLaws
<1>10. Moved(p, t, d) = <<Plus(x, Times(t, u)), Plus(y, Times(t, v))>>
  BY <1>1, <1>2 DEF Moved
<1>11. /\ Dot(r, p) = Plus(Times(r1, x), Times(r2, y))
       /\ Dot(r, d) = Plus(Times(r1, u), Times(r2, v))
       /\ Dot(r, Moved(p, t, d)) =
            Plus(Times(r1, Plus(x, Times(t, u))), Times(r2, Plus(y, Times(t, v))))
  BY <1>1, <1>2, <1>10 DEF Dot, r1, r2
<1>12. Moved(p, t, d) \in Plane
  BY <1>5, <1>10 DEF Plane
<1> QED
  BY <1>5, <1>6, <1>7, <1>8, <1>9, <1>11, <1>12

(* A ray from a point that satisfies the rows stays within them up to a    *)
(* point on one of those that end it.                                      *)
LEMMA RayEnds ==
  ASSUME NEW rows \in Seq(Rows), NEW p \in Plane, Feasible(rows, p), NEW d \in Plane,
         \E k \in DOMAIN rows : Positive(Dot(rows[k], d))
  PROVE  \E t \in Number : \E k \in DOMAIN rows :
           /\ Leq(Zero, t) /\ Feasible(rows, Moved(p, t, d))
           /\ Positive(Dot(rows[k], d)) /\ Dot(rows[k], Moved(p, t, d)) = rows[k][3]
<1> DEFINE K == {k \in DOMAIN rows : Positive(Dot(rows[k], d))}
           gap(k) == Minus(rows[k][3], Dot(rows[k], p))
           f == [k \in K |-> Times(gap(k), Reciprocal(Dot(rows[k], d)))]
           T == {f[k] : k \in K}
           t == LeastOf(T)
<1>1. ASSUME NEW k \in DOMAIN rows
      PROVE  /\ rows[k][1] \in Number /\ rows[k][2] \in Number /\ rows[k][3] \in Number
             /\ Dot(rows[k], p) \in Number /\ Dot(rows[k], d) \in Number /\ gap(k) \in Number
             /\ Leq(Dot(rows[k], p), rows[k][3]) /\ Leq(Zero, gap(k))
             /\ Plus(Dot(rows[k], p), gap(k)) = rows[k][3]
  <2>1. rows[k] \in Rows
    OBVIOUS
  <2>2. /\ rows[k][1] \in Number /\ rows[k][2] \in Number /\ rows[k][3] \in Number
        /\ Zero \in Number
    BY <2>1, OneAndZero DEF Rows
  <2>3. Dot(rows[k], p) \in Number /\ Dot(rows[k], d) \in Number
    BY <2>2, DotMoved
  <2>4. gap(k) \in Number
    BY <2>2, <2>3, NumbersClosed
  <2>5. Leq(Dot(rows[k], p), rows[k][3])
    BY DEF Feasible, Below, Dot
  <2>6. Leq(Plus(Zero, Dot(rows[k], p)), rows[k][3]) /\ Leq(Zero, gap(k))
    <3>1. Plus(Zero, Dot(rows[k], p)) = Dot(rows[k], p)
      BY <2>3, WithZero
    <3>2. Leq(Zero, gap(k)) <=> Leq(Plus(Zero, Dot(rows[k], p)), rows[k][3])
      BY <2>2, <2>3, ChangeSides
    <3> QED
      BY <3>1, <3>2, <2>5
  <2>7. Plus(Dot(rows[k], p), gap(k)) = rows[k][3]
    <3> DEFINE u == Dot(rows[k], p)
               b == rows[k][3]
    <3>1. u \in Number /\ b \in Number /\ Negated(u) \in Number
      BY <2>2, <2>3, NumbersClosed
    <3> HIDE DEF u, b
    <3>2. Plus(u, Plus(b, Negated(u))) = Plus(Plus(b, Negated(u)), u)
      <4>1. Plus(b, Negated(u)) \in Number
        BY <3>1, NumbersClosed
      <4> QED
        BY <3>1, <4>1, PlusLaws
    <3>3. Plus(Plus(b, Negated(u)), u) = Plus(b, Plus(Negated(u), u))
      BY <3>1, PlusLaws
    <3>4. Plus(Negated(u), u) = Plus(u, Negated(u)) /\ Plus(u, Negated(u)) = Zero
      BY <3>1, PlusLaws DEF Zero
    <3>5. Plus(b, Zero) = b
      BY <3>1, WithZero
    <3> QED
      BY <3>2, <3>3, <3>4, <3>5 DEF Minus, u, b
  <2> QED
    BY <2>2, <2>3, <2>4, <2>5, <2>6, <2>7
<1> HIDE DEF gap
<1>2. ASSUME NEW k \in K
      PROVE  f[k] \in Number /\ Leq(Zero, f[k]) /\ Times(f[k], Dot(rows[k], d)) = gap(k)
  <2> DEFINE g == Dot(rows[k], d)
             r == Reciprocal(g)
  <2>1. g \in Number /\ Positive(g) /\ gap(k) \in Number /\ Leq(Zero, gap(k)) /\ Zero \in Number
    BY <1>1, OneAndZero
  <2>2. g # Num(0)
    BY <2>1, SignLaws DEF Zero
  <2>3. r \in Number /\ Times(g, r) = One /\ Positive(r)
    BY <2>1, <2>2, ReciprocalLaw DEF One
  <2>4. f[k] = Times(gap(k), r)
    OBVIOUS
  <2> HIDE DEF g, r
  <2>5. Times(gap(k), r) \in Number
    BY <2>1, <2>3, NumbersClosed
  <2>6. Leq(Zero, Times(gap(k), r))
    <3>1. Leq(Times(r, Zero), Times(r, gap(k)))
      BY <2>1, <2>3, PositiveLaws
    <3>2. Times(r, Zero) = Zero /\ Times(r, gap(k)) = Times(gap(k), r)
      BY <2>1, <2>3, WithZero, TimesLaws
    <3> QED
      BY <3>1, <3>2
  <2>7. Times(Times(gap(k), r), g) = gap(k)
    <3>1. Times(Times(gap(k), r), g) = Times(gap(k), Times(r, g))
      BY <2>1, <2>3, TimesLaws
    <3>2. Times(r, g) = One
      BY <2>1, <2>3, TimesLaws
    <3>3. Times(gap(k), One) = gap(k)
      BY <2>1, WithZero
    <3> QED
      BY <3>1, <3>2, <3>3
  <2> QED
    BY <2>4, <2>5, <2>6, <2>7 DEF g
<1>3. IsFiniteSet(K)
  <2>1. IsFiniteSet(1 .. Len(rows))
    BY FS_Interval
  <2>2. K \in SUBSET (1 .. Len(rows))
    OBVIOUS
  <2> QED
    BY ONLY <2>1, <2>2, FS_Subset
<1>4. IsFiniteSet(T)
  BY <1>3, FiniteImage
<1>5. T # {} /\ T \subseteq Number
  BY <1>2
<1>6. t \in T /\ \A y \in T : Leq(t, y)
  BY <1>4, <1>5, Extremes
<1>7. PICK k \in K : t = f[k]
  BY <1>6
<1>8. t \in Number /\ Leq(Zero, t) /\ \A j \in K : Leq(t, f[j])
  BY <1>2, <1>6, <1>7
<1>9. \A j \in DOMAIN rows :
        Dot(rows[j], Moved(p, t, d)) = Plus(Dot(rows[j], p), Times(t, Dot(rows[j], d)))
  BY <1>1, <1>8, DotMoved
<1> HIDE DEF t
<1>10. Dot(rows[k], Moved(p, t, d)) = rows[k][3]
  BY <1>1, <1>2, <1>7, <1>9
<1>11. ASSUME NEW j \in DOMAIN rows PROVE Below(rows[j], Moved(p, t, d))
  <2> DEFINE g == Dot(rows[j], d)
             u == Dot(rows[j], p)
             b == rows[j][3]
  <2>1. g \in Number /\ u \in Number /\ b \in Number /\ Zero \in Number /\ gap(j) \in Number
        /\ Plus(u, gap(j)) = b /\ Leq(Zero, gap(j))
    BY <1>1, OneAndZero
  <2>2. Times(t, g) \in Number
    BY <1>8, <2>1, NumbersClosed
  <2>3. Leq(Times(t, g), gap(j))
    <3>1. CASE Positive(g)
      <4>1. j \in K
        BY <3>1
      <4>2. f[j] \in Number /\ Leq(t, f[j]) /\ Times(f[j], g) = gap(j)
        BY <4>1, <1>2, <1>8
      <4>3. Leq(Zero, g)
        BY <3>1, <2>1, SignLaws, OrderLaws
      <4> HIDE DEF g, f
      <4>4. Leq(Times(g, t), Times(g, f[j]))
        BY <4>2, <4>3, <2>1, <1>8, PositiveLaws DEF Zero
      <4>5. Times(g, t) = Times(t, g) /\ Times(g, f[j]) = Times(f[j], g)
        BY <4>2, <2>1, <1>8, TimesLaws
      <4> QED
        BY <4>2, <4>4, <4>5
    <3>2. CASE ~Positive(g)
      <4>1. Leq(g, Zero)
        BY <3>2, <2>1, SignLaws
      <4>2. Leq(Times(t, g), Times(t, Zero)) /\ Times(t, Zero) = Zero
        BY <4>1, <2>1, <1>8, PositiveLaws, WithZero DEF Zero
      <4> QED
        BY <4>2, <2>1, <2>2, OrderLaws
    <3> QED
      BY <3>1, <3>2
  <2>4. Leq(Plus(u, Times(t, g)), b)
    <3>1. Leq(Plus(Times(t, g), u), Plus(gap(j), u))
      BY <2>1, <2>2, <2>3, OrderLaws
    <3>2. Plus(Times(t, g), u) = Plus(u, Times(t, g)) /\ Plus(gap(j), u) = Plus(u, gap(j))
      BY <2>1, <2>2, PlusLaws
    <3> QED
      BY <3>1, <3>2, <2>1
  <2> QED
    BY <2>4, <1>9 DEF Below, Dot
<1>12. k \in DOMAIN rows /\ Positive(Dot(rows[k], d))
  OBVIOUS
<1> QED
  BY <1>8, <1>10, <1>11, <1>12 DEF Feasible

------------------------------------------------------------------------------
(* Corners.                                                                *)

\* Of two rows.
Det(r, s) == Minus(Times(r[1], s[2]), Times(r[2], s[1]))

(* A point on both of two lines is where they meet.                        *)
LEMMA MeetsThere ==
  ASSUME NEW r \in Rows, NEW s \in Rows, NEW v \in Plane,
         Dot(r, v) = r[3], Dot(s, v) = s[3], Det(r, s) # Zero
  PROVE  Meet(r, s) = v
<1>1. PICK x \in Number, y \in Number : v = <<x, y>>
  BY DEF Plane
<1>2. PICK r1 \in Number, r2 \in Number, r3 \in Number : r = <<r1, r2, r3>>
  BY DEF Rows
<1>3. PICK s1 \in Number, s2 \in Number, s3 \in Number : s = <<s1, s2, s3>>
  BY DEF Rows
<1> DEFINE D == Minus(Times(r1, s2), Times(r2, s1))
           d == Reciprocal(D)
<1>4. r3 = Plus(Times(r1, x), Times(r2, y)) /\ s3 = Plus(Times(s1, x), Times(s2, y)) /\ D # Zero
  BY <1>1, <1>2, <1>3 DEF Dot, Det
<1>5. Meet(r, s) = <<Times(Minus(Times(r3, s2), Times(r2, s3)), d),
                     Times(Minus(Times(r1, s3), Times(r3, s1)), d)>>
  BY <1>2, <1>3 DEF Meet
<1>6. /\ Times(r1, s2) \in Number /\ Times(r2, s1) \in Number
      /\ Times(r1, x) \in Number /\ Times(r2, y) \in Number
      /\ Times(s1, x) \in Number /\ Times(s2, y) \in Number
      /\ D \in Number
  BY NumbersClosed
<1>7. d \in Number /\ Times(D, d) = One
  BY <1>4, <1>6, ReciprocalLaw DEF Zero, One
<1>8. /\ Times(x, Times(r1, s2)) \in Number /\ Times(x, Times(r2, s1)) \in Number
      /\ Times(y, Times(r1, s2)) \in Number /\ Times(y, Times(r2, s1)) \in Number
      /\ Times(s2, Times(r2, y)) \in Number /\ Times(r1, Times(s1, x)) \in Number
  BY <1>6, NumbersClosed
<1> HIDE DEF d
<1>9. Minus(Times(r3, s2), Times(r2, s3)) = Times(x, D)
  <2>1. Times(r3, s2) = Plus(Times(x, Times(r1, s2)), Times(s2, Times(r2, y)))
    <3>1. Times(r3, s2) = Times(s2, r3)
      BY TimesLaws
    <3>2. Times(s2, Plus(Times(r1, x), Times(r2, y))) =
            Plus(Times(s2, Times(r1, x)), Times(s2, Times(r2, y)))
      BY <1>6, TimesLaws
    <3>3. Times(s2, Times(r1, x)) = Times(x, Times(s2, r1)) /\ Times(s2, r1) = Times(r1, s2)
      BY Rotated, TimesLaws
    <3> QED
      BY <3>1, <3>2, <3>3, <1>4
  <2>2. Times(r2, s3) = Plus(Times(x, Times(r2, s1)), Times(s2, Times(r2, y)))
    <3>1. Times(r2, Plus(Times(s1, x), Times(s2, y))) =
            Plus(Times(r2, Times(s1, x)), Times(r2, Times(s2, y)))
      BY <1>6, TimesLaws
    <3>2. Times(r2, Times(s1, x)) = Times(x, Times(r2, s1))
      BY Rotated
    <3>3. Times(r2, Times(s2, y)) = Times(s2, Times(r2, y))
      BY SwapFactors
    <3> QED
      BY <3>1, <3>2, <3>3, <1>4
  <2>3. Minus(Plus(Times(x, Times(r1, s2)), Times(s2, Times(r2, y))),
              Plus(Times(x, Times(r2, s1)), Times(s2, Times(r2, y))))
          = Minus(Times(x, Times(r1, s2)), Times(x, Times(r2, s1)))
    BY <1>8, MinusLaws
  <2>4. Times(x, D) = Minus(Times(x, Times(r1, s2)), Times(x, Times(r2, s1)))
    BY <1>6, MinusLaws
  <2> QED
    BY <2>1, <2>2, <2>3, <2>4
<1>10. Minus(Times(r1, s3), Times(r3, s1)) = Times(y, D)
  <2>1. Times(r1, s3) = Plus(Times(r1, Times(s1, x)), Times(y, Times(r1, s2)))
    <3>1. Times(r1, Plus(Times(s1, x), Times(s2, y))) =
            Plus(Times(r1, Times(s1, x)), Times(r1, Times(s2, y)))
      BY <1>6, TimesLaws
    <3>2. Times(r1, Times(s2, y)) = Times(y, Times(r1, s2))
      BY Rotated
    <3> QED
      BY <3>1, <3>2, <1>4
  <2>2. Times(r3, s1) = Plus(Times(r1, Times(s1, x)), Times(y, Times(r2, s1)))
    <3>1. Times(r3, s1) = Times(s1, r3)
      BY TimesLaws
    <3>2. Times(s1, Plus(Times(r1, x), Times(r2, y))) =
            Plus(Times(s1, Times(r1, x)), Times(s1, Times(r2, y)))
      BY <1>6, TimesLaws
    <3>3. Times(s1, Times(r2, y)) = Times(y, Times(s1, r2)) /\ Times(s1, r2) = Times(r2, s1)
      BY Rotated, TimesLaws
    <3>4. Times(s1, Times(r1, x)) = Times(r1, Times(s1, x))
      BY SwapFactors
    <3> QED
      BY <3>1, <3>2, <3>3, <3>4, <1>4
  <2>3. Minus(Plus(Times(r1, Times(s1, x)), Times(y, Times(r1, s2))),
              Plus(Times(r1, Times(s1, x)), Times(y, Times(r2, s1))))
          = Minus(Times(y, Times(r1, s2)), Times(y, Times(r2, s1)))
    BY <1>8, MinusLaws
  <2>4. Times(y, D) = Minus(Times(y, Times(r1, s2)), Times(y, Times(r2, s1)))
    BY <1>6, MinusLaws
  <2> QED
    BY <2>1, <2>2, <2>3, <2>4
<1> HIDE DEF D
<1>11. ASSUME NEW z \in Number PROVE Times(Times(z, D), d) = z
  <2>1. Times(Times(z, D), d) = Times(z, Times(D, d)) /\ Times(z, One) = z
    BY <1>6, <1>7, TimesLaws, WithZero
  <2> QED
    BY <2>1, <1>7
<1> QED
  BY <1>1, <1>5, <1>9, <1>10, <1>11

\* Along a line one may go either way.
LEMMA AlongLine ==
  ASSUME NEW r \in Rows, NEW e \in Plane, Positive(Dot(r, e))
  PROVE  \E d \in Plane :
           /\ d # Origin /\ Dot(r, d) = Zero /\ Leq(Zero, Dot(e, d))
           /\ \A s \in Rows : Det(r, s) = Zero => Dot(s, d) = Zero
<1>1. PICK r1 \in Number, r2 \in Number, r3 \in Number : r = <<r1, r2, r3>>
  BY DEF Rows
<1>2. PICK e1 \in Number, e2 \in Number : e = <<e1, e2>>
  BY DEF Plane
<1>3. /\ Negated(r1) \in Number /\ Negated(r2) \in Number /\ Zero \in Number
      /\ Negated(Zero) = Zero
  BY NumbersClosed, OneAndZero
<1> DEFINE back == <<r2, Negated(r1)>>
           forth == <<Negated(r2), r1>>
<1>4. ASSUME NEW u \in Number, NEW v \in Number, NEW s, s[1] = u, s[2] = v
      PROVE  /\ Times(r1, v) \in Number /\ Times(r2, u) \in Number
             /\ Dot(s, back) = Minus(Times(r2, u), Times(r1, v))
             /\ Dot(s, forth) = Minus(Times(r1, v), Times(r2, u))
  <2>1. Times(r1, v) \in Number /\ Times(r2, u) \in Number
    BY NumbersClosed
  <2>2. Times(u, r2) = Times(r2, u) /\ Times(v, r1) = Times(r1, v)
    BY TimesLaws
  <2>3. Times(v, Negated(r1)) = Negated(Times(r1, v)) /\ Times(u, Negated(r2)) = Negated(Times(r2, u))
    <3>1. Times(v, Negated(r1)) = Times(Negated(r1), v) /\ Times(u, Negated(r2)) = Times(Negated(r2), u)
      BY <1>3, TimesLaws
    <3>2. Times(Negated(r1), v) = Negated(Times(r1, v)) /\ Times(Negated(r2), u) = Negated(Times(r2, u))
      BY TimesLaws
    <3> QED
      BY <3>1, <3>2
  <2>4. /\ Dot(s, back) = Plus(Times(u, r2), Times(v, Negated(r1)))
        /\ Dot(s, forth) = Plus(Times(u, Negated(r2)), Times(v, r1))
    BY <1>4 DEF Dot
  <2>5. Plus(Negated(Times(r2, u)), Times(r1, v)) = Plus(Times(r1, v), Negated(Times(r2, u)))
    <3>1. Negated(Times(r2, u)) \in Number
      BY <2>1, NumbersClosed
    <3> QED
      BY <3>1, <2>1, PlusLaws
  <2> QED
    BY <2>1, <2>2, <2>3, <2>4, <2>5 DEF Minus
<1>5. ASSUME NEW s \in Rows, Det(r, s) = Zero PROVE Dot(s, back) = Zero /\ Dot(s, forth) = Zero
  <2>1. PICK u \in Number, v \in Number : s[1] = u /\ s[2] = v
    BY DEF Rows
  <2>2. /\ Times(r1, v) \in Number /\ Times(r2, u) \in Number
        /\ Dot(s, back) = Minus(Times(r2, u), Times(r1, v))
        /\ Dot(s, forth) = Minus(Times(r1, v), Times(r2, u))
    BY <1>4, <2>1
  <2>3. Minus(Times(r1, v), Times(r2, u)) = Zero
    BY <1>1, <1>5, <2>1 DEF Det
  <2>4. Times(r1, v) = Times(r2, u)
    BY <2>2, <2>3, MinusLaws
  <2>5. Minus(Times(r1, v), Times(r1, v)) = Zero
    BY <2>2, WithZero
  <2> QED
    BY <2>2, <2>3, <2>4, <2>5
<1>6. Det(r, r) = Zero
  <2>1. Times(r1, r2) = Times(r2, r1) /\ Times(r1, r2) \in Number
    BY TimesLaws, NumbersClosed
  <2>2. Det(r, r) = Minus(Times(r1, r2), Times(r2, r1))
    BY <1>1 DEF Det
  <2> QED
    BY <2>1, <2>2, WithZero
<1>7. back \in Plane /\ forth \in Plane
  BY <1>3 DEF Plane
<1>8. back # Origin /\ forth # Origin
  <2> SUFFICES ASSUME back = Origin \/ forth = Origin PROVE FALSE
    OBVIOUS
  <2>1. r1 = Zero /\ r2 = Zero
    <3>1. Negated(Negated(r1)) = r1 /\ Negated(Negated(r2)) = r2
      BY NegatedNegated
    <3>2. Negated(r1) = Zero \/ r1 = Zero
      BY DEF Origin, Zero
    <3>3. Negated(r2) = Zero \/ r2 = Zero
      BY DEF Origin, Zero
    <3> QED
      BY <3>1, <3>2, <3>3, <1>3
  <2>2. Dot(r, e) = Plus(Times(Zero, e1), Times(Zero, e2))
    BY <1>1, <1>2, <2>1 DEF Dot
  <2>3. Dot(r, e) = Zero
    BY <2>2, <1>3, WithZero
  <2> QED
    BY <2>3, <1>3, SignLaws
<1>9. Leq(Zero, Dot(e, back)) \/ Leq(Zero, Dot(e, forth))
  <2>1. /\ Times(r1, e2) \in Number /\ Times(r2, e1) \in Number
        /\ Dot(e, back) = Minus(Times(r2, e1), Times(r1, e2))
        /\ Dot(e, forth) = Minus(Times(r1, e2), Times(r2, e1))
    BY <1>2, <1>4
  <2>2. Leq(Times(r1, e2), Times(r2, e1)) \/ Leq(Times(r2, e1), Times(r1, e2))
    BY <2>1, OrderLaws
  <2> QED
    BY <2>1, <2>2, MinusLaws
<1> HIDE DEF back, forth
<1> QED
  BY <1>5, <1>6, <1>7, <1>8, <1>9

(* A bounded set has a corner as far in any direction as any of its points.*)
LEMMA CornerBeyond ==
  ASSUME NEW rows \in Seq(Rows), Bounded(rows), NEW p \in Plane, Feasible(rows, p),
         NEW e \in Plane, e # Origin
  PROVE  \E v \in Corners(rows) : v \in Plane /\ Leq(Dot(e, p), Dot(e, v))
<1>1. \A k \in DOMAIN rows : rows[k] \in Rows
  OBVIOUS
<1>2. /\ e[1] \in Number /\ e[2] \in Number /\ Zero \in Number
      /\ \A q, d \in Plane : \A t \in Number :
           /\ Moved(q, t, d) \in Plane /\ Dot(e, q) \in Number /\ Dot(e, d) \in Number
           /\ Dot(e, Moved(q, t, d)) = Plus(Dot(e, q), Times(t, Dot(e, d)))
  <2>1. e[1] \in Number /\ e[2] \in Number
    BY DEF Plane
  <2> QED
    BY <2>1, DotMoved, OneAndZero
<1>3. ASSUME NEW q \in Plane, NEW t \in Number, Leq(Zero, t), NEW d \in Plane, Leq(Zero, Dot(e, d))
      PROVE  Leq(Dot(e, q), Dot(e, Moved(q, t, d)))
  <2> DEFINE u == Dot(e, q)
             g == Dot(e, d)
  <2>1. u \in Number /\ g \in Number /\ Times(t, g) \in Number
    BY <1>2, NumbersClosed
  <2>2. Dot(e, Moved(q, t, d)) = Plus(u, Times(t, g))
    BY <1>2
  <2>3. Leq(Zero, g)
    BY <1>3
  <2> HIDE DEF u, g
  <2>4. Leq(Times(t, Zero), Times(t, g)) /\ Times(t, Zero) = Zero
    BY <1>2, <1>3, <2>1, <2>3, PositiveLaws, WithZero DEF Zero
  <2>5. Leq(Plus(Zero, u), Plus(Times(t, g), u))
    BY <1>2, <2>1, <2>4, OrderLaws
  <2>6. Plus(Zero, u) = u /\ Plus(Times(t, g), u) = Plus(u, Times(t, g))
    BY <2>1, WithZero, PlusLaws
  <2>7. Leq(u, Plus(u, Times(t, g)))
    BY <2>5, <2>6
  <2> QED
    BY <2>2, <2>7 DEF u
<1>4. Leq(Zero, Dot(e, e))
  <2>1. Dot(e, e) = Plus(Squared(e[1]), Squared(e[2]))
    BY DEF Dot, Squared
  <2>2. /\ Leq(Zero, Squared(e[1])) /\ Leq(Zero, Squared(e[2]))
        /\ Squared(e[1]) \in Number /\ Squared(e[2]) \in Number
    BY <1>2, PositiveLaws, NumbersClosed DEF Zero
  <2>3. Leq(Plus(Zero, Squared(e[2])), Plus(Squared(e[1]), Squared(e[2])))
    BY <2>2, <1>2, OrderLaws
  <2>4. Plus(Zero, Squared(e[2])) = Squared(e[2]) /\ Plus(Squared(e[1]), Squared(e[2])) \in Number
    BY <2>2, WithZero, NumbersClosed
  <2> QED
    BY <2>1, <2>2, <2>3, <2>4, <1>2, OrderLaws
<1>5. PICK t \in Number, i \in DOMAIN rows :
        /\ Leq(Zero, t) /\ Feasible(rows, Moved(p, t, e))
        /\ Positive(Dot(rows[i], e)) /\ Dot(rows[i], Moved(p, t, e)) = rows[i][3]
  <2>1. \E k \in DOMAIN rows : Positive(Dot(rows[k], e))
    BY DEF Bounded
  <2> QED
    BY <2>1, RayEnds
<1> DEFINE q == Moved(p, t, e)
<1>6. q \in Plane /\ Feasible(rows, q) /\ Dot(rows[i], q) = rows[i][3] /\ Leq(Dot(e, p), Dot(e, q))
  BY <1>2, <1>3, <1>4, <1>5
<1> HIDE DEF q
<1>7. PICK d \in Plane :
        /\ d # Origin /\ Dot(rows[i], d) = Zero /\ Leq(Zero, Dot(e, d))
        /\ \A s \in Rows : Det(rows[i], s) = Zero => Dot(s, d) = Zero
  BY <1>1, <1>5, AlongLine
<1>8. PICK w \in Number, j \in DOMAIN rows :
        /\ Leq(Zero, w) /\ Feasible(rows, Moved(q, w, d))
        /\ Positive(Dot(rows[j], d)) /\ Dot(rows[j], Moved(q, w, d)) = rows[j][3]
  <2>1. \E k \in DOMAIN rows : Positive(Dot(rows[k], d))
    BY <1>7 DEF Bounded
  <2> QED
    BY <2>1, <1>6, RayEnds
<1> DEFINE v == Moved(q, w, d)
<1>9. v \in Plane /\ Leq(Dot(e, q), Dot(e, v))
  BY <1>2, <1>3, <1>6, <1>7, <1>8
<1>10. Leq(Dot(e, p), Dot(e, v))
  BY <1>2, <1>6, <1>9, OrderLaws
<1>11. Dot(rows[i], v) = rows[i][3]
  <2>1. rows[i][1] \in Number /\ rows[i][2] \in Number /\ rows[i][3] \in Number
    BY <1>1 DEF Rows
  <2>2. \A x, y \in Plane : \A t1 \in Number :
          Dot(rows[i], Moved(x, t1, y)) = Plus(Dot(rows[i], x), Times(t1, Dot(rows[i], y)))
    BY <2>1, DotMoved
  <2>4. Dot(rows[i], Moved(q, w, d)) = Plus(Dot(rows[i], q), Times(w, Dot(rows[i], d)))
    BY <2>2, <1>6
  <2>3. Times(w, Zero) = Zero /\ Plus(rows[i][3], Zero) = rows[i][3]
    BY <2>1, WithZero
  <2> QED
    BY <2>3, <2>4, <1>6, <1>7
<1>12. Det(rows[i], rows[j]) # Zero
  <2> SUFFICES ASSUME Det(rows[i], rows[j]) = Zero PROVE FALSE
    OBVIOUS
  <2>1. Dot(rows[j], d) = Zero
    BY <1>1, <1>7
  <2> QED
    BY <2>1, <1>2, <1>8, SignLaws
<1>13. Meet(rows[i], rows[j]) = v
  BY <1>1, <1>8, <1>9, <1>11, <1>12, MeetsThere
<1>14. v[1] # NotFinite /\ v[2] # NotFinite
  <2>1. v[1] \in Number /\ v[2] \in Number
    BY <1>9 DEF Plane
  <2> QED
    BY <2>1, NumberType DEF NotFinite, Positives
<1>15. v \in {Meet(rows[k], rows[l]) : k, l \in DOMAIN rows}
  BY <1>13
<1>16. \A k \in DOMAIN rows : Below(rows[k], v)
  BY <1>8 DEF Feasible
<1> HIDE DEF v
<1>17. v \in Corners(rows)
  BY <1>14, <1>15, <1>16 DEF Corners
<1> QED
  BY <1>9, <1>10, <1>17

------------------------------------------------------------------------------
(* Boxes.                                                                  *)

(* Rows have finitely many corners, all in the plane.                      *)
LEMMA CornersType ==
  ASSUME NEW rows \in Seq(Rows)
  PROVE  Corners(rows) \subseteq Plane /\ IsFiniteSet(Corners(rows))
<1> DEFINE D == DOMAIN rows
           f == [x \in D \X D |-> Meet(rows[x[1]], rows[x[2]])]
<1>1. ASSUME NEW v \in Corners(rows) PROVE v \in Plane
  <2>1. PICK i \in D, j \in D : v = Meet(rows[i], rows[j])
    BY DEF Corners
  <2>2. v[1] # NotFinite /\ v[2] # NotFinite
    BY DEF Corners
  <2>3. rows[i] \in Rows /\ rows[j] \in Rows
    OBVIOUS
  <2>4. PICK r1 \in Number, r2 \in Number, r3 \in Number : rows[i] = <<r1, r2, r3>>
    BY <2>3 DEF Rows
  <2>5. PICK s1 \in Number, s2 \in Number, s3 \in Number : rows[j] = <<s1, s2, s3>>
    BY <2>3 DEF Rows
  <2> DEFINE det == Minus(Times(r1, s2), Times(r2, s1))
             x == Minus(Times(r3, s2), Times(r2, s3))
             y == Minus(Times(r1, s3), Times(r3, s1))
             d == Reciprocal(det)
  <2>6. v = <<Times(x, d), Times(y, d)>>
    BY <2>1, <2>4, <2>5 DEF Meet
  <2>7. det \in Number /\ x \in Number /\ y \in Number
    BY NumbersClosed
  <2>8. d \in Number
    <3> SUFFICES ASSUME d \notin Number PROVE FALSE
      OBVIOUS
    <3>1. det = Num(0)
      BY <2>7, ReciprocalLaw
    <3>2. Num(0)[1] = 0 /\ Num(0)[2] = 1
      BY DEF Num
    <3>3. d = NotFinite
      BY <3>1, <3>2 DEF Reciprocal, Frac
    <3> HIDE DEF d, x
    <3>4. x[1] \in Int /\ x[2] \in Int /\ d[1] = 0 /\ d[2] = 0
      BY <3>3, <2>7, NumberType DEF NotFinite, Positives
    <3>5. x[2] * 0 = 0
      BY <3>4
    <3>6. Times(x, d) = NotFinite
      BY <3>4, <3>5 DEF Times, Frac
    <3> QED
      BY <2>2, <2>6, <3>6
  <2> HIDE DEF d, x, y
  <2>9. Times(x, d) \in Number /\ Times(y, d) \in Number
    BY <2>7, <2>8, NumbersClosed
  <2> QED
    BY <2>6, <2>9 DEF Plane
<1>2. IsFiniteSet(D)
  <2>1. IsFiniteSet(1 .. Len(rows)) /\ D = 1 .. Len(rows)
    BY FS_Interval
  <2> QED
    BY <2>1
<1>3. IsFiniteSet(D \X D)
  BY <1>2, FS_Product
<1>4. IsFiniteSet({f[x] : x \in D \X D})
  <2>1. DOMAIN f = D \X D /\ f = [x \in D \X D |-> f[x]]
    OBVIOUS
  <2> HIDE DEF f, D
  <2> QED
    BY <1>3, <2>1, FiniteImage
<1>5. Corners(rows) \in SUBSET {f[x] : x \in D \X D}
  <2> SUFFICES ASSUME NEW v \in Corners(rows) PROVE v \in {f[x] : x \in D \X D}
    OBVIOUS
  <2>1. PICK i \in D, j \in D : v = Meet(rows[i], rows[j])
    BY DEF Corners
  <2>2. <<i, j>> \in D \X D /\ f[<<i, j>>] = v
    BY <2>1
  <2> QED
    BY <2>2
<1>6. IsFiniteSet(Corners(rows))
  BY ONLY <1>4, <1>5, FS_Subset
<1> QED
  BY <1>1, <1>6

Inside(b, p) == \A i \in {1, 2} : Between(b.min[i], p[i], b.max[i])

InOrder(b) == \A i \in {1, 2} : Leq(b.min[i], b.max[i])

Bounds(b) == \A i \in {1, 2} : b.min[i] \in Number /\ b.max[i] \in Number

(* Where there are corners, the box holds them in order.                   *)
LEMMA SolvedType ==
  ASSUME NEW rows \in Seq(Rows), NEW w \in Corners(rows)
  PROVE  /\ Bounds(Solved(rows)) /\ InOrder(Solved(rows)) /\ Solved(rows) # NoBox
         /\ \A v \in Corners(rows) : Inside(Solved(rows), v)
<1> DEFINE S(i) == {v[i] : v \in Corners(rows)}
           b == Solved(rows)
<1>1. ASSUME NEW i \in {1, 2}
      PROVE  /\ LeastOf(S(i)) \in Number /\ GreatestOf(S(i)) \in Number
             /\ \A v \in Corners(rows) : Between(LeastOf(S(i)), v[i], GreatestOf(S(i)))
  <2> DEFINE f == [v \in Corners(rows) |-> v[i]]
  <2>1. IsFiniteSet({f[v] : v \in Corners(rows)})
    <3>1. DOMAIN f = Corners(rows) /\ f = [v \in Corners(rows) |-> f[v]]
          /\ IsFiniteSet(Corners(rows))
      BY CornersType
    <3> HIDE DEF f
    <3> QED
      BY <3>1, FiniteImage
  <2>2. {f[v] : v \in Corners(rows)} = S(i)
    OBVIOUS
  <2>3. S(i) # {} /\ S(i) \subseteq Number
    BY CornersType DEF Plane
  <2> QED
    BY <2>1, <2>2, <2>3, Extremes DEF Between
<1>2. b = [min |-> [i \in {1, 2} |-> LeastOf(S(i))], max |-> [i \in {1, 2} |-> GreatestOf(S(i))]]
  BY DEF Solved
<1>3. \A i \in {1, 2} : b.min[i] = LeastOf(S(i)) /\ b.max[i] = GreatestOf(S(i))
  BY <1>2
<1> HIDE DEF b, S
<1>4. Bounds(b) /\ \A v \in Corners(rows) : Inside(b, v)
  BY <1>1, <1>3 DEF Bounds, Inside
<1>5. InOrder(b)
  <2> SUFFICES ASSUME NEW i \in {1, 2} PROVE Leq(b.min[i], b.max[i])
    BY DEF InOrder
  <2>1. Between(b.min[i], w[i], b.max[i]) /\ w[i] \in Number
        /\ b.min[i] \in Number /\ b.max[i] \in Number
    BY <1>4, CornersType DEF Inside, Bounds, Plane
  <2> QED
    BY <2>1, OrderLaws DEF Between
<1>6. b # NoBox
  <2>1. NoBox.min[1] = NotFinite /\ b.min[1] \in Number
    BY <1>4 DEF NoBox, Bounds
  <2> QED
    BY <2>1, NumberType DEF NotFinite, Positives
<1> QED
  BY <1>4, <1>5, <1>6 DEF b

\* What an infeasible program leaves.
LEMMA SolvedOrdered ==
  ASSUME NEW rows \in Seq(Rows), Solved(rows) # NoBox
  PROVE  InOrder(Solved(rows))
<1>1. Corners(rows) # {}
  BY DEF Solved
<1> QED
  BY <1>1, SolvedType

(* The box of a bounded set holds its points: in each of four directions   *)
(* there is a corner beyond them.                                          *)
LEMMA SolvedHolds ==
  ASSUME NEW rows \in Seq(Rows), Bounded(rows), NEW p \in Plane, Feasible(rows, p)
  PROVE  Solved(rows) # NoBox /\ Inside(Solved(rows), p)
<1> DEFINE b == Solved(rows)
<1>1. PICK x \in Number, y \in Number : p = <<x, y>>
  BY DEF Plane
<1>2. /\ One \in Number /\ Zero \in Number /\ Negated(One) \in Number
      /\ Negated(Zero) = Zero /\ One # Zero /\ Negated(One) # Zero
  <2>1. One \in Number /\ Zero \in Number /\ Negated(Zero) = Zero
    BY OneAndZero
  <2>2. Negated(One) \in Number /\ Negated(Negated(One)) = One
    BY <2>1, NegatedNegated
  <2>3. One # Zero
    BY DEF One, Zero, Num
  <2> QED
    BY <2>1, <2>2, <2>3
<1> DEFINE E == {<<One, Zero>>, <<Negated(One), Zero>>, <<Zero, One>>, <<Zero, Negated(One)>>}
<1>3. \A e \in E : e \in Plane /\ e # Origin
  BY <1>2 DEF Plane, Origin, Zero
<1>4. \A e \in E : \E v \in Corners(rows) : v \in Plane /\ Leq(Dot(e, p), Dot(e, v))
  BY <1>3, CornerBeyond
<1>5. ASSUME NEW u \in Number, NEW v \in Number
      PROVE  /\ Dot(<<One, Zero>>, <<u, v>>) = u
             /\ Dot(<<Zero, One>>, <<u, v>>) = v
             /\ Dot(<<Negated(One), Zero>>, <<u, v>>) = Negated(u)
             /\ Dot(<<Zero, Negated(One)>>, <<u, v>>) = Negated(v)
             /\ Negated(u) \in Number /\ Negated(v) \in Number
  <2>1. Negated(u) \in Number /\ Negated(v) \in Number
    BY NumbersClosed
  <2>2. /\ Times(One, u) = u /\ Times(Zero, u) = Zero /\ Times(Negated(One), u) = Negated(u)
        /\ Times(One, v) = v /\ Times(Zero, v) = Zero /\ Times(Negated(One), v) = Negated(v)
        /\ Plus(u, Zero) = u /\ Plus(Zero, v) = v
        /\ Plus(Negated(u), Zero) = Negated(u) /\ Plus(Zero, Negated(v)) = Negated(v)
    BY <2>1, WithZero
  <2> QED
    BY <2>1, <2>2 DEF Dot
<1>6. PICK w \in Corners(rows) : TRUE
  BY <1>4
<1>7. /\ Bounds(b) /\ b # NoBox /\ \A v \in Corners(rows) : Inside(b, v)
  BY <1>6, SolvedType
<1> HIDE DEF b
<1>8. Leq(x, b.max[1])
  <2>1. PICK v \in Corners(rows) : v \in Plane /\ Leq(Dot(<<One, Zero>>, p), Dot(<<One, Zero>>, v))
    BY <1>4
  <2>2. PICK s \in Number, t \in Number : v = <<s, t>>
    BY <2>1 DEF Plane
  <2>3. Leq(x, s) /\ Leq(s, b.max[1]) /\ b.max[1] \in Number
    BY <2>1, <2>2, <1>1, <1>5, <1>7 DEF Inside, Between, Bounds
  <2> QED
    BY <2>3, OrderLaws
<1>9. Leq(b.min[1], x)
  <2>1. PICK v \in Corners(rows) : v \in Plane
            /\ Leq(Dot(<<Negated(One), Zero>>, p), Dot(<<Negated(One), Zero>>, v))
    BY <1>4
  <2>2. PICK s \in Number, t \in Number : v = <<s, t>>
    BY <2>1 DEF Plane
  <2>3. Leq(Negated(x), Negated(s)) /\ Leq(b.min[1], s) /\ b.min[1] \in Number
    BY <2>1, <2>2, <1>1, <1>5, <1>7 DEF Inside, Between, Bounds
  <2>4. Leq(s, x)
    BY <2>3, OrderLaws
  <2> QED
    BY <2>3, <2>4, OrderLaws
<1>10. Leq(y, b.max[2])
  <2>1. PICK v \in Corners(rows) : v \in Plane /\ Leq(Dot(<<Zero, One>>, p), Dot(<<Zero, One>>, v))
    BY <1>4
  <2>2. PICK s \in Number, t \in Number : v = <<s, t>>
    BY <2>1 DEF Plane
  <2>3. Leq(y, t) /\ Leq(t, b.max[2]) /\ b.max[2] \in Number
    BY <2>1, <2>2, <1>1, <1>5, <1>7 DEF Inside, Between, Bounds
  <2> QED
    BY <2>3, OrderLaws
<1>11. Leq(b.min[2], y)
  <2>1. PICK v \in Corners(rows) : v \in Plane
            /\ Leq(Dot(<<Zero, Negated(One)>>, p), Dot(<<Zero, Negated(One)>>, v))
    BY <1>4
  <2>2. PICK s \in Number, t \in Number : v = <<s, t>>
    BY <2>1 DEF Plane
  <2>3. Leq(Negated(y), Negated(t)) /\ Leq(b.min[2], t) /\ b.min[2] \in Number
    BY <2>1, <2>2, <1>1, <1>5, <1>7 DEF Inside, Between, Bounds
  <2>4. Leq(t, y)
    BY <2>3, OrderLaws
  <2> QED
    BY <2>3, <2>4, OrderLaws
<1>12. Inside(b, p)
  BY <1>1, <1>8, <1>9, <1>10, <1>11 DEF Inside, Between
<1> QED
  BY <1>7, <1>12 DEF b

(* The sides of a box are rows that bound what they are put beside.        *)
LEMMA SidesBound ==
  ASSUME NEW rows \in Seq(Rows), NEW b, Bounds(b)
  PROVE  LET all == rows \o Sides(b)
         IN  /\ all \in Seq(Rows) /\ Bounded(all)
             /\ \A p \in Plane : Feasible(rows, p) /\ Inside(b, p) => Feasible(all, p)
<1> DEFINE sides == Sides(b)
           all == rows \o sides
           n == Len(rows)
<1>1. /\ One \in Number /\ Zero \in Number /\ Negated(One) \in Number
      /\ b.max[1] \in Number /\ b.max[2] \in Number
      /\ b.min[1] \in Number /\ b.min[2] \in Number
      /\ Negated(b.min[1]) \in Number /\ Negated(b.min[2]) \in Number
  BY OneAndZero, NumbersClosed DEF Bounds
<1>2. /\ sides = << <<One, Zero, b.max[1]>>, <<Zero, One, b.max[2]>>,
                    <<Negated(One), Zero, Negated(b.min[1])>>,
                    <<Zero, Negated(One), Negated(b.min[2])>> >>
  BY DEF Sides
<1>3. /\ sides \in Seq(Rows) /\ Len(sides) = 4
      /\ sides[1] = <<One, Zero, b.max[1]>> /\ sides[2] = <<Zero, One, b.max[2]>>
      /\ sides[3] = <<Negated(One), Zero, Negated(b.min[1])>>
      /\ sides[4] = <<Zero, Negated(One), Negated(b.min[2])>>
  <2>1. /\ <<One, Zero, b.max[1]>> \in Rows /\ <<Zero, One, b.max[2]>> \in Rows
        /\ <<Negated(One), Zero, Negated(b.min[1])>> \in Rows
        /\ <<Zero, Negated(One), Negated(b.min[2])>> \in Rows
    BY <1>1 DEF Rows
  <2> QED
    BY <1>2, <2>1
<1> HIDE DEF sides
<1>4. /\ all \in Seq(Rows) /\ Len(all) = n + 4 /\ n \in Nat /\ DOMAIN all = 1 .. n + 4
      /\ \A i \in 1 .. n : all[i] = rows[i]
      /\ \A i \in 1 .. 4 : all[n + i] = sides[i]
  <2>1. n \in Nat
    OBVIOUS
  <2>2. all \in Seq(Rows) /\ Len(all) = n + 4 /\ DOMAIN all = 1 .. n + 4
    <3>1. all \in Seq(Rows)
      BY <1>3
    <3>2. Len(all) = n + Len(sides)
      BY <1>3, ConcatProperties
    <3>3. DOMAIN all = 1 .. Len(all)
      BY <3>1
    <3> QED
      BY <1>3, <3>1, <3>2, <3>3
  <2>3. ASSUME NEW i \in 1 .. n PROVE all[i] = rows[i]
    BY <1>3, <2>1
  <2>4. ASSUME NEW i \in 1 .. 4 PROVE all[n + i] = sides[i]
    <3>1. n + i \in 1 .. n + 4 /\ n + i > n /\ (n + i) - n = i
      BY <2>1
    <3> QED
      BY <1>3, <2>1, <3>1
  <2> QED
    BY <2>1, <2>2, <2>3, <2>4
<1>5. ASSUME NEW i \in 1 .. n + 4 PROVE i \in 1 .. n \/ \E j \in 1 .. 4 : i = n + j
  <2>1. CASE i > n
    <3>1. i - n \in 1 .. 4 /\ i = n + (i - n)
      BY <1>4, <2>1
    <3> QED
      BY <3>1
  <2>2. CASE ~(i > n)
    BY <1>4, <2>2
  <2> QED
    BY <2>1, <2>2
<1> HIDE DEF all
<1>6. ASSUME NEW p \in Plane, Feasible(rows, p), Inside(b, p) PROVE Feasible(all, p)
  <2>1. PICK x \in Number, y \in Number : p = <<x, y>>
    BY DEF Plane
  <2>2. /\ Leq(b.min[1], x) /\ Leq(x, b.max[1]) /\ Leq(b.min[2], y) /\ Leq(y, b.max[2])
    BY <1>6, <2>1 DEF Inside, Between
  <2>3. Leq(Negated(x), Negated(b.min[1])) /\ Leq(Negated(y), Negated(b.min[2]))
    BY <1>1, <2>2, OrderLaws
  <2>4. /\ Below(<<One, Zero, b.max[1]>>, p) /\ Below(<<Zero, One, b.max[2]>>, p)
        /\ Below(<<Negated(One), Zero, Negated(b.min[1])>>, p)
        /\ Below(<<Zero, Negated(One), Negated(b.min[2])>>, p)
    BY <1>1, <2>1, <2>2, <2>3, UprightRows
  <2>5. \A j \in 1 .. 4 : j = 1 \/ j = 2 \/ j = 3 \/ j = 4
    OBVIOUS
  <2>6. \A j \in 1 .. 4 : Below(sides[j], p)
    BY <1>3, <2>4, <2>5
  <2>7. \A j \in 1 .. n : Below(rows[j], p)
    BY <1>6 DEF Feasible
  <2> SUFFICES ASSUME NEW i \in 1 .. n + 4 PROVE Below(all[i], p)
    BY <1>4 DEF Feasible
  <2>8. CASE i \in 1 .. n
    BY <2>7, <2>8, <1>4
  <2>9. CASE \E j \in 1 .. 4 : i = n + j
    BY <2>6, <2>9, <1>4
  <2> QED
    BY <2>8, <2>9, <1>5
<1>7. Bounded(all)
  <2> SUFFICES ASSUME NEW d \in Plane, d # Origin
               PROVE  \E k \in DOMAIN all : Positive(Dot(all[k], d))
    BY DEF Bounded
  <2>1. PICK u \in Number, v \in Number : d = <<u, v>>
    BY DEF Plane
  <2>2. u # Zero \/ v # Zero
    BY <2>1 DEF Origin, Zero
  <2>3. Negated(u) \in Number /\ Negated(v) \in Number
    BY NumbersClosed
  <2>4. /\ Dot(sides[1], d) = u /\ Dot(sides[2], d) = v
        /\ Dot(sides[3], d) = Negated(u) /\ Dot(sides[4], d) = Negated(v)
    <3>1. /\ Times(One, u) = u /\ Times(Zero, u) = Zero /\ Times(Negated(One), u) = Negated(u)
          /\ Times(One, v) = v /\ Times(Zero, v) = Zero /\ Times(Negated(One), v) = Negated(v)
          /\ Plus(u, Zero) = u /\ Plus(Zero, v) = v
          /\ Plus(Negated(u), Zero) = Negated(u) /\ Plus(Zero, Negated(v)) = Negated(v)
      BY <2>3, WithZero
    <3> QED
      BY <3>1, <2>1, <1>3 DEF Dot
  <2>5. ASSUME NEW z \in Number, z # Zero PROVE Positive(z) \/ Positive(Negated(z))
    <3>1. Negated(z) \in Number
      BY NumbersClosed
    <3>2. ~Leq(z, Zero) \/ ~Leq(Zero, z)
      BY <1>1, <2>5, OrderLaws
    <3> QED
      BY <3>1, <3>2, SignLaws
  <2>6. \E j \in 1 .. 4 : Positive(Dot(sides[j], d))
    <3>1. Positive(u) \/ Positive(Negated(u)) \/ Positive(v) \/ Positive(Negated(v))
      BY <2>2, <2>5
    <3>2. 1 \in 1 .. 4 /\ 2 \in 1 .. 4 /\ 3 \in 1 .. 4 /\ 4 \in 1 .. 4
      OBVIOUS
    <3> QED
      BY <3>1, <3>2, <2>4
  <2>7. PICK j \in 1 .. 4 : Positive(Dot(sides[j], d))
    BY <2>6
  <2>8. n + j \in DOMAIN all /\ all[n + j] = sides[j]
    BY <1>4
  <2> QED
    BY <2>7, <2>8
<1> QED
  BY <1>4, <1>6, <1>7 DEF all, sides

(* What boxes have in common has bounds of theirs.                         *)
LEMMA OverlapOf ==
  ASSUME NEW boxes, IsFiniteSet(boxes), boxes # {}, \A b \in boxes : Bounds(b)
  PROVE  /\ Bounds(Overlap(boxes))
         /\ \A p : (\A b \in boxes : Inside(b, p)) => Inside(Overlap(boxes), p)
<1> DEFINE mins(i) == {b.min[i] : b \in boxes}
           maxs(i) == {b.max[i] : b \in boxes}
           o == Overlap(boxes)
<1>1. ASSUME NEW i \in {1, 2}
      PROVE  GreatestOf(mins(i)) \in mins(i) /\ LeastOf(maxs(i)) \in maxs(i)
  <2> DEFINE f == [b \in boxes |-> b.min[i]]
             g == [b \in boxes |-> b.max[i]]
  <2>1. /\ mins(i) = {f[b] : b \in boxes} /\ maxs(i) = {g[b] : b \in boxes}
        /\ DOMAIN f = boxes /\ f = [b \in boxes |-> f[b]]
        /\ DOMAIN g = boxes /\ g = [b \in boxes |-> g[b]]
    OBVIOUS
  <2>2. /\ mins(i) \subseteq Number /\ maxs(i) \subseteq Number
        /\ mins(i) # {} /\ maxs(i) # {}
    BY DEF Bounds
  <2> HIDE DEF f, g, mins, maxs
  <2>3. IsFiniteSet({f[b] : b \in boxes}) /\ IsFiniteSet({g[b] : b \in boxes})
    BY <2>1, FiniteImage
  <2> QED
    BY <2>1, <2>2, <2>3, Extremes
<1>2. \A i \in {1, 2} : o.min[i] = GreatestOf(mins(i)) /\ o.max[i] = LeastOf(maxs(i))
  BY DEF Overlap
<1> HIDE DEF o
<1>3. \A i \in {1, 2} : /\ \E b \in boxes : o.min[i] = b.min[i]
                        /\ \E b \in boxes : o.max[i] = b.max[i]
  BY <1>1, <1>2
<1>4. Bounds(o)
  BY <1>3 DEF Bounds
<1>5. ASSUME NEW p, \A b \in boxes : Inside(b, p) PROVE Inside(o, p)
  BY <1>3, <1>5 DEF Inside, Between
<1> QED
  BY <1>4, <1>5 DEF o

(* An intersection with one polytope.                                      *)
LEMMA HullOfOnePolytope ==
  ASSUME NEW n \in Nat, NEW sets, DOMAIN sets = 1 .. n, NEW m \in 1 .. n, 1 .. n # {m},
         NEW rows \in Seq(Rows), sets[m] = Polytope(rows),
         \A k \in 1 .. n \ {m} : sets[k].shape # "convexPolytope" /\ Bounds(BoxOf(sets[k]))
  PROVE  LET hull == HullOf(sets)
         IN  /\ hull # NoBox => InOrder(hull)
             /\ \A p \in Plane :
                  Feasible(rows, p) /\ (\A k \in 1 .. n \ {m} : Inside(BoxOf(sets[k]), p))
                    => hull # NoBox /\ Inside(hull, p)
<1> DEFINE others == 1 .. n \ {m}
           f == [k \in others |-> BoxOf(sets[k])]
           boxes == {f[k] : k \in others}
           rest == Overlap(boxes)
           hull == HullOf(sets)
           all == rows \o Sides(rest)
<1>1. {k \in DOMAIN sets : sets[k].shape = "convexPolytope"} = {m}
  BY DEF Polytope
<1>2. (CHOOSE k \in {m} : TRUE) = m /\ sets[m].rows = rows /\ {m} # {}
  BY DEF Polytope
<1>3. {BoxOf(sets[k]) : k \in DOMAIN sets \ {m}} = boxes
  OBVIOUS
<1>4. hull = Solved(all)
  BY <1>1, <1>2, <1>3 DEF HullOf
<1>5. IsFiniteSet(others) /\ others # {}
  <2>1. IsFiniteSet(1 .. n) /\ others \in SUBSET (1 .. n)
    BY FS_Interval
  <2>2. IsFiniteSet(others)
    BY ONLY <2>1, FS_Subset
  <2> QED
    BY <2>2
<1>6. IsFiniteSet(boxes)
  <2>1. DOMAIN f = others /\ f = [k \in others |-> f[k]]
    OBVIOUS
  <2> HIDE DEF f, others
  <2> QED
    BY <1>5, <2>1, FiniteImage
<1>7. boxes # {} /\ \A b \in boxes : Bounds(b)
  BY <1>5
<1>8. ASSUME NEW p, \A k \in others : Inside(BoxOf(sets[k]), p) PROVE \A b \in boxes : Inside(b, p)
  BY <1>8
<1> HIDE DEF boxes, hull
<1>9. Bounds(rest) /\ \A p : (\A b \in boxes : Inside(b, p)) => Inside(rest, p)
  BY <1>6, <1>7, OverlapOf
<1> HIDE DEF rest
<1>10. /\ all \in Seq(Rows) /\ Bounded(all)
       /\ \A p \in Plane : Feasible(rows, p) /\ Inside(rest, p) => Feasible(all, p)
  BY <1>9, SidesBound
<1> HIDE DEF all
<1>11. hull # NoBox => InOrder(hull)
  BY <1>4, <1>10, SolvedOrdered
<1>12. ASSUME NEW p \in Plane, Feasible(rows, p), \A k \in others : Inside(BoxOf(sets[k]), p)
       PROVE  hull # NoBox /\ Inside(hull, p)
  <2>1. Feasible(all, p)
    BY <1>8, <1>9, <1>10, <1>12
  <2> QED
    BY <2>1, <1>4, <1>10, SolvedHolds
<1> QED
  BY <1>11, <1>12 DEF hull

(* The box of a point.                                                     *)
LEMMA SingletonBoxed ==
  ASSUME NEW at \in Plane
  PROVE  LET set == Singleton(at)
         IN  /\ BoxOf(set) # NoBox /\ InOrder(BoxOf(set))
             /\ \A p : InPart(set, p) => Inside(BoxOf(set), p)
<1>1. BoxOf(Singleton(at)) = [min |-> at, max |-> at]
  BY DEF BoxOf, Singleton
<1>2. \A i \in {1, 2} : at[i] \in Number
  BY DEF Plane
<1>3. \A i \in {1, 2} : Leq(at[i], at[i])
  BY <1>2, OrderLaws
<1>4. [min |-> at, max |-> at] # NoBox
  <2>1. NoBox.min[1] = NotFinite
    BY DEF NoBox
  <2> QED
    BY <2>1, <1>2, NumberType DEF NotFinite, Positives
<1>5. \A p : InPart(Singleton(at), p) <=> p = at
  BY DEF InPart, Singleton
<1> QED
  BY <1>1, <1>3, <1>4, <1>5 DEF InOrder, Inside, Between

(* The box of a rectangle, whichever way round its bounds are given.       *)
LEMMA RectangleBoxed ==
  ASSUME NEW u \in Plane, NEW w \in Plane
  PROVE  LET set == Rectangle(u, w)
         IN  /\ BoxOf(set) # NoBox /\ Bounds(BoxOf(set)) /\ InOrder(BoxOf(set))
             /\ \A p : InPart(set, p) => Inside(BoxOf(set), p)
<1> DEFINE b == BoxOf(Rectangle(u, w))
<1>1. b = [min |-> [i \in {1, 2} |-> Least(u[i], w[i])],
           max |-> [i \in {1, 2} |-> Greatest(u[i], w[i])]]
  BY DEF BoxOf, Rectangle
<1>2. \A i \in {1, 2} : u[i] \in Number /\ w[i] \in Number
  BY DEF Plane
<1>3. \A i \in {1, 2} : b.min[i] = Least(u[i], w[i]) /\ b.max[i] = Greatest(u[i], w[i])
  BY <1>1
<1> HIDE DEF b
<1>4. Bounds(b)
  BY <1>2, <1>3 DEF Bounds, Least, Greatest
<1>5. InOrder(b)
  <2> SUFFICES ASSUME NEW i \in {1, 2} PROVE Leq(Least(u[i], w[i]), Greatest(u[i], w[i]))
    BY <1>3 DEF InOrder
  <2>1. /\ Leq(u[i], w[i]) \/ Leq(w[i], u[i])
        /\ Leq(u[i], u[i]) /\ Leq(w[i], w[i])
    BY <1>2, OrderLaws
  <2> QED
    BY <2>1 DEF Least, Greatest
<1>6. b # NoBox
  <2>1. NoBox.min[1] = NotFinite /\ b.min[1] \in Number
    BY <1>4 DEF NoBox, Bounds
  <2> QED
    BY <2>1, NumberType DEF NotFinite, Positives
<1>7. ASSUME NEW p, InPart(Rectangle(u, w), p) PROVE Inside(b, p)
  BY <1>3, <1>7, InRectangle DEF Inside, Between
<1> QED
  BY <1>4, <1>5, <1>6, <1>7 DEF b

(* The box of a disk.                                                      *)
LEMMA DiskBounds ==
  ASSUME NEW r \in Number
  PROVE  /\ Bounds(BoxOf(Disk(r)))
         /\ \A i \in {1, 2} : /\ BoxOf(Disk(r)).min[i] = Negated(r)
                              /\ BoxOf(Disk(r)).max[i] = r
<1> DEFINE b == BoxOf(Disk(r))
<1>1. b = [min |-> [i \in {1, 2} |-> Minus(Origin[i], r)],
           max |-> [i \in {1, 2} |-> Plus(Origin[i], r)]]
  BY DEF BoxOf, Disk
<1>2. \A i \in {1, 2} : Origin[i] = Zero
  BY DEF Origin, Zero
<1>3. Negated(r) \in Number
  BY NumbersClosed
<1>4. Minus(Zero, r) = Negated(r) /\ Plus(Zero, r) = r
  BY <1>3, WithZero DEF Minus
<1>5. \A i \in {1, 2} : b.min[i] = Negated(r) /\ b.max[i] = r
  BY <1>1, <1>2, <1>4
<1> HIDE DEF b
<1>6. Bounds(b)
  BY <1>3, <1>5 DEF Bounds
<1> QED
  BY <1>5, <1>6 DEF b

(* It holds the disk if the radius is not negative.                        *)
LEMMA DiskBoxed ==
  ASSUME NEW r \in Number, Leq(Zero, r), NEW p \in Plane, InPart(Disk(r), p)
  PROVE  Inside(BoxOf(Disk(r)), p)
<1>1. PICK x \in Number, y \in Number : p = <<x, y>>
  BY DEF Plane
<1>2. /\ Squared(x) \in Number /\ Squared(y) \in Number /\ Squared(r) \in Number
      /\ Leq(Zero, Squared(x)) /\ Leq(Zero, Squared(y)) /\ Zero \in Number
      /\ Plus(Squared(x), Squared(y)) \in Number
  BY NumbersClosed, PositiveLaws, OneAndZero DEF Zero
<1>3. Leq(Plus(Squared(x), Squared(y)), Squared(r))
  BY <1>1, InDisk
<1>4. /\ Leq(Squared(x), Plus(Squared(x), Squared(y)))
      /\ Leq(Squared(y), Plus(Squared(x), Squared(y)))
  <2>1. /\ Leq(Plus(Zero, Squared(x)), Plus(Squared(y), Squared(x)))
        /\ Leq(Plus(Zero, Squared(y)), Plus(Squared(x), Squared(y)))
    BY <1>2, OrderLaws
  <2>2. /\ Plus(Zero, Squared(x)) = Squared(x) /\ Plus(Zero, Squared(y)) = Squared(y)
        /\ Plus(Squared(y), Squared(x)) = Plus(Squared(x), Squared(y))
    BY <1>2, WithZero, PlusLaws
  <2> QED
    BY <2>1, <2>2
<1>5. Leq(Squared(x), Squared(r)) /\ Leq(Squared(y), Squared(r))
  BY <1>2, <1>3, <1>4, OrderLaws
<1>6. ASSUME NEW z \in Number, Leq(Squared(z), Squared(r)) PROVE Between(Negated(r), z, r)
  <2>1. Size(z) \in Number /\ Leq(Zero, Size(z)) /\ Squared(Size(z)) = Squared(z)
    BY SizeBounds, SquareOfSize
  <2>2. Leq(Size(z), r)
    BY <2>1, <1>6, SquaresOrdered
  <2>3. Leq(z, r) /\ Leq(Negated(z), r)
    BY <2>2, SizeBounds
  <2>4. Negated(z) \in Number /\ Negated(Negated(z)) = z
    BY NegatedNegated
  <2>5. Leq(Negated(r), Negated(Negated(z)))
    BY <2>3, <2>4, OrderLaws
  <2> QED
    BY <2>3, <2>4, <2>5 DEF Between
<1>7. Between(Negated(r), x, r) /\ Between(Negated(r), y, r)
  BY <1>5, <1>6
<1> QED
  BY <1>1, <1>7, DiskBounds DEF Inside

------------------------------------------------------------------------------
(* The boxes of what is advertised.                                        *)

(* The sets that devices advertise, with disks whose radius is in R.       *)
Shaped(set, R) ==
  \/ \E at \in Plane : set = Singleton(at)
  \/ \E u, w \in Plane : set = Rectangle(u, w)
  \/ \E r \in R : \E rows \in Seq(Rows) :
       \/ set = Intersection(<<Disk(r), Polytope(rows)>>)
       \/ set = Intersection(<<Polytope(rows), Disk(r)>>)
       \/ \E u, w \in Plane : set = Intersection(<<Rectangle(u, w), Disk(r), Polytope(rows)>>)

Radii == {r \in Number : Leq(Zero, r)}

\* A box of a set.
Boxes(hull, set) ==
  /\ hull # NoBox => InOrder(hull)
  /\ \A p \in Plane : Member(set, p) => hull # NoBox /\ Inside(hull, p)

(* Sets that are boxed by themselves.                                      *)
LEMMA SimpleHull ==
  ASSUME NEW set, NEW R, \/ \E at \in Plane : set = Singleton(at)
                         \/ \E u, w \in Plane : set = Rectangle(u, w)
  PROVE  Boxes(rectHull(set), set)
<1>1. rectHull(set) = BoxOf(set) /\ \A p : Member(set, p) <=> InPart(set, p)
  BY DEF rectHull, Member, Singleton, Rectangle
<1>2. InOrder(BoxOf(set)) /\ BoxOf(set) # NoBox /\ \A p : InPart(set, p) => Inside(BoxOf(set), p)
  BY SingletonBoxed, RectangleBoxed
<1> QED
  BY <1>1, <1>2 DEF Boxes

(* Disks and rectangles that a polytope cuts.                              *)
LEMMA CutHull ==
  ASSUME NEW r \in Number, NEW rows \in Seq(Rows), NEW u \in Plane, NEW w \in Plane,
         NEW set, \/ set = Intersection(<<Disk(r), Polytope(rows)>>)
                  \/ set = Intersection(<<Polytope(rows), Disk(r)>>)
                  \/ set = Intersection(<<Rectangle(u, w), Disk(r), Polytope(rows)>>)
  PROVE  /\ rectHull(set) # NoBox => InOrder(rectHull(set))
         /\ Leq(Zero, r) => Boxes(rectHull(set), set)
<1>1. /\ Disk(r).shape # "convexPolytope" /\ Rectangle(u, w).shape # "convexPolytope"
      /\ Bounds(BoxOf(Disk(r))) /\ Bounds(BoxOf(Rectangle(u, w)))
      /\ \A p : InPart(Rectangle(u, w), p) => Inside(BoxOf(Rectangle(u, w)), p)
      /\ \A p \in Plane : Leq(Zero, r) /\ InPart(Disk(r), p) => Inside(BoxOf(Disk(r)), p)
  <2>1. Disk(r).shape # "convexPolytope" /\ Rectangle(u, w).shape # "convexPolytope"
    BY DEF Disk, Rectangle
  <2> QED
    BY <2>1, RectangleBoxed, DiskBounds, DiskBoxed
<1>2. \A sets : rectHull(Intersection(sets)) = HullOf(sets)
  BY DEF rectHull, Intersection
<1>3. \A p : InPart(Polytope(rows), p) <=> Feasible(rows, p)
  BY InPolytope DEF Feasible
<1>4. CASE set = Intersection(<<Disk(r), Polytope(rows)>>)
  <2> DEFINE sets == <<Disk(r), Polytope(rows)>>
  <2>1. /\ DOMAIN sets = 1 .. 2 /\ sets[2] = Polytope(rows) /\ 1 .. 2 # {2} /\ 2 \in 1 .. 2
        /\ \A k \in 1 .. 2 \ {2} : sets[k] = Disk(r)
    OBVIOUS
  <2> HIDE DEF sets
  <2>2. \A k \in 1 .. 2 \ {2} : sets[k].shape # "convexPolytope" /\ Bounds(BoxOf(sets[k]))
    BY <1>1, <2>1
  <2>3. /\ HullOf(sets) # NoBox => InOrder(HullOf(sets))
        /\ \A p \in Plane :
             Feasible(rows, p) /\ (\A k \in 1 .. 2 \ {2} : Inside(BoxOf(sets[k]), p))
               => HullOf(sets) # NoBox /\ Inside(HullOf(sets), p)
    BY <2>1, <2>2, HullOfOnePolytope
  <2>4. rectHull(set) = HullOf(sets)
    BY <1>2, <1>4 DEF sets
  <2>5. ASSUME Leq(Zero, r), NEW p \in Plane, Member(set, p)
        PROVE  HullOf(sets) # NoBox /\ Inside(HullOf(sets), p)
    <3>1. InPart(Disk(r), p) /\ InPart(Polytope(rows), p)
      BY <1>4, <2>5, MemberOfTwo
    <3>2. \A k \in 1 .. 2 \ {2} : Inside(BoxOf(sets[k]), p)
      BY <1>1, <2>1, <2>5, <3>1
    <3> QED
      BY <1>3, <2>3, <3>1, <3>2
  <2> QED
    BY <2>3, <2>4, <2>5 DEF Boxes
<1>5. CASE set = Intersection(<<Polytope(rows), Disk(r)>>)
  <2> DEFINE sets == <<Polytope(rows), Disk(r)>>
  <2>1. /\ DOMAIN sets = 1 .. 2 /\ sets[1] = Polytope(rows) /\ 1 .. 2 # {1} /\ 1 \in 1 .. 2
        /\ \A k \in 1 .. 2 \ {1} : sets[k] = Disk(r)
    OBVIOUS
  <2> HIDE DEF sets
  <2>2. \A k \in 1 .. 2 \ {1} : sets[k].shape # "convexPolytope" /\ Bounds(BoxOf(sets[k]))
    BY <1>1, <2>1
  <2>3. /\ HullOf(sets) # NoBox => InOrder(HullOf(sets))
        /\ \A p \in Plane :
             Feasible(rows, p) /\ (\A k \in 1 .. 2 \ {1} : Inside(BoxOf(sets[k]), p))
               => HullOf(sets) # NoBox /\ Inside(HullOf(sets), p)
    BY <2>1, <2>2, HullOfOnePolytope
  <2>4. rectHull(set) = HullOf(sets)
    BY <1>2, <1>5 DEF sets
  <2>5. ASSUME Leq(Zero, r), NEW p \in Plane, Member(set, p)
        PROVE  HullOf(sets) # NoBox /\ Inside(HullOf(sets), p)
    <3>1. InPart(Disk(r), p) /\ InPart(Polytope(rows), p)
      BY <1>5, <2>5, MemberOfTwo
    <3>2. \A k \in 1 .. 2 \ {1} : Inside(BoxOf(sets[k]), p)
      BY <1>1, <2>1, <2>5, <3>1
    <3> QED
      BY <1>3, <2>3, <3>1, <3>2
  <2> QED
    BY <2>3, <2>4, <2>5 DEF Boxes
<1>6. CASE set = Intersection(<<Rectangle(u, w), Disk(r), Polytope(rows)>>)
  <2> DEFINE sets == <<Rectangle(u, w), Disk(r), Polytope(rows)>>
  <2>1. /\ DOMAIN sets = 1 .. 3 /\ sets[3] = Polytope(rows) /\ 1 .. 3 # {3} /\ 3 \in 1 .. 3
        /\ \A k \in 1 .. 3 \ {3} : sets[k] = Rectangle(u, w) \/ sets[k] = Disk(r)
    OBVIOUS
  <2> HIDE DEF sets
  <2>2. \A k \in 1 .. 3 \ {3} : sets[k].shape # "convexPolytope" /\ Bounds(BoxOf(sets[k]))
    BY <1>1, <2>1
  <2>3. /\ HullOf(sets) # NoBox => InOrder(HullOf(sets))
        /\ \A p \in Plane :
             Feasible(rows, p) /\ (\A k \in 1 .. 3 \ {3} : Inside(BoxOf(sets[k]), p))
               => HullOf(sets) # NoBox /\ Inside(HullOf(sets), p)
    BY <2>1, <2>2, HullOfOnePolytope
  <2>4. rectHull(set) = HullOf(sets)
    BY <1>2, <1>6 DEF sets
  <2>5. ASSUME Leq(Zero, r), NEW p \in Plane, Member(set, p)
        PROVE  HullOf(sets) # NoBox /\ Inside(HullOf(sets), p)
    <3>1. InPart(Rectangle(u, w), p) /\ InPart(Disk(r), p) /\ InPart(Polytope(rows), p)
      BY <1>6, <2>5, MemberOfThree
    <3>2. \A k \in 1 .. 3 \ {3} : Inside(BoxOf(sets[k]), p)
      BY <1>1, <2>1, <2>5, <3>1
    <3> QED
      BY <1>3, <2>3, <3>1, <3>2
  <2> QED
    BY <2>3, <2>4, <2>5 DEF Boxes
<1> QED
  BY <1>4, <1>5, <1>6

(* The boxes of all sets that devices advertise.                           *)
LEMMA ShapedHull ==
  ASSUME NEW set
  PROVE  /\ Shaped(set, Number) /\ rectHull(set) # NoBox => InOrder(rectHull(set))
         /\ Shaped(set, Radii) => Boxes(rectHull(set), set)
<1>1. Origin \in Plane
  BY OriginInPlane
<1>2. ASSUME NEW R, R \subseteq Number, Shaped(set, R)
      PROVE  /\ rectHull(set) # NoBox => InOrder(rectHull(set))
             /\ R = Radii => Boxes(rectHull(set), set)
  <2>1. CASE \/ \E at \in Plane : set = Singleton(at)
             \/ \E u, w \in Plane : set = Rectangle(u, w)
    BY <2>1, SimpleHull DEF Boxes
  <2>2. CASE \E r \in R : \E rows \in Seq(Rows) :
               \/ set = Intersection(<<Disk(r), Polytope(rows)>>)
               \/ set = Intersection(<<Polytope(rows), Disk(r)>>)
               \/ \E u, w \in Plane :
                    set = Intersection(<<Rectangle(u, w), Disk(r), Polytope(rows)>>)
    <3>1. PICK r \in R, rows \in Seq(Rows) :
               \/ set = Intersection(<<Disk(r), Polytope(rows)>>)
               \/ set = Intersection(<<Polytope(rows), Disk(r)>>)
               \/ \E u, w \in Plane :
                    set = Intersection(<<Rectangle(u, w), Disk(r), Polytope(rows)>>)
      BY <2>2
    <3>2. PICK u \in Plane, w \in Plane :
               \/ set = Intersection(<<Disk(r), Polytope(rows)>>)
               \/ set = Intersection(<<Polytope(rows), Disk(r)>>)
               \/ set = Intersection(<<Rectangle(u, w), Disk(r), Polytope(rows)>>)
      BY <3>1, <1>1
    <3>3. r \in Number /\ (R = Radii => Leq(Zero, r))
      BY <1>2 DEF Radii
    <3> QED
      BY <3>2, <3>3, CutHull
  <2> QED
    BY <1>2, <2>1, <2>2 DEF Shaped
<1>3. Number \subseteq Number /\ Radii \subseteq Number
  BY DEF Radii
<1> QED
  BY <1>2, <1>3

(* Profiles are such sets.                                                 *)
LEMMA ProfileShaped ==
  ASSUME NEW o \in Orders, PlantSound(o), NEW R, o.kind \notin Discrete => o.Srated \in R,
         Pmin \in Int, Pmax \in Int
  PROVE  Shaped(Profile(o), R)
<1>1. /\ o.kind \in Kinds /\ One \in Number /\ Zero \in Number /\ Negated(One) \in Number
  BY ParametersAreNumbers, OneAndZero, NumbersClosed
<1>2. CASE o.kind \in BatteryLike
  <2> DEFINE rows == << <<One, Zero, o.Pmax>>, <<Negated(One), Zero, Negated(o.Pmin)>> >>
  <2>1. o.Srated \in R /\ o.Pmax \in Number /\ Negated(o.Pmin) \in Number
    BY <1>2, ParametersAreNumbers, NumbersClosed DEF BatteryLike, Discrete
  <2>2. rows \in Seq(Rows)
    BY <1>1, <2>1 DEF Rows
  <2>3. Profile(o) = Intersection(<<Disk(o.Srated), Polytope(rows)>>)
    BY <1>2 DEF Profile, BatteryProfile, BatteryLike, Uncontrollable, Discrete
  <2> HIDE DEF rows
  <2> QED
    BY <2>1, <2>2, <2>3 DEF Shaped
<1>3. CASE o.kind = "pv"
  <2> DEFINE s == Slope(o)
             rows == << <<One, Zero, o.Pmax>>, <<Negated(s), One, Zero>>,
                        <<Negated(s), Negated(One), Zero>> >>
  <2>1. o.Srated \in R /\ o.Pmax \in Number /\ Negated(s) \in Number
    BY <1>3, ParametersAreNumbers, SlopeType, NumbersClosed DEF Discrete
  <2>2. rows \in Seq(Rows)
    BY <1>1, <2>1 DEF Rows
  <2>3. Profile(o) = Intersection(<<Polytope(rows), Disk(o.Srated)>>)
    BY <1>3 DEF Profile, PVProfile, BatteryLike, Uncontrollable, Discrete
  <2> HIDE DEF rows
  <2> QED
    BY <2>1, <2>2, <2>3 DEF Shaped
<1>4. CASE o.kind \in Uncontrollable
  <2>1. <<o.Pexp, o.Qexp>> \in Plane
    BY <1>4, ParametersAreNumbers DEF Plane
  <2>2. Profile(o) = Singleton(<<o.Pexp, o.Qexp>>)
    BY <1>4 DEF Profile, UncontrollableProfile, BatteryLike, Uncontrollable, Discrete
  <2> QED
    BY <2>1, <2>2 DEF Shaped
<1>5. CASE o.kind \in Discrete
  <2>1. <<Num(Pmin), Zero>> \in Plane /\ <<Num(Pmax), Zero>> \in Plane
    BY <1>1, NumFrac DEF Plane
  <2>2. Profile(o) = Rectangle(<<Num(Pmin), Zero>>, <<Num(Pmax), Zero>>)
    BY <1>5 DEF Profile, DiscreteProfile, BatteryLike, Uncontrollable, Discrete
  <2> QED
    BY <2>1, <2>2 DEF Shaped
<1> QED
  BY <1>1, <1>2, <1>3, <1>4, <1>5 DEF Kinds

(* So are beliefs.                                                         *)
LEMMA BeliefShaped ==
  ASSUME NEW o \in Orders, PlantSound(o), NEW R, o.kind \notin Discrete => o.Srated \in R,
         NEW sp \in Plane, result \in Int
  PROVE  Shaped(Belief(o, sp), R)
<1>1. /\ o.kind \in Kinds /\ One \in Number /\ Zero \in Number /\ Negated(One) \in Number
      /\ sp[1] \in Number /\ sp[2] \in Number
  BY ParametersAreNumbers, OneAndZero, NumbersClosed DEF Plane
<1>2. CASE o.kind \in BatteryLike
  <2>1. Belief(o, sp) = Singleton(sp)
    BY <1>2 DEF Belief, BatteryLike, Uncontrollable, Discrete
  <2> QED
    BY <2>1 DEF Shaped
<1>3. CASE o.kind = "pv"
  <2> DEFINE p2 == Greatest(Zero, Plus(sp[1], Negated(o.Pdelta)))
             m == Times(Sgn(sp[2]), sp[2])
             k == Times(p2, Slope(o))
             q2 == Times(Sgn(sp[2]), Least(m, k))
  <2>1. /\ o.Pdelta \in Number /\ Slope(o) \in Number /\ Sgn(sp[2]) \in Number
        /\ Negated(o.Pdelta) \in Number /\ m \in Number
    BY <1>1, <1>3, ParametersAreNumbers, SlopeType, NumbersClosed
  <2>2. p2 \in Number
    BY <1>1, <2>1, NumbersClosed DEF Greatest
  <2> HIDE DEF p2, m
  <2>3. k \in Number
    BY <2>1, <2>2, NumbersClosed
  <2>4. q2 \in Number
    BY <2>1, <2>3, NumbersClosed DEF Least
  <2>5. Belief(o, sp) = Rectangle(sp, <<p2, q2>>)
    BY <1>3 DEF Belief, PVBelief, BatteryLike, Uncontrollable, Discrete, p2, m
  <2>6. <<p2, q2>> \in Plane
    BY <2>2, <2>4 DEF Plane
  <2> QED
    BY <2>5, <2>6 DEF Shaped
<1>4. CASE o.kind \in Uncontrollable
  <2> DEFINE u == <<Minus(sp[1], o.dPdown), Minus(sp[2], o.dQdown)>>
             w == <<Plus(sp[1], o.dPup), Plus(sp[2], o.dQup)>>
             rows == <<HalfPlane(o)>>
  <2>1. /\ o.Srated \in R /\ u \in Plane /\ w \in Plane
    BY <1>1, <1>4, ParametersAreNumbers, NumbersClosed DEF Plane, Uncontrollable, Discrete
  <2>2. HalfPlane(o) \in Rows
    <3>1. CASE o.kind = "uncontrollableLoad"
      BY <1>1, <3>1 DEF HalfPlane, Rows
    <3>2. CASE o.kind = "uncontrollableGenerator"
      <4>1. o.PmaxAbsorb \in Number
        BY <3>2, ParametersAreNumbers
      <4> QED
        BY <1>1, <3>2, <4>1 DEF HalfPlane, Rows
    <3> QED
      BY <1>4, <3>1, <3>2 DEF Uncontrollable
  <2>3. rows \in Seq(Rows)
    BY <2>2
  <2>4. Belief(o, sp) = Intersection(<<Rectangle(u, w), Disk(o.Srated), Polytope(rows)>>)
    BY <1>4 DEF Belief, UncontrollableBelief, BatteryLike, Uncontrollable, Discrete
  <2> HIDE DEF u, w, rows
  <2> QED
    BY <2>1, <2>3, <2>4 DEF Shaped
<1>5. CASE o.kind = "zenone"
  <2> DEFINE x == Num(result)
             c1 == Frac(95, 1000)
             c2 == Frac(249, 250)
             c3 == Frac(9, 100)
             u == <<x, Minus(Times(c1, x), Num(150))>>
             w == <<Plus(Times(c2, x), Num(100)), Minus(Times(c3, x), Num(40))>>
  <2>1. /\ x \in Number /\ Num(150) \in Number /\ Num(100) \in Number /\ Num(40) \in Number
    BY NumFrac
  <2>2. c1 \in Number /\ c2 \in Number /\ c3 \in Number
    BY FracPositive DEF Positives
  <2> HIDE DEF x, c1, c2, c3
  <2>3. Times(c1, x) \in Number /\ Times(c2, x) \in Number /\ Times(c3, x) \in Number
    BY <2>1, <2>2, NumbersClosed
  <2>4. u \in Plane /\ w \in Plane
    BY <2>1, <2>3, NumbersClosed DEF Plane
  <2>5. Belief(o, sp) = Rectangle(u, w)
    BY <1>5 DEF Belief, ZenoneBelief, BatteryLike, Uncontrollable, Discrete, x, c1, c2, c3
  <2> HIDE DEF u, w
  <2> QED
    BY <2>4, <2>5 DEF Shaped
<1>6. CASE o.kind \in {"discrete", "discreteUnif"}
  <2>1. <<Num(result), sp[2]>> \in Plane
    BY <1>1, NumFrac DEF Plane
  <2>2. Belief(o, sp) = Singleton(<<Num(result), sp[2]>>)
    BY <1>6 DEF Belief, BatteryLike, Uncontrollable, Discrete
  <2> QED
    BY <2>1, <2>2 DEF Shaped
<1> QED
  BY <1>1, <1>2, <1>3, <1>4, <1>5, <1>6 DEF Kinds, Discrete

\* What was boxed is a set that devices advertise.
LEMMA AskedShaped ==
  ASSUME DeviceInv, Advertised, stage = "boxed", PlantSound(order),
         NEW R, order.kind \notin Discrete => order.Srated \in R
  PROVE  Shaped(AskedSet, R)
<1>1. /\ order \in Orders /\ adv.profile = Profile(order) /\ asked.at \in Plane
      /\ Pmin \in Int /\ Pmax \in Int /\ result \in Int
  BY GridAssumption, OriginInPlane DEF Advertised, DeviceInv, TypeOK, Plane
<1>2. Shaped(Profile(order), R) /\ Shaped(Belief(order, asked.at), R)
  BY <1>1, ProfileShaped, BeliefShaped
<1> QED
  BY <1>1, <1>2 DEF AskedSet

(* The boxes of profiles and beliefs have their corners in order.          *)
LEMMA BoxesInOrder ==
  ASSUME \A o \in Orders : PlantSound(o), DeviceInv, Advertised
  PROVE  DevicesTypeOK
<1>1. ASSUME box # NoBox PROVE \A i \in {1, 2} : Leq(box.min[i], box.max[i])
  <2>1. stage = "boxed" /\ box = rectHull(AskedSet)
    BY <1>1 DEF Advertised
  <2>2. order.kind \notin Discrete => order.Srated \in Number
    BY ParametersAreNumbers DEF Advertised, Kinds
  <2>3. Shaped(AskedSet, Number)
    BY <2>1, <2>2, AskedShaped DEF Advertised
  <2> QED
    BY <1>1, <2>1, <2>3, ShapedHull DEF InOrder
<1>2. order.kind \in Discrete => stage # "refused"
  BY DEF Advertised, Illegal, Discrete
<1> QED
  BY <1>1, <1>2 DEF DevicesTypeOK, Advertised, DeviceInv

(* A box has its corners in order, whichever way round the bounds of a     *)
(* rectangle are given and wherever its corners are found (rectHull and    *)
(* computeAABBConvexPolytope), and an order of a discrete device is never  *)
(* refused (makeAdvertisement).                                            *)
THEOREM DevicesTypes ==
  ASSUME \A o \in Orders : PlantSound(o)
  PROVE  DevicesSpec => []DevicesTypeOK
<1>1. DeviceInv /\ Advertised => DevicesTypeOK
  BY BoxesInOrder
<1> QED
  BY <1>1, DeviceInvariant, AdvertisedInvariant, PTL

(* The boxes of profiles and beliefs hold their points.                    *)
LEMMA HullsHold ==
  ASSUME \A o \in Orders : PlantSound(o) /\ RatingSound(o), DeviceInv, Advertised
  PROVE  HullHolds
<1> SUFFICES ASSUME stage = "boxed", NEW p \in Grid, Member(AskedSet, p)
             PROVE  box # NoBox /\ \A i \in {1, 2} : Between(box.min[i], p[i], box.max[i])
  BY DEF HullHolds
<1>1. box = rectHull(AskedSet) /\ order \in Orders /\ p \in Plane
  BY GridAssumption DEF Advertised, Plane
<1>2. order.kind \notin Discrete => order.Srated \in Radii
  BY <1>1, ParametersAreNumbers DEF Kinds, RatingSound, Radii
<1>3. Shaped(AskedSet, Radii)
  BY <1>1, <1>2, AskedShaped
<1> QED
  BY <1>1, <1>3, ShapedHull DEF Boxes, Inside

(* The box of a profile or a belief holds every point of the set and there *)
(* is one whenever the set has a point, for every order whose rating is    *)
(* not negative: std::min and std::max of a rectangle's bounds, the sides  *)
(* of the overlaid boxes as rows beside those of the polytope, and optima  *)
(* at the corners of what they bound.                                      *)
THEOREM HullHoldsCorrect ==
  ASSUME \A o \in Orders : PlantSound(o) /\ RatingSound(o)
  PROVE  DevicesSpec => []HullHolds
<1>1. DeviceInv /\ Advertised => HullHolds
  BY HullsHold
<1> QED
  BY <1>1, DeviceInvariant, AdvertisedInvariant, PTL
==============================================================================
