------------------------------- MODULE Devices -------------------------------
(***************************************************************************)
(* The devices that the library can describe (hlapi.cpp), as they reach it *)
(* through the C interface or the daemon, and what the interpreter makes   *)
(* of their advertisements (membership, rectHull).  The discrete devices   *)
(* take the steps of DiscreteDevice to build and evaluate their belief.    *)
(*                                                                         *)
(* A setpoint is a pair <<P, Q>> of fractions.  An order is a record of    *)
(* what the caller asks for: the device's kind, its parameters and the way *)
(* it comes (via).                                                         *)
(***************************************************************************)
EXTENDS DiscreteDevice, Rationals, FiniteSets

CONSTANTS
  Orders,
  Grid        \* setpoints that are asked about

BatteryLike == {"battery", "fuelcell"}
Uncontrollable == {"uncontrollableLoad", "uncontrollableGenerator"}
Discrete == {"discrete", "discreteUnif", "zenone"}
Kinds == BatteryLike \cup {"pv"} \cup Uncontrollable \cup Discrete

\* What each kind is described by: the members of the structs of hlapi.h, or
\* the fields of the JSON objects.
Parameters(o) ==
  CASE o.kind \in BatteryLike -> {"Srated", "Pmin", "Pmax", "coeffP", "coeffPsquared"}
    [] o.kind = "pv" -> {"Srated", "Pmax", "Pdelta", "a", "b",
                         IF o.via = "daemon" THEN "cosPhi" ELSE "tanPhi"}
    [] o.kind \in Uncontrollable ->
         {"Pexp", "Qexp", "Srated", "dPup", "dPdown", "dQup", "dQdown"}
           \cup (IF o.kind = "uncontrollableGenerator" THEN {"PmaxAbsorb"} ELSE {})
    [] o.kind \in Discrete -> {"alpha", "beta"}

ASSUME OrdersAssumption ==
  \A o \in Orders :
    /\ o.kind \in Kinds /\ o.via \in {"api", "daemon"}
    /\ \A f \in Parameters(o) : o[f] \in Number
ASSUME GridAssumption == Grid \subseteq Number \X Number

VARIABLES
  order,
  stage,      \* "ordered", then "refused", or "made" and "boxed"
  adv,        \* the advertisement: profile and cost
  asked,      \* the set that is boxed: "profile", or "belief" at a setpoint
  box         \* its bounding box, or NoBox

devvars == <<order, stage, adv, asked, box>>
allvars == <<vars, devvars>>

------------------------------------------------------------------------------
(* Sets in the PQ plane.                                                   *)

Origin == <<Num(0), Num(0)>>
Singleton(p) == [shape |-> "singleton", at |-> p]
Disk(r) == [shape |-> "ball", center |-> Origin, radius |-> r]
Rectangle(a, b) == [shape |-> "rectangle", a |-> a, b |-> b]
\* Rows <<a1, a2, b>>: those <<P, Q>> with a1 P + a2 Q <= b.
Polytope(rows) == [shape |-> "convexPolytope", rows |-> rows]
Intersection(sets) == [shape |-> "intersection", sets |-> sets]

Below(row, p) == Leq(Plus(Times(row[1], p[1]), Times(row[2], p[2])), row[3])

InPart(set, p) ==
  CASE set.shape = "singleton" -> p = set.at
    [] set.shape = "ball" ->
         Leq(Plus(Squared(Minus(p[1], set.center[1])), Squared(Minus(p[2], set.center[2]))),
             Squared(set.radius))
    [] set.shape = "rectangle" ->
         \A i \in {1, 2} : /\ Leq(Least(set.a[i], set.b[i]), p[i])
                           /\ Leq(p[i], Greatest(set.a[i], set.b[i]))
    [] set.shape = "convexPolytope" -> \A i \in DOMAIN set.rows : Below(set.rows[i], p)

Member(set, p) ==
  IF set.shape = "intersection" THEN \A i \in DOMAIN set.sets : InPart(set.sets[i], p)
  ELSE InPart(set, p)

------------------------------------------------------------------------------
(* What is advertised.                                                     *)

\* Profile: a disk between two lines.
BatteryProfile(o) ==
  Intersection(<<Disk(o.Srated),
                 Polytope(<< <<One, Zero, o.Pmax>>,
                             <<Negated(One), Zero, Negated(o.Pmin)>> >>)>>)

\* MUTANT: the quotient is upside down.
TanPhiOver(cos) ==
  LET sin == CHOOSE s \in {Frac(n, cos[2]) : n \in 0 .. cos[2]} :
               Squared(s) = Minus(One, Squared(cos))
  IN  Times(cos, Reciprocal(sin))

\* tan(phi) = sqrt(1 - cos(phi)^2) / cos(phi), where it is a fraction.
TanPhi(cos) ==
  LET sin == CHOOSE s \in {Frac(n, cos[2]) : n \in 0 .. cos[2]} :
               Squared(s) = Minus(One, Squared(cos))
  IN  Times(sin, Reciprocal(cos))

\* The daemon is given the power factor, the interface its angle.
Slope(o) == IF o.via = "daemon" THEN TanPhi(o.cosPhi) ELSE o.tanPhi

\* A triangle, and a disk.
PVProfile(o) ==
  Intersection(<<Polytope(<< <<One, Zero, o.Pmax>>,
                             <<Negated(Slope(o)), One, Zero>>,
                             <<Negated(Slope(o)), Negated(One), Zero>> >>),
                 Disk(o.Srated)>>)

UncontrollableProfile(o) == Singleton(<<o.Pexp, o.Qexp>>)

DiscreteProfile ==
  Rectangle(<<Num(Pmin), Zero>>, <<Num(Pmax), Zero>>)

Profile(o) ==
  CASE o.kind \in BatteryLike -> BatteryProfile(o)
    [] o.kind = "pv" -> PVProfile(o)
    [] o.kind \in Uncontrollable -> UncontrollableProfile(o)
    [] o.kind \in Discrete -> DiscreteProfile

\* MUTANT: a drop of more than P leaves a production below zero.
PVBeliefUnclipped(o, sp) ==
  LET p2 == Minus(sp[1], o.Pdelta)
      q2 == Times(Sgn(sp[2]), Least(Times(Sgn(sp[2]), sp[2]), Times(p2, Slope(o))))
  IN  Rectangle(sp, <<p2, q2>>)

\* The production may drop by Pdelta, and Q with it.
PVBelief(o, sp) ==
  LET p2 == Greatest(Zero, Plus(sp[1], Negated(o.Pdelta)))
      q2 == Times(Sgn(sp[2]), Least(Times(Sgn(sp[2]), sp[2]), Times(p2, Slope(o))))
  IN  Rectangle(sp, <<p2, q2>>)

\* A load does not produce; a generator consumes PmaxAbsorb at most.
HalfPlane(o) ==
  IF o.kind = "uncontrollableLoad" THEN <<One, Zero, Zero>>
  ELSE <<Negated(One), Zero, o.PmaxAbsorb>>

UncontrollableBelief(o, sp) ==
  Intersection(<<Rectangle(<<Minus(sp[1], o.dPdown), Minus(sp[2], o.dQdown)>>,
                           <<Plus(sp[1], o.dPup), Plus(sp[2], o.dQup)>>),
                 Disk(o.Srated),
                 Polytope(<<HalfPlane(o)>>)>>)

\* Bounds in terms of the lower bound of P, which is named for it.
ZenoneBelief(x) ==
  Rectangle(<<x, Minus(Times(Frac(95, 1000), x), Num(150))>>,
            <<Plus(Times(Frac(249, 250), x), Num(100)),
              Minus(Times(Frac(9, 100), x), Num(40))>>)

Belief(o, sp) ==
  CASE o.kind \in BatteryLike -> Singleton(sp)
    [] o.kind = "pv" -> PVBelief(o, sp)
    [] o.kind \in Uncontrollable -> UncontrollableBelief(o, sp)
    [] o.kind = "zenone" -> ZenoneBelief(Num(result))
    [] o.kind \in {"discrete", "discreteUnif"} -> Singleton(<<Num(result), sp[2]>>)

Quadratic(pp, p, qq) == [pp |-> pp, p |-> p, qq |-> qq]

Tiny(alpha) == Leq(Times(Sgn(alpha), alpha), Frac(1, 1000000))

\* MUTANT: the derivative's factor is forgotten.
NormalizedByAlpha(alpha, beta) ==
  IF Tiny(alpha) THEN Quadratic(Zero, Zero, Zero)
  ELSE Quadratic(Frac(1, 2), Times(beta, Reciprocal(alpha)), Zero)

\* alpha P^2 + beta P over 2 alpha, but none when alpha is next to zero.
Normalized(alpha, beta) ==
  IF Tiny(alpha) THEN Quadratic(Zero, Zero, Zero)
  ELSE Quadratic(Frac(1, 2), Times(beta, Reciprocal(Times(Num(2), alpha))), Zero)

CostFunction(o) ==
  CASE o.kind \in BatteryLike -> Normalized(o.coeffPsquared, o.coeffP)
    [] o.kind = "pv" -> Quadratic(Zero, Negated(o.a), o.b)
    [] o.kind \in Uncontrollable -> Quadratic(Zero, Zero, Zero)
    [] o.kind \in Discrete -> Normalized(o.alpha, o.beta)

Cost(f, sp) ==
  Plus(Plus(Times(f.pp, Squared(sp[1])), Times(f.p, sp[1])), Times(f.qq, Squared(sp[2])))

------------------------------------------------------------------------------
(* Bounding boxes: AdvFunc::rectHull, with exact linear programs.          *)

NoBox == [min |-> <<NotFinite, NotFinite>>, max |-> <<NotFinite, NotFinite>>]

\* MUTANT: the bounds of a rectangle are taken as they come.
BoxOfAsGiven(set) ==
  CASE set.shape = "singleton" -> [min |-> set.at, max |-> set.at]
    [] set.shape = "ball" ->
         [min |-> [i \in {1, 2} |-> Minus(set.center[i], set.radius)],
          max |-> [i \in {1, 2} |-> Plus(set.center[i], set.radius)]]
    [] set.shape = "rectangle" -> [min |-> set.a, max |-> set.b]

BoxOf(set) ==
  CASE set.shape = "singleton" -> [min |-> set.at, max |-> set.at]
    [] set.shape = "ball" ->
         [min |-> [i \in {1, 2} |-> Minus(set.center[i], set.radius)],
          max |-> [i \in {1, 2} |-> Plus(set.center[i], set.radius)]]
    [] set.shape = "rectangle" ->
         [min |-> [i \in {1, 2} |-> Least(set.a[i], set.b[i])],
          max |-> [i \in {1, 2} |-> Greatest(set.a[i], set.b[i])]]

\* What boxes have in common.
Overlap(boxes) ==
  [min |-> [i \in {1, 2} |-> GreatestOf({b.min[i] : b \in boxes})],
   max |-> [i \in {1, 2} |-> LeastOf({b.max[i] : b \in boxes})]]

\* MUTANT: the minima keep their sign.
SidesUnsigned(b) ==
  << <<One, Zero, b.max[1]>>, <<Zero, One, b.max[2]>>,
     <<Negated(One), Zero, b.min[1]>>, <<Zero, Negated(One), b.min[2]>> >>

\* identity and minus identity, against the maxima and minima
Sides(b) ==
  << <<One, Zero, b.max[1]>>, <<Zero, One, b.max[2]>>,
     <<Negated(One), Zero, Negated(b.min[1])>>,
     <<Zero, Negated(One), Negated(b.min[2])>> >>

\* Where two lines meet (Cramer's rule).
Meet(r, s) ==
  LET det(a, b) == Minus(Times(r[a], s[b]), Times(r[b], s[a]))
      d == Reciprocal(det(1, 2))
  IN  <<Times(det(3, 2), d), Times(det(1, 3), d)>>

Corners(rows) ==
  {p \in {Meet(rows[i], rows[j]) : i, j \in DOMAIN rows} :
    p[1] # NotFinite /\ p[2] # NotFinite /\ \A i \in DOMAIN rows : Below(rows[i], p)}

\* computeAABBConvexPolytope: four optima, at corners when the polytope is
\* bounded; an infeasible program throws.
Solved(rows) ==
  LET corners == Corners(rows)
  IN  IF corners = {} THEN NoBox
      ELSE [min |-> [i \in {1, 2} |-> LeastOf({p[i] : p \in corners})],
            max |-> [i \in {1, 2} |-> GreatestOf({p[i] : p \in corners})]]

\* The sets of an intersection: the boxes of the bounded ones are overlaid
\* and become constraints besides those of the polytope, of which devices
\* have one.
HullOf(sets) ==
  LET linear == {k \in DOMAIN sets : sets[k].shape = "convexPolytope"}
      rest == Overlap({BoxOf(sets[k]) : k \in DOMAIN sets \ linear})
  IN  IF linear = {} THEN rest
      ELSE Solved(sets[CHOOSE k \in linear : TRUE].rows \o Sides(rest))

rectHull(set) ==
  IF set.shape = "intersection" THEN HullOf(set.sets) ELSE BoxOf(set)

------------------------------------------------------------------------------
\* Other devices take no steps of DiscreteDevice.
NoSteps ==
  /\ pc = "off" /\ policy = "proj" /\ points = <<>> /\ step = 1 /\ error = 0
  /\ Pmin = 0 /\ Pmax = 0 /\ cases = <<>> /\ P = 0 /\ c = 1 /\ result = 0

DevicesInit ==
  /\ order \in Orders
  /\ IF order.kind \in Discrete
       THEN policy = (IF order.kind = "discrete" THEN "proj" ELSE "round") /\ Init
       ELSE NoSteps
  /\ stage = "ordered"
  /\ adv = [profile |-> Singleton(Origin), cost |-> Quadratic(Zero, Zero, Zero)]
  /\ asked = [of |-> "profile", at |-> Origin]
  /\ box = NoBox

\* Only the C interface looks at the parameters.
Illegal(o) ==
  /\ o.via = "api"
  /\ \/ o.kind = "fuelcell" /\ (o.Pmin[1] < 0 \/ o.Pmax[1] < 0)
     \/ o.kind = "pv" /\ (~Positive(o.a) \/ ~Positive(o.b))

Refuse ==
  /\ stage = "ordered" /\ Illegal(order)
  /\ stage' = "refused"
  /\ UNCHANGED <<vars, order, adv, asked, box>>

\* A discrete device has its belief built in between.
Make ==
  /\ stage = "ordered" /\ ~Illegal(order)
  /\ order.kind \in Discrete => pc = "ready"
  /\ adv' = [profile |-> Profile(order), cost |-> CostFunction(order)]
  /\ stage' = "made"
  /\ UNCHANGED <<vars, order, asked, box>>

\* makeBelief before, evaluation after it is made.
DiscreteStep ==
  /\ order.kind \in Discrete
  /\ stage = "made" \/ (stage = "ordered" /\ pc \in {"start", "build"})
  /\ Next
  /\ UNCHANGED devvars

\* The belief of a discrete device has been evaluated at P.
Evaluated(sp) == order.kind \in Discrete => pc = "answered" /\ sp[1] = Num(P)

Box ==
  /\ stage = "made"
  /\ \/ /\ asked' = [of |-> "profile", at |-> Origin]
        /\ box' = rectHull(adv.profile)
     \/ \E sp \in Grid :
          /\ Evaluated(sp)
          /\ asked' = [of |-> "belief", at |-> sp]
          /\ box' = rectHull(Belief(order, sp))
  /\ stage' = "boxed"
  /\ UNCHANGED <<vars, order, adv>>

DevicesNext == Refuse \/ Make \/ DiscreteStep \/ Box

DevicesSpec == DevicesInit /\ [][DevicesNext]_allvars
------------------------------------------------------------------------------
(* What was asked for is what goes with the order, and a box has its       *)
(* corners in order (makeAdvertisement and the create functions; rectHull).*)
DevicesTypeOK ==
  /\ TypeOK
  /\ order \in Orders
  /\ stage \in {"ordered", "refused", "made", "boxed"}
  /\ order.kind \in Discrete => stage \in {"ordered", "made", "boxed"}
  /\ asked.at \in Grid \cup {Origin}
  /\ box # NoBox => \A i \in {1, 2} : Leq(box.min[i], box.max[i])

\* The advertisement stays as it was made.
JustMade == stage = "made" /\ pc \in {"off", "ready"}

InRating(o, sp) == Leq(Plus(Squared(sp[1]), Squared(sp[2])), Squared(o.Srated))
Between(a, x, b) == Leq(a, x) /\ Leq(x, b)

\* cos(phi) is the least ratio of active to apparent power.
InPowerFactor(cos, sp) ==
  Leq(Times(Squared(cos), Plus(Squared(sp[1]), Squared(sp[2]))), Squared(sp[1]))

\* A power factor whose angle has a fraction for its sine.
PowerFactor(cos) ==
  /\ Positive(cos) /\ Leq(cos, One)
  /\ \E s \in {Frac(n, cos[2]) : n \in 0 .. cos[2]} : Squared(s) = Minus(One, Squared(cos))

\* What a caller has to say of a plant: the code does not look.
PlantSound(o) ==
  o.kind = "pv" => IF o.via = "daemon" THEN PowerFactor(o.cosPhi) ELSE Leq(Zero, o.tanPhi)

\* What the device can be set to.
Able(o, sp) ==
  CASE o.kind \in BatteryLike ->
         /\ Between(o.Pmin, sp[1], o.Pmax) /\ InRating(o, sp)
         /\ o.kind = "fuelcell" /\ o.via = "api" => Leq(Zero, sp[1])
    [] o.kind = "pv" ->
         /\ Between(Zero, sp[1], o.Pmax) /\ InRating(o, sp)
         /\ IF o.via = "daemon" THEN InPowerFactor(o.cosPhi, sp)
            ELSE Leq(Size(sp[2]), Times(sp[1], o.tanPhi))
    [] o.kind \in Uncontrollable -> sp = <<o.Pexp, o.Qexp>>
    [] o.kind \in Discrete -> Between(Num(Pmin), sp[1], Num(Pmax)) /\ sp[2] = Zero

\* The sides of the triangle of a power factor of one are one line.
Flat(o) == o.kind = "pv" /\ Slope(o) = Zero

(* A profile holds the setpoints that the device can be set to and no      *)
(* other, but for a photovoltaic plant with a power factor of one, whose   *)
(* profile goes on below zero (the matrices and disks of                   *)
(* _BatteryAdvertisement and _PVAdvertisement, the conversion to tan(phi), *)
(* the check of makeFuelCellAdvertisement).                                *)
ProfileMeant ==
  JustMade =>
    \A sp \in Grid :
      \/ Member(adv.profile, sp) <=> Able(order, sp)
      \/ Flat(order) /\ sp[1][1] < 0 /\ sp[2] = Zero

\* What the device may do when it is set to sp.
Responses(o, sp) ==
  CASE o.kind \in BatteryLike -> {sp}
    [] o.kind = "pv" ->
         {<<p, IF Leq(Size(sp[2]), Times(p, Slope(o))) THEN sp[2]
               ELSE Times(Sgn(sp[2]), Times(p, Slope(o)))>> :
           p \in {x \in {g[1] : g \in Grid} :
                    Between(Zero, x, sp[1]) /\ Leq(Minus(sp[1], o.Pdelta), x)}}
    [] o.kind \in Uncontrollable ->
         {r \in Grid :
           /\ Between(Negated(o.dPdown), Minus(r[1], sp[1]), o.dPup)
           /\ Between(Negated(o.dQdown), Minus(r[2], sp[2]), o.dQup)
           /\ InRating(o, r)
           /\ IF o.kind = "uncontrollableLoad" THEN Leq(r[1], Zero)
              ELSE Leq(Negated(o.PmaxAbsorb), r[1])}

\* What a caller has to say of a device that drifts: the code does not look.
DriftSound(o) ==
  /\ o.kind = "pv" => Leq(Zero, o.Pdelta)
  /\ o.kind \in Uncontrollable =>
       Leq(Negated(o.dPdown), o.dPup) /\ Leq(Negated(o.dQdown), o.dQup)

(* Whatever a device may do when it is set to a point of its profile is in *)
(* its belief, and it is believed to take no active power that it cannot:  *)
(* a plant that loses up to Pdelta of its production and the reactive      *)
(* power with it, a load or generator that drifts (the named bound and     *)
(* sgn(q) min(|q|, p2 tan phi) of _PVAdvertisement, the half-plane of      *)
(* _uncontrollableResource).                                               *)
ResponsesBelieved ==
  JustMade /\ order.kind \notin Discrete =>
    \A sp \in {x \in Grid : Able(order, x)} :
      LET believed == Belief(order, sp)
          responses == Responses(order, sp)
      IN  /\ \A r \in responses : Member(believed, r)
          /\ \A r \in Grid : Member(believed, r) => \E x \in responses : x[1] = r[1]

AskedSet == IF asked.of = "profile" THEN adv.profile ELSE Belief(order, asked.at)

\* A rating is a radius: the code does not look.
RatingSound(o) == o.kind \notin Discrete => Leq(Zero, o.Srated)

(* The box of a set holds every point of it, and there is one whenever the *)
(* set has a point: bounds in either order, a disk and a polytope that is  *)
(* unbounded by itself (rectHull and computeAABBConvexPolytope against     *)
(* membership).                                                            *)
HullHolds ==
  stage = "boxed" =>
    \A p \in Grid : Member(AskedSet, p) =>
      box # NoBox /\ \A i \in {1, 2} : Between(box.min[i], p[i], box.max[i])

Curve(o, x) ==
  IF o.kind \in BatteryLike
    THEN Plus(Times(o.coeffPsquared, Squared(x)), Times(o.coeffP, x))
    ELSE Plus(Times(o.alpha, Squared(x)), Times(o.beta, x))
Leading(o) == IF o.kind \in BatteryLike THEN o.coeffPsquared ELSE o.alpha

\* What is left of a curve's order once it is divided by 2 alpha: all of it, its
\* reverse if the curve opens downwards, nothing if alpha is within 1e-6 of zero.
NoWorse(o, x, y) ==
  \/ Tiny(Leading(o))
  \/ Positive(Leading(o)) /\ Leq(Curve(o, x), Curve(o, y))
  \/ ~Positive(Leading(o)) /\ Leq(Curve(o, y), Curve(o, x))

(* The cost that is advertised for a battery, a fuel cell or a discrete    *)
(* device orders its setpoints as the curve alpha P^2 + beta P does if     *)
(* alpha > 1e-6, the other way round if alpha < -1e-6, and not at all in   *)
(* between, also where the curve does (the normalization by 2 alpha and    *)
(* the zero cost, hlapi.cpp:588-603); a plant of the C interface prefers   *)
(* to produce more active and less reactive power (the checks of a_pv and  *)
(* b_pv, which the daemon does without).                                   *)
CostOrders ==
  JustMade =>
    CASE order.kind \in BatteryLike \cup Discrete ->
           \A x, y \in {g[1] : g \in Grid} :
             Leq(Cost(adv.cost, <<x, One>>), Cost(adv.cost, <<y, Zero>>))
               <=> NoWorse(order, x, y)
      [] order.kind = "pv" /\ order.via = "api" ->
           \A a, b \in Grid :
             /\ Leq(b[1], a[1]) /\ Leq(Size(a[2]), Size(b[2]))
             /\ a[1] # b[1] \/ Size(a[2]) # Size(b[2])
             => Less(Cost(adv.cost, a), Cost(adv.cost, b))
      [] OTHER -> TRUE
==============================================================================
