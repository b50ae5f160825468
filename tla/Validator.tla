------------------------------ MODULE Validator ------------------------------
(***************************************************************************)
(* The validation of an advertisement (AdvValidator), which is a client of *)
(* the interpreter: it sets the advertisement, looks at its parts, boxes   *)
(* its PQ profile and then evaluates the cost and the belief function on   *)
(* random points of the profile.  The interpreter is all of Interpreter,   *)
(* used by a free user or, from the start, by one validator.               *)
(*                                                                         *)
(* A point is the set of the shapes that hold it.                          *)
(***************************************************************************)
EXTENDS Interpreter

CONSTANTS
  Offers,     \* messages: what is to be validated
  Points,     \* points of the box around a profile
  NoBox,      \* sets whose linear programs fail when P and Q are a point; a
              \*   set that depends on neither is one of each point or of none
  Evaluations \* cfEvaluations and bfEvaluations

Shape == {"singleton", "ball", "rectangle", "polytope"}

ASSUME OffersAssumption ==
  \A o \in Offers : /\ o.adv \in Advs /\ Len(o.adv) = 3
                    /\ o.has \subseteq 1 .. 3 /\ o.setpoint \in Nat
                    /\ o.isAdv \in BOOLEAN
ASSUME PointsAssumption ==
  \A p \in Points : \A n \in p : n \in Node /\ Kind[n] \in Shape
ASSUME NoBoxAssumption ==
  /\ DOMAIN NoBox = Points
  /\ \A p \in Points : \A n \in NoBox[p] : n \in Node /\ Solved(n)
ASSUME EvaluationsAssumption == Evaluations \in Nat \ {0}
ASSUME VariablesAssumption == {"P", "Q"} \subseteq Variables

VARIABLES
  client,     \* of the interpreter: "user", or a validator made of a
              \*   "buffer" or of a "reader"
  offer,      \* the message it validates
  verdict,    \* "none", "accept", or "reject" (an exception)
  at,         \* what the validator does: "start", "scan", "box", "sample",
              \*   "cost", "belief" or "end"
  point,      \* randomPoint
  done        \* evaluations so far, of both functions

check == <<client, offer, verdict, at, point, done>>
allvars == <<vars, check>>

profile == adv[1]
belief == adv[2]
cost == adv[3]

ValidatorTypeOK ==
  /\ TypeOK
  /\ client \in {"user", "buffer", "reader"} /\ offer \in Offers
  /\ verdict \in {"none", "accept", "reject"}
  /\ at \in {"start", "scan", "box", "sample", "cost", "belief", "end"}
  /\ point \in Points /\ done \in 0 .. 2 * Evaluations
  /\ client # "user" =>
       /\ verdict # "none" <=> at = "end"
       /\ at = "belief" => done >= Evaluations

ValidatorInit ==
  /\ Init
  /\ client \in {"user", "buffer", "reader"}
  /\ offer \in Offers
  /\ client # "user" => adv = offer.adv
  /\ verdict = "none" /\ at = "start" /\ done = 0 /\ point \in Points
  /\ client = "user" =>     \* these say nothing then
       offer = CHOOSE o \in Offers : TRUE
  /\ point = CHOOSE p \in Points : TRUE

------------------------------------------------------------------------------
(* A step of the interpreter on behalf of a client.  A validator's sets    *)
(* are tested on its point, so their answers are what the point decides;   *)
(* so is whether linear programs of the belief function have a solution.   *)

AtPoint ==
  /\ Busy("decide") => answer' = (node \in point)
  /\ Busy("bounds") /\ Len(stack') < Len(stack) => answer' = (node \in point)
  /\ Busy("solve") =>
       (phase' = phase <=>
          \A p \in IF at = "box" THEN Points ELSE {point} : node \notin NoBox[p])

Interpret ==
  /\ Step
  /\ client # "user" => AtPoint
  /\ UNCHANGED check

Free == client = "user" /\ User /\ UNCHANGED check

Goes(to) == at' = to /\ UNCHANGED <<client, offer, verdict>>

Conclude(v) ==
  /\ verdict' = v /\ at' = "end"
  /\ UNCHANGED <<vars, client, offer, point, done>>

\* The interpreter has returned to the validator.
Returned(step) == client # "user" /\ at = step /\ phase = "idle" /\ outcome = "ok"

\* An exception of the interpreter is one of the validator's constructor.
Failed ==
  /\ client # "user" /\ at # "end"
  /\ phase \in {"idle", "dead"} /\ outcome # "ok" /\ stack = <<>>
  /\ Conclude("reject")

\* The two constructors; the first unpacks the message.
Start ==
  /\ at = "start"
  /\ IF client = "buffer" /\ ~offer.isAdv
     THEN Conclude("reject")
     ELSE /\ IF client = "buffer" THEN setAdv(offer.adv) ELSE client = "reader" /\ Construct
          /\ Goes("scan") /\ UNCHANGED <<point, done>>

\* checkDefinitions
Defined(o) == o.has = 1 .. 3 /\ o.setpoint = 2

\* computeBoundingBoxAroundPQProfile: no variable has a value here.
CheckDefinitions ==
  /\ Returned("scan")
  /\ IF Defined(offer)
     THEN /\ Ask("hull", profile, {})
          /\ Goes("box") /\ UNCHANGED <<point, done>>
     ELSE Conclude("reject")

\* sampleSetpoint: a random point of the box, which is then tested.
Draw(p) ==
  /\ point' = p
  /\ Ask("member", profile, {})
  /\ Goes("sample")

Sample(p) ==
  \/ /\ Returned("box")
     /\ Draw(p) /\ UNCHANGED done
  \/ /\ Returned("cost") \/ Returned("belief")
     /\ done + 1 < 2 * Evaluations
     /\ Draw(p) /\ done' = done + 1

\* MUTANT: the point is drawn once, before the loop.
AgainSame(p) ==
  Returned("sample") /\ ~answer /\ p = point /\ Draw(p) /\ UNCHANGED done

Again(p) == Returned("sample") /\ ~answer /\ Draw(p) /\ UNCHANGED done

\* MUTANT: the functions are evaluated like the profile.
GivenNothing == {}

Given == {"P", "Q"}

Evaluate ==
  /\ Returned("sample") /\ answer
  /\ IF done < Evaluations
     THEN Ask("eval", cost, Given) /\ Goes("cost")
     ELSE Ask("hull", belief, Given) /\ Goes("belief")
  /\ UNCHANGED <<point, done>>

Accept ==
  /\ Returned("belief") /\ done + 1 = 2 * Evaluations
  /\ Conclude("accept")

Validate ==
  \/ Failed \/ Start \/ CheckDefinitions \/ Evaluate \/ Accept
  \/ \E p \in Points : Sample(p) \/ Again(p)

ValidatorNext == Interpret \/ Free \/ Validate

------------------------------------------------------------------------------
(* What the parts of an advertisement mean, by their definitions.          *)

Nodes == [a \in Advs |-> Tree(a)]

Named(a, name, kinds) ==
  {m \in Nodes[a] : Kind[m] \in kinds /\ Name[m] = name /\ name # NoName}

\* A set holds what the sets in S hold.
Holds(a, n, S) ==
  CASE Kind[n] = "intersection" -> \A i \in DOMAIN Kids[n] : Kids[n][i] \in S
    [] Kind[n] = "setref" ->
         /\ Named(a, To[n], SetKind) # {}
         /\ Named(a, To[n], SetKind) \subseteq S
    [] OTHER -> n \in S

HoldMore(a, S) == {n \in Nodes[a] : Holds(a, n, S)}

\* The sets of an advertisement that hold a point: at least the shapes.
Holding ==
  [a \in Advs |-> [p \in Points |->
     LET grow[k \in 0 .. MAX_NESTING_DEPTH] ==
           IF k = 0 THEN p ELSE HoldMore(a, grow[k - 1])
     IN  grow[MAX_NESTING_DEPTH]]]

Feasible == [a \in Advs |-> {p \in Points : a[1] \in Holding[a][p]}]

\* What the evaluation of an expression may go on to.
Onward(a, n) ==
  {Kids[n][i] : i \in DOMAIN Kids[n]}
    \cup (IF Kind[n] = "reference" THEN Named(a, To[n], RealKind) ELSE {})
    \cup (IF Kind[n] = "setref" THEN Named(a, To[n], SetKind) ELSE {})

LeadOn(a, S) == S \cup UNION {Onward(a, n) : n \in S}

\* All expressions that the evaluation of a part may lead to.
Leads ==
  [a \in Advs |-> [part \in DOMAIN a |->
     LET grow[k \in 0 .. MAX_NESTING_DEPTH] ==
           IF k = 0 THEN {a[part]} ELSE LeadOn(a, grow[k - 1])
     IN  grow[MAX_NESTING_DEPTH]]]

\* A name stands for one expression, and one set.
NamesUnique ==
  \A a \in Advs : \A m, n \in Tree(a) :
    /\ Name[m] = Name[n] /\ Name[m] # NoName
    /\ Kind[m] \in RealKind <=> Kind[n] \in RealKind
    => m = n

\* A case distinction needs a case for each point of the profile.
Resolved(a, n, given) ==
  CASE Kind[n] \in {"variable", "polynomial"} -> To[n] \in given
    [] Kind[n] = "reference" -> Named(a, To[n], RealKind) # {}
    [] Kind[n] = "setcase" -> FALSE
    [] Kind[n] = "case" ->
         /\ To[n] \in given
         /\ \A p \in Feasible[a] : \E i \in DOMAIN Kids[n] :
              i % 2 = 1 /\ Kids[n][i] \in Holding[a][p]
    [] OTHER -> TRUE

Computable(a, part, given) == \A n \in Leads[a][part] : Resolved(a, n, given)

\* The sets that get linear programs of their own: a polytope inside another
\* set is merged in it.
Solves(a, part, n) == Kind[n] = "polytope" => n = a[part]

\* The part has a box at all points in P.
Boxable(a, part, given, P) ==
  /\ Computable(a, part, given)
  /\ \A n \in Leads[a][part] :
       Kind[n] # "setref" /\ (Solves(a, part, n) => \A p \in P : n \notin NoBox[p])

\* What an evaluation goes on to whatever the values are: which expression of
\* a case distinction depends on them.
SurelyOnward(a, n) == IF Kind[n] = "case" THEN {} ELSE Onward(a, n)

SurelyOn(a, S) == S \cup UNION {SurelyOnward(a, n) : n \in S}

\* All expressions that the evaluation of a part surely gets to.
Surely ==
  [a \in Advs |-> [part \in DOMAIN a |->
     LET grow[k \in 0 .. MAX_NESTING_DEPTH] ==
           IF k = 0 THEN {a[part]} ELSE SurelyOn(a, grow[k - 1])
     IN  grow[MAX_NESTING_DEPTH]]]

\* No advertisement nests deeper than the limit: all that a part leads to, and
\* all sets that hold a point, are found within as many stages.
WithinReach ==
  \A a \in Advs :
    /\ \A part \in DOMAIN a : /\ LeadOn(a, Leads[a][part]) = Leads[a][part]
                              /\ SurelyOn(a, Surely[a][part]) = Surely[a][part]
    /\ \A p \in Points : HoldMore(a, Holding[a][p]) = Holding[a][p]

\* No error is raised on n itself.
Evident(a, n, given) ==
  /\ Kind[n] \in {"variable", "polynomial", "case"} => To[n] \in given
  /\ Kind[n] = "reference" => Named(a, To[n], RealKind) # {}
  /\ Kind[n] \notin {"setcase", "setref"} /\ n \notin Ragged

\* Nothing that the part surely gets to raises an error when P and Q are one
\* of the points in P.
Usable(a, part, given, P) ==
  \A n \in Surely[a][part] :
    Evident(a, n, given) /\ (Solves(a, part, n) => \A p \in P : n \notin NoBox[p])

(* Cost and belief functions are evaluated on points of the PQ profile     *)
(* only (sampleSetpoint and the membership tests it relies on, with their  *)
(* early exits from intersections and rectangles).                         *)
SampledInside ==
  at \in {"cost", "belief"} => point \in Feasible[adv]

(* What is accepted is complete, and no part of it always raises an error: *)
(* it has a setpoint of two numbers, a profile with a box and with points  *)
(* inside it, which depends on no variable, a cost function with a value   *)
(* as far as it does not depend on cases, and a belief function with a box *)
(* at one of these points (AdvValidator).                                  *)
AcceptedIsUsable ==
  verdict = "accept" =>
    /\ offer.isAdv \/ client = "reader"
    /\ offer.has = 1 .. 3 /\ offer.setpoint = 2
    /\ Usable(adv, 1, {}, Points)
    /\ \E p \in Feasible[adv] : Usable(adv, 2, {"P", "Q"}, {p})
    /\ Usable(adv, 3, {"P", "Q"}, {})

(* Nothing is rejected without cause: not an advertisement, a part or half *)
(* a setpoint missing, something in it that cannot be resolved, a set      *)
(* without a box, or more expressions than the limit on depth              *)
(* (AdvValidator; the daemon in debug mode drops what it rejects).         *)
RejectedForCause ==
  verdict = "reject" =>
    \/ client = "buffer" /\ ~offer.isAdv
    \/ offer.has # 1 .. 3 \/ offer.setpoint # 2
    \/ ~Boxable(adv, 1, {}, Points)
    \/ ~Boxable(adv, 2, {"P", "Q"}, Feasible[adv])
    \/ ~Computable(adv, 3, {"P", "Q"})
    \/ outcome = "depth" /\ visits > MAX_NESTING_DEPTH

(* Validation ends, with a verdict or with the process, if random points   *)
(* hit the profile (the loop of sampleSetpoint has no other end) and no    *)
(* case distinction goes around a cycle of sets (membership would).        *)
ValidationEnds ==
  (client # "user" /\ Feasible[adv] # {}) ~> verdict # "none" \/ phase = "terminated"

\* A random point keeps hitting a profile that has any volume.
Fairness ==
  /\ WF_allvars(Interpret) /\ WF_allvars(Validate)
  /\ SF_allvars(\E p \in Feasible[adv] : Again(p))

ValidatorSpec == ValidatorInit /\ [][ValidatorNext]_allvars /\ Fairness
==============================================================================
