----------------------------- MODULE Interpreter -----------------------------
(***************************************************************************)
(* The advertisement interpreter (commelec-interpreter, class AdvFunc):    *)
(* how its functions walk over the expressions of an advertisement, the    *)
(* names they look up, and the one counter that all of them share and that *)
(* is to end a walk along a cycle of references.  The numbers computed are *)
(* left out; what they decide is a choice.  The numbers of one set are     *)
(* evaluated in the order of its subexpressions; a polytope that is merged *)
(* in an intersection has its vector first in the code, which only tells   *)
(* which of two errors it raises.                                          *)
(*                                                                         *)
(* A call of one of the recursive functions is a task on a stack, which    *)
(* holds what is still to be done, the next task first.                    *)
(***************************************************************************)
EXTENDS Naturals, Sequences

CONSTANTS
  Node,       \* the expressions of all advertisements
  Kind,       \* which member of the union an expression is
  Kids,       \* its subexpressions, in order
  Name,       \* its name
  To,         \* what a reference refers to, the variable of the others
  NoName,
  Empty,      \* a default-constructed SetExpr reader
  Ragged,     \* polytopes with a matrix whose rows differ in length
  Advs,       \* advertisements: sequences of their expressions
  Variables,  \* those a call may give values to
  MAX_NESTING_DEPTH, MaxIterations

RealKind == {"real", "variable", "polynomial", "linear", "curved", "sign",
  "sum", "prod2", "less", "min", "pow", "prod", "case", "reference"}
SetKind == {"singleton", "ball", "rectangle", "polytope", "intersection",
  "setcase", "setref"}

ASSUME GraphAssumption ==
  /\ Kind \in [Node -> RealKind \cup SetKind]
  /\ Kids \in [Node -> Seq(Node)]
  /\ Empty \in Node /\ Kind[Empty] = "singleton" /\ Kids[Empty] = <<>>
  /\ Advs \subseteq Seq(Node)
\* Cases are pairs of a set and an expression, boundaries of two bounds; a
\* reference is a name, and the rest of a polynomial numbers.
ASSUME ShapeAssumption ==
  \A n \in Node :
    /\ Kind[n] \in {"case", "rectangle"} => Len(Kids[n]) % 2 = 0
    /\ Kind[n] \in {"prod2", "min"} => Len(Kids[n]) = 2
    /\ Kind[n] \in {"reference", "setref", "variable", "polynomial"} => Kids[n] = <<>>
ASSUME RaggedAssumption == \A n \in Ragged : n \in Node /\ Kind[n] = "polytope"
ASSUME LimitsAssumption ==
  MAX_NESTING_DEPTH \in Nat \ {0} /\ MaxIterations \in Nat \ {0}

Strict == {"scan", "eval", "derive", "hull"}   \* throw at the limit
Lax == {"member", "proj"}                      \* start again from zero
Inner == {"reset", "cases", "branch", "decide", "and", "bounds", "outside",
  "dykstra", "converged", "merge", "matrix", "solve"}

VARIABLES
  adv,        \* _adv
  realRefs,   \* _real_expr_refs
  setRefs,    \* _set_expr_refs
  values,     \* the variables that the current call gives values to
  depth,      \* _nesting_depth
  stack,      \* the tasks
  answer,     \* what the last membership function returned
  phase,      \* "none", "constructing", "idle", "running" or "dead", or
              \*   "terminated" like the whole process
  outcome,    \* how the last call of the user ended
  visits      \* history: functions entered since the counter was last cleared

vars == <<adv, realRefs, setRefs, values, depth, stack, answer, phase, outcome,
          visits>>
refs == <<realRefs, setRefs>>

Init ==
  /\ adv \in Advs
  /\ realRefs = <<>> /\ setRefs = <<>> /\ values = {}
  /\ depth = 0 /\ visits = 0 /\ stack = <<>> /\ answer = FALSE
  /\ phase = "none" /\ outcome = "none"

------------------------------------------------------------------------------
(* Tasks                                                                   *)

Task(do, n) == [do |-> do, node |-> n, rest |-> <<>>, then |-> do, k |-> 0]
Each(do, ns) == [i \in DOMAIN ns |-> Task(do, ns[i])]

top == Head(stack)
node == top.node

Busy(do) == stack # <<>> /\ top.do = do

Continue(tasks) == stack' = tasks \o Tail(stack)

\* An exception leaves through all the calls; a constructor leaves no object.
Raise(error) ==
  /\ stack' = <<>> /\ outcome' = error
  /\ phase' = IF phase = "constructing" THEN "dead" ELSE "idle"
  /\ UNCHANGED <<adv, refs, values, answer>>

\* throw; without an exception in flight ends the process.
Terminate ==
  /\ stack' = <<>> /\ outcome' = "terminated" /\ phase' = "terminated"
  /\ UNCHANGED <<adv, refs, values, answer>>

Capped(n) == IF n > MAX_NESTING_DEPTH THEN n ELSE n + 1

\* MUTANT: the limit is looked at, not enforced.
OverNever == FALSE

\* ++_nesting_depth; if (_nesting_depth > MAX_NESTING_DEPTH)
Over == depth + 1 > MAX_NESTING_DEPTH

Enter ==
  /\ visits' = Capped(visits)
  /\ depth' = IF Over /\ top.do \in Lax THEN 0 ELSE Capped(depth)

TooDeep ==
  /\ stack # <<>> /\ top.do \in Strict /\ Over
  /\ Enter
  /\ Raise("depth")

\* One of these functions is entered, and is not too deep.
Call(do) == Busy(do) /\ (do \in Lax \/ ~Over) /\ Enter

Keep == UNCHANGED <<adv, values, phase, outcome>>
Pure == Keep /\ UNCHANGED <<refs, answer>>
NoEntry == UNCHANGED <<depth, visits>>

------------------------------------------------------------------------------
(* findReferences                                                          *)

\* MUTANT: one map for both kinds.
EnlistAny(f, n, kinds) ==
  IF Name[n] # NoName
  THEN [y \in DOMAIN f \cup {Name[n]} |-> IF y = Name[n] THEN n ELSE f[y]]
  ELSE f

Put(f, x, v) == [y \in DOMAIN f \cup {x} |-> IF y = x THEN v ELSE f[y]]

Enlist(f, n, kinds) ==
  IF Name[n] # NoName /\ Kind[n] \in kinds THEN Put(f, Name[n], n) ELSE f

\* MUTANT: the sets of a case distinction are not looked at.
ScanExpressions(n) ==
  IF Kind[n] \in {"case", "setcase"} THEN <<Kids[n][2]>> ELSE Kids[n]

\* Every kind of expression is traversed.
Scanned(n) == Kids[n]

Scan ==
  /\ Call("scan")
  /\ realRefs' = Enlist(realRefs, node, RealKind)
  /\ setRefs' = Enlist(setRefs, node, SetKind)
  /\ Continue(Each("scan", Scanned(node)))
  /\ Keep /\ UNCHANGED answer

\* The counter is cleared after each expression of the advertisement.
Reset ==
  /\ Busy("reset")
  /\ depth' = 0 /\ visits' = 0
  /\ Continue(<<>>)
  /\ Pure

\* Scanning an advertisement: profile, belief function, cost function.
ScanAll(a) ==
  [i \in 1 .. 2 * Len(a) |-> IF i % 2 = 1 THEN Task("scan", a[(i + 1) \div 2])
                                          ELSE Task("reset", Empty)]

Construct ==
  /\ phase = "none"
  /\ phase' = "constructing"
  /\ stack' = ScanAll(adv)
  /\ depth' = 0 /\ visits' = 0
  /\ UNCHANGED <<adv, refs, values, answer, outcome>>

\* Also of a default-constructed object, which has no advertisement yet.
setAdv(a) ==
  /\ phase \in {"none", "idle"}
  /\ adv' = a /\ phase' = "running"
  /\ stack' = ScanAll(a)
  /\ depth' = 0 /\ visits' = 0
  /\ UNCHANGED <<refs, values, answer, outcome>>

------------------------------------------------------------------------------
(* eval and evalPartialDerivative                                          *)

Known(n) == To[n] \in values

\* What evaluating an expression, not a case or a reference, calls for.
EvalKids == RealKind \ {"case", "reference", "variable", "polynomial"}

Eval ==
  /\ Call("eval") /\ Kind[node] \in EvalKids
  /\ Continue(Each("eval", Kids[node]))
  /\ Pure

\* The calls that the derivative makes; a variable of a polynomial that is
\* not the one of the derivative makes it zero.
DeriveCalls(n) ==
  LET e == Each("eval", Kids[n])
      d == Each("derive", Kids[n])
  IN  CASE Kind[n] \in {"linear", "sum"} -> {d}
        [] Kind[n] \in {"curved", "pow", "prod"} -> {e \o d}
        [] Kind[n] = "prod2" -> {<<e[1], d[2], e[2], d[1]>>}
        [] Kind[n] = "min" -> {Append(e, d[1]), Append(e, d[2])}
        [] OTHER -> {<<>>}

Derive ==
  /\ Call("derive") /\ Kind[node] \in EvalKids
  /\ \E calls \in DeriveCalls(node) : Continue(calls)
  /\ Pure

Variable ==
  /\ Call("eval") \/ Call("derive")
  /\ Kind[node] \in {"variable", "polynomial"}
  /\ IF Known(node) THEN Continue(<<>>) /\ Pure ELSE Raise("unknown_variable")

\* The derivative of a polynomial that lacks the variable.
OtherVariable ==
  /\ Call("derive") /\ Kind[node] = "polynomial"
  /\ Continue(<<>>)
  /\ Pure

\* A case distinction needs values for its variables, then goes through its
\* sets and expressions in turn.
CaseDistinction ==
  /\ Call("eval") \/ Call("derive")
  /\ Kind[node] = "case"
  /\ IF Known(node)
     THEN /\ Continue(<<[Task("cases", node) EXCEPT !.rest = Kids[node],
                                                    !.then = top.do]>>)
          /\ Pure
     ELSE Raise("unbound")

TestCase ==
  /\ Busy("cases")
  /\ IF top.rest = <<>>
     THEN Raise("unhandled")
     ELSE /\ Continue(<<Task("member", Head(top.rest)),
                        [top EXCEPT !.do = "branch"]>>)
          /\ Pure
  /\ NoEntry

Branch ==
  /\ Busy("branch")
  /\ Continue(<<IF answer THEN Task(top.then, top.rest[2])
                ELSE [top EXCEPT !.do = "cases",
                                 !.rest = SubSeq(top.rest, 3, Len(top.rest))]>>)
  /\ Pure /\ NoEntry

\* MUTANT: a name that is not in the map gives a default reader's number.
ReferenceDefault ==
  /\ Call("eval") \/ Call("derive")
  /\ Kind[node] = "reference"
  /\ Continue(IF To[node] \in DOMAIN realRefs
              THEN <<Task(top.do, realRefs[To[node]])>> ELSE <<>>)
  /\ Pure

Reference ==
  /\ Call("eval") \/ Call("derive")
  /\ Kind[node] = "reference"
  /\ IF To[node] \in DOMAIN realRefs
     THEN Continue(<<Task(top.do, realRefs[To[node]])>>) /\ Pure
     ELSE Raise("unknown_reference")

------------------------------------------------------------------------------
(* membership                                                              *)

\* A point is compared once all numbers of the set are evaluated.
MemberShape ==
  /\ Call("member") /\ Kind[node] \in {"singleton", "ball", "polytope"}
  /\ node \notin Ragged
  /\ Continue(Append(Each("eval", Kids[node]), Task("decide", node)))
  /\ Pure

Decide ==
  /\ Busy("decide")
  /\ answer' \in BOOLEAN
  /\ Continue(<<>>)
  /\ Keep /\ NoEntry /\ UNCHANGED refs

MemberParts ==
  /\ Call("member") /\ Kind[node] \in {"rectangle", "intersection"}
  /\ LET do == IF Kind[node] = "rectangle" THEN "bounds" ELSE "and"
     IN  Continue(<<[Task(do, node) EXCEPT !.rest = Kids[node]]>>)
  /\ answer' = TRUE
  /\ Keep /\ UNCHANGED refs

\* An interval per coordinate, until the point is outside one.
Bounds ==
  /\ Busy("bounds")
  /\ \/ /\ top.rest = <<>>
        /\ Continue(<<>>) /\ answer' = TRUE
     \/ /\ top.rest # <<>>
        /\ Continue(Each("eval", SubSeq(top.rest, 1, 2)) \o
             <<[top EXCEPT !.rest = SubSeq(@, 3, Len(@)), !.k = 1]>>)
        /\ UNCHANGED answer
     \/ /\ top.k = 1
        /\ Continue(<<>>) /\ answer' = FALSE
  /\ Keep /\ NoEntry /\ UNCHANGED refs

\* MUTANT: no early exit.
AndAll ==
  /\ Busy("and")
  /\ Continue(IF top.rest = <<>> THEN <<>>
              ELSE <<Task("member", Head(top.rest)), [top EXCEPT !.rest = Tail(@)]>>)
  /\ Pure /\ NoEntry

\* Set by set, until the point is outside one; the last set decides.
And ==
  /\ Busy("and")
  /\ Continue(IF ~answer \/ top.rest = <<>> THEN <<>>
              ELSE <<Task("member", Head(top.rest))>> \o
                   IF Len(top.rest) = 1 THEN <<>>
                   ELSE <<[top EXCEPT !.rest = Tail(@)]>>)
  /\ Pure /\ NoEntry

\* A name that is not in the map is put there, for a default reader.
MemberReference ==
  /\ Call("member") /\ Kind[node] = "setref"
  /\ setRefs' = IF To[node] \in DOMAIN setRefs THEN setRefs
                ELSE Put(setRefs, To[node], Empty)
  /\ Continue(<<Task("member", setRefs'[To[node]])>>)
  /\ Keep /\ UNCHANGED <<realRefs, answer>>

Undefined(do) == IF do = "member" THEN {"setcase"} ELSE {"setcase", "setref"}

WhichError ==
  /\ \E do \in {"member", "proj", "hull"} :
       Call(do) /\ Kind[node] \in Undefined(do)
  /\ Raise("which")

------------------------------------------------------------------------------
(* proj                                                                    *)

ProjectDirect ==
  /\ Call("proj") /\ Kind[node] \in {"singleton", "rectangle"}
  /\ Continue(Each("eval", Kids[node]))
  /\ Pure

\* The other sets are left alone by a point inside.
ProjectFromOutside ==
  /\ Call("proj") /\ Kind[node] \in {"ball", "polytope", "intersection"}
  /\ node \notin Ragged
  /\ IF Kind[node] = "intersection"
     THEN /\ Continue(<<[Task("and", node) EXCEPT !.rest = Kids[node]],
                        Task("outside", node)>>)
          /\ answer' = TRUE
     ELSE /\ Continue(Each("eval", Kids[node]) \o
                      <<Task("decide", node), Task("outside", node)>>)
          /\ UNCHANGED answer
  /\ Keep /\ UNCHANGED refs

Outside ==
  /\ Busy("outside")
  /\ Continue(
       IF answer THEN <<>>
       ELSE CASE Kind[node] = "intersection" -> <<Task("dykstra", node)>>
              [] Kind[node] = "polytope" ->
                   Append(Each("eval", Kids[node]), Task("converged", node))
              [] OTHER -> Each("eval", Kids[node]))
  /\ Pure /\ NoEntry

Exhausted == top.k = MaxIterations

\* One round of Dykstra's algorithm after the other.
Dykstra ==
  /\ Busy("dykstra")
  /\ \/ top.k > 0 /\ Continue(<<>>) /\ Pure
     \/ Exhausted /\ Raise("no_convergence")
     \/ /\ ~Exhausted
        /\ Continue(Append(Each("proj", Kids[node]),
                           [top EXCEPT !.k = @ + 1]))
        /\ Pure
  /\ NoEntry

\* The same algorithm on half-planes, which evaluates nothing.
Converged ==
  /\ Busy("converged")
  /\ \/ Continue(<<>>) /\ Pure
     \/ Raise("no_convergence")
  /\ NoEntry

------------------------------------------------------------------------------
(* rectHull                                                                *)

\* A polytope, alone or merged with what it intersects, is boxed by linear
\* programs.
Solved(n) ==
  \/ Kind[n] = "polytope"
  \/ Kind[n] = "intersection" /\ \E i \in DOMAIN Kids[n] : Kind[Kids[n][i]] = "polytope"

Solution(n) == IF Solved(n) THEN <<Task("solve", n)>> ELSE <<>>

\* MUTANT: each polytope of an intersection is boxed on its own.
BoxEach(n) == Each("hull", Kids[n])

\* The polytopes of an intersection are merged, the other sets boxed.
BoxParts(n) ==
  [i \in DOMAIN Kids[n] |->
     IF Kind[Kids[n][i]] = "polytope"
     THEN Task("merge", Kids[n][i]) ELSE Task("hull", Kids[n][i])]

Hull ==
  /\ Call("hull") /\ Kind[node] \in SetKind \ {"setcase", "setref"}
  /\ node \notin Ragged
  /\ Continue((IF Kind[node] = "intersection" THEN BoxParts(node)
               ELSE Each("eval", Kids[node])) \o Solution(node))
  /\ Pure

\* The constraints of a polytope join those of the others; its vector, some
\* last expressions of it, is evaluated before its matrix is looked at.
Merge ==
  /\ Busy("merge")
  /\ \/ node \notin Ragged /\ Continue(Each("eval", Kids[node]))
     \/ /\ node \in Ragged
        /\ \E k \in 0 .. Len(Kids[node]) :
             Continue(Append(Each("eval", SubSeq(Kids[node], k + 1, Len(Kids[node]))),
                             Task("matrix", node)))
  /\ Pure /\ NoEntry

\* A region that is empty or not bounded has no box.
Solve ==
  /\ Busy("solve")
  /\ \/ Continue(<<>>) /\ Pure
     \/ Raise("no_box")
  /\ NoEntry

\* Elsewhere the matrix of a polytope is looked at first.
RaggedMatrix ==
  /\ \/ Call("member") \/ Call("proj") \/ Call("hull")
     \/ Busy("matrix") /\ NoEntry
  /\ node \in Ragged
  /\ Terminate

------------------------------------------------------------------------------
(* The user                                                                *)

\* MUTANT: the counter goes on where the last call left it.
ClearNot == UNCHANGED depth

\* _nesting_depth = 0
Clear == depth' = 0

\* A call on expression n, with values for some variables.
Ask(do, n, given) ==
  /\ phase = "idle"
  /\ stack' = <<Task(do, n)>>
  /\ phase' = "running"
  /\ values' = given
  /\ Clear /\ visits' = 0
  /\ UNCHANGED <<adv, refs, answer, outcome>>

\* evaluate, evalPartialDerivative, testMembership, project, rectangularHull
Use ==
  \E i \in DOMAIN adv, given \in SUBSET Variables :
    \E do \in IF Kind[adv[i]] \in RealKind
              THEN {"eval", "derive"} ELSE {"member", "proj", "hull"} :
      Ask(do, adv[i], given)

Return ==
  /\ phase \in {"constructing", "running"} /\ stack = <<>>
  /\ phase' = "idle" /\ outcome' = "ok"
  /\ UNCHANGED <<adv, refs, values, depth, visits, stack, answer>>

Evaluation ==
  \/ Eval \/ Derive \/ Variable \/ OtherVariable
  \/ CaseDistinction \/ TestCase \/ Branch \/ Reference

Membership ==
  \/ MemberShape \/ Decide \/ MemberParts \/ Bounds \/ And \/ MemberReference
  \/ WhichError

Projection ==
  ProjectDirect \/ ProjectFromOutside \/ Outside \/ Dykstra \/ Converged

Step ==
  \/ Scan \/ Reset \/ TooDeep
  \/ Evaluation \/ Membership \/ Projection
  \/ Hull \/ Merge \/ Solve \/ RaggedMatrix
  \/ Return

User == Construct \/ Use \/ \E a \in Advs : setAdv(a)

Next == Step \/ User

SafeSpec == Init /\ [][Next]_vars

\* A call that the user has made runs on; a computation that goes on for
\* ever is the only way it may fail to end.
Spec == SafeSpec /\ WF_vars(Step)

------------------------------------------------------------------------------
TaskType == [do : Strict \cup Lax \cup Inner, node : Node, rest : Seq(Node),
             then : Strict \cup Lax \cup Inner, k : Nat]

TypeOK ==
  /\ adv \in Advs
  /\ \A x \in DOMAIN realRefs :
       realRefs[x] \in Node /\ Kind[realRefs[x]] \in RealKind
  /\ \A x \in DOMAIN setRefs :
       setRefs[x] \in Node /\ Kind[setRefs[x]] \in SetKind
  /\ values \subseteq Variables
  /\ depth \in 0 .. MAX_NESTING_DEPTH + 1 /\ visits \in Nat
  /\ stack \in Seq(TaskType)
  /\ answer \in BOOLEAN
  /\ phase \in {"none", "constructing", "idle", "running", "dead", "terminated"}

WithKids(S) == S \cup UNION {{Kids[n][i] : i \in DOMAIN Kids[n]} : n \in S}

\* The expressions of an advertisement, found kid by kid.
Levels(a) ==
  LET reach[k \in 0 .. MAX_NESTING_DEPTH] ==
        IF k = 0 THEN {a[i] : i \in DOMAIN a} ELSE WithKids(reach[k - 1])
  IN  reach

Tree(a) == Levels(a)[MAX_NESTING_DEPTH]

(* Once an advertisement is set, each name in it is looked up to an        *)
(* expression of its own, of the right kind and name, whatever was set     *)
(* before and wherever the name is hidden (findReferences; the maps are    *)
(* never cleared).                                                         *)
NamesFound ==
  phase = "idle" =>
    \A n \in Tree(adv) :
      LET map == IF Kind[n] \in RealKind THEN realRefs ELSE setRefs
      IN  Name[n] # NoName =>
            /\ Name[n] \in DOMAIN map
            /\ map[Name[n]] \in Tree(adv) /\ Name[map[Name[n]]] = Name[n]

(* A call fails for its depth only if it entered more functions than the   *)
(* limit, never because of an earlier call (_nesting_depth is shared by    *)
(* all functions and cleared by those that the user calls).                *)
LimitPerCall ==
  outcome = "depth" /\ phase \in {"idle", "dead"} => visits > MAX_NESTING_DEPTH

(* Every call ends, with a result, an exception or the end of the process: *)
(* what is said of                                                         *)
(* MAX_NESTING_DEPTH, "This prevents that the evaluator can get stuck in   *)
(* an infinite loop by following paths of references that contain cycles"  *)
(* (adv-interpreter.hpp:91-92).                                            *)
Ends == stack # <<>> ~> stack = <<>>
==============================================================================
