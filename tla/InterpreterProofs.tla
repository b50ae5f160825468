-------------------------- MODULE InterpreterProofs --------------------------
(***************************************************************************)
(* The interpreter, for every advertisement, limit and number of           *)
(* iterations: its counter (no call is stopped for what an earlier one     *)
(* did), its stack and maps, and the names that a scan finds; then the     *)
(* same for the validator that uses it, and the course of a validation:    *)
(* what it samples, what it accepts, and what it rejects.                  *)
(***************************************************************************)
EXTENDS Validator, Arithmetic, SequenceTheorems

(* Nothing runs unless a call of the user does, and the counter never runs *)
(* ahead of the functions entered.                                         *)
Counted ==
  /\ depth \in Nat /\ visits \in Nat /\ depth <= visits
  /\ stack # <<>> => phase \in {"constructing", "running"}

CountInv == Counted /\ LimitPerCall

(* Every other step of a computation: it enters a function or none, and    *)
(* goes on or raises an error that is not the limit's.                     *)
Walk ==
  /\ stack # <<>>
  /\ Enter \/ NoEntry
  /\ \/ UNCHANGED <<phase, outcome>>
     \/ stack' = <<>> /\ outcome' # "depth"

(* A function that is entered counts at least as much in the history as in *)
(* the counter, whichever way it meets the limit.                          *)
LEMMA EnterCounts ==
  ASSUME Counted, Enter
  PROVE  /\ depth' \in Nat /\ visits' \in Nat /\ depth' <= visits'
         /\ Over => visits' > MAX_NESTING_DEPTH
  BY LimitsAssumption DEF Counted, Enter, Capped, Over

(* Evaluations and their derivatives walk.                                 *)
LEMMA EvaluationWalks == Evaluation => Walk
<1> SUFFICES ASSUME Evaluation PROVE Walk
  OBVIOUS
<1> USE DEF Walk, Call, Busy, Pure, Keep, NoEntry
<1>1. CASE Eval
  BY <1>1 DEF Eval
<1>2. CASE Derive
  BY <1>2 DEF Derive
<1>3. CASE Variable
  BY <1>3 DEF Variable, Raise
<1>4. CASE OtherVariable
  BY <1>4 DEF OtherVariable
<1>5. CASE CaseDistinction
  BY <1>5 DEF CaseDistinction, Raise
<1>6. CASE TestCase
  BY <1>6 DEF TestCase, Raise
<1>7. CASE Branch
  BY <1>7 DEF Branch
<1>8. CASE Reference
  BY <1>8 DEF Reference, Raise
<1> QED
  BY <1>1, <1>2, <1>3, <1>4, <1>5, <1>6, <1>7, <1>8 DEF Evaluation

(* So do the functions on sets.                                            *)
LEMMA SetsWalk ==
  Membership \/ Projection \/ Hull \/ Merge \/ Solve \/ RaggedMatrix => Walk
<1> SUFFICES ASSUME Membership \/ Projection \/ Hull \/ Merge \/ Solve \/ RaggedMatrix
             PROVE  Walk
  OBVIOUS
<1> USE DEF Walk, Call, Busy, Pure, Keep, NoEntry
<1>1. CASE MemberShape
  BY <1>1 DEF MemberShape
<1>2. CASE Decide
  BY <1>2 DEF Decide
<1>3. CASE MemberParts
  BY <1>3 DEF MemberParts
<1>4. CASE Bounds
  BY <1>4 DEF Bounds
<1>5. CASE And
  BY <1>5 DEF And
<1>6. CASE MemberReference
  BY <1>6 DEF MemberReference
<1>7. CASE WhichError
  BY <1>7 DEF WhichError, Raise
<1>8. CASE ProjectDirect
  BY <1>8 DEF ProjectDirect
<1>9. CASE ProjectFromOutside
  BY <1>9 DEF ProjectFromOutside
<1>10. CASE Outside
  BY <1>10 DEF Outside
<1>11. CASE Dykstra
  BY <1>11 DEF Dykstra, Raise
<1>12. CASE Converged
  BY <1>12 DEF Converged, Raise
<1>13. CASE Hull
  BY <1>13 DEF Hull
<1>14. CASE Merge
  BY <1>14 DEF Merge
<1>15. CASE Solve
  BY <1>15 DEF Solve, Raise
<1>16. CASE RaggedMatrix
  BY <1>16 DEF RaggedMatrix, Terminate
<1> QED
  BY <1>1, <1>2, <1>3, <1>4, <1>5, <1>6, <1>7, <1>8, <1>9, <1>10, <1>11,
     <1>12, <1>13, <1>14, <1>15, <1>16 DEF Membership, Projection

(* A walk keeps the counter and the limit in step: while it goes on no     *)
(* call has ended, and when it ends the error is another one.              *)
LEMMA WalkKeeps ==
  ASSUME CountInv, Walk
  PROVE  CountInv'
<1>1. depth' \in Nat /\ visits' \in Nat /\ depth' <= visits'
  <2>1. CASE Enter
    BY <2>1, EnterCounts DEF CountInv
  <2>2. CASE NoEntry
    BY <2>2 DEF NoEntry, CountInv, Counted
  <2> QED
    BY <2>1, <2>2 DEF Walk
<1>2. phase \in {"constructing", "running"}
  BY DEF CountInv, Counted, Walk
<1>3. CASE UNCHANGED <<phase, outcome>>
  BY <1>1, <1>2, <1>3 DEF CountInv, Counted, LimitPerCall
<1>4. CASE stack' = <<>> /\ outcome' # "depth"
  BY <1>1, <1>4 DEF CountInv, Counted, LimitPerCall
<1> QED
  BY <1>3, <1>4 DEF Walk

(* Every step of the interpreter and of its user keeps it.                 *)
LEMMA NextKeeps ==
  ASSUME CountInv, [Next]_vars
  PROVE  CountInv'
<1>1. CASE Scan
  BY <1>1, WalkKeeps DEF Scan, Walk, Call, Busy, Keep
<1>2. CASE Reset
  BY <1>2 DEF Reset, Busy, Pure, Keep, CountInv, Counted, LimitPerCall
<1>3. CASE TooDeep
  <2>1. /\ depth' \in Nat /\ visits' \in Nat /\ depth' <= visits'
        /\ visits' > MAX_NESTING_DEPTH
    BY <1>3, EnterCounts DEF TooDeep, CountInv
  <2> QED
    BY <1>3, <2>1 DEF TooDeep, Raise, CountInv, Counted, LimitPerCall
<1>4. CASE Evaluation
  BY <1>4, EvaluationWalks, WalkKeeps
<1>5. CASE Membership \/ Projection \/ Hull \/ Merge \/ Solve \/ RaggedMatrix
  BY <1>5, SetsWalk, WalkKeeps
<1>6. CASE Return
  BY <1>6 DEF Return, CountInv, Counted, LimitPerCall
<1>7. CASE Construct
  BY <1>7 DEF Construct, CountInv, Counted, LimitPerCall
<1>8. CASE Use
  BY <1>8 DEF Use, Ask, Clear, CountInv, Counted, LimitPerCall
<1>9. CASE \E a \in Advs : setAdv(a)
  BY <1>9 DEF setAdv, CountInv, Counted, LimitPerCall
<1>10. CASE UNCHANGED vars
  BY <1>10 DEF vars, CountInv, Counted, LimitPerCall
<1> QED
  BY <1>1, <1>2, <1>3, <1>4, <1>5, <1>6, <1>7, <1>8, <1>9, <1>10
     DEF Next, Step, User

(* A call fails for its depth only if it entered more functions than the   *)
(* limit: the counter, which all functions share, is cleared by each call  *)
(* of the user and after each expression scanned.                          *)
THEOREM LimitPerCallCorrect == Spec => []LimitPerCall
<1>1. Init => CountInv
  BY DEF Init, CountInv, Counted, LimitPerCall
<1>2. CountInv /\ [Next]_vars => CountInv'
  BY NextKeeps
<1>3. CountInv => LimitPerCall
  BY DEF CountInv
<1> QED
  BY <1>1, <1>2, <1>3, PTL DEF Spec, SafeSpec

------------------------------------------------------------------------------
(* Types.  Tasks of the scan of an advertisement and those of all other    *)
(* calls are never on the stack together.                                  *)

UseDo == ((Strict \cup Lax) \cup Inner) \ {"scan", "reset"}

ScanTasks == {Task(do, n) : do \in {"scan", "reset"}, n \in Node}

\* Cases and bounds are taken in pairs, and polytopes merged.
UseTasks ==
  {t \in [do : UseDo, node : Node, rest : Seq(Node), then : UseDo, k : Nat] :
     /\ t.do \in {"cases", "branch", "bounds"} => Len(t.rest) % 2 = 0
     /\ t.do \in {"cases", "branch"} => t.then \in {"eval", "derive"}
     /\ t.do = "branch" => t.rest # <<>>
     /\ t.do = "merge" => Kind[t.node] = "polytope"}

SetsTyped(sets) ==
  \A x \in DOMAIN sets : sets[x] \in Node /\ Kind[sets[x]] \in SetKind

TypeInv ==
  /\ adv \in Advs
  /\ \A x \in DOMAIN realRefs : realRefs[x] \in Node /\ Kind[realRefs[x]] \in RealKind
  /\ SetsTyped(setRefs)
  /\ values \subseteq Variables
  /\ depth \in 0 .. MAX_NESTING_DEPTH + 1 /\ visits \in Nat
  /\ stack \in Seq(ScanTasks) \cup Seq(UseTasks)
  /\ answer \in BOOLEAN
  /\ phase \in {"none", "constructing", "idle", "running", "dead", "terminated"}

\* Tasks that keep nothing.
Plain == UseDo \ {"cases", "branch", "bounds", "merge"}

(* A task of its own keeps to the types, and so do those of a sequence.    *)
LEMMA TaskTyped ==
  ASSUME NEW do \in Plain, NEW n \in Node
  PROVE  Task(do, n) \in UseTasks
  BY DEF Task, UseTasks, Plain

LEMMA EachTyped ==
  ASSUME NEW do \in Plain, NEW ns \in Seq(Node)
  PROVE  Each(do, ns) \in Seq(UseTasks) /\ Len(Each(do, ns)) = Len(ns)
<1>1. \A i \in 1 .. Len(ns) : Task(do, ns[i]) \in UseTasks
  BY TaskTyped
<1> QED
  BY <1>1 DEF Each

(* The tasks that the box of an intersection starts with.                  *)
LEMMA BoxPartsTyped ==
  ASSUME NEW n \in Node
  PROVE  /\ BoxParts(n) \in Seq(UseTasks) /\ Len(BoxParts(n)) = Len(Kids[n])
         /\ \A i \in DOMAIN Kids[n] :
              /\ BoxParts(n)[i] = IF Kind[Kids[n][i]] = "polytope"
                                  THEN Task("merge", Kids[n][i]) ELSE Task("hull", Kids[n][i])
              /\ BoxParts(n)[i].node = Kids[n][i]
<1>1. Kids[n] \in Seq(Node)
  BY GraphAssumption
<1>2. "hull" \in Plain /\ "merge" \in UseDo
  BY DEF Plain, UseDo, Strict, Lax, Inner
<1>3. \A i \in 1 .. Len(Kids[n]) : BoxParts(n)[i] \in UseTasks
  <2> SUFFICES ASSUME NEW i \in 1 .. Len(Kids[n]) PROVE BoxParts(n)[i] \in UseTasks
    OBVIOUS
  <2>1. Kids[n][i] \in Node
    BY <1>1
  <2>2. CASE Kind[Kids[n][i]] = "polytope"
    <3>1. Task("merge", Kids[n][i]) \in UseTasks
      BY <1>2, <2>1, <2>2 DEF Task, UseTasks
    <3> QED
      BY <1>1, <2>2, <3>1 DEF BoxParts
  <2>3. CASE Kind[Kids[n][i]] # "polytope"
    BY <1>1, <1>2, <2>1, <2>3, TaskTyped DEF BoxParts
  <2> QED
    BY <2>2, <2>3
<1>4. /\ DOMAIN BoxParts(n) = 1 .. Len(Kids[n]) /\ Len(Kids[n]) \in Nat
      /\ BoxParts(n) = [i \in DOMAIN BoxParts(n) |-> BoxParts(n)[i]]
  BY <1>1 DEF BoxParts
<1>5. \A i \in DOMAIN Kids[n] :
        BoxParts(n)[i] = IF Kind[Kids[n][i]] = "polytope"
                         THEN Task("merge", Kids[n][i]) ELSE Task("hull", Kids[n][i])
  BY DEF BoxParts
<1>6. \A i \in DOMAIN Kids[n] : BoxParts(n)[i].node = Kids[n][i]
  <2> SUFFICES ASSUME NEW i \in DOMAIN Kids[n] PROVE BoxParts(n)[i].node = Kids[n][i]
    OBVIOUS
  <2>1. Task("merge", Kids[n][i]).node = Kids[n][i] /\ Task("hull", Kids[n][i]).node = Kids[n][i]
    BY DEF Task
  <2> QED
    BY <1>5, <2>1
<1>7. BoxParts(n) \in [1 .. Len(Kids[n]) -> UseTasks]
  BY <1>3, <1>4
<1>8. BoxParts(n) \in Seq(UseTasks) /\ Len(BoxParts(n)) = Len(Kids[n])
  BY <1>4, <1>7
<1> QED
  BY <1>5, <1>6, <1>8

(* And what it ends with.                                                  *)
LEMMA SolutionTyped ==
  ASSUME NEW n \in Node
  PROVE  /\ Solution(n) \in Seq(UseTasks)
         /\ Solution(n) \in {<<>>, <<Task("solve", n)>>}
<1>1. "solve" \in Plain
  BY DEF Plain, UseDo, Strict, Lax, Inner
<1> QED
  BY <1>1, TaskTyped DEF Solution

(* Where the tasks are after the top has been replaced by others.          *)
LEMMA AfterReplacement ==
  ASSUME NEW T, NEW old \in Seq(T), old # <<>>, NEW new \in Seq(T)
  PROVE  LET all == new \o Tail(old) IN
         /\ all \in Seq(T) /\ DOMAIN all = 1 .. Len(new) + Len(old) - 1
         /\ \A j \in 1 .. Len(new) : j \in DOMAIN all /\ all[j] = new[j]
         /\ \A j \in 2 .. Len(old) : /\ Len(new) + j - 1 \in DOMAIN all
                                     /\ all[Len(new) + j - 1] = old[j]
<1> DEFINE all == new \o Tail(old)
<1>1. /\ Tail(old) \in Seq(T) /\ Len(Tail(old)) = Len(old) - 1 /\ Len(old) \in Nat
      /\ Len(new) \in Nat /\ Len(old) # 0
      /\ \A i \in 1 .. Len(old) - 1 : Tail(old)[i] = old[i + 1]
  OBVIOUS
<1>2. /\ all \in Seq(T) /\ Len(all) = Len(new) + Len(Tail(old))
      /\ \A i \in 1 .. Len(all) : all[i] = IF i <= Len(new) THEN new[i]
                                           ELSE Tail(old)[i - Len(new)]
  BY <1>1, ConcatProperties
<1>3. DOMAIN all = 1 .. Len(new) + Len(old) - 1
  BY <1>1, <1>2
<1> HIDE DEF all
<1>4. \A j \in 1 .. Len(new) : j \in DOMAIN all /\ all[j] = new[j]
  BY <1>1, <1>2, <1>3
<1>5. ASSUME NEW j \in 2 .. Len(old)
      PROVE  Len(new) + j - 1 \in DOMAIN all /\ all[Len(new) + j - 1] = old[j]
  <2>1. Len(new) + j - 1 \in 1 .. Len(all) /\ ~(Len(new) + j - 1 <= Len(new))
    BY <1>1, <1>2
  <2>2. (Len(new) + j - 1) - Len(new) = j - 1 /\ j - 1 \in 1 .. Len(old) - 1 /\ (j - 1) + 1 = j
    BY <1>1
  <2> QED
    BY <1>1, <1>2, <1>3, <2>1, <2>2
<1> QED
  BY <1>2, <1>3, <1>4, <1>5 DEF all

\* The tasks below the top wait on.
Rests == \A j \in 2 .. Len(stack) : \E i \in DOMAIN stack' : stack'[i] = stack[j]

(* What a task is replaced by joins the tasks that are left.               *)
LEMMA ContinueTyped ==
  ASSUME NEW T, stack \in Seq(T), stack # <<>>, NEW tasks \in Seq(T), Continue(tasks)
  PROVE  /\ stack' \in Seq(T) /\ Rests
         /\ \A i \in DOMAIN tasks : i \in DOMAIN stack' /\ stack'[i] = tasks[i]
<1>1. stack' = tasks \o Tail(stack)
  BY DEF Continue
<1>2. /\ stack' \in Seq(T)
      /\ \A j \in 1 .. Len(tasks) : j \in DOMAIN stack' /\ stack'[j] = tasks[j]
      /\ \A j \in 2 .. Len(stack) : /\ Len(tasks) + j - 1 \in DOMAIN stack'
                                    /\ stack'[Len(tasks) + j - 1] = stack[j]
  BY <1>1, AfterReplacement
<1>3. DOMAIN tasks = 1 .. Len(tasks)
  OBVIOUS
<1> QED
  BY <1>2, <1>3 DEF Rests

(* The task at the top of the stack, when it is not one of a scan.         *)
LEMMA TopTyped ==
  ASSUME TypeInv, NEW do \in UseDo, Busy(do)
  PROVE  /\ stack \in Seq(UseTasks) /\ stack # <<>> /\ top \in UseTasks
         /\ node \in Node /\ Kids[node] \in Seq(Node) /\ Kind[node] \in RealKind \cup SetKind
         /\ top.rest \in Seq(Node) /\ top.k \in Nat /\ top.then \in UseDo
<1>1. stack # <<>> /\ top.do = do
  BY DEF Busy
<1>2. stack \notin Seq(ScanTasks)
  <2> SUFFICES ASSUME stack \in Seq(ScanTasks) PROVE FALSE
    OBVIOUS
  <2>1. top \in ScanTasks
    BY <1>1 DEF top
  <2>2. top.do \in {"scan", "reset"}
    BY <2>1 DEF ScanTasks, Task
  <2> QED
    BY <1>1, <2>2 DEF UseDo
<1>3. stack \in Seq(UseTasks)
  BY <1>2 DEF TypeInv
<1>4. top \in UseTasks
  BY <1>1, <1>3 DEF top
<1>5. /\ node \in Node /\ top.rest \in Seq(Node) /\ top.k \in Nat /\ top.then \in UseDo
  BY <1>4 DEF UseTasks, node
<1>6. Kids[node] \in Seq(Node) /\ Kind[node] \in RealKind \cup SetKind
  BY <1>5, GraphAssumption
<1> QED
  BY <1>1, <1>3, <1>4, <1>5, <1>6

(* A step of a call other than a scan.                                     *)
UseStep ==
  /\ stack \in Seq(UseTasks) /\ stack' \in Seq(UseTasks)
  /\ UNCHANGED <<adv, values, realRefs>>
  /\ \A x \in DOMAIN setRefs : x \in DOMAIN setRefs' /\ setRefs'[x] = setRefs[x]
  /\ SetsTyped(setRefs')
  /\ answer' \in BOOLEAN
  /\ Enter \/ NoEntry
  /\ \/ UNCHANGED phase /\ Rests
     \/ /\ stack' = <<>> /\ outcome' # "ok"
        /\ phase' = IF phase = "constructing" THEN "dead" ELSE "idle"
     \/ stack' = <<>> /\ phase' = "terminated"

\* What most of them have in common.
LEMMA UseStepPure ==
  ASSUME TypeInv, stack \in Seq(UseTasks), stack' \in Seq(UseTasks), Rests,
         Pure, Enter \/ NoEntry
  PROVE  UseStep
  BY DEF UseStep, Pure, Keep, refs, TypeInv

LEMMA UseStepRaise ==
  ASSUME TypeInv, stack \in Seq(UseTasks), NEW error, error # "ok", Raise(error),
         Enter \/ NoEntry
  PROVE  UseStep
  BY DEF UseStep, Raise, refs, TypeInv

(* Evaluations and their derivatives keep the stack well formed: the calls *)
(* of a derivative, and the pairs of a case distinction.                   *)
LEMMA EvaluationTyped == ASSUME TypeInv, Evaluation PROVE UseStep
<1>0. {"eval", "derive", "cases", "branch"} \subseteq UseDo
      /\ {"eval", "derive", "member"} \subseteq Plain
  BY DEF UseDo, Plain, Strict, Lax, Inner
<1>1. CASE Eval
  <2>1. Busy("eval") /\ Continue(Each("eval", Kids[node])) /\ Pure /\ Enter
    BY <1>1 DEF Eval, Call
  <2>2. stack \in Seq(UseTasks) /\ stack # <<>> /\ Each("eval", Kids[node]) \in Seq(UseTasks)
    BY <1>0, <2>1, TopTyped, EachTyped
  <2>3. stack' \in Seq(UseTasks) /\ Rests
    BY <2>1, <2>2, ContinueTyped
  <2> QED
    BY <2>1, <2>2, <2>3, UseStepPure
<1>2. CASE Derive
  <2>1. Busy("derive") /\ Pure /\ Enter
    BY <1>2 DEF Derive, Call
  <2>2. PICK calls \in DeriveCalls(node) : Continue(calls)
    BY <1>2 DEF Derive
  <2>3. stack \in Seq(UseTasks) /\ stack # <<>> /\ Kids[node] \in Seq(Node) /\ node \in Node
    BY <1>0, <2>1, TopTyped
  <2> DEFINE e == Each("eval", Kids[node])
             d == Each("derive", Kids[node])
  <2>4. /\ e \in Seq(UseTasks) /\ d \in Seq(UseTasks)
        /\ Len(e) = Len(Kids[node]) /\ Len(d) = Len(Kids[node])
    BY <1>0, <2>3, EachTyped
  <2>5. calls \in Seq(UseTasks)
    <3> HIDE DEF e, d
    <3>0. DeriveCalls(node) =
            CASE Kind[node] \in {"linear", "sum"} -> {d}
              [] Kind[node] \in {"curved", "pow", "prod"} -> {e \o d}
              [] Kind[node] = "prod2" -> {<<e[1], d[2], e[2], d[1]>>}
              [] Kind[node] = "min" -> {Append(e, d[1]), Append(e, d[2])}
              [] OTHER -> {<<>>}
      BY DEF DeriveCalls, e, d
    <3>1. CASE Kind[node] \in {"linear", "sum"}
      BY <2>2, <2>4, <3>0, <3>1
    <3>2. CASE Kind[node] \in {"curved", "pow", "prod"}
      <4>1. calls = e \o d
        BY <2>2, <3>0, <3>2
      <4> QED
        BY ONLY <2>4, <4>1, ConcatProperties
    <3>3. CASE Kind[node] \in {"prod2", "min"}
      <4>1. Len(Kids[node]) = 2
        BY <2>3, <3>3, ShapeAssumption
      <4>2. /\ e[1] \in UseTasks /\ e[2] \in UseTasks
            /\ d[1] \in UseTasks /\ d[2] \in UseTasks
        <5>1. \A S : e \in Seq(S) => e[1] \in S /\ e[2] \in S
          BY SMTT(30), <2>4, <4>1
        <5>2. \A S : d \in Seq(S) => d[1] \in S /\ d[2] \in S
          BY <2>4, <4>1
        <5> QED
          BY <2>4, <5>1, <5>2
      <4>3. calls \in {<<e[1], d[2], e[2], d[1]>>, Append(e, d[1]), Append(e, d[2])}
        BY <2>2, <3>0, <3>3
      <4>4. <<e[1], d[2], e[2], d[1]>> \in Seq(UseTasks)
        BY ONLY <4>2
      <4>5. Append(e, d[1]) \in Seq(UseTasks) /\ Append(e, d[2]) \in Seq(UseTasks)
        BY ONLY <2>4, <4>2, AppendProperties
      <4> QED
        BY <4>3, <4>4, <4>5
    <3>4. CASE Kind[node] \notin {"linear", "sum", "curved", "pow", "prod", "prod2", "min"}
      <4>1. calls = <<>>
        BY <2>2, <3>0, <3>4
      <4> QED
        BY <4>1
    <3> QED
      BY <3>1, <3>2, <3>3, <3>4
  <2>6. stack' \in Seq(UseTasks) /\ Rests
    BY <2>2, <2>3, <2>5, ContinueTyped
  <2> QED
    BY <2>1, <2>3, <2>6, UseStepPure
<1>3. CASE Variable \/ OtherVariable
  <2>1. PICK do \in {"eval", "derive"} : Busy(do) /\ Enter
    BY <1>3 DEF Variable, OtherVariable, Call
  <2>2. stack \in Seq(UseTasks) /\ stack # <<>>
    BY <1>0, <2>1, TopTyped
  <2>3. (Continue(<<>>) /\ Pure) \/ Raise("unknown_variable")
    BY <1>3 DEF Variable, OtherVariable
  <2>4. CASE Continue(<<>>) /\ Pure
    <3>1. <<>> \in Seq(UseTasks)
      OBVIOUS
    <3>2. stack' \in Seq(UseTasks) /\ Rests
      BY <2>2, <2>4, <3>1, ContinueTyped
    <3> QED
      BY <2>1, <2>2, <2>4, <3>2, UseStepPure
  <2> QED
    BY <2>1, <2>2, <2>3, <2>4, UseStepRaise
<1>4. CASE CaseDistinction
  <2>1. PICK do \in {"eval", "derive"} : Busy(do) /\ Enter
    BY <1>4 DEF CaseDistinction, Call
  <2>2. /\ stack \in Seq(UseTasks) /\ stack # <<>> /\ top \in UseTasks
        /\ node \in Node /\ Kids[node] \in Seq(Node) /\ top.do = do
    BY <1>0, <2>1, TopTyped DEF Busy
  <2> DEFINE t == [Task("cases", node) EXCEPT !.rest = Kids[node], !.then = top.do]
  <2>3. (Continue(<<t>>) /\ Pure) \/ Raise("unbound")
    BY <1>4 DEF CaseDistinction
  <2>4. CASE Continue(<<t>>) /\ Pure
    <3>1. Len(Kids[node]) % 2 = 0
      BY <1>4, <2>2, ShapeAssumption DEF CaseDistinction
    <3>2. PICK u : u = Task("cases", node)
      OBVIOUS
    <3>3. t \in UseTasks
      <4>1. "cases" \in UseDo /\ top.do \in UseDo /\ top.do \in {"eval", "derive"}
        BY <1>0, <2>2
      <4>2. /\ u \in [do : UseDo, node : Node, rest : Seq(Node), then : UseDo, k : Nat]
            /\ u.do = "cases"
        BY <2>2, <3>2, <4>1 DEF Task
      <4>3. [u EXCEPT !.rest = Kids[node], !.then = top.do] \in UseTasks
        BY <2>2, <3>1, <4>1, <4>2 DEF UseTasks
      <4> QED
        BY <3>2, <4>3
    <3> HIDE DEF t
    <3> HIDE DEF t
    <3>4. <<t>> \in Seq(UseTasks)
      BY <3>3
    <3>5. stack' \in Seq(UseTasks) /\ Rests
      BY <2>2, <2>4, <3>4, ContinueTyped
    <3> QED
      BY <2>1, <2>2, <2>4, <3>5, UseStepPure
  <2> QED
    BY <2>1, <2>2, <2>3, <2>4, UseStepRaise
<1>5. CASE TestCase
  <2>1. Busy("cases") /\ NoEntry
    BY <1>5 DEF TestCase
  <2>2. /\ stack \in Seq(UseTasks) /\ stack # <<>> /\ top \in UseTasks /\ top.do = "cases"
        /\ top.rest \in Seq(Node)
    BY <1>0, <2>1, TopTyped DEF Busy
  <2> DEFINE t == [top EXCEPT !.do = "branch"]
  <2>3. CASE top.rest = <<>>
    <3>1. Raise("unhandled")
      BY <1>5, <2>3 DEF TestCase
    <3> QED
      BY <2>1, <2>2, <3>1, UseStepRaise
  <2>4. CASE top.rest # <<>>
    <3>1. Continue(<<Task("member", Head(top.rest)), t>>) /\ Pure
      BY <1>5, <2>4 DEF TestCase
    <3>2. t \in UseTasks
      BY <1>0, <2>2, <2>4 DEF UseTasks
    <3>3. Task("member", Head(top.rest)) \in UseTasks
      <4>1. Head(top.rest) \in Node
        BY <2>2, <2>4
      <4> QED
        BY <1>0, <4>1, TaskTyped
    <3> HIDE DEF t
    <3>4. <<Task("member", Head(top.rest)), t>> \in Seq(UseTasks)
      BY <3>2, <3>3
    <3>5. stack' \in Seq(UseTasks) /\ Rests
      BY <2>2, <3>1, <3>4, ContinueTyped
    <3> QED
      BY <2>1, <2>2, <3>1, <3>5, UseStepPure
  <2> QED
    BY <2>3, <2>4
<1>6. CASE Branch
  <2>1. Busy("branch") /\ NoEntry /\ Pure
    BY <1>6 DEF Branch
  <2>2. /\ stack \in Seq(UseTasks) /\ stack # <<>> /\ top \in UseTasks /\ top.do = "branch"
        /\ top.rest \in Seq(Node)
    BY <1>0, <2>1, TopTyped DEF Busy
  <2>3. /\ Len(top.rest) % 2 = 0 /\ top.rest # <<>> /\ top.then \in {"eval", "derive"}
    BY <2>2 DEF UseTasks
  <2>4. Len(top.rest) >= 2
    <3>1. Len(top.rest) \in Nat /\ Len(top.rest) # 0
      BY <2>2, <2>3
    <3>2. \A n \in Nat : n # 0 /\ n % 2 = 0 => n >= 2
      OBVIOUS
    <3> QED
      BY <2>3, <3>1, <3>2
  <2> DEFINE rest == SubSeq(top.rest, 3, Len(top.rest))
             t == IF answer THEN Task(top.then, top.rest[2])
                  ELSE [top EXCEPT !.do = "cases", !.rest = rest]
  <2>5. t \in UseTasks
    <3>1. rest \in Seq(Node) /\ Len(rest) % 2 = 0
      <4>1. rest \in Seq(Node) /\ Len(rest) = Len(top.rest) - 2
        BY <2>2, <2>4, SubSeqProperties
      <4>2. Len(top.rest) \in Nat
        BY <2>2
      <4>3. \A n \in Nat : n >= 2 /\ n % 2 = 0 => (n - 2) % 2 = 0
        OBVIOUS
      <4> QED
        BY <2>3, <2>4, <4>1, <4>2, <4>3
    <3>2. Task(top.then, top.rest[2]) \in UseTasks
      <4>1. top.rest[2] \in Node
        BY <2>2, <2>4
      <4> QED
        BY <1>0, <2>3, <4>1, TaskTyped
    <3> HIDE DEF rest
    <3>3. [top EXCEPT !.do = "cases", !.rest = rest] \in UseTasks
      BY <1>0, <2>2, <2>3, <3>1 DEF UseTasks
    <3> QED
      BY <3>2, <3>3
  <2>6. Continue(<<t>>)
    BY <1>6 DEF Branch
  <2> HIDE DEF t
  <2>7. <<t>> \in Seq(UseTasks)
    BY <2>5
  <2>8. stack' \in Seq(UseTasks) /\ Rests
    BY <2>2, <2>6, <2>7, ContinueTyped
  <2> QED
    BY <2>1, <2>2, <2>8, UseStepPure
<1>7. CASE Reference
  <2>1. PICK do \in {"eval", "derive"} : Busy(do) /\ Enter
    BY <1>7 DEF Reference, Call
  <2>2. stack \in Seq(UseTasks) /\ stack # <<>> /\ top.do = do
    BY <1>0, <2>1, TopTyped DEF Busy
  <2>3. CASE To[node] \in DOMAIN realRefs
    <3> DEFINE t == Task(top.do, realRefs[To[node]])
    <3>1. Continue(<<t>>) /\ Pure
      BY <1>7, <2>3 DEF Reference
    <3>2. t \in UseTasks
      <4>1. realRefs[To[node]] \in Node
        BY <2>3 DEF TypeInv
      <4> QED
        BY <1>0, <2>2, <4>1, TaskTyped
    <3> HIDE DEF t
    <3>3. <<t>> \in Seq(UseTasks)
      BY <3>2
    <3>4. stack' \in Seq(UseTasks) /\ Rests
      BY <2>2, <3>1, <3>3, ContinueTyped
    <3> QED
      BY <2>1, <2>2, <3>1, <3>4, UseStepPure
  <2>4. CASE To[node] \notin DOMAIN realRefs
    <3>1. Raise("unknown_reference")
      BY <1>7, <2>4 DEF Reference
    <3> QED
      BY <2>1, <2>2, <3>1, UseStepRaise
  <2> QED
    BY <2>3, <2>4
<1> QED
  BY <1>1, <1>2, <1>3, <1>4, <1>5, <1>6, <1>7 DEF Evaluation

(* A task that takes the others of its rest, one or two at a time.         *)
LEMMA KeepsRest ==
  ASSUME NEW do \in {"bounds", "and"}, NEW n \in Node, NEW ns \in Seq(Node),
         do = "bounds" => Len(ns) % 2 = 0
  PROVE  [Task(do, n) EXCEPT !.rest = ns] \in UseTasks
<1>1. {"bounds", "and"} \subseteq UseDo
  BY DEF UseDo, Strict, Lax, Inner
<1>2. PICK u : u = Task(do, n)
  OBVIOUS
<1>3. /\ u \in [do : UseDo, node : Node, rest : Seq(Node), then : UseDo, k : Nat]
      /\ u.do = do
  BY <1>1, <1>2 DEF Task
<1>4. [u EXCEPT !.rest = ns] \in UseTasks
  BY <1>3 DEF UseTasks
<1> QED
  BY <1>2, <1>4

(* Numbers of the set at the top are evaluated, then something else done.  *)
LEMMA EvaluatesKids ==
  ASSUME TypeInv, NEW do \in UseDo, Busy(do), Enter \/ NoEntry,
         NEW before \in Plain, NEW after \in Seq(UseTasks),
         Continue(Each(before, Kids[node]) \o after),
         UNCHANGED <<adv, values, phase, outcome, realRefs, setRefs>>, answer' \in BOOLEAN
  PROVE  UseStep
<1>1. stack \in Seq(UseTasks) /\ stack # <<>> /\ Kids[node] \in Seq(Node)
  BY TopTyped
<1>2. Each(before, Kids[node]) \in Seq(UseTasks)
  BY <1>1, EachTyped
<1>3. Each(before, Kids[node]) \o after \in Seq(UseTasks)
  BY ONLY <1>2, after \in Seq(UseTasks), ConcatProperties
<1>4. stack' \in Seq(UseTasks) /\ Rests
  BY <1>1, <1>3, ContinueTyped
<1> QED
  BY <1>1, <1>4 DEF UseStep, TypeInv

(* Other tasks take the place of the top.                                  *)
LEMMA Replaced ==
  ASSUME TypeInv, NEW do \in UseDo, Busy(do), Enter \/ NoEntry,
         NEW tasks \in Seq(UseTasks), Continue(tasks),
         UNCHANGED <<adv, values, phase, outcome, realRefs, setRefs>>, answer' \in BOOLEAN
  PROVE  UseStep
<1>1. stack \in Seq(UseTasks) /\ stack # <<>>
  BY TopTyped
<1>2. stack' \in Seq(UseTasks) /\ Rests
  BY <1>1, ContinueTyped
<1> QED
  BY <1>1, <1>2 DEF UseStep, TypeInv

(* So does the membership of sets: the bounds of a rectangle are taken in  *)
(* pairs, and a name that is not known is put in the map for the default   *)
(* reader, which leaves the others there as they were.                     *)
LEMMA MembershipTyped == ASSUME TypeInv, Membership PROVE UseStep
<1>0. /\ {"member", "decide", "bounds", "and", "proj", "hull", "eval"} \subseteq UseDo
      /\ {"member", "decide", "and", "eval"} \subseteq Plain
  BY DEF UseDo, Plain, Strict, Lax, Inner
<1>1. CASE MemberShape
  <2>1. /\ Busy("member") /\ Enter /\ Pure
        /\ Continue(Append(Each("eval", Kids[node]), Task("decide", node)))
    BY <1>1 DEF MemberShape, Call
  <2>2. node \in Node /\ Kids[node] \in Seq(Node)
    BY <1>0, <2>1, TopTyped
  <2>3. Each("eval", Kids[node]) \in Seq(UseTasks) /\ Task("decide", node) \in UseTasks
    BY <1>0, <2>2, EachTyped, TaskTyped
  <2>4. Append(Each("eval", Kids[node]), Task("decide", node)) \in Seq(UseTasks)
    BY ONLY <2>3, AppendProperties
  <2> QED
    BY <1>0, <2>1, <2>4, Replaced DEF Pure, Keep, refs, TypeInv
<1>2. CASE Decide
  <2>1. /\ Busy("decide") /\ NoEntry /\ Keep /\ UNCHANGED refs /\ answer' \in BOOLEAN
        /\ Continue(<<>>)
    BY <1>2 DEF Decide
  <2>2. <<>> \in Seq(UseTasks)
    OBVIOUS
  <2> QED
    BY <1>0, <2>1, <2>2, Replaced DEF Keep, refs
<1>3. CASE MemberParts
  <2>1. Busy("member") /\ Enter /\ Keep /\ UNCHANGED refs /\ answer' = TRUE
    BY <1>3 DEF MemberParts, Call
  <2>2. node \in Node /\ Kids[node] \in Seq(Node)
    BY <1>0, <2>1, TopTyped
  <2>3. PICK do : /\ do = IF Kind[node] = "rectangle" THEN "bounds" ELSE "and"
                  /\ Continue(<<[Task(do, node) EXCEPT !.rest = Kids[node]]>>)
    BY <1>3 DEF MemberParts
  <2>4. do \in {"bounds", "and"} /\ (do = "bounds" => Len(Kids[node]) % 2 = 0)
    BY <2>2, <2>3, ShapeAssumption
  <2>5. [Task(do, node) EXCEPT !.rest = Kids[node]] \in UseTasks
    BY <2>2, <2>4, KeepsRest
  <2>6. <<[Task(do, node) EXCEPT !.rest = Kids[node]]>> \in Seq(UseTasks)
    BY <2>5
  <2> QED
    BY <1>0, <2>1, <2>3, <2>6, Replaced DEF Keep, refs
<1>4. CASE Bounds
  <2>1. Busy("bounds") /\ NoEntry /\ Keep /\ UNCHANGED refs
    BY <1>4 DEF Bounds
  <2>2. /\ top \in UseTasks /\ top.do = "bounds" /\ top.rest \in Seq(Node)
    BY <1>0, <2>1, TopTyped DEF Busy
  <2>3. answer' \in BOOLEAN
    BY <1>4 DEF Bounds, TypeInv
  <2>4. CASE Continue(<<>>)
    <3>1. <<>> \in Seq(UseTasks)
      OBVIOUS
    <3> QED
      BY <1>0, <2>1, <2>3, <2>4, <3>1, Replaced DEF Keep, refs
  <2>5. CASE ~Continue(<<>>)
    <3> DEFINE two == SubSeq(top.rest, 1, 2)
               left == SubSeq(top.rest, 3, Len(top.rest))
               t == [top EXCEPT !.rest = left, !.k = 1]
    <3>1. top.rest # <<>> /\ Continue(Each("eval", two) \o <<t>>)
      BY <1>4, <2>5 DEF Bounds
    <3>2. Len(top.rest) >= 2
      <4>1. Len(top.rest) \in Nat /\ Len(top.rest) # 0 /\ Len(top.rest) % 2 = 0
        BY <2>2, <3>1 DEF UseTasks
      <4>2. \A n \in Nat : n # 0 /\ n % 2 = 0 => n >= 2
        OBVIOUS
      <4> QED
        BY <4>1, <4>2
    <3>3. two \in Seq(Node) /\ left \in Seq(Node) /\ Len(left) = Len(top.rest) - 2
      <4>1. Len(top.rest) \in Nat
        BY <2>2
      <4>2. two \in Seq(Node)
        BY <2>2, <3>2, <4>1, SubSeqProperties
      <4> QED
        BY <2>2, <3>2, <4>1, <4>2, SubSeqProperties
    <3>4. Len(left) % 2 = 0
      <4>1. Len(top.rest) \in Nat /\ Len(top.rest) % 2 = 0
        BY <2>2 DEF UseTasks
      <4>2. \A n \in Nat : n >= 2 /\ n % 2 = 0 => (n - 2) % 2 = 0
        OBVIOUS
      <4> QED
        BY <3>2, <3>3, <4>1, <4>2
    <3>5. Each("eval", two) \in Seq(UseTasks)
      BY <1>0, <3>3, EachTyped
    <3> HIDE DEF two, left
    <3>6. t \in UseTasks
      BY <2>2, <3>3, <3>4 DEF UseTasks
    <3> HIDE DEF t
    <3>7. <<t>> \in Seq(UseTasks)
      BY <3>6
    <3>8. Each("eval", two) \o <<t>> \in Seq(UseTasks)
      BY ONLY <3>5, <3>7, ConcatProperties
    <3> QED
      BY <1>0, <2>1, <2>3, <3>1, <3>8, Replaced DEF Keep, refs
  <2> QED
    BY <2>4, <2>5
<1>5. CASE And
  <2>1. Busy("and") /\ NoEntry /\ Pure
    BY <1>5 DEF And
  <2>2. /\ top \in UseTasks /\ top.do = "and" /\ top.rest \in Seq(Node)
    BY <1>0, <2>1, TopTyped DEF Busy
  <2>3. CASE Continue(<<>>)
    <3>1. <<>> \in Seq(UseTasks)
      OBVIOUS
    <3> QED
      BY <1>0, <2>1, <2>3, <3>1, Replaced DEF Pure, Keep, refs, TypeInv
  <2>4. CASE ~Continue(<<>>)
    <3> DEFINE t == [top EXCEPT !.rest = Tail(@)]
               m == Task("member", Head(top.rest))
               rest == IF Len(top.rest) = 1 THEN <<>> ELSE <<t>>
    <3>1. top.rest # <<>> /\ Continue(<<m>> \o rest)
      BY <1>5, <2>4 DEF And
    <3>2. t \in UseTasks
      <4>1. Tail(top.rest) \in Seq(Node)
        BY <2>2, <3>1
      <4>2. t = [top EXCEPT !.rest = Tail(top.rest)]
        BY <2>2 DEF UseTasks
      <4> QED
        BY <2>2, <4>1, <4>2 DEF UseTasks
    <3>3. m \in UseTasks
      <4>1. Head(top.rest) \in Node
        BY <2>2, <3>1
      <4> QED
        BY <1>0, <4>1, TaskTyped
    <3> HIDE DEF t, m
    <3>4. <<m>> \in Seq(UseTasks) /\ rest \in Seq(UseTasks)
      BY <3>2, <3>3
    <3> HIDE DEF rest
    <3>5. <<m>> \o rest \in Seq(UseTasks)
      BY ONLY <3>4, ConcatProperties
    <3> QED
      BY <1>0, <2>1, <3>1, <3>5, Replaced DEF Pure, Keep, refs, TypeInv
  <2> QED
    BY <2>3, <2>4
<1>6. CASE MemberReference
  <2>1. /\ Busy("member") /\ Enter /\ Keep /\ UNCHANGED <<realRefs, answer>>
        /\ setRefs' = IF To[node] \in DOMAIN setRefs THEN setRefs
                      ELSE Put(setRefs, To[node], Empty)
        /\ Continue(<<Task("member", setRefs'[To[node]])>>)
    BY <1>6 DEF MemberReference, Call
  <2>2. stack \in Seq(UseTasks) /\ stack # <<>>
    BY <1>0, <2>1, TopTyped
  <2>3. Empty \in Node /\ Kind[Empty] \in SetKind
    BY GraphAssumption DEF SetKind
  <2>4. /\ SetsTyped(setRefs') /\ To[node] \in DOMAIN setRefs'
        /\ \A x \in DOMAIN setRefs : x \in DOMAIN setRefs' /\ setRefs'[x] = setRefs[x]
    BY <2>1, <2>3 DEF TypeInv, SetsTyped, Put
  <2>5. Task("member", setRefs'[To[node]]) \in UseTasks
    <3>1. setRefs'[To[node]] \in Node
      BY <2>4 DEF SetsTyped
    <3> QED
      BY <1>0, <3>1, TaskTyped
  <2>6. <<Task("member", setRefs'[To[node]])>> \in Seq(UseTasks)
    BY <2>5
  <2>7. stack' \in Seq(UseTasks) /\ Rests
    BY <2>1, <2>2, <2>6, ContinueTyped
  <2> QED
    BY <2>1, <2>2, <2>4, <2>7 DEF UseStep, Keep, TypeInv
<1>7. CASE WhichError
  <2>1. PICK do \in {"member", "proj", "hull"} : Busy(do) /\ Enter /\ Raise("which")
    BY <1>7 DEF WhichError, Call
  <2>2. stack \in Seq(UseTasks)
    BY <1>0, <2>1, TopTyped
  <2> QED
    BY <2>1, <2>2, UseStepRaise
<1> QED
  BY <1>1, <1>2, <1>3, <1>4, <1>5, <1>6, <1>7 DEF Membership

(* Projections and bounding boxes: a point is projected from outside only, *)
(* and a round of Dykstra's algorithm follows another.                     *)
LEMMA ProjectionTyped ==
  ASSUME TypeInv, Projection \/ Hull \/ Merge \/ Solve \/ RaggedMatrix
  PROVE  UseStep
<1>0. /\ {"proj", "outside", "dykstra", "converged", "hull", "merge", "and", "solve",
          "matrix", "member"} \subseteq UseDo
      /\ {"proj", "eval", "decide", "outside", "dykstra", "converged", "hull", "matrix"}
           \subseteq Plain
  BY DEF UseDo, Plain, Strict, Lax, Inner
<1>1. CASE ProjectDirect
  <2>1. Busy("proj") /\ Enter /\ Pure /\ Continue(Each("eval", Kids[node]))
    BY <1>1 DEF ProjectDirect, Call
  <2>2. Each("eval", Kids[node]) \in Seq(UseTasks)
    BY <1>0, <2>1, TopTyped, EachTyped
  <2> QED
    BY <1>0, <2>1, <2>2, Replaced DEF Pure, Keep, refs, TypeInv
<1>2. CASE ProjectFromOutside
  <2>1. /\ Busy("proj") /\ Enter /\ Keep /\ UNCHANGED refs /\ answer' \in BOOLEAN
    BY <1>2 DEF ProjectFromOutside, Call, TypeInv
  <2>2. node \in Node /\ Kids[node] \in Seq(Node)
    BY <1>0, <2>1, TopTyped
  <2>3. Task("outside", node) \in UseTasks /\ Task("decide", node) \in UseTasks
    BY <1>0, <2>2, TaskTyped
  <2>4. CASE Kind[node] = "intersection"
    <3> DEFINE t == [Task("and", node) EXCEPT !.rest = Kids[node]]
    <3>1. Continue(<<t, Task("outside", node)>>)
      BY <1>2, <2>4 DEF ProjectFromOutside
    <3>2. t \in UseTasks
      BY <2>2, KeepsRest
    <3> HIDE DEF t
    <3>3. <<t, Task("outside", node)>> \in Seq(UseTasks)
      BY <2>3, <3>2
    <3> QED
      BY <1>0, <2>1, <3>1, <3>3, Replaced DEF Keep, refs
  <2>5. CASE Kind[node] # "intersection"
    <3>1. Continue(Each("eval", Kids[node]) \o <<Task("decide", node), Task("outside", node)>>)
      BY <1>2, <2>5 DEF ProjectFromOutside
    <3>2. <<Task("decide", node), Task("outside", node)>> \in Seq(UseTasks)
      BY <2>3
    <3> QED
      BY <1>0, <2>1, <3>1, <3>2, EvaluatesKids DEF Keep, refs
  <2> QED
    BY <2>4, <2>5
<1>3. CASE Outside
  <2>1. Busy("outside") /\ NoEntry /\ Pure
    BY <1>3 DEF Outside
  <2>2. node \in Node /\ Kids[node] \in Seq(Node)
    BY <1>0, <2>1, TopTyped
  <2>3. /\ Task("dykstra", node) \in UseTasks /\ Task("converged", node) \in UseTasks
        /\ Each("eval", Kids[node]) \in Seq(UseTasks)
    BY <1>0, <2>2, TaskTyped, EachTyped
  <2>4. PICK tasks : /\ Continue(tasks)
                     /\ tasks \in {<<>>, <<Task("dykstra", node)>>,
                          Append(Each("eval", Kids[node]), Task("converged", node)),
                          Each("eval", Kids[node])}
    <3>1. CASE answer
      BY <1>3, <3>1 DEF Outside
    <3>2. CASE ~answer /\ Kind[node] = "intersection"
      BY <1>3, <3>2 DEF Outside
    <3>3. CASE ~answer /\ Kind[node] = "polytope"
      BY <1>3, <3>3 DEF Outside
    <3>4. CASE ~answer /\ Kind[node] # "intersection" /\ Kind[node] # "polytope"
      BY <1>3, <3>4 DEF Outside
    <3> QED
      BY <3>1, <3>2, <3>3, <3>4
  <2>5. tasks \in Seq(UseTasks)
    <3>1. Append(Each("eval", Kids[node]), Task("converged", node)) \in Seq(UseTasks)
      BY ONLY <2>3, AppendProperties
    <3>2. <<Task("dykstra", node)>> \in Seq(UseTasks) /\ <<>> \in Seq(UseTasks)
      BY <2>3
    <3> QED
      BY <2>3, <2>4, <3>1, <3>2
  <2> QED
    BY <1>0, <2>1, <2>4, <2>5, Replaced DEF Pure, Keep, refs, TypeInv
<1>4. CASE Dykstra
  <2>1. Busy("dykstra") /\ NoEntry
    BY <1>4 DEF Dykstra
  <2>2. /\ stack \in Seq(UseTasks) /\ top \in UseTasks /\ top.do = "dykstra"
        /\ Kids[node] \in Seq(Node) /\ top.k \in Nat
    BY <1>0, <2>1, TopTyped DEF Busy
  <2>3. CASE Continue(<<>>) /\ Pure
    <3>1. <<>> \in Seq(UseTasks)
      OBVIOUS
    <3> QED
      BY <1>0, <2>1, <2>3, <3>1, Replaced DEF Pure, Keep, refs, TypeInv
  <2>4. CASE Raise("no_convergence")
    BY <2>1, <2>2, <2>4, UseStepRaise
  <2>5. CASE ~(Continue(<<>>) /\ Pure) /\ ~Raise("no_convergence")
    <3> DEFINE t == [top EXCEPT !.k = @ + 1]
    <3>1. Continue(Append(Each("proj", Kids[node]), t)) /\ Pure
      BY <1>4, <2>5 DEF Dykstra
    <3>2. t \in UseTasks
      <4>1. t = [top EXCEPT !.k = top.k + 1] /\ top.k + 1 \in Nat
        BY <2>2 DEF UseTasks
      <4> QED
        BY <2>2, <4>1 DEF UseTasks
    <3> HIDE DEF t
    <3>3. Each("proj", Kids[node]) \in Seq(UseTasks)
      BY <1>0, <2>2, EachTyped
    <3>4. Append(Each("proj", Kids[node]), t) \in Seq(UseTasks)
      BY ONLY <3>2, <3>3, AppendProperties
    <3> QED
      BY <1>0, <2>1, <3>1, <3>4, Replaced DEF Pure, Keep, refs, TypeInv
  <2> QED
    BY <2>3, <2>4, <2>5
<1>5. CASE Converged
  <2>1. Busy("converged") /\ NoEntry
    BY <1>5 DEF Converged
  <2>2. stack \in Seq(UseTasks) /\ <<>> \in Seq(UseTasks)
    BY <1>0, <2>1, TopTyped
  <2>3. (Continue(<<>>) /\ Pure) \/ Raise("no_convergence")
    BY <1>5 DEF Converged
  <2>4. CASE Continue(<<>>) /\ Pure
    BY <1>0, <2>1, <2>2, <2>4, Replaced DEF Pure, Keep, refs, TypeInv
  <2> QED
    BY <2>1, <2>2, <2>3, <2>4, UseStepRaise
<1>6. CASE Hull
  <2>1. Busy("hull") /\ Enter /\ Pure
    BY <1>6 DEF Hull, Call
  <2>2. node \in Node /\ Kids[node] \in Seq(Node)
    BY <1>0, <2>1, TopTyped
  <2> DEFINE first == IF Kind[node] = "intersection" THEN BoxParts(node)
                      ELSE Each("eval", Kids[node])
  <2>3. Continue(first \o Solution(node))
    BY <1>6 DEF Hull
  <2>4. first \in Seq(UseTasks) /\ Solution(node) \in Seq(UseTasks)
    BY <1>0, <2>2, EachTyped, BoxPartsTyped, SolutionTyped
  <2> HIDE DEF first
  <2>5. first \o Solution(node) \in Seq(UseTasks)
    BY ONLY <2>4, ConcatProperties
  <2> QED
    BY <1>0, <2>1, <2>3, <2>5, Replaced DEF Pure, Keep, refs, TypeInv
<1>7. CASE Merge
  <2>1. Busy("merge") /\ NoEntry /\ Pure
    BY <1>7 DEF Merge
  <2>2. node \in Node /\ Kids[node] \in Seq(Node)
    BY <1>0, <2>1, TopTyped
  <2>3. CASE Continue(Each("eval", Kids[node]))
    <3>1. Each("eval", Kids[node]) \in Seq(UseTasks)
      BY <1>0, <2>2, EachTyped
    <3> QED
      BY <1>0, <2>1, <2>3, <3>1, Replaced DEF Pure, Keep, refs, TypeInv
  <2>4. ASSUME NEW k \in 0 .. Len(Kids[node]),
               Continue(Append(Each("eval", SubSeq(Kids[node], k + 1, Len(Kids[node]))),
                               Task("matrix", node)))
        PROVE  UseStep
    <3> DEFINE vector == SubSeq(Kids[node], k + 1, Len(Kids[node]))
    <3>1. vector \in Seq(Node)
      BY <2>2, SubSeqProperties
    <3> HIDE DEF vector
    <3>2. Each("eval", vector) \in Seq(UseTasks) /\ Task("matrix", node) \in UseTasks
      BY <1>0, <2>2, <3>1, EachTyped, TaskTyped
    <3>3. Append(Each("eval", vector), Task("matrix", node)) \in Seq(UseTasks)
      BY ONLY <3>2, AppendProperties
    <3> QED
      BY <1>0, <2>1, <2>4, <3>3, Replaced DEF vector, Pure, Keep, refs, TypeInv
  <2> QED
    BY <1>7, <2>3, <2>4 DEF Merge
<1>8. CASE Solve
  <2>1. Busy("solve") /\ NoEntry
    BY <1>8 DEF Solve
  <2>2. stack \in Seq(UseTasks)
    BY <1>0, <2>1, TopTyped
  <2>3. <<>> \in Seq(UseTasks)
    OBVIOUS
  <2>4. CASE Continue(<<>>) /\ Pure
    BY <1>0, <2>1, <2>3, <2>4, Replaced DEF Pure, Keep, refs, TypeInv
  <2> QED
    BY <1>8, <2>1, <2>2, <2>4, UseStepRaise DEF Solve
<1>9. CASE RaggedMatrix
  <2>1. /\ Enter \/ NoEntry
        /\ Busy("member") \/ Busy("hull") \/ Busy("proj") \/ Busy("matrix")
        /\ Terminate
    BY <1>9 DEF RaggedMatrix, Call
  <2>2. stack \in Seq(UseTasks)
    BY <1>0, <2>1, TopTyped
  <2> QED
    BY <2>1, <2>2 DEF UseStep, Terminate, refs, TypeInv
<1> QED
  BY <1>1, <1>2, <1>3, <1>4, <1>5, <1>6, <1>7, <1>8, <1>9 DEF Projection

(* A step of the scan, while the counter is within the limit.              *)
ScanStep ==
  /\ stack \in Seq(ScanTasks) /\ stack # <<>> /\ stack' \in Seq(ScanTasks)
  /\ Busy("scan") \/ Busy("reset")

(* So does a scan.                                                         *)
LEMMA ScanTyped == ASSUME TypeInv, Scan \/ Reset PROVE ScanStep /\ TypeInv'
<1>1. stack # <<>> /\ (Busy("scan") \/ Busy("reset"))
  BY DEF Scan, Reset, Call, Busy
<1>2. stack \in Seq(ScanTasks)
  <2> SUFFICES ASSUME stack \in Seq(UseTasks) PROVE FALSE
    BY DEF TypeInv
  <2>1. top \in UseTasks
    BY <1>1 DEF top
  <2>2. top.do \in UseDo
    BY <2>1 DEF UseTasks
  <2> QED
    BY <1>1, <2>2 DEF Busy, UseDo
<1>3. top \in ScanTasks /\ node \in Node
  <2>1. top \in ScanTasks
    BY <1>1, <1>2 DEF top
  <2> QED
    BY <2>1 DEF ScanTasks, Task, node
<1>4. Kids[node] \in Seq(Node) /\ Kind[node] \in RealKind \cup SetKind
  BY <1>3, GraphAssumption
<1>5. CASE Scan
  <2>1. Each("scan", Scanned(node)) \in Seq(ScanTasks)
    <3>1. \A i \in 1 .. Len(Kids[node]) : Task("scan", Kids[node][i]) \in ScanTasks
      BY <1>4 DEF ScanTasks
    <3> QED
      BY <1>4, <3>1 DEF Each, Scanned
  <2>2. stack' \in Seq(ScanTasks)
    BY <1>1, <1>2, <1>5, <2>1, ContinueTyped DEF Scan
  <2>3. /\ \A x \in DOMAIN realRefs' : realRefs'[x] \in Node /\ Kind[realRefs'[x]] \in RealKind
        /\ SetsTyped(setRefs')
    BY <1>3, <1>5 DEF Scan, Enlist, Put, SetsTyped, TypeInv
  <2>4. depth' \in 0 .. MAX_NESTING_DEPTH + 1 /\ visits' \in Nat
    BY <1>5, LimitsAssumption DEF Scan, Call, Enter, Capped, Over, TypeInv
  <2> QED
    BY <1>1, <1>2, <1>5, <2>2, <2>3, <2>4 DEF ScanStep, TypeInv, Scan, Keep
<1>6. CASE Reset
  <2>1. <<>> \in Seq(ScanTasks)
    OBVIOUS
  <2>2. stack' \in Seq(ScanTasks)
    BY <1>1, <1>2, <1>6, <2>1, ContinueTyped DEF Reset
  <2> QED
    BY <1>1, <1>2, <1>6, <2>2, LimitsAssumption
       DEF ScanStep, TypeInv, SetsTyped, Reset, Pure, Keep, refs
<1> QED
  BY <1>5, <1>6

(* The tasks of a whole scan.                                              *)
LEMMA ScanAllTyped ==
  ASSUME NEW a \in Advs
  PROVE  ScanAll(a) \in Seq(ScanTasks) /\ Len(ScanAll(a)) = 2 * Len(a)
<1>1. a \in Seq(Node) /\ Empty \in Node
  BY GraphAssumption
<1>2. \A i \in 1 .. 2 * Len(a) : ScanAll(a)[i] \in ScanTasks
  <2> SUFFICES ASSUME NEW i \in 1 .. 2 * Len(a) PROVE ScanAll(a)[i] \in ScanTasks
    OBVIOUS
  <2>1. CASE i % 2 = 1
    <3>1. (i + 1) \div 2 \in 1 .. Len(a)
      BY <1>1, <2>1
    <3>2. a[(i + 1) \div 2] \in Node
      BY <1>1, <3>1
    <3> QED
      BY <2>1, <3>2 DEF ScanAll, ScanTasks
  <2>2. CASE i % 2 # 1
    BY <1>1, <2>2 DEF ScanAll, ScanTasks
  <2> QED
    BY <2>1, <2>2
<1> QED
  BY <1>1, <1>2 DEF ScanAll

(* What a client of the interpreter may do, the validator as well as any   *)
(* other: it asks for whatever it likes.                                   *)
Client ==
  \/ Construct
  \/ \E a \in Advs : setAdv(a)
  \/ \E do \in {"eval", "derive", "member", "proj", "hull"}, n \in Node,
        given \in SUBSET Variables : Ask(do, n, given)

Moves == Step \/ Client \/ UNCHANGED vars

(* A user is a client.                                                     *)
LEMMA NextMoves == ASSUME TypeInv, [Next]_vars PROVE Moves
<1>1. CASE Use
  <2>1. PICK i \in DOMAIN adv, given \in SUBSET Variables,
             do \in {"eval", "derive", "member", "proj", "hull"} : Ask(do, adv[i], given)
    BY <1>1 DEF Use
  <2>2. adv[i] \in Node
    BY <2>1, GraphAssumption DEF TypeInv
  <2> QED
    BY <2>1, <2>2 DEF Moves, Client
<1> QED
  BY <1>1 DEF Next, User, Moves, Client

(* The counter stays within the limit and one.                             *)
LEMMA EnterTyped ==
  ASSUME TypeInv, Enter \/ NoEntry
  PROVE  depth' \in 0 .. MAX_NESTING_DEPTH + 1 /\ visits' \in Nat
  BY LimitsAssumption DEF TypeInv, Enter, NoEntry, Capped, Over

(* The types are kept by all that may happen.                              *)
LEMMA MovesTyped == ASSUME TypeInv, Moves PROVE TypeInv'
<1>1. CASE UseStep
  BY <1>1, EnterTyped DEF UseStep, TypeInv, SetsTyped
<1>2. CASE Scan \/ Reset
  BY <1>2, ScanTyped
<1>3. CASE TooDeep
  <2>1. stack' \in Seq(ScanTasks)
    BY <1>3 DEF TooDeep, Raise
  <2>2. depth' \in 0 .. MAX_NESTING_DEPTH + 1 /\ visits' \in Nat
    BY <1>3, EnterTyped DEF TooDeep
  <2> QED
    BY <1>3, <2>1, <2>2 DEF TooDeep, Raise, refs, TypeInv, SetsTyped
<1>4. CASE Return
  BY <1>4 DEF Return, refs, TypeInv, SetsTyped
<1>5. CASE Client
  <2>1. CASE Construct
    <3>1. stack' \in Seq(ScanTasks)
      BY <2>1, ScanAllTyped DEF Construct, TypeInv
    <3> QED
      BY <2>1, <3>1, LimitsAssumption DEF Construct, refs, TypeInv, SetsTyped
  <2>2. CASE \E a \in Advs : setAdv(a)
    <3>1. PICK a \in Advs : setAdv(a)
      BY <2>2
    <3>2. stack' \in Seq(ScanTasks)
      BY <3>1, ScanAllTyped DEF setAdv
    <3> QED
      BY <3>1, <3>2, LimitsAssumption DEF setAdv, refs, TypeInv, SetsTyped
  <2>3. ASSUME NEW do \in {"eval", "derive", "member", "proj", "hull"}, NEW n \in Node,
               NEW given \in SUBSET Variables, Ask(do, n, given)
        PROVE  TypeInv'
    <3>1. Task(do, n) \in UseTasks
      <4>1. do \in Plain
        BY DEF Plain, UseDo, Strict, Lax, Inner
      <4> QED
        BY <4>1, TaskTyped
    <3>2. stack' \in Seq(UseTasks)
      BY <2>3, <3>1 DEF Ask
    <3> QED
      BY <2>3, <3>2, LimitsAssumption DEF Ask, Clear, refs, TypeInv, SetsTyped
  <2> QED
    BY <1>5, <2>1, <2>2, <2>3 DEF Client
<1>6. CASE UNCHANGED vars
  BY <1>6 DEF vars, refs, TypeInv, SetsTyped
<1>7. CASE Evaluation \/ Membership \/ Projection \/ Hull \/ Merge \/ Solve \/ RaggedMatrix
  BY <1>1, <1>7, EvaluationTyped, MembershipTyped, ProjectionTyped
<1> QED
  BY <1>2, <1>3, <1>4, <1>5, <1>6, <1>7 DEF Moves, Step

(* The types hold at first, and say what TypeOK does.                      *)
LEMMA InitTyped == Init => TypeInv
<1> SUFFICES ASSUME Init PROVE TypeInv
  OBVIOUS
<1>1. stack \in Seq(UseTasks)
  BY DEF Init
<1>2. DOMAIN realRefs = {} /\ DOMAIN setRefs = {}
  BY DEF Init
<1>3. depth \in 0 .. MAX_NESTING_DEPTH + 1 /\ visits \in Nat
  BY LimitsAssumption DEF Init
<1> QED
  BY <1>1, <1>2, <1>3 DEF Init, TypeInv, SetsTyped

LEMMA TypesFromInv == TypeInv => TypeOK
<1> SUFFICES ASSUME TypeInv PROVE TypeOK
  OBVIOUS
<1>1. UseTasks \subseteq TaskType
  BY DEF UseTasks, TaskType, UseDo
<1>2. ScanTasks \subseteq TaskType
  <2> SUFFICES ASSUME NEW do \in {"scan", "reset"}, NEW n \in Node
               PROVE  Task(do, n) \in TaskType
    BY DEF ScanTasks
  <2>1. do \in (Strict \cup Lax) \cup Inner
    BY DEF Strict, Inner
  <2> QED
    BY <2>1 DEF Task, TaskType
<1>3. stack \in Seq(TaskType)
  <2>1. stack \in [1 .. Len(stack) -> TaskType] /\ Len(stack) \in Nat
    <3>1. CASE stack \in Seq(UseTasks)
      BY <1>1, <3>1
    <3>2. CASE stack \in Seq(ScanTasks)
      BY <1>2, <3>2
    <3> QED
      BY <3>1, <3>2 DEF TypeInv
  <2> QED
    BY <2>1
<1> QED
  BY <1>3 DEF TypeInv, SetsTyped, TypeOK

(* Whatever a user asks of the interpreter, in any order, every task on    *)
(* the stack is well formed, the maps lead to expressions of their kind,   *)
(* and the counter stays within one of its limit.                          *)
THEOREM InterpreterTypes == SafeSpec => []TypeOK
<1>1. TypeInv /\ [Next]_vars => TypeInv'
  BY NextMoves, MovesTyped
<1> QED
  BY <1>1, InitTyped, TypesFromInv, PTL DEF SafeSpec

------------------------------------------------------------------------------
(* Names.  The expressions of an advertisement are the last of the levels  *)
(* that begin with its parts and add the kids of the one before.           *)

LEMMA LevelsDefined ==
  ASSUME NEW a \in Advs
  PROVE  /\ Levels(a) \in [0 .. MAX_NESTING_DEPTH -> SUBSET Node]
         /\ Levels(a)[0] = {a[i] : i \in DOMAIN a}
         /\ \A k \in 1 .. MAX_NESTING_DEPTH : Levels(a)[k] = WithKids(Levels(a)[k - 1])
<1> DEFINE M == MAX_NESTING_DEPTH
           Dom == SUBSET Node
           base == {a[i] : i \in DOMAIN a}
           step == [S \in Dom |-> WithKids(S)]
           Is(f) == f = [k \in 0 .. M |-> IF k = 0 THEN base ELSE WithKids(f[k - 1])]
<1>1. base \in Dom /\ M \in Nat
  BY GraphAssumption, LimitsAssumption
<1>2. \A S \in Dom : WithKids(S) \in Dom
  BY GraphAssumption DEF WithKids
<1>3. step \in [Dom -> Dom]
  BY <1>2
<1>4. PICK f \in [0 .. M -> Dom] : f[0] = base /\ \A k \in 1 .. M : f[k] = step[f[k - 1]]
  <2> HIDE DEF Dom, base, step, M
  <2>1. Stages(M, Dom, base, step) # {}
    BY <1>1, <1>3, StagesExist
  <2> QED
    BY <2>1 DEF Stages
<1>5. \A k \in 1 .. M : f[k] = WithKids(f[k - 1])
  <2> SUFFICES ASSUME NEW k \in 1 .. M PROVE f[k] = WithKids(f[k - 1])
    OBVIOUS
  <2>1. k - 1 \in 0 .. M
    BY <1>1
  <2> QED
    BY <1>4, <2>1
<1>6. Is(f)
  <2>1. \A k \in 0 .. M : k # 0 => k \in 1 .. M
    BY <1>1
  <2>2. \A k \in 0 .. M : f[k] = IF k = 0 THEN base ELSE WithKids(f[k - 1])
    BY <1>4, <1>5, <2>1
  <2> QED
    BY <1>4, <2>2
<1>7. Levels(a) = CHOOSE g : Is(g)
  BY DEF Levels
<1>8. Is(Levels(a))
  <2> HIDE DEF Is
  <2> QED
    BY <1>6, <1>7
<1>9. Levels(a)[0] = base /\ \A k \in 1 .. M : Levels(a)[k] = WithKids(Levels(a)[k - 1])
  <2>1. 0 \in 0 .. M /\ \A k \in 1 .. M : k \in 0 .. M /\ k # 0
    BY <1>1
  <2> HIDE DEF base, M
  <2> QED
    BY <1>8, <2>1
<1>10. Levels(a) \in [0 .. M -> Dom]
  <2> DEFINE S == {k \in Nat : k <= M => Levels(a)[k] \in Dom}
  <2>1. 0 \in S
    BY <1>1, <1>9
  <2>2. ASSUME NEW k \in S \cap Nat PROVE k + 1 \in S
    <3> SUFFICES ASSUME k + 1 <= M PROVE Levels(a)[k + 1] \in Dom
      OBVIOUS
    <3>1. k + 1 \in 1 .. M /\ (k + 1) - 1 = k /\ k <= M
      BY <1>1
    <3>2. Levels(a)[k + 1] = WithKids(Levels(a)[k])
      BY <1>9, <3>1
    <3>3. Levels(a)[k] \in Dom
      BY <2>2, <3>1
    <3> QED
      BY <1>2, <3>2, <3>3
  <2> HIDE DEF S
  <2>3. Nat \subseteq S
    BY <2>1, <2>2, SetInduction
  <2>4. \A k \in 0 .. M : Levels(a)[k] \in Dom
    BY <1>1, <2>3 DEF S
  <2>5. Levels(a) = [k \in 0 .. M |-> Levels(a)[k]]
    BY <1>8
  <2> HIDE DEF Dom, M
  <2> QED
    BY <2>4, <2>5
<1> QED
  BY <1>9, <1>10

(* A level holds those before it.                                          *)
LEMMA LevelsGrow ==
  ASSUME NEW a \in Advs, NEW k \in 0 .. MAX_NESTING_DEPTH,
         NEW l \in 0 .. MAX_NESTING_DEPTH, k <= l
  PROVE  Levels(a)[k] \subseteq Levels(a)[l]
<1> DEFINE M == MAX_NESTING_DEPTH
           S == {j \in Nat : k + j <= M => Levels(a)[k] \subseteq Levels(a)[k + j]}
<1>0. M \in Nat
  BY LimitsAssumption
<1>1. 0 \in S
  OBVIOUS
<1>2. ASSUME NEW j \in S \cap Nat PROVE j + 1 \in S
  <2> SUFFICES ASSUME k + (j + 1) <= M
               PROVE Levels(a)[k] \subseteq Levels(a)[k + (j + 1)]
    OBVIOUS
  <2>1. k + (j + 1) \in 1 .. M /\ (k + (j + 1)) - 1 = k + j /\ k + j <= M
    BY <1>0
  <2>2. Levels(a)[k + (j + 1)] = WithKids(Levels(a)[k + j])
    BY <2>1, LevelsDefined
  <2>3. Levels(a)[k] \subseteq Levels(a)[k + j]
    BY <1>2, <2>1
  <2> QED
    BY <2>2, <2>3 DEF WithKids
<1> HIDE DEF S
<1>3. l - k \in S
  <2>1. l - k \in Nat
    BY <1>0
  <2> QED
    BY <1>1, <1>2, <2>1, SetInduction
<1>4. k + (l - k) = l /\ l <= M
  BY <1>0
<1> QED
  BY <1>3, <1>4 DEF S

(* What holds the parts of an advertisement and the kids of all it holds   *)
(* is all of it.                                                           *)
LEMMA ClosedHoldsTree ==
  ASSUME NEW a \in Advs, NEW D,
         \A i \in DOMAIN a : a[i] \in D,
         \A n \in D : \A i \in DOMAIN Kids[n] : Kids[n][i] \in D
  PROVE  Tree(a) \subseteq D
<1> DEFINE M == MAX_NESTING_DEPTH
           S == {k \in Nat : k <= M => Levels(a)[k] \subseteq D}
<1>0. M \in Nat
  BY LimitsAssumption
<1>1. 0 \in S
  BY LevelsDefined
<1>2. ASSUME NEW k \in S \cap Nat PROVE k + 1 \in S
  <2> SUFFICES ASSUME k + 1 <= M PROVE Levels(a)[k + 1] \subseteq D
    OBVIOUS
  <2>1. k + 1 \in 1 .. M /\ (k + 1) - 1 = k /\ k <= M
    BY <1>0
  <2>2. Levels(a)[k + 1] = WithKids(Levels(a)[k])
    BY <2>1, LevelsDefined
  <2>3. Levels(a)[k] \subseteq D
    BY <1>2, <2>1
  <2> QED
    BY <2>2, <2>3 DEF WithKids
<1> HIDE DEF S
<1>3. M \in S
  BY <1>0, <1>1, <1>2, SetInduction
<1> QED
  BY <1>0, <1>3 DEF S, Tree

Found(n, D, reals, sets) ==
  LET map == IF Kind[n] \in RealKind THEN reals ELSE sets
  IN  Name[n] # NoName =>
        /\ Name[n] \in DOMAIN map
        /\ map[Name[n]] \in D /\ Name[map[Name[n]]] = Name[n]

AllFound(a, reals, sets) == \A n \in Tree(a) : Found(n, Tree(a), reals, sets)

Pending(tasks, n) == \E j \in DOMAIN tasks : tasks[j] = Task("scan", n)

\* How far a scan is: D has been scanned, tasks are left and d expressions
\* of the part at hand entered.  Those of the part are in the first d
\* levels, and after its reset come other parts.
Progress(D, a, reals, sets, tasks, d) ==
  /\ d \in 0 .. MAX_NESTING_DEPTH
  /\ D \subseteq Tree(a)
  /\ \A n \in D : Found(n, D, reals, sets)
  /\ \A n \in D : \A i \in DOMAIN Kids[n] : Kids[n][i] \in D \/ Pending(tasks, Kids[n][i])
  /\ \A i \in DOMAIN a : a[i] \in D \/ Pending(tasks, a[i])
  /\ \A j \in DOMAIN tasks : tasks[j].do = "scan" =>
       \/ tasks[j].node \in Levels(a)[0]
       \/ /\ \A i \in 1 .. j - 1 : tasks[i].do # "reset"
          /\ tasks[j].node \in Levels(a)[d]

(* A scan begins with all parts to be scanned.                             *)
LEMMA ScanBegins ==
  ASSUME NEW a \in Advs, NEW reals, NEW sets
  PROVE  Progress({}, a, reals, sets, ScanAll(a), 0)
<1>1. a \in Seq(Node) /\ Len(ScanAll(a)) = 2 * Len(a) /\ ScanAll(a) \in Seq(ScanTasks)
  BY ScanAllTyped, GraphAssumption
<1>2. DOMAIN ScanAll(a) = 1 .. 2 * Len(a) /\ DOMAIN a = 1 .. Len(a) /\ Len(a) \in Nat
  BY <1>1 DEF ScanAll
<1>3. \A i \in DOMAIN a : Pending(ScanAll(a), a[i])
  <2> SUFFICES ASSUME NEW i \in DOMAIN a
               PROVE \E j \in DOMAIN ScanAll(a) : ScanAll(a)[j] = Task("scan", a[i])
    BY DEF Pending
  <2>1. 2 * i - 1 \in 1 .. 2 * Len(a)
    BY <1>2
  <2>2. (2 * i - 1) % 2 = 1 /\ ((2 * i - 1) + 1) \div 2 = i
    BY <1>2
  <2> QED
    BY <1>2, <2>1, <2>2 DEF ScanAll
<1>4. ASSUME NEW j \in DOMAIN ScanAll(a), ScanAll(a)[j].do = "scan"
      PROVE  ScanAll(a)[j].node \in Levels(a)[0]
  <2>1. CASE j % 2 = 1
    <3>1. (j + 1) \div 2 \in DOMAIN a
      BY <1>2, <2>1
    <3>2. ScanAll(a)[j] = Task("scan", a[(j + 1) \div 2])
      BY <1>2, <2>1 DEF ScanAll
    <3> QED
      BY <3>1, <3>2, LevelsDefined DEF Task
  <2>2. CASE j % 2 # 1
    <3>1. ScanAll(a)[j] = Task("reset", Empty)
      BY <1>2, <2>2 DEF ScanAll
    <3> QED
      BY <1>4, <3>1 DEF Task
  <2> QED
    BY <2>1, <2>2
<1> QED
  BY <1>3, <1>4, LimitsAssumption DEF Progress

(* When nothing is left to be scanned, every name is found.                *)
LEMMA ScanEnds ==
  ASSUME NEW a \in Advs, NEW D, NEW reals, NEW sets, NEW d,
         Progress(D, a, reals, sets, <<>>, d)
  PROVE  AllFound(a, reals, sets)
<1>1. \A n : ~Pending(<<>>, n)
  BY DEF Pending
<1>2. Tree(a) \subseteq D
  <2>1. \A i \in DOMAIN a : a[i] \in D
    BY <1>1 DEF Progress
  <2>2. \A n \in D : \A i \in DOMAIN Kids[n] : Kids[n][i] \in D
    BY <1>1 DEF Progress
  <2> QED
    BY <2>1, <2>2, ClosedHoldsTree
<1>3. D = Tree(a)
  BY <1>2 DEF Progress
<1> QED
  BY <1>3 DEF Progress, AllFound

(* A name that is enlisted hides the same name only.                       *)
LEMMA EnlistKeeps ==
  ASSUME NEW n \in Node, NEW D, NEW reals, NEW sets, NEW m \in D \cup {n},
         m # n => Found(m, D, reals, sets),
         Kind[m] \in RealKind \cup SetKind, Kind[n] \in RealKind \cup SetKind
  PROVE  Found(m, D \cup {n}, Enlist(reals, n, RealKind), Enlist(sets, n, SetKind))
<1>1. \A k \in SetKind : k \notin RealKind
  BY DEF SetKind, RealKind
<1> DEFINE kinds == IF Kind[m] \in RealKind THEN RealKind ELSE SetKind
           f == IF Kind[m] \in RealKind THEN reals ELSE sets
           g == Enlist(f, n, kinds)
<1>2. Kind[m] \in kinds
  OBVIOUS
<1>3. SUFFICES ASSUME Name[m] # NoName
               PROVE  /\ Name[m] \in DOMAIN g /\ g[Name[m]] \in D \cup {n}
                      /\ Name[g[Name[m]]] = Name[m]
  BY DEF Found
<1>4. m # n => Name[m] \in DOMAIN f /\ f[Name[m]] \in D /\ Name[f[Name[m]]] = Name[m]
  BY <1>3 DEF Found
<1> HIDE DEF f, kinds
<1>5. CASE Name[n] # NoName /\ Kind[n] \in kinds
  <2>1. g = [y \in DOMAIN f \cup {Name[n]} |-> IF y = Name[n] THEN n ELSE f[y]]
    BY <1>5 DEF Enlist, Put
  <2> HIDE DEF g
  <2>2. CASE Name[m] = Name[n]
    BY <2>1, <2>2
  <2>3. CASE Name[m] # Name[n]
    BY <1>4, <2>1, <2>3
  <2> QED
    BY <2>2, <2>3
<1>6. CASE ~(Name[n] # NoName /\ Kind[n] \in kinds)
  <2>1. g = f
    BY <1>6 DEF Enlist
  <2>2. m # n
    BY <1>2, <1>3, <1>6
  <2> HIDE DEF g
  <2> QED
    BY <1>4, <2>1, <2>2
<1> QED
  BY <1>5, <1>6

(* An expression that is scanned makes progress: its kids take its place   *)
(* among the tasks, one level further.                                     *)
LEMMA ScanAdvances ==
  ASSUME NEW D, NEW a \in Advs, NEW reals, NEW sets, NEW tasks \in Seq(ScanTasks),
         NEW d, Progress(D, a, reals, sets, tasks, d), d + 1 <= MAX_NESTING_DEPTH,
         tasks # <<>>, NEW n \in Node, Head(tasks) = Task("scan", n)
  PROVE  Progress(D \cup {n}, a, Enlist(reals, n, RealKind), Enlist(sets, n, SetKind),
                  Each("scan", Kids[n]) \o Tail(tasks), d + 1)
<1> DEFINE E == D \cup {n}
           new == Each("scan", Kids[n])
           all == new \o Tail(tasks)
<1>1. /\ d \in 0 .. MAX_NESTING_DEPTH /\ d + 1 \in 0 .. MAX_NESTING_DEPTH
      /\ d + 1 \in 1 .. MAX_NESTING_DEPTH /\ 0 \in 0 .. MAX_NESTING_DEPTH /\ (d + 1) - 1 = d
      /\ MAX_NESTING_DEPTH \in 0 .. MAX_NESTING_DEPTH /\ MAX_NESTING_DEPTH \in Nat
  BY LimitsAssumption DEF Progress
<1>2. /\ Kids[n] \in Seq(Node) /\ \A m \in Node : Kind[m] \in RealKind \cup SetKind
      /\ Tree(a) \subseteq Node
  BY <1>1, LevelsDefined, GraphAssumption DEF Tree
<1>3. /\ new \in Seq(ScanTasks) /\ Len(new) = Len(Kids[n])
      /\ \A i \in 1 .. Len(Kids[n]) : new[i] = Task("scan", Kids[n][i])
  <2>1. \A i \in 1 .. Len(Kids[n]) : Task("scan", Kids[n][i]) \in ScanTasks
    BY <1>2 DEF ScanTasks
  <2> QED
    BY SMTT(30), <1>2, <2>1 DEF Each
<1>4. tasks[1] = Task("scan", n) /\ 1 \in DOMAIN tasks /\ Len(tasks) \in Nat
      /\ DOMAIN tasks = 1 .. Len(tasks)
  OBVIOUS
<1>5. n \in Levels(a)[d]
  <2>1. tasks[1].do = "scan" /\ tasks[1].node = n
    BY <1>4 DEF Task
  <2>2. n \in Levels(a)[0] \/ n \in Levels(a)[d]
    BY <1>4, <2>1 DEF Progress
  <2>3. 0 <= d
    BY <1>1
  <2> QED
    BY <1>1, <2>2, <2>3, LevelsGrow
<1>6. n \in Tree(a)
  BY <1>1, <1>5, LevelsGrow DEF Tree
<1> HIDE DEF new
<1>7. /\ DOMAIN all = 1 .. Len(new) + Len(tasks) - 1
      /\ \A j \in 1 .. Len(new) : j \in DOMAIN all /\ all[j] = new[j]
      /\ \A j \in 2 .. Len(tasks) : /\ Len(new) + j - 1 \in DOMAIN all
                                    /\ all[Len(new) + j - 1] = tasks[j]
  <2>1. tasks \in Seq(ScanTasks) /\ tasks # <<>> /\ new \in Seq(ScanTasks)
    BY <1>3
  <2> QED
    BY ONLY <2>1, AfterReplacement
<1> HIDE DEF all
<1>8. \A m \in E : Found(m, E, Enlist(reals, n, RealKind), Enlist(sets, n, SetKind))
  <2> SUFFICES ASSUME NEW m \in E
               PROVE Found(m, E, Enlist(reals, n, RealKind), Enlist(sets, n, SetKind))
    OBVIOUS
  <2>1. m # n => Found(m, D, reals, sets)
    BY DEF Progress
  <2>2. m \in Node
    BY <1>2 DEF Progress
  <2> QED
    BY <1>2, <2>1, <2>2, EnlistKeeps
<1>9. \A m : Pending(tasks, m) => m \in E \/ Pending(all, m)
  <2> SUFFICES ASSUME NEW m, NEW j \in DOMAIN tasks, tasks[j] = Task("scan", m)
               PROVE m \in E \/ Pending(all, m)
    BY DEF Pending
  <2>1. CASE j = 1
    <3>1. Task("scan", m).node = Task("scan", n).node
      BY <1>4, <2>1
    <3> QED
      BY <3>1 DEF Task
  <2>2. CASE j # 1
    <3>1. j \in 2 .. Len(tasks)
      BY <1>4, <2>2
    <3> QED
      BY <1>7, <3>1 DEF Pending
  <2> QED
    BY <2>1, <2>2
<1>10. \A i \in DOMAIN Kids[n] : Pending(all, Kids[n][i])
  <2>1. DOMAIN Kids[n] = 1 .. Len(Kids[n])
    BY <1>2
  <2> QED
    BY <1>3, <1>7, <2>1 DEF Pending
<1>11. /\ \A m \in E : \A i \in DOMAIN Kids[m] : Kids[m][i] \in E \/ Pending(all, Kids[m][i])
       /\ \A i \in DOMAIN a : a[i] \in E \/ Pending(all, a[i])
  BY <1>9, <1>10 DEF Progress
<1>12. ASSUME NEW j \in DOMAIN all, all[j].do = "scan"
       PROVE  \/ all[j].node \in Levels(a)[0]
              \/ /\ \A i \in 1 .. j - 1 : all[i].do # "reset"
                 /\ all[j].node \in Levels(a)[d + 1]
  <2>0. Len(new) \in Nat /\ \A i \in 1 .. Len(new) : all[i].do # "reset"
    <3>1. Len(new) \in Nat
      BY <1>3
    <3>2. ASSUME NEW i \in 1 .. Len(new) PROVE all[i].do # "reset"
      <4>1. all[i] = Task("scan", Kids[n][i])
        BY <1>3, <1>7, <3>2
      <4> QED
        BY <4>1 DEF Task
    <3> QED
      BY <3>1, <3>2
  <2>1. CASE j \in 1 .. Len(new)
    <3>1. all[j].node = Kids[n][j] /\ j \in DOMAIN Kids[n]
      <4>1. all[j] = Task("scan", Kids[n][j])
        BY <1>3, <1>7, <2>1
      <4> QED
        BY <1>2, <1>3, <2>1, <4>1 DEF Task
    <3>2. Levels(a)[d + 1] = WithKids(Levels(a)[d])
      BY <1>1, LevelsDefined
    <3>3. all[j].node \in Levels(a)[d + 1]
      BY <1>5, <3>1, <3>2 DEF WithKids
    <3>4. \A i \in 1 .. j - 1 : i \in 1 .. Len(new)
      BY <2>0, <2>1
    <3> QED
      BY <2>0, <3>3, <3>4
  <2>2. CASE j \notin 1 .. Len(new)
    <3>1. PICK i \in 2 .. Len(tasks) : j = Len(new) + i - 1
      <4>1. j \in 1 .. Len(new) + Len(tasks) - 1
        BY <1>7
      <4>2. j - Len(new) + 1 \in 2 .. Len(tasks) /\ j = Len(new) + (j - Len(new) + 1) - 1
        BY <1>4, <2>0, <2>2, <4>1
      <4> QED
        BY <4>2
    <3>2. all[j] = tasks[i] /\ i \in DOMAIN tasks
      BY <1>4, <1>7, <3>1
    <3>3. CASE tasks[i].node \in Levels(a)[0]
      BY <3>2, <3>3
    <3>4. CASE (\A k \in 1 .. i - 1 : tasks[k].do # "reset") /\ tasks[i].node \in Levels(a)[d]
      <4>1. all[j].node \in Levels(a)[d + 1]
        <5>1. d <= d + 1
          BY <1>1
        <5> QED
          BY <1>1, <3>2, <3>4, <5>1, LevelsGrow
      <4>2. ASSUME NEW k \in 1 .. j - 1 PROVE all[k].do # "reset"
        <5>1. CASE k \in 1 .. Len(new)
          BY <2>0, <5>1
        <5>2. CASE k \notin 1 .. Len(new)
          <6>1. k - Len(new) + 1 \in 2 .. i - 1 /\ k = Len(new) + (k - Len(new) + 1) - 1
            BY <2>0, <3>1, <5>2
          <6>2. all[k] = tasks[k - Len(new) + 1]
            BY SMTT(30), <1>4, <1>7, <3>1, <6>1
          <6> QED
            BY <3>4, <6>1, <6>2
        <5> QED
          BY <5>1, <5>2
      <4> QED
        BY <4>1, <4>2
    <3> QED
      BY <1>12, <3>2, <3>3, <3>4 DEF Progress
  <2> QED
    BY <2>1, <2>2
<1>13. E \subseteq Tree(a)
  BY <1>6 DEF Progress
<1>14. Progress(E, a, Enlist(reals, n, RealKind), Enlist(sets, n, SetKind), all, d + 1)
  BY <1>1, <1>8, <1>11, <1>12, <1>13 DEF Progress
<1> QED
  BY <1>14 DEF all, new

(* The counter is cleared between two parts: what is left to be scanned is *)
(* then at the first level.                                                *)
LEMMA ResetAdvances ==
  ASSUME NEW D, NEW a \in Advs, NEW reals, NEW sets, NEW tasks \in Seq(ScanTasks),
         NEW d, Progress(D, a, reals, sets, tasks, d),
         tasks # <<>>, Head(tasks).do = "reset"
  PROVE  Progress(D, a, reals, sets, Tail(tasks), 0)
<1> DEFINE all == Tail(tasks)
<1>1. /\ tasks[1].do = "reset" /\ 1 \in DOMAIN tasks /\ Len(tasks) \in Nat
      /\ DOMAIN tasks = 1 .. Len(tasks)
  OBVIOUS
<1>2. /\ DOMAIN all = 1 .. Len(tasks) - 1
      /\ \A j \in DOMAIN all : all[j] = tasks[j + 1]
  OBVIOUS
<1> HIDE DEF all
<1>3. \A m : Pending(tasks, m) => Pending(all, m)
  <2> SUFFICES ASSUME NEW m, NEW j \in DOMAIN tasks, tasks[j] = Task("scan", m)
               PROVE Pending(all, m)
    BY DEF Pending
  <2>1. j # 1
    BY <1>1 DEF Task
  <2>2. j - 1 \in DOMAIN all /\ all[j - 1] = tasks[j]
    BY <1>1, <1>2, <2>1
  <2> QED
    BY <2>2 DEF Pending
<1>4. ASSUME NEW j \in DOMAIN all, all[j].do = "scan"
      PROVE  all[j].node \in Levels(a)[0]
  <2>1. j + 1 \in DOMAIN tasks /\ 1 \in 1 .. (j + 1) - 1 /\ all[j] = tasks[j + 1]
    BY <1>1, <1>2
  <2> QED
    BY <1>1, <1>4, <2>1 DEF Progress
<1>5. Progress(D, a, reals, sets, all, 0)
  BY <1>3, <1>4, LimitsAssumption DEF Progress
<1> QED
  BY <1>5 DEF all

\* No scan of setAdv meets the limit: it would throw with the maps half filled.
ScansFit == Busy("scan") => ~Over

NamesInv ==
  /\ phase \in {"constructing", "running"} =>
       \/ /\ stack \in Seq(ScanTasks)
          /\ \E D : Progress(D, adv, realRefs, setRefs, stack, depth)
       \/ stack \in Seq(UseTasks) /\ AllFound(adv, realRefs, setRefs)
  /\ phase = "idle" => AllFound(adv, realRefs, setRefs)
  /\ stack # <<>> => phase \in {"constructing", "running"}

(* A scan is no other call.                                                *)
LEMMA NeverTogether ==
  ASSUME NEW tasks \in Seq(ScanTasks), tasks \in Seq(UseTasks)
  PROVE  tasks = <<>>
<1> SUFFICES ASSUME tasks # <<>> PROVE FALSE
  OBVIOUS
<1>1. Head(tasks) \in ScanTasks /\ Head(tasks) \in UseTasks
  OBVIOUS
<1>2. Head(tasks).do \in {"scan", "reset"}
  BY <1>1 DEF ScanTasks, Task
<1>3. Head(tasks).do \in UseDo
  BY <1>1 DEF UseTasks
<1> QED
  BY <1>2, <1>3 DEF UseDo

(* A step of a scan keeps it going, whatever the limit: beyond it a scan   *)
(* does not go on.                                                         *)
LEMMA ScanGoesOn ==
  ASSUME TypeInv, Scan \/ Reset, NEW D,
         Progress(D, adv, realRefs, setRefs, stack, depth)
  PROVE  \E E : /\ Progress(E, adv, realRefs', setRefs', stack', depth')
                /\ Scan => node \in E
<1>0. adv \in Advs
  BY DEF TypeInv
<1>1. stack \in Seq(ScanTasks) /\ stack # <<>>
  BY ScanTyped DEF ScanStep
<1>2. CASE Scan
  <2>1. top.do = "scan" /\ depth + 1 <= MAX_NESTING_DEPTH
    <3>1. ~Over
      BY <1>2 DEF Scan, Call, Lax
    <3> QED
      BY <1>2, <3>1, LimitsAssumption DEF Scan, Call, Busy, Over, TypeInv
  <2>2. top = Task("scan", node) /\ node \in Node
    <3>1. top \in ScanTasks
      BY <1>1 DEF top
    <3>2. PICK do \in {"scan", "reset"}, n \in Node : top = Task(do, n)
      BY <3>1 DEF ScanTasks
    <3>3. do = "scan" /\ node = n
      BY <2>1, <3>2 DEF Task, node
    <3> QED
      BY <3>2, <3>3
  <2>3. /\ realRefs' = Enlist(realRefs, node, RealKind)
        /\ setRefs' = Enlist(setRefs, node, SetKind)
        /\ stack' = Each("scan", Kids[node]) \o Tail(stack)
    BY <1>2 DEF Scan, Continue, Scanned
  <2>4. depth' = depth + 1
    BY <1>2, <2>1, LimitsAssumption DEF Scan, Call, Enter, Capped, Over, TypeInv
  <2>5. Progress(D \cup {node}, adv, realRefs', setRefs', stack', depth')
    BY <1>0, <1>1, <2>1, <2>2, <2>3, <2>4, ScanAdvances DEF top
  <2> QED
    BY <2>5
<1>3. CASE Reset
  <2>1. /\ top.do = "reset" /\ depth' = 0 /\ stack' = <<>> \o Tail(stack)
        /\ realRefs' = realRefs /\ setRefs' = setRefs
    BY <1>3 DEF Reset, Busy, Continue, Pure, refs
  <2>2. stack' = Tail(stack)
    BY <1>1, <2>1
  <2>3. Progress(D, adv, realRefs', setRefs', stack', depth')
    BY <1>0, <1>1, <2>1, <2>2, ResetAdvances DEF top
  <2>4. ~Scan
    BY <2>1 DEF Scan, Call, Busy
  <2> QED
    BY <2>3, <2>4
<1> QED
  BY <1>2, <1>3

(* A scan goes on, and every other call finds all names where the scan     *)
(* before it has left them, or under a name that was put there since.      *)
LEMMA MovesFind == ASSUME TypeInv, NamesInv, ScansFit, Moves PROVE NamesInv'
<1>0. adv \in Advs
  BY DEF TypeInv
<1>1. CASE Evaluation \/ Membership \/ Projection \/ Hull \/ Merge \/ Solve \/ RaggedMatrix
  <2>1. UseStep
    BY <1>1, EvaluationTyped, MembershipTyped, ProjectionTyped
  <2>2. stack # <<>>
    BY <1>1, EvaluationWalks, SetsWalk DEF Walk
  <2>3. /\ phase \in {"constructing", "running"} /\ AllFound(adv, realRefs, setRefs)
    BY <2>1, <2>2, NeverTogether DEF UseStep, NamesInv
  <2>4. AllFound(adv, realRefs, setRefs')
    BY <2>1, <2>3 DEF AllFound, Found, UseStep
  <2> QED
    BY <2>1, <2>3, <2>4 DEF UseStep, NamesInv
<1>2. CASE Scan \/ Reset
  <2>1. ScanStep
    BY <1>2, ScanTyped
  <2>2. stack \in Seq(ScanTasks) /\ stack # <<>> /\ stack' \in Seq(ScanTasks)
    BY <2>1 DEF ScanStep
  <2>3. phase \in {"constructing", "running"}
    BY <2>2 DEF NamesInv
  <2>4. PICK D : Progress(D, adv, realRefs, setRefs, stack, depth)
    BY <2>2, <2>3, NeverTogether DEF NamesInv
  <2>5. adv' = adv /\ phase' = phase
    BY <1>2 DEF Scan, Reset, Pure, Keep
  <2>6. \E E : Progress(E, adv, realRefs', setRefs', stack', depth')
    BY <1>2, <2>4, ScanGoesOn
  <2> QED
    BY <2>2, <2>3, <2>5, <2>6 DEF NamesInv
<1>3. CASE TooDeep
  <2>1. stack # <<>> /\ top.do \in Strict /\ Over
    BY <1>3 DEF TooDeep
  <2>2. stack \notin Seq(ScanTasks)
    <3> SUFFICES ASSUME stack \in Seq(ScanTasks) PROVE FALSE
      OBVIOUS
    <3>1. top \in ScanTasks
      BY <2>1 DEF top
    <3>2. top.do = "scan"
      BY <2>1, <3>1 DEF ScanTasks, Task, Strict
    <3> QED
      BY <2>1, <3>2 DEF ScansFit, Busy
  <2>3. AllFound(adv, realRefs, setRefs)
    BY <2>1, <2>2 DEF NamesInv
  <2> QED
    BY <1>3, <2>3 DEF TooDeep, Raise, refs, NamesInv
<1>4. CASE Return
  <2>1. stack = <<>> /\ phase \in {"constructing", "running"}
    BY <1>4 DEF Return
  <2>2. AllFound(adv, realRefs, setRefs)
    BY <1>0, <2>1, ScanEnds DEF NamesInv
  <2> QED
    BY <1>4, <2>1, <2>2 DEF Return, refs, NamesInv
<1>5. CASE Construct
  <2>1. stack' \in Seq(ScanTasks) /\ Progress({}, adv, realRefs, setRefs, stack', depth')
    BY <1>0, <1>5, ScanAllTyped, ScanBegins DEF Construct
  <2> QED
    BY <1>5, <2>1 DEF Construct, refs, NamesInv
<1>6. ASSUME NEW a \in Advs, setAdv(a) PROVE NamesInv'
  <2>1. stack' \in Seq(ScanTasks) /\ Progress({}, a, realRefs, setRefs, stack', depth')
    BY <1>6, ScanAllTyped, ScanBegins DEF setAdv
  <2> QED
    BY <1>6, <2>1 DEF setAdv, refs, NamesInv
<1>7. ASSUME NEW do \in {"eval", "derive", "member", "proj", "hull"}, NEW n \in Node,
             NEW given \in SUBSET Variables, Ask(do, n, given)
      PROVE  NamesInv'
  <2>1. stack' \in Seq(UseTasks)
    <3>1. do \in Plain
      BY DEF Plain, UseDo, Strict, Lax, Inner
    <3>2. Task(do, n) \in UseTasks
      BY <3>1, TaskTyped
    <3> QED
      BY <1>7, <3>2 DEF Ask
  <2>2. AllFound(adv, realRefs, setRefs)
    BY <1>7 DEF Ask, NamesInv
  <2> QED
    BY <1>7, <2>1, <2>2 DEF Ask, refs, NamesInv
<1>8. CASE UNCHANGED vars
  BY <1>8 DEF vars, refs, NamesInv
<1> QED
  BY <1>1, <1>2, <1>3, <1>4, <1>5, <1>6, <1>7, <1>8 DEF Moves, Step, Client

(* The invariant says what is to be shown.                                 *)
LEMMA NamesFromInv == TypeInv /\ NamesInv => NamesFound
  BY DEF NamesInv, AllFound, Found, NamesFound

(* Once an advertisement is set, each name in it is looked up to an        *)
(* expression of its own, of the right kind and name, whatever was set     *)
(* before and wherever the name is hidden, as long as no scan meets the    *)
(* limit, which would leave it half done (findReferences, _nesting_depth). *)
THEOREM NamesFoundCorrect == SafeSpec /\ []ScansFit => []NamesFound
<1>1. Init => TypeInv /\ NamesInv
  BY InitTyped DEF Init, NamesInv
<1>2. TypeInv /\ NamesInv /\ ScansFit /\ [Next]_vars => (TypeInv /\ NamesInv)'
  BY NextMoves, MovesTyped, MovesFind
<1> QED
  BY <1>1, <1>2, NamesFromInv, PTL DEF SafeSpec

------------------------------------------------------------------------------
(* The validator, as a client.                                             *)

ValidatorInv ==
  /\ TypeInv /\ ValidatorTypeOK
  /\ client # "user" => adv = offer.adv
  /\ client = "user" => at = "start" /\ verdict = "none"

(* The interpreter moves with its client, or not at all.                   *)
LEMMA ValidatorMoves ==
  ASSUME ValidatorInv, [ValidatorNext]_allvars
  PROVE  Moves
<1>1. ASSUME NEW do \in {"eval", "derive", "member", "proj", "hull"}, NEW n,
             NEW given \in SUBSET Variables, Ask(do, n, given),
             client # "user", n \in {profile, belief, cost}
      PROVE  Moves
  <2>1. adv \in Seq(Node) /\ Len(adv) = 3
    BY <1>1, OffersAssumption, GraphAssumption DEF ValidatorInv, ValidatorTypeOK, TypeInv
  <2>2. n \in Node
    BY <1>1, <2>1 DEF profile, belief, cost
  <2> QED
    BY <1>1, <2>2 DEF Moves, Client
<1>2. {} \subseteq Variables /\ Given \subseteq Variables
  BY VariablesAssumption DEF Given
<1>3. CASE Interpret \/ UNCHANGED allvars
  BY <1>3 DEF Interpret, allvars, Moves
<1>4. CASE Free
  BY <1>4, NextMoves DEF Free, Next, ValidatorInv
<1>5. CASE Failed
  BY <1>5 DEF Failed, Conclude, Moves
<1>6. CASE Start
  <2>1. offer.adv \in Advs
    BY OffersAssumption DEF ValidatorInv, ValidatorTypeOK
  <2> QED
    BY <1>6, <2>1 DEF Start, Conclude, Moves, Client
<1>7. CASE CheckDefinitions
  BY <1>1, <1>2, <1>7 DEF CheckDefinitions, Returned, Conclude, Moves
<1>8. CASE Evaluate
  BY <1>1, <1>2, <1>8 DEF Evaluate, Returned
<1>9. CASE Accept
  BY <1>9 DEF Accept, Conclude, Moves
<1>10. CASE \E p \in Points : Sample(p) \/ Again(p)
  BY <1>1, <1>2, <1>10 DEF Sample, Again, Draw, Returned
<1> QED
  BY <1>3, <1>4, <1>5, <1>6, <1>7, <1>8, <1>9, <1>10 DEF ValidatorNext, Validate

(* The advertisement is set by the client only.                            *)
LEMMA StepKeepsAdv == ASSUME TypeInv, Step PROVE adv' = adv
<1>1. CASE Evaluation \/ Membership \/ Projection \/ Hull \/ Merge \/ Solve \/ RaggedMatrix
  BY <1>1, EvaluationTyped, MembershipTyped, ProjectionTyped DEF UseStep
<1>2. CASE Scan \/ Reset
  BY <1>2 DEF Scan, Reset, Pure, Keep
<1>3. CASE TooDeep
  BY <1>3 DEF TooDeep, Raise
<1>4. CASE Return
  BY <1>4 DEF Return
<1> QED
  BY <1>1, <1>2, <1>3, <1>4 DEF Step

(* A validator begins with its advertisement.                              *)
LEMMA ValidatorStarts == ValidatorInit => ValidatorInv
<1> SUFFICES ASSUME ValidatorInit PROVE ValidatorInv
  OBVIOUS
<1>1. TypeInv /\ TypeOK
  BY InitTyped, TypesFromInv DEF ValidatorInit
<1>2. done \in 0 .. 2 * Evaluations
  BY EvaluationsAssumption DEF ValidatorInit
<1> QED
  BY <1>1, <1>2 DEF ValidatorInit, ValidatorInv, ValidatorTypeOK

(* A validator has a verdict when it has ended, and goes on to the belief  *)
(* function once the cost function is done with.                           *)
LEMMA ValidatorKeeps == ASSUME ValidatorInv, [ValidatorNext]_allvars PROVE ValidatorInv'
<1>1. TypeInv' /\ TypeOK'
  <2>1. TypeInv'
    BY ValidatorMoves, MovesTyped DEF ValidatorInv
  <2> HIDE DEF TypeInv
  <2>2. TypeInv' => TypeOK'
    BY TypesFromInv, PTL
  <2> QED
    BY <2>1, <2>2
<1> USE DEF ValidatorInv, ValidatorTypeOK
<1>2. CASE Interpret
  <2>1. adv' = adv /\ UNCHANGED <<client, offer, verdict, at, point, done>>
    BY <1>2, StepKeepsAdv DEF Interpret, check
  <2> QED
    BY <1>1, <2>1
<1>3. CASE Free
  BY <1>1, <1>3 DEF Free, check
<1>4. CASE Failed
  BY <1>1, <1>4 DEF Failed, Conclude, vars
<1>5. CASE Start
  <2>1. client # "user" /\ adv' = adv
    BY <1>5 DEF Start, Conclude, vars, Construct, setAdv
  <2>2. CASE Conclude("reject")
    BY <1>1, <2>1, <2>2 DEF Conclude
  <2>3. CASE Goes("scan") /\ UNCHANGED <<point, done>>
    BY <1>1, <1>5, <2>1, <2>3 DEF Goes, Start
  <2> QED
    BY <1>5, <2>2, <2>3 DEF Start
<1>6. CASE CheckDefinitions
  <2>1. client # "user" /\ adv' = adv /\ at = "scan"
    BY <1>6 DEF CheckDefinitions, Returned, Conclude, vars, Ask
  <2>2. CASE Conclude("reject")
    BY <1>1, <2>1, <2>2 DEF Conclude
  <2>3. CASE Goes("box") /\ UNCHANGED <<point, done>>
    BY <1>1, <2>1, <2>3 DEF Goes
  <2> QED
    BY <1>6, <2>2, <2>3 DEF CheckDefinitions
<1>7. CASE Evaluate
  <2>1. client # "user" /\ adv' = adv /\ at = "sample" /\ UNCHANGED <<point, done>>
    BY <1>7 DEF Evaluate, Returned, Ask
  <2>2. CASE Goes("cost")
    BY <1>1, <2>1, <2>2 DEF Goes
  <2>3. CASE Goes("belief") /\ ~(done < Evaluations)
    BY <1>1, <2>1, <2>3, EvaluationsAssumption DEF Goes
  <2> QED
    BY <1>7, <2>2, <2>3 DEF Evaluate
<1>8. CASE Accept
  BY <1>1, <1>8 DEF Accept, Returned, Conclude, vars
<1>9. CASE \E p \in Points : Sample(p) \/ Again(p)
  <2>1. PICK p \in Points : Sample(p) \/ Again(p)
    BY <1>9
  <2>2. Draw(p) /\ client # "user" /\ at # "end"
    BY <2>1 DEF Sample, Again, Returned
  <2>3. adv' = adv /\ point' = p /\ Goes("sample")
    BY <2>2 DEF Draw, Ask
  <2>4. done' \in 0 .. 2 * Evaluations
    BY <2>1, EvaluationsAssumption DEF Sample, Again
  <2> QED
    BY <1>1, <2>2, <2>3, <2>4 DEF Goes
<1>10. CASE UNCHANGED allvars
  BY <1>1, <1>10 DEF allvars, check, vars
<1> QED
  BY <1>2, <1>3, <1>4, <1>5, <1>6, <1>7, <1>8, <1>9, <1>10 DEF ValidatorNext, Validate

(* Whatever the interpreter meets in an advertisement, a validator has a   *)
(* verdict when, and only when, it has ended, and it evaluates the belief  *)
(* function only after the cost function (initAndValidate).                *)
THEOREM ValidatorTypes == ValidatorSpec => []ValidatorTypeOK
<1>1. ValidatorInv => ValidatorTypeOK
  BY DEF ValidatorInv
<1> QED
  BY <1>1, ValidatorStarts, ValidatorKeeps, PTL DEF ValidatorSpec

(* The names of an advertisement are found by its validator, too.          *)
THEOREM ValidatorNamesFound == ValidatorSpec /\ []ScansFit => []NamesFound
<1>1. ValidatorInit => NamesInv
  BY DEF ValidatorInit, Init, NamesInv
<1>2. /\ ValidatorInv /\ NamesInv /\ ScansFit /\ [ValidatorNext]_allvars => NamesInv'
  BY ValidatorMoves, MovesFind DEF ValidatorInv
<1>3. ValidatorInv /\ NamesInv => NamesFound
  BY NamesFromInv DEF ValidatorInv
<1> QED
  BY <1>1, <1>2, <1>3, ValidatorStarts, ValidatorKeeps, PTL DEF ValidatorSpec

(* Every move of a client, too, starts with a counter of its own.          *)
LEMMA MovesCount == ASSUME CountInv, Moves PROVE CountInv'
<1>1. CASE Step \/ UNCHANGED vars
  BY <1>1, NextKeeps DEF Next
<1>2. CASE Construct \/ \E a \in Advs : setAdv(a)
  BY <1>2, NextKeeps DEF Next, User
<1>3. ASSUME NEW do, NEW n, NEW given, Ask(do, n, given) PROVE CountInv'
  BY <1>3 DEF Ask, Clear, CountInv, Counted, LimitPerCall
<1> QED
  BY <1>1, <1>2, <1>3 DEF Moves, Client

(* The validator's calls of the interpreter each have the whole limit.     *)
THEOREM ValidatorLimit == ValidatorSpec => []LimitPerCall
<1>1. ValidatorInit => CountInv
  BY DEF ValidatorInit, Init, CountInv, Counted, LimitPerCall
<1>2. ValidatorInv /\ CountInv /\ [ValidatorNext]_allvars => CountInv'
  BY ValidatorMoves, MovesCount
<1>3. CountInv => LimitPerCall
  BY DEF CountInv
<1> QED
  BY <1>1, <1>2, <1>3, ValidatorStarts, ValidatorKeeps, PTL DEF ValidatorSpec

------------------------------------------------------------------------------
(* The box of a profile.  While it is computed no variable has a value.    *)

BoxTasks ==
  {t \in UseTasks : t.do \in {"hull", "merge", "eval", "matrix", "solve"}}

\* A call that ends with an exception, or with the process.
Fails == stack' = <<>> /\ outcome' # "ok" /\ phase' \in {"idle", "dead", "terminated"}

(* An exception is never taken for a result, nor is the end of it all.     *)
LEMMA RaiseFails ==
  ASSUME NEW error, error # "ok", Raise(error)
  PROVE  Fails /\ UNCHANGED <<adv, refs, values>>
  BY DEF Raise, Fails

LEMMA TerminateFails ==
  ASSUME Terminate
  PROVE  Fails /\ UNCHANGED <<adv, refs, values>>
  BY DEF Terminate, Fails

\* What a step does while a box is computed: an intersection goes on to the
\* boxes of all its sets but polytopes.
HullGoes(new) ==
  /\ new \in Seq(BoxTasks) /\ stack' = new \o Tail(stack)
  /\ depth' \in {depth, depth + 1}
  /\ \/ /\ top.do = "hull" /\ Kind[node] = "intersection"
        /\ depth < MAX_NESTING_DEPTH /\ depth' = depth + 1
        /\ \A i \in DOMAIN Kids[node] :
             \/ Kind[Kids[node][i]] = "polytope"
             \/ \E j \in DOMAIN new : new[j].do = "hull" /\ new[j].node = Kids[node][i]
     \/ top.do = "hull" => Kind[node] \in Shape

(* Numbers of a set are evaluated one by one.                              *)
LEMMA EachBoxes ==
  ASSUME NEW ns \in Seq(Node)
  PROVE  /\ Each("eval", ns) \in Seq(BoxTasks)
         /\ DOMAIN Each("eval", ns) = DOMAIN ns
         /\ \A i \in DOMAIN ns : Each("eval", ns)[i].node = ns[i]
<1>1. \A n \in Node : Task("eval", n) \in BoxTasks
  <2>1. "eval" \in Plain
    BY DEF Plain, UseDo, Strict, Lax, Inner
  <2>2. \A n \in Node : Task("eval", n) \in UseTasks
    BY <2>1, TaskTyped
  <2>3. \A n \in Node : Task("eval", n).do = "eval"
    BY DEF Task
  <2> QED
    BY <2>2, <2>3 DEF BoxTasks
<1>2. \A i \in 1 .. Len(ns) : Task("eval", ns[i]) \in BoxTasks
  BY <1>1
<1> QED
  BY <1>2 DEF Each, Task

(* Each function called enters one level, and none while the depth is at   *)
(* its limit.                                                              *)
LEMMA CallEnters ==
  ASSUME TypeInv, NEW do \in Strict, Call(do)
  PROVE  depth < MAX_NESTING_DEPTH /\ depth' = depth + 1 /\ stack # <<>> /\ top.do = do
  BY LimitsAssumption DEF Call, Busy, Over, Enter, Capped, TypeInv, Strict, Lax

(* The steps that are left while a box is computed: no case distinction    *)
(* gets to its sets, since no variable has a value.                        *)
LEMMA BoxSteps ==
  ASSUME TypeInv, stack \in Seq(BoxTasks), values = {}, Step
  PROVE  \/ Fails /\ UNCHANGED <<adv, refs, values>>
         \/ Return
         \/ /\ stack # <<>> /\ UNCHANGED <<adv, refs, values, answer, phase, outcome>>
            /\ \E new : HullGoes(new)
<1> DEFINE Dos == {"hull", "merge", "eval", "matrix", "solve"}
           Still == UNCHANGED <<adv, refs, values, answer, phase, outcome>>
<1>0. stack # <<>> => /\ top \in BoxTasks /\ top.do \in Dos
                      /\ node \in Node /\ Kids[node] \in Seq(Node)
  <2> SUFFICES ASSUME stack # <<>>
               PROVE /\ top \in BoxTasks /\ top.do \in Dos
                     /\ node \in Node /\ Kids[node] \in Seq(Node)
    OBVIOUS
  <2>1. top \in BoxTasks
    BY DEF top
  <2>2. node \in Node
    BY <2>1 DEF BoxTasks, UseTasks, node
  <2> QED
    BY <2>1, <2>2, GraphAssumption DEF BoxTasks, node
<1>1. ASSUME NEW do, Busy(do) PROVE stack # <<>> /\ do \in Dos /\ top.do = do
  BY <1>0, <1>1 DEF Busy
<1>2. CASE Eval
  <2>1. Call("eval") /\ Kind[node] \in EvalKids
    BY <1>2 DEF Eval
  <2>2. stack # <<>> /\ top.do = "eval" /\ depth' = depth + 1
    BY <2>1, CallEnters DEF Strict
  <2>3. HullGoes(Each("eval", Kids[node]))
    BY <1>0, <1>2, <2>1, <2>2, EachBoxes DEF Eval, Continue, HullGoes
  <2> QED
    BY <1>2, <2>2, <2>3 DEF Eval, Pure, Keep, refs
<1>3. CASE Variable \/ CaseDistinction
  <2>1. ~Known(node)
    BY DEF Known
  <2>2. Raise("unknown_variable") \/ Raise("unbound")
    BY <1>3, <2>1 DEF Variable, CaseDistinction
  <2> QED
    BY <2>2, RaiseFails
<1>4. CASE Reference
  <2>1. CASE Raise("unknown_reference")
    BY <2>1, RaiseFails
  <2>2. CASE ~Raise("unknown_reference")
    <3>1. Call("eval") /\ Kind[node] = "reference"
      BY <1>1, <1>4 DEF Reference, Call
    <3>2. stack # <<>> /\ top.do = "eval" /\ depth' = depth + 1
      BY <3>1, CallEnters DEF Strict
    <3>3. /\ To[node] \in DOMAIN realRefs /\ Pure
          /\ stack' = <<Task("eval", realRefs[To[node]])>> \o Tail(stack)
      BY <1>4, <2>2, <3>2 DEF Reference, Continue
    <3>4. Task("eval", realRefs[To[node]]) \in BoxTasks
      <4>1. realRefs[To[node]] \in Node
        BY <3>3 DEF TypeInv
      <4>2. "eval" \in Plain
        BY DEF Plain, UseDo, Strict, Lax, Inner
      <4> QED
        BY <4>1, <4>2, TaskTyped DEF BoxTasks, Task
    <3>5. HullGoes(<<Task("eval", realRefs[To[node]])>>)
      BY <3>1, <3>2, <3>3, <3>4 DEF HullGoes
    <3> QED
      BY <3>2, <3>3, <3>5 DEF Pure, Keep, refs
  <2> QED
    BY <2>1, <2>2
<1>5. CASE WhichError
  BY <1>5, RaiseFails DEF WhichError
<1>6. CASE TooDeep
  BY <1>6, RaiseFails DEF TooDeep
<1>7. CASE Hull
  <2>1. Call("hull") /\ Kind[node] \in SetKind \ {"setcase", "setref"}
    BY <1>7 DEF Hull
  <2>2. stack # <<>> /\ top.do = "hull" /\ depth < MAX_NESTING_DEPTH /\ depth' = depth + 1
    BY <2>1, CallEnters DEF Strict
  <2>3. /\ node \in Node /\ Kids[node] \in Seq(Node)
        /\ Solution(node) \in Seq(BoxTasks)
    <3>1. node \in Node /\ Kids[node] \in Seq(Node)
      BY <1>0, <2>2
    <3>2. "solve" \in Plain
      BY DEF Plain, UseDo, Strict, Lax, Inner
    <3>3. Task("solve", node) \in BoxTasks
      BY <3>1, <3>2, TaskTyped DEF BoxTasks, Task
    <3> QED
      BY <3>1, <3>3 DEF Solution
  <2>4. CASE Kind[node] # "intersection"
    <3> DEFINE new == Each("eval", Kids[node]) \o Solution(node)
    <3>1. Kind[node] \in Shape
      BY <2>1, <2>4 DEF SetKind, Shape
    <3>2. Each("eval", Kids[node]) \in Seq(BoxTasks)
      BY <2>3, EachBoxes
    <3>3. new \in Seq(BoxTasks)
      BY ONLY <2>3, <3>2, ConcatProperties
    <3>4. stack' = new \o Tail(stack)
      BY <1>7, <2>4 DEF Hull, Continue
    <3> HIDE DEF new
    <3>5. HullGoes(new)
      BY <2>2, <3>1, <3>3, <3>4 DEF HullGoes
    <3> QED
      BY <1>7, <2>2, <3>5 DEF Hull, Pure, Keep, refs
  <2>5. CASE Kind[node] = "intersection"
    <3> DEFINE parts == BoxParts(node)
               new == parts \o Solution(node)
    <3>1. /\ parts \in Seq(UseTasks) /\ Len(parts) = Len(Kids[node])
          /\ \A i \in DOMAIN Kids[node] :
               /\ parts[i] = IF Kind[Kids[node][i]] = "polytope"
                             THEN Task("merge", Kids[node][i])
                             ELSE Task("hull", Kids[node][i])
               /\ parts[i].node = Kids[node][i]
      BY <2>3, BoxPartsTyped
    <3>2. stack' = new \o Tail(stack)
      BY <1>7, <2>5 DEF Hull, Continue
    <3>3. ASSUME NEW i \in DOMAIN Kids[node]
          PROVE  /\ parts[i] \in BoxTasks /\ parts[i].node = Kids[node][i]
                 /\ Kind[Kids[node][i]] # "polytope" => parts[i].do = "hull"
      <4> HIDE DEF parts
      <4>1. i \in DOMAIN parts
        BY <2>3, <3>1
      <4>2. parts[i] \in UseTasks
        BY <3>1, <4>1
      <4>3. /\ parts[i].do \in {"hull", "merge"}
            /\ Kind[Kids[node][i]] # "polytope" => parts[i].do = "hull"
        <5>1. parts[i] = IF Kind[Kids[node][i]] = "polytope"
                         THEN Task("merge", Kids[node][i])
                         ELSE Task("hull", Kids[node][i])
          BY <3>1
        <5>2. /\ Task("merge", Kids[node][i]).do = "merge"
              /\ Task("hull", Kids[node][i]).do = "hull"
          BY DEF Task
        <5> QED
          BY <5>1, <5>2
      <4> QED
        BY <3>1, <4>2, <4>3 DEF BoxTasks
    <3> HIDE DEF parts
    <3>4. parts \in Seq(BoxTasks)
      <4>1. \A i \in 1 .. Len(parts) : parts[i] \in BoxTasks
        BY <2>3, <3>1, <3>3
      <4> QED
        BY <3>1, <4>1
    <3>5. /\ new \in Seq(BoxTasks)
          /\ \A i \in 1 .. Len(parts) : i \in DOMAIN new /\ new[i] = parts[i]
      BY ONLY <2>3, <3>4, ConcatProperties
    <3> HIDE DEF new
    <3>6. ASSUME NEW i \in DOMAIN Kids[node], Kind[Kids[node][i]] # "polytope"
          PROVE  \E j \in DOMAIN new : new[j].do = "hull" /\ new[j].node = Kids[node][i]
      <4>1. i \in 1 .. Len(parts)
        BY <2>3, <3>1
      <4> QED
        BY <3>3, <3>5, <3>6, <4>1
    <3>7. HullGoes(new)
      BY <2>2, <2>5, <3>2, <3>5, <3>6 DEF HullGoes
    <3> QED
      BY <1>7, <2>2, <3>7 DEF Hull, Pure, Keep, refs
  <2> QED
    BY <2>4, <2>5
<1>8. CASE Merge
  <2>1. stack # <<>> /\ top.do = "merge" /\ node \in Node /\ Kids[node] \in Seq(Node)
    BY <1>0, <1>8 DEF Merge, Busy
  <2>2. PICK new \in Seq(BoxTasks) : Continue(new)
    <3>1. CASE Continue(Each("eval", Kids[node]))
      BY <2>1, <3>1, EachBoxes
    <3>2. ASSUME NEW k \in 0 .. Len(Kids[node]),
                 Continue(Append(Each("eval", SubSeq(Kids[node], k + 1, Len(Kids[node]))),
                                 Task("matrix", node)))
          PROVE  \E new \in Seq(BoxTasks) : Continue(new)
      <4> DEFINE vector == SubSeq(Kids[node], k + 1, Len(Kids[node]))
                 last == Task("matrix", node)
      <4>1. vector \in Seq(Node)
        BY <2>1, SubSeqProperties
      <4> HIDE DEF vector
      <4>2. Each("eval", vector) \in Seq(BoxTasks)
        BY <4>1, EachBoxes
      <4>3. last \in BoxTasks
        <5>1. "matrix" \in Plain
          BY DEF Plain, UseDo, Strict, Lax, Inner
        <5> QED
          BY <2>1, <5>1, TaskTyped DEF BoxTasks, Task
      <4> HIDE DEF last
      <4>4. Append(Each("eval", vector), last) \in Seq(BoxTasks)
        BY ONLY <4>2, <4>3, AppendProperties
      <4>5. Continue(Append(Each("eval", vector), last))
        BY <3>2 DEF vector, last
      <4> QED
        BY <4>4, <4>5
    <3> QED
      BY <1>8, <3>1, <3>2 DEF Merge
  <2>3. HullGoes(new)
    BY <1>8, <2>1, <2>2 DEF Merge, Continue, HullGoes, NoEntry
  <2> QED
    BY <1>8, <2>1, <2>3 DEF Merge, Pure, Keep, refs
<1>9. CASE Return
  BY <1>9
<1>10. CASE Derive \/ OtherVariable \/ TestCase \/ Branch
  BY <1>1, <1>10 DEF Derive, OtherVariable, TestCase, Branch, Call
<1>11. CASE MemberShape \/ Decide \/ MemberParts \/ Bounds \/ And \/ MemberReference
  <2>1. Busy("member") \/ Busy("decide") \/ Busy("bounds") \/ Busy("and")
    BY <1>11 DEF MemberShape, Decide, MemberParts, Bounds, And, MemberReference, Call
  <2> QED
    BY <1>1, <2>1
<1>12. CASE Projection
  BY <1>1, <1>12 DEF Projection, ProjectDirect, ProjectFromOutside, Outside, Dykstra,
     Converged, Call
<1>13. CASE Scan \/ Reset
  BY <1>1, <1>13 DEF Scan, Reset, Call
<1>14. CASE Solve
  <2>1. CASE Raise("no_box")
    BY <2>1, RaiseFails
  <2>2. CASE Continue(<<>>) /\ Pure
    <3>1. stack # <<>> /\ top.do = "solve" /\ depth' = depth
      BY <1>14 DEF Solve, Busy, NoEntry
    <3>2. HullGoes(<<>>)
      BY <2>2, <3>1 DEF Continue, HullGoes
    <3> QED
      BY <2>2, <3>1, <3>2 DEF Pure, Keep, refs
  <2> QED
    BY <1>14, <2>1, <2>2 DEF Solve
<1>15. CASE RaggedMatrix
  BY <1>15, TerminateFails DEF RaggedMatrix
<1> QED
  BY <1>2, <1>3, <1>4, <1>5, <1>6, <1>7, <1>8, <1>9, <1>10, <1>11, <1>12, <1>13, <1>14,
     <1>15
     DEF Step, Evaluation, Membership

\* Calls that have still to box a set.
Boxing(tasks, n) == \E j \in DOMAIN tasks : tasks[j].do = "hull" /\ tasks[j].node = n

\* The layers of a profile as far as its box is computed: shapes, and
\* intersections of what is one layer further, all within the limit.
Layered(a, L, tasks, d) ==
  /\ L \in [0 .. MAX_NESTING_DEPTH -> SUBSET Node]
  /\ a[1] \in L[0]
  /\ \A k \in 0 .. MAX_NESTING_DEPTH : \A n \in L[k] :
       /\ n \in Levels(a)[k]
       /\ \/ k <= d /\ Boxing(tasks, n)
          \/ Kind[n] \in Shape
          \/ /\ Kind[n] = "intersection" /\ k < MAX_NESTING_DEPTH
             /\ \A i \in DOMAIN Kids[n] : Kids[n][i] \in L[k + 1]

(* The first call is for the profile.                                      *)
LEMMA LayersBegin ==
  ASSUME NEW a \in Advs, Len(a) = 3
  PROVE  \E L : Layered(a, L, <<Task("hull", a[1])>>, 0)
<1>1. a \in Seq(Node) /\ a[1] \in Node /\ 1 \in DOMAIN a /\ MAX_NESTING_DEPTH \in Nat
  <2>1. a \in Seq(Node)
    BY GraphAssumption
  <2>2. 1 \in DOMAIN a
    BY <2>1
  <2> QED
    BY <2>1, <2>2, LimitsAssumption
<1> DEFINE tasks == <<Task("hull", a[1])>>
           L == [k \in 0 .. MAX_NESTING_DEPTH |-> IF k = 0 THEN {a[1]} ELSE {}]
<1>2. Boxing(tasks, a[1])
  <2>1. 1 \in DOMAIN tasks /\ tasks[1] = Task("hull", a[1])
    OBVIOUS
  <2>2. tasks[1].do = "hull" /\ tasks[1].node = a[1]
    BY DEF Task
  <2> HIDE DEF tasks
  <2> QED
    BY <2>1, <2>2 DEF Boxing
<1>3. a[1] \in Levels(a)[0]
  BY <1>1, LevelsDefined
<1> HIDE DEF tasks
<1>4. Layered(a, L, tasks, 0)
  BY <1>1, <1>2, <1>3 DEF Layered
<1> QED
  BY <1>4 DEF tasks

(* A call below the top waits on; others replace the top.                  *)
LEMMA WaitsOn ==
  ASSUME stack \in Seq(BoxTasks), stack # <<>>, NEW new \in Seq(BoxTasks),
         stack' = new \o Tail(stack)
  PROVE  /\ \A n : Boxing(stack, n) => (n = node /\ top.do = "hull") \/ Boxing(stack', n)
         /\ \A i \in DOMAIN new : new[i].do = "hull" => Boxing(stack', new[i].node)
<1>1. Continue(new)
  BY DEF Continue
<1>2. /\ Rests
      /\ \A i \in DOMAIN new : i \in DOMAIN stack' /\ stack'[i] = new[i]
  BY <1>1, ContinueTyped
<1>3. /\ stack[1] = top
      /\ \A j \in DOMAIN stack : j = 1 \/ j \in 2 .. Len(stack)
  BY DEF top
<1>4. ASSUME NEW n, Boxing(stack, n)
      PROVE  (n = node /\ top.do = "hull") \/ Boxing(stack', n)
  BY <1>2, <1>3, <1>4 DEF Boxing, node, Rests
<1> QED
  BY <1>2, <1>4 DEF Boxing

(* A step gives the intersection at the top the layer that follows.        *)
LEMMA LayersGo ==
  ASSUME TypeInv, stack \in Seq(BoxTasks), stack # <<>>, NEW new, HullGoes(new),
         NEW L, Layered(adv, L, stack, depth)
  PROVE  \E M : Layered(adv, M, stack', depth')
<1> DEFINE X == MAX_NESTING_DEPTH
<1>0. /\ X \in Nat \ {0} /\ depth \in Nat /\ depth' \in Nat /\ depth <= depth'
      /\ adv \in Advs /\ node \in Node /\ Kids[node] \in Seq(Node)
  <2>1. top \in BoxTasks
    BY DEF top
  <2>2. node \in Node
    BY <2>1 DEF BoxTasks, UseTasks, node
  <2> QED
    BY <2>2, LimitsAssumption, GraphAssumption DEF TypeInv, HullGoes
<1>1. /\ new \in Seq(BoxTasks) /\ stack' = new \o Tail(stack)
  BY DEF HullGoes
<1>2. \A n : Boxing(stack, n) => (n = node /\ top.do = "hull") \/ Boxing(stack', n)
  BY <1>1, WaitsOn
<1>3. CASE top.do # "hull" \/ Kind[node] \in Shape
  <2>1. ASSUME NEW k \in 0 .. X, NEW n \in L[k], k <= depth /\ Boxing(stack, n)
        PROVE  (k <= depth' /\ Boxing(stack', n)) \/ Kind[n] \in Shape
    <3>1. Boxing(stack', n) \/ Kind[n] \in Shape
      BY <1>2, <1>3, <2>1
    <3> QED
      BY <1>0, <2>1, <3>1
  <2>2. Layered(adv, L, stack', depth')
    BY <2>1 DEF Layered
  <2> QED
    BY <2>2
<1>4. CASE top.do = "hull" /\ Kind[node] \notin Shape
  <2>1. /\ Kind[node] = "intersection" /\ depth < X /\ depth' = depth + 1
        /\ \A i \in DOMAIN Kids[node] :
             \/ Kind[Kids[node][i]] = "polytope"
             \/ \E j \in DOMAIN new : new[j].do = "hull" /\ new[j].node = Kids[node][i]
    BY <1>4 DEF HullGoes
  <2> DEFINE kids == {Kids[node][i] : i \in DOMAIN Kids[node]}
             M == [k \in 0 .. X |->
                     L[k] \cup IF k # 0 /\ k - 1 <= depth /\ node \in L[k - 1]
                               THEN kids ELSE {}]
  <2>2. kids \subseteq Node
    BY <1>0
  <2>3. M \in [0 .. X -> SUBSET Node] /\ \A k \in 0 .. X : L[k] \subseteq M[k]
    BY <2>2 DEF Layered
  <2>4. \A c \in kids : Kind[c] \in Shape \/ Boxing(stack', c)
    <3> SUFFICES ASSUME NEW i \in DOMAIN Kids[node]
                 PROVE  Kind[Kids[node][i]] \in Shape \/ Boxing(stack', Kids[node][i])
      OBVIOUS
    <3> QED
      BY <1>1, <2>1, WaitsOn DEF Shape
  <2>5. ASSUME NEW k \in 0 .. X, node \in L[k], k <= depth
        PROVE  k + 1 \in 0 .. X /\ kids \subseteq M[k + 1] /\ kids \subseteq Levels(adv)[k + 1]
    <3>1. k + 1 \in 1 .. X /\ (k + 1) - 1 = k /\ k + 1 # 0
      BY <1>0, <2>1, <2>5
    <3>2. kids \subseteq M[k + 1]
      BY <2>5, <3>1
    <3>3. node \in Levels(adv)[k]
      BY <2>5 DEF Layered
    <3>4. Levels(adv)[k + 1] = WithKids(Levels(adv)[k])
      BY <1>0, <3>1, LevelsDefined
    <3> QED
      BY <3>1, <3>2, <3>3, <3>4 DEF WithKids
  <2>6. ASSUME NEW k \in 0 .. X, NEW n \in M[k], n \notin L[k]
        PROVE  /\ n \in Levels(adv)[k] /\ k <= depth'
               /\ Kind[n] \in Shape \/ Boxing(stack', n)
    <3>1. k # 0 /\ k - 1 <= depth /\ node \in L[k - 1] /\ n \in kids
      BY <2>6
    <3>2. k - 1 \in 0 .. X /\ (k - 1) + 1 = k
      BY <1>0, <3>1
    <3>3. n \in Levels(adv)[k]
      BY <2>5, <3>1, <3>2
    <3> QED
      BY <1>0, <2>1, <2>4, <3>1, <3>3
  <2> HIDE DEF M
  <2>7. ASSUME NEW k \in 0 .. X, NEW n \in L[k]
        PROVE  \/ k <= depth' /\ Boxing(stack', n)
               \/ Kind[n] \in Shape
               \/ /\ Kind[n] = "intersection" /\ k < X
                  /\ \A i \in DOMAIN Kids[n] : Kids[n][i] \in M[k + 1]
    <3>1. CASE k <= depth /\ Boxing(stack, n)
      <4>1. CASE Boxing(stack', n)
        BY <1>0, <3>1, <4>1
      <4>2. CASE n = node
        <5>1. k + 1 \in 0 .. X /\ kids \subseteq M[k + 1]
          BY <2>5, <3>1, <4>2
        <5> QED
          BY <1>0, <2>1, <4>2, <5>1
      <4> QED
        BY <1>2, <3>1, <4>1, <4>2
    <3>2. CASE /\ Kind[n] = "intersection" /\ k < X
               /\ \A i \in DOMAIN Kids[n] : Kids[n][i] \in L[k + 1]
      <4>1. k + 1 \in 0 .. X
        BY <1>0, <3>2
      <4> QED
        BY <2>3, <3>2, <4>1
    <3> QED
      BY <3>1, <3>2 DEF Layered
  <2>8. Layered(adv, M, stack', depth')
    <3>1. adv[1] \in M[0]
      BY <1>0, <2>3 DEF Layered
    <3>2. \A k \in 0 .. X : \A n \in M[k] : n \in Levels(adv)[k]
      BY <2>6 DEF Layered
    <3> HIDE DEF kids
    <3> QED
      BY <2>3, <2>6, <2>7, <3>1, <3>2 DEF Layered
  <2> QED
    BY <2>8
<1> QED
  BY <1>3, <1>4

\* The names that are known belong to the advertisement.
RefsOwn ==
  \A x \in DOMAIN realRefs :
    realRefs[x] \in Tree(adv) /\ Name[realRefs[x]] = x /\ x # NoName

(* A name is looked up to the one expression it stands for.                *)
LEMMA NamedOne ==
  ASSUME TypeInv, RefsOwn, NamesUnique, NEW x \in DOMAIN realRefs
  PROVE  Named(adv, x, RealKind) = {realRefs[x]}
<1>1. adv \in Advs /\ Nodes[adv] = Tree(adv)
  BY DEF TypeInv, Nodes
<1>2. /\ realRefs[x] \in Tree(adv) /\ Name[realRefs[x]] = x /\ x # NoName
      /\ Kind[realRefs[x]] \in RealKind
  BY DEF RefsOwn, TypeInv
<1>3. ASSUME NEW m \in Tree(adv), Kind[m] \in RealKind, Name[m] = x
      PROVE  m = realRefs[x]
  BY <1>1, <1>2, <1>3 DEF NamesUnique
<1> QED
  BY <1>1, <1>2, <1>3 DEF Named

(* The expressions of an advertisement are expressions.                    *)
LEMMA TreeNodes ==
  ASSUME NEW a \in Advs
  PROVE  Nodes[a] = Tree(a) /\ Tree(a) \subseteq Node
<1>1. MAX_NESTING_DEPTH \in 0 .. MAX_NESTING_DEPTH
  BY LimitsAssumption
<1> QED
  BY <1>1, LevelsDefined DEF Nodes, Tree

(* What a part leads to is found stage by stage.                          *)
LEMMA LeadsDefined ==
  ASSUME NEW a \in Advs, NEW part \in DOMAIN a
  PROVE  \E g \in [0 .. MAX_NESTING_DEPTH -> SUBSET Node] :
           /\ g[0] = {a[part]}
           /\ \A k \in 1 .. MAX_NESTING_DEPTH : g[k] = LeadOn(a, g[k - 1])
           /\ Leads[a][part] = g[MAX_NESTING_DEPTH]
<1> DEFINE M == MAX_NESTING_DEPTH
           Dom == SUBSET Node
           base == {a[part]}
           step == [S \in Dom |-> LeadOn(a, S)]
           Is(f) == f = [k \in 0 .. M |-> IF k = 0 THEN base ELSE LeadOn(a, f[k - 1])]
           g == CHOOSE f : Is(f)
<1>1. base \in Dom /\ M \in Nat
  BY GraphAssumption, LimitsAssumption, PointsAssumption
<1>2. \A S \in Dom : LeadOn(a, S) \in Dom
  <2>1. ASSUME NEW n \in Node PROVE Onward(a, n) \subseteq Node
    BY TreeNodes, GraphAssumption DEF Onward, Named
  <2> QED
    BY <2>1 DEF LeadOn
<1>3. step \in [Dom -> Dom]
  BY <1>2
<1>4. PICK f \in [0 .. M -> Dom] : f[0] = base /\ \A k \in 1 .. M : f[k] = step[f[k - 1]]
  <2> HIDE DEF Dom, base, step, M
  <2>1. Stages(M, Dom, base, step) # {}
    BY <1>1, <1>3, StagesExist
  <2> QED
    BY <2>1 DEF Stages
<1>5. \A k \in 1 .. M : f[k] = LeadOn(a, f[k - 1])
  <2> SUFFICES ASSUME NEW k \in 1 .. M PROVE f[k] = LeadOn(a, f[k - 1])
    OBVIOUS
  <2>1. k - 1 \in 0 .. M
    BY <1>1
  <2> QED
    BY <1>4, <2>1
<1>6. Is(f)
  <2>1. \A k \in 0 .. M : k # 0 => k \in 1 .. M
    BY <1>1
  <2>2. \A k \in 0 .. M : f[k] = IF k = 0 THEN base ELSE LeadOn(a, f[k - 1])
    BY <1>4, <1>5, <2>1
  <2> QED
    BY <1>4, <2>2
<1>7. Leads[a][part] = g[M]
  BY DEF Leads
<1>8. Is(g)
  <2> HIDE DEF Is
  <2> QED
    BY <1>6
<1> HIDE DEF g
<1>9. g[0] = base /\ \A k \in 1 .. M : g[k] = LeadOn(a, g[k - 1])
  <2>1. 0 \in 0 .. M /\ \A k \in 1 .. M : k \in 0 .. M /\ k # 0
    BY <1>1
  <2> HIDE DEF base, M
  <2> QED
    BY <1>8, <2>1
<1>10. g \in [0 .. M -> Dom]
  <2> DEFINE S == {k \in Nat : k <= M => g[k] \in Dom}
  <2>1. 0 \in S
    BY <1>1, <1>9
  <2>2. ASSUME NEW k \in S \cap Nat PROVE k + 1 \in S
    <3> SUFFICES ASSUME k + 1 <= M PROVE g[k + 1] \in Dom
      OBVIOUS
    <3>1. k + 1 \in 1 .. M /\ (k + 1) - 1 = k /\ k <= M
      BY <1>1
    <3>2. g[k + 1] = LeadOn(a, g[k])
      BY <1>9, <3>1
    <3>3. g[k] \in Dom
      BY <2>2, <3>1
    <3> QED
      BY <1>2, <3>2, <3>3
  <2> HIDE DEF S
  <2>3. Nat \subseteq S
    BY <2>1, <2>2, SetInduction
  <2>4. \A k \in 0 .. M : g[k] \in Dom
    BY <1>1, <2>3 DEF S
  <2>5. g = [k \in 0 .. M |-> g[k]]
    BY <1>8
  <2> HIDE DEF Dom, M
  <2> QED
    BY <2>4, <2>5
<1> QED
  BY <1>7, <1>9, <1>10

(* What a part surely gets to is found stage by stage.                    *)
LEMMA SurelyDefined ==
  ASSUME NEW a \in Advs, NEW part \in DOMAIN a
  PROVE  \E g \in [0 .. MAX_NESTING_DEPTH -> SUBSET Node] :
           /\ g[0] = {a[part]}
           /\ \A k \in 1 .. MAX_NESTING_DEPTH : g[k] = SurelyOn(a, g[k - 1])
           /\ Surely[a][part] = g[MAX_NESTING_DEPTH]
<1> DEFINE M == MAX_NESTING_DEPTH
           Dom == SUBSET Node
           base == {a[part]}
           step == [S \in Dom |-> SurelyOn(a, S)]
           Is(f) == f = [k \in 0 .. M |-> IF k = 0 THEN base ELSE SurelyOn(a, f[k - 1])]
           g == CHOOSE f : Is(f)
<1>1. base \in Dom /\ M \in Nat
  BY GraphAssumption, LimitsAssumption, PointsAssumption
<1>2. \A S \in Dom : SurelyOn(a, S) \in Dom
  <2>1. ASSUME NEW n \in Node PROVE SurelyOnward(a, n) \subseteq Node
    BY TreeNodes, GraphAssumption DEF SurelyOnward, Onward, Named
  <2> QED
    BY <2>1 DEF SurelyOn
<1>3. step \in [Dom -> Dom]
  BY <1>2
<1>4. PICK f \in [0 .. M -> Dom] : f[0] = base /\ \A k \in 1 .. M : f[k] = step[f[k - 1]]
  <2> HIDE DEF Dom, base, step, M
  <2>1. Stages(M, Dom, base, step) # {}
    BY <1>1, <1>3, StagesExist
  <2> QED
    BY <2>1 DEF Stages
<1>5. \A k \in 1 .. M : f[k] = SurelyOn(a, f[k - 1])
  <2> SUFFICES ASSUME NEW k \in 1 .. M PROVE f[k] = SurelyOn(a, f[k - 1])
    OBVIOUS
  <2>1. k - 1 \in 0 .. M
    BY <1>1
  <2> QED
    BY <1>4, <2>1
<1>6. Is(f)
  <2>1. \A k \in 0 .. M : k # 0 => k \in 1 .. M
    BY <1>1
  <2>2. \A k \in 0 .. M : f[k] = IF k = 0 THEN base ELSE SurelyOn(a, f[k - 1])
    BY <1>4, <1>5, <2>1
  <2> QED
    BY <1>4, <2>2
<1>7. Surely[a][part] = g[M]
  BY DEF Surely
<1>8. Is(g)
  <2> HIDE DEF Is
  <2> QED
    BY <1>6
<1> HIDE DEF g
<1>9. g[0] = base /\ \A k \in 1 .. M : g[k] = SurelyOn(a, g[k - 1])
  <2>1. 0 \in 0 .. M /\ \A k \in 1 .. M : k \in 0 .. M /\ k # 0
    BY <1>1
  <2> HIDE DEF base, M
  <2> QED
    BY <1>8, <2>1
<1>10. g \in [0 .. M -> Dom]
  <2> DEFINE S == {k \in Nat : k <= M => g[k] \in Dom}
  <2>1. 0 \in S
    BY <1>1, <1>9
  <2>2. ASSUME NEW k \in S \cap Nat PROVE k + 1 \in S
    <3> SUFFICES ASSUME k + 1 <= M PROVE g[k + 1] \in Dom
      OBVIOUS
    <3>1. k + 1 \in 1 .. M /\ (k + 1) - 1 = k /\ k <= M
      BY <1>1
    <3>2. g[k + 1] = SurelyOn(a, g[k])
      BY <1>9, <3>1
    <3>3. g[k] \in Dom
      BY <2>2, <3>1
    <3> QED
      BY <1>2, <3>2, <3>3
  <2> HIDE DEF S
  <2>3. Nat \subseteq S
    BY <2>1, <2>2, SetInduction
  <2>4. \A k \in 0 .. M : g[k] \in Dom
    BY <1>1, <2>3 DEF S
  <2>5. g = [k \in 0 .. M |-> g[k]]
    BY <1>8
  <2> HIDE DEF Dom, M
  <2> QED
    BY <2>4, <2>5
<1> QED
  BY <1>7, <1>9, <1>10

(* The sets that hold a point are found stage by stage.                   *)
LEMMA HoldingDefined ==
  ASSUME NEW a \in Advs, NEW p \in Points
  PROVE  \E g \in [0 .. MAX_NESTING_DEPTH -> SUBSET Node] :
           /\ g[0] = p
           /\ \A k \in 1 .. MAX_NESTING_DEPTH : g[k] = HoldMore(a, g[k - 1])
           /\ Holding[a][p] = g[MAX_NESTING_DEPTH]
<1> DEFINE M == MAX_NESTING_DEPTH
           Dom == SUBSET Node
           base == p
           step == [S \in Dom |-> HoldMore(a, S)]
           Is(f) == f = [k \in 0 .. M |-> IF k = 0 THEN base ELSE HoldMore(a, f[k - 1])]
           g == CHOOSE f : Is(f)
<1>1. base \in Dom /\ M \in Nat
  BY GraphAssumption, LimitsAssumption, PointsAssumption
<1>2. \A S \in Dom : HoldMore(a, S) \in Dom
  BY TreeNodes DEF HoldMore
<1>3. step \in [Dom -> Dom]
  BY <1>2
<1>4. PICK f \in [0 .. M -> Dom] : f[0] = base /\ \A k \in 1 .. M : f[k] = step[f[k - 1]]
  <2> HIDE DEF Dom, base, step, M
  <2>1. Stages(M, Dom, base, step) # {}
    BY <1>1, <1>3, StagesExist
  <2> QED
    BY <2>1 DEF Stages
<1>5. \A k \in 1 .. M : f[k] = HoldMore(a, f[k - 1])
  <2> SUFFICES ASSUME NEW k \in 1 .. M PROVE f[k] = HoldMore(a, f[k - 1])
    OBVIOUS
  <2>1. k - 1 \in 0 .. M
    BY <1>1
  <2> QED
    BY <1>4, <2>1
<1>6. Is(f)
  <2>1. \A k \in 0 .. M : k # 0 => k \in 1 .. M
    BY <1>1
  <2>2. \A k \in 0 .. M : f[k] = IF k = 0 THEN base ELSE HoldMore(a, f[k - 1])
    BY <1>4, <1>5, <2>1
  <2> QED
    BY <1>4, <2>2
<1>7. Holding[a][p] = g[M]
  BY DEF Holding
<1>8. Is(g)
  <2> HIDE DEF Is
  <2> QED
    BY <1>6
<1> HIDE DEF g
<1>9. g[0] = base /\ \A k \in 1 .. M : g[k] = HoldMore(a, g[k - 1])
  <2>1. 0 \in 0 .. M /\ \A k \in 1 .. M : k \in 0 .. M /\ k # 0
    BY <1>1
  <2> HIDE DEF base, M
  <2> QED
    BY <1>8, <2>1
<1>10. g \in [0 .. M -> Dom]
  <2> DEFINE S == {k \in Nat : k <= M => g[k] \in Dom}
  <2>1. 0 \in S
    BY <1>1, <1>9
  <2>2. ASSUME NEW k \in S \cap Nat PROVE k + 1 \in S
    <3> SUFFICES ASSUME k + 1 <= M PROVE g[k + 1] \in Dom
      OBVIOUS
    <3>1. k + 1 \in 1 .. M /\ (k + 1) - 1 = k /\ k <= M
      BY <1>1
    <3>2. g[k + 1] = HoldMore(a, g[k])
      BY <1>9, <3>1
    <3>3. g[k] \in Dom
      BY <2>2, <3>1
    <3> QED
      BY <1>2, <3>2, <3>3
  <2> HIDE DEF S
  <2>3. Nat \subseteq S
    BY <2>1, <2>2, SetInduction
  <2>4. \A k \in 0 .. M : g[k] \in Dom
    BY <1>1, <2>3 DEF S
  <2>5. g = [k \in 0 .. M |-> g[k]]
    BY <1>8
  <2> HIDE DEF Dom, M
  <2> QED
    BY <2>4, <2>5
<1> QED
  BY <1>7, <1>9, <1>10

------------------------------------------------------------------------------
(* What a part surely gets to.  Each expression is still waited for, or    *)
(* has raised no error.                                                    *)

\* Calls that have still to look at an expression, and linear programs that
\* have still to be solved.
Looks == {"eval", "hull", "merge", "matrix"}

Awaits(tasks, n) == \E j \in DOMAIN tasks : tasks[j].do \in Looks /\ tasks[j].node = n

Owes(tasks, n) ==
  \E j \in DOMAIN tasks :
    /\ tasks[j].node = n
    /\ \/ tasks[j].do \in {"hull", "solve"}
       \/ tasks[j].do = "eval" /\ Kind[n] = "intersection"

\* The expressions gone to so far, with values for the variables in given and
\* P and Q one of the points in P.
Reached(a, part, D, tasks, given, P) ==
  /\ a[part] \in D /\ D \subseteq Node
  /\ \A n \in D :
       /\ Awaits(tasks, n) \/ (Evident(a, n, given) /\ SurelyOnward(a, n) \subseteq D)
       /\ Solves(a, part, n) => Owes(tasks, n) \/ \A p \in P : n \notin NoBox[p]

(* The first call is for the part itself.                                  *)
LEMMA ReachBegins ==
  ASSUME NEW part \in DOMAIN adv, adv \in Advs, NEW do \in {"hull", "eval"}, NEW given, NEW P,
         do = "hull" \/ P = {}
  PROVE  \E D : Reached(adv, part, D, <<Task(do, adv[part])>>, given, P)
<1> DEFINE tasks == <<Task(do, adv[part])>>
<1>1. 1 \in DOMAIN tasks /\ tasks[1].do = do /\ tasks[1].node = adv[part]
  BY DEF Task
<1>2. adv[part] \in Node
  BY GraphAssumption
<1> HIDE DEF tasks
<1>3. Awaits(tasks, adv[part]) /\ (do = "hull" => Owes(tasks, adv[part]))
  BY <1>1 DEF Awaits, Looks, Owes
<1>4. Reached(adv, part, {adv[part]}, tasks, given, P)
  BY <1>2, <1>3 DEF Reached
<1> QED
  BY <1>4 DEF tasks

\* The call at the top has passed its expression on.
Passes ==
  \/ Awaits(stack', node)
  \/ /\ Evident(adv, node, values)
     /\ \A m \in SurelyOnward(adv, node) :
          Awaits(stack', m) /\ (Kind[m] = "intersection" => Owes(stack', m))

(* Two sequences of tasks one after the other.                             *)
LEMMA Joined ==
  ASSUME NEW T, NEW e \in Seq(T), NEW after \in Seq(T)
  PROVE  /\ e \o after \in Seq(T)
         /\ \A i \in DOMAIN e : i \in DOMAIN (e \o after) /\ (e \o after)[i] = e[i]
         /\ \A i \in DOMAIN after : \E j \in DOMAIN (e \o after) : (e \o after)[j] = after[i]
<1> DEFINE all == e \o after
<1>1. /\ all \in Seq(T) /\ Len(all) = Len(e) + Len(after)
      /\ \A i \in 1 .. Len(e) + Len(after) :
           all[i] = IF i <= Len(e) THEN e[i] ELSE after[i - Len(e)]
  BY ConcatProperties
<1>2. /\ DOMAIN e = 1 .. Len(e) /\ DOMAIN after = 1 .. Len(after)
      /\ Len(e) \in Nat /\ Len(after) \in Nat
      /\ DOMAIN all = 1 .. Len(e) + Len(after)
  BY <1>1
<1> HIDE DEF all
<1>3. ASSUME NEW i \in 1 .. Len(after)
      PROVE  Len(e) + i \in 1 .. Len(e) + Len(after) /\ all[Len(e) + i] = after[i]
  <2>1. /\ Len(e) + i \in 1 .. Len(e) + Len(after) /\ ~(Len(e) + i <= Len(e))
        /\ (Len(e) + i) - Len(e) = i
    BY <1>2
  <2>2. all[Len(e) + i] = IF Len(e) + i <= Len(e) THEN e[Len(e) + i]
                          ELSE after[(Len(e) + i) - Len(e)]
    BY <1>1, <2>1
  <2> QED
    BY <2>1, <2>2
<1>4. ASSUME NEW i \in 1 .. Len(e)
      PROVE  i \in 1 .. Len(e) + Len(after) /\ all[i] = e[i]
  <2>1. i \in 1 .. Len(e) + Len(after) /\ i <= Len(e)
    BY <1>2
  <2> QED
    BY <1>1, <2>1
<1> QED
  BY <1>1, <1>2, <1>3, <1>4 DEF all

(* Numbers are evaluated one by one.                                       *)
LEMMA EachPasses ==
  ASSUME NEW ns \in Seq(Node), NEW after \in Seq(UseTasks), stack \in Seq(UseTasks),
         stack # <<>>, Continue(Each("eval", ns) \o after)
  PROVE  /\ \A i \in DOMAIN ns :
              Awaits(stack', ns[i]) /\ (Kind[ns[i]] = "intersection" => Owes(stack', ns[i]))
         /\ \A i \in DOMAIN after : \E j \in DOMAIN stack' : stack'[j] = after[i]
<1> DEFINE e == Each("eval", ns)
<1>1. "eval" \in Plain
  BY DEF Plain, UseDo, Strict, Lax, Inner
<1>2. /\ e \in Seq(UseTasks) /\ Len(e) = Len(ns)
      /\ \A i \in DOMAIN ns : e[i] = Task("eval", ns[i])
  BY <1>1, EachTyped DEF Each
<1> HIDE DEF e
<1>3. /\ e \o after \in Seq(UseTasks)
      /\ \A i \in DOMAIN e : i \in DOMAIN (e \o after) /\ (e \o after)[i] = e[i]
      /\ \A i \in DOMAIN after : \E j \in DOMAIN (e \o after) : (e \o after)[j] = after[i]
  BY <1>2, Joined
<1>4. \A i \in DOMAIN (e \o after) : i \in DOMAIN stack' /\ stack'[i] = (e \o after)[i]
  BY <1>3, ContinueTyped DEF e
<1>5. ASSUME NEW i \in DOMAIN ns
      PROVE  Awaits(stack', ns[i]) /\ (Kind[ns[i]] = "intersection" => Owes(stack', ns[i]))
  <2>1. i \in DOMAIN e
    BY <1>2
  <2>2. i \in DOMAIN stack' /\ stack'[i] = Task("eval", ns[i])
    BY <1>2, <1>3, <1>4, <2>1
  <2>3. stack'[i].do = "eval" /\ stack'[i].node = ns[i]
    BY <2>2 DEF Task
  <2> QED
    BY <2>2, <2>3 DEF Awaits, Owes, Looks
<1>6. ASSUME NEW i \in DOMAIN after
      PROVE  \E j \in DOMAIN stack' : stack'[j] = after[i]
  BY <1>3, <1>4
<1> QED
  BY <1>5, <1>6

(* Which steps a task at the top may take.                                 *)
LEMMA TopTakes ==
  ASSUME Step, stack # <<>>
  PROVE  /\ top.do = "eval" => TooDeep \/ Eval \/ Variable \/ CaseDistinction \/ Reference
         /\ top.do = "hull" => TooDeep \/ WhichError \/ Hull \/ RaggedMatrix
         /\ top.do = "merge" => Merge
         /\ top.do = "matrix" => RaggedMatrix
         /\ top.do = "solve" => Solve
<1> DEFINE Dos == {"eval", "hull", "merge", "matrix", "solve"}
<1> SUFFICES ASSUME top.do \in Dos
             PROVE  /\ top.do = "eval" => TooDeep \/ Eval \/ Variable \/ CaseDistinction \/ Reference
                    /\ top.do = "hull" => TooDeep \/ WhichError \/ Hull \/ RaggedMatrix
                    /\ top.do = "merge" => Merge
                    /\ top.do = "matrix" => RaggedMatrix
                    /\ top.do = "solve" => Solve
  OBVIOUS
<1>1. ASSUME NEW do, Busy(do) PROVE top.do = do /\ do \in Dos
  BY <1>1 DEF Busy
<1>2. ~(Scan \/ Reset \/ Return)
  BY <1>1 DEF Scan, Reset, Return, Call
<1>3. ~(Derive \/ OtherVariable \/ TestCase \/ Branch)
  BY <1>1 DEF Derive, OtherVariable, TestCase, Branch, Call
<1>4. Eval \/ Variable \/ CaseDistinction \/ Reference => top.do = "eval"
  BY <1>1 DEF Eval, Variable, CaseDistinction, Reference, Call
<1>5. ~(MemberShape \/ Decide \/ MemberParts \/ Bounds \/ And \/ MemberReference)
  <2> SUFFICES ASSUME MemberShape \/ Decide \/ MemberParts \/ Bounds \/ And \/ MemberReference
               PROVE  Busy("member") \/ Busy("decide") \/ Busy("bounds") \/ Busy("and")
    BY <1>1
  <2> QED
    BY DEF MemberShape, Decide, MemberParts, Bounds, And, MemberReference, Call
<1>6. ~Projection
  <2> SUFFICES ASSUME Projection
               PROVE Busy("proj") \/ Busy("outside") \/ Busy("dykstra") \/ Busy("converged")
    BY <1>1
  <2> QED
    BY DEF Projection, ProjectDirect, ProjectFromOutside, Outside, Dykstra, Converged, Call
<1>7. /\ WhichError \/ Hull => top.do = "hull"
      /\ Merge => top.do = "merge"
      /\ Solve => top.do = "solve"
      /\ RaggedMatrix => top.do \in {"hull", "matrix"}
  BY <1>1 DEF WhichError, Hull, Merge, Solve, RaggedMatrix, Call
<1>8. TooDeep => top.do \in {"eval", "hull"}
  BY DEF TooDeep, Strict
<1> QED
  BY <1>2, <1>3, <1>4, <1>5, <1>6, <1>7, <1>8 DEF Step, Evaluation, Membership

(* Nothing is passed on to but expressions of the advertisement, and no    *)
(* error has been raised by what is passed on.                             *)
LEMMA SureSteps ==
  ASSUME TypeInv, RefsOwn, NamesUnique, stack \in Seq(UseTasks), stack # <<>>, Step,
         phase = "running", phase' = "running"
  PROVE  /\ UNCHANGED <<adv, values>> /\ Rests
         /\ top.do \in Looks => Passes
         /\ top.do = "hull" /\ Solved(node) => Owes(stack', node)
         /\ top.do = "eval" => Kind[node] \in RealKind
<1>1. ~(\E error : Raise(error)) /\ ~Terminate
  BY DEF Raise, Terminate
<1>2. ~TooDeep /\ ~WhichError /\ ~Return /\ ~RaggedMatrix
  BY <1>1 DEF TooDeep, WhichError, Return, RaggedMatrix
<1>3. ~(Scan \/ Reset)
  <2> SUFFICES ASSUME Scan \/ Reset PROVE FALSE
    OBVIOUS
  <2>1. stack \in Seq(ScanTasks)
    BY ScanTyped DEF ScanStep
  <2> QED
    BY <2>1, NeverTogether
<1>4. UNCHANGED <<adv, values>> /\ Rests
  <2>1. Evaluation \/ Membership \/ Projection \/ Hull \/ Merge \/ Solve \/ RaggedMatrix
    BY <1>2, <1>3 DEF Step
  <2>2. UseStep
    BY <2>1, EvaluationTyped, MembershipTyped, ProjectionTyped
  <2> QED
    BY <2>2 DEF UseStep
<1>5. /\ top \in UseTasks /\ node \in Node /\ Kids[node] \in Seq(Node) /\ adv \in Advs
      /\ <<>> \in Seq(UseTasks)
  <2>1. top \in UseTasks
    BY DEF top
  <2>2. node \in Node
    BY <2>1 DEF UseTasks, node
  <2> QED
    BY <2>1, <2>2, GraphAssumption DEF TypeInv
<1>6. \A n \in Ragged : Kind[n] = "polytope"
  BY RaggedAssumption
<1>7. ASSUME Kind[node] \notin {"variable", "polynomial", "case", "reference", "setcase", "setref"},
             node \notin Ragged
      PROVE  /\ Evident(adv, node, values)
             /\ SurelyOnward(adv, node) = {Kids[node][i] : i \in DOMAIN Kids[node]}
  BY <1>7 DEF Evident, SurelyOnward, Onward
<1>8. ASSUME Kind[node] \notin {"variable", "polynomial", "case", "reference", "setcase", "setref"},
             node \notin Ragged, NEW after \in Seq(UseTasks),
             Continue(Each("eval", Kids[node]) \o after)
      PROVE  /\ Passes
             /\ \A i \in DOMAIN after : \E j \in DOMAIN stack' : stack'[j] = after[i]
  <2>1. \A i \in DOMAIN Kids[node] :
          /\ Awaits(stack', Kids[node][i])
          /\ Kind[Kids[node][i]] = "intersection" => Owes(stack', Kids[node][i])
    BY <1>5, <1>8, EachPasses
  <2>2. \A i \in DOMAIN after : \E j \in DOMAIN stack' : stack'[j] = after[i]
    BY <1>5, <1>8, EachPasses
  <2>3. Passes
    BY <1>7, <1>8, <2>1 DEF Passes
  <2> QED
    BY <2>2, <2>3
<1>9. Continue(Each("eval", Kids[node])) => Continue(Each("eval", Kids[node]) \o <<>>)
  <2>1. "eval" \in Plain
    BY DEF Plain, UseDo, Strict, Lax, Inner
  <2>2. Each("eval", Kids[node]) \in Seq(UseTasks)
    BY <1>5, <2>1, EachTyped
  <2> DEFINE e == Each("eval", Kids[node])
  <2> HIDE DEF e
  <2>3. e \in Seq(UseTasks) => e \o <<>> = e
    OBVIOUS
  <2> QED
    BY <2>2, <2>3 DEF e
<1>10. ASSUME top.do = "eval" PROVE Passes /\ Kind[node] \in RealKind
  <2>1. Eval \/ Variable \/ CaseDistinction \/ Reference
    BY <1>2, <1>10, TopTakes
  <2>2. CASE Eval
    <3>1. Kind[node] \in EvalKids /\ Continue(Each("eval", Kids[node]))
      BY <2>2 DEF Eval
    <3>2. /\ Kind[node] \in RealKind /\ node \notin Ragged
          /\ Kind[node] \notin {"variable", "polynomial", "case", "reference", "setcase", "setref"}
      BY <1>6, <3>1 DEF EvalKids, RealKind
    <3> QED
      BY <1>5, <1>8, <1>9, <3>1, <3>2
  <2>3. CASE Variable \/ CaseDistinction
    <3>1. /\ Known(node) /\ Kind[node] \in {"variable", "polynomial", "case"}
      BY <1>1, <2>3 DEF Variable, CaseDistinction
    <3>2. node \notin Ragged /\ Kind[node] \in RealKind
      BY <1>6, <3>1 DEF RealKind
    <3>3. Evident(adv, node, values)
      BY <3>1, <3>2 DEF Evident, Known
    <3>4. SurelyOnward(adv, node) = {}
      <4>1. Kind[node] # "case" => Kids[node] = <<>>
        BY <1>5, <3>1, ShapeAssumption
      <4> QED
        BY <3>1, <4>1 DEF SurelyOnward, Onward
    <3> QED
      BY <3>2, <3>3, <3>4 DEF Passes
  <2>4. CASE Reference
    <3>1. /\ Kind[node] = "reference" /\ To[node] \in DOMAIN realRefs
          /\ Continue(<<Task("eval", realRefs[To[node]])>>)
      BY <1>1, <1>10, <2>4 DEF Reference
    <3>2. Named(adv, To[node], RealKind) = {realRefs[To[node]]}
      BY <3>1, NamedOne
    <3>3. realRefs[To[node]] \in Node /\ Kind[realRefs[To[node]]] \in RealKind
      BY <3>1 DEF TypeInv
    <3> DEFINE m == realRefs[To[node]]
               t == Task("eval", m)
    <3>4. t \in UseTasks /\ t.do = "eval" /\ t.node = m
      <4>1. "eval" \in Plain
        BY DEF Plain, UseDo, Strict, Lax, Inner
      <4> QED
        BY <3>3, <4>1, TaskTyped DEF Task
    <3>5. Continue(<<t>>)
      BY <3>1
    <3> HIDE DEF t
    <3>6. 1 \in DOMAIN stack' /\ stack'[1] = t
      <4>1. <<t>> \in Seq(UseTasks) /\ 1 \in DOMAIN <<t>> /\ <<t>>[1] = t
        BY <3>4
      <4> QED
        BY <3>5, <4>1, ContinueTyped
    <3>7. Awaits(stack', m)
      BY <3>4, <3>6 DEF Awaits, Looks
    <3>8. Evident(adv, node, values)
      BY <1>6, <3>1, <3>2 DEF Evident
    <3>9. SurelyOnward(adv, node) = {m}
      <4>1. Kids[node] = <<>>
        BY <1>5, <3>1, ShapeAssumption
      <4> QED
        BY <3>1, <3>2, <4>1 DEF SurelyOnward, Onward
    <3>10. Kind[m] # "intersection"
      BY <3>3 DEF RealKind
    <3> QED
      BY <3>1, <3>7, <3>8, <3>9, <3>10 DEF Passes, RealKind
  <2> QED
    BY <2>1, <2>2, <2>3, <2>4
<1>11. ASSUME top.do = "hull" PROVE Passes /\ (Solved(node) => Owes(stack', node))
  <2>1. Hull
    BY <1>2, <1>11, TopTakes
  <2>2. /\ Kind[node] \notin {"variable", "polynomial", "case", "reference", "setcase", "setref"}
        /\ node \notin Ragged
    BY <2>1 DEF Hull, SetKind
  <2>3. /\ Solution(node) \in Seq(UseTasks)
        /\ Solved(node) => Solution(node) = <<Task("solve", node)>>
    BY <1>5, SolutionTyped DEF Solution
  <2>4. ASSUME \A i \in DOMAIN Solution(node) : \E j \in DOMAIN stack' : stack'[j] = Solution(node)[i]
        PROVE  Solved(node) => Owes(stack', node)
    <3> SUFFICES ASSUME Solved(node) PROVE Owes(stack', node)
      OBVIOUS
    <3>1. 1 \in DOMAIN Solution(node) /\ Solution(node)[1] = Task("solve", node)
      BY <2>3
    <3>2. \E j \in DOMAIN stack' : stack'[j] = Task("solve", node)
      BY <2>4, <3>1
    <3>3. Task("solve", node).do = "solve" /\ Task("solve", node).node = node
      BY DEF Task
    <3> QED
      BY <3>2, <3>3 DEF Owes
  <2>5. CASE Kind[node] # "intersection"
    <3>1. Continue(Each("eval", Kids[node]) \o Solution(node))
      BY <2>1, <2>5 DEF Hull
    <3> QED
      BY <1>8, <2>2, <2>3, <2>4, <3>1
  <2>6. CASE Kind[node] = "intersection"
    <3> DEFINE parts == BoxParts(node)
               after == Solution(node)
    <3>1. /\ parts \in Seq(UseTasks) /\ Len(parts) = Len(Kids[node])
          /\ \A i \in DOMAIN Kids[node] :
               /\ parts[i] = IF Kind[Kids[node][i]] = "polytope"
                             THEN Task("merge", Kids[node][i])
                             ELSE Task("hull", Kids[node][i])
               /\ parts[i].node = Kids[node][i]
      BY <1>5, BoxPartsTyped
    <3>2. Continue(parts \o after)
      BY <2>1, <2>6 DEF Hull
    <3>3. \A i \in DOMAIN Kids[node] : i \in DOMAIN parts
      BY <1>5, <3>1
    <3>4. after \in Seq(UseTasks)
      BY <2>3
    <3> HIDE DEF parts, after
    <3>5. /\ parts \o after \in Seq(UseTasks)
          /\ \A i \in DOMAIN parts : i \in DOMAIN (parts \o after) /\ (parts \o after)[i] = parts[i]
          /\ \A i \in DOMAIN after : \E j \in DOMAIN (parts \o after) : (parts \o after)[j] = after[i]
      BY <3>1, <3>4, Joined
    <3>6. \A i \in DOMAIN (parts \o after) : i \in DOMAIN stack' /\ stack'[i] = (parts \o after)[i]
      BY <3>2, <3>5, ContinueTyped
    <3>7. \A i \in DOMAIN parts : i \in DOMAIN stack' /\ stack'[i] = parts[i]
      BY <3>5, <3>6
    <3>8. \A i \in DOMAIN after : \E j \in DOMAIN stack' : stack'[j] = after[i]
      BY <3>5, <3>6
    <3>9. ASSUME NEW i \in DOMAIN Kids[node]
          PROVE  /\ Awaits(stack', Kids[node][i])
                 /\ Kind[Kids[node][i]] = "intersection" => Owes(stack', Kids[node][i])
      <4>1. i \in DOMAIN stack' /\ stack'[i] = parts[i] /\ parts[i].node = Kids[node][i]
        BY <3>1, <3>3, <3>7
      <4>2. /\ Task("merge", Kids[node][i]).do = "merge"
            /\ Task("hull", Kids[node][i]).do = "hull"
        BY DEF Task
      <4>3. /\ parts[i].do \in Looks
            /\ Kind[Kids[node][i]] # "polytope" => parts[i].do = "hull"
        BY <3>1, <4>2 DEF Looks
      <4> QED
        BY <4>1, <4>3 DEF Awaits, Owes
    <3>10. Passes
      BY <1>7, <2>2, <3>9 DEF Passes
    <3> QED
      BY <2>4, <3>8, <3>10 DEF after
  <2> QED
    BY <2>5, <2>6
<1>12. ASSUME top.do \in {"merge", "matrix"} PROVE Passes
  <2>1. Merge /\ top.do = "merge"
    BY <1>2, <1>12, TopTakes
  <2>2. Kind[node] = "polytope"
    BY <1>5, <2>1 DEF UseTasks, node
  <2>3. CASE node \notin Ragged
    <3>1. Continue(Each("eval", Kids[node]))
      BY <2>1, <2>3 DEF Merge
    <3> QED
      BY <1>5, <1>8, <1>9, <2>2, <2>3, <3>1
  <2>4. CASE node \in Ragged
    <3>1. PICK k \in 0 .. Len(Kids[node]) :
            Continue(Append(Each("eval", SubSeq(Kids[node], k + 1, Len(Kids[node]))),
                            Task("matrix", node)))
      BY <2>1, <2>4 DEF Merge
    <3> DEFINE vector == SubSeq(Kids[node], k + 1, Len(Kids[node]))
               last == Task("matrix", node)
               e == Each("eval", vector)
    <3>2. vector \in Seq(Node)
      BY <1>5, SubSeqProperties
    <3> HIDE DEF vector
    <3>3. e \in Seq(UseTasks)
      <4>1. "eval" \in Plain
        BY DEF Plain, UseDo, Strict, Lax, Inner
      <4> QED
        BY <3>2, <4>1, EachTyped
    <3>4. last \in UseTasks /\ last.do = "matrix" /\ last.node = node
      <4>1. "matrix" \in Plain
        BY DEF Plain, UseDo, Strict, Lax, Inner
      <4> QED
        BY <1>5, <4>1, TaskTyped DEF Task
    <3>5. Continue(Append(e, last))
      BY <3>1 DEF vector
    <3> HIDE DEF last, e
    <3>6. /\ Append(e, last) \in Seq(UseTasks)
          /\ Len(e) + 1 \in DOMAIN Append(e, last) /\ Append(e, last)[Len(e) + 1] = last
      BY ONLY <3>3, <3>4, AppendProperties
    <3>7. \E j \in DOMAIN stack' : stack'[j] = last
      BY <3>5, <3>6, ContinueTyped
    <3>8. Awaits(stack', node)
      BY <3>4, <3>7 DEF Awaits, Looks
    <3> QED
      BY <3>8 DEF Passes
  <2> QED
    BY <2>3, <2>4
<1> QED
  BY <1>4, <1>10, <1>11, <1>12 DEF Looks

(* What is reached grows by what is passed on.                             *)
LEMMA ReachGoesOn ==
  ASSUME TypeInv, RefsOwn, NamesUnique, stack \in Seq(UseTasks), Step,
         phase = "running", phase' = "running", NEW part \in DOMAIN adv,
         NEW P \in SUBSET Points, Busy("solve") => \A p \in P : node \notin NoBox[p],
         NEW D, Reached(adv, part, D, stack, values, P)
  PROVE  UNCHANGED <<adv, values>> /\ \E E : Reached(adv, part, E, stack', values, P)
<1>1. stack # <<>>
  <2>1. ~Return
    BY DEF Return
  <2>2. ~TooDeep
    BY DEF TooDeep, Raise
  <2>3. Evaluation \/ Membership \/ Projection \/ Hull \/ Merge \/ Solve \/ RaggedMatrix \/ Scan \/ Reset
    BY <2>1, <2>2 DEF Step
  <2>4. CASE Scan \/ Reset
    BY <2>4 DEF Scan, Reset, Call, Busy
  <2> QED
    BY <2>3, <2>4, EvaluationWalks, SetsWalk DEF Walk
<1>2. /\ UNCHANGED <<adv, values>> /\ Rests
      /\ top.do \in Looks => Passes
      /\ top.do = "hull" /\ Solved(node) => Owes(stack', node)
      /\ top.do = "eval" => Kind[node] \in RealKind
  BY <1>1, SureSteps
<1>3. /\ stack[1] = top /\ \A j \in DOMAIN stack : j = 1 \/ j \in 2 .. Len(stack)
  BY <1>1 DEF top
<1>4. /\ adv[part] \in D /\ D \subseteq Node
      /\ \A n \in D :
           /\ Awaits(stack, n) \/ (Evident(adv, n, values) /\ SurelyOnward(adv, n) \subseteq D)
           /\ Solves(adv, part, n) => Owes(stack, n) \/ \A p \in P : n \notin NoBox[p]
  BY DEF Reached
<1>5. \A n : Awaits(stack, n) => Awaits(stack', n) \/ (n = node /\ top.do \in Looks)
  BY <1>2, <1>3 DEF Awaits, Rests, node
<1>6. ASSUME NEW n, Owes(stack, n)
      PROVE  Owes(stack', n) \/ \A p \in P : n \notin NoBox[p]
  <2>1. CASE \/ n = node /\ top.do \in {"hull", "solve"}
             \/ n = node /\ top.do = "eval" /\ Kind[n] = "intersection"
    <3>1. CASE top.do = "solve"
      BY <1>1, <2>1, <3>1 DEF Busy
    <3>2. CASE top.do = "hull"
      BY <1>2, <2>1, <3>2, NoBoxAssumption
    <3>3. CASE top.do = "eval"
      BY <1>2, <2>1, <3>3 DEF RealKind
    <3> QED
      BY <2>1, <3>1, <3>2, <3>3
  <2>2. CASE ~(\/ n = node /\ top.do \in {"hull", "solve"}
               \/ n = node /\ top.do = "eval" /\ Kind[n] = "intersection")
    <3>1. PICK j \in DOMAIN stack :
            /\ stack[j].node = n
            /\ \/ stack[j].do \in {"hull", "solve"}
               \/ stack[j].do = "eval" /\ Kind[n] = "intersection"
      BY <1>6 DEF Owes
    <3>2. j \in 2 .. Len(stack)
      BY <1>3, <2>2, <3>1 DEF node
    <3>3. PICK i \in DOMAIN stack' : stack'[i] = stack[j]
      BY <1>2, <3>2 DEF Rests
    <3> QED
      BY <3>1, <3>3 DEF Owes
  <2> QED
    BY <2>1, <2>2
<1>7. CASE top.do \notin Looks \/ Awaits(stack', node)
  <2>1. Reached(adv, part, D, stack', values, P)
    BY <1>4, <1>5, <1>6, <1>7 DEF Reached
  <2> QED
    BY <1>2, <2>1
<1>8. CASE ~(top.do \notin Looks \/ Awaits(stack', node))
  <2>1. /\ Evident(adv, node, values)
        /\ \A m \in SurelyOnward(adv, node) :
             Awaits(stack', m) /\ (Kind[m] = "intersection" => Owes(stack', m))
    BY <1>2, <1>8 DEF Passes
  <2> DEFINE E == D \cup SurelyOnward(adv, node)
  <2>2. SurelyOnward(adv, node) \subseteq Node
    <3>1. adv \in Advs /\ node \in Node
      <4>1. top \in UseTasks
        BY <1>1 DEF top
      <4> QED
        BY <4>1 DEF UseTasks, node, TypeInv
    <3> QED
      BY <3>1, TreeNodes, GraphAssumption DEF SurelyOnward, Onward, Named
  <2>3. ASSUME NEW n \in E
        PROVE  Awaits(stack', n) \/ (Evident(adv, n, values) /\ SurelyOnward(adv, n) \subseteq E)
    BY <1>4, <1>5, <2>1
  <2>4. ASSUME NEW n \in E, Solves(adv, part, n)
        PROVE  Owes(stack', n) \/ \A p \in P : n \notin NoBox[p]
    <3>1. CASE n \in D
      BY <1>4, <1>6, <2>4, <3>1
    <3>2. CASE n \in SurelyOnward(adv, node) /\ n \notin D
      <4>1. Kind[n] # "polytope"
        BY <1>4, <2>4, <3>2 DEF Solves
      <4>2. CASE Kind[n] = "intersection"
        BY <2>1, <3>2, <4>2
      <4>3. CASE Kind[n] # "intersection"
        BY <4>1, <4>3, NoBoxAssumption DEF Solved
      <4> QED
        BY <4>2, <4>3
    <3> QED
      BY <2>4, <3>1, <3>2
  <2>5. adv[part] \in E /\ E \subseteq Node
    BY <1>4, <2>2
  <2> HIDE DEF E
  <2>6. Reached(adv, part, E, stack', values, P)
    BY <2>3, <2>4, <2>5 DEF Reached
  <2> QED
    BY <1>2, <2>6
<1> QED
  BY <1>7, <1>8

(* A part whose evaluation has ended can be used.                          *)
LEMMA ReachEnds ==
  ASSUME NEW a \in Advs, NEW part \in DOMAIN a, NEW D, NEW given, NEW P,
         Reached(a, part, D, <<>>, given, P)
  PROVE  Usable(a, part, given, P)
<1>1. MAX_NESTING_DEPTH \in Nat
  BY LimitsAssumption
<1>2. PICK g \in [0 .. MAX_NESTING_DEPTH -> SUBSET Node] :
        /\ g[0] = {a[part]}
        /\ \A k \in 1 .. MAX_NESTING_DEPTH : g[k] = SurelyOn(a, g[k - 1])
        /\ Surely[a][part] = g[MAX_NESTING_DEPTH]
  BY SurelyDefined
<1>3. a[part] \in D
  BY DEF Reached
<1>4. ASSUME NEW n \in D
      PROVE  /\ Evident(a, n, given) /\ SurelyOnward(a, n) \subseteq D
             /\ Solves(a, part, n) => \A p \in P : n \notin NoBox[p]
  BY DEF Reached, Awaits, Owes
<1> DEFINE S == {k \in Nat : k <= MAX_NESTING_DEPTH => g[k] \subseteq D}
<1>5. 0 \in S
  BY <1>2, <1>3
<1>6. ASSUME NEW k \in S \cap Nat PROVE k + 1 \in S
  <2> SUFFICES ASSUME k + 1 <= MAX_NESTING_DEPTH PROVE g[k + 1] \subseteq D
    OBVIOUS
  <2>1. k + 1 \in 1 .. MAX_NESTING_DEPTH /\ (k + 1) - 1 = k /\ k <= MAX_NESTING_DEPTH
    BY <1>1
  <2>2. g[k + 1] = SurelyOn(a, g[k]) /\ g[k] \subseteq D
    BY <1>2, <1>6, <2>1
  <2> QED
    BY <1>4, <2>2 DEF SurelyOn
<1> HIDE DEF S
<1>7. Nat \subseteq S
  BY <1>5, <1>6, SetInduction
<1>8. Surely[a][part] \subseteq D
  BY <1>1, <1>2, <1>7 DEF S
<1> QED
  BY <1>4, <1>8 DEF Usable

\* A set of sets that follows from the shapes that hold a point.
Closed(T, p, U) ==
  \A n \in T :
    /\ Kind[n] \in Shape /\ n \in p => n \in U
    /\ (Kind[n] = "intersection" /\ \A i \in DOMAIN Kids[n] : Kids[n][i] \in U) => n \in U

\* Shapes and intersections, from the profile on.  A point is feasible if
\* the profile follows from the shapes among them that hold it.
Trunk(a, T) ==
  /\ a[1] \in T /\ T \subseteq Node
  /\ \A n \in T :
       \/ Kind[n] \in Shape
       \/ Kind[n] = "intersection" /\ \A i \in DOMAIN Kids[n] : Kids[n][i] \in T
  /\ \A p \in Points :
       (\A U \in SUBSET Node : Closed(T, p, U) => a[1] \in U) => p \in Feasible[a]

(* The layers of a profile whose box is computed are such a set.           *)
LEMMA LayersEnd ==
  ASSUME NEW a \in Advs, NEW L, NEW d \in Nat, Layered(a, L, <<>>, d)
  PROVE  \E T : Trunk(a, T)
<1> DEFINE M == MAX_NESTING_DEPTH
           T == UNION {L[k] : k \in 0 .. M}
<1>1. M \in Nat
  BY LimitsAssumption
<1>2. /\ L \in [0 .. M -> SUBSET Node] /\ a[1] \in L[0]
      /\ \A k \in 0 .. M : \A n \in L[k] :
           /\ n \in Levels(a)[k]
           /\ \/ Kind[n] \in Shape
              \/ /\ Kind[n] = "intersection" /\ k < M
                 /\ \A i \in DOMAIN Kids[n] : Kids[n][i] \in L[k + 1]
  BY DEF Layered, Boxing
<1>3. ASSUME NEW k \in 0 .. M PROVE L[k] \subseteq T /\ L[k] \subseteq Nodes[a]
  <2>1. M \in 0 .. M /\ k <= M
    BY <1>1
  <2>2. Levels(a)[k] \subseteq Levels(a)[M]
    BY <2>1, LevelsGrow
  <2> QED
    BY <1>2, <2>2, TreeNodes DEF Tree
<1>4. a[1] \in T /\ T \subseteq Node
  BY <1>1, <1>2, <1>3
<1>5. ASSUME NEW n \in T
      PROVE  \/ Kind[n] \in Shape
             \/ Kind[n] = "intersection" /\ \A i \in DOMAIN Kids[n] : Kids[n][i] \in T
  <2>1. PICK k \in 0 .. M : n \in L[k]
    OBVIOUS
  <2>2. CASE /\ Kind[n] = "intersection" /\ k < M
             /\ \A i \in DOMAIN Kids[n] : Kids[n][i] \in L[k + 1]
    <3>1. k + 1 \in 0 .. M
      BY <1>1, <2>2
    <3> QED
      BY <1>3, <2>2, <3>1
  <2> QED
    BY <1>2, <2>1, <2>2
<1>6. \A n \in T : n \in Nodes[a]
  BY <1>3
<1>7. ASSUME NEW p \in Points, \A U \in SUBSET Node : Closed(T, p, U) => a[1] \in U
      PROVE  p \in Feasible[a]
  <2>1. PICK g \in [0 .. M -> SUBSET Node] :
          /\ g[0] = p
          /\ \A k \in 1 .. M : g[k] = HoldMore(a, g[k - 1])
          /\ Holding[a][p] = g[M]
    BY HoldingDefined
  <2> DEFINE U == {n \in Node : \A k \in 0 .. M : n \in L[k] => n \in g[M - k]}
  <2>2. ASSUME NEW n \in T, Kind[n] \in Shape, n \in p
        PROVE  n \in U
    <3> DEFINE S == {k \in Nat : k <= M => n \in g[k]}
    <3>1. 0 \in S
      BY <2>1, <2>2
    <3>2. ASSUME NEW k \in S \cap Nat PROVE k + 1 \in S
      <4> SUFFICES ASSUME k + 1 <= M PROVE n \in g[k + 1]
        OBVIOUS
      <4>1. k + 1 \in 1 .. M /\ (k + 1) - 1 = k /\ k <= M
        BY <1>1
      <4>2. n \in g[k]
        BY <3>2, <4>1
      <4>3. Kind[n] # "intersection" /\ Kind[n] # "setref"
        BY <2>2 DEF Shape
      <4>4. n \in HoldMore(a, g[k])
        BY <1>6, <4>2, <4>3 DEF HoldMore, Holds
      <4> QED
        BY <2>1, <4>1, <4>4
    <3> HIDE DEF S
    <3>3. Nat \subseteq S
      BY <3>1, <3>2, SetInduction
    <3>4. \A k \in 0 .. M : M - k \in Nat /\ M - k <= M
      BY <1>1
    <3>5. \A k \in 0 .. M : n \in g[M - k]
      BY <3>3, <3>4 DEF S
    <3> QED
      BY <1>4, <3>5
  <2>3. ASSUME NEW n \in T, Kind[n] = "intersection",
               \A i \in DOMAIN Kids[n] : Kids[n][i] \in U
        PROVE  n \in U
    <3> SUFFICES ASSUME NEW k \in 0 .. M, n \in L[k] PROVE n \in g[M - k]
      BY <1>4
    <3>1. k < M /\ \A i \in DOMAIN Kids[n] : Kids[n][i] \in L[k + 1]
      BY <1>2, <2>3 DEF Shape
    <3>2. /\ k + 1 \in 0 .. M /\ M - (k + 1) = (M - k) - 1
          /\ M - k \in 1 .. M
      BY <1>1, <3>1
    <3>3. \A i \in DOMAIN Kids[n] : Kids[n][i] \in g[(M - k) - 1]
      BY <2>3, <3>1, <3>2
    <3>4. n \in HoldMore(a, g[(M - k) - 1])
      BY <1>6, <2>3, <3>3 DEF HoldMore, Holds
    <3> QED
      BY <2>1, <3>2, <3>4
  <2>4. U \subseteq Node
    OBVIOUS
  <2> HIDE DEF T, U
  <2>5. Closed(T, p, U)
    BY <2>2, <2>3 DEF Closed
  <2>6. a[1] \in U
    BY <1>7, <2>4, <2>5
  <2>7. a[1] \in g[M]
    BY <1>1, <1>2, <2>6 DEF U
  <2> QED
    BY <2>1, <2>7 DEF Feasible
<1> HIDE DEF T
<1>8. Trunk(a, T)
  BY <1>4, <1>5, <1>7 DEF Trunk
<1> QED
  BY <1>8

------------------------------------------------------------------------------
(* The test of a point.  No variable has a value here either, so that only *)
(* the sets of the trunk are tested.                                       *)

\* The sets that a task has still to test.
Asks(t) ==
  IF t.do \in {"member", "decide", "bounds"} THEN {t.node}
  ELSE IF t.do = "and" THEN {t.rest[i] : i \in DOMAIN t.rest} ELSE {}

Todo(tasks) == UNION {Asks(tasks[j]) : j \in DOMAIN tasks}

TestTasks(T) ==
  {t \in UseTasks : /\ t.do \in {"member", "decide", "bounds", "and", "eval"}
                    /\ Asks(t) \subseteq T
                    /\ t.do \in {"decide", "bounds"} => Kind[t.node] \in Shape}

\* Below a set that is tested are only intersections that it is part of.
Ordered(tasks) ==
  \A i, j \in DOMAIN tasks : i < j /\ tasks[i].do # "eval" => tasks[j].do = "and"

\* The profile follows from what is still to be tested, if it holds the
\* point, or the answer is no already.
Testing(a, T, p, tasks, yes) ==
  /\ tasks \in Seq(TestTasks(T)) /\ Ordered(tasks)
  /\ \/ ~yes /\ \A j \in DOMAIN tasks : tasks[j].do = "and"
     \/ \A U \in SUBSET Node : Closed(T, p, U) /\ Todo(tasks) \subseteq U => a[1] \in U

(* A test begins with the profile.                                         *)
LEMMA TestBegins ==
  ASSUME NEW a \in Advs, NEW T, Trunk(a, T), NEW p, NEW yes
  PROVE  Testing(a, T, p, <<Task("member", a[1])>>, yes)
<1> DEFINE t == Task("member", a[1])
           tasks == <<t>>
<1>1. t.do = "member" /\ t.node = a[1]
  BY DEF Task
<1>2. t \in UseTasks
  <2>1. "member" \in Plain
    BY DEF Plain, UseDo, Strict, Lax, Inner
  <2> QED
    BY <2>1, TaskTyped DEF Trunk
<1>3. Asks(t) = {a[1]}
  BY <1>1 DEF Asks
<1>4. t \in TestTasks(T)
  BY <1>1, <1>2, <1>3 DEF TestTasks, Trunk
<1> HIDE DEF t
<1>5. tasks \in Seq(TestTasks(T)) /\ DOMAIN tasks = {1} /\ tasks[1] = t
  BY <1>4
<1> HIDE DEF tasks
<1>6. Ordered(tasks)
  BY <1>5 DEF Ordered
<1>7. Todo(tasks) = {a[1]}
  BY <1>3, <1>5 DEF Todo
<1>8. Testing(a, T, p, tasks, yes)
  BY <1>5, <1>6, <1>7 DEF Testing
<1> QED
  BY <1>8 DEF tasks, t

(* A test that ends with the answer yes is right.                          *)
LEMMA TestEnds ==
  ASSUME NEW a \in Advs, NEW T, Trunk(a, T), NEW p \in Points, Testing(a, T, p, <<>>, TRUE)
  PROVE  p \in Feasible[a]
<1>1. Todo(<<>>) = {}
  BY DEF Todo
<1>2. \A U \in SUBSET Node : Closed(T, p, U) => a[1] \in U
  BY <1>1 DEF Testing
<1> QED
  BY <1>2 DEF Trunk

\* What a step of a test puts in the place of the task at the top.
TestGoes(T, p, new) ==
  /\ new \in Seq(TestTasks(T)) /\ Ordered(new) /\ stack' = new \o Tail(stack)
  /\ \/ /\ top.do = "eval" /\ answer' = answer     \* numbers of a set
        /\ \A i \in DOMAIN new : new[i].do = "eval"
     \/ /\ top.do \in {"member", "bounds"} /\ node \in Todo(new)
     \/ /\ top.do \in {"decide", "bounds"} /\ new = <<>>
        /\ answer' = (node \in p)
     \/ /\ top.do = "member" /\ Kind[node] = "intersection"
        /\ \A i \in DOMAIN Kids[node] : Kids[node][i] \in Todo(new)
     \/ /\ top.do = "and" /\ ~answer /\ answer' = answer /\ new = <<>>
     \/ /\ top.do = "and" /\ answer /\ Asks(top) \subseteq Todo(new)

(* Such a step keeps to the order, and to what the answer is to be.        *)
LEMMA TestGoesOn ==
  ASSUME NEW a \in Advs, NEW T, Trunk(a, T), NEW p, stack # <<>>,
         Testing(a, T, p, stack, answer), answer \in BOOLEAN, NEW new, TestGoes(T, p, new)
  PROVE  Testing(a, T, p, stack', answer')
<1>0. /\ stack \in Seq(TestTasks(T)) /\ Ordered(stack)
      /\ new \in Seq(TestTasks(T)) /\ Ordered(new) /\ stack' = new \o Tail(stack)
  BY DEF Testing, TestGoes
<1>1. /\ Len(new) \in Nat /\ Len(stack) \in Nat \ {0}
      /\ DOMAIN new = 1 .. Len(new) /\ DOMAIN stack = 1 .. Len(stack)
      /\ top = stack[1] /\ top \in TestTasks(T)
  BY <1>0 DEF top
<1>2. /\ stack' \in Seq(TestTasks(T)) /\ DOMAIN stack' = 1 .. Len(new) + Len(stack) - 1
      /\ \A j \in 1 .. Len(new) : j \in DOMAIN stack' /\ stack'[j] = new[j]
      /\ \A j \in 2 .. Len(stack) : /\ Len(new) + j - 1 \in DOMAIN stack'
                                    /\ stack'[Len(new) + j - 1] = stack[j]
  BY <1>0, AfterReplacement
<1>3. ASSUME NEW i \in DOMAIN stack'
      PROVE  \/ i \in 1 .. Len(new)
             \/ /\ i - Len(new) + 1 \in 2 .. Len(stack) /\ i > Len(new)
                /\ stack'[i] = stack[i - Len(new) + 1]
  <2>1. CASE i <= Len(new)
    BY <1>1, <1>2, <2>1
  <2>2. CASE ~(i <= Len(new))
    <3>1. i - Len(new) + 1 \in 2 .. Len(stack) /\ Len(new) + (i - Len(new) + 1) - 1 = i
      BY <1>1, <1>2, <2>2
    <3>2. stack'[Len(new) + (i - Len(new) + 1) - 1] = stack[i - Len(new) + 1]
      BY <1>2, <3>1
    <3> QED
      BY <1>1, <1>2, <2>2, <3>1, <3>2
  <2> QED
    BY <2>1, <2>2
<1>4. top.do # "eval" \/ \A i \in DOMAIN new : new[i].do = "eval"
  BY DEF TestGoes
<1>5. top.do # "eval" => \A j \in 2 .. Len(stack) : stack[j].do = "and"
  <2> SUFFICES ASSUME top.do # "eval", NEW j \in 2 .. Len(stack) PROVE stack[j].do = "and"
    OBVIOUS
  <2>1. 1 \in DOMAIN stack /\ j \in DOMAIN stack /\ 1 < j
    BY <1>1
  <2> QED
    BY <1>0, <1>1, <2>1 DEF Ordered
<1>6. Ordered(stack')
  <2> SUFFICES ASSUME NEW i \in DOMAIN stack', NEW j \in DOMAIN stack', i < j,
                      stack'[i].do # "eval"
               PROVE  stack'[j].do = "and"
    BY DEF Ordered
  <2>1. CASE j \in 1 .. Len(new)
    <3>1. i \in 1 .. Len(new)
      BY <1>1, <1>2, <2>1
    <3> QED
      BY <1>0, <1>1, <1>2, <2>1, <3>1 DEF Ordered
  <2>2. CASE j - Len(new) + 1 \in 2 .. Len(stack) /\ stack'[j] = stack[j - Len(new) + 1]
    <3>1. CASE i \in 1 .. Len(new)
      BY <1>1, <1>2, <1>4, <1>5, <2>2, <3>1
    <3>2. CASE /\ i - Len(new) + 1 \in 2 .. Len(stack)
               /\ stack'[i] = stack[i - Len(new) + 1]
      <4>1. i - Len(new) + 1 < j - Len(new) + 1
        BY <1>1, <1>2
      <4> QED
        BY SMTT(30), <1>0, <1>1, <2>2, <3>2, <4>1 DEF Ordered
    <3> QED
      BY <1>3, <3>1, <3>2
  <2> QED
    BY <1>3, <2>1, <2>2
<1>7. Todo(new) \subseteq Todo(stack')
  BY <1>1, <1>2 DEF Todo
<1>8. \A n \in Todo(stack) : n \in Asks(top) \/ n \in Todo(stack')
  <2> SUFFICES ASSUME NEW j \in DOMAIN stack, NEW n \in Asks(stack[j])
               PROVE  n \in Asks(top) \/ n \in Todo(stack')
    BY DEF Todo
  <2>1. j = 1 \/ j \in 2 .. Len(stack)
    BY <1>1
  <2> QED
    BY <1>1, <1>2, <2>1 DEF Todo
<1> DEFINE Follows == \A U \in SUBSET Node :
             Closed(T, p, U) /\ Todo(stack) \subseteq U => a[1] \in U
           Follows2 == \A U \in SUBSET Node :
             Closed(T, p, U) /\ Todo(stack') \subseteq U => a[1] \in U
           Doomed2 == ~answer' /\ \A j \in DOMAIN stack' : stack'[j].do = "and"
<1>9. top.do # "and" => Follows
  BY <1>1 DEF Testing
<1>10. new = <<>> /\ top.do # "eval" => \A j \in DOMAIN stack' : stack'[j].do = "and"
  BY <1>1, <1>3, <1>5
<1>11. Asks(top) \subseteq T
  BY <1>1 DEF TestTasks
<1> HIDE DEF Follows2, Doomed2
<1>12. ASSUME Follows,
              \A U \in SUBSET Node :
                Closed(T, p, U) /\ Todo(stack') \subseteq U => Asks(top) \subseteq U
       PROVE  Follows2
  BY <1>8, <1>12 DEF Follows2
<1>13. Doomed2 \/ Follows2
  <2>1. CASE top.do = "eval"
    <3>1. Asks(top) = {}
      BY <2>1 DEF Asks
    <3> QED
      BY <1>9, <1>12, <2>1, <3>1
  <2>2. CASE top.do \in {"member", "bounds"} /\ node \in Todo(new)
    <3>1. Asks(top) = {node}
      BY <2>2 DEF Asks, node
    <3> QED
      BY <1>7, <1>9, <1>12, <2>2, <3>1
  <2>3. CASE top.do \in {"decide", "bounds"} /\ new = <<>> /\ answer' = (node \in p)
    <3>1. Asks(top) = {node} /\ Kind[node] \in Shape /\ node \in T
      BY <1>1, <1>11, <2>3 DEF Asks, node, TestTasks
    <3>2. CASE node \notin p
      BY <1>10, <2>3, <3>2 DEF Doomed2
    <3>3. CASE node \in p
      <4>1. \A U : Closed(T, p, U) => Asks(top) \subseteq U
        BY <3>1, <3>3 DEF Closed
      <4> QED
        BY <1>9, <1>12, <2>3, <4>1
    <3> QED
      BY <3>2, <3>3
  <2>4. CASE /\ top.do = "member" /\ Kind[node] = "intersection"
             /\ \A i \in DOMAIN Kids[node] : Kids[node][i] \in Todo(new)
    <3>1. Asks(top) = {node} /\ node \in T
      BY <1>11, <2>4 DEF Asks, node
    <3>2. \A U : Closed(T, p, U) /\ Todo(stack') \subseteq U => Asks(top) \subseteq U
      BY <1>7, <2>4, <3>1 DEF Closed
    <3> QED
      BY <1>9, <1>12, <2>4, <3>2
  <2>5. CASE top.do = "and" /\ ~answer /\ answer' = answer /\ new = <<>>
    BY <1>10, <2>5 DEF Doomed2
  <2>6. CASE top.do = "and" /\ answer /\ Asks(top) \subseteq Todo(new)
    <3>1. Follows
      BY <2>6 DEF Testing
    <3> QED
      BY <1>7, <1>12, <2>6, <3>1
  <2> QED
    BY <2>1, <2>2, <2>3, <2>4, <2>5, <2>6 DEF TestGoes
<1> QED
  BY <1>2, <1>6, <1>13 DEF Testing, Follows2, Doomed2

(* Numbers are evaluated, and then something else is done.                 *)
LEMMA EvalsThen ==
  ASSUME NEW T, NEW ns \in Seq(Node), NEW after \in Seq(TestTasks(T)), Len(after) <= 1
  PROVE  LET new == Each("eval", ns) \o after IN
         /\ new \in Seq(TestTasks(T)) /\ Ordered(new)
         /\ \A i \in DOMAIN new : new[i].do = "eval" \/ \E j \in DOMAIN after : new[i] = after[j]
         /\ Todo(after) \subseteq Todo(new)
<1> DEFINE evals == Each("eval", ns)
           new == evals \o after
<1>1. ASSUME NEW n \in Node PROVE Task("eval", n) \in TestTasks(T)
  <2>1. "eval" \in Plain
    BY DEF Plain, UseDo, Strict, Lax, Inner
  <2>2. Task("eval", n) \in UseTasks
    BY <2>1, TaskTyped
  <2>3. Task("eval", n).do = "eval"
    BY DEF Task
  <2>4. Asks(Task("eval", n)) = {}
    BY <2>3 DEF Asks
  <2> QED
    BY <2>2, <2>3, <2>4 DEF TestTasks
<1>2. /\ evals \in Seq(TestTasks(T)) /\ Len(evals) = Len(ns)
      /\ \A i \in 1 .. Len(evals) : evals[i].do = "eval"
  <2>1. \A i \in 1 .. Len(ns) : Task("eval", ns[i]) \in TestTasks(T)
    BY <1>1
  <2> QED
    BY <2>1 DEF Each, Task
<1> HIDE DEF evals
<1>3. /\ new \in Seq(TestTasks(T)) /\ Len(new) = Len(evals) + Len(after)
      /\ \A i \in 1 .. Len(new) : new[i] = IF i <= Len(evals) THEN evals[i]
                                           ELSE after[i - Len(evals)]
  BY <1>2, ConcatProperties
<1>4. /\ DOMAIN new = 1 .. Len(evals) + Len(after) /\ DOMAIN after = 1 .. Len(after)
      /\ Len(evals) \in Nat /\ Len(after) \in 0 .. 1
  <2>1. Len(evals) \in Nat /\ Len(after) \in Nat /\ DOMAIN after = 1 .. Len(after)
    BY <1>2
  <2> HIDE DEF new
  <2>2. DOMAIN new = 1 .. Len(new)
    BY <1>3
  <2> QED
    BY <1>3, <2>1, <2>2
<1> HIDE DEF new
<1>5. ASSUME NEW i \in DOMAIN new
      PROVE  \/ i <= Len(evals) /\ new[i].do = "eval"
             \/ i = Len(evals) + Len(after) /\ Len(after) = 1 /\ new[i] = after[1]
  <2>1. CASE i <= Len(evals)
    BY <1>2, <1>3, <1>4, <2>1
  <2>2. CASE ~(i <= Len(evals))
    <3>1. Len(after) = 1 /\ i - Len(evals) = 1 /\ i = Len(evals) + Len(after)
      BY <1>4, <2>2
    <3> QED
      BY <1>3, <1>4, <2>2, <3>1
  <2> QED
    BY <2>1, <2>2
<1>6. Ordered(new)
  <2> SUFFICES ASSUME NEW i \in DOMAIN new, NEW j \in DOMAIN new, i < j,
                      new[i].do # "eval"
               PROVE  FALSE
    BY DEF Ordered
  <2>1. i = Len(evals) + Len(after)
    BY <1>5
  <2> QED
    BY <1>4, <2>1
<1>7. \A i \in DOMAIN new : new[i].do = "eval" \/ \E j \in DOMAIN after : new[i] = after[j]
  <2>1. Len(after) = 1 => 1 \in DOMAIN after
    BY <1>4
  <2> QED
    BY <1>5, <2>1
<1>8. Todo(after) \subseteq Todo(new)
  <2> SUFFICES ASSUME NEW j \in DOMAIN after PROVE Asks(after[j]) \subseteq Todo(new)
    BY DEF Todo
  <2>1. Len(evals) + 1 \in DOMAIN new /\ j = 1 /\ ~(Len(evals) + 1 <= Len(evals))
        /\ (Len(evals) + 1) - Len(evals) = 1 /\ Len(evals) + 1 \in 1 .. Len(new)
    BY <1>3, <1>4
  <2>2. new[Len(evals) + 1] = after[j]
    BY <1>3, <2>1
  <2> QED
    BY <2>1, <2>2 DEF Todo
<1> QED
  BY <1>3, <1>6, <1>7, <1>8 DEF new, evals

(* A task on its own.                                                      *)
LEMMA OneTask ==
  ASSUME NEW T, NEW t \in TestTasks(T)
  PROVE  <<t>> \in Seq(TestTasks(T)) /\ Ordered(<<t>>) /\ Todo(<<t>>) = Asks(t)
<1> DEFINE tasks == <<t>>
<1>1. tasks \in Seq(TestTasks(T)) /\ DOMAIN tasks = {1} /\ tasks[1] = t
  OBVIOUS
<1> HIDE DEF tasks
<1>2. Ordered(tasks)
  BY <1>1 DEF Ordered
<1>3. Todo(tasks) = Asks(t)
  BY <1>1 DEF Todo
<1> QED
  BY <1>1, <1>2, <1>3 DEF tasks

(* A set of an intersection, and the sets after it.                        *)
LEMMA TwoTasks ==
  ASSUME NEW T, NEW t \in TestTasks(T), NEW u \in TestTasks(T), u.do = "and"
  PROVE  /\ <<t, u>> \in Seq(TestTasks(T)) /\ Ordered(<<t, u>>)
         /\ Todo(<<t, u>>) = Asks(t) \cup Asks(u)
<1> DEFINE tasks == <<t, u>>
<1>1. tasks \in Seq(TestTasks(T)) /\ DOMAIN tasks = {1, 2} /\ tasks[1] = t /\ tasks[2] = u
  OBVIOUS
<1> HIDE DEF tasks
<1>2. Ordered(tasks)
  <2> SUFFICES ASSUME NEW i \in {1, 2}, NEW j \in {1, 2}, i < j PROVE tasks[j].do = "and"
    BY <1>1 DEF Ordered
  <2>1. j = 2
    OBVIOUS
  <2> QED
    BY <1>1, <2>1
<1>3. Todo(tasks) = Asks(t) \cup Asks(u)
  BY <1>1 DEF Todo
<1> QED
  BY <1>1, <1>2, <1>3 DEF tasks

(* A set of the trunk.                                                     *)
LEMMA MemberTask ==
  ASSUME NEW T \in SUBSET Node, NEW n \in T
  PROVE  Task("member", n) \in TestTasks(T) /\ Asks(Task("member", n)) = {n}
<1>1. "member" \in Plain
  BY DEF Plain, UseDo, Strict, Lax, Inner
<1>2. Task("member", n) \in UseTasks
  BY <1>1, TaskTyped
<1>3. Task("member", n).do = "member" /\ Task("member", n).node = n
  BY DEF Task
<1>4. Asks(Task("member", n)) = {n}
  BY <1>3 DEF Asks
<1> QED
  BY <1>2, <1>3, <1>4 DEF TestTasks

(* An intersection with some of its sets left.                             *)
LEMMA RestTask ==
  ASSUME NEW T \in SUBSET Node, NEW t \in UseTasks, t.do = "and",
         NEW ns \in Seq(Node), \A i \in DOMAIN ns : ns[i] \in T
  PROVE  LET u == [t EXCEPT !.rest = ns] IN
         /\ u \in TestTasks(T) /\ u.do = "and"
         /\ Asks(u) = {ns[i] : i \in DOMAIN ns}
<1> DEFINE u == [t EXCEPT !.rest = ns]
<1>1. t \in [do : UseDo, node : Node, rest : Seq(Node), then : UseDo, k : Nat]
  BY DEF UseTasks
<1>2. u \in UseTasks /\ u.do = "and" /\ u.rest = ns
  BY <1>1 DEF UseTasks
<1> HIDE DEF u
<1>3. Asks(u) = {ns[i] : i \in DOMAIN ns}
  BY <1>2 DEF Asks
<1>4. u \in TestTasks(T)
  BY <1>2, <1>3 DEF TestTasks
<1> QED
  BY <1>2, <1>3, <1>4 DEF u

(* The task at the top during a test.                                      *)
LEMMA TopTest ==
  ASSUME NEW T, stack \in Seq(TestTasks(T)), stack # <<>>
  PROVE  /\ top \in UseTasks /\ node \in Node /\ Kids[node] \in Seq(Node)
         /\ top.do \in {"member", "decide", "bounds", "and", "eval"}
         /\ top.rest \in Seq(Node) /\ Asks(top) \subseteq T
         /\ top.do \in {"member", "decide", "bounds"} => node \in T
         /\ top.do \in {"decide", "bounds"} => Kind[node] \in Shape
<1>1. top \in TestTasks(T)
  BY DEF top
<1>2. node \in Node /\ top.rest \in Seq(Node)
  BY <1>1 DEF TestTasks, UseTasks, node
<1>3. Kids[node] \in Seq(Node)
  BY <1>2, GraphAssumption
<1> QED
  BY <1>1, <1>2, <1>3 DEF TestTasks, Asks, node

(* The bounds of a rectangle are looked at two by two.                     *)
LEMMA BoundsTask ==
  ASSUME NEW T, stack \in Seq(TestTasks(T)), stack # <<>>, top.do = "bounds", top.rest # <<>>
  PROVE  LET left == SubSeq(top.rest, 3, Len(top.rest))
             t == [top EXCEPT !.rest = left, !.k = 1]
         IN  /\ SubSeq(top.rest, 1, 2) \in Seq(Node)
             /\ t \in TestTasks(T) /\ Asks(t) = {node} /\ t.do = "bounds"
<1> DEFINE left == SubSeq(top.rest, 3, Len(top.rest))
           t == [top EXCEPT !.rest = left, !.k = 1]
<1>1. /\ top \in UseTasks /\ top.rest \in Seq(Node) /\ node \in T /\ Kind[node] \in Shape
  BY TopTest
<1>2. Len(top.rest) \in Nat /\ Len(top.rest) # 0 /\ Len(top.rest) % 2 = 0
  BY <1>1 DEF UseTasks
<1>3. Len(top.rest) >= 2
  <2>1. \A n \in Nat : n # 0 /\ n % 2 = 0 => n >= 2
    OBVIOUS
  <2> QED
    BY <1>2, <2>1
<1>4. SubSeq(top.rest, 1, 2) \in Seq(Node) /\ left \in Seq(Node) /\ Len(left) = Len(top.rest) - 2
  <2>1. SubSeq(top.rest, 1, 2) \in Seq(Node)
    BY <1>1, <1>2, <1>3, SubSeqProperties
  <2> QED
    BY <1>1, <1>2, <1>3, <2>1, SubSeqProperties
<1>5. Len(left) % 2 = 0
  <2>1. \A n \in Nat : n >= 2 /\ n % 2 = 0 => (n - 2) % 2 = 0
    OBVIOUS
  <2> QED
    BY <1>2, <1>3, <1>4, <2>1
<1> HIDE DEF left
<1>6. t \in UseTasks /\ t.do = "bounds" /\ t.node = node
  BY <1>1, <1>4, <1>5 DEF UseTasks, node
<1> HIDE DEF t
<1>7. Asks(t) = {node}
  BY <1>6 DEF Asks
<1>8. t \in TestTasks(T)
  BY <1>1, <1>6, <1>7 DEF TestTasks
<1> QED
  BY <1>4, <1>6, <1>7, <1>8 DEF t, left

(* The sets of an intersection are tested one by one.                      *)
LEMMA AndTasks ==
  ASSUME NEW T \in SUBSET Node, stack \in Seq(TestTasks(T)), stack # <<>>,
         top.do = "and", top.rest # <<>>
  PROVE  LET new == <<Task("member", Head(top.rest))>> \o
                      (IF Len(top.rest) = 1 THEN <<>>
                       ELSE <<[top EXCEPT !.rest = Tail(@)]>>)
         IN  new \in Seq(TestTasks(T)) /\ Ordered(new) /\ Asks(top) \subseteq Todo(new)
<1> DEFINE m == Task("member", Head(top.rest))
           t == [top EXCEPT !.rest = Tail(@)]
<1>1. top \in UseTasks /\ top.rest \in Seq(Node) /\ Asks(top) \subseteq T
  BY TopTest
<1>2. Asks(top) = {top.rest[i] : i \in DOMAIN top.rest}
  BY DEF Asks
<1>3. /\ Head(top.rest) = top.rest[1] /\ 1 \in DOMAIN top.rest
      /\ DOMAIN top.rest = 1 .. Len(top.rest) /\ Len(top.rest) \in Nat
      /\ Tail(top.rest) \in Seq(Node) /\ DOMAIN Tail(top.rest) = 1 .. Len(top.rest) - 1
      /\ \A i \in 1 .. Len(top.rest) - 1 : Tail(top.rest)[i] = top.rest[i + 1]
  BY <1>1
<1>4. Head(top.rest) \in T
  BY <1>1, <1>2, <1>3
<1>5. m \in TestTasks(T) /\ Asks(m) = {Head(top.rest)}
  BY <1>4, MemberTask
<1>6. ASSUME NEW i \in DOMAIN Tail(top.rest) PROVE Tail(top.rest)[i] \in T
  <2>1. i + 1 \in DOMAIN top.rest /\ Tail(top.rest)[i] = top.rest[i + 1]
    BY <1>3
  <2> QED
    BY <1>1, <1>2, <2>1
<1>7. /\ t \in TestTasks(T) /\ t.do = "and"
      /\ Asks(t) = {Tail(top.rest)[i] : i \in DOMAIN Tail(top.rest)}
  <2> DEFINE u == [top EXCEPT !.rest = Tail(top.rest)]
  <2>1. u \in TestTasks(T) /\ u.do = "and"
        /\ Asks(u) = {Tail(top.rest)[i] : i \in DOMAIN Tail(top.rest)}
    BY <1>1, <1>3, <1>6, RestTask
  <2>2. t = u
    OBVIOUS
  <2> QED
    BY <2>1, <2>2
<1> HIDE DEF m, t
<1>8. CASE Len(top.rest) = 1
  <2>1. <<m>> \in Seq(TestTasks(T)) /\ Ordered(<<m>>) /\ Todo(<<m>>) = Asks(m)
    BY <1>5, OneTask
  <2>2. Asks(top) \subseteq Asks(m)
    <3>1. \A i \in DOMAIN top.rest : i = 1
      BY <1>3, <1>8
    <3> QED
      BY <1>2, <1>3, <1>5, <3>1
  <2>3. <<m>> \o <<>> = <<m>>
    BY <2>1
  <2> QED
    BY <1>8, <2>1, <2>2, <2>3 DEF m
<1>9. CASE Len(top.rest) # 1
  <2>1. /\ <<m, t>> \in Seq(TestTasks(T)) /\ Ordered(<<m, t>>)
        /\ Todo(<<m, t>>) = Asks(m) \cup Asks(t)
    BY <1>5, <1>7, TwoTasks
  <2>2. ASSUME NEW i \in DOMAIN top.rest PROVE top.rest[i] \in Asks(m) \cup Asks(t)
    <3>1. CASE i = 1
      BY <1>3, <1>5, <3>1
    <3>2. CASE i # 1
      <4>1. i - 1 \in DOMAIN Tail(top.rest) /\ Tail(top.rest)[i - 1] = top.rest[i]
        BY <1>3, <3>2
      <4> QED
        BY <1>7, <4>1
    <3> QED
      BY <3>1, <3>2
  <2>3. Asks(top) \subseteq Asks(m) \cup Asks(t)
    BY <1>2, <2>2
  <2>4. <<m>> \o <<t>> = <<m, t>>
    <3>1. <<m>> \in Seq(TestTasks(T)) /\ t \in TestTasks(T)
      BY <1>5, <1>7
    <3>2. Append(<<m>>, t) = <<m>> \o <<t>>
      BY ONLY <3>1, AppendIsConcat
    <3>3. /\ Append(<<m>>, t) \in Seq(TestTasks(T)) /\ Len(Append(<<m>>, t)) = 2
          /\ Append(<<m>>, t)[1] = m /\ Append(<<m>>, t)[2] = t
      <4>1. Len(<<m>>) = 1 /\ <<m>>[1] = m
        OBVIOUS
      <4> QED
        BY <3>1, <4>1, AppendProperties
    <3>4. /\ <<m, t>> \in Seq(TestTasks(T)) /\ Len(<<m, t>>) = 2
          /\ <<m, t>>[1] = m /\ <<m, t>>[2] = t
      BY <3>1
    <3>5. \A i \in 1 .. 2 : Append(<<m>>, t)[i] = <<m, t>>[i]
      BY <3>3, <3>4
    <3>6. Append(<<m>>, t) = <<m, t>>
      BY <3>3, <3>4, <3>5, SeqEqual
    <3> QED
      BY <3>2, <3>6
  <2> QED
    BY <1>9, <2>1, <2>3, <2>4 DEF m, t
<1> QED
  BY <1>8, <1>9

(* A step of a test, of which the point decides the answers.               *)
LEMMA TestSteps ==
  ASSUME TypeInv, NEW T, Trunk(adv, T), NEW p, stack \in Seq(TestTasks(T)), values = {},
         Step, Busy("decide") => answer' = (node \in p),
         Busy("bounds") /\ Len(stack') < Len(stack) => answer' = (node \in p)
  PROVE  \/ Fails /\ UNCHANGED <<adv, refs, values>>
         \/ Return
         \/ /\ stack # <<>> /\ UNCHANGED <<adv, refs, values, phase, outcome>>
            /\ \E new : TestGoes(T, p, new)
<1>0. /\ T \in SUBSET Node
      /\ \A n \in T : Kind[n] \notin {"setcase", "setref"}
      /\ \A n \in T : Kind[n] = "intersection" => \A i \in DOMAIN Kids[n] : Kids[n][i] \in T
  BY DEF Trunk, Shape
<1>1. ASSUME NEW do, Busy(do)
      PROVE  /\ stack # <<>> /\ top.do = do
             /\ do \in {"member", "decide", "bounds", "and", "eval"}
             /\ top \in UseTasks /\ node \in Node /\ Kids[node] \in Seq(Node)
             /\ top.rest \in Seq(Node) /\ Asks(top) \subseteq T
             /\ do \in {"member", "decide", "bounds"} => node \in T
             /\ do \in {"decide", "bounds"} => Kind[node] \in Shape
  BY <1>1, TopTest DEF Busy
<1> DEFINE Still == UNCHANGED <<adv, refs, values, phase, outcome>>
<1>2. <<>> \in Seq(TestTasks(T)) /\ Ordered(<<>>) /\ Len(<<>>) = 0
  BY DEF Ordered
<1>3. CASE Eval
  <2>1. Busy("eval") /\ Pure /\ stack' = Each("eval", Kids[node]) \o Tail(stack)
    <3>1. Call("eval") \/ Busy("eval")
      BY <1>3 DEF Eval
    <3> QED
      BY <1>3, <3>1 DEF Eval, Call, Continue
  <2>2. stack # <<>> /\ top.do = "eval" /\ Kids[node] \in Seq(Node)
    BY <1>1, <2>1
  <2> DEFINE none == <<>>
             new == Each("eval", Kids[node])
  <2>3. none \in Seq(TestTasks(T)) /\ Len(none) <= 1 /\ DOMAIN none = {}
    BY <1>2
  <2>4. new \o none = new
    <3>1. new \in Seq(BoxTasks)
      BY <2>2, EachBoxes
    <3> HIDE DEF new
    <3> QED
      BY <3>1
  <2> HIDE DEF none
  <2>5. /\ new \in Seq(TestTasks(T)) /\ Ordered(new)
        /\ \A i \in DOMAIN new : new[i].do = "eval"
    <3>1. /\ new \o none \in Seq(TestTasks(T)) /\ Ordered(new \o none)
          /\ \A i \in DOMAIN (new \o none) :
               (new \o none)[i].do = "eval" \/ \E j \in DOMAIN none : (new \o none)[i] = none[j]
      BY <2>2, <2>3, EvalsThen
    <3> HIDE DEF new
    <3> QED
      BY <2>3, <2>4, <3>1
  <2> HIDE DEF new
  <2>6. TestGoes(T, p, new)
    BY <2>1, <2>2, <2>5 DEF TestGoes, Pure, new
  <2> QED
    BY <2>1, <2>2, <2>6 DEF Pure, Keep, refs
<1>4. CASE Variable \/ CaseDistinction
  <2>1. ~Known(node)
    BY DEF Known
  <2>2. Raise("unknown_variable") \/ Raise("unbound")
    BY <1>4, <2>1 DEF Variable, CaseDistinction
  <2> QED
    BY <2>2, RaiseFails
<1>5. CASE Reference
  <2>1. CASE Raise("unknown_reference")
    BY <2>1, RaiseFails
  <2>2. CASE ~Raise("unknown_reference")
    <3>1. Busy("eval")
      BY <1>1, <1>5 DEF Reference, Call
    <3>2. stack # <<>> /\ top.do = "eval"
      BY <1>1, <3>1
    <3>3. /\ To[node] \in DOMAIN realRefs /\ Pure
          /\ stack' = <<Task("eval", realRefs[To[node]])>> \o Tail(stack)
      BY <1>5, <2>2, <3>2 DEF Reference, Continue
    <3> DEFINE t == Task("eval", realRefs[To[node]])
    <3>4. t \in TestTasks(T) /\ t.do = "eval"
      <4>1. realRefs[To[node]] \in Node
        BY <3>3 DEF TypeInv
      <4>2. "eval" \in Plain
        BY DEF Plain, UseDo, Strict, Lax, Inner
      <4>3. t \in UseTasks
        BY <4>1, <4>2, TaskTyped
      <4>4. t.do = "eval"
        BY DEF Task
      <4>5. Asks(t) = {}
        BY <4>4 DEF Asks
      <4> QED
        BY <4>3, <4>4, <4>5 DEF TestTasks
    <3> HIDE DEF t
    <3>5. <<t>> \in Seq(TestTasks(T)) /\ Ordered(<<t>>)
      BY <3>4, OneTask
    <3>6. \A i \in DOMAIN <<t>> : <<t>>[i].do = "eval"
      BY <3>4
    <3>7. stack' = <<t>> \o Tail(stack) /\ answer' = answer
      BY <3>3 DEF t, Pure
    <3>8. TestGoes(T, p, <<t>>)
      BY <3>2, <3>5, <3>6, <3>7 DEF TestGoes
    <3> QED
      BY <3>2, <3>3, <3>8 DEF Pure, Keep, refs
  <2> QED
    BY <2>1, <2>2
<1>6. CASE WhichError
  BY <1>6, RaiseFails DEF WhichError
<1>7. CASE TooDeep
  BY <1>7, RaiseFails DEF TooDeep
<1>8. CASE MemberShape
  <2>1. /\ Busy("member") /\ Pure /\ Kind[node] \in Shape
        /\ stack' = Append(Each("eval", Kids[node]), Task("decide", node)) \o Tail(stack)
    BY <1>8 DEF MemberShape, Call, Continue, Shape
  <2>2. stack # <<>> /\ top.do = "member" /\ node \in T /\ Kids[node] \in Seq(Node)
    BY <1>1, <2>1
  <2> DEFINE t == Task("decide", node)
             new == Each("eval", Kids[node]) \o <<t>>
  <2>3. t \in TestTasks(T) /\ Asks(t) = {node}
    <3>1. "decide" \in Plain
      BY DEF Plain, UseDo, Strict, Lax, Inner
    <3>2. t \in UseTasks
      BY <1>0, <2>2, <3>1, TaskTyped
    <3>3. t.do = "decide" /\ t.node = node
      BY DEF Task
    <3>4. Asks(t) = {node}
      BY <3>3 DEF Asks
    <3> QED
      BY <2>1, <2>2, <3>2, <3>3, <3>4 DEF TestTasks
  <2> HIDE DEF t
  <2>4. <<t>> \in Seq(TestTasks(T)) /\ Ordered(<<t>>) /\ Todo(<<t>>) = {node}
    BY <2>3, OneTask
  <2>5. Len(<<t>>) <= 1
    OBVIOUS
  <2>6. /\ new \in Seq(TestTasks(T)) /\ Ordered(new) /\ Todo(<<t>>) \subseteq Todo(new)
    BY <2>2, <2>4, <2>5, EvalsThen
  <2>7. new = Append(Each("eval", Kids[node]), t)
    <3> DEFINE all == UseTasks
    <3>1. Each("eval", Kids[node]) \in Seq(all) /\ t \in all
      <4>1. "eval" \in Plain
        BY DEF Plain, UseDo, Strict, Lax, Inner
      <4>2. Each("eval", Kids[node]) \in Seq(UseTasks)
        BY <2>2, <4>1, EachTyped
      <4> QED
        BY <2>3, <4>2 DEF TestTasks
    <3> HIDE DEF all
    <3> QED
      BY ONLY <3>1, AppendIsConcat
  <2> HIDE DEF new
  <2>8. TestGoes(T, p, new)
    BY <2>1, <2>2, <2>4, <2>6, <2>7 DEF TestGoes, t
  <2> QED
    BY <2>1, <2>2, <2>8 DEF Pure, Keep, refs
<1>9. CASE Decide
  <2>1. /\ Busy("decide") /\ Keep /\ UNCHANGED refs /\ stack' = <<>> \o Tail(stack)
    BY <1>9 DEF Decide, Continue
  <2>2. stack # <<>> /\ top.do = "decide" /\ answer' = (node \in p)
    BY <1>1, <2>1
  <2>3. TestGoes(T, p, <<>>)
    BY <1>2, <2>1, <2>2 DEF TestGoes
  <2> QED
    BY <2>1, <2>2, <2>3 DEF Keep, refs
<1>10. CASE MemberParts
  <2>1. Busy("member") /\ Keep /\ UNCHANGED refs
    BY <1>10 DEF MemberParts, Call
  <2>2. stack # <<>> /\ top.do = "member" /\ node \in T /\ Kids[node] \in Seq(Node)
    BY <1>1, <2>1
  <2>3. CASE Kind[node] = "rectangle"
    <3> DEFINE t == [Task("bounds", node) EXCEPT !.rest = Kids[node]]
    <3>1. stack' = <<t>> \o Tail(stack)
      BY <1>10, <2>3 DEF MemberParts, Continue
    <3>2. t \in UseTasks
      <4>1. Len(Kids[node]) % 2 = 0
        BY <1>0, <2>2, <2>3, ShapeAssumption
      <4> QED
        BY <1>0, <2>2, <4>1, KeepsRest
    <3>3. t.do = "bounds" /\ t.node = node
      BY DEF Task
    <3> HIDE DEF t
    <3>4. Asks(t) = {node}
      BY <3>3 DEF Asks
    <3>5. t \in TestTasks(T)
      BY <2>2, <2>3, <3>2, <3>3, <3>4 DEF TestTasks, Shape
    <3>6. <<t>> \in Seq(TestTasks(T)) /\ Ordered(<<t>>) /\ Todo(<<t>>) = {node}
      BY <3>4, <3>5, OneTask
    <3>7. TestGoes(T, p, <<t>>)
      BY <2>2, <3>1, <3>6 DEF TestGoes
    <3> QED
      BY <2>1, <2>2, <3>7 DEF Keep, refs
  <2>4. CASE Kind[node] # "rectangle"
    <3> DEFINE t == [Task("and", node) EXCEPT !.rest = Kids[node]]
    <3>1. stack' = <<t>> \o Tail(stack) /\ Kind[node] = "intersection"
      BY <1>10, <2>4 DEF MemberParts, Continue
    <3>2. \A i \in DOMAIN Kids[node] : Kids[node][i] \in T
      BY <1>0, <2>2, <3>1
    <3>3. t \in UseTasks /\ t.do = "and" /\ t.rest = Kids[node]
      <4>1. t \in UseTasks
        BY <1>0, <2>2, KeepsRest
      <4> QED
        BY <4>1 DEF Task
    <3> HIDE DEF t
    <3>4. Asks(t) = {Kids[node][i] : i \in DOMAIN Kids[node]}
      BY <3>3 DEF Asks
    <3>5. t \in TestTasks(T)
      BY <3>2, <3>3, <3>4 DEF TestTasks
    <3>6. <<t>> \in Seq(TestTasks(T)) /\ Ordered(<<t>>) /\ Todo(<<t>>) = Asks(t)
      BY <3>5, OneTask
    <3>7. TestGoes(T, p, <<t>>)
      BY <2>2, <3>1, <3>4, <3>6 DEF TestGoes
    <3> QED
      BY <2>1, <2>2, <3>7 DEF Keep, refs
  <2> QED
    BY <2>3, <2>4
<1>11. CASE Bounds
  <2>1. Busy("bounds") /\ Keep /\ UNCHANGED refs
    BY <1>11 DEF Bounds
  <2>2. stack # <<>> /\ top.do = "bounds"
    BY <1>1, <2>1
  <2>3. CASE Continue(<<>>)
    <3>1. stack' = <<>> \o Tail(stack)
      BY <2>3 DEF Continue
    <3>2. Len(stack') < Len(stack)
      BY <2>2, <3>1
    <3>3. answer' = (node \in p)
      BY <2>1, <3>2
    <3>4. TestGoes(T, p, <<>>)
      BY <1>2, <2>2, <3>1, <3>3 DEF TestGoes
    <3> QED
      BY <2>1, <2>2, <3>4 DEF Keep, refs
  <2>4. CASE ~Continue(<<>>)
    <3> DEFINE two == SubSeq(top.rest, 1, 2)
               t == [top EXCEPT !.rest = SubSeq(top.rest, 3, Len(top.rest)), !.k = 1]
               new == Each("eval", two) \o <<t>>
    <3>1. top.rest # <<>> /\ stack' = new \o Tail(stack)
      BY <1>11, <2>4 DEF Bounds, Continue
    <3>2. two \in Seq(Node) /\ t \in TestTasks(T) /\ Asks(t) = {node}
      BY <2>2, <3>1, BoundsTask
    <3> HIDE DEF two, t
    <3>3. <<t>> \in Seq(TestTasks(T)) /\ Todo(<<t>>) = {node}
      BY <3>2, OneTask
    <3>4. Len(<<t>>) <= 1
      OBVIOUS
    <3>5. new \in Seq(TestTasks(T)) /\ Ordered(new) /\ Todo(<<t>>) \subseteq Todo(new)
      BY <3>2, <3>3, <3>4, EvalsThen
    <3> HIDE DEF new
    <3>6. TestGoes(T, p, new)
      BY <2>2, <3>1, <3>3, <3>5 DEF TestGoes
    <3> QED
      BY <2>1, <2>2, <3>6 DEF Keep, refs
  <2> QED
    BY <2>3, <2>4
<1>12. CASE And
  <2>1. Busy("and") /\ Pure
    BY <1>12 DEF And
  <2>2. stack # <<>> /\ top.do = "and" /\ answer' = answer
    BY <1>1, <2>1 DEF Pure
  <2>3. CASE ~answer
    <3>1. stack' = <<>> \o Tail(stack)
      BY <1>12, <2>3 DEF And, Continue
    <3>2. TestGoes(T, p, <<>>)
      BY <1>2, <2>2, <2>3, <3>1 DEF TestGoes
    <3> QED
      BY <2>1, <2>2, <3>2 DEF Pure, Keep, refs
  <2>4. CASE answer /\ top.rest = <<>>
    <3>1. stack' = <<>> \o Tail(stack)
      BY <1>12, <2>4 DEF And, Continue
    <3>2. Asks(top) = {}
      BY <2>2, <2>4 DEF Asks
    <3>3. TestGoes(T, p, <<>>)
      BY <1>2, <2>2, <2>4, <3>1, <3>2 DEF TestGoes
    <3> QED
      BY <2>1, <2>2, <3>3 DEF Pure, Keep, refs
  <2>5. CASE answer /\ top.rest # <<>>
    <3> DEFINE new == <<Task("member", Head(top.rest))>> \o
                      (IF Len(top.rest) = 1 THEN <<>>
                       ELSE <<[top EXCEPT !.rest = Tail(@)]>>)
    <3>1. stack' = new \o Tail(stack)
      BY <1>12, <2>5 DEF And, Continue
    <3>2. new \in Seq(TestTasks(T)) /\ Ordered(new) /\ Asks(top) \subseteq Todo(new)
      BY <1>0, <2>2, <2>5, AndTasks
    <3> HIDE DEF new
    <3>3. TestGoes(T, p, new)
      BY <2>2, <2>5, <3>1, <3>2 DEF TestGoes
    <3> QED
      BY <2>1, <2>2, <3>3 DEF Pure, Keep, refs
  <2> QED
    BY <2>3, <2>4, <2>5
<1>13. CASE MemberReference
  <2>1. Busy("member") /\ Kind[node] = "setref"
    BY <1>13 DEF MemberReference, Call
  <2> QED
    BY <1>0, <1>1, <2>1
<1>14. CASE Return
  BY <1>14
<1>15. CASE Derive \/ OtherVariable \/ TestCase \/ Branch
  BY SMTT(30), <1>1, <1>15 DEF Derive, OtherVariable, TestCase, Branch, Call
<1>16. CASE Projection \/ Hull \/ Merge \/ Solve \/ RaggedMatrix
  <2>1. \/ Busy("proj") \/ Busy("outside") \/ Busy("dykstra") \/ Busy("converged")
        \/ Busy("hull") \/ Busy("merge") \/ Busy("solve") \/ RaggedMatrix
    BY <1>16 DEF Projection, ProjectDirect, ProjectFromOutside, Outside, Dykstra,
       Converged, Hull, Merge, Solve, Call
  <2>2. CASE RaggedMatrix
    BY <2>2, TerminateFails DEF RaggedMatrix
  <2> QED
    BY <1>1, <2>1, <2>2
<1>17. CASE Scan \/ Reset
  BY <1>1, <1>17 DEF Scan, Reset, Call
<1> QED
  BY <1>3, <1>4, <1>5, <1>6, <1>7, <1>8, <1>9, <1>10, <1>11, <1>12, <1>13, <1>14, <1>15,
     <1>16, <1>17 DEF Step, Evaluation, Membership

------------------------------------------------------------------------------
(* The course of a validation.                                             *)

\* The interpreter has returned, and with a result.
Done == phase = "idle" /\ outcome = "ok"

\* A part is evaluated, and once it is the part can be used: it has raised
\* no error.
Uses(part, given, P) ==
  /\ phase = "running" => /\ values = given
                          /\ NamesUnique => \E D : Reached(adv, part, D, stack, given, P)
  /\ Done => (NamesUnique => Usable(adv, part, given, P))

\* The box is computed, and then the profile is known to be a set of
\* shapes and intersections.
Boxes ==
  /\ Uses(1, {}, Points)
  /\ phase = "running" =>
       /\ values = {} /\ stack \in Seq(BoxTasks)
       /\ \E L : Layered(adv, L, stack, depth)
  /\ Done => \E T : Trunk(adv, T)

\* The profile has a box, and the cost function a value once it has been
\* evaluated.
Useful ==
  NamesUnique => /\ Usable(adv, 1, {}, Points)
                 /\ done > 0 => Usable(adv, 3, Given, {})

\* A point is tested: what is found inside is inside.
Samples ==
  /\ Useful
  /\ \E T : /\ Trunk(adv, T)
            /\ phase = "running" => values = {} /\ Testing(adv, T, point, stack, answer)
            /\ Done /\ answer => point \in Feasible[adv]

Evaluates ==
  /\ Useful
  /\ \E T : Trunk(adv, T)
  /\ point \in Feasible[adv]

Accepted ==
  /\ Defined(offer) /\ Feasible[adv] # {} /\ (client = "buffer" => offer.isAdv)
  /\ NamesUnique => /\ Usable(adv, 1, {}, Points)
                    /\ \E p \in Feasible[adv] : Usable(adv, 2, Given, {p})
                    /\ Usable(adv, 3, Given, {})

CourseInv ==
  /\ stack # <<>> => phase \in {"constructing", "running"}
  /\ client # "user" =>
       /\ RefsOwn
       /\ at = "start" => phase = "none" /\ realRefs = <<>>
       /\ at \in {"start", "scan", "box"} => done = 0
       /\ at = "scan" /\ phase \in {"constructing", "running"} =>
            /\ stack \in Seq(ScanTasks)
            /\ \E D : Progress(D, adv, realRefs, setRefs, stack, depth)
       /\ at \notin {"start", "end"} => (client = "buffer" => offer.isAdv)
       /\ at \in {"box", "sample", "cost", "belief"} =>
            /\ phase \in {"running", "idle", "terminated"} /\ stack \in Seq(UseTasks)
            /\ Defined(offer)
       /\ at = "box" => Boxes
       /\ at = "sample" => Samples
       /\ at \in {"cost", "belief"} => Evaluates
       /\ at = "cost" => Uses(3, Given, {})
       /\ at = "belief" => Uses(2, Given, {point})
       /\ at = "end" => phase \notin {"constructing", "running"}
       /\ verdict = "accept" => Accepted

(* A step belongs to a call that runs, and a call ends idle.               *)
LEMMA StepRuns ==
  ASSUME TypeInv, stack # <<>> => phase \in {"constructing", "running"}, Step
  PROVE  /\ phase \in {"constructing", "running"}
         /\ stack' # <<>> => phase' \in {"constructing", "running"}
         /\ phase = "running" => phase' \in {"running", "idle", "terminated"}
<1>1. CASE Evaluation \/ Membership \/ Projection \/ Hull \/ Merge \/ Solve \/ RaggedMatrix
  <2>1. UseStep
    BY <1>1, EvaluationTyped, MembershipTyped, ProjectionTyped
  <2>2. stack # <<>>
    BY <1>1, EvaluationWalks, SetsWalk DEF Walk
  <2> QED
    BY <2>1, <2>2 DEF UseStep
<1>2. CASE Scan \/ Reset
  <2>1. stack # <<>> /\ phase' = phase
    BY <1>2 DEF Scan, Reset, Call, Busy, Pure, Keep
  <2> QED
    BY <2>1
<1>3. CASE TooDeep
  BY <1>3 DEF TooDeep, Raise
<1>4. CASE Return
  BY <1>4 DEF Return
<1> QED
  BY <1>1, <1>2, <1>3, <1>4 DEF Step

(* A scan adds names of the advertisement only.                            *)
LEMMA ScanOwns ==
  ASSUME TypeInv, RefsOwn, stack \in Seq(ScanTasks), Step,
         NEW D, Progress(D, adv, realRefs, setRefs, stack, depth)
  PROVE  /\ RefsOwn'
         /\ phase' \in {"constructing", "running"} =>
              /\ stack' \in Seq(ScanTasks)
              /\ \E E : Progress(E, adv', realRefs', setRefs', stack', depth')
<1>0. adv' = adv
  BY StepKeepsAdv
<1>1. CASE Scan \/ Reset
  <2>1. stack' \in Seq(ScanTasks)
    BY <1>1, ScanTyped DEF ScanStep
  <2>2. PICK E : /\ Progress(E, adv, realRefs', setRefs', stack', depth')
                 /\ Scan => node \in E
    BY <1>1, ScanGoesOn
  <2>3. RefsOwn'
    <3>1. CASE Scan
      <4>1. node \in Tree(adv)
        BY <2>2, <3>1 DEF Progress
      <4>2. realRefs' = Enlist(realRefs, node, RealKind)
        BY <3>1 DEF Scan
      <4> QED
        BY <1>0, <4>1, <4>2 DEF RefsOwn, Enlist, Put
    <3>2. CASE Reset
      BY <1>0, <3>2 DEF Reset, Pure, refs, RefsOwn
    <3> QED
      BY <1>1, <3>1, <3>2
  <2> QED
    BY <1>0, <2>1, <2>2, <2>3
<1>2. CASE TooDeep
  <2>1. realRefs' = realRefs /\ phase' \in {"dead", "idle"}
    BY <1>2 DEF TooDeep, Raise, refs
  <2> QED
    BY <1>0, <2>1 DEF RefsOwn
<1>3. CASE Return
  <2>1. realRefs' = realRefs /\ phase' = "idle"
    BY <1>3 DEF Return, refs
  <2> QED
    BY <1>0, <2>1 DEF RefsOwn
<1>4. CASE Evaluation \/ Membership \/ Projection \/ Hull \/ Merge \/ Solve \/ RaggedMatrix
  <2>1. UseStep
    BY <1>4, EvaluationTyped, MembershipTyped, ProjectionTyped
  <2>2. stack # <<>>
    BY <1>4, EvaluationWalks, SetsWalk DEF Walk
  <2> QED
    BY <2>1, <2>2, NeverTogether DEF UseStep
<1> QED
  BY <1>1, <1>2, <1>3, <1>4 DEF Step

(* No other call adds a name.                                              *)
LEMMA UseOwns ==
  ASSUME TypeInv, RefsOwn, stack \in Seq(UseTasks), Step
  PROVE  RefsOwn' /\ stack' \in Seq(UseTasks)
<1>0. adv' = adv
  BY StepKeepsAdv
<1>1. realRefs' = realRefs /\ stack' \in Seq(UseTasks)
  <2>1. CASE Scan \/ Reset
    <3>1. stack \in Seq(ScanTasks) /\ stack # <<>>
      BY <2>1, ScanTyped DEF ScanStep
    <3> QED
      BY <3>1, NeverTogether
  <2>2. CASE TooDeep
    <3>1. realRefs' = realRefs /\ stack' = <<>>
      BY <2>2 DEF TooDeep, Raise, refs
    <3> QED
      BY <3>1
  <2>3. CASE Return
    BY <2>3 DEF Return, refs
  <2>4. CASE Evaluation \/ Membership \/ Projection \/ Hull \/ Merge \/ Solve \/ RaggedMatrix
    BY <2>4, EvaluationTyped, MembershipTyped, ProjectionTyped DEF UseStep
  <2> QED
    BY <2>1, <2>2, <2>3, <2>4 DEF Step
<1> QED
  BY <1>0, <1>1 DEF RefsOwn

(* A part that is evaluated, or has been.                                  *)
LEMMA UsesGoOn ==
  ASSUME TypeInv, RefsOwn, NEW part \in DOMAIN adv, NEW given, NEW P \in SUBSET Points,
         Uses(part, given, P), phase = "running", stack \in Seq(UseTasks), Step,
         Busy("solve") /\ phase' = phase => \A p \in P : node \notin NoBox[p]
  PROVE  /\ adv' = adv
         /\ phase' = "running" =>
              /\ values' = given
              /\ NamesUnique => \E D : Reached(adv, part, D, stack', given, P)
         /\ Done' => (NamesUnique => Usable(adv, part, given, P))
<1>1. /\ values = given /\ adv \in Advs /\ adv' = adv
      /\ NamesUnique => \E D : Reached(adv, part, D, stack, given, P)
  BY StepKeepsAdv DEF Uses, TypeInv
<1>2. ASSUME phase' = "running"
      PROVE  values' = given
  <2>1. ~TooDeep /\ ~Return
    BY <1>2 DEF TooDeep, Raise, Return
  <2>2. CASE Scan \/ Reset
    BY <1>1, <2>2 DEF Scan, Reset, Pure, Keep
  <2>3. CASE Evaluation \/ Membership \/ Projection \/ Hull \/ Merge \/ Solve \/ RaggedMatrix
    BY <1>1, <2>3, EvaluationTyped, MembershipTyped, ProjectionTyped DEF UseStep
  <2> QED
    BY <2>1, <2>2, <2>3 DEF Step
<1>3. ASSUME phase' = "running", NamesUnique
      PROVE  \E D : Reached(adv, part, D, stack', given, P)
  BY <1>1, <1>3, ReachGoesOn
<1>4. ASSUME Done', NamesUnique
      PROVE  Usable(adv, part, given, P)
  <2>1. CASE Fails
    BY <1>4, <2>1 DEF Fails, Done
  <2>2. CASE Return
    <3>1. stack = <<>>
      BY <2>2 DEF Return
    <3> QED
      BY <1>1, <1>4, <3>1, ReachEnds
  <2>3. CASE TooDeep
    BY <2>1, <2>3, RaiseFails DEF TooDeep
  <2>4. CASE Scan \/ Reset
    BY <1>4, <2>4 DEF Scan, Reset, Pure, Keep, Done
  <2>5. CASE Evaluation \/ Membership \/ Projection \/ Hull \/ Merge \/ Solve \/ RaggedMatrix
    BY <1>4, <2>5, EvaluationTyped, MembershipTyped, ProjectionTyped DEF UseStep, Done
  <2> QED
    BY <2>2, <2>3, <2>4, <2>5 DEF Step
<1> QED
  BY <1>1, <1>2, <1>3, <1>4

(* A box that is computed, or that is there.                               *)
LEMMA BoxGoesOn ==
  ASSUME TypeInv, RefsOwn, Len(adv) = 3, Boxes, phase = "running", Step, AtPoint, at = "box"
  PROVE  Boxes'
<1>1. values = {} /\ stack \in Seq(BoxTasks)
  BY DEF Boxes
<1>2. PICK L : Layered(adv, L, stack, depth)
  BY DEF Boxes
<1>3. adv \in Advs /\ adv' = adv /\ depth \in Nat /\ 1 \in DOMAIN adv
  <2>1. adv \in Seq(Node)
    BY GraphAssumption DEF TypeInv
  <2> QED
    BY <2>1, StepKeepsAdv, LimitsAssumption DEF TypeInv
<1>4. Uses(1, {}, Points)'
  <2>1. stack \in Seq(UseTasks)
    <3>1. BoxTasks \subseteq UseTasks
      BY DEF BoxTasks
    <3> QED
      BY <1>1, <3>1
  <2>2. Busy("solve") /\ phase' = phase => \A p \in Points : node \notin NoBox[p]
    BY DEF AtPoint
  <2>3. Uses(1, {}, Points)
    BY DEF Boxes
  <2>4. /\ phase' = "running" =>
             /\ values' = {}
             /\ NamesUnique => \E D : Reached(adv, 1, D, stack', {}, Points)
        /\ Done' => (NamesUnique => Usable(adv, 1, {}, Points))
    BY <1>3, <2>1, <2>2, <2>3, UsesGoOn
  <2> QED
    BY <1>3, <2>4 DEF Uses
<1> HIDE DEF Uses
<1>5. CASE Fails
  BY <1>4, <1>5 DEF Fails, Boxes, Done
<1>6. CASE Return
  <2>1. stack = <<>> /\ phase' = "idle"
    BY <1>6 DEF Return
  <2>2. \E T : Trunk(adv, T)
    BY <1>2, <1>3, <2>1, LayersEnd
  <2> QED
    BY <1>3, <1>4, <2>1, <2>2 DEF Boxes, Done
<1>7. CASE /\ stack # <<>> /\ UNCHANGED <<adv, refs, values, answer, phase, outcome>>
           /\ \E new : HullGoes(new)
  <2>1. PICK new : HullGoes(new)
    BY <1>7
  <2>2. stack' \in Seq(BoxTasks)
    <3>1. new \in Seq(BoxTasks) /\ stack' = new \o Tail(stack)
      BY <2>1 DEF HullGoes
    <3> QED
      BY <1>1, <1>7, <3>1, AfterReplacement
  <2>3. \E M : Layered(adv, M, stack', depth')
    BY <1>1, <1>2, <1>7, <2>1, LayersGo
  <2> QED
    BY <1>1, <1>4, <1>7, <2>2, <2>3 DEF Boxes, Done
<1> QED
  BY <1>1, <1>5, <1>6, <1>7, BoxSteps

(* A point that is tested, or has been.                                    *)
LEMMA SampleGoesOn ==
  ASSUME TypeInv, Samples, phase = "running", Step, AtPoint, point \in Points,
         point' = point, done' = done
  PROVE  Samples'
<1>1. PICK T : Trunk(adv, T) /\ values = {} /\ Testing(adv, T, point, stack, answer)
  BY DEF Samples
<1>2. adv \in Advs /\ adv' = adv /\ answer \in BOOLEAN
  BY StepKeepsAdv DEF TypeInv
<1>3. stack \in Seq(TestTasks(T))
  BY <1>1 DEF Testing
<1>4. Useful'
  BY <1>2 DEF Samples, Useful
<1> HIDE DEF Useful
<1>5. CASE Fails
  BY <1>1, <1>2, <1>4, <1>5 DEF Fails, Samples, Done
<1>6. CASE Return
  <2>1. stack = <<>> /\ phase' = "idle" /\ answer' = answer
    BY <1>6 DEF Return
  <2>2. answer => point \in Feasible[adv]
    BY <1>1, <1>2, <2>1, TestEnds
  <2> QED
    BY <1>1, <1>2, <1>4, <2>1, <2>2 DEF Samples, Done
<1>7. CASE /\ stack # <<>> /\ UNCHANGED <<adv, refs, values, phase, outcome>>
           /\ \E new : TestGoes(T, point, new)
  <2>1. PICK new : TestGoes(T, point, new)
    BY <1>7
  <2>2. Testing(adv, T, point, stack', answer')
    BY <1>1, <1>2, <1>7, <2>1, TestGoesOn
  <2> QED
    BY <1>1, <1>2, <1>4, <1>7, <2>2 DEF Samples, Done
<1>8. /\ Busy("decide") => answer' = (node \in point)
      /\ Busy("bounds") /\ Len(stack') < Len(stack) => answer' = (node \in point)
  BY DEF AtPoint
<1> QED
  BY <1>1, <1>3, <1>5, <1>6, <1>7, <1>8, TestSteps

(* A step of the interpreter.                                              *)
LEMMA CourseInterprets ==
  ASSUME ValidatorInv, CourseInv, Interpret
  PROVE  CourseInv'
<1>1. /\ TypeInv /\ Step /\ UNCHANGED <<client, offer, verdict, at, point, done>>
      /\ point \in Points
  BY DEF ValidatorInv, ValidatorTypeOK, Interpret, check
<1>2. adv' = adv
  BY <1>1, StepKeepsAdv
<1>3. /\ phase \in {"constructing", "running"}
      /\ stack' # <<>> => phase' \in {"constructing", "running"}
      /\ phase = "running" => phase' \in {"running", "idle", "terminated"}
  BY <1>1, StepRuns DEF CourseInv
<1>4. CASE client = "user"
  BY <1>1, <1>3, <1>4 DEF CourseInv
<1>5. CASE client # "user" /\ at = "scan"
  <2>1. /\ RefsOwn /\ stack \in Seq(ScanTasks) /\ (client = "buffer" => offer.isAdv)
        /\ \E D : Progress(D, adv, realRefs, setRefs, stack, depth)
    BY <1>3, <1>5 DEF CourseInv
  <2>2. /\ RefsOwn'
        /\ phase' \in {"constructing", "running"} =>
             /\ stack' \in Seq(ScanTasks)
             /\ \E D : Progress(D, adv', realRefs', setRefs', stack', depth')
    BY <1>1, <2>1, ScanOwns
  <2>3. verdict = "none"
    BY <1>5 DEF ValidatorInv, ValidatorTypeOK
  <2> HIDE DEF RefsOwn
  <2> QED
    BY <1>1, <1>3, <1>5, <2>1, <2>2, <2>3 DEF CourseInv
<1>6. CASE client # "user" /\ at \in {"box", "sample", "cost", "belief"}
  <2>1. /\ RefsOwn /\ stack \in Seq(UseTasks) /\ phase = "running"
        /\ (client = "buffer" => offer.isAdv) /\ Defined(offer)
    BY <1>3, <1>6 DEF CourseInv
  <2>2. RefsOwn' /\ stack' \in Seq(UseTasks)
    BY <1>1, <2>1, UseOwns
  <2>3. verdict = "none" /\ AtPoint /\ Len(adv) = 3
    BY <1>1, <1>6, OffersAssumption DEF ValidatorInv, ValidatorTypeOK, Interpret
  <2>4. at = "box" => Boxes'
    BY <1>1, <1>6, <2>1, <2>3, BoxGoesOn DEF CourseInv
  <2>0. adv \in Seq(Node) /\ 2 \in DOMAIN adv /\ 3 \in DOMAIN adv
    <3>1. adv \in Seq(Node)
      BY <1>1, GraphAssumption DEF TypeInv
    <3> QED
      BY <2>3, <3>1
  <2>5. at = "sample" => Samples'
    BY <1>1, <1>6, <2>1, <2>3, SampleGoesOn DEF CourseInv
  <2>6. at \in {"cost", "belief"} => Evaluates'
    BY <1>1, <1>2, <1>6 DEF CourseInv, Evaluates, Useful
  <2>7. ASSUME at = "cost" PROVE Uses(3, Given, {})'
    <3>1. Uses(3, Given, {})
      BY <1>6, <2>7 DEF CourseInv
    <3>2. /\ phase' = "running" =>
               /\ values' = Given
               /\ NamesUnique => \E D : Reached(adv, 3, D, stack', Given, {})
          /\ Done' => (NamesUnique => Usable(adv, 3, Given, {}))
      BY <1>1, <2>0, <2>1, <3>1, UsesGoOn
    <3> QED
      BY <1>2, <3>2 DEF Uses, Given
  <2>8. ASSUME at = "belief" PROVE Uses(2, Given, {point})'
    <3>1. PICK q \in Points : q = point
      BY <1>1
    <3>2. Uses(2, Given, {q})
      BY <1>6, <2>8, <3>1 DEF CourseInv
    <3>3. Busy("solve") /\ phase' = phase => \A p \in {q} : node \notin NoBox[p]
      BY <2>3, <2>8, <3>1 DEF AtPoint
    <3>4. /\ phase' = "running" =>
               /\ values' = Given
               /\ NamesUnique => \E D : Reached(adv, 2, D, stack', Given, {q})
          /\ Done' => (NamesUnique => Usable(adv, 2, Given, {q}))
      BY <1>1, <2>0, <2>1, <3>2, <3>3, UsesGoOn
    <3>5. q = point' /\ adv' = adv
      BY <1>1, <1>2, <3>1
    <3> QED
      BY <3>4, <3>5 DEF Uses, Given
  <2> HIDE DEF RefsOwn, Boxes, Samples, Evaluates, Uses
  <2> QED
    BY <1>1, <1>3, <1>6, <2>1, <2>2, <2>3, <2>4, <2>5, <2>6, <2>7, <2>8 DEF CourseInv
<1>7. CASE client # "user" /\ at \in {"start", "end"}
  BY <1>3, <1>7 DEF CourseInv
<1> QED
  BY <1>4, <1>5, <1>6, <1>7 DEF ValidatorInv, ValidatorTypeOK

(* A call that the validator makes once the interpreter has returned.      *)
LEMMA AskStarts ==
  ASSUME NEW do \in {"member", "hull", "eval"}, NEW n \in Node, NEW given, Ask(do, n, given)
  PROVE  /\ phase' = "running" /\ stack' = <<Task(do, n)>> /\ stack' \in Seq(UseTasks)
         /\ depth' = 0 /\ values' = given
         /\ UNCHANGED <<adv, realRefs, setRefs, answer, outcome>>
<1>1. do \in Plain
  BY DEF Plain, UseDo, Strict, Lax, Inner
<1>2. Task(do, n) \in UseTasks
  BY <1>1, TaskTyped
<1>3. <<Task(do, n)>> \in Seq(UseTasks)
  BY <1>2
<1> QED
  BY <1>3 DEF Ask, Clear, refs

(* The two constructors.                                                   *)
LEMMA CourseStarts ==
  ASSUME ValidatorInv, CourseInv, Start
  PROVE  CourseInv'
<1>1. /\ client # "user" /\ at = "start" /\ adv = offer.adv /\ adv \in Advs
      /\ verdict = "none"
  BY DEF Start, Conclude, ValidatorInv, ValidatorTypeOK, TypeInv
<1>2. RefsOwn /\ phase = "none" /\ (stack # <<>> => phase \in {"constructing", "running"})
  BY <1>1 DEF CourseInv
<1>3. CASE Conclude("reject")
  BY <1>1, <1>2, <1>3 DEF Conclude, vars, CourseInv, RefsOwn
<1>4. CASE ~Conclude("reject")
  <2>1. /\ client = "buffer" => offer.isAdv
        /\ setAdv(offer.adv) \/ Construct
        /\ at' = "scan" /\ UNCHANGED <<client, offer, verdict, point, done>>
    BY <1>4 DEF Start, Goes
  <2>2. /\ stack' = ScanAll(adv) /\ depth' = 0 /\ phase' \in {"constructing", "running"}
        /\ UNCHANGED <<realRefs, setRefs, adv>>
    BY <1>1, <2>1 DEF setAdv, Construct, refs
  <2>3. stack' \in Seq(ScanTasks) /\ Progress({}, adv', realRefs', setRefs', stack', depth')
    BY <1>1, <2>2, ScanAllTyped, ScanBegins
  <2>4. RefsOwn'
    BY <1>2, <2>2 DEF RefsOwn
  <2> HIDE DEF RefsOwn
  <2> QED
    BY <1>1, <2>1, <2>2, <2>3, <2>4 DEF CourseInv
<1> QED
  BY <1>3, <1>4

(* A box is asked for once all parts are there.                            *)
LEMMA CourseChecks ==
  ASSUME ValidatorInv, CourseInv, CheckDefinitions
  PROVE  CourseInv'
<1>1. /\ client # "user" /\ at = "scan" /\ phase = "idle" /\ adv = offer.adv /\ adv \in Advs
      /\ verdict = "none" /\ Len(adv) = 3
  BY OffersAssumption DEF CheckDefinitions, Returned, ValidatorInv, ValidatorTypeOK, TypeInv
<1>2. /\ RefsOwn /\ (client = "buffer" => offer.isAdv)
      /\ stack # <<>> => phase \in {"constructing", "running"}
  BY <1>1 DEF CourseInv
<1>3. CASE Conclude("reject")
  BY <1>1, <1>2, <1>3 DEF Conclude, vars, CourseInv, RefsOwn
<1>4. CASE ~Conclude("reject")
  <2>1. /\ Defined(offer) /\ Ask("hull", profile, {})
        /\ at' = "box" /\ UNCHANGED <<client, offer, verdict, point, done>>
    BY <1>4 DEF CheckDefinitions, Goes
  <2>2. profile \in Node /\ profile = adv[1]
    <3>1. adv \in Seq(Node)
      BY <1>1, GraphAssumption
    <3> QED
      BY <1>1, <3>1 DEF profile
  <2>3. /\ phase' = "running" /\ stack' = <<Task("hull", adv[1])>> /\ stack' \in Seq(UseTasks)
        /\ depth' = 0 /\ values' = {}
        /\ UNCHANGED <<adv, realRefs, setRefs, answer, outcome>>
    BY <2>1, <2>2, AskStarts
  <2>4. stack' \in Seq(BoxTasks)
    <3> DEFINE t == Task("hull", adv[1])
    <3>1. t \in UseTasks
      <4>1. "hull" \in Plain
        BY DEF Plain, UseDo, Strict, Lax, Inner
      <4> QED
        BY <2>2, <4>1, TaskTyped
    <3>2. t.do = "hull"
      BY DEF Task
    <3> HIDE DEF t
    <3>3. t \in BoxTasks
      BY <3>1, <3>2 DEF BoxTasks
    <3>4. stack' = <<t>>
      BY <2>3 DEF t
    <3> QED
      BY <3>3, <3>4
  <2>5. (\E L : Layered(adv, L, stack', 0)) /\ (\E D : Reached(adv, 1, D, stack', {}, Points))
    <3>1. 1 \in DOMAIN adv
      BY <1>1, GraphAssumption
    <3> QED
      BY <1>1, <2>3, <3>1, LayersBegin, ReachBegins
  <2>6. Boxes'
    BY <2>3, <2>4, <2>5 DEF Boxes, Uses, Done
  <2>7. RefsOwn'
    BY <1>2, <2>3 DEF RefsOwn
  <2> HIDE DEF RefsOwn, Boxes
  <2> QED
    BY <1>1, <1>2, <2>1, <2>3, <2>6, <2>7 DEF CourseInv
<1> QED
  BY <1>3, <1>4

(* A point is drawn, and tested.                                           *)
LEMMA CourseDraws ==
  ASSUME ValidatorInv, CourseInv, NEW p \in Points, Sample(p) \/ Again(p)
  PROVE  CourseInv'
<1>1. /\ client # "user" /\ at \in {"box", "sample", "cost", "belief"} /\ Done
      /\ Draw(p)
  BY DEF Sample, Again, Returned, Done
<1>2. /\ adv = offer.adv /\ adv \in Advs /\ verdict = "none" /\ Len(adv) = 3
  BY <1>1, OffersAssumption DEF ValidatorInv, ValidatorTypeOK, TypeInv
<1>3. /\ RefsOwn /\ (client = "buffer" => offer.isAdv) /\ Defined(offer)
  BY <1>1 DEF CourseInv
<1>4. /\ \E T : Trunk(adv, T)
      /\ NamesUnique => /\ Usable(adv, 1, {}, Points)
                        /\ done' > 0 => Usable(adv, 3, Given, {})
  <2>1. \E T : Trunk(adv, T)
    BY <1>1 DEF CourseInv, Boxes, Samples, Evaluates
  <2>2. NamesUnique => Usable(adv, 1, {}, Points)
    BY <1>1 DEF CourseInv, Boxes, Uses, Samples, Evaluates, Useful
  <2>3. ASSUME NamesUnique, done' > 0 PROVE Usable(adv, 3, Given, {})
    <3>1. CASE at = "cost"
      BY <1>1, <2>3, <3>1 DEF CourseInv, Uses
    <3>2. CASE at # "cost"
      <4>1. done > 0 /\ at \in {"sample", "belief"}
        <5>1. at = "belief" => done >= Evaluations
          BY <1>1 DEF ValidatorInv, ValidatorTypeOK
        <5>2. at \in {"box", "sample"} => done' = done
          BY DEF Sample, Again, Returned
        <5>3. at = "box" => done = 0
          BY <1>1 DEF CourseInv
        <5>4. done \in Nat
          BY EvaluationsAssumption DEF ValidatorInv, ValidatorTypeOK
        <5> QED
          BY <1>1, <2>3, <3>2, <5>1, <5>2, <5>3, <5>4, EvaluationsAssumption
      <4> QED
        BY <1>1, <2>3, <4>1 DEF CourseInv, Samples, Evaluates, Useful
    <3> QED
      BY <3>1, <3>2
  <2> QED
    BY <2>1, <2>2, <2>3
<1>5. PICK T : Trunk(adv, T)
  BY <1>4
<1>6. profile \in Node /\ profile = adv[1]
  <2>1. adv \in Seq(Node)
    BY <1>2, GraphAssumption
  <2> QED
    BY <1>2, <2>1 DEF profile
<1>7. /\ phase' = "running" /\ stack' = <<Task("member", adv[1])>> /\ stack' \in Seq(UseTasks)
      /\ depth' = 0 /\ values' = {}
      /\ UNCHANGED <<adv, realRefs, setRefs, answer, outcome>>
  BY <1>1, <1>6, AskStarts DEF Draw
<1>8. at' = "sample" /\ point' = p /\ UNCHANGED <<client, offer, verdict>>
  BY <1>1 DEF Draw, Goes
<1>9. Testing(adv, T, p, stack', answer')
  BY <1>2, <1>5, <1>7, TestBegins
<1>10. Samples'
  BY <1>4, <1>5, <1>7, <1>8, <1>9 DEF Samples, Useful, Done
<1>11. RefsOwn'
  BY <1>3, <1>7 DEF RefsOwn
<1> HIDE DEF RefsOwn, Samples
<1> QED
  BY <1>1, <1>2, <1>3, <1>7, <1>8, <1>10, <1>11 DEF CourseInv

(* A point inside is what the functions are evaluated on.                  *)
LEMMA CourseEvaluates ==
  ASSUME ValidatorInv, CourseInv, Evaluate
  PROVE  CourseInv'
<1>1. client # "user" /\ at = "sample" /\ Done /\ answer
  BY DEF Evaluate, Returned, Done
<1>2. /\ adv = offer.adv /\ adv \in Advs /\ verdict = "none" /\ Len(adv) = 3
  BY <1>1, OffersAssumption DEF ValidatorInv, ValidatorTypeOK, TypeInv
<1>3. /\ RefsOwn /\ (client = "buffer" => offer.isAdv) /\ Defined(offer) /\ Samples
  BY <1>1 DEF CourseInv
<1>4. cost \in Node /\ belief \in Node
  <2>1. adv \in Seq(Node)
    BY <1>2, GraphAssumption
  <2> QED
    BY <1>2, <2>1 DEF cost, belief
<1>5. \/ Ask("eval", cost, Given) /\ at' = "cost"
      \/ Ask("hull", belief, Given) /\ at' = "belief"
  <2>1. IF done < Evaluations THEN Ask("eval", cost, Given) /\ Goes("cost")
                              ELSE Ask("hull", belief, Given) /\ Goes("belief")
    BY DEF Evaluate
  <2> QED
    BY <2>1 DEF Goes
<1>6. /\ phase' = "running" /\ stack' \in Seq(UseTasks)
      /\ values' = Given
      /\ at' = "cost" => stack' = <<Task("eval", cost)>>
      /\ at' = "belief" => stack' = <<Task("hull", belief)>>
      /\ UNCHANGED <<adv, realRefs, setRefs, answer, outcome>>
  <2>1. CASE Ask("eval", cost, Given) /\ at' = "cost"
    BY <1>4, <2>1, AskStarts
  <2>2. CASE Ask("hull", belief, Given) /\ at' = "belief"
    BY <1>4, <2>2, AskStarts
  <2> QED
    BY <1>5, <2>1, <2>2
<1>7. at' \in {"cost", "belief"} /\ UNCHANGED <<client, offer, verdict, point, done>>
  BY DEF Evaluate, Goes
<1>8. Evaluates'
  <2>1. Useful /\ (\E T : Trunk(adv, T)) /\ point \in Feasible[adv]
    BY <1>1, <1>3 DEF Samples
  <2> QED
    BY <1>6, <1>7, <2>1 DEF Evaluates, Useful
<1>9. /\ at' = "cost" => Uses(3, Given, {})'
      /\ at' = "belief" => Uses(2, Given, {point})'
  <2>1. 2 \in DOMAIN adv /\ 3 \in DOMAIN adv
    BY <1>2, GraphAssumption
  <2>2. \E D : Reached(adv, 3, D, <<Task("eval", cost)>>, Given, {})
    BY <1>2, <2>1, ReachBegins DEF cost
  <2>3. \A q : \E D : Reached(adv, 2, D, <<Task("hull", belief)>>, Given, {q})
    BY <1>2, <2>1, ReachBegins DEF belief
  <2>4. at' = "belief" => \E D : Reached(adv, 2, D, stack', Given, {point'})
    BY <1>6, <2>3
  <2> QED
    BY <1>6, <2>2, <2>4 DEF Uses, Done, Given
<1>10. RefsOwn'
  BY <1>3, <1>6 DEF RefsOwn
<1> HIDE DEF RefsOwn, Evaluates, Uses
<1> QED
  BY <1>1, <1>2, <1>3, <1>6, <1>7, <1>8, <1>9, <1>10 DEF CourseInv

(* A verdict changes nothing else, and it is to accept only what has been  *)
(* found to be usable.                                                     *)
LEMMA CourseEnds ==
  ASSUME ValidatorInv, CourseInv, Failed \/ Accept
  PROVE  CourseInv'
<1>1. /\ client # "user" /\ at # "end" /\ UNCHANGED vars /\ UNCHANGED <<client, offer, point>>
      /\ at' = "end" /\ phase \in {"idle", "dead"}
  BY DEF Failed, Accept, Conclude, Returned
<1>2. UNCHANGED <<adv, realRefs, stack, phase>>
  BY <1>1 DEF vars
<1>3. RefsOwn' /\ (stack # <<>> => phase \in {"constructing", "running"})
  BY <1>1, <1>2 DEF CourseInv, RefsOwn
<1>4. verdict' = "accept" => Accepted'
  <2> SUFFICES ASSUME verdict' = "accept" PROVE Accepted'
    OBVIOUS
  <2>1. Accept /\ at = "belief" /\ Done
    BY DEF Failed, Accept, Conclude, Returned, Done
  <2>2. /\ Evaluates /\ Uses(2, Given, {point}) /\ Defined(offer)
        /\ client = "buffer" => offer.isAdv
    BY <1>1, <2>1 DEF CourseInv
  <2>3. done > 0
    BY <1>1, <2>1, EvaluationsAssumption DEF ValidatorInv, ValidatorTypeOK
  <2>4. NamesUnique => /\ Usable(adv, 1, {}, Points) /\ Usable(adv, 3, Given, {})
                       /\ Usable(adv, 2, Given, {point})
    BY <2>1, <2>2, <2>3 DEF Evaluates, Useful, Uses
  <2>5. Accepted
    BY <2>2, <2>4 DEF Evaluates, Accepted
  <2> QED
    BY <1>1, <1>2, <2>5 DEF Accepted, Given
<1> HIDE DEF RefsOwn, Accepted
<1> QED
  BY <1>1, <1>2, <1>3, <1>4 DEF CourseInv

(* The course is kept to.                                                  *)
LEMMA CourseKeeps ==
  ASSUME ValidatorInv, CourseInv, [ValidatorNext]_allvars
  PROVE  CourseInv'
<1>1. CASE Interpret
  BY <1>1, CourseInterprets
<1>2. CASE Free
  <2>1. client = "user" /\ client' = client
    BY <1>2 DEF Free, check
  <2>2. phase' \in {"constructing", "running"}
    BY <1>2 DEF Free, User, Construct, Use, Ask, setAdv
  <2> QED
    BY <2>1, <2>2 DEF CourseInv
<1>3. CASE Failed \/ Accept
  BY <1>3, CourseEnds
<1>4. CASE Start
  BY <1>4, CourseStarts
<1>5. CASE CheckDefinitions
  BY <1>5, CourseChecks
<1>6. CASE Evaluate
  BY <1>6, CourseEvaluates
<1>7. CASE \E p \in Points : Sample(p) \/ Again(p)
  BY <1>7, CourseDraws
<1>8. CASE UNCHANGED allvars
  <2>1. /\ UNCHANGED <<client, offer, verdict, at, point, done>>
        /\ UNCHANGED <<adv, realRefs, setRefs, values, depth, stack, answer, phase, outcome>>
    BY <1>8 DEF allvars, check, vars
  <2>2. (Boxes => Boxes') /\ (Uses(3, Given, {}) => Uses(3, Given, {})')
        /\ (Uses(2, Given, {point}) => Uses(2, Given, {point})')
    BY <2>1 DEF Boxes, Uses, Done, Given
  <2>3. (Samples => Samples') /\ (Evaluates => Evaluates')
    BY <2>1 DEF Samples, Evaluates, Useful, Done, Given
  <2>4. (Accepted => Accepted') /\ (RefsOwn => RefsOwn')
    BY <2>1 DEF Accepted, RefsOwn, Given
  <2> HIDE DEF RefsOwn, Boxes, Uses, Samples, Evaluates, Accepted
  <2> QED
    BY <2>1, <2>2, <2>3, <2>4 DEF CourseInv
<1> QED
  BY <1>1, <1>2, <1>3, <1>4, <1>5, <1>6, <1>7, <1>8 DEF ValidatorNext, Validate

(* At first nothing is set.                                                *)
LEMMA CourseBegins == ValidatorInit => CourseInv
  BY DEF ValidatorInit, Init, CourseInv, RefsOwn

(* Cost and belief functions are evaluated on points of the PQ profile     *)
(* only: whatever early exits the membership tests of sampleSetpoint take, *)
(* a point found inside is inside.                                         *)
THEOREM SampledInsideCorrect == ValidatorSpec => []SampledInside
<1>1. ValidatorInv /\ CourseInv => SampledInside
  BY DEF ValidatorInv, CourseInv, Evaluates, SampledInside
<1> QED
  BY <1>1, ValidatorStarts, ValidatorKeeps, CourseBegins, CourseKeeps, PTL DEF ValidatorSpec

(* What is accepted is complete and can be used, if a name stands for one  *)
(* expression: a profile with points inside and a box, which depends on no *)
(* variable, a belief function with a box at one of them, and nothing that *)
(* raises an error wherever an evaluation of the cost or the belief surely *)
(* gets to (AdvValidator).                                                 *)
THEOREM AcceptedIsUsableCorrect ==
  ASSUME NamesUnique
  PROVE  ValidatorSpec => []AcceptedIsUsable
<1>1. ValidatorInv /\ CourseInv => AcceptedIsUsable
  <2> SUFFICES ASSUME ValidatorInv, CourseInv, verdict = "accept"
               PROVE AcceptedIsUsable
    BY DEF AcceptedIsUsable
  <2>1. client \in {"buffer", "reader"}
    BY DEF ValidatorInv, ValidatorTypeOK
  <2>2. Accepted
    BY <2>1 DEF CourseInv
  <2> QED
    BY <2>1, <2>2 DEF Accepted, AcceptedIsUsable, Defined, Given
<1> QED
  BY <1>1, ValidatorStarts, ValidatorKeeps, CourseBegins, CourseKeeps, PTL DEF ValidatorSpec

------------------------------------------------------------------------------
(* Rejections.  What the evaluation or the test of a part may lead to is   *)
(* D, and H are the sets that hold the point: everything in D has a value, *)
(* and a case distinction in it has a case for the point.                  *)
Ground(a, D, given, p, H) ==
  /\ D \subseteq Node
  /\ \A n \in D : Onward(a, n) \subseteq D /\ Resolved(a, n, given)
  /\ \A n \in D : Kind[n] = "case" =>
       \E i \in DOMAIN Kids[n] : i % 2 = 1 /\ Kids[n][i] \in H
  /\ \A n \in H : Holds(a, n, H) /\ (Kind[n] \in Shape => n \in p)

\* What a box of something in D may need has one: F are the sets whose linear
\* programs have a solution.
HasBox(D, F) ==
  \A n \in D : Kind[n] # "setref" /\ (Kind[n] # "polytope" => n \in F)

RunDo == {"hull", "merge", "matrix", "solve", "eval", "cases", "branch", "member",
  "decide", "and", "bounds"}

RunTasks(D, H, F) ==
  {t \in UseTasks :
     /\ t.do \in RunDo
     /\ t.node \in D /\ \A i \in DOMAIN t.rest : t.rest[i] \in D
     /\ t.do \in {"decide", "bounds"} => Kind[t.node] \in Shape
     /\ t.do \in {"hull", "solve"} => t.node \in F
     /\ t.do = "hull" => HasBox(D, F)
     /\ t.do \in {"cases", "branch"} =>
          /\ t.then = "eval"
          /\ \E i \in DOMAIN t.rest : i % 2 = 1 /\ t.rest[i] \in H}

\* The answer is sure to be yes when task j is reached: only intersections
\* of sets that hold the point wait above it, below a test of such a set or
\* when the answer is yes already.
Assured(H, tasks, j, yes) ==
  \E i \in 0 .. j - 1 :
    /\ \A l \in i + 1 .. j - 1 : tasks[l].do = "and" /\ Asks(tasks[l]) \subseteq H
    /\ IF i = 0 THEN yes
       ELSE tasks[i].do \in {"member", "decide", "bounds"} /\ Asks(tasks[i]) \subseteq H

Sure(H, tasks, yes) == Assured(H, tasks, Len(tasks) + 1, yes)

\* A case that holds the point is not passed by.
Branches(H, tasks, yes) ==
  \A j \in DOMAIN tasks :
    tasks[j].do = "branch" /\ tasks[j].rest[1] \in H => Assured(H, tasks, j, yes)

Promises(H, t, yes) ==
  /\ t.do \in {"member", "decide", "bounds"} \/ (t.do = "and" /\ yes)
  /\ Asks(t) \subseteq H

\* What a step puts in the place of the task at the top.
RunGoes(D, H, F, new) ==
  /\ new \in Seq(RunTasks(D, H, F)) /\ stack' = new \o Tail(stack)
  /\ Branches(H, new, answer')
  /\ Promises(H, top, answer) => Sure(H, new, answer')

(* What a part leads to is such ground, when it can be computed: within    *)
(* the limit nothing is left out.                                          *)
LEMMA GroundHolds ==
  ASSUME WithinReach, NEW a \in Advs, NEW part \in DOMAIN a, NEW given,
         Computable(a, part, given), NEW p \in Points, given = {} \/ p \in Feasible[a]
  PROVE  /\ Ground(a, Leads[a][part] \cup {Empty}, given, p, Holding[a][p])
         /\ a[part] \in Leads[a][part]
<1> DEFINE M == MAX_NESTING_DEPTH
           L == Leads[a][part]
           H == Holding[a][p]
<1>1. M \in Nat /\ M \in 0 .. M
  BY LimitsAssumption
<1>2. PICK g \in [0 .. M -> SUBSET Node] :
        /\ g[0] = {a[part]}
        /\ \A k \in 1 .. M : g[k] = LeadOn(a, g[k - 1])
        /\ L = g[M]
  BY LeadsDefined
<1>3. PICK h \in [0 .. M -> SUBSET Node] :
        /\ h[0] = p
        /\ \A k \in 1 .. M : h[k] = HoldMore(a, h[k - 1])
        /\ H = h[M]
  BY HoldingDefined
<1>4. a[part] \in L
  <2> DEFINE S == {k \in Nat : k <= M => a[part] \in g[k]}
  <2>1. 0 \in S
    BY <1>2
  <2>2. ASSUME NEW k \in S \cap Nat PROVE k + 1 \in S
    <3> SUFFICES ASSUME k + 1 <= M PROVE a[part] \in g[k + 1]
      OBVIOUS
    <3>1. k + 1 \in 1 .. M /\ (k + 1) - 1 = k /\ k <= M
      BY <1>1
    <3>2. a[part] \in g[k] /\ g[k + 1] = LeadOn(a, g[k])
      BY <1>2, <2>2, <3>1
    <3> QED
      BY <3>2 DEF LeadOn
  <2> HIDE DEF S
  <2>3. M \in S
    BY <1>1, <2>1, <2>2, SetInduction
  <2> QED
    BY <1>1, <1>2, <2>3 DEF S
<1>5. \A n \in H : Kind[n] \in Shape => n \in p
  <2> DEFINE S == {k \in Nat : k <= M => \A n \in h[k] : Kind[n] \in Shape => n \in p}
  <2>1. 0 \in S
    BY <1>3
  <2>2. ASSUME NEW k \in S \cap Nat PROVE k + 1 \in S
    <3> SUFFICES ASSUME k + 1 <= M, NEW n \in h[k + 1], Kind[n] \in Shape PROVE n \in p
      OBVIOUS
    <3>1. k + 1 \in 1 .. M /\ (k + 1) - 1 = k /\ k <= M
      BY <1>1
    <3>2. n \in HoldMore(a, h[k])
      BY <1>3, <3>1
    <3>3. Holds(a, n, h[k])
      BY <3>2 DEF HoldMore
    <3>4. n \in h[k]
      <4>1. Kind[n] # "intersection" /\ Kind[n] # "setref"
        BY DEF Shape
      <4> QED
        BY <3>3, <4>1 DEF Holds
    <3> QED
      BY <2>2, <3>1, <3>4
  <2> HIDE DEF S
  <2>3. M \in S
    BY <1>1, <2>1, <2>2, SetInduction
  <2> QED
    BY <1>1, <1>3, <2>3 DEF S
<1>6. LeadOn(a, L) = L /\ HoldMore(a, H) = H
  BY DEF WithinReach
<1> HIDE DEF L, H
<1>7. \A n \in H : Holds(a, n, H)
  BY <1>6 DEF HoldMore
<1>8. \A n \in L : Onward(a, n) \subseteq L /\ Resolved(a, n, given)
  <2>1. \A n \in L : Onward(a, n) \subseteq LeadOn(a, L)
    BY DEF LeadOn
  <2> QED
    BY <1>6, <2>1 DEF Computable, L
<1>9. /\ Empty \in Node /\ Onward(a, Empty) = {} /\ Resolved(a, Empty, given)
      /\ Kind[Empty] # "case"
  BY GraphAssumption DEF Onward, Resolved
<1>10. ASSUME NEW n \in L, Kind[n] = "case"
       PROVE  \E i \in DOMAIN Kids[n] : i % 2 = 1 /\ Kids[n][i] \in H
  <2>1. Resolved(a, n, given)
    BY <1>8
  <2>2. /\ To[n] \in given
        /\ \A q \in Feasible[a] : \E i \in DOMAIN Kids[n] :
             i % 2 = 1 /\ Kids[n][i] \in Holding[a][q]
    BY <1>10, <2>1 DEF Resolved
  <2> QED
    BY <2>2 DEF H
<1>11. L \subseteq Node
  BY <1>1, <1>2
<1>12. Ground(a, L \cup {Empty}, given, p, H)
  BY <1>5, <1>7, <1>8, <1>9, <1>10, <1>11 DEF Ground
<1> QED
  BY <1>4, <1>12 DEF L, H

(* Such a step breaks no promise: what waits below is reached with the     *)
(* same assurance.                                                         *)
LEMMA RunGoesOn ==
  ASSUME NEW D, NEW H, NEW F, stack \in Seq(RunTasks(D, H, F)), stack # <<>>,
         Branches(H, stack, answer), NEW new, RunGoes(D, H, F, new)
  PROVE  stack' \in Seq(RunTasks(D, H, F)) /\ Branches(H, stack', answer')
<1>0. new \in Seq(RunTasks(D, H, F)) /\ stack' = new \o Tail(stack)
  BY DEF RunGoes
<1>1. /\ Len(new) \in Nat /\ Len(stack) \in Nat \ {0}
      /\ DOMAIN new = 1 .. Len(new) /\ DOMAIN stack = 1 .. Len(stack)
      /\ top = stack[1]
  BY <1>0 DEF top
<1>2. /\ stack' \in Seq(RunTasks(D, H, F)) /\ DOMAIN stack' = 1 .. Len(new) + Len(stack) - 1
      /\ \A j \in 1 .. Len(new) : j \in DOMAIN stack' /\ stack'[j] = new[j]
      /\ \A j \in 2 .. Len(stack) : /\ Len(new) + j - 1 \in DOMAIN stack'
                                    /\ stack'[Len(new) + j - 1] = stack[j]
  BY <1>0, AfterReplacement
<1>3. ASSUME NEW j \in 1 .. Len(new) + 1, Assured(H, new, j, answer')
      PROVE  Assured(H, stack', j, answer')
  <2>1. PICK i \in 0 .. j - 1 :
          /\ \A l \in i + 1 .. j - 1 : new[l].do = "and" /\ Asks(new[l]) \subseteq H
          /\ IF i = 0 THEN answer'
             ELSE new[i].do \in {"member", "decide", "bounds"} /\ Asks(new[i]) \subseteq H
    BY <1>3 DEF Assured
  <2>2. \A l \in 1 .. j - 1 : stack'[l] = new[l]
    BY <1>1, <1>2
  <2>3. \A l \in i + 1 .. j - 1 : l \in 1 .. j - 1
    BY <1>1, <2>1
  <2>4. i # 0 => i \in 1 .. j - 1
    BY <1>1, <2>1
  <2> QED
    BY <2>1, <2>2, <2>3, <2>4 DEF Assured
<1>4. ASSUME NEW j \in 2 .. Len(stack), Assured(H, stack, j, answer)
      PROVE  Assured(H, stack', Len(new) + j - 1, answer')
  <2>1. PICK i \in 0 .. j - 1 :
          /\ \A l \in i + 1 .. j - 1 : stack[l].do = "and" /\ Asks(stack[l]) \subseteq H
          /\ IF i = 0 THEN answer
             ELSE stack[i].do \in {"member", "decide", "bounds"} /\ Asks(stack[i]) \subseteq H
    BY <1>4 DEF Assured
  <2> DEFINE Down(l) == l - Len(new) + 1
             last == Len(new) + j - 1
  <2>2. ASSUME NEW l \in Len(new) + 1 .. last - 1
        PROVE  /\ Down(l) \in 2 .. j - 1 /\ stack'[l] = stack[Down(l)]
    <3>1. Down(l) \in 2 .. j - 1 /\ Down(l) \in 2 .. Len(stack) /\ Len(new) + Down(l) - 1 = l
      BY <1>1
    <3> QED
      BY <1>2, <3>1
  <2>3. CASE i >= 2
    <3>1. /\ Len(new) + i - 1 \in 0 .. last - 1 /\ Len(new) + i - 1 # 0
          /\ i \in 2 .. Len(stack)
      BY <1>1, <2>1, <2>3
    <3>2. stack'[Len(new) + i - 1] = stack[i]
      BY <1>2, <3>1
    <3>3. ASSUME NEW l \in Len(new) + i - 1 + 1 .. last - 1
          PROVE stack'[l].do = "and" /\ Asks(stack'[l]) \subseteq H
      <4>1. l \in Len(new) + 1 .. last - 1 /\ Down(l) \in i + 1 .. j - 1
        BY <1>1, <2>1, <2>3
      <4>2. stack'[l] = stack[Down(l)]
        BY <2>2, <4>1
      <4> HIDE DEF Down
      <4> QED
        BY <2>1, <4>1, <4>2
    <3>4. stack[i].do \in {"member", "decide", "bounds"} /\ Asks(stack[i]) \subseteq H
      BY <2>1, <2>3
    <3> QED
      BY <3>1, <3>2, <3>3, <3>4 DEF Assured
  <2>4. CASE i < 2
    <3>1. Promises(H, top, answer)
      <4>1. CASE i = 0
        <5>1. 1 \in i + 1 .. j - 1
          BY <4>1
        <5> QED
          BY <1>1, <2>1, <4>1, <5>1 DEF Promises
      <4>2. CASE i = 1
        BY <1>1, <2>1, <4>2 DEF Promises
      <4> QED
        BY <2>1, <2>4, <4>1, <4>2
    <3>2. Assured(H, new, Len(new) + 1, answer')
      BY <3>1 DEF RunGoes, Sure
    <3>3. Len(new) + 1 \in 1 .. Len(new) + 1 /\ (Len(new) + 1) - 1 = Len(new)
      BY <1>1
    <3>4. Assured(H, stack', Len(new) + 1, answer')
      BY <1>3, <3>2, <3>3
    <3>5. PICK m \in 0 .. Len(new) :
            /\ \A l \in m + 1 .. Len(new) : stack'[l].do = "and" /\ Asks(stack'[l]) \subseteq H
            /\ IF m = 0 THEN answer'
               ELSE /\ stack'[m].do \in {"member", "decide", "bounds"}
                    /\ Asks(stack'[m]) \subseteq H
      BY <3>3, <3>4 DEF Assured
    <3>6. ASSUME NEW l \in m + 1 .. last - 1
          PROVE stack'[l].do = "and" /\ Asks(stack'[l]) \subseteq H
      <4>1. CASE l <= Len(new)
        BY <1>1, <3>5, <4>1
      <4>2. CASE ~(l <= Len(new))
        <5>1. l \in Len(new) + 1 .. last - 1
          BY <1>1, <4>2
        <5>2. stack'[l] = stack[Down(l)] /\ Down(l) \in i + 1 .. j - 1
          <6>1. stack'[l] = stack[Down(l)] /\ Down(l) \in 2 .. j - 1
            BY <2>2, <5>1
          <6> HIDE DEF Down
          <6> QED
            BY <2>1, <2>4, <6>1
        <5> HIDE DEF Down
        <5> QED
          BY <2>1, <5>2
      <4> QED
        BY <1>1, <4>1, <4>2
    <3>7. m \in 0 .. last - 1
      BY <1>1
    <3> QED
      BY <3>5, <3>6, <3>7 DEF Assured
  <2> QED
    BY <2>1, <2>3, <2>4
<1>5. ASSUME NEW j \in DOMAIN stack', stack'[j].do = "branch", stack'[j].rest[1] \in H
      PROVE  Assured(H, stack', j, answer')
  <2>1. CASE j <= Len(new)
    <3>1. j \in 1 .. Len(new) /\ j \in 1 .. Len(new) + 1
      BY <1>1, <1>2, <2>1
    <3>2. stack'[j] = new[j]
      BY <1>2, <3>1
    <3>3. Assured(H, new, j, answer')
      BY <1>1, <1>5, <3>1, <3>2 DEF RunGoes, Branches
    <3> QED
      BY <1>3, <3>1, <3>3
  <2>2. CASE ~(j <= Len(new))
    <3> DEFINE k == j - Len(new) + 1
    <3>1. k \in 2 .. Len(stack) /\ Len(new) + k - 1 = j
      BY <1>1, <1>2, <2>2
    <3>2. stack'[j] = stack[k]
      BY <1>2, <3>1
    <3>3. k \in DOMAIN stack
      BY <1>1, <3>1
    <3> HIDE DEF k
    <3>4. Assured(H, stack, k, answer)
      BY <1>5, <3>2, <3>3 DEF Branches
    <3> QED
      BY <1>4, <3>1, <3>4
  <2> QED
    BY <2>1, <2>2
<1> QED
  BY <1>2, <1>5 DEF Branches

(* What is done with an expression of the ground, and nothing kept.        *)
LEMMA RunAny ==
  ASSUME NEW D \in SUBSET Node, NEW H, NEW F, NEW n \in D,
         NEW do \in {"hull", "matrix", "eval", "member", "decide"},
         do = "decide" => Kind[n] \in Shape, do = "hull" => n \in F /\ HasBox(D, F)
  PROVE  LET t == Task(do, n) IN
         /\ t \in RunTasks(D, H, F) /\ t.do = do
         /\ do \in {"member", "decide"} => Asks(t) = {n}
<1> DEFINE t == Task(do, n)
<1>1. do \in Plain
  BY DEF Plain, UseDo, Strict, Lax, Inner
<1>2. t \in UseTasks
  BY <1>1, TaskTyped
<1>3. t.do = do /\ t.node = n /\ t.rest = <<>>
  BY DEF Task
<1> HIDE DEF t
<1>4. DOMAIN t.rest = {} /\ do \in RunDo
  BY <1>3 DEF RunDo
<1>5. t \in RunTasks(D, H, F)
  BY <1>2, <1>3, <1>4 DEF RunTasks
<1>6. do \in {"member", "decide"} => Asks(t) = {n}
  BY <1>3 DEF Asks
<1> QED
  BY <1>3, <1>5, <1>6 DEF t

LEMMA RunTask ==
  ASSUME NEW D \in SUBSET Node, NEW H, NEW F, NEW n \in D
  PROVE  /\ Task("eval", n) \in RunTasks(D, H, F) /\ Task("eval", n).do = "eval"
         /\ Task("matrix", n) \in RunTasks(D, H, F) /\ Task("matrix", n).do = "matrix"
         /\ /\ Task("member", n) \in RunTasks(D, H, F) /\ Task("member", n).do = "member"
            /\ Asks(Task("member", n)) = {n}
         /\ Kind[n] \in Shape =>
              /\ Task("decide", n) \in RunTasks(D, H, F) /\ Task("decide", n).do = "decide"
              /\ Asks(Task("decide", n)) = {n}
         /\ n \in F /\ HasBox(D, F) =>
              Task("hull", n) \in RunTasks(D, H, F) /\ Task("hull", n).do = "hull"
<1>1. Task("eval", n) \in RunTasks(D, H, F) /\ Task("eval", n).do = "eval"
  BY RunAny
<1>2. Task("matrix", n) \in RunTasks(D, H, F) /\ Task("matrix", n).do = "matrix"
  BY RunAny
<1>3. /\ Task("member", n) \in RunTasks(D, H, F) /\ Task("member", n).do = "member"
      /\ Asks(Task("member", n)) = {n}
  BY RunAny
<1>4. ASSUME Kind[n] \in Shape
      PROVE  /\ Task("decide", n) \in RunTasks(D, H, F) /\ Task("decide", n).do = "decide"
             /\ Asks(Task("decide", n)) = {n}
  BY <1>4, RunAny
<1>5. ASSUME n \in F, HasBox(D, F)
      PROVE  Task("hull", n) \in RunTasks(D, H, F) /\ Task("hull", n).do = "hull"
  BY <1>5, RunAny
<1> QED
  BY <1>1, <1>2, <1>3, <1>4, <1>5

LEMMA RunSolve ==
  ASSUME NEW D \in SUBSET Node, NEW H, NEW F, NEW n \in D, n \in F
  PROVE  Task("solve", n) \in RunTasks(D, H, F) /\ Task("solve", n).do = "solve"
<1> DEFINE t == Task("solve", n)
<1>1. "solve" \in Plain /\ "solve" \in RunDo
  BY DEF Plain, UseDo, Strict, Lax, Inner, RunDo
<1>2. t \in UseTasks /\ t.do = "solve" /\ t.node = n /\ t.rest = <<>>
  BY <1>1, TaskTyped DEF Task
<1> HIDE DEF t
<1>3. DOMAIN t.rest = {}
  BY <1>2
<1>4. t \in RunTasks(D, H, F)
  BY <1>1, <1>2, <1>3 DEF RunTasks
<1> QED
  BY <1>2, <1>4 DEF t

(* One that keeps what is left to do.                                      *)
LEMMA RunRest ==
  ASSUME NEW D \in SUBSET Node, NEW H, NEW F, NEW t \in UseTasks, t.node \in D,
         t.do \in {"bounds", "and"}, \A i \in DOMAIN t.rest : t.rest[i] \in D,
         t.do = "bounds" => Kind[t.node] \in Shape
  PROVE  t \in RunTasks(D, H, F)
  BY DEF RunTasks, RunDo

(* Nothing is put in the place of the top: the answer stands.              *)
LEMMA RunNone ==
  ASSUME NEW D, NEW H, NEW F, NEW yes
  PROVE  /\ <<>> \in Seq(RunTasks(D, H, F)) /\ Branches(H, <<>>, yes)
         /\ yes => Sure(H, <<>>, yes)
<1> DEFINE none == <<>>
<1>1. none \in Seq(RunTasks(D, H, F)) /\ Len(none) = 0 /\ DOMAIN none = {}
  OBVIOUS
<1> HIDE DEF none
<1>2. Branches(H, none, yes)
  BY <1>1 DEF Branches
<1>3. yes => Sure(H, none, yes)
  <2>1. 0 \in 0 .. (Len(none) + 1) - 1 /\ (0 + 1) .. (Len(none) + 1) - 1 = {}
    BY <1>1
  <2> QED
    BY <2>1 DEF Sure, Assured
<1> QED
  BY <1>1, <1>2, <1>3 DEF none

(* One task is: a test of a set that holds the point, or the rest of an    *)
(* intersection of such sets while the answer is yes.                      *)
LEMMA RunOne ==
  ASSUME NEW D, NEW H, NEW F, NEW yes, NEW t \in RunTasks(D, H, F), t.do # "branch"
  PROVE  /\ <<t>> \in Seq(RunTasks(D, H, F)) /\ Len(<<t>>) = 1 /\ <<t>>[1] = t
         /\ Branches(H, <<t>>, yes)
         /\ Promises(H, t, yes) => Sure(H, <<t>>, yes)
<1> DEFINE one == <<t>>
<1>1. one \in Seq(RunTasks(D, H, F)) /\ Len(one) = 1 /\ DOMAIN one = {1} /\ one[1] = t
  OBVIOUS
<1> HIDE DEF one
<1>2. Branches(H, one, yes)
  BY <1>1 DEF Branches
<1>3. ASSUME Promises(H, t, yes) PROVE Sure(H, one, yes)
  <2>1. CASE t.do \in {"member", "decide", "bounds"}
    <3>1. 1 \in 0 .. (Len(one) + 1) - 1 /\ (1 + 1) .. (Len(one) + 1) - 1 = {} /\ 1 # 0
      BY <1>1
    <3>2. one[1].do \in {"member", "decide", "bounds"} /\ Asks(one[1]) \subseteq H
      BY <1>1, <1>3, <2>1 DEF Promises
    <3> QED
      BY <3>1, <3>2 DEF Sure, Assured
  <2>2. CASE t.do = "and" /\ yes
    <3>1. 0 \in 0 .. (Len(one) + 1) - 1 /\ (0 + 1) .. (Len(one) + 1) - 1 = {1}
      BY <1>1
    <3>2. one[1].do = "and" /\ Asks(one[1]) \subseteq H
      BY <1>1, <1>3, <2>2 DEF Promises
    <3> QED
      BY <2>2, <3>1, <3>2 DEF Sure, Assured
  <2> QED
    BY <1>3, <2>1, <2>2 DEF Promises
<1> QED
  BY <1>1, <1>2, <1>3 DEF one

(* Two are: such a test, and then the branch or the intersection it is for.*)
LEMMA RunTwo ==
  ASSUME NEW D, NEW H, NEW F, NEW yes, NEW t \in RunTasks(D, H, F), t.do = "member",
         NEW u \in RunTasks(D, H, F), u.do = "branch" /\ u.rest[1] \in H => Asks(t) \subseteq H
  PROVE  /\ <<t, u>> \in Seq(RunTasks(D, H, F)) /\ Branches(H, <<t, u>>, yes)
         /\ u.do = "and" /\ Asks(t) \cup Asks(u) \subseteq H => Sure(H, <<t, u>>, yes)
<1> DEFINE two == <<t, u>>
<1>1. /\ two \in Seq(RunTasks(D, H, F)) /\ Len(two) = 2 /\ DOMAIN two = {1, 2}
      /\ two[1] = t /\ two[2] = u
  OBVIOUS
<1> HIDE DEF two
<1>2. Branches(H, two, yes)
  <2> SUFFICES ASSUME NEW j \in {1, 2}, two[j].do = "branch", two[j].rest[1] \in H
               PROVE  Assured(H, two, j, yes)
    BY <1>1 DEF Branches
  <2>1. j = 2
    BY <1>1
  <2>2. 1 \in 0 .. j - 1 /\ (1 + 1) .. j - 1 = {} /\ 1 # 0
    BY <2>1
  <2>3. two[1].do \in {"member", "decide", "bounds"} /\ Asks(two[1]) \subseteq H
    BY <1>1, <2>1
  <2> QED
    BY <2>2, <2>3 DEF Assured
<1>3. ASSUME u.do = "and", Asks(t) \cup Asks(u) \subseteq H PROVE Sure(H, two, yes)
  <2>1. 1 \in 0 .. (Len(two) + 1) - 1 /\ (1 + 1) .. (Len(two) + 1) - 1 = {2} /\ 1 # 0
    BY <1>1
  <2>2. two[1].do \in {"member", "decide", "bounds"} /\ Asks(two[1]) \subseteq H
    BY <1>1, <1>3
  <2>3. two[2].do = "and" /\ Asks(two[2]) \subseteq H
    BY <1>1, <1>3
  <2> QED
    BY <2>1, <2>2, <2>3 DEF Sure, Assured
<1> QED
  BY <1>1, <1>2, <1>3 DEF two

(* So are numbers that are evaluated before such a test, if there is one.  *)
LEMMA RunEvals ==
  ASSUME NEW D \in SUBSET Node, NEW H, NEW F, NEW yes, NEW ns \in Seq(Node),
         \A i \in DOMAIN ns : ns[i] \in D, NEW after \in Seq(RunTasks(D, H, F)),
         Len(after) <= 1, Len(after) = 1 => after[1].do \in {"decide", "bounds"}
  PROVE  LET new == Each("eval", ns) \o after IN
         /\ new \in Seq(RunTasks(D, H, F)) /\ Branches(H, new, yes)
         /\ Len(after) = 1 /\ Asks(after[1]) \subseteq H => Sure(H, new, yes)
<1> DEFINE evals == Each("eval", ns)
           new == evals \o after
           R == RunTasks(D, H, F)
<1>1. \A n \in D : Task("eval", n) \in R /\ Task("eval", n).do = "eval"
  BY RunTask
<1>2. /\ evals \in Seq(R) /\ Len(evals) = Len(ns)
      /\ \A i \in 1 .. Len(evals) : evals[i].do = "eval"
  <2>1. \A i \in 1 .. Len(ns) : Task("eval", ns[i]) \in R /\ Task("eval", ns[i]).do = "eval"
    BY <1>1
  <2> HIDE DEF R
  <2>2. evals = [i \in 1 .. Len(ns) |-> Task("eval", ns[i])] /\ Len(ns) \in Nat
    BY DEF Each
  <2> HIDE DEF evals
  <2>3. evals \in [1 .. Len(ns) -> R]
    BY <2>1, <2>2
  <2>4. evals \in Seq(R) /\ Len(evals) = Len(ns)
    BY <2>2, <2>3, SeqDef
  <2> QED
    BY <2>1, <2>2, <2>4
<1> HIDE DEF evals, R
<1>3. /\ new \in Seq(R) /\ Len(new) = Len(evals) + Len(after)
      /\ \A i \in 1 .. Len(new) : new[i] = IF i <= Len(evals) THEN evals[i]
                                           ELSE after[i - Len(evals)]
  <2>1. after \in Seq(R)
    BY DEF R
  <2> QED
    BY <1>2, <2>1, ConcatProperties
<1>4. Len(evals) \in Nat /\ Len(after) \in 0 .. 1 /\ DOMAIN new = 1 .. Len(new)
  <2>1. Len(evals) \in Nat /\ Len(after) \in Nat
    BY <1>2
  <2>2. Len(after) \in 0 .. 1
    <3>1. \A l \in Nat : l <= 1 => l \in 0 .. 1
      OBVIOUS
    <3> QED
      BY <2>1, <3>1
  <2> HIDE DEF new
  <2>3. DOMAIN new = 1 .. Len(new)
    BY <1>3
  <2> QED
    BY <2>1, <2>2, <2>3
<1> HIDE DEF new
<1>5. ASSUME NEW i \in DOMAIN new
      PROVE  \/ i <= Len(evals) /\ new[i].do = "eval"
             \/ i = Len(new) /\ Len(after) = 1 /\ new[i] = after[1]
  <2>1. CASE i <= Len(evals)
    BY <1>2, <1>3, <1>4, <2>1
  <2>2. CASE ~(i <= Len(evals))
    <3>1. Len(after) = 1 /\ i - Len(evals) = 1 /\ i = Len(new)
      BY <1>3, <1>4, <2>2
    <3> QED
      BY <1>3, <1>4, <2>2, <3>1
  <2> QED
    BY <2>1, <2>2
<1>6. Branches(H, new, yes)
  BY <1>5 DEF Branches
<1>7. ASSUME Len(after) = 1, Asks(after[1]) \subseteq H PROVE Sure(H, new, yes)
  <2> DEFINE l == Len(new)
  <2>1. l \in DOMAIN new /\ l \in 0 .. (Len(new) + 1) - 1 /\ l # 0 /\ ~(l <= Len(evals))
        /\ (l + 1) .. (Len(new) + 1) - 1 = {}
    BY <1>3, <1>4, <1>7
  <2>2. new[l] = after[1]
    BY <1>5, <2>1
  <2> HIDE DEF l
  <2>3. new[l].do \in {"member", "decide", "bounds"} /\ Asks(new[l]) \subseteq H
    BY <1>7, <2>2
  <2> QED
    BY <2>1, <2>3 DEF Sure, Assured
<1> QED
  BY <1>3, <1>6, <1>7 DEF new, evals, R

(* Numbers alone are.                                                      *)
LEMMA RunOnlyEvals ==
  ASSUME NEW D \in SUBSET Node, NEW H, NEW F, NEW yes, NEW ns \in Seq(Node),
         \A i \in DOMAIN ns : ns[i] \in D
  PROVE  Each("eval", ns) \in Seq(RunTasks(D, H, F)) /\ Branches(H, Each("eval", ns), yes)
<1> DEFINE none == <<>>
           new == Each("eval", ns)
<1>1. none \in Seq(RunTasks(D, H, F)) /\ Len(none) <= 1 /\ ~(Len(none) = 1)
  OBVIOUS
<1>2. new \o none = new
  <2>1. new \in Seq(BoxTasks)
    BY EachBoxes
  <2> HIDE DEF new
  <2> QED
    BY <2>1
<1> HIDE DEF none, new
<1>3. new \o none \in Seq(RunTasks(D, H, F)) /\ Branches(H, new \o none, yes)
  BY <1>1, RunEvals DEF new
<1> QED
  BY <1>2, <1>3 DEF new

(* The task at the top during such a run.                                  *)
LEMMA RunTop ==
  ASSUME NEW D \in SUBSET Node, NEW H, NEW F, stack \in Seq(RunTasks(D, H, F)), stack # <<>>
  PROVE  /\ top \in RunTasks(D, H, F) /\ top \in UseTasks
         /\ node \in D /\ Kids[node] \in Seq(Node) /\ top.do \in RunDo
         /\ top.rest \in Seq(Node) /\ \A i \in DOMAIN top.rest : top.rest[i] \in D
         /\ top.do \in {"decide", "bounds"} => Kind[node] \in Shape
         /\ top.do \in {"hull", "solve"} => node \in F
         /\ top.do = "hull" => HasBox(D, F)
         /\ top.do \in {"cases", "branch"} =>
              /\ top.then = "eval" /\ Len(top.rest) % 2 = 0
              /\ \E i \in DOMAIN top.rest : i % 2 = 1 /\ top.rest[i] \in H
<1>1. top \in RunTasks(D, H, F) /\ top = stack[1] /\ 1 \in DOMAIN stack
  BY DEF top
<1>2. top \in UseTasks /\ node \in D
  BY <1>1 DEF RunTasks, node
<1>3. top.rest \in Seq(Node) /\ (top.do \in {"cases", "branch"} => Len(top.rest) % 2 = 0)
  BY <1>2 DEF UseTasks
<1>4. Kids[node] \in Seq(Node)
  BY <1>2, GraphAssumption
<1> QED
  BY <1>1, <1>2, <1>3, <1>4 DEF RunTasks, node

(* The bounds of a rectangle are looked at two by two.                     *)
LEMMA RunBounds ==
  ASSUME NEW D \in SUBSET Node, NEW H, NEW F, stack \in Seq(RunTasks(D, H, F)), stack # <<>>,
         top.do = "bounds", top.rest # <<>>
  PROVE  LET two == SubSeq(top.rest, 1, 2)
             t == [top EXCEPT !.rest = SubSeq(top.rest, 3, Len(top.rest)), !.k = 1]
         IN  /\ two \in Seq(Node) /\ \A i \in DOMAIN two : two[i] \in D
             /\ t \in RunTasks(D, H, F) /\ Asks(t) = {node} /\ t.do = "bounds"
<1> DEFINE two == SubSeq(top.rest, 1, 2)
           left == SubSeq(top.rest, 3, Len(top.rest))
           t == [top EXCEPT !.rest = left, !.k = 1]
<1>1. /\ top \in UseTasks /\ top.rest \in Seq(Node) /\ node \in D /\ Kind[node] \in Shape
      /\ \A i \in DOMAIN top.rest : top.rest[i] \in D
  BY RunTop
<1>2. /\ Len(top.rest) \in Nat /\ Len(top.rest) # 0 /\ Len(top.rest) % 2 = 0
      /\ DOMAIN top.rest = 1 .. Len(top.rest)
  BY <1>1 DEF UseTasks
<1>3. Len(top.rest) >= 2
  <2>1. \A n \in Nat : n # 0 /\ n % 2 = 0 => n >= 2
    OBVIOUS
  <2> QED
    BY <1>2, <2>1
<1>4. /\ two \in Seq(Node) /\ Len(two) = 2 /\ \A i \in 1 .. 2 : two[i] = top.rest[i]
      /\ left \in Seq(Node) /\ Len(left) = Len(top.rest) - 2
      /\ \A i \in 1 .. Len(top.rest) - 2 : left[i] = top.rest[i + 2]
  <2>1. two \in Seq(Node) /\ Len(two) = 2 /\ \A i \in 1 .. 2 : two[i] = top.rest[i]
    BY <1>1, <1>2, <1>3, SubSeqProperties
  <2>2. /\ left \in Seq(Node) /\ Len(left) = Len(top.rest) - 2
        /\ \A i \in 1 .. Len(top.rest) - 2 : left[i] = top.rest[i + 2]
    BY <1>1, <1>2, <1>3, SubSeqProperties
  <2> QED
    BY <2>1, <2>2
<1> HIDE DEF two, left
<1>5. Len(left) % 2 = 0
  <2>1. \A n \in Nat : n >= 2 /\ n % 2 = 0 => (n - 2) % 2 = 0
    OBVIOUS
  <2> QED
    BY <1>2, <1>3, <1>4, <2>1
<1>6. \A i \in DOMAIN two : two[i] \in D
  <2>1. DOMAIN two = 1 .. 2
    BY <1>4
  <2> QED
    BY SMTT(30), <1>1, <1>2, <1>3, <1>4, <2>1
<1>7. \A i \in DOMAIN left : left[i] \in D
  <2> SUFFICES ASSUME NEW i \in DOMAIN left PROVE left[i] \in D
    OBVIOUS
  <2>1. i \in 1 .. Len(top.rest) - 2
    BY <1>4
  <2>2. i + 2 \in DOMAIN top.rest
    BY <1>2, <2>1
  <2> QED
    BY <1>1, <1>4, <2>1, <2>2
<1>8. t \in UseTasks /\ t.do = "bounds" /\ t.node = node /\ t.rest = left
  BY <1>1, <1>4, <1>5 DEF UseTasks, node
<1> HIDE DEF t
<1>9. Asks(t) = {node}
  BY <1>8 DEF Asks
<1>10. t \in RunTasks(D, H, F)
  BY <1>1, <1>7, <1>8 DEF RunTasks, RunDo
<1> QED
  BY <1>4, <1>6, <1>8, <1>9, <1>10 DEF t, left, two

(* Two tasks in a row.                                                     *)
LEMMA PairOfTasks ==
  ASSUME NEW T, NEW m \in T, NEW t \in T
  PROVE  <<m>> \o <<t>> = <<m, t>>
<1>1. <<m>> \in Seq(T) /\ Len(<<m>>) = 1 /\ <<m>>[1] = m
  OBVIOUS
<1>2. Append(<<m>>, t) = <<m>> \o <<t>>
  BY ONLY <1>1, t \in T, AppendIsConcat
<1>3. /\ Append(<<m>>, t) \in Seq(T) /\ Len(Append(<<m>>, t)) = 2
      /\ Append(<<m>>, t)[1] = m /\ Append(<<m>>, t)[2] = t
  BY <1>1, AppendProperties
<1>4. /\ <<m, t>> \in Seq(T) /\ Len(<<m, t>>) = 2
      /\ <<m, t>>[1] = m /\ <<m, t>>[2] = t
  OBVIOUS
<1>5. \A i \in 1 .. 2 : Append(<<m>>, t)[i] = <<m, t>>[i]
  BY <1>3, <1>4
<1>6. Append(<<m>>, t) = <<m, t>>
  BY <1>3, <1>4, <1>5, SeqEqual
<1> QED
  BY <1>2, <1>6

(* The sets of an intersection are tested one by one.                      *)
LEMMA RunAnd ==
  ASSUME NEW D \in SUBSET Node, NEW H, NEW F, NEW yes, stack \in Seq(RunTasks(D, H, F)), stack # <<>>,
         top.do = "and", top.rest # <<>>
  PROVE  LET new == <<Task("member", Head(top.rest))>> \o
                      (IF Len(top.rest) = 1 THEN <<>>
                       ELSE <<[top EXCEPT !.rest = Tail(@)]>>)
         IN  /\ new \in Seq(RunTasks(D, H, F)) /\ Branches(H, new, yes)
             /\ Asks(top) \subseteq H => Sure(H, new, yes)
<1> DEFINE m == Task("member", Head(top.rest))
           t == [top EXCEPT !.rest = Tail(@)]
<1>1. /\ top \in UseTasks /\ top.rest \in Seq(Node) /\ node \in D
      /\ \A i \in DOMAIN top.rest : top.rest[i] \in D
  BY RunTop
<1>2. Asks(top) = {top.rest[i] : i \in DOMAIN top.rest}
  BY DEF Asks
<1>3. /\ Head(top.rest) = top.rest[1] /\ 1 \in DOMAIN top.rest
      /\ DOMAIN top.rest = 1 .. Len(top.rest) /\ Len(top.rest) \in Nat
      /\ Tail(top.rest) \in Seq(Node) /\ DOMAIN Tail(top.rest) = 1 .. Len(top.rest) - 1
      /\ \A i \in 1 .. Len(top.rest) - 1 : Tail(top.rest)[i] = top.rest[i + 1]
  BY <1>1
<1>4. Head(top.rest) \in D
  BY <1>1, <1>3
<1>5. /\ m \in RunTasks(D, H, F) /\ m.do = "member"
      /\ Asks(m) = {Head(top.rest)} /\ Asks(m) \subseteq Asks(top)
  <2>1. m \in RunTasks(D, H, F) /\ m.do = "member" /\ Asks(m) = {Head(top.rest)}
    BY <1>4, RunTask
  <2> QED
    BY <1>2, <1>3, <2>1
<1>6. ASSUME NEW i \in DOMAIN Tail(top.rest)
      PROVE  Tail(top.rest)[i] \in D /\ Tail(top.rest)[i] \in Asks(top)
  <2>1. i + 1 \in DOMAIN top.rest /\ Tail(top.rest)[i] = top.rest[i + 1]
    BY <1>3
  <2> QED
    BY <1>1, <1>2, <2>1
<1>7. t \in RunTasks(D, H, F) /\ t.do = "and" /\ Asks(t) \subseteq Asks(top)
  <2>1. t \in UseTasks /\ t.do = "and" /\ t.node = node /\ t.rest = Tail(top.rest)
    BY <1>1, <1>3 DEF UseTasks, node
  <2> HIDE DEF t
  <2>2. t \in RunTasks(D, H, F)
    BY <1>1, <1>6, <2>1 DEF RunTasks, RunDo
  <2>3. Asks(t) \subseteq Asks(top)
    <3>1. Asks(t) = {t.rest[i] : i \in DOMAIN t.rest}
      BY <2>1 DEF Asks
    <3> QED
      BY <1>6, <2>1, <3>1
  <2> QED
    BY <2>1, <2>2, <2>3
<1> HIDE DEF m, t
<1>8. CASE Len(top.rest) = 1
  <2>1. /\ <<m>> \in Seq(RunTasks(D, H, F)) /\ Branches(H, <<m>>, yes)
        /\ Promises(H, m, yes) => Sure(H, <<m>>, yes)
    BY <1>5, RunOne
  <2>2. Asks(top) \subseteq H => Promises(H, m, yes)
    BY <1>5 DEF Promises
  <2>3. <<m>> \o <<>> = <<m>>
    BY <2>1
  <2> QED
    BY <1>8, <2>1, <2>2, <2>3 DEF m
<1>9. CASE Len(top.rest) # 1
  <2>1. /\ <<m, t>> \in Seq(RunTasks(D, H, F)) /\ Branches(H, <<m, t>>, yes)
        /\ Asks(m) \cup Asks(t) \subseteq H => Sure(H, <<m, t>>, yes)
    BY <1>5, <1>7, RunTwo
  <2>2. <<m>> \o <<t>> = <<m, t>>
    BY <1>5, <1>7, PairOfTasks
  <2> QED
    BY <1>5, <1>7, <1>9, <2>1, <2>2 DEF m, t
<1> QED
  BY <1>8, <1>9

(* A case distinction with a case for the point.                           *)
LEMMA RunCases ==
  ASSUME NEW D \in SUBSET Node, NEW H, NEW F, NEW n \in D, Kind[n] = "case",
         \A i \in DOMAIN Kids[n] : Kids[n][i] \in D,
         \E i \in DOMAIN Kids[n] : i % 2 = 1 /\ Kids[n][i] \in H
  PROVE  LET t == [Task("cases", n) EXCEPT !.rest = Kids[n], !.then = "eval"] IN
         t \in RunTasks(D, H, F) /\ t.do = "cases"
<1> DEFINE t == [Task("cases", n) EXCEPT !.rest = Kids[n], !.then = "eval"]
<1>1. Kids[n] \in Seq(Node) /\ Len(Kids[n]) % 2 = 0
  BY GraphAssumption, ShapeAssumption
<1>2. {"cases", "eval"} \subseteq UseDo
  BY DEF UseDo, Strict, Lax, Inner
<1>3. PICK u : u = Task("cases", n)
  OBVIOUS
<1>4. /\ u \in [do : UseDo, node : Node, rest : Seq(Node), then : UseDo, k : Nat]
      /\ u.do = "cases" /\ u.node = n
  BY <1>2, <1>3 DEF Task
<1> DEFINE v == [u EXCEPT !.rest = Kids[n], !.then = "eval"]
<1>5. v \in UseTasks /\ v.do = "cases" /\ v.node = n /\ v.rest = Kids[n] /\ v.then = "eval"
  BY <1>1, <1>2, <1>4 DEF UseTasks
<1>6. t = v
  BY <1>3
<1> HIDE DEF t, v
<1>7. t \in RunTasks(D, H, F)
  BY <1>5, <1>6 DEF RunTasks, RunDo
<1> QED
  BY <1>5, <1>6, <1>7 DEF t

(* The set of the next case is tested, before the branch.                  *)
LEMMA RunTest ==
  ASSUME NEW D \in SUBSET Node, NEW H, NEW F, NEW yes, stack \in Seq(RunTasks(D, H, F)), stack # <<>>,
         top.do = "cases"
  PROVE  LET new == <<Task("member", Head(top.rest)), [top EXCEPT !.do = "branch"]>> IN
         /\ top.rest # <<>>
         /\ new \in Seq(RunTasks(D, H, F)) /\ Branches(H, new, yes)
<1> DEFINE m == Task("member", Head(top.rest))
           u == [top EXCEPT !.do = "branch"]
<1>1. /\ top \in UseTasks /\ top.rest \in Seq(Node) /\ node \in D /\ top.then = "eval"
      /\ \A i \in DOMAIN top.rest : top.rest[i] \in D
      /\ \E i \in DOMAIN top.rest : i % 2 = 1 /\ top.rest[i] \in H
  BY RunTop
<1>2. top.rest # <<>>
  BY <1>1
<1>3. Head(top.rest) = top.rest[1] /\ 1 \in DOMAIN top.rest
  BY <1>1, <1>2
<1>4. Head(top.rest) \in D
  BY <1>1, <1>3
<1>5. m \in RunTasks(D, H, F) /\ m.do = "member" /\ Asks(m) = {Head(top.rest)}
  BY <1>4, RunTask
<1>6. "branch" \in UseDo
  BY DEF UseDo, Strict, Lax, Inner
<1>7. /\ u \in UseTasks /\ u.do = "branch" /\ u.node = node /\ u.rest = top.rest
      /\ u.then = "eval"
  BY <1>1, <1>2, <1>6 DEF UseTasks, node
<1> HIDE DEF m, u
<1>8. u \in RunTasks(D, H, F)
  BY <1>1, <1>7 DEF RunTasks, RunDo
<1>9. u.do = "branch" /\ u.rest[1] \in H => Asks(m) \subseteq H
  BY <1>3, <1>5, <1>7
<1>10. <<m, u>> \in Seq(RunTasks(D, H, F)) /\ Branches(H, <<m, u>>, yes)
  BY <1>5, <1>8, <1>9, RunTwo
<1> QED
  BY <1>2, <1>10 DEF m, u

(* A case that does not hold the point is passed by, and the one that does *)
(* comes after it.                                                         *)
LEMMA RunPass ==
  ASSUME NEW D \in SUBSET Node, NEW H, NEW F, stack \in Seq(RunTasks(D, H, F)), stack # <<>>,
         top.do = "branch"
  PROVE  LET t == [top EXCEPT !.do = "cases",
                              !.rest = SubSeq(top.rest, 3, Len(top.rest))] IN
         /\ top.rest[2] \in D
         /\ top.rest[1] \notin H => t \in RunTasks(D, H, F) /\ t.do = "cases"
<1> DEFINE left == SubSeq(top.rest, 3, Len(top.rest))
           t == [top EXCEPT !.do = "cases", !.rest = left]
<1>1. /\ top \in UseTasks /\ top.rest \in Seq(Node) /\ node \in D /\ top.then = "eval"
      /\ Len(top.rest) % 2 = 0 /\ \A i \in DOMAIN top.rest : top.rest[i] \in D
  BY RunTop
<1>2. PICK i \in DOMAIN top.rest : i % 2 = 1 /\ top.rest[i] \in H
  BY RunTop
<1>3. Len(top.rest) \in Nat /\ DOMAIN top.rest = 1 .. Len(top.rest) /\ i \in Nat
  BY <1>1
<1>4. Len(top.rest) >= 2
  <2>1. \A n \in Nat : n # 0 /\ n % 2 = 0 => n >= 2
    OBVIOUS
  <2>2. Len(top.rest) # 0
    BY <1>3
  <2> QED
    BY <1>1, <1>3, <2>1, <2>2
<1>5. top.rest[2] \in D
  BY <1>1, <1>3, <1>4
<1>6. ASSUME top.rest[1] \notin H PROVE t \in RunTasks(D, H, F) /\ t.do = "cases"
  <2>1. /\ left \in Seq(Node) /\ Len(left) = Len(top.rest) - 2
        /\ \A j \in 1 .. Len(top.rest) - 2 : left[j] = top.rest[j + 2]
    BY <1>1, <1>3, <1>4, SubSeqProperties
  <2> HIDE DEF left
  <2>2. DOMAIN left = 1 .. Len(top.rest) - 2
    BY <2>1
  <2>3. Len(left) % 2 = 0
    <3>1. \A n \in Nat : n >= 2 /\ n % 2 = 0 => (n - 2) % 2 = 0
      OBVIOUS
    <3> QED
      BY <1>1, <1>3, <1>4, <2>1, <3>1
  <2>4. ASSUME NEW j \in DOMAIN left PROVE left[j] \in D
    <3>1. j \in 1 .. Len(top.rest) - 2 /\ j + 2 \in DOMAIN top.rest
      BY <1>3, <2>2
    <3> QED
      BY <1>1, <2>1, <3>1
  <2>5. i - 2 \in DOMAIN left /\ (i - 2) % 2 = 1 /\ left[i - 2] \in H
    <3>1. i # 1
      BY <1>2, <1>6
    <3>2. \A n \in Nat : n # 0 /\ n # 1 /\ n % 2 = 1 => n >= 3 /\ (n - 2) % 2 = 1
      OBVIOUS
    <3>3. i >= 3 /\ (i - 2) % 2 = 1
      BY <1>2, <1>3, <3>1, <3>2
    <3>4. i - 2 \in 1 .. Len(top.rest) - 2 /\ (i - 2) + 2 = i
      BY <1>3, <3>3
    <3> QED
      BY <1>2, <2>1, <2>2, <3>3, <3>4
  <2>6. "cases" \in UseDo
    BY DEF UseDo, Strict, Lax, Inner
  <2>7. /\ t \in UseTasks /\ t.do = "cases" /\ t.node = node /\ t.rest = left
        /\ t.then = "eval"
    BY <1>1, <2>1, <2>3, <2>6 DEF UseTasks, node
  <2> HIDE DEF t
  <2>8. t \in RunTasks(D, H, F)
    BY <1>1, <2>4, <2>5, <2>7 DEF RunTasks, RunDo
  <2> QED
    BY <2>7, <2>8
<1> QED
  BY <1>5, <1>6

\* What the map of sets has is of the advertisement, or the default reader.
SetsOwn ==
  \A x \in DOMAIN setRefs :
    \/ setRefs[x] = Empty
    \/ setRefs[x] \in Tree(adv) /\ Name[setRefs[x]] = x /\ x # NoName

\* A step of such a run.
Runs(D, H, F) ==
  /\ stack # <<>> /\ UNCHANGED <<adv, realRefs, values, phase, outcome>>
  /\ \A x \in DOMAIN setRefs' :
       (x \in DOMAIN setRefs /\ setRefs'[x] = setRefs[x]) \/ setRefs'[x] = Empty
  /\ \E new : RunGoes(D, H, F, new)

(* A name that something has is looked up to something that has it.        *)
LEMMA NameFound ==
  ASSUME TypeInv, AllFound(adv, realRefs, setRefs), RefsOwn, SetsOwn, NEW x
  PROVE  /\ Named(adv, x, RealKind) # {} =>
              x \in DOMAIN realRefs /\ realRefs[x] \in Named(adv, x, RealKind)
         /\ Named(adv, x, SetKind) # {} =>
              x \in DOMAIN setRefs /\ setRefs[x] \in Named(adv, x, SetKind)
<1>1. adv \in Advs /\ Nodes[adv] = Tree(adv)
  BY DEF TypeInv, Nodes
<1>2. ASSUME NEW m \in Named(adv, x, RealKind)
      PROVE  x \in DOMAIN realRefs /\ realRefs[x] \in Named(adv, x, RealKind)
  <2>1. m \in Tree(adv) /\ Kind[m] \in RealKind /\ Name[m] = x /\ x # NoName
    BY <1>1, <1>2 DEF Named
  <2>2. x \in DOMAIN realRefs /\ realRefs[x] \in Tree(adv) /\ Name[realRefs[x]] = x
    BY <2>1 DEF AllFound, Found
  <2>3. Kind[realRefs[x]] \in RealKind
    BY <2>2 DEF TypeInv
  <2> QED
    BY <1>1, <2>1, <2>2, <2>3 DEF Named
<1>3. ASSUME NEW m \in Named(adv, x, SetKind)
      PROVE  x \in DOMAIN setRefs /\ setRefs[x] \in Named(adv, x, SetKind)
  <2>1. m \in Tree(adv) /\ Kind[m] \in SetKind /\ Name[m] = x /\ x # NoName
    BY <1>1, <1>3 DEF Named
  <2>2. Kind[m] \notin RealKind
    BY <2>1 DEF RealKind, SetKind
  <2>3. x \in DOMAIN setRefs /\ setRefs[x] \in Tree(adv) /\ Name[setRefs[x]] = x
    BY <2>1, <2>2 DEF AllFound, Found
  <2>4. Kind[setRefs[x]] \in SetKind
    BY <2>3 DEF TypeInv, SetsTyped
  <2> QED
    BY <1>1, <2>1, <2>3, <2>4 DEF Named
<1> QED
  BY <1>2, <1>3

(* The steps of an evaluation, which meets no name and no variable that it *)
(* does not know, and no case distinction that does not handle the point.  *)
LEMMA RunEvaluates ==
  ASSUME TypeInv, AllFound(adv, realRefs, setRefs), RefsOwn, SetsOwn, NEW p,
         NEW D, NEW H, NEW F, Ground(adv, D, values, p, H), stack \in Seq(RunTasks(D, H, F)),
         Branches(H, stack, answer), Evaluation
  PROVE  Runs(D, H, F)
<1> DEFINE R == RunTasks(D, H, F)
<1>0. D \in SUBSET Node
  BY DEF Ground
<1>1. ASSUME NEW do, Busy(do) PROVE stack # <<>> /\ top.do = do
  BY <1>1 DEF Busy
<1>2. stack # <<>>
  BY EvaluationWalks DEF Walk
<1>3. /\ top \in UseTasks /\ node \in D /\ node \in Node /\ Kids[node] \in Seq(Node)
      /\ top.do \in RunDo /\ (top.do \in {"cases", "branch"} => top.then = "eval")
  BY <1>0, <1>2, RunTop
<1>4. Onward(adv, node) \subseteq D /\ Resolved(adv, node, values)
  BY <1>3 DEF Ground
<1>5. \A i \in DOMAIN Kids[node] : Kids[node][i] \in D
  BY <1>4 DEF Onward
<1>6. ASSUME NEW n \in D
      PROVE  /\ <<Task("eval", n)>> \in Seq(R)
             /\ Branches(H, <<Task("eval", n)>>, answer)
  <2> DEFINE t == Task("eval", n)
  <2>1. t \in R /\ t.do = "eval"
    BY <1>0, RunTask
  <2> HIDE DEF t
  <2>2. <<t>> \in Seq(R) /\ Branches(H, <<t>>, answer)
    BY <2>1, RunOne
  <2> QED
    BY <2>2 DEF t
\* None of these tasks is a test, so nothing is promised.
<1>7. top.do \in {"eval", "cases", "branch"} => ~Promises(H, top, answer)
  BY DEF Promises
<1>8. ASSUME NEW new \in Seq(R), Branches(H, new, answer), Continue(new), Pure,
             top.do \in {"eval", "cases", "branch"}
      PROVE  Runs(D, H, F)
  <2>1. answer' = answer /\ UNCHANGED <<adv, realRefs, setRefs, values, phase, outcome>>
    BY <1>8 DEF Pure, Keep, refs
  <2>2. RunGoes(D, H, F, new)
    BY <1>7, <1>8, <2>1 DEF RunGoes, Continue
  <2> QED
    BY <1>2, <2>1, <2>2 DEF Runs
<1> HIDE DEF R
<1>9. CASE Eval
  <2>1. Busy("eval") /\ Pure /\ Continue(Each("eval", Kids[node]))
    BY <1>9 DEF Eval, Call
  <2>2. Each("eval", Kids[node]) \in Seq(R) /\ Branches(H, Each("eval", Kids[node]), answer)
    BY <1>0, <1>3, <1>5, RunOnlyEvals DEF R
  <2> QED
    BY <1>1, <1>8, <2>1, <2>2
<1>10. CASE Variable
  <2>1. Kind[node] \in {"variable", "polynomial"}
    BY <1>10 DEF Variable
  <2>2. Known(node)
    BY <1>4, <2>1 DEF Resolved, Known
  <2>3. Busy("eval") /\ Pure /\ Continue(<<>>)
    BY <1>1, <1>3, <1>10, <2>2 DEF Variable, Call, RunDo
  <2>4. <<>> \in Seq(R) /\ Branches(H, <<>>, answer)
    BY RunNone DEF R
  <2> QED
    BY <1>1, <1>8, <2>3, <2>4
<1>11. CASE CaseDistinction
  <2>1. Kind[node] = "case" /\ Busy("eval")
    BY <1>1, <1>3, <1>11 DEF CaseDistinction, Call, RunDo
  <2>2. Known(node) /\ top.do = "eval"
    BY <1>1, <1>4, <2>1 DEF Resolved, Known
  <2> DEFINE t == [Task("cases", node) EXCEPT !.rest = Kids[node], !.then = "eval"]
  <2>3. Pure /\ Continue(<<t>>)
    BY <1>11, <2>2 DEF CaseDistinction
  <2>4. \E i \in DOMAIN Kids[node] : i % 2 = 1 /\ Kids[node][i] \in H
    BY <1>3, <2>1 DEF Ground
  <2>5. t \in R /\ t.do = "cases"
    BY <1>0, <1>3, <1>5, <2>1, <2>4, RunCases DEF R
  <2> HIDE DEF t
  <2>6. <<t>> \in Seq(R) /\ Branches(H, <<t>>, answer)
    BY <2>5, RunOne DEF R
  <2> QED
    BY <1>8, <2>2, <2>3, <2>6
<1>12. CASE TestCase
  <2>1. top.do = "cases"
    BY <1>1, <1>12 DEF TestCase
  <2> DEFINE new == <<Task("member", Head(top.rest)), [top EXCEPT !.do = "branch"]>>
  <2>2. top.rest # <<>> /\ new \in Seq(R) /\ Branches(H, new, answer)
    BY <1>0, <1>2, <2>1, RunTest DEF R
  <2>3. Continue(new) /\ Pure
    BY <1>12, <2>2 DEF TestCase
  <2> QED
    BY <1>8, <2>1, <2>2, <2>3
<1>13. CASE Branch
  <2>1. top.do = "branch" /\ top.then = "eval" /\ Pure
    BY <1>1, <1>3, <1>13 DEF Branch
  <2> DEFINE t == [top EXCEPT !.do = "cases", !.rest = SubSeq(top.rest, 3, Len(top.rest))]
  <2>2. /\ top.rest[2] \in D
        /\ top.rest[1] \notin H => t \in R /\ t.do = "cases"
    BY <1>0, <1>2, <2>1, RunPass DEF R
  <2>3. CASE answer
    <3>1. Continue(<<Task("eval", top.rest[2])>>)
      BY <1>13, <2>1, <2>3 DEF Branch
    <3>2. /\ <<Task("eval", top.rest[2])>> \in Seq(R)
          /\ Branches(H, <<Task("eval", top.rest[2])>>, answer)
      BY <1>6, <2>2
    <3> QED
      BY <1>8, <2>1, <3>1, <3>2
  <2>4. CASE ~answer
    <3>1. Continue(<<t>>)
      BY <1>13, <2>4 DEF Branch
    <3>2. top.rest[1] \notin H
      <4>1. 1 \in DOMAIN stack /\ top = stack[1]
        BY <1>2 DEF top
      <4>2. ~Assured(H, stack, 1, answer)
        <5>1. 0 .. 1 - 1 = {0}
          OBVIOUS
        <5> QED
          BY <2>4, <5>1 DEF Assured
      <4> QED
        BY <2>1, <4>1, <4>2 DEF Branches
    <3>3. t \in R /\ t.do = "cases"
      BY <2>2, <3>2
    <3> HIDE DEF t
    <3>4. <<t>> \in Seq(R) /\ Branches(H, <<t>>, answer)
      BY <3>3, RunOne DEF R
    <3> QED
      BY <1>8, <2>1, <3>1, <3>4
  <2> QED
    BY <2>3, <2>4
<1>14. CASE Reference
  <2>1. Kind[node] = "reference" /\ Busy("eval") /\ top.do = "eval"
    BY <1>1, <1>3, <1>14 DEF Reference, Call, RunDo
  <2>2. Named(adv, To[node], RealKind) # {}
    BY <1>4, <2>1 DEF Resolved
  <2>3. To[node] \in DOMAIN realRefs /\ realRefs[To[node]] \in Named(adv, To[node], RealKind)
    BY <2>2, NameFound
  <2>4. realRefs[To[node]] \in D
    BY <1>4, <2>1, <2>3 DEF Onward
  <2>5. Continue(<<Task("eval", realRefs[To[node]])>>) /\ Pure
    BY <1>14, <2>1, <2>3 DEF Reference
  <2> QED
    BY <1>6, <1>8, <2>1, <2>4, <2>5
<1>15. CASE Derive \/ OtherVariable
  <2>1. Busy("derive")
    BY <1>15 DEF Derive, OtherVariable, Call
  <2> QED
    BY <1>1, <1>3, <2>1 DEF RunDo
<1> QED
  BY <1>9, <1>10, <1>11, <1>12, <1>13, <1>14, <1>15 DEF Evaluation

(* The tests of sets, whose answers for the point are what its shapes say. *)
LEMMA RunTests ==
  ASSUME TypeInv, AllFound(adv, realRefs, setRefs), RefsOwn, SetsOwn, NEW p,
         NEW D, NEW H, NEW F, Ground(adv, D, values, p, H), Empty \in D,
         stack \in Seq(RunTasks(D, H, F)), Membership,
         Busy("decide") => answer' = (node \in p),
         Busy("bounds") /\ Len(stack') < Len(stack) => answer' = (node \in p)
  PROVE  Runs(D, H, F)
<1> DEFINE R == RunTasks(D, H, F)
<1>0. D \in SUBSET Node
  BY DEF Ground
<1>1. ASSUME NEW do, Busy(do) PROVE stack # <<>> /\ top.do = do
  BY <1>1 DEF Busy
<1>2. stack # <<>>
  BY SetsWalk DEF Walk
<1>3. /\ top \in UseTasks /\ node \in D /\ node \in Node /\ Kids[node] \in Seq(Node)
      /\ top.do \in RunDo /\ (top.do \in {"decide", "bounds"} => Kind[node] \in Shape)
      /\ top.do = "hull" => Kind[node] # "setref"
  BY <1>0, <1>2, RunTop DEF HasBox
<1>4. Onward(adv, node) \subseteq D /\ Resolved(adv, node, values)
  BY <1>3 DEF Ground
<1>5. \A i \in DOMAIN Kids[node] : Kids[node][i] \in D
  BY <1>4 DEF Onward
<1>6. node \in H => Holds(adv, node, H) /\ (Kind[node] \in Shape => node \in p)
  BY DEF Ground
<1>7. top.do \in {"member", "decide", "bounds"} /\ Promises(H, top, answer) => node \in H
  BY DEF Promises, Asks, node
<1>8. ASSUME NEW new \in Seq(R), Branches(H, new, answer'), Continue(new), Keep,
             UNCHANGED refs, Promises(H, top, answer) => Sure(H, new, answer')
      PROVE  Runs(D, H, F)
  <2>1. RunGoes(D, H, F, new)
    BY <1>8 DEF RunGoes, Continue
  <2> QED
    BY <1>2, <1>8, <2>1 DEF Runs, Keep, refs
<1>9. /\ <<>> \in Seq(R) /\ Branches(H, <<>>, answer')
      /\ answer' => Sure(H, <<>>, answer')
  BY RunNone
<1> HIDE DEF R
<1>10. CASE MemberShape
  <2>1. /\ Busy("member") /\ Pure /\ Kind[node] \in Shape
        /\ Continue(Append(Each("eval", Kids[node]), Task("decide", node)))
    BY <1>10 DEF MemberShape, Call, Shape
  <2> DEFINE t == Task("decide", node)
             one == <<t>>
             new == Each("eval", Kids[node]) \o one
  <2>2. t \in R /\ t.do = "decide" /\ Asks(t) = {node}
    BY <1>0, <1>3, <2>1, RunTask DEF R
  <2> HIDE DEF t
  <2>3. one \in Seq(R) /\ Len(one) = 1 /\ one[1] = t
    BY <2>2
  <2>4. new = Append(Each("eval", Kids[node]), t)
    <3> DEFINE all == UseTasks
    <3>1. Each("eval", Kids[node]) \in Seq(all) /\ t \in all
      <4>1. "eval" \in Plain
        BY DEF Plain, UseDo, Strict, Lax, Inner
      <4>2. Each("eval", Kids[node]) \in Seq(UseTasks)
        BY <1>3, <4>1, EachTyped
      <4> QED
        BY <2>2, <4>2 DEF R, RunTasks
    <3> HIDE DEF all
    <3> QED
      BY ONLY <3>1, AppendIsConcat
  <2> HIDE DEF one
  <2>5. /\ new \in Seq(R) /\ Branches(H, new, answer')
        /\ Asks(t) \subseteq H => Sure(H, new, answer')
    <3>1. /\ one \in Seq(RunTasks(D, H, F)) /\ Len(one) <= 1
          /\ Len(one) = 1 => one[1].do \in {"decide", "bounds"}
      BY <2>2, <2>3 DEF R
    <3>2. /\ new \in Seq(RunTasks(D, H, F)) /\ Branches(H, new, answer')
          /\ Len(one) = 1 /\ Asks(one[1]) \subseteq H => Sure(H, new, answer')
      BY <1>0, <1>3, <1>5, <3>1, RunEvals
    <3> QED
      BY <2>3, <3>2 DEF R
  <2>6. Continue(new)
    BY <2>1, <2>4 DEF t
  <2> HIDE DEF new
  <2>7. Promises(H, top, answer) => Sure(H, new, answer')
    BY <1>1, <1>7, <2>1, <2>2, <2>5
  <2> QED
    BY <1>8, <2>1, <2>5, <2>6, <2>7 DEF Pure
<1>11. CASE Decide
  <2>1. Busy("decide") /\ Keep /\ UNCHANGED refs /\ Continue(<<>>)
    BY <1>11 DEF Decide
  <2>2. Promises(H, top, answer) => answer'
    BY <1>1, <1>3, <1>6, <1>7, <2>1
  <2> QED
    BY <1>8, <1>9, <2>1, <2>2
<1>12. CASE MemberParts
  <2>1. Busy("member") /\ Keep /\ UNCHANGED refs /\ answer' /\ top.do = "member"
    BY <1>1, <1>12 DEF MemberParts, Call
  <2> DEFINE do == IF Kind[node] = "rectangle" THEN "bounds" ELSE "and"
             t == [Task(do, node) EXCEPT !.rest = Kids[node]]
  <2>2. Continue(<<t>>) /\ Kind[node] \in {"rectangle", "intersection"}
    BY <1>12 DEF MemberParts
  <2>3. t \in R /\ t.do = do /\ t.node = node /\ t.rest = Kids[node]
    <3>1. do = "bounds" => Kind[node] \in Shape /\ Len(Kids[node]) % 2 = 0
      BY <1>3, ShapeAssumption DEF Shape
    <3>2. do \in {"bounds", "and"}
      OBVIOUS
    <3> HIDE DEF do
    <3>3. t \in UseTasks
      BY <1>3, <3>1, <3>2, KeepsRest
    <3>4. t.do = do /\ t.node = node /\ t.rest = Kids[node]
      BY DEF Task
    <3> HIDE DEF t
    <3> QED
      BY <1>0, <1>3, <1>5, <3>1, <3>2, <3>3, <3>4, RunRest DEF R
  <2>4. node \in H => Asks(t) \subseteq H
    <3>1. CASE Kind[node] = "rectangle"
      <4>1. Asks(t) = {node}
        BY <2>3, <3>1 DEF Asks
      <4> QED
        BY <4>1
    <3>2. CASE Kind[node] = "intersection"
      <4>1. Asks(t) = {Kids[node][i] : i \in DOMAIN Kids[node]}
        BY <2>3, <3>2 DEF Asks
      <4> QED
        BY <1>6, <3>2, <4>1 DEF Holds
    <3> QED
      BY <2>2, <3>1, <3>2
  <2>5. t.do \in {"bounds", "and"}
    BY <2>3
  <2> HIDE DEF t, do
  <2>6. /\ <<t>> \in Seq(R) /\ Branches(H, <<t>>, answer')
        /\ Promises(H, t, answer') => Sure(H, <<t>>, answer')
    BY <2>3, <2>5, RunOne DEF R
  <2>7. Promises(H, top, answer) => Promises(H, t, answer')
    BY <1>7, <2>1, <2>4, <2>5 DEF Promises
  <2> QED
    BY <1>8, <2>1, <2>2, <2>6, <2>7
<1>13. CASE Bounds
  <2>1. Busy("bounds") /\ Keep /\ UNCHANGED refs /\ top.do = "bounds"
    BY <1>1, <1>13 DEF Bounds
  <2>2. CASE Continue(<<>>)
    <3>1. Len(stack') < Len(stack)
      BY <1>2, <2>2 DEF Continue
    <3>2. Promises(H, top, answer) => answer'
      BY <1>3, <1>6, <1>7, <2>1, <3>1
    <3> QED
      BY <1>8, <1>9, <2>1, <2>2, <3>2
  <2>3. CASE ~Continue(<<>>)
    <3> DEFINE two == SubSeq(top.rest, 1, 2)
               t == [top EXCEPT !.rest = SubSeq(top.rest, 3, Len(top.rest)), !.k = 1]
               one == <<t>>
               new == Each("eval", two) \o one
    <3>1. top.rest # <<>> /\ Continue(new)
      BY <1>13, <2>3 DEF Bounds
    <3>2. /\ two \in Seq(Node) /\ \A i \in DOMAIN two : two[i] \in D
          /\ t \in R /\ Asks(t) = {node} /\ t.do = "bounds"
      BY <1>0, <1>2, <2>1, <3>1, RunBounds DEF R
    <3> HIDE DEF two, t
    <3>3. one \in Seq(R) /\ Len(one) = 1 /\ one[1] = t
      BY <3>2
    <3> HIDE DEF one
    <3>4. /\ one \in Seq(RunTasks(D, H, F)) /\ Len(one) <= 1
          /\ Len(one) = 1 => one[1].do \in {"decide", "bounds"}
      BY <3>2, <3>3 DEF R
    <3>5. /\ new \in Seq(RunTasks(D, H, F)) /\ Branches(H, new, answer')
          /\ Len(one) = 1 /\ Asks(one[1]) \subseteq H => Sure(H, new, answer')
      BY <1>0, <3>2, <3>4, RunEvals
    <3> HIDE DEF new
    <3>6. Promises(H, top, answer) => Sure(H, new, answer')
      BY <1>7, <2>1, <3>2, <3>3, <3>5
    <3> QED
      BY <1>8, <2>1, <3>1, <3>5, <3>6 DEF R
  <2> QED
    BY <2>2, <2>3
<1>14. CASE And
  <2>1. Busy("and") /\ Pure /\ top.do = "and" /\ answer' = answer
    BY <1>1, <1>14 DEF And, Pure
  <2>2. Promises(H, top, answer) => answer /\ Asks(top) \subseteq H
    BY <2>1 DEF Promises
  <2>3. CASE ~answer \/ top.rest = <<>>
    <3>1. Continue(<<>>)
      BY <1>14, <2>3 DEF And
    <3>2. Keep /\ UNCHANGED refs
      BY <2>1 DEF Pure
    <3>3. Promises(H, top, answer) => Sure(H, <<>>, answer')
      BY <1>9, <2>1, <2>2
    <3> QED
      BY <1>8, <1>9, <3>1, <3>2, <3>3
  <2>4. CASE answer /\ top.rest # <<>>
    <3> DEFINE new == <<Task("member", Head(top.rest))>> \o
                      (IF Len(top.rest) = 1 THEN <<>>
                       ELSE <<[top EXCEPT !.rest = Tail(@)]>>)
    <3>1. Continue(new)
      BY <1>14, <2>4 DEF And
    <3>2. /\ new \in Seq(R) /\ Branches(H, new, answer')
          /\ Asks(top) \subseteq H => Sure(H, new, answer')
      BY <1>0, <1>2, <2>1, <2>4, RunAnd DEF R
    <3> HIDE DEF new
    <3> QED
      BY <1>8, <2>1, <2>2, <3>1, <3>2 DEF Pure
  <2> QED
    BY <2>3, <2>4
<1>15. CASE MemberReference
  <2> DEFINE x == To[node]
             s == setRefs'[x]
  <2>1. /\ Busy("member") /\ Kind[node] = "setref" /\ Keep /\ UNCHANGED <<realRefs, answer>>
        /\ setRefs' = IF x \in DOMAIN setRefs THEN setRefs ELSE Put(setRefs, x, Empty)
        /\ Continue(<<Task("member", s)>>)
    BY <1>15 DEF MemberReference, Call
  <2>2. Onward(adv, node) = {Kids[node][i] : i \in DOMAIN Kids[node]} \cup Named(adv, x, SetKind)
    BY <2>1 DEF Onward
  <2>3. s = Empty \/ s \in Named(adv, x, SetKind)
    <3>1. CASE x \notin DOMAIN setRefs
      BY <2>1, <3>1 DEF Put
    <3>2. CASE x \in DOMAIN setRefs
      <4>1. s = setRefs[x] /\ Kind[setRefs[x]] \in SetKind /\ adv \in Advs
        BY <2>1, <3>2 DEF TypeInv, SetsTyped
      <4>2. s = Empty \/ (s \in Tree(adv) /\ Name[s] = x /\ x # NoName)
        BY <3>2, <4>1 DEF SetsOwn
      <4> QED
        BY <4>1, <4>2 DEF Named, Nodes
    <3> QED
      BY <3>1, <3>2
  <2>4. s \in D
    BY <1>4, <2>2, <2>3
  <2>5. node \in H => s \in H
    <3> SUFFICES ASSUME node \in H PROVE s \in H
      OBVIOUS
    <3>1. Named(adv, x, SetKind) # {} /\ Named(adv, x, SetKind) \subseteq H
      BY <1>6, <2>1 DEF Holds
    <3>2. x \in DOMAIN setRefs /\ setRefs[x] \in Named(adv, x, SetKind)
      BY <3>1, NameFound
    <3> QED
      BY <2>1, <3>1, <3>2
  <2>6. \A y \in DOMAIN setRefs' :
          (y \in DOMAIN setRefs /\ setRefs'[y] = setRefs[y]) \/ setRefs'[y] = Empty
    BY <2>1 DEF Put
  <2> DEFINE t == Task("member", s)
  <2> HIDE DEF s
  <2>7. t \in R /\ t.do = "member" /\ Asks(t) = {s}
    BY <1>0, <2>4, RunTask DEF R
  <2>8. Continue(<<t>>)
    BY <2>1 DEF s
  <2> HIDE DEF t
  <2>9. /\ <<t>> \in Seq(R) /\ Branches(H, <<t>>, answer')
        /\ Promises(H, t, answer') => Sure(H, <<t>>, answer')
    BY <2>7, RunOne DEF R
  <2>10. Promises(H, top, answer) => Promises(H, t, answer')
    BY <1>1, <1>7, <2>1, <2>5, <2>7 DEF Promises
  <2>11. RunGoes(D, H, F, <<t>>)
    BY <2>8, <2>9, <2>10 DEF RunGoes, Continue, R
  <2> QED
    BY <1>2, <2>1, <2>6, <2>11 DEF Runs, Keep
<1>16. CASE WhichError
  <2>1. PICK do \in {"member", "proj", "hull"} : Call(do) /\ Kind[node] \in Undefined(do)
    BY <1>16 DEF WhichError
  <2>2. top.do = do
    BY <1>1, <2>1 DEF Call
  <2>3. Kind[node] # "setcase"
    BY <1>4 DEF Resolved
  <2> QED
    BY <1>3, <2>1, <2>2, <2>3 DEF Undefined, RunDo
<1> QED
  BY <1>10, <1>11, <1>12, <1>13, <1>14, <1>15, <1>16 DEF Membership

(* What a box starts with, after which its linear programs may be solved.  *)
LEMMA RunHull ==
  ASSUME NEW D \in SUBSET Node, NEW H, NEW F, NEW yes, NEW n \in D, n \in F, HasBox(D, F),
         \A i \in DOMAIN Kids[n] : Kids[n][i] \in D,
         NEW new, new = (IF Kind[n] = "intersection" THEN BoxParts(n)
                         ELSE Each("eval", Kids[n])) \o Solution(n)
  PROVE  new \in Seq(RunTasks(D, H, F)) /\ Branches(H, new, yes)
<1> DEFINE R == RunTasks(D, H, F)
           quiet == {t \in R : t.do # "branch"}
<1>0. n \in Node /\ Kids[n] \in Seq(Node)
  BY GraphAssumption
<1>1. ASSUME NEW m \in D
      PROVE  Task("eval", m) \in quiet
  BY RunTask
<1>2. ASSUME NEW ns \in Seq(Node), \A i \in DOMAIN ns : ns[i] \in D
      PROVE  Each("eval", ns) \in Seq(quiet)
  <2>1. \A i \in 1 .. Len(ns) : Task("eval", ns[i]) \in quiet
    BY <1>1, <1>2
  <2> HIDE DEF quiet
  <2> QED
    BY <2>1 DEF Each
<1>3. BoxParts(n) \in Seq(quiet)
  <2> DEFINE parts == BoxParts(n)
  <2>1. /\ parts \in Seq(UseTasks) /\ Len(parts) = Len(Kids[n])
        /\ \A i \in DOMAIN Kids[n] :
             /\ parts[i] = IF Kind[Kids[n][i]] = "polytope"
                           THEN Task("merge", Kids[n][i]) ELSE Task("hull", Kids[n][i])
             /\ parts[i].node = Kids[n][i]
    BY <1>0, BoxPartsTyped
  <2> HIDE DEF parts
  <2>2. ASSUME NEW i \in DOMAIN Kids[n] PROVE parts[i] \in quiet
    <3>1. i \in DOMAIN parts /\ parts[i] \in UseTasks
      BY <1>0, <2>1
    <3> DEFINE m == Kids[n][i]
    <3>2. m \in D
      OBVIOUS
    <3>3. parts[i] = IF Kind[m] = "polytope" THEN Task("merge", m) ELSE Task("hull", m)
      BY <2>1
    <3> HIDE DEF m
    <3>4. CASE Kind[m] = "polytope"
      <4>1. parts[i].do = "merge" /\ parts[i].rest = <<>> /\ parts[i].node = m
        BY <3>3, <3>4 DEF Task
      <4>2. DOMAIN parts[i].rest = {} /\ "merge" \in RunDo
        BY <4>1 DEF RunDo
      <4> QED
        BY <3>1, <3>2, <4>1, <4>2 DEF RunTasks
    <3>5. CASE Kind[m] # "polytope"
      <4>1. m \in F
        BY <3>2, <3>5 DEF HasBox
      <4>2. Task("hull", m) \in R /\ Task("hull", m).do = "hull"
        BY <3>2, <4>1, RunTask
      <4> HIDE DEF R
      <4> QED
        BY <3>3, <3>5, <4>2
    <3> QED
      BY <3>4, <3>5
  <2> HIDE DEF quiet
  <2>3. DOMAIN Kids[n] = 1 .. Len(Kids[n]) /\ Len(Kids[n]) \in Nat
    BY <1>0
  <2>4. \A i \in 1 .. Len(parts) : parts[i] \in quiet
    BY <2>1, <2>2, <2>3
  <2>5. parts = [i \in 1 .. Len(parts) |-> parts[i]] /\ Len(parts) \in Nat
    BY <2>1
  <2>6. parts \in [1 .. Len(parts) -> quiet]
    BY <2>4, <2>5
  <2>7. parts \in Seq(quiet)
    BY <2>5, <2>6, SeqDef
  <2> QED
    BY <2>7 DEF parts
<1>4. Solution(n) \in Seq(quiet)
  <2> DEFINE t == Task("solve", n)
  <2>1. t \in R /\ t.do = "solve"
    BY RunSolve
  <2>2. t \in quiet
    <3> HIDE DEF t, R
    <3> QED
      BY <2>1
  <2> HIDE DEF quiet, t
  <2>3. <<t>> \in Seq(quiet) /\ <<>> \in Seq(quiet)
    BY <2>2
  <2> QED
    BY <2>3 DEF Solution, t
<1> DEFINE first == IF Kind[n] = "intersection" THEN BoxParts(n) ELSE Each("eval", Kids[n])
<1>5. first \in Seq(quiet)
  BY <1>0, <1>2, <1>3
<1> HIDE DEF quiet
<1>6. new \in Seq(quiet)
  <2> HIDE DEF first
  <2>1. first \o Solution(n) \in Seq(quiet)
    BY <1>4, <1>5, Joined
  <2> QED
    BY <2>1 DEF first
<1>7. \A i \in DOMAIN new : new[i] \in R /\ new[i].do # "branch"
  <2>1. \A i \in DOMAIN new : new[i] \in quiet
    BY <1>6
  <2> QED
    BY <2>1 DEF quiet
<1>8. new \in Seq(R)
  <2>1. new = [i \in 1 .. Len(new) |-> new[i]] /\ Len(new) \in Nat /\ DOMAIN new = 1 .. Len(new)
    BY <1>6
  <2>2. new \in [1 .. Len(new) -> R]
    BY <1>7, <2>1
  <2> HIDE DEF R
  <2> QED
    BY <2>1, <2>2, SeqDef
<1> QED
  BY <1>7, <1>8 DEF Branches

(* Some of the numbers of a polytope, before its matrix is looked at.      *)
LEMMA RunMatrix ==
  ASSUME NEW D \in SUBSET Node, NEW H, NEW F, NEW yes, NEW n \in D,
         \A i \in DOMAIN Kids[n] : Kids[n][i] \in D, NEW k \in 0 .. Len(Kids[n]),
         NEW new, new = Append(Each("eval", SubSeq(Kids[n], k + 1, Len(Kids[n]))),
                               Task("matrix", n))
  PROVE  new \in Seq(RunTasks(D, H, F)) /\ Branches(H, new, yes)
<1> DEFINE R == RunTasks(D, H, F)
           ns == SubSeq(Kids[n], k + 1, Len(Kids[n]))
           evals == Each("eval", ns)
           t == Task("matrix", n)
<1>1. Kids[n] \in Seq(Node) /\ Len(Kids[n]) \in Nat
  BY GraphAssumption
<1>2. ns \in Seq(Node) /\ \A i \in DOMAIN ns : ns[i] \in D
  <2>1. /\ ns \in Seq(Node) /\ Len(ns) = Len(Kids[n]) - k
        /\ \A i \in 1 .. Len(Kids[n]) - k : ns[i] = Kids[n][i + k]
    <3>1. CASE k = Len(Kids[n])
      <4>1. k + 1 > Len(Kids[n]) /\ k + 1 \in Nat
        BY <1>1, <3>1
      <4>2. ns = <<>>
        BY <1>1, <4>1
      <4> QED
        BY <1>1, <3>1, <4>2
    <3>2. CASE k # Len(Kids[n])
      <4>1. k + 1 \in 1 .. Len(Kids[n]) + 1 /\ Len(Kids[n]) \in k .. Len(Kids[n])
        BY <1>1, <3>2
      <4>2. /\ ns \in Seq(Node)
            /\ Len(ns) = IF k + 1 <= Len(Kids[n]) THEN Len(Kids[n]) - (k + 1) + 1 ELSE 0
            /\ \A i \in 1 .. Len(Kids[n]) - (k + 1) + 1 : ns[i] = Kids[n][(k + 1) + i - 1]
        BY <1>1, <4>1, SubSeqProperties
      <4>3. /\ Len(Kids[n]) - (k + 1) + 1 = Len(Kids[n]) - k /\ k + 1 <= Len(Kids[n])
            /\ \A i \in 1 .. Len(Kids[n]) - k : (k + 1) + i - 1 = i + k
        BY <1>1, <3>2
      <4> HIDE DEF ns
      <4> QED
        BY <4>2, <4>3
    <3> QED
      BY <3>1, <3>2
  <2> HIDE DEF ns
  <2>2. ASSUME NEW i \in DOMAIN ns PROVE ns[i] \in D
    <3>1. i \in 1 .. Len(Kids[n]) - k /\ i + k \in DOMAIN Kids[n]
      BY <1>1, <2>1
    <3> QED
      BY <2>1, <3>1
  <2> QED
    BY <2>1, <2>2
<1> HIDE DEF ns
<1>3. evals \in Seq(R) /\ Branches(H, evals, yes)
  BY <1>2, RunOnlyEvals
<1>4. t \in R /\ t.do = "matrix"
  BY RunTask
<1> HIDE DEF evals, t, R
<1>5. /\ new \in Seq(R) /\ Len(new) = Len(evals) + 1 /\ new[Len(evals) + 1] = t
      /\ \A i \in 1 .. Len(evals) : new[i] = evals[i]
  <2>1. new = Append(evals, t)
    BY DEF evals, t, ns
  <2>2. evals \in Seq(R) /\ t \in R
    BY <1>3, <1>4
  <2> QED
    BY ONLY <2>1, <2>2, AppendProperties
<1>6. Branches(H, new, yes)
  <2>1. \A i \in DOMAIN evals : evals[i].do # "branch"
    <3>1. \A i \in DOMAIN evals : evals[i].do = "eval"
      BY DEF evals, Each, Task
    <3> QED
      BY <3>1
  <2>2. \A i \in DOMAIN new : i \in DOMAIN evals \/ i = Len(evals) + 1
    BY <1>3, <1>5
  <2>3. DOMAIN evals = 1 .. Len(evals)
    BY <1>3
  <2> QED
    BY <1>4, <1>5, <2>1, <2>2, <2>3 DEF Branches
<1> QED
  BY <1>5, <1>6 DEF R

(* Boxes of what has one; only a ragged matrix ends it all.                *)
LEMMA RunBoxes ==
  ASSUME TypeInv, NEW p, NEW D, NEW H, NEW F, Ground(adv, D, values, p, H),
         stack \in Seq(RunTasks(D, H, F)), Hull \/ Merge \/ Solve \/ RaggedMatrix,
         Busy("solve") /\ node \in F => phase' = phase, phase = "running"
  PROVE  Terminate \/ Runs(D, H, F)
<1> DEFINE R == RunTasks(D, H, F)
<1>0. D \in SUBSET Node
  BY DEF Ground
<1>1. CASE RaggedMatrix
  BY <1>1 DEF RaggedMatrix
<1> SUFFICES ASSUME Hull \/ Merge \/ Solve PROVE Runs(D, H, F)
  BY <1>1
<1>2. stack # <<>> /\ top.do \in {"hull", "merge", "solve"}
  BY DEF Hull, Merge, Solve, Call, Busy
<1>3. /\ node \in D /\ node \in Node /\ Kids[node] \in Seq(Node)
      /\ top.do \in {"hull", "solve"} => node \in F
      /\ top.do = "hull" => HasBox(D, F)
  BY <1>0, <1>2, RunTop
<1>4. Onward(adv, node) \subseteq D
  BY <1>3 DEF Ground
<1>5. \A i \in DOMAIN Kids[node] : Kids[node][i] \in D
  BY <1>4 DEF Onward
<1>6. ~Promises(H, top, answer)
  BY <1>2 DEF Promises
<1>7. ASSUME NEW new \in Seq(R), Branches(H, new, answer), Continue(new), Pure
      PROVE  Runs(D, H, F)
  <2>1. answer' = answer /\ UNCHANGED <<adv, realRefs, setRefs, values, phase, outcome>>
    BY <1>7 DEF Pure, Keep, refs
  <2>2. RunGoes(D, H, F, new)
    BY <1>6, <1>7, <2>1 DEF RunGoes, Continue
  <2> QED
    BY <1>2, <2>1, <2>2 DEF Runs
<1>8. CASE Hull
  <2>1. Busy("hull") /\ Pure
    BY <1>8 DEF Hull, Call
  <2>2. PICK new : /\ Continue(new)
                   /\ new = (IF Kind[node] = "intersection" THEN BoxParts(node)
                             ELSE Each("eval", Kids[node])) \o Solution(node)
    BY <1>8 DEF Hull
  <2>3. node \in F /\ HasBox(D, F)
    BY <1>3, <2>1 DEF Busy
  <2>4. new \in Seq(R) /\ Branches(H, new, answer)
    BY <1>0, <1>3, <1>5, <2>2, <2>3, RunHull
  <2> HIDE DEF R
  <2> QED
    BY <1>7, <2>1, <2>2, <2>4
<1>9. CASE Merge
  <2>1. Pure
    BY <1>9 DEF Merge
  <2>2. CASE Continue(Each("eval", Kids[node]))
    <3>1. Each("eval", Kids[node]) \in Seq(R) /\ Branches(H, Each("eval", Kids[node]), answer)
      BY <1>0, <1>3, <1>5, RunOnlyEvals
    <3> HIDE DEF R
    <3> QED
      BY <1>7, <2>1, <2>2, <3>1
  <2>3. CASE ~Continue(Each("eval", Kids[node]))
    <3>1. PICK k \in 0 .. Len(Kids[node]) :
            Continue(Append(Each("eval", SubSeq(Kids[node], k + 1, Len(Kids[node]))),
                            Task("matrix", node)))
      BY <1>9, <2>3 DEF Merge
    <3>2. PICK new : new = Append(Each("eval", SubSeq(Kids[node], k + 1, Len(Kids[node]))),
                                  Task("matrix", node))
      OBVIOUS
    <3>3. new \in Seq(R) /\ Branches(H, new, answer)
      BY <1>0, <1>3, <1>5, <3>2, RunMatrix
    <3> HIDE DEF R
    <3> QED
      BY <1>7, <2>1, <3>1, <3>2, <3>3
  <2> QED
    BY <2>2, <2>3
<1>10. CASE Solve
  <2>1. Busy("solve") /\ top.do = "solve"
    BY <1>10 DEF Solve, Busy
  <2>2. phase' = phase
    BY <1>3, <2>1
  <2>3. ~Raise("no_box")
    BY <2>2 DEF Raise
  <2>4. Continue(<<>>) /\ Pure
    BY <1>10, <2>3 DEF Solve
  <2>5. <<>> \in Seq(R) /\ Branches(H, <<>>, answer)
    BY RunNone
  <2> HIDE DEF R
  <2> QED
    BY <1>7, <2>4, <2>5
<1> QED
  BY <1>8, <1>9, <1>10

(* So such a run ends with a result, unless the limit is met or a ragged   *)
(* matrix ends the process.                                                *)
LEMMA RunSteps ==
  ASSUME TypeInv, AllFound(adv, realRefs, setRefs), RefsOwn, SetsOwn, NEW p,
         NEW D, NEW H, NEW F, Ground(adv, D, values, p, H), Empty \in D,
         stack \in Seq(RunTasks(D, H, F)), Branches(H, stack, answer), Step,
         Busy("decide") => answer' = (node \in p),
         Busy("bounds") /\ Len(stack') < Len(stack) => answer' = (node \in p),
         Busy("solve") /\ node \in F => phase' = phase, phase = "running"
  PROVE  Raise("depth") \/ Terminate \/ Return \/ Runs(D, H, F)
<1>1. stack # <<>> => top.do \in RunDo
  <2>1. D \in SUBSET Node
    BY DEF Ground
  <2> QED
    BY <2>1, RunTop
<1>2. CASE Evaluation
  BY <1>2, RunEvaluates
<1>3. CASE Membership
  BY <1>3, RunTests
<1>4. CASE Hull \/ Merge \/ Solve \/ RaggedMatrix
  BY <1>4, RunBoxes
<1>5. CASE TooDeep
  BY <1>5 DEF TooDeep
<1>6. CASE Projection
  <2>1. Busy("proj") \/ Busy("outside") \/ Busy("dykstra") \/ Busy("converged")
    BY <1>6 DEF Projection, ProjectDirect, ProjectFromOutside, Outside, Dykstra,
       Converged, Call
  <2> QED
    BY <1>1, <2>1 DEF Busy, RunDo
<1>7. CASE Scan \/ Reset
  <2>1. Busy("scan") \/ Busy("reset")
    BY <1>7 DEF Scan, Reset, Call
  <2> QED
    BY <1>1, <2>1 DEF Busy, RunDo
<1>8. CASE Return
  BY <1>8
<1> QED
  BY <1>2, <1>3, <1>4, <1>5, <1>6, <1>7, <1>8 DEF Step

\* The part that the validator is at, what has a value there, what the part
\* leads to, and the sets that hold the point.
Part == IF at = "cost" THEN 3 ELSE IF at = "belief" THEN 2 ELSE 1
Values == IF at \in {"cost", "belief"} THEN Given ELSE {}
Reach == Leads[adv][Part] \cup {Empty}
Yes == Holding[adv][point]

\* The sets that have a box there, as far as linear programs decide it.
SolvableAt(step, p) ==
  {n \in Node : \A q \in IF step = "box" THEN Points ELSE {p} : n \notin NoBox[q]}

Solvable == SolvableAt(at, point)

\* Nothing is wrong with the expressions of the advertisement, nor with the
\* boxes of their sets.
Sane ==
  /\ Boxable(adv, 1, {}, Points) /\ Boxable(adv, 2, Given, Feasible[adv])
  /\ Computable(adv, 3, Given)

\* A call has ended, with a result or for its depth.
Ended == outcome \in {"ok", "depth"}

Cause ==
  \/ outcome = "depth" /\ phase \in {"idle", "dead"}
  \/ ~Defined(offer)
  \/ client = "buffer" /\ ~offer.isAdv

CauseInv ==
  client # "user" /\ Sane =>
    /\ SetsOwn
    /\ at = "scan" /\ phase \in {"idle", "dead"} =>
         /\ Ended
         /\ outcome = "ok" => AllFound(adv, realRefs, setRefs)
    /\ at \in {"box", "sample", "cost", "belief"} =>
         /\ AllFound(adv, realRefs, setRefs)
         /\ phase = "running" =>
              /\ values = Values
              /\ stack \in Seq(RunTasks(Reach, Yes, Solvable)) /\ Branches(Yes, stack, answer)
         /\ phase = "idle" => Ended
    /\ verdict = "reject" => Cause

(* What a part leads to is ground for its evaluation on a point, inside    *)
(* the profile when variables have values.                                 *)
LEMMA ReachGround ==
  ASSUME WithinReach, adv \in Advs, Len(adv) = 3, Sane, NEW p \in Points,
         NEW step \in {"box", "sample", "cost", "belief"},
         step \in {"cost", "belief"} => p \in Feasible[adv],
         NEW part, part = IF step = "cost" THEN 3 ELSE IF step = "belief" THEN 2 ELSE 1,
         NEW given, given = IF step \in {"cost", "belief"} THEN Given ELSE {},
         NEW D, D = Leads[adv][part] \cup {Empty}
  PROVE  /\ Ground(adv, D, given, p, Holding[adv][p])
         /\ D \in SUBSET Node /\ Empty \in D /\ adv[part] \in D
         /\ step \in {"box", "belief"} =>
              LET F == SolvableAt(step, p) IN HasBox(D, F) /\ adv[part] \in F
<1>1. part \in DOMAIN adv
  <2>1. adv \in Seq(Node)
    BY GraphAssumption
  <2> QED
    BY <2>1
<1>2. Computable(adv, part, given)
  BY DEF Sane, Boxable
<1>3. given = {} \/ p \in Feasible[adv]
  OBVIOUS
<1>4. Ground(adv, D, given, p, Holding[adv][p]) /\ adv[part] \in Leads[adv][part]
  BY <1>1, <1>2, <1>3, GroundHolds
<1>5. D \in SUBSET Node
  BY <1>4 DEF Ground
<1>6. ASSUME step \in {"box", "belief"}
      PROVE  HasBox(D, SolvableAt(step, p)) /\ adv[part] \in SolvableAt(step, p)
  <2> DEFINE P == IF step = "box" THEN Points ELSE {p}
             F == SolvableAt(step, p)
  <2>1. \A n \in Leads[adv][part] :
          Kind[n] # "setref" /\ (Solves(adv, part, n) => \A q \in P : n \notin NoBox[q])
    BY <1>6 DEF Sane, Boxable
  <2>2. Kind[Empty] = "singleton" /\ \A q \in P : Empty \notin NoBox[q]
    <3>1. P \subseteq Points /\ Kind[Empty] = "singleton" /\ ~Solved(Empty)
      BY GraphAssumption DEF Solved
    <3> QED
      BY <3>1, NoBoxAssumption
  <2>3. ASSUME NEW n \in D PROVE Kind[n] # "setref" /\ (Kind[n] # "polytope" => n \in F)
    <3>1. n \in Node
      BY <1>5
    <3>2. CASE n = Empty
      BY <2>2, <3>1, <3>2 DEF SolvableAt
    <3>3. CASE n \in Leads[adv][part]
      BY <2>1, <3>1, <3>3 DEF Solves, SolvableAt
    <3> QED
      BY <3>2, <3>3
  <2>4. adv[part] \in F
    BY <1>4, <1>5, <2>1 DEF Solves, SolvableAt
  <2> QED
    BY <2>3, <2>4 DEF HasBox
<1> QED
  BY <1>4, <1>5, <1>6

(* A scan puts sets of the advertisement in the map.                       *)
LEMMA ScanSets ==
  ASSUME TypeInv, SetsOwn, Scan \/ Reset, NEW D,
         Progress(D, adv, realRefs, setRefs, stack, depth)
  PROVE  SetsOwn'
<1>0. adv' = adv
  BY StepKeepsAdv DEF Step
<1>1. CASE Scan
  <2>1. PICK E : /\ Progress(E, adv, realRefs', setRefs', stack', depth')
                 /\ Scan => node \in E
    BY ScanGoesOn
  <2>2. node \in Tree(adv)
    BY <1>1, <2>1 DEF Progress
  <2>3. setRefs' = Enlist(setRefs, node, SetKind)
    BY <1>1 DEF Scan
  <2> QED
    BY <1>0, <2>2, <2>3 DEF SetsOwn, Enlist, Put
<1>2. CASE Reset
  BY <1>0, <1>2 DEF Reset, Pure, refs, SetsOwn
<1> QED
  BY <1>1, <1>2

(* Every name that was found is found after a step of another call.        *)
LEMMA StepFinds ==
  ASSUME TypeInv, AllFound(adv, realRefs, setRefs), stack \in Seq(UseTasks), Step
  PROVE  AllFound(adv, realRefs', setRefs')
<1>1. CASE Evaluation \/ Membership \/ Projection \/ Hull \/ Merge \/ Solve \/ RaggedMatrix
  <2>1. UseStep
    BY <1>1, EvaluationTyped, MembershipTyped, ProjectionTyped
  <2> QED
    BY <2>1 DEF AllFound, Found, UseStep
<1>2. CASE Scan \/ Reset
  <2>1. stack \in Seq(ScanTasks) /\ stack # <<>>
    BY <1>2, ScanTyped DEF ScanStep
  <2> QED
    BY <2>1, NeverTogether
<1>3. CASE TooDeep \/ Return
  <2>1. realRefs' = realRefs /\ setRefs' = setRefs
    BY <1>3 DEF TooDeep, Raise, Return, refs
  <2> QED
    BY <2>1
<1> QED
  BY <1>1, <1>2, <1>3 DEF Step

(* A step of the interpreter: of a scan,                                   *)
LEMMA CauseScans ==
  ASSUME ValidatorInv, CourseInv, CauseInv, Interpret, client # "user", at = "scan"
  PROVE  CauseInv'
<1>1. /\ TypeInv /\ Step /\ UNCHANGED <<client, offer, verdict, at, point, done>>
      /\ verdict = "none" /\ adv \in Advs
  BY DEF ValidatorInv, ValidatorTypeOK, Interpret, check, TypeInv
<1>2. adv' = adv
  BY <1>1, StepKeepsAdv
<1>3. phase \in {"constructing", "running"}
  BY <1>1, StepRuns DEF CourseInv
<1>4. /\ stack \in Seq(ScanTasks)
      /\ \E D : Progress(D, adv, realRefs, setRefs, stack, depth)
  BY <1>3 DEF CourseInv
<1>5. Sane' = Sane
  BY <1>2 DEF Sane
<1> SUFFICES ASSUME Sane
             PROVE  /\ SetsOwn'
                    /\ phase' \in {"idle", "dead"} =>
                         Ended' /\ (outcome' = "ok" => AllFound(adv, realRefs', setRefs'))
  BY <1>1, <1>2, <1>5 DEF CauseInv
<1>6. SetsOwn
  BY DEF CauseInv
<1>7. CASE Scan \/ Reset
  <2>1. phase' = phase
    BY <1>7 DEF Scan, Reset, Pure, Keep
  <2>2. SetsOwn'
    BY <1>1, <1>4, <1>6, <1>7, ScanSets
  <2> QED
    BY <1>3, <2>1, <2>2
<1>8. CASE TooDeep
  <2>1. outcome' = "depth" /\ setRefs' = setRefs
    BY <1>8 DEF TooDeep, Raise, refs
  <2> QED
    BY <1>2, <1>6, <2>1 DEF SetsOwn, Ended
<1>9. CASE Return
  <2>1. stack = <<>> /\ outcome' = "ok" /\ realRefs' = realRefs /\ setRefs' = setRefs
    BY <1>9 DEF Return, refs
  <2>2. AllFound(adv, realRefs, setRefs)
    BY <1>1, <1>4, <2>1, ScanEnds
  <2> QED
    BY <1>2, <1>6, <2>1, <2>2 DEF SetsOwn, Ended
<1>10. CASE Evaluation \/ Membership \/ Projection \/ Hull \/ Merge \/ Solve \/ RaggedMatrix
  <2>1. UseStep
    BY <1>1, <1>10, EvaluationTyped, MembershipTyped, ProjectionTyped
  <2>2. stack # <<>>
    BY <1>10, EvaluationWalks, SetsWalk DEF Walk
  <2> QED
    BY <1>4, <2>1, <2>2, NeverTogether DEF UseStep
<1> QED
  BY <1>1, <1>7, <1>8, <1>9, <1>10 DEF Step

(* or of a run.                                                            *)
LEMMA CauseRuns ==
  ASSUME WithinReach, ValidatorInv, CourseInv, CauseInv, Interpret, client # "user",
         at \in {"box", "sample", "cost", "belief"}
  PROVE  CauseInv'
<1>1. /\ TypeInv /\ Step /\ UNCHANGED <<client, offer, verdict, at, point, done>>
      /\ verdict = "none" /\ adv \in Advs /\ point \in Points /\ Len(adv) = 3 /\ AtPoint
  BY OffersAssumption DEF ValidatorInv, ValidatorTypeOK, Interpret, check, TypeInv
<1>2. adv' = adv
  BY <1>1, StepKeepsAdv
<1>3. phase = "running"
  BY <1>1, StepRuns DEF CourseInv
<1>4. RefsOwn /\ stack \in Seq(UseTasks)
  BY DEF CourseInv
<1>5. /\ Sane' = Sane /\ Values' = Values /\ Reach' = Reach /\ Yes' = Yes
      /\ Solvable' = Solvable
  BY <1>1, <1>2 DEF Sane, Values, Reach, Yes, Part, Solvable
<1> SUFFICES ASSUME Sane
             PROVE  /\ SetsOwn' /\ AllFound(adv, realRefs', setRefs')
                    /\ phase' = "running" =>
                         /\ values' = Values
                         /\ stack' \in Seq(RunTasks(Reach, Yes, Solvable))
                         /\ Branches(Yes, stack', answer')
                    /\ phase' = "idle" => Ended'
  BY <1>1, <1>2, <1>5 DEF CauseInv
<1>6. /\ SetsOwn /\ AllFound(adv, realRefs, setRefs) /\ values = Values
      /\ stack \in Seq(RunTasks(Reach, Yes, Solvable)) /\ Branches(Yes, stack, answer)
  BY <1>3 DEF CauseInv
<1>7. Ground(adv, Reach, values, point, Yes) /\ Empty \in Reach
  <2>1. at \in {"cost", "belief"} => point \in Feasible[adv]
    BY DEF CourseInv, Evaluates
  <2> QED
    BY <1>1, <1>6, <2>1, ReachGround DEF Reach, Yes, Values, Part
<1>8. AllFound(adv, realRefs', setRefs')
  BY <1>1, <1>4, <1>6, StepFinds
<1>9. Raise("depth") \/ Terminate \/ Return \/ Runs(Reach, Yes, Solvable)
  <2>1. Busy("solve") /\ node \in Solvable => phase' = phase
    BY <1>1 DEF AtPoint, Solvable, SolvableAt
  <2>2. PICK D, F : D = Reach /\ F = Solvable
    OBVIOUS
  <2> QED
    BY <1>1, <1>3, <1>4, <1>6, <1>7, <2>1, RunSteps DEF AtPoint
<1>10. CASE Raise("depth")
  <2>1. phase' = "idle" /\ outcome' = "depth" /\ setRefs' = setRefs
    BY <1>3, <1>10 DEF Raise, refs
  <2> QED
    BY <1>2, <1>6, <1>8, <2>1 DEF SetsOwn, Ended
<1>11. CASE Return
  <2>1. phase' = "idle" /\ outcome' = "ok" /\ setRefs' = setRefs
    BY <1>11 DEF Return, refs
  <2> QED
    BY <1>2, <1>6, <1>8, <2>1 DEF SetsOwn, Ended
<1>12. CASE Runs(Reach, Yes, Solvable)
  <2>1. SetsOwn'
    BY <1>2, <1>6, <1>12 DEF SetsOwn, Runs
  <2>2. /\ stack # <<>> /\ phase' = phase /\ values' = values
        /\ \E new : RunGoes(Reach, Yes, Solvable, new)
    BY <1>12 DEF Runs
  <2>3. stack' \in Seq(RunTasks(Reach, Yes, Solvable)) /\ Branches(Yes, stack', answer')
    BY <1>6, <2>2, RunGoesOn
  <2> QED
    BY <1>3, <1>6, <1>8, <2>1, <2>2, <2>3
<1>13. CASE Terminate
  <2>1. phase' = "terminated" /\ setRefs' = setRefs
    BY <1>13 DEF Terminate, refs
  <2> QED
    BY <1>2, <1>6, <1>8, <2>1 DEF SetsOwn
<1> QED
  BY <1>9, <1>10, <1>11, <1>12, <1>13

(* A call of the validator begins such a run.                              *)
LEMMA AskRuns ==
  ASSUME NEW D \in SUBSET Node, NEW H, NEW F, NEW n \in D, NEW do \in {"hull", "member", "eval"},
         do = "hull" => HasBox(D, F) /\ n \in F, NEW given, Ask(do, n, given)
  PROVE  /\ phase' = "running" /\ values' = given
         /\ stack' \in Seq(RunTasks(D, H, F)) /\ Branches(H, stack', answer')
         /\ UNCHANGED <<adv, realRefs, setRefs, answer, outcome>>
<1> DEFINE t == Task(do, n)
<1>1. /\ phase' = "running" /\ values' = given /\ stack' = <<t>>
      /\ UNCHANGED <<adv, realRefs, setRefs, answer, outcome>>
  BY DEF Ask, refs
<1>2. t \in RunTasks(D, H, F) /\ t.do = do
  BY RunTask
<1> HIDE DEF t
<1>3. <<t>> \in Seq(RunTasks(D, H, F)) /\ Branches(H, <<t>>, answer')
  BY <1>2, RunOne
<1> QED
  BY <1>1, <1>3

(* The validator goes on to another part, or to another point.             *)
LEMMA CauseAsks ==
  ASSUME WithinReach, ValidatorInv, CourseInv, CauseInv, client # "user", Done,
         at \in {"scan", "box", "sample", "cost", "belief"},
         NEW do \in {"hull", "member", "eval"}, NEW n, NEW given, Ask(do, n, given),
         UNCHANGED <<client, offer, verdict>>, point' \in Points,
         \/ at' = "box" /\ do = "hull" /\ n = profile /\ given = {}
         \/ at' = "sample" /\ do = "member" /\ n = profile /\ given = {}
         \/ at' = "cost" /\ do = "eval" /\ n = cost /\ given = Given /\ point' \in Feasible[adv]
         \/ at' = "belief" /\ do = "hull" /\ n = belief /\ given = Given
              /\ point' \in Feasible[adv]
  PROVE  CauseInv'
<1>1. /\ adv \in Advs /\ Len(adv) = 3 /\ verdict = "none"
  BY OffersAssumption DEF ValidatorInv, ValidatorTypeOK, TypeInv
<1>2. adv' = adv /\ realRefs' = realRefs /\ setRefs' = setRefs /\ phase' = "running"
  BY DEF Ask, refs
<1>3. Sane' = Sane
  BY <1>2 DEF Sane
<1> SUFFICES ASSUME Sane PROVE CauseInv'
  BY <1>3 DEF CauseInv
<1>4. SetsOwn /\ AllFound(adv, realRefs, setRefs)
  BY DEF CauseInv, Done
<1>5. /\ Reach' \in SUBSET Node /\ adv'[Part'] \in Reach'
      /\ at' \in {"box", "belief"} =>
           HasBox(Reach', Solvable') /\ adv'[Part'] \in Solvable'
  <2>1. PICK step \in {"box", "sample", "cost", "belief"} : step = at'
    OBVIOUS
  <2>2. PICK part \in 1 .. 3 :
          part = IF step = "cost" THEN 3 ELSE IF step = "belief" THEN 2 ELSE 1
    OBVIOUS
  <2>3. Part' = part
    BY <2>1, <2>2 DEF Part
  <2>4. PICK D : D = Leads[adv][part] \cup {Empty}
    OBVIOUS
  <2>5. step \in {"cost", "belief"} => point' \in Feasible[adv]
    BY <2>1
  <2>6. /\ D \in SUBSET Node /\ adv[part] \in D
        /\ step \in {"box", "belief"} =>
             HasBox(D, SolvableAt(step, point')) /\ adv[part] \in SolvableAt(step, point')
    <3>1. PICK g : g = IF step \in {"cost", "belief"} THEN Given ELSE {}
      OBVIOUS
    <3>2. PICK p \in Points : p = point'
      OBVIOUS
    <3>3. step \in {"cost", "belief"} => p \in Feasible[adv]
      BY <2>5, <3>2
    <3>4. /\ D \in SUBSET Node /\ adv[part] \in D
          /\ step \in {"box", "belief"} =>
               HasBox(D, SolvableAt(step, p)) /\ adv[part] \in SolvableAt(step, p)
      BY <1>1, <2>2, <2>4, <3>1, <3>3, ReachGround
    <3> QED
      BY <3>2, <3>4
  <2>7. Reach' = D /\ Solvable' = SolvableAt(step, point')
    BY <1>2, <2>1, <2>3, <2>4 DEF Reach, Solvable, SolvableAt
  <2> QED
    BY <1>2, <2>1, <2>3, <2>6, <2>7
<1>6. n = adv'[Part'] /\ given = Values'
  BY <1>2 DEF profile, cost, belief, Part, Values
<1>7. do = "hull" => HasBox(Reach', Solvable') /\ n \in Solvable'
  BY <1>5, <1>6
<1>8. PICK D \in SUBSET Node, H \in {Yes'}, F \in {Solvable'} :
        D = Reach' /\ H = Yes' /\ F = Solvable'
  BY <1>5
<1>9. /\ values' = given /\ stack' \in Seq(RunTasks(D, H, F)) /\ Branches(H, stack', answer')
  <2>1. n \in D /\ (do = "hull" => HasBox(D, F) /\ n \in F)
    BY <1>5, <1>6, <1>7, <1>8
  <2> QED
    BY <2>1, AskRuns
<1>10. SetsOwn' /\ AllFound(adv', realRefs', setRefs')
  BY <1>2, <1>4 DEF SetsOwn
<1> HIDE DEF Reach, Yes, Values, SetsOwn, Solvable
<1> QED
  BY <1>1, <1>2, <1>6, <1>8, <1>9, <1>10 DEF CauseInv

(* What the validator does between its calls: it asks for the next one, or *)
(* ends with a cause.                                                      *)
LEMMA CauseGoesOn ==
  ASSUME WithinReach, ValidatorInv, CourseInv, CauseInv, client # "user",
         CheckDefinitions \/ Evaluate \/ \E p \in Points : Sample(p) \/ Again(p)
  PROVE  CauseInv'
<1>1. /\ adv \in Advs /\ verdict # "reject" /\ point \in Points
      /\ Done /\ at \in {"scan", "box", "sample", "cost", "belief"}
  BY DEF ValidatorInv, ValidatorTypeOK, TypeInv, CheckDefinitions, Evaluate, Sample, Again,
     Returned, Done
<1>2. CASE CheckDefinitions
  <2>1. CASE Defined(offer)
    <3>1. /\ Ask("hull", profile, {}) /\ at' = "box"
          /\ UNCHANGED <<client, offer, verdict, point>>
      BY <1>2, <2>1 DEF CheckDefinitions, Goes
    <3>2. point' \in Points
      BY <1>1, <3>1
    <3> QED
      BY <1>1, <3>1, <3>2, CauseAsks
  <2>2. CASE ~Defined(offer)
    <3>1. /\ Conclude("reject") /\ at = "scan" /\ phase = "idle"
      BY <1>2, <2>2 DEF CheckDefinitions, Returned
    <3>2. /\ UNCHANGED <<adv, realRefs, setRefs, phase, outcome, client, offer>>
          /\ at' = "end"
      BY <3>1 DEF Conclude, vars
    <3>3. Sane' = Sane /\ SetsOwn' = SetsOwn /\ Cause'
      BY <2>2, <3>2 DEF Sane, SetsOwn, Cause, Defined
    <3> QED
      BY <3>2, <3>3 DEF CauseInv
  <2> QED
    BY <2>1, <2>2
<1>3. CASE Evaluate
  <2>1. /\ at = "sample" /\ answer /\ UNCHANGED <<client, offer, verdict, point>>
        /\ \/ Ask("eval", cost, Given) /\ at' = "cost"
           \/ Ask("hull", belief, Given) /\ at' = "belief"
    BY <1>3 DEF Evaluate, Returned, Goes
  <2>2. point' \in Feasible[adv] /\ point' \in Points
    BY <1>1, <2>1 DEF CourseInv, Samples
  <2>3. CASE Ask("eval", cost, Given) /\ at' = "cost"
    BY <1>1, <2>1, <2>2, <2>3, CauseAsks
  <2>4. CASE Ask("hull", belief, Given) /\ at' = "belief"
    BY <1>1, <2>1, <2>2, <2>4, CauseAsks
  <2> QED
    BY <2>1, <2>3, <2>4
<1>4. CASE \E p \in Points : Sample(p) \/ Again(p)
  <2>1. PICK p \in Points : Draw(p)
    BY <1>4 DEF Sample, Again
  <2>2. /\ Ask("member", profile, {}) /\ at' = "sample" /\ point' \in Points
        /\ UNCHANGED <<client, offer, verdict>>
    BY <2>1 DEF Draw, Goes
  <2> QED
    BY <1>1, <2>2, CauseAsks
<1> QED
  BY <1>2, <1>3, <1>4

(* It begins with a scan, or rejects what is no advertisement.             *)
LEMMA CauseStarts ==
  ASSUME ValidatorInv, CauseInv, Start
  PROVE  CauseInv'
<1>1. client # "user" /\ adv = offer.adv /\ verdict = "none"
  BY DEF Start, Conclude, ValidatorInv, ValidatorTypeOK
<1>2. UNCHANGED <<adv, realRefs, setRefs, client, offer>>
  BY <1>1 DEF Start, Conclude, Goes, setAdv, Construct, vars, refs
<1>3. Sane' = Sane /\ SetsOwn' = SetsOwn
  BY <1>2 DEF Sane, SetsOwn
<1>4. CASE Conclude("reject")
  <2>1. client = "buffer" /\ ~offer.isAdv /\ at' = "end"
    BY <1>1, <1>4 DEF Start, Conclude, Goes
  <2> QED
    BY <1>2, <1>3, <2>1 DEF CauseInv, Cause
<1>5. CASE ~Conclude("reject")
  <2>1. at' = "scan" /\ verdict' = "none" /\ phase' \in {"constructing", "running"}
    BY <1>1, <1>5 DEF Start, Goes, setAdv, Construct
  <2> QED
    BY <1>2, <1>3, <2>1 DEF CauseInv
<1> QED
  BY <1>4, <1>5

(* A call that raises an error does so for its depth only.                 *)
LEMMA CauseEnds ==
  ASSUME ValidatorInv, CourseInv, CauseInv, Failed \/ Accept
  PROVE  CauseInv'
<1>1. /\ client # "user" /\ at # "end" /\ UNCHANGED vars /\ UNCHANGED <<client, offer>>
      /\ at' = "end"
  BY DEF Failed, Accept, Conclude, Returned
<1>2. UNCHANGED <<adv, realRefs, setRefs, phase, outcome>>
  BY <1>1 DEF vars
<1>3. Sane' = Sane /\ SetsOwn' = SetsOwn /\ Cause' = Cause
  BY <1>1, <1>2 DEF Sane, SetsOwn, Cause
<1> SUFFICES ASSUME Sane, verdict' = "reject" PROVE Cause
  BY <1>1, <1>3 DEF CauseInv
<1>4. phase \in {"idle", "dead"} /\ outcome # "ok"
  BY DEF Failed, Accept, Conclude
<1>5. at \in {"scan", "box", "sample", "cost", "belief"}
  BY <1>1, <1>4 DEF ValidatorInv, ValidatorTypeOK, CourseInv
<1>6. Ended
  <2>1. CASE at = "scan"
    BY <1>1, <1>4, <2>1 DEF CauseInv
  <2>2. CASE at # "scan"
    <3>1. at \in {"box", "sample", "cost", "belief"}
      BY <1>5, <2>2
    <3>2. phase = "idle"
      BY <1>1, <1>4, <3>1 DEF CourseInv
    <3> QED
      BY <1>1, <3>1, <3>2 DEF CauseInv
  <2> QED
    BY <2>1, <2>2
<1> QED
  BY <1>4, <1>6 DEF Ended, Cause

(* So a cause is all there is, at each step.                               *)
LEMMA CauseKeeps ==
  ASSUME WithinReach, ValidatorInv, CourseInv, CauseInv, [ValidatorNext]_allvars
  PROVE  CauseInv'
<1>1. CASE Interpret
  <2>1. CASE client = "user"
    BY <1>1, <2>1 DEF Interpret, check, CauseInv
  <2>2. CASE client # "user" /\ at = "scan"
    BY <1>1, <2>2, CauseScans
  <2>3. CASE client # "user" /\ at \in {"box", "sample", "cost", "belief"}
    BY <1>1, <2>3, CauseRuns
  <2>4. CASE client # "user" /\ at \in {"start", "end"}
    <3>1. phase \in {"constructing", "running"}
      BY <1>1, StepRuns DEF ValidatorInv, CourseInv, Interpret
    <3> QED
      BY <2>4, <3>1 DEF CourseInv
  <2> QED
    BY <2>1, <2>2, <2>3, <2>4 DEF ValidatorInv, ValidatorTypeOK
<1>2. CASE Free
  BY <1>2 DEF Free, check, CauseInv
<1>3. CASE Failed \/ Accept
  BY <1>3, CauseEnds
<1>4. CASE Start
  BY <1>4, CauseStarts
<1>5. CASE CheckDefinitions \/ Evaluate \/ \E p \in Points : Sample(p) \/ Again(p)
  <2>1. client # "user"
    BY <1>5 DEF CheckDefinitions, Evaluate, Sample, Again, Returned
  <2> QED
    BY <1>5, <2>1, CauseGoesOn
<1>6. CASE UNCHANGED allvars
  <2>1. /\ UNCHANGED <<client, offer, verdict, at, point, done>>
        /\ UNCHANGED <<adv, realRefs, setRefs, values, stack, answer, phase, outcome>>
    BY <1>6 DEF allvars, check, vars
  <2>2. /\ Sane' = Sane /\ SetsOwn' = SetsOwn /\ Cause' = Cause /\ Values' = Values
        /\ Reach' = Reach /\ Yes' = Yes /\ Ended' = Ended /\ Solvable' = Solvable
    BY <2>1 DEF Sane, SetsOwn, Cause, Values, Reach, Yes, Part, Ended, Solvable
  <2> QED
    BY <2>1, <2>2 DEF CauseInv
<1> QED
  BY <1>1, <1>2, <1>3, <1>4, <1>5, <1>6 DEF ValidatorNext, Validate

(* At first there is nothing in the maps, and no verdict.                  *)
LEMMA CauseBegins == ValidatorInit => CauseInv
  BY DEF ValidatorInit, Init, CauseInv, SetsOwn

(* Nothing is rejected without cause, if no advertisement nests deeper     *)
(* than the limit: not an advertisement, a part or half a setpoint         *)
(* missing, something in it that cannot be resolved, a set whose linear    *)
(* programs have no solution, or a call that entered more functions than   *)
(* the limit on depth (AdvValidator).                                      *)
THEOREM RejectedForCauseCorrect ==
  ASSUME WithinReach
  PROVE  ValidatorSpec => []RejectedForCause
<1>1. ValidatorInv /\ CauseInv /\ CountInv => RejectedForCause
  <2> SUFFICES ASSUME ValidatorInv, CauseInv, CountInv, verdict = "reject"
               PROVE RejectedForCause
    BY DEF RejectedForCause
  <2>1. client # "user"
    BY DEF ValidatorInv
  <2>2. CASE ~Sane
    BY <2>2 DEF Sane, RejectedForCause, Given
  <2>3. CASE Sane
    <3>1. Cause
      BY <2>1, <2>3 DEF CauseInv
    <3>2. outcome = "depth" /\ phase \in {"idle", "dead"} => visits > MAX_NESTING_DEPTH
      BY DEF CountInv, LimitPerCall
    <3> QED
      BY <3>1, <3>2 DEF Cause, Defined, RejectedForCause
  <2> QED
    BY <2>2, <2>3
<1>2. ValidatorInit => CountInv
  BY DEF ValidatorInit, Init, CountInv, Counted, LimitPerCall
<1>3. ValidatorInv /\ CountInv /\ [ValidatorNext]_allvars => CountInv'
  BY ValidatorMoves, MovesCount
<1>4. ValidatorInv /\ CourseInv /\ CauseInv /\ [ValidatorNext]_allvars => CauseInv'
  BY CauseKeeps
<1> QED
  BY <1>1, <1>2, <1>3, <1>4, ValidatorStarts, ValidatorKeeps, CourseBegins, CourseKeeps,
     CauseBegins, PTL DEF ValidatorSpec
==============================================================================
