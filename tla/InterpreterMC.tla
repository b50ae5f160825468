---------------------------- MODULE InterpreterMC ----------------------------
(***************************************************************************)
(* Small advertisements: one line per expression (kind, name, what it      *)
(* refers to or its variable, subexpressions).                             *)
(***************************************************************************)
EXTENDS Interpreter

Line(kind, name, to, kids) ==
  [kind |-> kind, name |-> name, to |-> to, kids |-> kids]

Leaf(kind, to) == Line(kind, "", to, <<>>)

Lines == <<
  Leaf("singleton", ""),                           \* 1: the default reader
  Leaf("real", ""),                                \* 2
  Leaf("variable", "P"),                           \* 3
  Leaf("variable", "Z"),                           \* 4: never bound
  Leaf("polynomial", "P"),                         \* 5
  Leaf("reference", "a"),                          \* 6
  Leaf("reference", "b"),                          \* 7
  Leaf("setref", "S"),                             \* 8
  \* 9-12: a ball, a polytope and a rectangle, and their intersection
  Line("ball", "", "", <<2, 2>>),
  Line("polytope", "", "", <<2, 3>>),
  Line("rectangle", "", "", <<2, 3, 2, 2>>),
  Line("intersection", "S", "", <<11, 10>>),
  \* 13-17: costs, with the name a and without
  Line("prod2", "a", "", <<3, 5>>),
  Line("min", "", "", <<13, 6>>),
  Line("curved", "a", "", <<3>>),
  Line("less", "", "", <<15, 4>>),
  Line("linear", "a", "", <<7>>),
  \* 18-20: a runs through b back to a
  Line("sum", "b", "", <<2, 6>>),
  Line("prod", "", "", <<17, 18>>),
  Line("sign", "", "", <<27>>),
  \* 21-24: case distinctions, one with names inside its set and its case
  Line("singleton", "S", "", <<13, 2>>),
  Line("case", "", "P", <<21, 7, 8, 18>>),
  Line("case", "", "Z", <<21, 2>>),
  Line("setcase", "", "", <<12, 11>>),
  \* 25-26: a set inside itself
  Line("intersection", "S", "", <<8>>),
  Line("case", "", "P", <<8, 2>>),
  \* 27-29: a reference to nothing, more sets
  Leaf("reference", "c"),
  Line("rectangle", "", "", <<2, 2>>),
  Line("intersection", "", "", <<9, 28>>),
  \* 30-33: sets that depend on P and Q
  Leaf("variable", "Q"),
  Line("rectangle", "", "", <<3, 30, 2, 3>>),
  Line("ball", "", "", <<30, 2>>),
  Line("intersection", "", "", <<31, 32>>),
  \* 34-38: a set that depends on nothing, and costs by cases
  Line("polytope", "", "", <<2, 2>>),
  Line("intersection", "R", "", <<34, 28>>),
  Leaf("setref", "R"),
  Line("case", "", "P", <<9, 13, 36, 14>>),
  Line("case", "", "P", <<9, 13>>),
  Line("singleton", "", "", <<2, 2>>),             \* 39: has no volume
  \* 40-43: a ragged matrix, inside an intersection too; an unbounded
  \* polytope, and one that a rectangle bounds
  Line("polytope", "", "", <<2, 2>>),
  Line("intersection", "", "", <<28, 40>>),
  Line("polytope", "", "", <<2, 2>>),
  Line("intersection", "", "", <<42, 28>>)
>>

MCNode == DOMAIN Lines
MCKind == [n \in MCNode |-> Lines[n].kind]
MCKids == [n \in MCNode |-> Lines[n].kids]
MCName == [n \in MCNode |-> Lines[n].name]
MCTo == [n \in MCNode |-> Lines[n].to]
MCEmpty == 1
MCRagged == {40}

\* Profile, belief function and cost function.
MCAdvs == {<<12, 11, 14>>, <<29, 8, 16>>, <<9, 24, 19>>, <<10, 28, 22>>,
           <<28, 23, 20>>}
MCCyclic == {<<25, 28, 26>>}
==============================================================================
