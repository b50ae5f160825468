------------------------------- MODULE Raster --------------------------------
(***************************************************************************)
(* A picture of a cost function: the visualization server evaluates it on  *)
(* a grid over the PQ profile and compresses the matrix                    *)
(* (utils/visualization_server.cpp, renderCostFunction), the client        *)
(* uncompresses and reshapes it (utils/viz-user.py).  Numbers are integers,*)
(* two of which stand for NaN and for -1.0 + epsilon.                      *)
(***************************************************************************)
EXTENDS Integers, Sequences

CONSTANTS
  Costs,          \* values of the cost function
  NaN,            \* stands for not-a-number
  NearMinusOne,   \* stands for -1.0 + epsilon
  Hulls,          \* per axis: [min, max] of the PQ profile's bounding box
  Sizes           \* numbers a client asks for: pixels, or units per pixel

Axis == {"P", "Q"}

ASSUME NumbersAssumption ==
  /\ Costs \subseteq Int
  /\ NaN \in Int \ (Costs \cup {0, -1})
  /\ NearMinusOne \in Int \ {0, -1, NaN}
ASSUME GridAssumption ==
  /\ \A a \in Axis : Hulls[a] \subseteq {h \in Int \X Int : h[1] <= h[2]}
  /\ Sizes \subseteq Nat \ {0}

Request ==
  [kind : {"dim", "res"}, size : [Axis -> Sizes]]
    \cup {[kind |-> "none"]}
CompressVals == {0, -1}

VARIABLES
  pc,         \* "grid" | "compress" | "uncompress" | "drawn"
              \*   | "no_picture" (KeyError) | "index_error" | "aborted"
  request, hull,
  dim,        \* per axis: points of the grid
  m,          \* the rasterized cost function, column by column
  i, count, activeVal,
  result,     \* the JSON array
  k, output   \* the client's index into it, and what it has made of it

vars == <<pc, request, hull, dim, m, i, count, activeVal, result, k, output>>

TypeOK ==
  /\ pc \in {"grid", "compress", "uncompress", "drawn",
             "no_picture", "index_error", "aborted"}
  /\ dim \in [Axis -> Nat]
  /\ m \in Seq(Costs \cup {NaN})
  /\ i \in 0 .. Len(m) /\ count \in 0 .. i
  /\ activeVal \in CompressVals
  /\ result \in Seq(Int) /\ Len(result) <= 2 * i
  /\ k \in 1 .. Len(result) + 1
  /\ output \in Seq(Int)

Init ==
  /\ pc = "grid"
  /\ request \in Request
  /\ hull \in [Axis -> Hulls["P"] \cup Hulls["Q"]]
  /\ \A a \in Axis : hull[a] \in Hulls[a]
  /\ dim = [a \in Axis |-> 0]
  /\ m = <<>> /\ i = 0 /\ count = 0
  /\ activeVal = 0          \* uninitialised, and set before it is read
  /\ result = <<>> /\ k = 1 /\ output = <<>>

------------------------------------------------------------------------------
(* The grid.  With a resolution it is widened to multiples of it, and has  *)
(* as many points as steps between them.                                   *)

Floor(x, r) == x \div r
Ceil(x, r) == -((-x) \div r)

Points(a) ==
  IF request.kind = "dim" THEN request.size[a]
  ELSE Ceil(hull[a][2], request.size[a]) - Floor(hull[a][1], request.size[a])

\* Neither a size nor a resolution: a reply without "cf", which the client
\* looks up.
NoGrid ==
  /\ pc = "grid" /\ request.kind = "none"
  /\ pc' = "no_picture"
  /\ UNCHANGED <<request, hull, dim, m, i, count, activeVal, result, k, output>>

(* Every point is in the PQ profile and has a cost, or is NaN.  The reply  *)
(* reads p(0), p(1), q(0) and q(1): with fewer than two points that is     *)
(* outside the vector, which may be caught by an assertion.                *)
Rasterize ==
  /\ pc = "grid" /\ request.kind # "none"
  /\ dim' = [a \in Axis |-> Points(a)]
  /\ m' \in [1 .. Points("P") * Points("Q") -> Costs \cup {NaN}]
  /\ \/ pc' = "compress"
     \/ (\E a \in Axis : Points(a) < 2) /\ pc' = "aborted"
  /\ UNCHANGED <<request, hull, i, count, activeVal, result, k, output>>

------------------------------------------------------------------------------
(* runlengthCompress, one iteration of its loop at a time.                 *)

\* MUTANT: a cost of -1.0 is left alone.
DatumPlain(x) == IF x = NaN THEN -1 ELSE x

Datum(x) == IF x = -1 THEN NearMinusOne ELSE IF x = NaN THEN -1 ELSE x

Loop == pc = "compress" /\ i < Len(m)

\* The value at i continues the run.
Continue ==
  /\ Loop /\ count > 0 /\ Datum(m[i + 1]) = activeVal
  /\ count' = count + 1 /\ i' = i + 1
  /\ UNCHANGED <<activeVal, result>>

\* MUTANT: the value that ended the run is not looked at again.
EndRunNoRewind ==
  /\ Loop /\ count > 0 /\ Datum(m[i + 1]) # activeVal
  /\ result' = result \o <<activeVal, count>>
  /\ count' = 0 /\ i' = i + 1
  /\ UNCHANGED activeVal

\* MUTANT: the run is written and goes on.
EndRunNoReset ==
  /\ Loop /\ count > 0 /\ Datum(m[i + 1]) # activeVal
  /\ result' = IF Len(result) < 2 * Len(m)
                 THEN result \o <<activeVal, count>> ELSE result
  /\ UNCHANGED <<i, activeVal, count>>

\* It ends the run: it is rewound and looked at again.
EndRun ==
  /\ Loop /\ count > 0 /\ Datum(m[i + 1]) # activeVal
  /\ result' = result \o <<activeVal, count>>
  /\ count' = 0
  /\ UNCHANGED <<i, activeVal>>

StartRun ==
  /\ Loop /\ count = 0 /\ Datum(m[i + 1]) \in CompressVals
  /\ activeVal' = Datum(m[i + 1])
  /\ count' = 1 /\ i' = i + 1
  /\ UNCHANGED result

Ordinary ==
  /\ Loop /\ count = 0 /\ Datum(m[i + 1]) \notin CompressVals
  /\ result' = Append(result, Datum(m[i + 1]))
  /\ i' = i + 1
  /\ UNCHANGED <<count, activeVal>>

\* "terminate properly": the last run; the reply goes to the client.
Finish ==
  /\ pc = "compress" /\ i = Len(m)
  /\ result' = IF count > 0 THEN result \o <<activeVal, count>> ELSE result
  /\ pc' = "uncompress"
  /\ UNCHANGED <<i, count, activeVal>>

Compress ==
  /\ \/ Finish
     \/ (Continue \/ EndRun \/ StartRun \/ Ordinary) /\ UNCHANGED pc
  /\ UNCHANGED <<request, hull, dim, m, k, output>>

------------------------------------------------------------------------------
(* uncompress, one iteration at a time, and the reshaping.                 *)

Copies(v, n) == [x \in 1 .. n |-> v]

\* MUTANT: the format as the docstring has it, with 1.0 for -1.0.
IsRunDocumented(v) == v \in {1, 0}

IsRun(v) == v \in {-1, 0}

Expand ==
  /\ pc = "uncompress" /\ k <= Len(result)
  /\ IF ~IsRun(result[k])
       THEN /\ output' = Append(output, result[k])
            /\ k' = k + 1 /\ UNCHANGED pc
     ELSE IF k < Len(result)
       THEN /\ output' = output \o Copies(IF result[k] = -1 THEN NaN ELSE result[k],
                                          result[k + 1])
            /\ k' = k + 2 /\ UNCHANGED pc
     ELSE pc' = "index_error" /\ UNCHANGED <<output, k>>
  /\ UNCHANGED <<request, hull, dim, m, i, count, activeVal, result>>

Draw ==
  /\ pc = "uncompress" /\ k = Len(result) + 1
  /\ pc' = "drawn"
  /\ UNCHANGED <<request, hull, dim, m, i, count, activeVal, result, k, output>>

\* M[q][p] of the client and m(p, q) of the server, from 0.
Pixel(p, q) == output[q * dim["P"] + p + 1]
Cost(p, q) == m[p + q * dim["P"] + 1]

Next == NoGrid \/ Rasterize \/ Compress \/ Expand \/ Draw

\* Both loops run until they end; the connection between them holds.
Spec == Init /\ [][Next]_vars /\ WF_vars(Next)

------------------------------------------------------------------------------
(* The picture the client draws is the one the server rendered, pixel by   *)
(* pixel, NaN included, but for costs of -1.0, which come out a little     *)
(* larger (runlengthCompress against uncompress and its reshape).          *)
PictureFaithful ==
  pc = "drawn" =>
    /\ Len(output) = dim["P"] * dim["Q"]
    /\ \A p \in 0 .. dim["P"] - 1, q \in 0 .. dim["Q"] - 1 :
         Pixel(p, q) = IF Cost(p, q) = -1 THEN NearMinusOne ELSE Cost(p, q)

(* A request that names a grid of two points or more each way is drawn in  *)
(* the end: the rewinding loop of runlengthCompress ends, and the client   *)
(* never looks past the end of the array for a count.                      *)
Drawn ==
  (pc = "grid" /\ request.kind # "none" /\ \A a \in Axis : Points(a) > 1)
    ~> pc = "drawn"
==============================================================================
