----------------------------- MODULE RasterProofs -----------------------------
(* Theorems about Raster: for every cost function, grid and size, what the *)
(* client uncompresses is what the server rendered.                        *)
EXTENDS Raster, TLAPS, SequenceTheorems

------------------------------------------------------------------------------
(* Values.                                                                 *)

\* What the client should show for a value.
Shown(x) == IF x = -1 THEN NearMinusOne ELSE x

\* What it makes of the array element that begins a run, or of another.
Undone(v) == IF v = -1 THEN NaN ELSE v

(* Compressing a value and undoing it shows it, and only zero and NaN      *)
(* begin runs.                                                             *)
LEMMA DatumUndone ==
  ASSUME NEW x \in Costs \cup {NaN}
  PROVE  /\ Datum(x) \in Int /\ Undone(Datum(x)) = Shown(x)
         /\ IsRun(Datum(x)) <=> Datum(x) \in CompressVals
BY NumbersAssumption DEF Datum, Undone, Shown, IsRun, CompressVals

(* An axis has no negative number of points.                               *)
LEMMA PointsNat ==
  ASSUME NEW lo \in Int, NEW hi \in Int, lo <= hi, NEW r \in Nat \ {0}
  PROVE  Ceil(hi, r) - Floor(lo, r) \in Nat
<1> DEFINE f == lo \div r
           g == (-hi) \div r
<1>1. f \in Int /\ g \in Int
  OBVIOUS
<1>2. r * f <= lo /\ r * g <= -hi
  OBVIOUS
<1> HIDE DEF f, g
<1>3. r * (f + g) <= 0
  <2>1. r * (f + g) = r * f + r * g
    BY <1>1
  <2>2. r * f \in Int /\ r * g \in Int
    BY <1>1
  <2> QED
    BY <1>2, <2>1, <2>2
<1>4. f + g <= 0
  <2>1. SUFFICES ASSUME f + g > 0 PROVE FALSE
    BY <1>1
  <2>2. r * (f + g) > 0
    BY <1>1, <2>1
  <2> QED
    BY <1>1, <1>3, <2>2
<1> QED
  BY <1>1, <1>4 DEF Ceil, Floor, f, g

(* A pixel's index is one of the matrix.                                   *)
LEMMA IndexInside ==
  ASSUME NEW w \in Nat, NEW h \in Nat, NEW p \in 0 .. w - 1, NEW q \in 0 .. h - 1
  PROVE  /\ q * w + p + 1 \in 1 .. w * h
         /\ p + q * w + 1 = q * w + p + 1
<1>1. q * w \in Nat /\ w * h \in Nat
  OBVIOUS
<1>2. q * w + w <= w * h
  <2>1. q + 1 <= h /\ q + 1 \in Nat
    OBVIOUS
  <2>2. (q + 1) * w <= h * w
    BY <2>1
  <2> QED
    BY <2>2
<1> QED
  BY <1>1, <1>2

------------------------------------------------------------------------------
(* The array is accounted for by a ledger: pairs of a place in it and the  *)
(* number of values before that place.  From each place but the last one   *)
(* leads to the next, and says which values the element there stands for.  *)

\* One element for one value.
Single(L, v, r, e) ==
  /\ ~IsRun(r[e[1]])
  /\ e[1] <= Len(r) /\ e[2] < Len(v)
  /\ <<e[1] + 1, e[2] + 1>> \in L
  /\ r[e[1]] = Shown(v[e[2] + 1])

\* Two elements for a run.
Run(L, v, r, e) ==
  /\ IsRun(r[e[1]])
  /\ e[1] < Len(r) /\ r[e[1] + 1] \in Nat /\ e[2] + r[e[1] + 1] <= Len(v)
  /\ <<e[1] + 2, e[2] + r[e[1] + 1]>> \in L
  /\ \A x \in 1 .. r[e[1] + 1] : Undone(r[e[1]]) = Shown(v[e[2] + x])

Ledger(L, v, r, last) ==
  /\ L \subseteq (Nat \ {0}) \X (0 .. Len(v))
  /\ <<1, 0>> \in L
  /\ last \in L /\ last[1] = Len(r) + 1
  /\ \A e \in L : e # last => e[1] <= Len(r) /\ (Single(L, v, r, e) \/ Run(L, v, r, e))

Accounted(v, r, last) == \E L : Ledger(L, v, r, last)

LEMMA LedgerStarts ==
  ASSUME NEW v \in Seq(Int)
  PROVE  Accounted(v, <<>>, <<1, 0>>)
<1>1. Ledger({<<1, 0>>}, v, <<>>, <<1, 0>>)
  BY LenProperties DEF Ledger
<1> QED
  BY <1>1 DEF Accounted

(* Entries stay what they are when the array grows.                        *)
LEMMA EntryKept ==
  ASSUME NEW v \in Seq(Int), NEW r \in Seq(Int), NEW r2 \in Seq(Int),
         Len(r) <= Len(r2), \A x \in 1 .. Len(r) : r2[x] = r[x],
         NEW L, NEW M, L \subseteq M,
         NEW e \in (Nat \ {0}) \X (0 .. Len(v)),
         e[1] <= Len(r), Single(L, v, r, e) \/ Run(L, v, r, e)
  PROVE  Single(M, v, r2, e) \/ Run(M, v, r2, e)
<1>0. Len(r) \in Nat /\ Len(r2) \in Nat /\ e[1] \in Nat \ {0}
  BY LenProperties
<1>1. r2[e[1]] = r[e[1]]
  BY <1>0
<1>2. CASE Single(L, v, r, e)
  BY <1>0, <1>1, <1>2 DEF Single
<1>3. CASE Run(L, v, r, e)
  <2>1. e[1] < Len(r)
    BY <1>3 DEF Run
  <2>2. e[1] + 1 \in 1 .. Len(r)
    BY <1>0, <2>1
  <2>3. r2[e[1] + 1] = r[e[1] + 1]
    BY <2>2
  <2>4. e[1] < Len(r2)
    BY <1>0, <2>1
  <2> QED
    BY <1>1, <1>3, <2>3, <2>4 DEF Run
<1> QED
  BY <1>2, <1>3

(* Writing one value or a run adds an entry.                               *)
LEMMA LedgerGrows ==
  ASSUME NEW v \in Seq(Int), NEW r \in Seq(Int), NEW r2 \in Seq(Int),
         Len(r) < Len(r2), \A x \in 1 .. Len(r) : r2[x] = r[x],
         NEW n \in 0 .. Len(v), NEW n2 \in 0 .. Len(v),
         Accounted(v, r, <<Len(r) + 1, n>>),
         \A M : <<Len(r2) + 1, n2>> \in M =>
           \/ Single(M, v, r2, <<Len(r) + 1, n>>)
           \/ Run(M, v, r2, <<Len(r) + 1, n>>)
  PROVE  Accounted(v, r2, <<Len(r2) + 1, n2>>)
<1>0. Len(r) \in Nat /\ Len(r2) \in Nat /\ Len(v) \in Nat
  BY LenProperties
<1> DEFINE last == <<Len(r) + 1, n>>
           new == <<Len(r2) + 1, n2>>
<1>1. PICK L : Ledger(L, v, r, last)
  BY DEF Accounted
<1> DEFINE M == L \cup {new}
<1>2. M \subseteq (Nat \ {0}) \X (0 .. Len(v)) /\ <<1, 0>> \in M /\ new \in M
  BY <1>0, <1>1 DEF Ledger
<1>a. L \subseteq M
  OBVIOUS
<1> HIDE DEF M
<1>b. Single(M, v, r2, last) \/ Run(M, v, r2, last)
  BY <1>2
<1>3. ASSUME NEW e \in M, e # new
      PROVE  e[1] <= Len(r2) /\ (Single(M, v, r2, e) \/ Run(M, v, r2, e))
  <2>1. e \in L /\ e \in (Nat \ {0}) \X (0 .. Len(v))
    BY <1>1, <1>3 DEF Ledger, M
  <2>2. CASE e = last
    <3>1. e[1] <= Len(r2)
      BY <1>0, <2>2
    <3> QED
      BY <1>b, <2>2, <3>1
  <2>3. CASE e # last
    <3>1. e[1] <= Len(r) /\ (Single(L, v, r, e) \/ Run(L, v, r, e))
      BY <1>1, <2>1, <2>3 DEF Ledger
    <3>0. Len(r) <= Len(r2)
      BY <1>0
    <3>2. Single(M, v, r2, e) \/ Run(M, v, r2, e)
      BY <1>a, <2>1, <3>0, <3>1, EntryKept
    <3> QED
      BY <1>0, <2>1, <3>1, <3>2
  <2> QED
    BY <2>2, <2>3
<1>4. Ledger(M, v, r2, new)
  BY <1>2, <1>3 DEF Ledger
<1> QED
  BY <1>4 DEF Accounted

LEMMA ValuesAreInts ==
  ASSUME NEW v \in Seq(Costs \cup {NaN})
  PROVE  v \in Seq(Int)
<1>1. v \in [1 .. Len(v) -> Costs \cup {NaN}] /\ Len(v) \in Nat
  BY LenProperties
<1>2. Costs \cup {NaN} \subseteq Int
  BY NumbersAssumption
<1>3. v \in [1 .. Len(v) -> Int]
  BY <1>1, <1>2
<1> QED
  BY <1>1, <1>3

LEMMA WriteValue ==
  ASSUME NEW v \in Seq(Costs \cup {NaN}), NEW r \in Seq(Int),
         NEW n \in 0 .. Len(v) - 1, Accounted(v, r, <<Len(r) + 1, n>>),
         ~IsRun(Datum(v[n + 1]))
  PROVE  LET r2 == Append(r, Datum(v[n + 1]))
         IN  Accounted(v, r2, <<Len(r2) + 1, n + 1>>)
<1> DEFINE w == Datum(v[n + 1])
           r2 == Append(r, w)
<1>0. Len(r) \in Nat /\ Len(v) \in Nat /\ v \in Seq(Int)
  BY LenProperties, ValuesAreInts
<1>1. v[n + 1] \in Costs \cup {NaN}
  BY <1>0, ElementOfSeq
<1>2. w \in Int /\ w = Shown(v[n + 1])
  BY <1>1, DatumUndone DEF Undone, IsRun
<1> HIDE DEF w
<1>3. /\ r2 \in Seq(Int) /\ Len(r2) = Len(r) + 1 /\ r2[Len(r) + 1] = w
      /\ \A x \in 1 .. Len(r) : r2[x] = r[x]
  BY <1>2, AppendProperties
<1> HIDE DEF r2
<1>4. ASSUME NEW M, <<Len(r2) + 1, n + 1>> \in M
      PROVE  Single(M, v, r2, <<Len(r) + 1, n>>)
  BY <1>0, <1>2, <1>3, <1>4 DEF Single, w
<1>5. n \in 0 .. Len(v) /\ n + 1 \in 0 .. Len(v) /\ Len(r) < Len(r2)
  BY <1>0, <1>3
<1>6. Accounted(v, r2, <<Len(r2) + 1, n + 1>>)
  BY <1>0, <1>3, <1>4, <1>5, LedgerGrows
<1> QED
  BY <1>6 DEF r2, w

LEMMA WriteRun ==
  ASSUME NEW v \in Seq(Costs \cup {NaN}), NEW r \in Seq(Int),
         NEW n \in 0 .. Len(v), NEW c \in Nat, n + c <= Len(v), NEW a \in CompressVals,
         \A x \in 1 .. c : Datum(v[n + x]) = a,
         Accounted(v, r, <<Len(r) + 1, n>>)
  PROVE  LET r2 == r \o <<a, c>>
         IN  /\ r2 \in Seq(Int) /\ Len(r2) = Len(r) + 2
             /\ Accounted(v, r2, <<Len(r2) + 1, n + c>>)
<1> DEFINE r2 == r \o <<a, c>>
<1>0. Len(r) \in Nat /\ Len(v) \in Nat /\ v \in Seq(Int)
  BY LenProperties, ValuesAreInts
<1>1. /\ r2 \in Seq(Int) /\ Len(r2) = Len(r) + 2
      /\ r2[Len(r) + 1] = a /\ r2[Len(r) + 2] = c
      /\ \A x \in 1 .. Len(r) : r2[x] = r[x]
  BY <1>0 DEF CompressVals
<1> HIDE DEF r2
<1>2. \A x \in 1 .. c : Undone(a) = Shown(v[n + x])
  <2> SUFFICES ASSUME NEW x \in 1 .. c PROVE Undone(a) = Shown(v[n + x])
    OBVIOUS
  <2>1. v[n + x] \in Costs \cup {NaN}
    BY <1>0, ElementOfSeq
  <2> QED
    BY <2>1, DatumUndone
<1>3. ASSUME NEW M, <<Len(r2) + 1, n + c>> \in M
      PROVE  Run(M, v, r2, <<Len(r) + 1, n>>)
  <2>1. IsRun(a) /\ Len(r) + 1 < Len(r2) /\ <<Len(r) + 1 + 2, n + c>> \in M
    BY <1>0, <1>1, <1>3 DEF IsRun, CompressVals
  <2>2. r2[Len(r) + 1] = a /\ r2[Len(r) + 1 + 1] = c
    BY <1>0, <1>1
  <2>3. c \in Nat /\ n + c <= Len(v)
    OBVIOUS
  <2> QED
    BY <1>2, <2>1, <2>2, <2>3 DEF Run
<1>4. n + c \in 0 .. Len(v) /\ Len(r) < Len(r2)
  BY <1>0, <1>1
<1>5. Accounted(v, r2, <<Len(r2) + 1, n + c>>)
  BY <1>0, <1>1, <1>3, <1>4, LedgerGrows
<1> QED
  BY <1>1, <1>5 DEF r2

------------------------------------------------------------------------------
(* The client follows the ledger.                                          *)

\* Before the element at place the client has put out n values.
Followed(v, r, place, n) ==
  \E L : Ledger(L, v, r, <<Len(r) + 1, Len(v)>>) /\ <<place, n>> \in L

LEMMA FollowStarts ==
  ASSUME NEW v, NEW r, Accounted(v, r, <<Len(r) + 1, Len(v)>>)
  PROVE  Followed(v, r, 1, 0)
BY DEF Accounted, Followed, Ledger

LEMMA FollowOne ==
  ASSUME NEW v \in Seq(Int), NEW r \in Seq(Int), NEW p \in Nat \ {0}, NEW n \in Nat,
         Followed(v, r, p, n), p <= Len(r), ~IsRun(r[p])
  PROVE  /\ n < Len(v) /\ r[p] = Shown(v[n + 1])
         /\ Followed(v, r, p + 1, n + 1)
<1>1. PICK L : Ledger(L, v, r, <<Len(r) + 1, Len(v)>>) /\ <<p, n>> \in L
  BY DEF Followed
<1>2. <<p, n>> # <<Len(r) + 1, Len(v)>>
  BY LenProperties
<1>3. Single(L, v, r, <<p, n>>)
  BY <1>1, <1>2 DEF Ledger, Run
<1> QED
  BY <1>1, <1>3 DEF Single, Followed

LEMMA FollowRun ==
  ASSUME NEW v \in Seq(Int), NEW r \in Seq(Int), NEW p \in Nat \ {0}, NEW n \in Nat,
         Followed(v, r, p, n), p <= Len(r), IsRun(r[p])
  PROVE  /\ p < Len(r) /\ r[p + 1] \in Nat /\ n + r[p + 1] <= Len(v)
         /\ \A x \in 1 .. r[p + 1] : Undone(r[p]) = Shown(v[n + x])
         /\ Followed(v, r, p + 2, n + r[p + 1])
<1>1. PICK L : Ledger(L, v, r, <<Len(r) + 1, Len(v)>>) /\ <<p, n>> \in L
  BY DEF Followed
<1>2. <<p, n>> # <<Len(r) + 1, Len(v)>>
  BY LenProperties
<1>3. Run(L, v, r, <<p, n>>)
  BY <1>1, <1>2 DEF Ledger, Single
<1> QED
  BY <1>1, <1>3 DEF Run, Followed

LEMMA FollowEnds ==
  ASSUME NEW v \in Seq(Int), NEW r \in Seq(Int), NEW n \in Nat,
         Followed(v, r, Len(r) + 1, n)
  PROVE  n = Len(v)
<1>1. PICK L : Ledger(L, v, r, <<Len(r) + 1, Len(v)>>) /\ <<Len(r) + 1, n>> \in L
  BY DEF Followed
<1>2. ~(Len(r) + 1 <= Len(r))
  BY LenProperties
<1> QED
  BY <1>1, <1>2 DEF Ledger

------------------------------------------------------------------------------
(* The invariant.  PictureFaithful speaks of the end only; before it, the  *)
(* server has written an account of what it has looked at but for the run  *)
(* it is in, and the client has put out what it has read.                  *)

Asked ==
  /\ request \in Request
  /\ hull \in [Axis -> Hulls["P"] \cup Hulls["Q"]]
  /\ \A a \in Axis : hull[a] \in Hulls[a]
Unstarted == i = 0 /\ count = 0 /\ result = <<>> /\ k = 1 /\ output = <<>>
Rendered == Len(m) = dim["P"] * dim["Q"]
Written ==
  /\ k = 1 /\ output = <<>>
  /\ Len(result) <= 2 * (i - count)
  /\ \A x \in 1 .. count : Datum(m[i - count + x]) = activeVal
  /\ Accounted(m, result, <<Len(result) + 1, i - count>>)
Read ==
  /\ Followed(m, result, k, Len(output))
  /\ \A x \in 1 .. Len(output) : output[x] = Shown(m[x])
  /\ pc = "drawn" => k = Len(result) + 1

RasterInv ==
  /\ TypeOK /\ Asked /\ pc # "index_error"
  /\ pc = "grid" => Unstarted
  /\ pc = "compress" => Rendered /\ Written
  /\ pc \in {"uncompress", "drawn"} => Rendered /\ Read

LEMMA InvInit == Init => RasterInv
BY DEF Init, RasterInv, TypeOK, Asked, Unstarted, CompressVals

(* The matrix has a value for each point of the grid.                      *)
LEMMA RasterizeKeeps ==
  ASSUME RasterInv, Rasterize
  PROVE  RasterInv'
<1>1. \A a \in Axis : Points(a) \in Nat
  <2> SUFFICES ASSUME NEW a \in Axis PROVE Points(a) \in Nat
    OBVIOUS
  <2>1. request.kind \in {"dim", "res"} /\ request.size[a] \in Nat \ {0}
    <3>1. request \in [kind : {"dim", "res"}, size : [Axis -> Sizes]]
      BY DEF Rasterize, RasterInv, Asked, Request
    <3> QED
      BY <3>1, GridAssumption
  <2>2. hull[a] \in Int \X Int /\ hull[a][1] <= hull[a][2]
    BY GridAssumption DEF RasterInv, Asked
  <2> QED
    BY <2>1, <2>2, PointsNat DEF Points
<1>2. Points("P") \in Nat /\ Points("Q") \in Nat
  BY <1>1 DEF Axis
<1>3. /\ dim' \in [Axis -> Nat]
      /\ dim'["P"] = Points("P") /\ dim'["Q"] = Points("Q")
  BY <1>1 DEF Rasterize, Axis
<1>4. Points("P") * Points("Q") \in Nat
  BY <1>2
<1>5. m' \in Seq(Costs \cup {NaN}) /\ Len(m') = Points("P") * Points("Q")
  BY <1>4, LenProperties DEF Rasterize
<1>6. Unstarted /\ Unstarted' /\ pc' \in {"compress", "aborted"}
  BY DEF Rasterize, RasterInv, Unstarted
<1>7. TypeOK'
  BY <1>3, <1>4, <1>5, <1>6 DEF Rasterize, RasterInv, TypeOK, Unstarted
<1>8. Asked'
  BY DEF Rasterize, RasterInv, Asked
<1>9. Accounted(m', <<>>, <<1, 0>>)
  BY <1>5, ValuesAreInts, LedgerStarts
<1>10. Rendered' /\ Written'
  BY <1>3, <1>5, <1>6, <1>9 DEF Rendered, Written, Unstarted
<1> QED
  BY <1>6, <1>7, <1>8, <1>10 DEF RasterInv

LEMMA StepTypes ==
  ASSUME RasterInv, pc = "compress"
  PROVE  /\ m \in Seq(Costs \cup {NaN}) /\ m \in Seq(Int) /\ Len(m) \in Nat
         /\ i \in Nat /\ i <= Len(m) /\ count \in Nat /\ count <= i
         /\ activeVal \in CompressVals /\ result \in Seq(Int) /\ Len(result) \in Nat
         /\ i < Len(m) => Datum(m[i + 1]) \in Int
<1>1. /\ m \in Seq(Costs \cup {NaN}) /\ m \in Seq(Int) /\ Len(m) \in Nat
      /\ i \in Nat /\ i <= Len(m) /\ count \in Nat /\ count <= i
      /\ activeVal \in CompressVals /\ result \in Seq(Int) /\ Len(result) \in Nat
  BY ValuesAreInts, LenProperties DEF RasterInv, TypeOK
<1>2. i < Len(m) => m[i + 1] \in Costs \cup {NaN}
  BY <1>1, ElementOfSeq
<1> QED
  BY <1>1, <1>2, DatumUndone

(* Each iteration of the loop keeps the account: what has been written, or *)
(* is held back in count, is what has been looked at.                      *)
LEMMA LoopKeeps ==
  ASSUME RasterInv, Continue \/ EndRun \/ StartRun \/ Ordinary, UNCHANGED <<pc, m>>
  PROVE  /\ i' \in 0 .. Len(m) /\ count' \in 0 .. i' /\ activeVal' \in CompressVals
         /\ result' \in Seq(Int) /\ Len(result') <= 2 * (i' - count')
         /\ \A x \in 1 .. count' : Datum(m[i' - count' + x]) = activeVal'
         /\ Accounted(m, result', <<Len(result') + 1, i' - count'>>)
<1>0. pc = "compress" /\ i < Len(m)
  BY DEF Continue, EndRun, StartRun, Ordinary, Loop
<1>1. /\ m \in Seq(Costs \cup {NaN}) /\ m \in Seq(Int) /\ Len(m) \in Nat
      /\ i \in Nat /\ i <= Len(m) /\ count \in Nat /\ count <= i
      /\ activeVal \in CompressVals /\ result \in Seq(Int) /\ Len(result) \in Nat
      /\ Datum(m[i + 1]) \in Int
  BY <1>0, StepTypes
<1>2. /\ Len(result) <= 2 * (i - count)
      /\ \A x \in 1 .. count : Datum(m[i - count + x]) = activeVal
      /\ Accounted(m, result, <<Len(result) + 1, i - count>>)
  BY <1>0 DEF RasterInv, Written
<1>3. CASE Continue
  <2>1. /\ i' = i + 1 /\ count' = count + 1 /\ activeVal' = activeVal
        /\ result' = result /\ Datum(m[i + 1]) = activeVal
    BY <1>3 DEF Continue
  <2>2. i' - count' = i - count
    BY <1>1, <2>1
  <2>3. \A x \in 1 .. count' : Datum(m[i - count + x]) = activeVal
    <3> SUFFICES ASSUME NEW x \in 1 .. count' PROVE Datum(m[i - count + x]) = activeVal
      OBVIOUS
    <3>1. CASE x = count + 1
      BY <1>1, <2>1, <3>1
    <3>2. CASE x # count + 1
      <4>1. x \in 1 .. count
        BY <1>1, <2>1, <3>2
      <4> QED
        BY <1>2, <4>1
    <3> QED
      BY <3>1, <3>2
  <2>4. Accounted(m, result', <<Len(result') + 1, i' - count'>>)
    BY <1>2, <2>1, <2>2
  <2>5. Len(result') <= 2 * (i' - count')
    BY <1>2, <2>1, <2>2
  <2>6. \A x \in 1 .. count' : Datum(m[i' - count' + x]) = activeVal'
    BY <2>1, <2>2, <2>3
  <2> QED
    BY <1>0, <1>1, <2>1, <2>4, <2>5, <2>6
<1>4. CASE EndRun
  <2> DEFINE n == i - count
  <2>1. /\ i' = i /\ count' = 0 /\ activeVal' = activeVal /\ count > 0
        /\ result' = result \o <<activeVal, count>>
    BY <1>4 DEF EndRun
  <2>2. n \in 0 .. Len(m) /\ n + count <= Len(m) /\ n + count = i
    BY <1>1
  <2> HIDE DEF n
  <2>3. \A x \in 1 .. count : Datum(m[n + x]) = activeVal
    BY <1>2 DEF n
  <2>4. Accounted(m, result, <<Len(result) + 1, n>>)
    BY <1>2 DEF n
  <2>5. /\ result' \in Seq(Int) /\ Len(result') = Len(result) + 2
        /\ Accounted(m, result', <<Len(result') + 1, i>>)
    BY <1>1, <2>1, <2>2, <2>3, <2>4, WriteRun
  <2>6. Len(result') <= 2 * i
    BY <1>1, <1>2, <2>1, <2>5
  <2> QED
    BY <1>1, <2>1, <2>5, <2>6
<1>5. CASE StartRun
  <2>1. /\ i' = i + 1 /\ count' = 1 /\ activeVal' = Datum(m[i + 1]) /\ count = 0
        /\ result' = result /\ Datum(m[i + 1]) \in CompressVals
    BY <1>5 DEF StartRun
  <2>2. i' - count' = i /\ i - count = i
    BY <1>1, <2>1
  <2> QED
    BY <1>0, <1>1, <1>2, <2>1, <2>2
<1>6. CASE Ordinary
  <2>1. /\ i' = i + 1 /\ count' = 0 /\ activeVal' = activeVal /\ count = 0
        /\ result' = Append(result, Datum(m[i + 1]))
        /\ Datum(m[i + 1]) \notin CompressVals
    BY <1>6 DEF Ordinary
  <2>2. i' - count' = i + 1 /\ i - count = i
    BY <1>1, <2>1
  <2>3. result' \in Seq(Int) /\ Len(result') = Len(result) + 1
    BY <1>1, <2>1, AppendProperties
  <2>4. i \in 0 .. Len(m) - 1 /\ ~IsRun(Datum(m[i + 1]))
    BY <1>0, <1>1, <2>1 DEF IsRun, CompressVals
  <2>5. Accounted(m, result', <<Len(result') + 1, i + 1>>)
    BY <1>1, <1>2, <2>1, <2>2, <2>4, WriteValue
  <2> QED
    BY <1>0, <1>1, <1>2, <2>1, <2>2, <2>3, <2>5
<1> QED
  BY <1>3, <1>4, <1>5, <1>6

LEMMA CompressKeeps ==
  ASSUME RasterInv, Compress
  PROVE  RasterInv'
<1>0. pc = "compress" /\ UNCHANGED <<request, hull, dim, m, k, output>>
  BY DEF Compress, Finish, Continue, EndRun, StartRun, Ordinary, Loop
<1>1. Asked' /\ Rendered'
  BY <1>0 DEF RasterInv, Asked, Rendered
<1>2. CASE (Continue \/ EndRun \/ StartRun \/ Ordinary) /\ UNCHANGED pc
  <2>1. /\ i' \in 0 .. Len(m) /\ count' \in 0 .. i' /\ activeVal' \in CompressVals
        /\ result' \in Seq(Int) /\ Len(result') <= 2 * (i' - count')
        /\ \A x \in 1 .. count' : Datum(m[i' - count' + x]) = activeVal'
        /\ Accounted(m, result', <<Len(result') + 1, i' - count'>>)
    BY <1>0, <1>2, LoopKeeps
  <2>2. Written'
    BY <1>0, <2>1 DEF RasterInv, Written
  <2>3. Len(result') \in Nat /\ Len(result') <= 2 * i' /\ k' = 1
    BY <1>0, <2>1, LenProperties DEF RasterInv, Written
  <2>4. TypeOK'
    BY <1>0, <1>2, <2>1, <2>3 DEF RasterInv, TypeOK
  <2> QED
    BY <1>0, <1>1, <1>2, <2>2, <2>4 DEF RasterInv
<1>3. CASE Finish
  <2>1. /\ m \in Seq(Costs \cup {NaN}) /\ m \in Seq(Int) /\ Len(m) \in Nat
        /\ i = Len(m) /\ count \in Nat /\ count <= i
        /\ activeVal \in CompressVals /\ result \in Seq(Int) /\ Len(result) \in Nat
    BY <1>0, <1>3, StepTypes DEF Finish
  <2>2. /\ Len(result) <= 2 * (i - count) /\ k = 1 /\ output = <<>>
        /\ \A x \in 1 .. count : Datum(m[i - count + x]) = activeVal
        /\ Accounted(m, result, <<Len(result) + 1, i - count>>)
    BY <1>0 DEF RasterInv, Written
  <2>3. /\ result' \in Seq(Int) /\ Len(result') \in Nat /\ Len(result') <= 2 * i
        /\ Accounted(m, result', <<Len(result') + 1, Len(m)>>)
    <3>1. CASE count = 0
      BY <1>3, <2>1, <2>2, <3>1 DEF Finish
    <3>2. CASE count > 0
      <4> DEFINE n == i - count
      <4>1. n \in 0 .. Len(m) /\ n + count <= Len(m) /\ n + count = Len(m)
        BY <2>1
      <4>2. result' = result \o <<activeVal, count>>
        BY <1>3, <3>2 DEF Finish
      <4> HIDE DEF n
      <4>3. /\ \A x \in 1 .. count : Datum(m[n + x]) = activeVal
            /\ Accounted(m, result, <<Len(result) + 1, n>>)
        BY <2>2 DEF n
      <4>4. /\ result' \in Seq(Int) /\ Len(result') = Len(result) + 2
            /\ Accounted(m, result', <<Len(result') + 1, Len(m)>>)
        BY <2>1, <4>1, <4>2, <4>3, WriteRun
      <4>5. Len(result') <= 2 * i /\ Len(result') \in Nat
        BY <2>1, <2>2, <3>2, <4>4
      <4> QED
        BY <4>4, <4>5
    <3> QED
      BY <2>1, <3>1, <3>2
  <2>4. pc' = "uncompress" /\ UNCHANGED <<i, count, activeVal>>
    BY <1>3 DEF Finish
  <2>5. Followed(m, result', 1, 0)
    BY <2>3, FollowStarts
  <2>6. Read'
    BY <1>0, <2>2, <2>4, <2>5 DEF Read
  <2>7. TypeOK'
    BY <1>0, <2>2, <2>3, <2>4 DEF RasterInv, TypeOK
  <2> QED
    BY <1>0, <1>1, <2>4, <2>6, <2>7 DEF RasterInv
<1> QED
  BY <1>2, <1>3 DEF Compress

(* The client puts out what the element at its place stands for, and finds *)
(* a count behind the begin of every run.                                  *)
LEMMA ExpandKeeps ==
  ASSUME RasterInv, Expand
  PROVE  RasterInv'
<1>0. /\ pc = "uncompress" /\ k <= Len(result)
      /\ UNCHANGED <<request, hull, dim, m, i, count, activeVal, result>>
  BY DEF Expand
<1>1. /\ m \in Seq(Int) /\ Len(m) \in Nat /\ result \in Seq(Int) /\ Len(result) \in Nat
      /\ k \in Nat \ {0} /\ output \in Seq(Int) /\ Len(output) \in Nat
  BY <1>0, ValuesAreInts, LenProperties DEF RasterInv, TypeOK
<1>2. /\ Followed(m, result, k, Len(output))
      /\ \A x \in 1 .. Len(output) : output[x] = Shown(m[x])
  BY <1>0 DEF RasterInv, Read
<1>3. ASSUME NEW c \in Nat, NEW tail \in Seq(Int), Len(tail) = c,
             \A x \in 1 .. c : tail[x] = Shown(m[Len(output) + x]),
             NEW j \in 1 .. Len(result) + 1, k' = j, output' = output \o tail, pc' = pc,
             Followed(m, result, j, Len(output) + c)
      PROVE  RasterInv'
  <2>1. /\ output' \in Seq(Int) /\ Len(output') = Len(output) + c
        /\ \A x \in 1 .. Len(output) : output'[x] = output[x]
        /\ \A x \in 1 .. c : output'[Len(output) + x] = tail[x]
    <3>1. /\ output' \in Seq(Int) /\ Len(output') = Len(output) + c
          /\ \A x \in 1 .. Len(output) + c :
               output'[x] = IF x <= Len(output) THEN output[x] ELSE tail[x - Len(output)]
      BY <1>1, <1>3, ConcatProperties
    <3>2. \A x \in 1 .. Len(output) : output'[x] = output[x]
      BY <1>1, <1>3, <3>1
    <3>3. ASSUME NEW x \in 1 .. c PROVE output'[Len(output) + x] = tail[x]
      <4>1. /\ Len(output) + x \in 1 .. Len(output) + c /\ ~(Len(output) + x <= Len(output))
            /\ Len(output) + x - Len(output) = x
        BY <1>1, <1>3
      <4> QED
        BY <3>1, <4>1
    <3> QED
      BY <3>1, <3>2, <3>3
  <2>2. \A x \in 1 .. Len(output') : output'[x] = Shown(m[x])
    <3> SUFFICES ASSUME NEW x \in 1 .. Len(output) + c PROVE output'[x] = Shown(m[x])
      BY <2>1
    <3>1. CASE x <= Len(output)
      BY <1>1, <1>2, <2>1, <3>1
    <3>2. CASE x > Len(output)
      <4>1. PICK y \in 1 .. c : x = Len(output) + y
        <5>1. x - Len(output) \in 1 .. c /\ x = Len(output) + (x - Len(output))
          BY <1>1, <3>2
        <5> QED
          BY <5>1
      <4> QED
        BY <1>3, <2>1, <4>1
    <3> QED
      BY <1>1, <3>1, <3>2
  <2>3. Read'
    BY <1>0, <1>3, <2>1, <2>2 DEF Read
  <2>4. TypeOK'
    BY <1>0, <1>1, <1>3, <2>1 DEF RasterInv, TypeOK
  <2> QED
    BY <1>0, <1>3, <2>3, <2>4 DEF RasterInv, Asked, Rendered
<1>4. CASE ~IsRun(result[k])
  <2>1. output' = Append(output, result[k]) /\ k' = k + 1 /\ pc' = pc
    BY <1>4 DEF Expand
  <2>2. /\ result[k] = Shown(m[Len(output) + 1])
        /\ Followed(m, result, k + 1, Len(output) + 1)
    <3>1. Followed(m, result, k, Len(output)) /\ k <= Len(result)
      BY <1>0, <1>2
    <3> HIDE DEF IsRun
    <3> QED
      BY ONLY <1>1, <1>4, <3>1, FollowOne
  <2>3. result[k] \in Int
    BY <1>0, <1>1, ElementOfSeq
  <2>4. output' = output \o <<result[k]>>
    BY <1>1, <2>1, <2>3
  <2>5. <<result[k]>> \in Seq(Int) /\ Len(<<result[k]>>) = 1 /\ <<result[k]>>[1] = result[k]
    BY <2>3
  <2>6. \A x \in 1 .. 1 : <<result[k]>>[x] = Shown(m[Len(output) + x])
    BY <2>2, <2>5
  <2>7. k + 1 \in 1 .. Len(result) + 1 /\ 1 \in Nat
    BY <1>0, <1>1
  <2> HIDE DEF IsRun
  <2> QED
    BY <1>3, <2>1, <2>2, <2>4, <2>5, <2>6, <2>7
<1>5. CASE IsRun(result[k])
  <2> DEFINE c == result[k + 1]
             tail == Copies(IF result[k] = -1 THEN NaN ELSE result[k], c)
  <2>1. /\ k < Len(result) /\ c \in Nat
        /\ \A x \in 1 .. c : Undone(result[k]) = Shown(m[Len(output) + x])
        /\ Followed(m, result, k + 2, Len(output) + c)
    BY <1>0, <1>1, <1>2, <1>5, FollowRun
  <2>2. output' = output \o tail /\ k' = k + 2 /\ pc' = pc
    BY <1>5, <2>1 DEF Expand
  <2>3. Undone(result[k]) \in Int
    BY <1>0, <1>1, ElementOfSeq, NumbersAssumption DEF Undone
  <2>4. /\ tail \in Seq(Int) /\ Len(tail) = c
        /\ \A x \in 1 .. c : tail[x] = Undone(result[k])
    BY <2>1, <2>3 DEF Copies, Undone
  <2>5. k + 2 \in 1 .. Len(result) + 1
    BY <1>1, <2>1
  <2> HIDE DEF c, tail
  <2> QED
    BY <1>3, <2>1, <2>2, <2>4, <2>5
<1> QED
  BY <1>4, <1>5

LEMMA NextKeeps == RasterInv /\ [Next]_vars => RasterInv'
<1> SUFFICES ASSUME RasterInv, [Next]_vars PROVE RasterInv'
  OBVIOUS
<1> USE DEF RasterInv, TypeOK, Asked, Unstarted, Rendered, Written, Read
<1>1. CASE UNCHANGED vars
  BY <1>1 DEF vars
<1>2. CASE NoGrid
  BY <1>2 DEF NoGrid
<1>3. CASE Draw
  BY <1>3 DEF Draw
<1> QED
  BY <1>1, <1>2, <1>3, RasterizeKeeps, CompressKeeps, ExpandKeeps DEF Next

(* Every variable keeps its type: the loop stays inside the matrix, the    *)
(* array is never longer than two elements per value, and the client never *)
(* leaves it (runlengthCompress, uncompress).                              *)
THEOREM TypeCorrect == Spec => []TypeOK
<1>1. Init => RasterInv
  BY InvInit
<1>2. RasterInv /\ [Next]_vars => RasterInv'
  BY NextKeeps
<1>3. RasterInv => TypeOK
  BY DEF RasterInv
<1> QED
  BY <1>1, <1>2, <1>3, PTL DEF Spec

(* The client never looks for the count of a run behind the end of the     *)
(* array (the index error of uncompress).                                  *)
THEOREM NoIndexError == Spec => [](pc # "index_error")
<1>1. Init => RasterInv
  BY InvInit
<1>2. RasterInv /\ [Next]_vars => RasterInv'
  BY NextKeeps
<1>3. RasterInv => pc # "index_error"
  BY DEF RasterInv
<1> QED
  BY <1>1, <1>2, <1>3, PTL DEF Spec

LEMMA DrawnIsRendered == RasterInv => PictureFaithful
<1> SUFFICES ASSUME RasterInv, pc = "drawn" PROVE PictureFaithful
  BY DEF PictureFaithful
<1>1. /\ m \in Seq(Int) /\ Len(m) \in Nat /\ result \in Seq(Int)
      /\ dim["P"] \in Nat /\ dim["Q"] \in Nat /\ Len(m) = dim["P"] * dim["Q"]
      /\ Len(output) \in Nat
  BY ValuesAreInts, LenProperties DEF RasterInv, TypeOK, Rendered, Axis
<1>2. Len(output) = Len(m)
  BY <1>1, FollowEnds DEF RasterInv, Read
<1>3. \A x \in 1 .. Len(m) : output[x] = Shown(m[x])
  BY <1>2 DEF RasterInv, Read
<1>4. ASSUME NEW p \in 0 .. dim["P"] - 1, NEW q \in 0 .. dim["Q"] - 1
      PROVE  Pixel(p, q) = IF Cost(p, q) = -1 THEN NearMinusOne ELSE Cost(p, q)
  <2>1. /\ q * dim["P"] + p + 1 \in 1 .. Len(m)
        /\ p + q * dim["P"] + 1 = q * dim["P"] + p + 1
    BY <1>1, IndexInside
  <2> QED
    BY <1>3, <2>1 DEF Pixel, Cost, Shown
<1> QED
  BY <1>1, <1>2, <1>4 DEF PictureFaithful

(* The picture the client draws is the one the server rendered, for every  *)
(* cost function on every grid: runs of zeroes and of NaN are counted and  *)
(* unrolled without a loss, and no cost is mistaken for one of them        *)
(* (runlengthCompress against uncompress and the reshaping).               *)
THEOREM PictureCorrect == Spec => []PictureFaithful
<1>1. Init => RasterInv
  BY InvInit
<1>2. RasterInv /\ [Next]_vars => RasterInv'
  BY NextKeeps
<1>3. RasterInv => PictureFaithful
  BY DrawnIsRendered
<1> QED
  BY <1>1, <1>2, <1>3, PTL DEF Spec
==============================================================================
