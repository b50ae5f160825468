------------------------- MODULE PackedBufferProofs --------------------------
(***************************************************************************)
(* Type correctness and exactness of the packing buffer, for words, runs,  *)
(* messages and arrays of any size.                                        *)
(***************************************************************************)
EXTENDS PackedBuffer, FiniteSetTheorems, SequenceTheorems, TLAPS

LEMMA SizeType ==
  ASSUME NEW m \in Messages
  PROVE  messageByteSize(m) \in Nat
<1>1. m \in Seq(Seq(Word))
  BY MessagesAssumption
<1>2. DOMAIN m = 1 .. Len(m) /\ Len(m) \in Nat
  BY <1>1, LenProperties
<1> DEFINE S == 1 .. Len(m)
           f == [i \in S |-> {i} \X DOMAIN m[i]]
           T == {{i} \X DOMAIN m[i] : i \in S}
<1>3. IsFiniteSet(S)
  BY <1>2, FS_Interval
<1>4. f \in Surjection(S, T)
  BY DEF Surjection
<1>5. IsFiniteSet(T)
  BY <1>3, <1>4, FS_Surjection
<1>6. ASSUME NEW i \in S PROVE IsFiniteSet({i} \X DOMAIN m[i])
  <2>1. m[i] \in Seq(Word)
    BY <1>1, <1>2, ElementOfSeq
  <2>2. DOMAIN m[i] = 1 .. Len(m[i]) /\ Len(m[i]) \in Nat
    BY <2>1, LenProperties
  <2>3. IsFiniteSet(DOMAIN m[i])
    BY <2>2, FS_Interval
  <2>4. IsFiniteSet({i})
    BY FS_Singleton
  <2> QED
    BY <2>3, <2>4, FS_Product
<1>7. IsFiniteSet(Places(m))
  <2>1. \A U \in T : IsFiniteSet(U)
    BY <1>6
  <2>2. IsFiniteSet(UNION T)
    BY <1>5, <2>1, FS_UNION
  <2> QED
    BY <2>2, <1>2 DEF Places
<1> QED
  BY <1>7, FS_CardinalityType, WAssumption DEF messageByteSize

------------------------------------------------------------------------------
(* What the writes do to the vector.                                       *)

DataOK == data \in Seq(Nat) /\ bytesWritten \in 0 .. Len(data) /\ Committed

LEMMA CopyInExact ==
  ASSUME DataOK, NEW bytes \in Seq(Nat),
         \A i \in 1 .. Len(bytes) : bytes[i] = bytesWritten + i,
         CopyIn(bytes)
  PROVE  DataOK' /\ bytesWritten' = bytesWritten + Len(bytes)
<1> DEFINE g == Grown(Len(bytes))
           e(i) == IF i > bytesWritten /\ i <= bytesWritten + Len(bytes)
                   THEN bytes[i - bytesWritten]
                   ELSE IF i <= Len(data) THEN data[i] ELSE 0
<1>1. /\ Len(data) \in Nat /\ Len(bytes) \in Nat
      /\ bytesWritten \in Nat /\ bytesWritten <= Len(data)
  BY LenProperties DEF DataOK
<1>2. g \in Nat /\ bytesWritten + Len(bytes) <= g
  BY <1>1 DEF Grown, available
<1>3. data' = [i \in 1 .. g |-> e(i)]
  BY DEF CopyIn
<1>4. \A i \in 1 .. g : e(i) \in Nat
  BY <1>1, <1>2 DEF DataOK
<1>5. data' \in Seq(Nat) /\ Len(data') = g
  <2> HIDE DEF e, g
  <2> QED
    BY <1>2, <1>3, <1>4
<1>6. bytesWritten' = bytesWritten + Len(bytes)
  BY DEF CopyIn
<1>7. \A i \in 1 .. bytesWritten' : data'[i] = i
  <2> SUFFICES ASSUME NEW i \in 1 .. bytesWritten' PROVE e(i) = i
    BY <1>1, <1>2, <1>3, <1>6
  <2> QED
    BY <1>1, <1>6 DEF DataOK, Committed
<1> QED
  BY <1>1, <1>2, <1>5, <1>6, <1>7 DEF DataOK, Committed

ViewOK ==
  /\ where \in {"vector", "slow", "none"}
  /\ begin \in Nat /\ room \in Nat /\ used \in Nat /\ slow \in Seq(Nat)

LEMMA ContentsType ==
  ASSUME DataOK, ViewOK, Continued
  PROVE  Contents \in Seq(Nat)
<1>1. CASE where = "vector"
  <2>1. begin + used <= Len(data) /\ Len(data) \in Nat
    BY <1>1, LenProperties DEF Continued, DataOK, ViewOK
  <2>2. \A i \in begin + 1 .. begin + used : data[i] \in Nat
    BY <2>1 DEF DataOK, ViewOK
  <2> QED
    BY <1>1, <2>2, SubSeqProperties DEF Contents, ViewOK
<1> QED
  BY <1>1 DEF Contents, ViewOK

LEMMA WriteOutExact ==
  ASSUME DataOK, ViewOK, Continued, WriteOut
  PROVE  DataOK' /\ bytesWritten' = bytesWritten + used
<1>1. CASE InPlace
  <2>1. begin + used <= Len(data) /\ begin = bytesWritten
    BY <1>1, LenProperties DEF InPlace, Continued, DataOK, ViewOK
  <2>2. Contents = SubSeq(data, begin + 1, begin + used)
    BY <1>1 DEF InPlace, Contents
  <2>3. \A i \in 1 .. used : data[begin + i] = begin + i
    <3> SUFFICES ASSUME NEW i \in 1 .. used PROVE data[begin + i] = begin + i
      OBVIOUS
    <3>1. \A j \in begin + 1 .. begin + used : data[j] \in Nat
      BY <2>1, LenProperties DEF DataOK, ViewOK
    <3>2. SubSeq(data, begin + 1, begin + used)[i] = data[begin + i]
      BY <3>1, SubSeqProperties DEF ViewOK
    <3> QED
      BY <2>1, <2>2, <3>2 DEF Continued
  <2>4. bytesWritten' = bytesWritten + used /\ data' = data
    BY <1>1 DEF WriteOut
  <2>5. \A j \in 1 .. bytesWritten' : data[j] = j
    <3> SUFFICES ASSUME NEW j \in 1 .. bytesWritten + used PROVE data[j] = j
      BY <2>4
    <3>1. CASE j <= bytesWritten
      BY <3>1 DEF DataOK, Committed
    <3>2. CASE j > bytesWritten
      <4>1. j - begin \in 1 .. used /\ begin + (j - begin) = j
        BY <2>1, <3>2, LenProperties DEF DataOK, ViewOK
      <4> QED
        BY <2>3, <4>1
    <3> QED
      BY <3>1, <3>2, LenProperties DEF DataOK, ViewOK
  <2> QED
    BY <2>1, <2>4, <2>5, LenProperties DEF DataOK, Committed, ViewOK
<1>2. CASE ~InPlace
  <2>1. CopyIn(Contents)
    BY <1>2 DEF WriteOut
  <2> QED
    BY <2>1, ContentsType, CopyInExact DEF Continued
<1> QED
  BY <1>1, <1>2

\* While bytes are buffered, those produced are the ones written and these.
Buffered == ViewOK /\ Continued /\ produced = bytesWritten + used

LEMMA PutInVector ==
  ASSUME DataOK, Buffered, NEW k \in Nat, used + k <= room, Put(k),
         where = "vector"
  PROVE  DataOK' /\ Buffered'
<1> DEFINE e(i) == IF i > begin + used /\ i <= begin + used + k
                   THEN produced + (i - (begin + used)) ELSE data[i]
           n == Len(data)
<1>1. /\ n \in Nat /\ DOMAIN data = 1 .. n /\ used \in Nat
      /\ begin = bytesWritten /\ begin + used + k <= n /\ begin \in Nat
      /\ produced = begin + used
  BY LenProperties DEF DataOK, Buffered, ViewOK, Continued
<1>2. data' = [i \in 1 .. n |-> e(i)]
  BY <1>1 DEF Put
<1>3. \A i \in 1 .. n : e(i) \in Nat
  BY <1>1 DEF DataOK
<1>4. data' \in Seq(Nat) /\ Len(data') = n
  <2> HIDE DEF e, n
  <2> QED
    BY <1>1, <1>2, <1>3
<1>5. /\ used' = used + k /\ produced' = produced + k
      /\ UNCHANGED <<bytesWritten, where, begin, room, slow>>
  BY DEF Put
<1>6. \A i \in 1 .. begin + used : data[i] = i
  <2> SUFFICES ASSUME NEW i \in 1 .. begin + used PROVE data[i] = i
    OBVIOUS
  <2>1. CASE i <= begin
    BY <1>1, <2>1 DEF DataOK, Committed
  <2>2. CASE i > begin
    <3>1. i - begin \in 1 .. used /\ begin + 1 + (i - begin) - 1 = i
      BY <1>1, <2>2
    <3>2. \A j \in begin + 1 .. begin + used : data[j] \in Nat
      BY <1>1 DEF DataOK
    <3>3. SubSeq(data, begin + 1, begin + used)[i - begin] = data[i]
      BY <1>1, <3>1, <3>2, SubSeqProperties
    <3> QED
      BY <1>1, <3>1, <3>3 DEF Buffered, Continued, Contents
  <2> QED
    BY <1>1, <2>1, <2>2
<1>7. \A i \in 1 .. begin + used + k : data'[i] = i
  <2> SUFFICES ASSUME NEW i \in 1 .. begin + used + k PROVE e(i) = i
    BY <1>1, <1>2
  <2> QED
    BY <1>1, <1>6
<1>8. DataOK'
  BY <1>1, <1>4, <1>5, <1>7 DEF DataOK, Committed
<1>9. Contents' = SubSeq(data', begin + 1, begin + used + k)
  BY <1>1, <1>5 DEF Contents
<1>10. Len(Contents') = used'
       /\ \A i \in 1 .. used' : Contents'[i] = bytesWritten' + i
  <2>1. \A j \in begin + 1 .. begin + used + k : data'[j] \in Nat
    BY <1>1, <1>7
  <2>2. /\ Len(Contents') = used + k
        /\ \A i \in 1 .. used + k : Contents'[i] = data'[begin + i]
    BY <1>1, <1>9, <2>1, SubSeqProperties
  <2> QED
    BY <1>1, <1>5, <1>7, <2>2
<1>11. Continued'
  BY <1>1, <1>4, <1>5, <1>10 DEF Continued, Buffered
<1> QED
  BY <1>1, <1>5, <1>8, <1>11 DEF Buffered, ViewOK

LEMMA PutElsewhere ==
  ASSUME DataOK, Buffered, NEW k \in Nat, used + k <= room, Put(k),
         where # "vector"
  PROVE  DataOK' /\ Buffered'
<1> DEFINE more == [i \in 1 .. k |-> produced + i]
<1>1. /\ used' = used + k /\ produced' = produced + k
      /\ UNCHANGED <<bytesWritten, where, begin, room, data>>
      /\ slow' = slow \o more
  BY DEF Put
<1>2. /\ used \in Nat /\ room \in Nat /\ slow \in Seq(Nat)
      /\ bytesWritten \in Nat /\ produced = bytesWritten + used
      /\ Len(slow) = used /\ \A i \in 1 .. used : slow[i] = bytesWritten + i
  BY LenProperties DEF DataOK, Buffered, ViewOK, Continued, Contents
<1>3. /\ more \in Seq(Nat) /\ Len(more) = k
      /\ \A i \in 1 .. k : more[i] = bytesWritten + used + i
  BY <1>2
<1>4. /\ slow' \in Seq(Nat) /\ Len(slow') = used + k
      /\ \A i \in 1 .. used + k :
           slow'[i] = IF i <= used THEN slow[i] ELSE more[i - used]
  <2> HIDE DEF more
  <2>1. /\ slow \o more \in Seq(Nat) /\ Len(slow \o more) = Len(slow) + Len(more)
        /\ \A i \in 1 .. Len(slow) + Len(more) :
             (slow \o more)[i] =
               IF i <= Len(slow) THEN slow[i] ELSE more[i - Len(slow)]
    BY <1>2, <1>3, ConcatProperties
  <2> QED
    BY <1>1, <1>2, <1>3, <2>1
<1>5. \A i \in 1 .. used + k : slow'[i] = bytesWritten + i
  <2> HIDE DEF more
  <2> SUFFICES ASSUME NEW i \in 1 .. used + k PROVE slow'[i] = bytesWritten + i
    OBVIOUS
  <2>1. CASE i <= used
    BY <1>2, <1>4, <2>1
  <2>2. CASE i > used
    <3>1. i - used \in 1 .. k
      BY <1>2, <2>2
    <3> QED
      BY <1>2, <1>3, <1>4, <2>2, <3>1
  <2> QED
    BY <1>2, <2>1, <2>2
<1>6. Contents' = slow'
  BY <1>1 DEF Contents
<1>7. Continued'
  BY <1>1, <1>2, <1>4, <1>5, <1>6 DEF Continued
<1> QED
  BY <1>1, <1>2, <1>4, <1>7 DEF Buffered, ViewOK, DataOK, Committed

LEMMA PutExact ==
  ASSUME DataOK, Buffered, NEW k \in Nat, used + k <= room, Put(k)
  PROVE  DataOK' /\ Buffered'
BY PutInVector, PutElsewhere

\* A buffer just handed out is empty.
LEMMA NewBuffer ==
  ASSUME bytesWritten' \in Nat, used' = 0, room' \in Nat, slow' = <<>>,
         where' = "vector" =>
           begin' = bytesWritten' /\ begin' + room' = Len(data')
  PROVE  Continued'
<1>1. Len(Contents') = 0
  <2>1. CASE where' = "vector"
    <3>0. begin' = bytesWritten'
      BY <2>1
    <3>1. begin' \in Nat /\ begin' + used' < begin' + 1
      <4>1. \A b \in Nat : b + 0 < b + 1
        OBVIOUS
      <4>2. begin' \in Nat
        BY <3>0
      <4>3. begin' + 0 < begin' + 1
        BY <4>1, <4>2
      <4> QED
        BY <4>2, <4>3
    <3>2. Contents' = SubSeq(data', begin' + 1, begin' + used')
      BY <2>1 DEF Contents
    <3>3. begin' + 1 \in Int /\ begin' + used' \in Int
      BY <3>1
    <3>4. Contents' = <<>>
      BY <3>1, <3>2, <3>3, SubSeqEmpty
    <3> QED
      BY <3>4
  <2>2. CASE where' # "vector"
    BY <2>2 DEF Contents
  <2> QED
    BY <2>1, <2>2
<1> QED
  BY <1>1 DEF Continued

------------------------------------------------------------------------------
(* The inductive invariant, in three parts.                                *)

Control ==
  /\ message \in Messages /\ pieces \in Seq(Seq(Word))
  /\ phase \in {"start", "get", "loop", "flush", "run", "trim", "copy", "done"}
  /\ run \in Nat
  /\ phase \in {"get", "loop", "flush", "run"} => pieces # <<>>

Bytes ==
  /\ DataOK /\ ViewOK
  /\ produced = bytesWritten + (IF Buffering THEN used ELSE 0)
  /\ Buffering => Continued

Outcome ==
  /\ bufSize \in Nat /\ dest \in Seq(Nat)
  /\ result \in {"none", "ok", "too_small", "retry"}
  /\ phase \in {"copy", "done"} => Len(data) = bytesWritten
  /\ phase # "done" => result \in {"none", "retry"}
  /\ IF result = "ok" THEN dest = data /\ Len(data) <= bufSize
                      ELSE dest = <<>>

IInv == Control /\ Bytes /\ Outcome

LEMMA InitIInv == Init => IInv
<1> SUFFICES ASSUME Init PROVE IInv
  OBVIOUS
<1>1. Control
  BY DEF Init, Control
<1>2. Bytes
  BY DEF Init, Bytes, DataOK, Committed, ViewOK, Buffering
<1>3. Outcome
  BY BufSizesAssumption DEF Init, Outcome
<1> QED
  BY <1>1, <1>2, <1>3 DEF IInv

LEMMA ConsumeType ==
  ASSUME pieces \in Seq(Seq(Word)), pieces # <<>>, NEW n \in Nat, Consume(n)
  PROVE  pieces' \in Seq(Seq(Word)) /\ pieces' # <<>>
<1> DEFINE rest == SubSeq(words, n + 1, Len(words))
<1>1. words \in Seq(Word)
  BY HeadTailProperties DEF words
<1>2. Len(words) \in Nat /\ \A i \in n + 1 .. Len(words) : words[i] \in Word
  BY <1>1, LenProperties
<1>3. rest \in Seq(Word)
  BY <1>2, SubSeqProperties
<1>4. Len(pieces) \in Nat \ {0}
  BY EmptySeq
<1>5. pieces' = [pieces EXCEPT ![1] = rest]
  BY DEF Consume
<1>6. 1 \in 1 .. Len(pieces)
  BY <1>4
<1>7. pieces' \in Seq(Seq(Word)) /\ Len(pieces') = Len(pieces)
  <2> HIDE DEF rest
  <2> QED
    BY <1>3, <1>5, <1>6, ExceptSeq
<1> QED
  BY <1>4, <1>7, EmptySeq

\* Encoding a word, whichever: it takes no more room than there is.
LEMMA EncodeBytes ==
  ASSUME IInv, Encoding, NEW k \in Nat, used + k <= room, Put(k),
         phase' \in {"loop", "flush"}
  PROVE  Bytes'
<1>1. DataOK /\ Buffered
  BY DEF IInv, Bytes, Encoding, Buffering, Buffered
<1>2. DataOK' /\ Buffered'
  BY <1>1, PutExact
<1> QED
  BY <1>2 DEF Bytes, Buffered, Buffering

LEMMA EncodeOutcome ==
  ASSUME IInv, Encoding, UNCHANGED caller, phase' \in {"loop", "flush"}
  PROVE  Outcome'
BY DEF IInv, Outcome, Encoding, caller

LEMMA StepEncode ==
  ASSUME IInv, EncodeZeros \/ EncodeSome \/ EncodeFull
  PROVE  IInv'
<1>1. /\ Encoding /\ pieces # <<>> /\ pieces \in Seq(Seq(Word))
      /\ room \in Nat /\ used \in Nat /\ room - used >= Fast
      /\ W \in Nat /\ UNCHANGED caller
  BY WAssumption DEF EncodeZeros, EncodeSome, EncodeFull, Encoding, IInv,
    Control, Bytes, ViewOK
<1>2. Control /\ phase = "loop"
  BY DEF IInv, EncodeZeros, EncodeSome, EncodeFull, Encoding
<1>3. words \in Seq(Word) /\ Len(words) \in Nat
  BY <1>1, HeadTailProperties, LenProperties DEF words
<1>4. CASE EncodeZeros
  <2>1. PICK k \in 0 .. Len(words) - 1 : Consume(k + 1)
    BY <1>4 DEF EncodeZeros
  <2>2. k + 1 \in Nat /\ phase' = "loop" /\ run' = run
    BY <1>2, <1>3, <1>4 DEF EncodeZeros
  <2>3. Put(2) /\ used + 2 <= room
    BY <1>1, <1>4, WAssumption DEF EncodeZeros, Fast
  <2>4. Control'
    BY <1>1, <1>2, <2>1, <2>2, ConsumeType DEF Control, caller
  <2> QED
    BY <1>1, <2>2, <2>3, <2>4, EncodeBytes, EncodeOutcome DEF IInv
<1>5. CASE EncodeSome
  <2>1. Consume(1) /\ phase' = "loop" /\ run' = run
    BY <1>2, <1>5 DEF EncodeSome
  <2>2. Put(1 + Head(words)) /\ Head(words) \in 1 .. W - 1
    BY <1>5 DEF EncodeSome
  <2>3. 1 + Head(words) \in Nat /\ used + (1 + Head(words)) <= room
    BY <1>1, <2>2 DEF Fast
  <2>4. Control'
    BY <1>1, <1>2, <2>1, ConsumeType DEF Control, caller
  <2> QED
    BY <1>1, <2>1, <2>2, <2>3, <2>4, EncodeBytes, EncodeOutcome DEF IInv
<1>6. CASE EncodeFull
  <2>1. PICK k \in 0 .. Len(words) - 1 :
          /\ Consume(k + 1)
          /\ IF W * k <= room - (used + Fast)
             THEN Put(Fast + W * k) /\ UNCHANGED <<phase, run>>
             ELSE Put(Fast) /\ phase' = "flush" /\ run' = W * k
    BY <1>6 DEF EncodeFull
  <2>2. k + 1 \in Nat /\ W * k \in Nat /\ Fast \in Nat
    BY <1>1, <1>3 DEF Fast
  <2>3. phase' \in {"loop", "flush"} /\ run' \in Nat
    BY <1>2, <2>1, <2>2 DEF Control
  <2>4. Control'
    BY <1>1, <1>2, <2>1, <2>2, <2>3, ConsumeType DEF Control, caller
  <2>5. \E n \in Nat : used + n <= room /\ Put(n)
    <3>1. CASE W * k <= room - (used + Fast)
      <4>1. Fast + W * k \in Nat /\ used + (Fast + W * k) <= room
        BY <1>1, <2>2, <3>1
      <4> QED
        BY <2>1, <3>1, <4>1
    <3>2. CASE ~(W * k <= room - (used + Fast))
      <4>1. used + Fast <= room
        BY <1>1, <2>2
      <4> QED
        BY <2>1, <2>2, <3>2, <4>1
    <3> QED
      BY <3>1, <3>2
  <2> QED
    BY <1>1, <2>3, <2>4, <2>5, EncodeBytes, EncodeOutcome DEF IInv
<1> QED
  BY <1>4, <1>5, <1>6

\* A step that hands the output buffer over, or none of the data changes.
LEMMA AfterWrite ==
  ASSUME IInv, Buffering, WriteOut, UNCHANGED produced
  PROVE  DataOK' /\ produced' = bytesWritten'
BY WriteOutExact DEF IInv, Bytes

LEMMA StepStart == ASSUME IInv, Start PROVE IInv'
<1> DEFINE n == messageByteSize(message)
<1>1. n \in Nat /\ message \in Seq(Seq(Word))
  BY SizeType, MessagesAssumption DEF IInv, Control
<1>2. Control'
  BY <1>1 DEF Start, IInv, Control, caller, view
<1>3. data' \in Seq(Nat) /\ Len(data') = n /\ bytesWritten' = 0
  <2>1. data' = [i \in 1 .. n |-> 0] /\ bytesWritten' = 0
    BY DEF Start
  <2> HIDE DEF n
  <2> QED
    BY <1>1, <2>1
<1>4. DataOK'
  BY <1>1, <1>3 DEF DataOK, Committed
<1>5. Bytes'
  BY <1>3, <1>4 DEF Start, IInv, Bytes, ViewOK, view, Buffering
<1>6. Outcome'
  BY DEF Start, IInv, Outcome, caller
<1> QED
  BY <1>2, <1>5, <1>6 DEF IInv

LEMMA StepGetBuffer == ASSUME IInv, GetBuffer PROVE IInv'
<1> USE DEF GetBuffer, getWriteBuffer, buffer, caller
<1>1. Control'
  BY DEF IInv, Control
<1>2. Outcome'
  BY DEF IInv, Outcome
<1>3. DataOK' /\ bytesWritten \in Nat /\ available \in Nat
      /\ bytesWritten + available = Len(data) /\ produced = bytesWritten
  BY LenProperties
  DEF IInv, Bytes, DataOK, Committed, available, Buffering
<1>4. Continued'
  BY <1>3, NewBuffer
<1>5. ViewOK'
  BY <1>3 DEF ViewOK
<1> QED
  BY <1>1, <1>2, <1>3, <1>4, <1>5 DEF IInv, Bytes

LEMMA StepUseSlow == ASSUME IInv, UseSlow PROVE IInv'
<1>1. /\ Buffering /\ WriteOut /\ UNCHANGED <<caller, pieces, phase, run, produced>>
      /\ where' = "slow" /\ begin' = 0 /\ room' = SlowSize /\ used' = 0
      /\ slow' = <<>> /\ phase = "loop"
  BY DEF UseSlow, Buffering
<1>2. DataOK' /\ produced' = bytesWritten'
  BY <1>1, AfterWrite
<1>3. Control'
  BY <1>1 DEF IInv, Control, caller
<1>4. Outcome'
  BY <1>1 DEF IInv, Outcome, caller
<1>5. bytesWritten' \in Nat /\ SlowSize \in Nat
  BY <1>2, WAssumption DEF DataOK, SlowSize
<1>6. Continued' /\ ViewOK'
  BY <1>1, <1>5, NewBuffer DEF ViewOK
<1> QED
  BY <1>1, <1>2, <1>3, <1>4, <1>5, <1>6 DEF IInv, Bytes

LEMMA StepFlushForRun == ASSUME IInv, FlushForRun PROVE IInv'
<1>1. /\ Buffering /\ WriteOut /\ phase = "flush" /\ phase' = "run"
      /\ UNCHANGED <<view, caller, pieces, run, produced>>
  BY DEF FlushForRun, Buffering
<1>2. DataOK' /\ produced' = bytesWritten'
  BY <1>1, AfterWrite
<1>3. Control'
  BY <1>1 DEF IInv, Control, caller
<1>4. Outcome'
  BY <1>1 DEF IInv, Outcome, caller
<1>5. Bytes'
  BY <1>1, <1>2 DEF IInv, Bytes, ViewOK, view, Buffering
<1> QED
  BY <1>3, <1>4, <1>5 DEF IInv

LEMMA StepWriteRun == ASSUME IInv, WriteRun PROVE IInv'
<1> DEFINE bytes == [i \in 1 .. run |-> produced + i]
<1>1. /\ phase = "run" /\ phase' = "get" /\ CopyIn(bytes)
      /\ produced' = produced + run /\ run' = 0
      /\ UNCHANGED <<view, caller, pieces>>
  BY DEF WriteRun
<1>2. DataOK /\ produced = bytesWritten /\ bytesWritten \in Nat /\ run \in Nat
  BY <1>1 DEF IInv, Bytes, Control, DataOK, Buffering
<1>3. bytes \in Seq(Nat) /\ Len(bytes) = run
      /\ \A i \in 1 .. run : bytes[i] = bytesWritten + i
  BY <1>2
<1>4. DataOK' /\ bytesWritten' = bytesWritten + run
  <2> HIDE DEF bytes
  <2> QED
    BY <1>1, <1>2, <1>3, CopyInExact
<1>5. Control'
  BY <1>1 DEF IInv, Control, caller
<1>6. Outcome'
  BY <1>1 DEF IInv, Outcome, caller
<1>7. Bytes'
  BY <1>1, <1>2, <1>4 DEF IInv, Bytes, ViewOK, view, Buffering
<1> QED
  BY <1>5, <1>6, <1>7 DEF IInv

LEMMA StepEndPiece == ASSUME IInv, EndPiece PROVE IInv'
<1>1. /\ Buffering /\ WriteOut /\ phase = "loop" /\ pieces' = Tail(pieces)
      /\ phase' = IF Tail(pieces) = <<>> THEN "trim" ELSE "get"
      /\ UNCHANGED <<view, caller, run, produced>>
  BY DEF EndPiece, Buffering
<1>2. DataOK' /\ produced' = bytesWritten'
  BY <1>1, AfterWrite
<1>3. Tail(pieces) \in Seq(Seq(Word))
  BY <1>1, HeadTailProperties DEF IInv, Control
<1>4. Control'
  BY <1>1, <1>3 DEF IInv, Control, caller
<1>5. Outcome'
  BY <1>1 DEF IInv, Outcome, caller
<1>6. Bytes'
  BY <1>1, <1>2 DEF IInv, Bytes, ViewOK, view, Buffering
<1> QED
  BY <1>4, <1>5, <1>6 DEF IInv

LEMMA StepTrim == ASSUME IInv, TrimOutput PROVE IInv'
<1>1. /\ phase = "trim" /\ phase' = "copy"
      /\ data' = SubSeq(data, 1, Len(data) - available)
      /\ UNCHANGED <<bytesWritten, view, caller, pieces, run, produced>>
  BY DEF TrimOutput, Trim
<1>2. DataOK /\ Len(data) \in Nat /\ bytesWritten \in Nat
      /\ bytesWritten <= Len(data) /\ Len(data) - available = bytesWritten
  BY LenProperties DEF IInv, Bytes, DataOK, available
<1>3. \A i \in 1 .. bytesWritten : data[i] \in Nat
  BY <1>2 DEF DataOK
<1>4. /\ data' \in Seq(Nat) /\ Len(data') = bytesWritten
      /\ \A i \in 1 .. bytesWritten : data'[i] = data[i]
  BY <1>1, <1>2, <1>3, SubSeqProperties
<1>5. DataOK'
  BY <1>1, <1>2, <1>4 DEF DataOK, Committed
<1>6. Control'
  BY <1>1 DEF IInv, Control, caller
<1>7. Outcome'
  BY <1>1, <1>4 DEF IInv, Outcome, caller
<1>8. Bytes'
  BY <1>1, <1>5 DEF IInv, Bytes, ViewOK, view, Buffering
<1> QED
  BY <1>6, <1>7, <1>8 DEF IInv

LEMMA StepCaller == ASSUME IInv, CopyOut \/ Retry PROVE IInv'
<1> USE DEF CopyOut, Retry, buffer, view
<1>1. Control'
  BY DEF IInv, Control
<1>2. Bytes'
  BY DEF IInv, Bytes, DataOK, Committed, ViewOK, Buffering
<1>3. CASE CopyOut
  <2>1. Outcome'
    BY <1>3 DEF IInv, Outcome, Bytes, DataOK, Fits
  <2> QED
    BY <1>1, <1>2, <2>1 DEF IInv
<1>4. CASE Retry
  <2>1. Outcome'
    BY <1>4, LenProperties DEF IInv, Outcome, Bytes, DataOK
  <2> QED
    BY <1>1, <1>2, <2>1 DEF IInv
<1> QED
  BY <1>3, <1>4

LEMMA StepIdle == ASSUME IInv, UNCHANGED vars PROVE IInv'
<1> USE DEF vars, buffer, view, caller
<1>1. Control'
  BY DEF IInv, Control
<1>2. DataOK' /\ ViewOK' /\ Contents' = Contents
  BY DEF IInv, Bytes, DataOK, Committed, ViewOK, Contents
<1>3. Bytes'
  BY <1>2 DEF IInv, Bytes, Buffering, Continued
<1>4. Outcome'
  BY DEF IInv, Outcome
<1> QED
  BY <1>1, <1>3, <1>4 DEF IInv

(* The invariant behind the theorems: writePackedMessage with any packing  *)
(* of any message, and callers that come back with a larger array.         *)
THEOREM PackInvariant == Spec => []IInv
<1>1. Init => IInv
  BY InitIInv
<1>2. IInv /\ [Next]_vars => IInv'
  BY StepStart, StepGetBuffer, StepUseSlow, StepEncode, StepFlushForRun,
    StepWriteRun, StepEndPiece, StepTrim, StepCaller, StepIdle DEF Next
<1> QED
  BY <1>1, <1>2, PTL DEF Spec

(* VectorBuffer's count stays within the vector and every field within its *)
(* range, however the packing stream mixes its two kinds of writes.        *)
THEOREM PackTypes == Spec => []TypeOK
<1>1. IInv => TypeOK
  BY DEF IInv, TypeOK, Control, Bytes, DataOK, ViewOK, Outcome
<1> QED
  BY <1>1, PackInvariant, PTL

(* Nothing is lost, repeated or overwritten in VectorBuffer::write, grown  *)
(* or not, and what is handed out by getWriteBuffer is where the next      *)
(* bytes belong.                                                           *)
THEOREM PackExact == Spec => []Exact
<1>1. IInv => Exact
  BY DEF IInv, Bytes, DataOK, Exact
<1> QED
  BY <1>1, PackInvariant, PTL

(* The caller of packToByteArray has the whole packed message or nothing.  *)
THEOREM PackDelivered == Spec => []Delivered
<1>1. IInv => Delivered
  <2> SUFFICES ASSUME IInv, phase = "done" PROVE
        /\ data = [i \in 1 .. produced |-> i]
        /\ result = "ok" => dest = data /\ Len(dest) <= bufSize
        /\ result # "ok" => dest = <<>>
    BY DEF Delivered
  <2>1. Len(data) = bytesWritten /\ produced = bytesWritten
    BY DEF IInv, Outcome, Bytes, Buffering
  <2>2. data \in [1 .. produced -> Nat] /\ \A i \in 1 .. produced : data[i] = i
    BY <2>1, LenProperties DEF IInv, Bytes, DataOK, Committed
  <2>3. data = [i \in 1 .. produced |-> i]
    BY <2>2
  <2> QED
    BY <2>3 DEF IInv, Outcome
<1> QED
  BY <1>1, PackInvariant, PTL
------------------------------------------------------------------------------
(* A retry succeeds because packing a message again produces as many bytes *)
(* as before, whatever room the vector and the small buffer left at either *)
(* time.  What a message is packed to is defined by recursion over it; the *)
(* argument does without, by a ledger of where the packing has been: what  *)
(* was left of the message, and the bytes produced by then.                *)

RunOf(w, k, S) ==
  /\ k <= MaxRun
  /\ \A i \in 2 .. k + 1 : w[i] \in S
  /\ k < MaxRun /\ k + 1 < Len(w) => w[k + 2] \notin S

Without(p, n) == [p EXCEPT ![1] = SubSeq(Head(p), n + 1, Len(Head(p)))]

\* One word or run of p is encoded in c bytes, or its first segment ends.
Takes(p, q, c) ==
  LET w == Head(p) IN
  /\ p # <<>>
  /\ \/ w = <<>> /\ q = Tail(p) /\ c = 0
     \/ /\ w # <<>> /\ Head(w) = 0
        /\ \E k \in 0 .. Len(w) - 1 : RunOf(w, k, {0}) /\ q = Without(p, k + 1) /\ c = 2
     \/ /\ w # <<>> /\ Head(w) \in 1 .. W - 1
        /\ q = Without(p, 1) /\ c = 1 + Head(w)
     \/ /\ w # <<>> /\ Head(w) = W
        /\ \E k \in 0 .. Len(w) - 1 :
             RunOf(w, k, {W - 1, W}) /\ q = Without(p, k + 1) /\ c = Fast + W * k

\* From every place but the last the ledger also has the next one.
Ledger(L, last) ==
  \A e \in L : e = last \/
    \E q, c : Takes(e[1], q, c) /\ <<q, e[2] + c>> \in L

Account(L, ph, res, m, here, size) ==
  /\ ph # "start" => here \in L
  /\ ph # "start" \/ res = "retry" => <<m, 0>> \in L
  /\ ph # "start" /\ res \in {"none", "too_small"} => Ledger(L, here)
  /\ res = "retry" => Ledger(L, << <<>>, size >>)

Here == <<pieces, produced + run>>

Accounted == \E L : Account(L, phase, result, message, Here, bufSize)

Paced ==
  /\ phase \in {"trim", "copy", "done"} => pieces = <<>>
  /\ phase \notin {"flush", "run"} => run = 0

AccInv == IInv /\ Paced /\ Accounted

\* Runs are as long as they can be, so there is only one.
LEMMA RunUnique ==
  ASSUME NEW w, Len(w) \in Nat, NEW S,
         NEW k \in 0 .. Len(w) - 1, RunOf(w, k, S),
         NEW l \in 0 .. Len(w) - 1, RunOf(w, l, S)
  PROVE  k = l
<1>1. ASSUME NEW a \in 0 .. Len(w) - 1, NEW b \in 0 .. Len(w) - 1,
             RunOf(w, a, S), RunOf(w, b, S)
      PROVE  ~(a < b)
  <2> SUFFICES ASSUME a < b PROVE FALSE
    OBVIOUS
  <2>1. a < MaxRun /\ a + 1 < Len(w)
    BY <1>1, MaxRunAssumption DEF RunOf
  <2>2. w[a + 2] \notin S
    BY <1>1, <2>1 DEF RunOf
  <2>3. a + 2 \in 2 .. b + 1
    OBVIOUS
  <2> QED
    BY <1>1, <2>2, <2>3 DEF RunOf
<1>2. ~(k < l) /\ ~(l < k)
  BY <1>1
<1> QED
  BY <1>2

LEMMA TakesOnce ==
  ASSUME NEW p \in Seq(Seq(Word)),
         NEW q, NEW c, Takes(p, q, c), NEW r, NEW d, Takes(p, r, d)
  PROVE  q = r /\ c = d
<1> DEFINE w == Head(p)
<1>1. p # <<>>
  BY DEF Takes
<1>2. w \in Seq(Word)
  BY <1>1, HeadTailProperties
<1>3. /\ Len(w) \in Nat /\ W \in Nat \ {0}
      /\ W # 0 /\ W \notin 1 .. W - 1 /\ 0 \notin 1 .. W - 1
  BY <1>2, LenProperties, WAssumption
<1>4. CASE w = <<>>
  BY <1>4 DEF Takes
<1>5. CASE w # <<>> /\ Head(w) = 0
  <2>1. PICK k \in 0 .. Len(w) - 1 : RunOf(w, k, {0}) /\ q = Without(p, k + 1) /\ c = 2
    BY <1>3, <1>5 DEF Takes
  <2>2. PICK l \in 0 .. Len(w) - 1 : RunOf(w, l, {0}) /\ r = Without(p, l + 1) /\ d = 2
    BY <1>3, <1>5 DEF Takes
  <2>3. k = l
    BY <1>3, <2>1, <2>2, RunUnique
  <2> QED
    BY <2>1, <2>2, <2>3
<1>6. CASE w # <<>> /\ Head(w) = W
  <2>1. PICK k \in 0 .. Len(w) - 1 :
          RunOf(w, k, {W - 1, W}) /\ q = Without(p, k + 1) /\ c = Fast + W * k
    BY <1>3, <1>6, Zenon DEF Takes
  <2>2. PICK l \in 0 .. Len(w) - 1 :
          RunOf(w, l, {W - 1, W}) /\ r = Without(p, l + 1) /\ d = Fast + W * l
    BY <1>3, <1>6, Zenon DEF Takes
  <2>3. k = l
    BY <1>3, <2>1, <2>2, RunUnique
  <2> QED
    BY <2>1, <2>2, <2>3
<1>7. CASE w # <<>> /\ Head(w) # 0 /\ Head(w) # W
  BY <1>3, <1>7 DEF Takes
<1> QED
  BY <1>4, <1>5, <1>6, <1>7

\* One entry more, unless this is the second time and it is there already.
LEMMA AccountMoves ==
  ASSUME NEW L, NEW ph, NEW res, NEW m, NEW size,
         NEW p \in Seq(Seq(Word)), NEW q, NEW n, NEW c, Takes(p, q, c),
         ph # "start", res \in {"none", "retry"},
         Account(L, ph, res, m, <<p, n>>, size)
  PROVE  \E K : \A next : Account(K, next, res, m, <<q, n + c>>, size)
<1>1. <<p, n>> \in L /\ <<m, 0>> \in L
  BY DEF Account
<1>2. CASE res = "none"
  <2> DEFINE K == L \cup {<<q, n + c>>}
  <2>1. Ledger(L, <<p, n>>)
    BY <1>2 DEF Account
  <2>2. Ledger(K, <<q, n + c>>)
    <3> SUFFICES ASSUME NEW e \in K, e # <<q, n + c>>
                 PROVE \E r, d : Takes(e[1], r, d) /\ <<r, e[2] + d>> \in K
      BY DEF Ledger
    <3>1. CASE e = <<p, n>>
      BY <3>1
    <3>2. CASE e # <<p, n>>
      BY <2>1, <3>2 DEF Ledger
    <3> QED
      BY <3>1, <3>2
  <2>3. \A next : Account(K, next, res, m, <<q, n + c>>, size)
    BY <1>1, <1>2, <2>2 DEF Account
  <2> QED
    BY <2>3
<1>3. CASE res = "retry"
  <2>1. Ledger(L, << <<>>, size >>) /\ <<p, n>> # << <<>>, size >>
    BY <1>3 DEF Account, Takes
  <2>2. PICK r, d : Takes(p, r, d) /\ <<r, n + d>> \in L
    BY <1>1, <2>1 DEF Ledger
  <2>3. <<q, n + c>> \in L
    BY <2>2, TakesOnce
  <2>4. \A next : Account(L, next, res, m, <<q, n + c>>, size)
    BY <1>1, <1>3, <2>1, <2>3 DEF Account
  <2> QED
    BY <2>4
<1> QED
  BY <1>2, <1>3

------------------------------------------------------------------------------
(* What the steps of the packing stream mean for the ledger.               *)

\* An action that packs one word, run or end of a segment.
LEMMA StepMoves ==
  ASSUME AccInv, IInv', NEW c, Takes(pieces, pieces', c),
         phase \in {"loop"}, Paced', UNCHANGED caller,
         produced' + run' = (produced + run) + c
  PROVE  AccInv'
<1>1. PICK L : Account(L, phase, result, message, Here, bufSize)
  BY DEF AccInv, Accounted
<1>2. pieces \in Seq(Seq(Word)) /\ result \in {"none", "retry"}
  BY DEF AccInv, IInv, Control, Outcome
<1> DEFINE n == produced + run
<1>3. PICK K : \A next : Account(K, next, result, message, <<pieces', n + c>>, bufSize)
  <2> HIDE DEF n
  <2>1. Account(L, phase, result, message, <<pieces, n>>, bufSize)
    BY <1>1 DEF Here, n
  <2> QED
    BY <1>2, <2>1, AccountMoves
<1>4. Account(K, phase', result', message', Here', bufSize')
  BY <1>3 DEF Here, caller
<1> QED
  BY <1>4 DEF AccInv, Accounted

\* An action that leaves place and bytes as they are.
LEMMA StepStays ==
  ASSUME AccInv, IInv', Paced', phase # "start", phase' # "start",
         UNCHANGED <<pieces, message, bufSize>>,
         produced' + run' = produced + run,
         result' = result \/ result' = "ok" \/ (result = "none" /\ result' = "too_small")
  PROVE  AccInv'
<1>1. PICK L : Account(L, phase, result, message, Here, bufSize)
  BY DEF AccInv, Accounted
<1>2. Account(L, phase', result', message', Here', bufSize')
  BY <1>1 DEF Here, Account
<1> QED
  BY <1>2 DEF AccInv, Accounted

LEMMA Numbers ==
  ASSUME IInv
  PROVE  produced \in Nat /\ run \in Nat /\ bytesWritten \in Nat /\ used \in Nat
BY LenProperties DEF IInv, Control, Bytes, DataOK, ViewOK, Buffering

LEMMA StepInvariant == IInv /\ [Next]_vars => IInv'
BY StepStart, StepGetBuffer, StepUseSlow, StepEncode, StepFlushForRun,
  StepWriteRun, StepEndPiece, StepTrim, StepCaller, StepIdle DEF Next

LEMMA EncodeMoves ==
  ASSUME AccInv, EncodeZeros \/ EncodeSome \/ EncodeFull
  PROVE  AccInv'
<1>1. IInv'
  BY StepInvariant DEF AccInv, Next
<1>2. /\ Encoding /\ pieces # <<>> /\ phase = "loop" /\ words # <<>>
      /\ UNCHANGED caller /\ run = 0
      /\ produced \in Nat /\ run \in Nat
  BY Numbers DEF EncodeZeros, EncodeSome, EncodeFull, Encoding, AccInv, IInv,
    Control, Paced
<1>3. words \in Seq(Word) /\ Len(words) \in Nat /\ Fast \in Nat /\ W \in Nat
  BY <1>2, WAssumption, HeadTailProperties, LenProperties
  DEF words, AccInv, IInv, Control, Fast
<1>4. CASE EncodeZeros
  <2>1. PICK k \in 0 .. Len(words) - 1 : IsRun(k, {0}) /\ Consume(k + 1)
    BY <1>4 DEF EncodeZeros
  <2>2. Takes(pieces, pieces', 2)
    BY <1>2, <1>4, <2>1 DEF EncodeZeros, Takes, IsRun, RunOf, Consume, Without, words
  <2>3. Put(2) /\ run' = run /\ phase' = "loop"
    BY <1>2, <1>4 DEF EncodeZeros
  <2>4. Paced' /\ produced' + run' = (produced + run) + 2
    BY <1>2, <2>3 DEF Paced, Put
  <2> QED
    BY <1>1, <1>2, <2>2, <2>4, StepMoves
<1>5. CASE EncodeSome
  <2>1. Consume(1) /\ Put(1 + Head(words)) /\ run' = run /\ phase' = "loop"
        /\ Head(words) \in 1 .. W - 1
    BY <1>2, <1>5 DEF EncodeSome
  <2>2. Takes(pieces, pieces', 1 + Head(words))
    BY <1>2, <2>1 DEF Takes, Consume, Without, words
  <2>3. Paced' /\ produced' + run' = (produced + run) + (1 + Head(words))
    BY <1>2, <2>1 DEF Paced, Put
  <2> QED
    BY <1>1, <1>2, <2>2, <2>3, StepMoves
<1>6. CASE EncodeFull
  <2>1. PICK k \in 0 .. Len(words) - 1 :
          /\ IsRun(k, {W - 1, W}) /\ Consume(k + 1)
          /\ IF W * k <= room - (used + Fast)
             THEN Put(Fast + W * k) /\ UNCHANGED <<phase, run>>
             ELSE Put(Fast) /\ phase' = "flush" /\ run' = W * k
    BY <1>6 DEF EncodeFull
  <2>2. W * k \in Nat
    BY <1>3
  <2>3. Takes(pieces, pieces', Fast + W * k)
    BY <1>2, <1>6, <2>1 DEF EncodeFull, Takes, IsRun, RunOf, Consume, Without, words
  <2>4. Paced' /\ produced' + run' = (produced + run) + (Fast + W * k)
    <3>1. CASE W * k <= room - (used + Fast)
      BY <1>2, <1>3, <2>1, <2>2, <3>1 DEF Paced, Put
    <3>2. CASE ~(W * k <= room - (used + Fast))
      BY <1>2, <1>3, <2>1, <2>2, <3>2 DEF Paced, Put
    <3> QED
      BY <3>1, <3>2
  <2> QED
    BY <1>1, <1>2, <2>3, <2>4, StepMoves
<1> QED
  BY <1>4, <1>5, <1>6

LEMMA EndPieceMoves ==
  ASSUME AccInv, EndPiece
  PROVE  AccInv'
<1>1. IInv'
  BY StepInvariant DEF AccInv, Next
<1>2. /\ pieces # <<>> /\ phase = "loop" /\ words = <<>> /\ pieces' = Tail(pieces)
      /\ phase' = IF Tail(pieces) = <<>> THEN "trim" ELSE "get"
      /\ UNCHANGED <<caller, run, produced>> /\ run = 0 /\ produced \in Nat
  BY Numbers DEF EndPiece, AccInv, IInv, Control, Paced
<1>3. Takes(pieces, pieces', 0)
  BY <1>2 DEF Takes, words
<1>4. Paced' /\ produced' + run' = (produced + run) + 0
  BY <1>2 DEF Paced
<1> QED
  BY <1>1, <1>2, <1>3, <1>4, StepMoves

\* The ledger has no second entry for the end of the message.
LEMMA RetryFits ==
  ASSUME AccInv, phase = "copy", result = "retry"
  PROVE  Fits
<1>1. PICK L : Account(L, phase, result, message, Here, bufSize)
  BY DEF AccInv, Accounted
<1>2. pieces = <<>> /\ run = 0 /\ produced \in Nat
  BY Numbers DEF AccInv, Paced
<1>3. Here = << <<>>, produced >>
  BY <1>2 DEF Here
<1>4. << <<>>, produced >> \in L /\ Ledger(L, << <<>>, bufSize >>)
  BY <1>1, <1>3 DEF Account
<1>5. \A q, c : ~Takes(<<>>, q, c)
  BY DEF Takes
<1>6. << <<>>, produced >> = << <<>>, bufSize >>
  BY <1>4, <1>5 DEF Ledger
<1>7. Len(data) = produced
  BY DEF AccInv, IInv, Outcome, Bytes, Buffering
<1> QED
  BY <1>2, <1>6, <1>7 DEF Fits

LEMMA OthersStay ==
  ASSUME AccInv,
         \/ GetBuffer \/ UseSlow \/ FlushForRun \/ WriteRun \/ TrimOutput \/ CopyOut
  PROVE  AccInv'
<1>1. IInv'
  BY StepInvariant DEF AccInv, Next
<1>2. /\ phase # "start" /\ phase' # "start" /\ Paced'
      /\ UNCHANGED <<pieces, message, bufSize>>
      /\ produced' + run' = produced + run
  BY Numbers DEF AccInv, IInv, Control, Paced, caller, GetBuffer, UseSlow, FlushForRun,
    WriteRun, TrimOutput, CopyOut
<1>3. result' = result \/ result' = "ok" \/ (result = "none" /\ result' = "too_small")
  <2>1. CASE CopyOut
    BY <2>1, RetryFits DEF CopyOut, AccInv, IInv, Outcome
  <2>2. CASE ~CopyOut
    BY <2>2 DEF caller, GetBuffer, UseSlow, FlushForRun, WriteRun, TrimOutput
  <2> QED
    BY <2>1, <2>2
<1> QED
  BY <1>1, <1>2, <1>3, StepStays

LEMMA CallMoves ==
  ASSUME AccInv, Start \/ Retry
  PROVE  AccInv'
<1>1. IInv' /\ run = 0 /\ run \in Nat
  BY StepInvariant DEF AccInv, Next, Paced, Start, Retry
<1>2. PICK L : Account(L, phase, result, message, Here, bufSize)
  BY DEF AccInv, Accounted
<1>3. CASE Start
  <2>1. /\ phase = "start" /\ result \in {"none", "retry"}
        /\ pieces' = message /\ produced' = 0 /\ run' = 0
        /\ phase' = IF message = <<>> THEN "trim" ELSE "get"
        /\ UNCHANGED <<message, bufSize, result>>
    BY <1>1, <1>3 DEF Start, caller, AccInv, IInv, Outcome
  <2>2. Paced'
    BY <2>1 DEF Paced
  <2>3. Here' = <<message, 0>>
    BY <2>1 DEF Here
  <2>4. CASE result = "none"
    <3>1. Account({<<message, 0>>}, phase', result', message', <<message, 0>>, bufSize')
      BY <2>1, <2>4 DEF Account, Ledger
    <3> QED
      BY <1>1, <2>2, <2>3, <3>1 DEF AccInv, Accounted
  <2>5. CASE result = "retry"
    <3>1. Account(L, phase', result', message', <<message, 0>>, bufSize')
      BY <1>2, <2>1, <2>5 DEF Account
    <3> QED
      BY <1>1, <2>2, <2>3, <3>1 DEF AccInv, Accounted
  <2> QED
    BY <2>1, <2>4, <2>5
<1>4. CASE Retry
  <2>1. /\ phase = "done" /\ result = "too_small" /\ phase' = "start"
        /\ bufSize' = Len(data) /\ result' = "retry"
        /\ UNCHANGED <<pieces, message, produced, run>>
    BY <1>4 DEF Retry
  <2>2. Paced' /\ pieces = <<>> /\ produced \in Nat
    BY <1>1, <2>1, Numbers DEF Paced, AccInv
  <2>3. Len(data) = produced
    BY <2>1 DEF AccInv, IInv, Outcome, Bytes, Buffering
  <2>4. Here = << <<>>, bufSize' >>
    BY <1>1, <2>1, <2>2, <2>3 DEF Here
  <2>5. Account(L, phase', result', message', Here', bufSize')
    BY <1>2, <2>1, <2>4 DEF Account
  <2> QED
    BY <1>1, <2>2, <2>5 DEF AccInv, Accounted
<1> QED
  BY <1>3, <1>4

(* A caller of packToByteArray who was told that its array is too small    *)
(* and comes back with one of the size reported is served: packing the     *)
(* message again takes as many bytes as before, although the two attempts  *)
(* may differ in what goes through the small buffer.                       *)
THEOREM RetryCorrect == Spec => RetrySucceeds
<1>1. Init => AccInv
  <2> SUFFICES ASSUME Init PROVE AccInv
    OBVIOUS
  <2>1. Paced
    BY DEF Init, Paced
  <2>2. Account({}, phase, result, message, Here, bufSize)
    BY DEF Init, Account
  <2> QED
    BY <2>1, <2>2, InitIInv DEF AccInv, Accounted
<1>2. AccInv /\ [Next]_vars => AccInv'
  <2> SUFFICES ASSUME AccInv, [Next]_vars PROVE AccInv'
    OBVIOUS
  <2>1. CASE UNCHANGED vars
    <3>1. IInv' /\ Paced'
      BY <2>1, StepInvariant DEF AccInv, vars, caller, Paced
    <3>2. PICK L : Account(L, phase, result, message, Here, bufSize)
      BY DEF AccInv, Accounted
    <3>3. Account(L, phase', result', message', Here', bufSize')
      BY <2>1, <3>2 DEF vars, caller, Here
    <3> QED
      BY <3>1, <3>3 DEF AccInv, Accounted
  <2>2. CASE Next
    BY <2>2, EncodeMoves, EndPieceMoves, OthersStay, CallMoves DEF Next
  <2> QED
    BY <2>1, <2>2
<1>3. AccInv /\ [Next]_vars
        => [result = "retry" /\ result' # result => result' = "ok"]_vars
  <2> SUFFICES ASSUME AccInv, Next, result = "retry", result' # result
               PROVE  result' = "ok"
    BY DEF vars
  <2>1. CASE CopyOut
    BY <2>1, RetryFits DEF CopyOut
  <2>2. CASE ~CopyOut
    BY <2>2
    DEF Next, Start, GetBuffer, UseSlow, EncodeZeros, EncodeSome, EncodeFull, FlushForRun,
      WriteRun, EndPiece, TrimOutput, Retry, caller
  <2> QED
    BY <2>1, <2>2
<1> QED
  BY <1>1, <1>2, <1>3, PTL DEF Spec, RetrySucceeds
==============================================================================
