---------------------------- MODULE PackedBuffer -----------------------------
(***************************************************************************)
(* commelec-api/serialization.cpp: a Cap'n Proto message is packed into a  *)
(* vector through VectorBuffer, a stream that hands out the free part of   *)
(* the vector to be written in place, and grows the vector when data from  *)
(* elsewhere does not fit.  The packing stream that drives it belongs to   *)
(* Cap'n Proto (capnp/serialize-packed.h) and is external.                 *)
(*                                                                         *)
(* A word is represented by its number of nonzero bytes, and the bytes     *)
(* that the packing stream produces by 1, 2, 3, ... in order, so that the  *)
(* contents of the vector are right when cell i holds i.                   *)
(***************************************************************************)
EXTENDS Naturals, Sequences, FiniteSets

CONSTANTS
  W,           \* bytes per word (8)
  MaxRun,      \* longest run that a count byte expresses (255)
  Messages,    \* messages as lists of segments, the segment table first
  BufSizes     \* sizes of the arrays that callers provide

Word == 0 .. W
Fast == W + 2          \* room that encoding one word may take
SlowSize == 2 * W + 4

ASSUME WAssumption == W \in Nat \ {0}
ASSUME MaxRunAssumption == MaxRun \in Nat
ASSUME MessagesAssumption == Messages \subseteq Seq(Seq(Word))
ASSUME BufSizesAssumption == BufSizes \subseteq Nat

VARIABLES
  data,          \* the vector; 0 is what a fresh cell holds
  bytesWritten,  \* VectorBuffer::bytesWritten
  message,       \* the message being packed
  pieces,        \* segments still to be written, the current one first
  phase,         \* where the packing stream is
  where,         \* its output buffer: "vector", "slow" or "none"
  begin, room,   \* start of that buffer in the vector, and its length
  used,          \* bytes it has put there
  slow,          \* contents of its own small buffer
  run,           \* length of a run that does not fit
  produced,      \* bytes produced so far
  bufSize, dest, \* the array of the caller
  result         \* of its call: "none", "ok", "too_small", "retry"

buffer == <<data, bytesWritten>>
view == <<where, begin, room, used, slow>>
caller == <<message, bufSize, dest, result>>
vars == <<buffer, view, caller, pieces, phase, run, produced>>

Places(m) == UNION {{i} \X DOMAIN m[i] : i \in DOMAIN m}

messageByteSize(m) == W * Cardinality(Places(m))

Init ==
  /\ message \in Messages
  /\ bufSize \in BufSizes
  /\ data = <<>> /\ bytesWritten = 0
  /\ pieces = <<>> /\ phase = "start"
  /\ where = "none" /\ begin = 0 /\ room = 0 /\ used = 0 /\ slow = <<>>
  /\ run = 0 /\ produced = 0
  /\ dest = <<>> /\ result = "none"

\* packToByteArray up to the construction of the VectorBuffer
Start ==
  /\ phase = "start"
  /\ data' = [i \in 1 .. messageByteSize(message) |-> 0]
  /\ bytesWritten' = 0 /\ produced' = 0
  /\ pieces' = message
  /\ phase' = IF message = <<>> THEN "trim" ELSE "get"
  /\ UNCHANGED <<view, caller, run>>

------------------------------------------------------------------------------
(* VectorBuffer                                                            *)

available == Len(data) - bytesWritten

\* MUTANT: the vector is not resized.
NotGrown(n) == Len(data)

\* _vector.resize(_vector.size() + size), if it does not fit
Grown(n) == IF n > available THEN Len(data) + n ELSE Len(data)

\* A write of bytes that are elsewhere: copied behind what is there.
CopyIn(bytes) ==
  /\ data' = [i \in 1 .. Grown(Len(bytes)) |->
                IF i > bytesWritten /\ i <= bytesWritten + Len(bytes)
                THEN bytes[i - bytesWritten]
                ELSE IF i <= Len(data) THEN data[i] ELSE 0]
  /\ bytesWritten' = bytesWritten + Len(bytes)

\* MUTANT: the buffer handed out begins where the vector does.
BufferFromStart ==
  /\ where' = "vector" /\ begin' = 0 /\ room' = Len(data) /\ used' = 0
  /\ slow' = <<>>

getWriteBuffer ==
  /\ where' = "vector" /\ begin' = bytesWritten /\ room' = available
  /\ used' = 0 /\ slow' = <<>>

\* src == _vector.data() + bytesWritten
InPlace == where = "vector" /\ begin = bytesWritten

Contents ==
  IF where = "vector" THEN SubSeq(data, begin + 1, begin + used) ELSE slow

\* A write of what the packing stream has in its output buffer.
WriteOut ==
  IF InPlace
  THEN bytesWritten' = bytesWritten + used /\ UNCHANGED data
  ELSE CopyIn(Contents)

------------------------------------------------------------------------------
(* The packing stream.                                                     *)

\* The next k bytes go into its output buffer.
Put(k) ==
  /\ used' = used + k /\ produced' = produced + k
  /\ IF where = "vector"
     THEN /\ data' = [i \in DOMAIN data |->
                        IF i > begin + used /\ i <= begin + used + k
                        THEN produced + (i - (begin + used)) ELSE data[i]]
          /\ UNCHANGED slow
     ELSE /\ slow' = slow \o [i \in 1 .. k |-> produced + i]
          /\ UNCHANGED data
  /\ UNCHANGED <<bytesWritten, where, begin, room>>

words == Head(pieces)

Consume(n) == pieces' = [pieces EXCEPT ![1] = SubSeq(words, n + 1, Len(words))]

\* After the first word come k more that belong to S, and no run is longer.
IsRun(k, S) ==
  /\ k <= MaxRun
  /\ \A i \in 2 .. k + 1 : words[i] \in S
  /\ k < MaxRun /\ k + 1 < Len(words) => words[k + 2] \notin S

GetBuffer ==
  /\ phase = "get"
  /\ getWriteBuffer
  /\ phase' = "loop"
  /\ UNCHANGED <<buffer, caller, pieces, run, produced>>

\* Too little room: on with the small buffer.
UseSlow ==
  /\ phase = "loop" /\ words # <<>> /\ room - used < Fast
  /\ WriteOut
  /\ where' = "slow" /\ begin' = 0 /\ room' = SlowSize /\ used' = 0
  /\ slow' = <<>>
  /\ UNCHANGED <<caller, pieces, phase, run, produced>>

Encoding == phase = "loop" /\ words # <<>> /\ room - used >= Fast

\* A tag, and the number of further words of zeros.
EncodeZeros ==
  /\ Encoding /\ Head(words) = 0
  /\ \E k \in 0 .. Len(words) - 1 : IsRun(k, {0}) /\ Consume(k + 1)
  /\ Put(2)
  /\ UNCHANGED <<caller, phase, run>>

\* A tag and the nonzero bytes.
EncodeSome ==
  /\ Encoding /\ Head(words) \in 1 .. W - 1
  /\ Consume(1)
  /\ Put(1 + Head(words))
  /\ UNCHANGED <<caller, phase, run>>

\* A tag, the bytes, the number of further words worth no compression, and
\* these words as they are, or else they are left for the stream to write.
EncodeFull ==
  /\ Encoding /\ Head(words) = W
  /\ \E k \in 0 .. Len(words) - 1 :
       /\ IsRun(k, {W - 1, W}) /\ Consume(k + 1)
       /\ IF W * k <= room - (used + Fast)
          THEN Put(Fast + W * k) /\ UNCHANGED <<phase, run>>
          ELSE Put(Fast) /\ phase' = "flush" /\ run' = W * k
  /\ UNCHANGED caller

FlushForRun ==
  /\ phase = "flush"
  /\ WriteOut
  /\ phase' = "run"
  /\ UNCHANGED <<view, caller, pieces, run, produced>>

WriteRun ==
  /\ phase = "run"
  /\ CopyIn([i \in 1 .. run |-> produced + i])
  /\ produced' = produced + run /\ run' = 0
  /\ phase' = "get"
  /\ UNCHANGED <<view, caller, pieces>>

\* The end of a segment; the next one is a call of its own.
EndPiece ==
  /\ phase = "loop" /\ words = <<>>
  /\ WriteOut
  /\ pieces' = Tail(pieces)
  /\ phase' = IF Tail(pieces) = <<>> THEN "trim" ELSE "get"
  /\ UNCHANGED <<view, caller, run, produced>>

------------------------------------------------------------------------------
(* writePackedMessage, packToByteArray and the callers in hlapi.cpp        *)

\* MUTANT: the bytes left are kept.
TrimNone == UNCHANGED data

\* output.resize(output.size() - buf.available())
Trim == data' = SubSeq(data, 1, Len(data) - available)

TrimOutput ==
  /\ phase = "trim"
  /\ Trim
  /\ phase' = "copy"
  /\ UNCHANGED <<bytesWritten, view, caller, pieces, run, produced>>

\* MUTANT: an array of exactly the right size is refused.
FitsBelow == Len(data) < bufSize

Fits == Len(data) <= bufSize

\* The size is reported in any case.
CopyOut ==
  /\ phase = "copy"
  /\ dest' = IF Fits THEN data ELSE dest
  /\ result' = IF Fits THEN "ok" ELSE "too_small"
  /\ phase' = "done"
  /\ UNCHANGED <<buffer, view, message, bufSize, pieces, run, produced>>

\* hlapi.h: provide an array as large as was reported and call again.
Retry ==
  /\ phase = "done" /\ result = "too_small"
  /\ bufSize' = Len(data) /\ result' = "retry"
  /\ phase' = "start"
  /\ UNCHANGED <<buffer, view, message, dest, pieces, run, produced>>

Next ==
  \/ Start \/ GetBuffer \/ UseSlow \/ EncodeZeros \/ EncodeSome \/ EncodeFull
  \/ FlushForRun \/ WriteRun \/ EndPiece
  \/ TrimOutput \/ CopyOut \/ Retry

Spec == Init /\ [][Next]_vars

------------------------------------------------------------------------------
TypeOK ==
  /\ data \in Seq(Nat) /\ bytesWritten \in 0 .. Len(data)
  /\ message \in Messages /\ pieces \in Seq(Seq(Word))
  /\ phase \in {"start", "get", "loop", "flush", "run", "trim", "copy",
                "done"}
  /\ where \in {"vector", "slow", "none"}
  /\ begin \in Nat /\ room \in Nat /\ used \in Nat
  /\ slow \in Seq(Nat) /\ run \in Nat /\ produced \in Nat
  /\ bufSize \in Nat /\ dest \in Seq(Nat)
  /\ result \in {"none", "ok", "too_small", "retry"}

\* What VectorBuffer was given stands in the vector, in order.
Committed == \A i \in 1 .. bytesWritten : data[i] = i

\* The output buffer is the free part of the vector or elsewhere, and its
\* contents are the bytes that come next.
Continued ==
  /\ used <= room
  /\ where = "vector" => begin = bytesWritten /\ begin + room = Len(data)
  /\ Len(Contents) = used
  /\ \A i \in 1 .. used : Contents[i] = bytesWritten + i

Buffering == phase \in {"loop", "flush"}

(* No byte is lost, repeated or overwritten on its way into the vector,    *)
(* and the output buffer stays within it: the number written and the place *)
(* handed out agree after each of the two ways to write (VectorBuffer::    *)
(* write and getWriteBuffer).                                              *)
Exact ==
  /\ produced = bytesWritten + (IF Buffering THEN used ELSE 0)
  /\ Committed
  /\ Buffering => Continued

(* In the end the vector holds the packed message and nothing else, and    *)
(* the caller's array has all of it or was left alone (writePackedMessage, *)
(* packToByteArray).                                                       *)
Delivered ==
  phase = "done" =>
    /\ data = [i \in 1 .. produced |-> i]
    /\ result = "ok" => dest = data /\ Len(dest) <= bufSize
    /\ result # "ok" => dest = <<>>

(* A caller told that its array is too small, who comes back with one of   *)
(* the size reported, is served (hlapi.h:117-123, packToByteArray).        *)
RetrySucceeds == [][result = "retry" /\ result' # result => result' = "ok"]_vars
==============================================================================
