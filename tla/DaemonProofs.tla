---------------------------- MODULE DaemonProofs -----------------------------
(* Theorems about Daemon, for every set of packets, every number of        *)
(* endpoints and every build and configuration; in the second part, that   *)
(* each direction implements the safety part of Relay, and that a          *)
(* coroutine that dies on ARM leaves the other one alone.                  *)
EXTENDS Daemon, Arithmetic, SequenceTheorems

(* What one received packet leaves in a buffer is again a buffer.          *)
LEMMA OverlayType ==
  ASSUME NEW b \in Seq(Word), NEW p \in Seq(Word)
  PROVE  Overlay(b, p) \in Seq(Word) /\ Len(Overlay(b, p)) = Len(b)
<1>1. \A i \in 1 .. Len(b) : (IF i <= Len(p) THEN p[i] ELSE b[i]) \in Word
  BY ElementOfSeq
<1> QED
  BY <1>1, LenProperties DEF Overlay

(* The decoder returns an error or a JSON request.                         *)
LEMMA DecodeType ==
  ASSUME NEW b \in Seq(Word), NEW o \in Decode(b), o \notin {Fault, NoRequest}
  PROVE  o \in JsonRequest
<1> DEFINE body == IF Len(b) > 1 THEN b[2] ELSE Junk
<1>1. CASE b[1] \in {Header(id, FALSE) : id \in Ids}
  <2>1. PICK id \in Ids : b[1] = Header(id, FALSE)
    BY <1>1
  <2>2. o = Json(FALSE, id, NoSetpoint)
    BY <1>1, <2>1 DEF Decode, Header
  <2> QED
    BY <2>2 DEF JsonRequest, Json
<1>2. CASE b[1] \notin {Header(id, FALSE) : id \in Ids} /\ b[1] \in {Header(id, TRUE) : id \in Ids}
  <2>1. PICK id \in Ids : b[1] = Header(id, TRUE)
    BY <1>2
  <2>2. b[1][2] = id
    BY <2>1 DEF Header
  <2>3. o \in IF body \in {Setpoint(v) : v \in Setpoints}
               THEN {Json(TRUE, id, body[2])}
               ELSE {Fault, Json(TRUE, id, Garbage)}
    BY <1>2, <2>2 DEF Decode
  <2>4. CASE body \in {Setpoint(v) : v \in Setpoints}
    <3>1. PICK v \in Setpoints : body = Setpoint(v)
      BY <2>4
    <3>2. body[2] = v
      BY <3>1 DEF Setpoint
    <3>3. o = Json(TRUE, id, v)
      BY <2>3, <2>4, <3>2
    <3> QED
      BY <3>3 DEF JsonRequest, Json
  <2>5. CASE body \notin {Setpoint(v) : v \in Setpoints}
    <3>1. o = Json(TRUE, id, Garbage)
      BY <2>3, <2>5
    <3> QED
      BY <3>1 DEF JsonRequest, Json
  <2> QED
    BY <2>4, <2>5
<1>3. CASE /\ b[1] \notin {Header(id, FALSE) : id \in Ids}
           /\ b[1] \notin {Header(id, TRUE) : id \in Ids}
  <2>1. o = Json(TRUE, Garbage, Garbage)
    BY <1>3 DEF Decode
  <2> QED
    BY <2>1 DEF JsonRequest, Json
<1> QED
  BY <1>1, <1>2, <1>3

------------------------------------------------------------------------------
(* Types.                                                                  *)

(* However a handler ends its step, the control state stays well formed.   *)
LEMMA HandlerEndsWell ==
  ASSUME TypeOK, NEW s \in Side,
         \/ Throw(s) \/ Terminate \/ Hang
         \/ \E m \in Message : Forward(s, m)
  PROVE  ControlOK'
<1> USE DEF TypeOK, ControlOK
<1>1. CASE Throw(s)
  BY <1>1 DEF Throw
<1>2. CASE Terminate \/ Hang
  BY <1>2 DEF Terminate, Hang
<1>3. ASSUME NEW m \in Message, Forward(s, m) PROVE ControlOK'
  <2>1. log' \in [Side -> Seq(Message)] /\ log'[s] # <<>>
    BY <1>3, AppendProperties DEF Forward
  <2>2. NumEndpoints[s] \in Nat \ {0}
    BY EndpointsAssumption
  <2>3. next' \in [Side -> Nat]
    BY <1>3 DEF Forward
  <2> QED
    BY <1>3, <2>1, <2>2, <2>3 DEF Forward, Endpoint
<1> QED
  BY <1>1, <1>2, <1>3

(* Taking a packet from a queue keeps buffers, queues and histories well   *)
(* formed.                                                                 *)
LEMMA ReceiveEndsWell ==
  ASSUME TypeOK, NEW s \in Side, NEW b \in Seq(Word), Len(b) = BufLen[s],
         ReceiveInto(s, b), d' \in Root
  PROVE  BuffersOK'
<1> USE DEF TypeOK, BuffersOK, ReceiveInto, CanReceive
<1>1. /\ Head(queue[s]) \in Seq(Word) /\ Tail(queue[s]) \in Seq(Seq(Word))
      /\ Head(queue[s]) \in Datagrams[s] /\ Tail(queue[s]) \in Seq(Datagrams[s])
  BY HeadTailProperties
<1>2. queue' \in [Side -> Seq(Seq(Word))]
  BY <1>1
<1>3. got' \in [Side -> Seq(Seq(Word))]
  BY <1>1, AppendProperties
<1>4. Received(s, Head(queue[s])) \in Nat /\ Received(s, Head(queue[s])) <= BufLen[s]
  BY <1>1, LenProperties, BufLenAssumption DEF Received
<1>5. buf' \in [Side -> Seq(Word)] /\ \A x \in Side : Len(buf'[x]) = BufLen[x]
  OBVIOUS
<1>6. received' \in [Side -> Nat] /\ \A x \in Side : received'[x] <= BufLen[x]
  BY <1>4
<1>7. \A x \in Side : queue'[x] \in Seq(Datagrams[x]) /\ got'[x] \in Seq(Datagrams[x])
  BY <1>1, AppendProperties
<1> QED
  BY <1>2, <1>3, <1>5, <1>6, <1>7

LEMMA InitTypes == Init => TypeOK
<1> SUFFICES ASSUME Init PROVE TypeOK
  OBVIOUS
<1>1. ControlOK
  BY EndpointsAssumption DEF Init, ControlOK, Endpoint
<1>2. \A s \in Side : /\ [i \in 1 .. BufLen[s] |-> Junk] \in Seq(Word)
                      /\ Len([i \in 1 .. BufLen[s] |-> Junk]) = BufLen[s]
  BY BufLenAssumption, LenProperties DEF Word
<1>3. BuffersOK
  BY <1>2, BufLenAssumption DEF Init, BuffersOK, Root
<1> QED
  BY <1>1, <1>3 DEF TypeOK

(* The prefix of a sequence that ends at its n-th element.                 *)
LEMMA PrefixType ==
  ASSUME NEW S, NEW q \in Seq(S), NEW n \in Nat, n <= Len(q)
  PROVE  SubSeq(q, 1, n) \in Seq(S) /\ Len(SubSeq(q, 1, n)) = n
BY SubSeqProperties

LEMMA PacketTypes ==
  ASSUME TypeOK, NEW s \in Side, queue[s] # <<>>
  PROVE  /\ Head(queue[s]) \in Seq(Word) /\ Head(queue[s]) \in Datagrams[s]
         /\ Overlay(buf[s], Head(queue[s])) \in Seq(Word)
         /\ Len(Overlay(buf[s], Head(queue[s]))) = BufLen[s]
         /\ Received(s, Head(queue[s])) \in Nat
         /\ Received(s, Head(queue[s])) <= BufLen[s]
<1>1. /\ Head(queue[s]) \in Seq(Word) /\ Head(queue[s]) \in Datagrams[s]
      /\ buf[s] \in Seq(Word) /\ Len(buf[s]) = BufLen[s]
  BY HeadTailProperties DEF TypeOK, BuffersOK
<1>2. Received(s, Head(queue[s])) \in Nat /\ Received(s, Head(queue[s])) <= BufLen[s]
  BY <1>1, LenProperties, BufLenAssumption DEF Received
<1> QED
  BY <1>1, <1>2, OverlayType

LEMMA ArriveTypes ==
  ASSUME TypeOK, NEW s \in Side, Arrive(s)
  PROVE  TypeOK'
<1>1. ControlOK'
  BY DEF Arrive, TypeOK, ControlOK
<1>2. arrived' \in [Side -> Nat]
  BY DEF Arrive, TypeOK, BuffersOK
<1>3. /\ queue' \in [Side -> Seq(Seq(Word))]
      /\ \A x \in Side : queue'[x] \in Seq(Datagrams[x])
  <2>1. CASE UNCHANGED queue
    BY <2>1 DEF TypeOK, BuffersOK
  <2>2. ASSUME NEW p \in Datagrams[s], queue' = [queue EXCEPT ![s] = Append(@, p)]
        PROVE  /\ queue' \in [Side -> Seq(Seq(Word))]
               /\ \A x \in Side : queue'[x] \in Seq(Datagrams[x])
    <3>1. p \in Seq(Word)
      BY DatagramsAssumption
    <3> QED
      BY <2>2, <3>1, AppendProperties DEF TypeOK, BuffersOK
  <2> QED
    BY <2>1, <2>2 DEF Arrive
<1>4. BuffersOK'
  BY <1>2, <1>3 DEF Arrive, TypeOK, BuffersOK
<1> QED
  BY <1>1, <1>4 DEF TypeOK

LEMMA ErrorTypes ==
  ASSUME TypeOK, NEW s \in Side, ReceiveError(s) \/ SendError(s)
  PROVE  TypeOK'
<1>1. Throw(s) /\ UNCHANGED <<buf, received, d, queue, arrived, got>>
  BY DEF ReceiveError, SendError
<1>2. ControlOK'
  BY <1>1, HandlerEndsWell
<1>3. BuffersOK'
  BY <1>1 DEF TypeOK, BuffersOK
<1> QED
  BY <1>2, <1>3 DEF TypeOK

LEMMA ReceiveGATypes ==
  ASSUME TypeOK, ReceiveGA
  PROVE  TypeOK'
<1> DEFINE p == Head(queue["GA"])
           b == Overlay(buf["GA"], p)
<1>0. "GA" \in Side /\ queue["GA"] # <<>>
  BY DEF ReceiveGA, ReceiveInto, CanReceive, Side
<1>1. /\ b \in Seq(Word) /\ Len(b) = BufLen["GA"]
      /\ Received("GA", p) \in Nat /\ Received("GA", p) <= BufLen["GA"]
  BY <1>0, PacketTypes
<1>2. BuffersOK'
  BY <1>0, <1>1, ReceiveEndsWell DEF ReceiveGA, TypeOK, BuffersOK
<1>3. ControlOK'
  <2>1. CASE Custom
    <3>1. SubSeq(b, 1, Received("GA", p)) \in Seq(Word)
      BY <1>1, PrefixType
    <3>2. SubSeq(b, 1, Received("GA", p)) \in Message
      BY <3>1 DEF Message
    <3> QED
      BY <1>0, <2>1, <3>2, HandlerEndsWell DEF ReceiveGA
  <2>2. CASE ~Custom
    <3>1. PICK o \in Decode(b) :
            \/ o = Fault /\ Throw("GA")
            \/ o = NoRequest /\ Terminate
            \/ o \notin {Fault, NoRequest} /\ Forward("GA", <<o>>)
      BY <2>2 DEF ReceiveGA
    <3>2. CASE o \notin {Fault, NoRequest} /\ Forward("GA", <<o>>)
      <4>1. <<o>> \in Message
        BY <1>1, <3>2, DecodeType DEF Message
      <4> QED
        BY <1>0, <3>2, <4>1, HandlerEndsWell
    <3> QED
      BY <1>0, <3>1, <3>2, HandlerEndsWell
  <2> QED
    BY <2>1, <2>2
<1> QED
  BY <1>2, <1>3 DEF TypeOK

(* Parsing leaves an object, a scalar or nothing in the Document.          *)
LEMMA ParseType ==
  ASSUME NEW text, NEW root \in Root
  PROVE  Parse(text, root) \subseteq Root
<1>1. CASE \E p \in Params : text = <<Open(p), Close>>
  BY <1>1 DEF Parse, Root
<1>2. CASE ~ \E p \in Params : text = <<Open(p), Close>>
  BY <1>2 DEF Parse, Root
<1> QED
  BY <1>1, <1>2

\* What the parser finds in _local_data once a packet is terminated there.
LocalText ==
  CString(Terminated(Overlay(buf["RA"], Head(queue["RA"])), Len(Head(queue["RA"]))))

(* A text ends in an exception, in an abort, or in the advertisement that  *)
(* is made of an object.                                                   *)
LEMMA ReceiveRAEnds ==
  ASSUME ReceiveRA, ~Custom
  PROVE  \E root \in Parse(LocalText, d) :
           /\ d' = root
           /\ \/ Throw("RA") \/ Terminate
              \/ \E x \in Params : /\ root = Open(x) /\ Made(x) \in Outcomes(x)
                                  /\ ValidateAndForward(<<Made(x)>>)
<1>1. PICK root \in Parse(LocalText, d) :
        /\ d' = root
        /\ IF root \in {Open(x) : x \in Params}
             THEN \E o \in Outcomes(root[2]) :
                    \/ o = Fault /\ Throw("RA")
                    \/ o = Abort /\ Terminate
                    \/ o = Made(root[2]) /\ ValidateAndForward(<<o>>)
             ELSE Throw("RA")
  BY DEF ReceiveRA, LocalText
<1>2. CASE root \in {Open(x) : x \in Params}
  <2>1. PICK x \in Params : root = Open(x)
    BY <1>2
  <2>2. root[2] = x
    BY <2>1 DEF Open
  <2>3. PICK o \in Outcomes(x) :
          \/ o = Fault /\ Throw("RA")
          \/ o = Abort /\ Terminate
          \/ o = Made(x) /\ ValidateAndForward(<<o>>)
    BY <1>1, <1>2, <2>2
  <2> QED
    BY <1>1, <2>1, <2>3
<1>3. CASE root \notin {Open(x) : x \in Params}
  BY <1>1, <1>3
<1> QED
  BY <1>2, <1>3

LEMMA MadeType ==
  ASSUME NEW x \in Params
  PROVE  <<Made(x)>> \in Message
<1>1. Made(x) \in Word
  BY DEF Made, Adv, Word
<1> QED
  BY <1>1 DEF Message

LEMMA ValidateTypes ==
  ASSUME TypeOK, NEW m \in Message, ValidateAndForward(m)
  PROVE  ControlOK'
BY HandlerEndsWell DEF ValidateAndForward, Side

LEMMA ReceiveRATypes ==
  ASSUME TypeOK, ReceiveRA
  PROVE  TypeOK'
<1> DEFINE p == Head(queue["RA"])
           b == Overlay(buf["RA"], p)
           z == Terminated(b, Len(p))
<1>0. "RA" \in Side /\ queue["RA"] # <<>>
  BY DEF ReceiveRA, ReceiveInto, CanReceive, Side
<1>1. /\ p \in Seq(Word) /\ p \in Datagrams["RA"]
      /\ b \in Seq(Word) /\ Len(b) = BufLen["RA"]
  BY <1>0, PacketTypes
<1>2. CASE Custom
  <2>1. BuffersOK'
    BY <1>0, <1>1, <1>2, ReceiveEndsWell DEF ReceiveRA, TypeOK, BuffersOK
  <2>2. Len(p) \in Nat /\ Len(p) <= Len(b)
    BY <1>0, <1>1, DatagramsAssumption, BufLenAssumption, LenProperties
  <2>3. SubSeq(b, 1, Len(p)) \in Seq(Word)
    BY <1>1, <2>2, PrefixType
  <2>4. SubSeq(b, 1, Len(p)) \in Message
    BY <2>3 DEF Message
  <2>5. ValidateAndForward(SubSeq(b, 1, Len(p)))
    BY <1>2 DEF ReceiveRA
  <2>6. ControlOK'
    BY <2>4, <2>5, ValidateTypes
  <2> QED
    BY <2>1, <2>6 DEF TypeOK
<1>3. CASE ~Custom
  <2>1. z \in Seq(Word) /\ Len(z) = Len(b)
    <3>1. b \in [1 .. Len(b) -> Word] /\ Nul \in Word /\ Len(b) \in Nat
      BY <1>1, LenProperties DEF Word
    <3>2. z \in [1 .. Len(b) -> Word]
      BY <3>1 DEF Terminated
    <3> QED
      BY <3>1, <3>2, LenProperties
  <2>0. PICK root \in Parse(CString(z), d) :
          /\ d' = root
          /\ \/ Throw("RA") \/ Terminate
             \/ \E x \in Params : ValidateAndForward(<<Made(x)>>)
    BY <1>3, ReceiveRAEnds DEF LocalText
  <2>2. root \in Root
    BY ParseType DEF TypeOK, BuffersOK
  <2>3. ReceiveInto("RA", z) /\ d' = root
    BY <1>3, <2>0 DEF ReceiveRA
  <2>4. BuffersOK'
    BY <1>0, <1>1, <2>1, <2>2, <2>3, ReceiveEndsWell
  <2>5. ControlOK'
    BY <1>0, <2>0, MadeType, ValidateTypes, HandlerEndsWell
  <2> QED
    BY <2>4, <2>5 DEF TypeOK
<1> QED
  BY <1>2, <1>3

LEMMA SendToTypes ==
  ASSUME TypeOK, NEW s \in Side, SendTo(s)
  PROVE  TypeOK'
<1>1. BuffersOK'
  BY DEF SendTo, Advance, TypeOK, BuffersOK
<1>2. next[s] \in Endpoint(s) /\ log[s] # <<>> /\ log[s] \in Seq(Message)
  BY DEF SendTo, Advance, TypeOK, ControlOK
<1>3. Payload(s) \in Message
  <2>1. CASE Custom
    <3>1. SubSeq(buf[s], 1, received[s]) \in Seq(Word)
      BY PrefixType DEF TypeOK, BuffersOK
    <3> QED
      BY <2>1, <3>1 DEF Payload, Message
  <2>2. CASE ~Custom
    <3>1. Len(log[s]) \in 1 .. Len(log[s])
      BY <1>2, LenProperties, EmptySeq
    <3> QED
      BY <2>2, <3>1, <1>2, ElementOfSeq DEF Payload
  <2> QED
    BY <2>1, <2>2
<1>4. out' = [out EXCEPT ![s] = Sent(s)]
  BY DEF SendTo, Advance
<1>5. DOMAIN out' = Side /\ \A x \in Side : out'[x] \in [Endpoint(x) -> Seq(Message)]
  <2>1. out[s] \in [Endpoint(s) -> Seq(Message)]
    BY DEF TypeOK, ControlOK
  <2>2. Append(out[s][next[s]], Payload(s)) \in Seq(Message)
    BY <1>2, <1>3, <2>1, AppendProperties
  <2>3. Sent(s) \in [Endpoint(s) -> Seq(Message)]
    BY <2>1, <2>2 DEF Sent
  <2> QED
    BY <1>4, <2>3 DEF TypeOK, ControlOK
<1>6. NumEndpoints \in [Side -> Nat \ {0}]
  BY EndpointsAssumption
<1>7. /\ next' = [next EXCEPT ![s] = @ + 1]
      /\ pc' = IF next[s] < NumEndpoints[s] THEN pc ELSE [pc EXCEPT ![s] = "recv"]
      /\ UNCHANGED <<proc, log>>
  BY DEF SendTo, Advance
<1>8. ControlOK'
  BY <1>2, <1>5, <1>6, <1>7 DEF TypeOK, ControlOK, Endpoint
<1> QED
  BY <1>1, <1>8 DEF TypeOK

LEMMA NextTypes == TypeOK /\ [Next]_vars => TypeOK'
<1> SUFFICES ASSUME TypeOK, [Next]_vars PROVE TypeOK'
  OBVIOUS
<1>1. CASE UNCHANGED vars
  BY <1>1 DEF vars, TypeOK, ControlOK, BuffersOK
<1>2. CASE Next
  BY <1>2, ArriveTypes, ErrorTypes, ReceiveGATypes, ReceiveRATypes, SendToTypes
     DEF Next
<1> QED
  BY <1>1, <1>2

(* Every variable of the daemon keeps its type: receive lengths stay       *)
(* within the buffers and the endpoint loops within their vectors.         *)
THEOREM TypeCorrect == SafeSpec => []TypeOK
<1>1. Init => TypeOK
  BY InitTypes
<1>2. TypeOK /\ [Next]_vars => TypeOK'
  BY NextTypes
<1> QED
  BY <1>1, <1>2, PTL DEF SafeSpec

------------------------------------------------------------------------------
(* Fan-out.  FanOut is not inductive: it does not say which endpoints have *)
(* the message in transit, nor that the payload about to be sent is still  *)
(* that message.                                                           *)

SendLoop(s) ==
  /\ pc[s] = "recv" => next[s] = NumEndpoints[s] + 1
  /\ pc[s] = "send" => Payload(s) = log[s][Len(log[s])]
  /\ \A e \in Endpoint(s) :
       /\ Len(out[s][e]) = IF e < next[s] THEN Len(log[s]) ELSE Len(log[s]) - 1
       /\ \A k \in 1 .. Len(out[s][e]) : out[s][e][k] = log[s][k]

FanOutInv == TypeOK /\ \A s \in Side : SendLoop(s)

(* A step that leaves a side alone, or merely kills its coroutine, keeps   *)
(* that side's sending loop intact.                                        *)
LEMMA LeftAlone ==
  ASSUME NEW s \in Side, SendLoop(s), pc'[s] \in {pc[s], "dead"},
         next'[s] = next[s], log'[s] = log[s], out'[s] = out[s],
         pc'[s] = "send" => buf'[s] = buf[s] /\ received'[s] = received[s]
  PROVE  SendLoop(s)'
<1>1. pc'[s] = "send" => Payload(s)' = Payload(s)
  BY DEF Payload
<1> QED
  BY <1>1 DEF SendLoop

(* Starting to forward a message: every endpoint has all earlier ones.     *)
LEMMA StartLoop ==
  ASSUME TypeOK, NEW s \in Side, SendLoop(s), pc[s] = "recv",
         NEW m \in Message, Forward(s, m),
         Custom => SubSeq(buf'[s], 1, received'[s]) = m
  PROVE  SendLoop(s)'
<1>1. /\ log[s] \in Seq(Message) /\ log'[s] = Append(log[s], m)
      /\ next'[s] = 1 /\ out'[s] = out[s] /\ pc'[s] = "send"
  BY DEF Forward, TypeOK, ControlOK
<1>2. /\ Len(log'[s]) = Len(log[s]) + 1 /\ Len(log[s]) \in Nat
      /\ log'[s][Len(log'[s])] = m
      /\ \A k \in 1 .. Len(log[s]) : log'[s][k] = log[s][k]
  BY <1>1, AppendProperties, LenProperties
<1>3. Payload(s)' = log'[s][Len(log'[s])]
  BY <1>1, <1>2 DEF Payload
<1>4. ASSUME NEW e \in Endpoint(s)
      PROVE  /\ Len(out'[s][e]) = IF e < next'[s] THEN Len(log'[s]) ELSE Len(log'[s]) - 1
             /\ \A k \in 1 .. Len(out'[s][e]) : out'[s][e][k] = log'[s][k]
  <2>1. NumEndpoints[s] \in Nat \ {0} /\ e \in 1 .. NumEndpoints[s]
    BY EndpointsAssumption DEF Endpoint
  <2>2. /\ Len(out[s][e]) = Len(log[s])
        /\ \A k \in 1 .. Len(out[s][e]) : out[s][e][k] = log[s][k]
    BY <2>1 DEF SendLoop
  <2> QED
    BY <1>1, <1>2, <2>1, <2>2
<1> QED
  BY <1>1, <1>3, <1>4 DEF SendLoop

(* Sending to one endpoint closes its gap.                                 *)
LEMMA OneSend ==
  ASSUME TypeOK, NEW s \in Side, SendLoop(s), SendTo(s)
  PROVE  SendLoop(s)'
<1>1. /\ pc[s] = "send" /\ next[s] \in Endpoint(s) /\ log[s] # <<>>
      /\ log[s] \in Seq(Message) /\ out[s] \in [Endpoint(s) -> Seq(Message)]
      /\ NumEndpoints[s] \in Nat \ {0}
  BY EndpointsAssumption DEF SendTo, Advance, TypeOK, ControlOK
<1>2. /\ next'[s] = next[s] + 1
      /\ pc'[s] = IF next[s] < NumEndpoints[s] THEN "send" ELSE "recv"
      /\ log' = log /\ buf' = buf /\ received' = received
      /\ out'[s] = Sent(s)
  BY <1>1 DEF SendTo, Advance, TypeOK, ControlOK
<1>3. Payload(s) = log[s][Len(log[s])] /\ Payload(s)' = Payload(s)
  BY <1>1, <1>2 DEF SendLoop, Payload
<1>4. ASSUME NEW e \in Endpoint(s)
      PROVE  /\ Len(out'[s][e]) = IF e < next'[s] THEN Len(log[s]) ELSE Len(log[s]) - 1
             /\ \A k \in 1 .. Len(out'[s][e]) : out'[s][e][k] = log[s][k]
  <2>0. /\ Len(log[s]) \in Nat /\ e \in Nat /\ next[s] \in Nat
        /\ Len(out[s][e]) = IF e < next[s] THEN Len(log[s]) ELSE Len(log[s]) - 1
        /\ \A k \in 1 .. Len(out[s][e]) : out[s][e][k] = log[s][k]
    BY <1>1, LenProperties DEF SendLoop, Endpoint
  <2>1. CASE e = next[s]
    <3>1. out'[s][e] = Append(out[s][e], Payload(s))
      BY <1>1, <1>2, <2>1 DEF Sent
    <3>2. /\ Len(out'[s][e]) = Len(log[s])
          /\ out'[s][e][Len(log[s])] = Payload(s)
          /\ \A k \in 1 .. Len(log[s]) - 1 : out'[s][e][k] = out[s][e][k]
      <4>1. out[s][e] \in Seq(Message) /\ Len(out[s][e]) = Len(log[s]) - 1
        BY <1>1, <2>0, <2>1
      <4> QED
        BY <3>1, <4>1, <2>0, AppendProperties, LenProperties
    <3> QED
      BY <1>2, <1>3, <2>0, <2>1, <3>2
  <2>2. CASE e # next[s]
    <3>1. out'[s][e] = out[s][e]
      BY <1>1, <1>2, <2>2 DEF Sent
    <3> QED
      BY <1>2, <2>0, <2>2, <3>1
  <2> QED
    BY <2>1, <2>2
<1>5. pc'[s] = "recv" => next'[s] = NumEndpoints[s] + 1
  BY <1>1, <1>2 DEF Endpoint
<1> QED
  BY <1>2, <1>3, <1>4, <1>5 DEF SendLoop

LEMMA ThrowKeepsLoops ==
  ASSUME FanOutInv, NEW s \in Side, Throw(s),
         \A x \in Side \ {s} : buf'[x] = buf[x] /\ received'[x] = received[x]
  PROVE  \A x \in Side : SendLoop(x)'
<1> SUFFICES ASSUME NEW x \in Side PROVE SendLoop(x)'
  OBVIOUS
<1>1. pc'[x] \in {pc[x], "dead"} /\ (x = s => pc'[x] = "dead")
  BY DEF Throw, FanOutInv, TypeOK, ControlOK
<1>2. next'[x] = next[x] /\ log'[x] = log[x] /\ out'[x] = out[x]
  BY DEF Throw
<1> QED
  BY <1>1, <1>2, LeftAlone DEF FanOutInv

(* A handler that receives and then forwards, throws or stops everything   *)
(* leaves both loops intact.                                               *)
LEMMA ReceiveKeepsLoops ==
  ASSUME FanOutInv, NEW s \in Side, NEW b, ReceiveInto(s, b),
         \/ Throw(s) \/ Terminate \/ Hang
         \/ \E m \in Message :
              /\ Forward(s, m)
              /\ Custom => SubSeq(b, 1, Received(s, Head(queue[s]))) = m
  PROVE  \A x \in Side : SendLoop(x)'
<1>1. /\ pc[s] = "recv" /\ buf'[s] = b
      /\ received'[s] = Received(s, Head(queue[s]))
      /\ \A x \in Side \ {s} : buf'[x] = buf[x] /\ received'[x] = received[x]
  BY DEF ReceiveInto, CanReceive, FanOutInv, TypeOK, BuffersOK
<1>2. CASE Throw(s)
  BY <1>1, <1>2, ThrowKeepsLoops
<1>3. CASE Terminate \/ Hang
  <2> SUFFICES ASSUME NEW x \in Side PROVE SendLoop(x)'
    OBVIOUS
  <2>1. UNCHANGED <<pc, next, log, out>>
    BY <1>3 DEF Terminate, Hang
  <2> QED
    BY <1>1, <2>1, LeftAlone DEF FanOutInv
<1>4. ASSUME NEW m \in Message, Forward(s, m),
             Custom => SubSeq(b, 1, Received(s, Head(queue[s]))) = m
      PROVE  \A x \in Side : SendLoop(x)'
  <2>1. SendLoop(s)'
    BY <1>1, <1>4, StartLoop DEF FanOutInv
  <2>2. ASSUME NEW x \in Side, x # s PROVE SendLoop(x)'
    BY <1>1, <1>4, <2>2, LeftAlone DEF Forward, FanOutInv, TypeOK, ControlOK
  <2> QED
    BY <2>1, <2>2
<1> QED
  BY <1>2, <1>3, <1>4

LEMMA ReceiveGALoops ==
  ASSUME FanOutInv, ReceiveGA
  PROVE  \A x \in Side : SendLoop(x)'
<1> DEFINE p == Head(queue["GA"])
           b == Overlay(buf["GA"], p)
<1>0. "GA" \in Side /\ ReceiveInto("GA", b) /\ queue["GA"] # <<>>
  BY DEF ReceiveGA, ReceiveInto, CanReceive, Side
<1>1. /\ b \in Seq(Word) /\ Len(b) = BufLen["GA"]
      /\ Received("GA", p) \in Nat /\ Received("GA", p) <= BufLen["GA"]
  BY <1>0, PacketTypes DEF FanOutInv
<1>2. CASE Custom
  <2>1. SubSeq(b, 1, Received("GA", p)) \in Seq(Word)
    BY <1>1, PrefixType
  <2>2. SubSeq(b, 1, Received("GA", p)) \in Message
    BY <2>1 DEF Message
  <2>3. Forward("GA", SubSeq(b, 1, Received("GA", p)))
    BY <1>2 DEF ReceiveGA
  <2> QED
    BY <1>0, <2>2, <2>3, ReceiveKeepsLoops
<1>3. CASE ~Custom
  <2>1. PICK o \in Decode(b) :
          \/ o = Fault /\ Throw("GA")
          \/ o = NoRequest /\ Terminate
          \/ o \notin {Fault, NoRequest} /\ Forward("GA", <<o>>)
    BY <1>3 DEF ReceiveGA
  <2>2. o \notin {Fault, NoRequest} => <<o>> \in Message
    BY <1>1, DecodeType DEF Message
  <2> QED
    BY <1>0, <1>3, <2>1, <2>2, ReceiveKeepsLoops
<1> QED
  BY <1>2, <1>3

LEMMA ReceiveRALoops ==
  ASSUME FanOutInv, ReceiveRA
  PROVE  \A x \in Side : SendLoop(x)'
<1> DEFINE p == Head(queue["RA"])
           b == Overlay(buf["RA"], p)
           z == Terminated(b, Len(p))
<1>0. "RA" \in Side /\ queue["RA"] # <<>>
  BY DEF ReceiveRA, ReceiveInto, CanReceive, Side
<1>1. /\ p \in Seq(Word) /\ p \in Datagrams["RA"]
      /\ b \in Seq(Word) /\ Len(b) = BufLen["RA"]
  BY <1>0, PacketTypes DEF FanOutInv
<1>2. Received("RA", p) = Len(p) /\ Len(p) \in Nat /\ Len(p) <= Len(b)
  BY <1>0, <1>1, DatagramsAssumption, BufLenAssumption, LenProperties DEF Received
<1>3. CASE Custom
  <2> DEFINE m == SubSeq(b, 1, Len(p))
  <2>1. m \in Seq(Word)
    BY <1>1, <1>2, PrefixType
  <2>2. m \in Message
    BY <2>1 DEF Message
  <2>3. ReceiveInto("RA", b) /\ ValidateAndForward(m)
    BY <1>3 DEF ReceiveRA
  <2>4. Throw("RA") \/ Hang \/ Forward("RA", m)
    BY <2>3 DEF ValidateAndForward
  <2> QED
    BY <1>0, <1>2, <2>2, <2>3, <2>4, ReceiveKeepsLoops
<1>4. CASE ~Custom
  <2>1. ReceiveInto("RA", z)
    BY <1>4 DEF ReceiveRA
  <2>2. \/ Throw("RA") \/ Terminate
        \/ \E x \in Params : ValidateAndForward(<<Made(x)>>)
    BY <1>4, ReceiveRAEnds
  <2>3. \/ Throw("RA") \/ Terminate \/ Hang
        \/ \E m \in Message : Forward("RA", m)
    BY <2>2, MadeType DEF ValidateAndForward
  <2> QED
    BY <1>0, <1>4, <2>1, <2>3, ReceiveKeepsLoops
<1> QED
  BY <1>3, <1>4

LEMMA FanOutInvInit == Init => FanOutInv
<1> SUFFICES ASSUME Init, NEW s \in Side PROVE SendLoop(s)
  BY InitTypes DEF FanOutInv
<1>1. /\ pc[s] = "recv" /\ next[s] = NumEndpoints[s] + 1 /\ log[s] = <<>>
      /\ \A e \in Endpoint(s) : out[s][e] = <<>>
      /\ NumEndpoints[s] \in Nat
  BY EndpointsAssumption DEF Init
<1> QED
  BY <1>1 DEF SendLoop, Endpoint

LEMMA FanOutInvNext == FanOutInv /\ [Next]_vars => FanOutInv'
<1> SUFFICES ASSUME FanOutInv, [Next]_vars PROVE \A x \in Side : SendLoop(x)'
  BY NextTypes DEF FanOutInv
<1>1. CASE UNCHANGED vars
  BY <1>1, LeftAlone DEF vars, FanOutInv
<1>2. ASSUME NEW s \in Side, Arrive(s) PROVE \A x \in Side : SendLoop(x)'
  BY <1>2, LeftAlone DEF Arrive, FanOutInv
<1>3. ASSUME NEW s \in Side, ReceiveError(s) \/ SendError(s)
      PROVE  \A x \in Side : SendLoop(x)'
  <2>1. Throw(s) /\ UNCHANGED <<buf, received>>
    BY <1>3 DEF ReceiveError, SendError
  <2> QED
    BY <2>1, ThrowKeepsLoops
<1>4. ASSUME NEW s \in Side, SendTo(s) PROVE \A x \in Side : SendLoop(x)'
  <2>1. SendLoop(s)'
    BY <1>4, OneSend DEF FanOutInv
  <2>2. ASSUME NEW x \in Side, x # s PROVE SendLoop(x)'
    <3>1. /\ pc'[x] = pc[x] /\ next'[x] = next[x] /\ out'[x] = out[x]
          /\ log' = log /\ buf' = buf /\ received' = received
      BY <1>4, <2>2 DEF SendTo, Advance, FanOutInv, TypeOK, ControlOK
    <3> QED
      BY <3>1, LeftAlone DEF FanOutInv
  <2> QED
    BY <2>1, <2>2
<1> QED
  BY <1>1, <1>2, <1>3, <1>4, ReceiveGALoops, ReceiveRALoops DEF Next

LEMMA FanOutFromInv == FanOutInv => FanOut
<1> SUFFICES ASSUME FanOutInv, NEW s \in Side, NEW e \in Endpoint(s)
             PROVE  /\ Len(out[s][e]) \in {Len(log[s]), Len(log[s]) - 1}
                    /\ \A k \in 1 .. Len(out[s][e]) : out[s][e][k] = log[s][k]
                    /\ \A f \in e .. NumEndpoints[s] : Len(out[s][f]) <= Len(out[s][e])
  BY DEF FanOut
<1>1. /\ Len(log[s]) \in Nat /\ next[s] \in Nat /\ NumEndpoints[s] \in Nat
  BY EndpointsAssumption, LenProperties DEF FanOutInv, TypeOK, ControlOK
<1>2. \A f \in 1 .. NumEndpoints[s] :
        Len(out[s][f]) = IF f < next[s] THEN Len(log[s]) ELSE Len(log[s]) - 1
  BY DEF FanOutInv, SendLoop, Endpoint
<1>3. \A f \in e .. NumEndpoints[s] : Len(out[s][f]) <= Len(out[s][e])
  BY <1>1, <1>2 DEF Endpoint
<1>4. Len(out[s][e]) \in {Len(log[s]), Len(log[s]) - 1}
  BY <1>2 DEF Endpoint
<1> QED
  BY <1>3, <1>4 DEF FanOutInv, SendLoop

(* On either side, in every build and configuration, all endpoints are     *)
(* sent the same messages in the same order, and none falls behind by more *)
(* than the message in transit (the sending loops of listenGAside,         *)
(* listenRAside and serializeAndAsyncSend).                                *)
THEOREM FanOutCorrect == SafeSpec => []FanOut
<1>1. Init => FanOutInv
  BY FanOutInvInit
<1>2. FanOutInv /\ [Next]_vars => FanOutInv'
  BY FanOutInvNext
<1>3. FanOutInv => FanOut
  BY FanOutFromInv
<1> QED
  BY <1>1, <1>2, <1>3, PTL DEF SafeSpec

------------------------------------------------------------------------------
(* Fresh requests, as long as the datagrams are whole Cap'n Proto messages *)
(* that fit the buffer.                                                    *)

WholeMessages ==
  /\ BufLen["GA"] > 1
  /\ ~Custom => Datagrams["GA"] \subseteq Requests \cup {<<Adv(p)>> : p \in Params}

FreshInv ==
  /\ TypeOK
  /\ Len(log["GA"]) <= Len(got["GA"])
  /\ proc = "running" /\ pc["GA"] # "dead" => Len(log["GA"]) = Len(got["GA"])
  /\ RequestsFresh

LEMMA OverlayFront ==
  ASSUME NEW b \in Seq(Word), NEW p, NEW i \in 1 .. Len(b), i <= Len(p)
  PROVE  Overlay(b, p)[i] = p[i]
BY DEF Overlay

(* A whole request decodes to its own translation.                         *)
LEMMA DecodeWhole ==
  ASSUME NEW b \in Seq(Word), Len(b) > 1, NEW p \in Requests, ~Custom,
         NEW o \in Decode(Overlay(b, p))
  PROVE  o \notin {Fault, NoRequest} /\ <<o>> = Translation("GA", p)
<1> DEFINE c == Overlay(b, p)
<1>0. Len(b) \in Nat /\ 1 \in 1 .. Len(b) /\ 2 \in 1 .. Len(b) /\ Len(c) = Len(b)
  BY LenProperties DEF Overlay
<1>1. ASSUME NEW id \in Ids, p = <<Header(id, FALSE)>>
      PROVE  o \notin {Fault, NoRequest} /\ <<o>> = Translation("GA", p)
  <2>1. Len(p) = 1 /\ p[1] = Header(id, FALSE) /\ p[1][2] = id
    BY <1>1 DEF Header
  <2>2. c[1] = p[1]
    <3>1. 1 \in 1 .. Len(b) /\ 1 <= Len(p)
      BY <1>0, <2>1
    <3> QED
      BY ONLY <3>1, OverlayFront
  <2>3. o = Json(FALSE, id, NoSetpoint)
    BY <2>1, <2>2 DEF Decode
  <2>4. Translation("GA", p) = <<Json(FALSE, id, NoSetpoint)>>
    BY <2>1 DEF Translation
  <2> QED
    BY <2>3, <2>4 DEF Json, Fault, NoRequest
<1>2. ASSUME NEW x \in Ids \X Setpoints, p = <<Header(x[1], TRUE), Setpoint(x[2])>>
      PROVE  o \notin {Fault, NoRequest} /\ <<o>> = Translation("GA", p)
  <2> DEFINE id == x[1]
             v == x[2]
  <2>0. id \in Ids /\ v \in Setpoints
    OBVIOUS
  <2> HIDE DEF id, v
  <2>1. Len(p) = 2 /\ p[1] = Header(id, TRUE) /\ p[2] = Setpoint(v)
    BY <1>2 DEF id, v
  <2>2. Header(id, TRUE)[2] = id /\ Setpoint(v)[2] = v
    BY DEF Header, Setpoint
  <2>3. c[1] = Header(id, TRUE) /\ c[2] = Setpoint(v) /\ Len(c) > 1
    <3>1. 1 \in 1 .. Len(b) /\ 2 \in 1 .. Len(b) /\ 1 <= Len(p) /\ 2 <= Len(p)
      BY <1>0, <2>1
    <3>2. c[1] = p[1] /\ c[2] = p[2]
      BY <3>1, OverlayFront
    <3> QED
      BY <1>0, <2>1, <3>2
  <2>4. c[1] \notin {Header(i, FALSE) : i \in Ids}
    BY <2>3 DEF Header
  <2>5. o = Json(TRUE, id, v)
    <3>1. o \in {Json(TRUE, c[1][2], c[2][2])}
      BY <2>0, <2>3, <2>4 DEF Decode
    <3> QED
      BY <2>2, <2>3, <3>1
  <2>6. Translation("GA", p) = <<Json(TRUE, id, v)>>
    <3>1. p[1][2] = id /\ p[2][2] = v
      BY <2>1, <2>2, Zenon
    <3>2. Len(p) # 1
      BY <2>1
    <3> QED
      BY <3>1, <3>2 DEF Translation
  <2> QED
    BY <2>5, <2>6 DEF Json, Fault, NoRequest
<1> QED
  BY <1>1, <1>2 DEF Requests

(* An advertisement that strays to the request side is no request.         *)
LEMMA DecodeStray ==
  ASSUME NEW b \in Seq(Word), Len(b) > 1, NEW q \in Params,
         NEW o \in Decode(Overlay(b, <<Adv(q)>>))
  PROVE  o = NoRequest
<1> DEFINE c == Overlay(b, <<Adv(q)>>)
<1>0. Len(b) \in Nat /\ 1 \in 1 .. Len(b)
  BY LenProperties
<1>1. c[1] = Adv(q)
  <2>1. Len(<<Adv(q)>>) = 1 /\ <<Adv(q)>>[1] = Adv(q)
    OBVIOUS
  <2> QED
    BY <1>0, <2>1, OverlayFront
<1>2. /\ c[1] \notin {Header(i, FALSE) : i \in Ids}
      /\ c[1] \notin {Header(i, TRUE) : i \in Ids}
  <2>1. \A i, v : Adv(q) # Header(i, v)
    BY DEF Adv, Header
  <2> QED
    BY <1>1, <2>1
<1> QED
  BY <1>1, <1>2 DEF Decode

LEMMA ReceiveGAFresh ==
  ASSUME WholeMessages, FreshInv, ReceiveGA
  PROVE  FreshInv'
<1> DEFINE p == Head(queue["GA"])
           b == Overlay(buf["GA"], p)
<1>0. /\ "GA" \in Side /\ ReceiveInto("GA", b) /\ queue["GA"] # <<>>
      /\ proc = "running" /\ pc["GA"] = "recv"
  BY DEF ReceiveGA, ReceiveInto, CanReceive, Side
<1>1. /\ p \in Seq(Word) /\ p \in Datagrams["GA"]
      /\ buf["GA"] \in Seq(Word) /\ Len(buf["GA"]) > 1
      /\ Received("GA", p) \in Nat /\ Received("GA", p) <= BufLen["GA"]
      /\ Len(buf["GA"]) = BufLen["GA"]
  BY <1>0, PacketTypes DEF FreshInv, WholeMessages, TypeOK, BuffersOK
<1>2. /\ got["GA"] \in Seq(Seq(Word)) /\ log["GA"] \in Seq(Message)
      /\ got'["GA"] = Append(got["GA"], p)
      /\ Len(log["GA"]) = Len(got["GA"]) /\ Len(got["GA"]) \in Nat
  BY <1>0, LenProperties DEF ReceiveInto, CanReceive, FreshInv, TypeOK, BuffersOK, ControlOK
<1>3. TypeOK'
  BY ReceiveGATypes DEF FreshInv
<1>4. CASE log' = log /\ ~(proc' = "running" /\ pc'["GA"] # "dead")
  <2>1. /\ Len(got'["GA"]) = Len(got["GA"]) + 1
        /\ \A k \in 1 .. Len(got["GA"]) : got'["GA"][k] = got["GA"][k]
    BY <1>1, <1>2, AppendProperties
  <2> QED
    BY <1>2, <1>3, <1>4, <2>1 DEF FreshInv, RequestsFresh
<1>5. ASSUME NEW m \in Message, Forward("GA", m), p \in Acceptable("GA"),
             m = Translation("GA", p)
      PROVE  FreshInv'
  <2>1. log'["GA"] = Append(log["GA"], m)
    BY <1>0, <1>5 DEF Forward, FreshInv, TypeOK, ControlOK
  <2>2. /\ Len(got'["GA"]) = Len(got["GA"]) + 1
        /\ got'["GA"][Len(got["GA"]) + 1] = p
        /\ \A k \in 1 .. Len(got["GA"]) : got'["GA"][k] = got["GA"][k]
    BY <1>1, <1>2, AppendProperties
  <2>3. /\ Len(log'["GA"]) = Len(got["GA"]) + 1
        /\ log'["GA"][Len(got["GA"]) + 1] = m
        /\ \A k \in 1 .. Len(got["GA"]) : log'["GA"][k] = log["GA"][k]
    BY <1>2, <1>5, <2>1, AppendProperties
  <2>4. \A k \in 1 .. Len(got["GA"]) + 1 :
          /\ got'["GA"][k] \in Acceptable("GA")
          /\ log'["GA"][k] = Translation("GA", got'["GA"][k])
    BY <1>2, <1>5, <2>2, <2>3 DEF FreshInv, RequestsFresh
  <2> QED
    BY <1>3, <2>2, <2>3, <2>4 DEF FreshInv, RequestsFresh
<1>6. CASE Custom
  <2>1. SubSeq(b, 1, Received("GA", p)) = SubSeq(p, 1, Received("GA", p))
    <3>1. Received("GA", p) <= Len(p) /\ Len(p) \in Nat
      BY <1>1, LenProperties, BufLenAssumption DEF Received
    <3>2. b \in Seq(Word) /\ Len(b) = BufLen["GA"]
      BY <1>1, OverlayType
    <3>3. \A i \in 1 .. Received("GA", p) : b[i] = p[i]
      BY <1>1, <3>1 DEF Overlay
    <3> QED
      BY <1>1, <3>1, <3>2, <3>3, SubSeqProperties
  <2>2. SubSeq(b, 1, Received("GA", p)) \in Seq(Word)
    BY <1>1, OverlayType, PrefixType
  <2>3. SubSeq(b, 1, Received("GA", p)) \in Message
    BY <2>2 DEF Message
  <2> QED
    BY <1>1, <1>5, <1>6, <2>1, <2>3 DEF ReceiveGA, Acceptable, Translation
<1>7. CASE ~Custom
  <2>1. PICK o \in Decode(b) :
          \/ o = Fault /\ Throw("GA")
          \/ o = NoRequest /\ Terminate
          \/ o \notin {Fault, NoRequest} /\ Forward("GA", <<o>>)
    BY <1>7 DEF ReceiveGA
  <2>2. CASE p \in Requests
    <3>1. o \notin {Fault, NoRequest} /\ <<o>> = Translation("GA", p)
      BY <1>1, <1>7, <2>2, DecodeWhole
    <3>2. <<o>> \in Message
      BY <1>1, <3>1, OverlayType, DecodeType DEF Message
    <3> QED
      BY <1>5, <1>7, <2>1, <2>2, <3>1, <3>2 DEF Acceptable
  <2>3. CASE p \notin Requests
    <3>1. o = NoRequest
      BY <1>1, <1>7, <2>3, DecodeStray DEF WholeMessages
    <3> QED
      BY <1>4, <2>1, <3>1 DEF Terminate, Fault, NoRequest
  <2> QED
    BY <2>2, <2>3
<1> QED
  BY <1>6, <1>7

LEMMA OthersKeepFresh ==
  ASSUME FreshInv, TypeOK', UNCHANGED <<log, got>>,
         pc'["GA"] # "dead" /\ proc' = "running" => pc["GA"] # "dead" /\ proc = "running"
  PROVE  FreshInv'
BY DEF FreshInv, RequestsFresh

LEMMA FreshInvInit == Init => FreshInv
<1> SUFFICES ASSUME Init PROVE FreshInv
  OBVIOUS
<1>1. TypeOK
  BY InitTypes
<1>2. log["GA"] = <<>> /\ got["GA"] = <<>>
  BY DEF Init, Side
<1> QED
  BY <1>1, <1>2 DEF FreshInv, RequestsFresh

LEMMA FreshInvNext == WholeMessages /\ FreshInv /\ [Next]_vars => FreshInv'
<1> SUFFICES ASSUME WholeMessages, FreshInv, [Next]_vars PROVE FreshInv'
  OBVIOUS
<1>0. TypeOK' /\ TypeOK
  BY NextTypes DEF FreshInv
<1>1. CASE UNCHANGED vars
  BY <1>0, <1>1, OthersKeepFresh DEF vars
<1>2. ASSUME NEW s \in Side, Arrive(s) PROVE FreshInv'
  BY <1>0, <1>2, OthersKeepFresh DEF Arrive
<1>3. ASSUME NEW s \in Side, ReceiveError(s) \/ SendError(s) PROVE FreshInv'
  <2>1. /\ Throw(s) /\ UNCHANGED <<log, got>> /\ proc = "running"
    BY <1>3 DEF ReceiveError, SendError, Throw
  <2>2. pc'["GA"] # "dead" => pc["GA"] # "dead"
    BY <1>0, <2>1 DEF Throw, TypeOK, ControlOK, Side
  <2> QED
    BY <1>0, <2>1, <2>2, OthersKeepFresh
<1>4. ASSUME NEW s \in Side, SendTo(s) PROVE FreshInv'
  <2>1. UNCHANGED <<proc, log, got>> /\ (pc'["GA"] # "dead" => pc["GA"] # "dead")
    BY <1>0, <1>4 DEF SendTo, Advance, TypeOK, ControlOK, Side
  <2> QED
    BY <1>0, <2>1, OthersKeepFresh
<1>5. ASSUME ReceiveRA PROVE FreshInv'
  <2>1. /\ log'["GA"] = log["GA"] /\ got'["GA"] = got["GA"] /\ proc = "running"
        /\ pc'["GA"] # "dead" => pc["GA"] # "dead"
    <3>1. got'["GA"] = got["GA"] /\ proc = "running"
      BY <1>0, <1>5 DEF ReceiveRA, ReceiveInto, CanReceive, TypeOK, BuffersOK, Side
    <3>2. Throw("RA") \/ Terminate \/ Hang \/ \E m : Forward("RA", m)
      BY <1>5, ReceiveRAEnds DEF ReceiveRA, ValidateAndForward
    <3>3. log'["GA"] = log["GA"] /\ (pc'["GA"] # "dead" => pc["GA"] # "dead")
      BY <1>0, <3>2 DEF Throw, Terminate, Hang, Forward, TypeOK, ControlOK, Side
    <3> QED
      BY <3>1, <3>3
  <2> QED
    BY <1>0, <2>1 DEF FreshInv, RequestsFresh
<1> QED
  BY <1>1, <1>2, <1>3, <1>4, <1>5, ReceiveGAFresh DEF Next

(* If only whole messages reach the request side, every message it sends   *)
(* translates the very packet it was handling (listenGAside), although it  *)
(* decodes its whole buffer and not just the bytes received.               *)
THEOREM FreshCorrect ==
  ASSUME WholeMessages
  PROVE  SafeSpec => []RequestsFresh
<1>1. Init => FreshInv
  BY FreshInvInit
<1>2. FreshInv /\ [Next]_vars => FreshInv'
  BY FreshInvNext
<1>3. FreshInv => RequestsFresh
  BY DEF FreshInv
<1> QED
  BY <1>1, <1>2, <1>3, PTL DEF SafeSpec

------------------------------------------------------------------------------
(* C strings.                                                              *)

\* n is where the C string at the front of b ends.
EndsAt(b, n) ==
  /\ \A i \in 1 .. n : b[i] # Nul
  /\ n < Len(b) => b[n + 1] = Nul

LEMMA StringEnds ==
  ASSUME NEW b \in Seq(Word)
  PROVE  \E n \in 0 .. Len(b) : EndsAt(b, n)
<1> DEFINE S == {k \in Nat : \/ \A i \in 1 .. k : i <= Len(b) => b[i] # Nul
                             \/ \E n \in 0 .. Len(b) : EndsAt(b, n)}
<1>0. Len(b) \in Nat
  BY LenProperties
<1>1. 0 \in S
  OBVIOUS
<1>2. ASSUME NEW k \in S PROVE k + 1 \in S
  <2>1. CASE \E n \in 0 .. Len(b) : EndsAt(b, n)
    BY <2>1
  <2>2. CASE \A i \in 1 .. k : i <= Len(b) => b[i] # Nul
    <3>1. CASE k + 1 <= Len(b) /\ b[k + 1] = Nul
      <4>1. EndsAt(b, k) /\ k \in 0 .. Len(b)
        BY <1>0, <2>2, <3>1 DEF EndsAt
      <4> QED
        BY <4>1
    <3>2. CASE ~(k + 1 <= Len(b) /\ b[k + 1] = Nul)
      BY <1>0, <2>2, <3>2
    <3> QED
      BY <3>1, <3>2
  <2> QED
    BY <2>1, <2>2
<1>3. Len(b) \in S
  BY <1>0, <1>1, <1>2, SetInduction
<1>4. CASE \A i \in 1 .. Len(b) : i <= Len(b) => b[i] # Nul
  <2>1. EndsAt(b, Len(b)) /\ Len(b) \in 0 .. Len(b)
    BY <1>0, <1>4 DEF EndsAt
  <2> QED
    BY <2>1
<1> QED
  BY <1>3, <1>4

LEMMA StringIs ==
  ASSUME NEW b \in Seq(Word), NEW n \in 0 .. Len(b), EndsAt(b, n)
  PROVE  CString(b) = SubSeq(b, 1, n)
<1> DEFINE m == CHOOSE k \in 0 .. Len(b) : EndsAt(b, k)
<1>0. Len(b) \in Nat
  BY LenProperties
<1>1. m \in 0 .. Len(b) /\ EndsAt(b, m)
  OBVIOUS
<1>2. m = n
  <2> HIDE DEF m
  <2>1. ~(m < n) /\ ~(n < m)
    BY <1>0, <1>1 DEF EndsAt
  <2> QED
    BY <1>0, <1>1, <2>1
<1>3. CString(b) = SubSeq(b, 1, m)
  BY DEF CString, EndsAt
<1> QED
  BY <1>2, <1>3

(* What the parser reads is the packet up to its first zero, whatever an   *)
(* earlier packet left behind the terminator.                              *)
LEMMA StringOfPacket ==
  ASSUME NEW b \in Seq(Word), NEW p \in Seq(Word), Len(p) < Len(b)
  PROVE  CString(Terminated(Overlay(b, p), Len(p))) = CString(p)
<1> DEFINE o == Overlay(b, p)
           z == Terminated(o, Len(p))
<1>0. Len(b) \in Nat /\ Len(p) \in Nat
  BY LenProperties
<1>1. o \in Seq(Word) /\ Len(o) = Len(b)
  BY OverlayType
<1>2. z \in Seq(Word) /\ Len(z) = Len(b)
  <2>1. o \in [1 .. Len(b) -> Word] /\ Nul \in Word
    BY <1>1, LenProperties DEF Word
  <2>2. z \in [1 .. Len(b) -> Word]
    BY <2>1 DEF Terminated
  <2> QED
    BY <1>0, <2>2, LenProperties
<1>3. z[Len(p) + 1] = Nul /\ \A i \in 1 .. Len(p) : z[i] = p[i]
  <2>1. o \in [1 .. Len(b) -> Word] /\ \A i \in 1 .. Len(p) : o[i] = p[i]
    BY <1>0, <1>1, LenProperties DEF Overlay
  <2> QED
    BY <1>0, <2>1 DEF Terminated
<1> HIDE DEF o, z
<1>4. PICK n \in 0 .. Len(p) : EndsAt(p, n)
  BY StringEnds
<1>5. n \in 0 .. Len(z) /\ EndsAt(z, n)
  <2>1. CASE n = Len(p)
    BY <1>0, <1>2, <1>3, <1>4, <2>1 DEF EndsAt
  <2>2. CASE n < Len(p)
    <3>1. n + 1 \in 1 .. Len(p) /\ p[n + 1] = Nul
      BY <1>0, <1>4, <2>2 DEF EndsAt
    <3>2. z[n + 1] = Nul /\ \A i \in 1 .. n : z[i] # Nul
      BY <1>0, <1>3, <1>4, <2>2, <3>1 DEF EndsAt
    <3> QED
      BY <1>0, <1>2, <1>4, <2>2, <3>2 DEF EndsAt
  <2> QED
    BY <1>0, <2>1, <2>2
<1>6. SubSeq(z, 1, n) = SubSeq(p, 1, n)
  <2>1. /\ SubSeq(z, 1, n) \in Seq(Word) /\ Len(SubSeq(z, 1, n)) = n
        /\ SubSeq(p, 1, n) \in Seq(Word) /\ Len(SubSeq(p, 1, n)) = n
    BY <1>0, <1>2, <1>4, <1>5, PrefixType
  <2>2. \A i \in 1 .. n : SubSeq(z, 1, n)[i] = SubSeq(p, 1, n)[i]
    BY <1>0, <1>2, <1>3, <1>5, SubSeqProperties
  <2> QED
    BY <2>1, <2>2, SeqEqual
<1>7. CString(z) = SubSeq(z, 1, n) /\ CString(p) = SubSeq(p, 1, n)
  BY <1>2, <1>4, <1>5, StringIs
<1> QED
  BY <1>6, <1>7 DEF z, o

------------------------------------------------------------------------------
(* How a step of the daemon looks from one side.                           *)

\* The side takes a packet from its socket.
Takes(s) == (s = "GA" /\ ReceiveGA) \/ (s = "RA" /\ ReceiveRA)

LEMMA TakeEnds ==
  ASSUME NEW s \in Side, Takes(s)
  PROVE  /\ proc = "running" /\ pc[s] = "recv" /\ queue[s] # <<>>
         /\ got' = [got EXCEPT ![s] = Append(@, Head(queue[s]))]
         /\ Throw(s) \/ Terminate \/ Hang \/ \E m : Forward(s, m)
<1>1. CASE s = "GA" /\ ReceiveGA
  BY <1>1 DEF ReceiveGA, ReceiveInto, CanReceive
<1>2. CASE s = "RA" /\ ReceiveRA
  <2>1. /\ proc = "running" /\ pc[s] = "recv" /\ queue[s] # <<>>
        /\ got' = [got EXCEPT ![s] = Append(@, Head(queue[s]))]
    BY <1>2 DEF ReceiveRA, ReceiveInto, CanReceive
  <2>2. Throw(s) \/ Terminate \/ Hang \/ \E m : Forward(s, m)
    BY <1>2, ReceiveRAEnds DEF ReceiveRA, ValidateAndForward
  <2> QED
    BY <1>2, <2>1, <2>2
<1> QED
  BY <1>1, <1>2 DEF Takes

LEMMA NextBySide ==
  Next => \E s \in Side : \/ Arrive(s) \/ Takes(s) \/ SendTo(s)
                         \/ ReceiveError(s) \/ SendError(s)
<1>1. ReceiveGA => Takes("GA") /\ "GA" \in Side
  BY Zenon DEF Takes, Side
<1>2. ReceiveRA => Takes("RA") /\ "RA" \in Side
  BY Zenon DEF Takes, Side
<1> QED
  BY <1>1, <1>2 DEF Next

(* On ARM the coroutines fail separately: an exception on one side leaves  *)
(* the other side where it was and the process running as long as that     *)
(* side lives (spawn_coroutine).                                           *)
THEOREM FailSeparatelyCorrect == SafeSpec => FailSeparately
<1> DEFINE Alone(s) == (Arm /\ pc[s] # "dead" /\ pc'[s] = "dead") =>
                         /\ pc'[Other(s)] = pc[Other(s)]
                         /\ pc[Other(s)] # "dead" => proc' = "running"
<1>1. ASSUME TypeOK, [Next]_vars PROVE \A s \in Side : Alone(s)
  <2> SUFFICES ASSUME NEW s \in Side, Arm, pc[s] # "dead", pc'[s] = "dead"
               PROVE  /\ pc'[Other(s)] = pc[Other(s)]
                      /\ pc[Other(s)] # "dead" => proc' = "running"
    OBVIOUS
  <2>0. pc \in [Side -> {"recv", "send", "dead"}]
    BY <1>1 DEF TypeOK, ControlOK
  <2>1. ~ UNCHANGED pc
    OBVIOUS
  <2>2. \E x \in Side : proc = "running" /\ Throw(x)
    <3>1. ASSUME NEW x \in Side, SendTo(x) \/ \E m : Forward(x, m) PROVE FALSE
      BY <2>0, <3>1 DEF SendTo, Advance, Forward
    <3>2. ASSUME NEW x \in Side, Takes(x) PROVE proc = "running" /\ Throw(x)
      BY <2>1, <3>1, <3>2, TakeEnds DEF Terminate, Hang
    <3>3. ASSUME NEW x \in Side, ReceiveError(x) \/ SendError(x)
          PROVE  proc = "running" /\ Throw(x)
      BY <3>3 DEF ReceiveError, SendError
    <3>4. \A x \in Side : ~ Arrive(x)
      BY <2>1 DEF Arrive
    <3>5. Next
      BY <1>1, <2>1 DEF vars
    <3> QED
      BY <3>1, <3>2, <3>3, <3>4, <3>5, NextBySide
  <2>3. PICK x \in Side : proc = "running" /\ Throw(x)
    BY <2>2
  <2>4. x = s /\ Other(s) # s /\ pc' = [pc EXCEPT ![s] = "dead"]
    BY <2>0, <2>3 DEF Throw, Other, Side
  <2> QED
    BY <2>0, <2>3, <2>4 DEF Throw
<1>2. SafeSpec => [][\A s \in Side : Alone(s)]_vars
  <2>1. SafeSpec => []TypeOK
    BY TypeCorrect
  <2>2. TypeOK /\ [Next]_vars => [\A s \in Side : Alone(s)]_vars
    BY <1>1
  <2> QED
    BY <2>1, <2>2, PTL DEF SafeSpec
<1> QED
  BY <1>2 DEF FailSeparately

------------------------------------------------------------------------------
(* The relay of a side accepts what the side logs.                         *)

\* Nothing is logged for the side, which stops if it loses a packet.
Kept(s) ==
  /\ log'[s] = log[s]
  /\ \/ got'[s] = got[s]
     \/ /\ ~IsOpen(s)'
        /\ \E p \in Datagrams[s] : got'[s] = Append(got[s], p)
  /\ IsOpen(s)' => IsOpen(s)

(* Every step either leaves a side's log and endpoints alone, or sends to  *)
(* one of its endpoints, or takes a packet and goes on to send.            *)
LEMMA Classify ==
  ASSUME TypeOK, [Next]_vars, NEW s \in Side
  PROVE  \/ Kept(s) /\ out'[s] = out[s]
         \/ Kept(s) /\ SendTo(s)
         \/ Takes(s) /\ \E m : Forward(s, m)
<1>0. /\ pc \in [Side -> {"recv", "send", "dead"}]
      /\ DOMAIN log = Side /\ DOMAIN got = Side /\ DOMAIN out = Side
  BY DEF TypeOK, ControlOK, BuffersOK
<1>1. CASE UNCHANGED vars
  BY <1>1 DEF vars, Kept, IsOpen
<1>2. ASSUME NEW x \in Side, Arrive(x) PROVE Kept(s) /\ out'[s] = out[s]
  BY <1>2 DEF Arrive, Kept, IsOpen
<1>3. ASSUME NEW x \in Side, ReceiveError(x) \/ SendError(x)
      PROVE  Kept(s) /\ out'[s] = out[s]
  <2>1. proc = "running" /\ Throw(x) /\ UNCHANGED <<d, got>>
    BY <1>3 DEF ReceiveError, SendError
  <2>2. pc'[s] # "dead" => pc[s] # "dead"
    BY <1>0, <2>1 DEF Throw
  <2> QED
    BY <2>1, <2>2 DEF Throw, Kept, IsOpen
<1>4. ASSUME NEW x \in Side, SendTo(x)
      PROVE  Kept(s) /\ (x # s => out'[s] = out[s])
  <2>1. /\ UNCHANGED <<proc, d, got, log>> /\ (pc'[s] # "dead" => pc[s] # "dead")
        /\ x # s => out'[s] = out[s]
    BY <1>0, <1>4 DEF SendTo, Advance
  <2> QED
    BY <2>1 DEF Kept, IsOpen
<1>5. ASSUME NEW x \in Side, Takes(x)
      PROVE  \/ Kept(s) /\ out'[s] = out[s]
             \/ x = s /\ \E m : Forward(s, m)
  <2>1. /\ proc = "running" /\ pc[x] = "recv" /\ queue[x] # <<>>
        /\ got' = [got EXCEPT ![x] = Append(@, Head(queue[x]))]
        /\ Throw(x) \/ Terminate \/ Hang \/ \E m : Forward(x, m)
    BY <1>5, TakeEnds
  <2>2. Head(queue[x]) \in Datagrams[x]
    BY <2>1, PacketTypes
  <2>3. CASE Throw(x)
    <3>1. /\ log'[s] = log[s] /\ out'[s] = out[s]
          /\ (pc'[s] # "dead" => pc[s] # "dead") /\ pc'[x] = "dead"
      BY <1>0, <2>3 DEF Throw
    <3>2. CASE x = s
      BY <1>0, <2>1, <2>2, <3>1, <3>2 DEF Kept, IsOpen
    <3>3. CASE x # s
      <4>1. got'[s] = got[s]
        BY <2>1, <3>3
      <4> QED
        BY <2>1, <3>1, <4>1 DEF Kept, IsOpen
    <3> QED
      BY <3>2, <3>3
  <2>4. CASE Terminate \/ Hang
    <3>1. log' = log /\ out' = out /\ proc' # "running"
      BY <2>4 DEF Terminate, Hang
    <3>2. got'[s] = got[s] \/ (x = s /\ got'[s] = Append(got[s], Head(queue[x])))
      <4>1. CASE x = s
        BY <1>0, <2>1, <4>1
      <4>2. CASE x # s
        BY <1>0, <2>1, <4>2
      <4> QED
        BY <4>1, <4>2
    <3> QED
      BY <2>2, <3>1, <3>2 DEF Kept, IsOpen
  <2>5. ASSUME NEW m, Forward(x, m), x # s PROVE Kept(s) /\ out'[s] = out[s]
    <3>1. log'[s] = log[s] /\ out'[s] = out[s] /\ UNCHANGED proc /\ pc'[s] = pc[s]
      BY <1>0, <2>5 DEF Forward
    <3>2. got'[s] = got[s]
      BY <2>1, <2>5
    <3> QED
      BY <3>1, <3>2 DEF Kept, IsOpen
  <2> QED
    BY <2>1, <2>3, <2>4, <2>5
<1> QED
  BY <1>1, <1>2, <1>3, <1>4, <1>5, NextBySide

\* The k-th message of the side is the translation of the k-th packet.
SideInv(s) ==
  /\ Len(log[s]) <= Len(got[s])
  /\ IsOpen(s) => Len(log[s]) = Len(got[s])
  /\ \A k \in 1 .. Len(log[s]) :
       /\ Text(s, got[s][k]) \in Acceptable(s)
       /\ log[s][k] = Translation(s, Text(s, got[s][k]))

(* Later packets leave the earlier ones where they are.                    *)
LEMMA SourceKept ==
  ASSUME TypeOK, NEW s \in Side, NEW k \in 1 .. Len(got[s]),
         got'[s] = got[s] \/ \E p \in Datagrams[s] : got'[s] = Append(got[s], p)
  PROVE  Text(s, got'[s][k]) = Text(s, got[s][k])
<1>1. got[s] \in Seq(Datagrams[s]) /\ Len(got[s]) \in Nat
  BY LenProperties DEF TypeOK, BuffersOK
<1>2. got'[s][k] = got[s][k]
  BY <1>1, AppendProperties
<1> QED
  BY <1>2

LEMMA KeptSide ==
  ASSUME TypeOK, NEW s \in Side, SideInv(s), Kept(s)
  PROVE  SideInv(s)' /\ Accepted(s)' = Accepted(s)
<1>1. /\ got[s] \in Seq(Datagrams[s]) /\ Len(got[s]) \in Nat /\ Len(log[s]) \in Nat
      /\ Len(log[s]) <= Len(got[s])
  BY LenProperties DEF TypeOK, BuffersOK, ControlOK, SideInv
<1>2. Len(got'[s]) >= Len(got[s]) /\ (IsOpen(s)' => got'[s] = got[s])
  BY <1>1, AppendProperties DEF Kept
<1>3. \A k \in 1 .. Len(log[s]) : Text(s, got'[s][k]) = Text(s, got[s][k])
  BY <1>1, SourceKept DEF Kept
<1>4. Accepted(s)' = Accepted(s)
  BY <1>3 DEF Accepted, Kept
<1>5. log'[s] = log[s] /\ (IsOpen(s)' => IsOpen(s))
  BY DEF Kept
<1>6. Len(got'[s]) \in Nat
  BY <1>1, AppendProperties DEF Kept
<1> QED
  BY <1>1, <1>2, <1>3, <1>4, <1>5, <1>6 DEF SideInv

------------------------------------------------------------------------------
(* Advertisements, if a failing Document::Parse clears the root.           *)

(* Then the root is an object only if the text was, and what is made of it *)
(* is the translation of that text.                                        *)
LEMMA RootFrom ==
  ASSUME ~Custom, ~KeepRoot, NEW t, NEW x \in Params, Open(x) \in Parse(t, d),
         Made(x) \in Outcomes(x)
  PROVE  t \in Objects /\ Translation("RA", t) = <<Made(x)>>
<1>1. Open(x) # Null /\ Open(x) # Scalar
  BY DEF Open, Null, Scalar
<1>2. PICK y \in Params : t = <<Open(y), Close>>
  BY <1>1 DEF Parse
<1>3. Open(x) = t[1] /\ t[1] = Open(y)
  BY <1>2 DEF Parse
<1>4. x = y
  BY <1>3 DEF Open
<1>5. t[1][2] = x
  BY <1>3 DEF Open
<1> QED
  BY <1>2, <1>4, <1>5 DEF Objects, Translation

LEMMA TakeRA ==
  ASSUME Custom \/ ~KeepRoot, TypeOK, SideInv("RA"), ReceiveRA, log'["RA"] # log["RA"]
  PROVE  SideInv("RA")'
<1> DEFINE p == Head(queue["RA"])
           b == Overlay(buf["RA"], p)
           z == Terminated(b, Len(p))
<1>0. /\ "RA" \in Side /\ queue["RA"] # <<>> /\ proc = "running" /\ pc["RA"] = "recv"
      /\ got' = [got EXCEPT !["RA"] = Append(@, p)]
  BY DEF ReceiveRA, ReceiveInto, CanReceive, Side
<1>1. /\ p \in Seq(Word) /\ p \in Datagrams["RA"] /\ Len(p) \in Nat
      /\ buf["RA"] \in Seq(Word) /\ Len(buf["RA"]) = BufLen["RA"]
      /\ Len(p) < BufLen["RA"] /\ Received("RA", p) = Len(p)
      /\ b \in Seq(Word) /\ Len(b) = BufLen["RA"] /\ BufLen["RA"] \in Nat
  <2>1. /\ p \in Seq(Word) /\ p \in Datagrams["RA"]
        /\ b \in Seq(Word) /\ Len(b) = BufLen["RA"]
    BY <1>0, PacketTypes
  <2>2. buf["RA"] \in Seq(Word) /\ Len(buf["RA"]) = BufLen["RA"]
    BY <1>0 DEF TypeOK, BuffersOK
  <2>3. Len(p) < BufLen["RA"] /\ Len(p) \in Nat /\ BufLen["RA"] \in Nat
    BY <1>0, <2>1, DatagramsAssumption, BufLenAssumption, LenProperties
  <2> QED
    BY <2>1, <2>2, <2>3 DEF Received
<1> HIDE DEF p, b, z
<1>a. PICK k \in Nat : k = Len(got["RA"])
  BY <1>0, LenProperties DEF TypeOK, BuffersOK
<1>2. /\ got["RA"] \in Seq(Datagrams["RA"]) /\ Len(got["RA"]) = k
      /\ Len(log["RA"]) = k
      /\ log["RA"] \in Seq(Message) /\ log \in [Side -> Seq(Message)]
  BY <1>0, <1>a, LenProperties DEF TypeOK, BuffersOK, ControlOK, SideInv, IsOpen
<1>3. /\ got'["RA"] = Append(got["RA"], p) /\ Len(got'["RA"]) = k + 1
      /\ got'["RA"][k + 1] = p /\ got'["RA"] # <<>>
  <2>1. got'["RA"] = Append(got["RA"], p)
    BY <1>0 DEF TypeOK, BuffersOK
  <2>2. p \in Datagrams["RA"] /\ got["RA"] \in Seq(Datagrams["RA"])
    BY <1>1, <1>2
  <2>3. /\ Append(got["RA"], p) # <<>> /\ Len(Append(got["RA"], p)) = Len(got["RA"]) + 1
        /\ Append(got["RA"], p)[Len(got["RA"]) + 1] = p
    BY ONLY <2>2, AppendProperties
  <2> QED
    BY ONLY <1>2, <2>1, <2>3
<1>4. \A i \in 1 .. k : Text("RA", got'["RA"][i]) = Text("RA", got["RA"][i])
  BY <1>0, <1>1, <1>2, <1>3, SourceKept
<1>5. ASSUME NEW m \in Message, ValidateAndForward(m)
      PROVE  "pass" \in Verdicts(m) /\ log'["RA"] = Append(log["RA"], m)
  BY <1>0, <1>2, <1>5 DEF ValidateAndForward, Throw, Hang, Forward
<1>6. ASSUME NEW m \in Message, ValidateAndForward(m),
             m = Translation("RA", Text("RA", p)),
             Custom => Text("RA", p) \in Datagrams["RA"],
             ~Custom => Text("RA", p) \in Objects
      PROVE  SideInv("RA")'
  <2>1. Text("RA", p) \in Acceptable("RA")
    BY <1>5, <1>6 DEF Acceptable
  <2>2. /\ Len(log'["RA"]) = k + 1 /\ log'["RA"][k + 1] = m
        /\ \A i \in 1 .. k : log'["RA"][i] = log["RA"][i]
    BY SMTT(30), <1>2, <1>5, <1>6, AppendProperties
  <2>3. \A i \in 1 .. k :
          /\ Text("RA", got'["RA"][i]) \in Acceptable("RA")
          /\ log'["RA"][i] = Translation("RA", Text("RA", got'["RA"][i]))
    BY <1>2, <1>4, <2>2 DEF SideInv
  <2>4. \A i \in 1 .. k + 1 :
          /\ Text("RA", got'["RA"][i]) \in Acceptable("RA")
          /\ log'["RA"][i] = Translation("RA", Text("RA", got'["RA"][i]))
    BY <1>2, <1>3, <1>6, <2>1, <2>2, <2>3
  <2> QED
    BY <1>2, <1>3, <2>2, <2>4 DEF SideInv
<1>7. CASE Custom
  <2>1. Text("RA", p) = p
    BY <1>7 DEF Text
  <2>2. SubSeq(b, 1, Len(p)) = SubSeq(p, 1, Len(p)) /\ SubSeq(b, 1, Len(p)) \in Message
    <3>1. SubSeq(b, 1, Len(p)) \in Seq(Word)
      BY <1>1, PrefixType
    <3>2. \A i \in 1 .. Len(p) : b[i] = p[i]
      BY <1>1 DEF b, Overlay
    <3> QED
      BY <1>1, <3>1, <3>2, SubSeqProperties DEF Message
  <2>3. ValidateAndForward(SubSeq(b, 1, Len(p)))
    BY <1>7 DEF ReceiveRA, b, p
  <2>4. SubSeq(b, 1, Len(p)) = Translation("RA", p)
    BY <1>1, <1>7, <2>2 DEF Translation
  <2> QED
    BY <1>1, <1>6, <1>7, <2>1, <2>2, <2>3, <2>4
<1>8. CASE ~Custom
  <2> DEFINE t == CString(z)
  <2>0. t = CString(p) /\ t = Text("RA", p) /\ LocalText = t
    BY <1>1, <1>8, StringOfPacket DEF z, b, p, Text, CStrings, LocalText
  <2> HIDE DEF t
  <2>1. PICK root \in Parse(t, d) :
          \/ Throw("RA") \/ Terminate
          \/ \E x \in Params : /\ root = Open(x) /\ Made(x) \in Outcomes(x)
                              /\ ValidateAndForward(<<Made(x)>>)
    BY <1>8, <2>0, ReceiveRAEnds
  <2>2. PICK x \in Params : /\ root = Open(x) /\ Made(x) \in Outcomes(x)
                            /\ ValidateAndForward(<<Made(x)>>)
    BY <2>1 DEF Throw, Terminate
  <2>3. t \in Objects /\ Translation("RA", t) = <<Made(x)>>
    BY <1>8, <2>1, <2>2, RootFrom
  <2> QED
    BY <1>6, <1>8, <2>0, <2>2, <2>3, MadeType
<1> QED
  BY <1>7, <1>8

AdvInv == FanOutInv /\ SideInv("RA")

LEMMA AdvInvInit == Init => AdvInv
<1> SUFFICES ASSUME Init PROVE AdvInv
  OBVIOUS
<1>1. FanOutInv
  BY FanOutInvInit
<1>2. log["RA"] = <<>> /\ got["RA"] = <<>>
  BY DEF Init, Side
<1> QED
  BY <1>1, <1>2 DEF AdvInv, SideInv

LEMMA AdvInvNext == (Custom \/ ~KeepRoot) /\ AdvInv /\ [Next]_vars => AdvInv'
<1> SUFFICES ASSUME Custom \/ ~KeepRoot, AdvInv, [Next]_vars PROVE AdvInv'
  OBVIOUS
<1>0. TypeOK /\ SideInv("RA") /\ FanOutInv' /\ "RA" \in Side
  BY FanOutInvNext DEF AdvInv, FanOutInv, Side
<1>1. CASE Kept("RA")
  BY <1>0, <1>1, KeptSide DEF AdvInv
<1>2. ASSUME NEW m, Takes("RA"), Forward("RA", m) PROVE AdvInv'
  <2>1. ReceiveRA
    BY <1>2 DEF Takes
  <2>2. log'["RA"] = Append(log["RA"], m) /\ log["RA"] \in Seq(Message)
    BY <1>0, <1>2 DEF Forward, TypeOK, ControlOK
  <2>3. log'["RA"] # log["RA"]
    BY <2>2
  <2>4. SideInv("RA")'
    BY <1>0, <2>1, <2>3, TakeRA
  <2> QED
    BY <1>0, <2>4 DEF AdvInv
<1> QED
  BY <1>0, <1>1, <1>2, Classify

(* Unless a failing Document::Parse keeps the root, every advertisement is *)
(* made of the packet that was being handled, and of nothing that an       *)
(* earlier one left in _local_data or in the Document (listenRAside).      *)
THEOREM AdvsFreshCorrect ==
  ASSUME Custom \/ ~KeepRoot
  PROVE  SafeSpec => []AdvsFresh
<1>1. Init => AdvInv
  BY AdvInvInit
<1>2. AdvInv /\ [Next]_vars => AdvInv'
  BY AdvInvNext
<1>3. AdvInv => AdvsFresh
  BY DEF AdvInv, SideInv, AdvsFresh
<1> QED
  BY <1>1, <1>2, <1>3, PTL DEF SafeSpec

LEMMA FreshSide ==
  ASSUME FreshInv
  PROVE  SideInv("GA")
<1>1. \A p : Text("GA", p) = p
  BY DEF Text
<1> QED
  BY <1>1 DEF FreshInv, RequestsFresh, SideInv, IsOpen

------------------------------------------------------------------------------
(* A step of the daemon is, for either side, a step of its relay.          *)

Stays(s) ==
  Accepted(s)' = Accepted(s) /\ out'[s] = out[s] /\ (IsOpen(s)' => IsOpen(s))
Accepts(s) ==
  /\ IsOpen(s) /\ IsOpen(s)' /\ out'[s] = out[s]
  /\ \E p \in Acceptable(s) : Accepted(s)' = Append(Accepted(s), p)
Delivers(s) ==
  /\ IsOpen(s) /\ IsOpen(s)' /\ Accepted(s)' = Accepted(s)
  /\ \E e \in Endpoint(s) :
       /\ Len(out[s][e]) < Len(Accepted(s))
       /\ Accepted(s)[Len(out[s][e]) + 1] \in Acceptable(s)
       /\ out'[s] = [out[s] EXCEPT
            ![e] = Append(@, Translation(s, Accepted(s)[Len(@) + 1]))]

LEMMA AcceptedType ==
  ASSUME TypeOK, NEW s \in Side, SideInv(s)
  PROVE  /\ Accepted(s) \in Seq(Acceptable(s)) /\ Len(Accepted(s)) = Len(log[s])
         /\ Len(log[s]) \in Nat
         /\ \A k \in 1 .. Len(log[s]) : Accepted(s)[k] = Text(s, got[s][k])
<1>1. Len(log[s]) \in Nat
  BY LenProperties DEF TypeOK, ControlOK
<1>2. \A k \in 1 .. Len(log[s]) : Text(s, got[s][k]) \in Acceptable(s)
  BY DEF SideInv
<1> QED
  BY <1>1, <1>2 DEF Accepted

LEMMA StepAccepts ==
  ASSUME TypeOK, TypeOK', NEW s \in Side, SideInv(s), SideInv(s)', Takes(s),
         NEW m, Forward(s, m)
  PROVE  Accepts(s)
<1>1. /\ proc = "running" /\ pc[s] = "recv" /\ queue[s] # <<>>
      /\ got'[s] = Append(got[s], Head(queue[s]))
  BY TakeEnds DEF TypeOK, BuffersOK
<1>2. /\ log'[s] = Append(log[s], m) /\ out'[s] = out[s]
      /\ proc' = proc /\ pc'[s] = "send"
  BY DEF Forward, TypeOK, ControlOK
<1>3. IsOpen(s) /\ IsOpen(s)'
  BY <1>1, <1>2 DEF IsOpen
<1>4. PICK n \in Nat : n = Len(log[s])
  BY AcceptedType
<1>5. Len(log'[s]) = n + 1 /\ Len(got[s]) = n
  BY <1>2, <1>3, <1>4 DEF SideInv, TypeOK, ControlOK
<1>6. /\ Accepted(s) \in Seq(Acceptable(s)) /\ Len(Accepted(s)) = n
      /\ \A k \in 1 .. n : Accepted(s)[k] = Text(s, got[s][k])
  BY <1>4, AcceptedType
<1>7. /\ Accepted(s)' = [k \in 1 .. n + 1 |-> Text(s, got'[s][k])]
      /\ Text(s, got'[s][n + 1]) \in Acceptable(s)
  <2>1. n + 1 \in 1 .. Len(log'[s])
    BY <1>5
  <2>2. Text(s, got'[s][n + 1]) \in Acceptable(s)
    BY <2>1 DEF SideInv
  <2>3. Accepted(s)' = [k \in 1 .. Len(log'[s]) |-> Text(s, got'[s][k])]
    BY DEF Accepted
  <2> QED
    BY <1>5, <2>2, <2>3
<1>8. \A k \in 1 .. n : Text(s, got'[s][k]) = Text(s, got[s][k])
  BY <1>1, <1>5, PacketTypes, SourceKept
<1> DEFINE grown == Append(Accepted(s), Text(s, got'[s][n + 1]))
<1>9. /\ grown \in Seq(Acceptable(s)) /\ Len(grown) = n + 1
      /\ \A k \in 1 .. n : grown[k] = Text(s, got[s][k])
      /\ grown[n + 1] = Text(s, got'[s][n + 1])
  BY ONLY <1>6, <1>7, AppendProperties
<1>10. Accepted(s)' = grown
  <2>1. DOMAIN grown = 1 .. n + 1 /\ grown = [k \in DOMAIN grown |-> grown[k]]
    BY <1>9, LenProperties
  <2> HIDE DEF grown
  <2>2. \A k \in 1 .. n : grown[k] = Text(s, got'[s][k])
    BY ONLY <1>8, <1>9
  <2>3. \A k \in 1 .. n + 1 : k \in 1 .. n \/ k = n + 1
    OBVIOUS
  <2>4. \A k \in 1 .. n + 1 : grown[k] = Text(s, got'[s][k])
    BY ONLY <1>9, <2>2, <2>3
  <2>5. grown = [k \in 1 .. n + 1 |-> Text(s, got'[s][k])]
    BY ONLY <2>1, <2>4
  <2> QED
    BY ONLY <1>7, <2>5
<1> QED
  BY <1>2, <1>3, <1>7, <1>10 DEF Accepts

LEMMA StepDelivers ==
  ASSUME FanOutInv, NEW s \in Side, SideInv(s), Kept(s), SendTo(s)
  PROVE  Delivers(s)
<1>0. TypeOK
  BY DEF FanOutInv
<1>1. /\ pc[s] = "send" /\ next[s] \in Endpoint(s) /\ log[s] # <<>>
      /\ log[s] \in Seq(Message) /\ out[s] \in [Endpoint(s) -> Seq(Message)]
  BY <1>0 DEF SendTo, Advance, TypeOK, ControlOK
<1>2. /\ proc = "running" /\ proc' = proc /\ pc'[s] \in {"send", "recv"}
      /\ out'[s] = [out[s] EXCEPT ![next[s]] = Append(@, Payload(s))]
  BY <1>0, <1>1 DEF SendTo, Advance, Sent, TypeOK, ControlOK
<1>3. Accepted(s)' = Accepted(s)
  BY <1>0, KeptSide
<1>4. /\ Len(log[s]) \in Nat /\ Len(log[s]) > 0
      /\ Len(out[s][next[s]]) = Len(log[s]) - 1
      /\ Payload(s) = log[s][Len(log[s])]
  <2>1. SendLoop(s)
    BY DEF FanOutInv
  <2>2. Len(log[s]) \in Nat /\ Len(log[s]) > 0
    BY <1>1, LenProperties, EmptySeq
  <2>3. next[s] \in Nat /\ ~(next[s] < next[s])
    BY <1>0, <1>1 DEF TypeOK, ControlOK
  <2> QED
    BY <1>1, <2>1, <2>2, <2>3 DEF SendLoop
<1>5. /\ Len(Accepted(s)) = Len(log[s])
      /\ Payload(s) = Translation(s, Accepted(s)[Len(out[s][next[s]]) + 1])
  BY <1>0, <1>4, AcceptedType DEF SideInv
<1>6. IsOpen(s) /\ IsOpen(s)'
  BY <1>1, <1>2 DEF IsOpen
<1>7. out'[s] = [out[s] EXCEPT
        ![next[s]] = Append(@, Translation(s, Accepted(s)[Len(@) + 1]))]
  BY <1>2, <1>5
<1>8. /\ Len(out[s][next[s]]) < Len(Accepted(s))
      /\ Accepted(s)[Len(out[s][next[s]]) + 1] \in Acceptable(s)
  <2>1. Len(log[s]) \in 1 .. Len(log[s])
    BY <1>4
  <2> QED
    BY <1>0, <1>4, <1>5, <2>1, AcceptedType DEF SideInv
<1> QED
  BY <1>1, <1>3, <1>6, <1>7, <1>8 DEF Delivers

LEMMA SideStep ==
  ASSUME FanOutInv, TypeOK', NEW s \in Side, SideInv(s), SideInv(s)', [Next]_vars
  PROVE  Stays(s) \/ Accepts(s) \/ Delivers(s)
<1>0. TypeOK
  BY DEF FanOutInv
<1>1. CASE Kept(s) /\ out'[s] = out[s]
  BY <1>0, <1>1, KeptSide DEF Stays, Kept
<1> QED
  BY <1>0, <1>1, Classify, StepAccepts, StepDelivers

LEMMA AdvRelayStep ==
  ASSUME Stays("RA") \/ Accepts("RA") \/ Delivers("RA")
  PROVE  [AdvRelay!Next]_(AdvRelay!vars)
<1>1. CASE Stays("RA")
  <2>1. CASE IsOpen("RA")' <=> IsOpen("RA")
    <3>1. IsOpen("RA")' = IsOpen("RA")
      BY <2>1 DEF IsOpen
    <3> QED
      BY <1>1, <3>1 DEF Stays, AdvRelay!vars
  <2>2. CASE ~(IsOpen("RA")' <=> IsOpen("RA"))
    <3>1. IsOpen("RA") /\ IsOpen("RA")' = FALSE
      BY <1>1, <2>2 DEF Stays, IsOpen
    <3>2. AdvRelay!Stop
      BY <1>1, <3>1 DEF Stays, AdvRelay!Stop
    <3> QED
      BY <3>2 DEF AdvRelay!Next
  <2> QED
    BY <2>1, <2>2
<1>2. CASE Accepts("RA")
  <2>1. IsOpen("RA")' = IsOpen("RA")
    BY <1>2 DEF Accepts, IsOpen
  <2>2. \E p \in Acceptable("RA") : AdvRelay!Accept(p)
    BY <1>2, <2>1 DEF Accepts, AdvRelay!Accept
  <2> QED
    BY <2>2 DEF AdvRelay!Next
<1>3. CASE Delivers("RA")
  <2>1. IsOpen("RA")' = IsOpen("RA")
    BY <1>3 DEF Delivers, IsOpen
  <2>2. PICK e \in Endpoint("RA") :
          /\ Len(out["RA"][e]) < Len(Accepted("RA"))
          /\ Accepted("RA")[Len(out["RA"][e]) + 1] \in Acceptable("RA")
          /\ out'["RA"] = [out["RA"] EXCEPT ![e] =
               Append(@, Translation("RA", Accepted("RA")[Len(@) + 1]))]
    BY <1>3 DEF Delivers
  <2> QED
    BY <1>3, <2>1, <2>2 DEF Delivers, AdvRelay!Next, AdvRelay!Deliver
<1> QED
  BY <1>1, <1>2, <1>3

LEMMA AdvRelayInit == Init => AdvRelay!Init
<1> SUFFICES ASSUME Init PROVE AdvRelay!Init
  OBVIOUS
<1>1. /\ log["RA"] = <<>> /\ out["RA"] = [e \in Endpoint("RA") |-> <<>>]
      /\ proc = "running" /\ pc["RA"] = "recv"
  BY DEF Init, Side
<1>2. Accepted("RA") = <<>> /\ IsOpen("RA") = TRUE
  BY <1>1 DEF Accepted, IsOpen
<1> QED
  BY <1>1, <1>2 DEF AdvRelay!Init

(* The advertisement side keeps the safety part of a relay's promise, in   *)
(* every build and configuration, unless a failing Document::Parse keeps   *)
(* the root: each advertisement it sends is compiled from the packet that just *)
(* came in, none is sent twice or out of order to any endpoint, and        *)
(* nothing is sent once the side stopped (listenRAside,                    *)
(* serializeAndAsyncSend, the zero written behind a packet).               *)
THEOREM AdvsRelayedSafely ==
  ASSUME Custom \/ ~KeepRoot
  PROVE  SafeSpec => AdvRelay!SafeSpec
<1>1. Init => AdvInv /\ AdvRelay!Init
  BY AdvInvInit, AdvRelayInit
<1>2. AdvInv /\ [Next]_vars => AdvInv'
  BY AdvInvNext
<1>3. AdvInv /\ AdvInv' /\ [Next]_vars => [AdvRelay!Next]_(AdvRelay!vars)
  <2> SUFFICES ASSUME AdvInv, AdvInv', [Next]_vars
               PROVE  [AdvRelay!Next]_(AdvRelay!vars)
    OBVIOUS
  <2>1. FanOutInv /\ SideInv("RA") /\ SideInv("RA")' /\ TypeOK' /\ "RA" \in Side
    BY DEF AdvInv, FanOutInv, Side
  <2> QED
    BY <2>1, SideStep, AdvRelayStep
<1> QED
  BY <1>1, <1>2, <1>3, PTL DEF SafeSpec, AdvRelay!SafeSpec

LEMMA RequestRelayStep ==
  ASSUME Stays("GA") \/ Accepts("GA") \/ Delivers("GA")
  PROVE  [RequestRelay!Next]_(RequestRelay!vars)
<1>1. CASE Stays("GA")
  <2>1. CASE IsOpen("GA")' <=> IsOpen("GA")
    <3>1. IsOpen("GA")' = IsOpen("GA")
      BY <2>1 DEF IsOpen
    <3> QED
      BY <1>1, <3>1 DEF Stays, RequestRelay!vars
  <2>2. CASE ~(IsOpen("GA")' <=> IsOpen("GA"))
    <3>1. IsOpen("GA") /\ IsOpen("GA")' = FALSE
      BY <1>1, <2>2 DEF Stays, IsOpen
    <3>2. RequestRelay!Stop
      BY <1>1, <3>1 DEF Stays, RequestRelay!Stop
    <3> QED
      BY <3>2 DEF RequestRelay!Next
  <2> QED
    BY <2>1, <2>2
<1>2. CASE Accepts("GA")
  <2>1. IsOpen("GA")' = IsOpen("GA")
    BY <1>2 DEF Accepts, IsOpen
  <2>2. \E p \in Acceptable("GA") : RequestRelay!Accept(p)
    BY <1>2, <2>1 DEF Accepts, RequestRelay!Accept
  <2> QED
    BY <2>2 DEF RequestRelay!Next
<1>3. CASE Delivers("GA")
  <2>1. IsOpen("GA")' = IsOpen("GA")
    BY <1>3 DEF Delivers, IsOpen
  <2>2. PICK e \in Endpoint("GA") :
          /\ Len(out["GA"][e]) < Len(Accepted("GA"))
          /\ Accepted("GA")[Len(out["GA"][e]) + 1] \in Acceptable("GA")
          /\ out'["GA"] = [out["GA"] EXCEPT ![e] =
               Append(@, Translation("GA", Accepted("GA")[Len(@) + 1]))]
    BY <1>3 DEF Delivers
  <2> QED
    BY <1>3, <2>1, <2>2 DEF Delivers, RequestRelay!Next, RequestRelay!Deliver
<1> QED
  BY <1>1, <1>2, <1>3

LEMMA RequestRelayInit == Init => RequestRelay!Init
<1> SUFFICES ASSUME Init PROVE RequestRelay!Init
  OBVIOUS
<1>1. /\ log["GA"] = <<>> /\ out["GA"] = [e \in Endpoint("GA") |-> <<>>]
      /\ proc = "running" /\ pc["GA"] = "recv"
  BY DEF Init, Side
<1>2. Accepted("GA") = <<>> /\ IsOpen("GA") = TRUE
  BY <1>1 DEF Accepted, IsOpen
<1> QED
  BY <1>1, <1>2 DEF RequestRelay!Init

(* So does the request side, if the packets are whole Cap'n Proto messages *)
(* that fit the buffer: every request is translated from the packet it     *)
(* came in, once, and reaches the endpoints in order (listenGAside).       *)
THEOREM RequestsRelayedSafely ==
  ASSUME WholeMessages
  PROVE  SafeSpec => RequestRelay!SafeSpec
<1> DEFINE Inv == FanOutInv /\ FreshInv
<1>1. Init => Inv /\ RequestRelay!Init
  BY FanOutInvInit, FreshInvInit, RequestRelayInit
<1>2. Inv /\ [Next]_vars => Inv'
  BY FanOutInvNext, FreshInvNext
<1>3. Inv /\ Inv' /\ [Next]_vars => [RequestRelay!Next]_(RequestRelay!vars)
  <2> SUFFICES ASSUME Inv, Inv', [Next]_vars
               PROVE  [RequestRelay!Next]_(RequestRelay!vars)
    OBVIOUS
  <2>1. FanOutInv /\ SideInv("GA") /\ TypeOK' /\ "GA" \in Side
    BY FreshSide DEF FanOutInv, Side
  <2>2. SideInv("GA")'
    <3>1. \A p : Text("GA", p) = p
      BY DEF Text
    <3> QED
      BY <3>1 DEF FreshInv, RequestsFresh, SideInv, IsOpen
  <2> QED
    BY <2>1, <2>2, SideStep, RequestRelayStep
<1> QED
  BY <1>1, <1>2, <1>3, PTL DEF SafeSpec, RequestRelay!SafeSpec
==============================================================================
