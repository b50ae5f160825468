------------------------------- MODULE Daemon --------------------------------
(***************************************************************************)
(* commelecd (commelec-api/daemon.cpp): one thread runs two coroutines,    *)
(* listenGAside and listenRAside, that interleave wherever they wait for   *)
(* the network.  "GA" receives requests of the grid agent and sends them   *)
(* on to the resource agent; "RA" receives advertisement parameters (JSON) *)
(* or ready-made advertisements and sends advertisements to the grid       *)
(* agent.                                                                  *)
(*                                                                         *)
(* A packet is a sequence of words.  A Cap'n Proto request is a header     *)
(* word followed by a setpoint word, if it has a setpoint; a JSON object   *)
(* is an opening word that carries the parameters and a closing word; an   *)
(* advertisement is one word.  Both receive buffers are uninitialised      *)
(* arrays: what no packet has overwritten yet is Junk.                     *)
(***************************************************************************)
EXTENDS Integers, Sequences

CONSTANTS
  Arm,           \* built for ARM: coroutine exceptions are swallowed
  Custom,        \* _resourceType is Resource::custom: no translation
  Debug,         \* _debug: advertisements go through AdvValidator
  KeepRoot,      \* a failing Document::Parse may keep the root
  NumEndpoints,  \* per side: the peer and its clones
  Datagrams,     \* per side: the packets that may arrive
  BufLen,        \* words in _network_data ("GA") and _local_data ("RA")
  Ids, Setpoints, Params, Garbage,
  Incomplete,    \* parameters with a field of the resource type missing
  Malformed,     \* parameters with one of another type, or without "points"
  Rejected,      \* parameters whose advertisement AdvValidator rejects
  Hanging,       \* parameters whose validation never ends
  QueueCap,      \* packets the kernel queues per socket
  MaxArrivals    \* bound on the packets that arrive per side

Side == {"GA", "RA"}
Other(s) == IF s = "GA" THEN "RA" ELSE "GA"
Endpoint(s) == 1 .. NumEndpoints[s]

Header(id, valid) == <<"hdr", id, valid>>
Setpoint(v) == <<"sp", v>>
Open(p) == <<"open", p>>
Close == <<"close">>
Scalar == <<"scalar">>             \* a JSON text that is not an object
Adv(p) == <<"adv", p>>
Json(valid, id, v) == <<"json", valid, id, v>>
NoSetpoint == "zero"               \* P = Q = 0.0
Nul == <<"nul">>
Junk == <<"junk">>

Word ==
  ({"hdr"} \X Ids \X BOOLEAN) \cup ({"sp"} \X Setpoints)
    \cup ({"open", "adv"} \X Params) \cup {Adv(Garbage), Close, Scalar, Nul, Junk}
JsonRequest ==
  {"json"} \X BOOLEAN \X (Ids \cup {Garbage})
           \X (Setpoints \cup {Garbage, NoSetpoint})
Message == Seq(Word \cup JsonRequest)

ASSUME FlagsAssumption ==
  /\ Arm \in BOOLEAN /\ Custom \in BOOLEAN
  /\ Debug \in BOOLEAN /\ KeepRoot \in BOOLEAN
ASSUME EndpointsAssumption == NumEndpoints \in [Side -> Nat \ {0}]
ASSUME BufLenAssumption == BufLen \in [Side -> Nat \ {0}]
\* A UDP payload is at most 65507 bytes and _local_data has 65536.
ASSUME DatagramsAssumption ==
  /\ DOMAIN Datagrams = Side
  /\ \A s \in Side : \A p \in Datagrams[s] : p \in Seq(Word)
  /\ \A p \in Datagrams["RA"] : Len(p) < BufLen["RA"]
ASSUME BoundsAssumption ==
  QueueCap \in Nat \ {0} /\ MaxArrivals \in [Side -> Nat]
\* The validation of an advertisement ends in at most one way.
ASSUME ValidatorAssumption == Rejected \cap Hanging = {}

VARIABLES
  proc,      \* "running" | "exited" | "terminated" | "hung"
  pc,        \* per side: "recv" | "send" | "dead"
  next,      \* per side: the endpoint the sending loop is at, or past the last
  buf,       \* _network_data ("GA") and _local_data ("RA")
  received,  \* per side: bytes_received, cut to the buffer
  d,         \* root of the Document listenRAside parses into
  queue,     \* per side: packets waiting in the kernel's receive queue
  arrived,   \* per side: number of packets that reached the socket
  got,       \* history, per side: packets received
  log,       \* history, per side: messages handed to the sends
  out        \* history, per side and endpoint: messages sent

vars == <<proc, pc, next, buf, received, d, queue, arrived, got, log, out>>

Null == <<"null">>                 \* root of a fresh Document
Root == {Null, Scalar} \cup {Open(p) : p \in Params}

ControlOK ==
  /\ proc \in {"running", "exited", "terminated", "hung"}
  /\ pc \in [Side -> {"recv", "send", "dead"}]
  /\ next \in [Side -> Nat]
  /\ \A s \in Side : next[s] \in 1 .. NumEndpoints[s] + 1
  /\ log \in [Side -> Seq(Message)]
  /\ DOMAIN out = Side
  /\ \A s \in Side : out[s] \in [Endpoint(s) -> Seq(Message)]
  /\ \A s \in Side : pc[s] = "send" =>
       next[s] \in Endpoint(s) /\ log[s] # <<>>

BuffersOK ==
  /\ buf \in [Side -> Seq(Word)]
  /\ \A s \in Side : Len(buf[s]) = BufLen[s]
  /\ received \in [Side -> Nat]
  /\ \A s \in Side : received[s] <= BufLen[s]
  /\ d \in Root
  /\ queue \in [Side -> Seq(Seq(Word))]
  /\ arrived \in [Side -> Nat]
  /\ got \in [Side -> Seq(Seq(Word))]
  /\ \A s \in Side : queue[s] \in Seq(Datagrams[s]) /\ got[s] \in Seq(Datagrams[s])

TypeOK == ControlOK /\ BuffersOK

Init ==
  /\ proc = "running"
  /\ pc = [s \in Side |-> "recv"]
  /\ next = [s \in Side |-> NumEndpoints[s] + 1]
  /\ buf = [s \in Side |-> [i \in 1 .. BufLen[s] |-> Junk]]
  /\ received = [s \in Side |-> 0]
  /\ d = Null
  /\ queue = [s \in Side |-> <<>>]
  /\ arrived = [s \in Side |-> 0]
  /\ got = [s \in Side |-> <<>>]
  /\ log = [s \in Side |-> <<>>]
  /\ out = [s \in Side |-> [e \in Endpoint(s) |-> <<>>]]

------------------------------------------------------------------------------
(* The network: UDP loses, repeats and reorders, so any packet may arrive  *)
(* at any time; the kernel drops it when the socket's queue is full.       *)

Arrive(s) ==
  /\ proc = "running"
  /\ arrived[s] < MaxArrivals[s]
  /\ arrived' = [arrived EXCEPT ![s] = @ + 1]
  /\ \/ /\ Len(queue[s]) < QueueCap
        /\ \E p \in Datagrams[s] : queue' = [queue EXCEPT ![s] = Append(@, p)]
     \/ /\ Len(queue[s]) = QueueCap
        /\ UNCHANGED queue
  /\ UNCHANGED <<proc, pc, next, buf, received, d, got, log, out>>

------------------------------------------------------------------------------
(* How a handler ends its uninterrupted step.                              *)

\* MUTANT: the build does not matter, every exception ends the process.
ThrowAlwaysExits(s) ==
  /\ pc' = [x \in Side |-> "dead"]
  /\ proc' = "exited"
  /\ UNCHANGED <<next, log, out>>

(* An exception leaves the coroutine.  On ARM the wrapper swallows it, and *)
(* io_service::run returns once no coroutine is left; elsewhere it is      *)
(* rethrown out of run and main returns.                                   *)
Throw(s) ==
  /\ pc' = IF Arm THEN [pc EXCEPT ![s] = "dead"] ELSE [x \in Side |-> "dead"]
  /\ proc' = IF Arm /\ pc[Other(s)] # "dead" THEN proc ELSE "exited"
  /\ UNCHANGED <<next, log, out>>

\* "throw;" while no exception is being handled, a failed assertion.
Terminate ==
  /\ proc' = "terminated"
  /\ UNCHANGED <<pc, next, log, out>>

\* The event loop is stuck in AdvValidator::sampleSetpoint.
Hang ==
  /\ proc' = "hung"
  /\ UNCHANGED <<pc, next, log, out>>

\* The coroutine goes on to send m to its first endpoint.
Forward(s, m) ==
  /\ pc' = [pc EXCEPT ![s] = "send"]
  /\ next' = [next EXCEPT ![s] = 1]
  /\ log' = [log EXCEPT ![s] = Append(@, m)]
  /\ UNCHANGED <<proc, out>>

------------------------------------------------------------------------------
(* Receiving.  A packet overwrites the front of the buffer and is cut to   *)
(* its length.                                                             *)

Received(s, p) == IF Len(p) < BufLen[s] THEN Len(p) ELSE BufLen[s]

Overlay(b, p) == [i \in 1 .. Len(b) |-> IF i <= Len(p) THEN p[i] ELSE b[i]]

\* MUTANT: packets are taken from the socket in pairs.
CanReceivePair(s) == proc = "running" /\ pc[s] = "recv" /\ Len(queue[s]) > 1

CanReceive(s) == proc = "running" /\ pc[s] = "recv" /\ queue[s] # <<>>

ReceiveInto(s, b) ==
  /\ CanReceive(s)
  /\ queue' = [queue EXCEPT ![s] = Tail(@)]
  /\ got' = [got EXCEPT ![s] = Append(@, Head(queue[s]))]
  /\ received' = [received EXCEPT ![s] = Received(s, Head(queue[s]))]
  /\ buf' = [buf EXCEPT ![s] = b]
  /\ UNCHANGED arrived

Fault == <<"fault">>               \* Cap'n Proto throws
NoRequest == <<"norequest">>       \* a message without a request

\* MUTANT: the setpoint is read whether the request has one or not.
DecodeUnchecked(b) ==
  IF /\ Len(b) > 1
     /\ b[1] \in {Header(x[1], x[2]) : x \in Ids \X BOOLEAN}
     /\ b[2] \in {Setpoint(v) : v \in Setpoints}
    THEN {Json(b[1][3], b[1][2], b[2][2])}
    ELSE {Fault}

(* CapnpReader and the accessors of listenGAside on a buffer: what they    *)
(* can make of it.  Bytes that are no message at all may decode to         *)
(* anything.                                                               *)
Decode(b) ==
  LET anything == {Fault, NoRequest, Json(TRUE, Garbage, Garbage)}
      body == IF Len(b) > 1 THEN b[2] ELSE Junk
  IN  IF b[1] \in {Header(id, FALSE) : id \in Ids}
        THEN {Json(FALSE, b[1][2], NoSetpoint)}
      ELSE IF b[1] \in {Header(id, TRUE) : id \in Ids}
        THEN IF body \in {Setpoint(v) : v \in Setpoints}
               THEN {Json(TRUE, b[1][2], body[2])}
               ELSE {Fault, Json(TRUE, b[1][2], Garbage)}
      ELSE IF b[1] \in {Adv(p) : p \in Params} THEN {NoRequest}
      ELSE anything

ReceiveGA ==
  LET b == Overlay(buf["GA"], Head(queue["GA"])) IN
  /\ ReceiveInto("GA", b)
  /\ IF Custom
       THEN Forward("GA", SubSeq(b, 1, Received("GA", Head(queue["GA"]))))
       ELSE \E o \in Decode(b) :
              \/ o = Fault /\ Throw("GA")
              \/ o = NoRequest /\ Terminate
              \/ o \notin {Fault, NoRequest} /\ Forward("GA", <<o>>)
  /\ UNCHANGED d

(* How AdvValidator may end on m, when _debug asks for it.  It reads the   *)
(* message at the front and ignores what follows; of bytes that are no     *)
(* message it may make anything.                                           *)
Verdicts(m) ==
  IF ~Debug THEN {"pass"}
  ELSE IF m = <<>> THEN {"fail"}
  ELSE IF m[1] \in {Adv(p) : p \in Rejected} THEN {"fail"}
  ELSE IF m[1] \in {Adv(p) : p \in Hanging} THEN {"hang"}
  ELSE IF m[1] \in {Adv(p) : p \in Params} THEN {"pass"}
  ELSE IF m[1] \in {Header(x[1], x[2]) : x \in Ids \X BOOLEAN} THEN {"fail"}
  ELSE {"pass", "fail", "hang"}

\* MUTANT: a rejected advertisement is reported and then sent all the same.
ValidateButForward(m) ==
  \/ Verdicts(m) \cap {"pass", "fail"} # {} /\ Forward("RA", m)
  \/ "hang" \in Verdicts(m) /\ Hang

\* Validation, which throws or never returns if it fails, then the sends.
ValidateAndForward(m) ==
  \/ "pass" \in Verdicts(m) /\ Forward("RA", m)
  \/ "fail" \in Verdicts(m) /\ Throw("RA")
  \/ "hang" \in Verdicts(m) /\ Hang

\* The C string at the front of a buffer.
CString(b) ==
  LET n == CHOOSE k \in 0 .. Len(b) :
             /\ \A i \in 1 .. k : b[i] # Nul
             /\ k < Len(b) => b[k + 1] = Nul
  IN  SubSeq(b, 1, n)

\* MUTANT: the zero goes to the end of the buffer, not of the packet.
TerminatedAtEnd(b, n) == [b EXCEPT ![Len(b)] = Nul]

Terminated(b, n) == [b EXCEPT ![n + 1] = Nul]

\* Document::Parse: the roots it may leave behind, given the one before.
Parse(text, root) ==
  IF \E p \in Params : text = <<Open(p), Close>> THEN {text[1]}
  ELSE IF text = <<Scalar>> THEN {Scalar}
  ELSE IF KeepRoot THEN {Null, root}
  ELSE {Null}

Abort == <<"abort">>               \* an assertion of rapidjson fails

\* The advertisement that is made of parameters, if one is.
Made(p) == Adv(IF p \in Malformed THEN Garbage ELSE p)

(* What create...Adv may end in.  getDouble throws where a field is        *)
(* missing, but reads whatever is in one of another type, and so is a      *)
(* missing "points" read: rapidjson aborts, or hands out garbage.          *)
Outcomes(p) ==
  IF p \in Malformed THEN {Fault, Abort, Made(p)}
  ELSE IF p \in Incomplete THEN {Fault}
  ELSE {Made(p)}

ReceiveRA ==
  LET p == Head(queue["RA"])
      b == Overlay(buf["RA"], p)
      z == Terminated(b, Len(p))
  IN
  IF Custom
    THEN /\ ReceiveInto("RA", b)
         /\ ValidateAndForward(SubSeq(b, 1, Len(p)))
         /\ UNCHANGED d
    ELSE /\ ReceiveInto("RA", z)
         /\ \E root \in Parse(CString(z), d) :
              /\ d' = root
              /\ IF root \in {Open(x) : x \in Params}
                   THEN \E o \in Outcomes(root[2]) :
                          \/ o = Fault /\ Throw("RA")
                          \/ o = Abort /\ Terminate
                          \/ o = Made(root[2]) /\ ValidateAndForward(<<o>>)
                   ELSE Throw("RA")

\* async_receive_from reports an error and throws.
ReceiveError(s) ==
  /\ proc = "running" /\ pc[s] = "recv"
  /\ Throw(s)
  /\ UNCHANGED <<buf, received, d, queue, arrived, got>>

------------------------------------------------------------------------------
(* Sending, one endpoint after the other.  A custom payload is sent        *)
(* straight from the receive buffer, a translation from its own.           *)

\* MUTANT: the whole buffer is sent, not the bytes received.
PayloadWhole(s) == IF Custom THEN buf[s] ELSE log[s][Len(log[s])]

Payload(s) ==
  IF Custom THEN SubSeq(buf[s], 1, received[s]) ELSE log[s][Len(log[s])]

Sent(s) == [out[s] EXCEPT ![next[s]] = Append(@, Payload(s))]

\* MUTANT: the loop ends one endpoint too late.
AdvancePast(s) ==
  /\ next' = [next EXCEPT ![s] = @ + 1]
  /\ pc' = IF next[s] <= NumEndpoints[s] THEN pc ELSE [pc EXCEPT ![s] = "recv"]

\* MUTANT: only the first endpoint is served.
AdvanceToEnd(s) ==
  /\ next' = [next EXCEPT ![s] = NumEndpoints[s] + 1]
  /\ pc' = [pc EXCEPT ![s] = "recv"]

\* On to the next endpoint, or back to receiving after the last.
Advance(s) ==
  /\ next' = [next EXCEPT ![s] = @ + 1]
  /\ pc' = IF next[s] < NumEndpoints[s] THEN pc ELSE [pc EXCEPT ![s] = "recv"]

SendTo(s) ==
  /\ proc = "running" /\ pc[s] = "send"
  /\ out' = [out EXCEPT ![s] = Sent(s)]
  /\ Advance(s)
  /\ UNCHANGED <<proc, buf, received, d, queue, arrived, got, log>>

\* MUTANT: a failing endpoint is skipped and the loop goes on.
SendErrorSkips(s) ==
  /\ proc = "running" /\ pc[s] = "send"
  /\ Advance(s)
  /\ UNCHANGED <<proc, buf, received, d, queue, arrived, got, log, out>>

\* async_send_to fails or writes less than the whole message.
SendError(s) ==
  /\ proc = "running" /\ pc[s] = "send"
  /\ Throw(s)
  /\ UNCHANGED <<buf, received, d, queue, arrived, got>>

------------------------------------------------------------------------------
Handle(s) ==
  \/ s = "GA" /\ ReceiveGA
  \/ s = "RA" /\ ReceiveRA
  \/ SendTo(s)
  \/ SendError(s)

Next ==
  \/ \E s \in Side : Arrive(s) \/ ReceiveError(s)
  \/ ReceiveGA
  \/ ReceiveRA
  \/ \E s \in Side : SendTo(s) \/ SendError(s)

SafeSpec == Init /\ [][Next]_vars

\* The event loop completes every operation that can complete.
Spec == SafeSpec /\ \A s \in Side : WF_vars(Handle(s))

------------------------------------------------------------------------------
(* What the daemon makes of one packet by itself.                          *)

Requests ==
  {<<Header(id, FALSE)>> : id \in Ids}
    \cup {<<Header(x[1], TRUE), Setpoint(x[2])>> : x \in Ids \X Setpoints}
\* Objects that an advertisement may be made of.
Objects == {<<Open(p), Close>> : p \in {x \in Params : Made(x) \in Outcomes(x)}}

Translation(s, p) ==
  IF Custom THEN SubSeq(p, 1, Received(s, p))
  ELSE IF s = "RA" THEN <<Made(p[1][2])>>
  ELSE IF Len(p) = 1 THEN <<Json(FALSE, p[1][2], NoSetpoint)>>
  ELSE <<Json(TRUE, p[1][2], p[2][2])>>

Acceptable(s) ==
  {p \in IF Custom THEN Datagrams[s] ELSE IF s = "GA" THEN Requests ELSE Objects :
     s = "RA" => "pass" \in Verdicts(Translation(s, p))}

(* The endpoints of a side are served like one: each has been sent a       *)
(* prefix of the messages of that side, an earlier endpoint at least as    *)
(* much as a later one, and none lags by more than the message in transit  *)
(* (the loops over _outgoing_req_endpoints and endpoints, which stop at    *)
(* the first failing send, and a buffer that is shared with receiving).    *)
FanOut ==
  \A s \in Side : \A e \in Endpoint(s) :
    /\ Len(out[s][e]) \in {Len(log[s]), Len(log[s]) - 1}
    /\ \A k \in 1 .. Len(out[s][e]) : out[s][e][k] = log[s][k]
    /\ \A f \in e .. NumEndpoints[s] : Len(out[s][f]) <= Len(out[s][e])

(* Every message the daemon sends on the request side is the translation   *)
(* of the packet it was handling, and of nothing that an earlier packet    *)
(* left in _network_data (CapnpReader in listenGAside).                    *)
RequestsFresh ==
  \A k \in 1 .. Len(log["GA"]) :
    /\ got["GA"][k] \in Acceptable("GA")
    /\ log["GA"][k] = Translation("GA", got["GA"][k])

(* On ARM the coroutines fail separately: an exception on one side leaves  *)
(* the other side where it was, and the process running as long as that    *)
(* side lives (spawn_coroutine).                                           *)
FailSeparately ==
  [][\A s \in Side :
       (Arm /\ pc[s] # "dead" /\ pc'[s] = "dead") =>
         /\ pc'[Other(s)] = pc[Other(s)]
         /\ pc[Other(s)] # "dead" => proc' = "running"]_vars

(* A packet waiting in a side's socket is received, or that side's         *)
(* coroutine or the whole process is gone (listenGAside and listenRAside   *)
(* "run endlessly").                                                       *)
Served ==
  \A s \in Side :
    queue[s] # <<>> ~> (queue[s] = <<>> \/ pc[s] = "dead" \/ proc # "running")

(* A message that is no request is an error like any other: no exception   *)
(* escapes the handling at io_service::run in main ("throw;").             *)
NeverTerminates == proc # "terminated"

------------------------------------------------------------------------------
(* Each direction implements the abstract relay.                           *)

\* What a packet says: to the parser, no more than a C string.
CStrings == [p \in Datagrams["RA"] |-> CString(p)]
Text(s, p) == IF s = "RA" /\ ~Custom THEN CStrings[p] ELSE p

(* Every advertisement the daemon sends is made of the packet it was       *)
(* handling, and of nothing that an earlier packet left in _local_data or  *)
(* in the Document ("JSON object invalid" if the packet is none).          *)
AdvsFresh ==
  \A k \in 1 .. Len(log["RA"]) :
    /\ Text("RA", got["RA"][k]) \in Acceptable("RA")
    /\ log["RA"][k] = Translation("RA", Text("RA", got["RA"][k]))

\* The k-th message of a side is from the k-th packet it took.
Accepted(s) == [k \in 1 .. Len(log[s]) |-> Text(s, got[s][k])]
IsOpen(s) == proc = "running" /\ pc[s] # "dead"

RequestRelay ==
  INSTANCE Relay WITH
    Inputs <- Acceptable("GA"),
    Destinations <- Endpoint("GA"),
    Translate <- [p \in Acceptable("GA") |-> Translation("GA", p)],
    accepted <- Accepted("GA"),
    delivered <- out["GA"],
    open <- IsOpen("GA")

AdvRelay ==
  INSTANCE Relay WITH
    Inputs <- Acceptable("RA"),
    Destinations <- Endpoint("RA"),
    Translate <- [p \in Acceptable("RA") |-> Translation("RA", p)],
    accepted <- Accepted("RA"),
    delivered <- out["RA"],
    open <- IsOpen("RA")

(* The request side keeps the promise of a relay: each request is sent     *)
(* once, in order, to the resource agent and every clone, unless the side  *)
(* stops (listenGAside).                                                   *)
RequestsRelayed == RequestRelay!Spec

(* So does the advertisement side (listenRAside, serializeAndAsyncSend):   *)
(* each advertisement is compiled from the packet that just came in, with  *)
(* the zero behind it in _local_data, and a packet that is no object ends  *)
(* the side.  Of an object with a field of the wrong type no more is       *)
(* promised than that what is made of it is sent alike to every endpoint.  *)
AdvsRelayed == AdvRelay!Spec
==============================================================================
