# A verification project for commelec-api

TLA+ models of the concurrent, failure-prone and algorithmic core of
commelec-api, the TLC configurations that check them and TLAPS proofs about
them. Paths below are relative to the root of the repository (`src/` here).

- [1. The system](#1-the-system)
- [2. Modules](#2-modules)
- [3. Correspondence to the code](#3-correspondence-to-the-code)
- [4. Runs, bounds and results](#4-runs-bounds-and-results)
- [5. Fairness](#5-fairness)
- [6. Proofs](#6-proofs)
- [7. Disagreements between code and documentation](#7-disagreements-between-code-and-documentation)
- [8. Assumptions, and what is not modelled](#8-assumptions-and-what-is-not-modelled)
- [9. Plan](#9-plan)
- [10. Running the checks](#10-running-the-checks)

## 1. The system

COMMELEC controls electrical grids by messages between a *grid agent* (GA) and
*resource agents* (RA). An RA sends *advertisements* (a set of feasible
setpoints, a belief function, a cost function and the implemented setpoint), a
GA sends *requests* (maybe with a setpoint). Messages are Cap'n Proto structures,
packed, in UDP datagrams. The repository has a daemon, a C API that builds
advertisements, an interpreter for them, and a server that draws them.

| Component | State | Operations | What makes it correct |
|---|---|---|---|
| `commelecd` (`commelec-api/daemon.cpp`) | two receive buffers, a JSON document, two coroutines, two sockets, endpoint lists | receive a request and forward it as JSON; receive JSON and forward an advertisement; in the custom case forward the bytes | each packet by itself decides the message sent; all destinations get the same; one bad packet has the effect the wrapper gives it and no other |
| Coroutine wrapper (`coroutine-exception.hpp`) | - | run a coroutine, swallow (ARM) or rethrow what leaves it | sides fail separately on ARM, together elsewhere |
| Sender policies (`sender-policies.hpp`) | packed buffer of one message | pack, validate in debug mode, send to each endpoint | everything sent is whole and, in debug mode, valid |
| Serialization (`serialization.cpp`) | a vector and a count of bytes written | `getWriteBuffer`, `write`, `writePackedMessage`, `packToByteArray` | no byte lost or overwritten when the vector is too small |
| High-level API (`hlapi.cpp`, `hlapi.h`) | - | build advertisements for batteries, PV, fuel cells, uncontrollable and discrete devices; pack them into the caller's array | contents as documented; the size protocol |
| Expression builders (`realexpr-`, `polynomial-`, `polytope-convenience`) | expression templates | build `RealExpr`, `Polynomial`, `ConvexPolytope` | what is built evaluates to what was written |
| Validator (`adv-validation.hpp`) | an interpreter, a bounding box | check an advertisement on random points | accepts only what can be evaluated; ends |
| Interpreter (`commelec-interpreter`) | maps from names to expressions, a nesting counter, variable bindings | `evaluate`, `evalPartialDerivative`, `testMembership`, `project`, `rectangularHull`, `setAdv` | names resolved, every call ends, errors only where due |
| Bounding boxes (`adv-interpreter-recthull.cpp`, `boundingbox-convexpolygon.*`) | - | merge constraints, four linear programs | the box contains the set |
| Visualization server (`utils/visualization_server.cpp`) | per session a socket, a timer, buffers, two coroutines | read a request, render, compress, reply; cut late sessions | every request answered or the session ended; nothing cut early; no session without its watchdog |
| Clients (`utils/viz-user.py`, `examples/demo-resource-agent.py`) | - | environment of the above | - |
| `externals/seidel_lp` | - | linear programming | vendored |

How they interact. The two coroutines of the daemon run on one strand and
interleave wherever they await the network. In debug mode the sender policy
calls the validator *before* the first send, on the daemon's only thread; the
validator calls the interpreter. The custom case skips translation and sends from
the receive buffer itself. `hlapi` and the daemon share the packing code. The
visualization server parses an advertisement per request and interprets it.

What is hard here: coroutines that share buffers and fail in two different ways
depending on the build; buffers and a JSON document that outlive a packet; loops
over endpoints that may stop half-way; UDP; a packed size that is not known
beforehand; a timer that races with the session it guards; an interpreter that
walks cyclic graphs under one shared counter. `PROJECT.json` lists each hazard at
its line with the properties that cover it, or why none does yet.

## 2. Modules

| Module | Models | Extends / instantiates |
|---|---|---|
| `Relay` | abstract: what one direction of the daemon promises | |
| `Daemon` | `commelecd`, both directions, both builds | two instances of `Relay` as refinements |
| `DaemonMC` | instances for TLC | `Daemon` |
| `DaemonProofs` | proofs about the daemon, and that each of its directions implements `Relay` | `Daemon`, `Arithmetic` |
| `Arithmetic` | lemmas: induction over a set of numbers and along a rank, recursive functions and loops satisfy their equations, fractions are an ordered field | `Rationals` |
| `PackedBuffer` | `VectorBuffer` and its driver, callers' retry | |
| `PackedBufferMC`, `PackedBufferProofs` | instances and proofs | `PackedBuffer` |
| `VizSession`, `VizSessionProofs` | a session of the visualization server; proofs | |
| `Interpreter` | `AdvFunc`: its walks over expressions and sets | |
| `InterpreterMC`, `InterpreterProofs` | small advertisements; proofs, also about its client | `Interpreter`; `Validator`, `Arithmetic` |
| `Validator`, `ValidatorMC` | `AdvValidator`, a client of the interpreter; what is offered to it | `Interpreter`; `Validator`, `InterpreterMC` |
| `Rationals` | numbers: exact fractions and one value for what is not a number | |
| `Polynomial` | polynomials, encoded by the API, evaluated and derived by the interpreter | `Rationals` |
| `Expression`, `ExpressionMC`, `ExpressionProofs` | expressions, written and built by a program, evaluated and derived by the interpreter; proofs of all of its properties | `Polynomial`; `Arithmetic` |
| `DiscreteDevice` | beliefs of discrete devices, built and then evaluated | |
| `Devices`, `DevicesMC`, `DevicesProofs` | every kind of device: what is ordered, advertised, believed and boxed; proofs of all of its properties | `DiscreteDevice`, `Rationals`; `Arithmetic` |
| `Raster`, `RasterMC`, `RasterProofs` | the picture of a cost function, from the server's grid to the client's; proofs | |

## 3. Correspondence to the code

`PROJECT.json` maps each definition to its lines. Names follow the code.

**Daemon.** A step is what a coroutine does between two awaits, so `ReceiveGA`
is all of `listenGAside` from the completion of `async_receive_from` up to the
first `async_send_to`, and `SendTo` one iteration of an endpoint loop. Packets are
sequences of words; a request is a header word and maybe a setpoint word, a
JSON object an opening word that carries its parameters and a closing one, so
that a packet may be cut and a buffer may be a mixture. `buf` keeps what earlier
packets left; `Overlay` is what a datagram does to it; `Decode` reads the *whole*
buffer as the code does. `Parse` follows `rapidjson::Document::Parse` on the C
string that ends at the first zero: the one the code wrote (`Terminated`), or one
inside the packet, which then counts for its text only up to there. `Outcomes` is what
`create...Adv` does with an object: it throws where a number is missing, but reads whatever
is in a field of another type or where "points" should be (`Malformed`), so that an assertion
of rapidjson fails or an advertisement of garbage is made. `Verdicts` is how validation may end; it
reads the message at the front and ignores what follows. `Throw` is the coroutine
wrapper plus `main`: on ARM one side dies, elsewhere the process ends.
`Terminate` is the rethrow without an exception. `Hang` is a validator that never
returns, `Terminate` also a failed assertion. `Payload` reads the buffer at the time of each send in the custom case,
not at the time of receipt.

**Relay.** Accept, deliver in order to each destination, stop. The refinement maps
`accepted` to the packets that led to a message, each by itself (the k-th message is
from the k-th packet taken, since the side ends at one that leads to none), `delivered` to
what each endpoint was sent and `open` to the life of the coroutine and the process.

**PackedBuffer.** The bytes produced are numbered, and the vector is right when
cell *i* holds *i*. `CopyIn`/`InPlace` are the branches of `VectorBuffer::write`;
`getWriteBuffer` hands out the free part. The packing stream (`UseSlow`,
`Encode...`, `FlushForRun`, `WriteRun`) is Cap'n Proto's and external: it is modelled
because the hazards lie in how it uses the two ways in. `Retry` is the caller
that `hlapi.h` tells to come back with a larger array.

**VizSession.** Both coroutines run on one strand: one disjunct per resumption.
An operation that has completed (`op`) or a timer that has expired or was
aborted (`wait`) is only *queued*; the other coroutine may run first. That is
where the race of `expires_from_now` with an expiry lies.

**Interpreter.** The C++ call stack is the variable `stack`, a sequence of tasks;
numbers are left out, and what they decide (a membership, a convergence, the
smaller of two) is a choice. `depth` is `_nesting_depth`. `Enter` is the increment
at the head of each function with both reactions to the limit: `TooDeep` throws,
`membership` and `proj` reset. A tail call leaves no task. `Solve` is a call of the linear
programs, which box a polytope with whatever it is merged with, or raise an error since the
region is empty or not bounded; `Ragged` are the polytopes whose matrix has rows of
different lengths: `evalToMatrix` leaves those with a `throw;` that ends the process
(`RaggedMatrix`). `visits` is a history
variable: functions entered since the counter was last cleared. The graph of
expressions is a parameter (`Node`, `Kind`, `Kids`, `Name`, `To`).

**Raster.** `Rasterize` is `renderCostFunction` up to the compression, with any
matrix; then one step per iteration of `runlengthCompress` (one action per branch
of its loop) and of `uncompress`. `Pixel` is the client's reshaping, `Cost` the
server's storage by columns. Numbers are integers; two of them stand for NaN and
for -1.0 + epsilon, and a count may have the value of a cost, so that an array
read out of step shows. The resolution that the reply reports is left out.

**Validator.** The interpreter's client: `client` is a free user or, from the start, a
validator made by one of its two constructors. `Start`, `CheckDefinitions`, `Sample`,
`Again` (the loop of `sampleSetpoint`), `Evaluate`, `Accept` are its steps between calls
of the interpreter, `Interpret` the steps of a call, with all of `Interpreter` behind
them. A point is the set of the shapes that hold it, and a validator's membership tests
answer what the point says (`AtPoint`) where the interpreter alone leaves a choice. So do
linear programs: `NoBox` gives the sets that have none at a point.
`Failed` is an exception of the interpreter that leaves the constructor.

**Expression.** `Write` applies an operator of namespace `cv` to terms written before;
`Send` is `buildRealExpr`, whose `Message` has two nodes per term (`Built`, `BuiltInner`:
subtraction and division are a sum and a product with a second node in between); `Ask`
evaluates it with `Eval` or `Derive`, the two families of functions of
`adv-interpreter-eval.cpp`: `NodeValue` and `NodeSlope` are a call on one node, given what the calls on
its operands return. `Entries` counts what those functions count up in `_nesting_depth`, which past
`MAX_NESTING_DEPTH` is the exception (`TooDeep`), unless it is a membership test that gets there and
starts anew. A polynomial that `buildPolynomial` wrote on its own is the leaf `Sum`; `Polynomial` is the class
`cv::Polynomial`, whose `build` gets the polynomial without initializing it: the node keeps
the tag it starts with, that of a real. The reference is another calculus: *sets* of pairs of value and slope over the
expression *as written* (`Meaning`), with a slope for each side where pieces meet, and with
`round` and its like stated as inequalities. `ValueMeant` says that these pairs have one
value, and the interpreter finds it, of the expressions whose polynomials arrive as they were written
(`Answered`: no overflow, no lost tag) and that it has an answer to. Operations that have no operator in `cv` (lists, comparisons,
case distinctions) are put into the message as they are.

**Polynomial.** `buildPolynomial` numbers monomials by offsets in base `maxVarDegree + 1`,
`EvalPolynomial` takes the digits apart again, with the derived variable treated apart
(`Factor`). The places and the offset are C++ ints (`Held`): one out of range
becomes some other value, and division and remainder of a negative one go towards zero (`Quotient`,
`Remainder`). `Fits` says that none is. Its reference (`PolynomialMeaning`, in `Expression`) multiplies out what was written, with
the product rule.

**DiscreteDevice.** `AddProjCase` is an iteration of the loop of `ProjBelief`,
`AddRoundCases` all of the case distinction of `RoundBelief` and of
`ZenoneBelief`, which has the same one. `TestCase` is an iteration of the interpreter's
loop over the cases, `InInterval` its membership in a closed interval. Interval ends are
kept doubled, so that midpoints are integers. `Sorted` is any ordering of the
setpoints, which is all that `std::sort` promises.

**Devices.** An `order` is what a caller passes, through the C interface (`via` "api",
with its checks, `Illegal`) or as JSON to the daemon (without them, and with a power
factor in place of a slope). `Make` is the make or create function: profile and cost, as
trees of sets with fractions; a discrete device first takes the steps of
`DiscreteDevice` that build its belief. `Belief` is the belief function at a setpoint,
`Member` the interpreter's membership, and `Box` a call of `rectangularHull` on the profile
or a belief. `rectHull` merges boxes and rows as the code does (`Overlap`, `Sides`); the
linear programs it hands over are solved exactly, by corners (external: `linprog`).

## 4. Runs, bounds and results

All passing runs are exhaustive within their bounds.

| Run | Question | Result |
|---|---|---|
| `daemon_translate` | an ARM build in debug mode: whole requests, stray advertisements, JSON that is good, bad or has a mistyped field, two destinations per side, any interleaving and any failing send | `FanOut`, `RequestsFresh`, `FailSeparately`, `Served` hold, both directions implement `Relay` (safety and liveness) |
| `daemon_custom` | custom resource with validation, a validator that may hang | payloads sent from the shared buffer are right, rejected ones never leave |
| `daemon_stale` | short and empty datagrams | `RequestsFresh` violated (finding) |
| `daemon_terminate` | no exception escapes the handlers | `NeverTerminates` violated (finding) |
| `daemon_kept_root` | an object, then a packet cut short, with a rapidjson that keeps the root on errors | `AdvsFresh` violated (finding) |
| `packed_buffer` | every message of one segment of up to four words, or of two segments, any word density, arrays too small, exact and large | `Exact`, `Delivered`, `RetrySucceeds` hold |
| `viz_session` | a client that stalls, trickles, or leaves | `Watched`, `CutOnlyLate`, `Concludes` hold |
| `interpreter` | nineteen advertisements, set one after the other on one object and used by every function, or validated, some with parts missing, without a box or with a ragged matrix | `NamesFound`, `LimitPerCall`, `Ends`, `SampledInside`, `AcceptedIsUsable`, `RejectedForCause`, `ValidationEnds` hold |
| `interpreter_cycle` | a set that refers to itself | `Ends` violated (finding) |
| `raster` | every matrix of up to three by two pixels, by size and by resolution | `PictureFaithful`, `Drawn` hold |
| `expressions` | expressions of two operators, sums of two monomials in three variables, polynomials as operands with and without their tag, values and all derivatives, ints that overflow and a nesting limit that is reached | `ValueMeant`, `DerivativeMeant` hold |
| `devices` | every kind of device, ordered both ways; discrete ones with up to three setpoints in any order, steps one to four, errors of either sign | `ProfileMeant`, `ResponsesBelieved`, `CostOrders`, `HullHolds`, `NearestPoint`, `NearestStep`, `Handled` hold |

Bounds and why they are enough.

- Daemon: `MaxArrivals` two packets per side, `QueueCap` 2, two
  endpoints per side. A stale buffer or document needs two packets. Two endpoints suffice to have one
  served and one not. `BufLen` is two words on the request side, so that packets
  are truncated, and four on the other, one more than the longest packet, like the
  65536 bytes for a payload of at most 65507. One of the JSON packets has a zero after
  its object.
- PackedBuffer: words of two bytes, runs cut after two words, `MaxWords` 4: every
  branch of the packing stream, including a run that does not fit and the small
  buffer, is reached with a word to spare on either side.
- VizSession: a timeout of three ticks; unbounded requests (only the parity of
  replies is kept), so the run covers sessions of any length.
- Interpreter: a limit of 16 and two iterations of Dykstra. The advertisements
  hold every kind of expression and set, names inside sets and case distinctions,
  a cycle of references, an unknown one, an unbound variable, and the same names
  in several advertisements. Cycles exceed any limit, so a small one shows the same.
  Sequences of `setAdv` and calls are unbounded. Each advertisement can be
  scanned within the limit: one that cannot is rejected by `setAdv` with its
  maps half filled.
- Validator: two evaluations per function, so that one is the last and one is not;
  points in no part of a profile, in one, in both, and in the sets of its case
  distinctions. Advertisements that pass, and ones that fail at each of its checks: a
  part missing, a setpoint of one number, a profile that depends on a variable, a
  reference to nothing, a gap in the cases, a belief that cannot be boxed, at any point or at one, an
  unbounded polytope alone and inside a bounding rectangle, a profile no
  point hits, a cost without a value; and ragged matrices, which end the process. Some of these need more functions than the limit.
- Raster: costs of -1, 0 and 1 and NaN: the two values that are compressed, the
  one that is replaced and an ordinary one. Six pixels hold every order of three
  runs. Profiles of a single value give grids without a point.
- Expression: two operators let every operator stand inside every other, on either side,
  and share an operand; points on both sides of zero and on it, one of them a half, so
  that rounding has a tie to break. A byte of four values, degrees up to its largest;
  monomials in none, one or two of three variables, in either order. An int of six bits, which the places and
  the offsets of the larger polynomials overflow, and a limit of twelve calls, which the larger
  expressions go over.
- Devices: three setpoints out of four values, repeated and in any order; profiles
  below, around and above zero and of no width, wide by a multiple of the step and not; P
  runs past both ends by more than the error and a step. Parameters of either sign, a
  rating that cuts the profile and one that does not, a slope given, got from a power
  factor of 3/5 (whose tangent is a fraction) and of one; leading coefficients
  positive, negative and next to zero, the largest of those included. A grid of setpoints of ten by seven holds points
  in, on and off the border of every set.

Every property of a passing run has a mutant of the code that violates it (named
`MUTANT` next to the definition it changes).

## 5. Fairness

- `Daemon`: weak fairness of each side's `Handle`: the event loop runs every
  handler that is ready and an awaited `async_send_to` of a UDP socket
  completes one way or the other. Nothing is assumed of arrivals, and receive
  errors are never forced. `Handle` is weakly fair as a whole, so a send may
  always succeed or always fail.
- `VizSession`: the strand runs what is ready (`Session`, `Timer`), time passes
  (`Tick`), an expired timer completes (`Expire`). The client is not fair.
- `Interpreter`: a call that runs goes on (`Step`). The user is not fair.
- `Validator`: calls and the validator itself go on (weakly fair); random points keep
  hitting a profile that they can hit (`SF` of `Again` with such a point). That is what
  a uniform distribution over the box gives, with probability one, for a profile of
  positive volume, and nothing for another: `ValidationEnds` is stated for those only.
- `Raster`: both loops run on and the connection between them holds (`WF_vars(Next)`);
  what happens when it does not is `VizSession`'s.
- `PackedBuffer`, `DiscreteDevice`, `Devices` and `Expression` have no liveness property:
  their loops run over lists that are given.

## 6. Proofs

For every value of the constants (any packets, buffers, endpoints, builds;
any message and word size; any timeout; any graph of expressions; any expression and polynomial; any matrix; any
setpoints and steps):

| Theorem | Statement |
|---|---|
| `TypeCorrect`, `FanOutCorrect` (`DaemonProofs`) | `SafeSpec => []TypeOK`, `[]FanOut` |
| `AdvsFreshCorrect` (`DaemonProofs`) | unless `KeepRoot`, `SafeSpec => []AdvsFresh` |
| `FreshCorrect` (`DaemonProofs`) | if only whole messages that fit the buffer can arrive, `[]RequestsFresh` |
| `FailSeparatelyCorrect` (`DaemonProofs`) | `SafeSpec => FailSeparately` |
| `AdvsRelayedSafely` (`DaemonProofs`) | unless `KeepRoot`, `SafeSpec => AdvRelay!SafeSpec`: the side of the resource agent implements the relay |
| `RequestsRelayedSafely` (`DaemonProofs`) | with whole messages, `SafeSpec => RequestRelay!SafeSpec` |
| `PackTypes`, `PackExact`, `PackDelivered` (`PackedBufferProofs`) | `Spec => []TypeOK`, `[]Exact`, `[]Delivered` |
| `RetryCorrect` (`PackedBufferProofs`) | `Spec => RetrySucceeds` |
| `SessionTypes`, `WatchedCorrect`, `CutCorrect` (`VizSessionProofs`) | `SafeSpec => []TypeOK`, `[]Watched`, `CutOnlyLate` |
| `LimitPerCallCorrect`, `ValidatorLimit` (`InterpreterProofs`) | `[]LimitPerCall`, for a free user and for the validator |
| `InterpreterTypes`, `ValidatorTypes` (`InterpreterProofs`) | `SafeSpec => []TypeOK`, `ValidatorSpec => []ValidatorTypeOK` |
| `NamesFoundCorrect`, `ValidatorNamesFound` (`InterpreterProofs`) | if no scan meets the limit, `[]NamesFound`, for both clients |
| `SampledInsideCorrect` (`InterpreterProofs`) | `ValidatorSpec => []SampledInside` |
| `AcceptedIsUsableCorrect` (`InterpreterProofs`) | if `NamesUnique`, `ValidatorSpec => []AcceptedIsUsable` |
| `RejectedForCauseCorrect` (`InterpreterProofs`) | if `WithinReach`, `ValidatorSpec => []RejectedForCause` |
| `TypeCorrect`, `NoIndexError`, `PictureCorrect` (`RasterProofs`) | `Spec => []TypeOK`, `[](pc # "index_error")`, `[]PictureFaithful` |
| `PolynomialMeans` (`ExpressionProofs`) | a polynomial that `Fits` is read with the value and the derivatives it was written with |
| `WritingAlways`, `TypeCorrect` (`ExpressionProofs`) | `Spec => []WritingInv` (the inductive invariant), `[]TypeOK` |
| `ValueIsMeant`, `DerivativeIsMeant` (`ExpressionProofs`) | `Spec => []ValueMeant`, `[]DerivativeMeant` |
| `HandledCorrect`, `NearestPointCorrect`, `NearestStepCorrect` (`DevicesProofs`) | `DevicesSpec => []Handled`, `[]NearestPoint`, `[]NearestStep` |
| `ProfileMeantCorrect`, `DevicesTypes` (`DevicesProofs`) | if `PlantSound`, `DevicesSpec => []ProfileMeant`, `[]DevicesTypeOK` |
| `CostOrdersCorrect` (`DevicesProofs`) | `DevicesSpec => []CostOrders` |
| `ResponsesBelievedCorrect` (`DevicesProofs`) | if `PlantSound` and `DriftSound`, `[]ResponsesBelieved` |
| `HullHoldsCorrect` (`DevicesProofs`) | if `PlantSound` and `RatingSound`, `[]HullHolds` |

The arguments.

- *FanOut* is not inductive: it speaks of lengths only up to one. The
  strengthening says where in its loop a side is: while it sends, exactly the
  endpoints before `next` have the latest message, and in the custom case the
  buffer still holds it, because a side does not receive while it sends. Outside
  the loop either all endpoints are level or the side is dead. It needs the
  type invariant (`next` within the endpoints).
- *RequestsFresh* needs that a whole message overwrites every word the decoder
  looks at. That is the hypothesis `WholeMessages` of the theorem; `daemon_stale`
  shows that it cannot be dropped.
- *The relays.* The refinement mapping is the one TLC checks (section 3). What makes it
  inductive is a ledger: the messages in `log` are, one for one and in order, what the
  packets in `got` translate to, each of the packet of its number, but for a last one that was refused. For a JSON
  side this needs that the C string that is parsed is the text of *this* packet,
  whatever the buffer held before (`Terminated`), and that a failed parse leaves no root of
  an earlier one: with a rapidjson that keeps it (`KeepRoot`) the statement is false, as
  `daemon_kept_root` shows, and the theorems exclude it. *AdvsFresh* is the same ledger read message by
  message. Each action is then shown to be a step of
  the relay or a stutter. The liveness half of `Relay` is TLC's.
- *Exact* rests on a control invariant (when a buffer of the vector is handed
  out it begins at `bytesWritten` and reaches to the end, until the next write),
  which is what makes the pointer comparison in `write` sound, and on a byte
  invariant on the contents. *Delivered* adds what is known once all is trimmed.
- *RetrySucceeds* is about two runs: the second one is the first one again, because
  the message is the same, so an account of the bytes needed so far, which depends on the
  message alone, makes the size that was reported the size that is needed.
- *CutOnlyLate* needs a clock invariant that relates the timer to the age of the
  request: `left = 0` only if the request has waited the whole timeout. A wait
  that expired before the timer was set anew is harmless because the code looks at
  the time again.
- *LimitPerCall* needs that the counter never exceeds the history of functions
  entered, and that nothing runs outside a call. Every other action is shown to
  be a *walk*: it enters a function or none, and goes on or fails otherwise.
- *NamesFound*. The invariant is about a scan that is half done: every name of the
  advertisement is found already, or lies within reach of a task on the stack, as far as
  the limit lets that task still descend (`Progress`). A step of the scan trades a task for
  those of its subexpressions. The hypothesis `ScansFit` says that no scan runs into the
  limit: one that does leaves the maps half filled and the object usable, which is
  how the code is, so that the property is false without it.
- *SampledInside*. While the box of the profile is computed, what has been looked at lies in
  layers, of shapes and of intersections of what is one layer further (`Layered`); when it is
  done nothing else is in the profile, no reference to a set and no case distinction, since
  `rectHull` raises an error for those. During the test of a point the invariant is (`Testing`): *every* set of
  sets that follows from the shapes holding the point, and that has what is still to be
  tested, has the profile; or the answer is no already and only intersections wait, which
  all take their early exit. It needs the order of the stack, a set on top of nothing but
  the intersections that it is part of, so that the answer of an earlier set is never taken for a later one's.
- *AcceptedIsUsable* rests on the same course of a validation (`CourseInv`). That the profile
  depends on no variable and no unknown name is found along with its box: all that is reached
  from the profile has a value, or waits on the stack (`Reached`). Of the cost and the belief the same is
  said of what an evaluation *surely* gets to, which is everything but what a case distinction
  chooses (`Surely`, `Usable`): no unknown name, no unbound variable, no set of sets that cannot be
  boxed, and linear programs with a solution. Here a name must stand for one
  expression (`NamesUnique`, evaluated by TLC on the advertisements of the run): of two, the
  box visits the one that the scan found last, and says nothing of the other.
- *RejectedForCause* is the converse: an advertisement without a defect raises nothing but the
  limit, and a set without a box (`Boxable` has the linear programs of every polytope that is not merged in
  another set) is a defect. A ragged matrix ends the process and gives no verdict at all. What a part leads to is *ground* (`Ground`): everything in it has a value, every
  name in it was found (`AllFound`, and `SetsOwn`: no set of another advertisement is left), and every
  case distinction has a case that holds the point. The tasks on the stack stay on
  that ground (`RunTasks`). The hard step is a case distinction, whose tests are
  memberships inside an evaluation: that the evaluation finds a case needs that the case that holds the point
  is not passed by. While it is tested nothing waits on it but intersections of
  sets that hold the point, so the answer is sure to be yes (`Assured`, `Branches`). Hence
  a call ends with a result or meets the limit (`RunSteps`), and `CauseInv` carries that through
  the course of a validation. The hypothesis `WithinReach` says that no advertisement nests deeper
  than the limit. What a part leads to and which sets hold a point are
  defined in as many stages as the limit, and membership, which restarts the counter at the limit, may
  go further. TLC evaluates it on the advertisements of the run (`AllReached`).
- *PictureFaithful*. What the client reads expands to the pixels the server has been through,
  as far as both have come. The array is never read out of step, although a count may have
  the value of a cost, because each run is written as value and count and read as such.
- *Discrete devices*. An ordering exists for every list (by exchange of the largest member with the last);
  of an ascending list, the cases end half-way between neighbours, so the
  first case that holds P is one of a nearest point; for a step, the fraction is rounded to a nearest
  multiple, and the alignment to `Pmin` (with `fmod`, whose sign is that of its argument) keeps it one.
  The cases before the one that is tested do not hold P, and the last holds everything.
- *Fractions.* What `Devices` says of profiles, costs, beliefs and boxes is arithmetic, and
  its numbers are pairs that are reduced after every operation. `Arithmetic` shows that
  Euclid's algorithm yields the greatest common divisor, that a fraction has one form in
  lowest terms, and from it the laws of an ordered field. The other proofs calculate with
  those laws alone.
- *Polynomials.* An offset is a sum of powers times places, in the order in which the powers were
  written; the interpreter divides by the place of each variable, in the order of the list. The two meet in
  the *exponents*: the offset is the number whose digits they are (`OffsetOfExponents`), each
  is at most the degree, so by the identity of division a digit is read as the exponent
  it was (`DigitsRead`, `OffsetRead`), and nothing exceeds the number of digits (`WellBuilt`). Evaluation is then the
  product of powers, which does not depend on the order, and the derivative is the product rule over
  the powers as written, of which all terms but one vanish. All of this is about numbers that
  an int holds (`Fits`); nothing is claimed of others, and the run has values that are wrong then.
- *Values* and derivatives are those of the answers that come: the exception of the nesting limit is a
  possible result of every call (`Asked`), a polynomial that lost its tag or overflowed is
  excluded (`Carried`). The invariant `WritingInv` says that what was written is leaves with operators on top,
  that what was sent is its message, and that the result is what the interpreter calculates of
  that or the exception. A reference comes after the expression that it names, although its node may have
  a smaller number: the nodes have a *rank* along which a call uses results
  of lower rank only, and the function that recurs over them exists by induction along it (`RankInduction`).
  Each term then means what its one or two nodes calculate, operator by operator: `Meant` says
  that its pairs have one value, the interpreter's. Division needs that no divisor is zero (`Broken`). For
  rounding the two definitions meet in the uniqueness of the integer with the inequalities.
- *Derivatives.* What holds of every term is weaker (`Sloped`): its slope is one of those meant, or is not finite
  and there is a power with a base that is not positive below. What is not finite is handed on by
  all operations, so the second case needs nothing else. The power rule, which the interpreter
  writes with a logarithm, comes down to `n` times the power less one; the quotient rule follows from
  that of the reciprocal; lists have three terms here.
- *Profiles, costs, beliefs.* The invariant `Advertised` ties what is advertised to the order
  it was made of, through the steps of a discrete device in between; the properties then
  follow from it by cases on the kind of device. The slope of a power factor is
  the quotient of sine and cosine, and the triangle it cuts out is the power factor
  squared; the normalization of a cost keeps or reverses its order with the sign of what it divides
  by, and a constant is left where that is next to zero;
  for a plant that loses power the belief reaches as far as its clipped reactive
  power, for a device that drifts as far as its rating and its half-plane.
- *HullHolds.* A box is the answer of four linear programs over the sides of the overlaid boxes
  and the rows of the polytope, and an optimum, if there is one, is at a corner. The theorem is that
  the corners suffice: from a point of the set a ray in the direction of the objective leaves a row,
  because the sides of the disk's box bound it; along that row in the better direction
  another row is met, and where they meet is a corner that is no worse. *DevicesTypes* needs the
  same corners in the other direction: every corner lies between the least and the greatest.

Three conditions on orders are hypotheses, because the code takes them for granted and does not
look (they are named in `Devices`, and TLC evaluates them on the orders of the run):
`PlantSound`, a slope that is not negative or a power factor between zero and one, whose
sine is a fraction, since the model has no roots; `DriftSound`, a production that does not rise by a negative `Pdelta`, and
bounds of a drift in order; `RatingSound`, a rating that is not negative. None can be dropped: a negative slope turns the
triangle of a plant over, and with a negative rating a profile has members and no box
(section 7).

Induction over data. The induction theorems of the library cannot be used with these
provers, so `Arithmetic` proves induction for a *set* of numbers, from the library's
theorem that an injection of a finite set into itself is a surjection, and from it that the stages of
an iterated step exist, which is what makes a recursive function satisfy its
equation. Sorting, expansion of runs, the reach of a scan, offsets and the evaluation of expressions rest
on it.

Assumptions on constants are named in the modules and evaluated by TLC. Those that
the proofs brought up are `MaxRunAssumption` (`PackedBuffer`), `ShapeAssumption`
(`Interpreter`: case distinctions and rectangles have their parts in pairs, as the schema has it, and variables and polynomials have none), `NamesAssumption`
(`Polynomial`: the names of variables differ from one another and from `""`, as the members of the `std::set` do)
and the ones on leaves, operators and places (`Expression`: leaves are constants, variables, references
and polynomials, every variable has a number, and the case distinction has the variable that it tests).

Only model-checked: liveness (`Served`, `Concludes`, `Ends`, `Drawn`, `ValidationEnds`, the
liveness half of the relays), which is out of the prover's reach. Every safety invariant and every
action property of a passing run is a theorem, some under the hypotheses named above.

## 7. Disagreements between code and documentation

Each is a run that must find a violation, and a finding in `PROJECT.json`.

1. The request reader spans the whole receive buffer (`daemon.cpp:250`): a short
   datagram is completed by an earlier one and a request nobody sent goes out.
2. `throw;` with no exception in flight (`daemon.cpp:253`) calls `std::terminate`.
3. `membership` and `proj` reset the counter at the limit
   (`adv-interpreter.hpp:163`): a cycle through sets is followed without end.
4. With a rapidjson whose `Parse` leaves the root alone on an error, a packet that is no JSON
   object sends the advertisement of an earlier one again, against "JSON object invalid"
   (`daemon.cpp:330-331`).

Seen while reading, not the subject of a run:

- `createFuelCellAdv` (`daemon.cpp:166`) does without the check that
  `makeFuelCellAdvertisement` makes (`hlapi.cpp:223-224`): the daemon may advertise a fuel cell
  that consumes. `Devices` has both ways.
- A field of the wrong type is not looked for (`json.cpp:63`, an assertion of rapidjson), nor is a
  missing "points" (`daemon.cpp:117-119`): the process ends, or an advertisement of garbage is
  sent. `Daemon` has all outcomes (`Malformed`).
- A matrix whose rows differ in length reaches a `throw;` without an exception
  (`adv-interpreter.cpp:26-29`): such an advertisement ends the process that evaluates it, also
  from within a validator.
- `cv::Polynomial::build` gets the polynomial of the message and does not initialize it
  (`realexpr-convenience.hpp:222-225`): the union keeps the tag of a real, debug builds of Cap'n Proto
  throw, others evaluate it to zero. Nothing in the repository uses the class; the properties of
  `Expression` set it aside.
- The offset of a monomial is added up in an int (`polynomial-convenience.hpp:249`, `255`) and read into
  one (`adv-interpreter-eval.cpp:370`, `375`): a degree of 255 in four variables does not fit. The properties
  are about offsets that do.
- `messageByteSize` is not the upper bound that `sender-policies.hpp:69` says: a word
  without zero bytes takes two bytes more when packed. The vector grows instead,
  which `PackedBuffer` includes.
- The session timer measures the whole request (`visualization_server.cpp:252`), not
  the inactivity that the comment one line below speaks of.
- The nesting counter counts visits (`adv-interpreter.cpp:72`), so a flat but wide
  advertisement is called too deep.
- A picture asked for by resolution has one point too few per axis
  (`visualization_server.cpp:201`), so its resolution is another one than
  `viz-user.py:57-58` asks for.
- The cost of a battery, a fuel cell or a discrete device is divided by 2 alpha (`hlapi.cpp:194`, `598`), against
  `hlapi.cpp:576`: a negative alpha turns the order of setpoints round, and for an alpha
  within 1e-6 of zero the cost is zero, linear part included (`hlapi.cpp:600-603`). `CostOrders` says just this.
- The derivative of a square leaves out the argument (`adv-interpreter-eval.cpp:298`);
  that of a power is not a number for a base that is not positive, also when the
  exponent is constant (`adv-interpreter-eval.cpp:177`): the logarithm is multiplied by
  zero. `DerivativeMeant` sets the first aside and names the second.
- The builder of a cosine builds a sine (`realexpr-convenience.hpp:264`).
- A plant with a power factor of one is advertised down to `-Srated`: the two sides of its
  triangle are one line. `ProfileMeant` says so.
- The half-plane of a generator is `P >= -PmaxAbsorb`, where `hlapi-internal.hpp:77` has
  `P >= 0`.
- Membership in a disk squares the radius, its box does not: with a negative rating, which
  nothing refuses, a profile has members and no box.
- Merging two polytopes (`adv-interpreter-recthull.cpp:154`) resizes a matrix without
  keeping its contents.
- The cost functions against `hlapi.h:99-100`; the docstring of `uncompress`, which has 1.0
  for -1.0 (`viz-user.py:36`).

## 8. Assumptions, and what is not modelled

- UDP: any packet of the given set at any time; that covers loss, duplication and
  reordering. The kernel drops what does not fit the queue.
- Whether rapidjson keeps the root after a failed parse depends on its version,
  which the repository does not fix (a submodule): `KeepRoot` is a parameter. What is said of
  advertisements holds without it, `daemon_kept_root` is the run with it.
- Bytes that are no message may decode to anything or make Cap'n Proto throw.
- The two arguments of a binary operator are evaluated from left to right. C++
  leaves the order open; only *which* error is thrown depends on it. How often functions are entered
  in `Expression` does not depend on it.
- Assertions are off, as in a release build; only where `Raster` meets undefined
  behaviour may one end the server.
- Numbers: values are exact fractions in `Expression` and `Devices`, integers in `Raster`
  and `DiscreteDevice`, choices in `Interpreter`. Rounding errors of doubles and the
  tolerance of the linear programs are left out, and so are functions whose values are
  no fractions: `exp`, `ln`, `log10`, `sqrt`, `sin`, `cos`, `tan`, and powers with
  exponents other than natural numbers.
- Parameters of devices are finite (`OrdersAssumption`): JSON has no other numbers, and nothing says
  what another one would mean to the C interface.
- Whether a linear program has a solution is a choice in `Interpreter` and a function of the point in
  `Validator`; in `Devices` it is solved.
- Projection: which sets and iterations it goes through is in `Interpreter`, the points
  it yields are not; convergence of Dykstra's algorithm is about real numbers.
- The verdict of validation depends on random points; `Daemon` takes it as a function of
  the advertisement, `Validator` models how it comes about.
- An intersection of two polytopes: no device has one, and what the resized matrix
  holds is undefined.
- `parseRequest` and `getImplSetpointFromAdv`: plain reads of a message.
- `NonPackedSerialization` and the Asio-KJ adapter: no build instantiates them.
- Repeated variables in a monomial (`X|X`), negative powers and degrees above 255:
  `Polynomial` excludes them, no code here writes them and nothing says what they mean.
- Acceptor, command line, configuration: straight-line code, or I/O.
- Vendored code, tests, build files, documentation.

## 9. Plan

Done in this order: the daemon and its relay, the packed buffer, the session, the
interpreter's control, the algorithms that two parts of the system must agree on
(pictures, discrete beliefs, polynomials), the validator as a client of the
interpreter, expressions from writing to slopes, and all devices. Proved since: the
refinement of the relay, the retry, the interpreter's types and names, what the validator
samples, accepts and rejects, pictures, fractions, all of `Devices`, polynomials and expressions. No safety
property of a passing run is left without a proof.

A model of `AsioKJOutBufferAdapter` is worth its while only once a build uses
`NonPackedSerialization`.

## 10. Running the checks

In `tla/`: `tlc -config <cfg> <module>` for each run of `PROJECT.json`, and
`tlapm <module>` for each `...Proofs` module.
