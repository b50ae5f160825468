----------------------------- MODULE VizSession ------------------------------
(***************************************************************************)
(* One client session of utils/visualization_server.cpp                    *)
(* (TCPSession::sessionLoop): a coroutine that reads a request in three    *)
(* parts and writes a reply, and a coroutine that waits on the session's   *)
(* timer and closes the socket.  Both run on one strand, so each runs      *)
(* undisturbed until it waits; a completed operation resumes its coroutine *)
(* only later, and meanwhile the other one may run.                        *)
(***************************************************************************)
EXTENDS Naturals

CONSTANT Timeout           \* the 10 seconds of expires_from_now, in ticks
ASSUME TimeoutAssumption == Timeout \in Nat \ {0}

VARIABLES
  open,      \* socket_.is_open()
  sess,      \* what the session coroutine waits for
  op,        \* its socket operation: "none", "pending", "ok", "error"
  tco,       \* the timer coroutine: "start", "wait", "done"
  wait,      \* its async_wait: "none", "waiting", "expired", "aborted"
  left,      \* ticks until the timer expires, 0 when it has
  cycle,     \* history: parity of the number of replies written
  age,       \* history: ticks since the request being served was awaited
  cut        \* history: the timer coroutine closed the socket

vars == <<open, sess, op, tco, wait, left, cycle, age, cut>>

Reading == {"header", "json", "capnp"}

TypeOK ==
  /\ open \in BOOLEAN
  /\ sess \in Reading \cup {"start", "write", "done"}
  /\ op \in {"none", "pending", "ok", "error"}
  /\ tco \in {"start", "wait", "done"}
  /\ wait \in {"none", "waiting", "expired", "aborted"}
  /\ left \in 0 .. Timeout
  /\ cycle \in {0, 1}
  /\ age \in 0 .. Timeout
  /\ cut \in BOOLEAN

\* sessionLoop has spawned both coroutines; a fresh timer has expired.
Init ==
  /\ open = TRUE /\ sess = "start" /\ op = "none"
  /\ tco = "start" /\ wait = "none" /\ left = 0
  /\ cycle = 0 /\ age = 0 /\ cut = FALSE

------------------------------------------------------------------------------
(* What the library calls do.                                              *)

\* Changing or cancelling a timer aborts a pending wait, not one that expired.
AbortWait == wait' = IF wait = "waiting" THEN "aborted" ELSE wait

\* MUTANT: the time still left is added to.
ArmAdds ==
  /\ left' = left + Timeout
  /\ AbortWait
  /\ age' = 0

\* timer_.expires_from_now(10 s)
Arm ==
  /\ left' = Timeout
  /\ AbortWait
  /\ age' = 0

\* An operation started on a closed socket fails at once.
Start(o) == op' = IF o THEN "pending" ELSE "error"

------------------------------------------------------------------------------
(* The session coroutine.                                                  *)

\* To the top of the loop: set the timer, wait for a header.
NextRequest ==
  /\ Arm
  /\ sess' = "header"
  /\ Start(open)

SessionStart ==
  /\ sess = "start"
  /\ NextRequest
  /\ UNCHANGED <<open, tco, cycle, cut>>

\* The header is in: wait for the JSON part; the JSON part: for the message.
ReadOn ==
  /\ op = "ok"
  /\ \/ sess = "header" /\ sess' = "json"
     \/ sess = "json" /\ sess' = "capnp"
  /\ Start(open)
  /\ UNCHANGED <<open, tco, wait, left, cycle, age, cut>>

\* The request is complete; a reply, maybe one that reports errors, goes out.
Reply ==
  /\ op = "ok" /\ sess = "capnp"
  /\ sess' = "write"
  /\ Start(open)
  /\ UNCHANGED <<open, tco, wait, left, cycle, age, cut>>

Replied ==
  /\ op = "ok" /\ sess = "write"
  /\ NextRequest
  /\ cycle' = 1 - cycle
  /\ UNCHANGED <<open, tco, cut>>

\* MUTANT: the handler leaves the timer alone and the socket open.
SessionFailQuietly ==
  /\ op = "error" \/ (op = "ok" /\ sess \in Reading)
  /\ sess' = "done" /\ op' = "none"
  /\ UNCHANGED <<open, tco, wait, left, cycle, age, cut>>

\* An exception: of an operation, of a buffer that cannot be resized, of
\* renderCostFunction.  Close the socket, cancel the timer.
SessionFail ==
  /\ op = "error" \/ (op = "ok" /\ sess \in Reading)
  /\ sess' = "done" /\ op' = "none"
  /\ open' = FALSE
  /\ AbortWait
  /\ UNCHANGED <<tco, left, cycle, age, cut>>

------------------------------------------------------------------------------
(* The timer coroutine.                                                    *)

\* while (socket_.is_open()) async_wait
WaitWhile(o) ==
  IF o THEN tco' = "wait" /\ wait' = "waiting"
       ELSE tco' = "done" /\ wait' = "none"

\* It is spawned after the session coroutine, on the same strand.
TimerStart ==
  /\ tco = "start" /\ sess # "start"
  /\ WaitWhile(open)
  /\ UNCHANGED <<open, sess, op, left, cycle, age, cut>>

\* MUTANT: a wake-up is taken for an expiry.
ExpiredOnWake == TRUE

\* MUTANT: the comparison never holds.
ExpiredNever == FALSE

\* timer_.expires_from_now() <= 0
Expired == left = 0

TimerResume ==
  /\ wait \in {"expired", "aborted"}
  /\ open' = (open /\ ~Expired)
  /\ op' = IF open /\ ~open' /\ op = "pending" THEN "error" ELSE op
  /\ cut' = (cut \/ (open /\ ~open'))
  /\ WaitWhile(open')
  /\ UNCHANGED <<sess, left, cycle, age>>

------------------------------------------------------------------------------
(* The client, the network and the clock.                                  *)

\* All of the bytes waited for have arrived, or the peer has taken the reply;
\* that some of them move changes nothing here.
Complete ==
  /\ open /\ op = "pending"
  /\ op' = "ok"
  /\ UNCHANGED <<open, sess, tco, wait, left, cycle, age, cut>>

\* The peer closes or resets the connection.
PeerGone ==
  /\ open /\ op = "pending"
  /\ op' = "error"
  /\ UNCHANGED <<open, sess, tco, wait, left, cycle, age, cut>>

Expire ==
  /\ wait = "waiting" /\ left = 0
  /\ wait' = "expired"
  /\ UNCHANGED <<open, sess, op, tco, left, cycle, age, cut>>

Older(n) == IF n < Timeout THEN n + 1 ELSE n

Tick ==
  /\ sess # "start" /\ tco # "done"
  /\ left' = IF left > 0 THEN left - 1 ELSE 0
  /\ age' = Older(age)
  /\ UNCHANGED <<open, sess, op, tco, wait, cycle, cut>>

------------------------------------------------------------------------------
Session == SessionStart \/ ReadOn \/ Reply \/ Replied \/ SessionFail
Timer == TimerStart \/ TimerResume
Environment == Complete \/ PeerGone \/ Expire \/ Tick

Next == Session \/ Timer \/ Environment

SafeSpec == Init /\ [][Next]_vars

\* The strand runs every handler that is ready, time passes and timers go
\* off; nothing is assumed of the client.
Spec ==
  /\ SafeSpec
  /\ WF_vars(Session) /\ WF_vars(Timer) /\ WF_vars(Expire) /\ WF_vars(Tick)

Finished == sess = "done" /\ tco = "done"

(* The timer coroutine leaves only once the socket is closed, and the      *)
(* session coroutine leaves the socket closed: no session goes on without  *)
(* its watchdog (the two loops of sessionLoop).                            *)
Watched ==
  /\ tco = "done" => ~open
  /\ sess = "done" => ~open

(* The timer coroutine cuts a connection only if the request being served  *)
(* has been awaited for the whole timeout, although a wait may expire or   *)
(* be aborted just before the session coroutine sets the timer anew        *)
(* (expires_from_now in both loops).                                       *)
CutOnlyLate == [][cut' /\ ~cut => age = Timeout]_vars

(* Every request is answered or the session ends for good, both coroutines *)
(* included, whatever the client does (the timer, and the handler that     *)
(* closes the socket and cancels the timer).                               *)
Concludes == \A c \in {0, 1} : cycle = c ~> (cycle # c \/ Finished)
==============================================================================
