-------------------------- MODULE VizSessionProofs ---------------------------
(***************************************************************************)
(* The safety properties of a visualization session, for every timeout.    *)
(***************************************************************************)
EXTENDS VizSession, TLAPS

(* A request has been awaited for exactly the time that is gone from the   *)
(* timer, and nobody waits on the timer before it was first set.           *)
Clock ==
  /\ sess # "start" => left + age = Timeout
  /\ tco # "start" => sess # "start"
  /\ wait # "none" => tco = "wait"
  /\ sess = "start" => op = "none"

Control ==
  /\ sess \in Reading \cup {"start", "write", "done"}
  /\ op \in {"none", "pending", "ok", "error"}
  /\ tco \in {"start", "wait", "done"}
  /\ wait \in {"none", "waiting", "expired", "aborted"}

Times ==
  /\ left \in 0 .. Timeout
  /\ cycle \in {0, 1}
  /\ age \in 0 .. Timeout

Flags == open \in BOOLEAN /\ cut \in BOOLEAN

IInv == TypeOK /\ Watched /\ Clock

LEMMA Parts == TypeOK <=> Control /\ Times /\ Flags
BY DEF TypeOK, Control, Times, Flags

LEMMA InitIInv == Init => IInv
<1> SUFFICES ASSUME Init PROVE IInv
  OBVIOUS
<1>1. Control
  BY DEF Init, Control, Reading
<1>2. Times
  BY TimeoutAssumption DEF Init, Times
<1>3. Flags
  BY Zenon DEF Init, Flags
<1>4. Watched /\ Clock
  BY DEF Init, Watched, Clock
<1> QED
  BY <1>1, <1>2, <1>3, <1>4, Parts DEF IInv

LEMMA StepIInv == IInv /\ [Next]_vars => IInv'
<1> SUFFICES ASSUME IInv, [Next]_vars PROVE IInv'
  OBVIOUS
<1>0. Control /\ Times /\ Flags /\ Watched /\ Clock
  BY Parts DEF IInv
<1>1. Control'
  <2>1. CASE SessionStart
    BY <1>0, <2>1
    DEF Control, Reading, SessionStart, NextRequest, Arm,
      AbortWait, Start
  <2>2. CASE ReadOn
    BY <1>0, <2>2 DEF Control, Reading, ReadOn, Start
  <2>3. CASE Reply
    BY <1>0, <2>3 DEF Control, Reading, Reply, Start
  <2>4. CASE Replied
    BY <1>0, <2>4
    DEF Control, Reading, Replied, NextRequest, Arm,
      AbortWait, Start
  <2>5. CASE SessionFail
    BY <1>0, <2>5 DEF Control, Reading, SessionFail, AbortWait
  <2>6. CASE TimerStart
    BY <1>0, <2>6 DEF Control, Reading, TimerStart, WaitWhile
  <2>7. CASE TimerResume
    BY <1>0, <2>7 DEF Control, Reading, TimerResume, WaitWhile, Expired
  <2>8. CASE Complete \/ PeerGone \/ Expire
    BY <1>0, <2>8 DEF Control, Reading, Complete, PeerGone, Expire
  <2>9. CASE Tick
    BY <1>0, <2>9 DEF Control, Reading, Tick, Older
  <2>10. CASE UNCHANGED vars
    BY <1>0, <2>10 DEF Control, Reading, vars
  <2> QED
    BY <2>1, <2>2, <2>3, <2>4, <2>5, <2>6, <2>7, <2>8, <2>9, <2>10
    DEF Next, Session, Timer, Environment
<1>2. Times' /\ Clock'
  <2>1. CASE SessionStart
    BY <1>0, <2>1, TimeoutAssumption
    DEF Times, Control, Clock, Reading, SessionStart, NextRequest, Arm,
      AbortWait, Start
  <2>2. CASE ReadOn
    BY <1>0, <2>2, TimeoutAssumption
    DEF Times, Control, Clock, Reading, ReadOn, Start
  <2>3. CASE Reply
    BY <1>0, <2>3, TimeoutAssumption
    DEF Times, Control, Clock, Reading, Reply, Start
  <2>4. CASE Replied
    BY <1>0, <2>4, TimeoutAssumption
    DEF Times, Control, Clock, Reading, Replied, NextRequest, Arm,
      AbortWait, Start
  <2>5. CASE SessionFail
    BY <1>0, <2>5, TimeoutAssumption
    DEF Times, Control, Clock, Reading, SessionFail, AbortWait
  <2>6. CASE TimerStart
    BY <1>0, <2>6, TimeoutAssumption
    DEF Times, Control, Clock, Reading, TimerStart, WaitWhile
  <2>7. CASE TimerResume
    <3>1. UNCHANGED <<sess, left, cycle, age>>
      BY <2>7 DEF TimerResume
    <3>2. tco = "wait" /\ sess # "start"
      BY <1>0, <2>7 DEF Clock, TimerResume
    <3>3. wait' # "none" => tco' = "wait"
      BY <2>7 DEF TimerResume, WaitWhile
    <3> QED
      BY <1>0, <3>1, <3>2, <3>3 DEF Times, Clock
  <2>8. CASE Complete \/ PeerGone \/ Expire
    BY <1>0, <2>8, TimeoutAssumption
    DEF Times, Control, Clock, Reading, Complete, PeerGone, Expire
  <2>9. CASE Tick
    BY <1>0, <2>9, TimeoutAssumption
    DEF Times, Control, Clock, Reading, Tick, Older
  <2>10. CASE UNCHANGED vars
    BY <1>0, <2>10, TimeoutAssumption DEF Times, Control, Clock, Reading, vars
  <2> QED
    BY <2>1, <2>2, <2>3, <2>4, <2>5, <2>6, <2>7, <2>8, <2>9, <2>10
    DEF Next, Session, Timer, Environment
<1>3. Flags'
  <2>1. CASE SessionStart
    BY <1>0, <2>1, Zenon
    DEF Flags, SessionStart, NextRequest, Arm, AbortWait, Start
  <2>2. CASE ReadOn
    BY <1>0, <2>2, Zenon DEF Flags, ReadOn, Start
  <2>3. CASE Reply
    BY <1>0, <2>3, Zenon DEF Flags, Reply, Start
  <2>4. CASE Replied
    BY <1>0, <2>4, Zenon DEF Flags, Replied, NextRequest, Arm, AbortWait, Start
  <2>5. CASE SessionFail
    BY <1>0, <2>5, Zenon DEF Flags, SessionFail, AbortWait
  <2>6. CASE TimerStart
    BY <1>0, <2>6, Zenon DEF Flags, TimerStart, WaitWhile
  <2>7. CASE TimerResume
    BY <1>0, <2>7, Zenon DEF Flags, TimerResume, WaitWhile, Expired
  <2>8. CASE Complete \/ PeerGone \/ Expire
    BY <1>0, <2>8, Zenon DEF Flags, Complete, PeerGone, Expire
  <2>9. CASE Tick
    BY <1>0, <2>9, Zenon DEF Flags, Tick, Older
  <2>10. CASE UNCHANGED vars
    BY <1>0, <2>10, Zenon DEF Flags, vars
  <2> QED
    BY <2>1, <2>2, <2>3, <2>4, <2>5, <2>6, <2>7, <2>8, <2>9, <2>10
    DEF Next, Session, Timer, Environment
<1>4. Watched'
  <2>1. CASE SessionStart
    BY <1>0, <2>1
    DEF Watched, Flags, Clock, SessionStart, NextRequest, Arm, AbortWait, Start
  <2>2. CASE ReadOn
    BY <1>0, <2>2 DEF Watched, Flags, Clock, ReadOn, Start
  <2>3. CASE Reply
    BY <1>0, <2>3 DEF Watched, Flags, Clock, Reply, Start
  <2>4. CASE Replied
    BY <1>0, <2>4
    DEF Watched, Flags, Clock, Replied, NextRequest, Arm, AbortWait, Start
  <2>5. CASE SessionFail
    BY <1>0, <2>5 DEF Watched, Flags, Clock, SessionFail, AbortWait
  <2>6. CASE TimerStart
    BY <1>0, <2>6 DEF Watched, Flags, Clock, TimerStart, WaitWhile
  <2>7. CASE TimerResume
    BY <1>0, <2>7 DEF Watched, Flags, Clock, TimerResume, WaitWhile, Expired
  <2>8. CASE Complete \/ PeerGone \/ Expire
    BY <1>0, <2>8
    DEF Watched, Flags, Clock, Complete, PeerGone, Expire
  <2>9. CASE Tick
    BY <1>0, <2>9 DEF Watched, Flags, Clock, Tick, Older
  <2>10. CASE UNCHANGED vars
    BY <1>0, <2>10 DEF Watched, Flags, Clock, vars
  <2> QED
    BY <2>1, <2>2, <2>3, <2>4, <2>5, <2>6, <2>7, <2>8, <2>9, <2>10
    DEF Next, Session, Timer, Environment
<1>5. TypeOK'
  BY <1>1, <1>2, <1>3 DEF TypeOK, Control, Times, Flags
<1> QED
  BY <1>2, <1>4, <1>5 DEF IInv

(* The invariant behind the theorems below, over every behaviour of the    *)
(* session loop and the timer loop.                                        *)
THEOREM SessionInvariant == SafeSpec => []IInv
<1>1. Init => IInv
  BY InitIInv
<1>2. IInv /\ [Next]_vars => IInv'
  BY StepIInv
<1> QED
  BY <1>1, <1>2, PTL DEF SafeSpec

(* Every variable of a session keeps its type: the timer is never set      *)
(* beyond the timeout, in whatever order the two loops touch it.           *)
THEOREM SessionTypes == SafeSpec => []TypeOK
<1>1. IInv => TypeOK
  BY DEF IInv
<1> QED
  BY <1>1, SessionInvariant, PTL

(* Neither loop of sessionLoop ends and leaves the socket open.            *)
THEOREM WatchedCorrect == SafeSpec => []Watched
<1>1. IInv => Watched
  BY DEF IInv
<1> QED
  BY <1>1, SessionInvariant, PTL

(* Whatever the order of expiry, abort and re-arming, the timer loop cuts  *)
(* only a request that was awaited for the full timeout.                   *)
THEOREM CutCorrect == SafeSpec => CutOnlyLate
<1>1. IInv /\ [Next]_vars => [cut' /\ ~cut => age = Timeout]_vars
  <2> SUFFICES ASSUME IInv, Next, cut', ~cut PROVE age = Timeout
    BY DEF vars
  <2>1. CASE TimerResume
    <3>1. left = 0 /\ sess # "start"
      BY <2>1 DEF TimerResume, Expired, IInv, Clock, TypeOK
    <3> QED
      BY <3>1 DEF IInv, Clock, TypeOK
  <2>2. ~TimerResume => cut' = cut
    BY
    DEF Next, Session, Timer, Environment, SessionStart, ReadOn, Reply,
      Replied, SessionFail, TimerStart, Complete, PeerGone,
      Expire, Tick
  <2> QED
    BY <2>1, <2>2
<1> QED
  BY <1>1, SessionInvariant, PTL DEF SafeSpec, CutOnlyLate
==============================================================================
