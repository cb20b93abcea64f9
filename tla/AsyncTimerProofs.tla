--------------------------- MODULE AsyncTimerProofs ---------------------------
(***************************************************************************)
(* Proofs about AsyncTimer, for both classes of timers, and for any number *)
(* of cancellers, of callbacks in flight and of waits.                     *)
(***************************************************************************)
EXTENDS AsyncTimer, TLAPS

LEMMA InitInv == Init => Inv
<1> SUFFICES ASSUME Init PROVE Inv
  OBVIOUS
<1> USE TimerAssumption DEF Init
<1>1. n \in 0 .. MaxWaits /\ armed \in 0 .. MaxWaits
  OBVIOUS
<1>2. outcome \in [Wait -> {"none", "cancelled", "elapsed"}]
  OBVIOUS
<1>3. on = None /\ arming = {} /\ arming \subseteq [wait : Wait, on : Callback \cup {None}]
  OBVIOUS
<1>4. TypeOK
  BY <1>1, <1>2, <1>3 DEF TypeOK, Places, Stages, Tp
<1>5. ResumedOnce /\ CancelledWaitThrows /\ EarlyEndIsInherited
  BY <1>1 DEF ResumedOnce, CancelledWaitThrows, EarlyEndIsInherited
<1>6. FlagInv /\ EarlyInv
  BY <1>1 DEF FlagInv, EarlyInv, InWait, Wait
<1> QED
  BY <1>4, <1>5, <1>6 DEF Inv

(* Every step of the coroutine, of the owner, of a callback and of a       *)
(* thread in cancel() preserves the invariant.                             *)
LEMMA NextInv == Inv /\ [Next]_vars => Inv'
<1> SUFFICES ASSUME Inv, [Next]_vars PROVE Inv'
  OBVIOUS
<1> USE TimerAssumption DEF Inv, timerVars, setVars, poolVars, history, Async, Tp
<1>1. CASE wait
  <2>1. TypeOK'
    <3>1. n' \in 0 .. MaxWaits /\ n + 1 \in Wait
      BY <1>1 DEF wait, TypeOK, Wait
    <3>2. inherited' \subseteq Wait
      BY <1>1, <3>1 DEF wait, TypeOK
    <3> QED
      BY <1>1, <3>1, <3>2 DEF wait, TypeOK, Places
  <2>2. ResumedOnce'
    BY <1>1 DEF wait, UnderWay, TypeOK, ResumedOnce
  <2>3. CancelledWaitThrows' /\ FlagInv'
    BY <1>1 DEF wait, UnderWay, TypeOK, ResumedOnce, CancelledWaitThrows, FlagInv, Wait, InWait
  <2>4. EarlyEndIsInherited' /\ EarlyInv'
    BY <1>1 DEF wait, UnderWay, TypeOK, ResumedOnce, EarlyEndIsInherited, EarlyInv, FlagInv, Wait, InWait
  <2> QED
    BY <2>1, <2>2, <2>3, <2>4
<1>2. CASE abandon
  <2>1. TypeOK'
    <3>1. n + 1 \in 1 .. MaxWaits + 1
      BY DEF TypeOK
    <3>2. doomed' \subseteq 1 .. MaxWaits + 1
      BY <1>2, <3>1 DEF abandon, TypeOK
    <3> QED
      BY <1>2, <3>2 DEF abandon, TypeOK, Places
  <2>2. ResumedOnce'
    BY <1>2 DEF abandon, TypeOK, ResumedOnce
  <2>3. CancelledWaitThrows' /\ FlagInv'
    BY <1>2 DEF abandon, TypeOK, ResumedOnce, CancelledWaitThrows, FlagInv, Wait, InWait
  <2>4. EarlyEndIsInherited' /\ EarlyInv'
    BY <1>2 DEF abandon, TypeOK, ResumedOnce, EarlyEndIsInherited, EarlyInv, FlagInv, Wait, InWait
  <2> QED
    BY <2>1, <2>2, <2>3, <2>4
<1>3. CASE await_transform
  <2>1. TypeOK'
    BY <1>3 DEF await_transform, TypeOK, Wait, Places, InWait, Stages, FlagInv
  <2>2. ResumedOnce'
    BY <1>3 DEF await_transform, TypeOK, ResumedOnce
  <2>3. CancelledWaitThrows' /\ FlagInv'
    BY <1>3 DEF await_transform, TypeOK, ResumedOnce, CancelledWaitThrows, FlagInv, Wait, InWait
  <2>4. EarlyEndIsInherited' /\ EarlyInv'
    BY <1>3 DEF await_transform, TypeOK, ResumedOnce, EarlyEndIsInherited, EarlyInv, FlagInv, Wait, InWait
  <2> QED
    BY <2>1, <2>2, <2>3, <2>4
<1>4. CASE await_ready
  <2>1. TypeOK'
    BY <1>4 DEF await_ready, TypeOK, Wait, Places, InWait, Stages, FlagInv
  <2>2. ResumedOnce'
    BY <1>4 DEF await_ready, TypeOK, ResumedOnce
  <2>3. CancelledWaitThrows' /\ FlagInv'
    BY <1>4 DEF await_ready, TypeOK, ResumedOnce, CancelledWaitThrows, FlagInv, Wait, InWait
  <2>4. EarlyEndIsInherited' /\ EarlyInv'
    BY <1>4 DEF await_ready, TypeOK, ResumedOnce, EarlyEndIsInherited, EarlyInv, FlagInv, Wait, InWait
  <2> QED
    BY <2>1, <2>2, <2>3, <2>4
<1>5. CASE suspend_cancelled
  <2>1. TypeOK'
    BY <1>5 DEF suspend_cancelled, TypeOK, Wait, Places, InWait, Stages, FlagInv
  <2>2. ResumedOnce'
    BY <1>5 DEF suspend_cancelled, TypeOK, ResumedOnce
  <2>3. CancelledWaitThrows' /\ FlagInv'
    BY <1>5 DEF suspend_cancelled, TypeOK, ResumedOnce, CancelledWaitThrows, FlagInv, Wait, InWait
  <2>4. EarlyEndIsInherited' /\ EarlyInv'
    BY <1>5 DEF suspend_cancelled, TypeOK, ResumedOnce, EarlyEndIsInherited, EarlyInv, FlagInv, Wait, InWait
  <2> QED
    BY <2>1, <2>2, <2>3, <2>4
<1>6. CASE suspend
  <2>1. TypeOK'
    <3> DEFINE a == [wait |-> n, on |-> on]
    <3>1. n \in Wait /\ on \in Callback \cup {None}
      BY <1>6 DEF suspend, TypeOK, FlagInv, InWait
    <3>2. a \in [wait : Wait, on : Callback \cup {None}]
      BY <3>1
    <3>3. a.on # None => callback[a.on] = "inline"
      BY DEF TypeOK
    <3>4. arming' = arming \/ arming' = arming \cup {a}
      BY <1>6 DEF suspend
    <3> HIDE DEF a
    <3>5. /\ arming' \subseteq [wait : Wait, on : Callback \cup {None}]
          /\ \A d \in arming' : d.on # None => callback[d.on] = "inline"
      BY <3>2, <3>3, <3>4 DEF TypeOK
    <3>6. on' # None => callback[on'] = "inline"
      BY <1>6 DEF suspend, TypeOK
    <3> QED
      BY <1>6, <3>1, <3>5, <3>6 DEF suspend, TypeOK, Places
  <2>2. ResumedOnce'
    BY <1>6 DEF suspend, TypeOK, ResumedOnce
  <2>3. CancelledWaitThrows' /\ FlagInv'
    BY <1>6 DEF suspend, TypeOK, ResumedOnce, CancelledWaitThrows, FlagInv, Wait, InWait
  <2>4. EarlyEndIsInherited' /\ EarlyInv'
    BY <1>6 DEF suspend, TypeOK, ResumedOnce, EarlyEndIsInherited, EarlyInv, FlagInv, Wait, InWait
  <2> QED
    BY <2>1, <2>2, <2>3, <2>4
<1>7. CASE background
  <2>1. TypeOK'
    BY <1>7 DEF background, TypeOK, Wait, Places, InWait, Stages, FlagInv
  <2>2. ResumedOnce'
    BY <1>7 DEF background, TypeOK, ResumedOnce
  <2>3. CancelledWaitThrows' /\ FlagInv'
    BY <1>7 DEF background, TypeOK, ResumedOnce, CancelledWaitThrows, FlagInv, Wait, InWait
  <2>4. EarlyEndIsInherited' /\ EarlyInv'
    BY <1>7 DEF background, TypeOK, ResumedOnce, EarlyEndIsInherited, EarlyInv, FlagInv, Wait, InWait
  <2> QED
    BY <2>1, <2>2, <2>3, <2>4
<1>8. CASE await_resume
  <2>1. TypeOK'
    BY <1>8 DEF await_resume, TypeOK, Wait, Places, InWait, Stages, FlagInv
  <2>2. ResumedOnce'
    BY <1>8 DEF await_resume, TypeOK, ResumedOnce
  <2>3. CancelledWaitThrows' /\ FlagInv'
    BY <1>8 DEF await_resume, TypeOK, ResumedOnce, CancelledWaitThrows, FlagInv, Wait, InWait
  <2>4. EarlyEndIsInherited' /\ EarlyInv'
    BY <1>8 DEF await_resume, TypeOK, ResumedOnce, EarlyEndIsInherited, EarlyInv, FlagInv, Wait, InWait
  <2> QED
    BY <2>1, <2>2, <2>3, <2>4
<1>9. CASE Finish
  <2>1. TypeOK'
    BY <1>9 DEF Finish, TypeOK, Wait, Places, InWait, Stages, FlagInv
  <2>2. ResumedOnce'
    BY <1>9 DEF Finish, TypeOK, ResumedOnce
  <2>3. CancelledWaitThrows' /\ FlagInv'
    BY <1>9 DEF Finish, TypeOK, ResumedOnce, CancelledWaitThrows, FlagInv, Wait, InWait
  <2>4. EarlyEndIsInherited' /\ EarlyInv'
    BY <1>9 DEF Finish, TypeOK, ResumedOnce, EarlyEndIsInherited, EarlyInv, FlagInv, Wait, InWait
  <2> QED
    BY <2>1, <2>2, <2>3, <2>4
<1>10. ASSUME NEW a \in arming, SetThreadpoolTimer(a) PROVE Inv'
  <2>1. TypeOK'
    BY <1>10 DEF SetThreadpoolTimer, TypeOK, Wait, Places, InWait, Stages, FlagInv
  <2>2. ResumedOnce'
    BY <1>10 DEF SetThreadpoolTimer, TypeOK, ResumedOnce
  <2>3. CancelledWaitThrows' /\ FlagInv'
    BY <1>10 DEF SetThreadpoolTimer, TypeOK, ResumedOnce, CancelledWaitThrows, FlagInv, Wait, InWait
  <2>4. EarlyEndIsInherited' /\ EarlyInv'
    BY <1>10 DEF SetThreadpoolTimer, TypeOK, ResumedOnce, EarlyEndIsInherited, EarlyInv, FlagInv, Wait, InWait
  <2> QED
    BY <2>1, <2>2, <2>3, <2>4
<1>11. ASSUME NEW period \in BOOLEAN, start(period) PROVE Inv'
  <2>1. TypeOK'
    <3>1. armed' \in 0 .. MaxWaits
      BY <1>11 DEF start
    <3>2. periodic' \in BOOLEAN
      BY <1>11 DEF start
    <3>3. stopped' \in BOOLEAN
      BY <1>11 DEF start
    <3> QED
      BY <1>11, <3>1, <3>2, <3>3 DEF start, TypeOK
  <2>2. ResumedOnce'
    BY <1>11 DEF start, TypeOK, ResumedOnce
  <2>3. CancelledWaitThrows' /\ FlagInv'
    BY <1>11 DEF start, TypeOK, ResumedOnce, CancelledWaitThrows, FlagInv, Wait, InWait
  <2>4. EarlyEndIsInherited' /\ EarlyInv'
    BY <1>11 DEF start, TypeOK, ResumedOnce, EarlyEndIsInherited, EarlyInv, FlagInv, Wait, InWait
  <2> QED
    BY <2>1, <2>2, <2>3, <2>4
<1>12. CASE stop
  <2>1. TypeOK'
    BY <1>12 DEF stop, TypeOK, Wait, Places, InWait, Stages, FlagInv
  <2>2. ResumedOnce'
    BY <1>12 DEF stop, TypeOK, ResumedOnce
  <2>3. CancelledWaitThrows' /\ FlagInv'
    BY <1>12 DEF stop, TypeOK, ResumedOnce, CancelledWaitThrows, FlagInv, Wait, InWait
  <2>4. EarlyEndIsInherited' /\ EarlyInv'
    BY <1>12 DEF stop, TypeOK, ResumedOnce, EarlyEndIsInherited, EarlyInv, FlagInv, Wait, InWait
  <2> QED
    BY <2>1, <2>2, <2>3, <2>4
<1>13. ASSUME NEW b \in Callback, expire(b) PROVE Inv'
  <2>1. TypeOK'
    BY <1>13 DEF expire, TypeOK, Wait, Places, InWait, Stages, FlagInv
  <2>2. ResumedOnce'
    BY <1>13 DEF expire, TypeOK, ResumedOnce
  <2>3. CancelledWaitThrows' /\ FlagInv'
    BY <1>13 DEF expire, TypeOK, ResumedOnce, CancelledWaitThrows, FlagInv, Wait, InWait
  <2>4. EarlyEndIsInherited' /\ EarlyInv'
    BY <1>13 DEF expire, TypeOK, ResumedOnce, EarlyEndIsInherited, EarlyInv, FlagInv, Wait, InWait
  <2> QED
    BY <2>1, <2>2, <2>3, <2>4
<1>14. ASSUME NEW b \in Callback, run(b) PROVE Inv'
  <2>1. TypeOK'
    BY <1>14 DEF run, TypeOK, Wait, Places, InWait, Stages, FlagInv
  <2>2. ResumedOnce'
    BY <1>14 DEF run, TypeOK, ResumedOnce
  <2>3. CancelledWaitThrows' /\ FlagInv'
    BY <1>14 DEF run, TypeOK, ResumedOnce, CancelledWaitThrows, FlagInv, Wait, InWait
  <2>4. EarlyEndIsInherited' /\ EarlyInv'
    BY <1>14 DEF run, TypeOK, ResumedOnce, EarlyEndIsInherited, EarlyInv, FlagInv, Wait, InWait
  <2> QED
    BY <2>1, <2>2, <2>3, <2>4
<1>15. ASSUME NEW b \in Callback, resume(b) PROVE Inv'
  <2>1. TypeOK'
    <3>1. on' \in Callback \cup {None} /\ pc' \in Places /\ resume_location' \in BOOLEAN
      BY <1>15 DEF resume, TypeOK, Places
    <3>2. callback' \in [Callback -> {"idle", "pending", "started", "inline"}]
      BY <1>15 DEF resume, TypeOK
    <3>3. \A d \in Callback : callback[d] = "inline" => callback'[d] = "inline"
      BY <1>15 DEF resume, TypeOK
    <3>4. on' # None => callback'[on'] = "inline"
      BY <1>15, <3>3 DEF resume, TypeOK
    <3>5. arming' = arming
      BY <1>15 DEF resume
    <3>6. \A a \in arming : a.on \in Callback \cup {None}
      BY DEF TypeOK
    <3>7. \A a \in arming' : a.on # None => callback'[a.on] = "inline"
      BY <3>3, <3>5, <3>6 DEF TypeOK
    <3>8. expired' \subseteq Wait
      BY <1>15 DEF resume, TypeOK, ResumedOnce, FlagInv, InWait
    <3> QED
      BY <1>15, <3>1, <3>2, <3>4, <3>5, <3>7, <3>8 DEF resume, TypeOK
  <2>2. ResumedOnce'
    BY <1>15 DEF resume, TypeOK, ResumedOnce
  <2>3. CancelledWaitThrows' /\ FlagInv'
    BY <1>15 DEF resume, TypeOK, ResumedOnce, CancelledWaitThrows, FlagInv, Wait, InWait
  <2>4. EarlyEndIsInherited' /\ EarlyInv'
    BY <1>15 DEF resume, TypeOK, ResumedOnce, EarlyEndIsInherited, EarlyInv, FlagInv, Wait, InWait
  <2> QED
    BY <2>1, <2>2, <2>3, <2>4
<1>16. ASSUME NEW b \in Callback, return(b) PROVE Inv'
  <2>1. TypeOK'
    BY <1>16 DEF return, TypeOK, Wait, Places, InWait, Stages, FlagInv
  <2>2. ResumedOnce'
    BY <1>16 DEF return, TypeOK, ResumedOnce
  <2>3. CancelledWaitThrows' /\ FlagInv'
    BY <1>16 DEF return, TypeOK, ResumedOnce, CancelledWaitThrows, FlagInv, Wait, InWait
  <2>4. EarlyEndIsInherited' /\ EarlyInv'
    BY <1>16 DEF return, TypeOK, ResumedOnce, EarlyEndIsInherited, EarlyInv, FlagInv, Wait, InWait
  <2> QED
    BY <2>1, <2>2, <2>3, <2>4
<1>17. ASSUME NEW t \in Canceller, cancel(t) PROVE Inv'
  <2>1. TypeOK'
    <3>1. Doomed \subseteq 1 .. MaxWaits + 1
      BY DEF Doomed, TypeOK, FlagInv, Wait
    <3>2. doomed' \subseteq 1 .. MaxWaits + 1
      BY <1>17, <3>1 DEF cancel, TypeOK
    <3> QED
      BY <1>17, <3>2 DEF cancel, TypeOK, Stages
  <2>2. ResumedOnce'
    BY <1>17 DEF cancel, Doomed, TypeOK, ResumedOnce
  <2>3. CancelledWaitThrows' /\ FlagInv'
    BY <1>17 DEF cancel, Doomed, TypeOK, ResumedOnce, CancelledWaitThrows, FlagInv, Wait, InWait
  <2>4. EarlyEndIsInherited' /\ EarlyInv'
    BY <1>17 DEF cancel, Doomed, TypeOK, ResumedOnce, EarlyEndIsInherited, EarlyInv, FlagInv, Wait, InWait
  <2> QED
    BY <2>1, <2>2, <2>3, <2>4
<1>18. ASSUME NEW t \in Canceller, cancel_pending(t) PROVE Inv'
  <2>1. TypeOK'
    BY <1>18 DEF cancel_pending, TypeOK, Wait, Places, InWait, Stages, FlagInv
  <2>2. ResumedOnce'
    BY <1>18 DEF cancel_pending, TypeOK, ResumedOnce
  <2>3. CancelledWaitThrows' /\ FlagInv'
    BY <1>18 DEF cancel_pending, TypeOK, ResumedOnce, CancelledWaitThrows, FlagInv, Wait, InWait
  <2>4. EarlyEndIsInherited' /\ EarlyInv'
    BY <1>18 DEF cancel_pending, TypeOK, ResumedOnce, EarlyEndIsInherited, EarlyInv, FlagInv, Wait, InWait
  <2> QED
    BY <2>1, <2>2, <2>3, <2>4
<1>19. ASSUME NEW t \in Canceller, drain(t) PROVE Inv'
  <2>1. TypeOK'
    BY <1>19 DEF drain, TypeOK, Wait, Places, InWait, Stages, FlagInv
  <2>2. ResumedOnce'
    BY <1>19 DEF drain, TypeOK, ResumedOnce
  <2>3. CancelledWaitThrows' /\ FlagInv'
    BY <1>19 DEF drain, TypeOK, ResumedOnce, CancelledWaitThrows, FlagInv, Wait, InWait
  <2>4. EarlyEndIsInherited' /\ EarlyInv'
    BY <1>19 DEF drain, TypeOK, ResumedOnce, EarlyEndIsInherited, EarlyInv, FlagInv, Wait, InWait
  <2> QED
    BY <2>1, <2>2, <2>3, <2>4
<1>20. ASSUME NEW t \in Canceller, resume_background(t) PROVE Inv'
  <2>1. TypeOK'
    BY <1>20 DEF resume_background, TypeOK, Wait, Places, InWait, Stages, FlagInv
  <2>2. ResumedOnce'
    BY <1>20 DEF resume_background, TypeOK, ResumedOnce
  <2>3. CancelledWaitThrows' /\ FlagInv'
    BY <1>20 DEF resume_background, TypeOK, ResumedOnce, CancelledWaitThrows, FlagInv, Wait, InWait
  <2>4. EarlyEndIsInherited' /\ EarlyInv'
    BY <1>20 DEF resume_background, TypeOK, ResumedOnce, EarlyEndIsInherited, EarlyInv, FlagInv, Wait, InWait
  <2> QED
    BY <2>1, <2>2, <2>3, <2>4
<1>21. CASE UNCHANGED vars
  BY <1>21 DEF vars, TypeOK, ResumedOnce, CancelledWaitThrows,
    EarlyEndIsInherited, FlagInv, EarlyInv
<1> QED
  BY <1>1, <1>2, <1>3, <1>4, <1>5, <1>6, <1>7, <1>8, <1>9, <1>10, <1>11, <1>12, <1>13, <1>14, <1>15, <1>16, <1>17, <1>18, <1>19, <1>20, <1>21
  DEF Next, Coroutine, Body

(* The variables of async_timer, of the thread pool's timer and of the     *)
(* coroutine keep to the invariant.                                        *)
THEOREM InvCorrect == Spec => []Inv
  BY InitInv, NextInv, PTL DEF Spec

(* The coroutine is resumed once for each time it suspends, by one of the  *)
(* callbacks and cancellers that race for its handle; and it does not      *)
(* sleep in a cancelled wait, unless a thread is on its way to wake it.    *)
THEOREM OneResumption == Spec => []ResumedOnce
<1>1. Inv => ResumedOnce
  BY DEF Inv
<1> QED
  BY <1>1, InvCorrect, PTL

(* A wait throws timer_cancelled exactly if the timer was cancelled        *)
(* between wait() and await_resume.                                        *)
THEOREM CancellationNoticed == Spec => []CancelledWaitThrows
<1>1. Inv => CancelledWaitThrows
  BY DEF Inv
<1> QED
  BY <1>1, InvCorrect, PTL

(* A wait ends before its time, and without an exception, only by what an  *)
(* earlier wait has left behind.                                           *)
THEOREM EarlyEndExplained == Spec => []EarlyEndIsInherited
<1>1. Inv => EarlyEndIsInherited
  BY DEF Inv
<1> QED
  BY <1>1, InvCorrect, PTL
================================================================================
