------------------------- MODULE AutoCancelTimerProofs -------------------------
(***************************************************************************)
(* Proofs about AutoCancelTimer, for any number of timer callbacks and of  *)
(* waits: the composition implements its components, and the glue between  *)
(* them is an invariant.                                                   *)
(***************************************************************************)
EXTENDS AutoCancelTimer, TLAPS

(* The lemmas about the components, for this instance of them.             *)
CP == INSTANCE CancellationProofs WITH Source <- {s}, Token <- {t}
TP == INSTANCE AsyncTimerProofs WITH
        Canceller <- {f}, callback <- timer_callback, pc <- place

(* C and CP are the same instance of Cancellation ...                      *)
LEMMA SameCancellation ==
  /\ C!Init <=> CP!Init
  /\ [C!Next]_(C!vars) <=> [CP!Next]_(CP!vars)
  /\ C!Inv <=> CP!Inv
  /\ C!Inv' <=> CP!Inv'
BY
  DEF C!sourceVars, C!tokenVars, C!subVars, C!vars, C!Init, C!Unlocked,
      C!Expired, C!Goto, C!create_connected_source, C!Drop, C!Enter,
      C!cancel, C!token_cancel, C!cancel_token, C!cancel_related,
      C!cancel_return, C!token, C!add_token, C!InBody, C!Unwinds,
      C!await_transform, C!destroy_token, C!subscription, C!add,
      C!wait_cancelled, C!wait_cancelled_suspend, C!emplaced, C!overtake, C!run, C!run_f,
      C!run_complete, C!remove, C!destroy_subscription, C!Next, C!TypeOK,
      C!Alive, C!TokensAlive, C!TokenInv, C!CallbackInv, C!Told,
      C!TokenLoop, C!Visited, C!RelatedLoop, C!Inv, CP!sourceVars,
      CP!tokenVars, CP!subVars, CP!vars, CP!Init, CP!Unlocked, CP!Expired,
      CP!Goto, CP!create_connected_source, CP!Drop, CP!Enter, CP!cancel,
      CP!token_cancel, CP!cancel_token, CP!cancel_related, CP!cancel_return,
      CP!token, CP!add_token, CP!InBody, CP!Unwinds, CP!await_transform,
      CP!destroy_token, CP!subscription, CP!add, CP!wait_cancelled,
      CP!wait_cancelled_suspend, CP!emplaced, CP!overtake, CP!run, CP!run_f, CP!run_complete,
      CP!remove, CP!destroy_subscription, CP!Next, CP!TypeOK, CP!Alive,
      CP!TokensAlive, CP!TokenInv, CP!CallbackInv, CP!Told, CP!TokenLoop,
      CP!Visited, CP!RelatedLoop, CP!Inv

(* ... and T and TP of AsyncTimer.                                         *)
LEMMA SameTimer ==
  /\ T!Init <=> TP!Init
  /\ [T!Next]_(T!vars) <=> [TP!Next]_(TP!vars)
  /\ T!Inv <=> TP!Inv
  /\ T!Inv' <=> TP!Inv'
BY
  DEF T!timerVars, T!setVars, T!poolVars, T!history, T!vars, T!Async, T!Tp,
      T!Wait, T!Places, T!InWait, T!Stages, T!Init, T!UnderWay, T!wait,
      T!abandon, T!await_transform, T!await_ready, T!suspend_cancelled,
      T!suspend, T!SetThreadpoolTimer, T!background, T!await_resume,
      T!Finish, T!start, T!stop, T!expire, T!run, T!resume, T!return,
      T!Doomed, T!cancel, T!cancel_pending, T!drain, T!resume_background,
      T!Body, T!Coroutine, T!Next, T!TypeOK, T!ResumedOnce,
      T!CancelledWaitThrows, T!EarlyEndIsInherited,
      T!FlagInv, T!EarlyInv, T!Inv, TP!timerVars, TP!setVars, TP!poolVars,
      TP!history, TP!vars, TP!Async, TP!Tp, TP!Wait, TP!Places, TP!InWait,
      TP!Stages, TP!Init, TP!UnderWay, TP!wait, TP!abandon,
      TP!await_transform, TP!await_ready, TP!suspend_cancelled, TP!suspend,
      TP!SetThreadpoolTimer, TP!background, TP!await_resume, TP!Finish,
      TP!start, TP!stop, TP!expire, TP!run, TP!resume, TP!return, TP!Doomed,
      TP!cancel, TP!cancel_pending, TP!drain, TP!resume_background, TP!Body,
      TP!Coroutine, TP!Next, TP!TypeOK, TP!ResumedOnce,
      TP!CancelledWaitThrows, TP!EarlyEndIsInherited,
      TP!FlagInv, TP!EarlyInv, TP!Inv

(* The invariant of the component holds of the instance.                   *)
LEMMA CancellationInv ==
  /\ C!Init => C!Inv
  /\ C!Inv /\ [C!Next]_(C!vars) => C!Inv'
<1>1. CP!CancellationAssumption
  BY AutoCancelTimerAssumption DEF CP!CancellationAssumption, s, t
<1>2. CP!Inv /\ [CP!Next]_(CP!vars) => CP!Inv'
  BY <1>1, CP!NextInv DEF CP!CancellationAssumption
<1>3. CP!Init => CP!Inv
  BY <1>1, CP!InitInv DEF CP!CancellationAssumption
<1> QED
  BY <1>2, <1>3, SameCancellation

(* ... and so does that of the timer.                                      *)
LEMMA TimerInv ==
  /\ T!Init => T!Inv
  /\ T!Inv /\ [T!Next]_(T!vars) => T!Inv'
<1>1. TP!TimerAssumption
  BY AutoCancelTimerAssumption DEF TP!TimerAssumption
<1>2. TP!Inv /\ [TP!Next]_(TP!vars) => TP!Inv'
  BY <1>1, TP!NextInv DEF TP!TimerAssumption
<1>3. TP!Init => TP!Inv
  BY <1>1, TP!InitInv DEF TP!TimerAssumption
<1> QED
  BY <1>2, <1>3, SameTimer

(* Every step is a step of the sources, the token and the subscription, or *)
(* leaves them alone ...                                                   *)
LEMMA CancellationStep == [Next]_vars => [C!Next]_(C!vars)
<1> SUFFICES ASSUME [Next]_vars PROVE [C!Next]_(C!vars)
  OBVIOUS
<1>1. CASE Source
  BY <1>1 DEF Source, C!Next
<1>2. CASE run \/ callback_return
  BY <1>2 DEF run, callback_return, C!Next
<1>3. CASE Construct
  BY <1>3 DEF Construct, C!Next
<1>4. CASE await_transform
  <2>1. CASE T!abandon /\ C!await_transform(t)
    BY <2>1 DEF C!Next
  <2>2. CASE UNCHANGED cancelVars
    BY <2>2 DEF cancelVars, C!vars, C!sourceVars, C!tokenVars, C!subVars
  <2> QED
    BY <1>4, <2>1, <2>2 DEF await_transform
<1>5. CASE Leave \/ destroy_subscription \/ Finish
  BY <1>5 DEF Leave, destroy_subscription, Finish, C!Next
<1>6. CASE UNCHANGED cancelVars
  BY <1>6 DEF cancelVars, C!vars, C!sourceVars, C!tokenVars, C!subVars
<1> QED
  BY <1>1, <1>2, <1>3, <1>4, <1>5, <1>6
  DEF Next, timer, expire, Owner, callback_cancel, callback_wait, wait, Awaits, vars

(* ... and a step of the timer, or leaves that alone.                      *)
LEMMA TimerStep == [Next]_vars => [T!Next]_(T!vars)
<1> SUFFICES ASSUME [Next]_vars PROVE [T!Next]_(T!vars)
  OBVIOUS
<1>1. CASE timer \/ expire \/ Owner
  BY <1>1 DEF timer, expire, Owner, T!Next
<1>2. CASE callback_cancel \/ callback_wait \/ callback_return
  BY <1>2 DEF callback_cancel, callback_wait, callback_return, T!Next
<1>3. CASE wait \/ await_transform \/ Awaits \/ Finish
  BY <1>3 DEF wait, await_transform, Awaits, Finish, T!Next, T!Coroutine, T!Body
<1>4. CASE UNCHANGED timerVars
  BY <1>4 DEF timerVars, T!vars, T!timerVars, T!poolVars, T!setVars, T!history
<1> QED
  BY <1>1, <1>2, <1>3, <1>4
  DEF Next, Source, run, Construct, Leave, destroy_subscription, vars

(* The invariant holds before the coroutine begins.                        *)
LEMMA InitInv == Init => Inv
<1> SUFFICES ASSUME Init PROVE Inv
  OBVIOUS
<1>1. C!Inv /\ T!Inv
  BY CancellationInv, TimerInv DEF Init
<1>2. CancelInv /\ NoWaitAfterCancel
  BY DEF Init, C!Init, T!Init, T!InWait, CancelInv, NoWaitAfterCancel, t, f
<1> QED
  BY <1>1, <1>2 DEF Inv

(* What the glue takes from the invariants of the components.              *)
LEMMA Components ==
  ASSUME Inv
  PROVE  /\ pc \in [{t} -> {"start", "thrown", "checked", "associated", "subscribing",
                            "suspending", "emplacing", "overtaken", "suspended",
                            "unwinding", "terminated", "undefined", "gone"}]
         /\ coro \in [{t} -> BOOLEAN] /\ cancelled \in [{t} -> BOOLEAN]
         /\ promise \in [{t} -> BOOLEAN]
         /\ sub \in [{t} -> {"none", "added", "removed", "destroyed"}]
         /\ callback \in [{t} -> {"idle", "posted", "running", "ran", "done"}]
         /\ canceller \in [{f} -> T!Stages]
         /\ callback[t] # "idle" => cancelled[t]
         /\ cancelled[t] => pc[t] # "start"
         /\ \A u \in work[s] : u = t /\ ~cancelled[t] /\ pc[t] # "start"
         /\ sub[t] = "destroyed" => callback[t] \in {"idle", "done"}
         /\ resume_location <=> place = "suspended"
         /\ cancellation_requested \in BOOLEAN
<1>1. C!TypeOK /\ C!TokensAlive /\ C!TokenInv /\ C!CallbackInv
  BY DEF Inv, C!Inv
<1>2. T!TypeOK /\ T!ResumedOnce
  BY DEF Inv, T!Inv
<1>3. /\ callback[t] # "idle" => cancelled[t]
      /\ sub[t] = "destroyed" => callback[t] \in {"idle", "done"}
  BY <1>1 DEF C!CallbackInv
<1>4. /\ cancelled[t] => pc[t] # "start"
      /\ \A u \in work[s] : u = t /\ ~cancelled[t] /\ pc[t] # "start"
  BY <1>1 DEF C!TypeOK, C!TokensAlive, C!Alive, C!TokenInv
<1> QED
  BY <1>1, <1>2, <1>3, <1>4 DEF C!TypeOK, T!TypeOK, T!ResumedOnce

(* Every step preserves the glue ...                                       *)
LEMMA GlueInv == Inv /\ [Next]_vars => CancelInv' /\ NoWaitAfterCancel'
<1> SUFFICES ASSUME Inv, [Next]_vars PROVE CancelInv' /\ NoWaitAfterCancel'
  OBVIOUS
<1> USE Components DEF CancelInv, NoWaitAfterCancel, C!sourceVars, C!tokenVars,
                       C!subVars,
                       T!timerVars, T!setVars, T!poolVars, T!history, T!InWait
<1>a. CancelInv /\ NoWaitAfterCancel
  BY DEF Inv
<1>1. CASE Source
  <2>1. CASE C!cancel_token(s)
    <3>1. PICK u \in work[s] : C!token_cancel(u)
      BY <2>1 DEF C!cancel_token
    <3>2. u = t /\ ~cancelled[t] /\ callback[t] = "idle" /\ coro[t] /\ pc[t] # "start"
      BY <1>a, <3>1
    <3> QED
      BY <1>a, <1>1, <2>1, <3>1, <3>2 DEF Source, timerVars, C!cancel_token,
                                          C!token_cancel
  <2>2. CASE C!Drop(s) \/ C!cancel(s) \/ C!cancel_return(s)
    BY <1>a, <1>1, <2>2 DEF Source, timerVars, C!Drop, C!cancel, C!cancel_return
  <2> QED
    BY <1>1, <2>1, <2>2 DEF Source
<1>2. CASE timer
  BY <1>a, <1>2
  DEF timer, cancelVars, T!run, T!resume, T!return, T!SetThreadpoolTimer
<1>3. CASE expire \/ Owner
  BY <1>a, <1>3 DEF expire, Owner, cancelVars, T!expire, T!start, T!stop
<1>4. CASE run
  BY <1>a, <1>4 DEF run, timerVars, C!run, C!run_complete
<1>5. CASE callback_cancel
  BY <1>a, <1>5 DEF callback_cancel, cancelVars, T!cancel, T!Stages
<1>6. CASE callback_wait
  BY <1>a, <1>6 DEF callback_wait, cancelVars, T!cancel_pending, T!drain, T!Stages
<1>7. CASE callback_return
  BY <1>a, <1>7 DEF callback_return, T!resume_background, C!run_f, T!Stages
<1>8. CASE Construct
  BY <1>a, <1>8
  DEF Construct, timerVars, C!token, C!add_token, C!subscription, C!add, C!Goto, C!InBody
<1>9. CASE wait
  BY <1>a, <1>9 DEF wait, cancelVars, T!wait
<1>10. CASE await_transform
  <2>1. CASE T!abandon /\ C!await_transform(t)
    BY <1>a, <2>1 DEF T!abandon, C!await_transform, C!Goto, C!InBody
  <2>2. CASE ~promise[t] /\ T!await_transform /\ UNCHANGED cancelVars
    BY <1>a, <2>2 DEF T!await_transform, cancelVars
  <2> QED
    BY <1>10, <2>1, <2>2 DEF await_transform
<1>11. CASE Awaits
  BY <1>a, <1>11
  DEF Awaits, cancelVars, T!await_ready, T!suspend_cancelled, T!suspend, T!background,
      T!await_resume
<1>12. CASE Leave \/ destroy_subscription
  BY <1>a, <1>12
  DEF Leave, destroy_subscription, timerVars, C!remove, C!destroy_subscription
<1>13. CASE Finish
  BY <1>a, <1>13 DEF Finish, T!Finish, C!destroy_token, C!Goto, C!Unwinds
<1>14. CASE UNCHANGED vars
  BY <1>a, <1>14 DEF vars, cancelVars, timerVars
<1> QED
  BY <1>1, <1>2, <1>3, <1>4, <1>5, <1>6, <1>7, <1>8, <1>9, <1>10, <1>11, <1>12, <1>13,
     <1>14
  DEF Next

(* ... and, with the components' steps, the invariant.                     *)
LEMMA NextInv == Inv /\ [Next]_vars => Inv'
<1> SUFFICES ASSUME Inv, [Next]_vars PROVE Inv'
  OBVIOUS
<1>1. C!Inv'
  BY CancellationStep, CancellationInv DEF Inv
<1>2. T!Inv'
  BY TimerStep, TimerInv DEF Inv
<1> QED
  BY <1>1, <1>2, GlueInv DEF Inv

(* In every state of the coroutine, its timer and its token the            *)
(* components' invariants hold, and the glue that auto_cancel_timer's      *)
(* subscription is between them (auto_cancel_timer.h).                     *)
THEOREM InvCorrect == Spec => []Inv
  BY InitInv, NextInv, PTL DEF Spec

(* No wait() suspends for its whole duration behind a callback of the      *)
(* subscription that has run: await_transform finds the promise cancelled, *)
(* or suspend() the timer's flag.                                          *)
THEOREM CancelledBeforeSuspension == Spec => []NoWaitAfterCancel
<1>1. Inv => NoWaitAfterCancel
  BY DEF Inv
<1> QED
  BY <1>1, InvCorrect, PTL

(* A coroutine that is cancelled and waits is never forgotten: the         *)
(* callback that cancels its timer is yet to come or is at work.           *)
THEOREM CancelledIsTold == Spec => []SuspendedIsTold
<1>1. Inv => SuspendedIsTold
  BY Components DEF Inv, CancelInv, NoWaitAfterCancel, SuspendedIsTold
<1> QED
  BY <1>1, InvCorrect, PTL

(* The timer is a member that outlives its subscription, whose destructor  *)
(* waits for the callback: nothing is left of cancel() when it is          *)
(* destroyed.                                                              *)
THEOREM TimerOutlives == Spec => []TimerOutlivesCallback
<1>1. Inv => TimerOutlivesCallback
  BY Components DEF Inv, CancelInv, TimerOutlivesCallback
<1> QED
  BY <1>1, InvCorrect, PTL

(* Whoever looks only at the token, the source and the subscription sees a *)
(* behaviour of Cancellation, and whoever looks only at the timer one of   *)
(* AsyncTimer with a single canceller.                                     *)
THEOREM Refinement == Spec => C!Spec /\ T!Spec
<1>1. Init => C!Init /\ T!Init
  BY DEF Init
<1> QED
  BY <1>1, CancellationStep, TimerStep, PTL DEF Spec, C!Spec, T!Spec
(* So what the components promise is kept here: cancel() tells all, a      *)
(* callback is over when its subscription is, and a wait throws exactly    *)
(* when it was cancelled (cancel.h, async_timer.h).                        *)
THEOREM ComponentPromises ==
  Spec => /\ CP!CancelReaches /\ []CP!NoCallbackAfterDestructor
          /\ []TP!CancelledWaitThrows /\ []TP!EarlyEndIsInherited
<1>1. CP!CancellationAssumption /\ TP!TimerAssumption
  BY AutoCancelTimerAssumption DEF CP!CancellationAssumption, TP!TimerAssumption, s, t
<1>2. CP!Spec => CP!CancelReaches
  BY <1>1, CP!CancelTellsAll DEF CP!CancellationAssumption
<1>3. CP!Spec => []CP!NoCallbackAfterDestructor
  BY <1>1, CP!DestructorWaits DEF CP!CancellationAssumption
<1>4. TP!Spec => []TP!CancelledWaitThrows
  BY <1>1, TP!CancellationNoticed DEF TP!TimerAssumption
<1>5. TP!Spec => []TP!EarlyEndIsInherited
  BY <1>1, TP!EarlyEndExplained DEF TP!TimerAssumption
<1>6. Init => CP!Init /\ TP!Init
  BY SameCancellation, SameTimer DEF Init
<1>7. [Next]_vars => [CP!Next]_(CP!vars) /\ [TP!Next]_(TP!vars)
  BY CancellationStep, TimerStep, SameCancellation, SameTimer
<1>8. Spec => CP!Spec /\ TP!Spec
  BY <1>6, <1>7, PTL DEF Spec, CP!Spec, TP!Spec
<1> QED
  BY <1>2, <1>3, <1>4, <1>5, <1>8, PTL
================================================================================
