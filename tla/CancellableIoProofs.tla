-------------------------- MODULE CancellableIoProofs --------------------------
(***************************************************************************)
(* Proofs about CancellableIo and the awaitables of PoolAwaitable: the     *)
(* composition implements Cancellation, and its invariant.                 *)
(***************************************************************************)
EXTENDS CancellableIo, TLAPS

(* The lemmas about cancellation, for this instance.                       *)
CP == INSTANCE CancellationProofs WITH Source <- {s}, Token <- {t}, pc <- place

(* C and CP are the same instance of Cancellation.                         *)
LEMMA SameCancellation ==
  /\ C!Init <=> CP!Init
  /\ [C!Next]_(C!vars) <=> [CP!Next]_(CP!vars)
  /\ C!Inv <=> CP!Inv
  /\ C!Inv' <=> CP!Inv'
BY
  DEF C!sourceVars, C!tokenVars, C!subVars, C!vars, C!Init, C!Unlocked,
      C!Expired, C!Goto, C!create_connected_source, C!Drop, C!Enter,
      C!cancel, C!token_cancel, C!cancel_token, C!cancel_related,
      C!cancel_return, C!token, C!add_token, C!InBody, C!Unwinds,
      C!await_transform, C!destroy_token, C!subscription, C!add,
      C!wait_cancelled, C!wait_cancelled_suspend, C!emplaced, C!overtake, C!run, C!run_f,
      C!run_complete, C!remove, C!destroy_subscription, C!Next, C!TypeOK,
      C!Alive, C!TokensAlive, C!TokenInv, C!CallbackInv, C!Told,
      C!TokenLoop, C!Visited, C!RelatedLoop, C!Inv, CP!sourceVars,
      CP!tokenVars, CP!subVars, CP!vars, CP!Init, CP!Unlocked, CP!Expired,
      CP!Goto, CP!create_connected_source, CP!Drop, CP!Enter, CP!cancel,
      CP!token_cancel, CP!cancel_token, CP!cancel_related, CP!cancel_return,
      CP!token, CP!add_token, CP!InBody, CP!Unwinds, CP!await_transform,
      CP!destroy_token, CP!subscription, CP!add, CP!wait_cancelled,
      CP!wait_cancelled_suspend, CP!emplaced, CP!overtake, CP!run, CP!run_f, CP!run_complete,
      CP!remove, CP!destroy_subscription, CP!Next, CP!TypeOK, CP!Alive,
      CP!TokensAlive, CP!TokenInv, CP!CallbackInv, CP!Told, CP!TokenLoop,
      CP!Visited, CP!RelatedLoop, CP!Inv

(* The invariant of the component holds of the instance.                   *)
LEMMA CancellationInv ==
  /\ C!Init => C!Inv
  /\ C!Inv /\ [C!Next]_(C!vars) => C!Inv'
<1>1. CP!CancellationAssumption
  BY CancellableIoAssumption DEF CP!CancellationAssumption, s, t
<1>2. CP!Inv /\ [CP!Next]_(CP!vars) => CP!Inv'
  BY <1>1, CP!NextInv DEF CP!CancellationAssumption
<1>3. CP!Init => CP!Inv
  BY <1>1, CP!InitInv DEF CP!CancellationAssumption
<1> QED
  BY <1>2, <1>3, SameCancellation

(* A step of an awaitable, and of those who come to it, that has nothing   *)
(* to do with a subscription ...                                           *)
OwnStep ==
  \/ A!await_ready \/ A!fail \/ A!suspend \/ A!attach \/ A!SetThreadpoolWait
  \/ A!issue \/ A!issue_completed \/ A!set_timer
  \/ A!fire \/ A!start \/ A!resume \/ A!reset_timer \/ A!reset_timer_resume \/ A!return
  \/ A!background \/ A!await_resume
  \/ A!expire \/ A!start_timeout \/ A!on_timeout
  \/ A!cancel \/ A!cancel_drain \/ A!cancel_close \/ A!cancel_result \/ A!cancel_resume

(* ... and any step.                                                       *)
AwaitableStep ==
  \/ OwnStep \/ A!initialise \/ A!await_transform \/ A!destroy
  \/ A!oncancel_test \/ A!oncancel_CancelIoEx

(* The callback resumes a coroutine that is suspended and whose handle is  *)
(* there; if cancel() has taken the handle, it leaves all as it is.        *)
LEMMA ResumeSuspension ==
  ASSUME TypeOK, SuspensionInv, Running, A!resume
  PROVE  SuspensionInv'
<1> USE DEF Running, A!Signal, A!Timeout, A!suspender, A!cancelVars, A!timeVars
<1>1. CASE A!Signal => m_resume
  <2>1. pc = "suspended" /\ (A!Signal => m_resume /\ wait # "none")
    BY <1>1 DEF A!resume, SuspensionInv
  <2>2. io_callback' = "inline" /\ pc' = "resumed" /\ resumptions' = resumptions + 1
    BY <1>1 DEF A!resume
  <2>3. (A!Signal => m_resume' = FALSE) /\ UNCHANGED <<kind, alive, wait, canceller, outcome>>
    BY <1>1 DEF A!resume
  <2>4. resumptions = 0 /\ outcome = "none" /\ alive = TRUE
    BY <2>1 DEF SuspensionInv, TypeOK
  <2> QED
    BY <2>1, <2>2, <2>3, <2>4 DEF SuspensionInv
<1>2. CASE A!Signal /\ ~m_resume
  <2>1. wait # "none" /\ io_callback # "none" /\ io_callback' = "over"
    BY <1>2 DEF A!resume, SuspensionInv
  <2>2. UNCHANGED <<kind, pc, setting, alive, m_result, ended, wait, canceller, outcome,
                    resumptions, taker>>
    BY <1>2 DEF A!resume
  <2>3. m_resume' = m_resume
    BY <1>2 DEF A!resume, TypeOK
  <2> QED
    BY <1>2, <2>1, <2>2, <2>3 DEF SuspensionInv
<1> QED
  BY <1>1, <1>2

(* cancel() leaves types as they are.                                      *)
LEMMA CancelResumeType ==
  ASSUME TypeOK, A!cancel_resume
  PROVE  TypeOK'
<1>1. /\ resumptions' \in Nat /\ canceller' = "idle" /\ m_resume' = FALSE
      /\ pc' \in {pc, "posted"} /\ taker' \in {taker, "cancel"}
  BY DEF TypeOK, A!cancel_resume, A!Resume
<1>2. UNCHANGED <<kind, timed, setting, alive, m_result, io_callback, ended, wait,
                  completion, oncancel, timer, io_cancelled, late, outcome>>
  BY DEF A!cancel_resume, A!poolVars, A!cancelVars, A!timeVars
<1>3. pc' \in {"start", "constructed", "awaiting", "suspended", "posted", "resumed",
              "leaving", "done", "terminated"}
  BY <1>1 DEF TypeOK
<1>4. taker' \in {"nobody", "await_ready", "callback", "cancel"}
  BY <1>1 DEF TypeOK
<1>5. kind' \in A!Kinds' /\ timed' \in BOOLEAN /\ (timed => A!Signal \/ A!Timeout)'
  BY <1>2 DEF TypeOK, A!Kinds, A!Signal, A!Timeout
<1>6. /\ alive' \in BOOLEAN /\ m_resume' \in BOOLEAN /\ completion' \in BOOLEAN
      /\ io_cancelled' \in BOOLEAN /\ late' \in BOOLEAN
  BY <1>1, <1>2 DEF TypeOK
<1> QED
  BY <1>1, <1>2, <1>3, <1>4, <1>5, <1>6 DEF TypeOK

(* Whatever step is taken, the awaitable's part of the invariant remains.  *)
LEMMA AwaitableInv ==
  ASSUME IoInv, Running, AwaitableStep
  PROVE  IoInv'
<1> USE DEF IoInv, TypeOK, SuspensionInv, ApartInv, InTime, ResultInv, CallsInv, OutcomeTold,
            Running,
            A!Kinds, A!Signal, A!Timeout, A!Cancellable, A!Io, A!suspender, A!poolVars,
            A!signalVars, A!cancelVars, A!timeVars
<1>1. CASE A!await_transform
  BY <1>1 DEF A!await_transform
<1>2. CASE A!await_ready
  BY <1>2 DEF A!await_ready
<1>3. CASE A!fail
  BY <1>3 DEF A!fail
<1>4. CASE A!suspend
  BY <1>4 DEF A!suspend
<1>5. CASE A!attach
  BY <1>5 DEF A!attach
<1>6. CASE A!SetThreadpoolWait
  <2>1. TypeOK'
    BY <1>6 DEF A!SetThreadpoolWait
  <2>2. SuspensionInv'
    BY <1>6 DEF A!SetThreadpoolWait
  <2>3. ApartInv' /\ ResultInv'
    BY <1>6 DEF A!SetThreadpoolWait
  <2>4. CallsInv'
    BY <1>6 DEF A!SetThreadpoolWait
  <2>5. OutcomeTold'
    BY <1>6 DEF A!SetThreadpoolWait
  <2> QED
    BY <2>1, <2>2, <2>3, <2>4, <2>5
<1>7. CASE A!issue
  <2>1. TypeOK'
    BY <1>7 DEF A!issue
  <2>2. SuspensionInv'
    BY <1>7 DEF A!issue
  <2>3. ApartInv' /\ ResultInv'
    BY <1>7 DEF A!issue
  <2>4. CallsInv'
    BY <1>7 DEF A!issue
  <2>5. OutcomeTold'
    BY <1>7 DEF A!issue
  <2> QED
    BY <2>1, <2>2, <2>3, <2>4, <2>5
<1>8. CASE A!issue_completed
  BY <1>8 DEF A!issue_completed
<1>9. CASE A!set_timer
  BY <1>9 DEF A!set_timer
<1>10. CASE A!fire
  <2>1. TypeOK' /\ SuspensionInv'
    BY <1>10 DEF A!fire, A!Ends
  <2>2. ApartInv'
    BY <1>10 DEF A!fire
  <2>3. ResultInv'
    BY <1>10 DEF A!fire, A!Ends
  <2>4. CallsInv' /\ OutcomeTold'
    BY <1>10 DEF A!fire, A!Ends
  <2> QED
    BY <2>1, <2>2, <2>3, <2>4
<1>11. CASE A!start
  BY <1>11 DEF A!start
<1>12. CASE A!resume
  <2>1. TypeOK'
    BY <1>12 DEF A!resume
  <2>2. SuspensionInv'
    BY <1>12, ResumeSuspension DEF Running
  <2>3. ApartInv' /\ ResultInv'
    BY <1>12 DEF A!resume
  <2>4. CallsInv'
    BY <1>12 DEF A!resume
  <2>5. OutcomeTold'
    BY <1>12 DEF A!resume
  <2> QED
    BY <2>1, <2>2, <2>3, <2>4, <2>5
<1>13. CASE A!reset_timer
  BY <1>13 DEF A!reset_timer
<1>14. CASE A!reset_timer_resume
  BY <1>14 DEF A!reset_timer_resume, A!Resume
<1>15. CASE A!return
  BY <1>15 DEF A!return
<1>16. CASE A!background
  BY <1>16 DEF A!background
<1>17. CASE A!await_resume
  BY <1>17 DEF A!await_resume, A!Told
<1>18. CASE A!destroy
  <2>1. TypeOK'
    BY <1>18 DEF A!destroy
  <2>2. SuspensionInv'
    BY <1>18 DEF A!destroy
  <2>3. ApartInv' /\ ResultInv'
    BY <1>18 DEF A!destroy
  <2>4. CallsInv'
    BY <1>18 DEF A!destroy
  <2>5. OutcomeTold'
    BY <1>18 DEF A!destroy
  <2> QED
    BY <2>1, <2>2, <2>3, <2>4, <2>5
<1>19. CASE A!expire
  BY <1>19 DEF A!expire
<1>20. CASE A!start_timeout
  BY <1>20 DEF A!start_timeout
<1>21. CASE A!on_timeout
  BY <1>21 DEF A!on_timeout, A!CancelIoEx
<1>22. CASE A!cancel
  BY <1>22 DEF A!cancel
<1>23. CASE A!cancel_close
  BY <1>23 DEF A!cancel_close
<1>24. CASE A!cancel_resume
  <2>1. TypeOK'
    BY <1>24, CancelResumeType
  <2>2. SuspensionInv'
    BY <1>24 DEF A!cancel_resume, A!Resume
  <2>3. ApartInv' /\ ResultInv'
    BY <1>24 DEF A!cancel_resume, A!Resume
  <2>4. CallsInv'
    BY <1>24 DEF A!cancel_resume, A!Resume
  <2>5. OutcomeTold'
    BY <1>24 DEF A!cancel_resume, A!Resume
  <2> QED
    BY <2>1, <2>2, <2>3, <2>4, <2>5
<1>25. CASE A!oncancel_test
  BY <1>25 DEF A!oncancel_test
<1>26. CASE A!oncancel_CancelIoEx
  BY <1>26 DEF A!oncancel_CancelIoEx, A!CancelIoEx
<1>27. CASE A!initialise
  BY <1>27 DEF A!initialise
<1>28. CASE A!cancel_drain
  <2>1. TypeOK' /\ SuspensionInv'
    BY <1>28 DEF A!cancel_drain
  <2>2. ApartInv' /\ ResultInv'
    BY <1>28 DEF A!cancel_drain
  <2>3. CallsInv' /\ OutcomeTold'
    BY <1>28 DEF A!cancel_drain
  <2> QED
    BY <2>1, <2>2, <2>3
<1>29. CASE A!cancel_result
  BY <1>29 DEF A!cancel_result
<1> QED
  BY <1>1, <1>2, <1>3, <1>4, <1>5, <1>6, <1>7, <1>8, <1>9, <1>10, <1>11, <1>12,
     <1>13, <1>14, <1>15, <1>16, <1>17, <1>18, <1>19, <1>20, <1>21, <1>22, <1>23,
     <1>24, <1>25, <1>26, <1>27, <1>28, <1>29
  DEF AwaitableStep, OwnStep

(* A step that leaves the awaitable alone, and the two that end a co_await *)
(* before it has begun.                                                    *)
LEMMA AwaitableUnchanged ==
  ASSUME IoInv, UNCHANGED ioVars
  PROVE  IoInv'
<1> USE DEF IoInv, ioVars, A!Kinds, A!Signal, A!Timeout, A!Cancellable, A!Io
<1>1. TypeOK'
  BY DEF TypeOK
<1>2. SuspensionInv'
  BY DEF SuspensionInv
<1>3. ApartInv' /\ ResultInv'
  BY DEF ApartInv, InTime, ResultInv
<1>4. CallsInv' /\ OutcomeTold'
  BY DEF CallsInv, OutcomeTold
<1> QED
  BY <1>1, <1>2, <1>3, <1>4

LEMMA NotBegun ==
  ASSUME IoInv, Running, construct \/ abandon
  PROVE  IoInv'
<1> USE DEF IoInv, TypeOK, SuspensionInv, ApartInv, InTime, ResultInv, CallsInv, OutcomeTold,
            Running,
            A!Kinds, A!Signal, A!Timeout, A!Cancellable, A!Io
<1>1. CASE construct
  BY <1>1 DEF construct
<1>2. CASE abandon
  BY <1>2 DEF abandon
<1> QED
  BY <1>1, <1>2

(* Every step keeps the awaitable's part of the invariant ...              *)
LEMMA AwaitableStepInv == IoInv /\ [Next]_vars => IoInv'
<1> SUFFICES ASSUME IoInv, [Next]_vars PROVE IoInv'
  OBVIOUS
<1>1. CASE UNCHANGED ioVars
  BY <1>1, AwaitableUnchanged
<1>2. CASE Running /\ (construct \/ abandon)
  BY <1>2, NotBegun
<1>3. CASE Running /\ AwaitableStep
  BY <1>3, AwaitableInv
<1>4. CASE UNCHANGED vars
  BY <1>1, <1>4 DEF vars
<1> QED
  BY <1>1, <1>2, <1>3, <1>4
  DEF Next, Step, Source, Token, add, run, callback_test, callback_return,
      initialise, await_transform, Suspends, Sets, Leaves, unsubscribe, destroy, Finish, fire, Pool,
      Timer, cancel, Cancels, AwaitableStep, OwnStep

(* ... is a step of Cancellation, or leaves that alone ...                 *)
LEMMA CancellationStep == [Next]_vars => [C!Next]_(C!vars)
<1> SUFFICES ASSUME [Next]_vars PROVE [C!Next]_(C!vars)
  OBVIOUS
<1>1. CASE Source \/ Token \/ construct \/ add \/ run
  BY <1>1 DEF Source, Token, construct, add, run, C!Next
<1>2. CASE callback_return \/ abandon
  BY <1>2 DEF callback_return, abandon, C!Next
<1>3. CASE unsubscribe \/ Finish
  BY <1>3 DEF unsubscribe, Finish, C!Next
<1>4. CASE UNCHANGED cancelVars
  BY <1>4 DEF cancelVars, C!vars, C!sourceVars, C!tokenVars, C!subVars
<1>5. CASE destroy
  BY <1>4, <1>5 DEF destroy, C!Next
<1>6. CASE UNCHANGED vars
  BY <1>4, <1>6 DEF vars
<1> QED
  BY <1>1, <1>2, <1>3, <1>4, <1>5, <1>6
  DEF Next, Step, initialise, callback_test, await_transform, Suspends, Sets, Leaves, fire, Pool,
      Timer, cancel, Cancels

(* What the subscription takes from the invariant of Cancellation.         *)
LEMMA FromCancellation ==
  ASSUME C!Inv
  PROVE  /\ place \in [{t} -> {"start", "thrown", "checked", "associated", "subscribing",
                               "suspending", "suspended", "emplacing", "overtaken",
                               "undefined", "unwinding", "terminated", "gone"}]
         /\ sub \in [{t} -> {"none", "added", "removed", "destroyed"}]
         /\ callback \in [{t} -> {"idle", "posted", "running", "ran", "done"}]
         /\ coro \in [{t} -> BOOLEAN] /\ cancelled \in [{t} -> BOOLEAN]
         /\ promise \in [{t} -> BOOLEAN]
         /\ \A u \in work[s] : u = t /\ callback[t] = "idle" /\ place[t] # "start"
         /\ completed[t] <=> callback[t] \in {"idle", "done"}
         /\ sub[t] = "destroyed" => completed[t]
         /\ callback[t] # "idle" => sub[t] # "none"
         /\ sub[t] # "none" => place[t] \notin {"subscribing", "start"}
<1>1. C!TypeOK /\ C!TokensAlive /\ C!TokenInv /\ C!CallbackInv
  BY DEF C!Inv
<1>2. \A u \in work[s] : u = t /\ callback[t] = "idle" /\ place[t] # "start"
  BY <1>1 DEF C!TypeOK, C!TokensAlive, C!Alive, C!TokenInv, C!CallbackInv
<1> QED
  BY <1>1, <1>2 DEF C!TypeOK, C!TokenInv, C!CallbackInv

(* A step of the awaitable that leaves Cancellation alone keeps the        *)
(* subscription in step with it ...                                        *)
LEMMA SubscriptionKept ==
  ASSUME IoInv, SubscriptionInv,
         Running, UNCHANGED cancelVars,
         \/ OwnStep
         \/ A!initialise /\ sub[t] = "added"
         \/ A!await_transform /\ (A!Cancellable => ~promise[t])
         \/ A!destroy /\ ~A!Cancellable
         \/ A!oncancel_test /\ callback[t] = "running"
  PROVE  SubscriptionInv'
<1>1. UNCHANGED <<place[t], sub[t], callback[t], coro[t], cancelled[t], promise[t]>>
  BY DEF cancelVars
<1>2. /\ completion \in BOOLEAN /\ late \in BOOLEAN /\ alive \in BOOLEAN
      /\ io_cancelled \in BOOLEAN
      /\ io_callback = "resetting" => A!Timeout
  BY DEF IoInv, TypeOK, SuspensionInv
<1>3. /\ setting = "wait" => A!Signal
      /\ setting = "timer" => A!Timeout
      /\ ~A!Signal => (pc = "suspended" <=>
           io_callback \in {"awaited", "queued", "started", "resetting"})
      /\ ~A!Signal => pc # "posted" /\ canceller = "idle"
      /\ timer # "unset" => A!Timeout
  BY DEF IoInv, SuspensionInv, CallsInv
<1> USE <1>1, <1>2, <1>3
    DEF Running, SubscriptionInv, A!Signal, A!Timeout, A!Cancellable, A!Io, A!suspender,
        A!poolVars, A!signalVars, A!cancelVars, A!timeVars
<1>4. CASE A!await_ready
  BY <1>4 DEF A!await_ready
<1>5. CASE A!fail
  BY <1>5 DEF A!fail
<1>6. CASE A!suspend
  BY <1>6 DEF A!suspend
<1>7. CASE A!attach
  BY <1>7 DEF A!attach
<1>8. CASE A!SetThreadpoolWait
  BY <1>8 DEF A!SetThreadpoolWait
<1>9. CASE A!issue
  BY <1>9 DEF A!issue
<1>10. CASE A!issue_completed
  BY <1>10 DEF A!issue_completed
<1>11. CASE A!set_timer
  BY <1>11 DEF A!set_timer
<1>12. CASE A!fire
  BY <1>12 DEF A!fire
<1>13. CASE A!start
  BY <1>13 DEF A!start
<1>14. CASE A!resume
  BY <1>14 DEF A!resume
<1>15. CASE A!reset_timer
  BY <1>15 DEF A!reset_timer
<1>16. CASE A!reset_timer_resume
  BY <1>16 DEF A!reset_timer_resume, A!Resume
<1>17. CASE A!return
  BY <1>17 DEF A!return
<1>18. CASE A!background
  BY <1>18 DEF A!background
<1>19. CASE A!await_resume
  BY <1>19 DEF A!await_resume
<1>20. CASE A!expire
  BY <1>20 DEF A!expire
<1>21. CASE A!start_timeout
  BY <1>21 DEF A!start_timeout
<1>22. CASE A!on_timeout
  BY <1>22 DEF A!on_timeout, A!CancelIoEx
<1>23. CASE A!cancel
  BY <1>23 DEF A!cancel
<1>24. CASE A!cancel_close
  BY <1>24 DEF A!cancel_close
<1>25. CASE A!cancel_resume
  BY <1>25 DEF A!cancel_resume, A!Resume
<1>26. CASE A!await_transform /\ (A!Cancellable => ~promise[t])
  BY <1>26 DEF A!await_transform
<1>27. CASE A!destroy /\ ~A!Cancellable
  BY <1>27 DEF A!destroy
<1>28. CASE A!oncancel_test /\ callback[t] = "running"
  BY <1>28 DEF A!oncancel_test
<1>29. CASE A!cancel_drain
  BY <1>29 DEF A!cancel_drain
<1>30. CASE A!cancel_result
  BY <1>30 DEF A!cancel_result
<1>31. CASE A!initialise /\ sub[t] = "added"
  BY <1>31 DEF A!initialise
<1> QED
  BY <1>4, <1>5, <1>6, <1>7, <1>8, <1>9, <1>10, <1>11, <1>12, <1>13, <1>14, <1>15,
     <1>16, <1>17, <1>18, <1>19, <1>20, <1>21, <1>22, <1>23, <1>24, <1>25, <1>26, <1>27,
     <1>28, <1>29, <1>30, <1>31
  DEF OwnStep

(* ... and so does every other one.                                        *)
LEMMA SubscriptionStepInv == Inv /\ [Next]_vars => SubscriptionInv'
<1> SUFFICES ASSUME Inv, [Next]_vars PROVE SubscriptionInv'
  OBVIOUS
<1>a. C!Inv /\ IoInv /\ SubscriptionInv
  BY DEF Inv
<1>b. /\ place \in [{t} -> {"start", "thrown", "checked", "associated", "subscribing",
                            "suspending", "suspended", "emplacing", "overtaken",
                            "undefined", "unwinding", "terminated", "gone"}]
      /\ sub \in [{t} -> {"none", "added", "removed", "destroyed"}]
      /\ callback \in [{t} -> {"idle", "posted", "running", "ran", "done"}]
      /\ coro \in [{t} -> BOOLEAN] /\ cancelled \in [{t} -> BOOLEAN]
      /\ promise \in [{t} -> BOOLEAN]
  BY <1>a, FromCancellation
<1>c. /\ \A u \in work[s] : u = t /\ callback[t] = "idle" /\ place[t] # "start"
      /\ completed[t] <=> callback[t] \in {"idle", "done"}
      /\ sub[t] = "destroyed" => completed[t]
      /\ callback[t] # "idle" => sub[t] # "none"
      /\ sub[t] # "none" => place[t] \notin {"subscribing", "start"}
  BY <1>a, FromCancellation
<1> USE <1>a, <1>b, <1>c DEF SubscriptionInv, A!Cancellable, C!sourceVars, C!tokenVars,
        C!subVars, C!Goto
<1>1. CASE Source
  <2>1. CASE C!cancel_token(s)
    <3>1. PICK u \in work[s] : C!token_cancel(u)
      BY <2>1 DEF C!cancel_token
    <3>2. u = t /\ callback[t] = "idle" /\ coro[t]
      BY <3>1
    <3> QED
      BY <1>1, <2>1, <3>1, <3>2 DEF Source, ioVars, C!cancel_token, C!token_cancel
  <2>2. CASE C!Drop(s) \/ C!cancel(s) \/ C!cancel_return(s)
    BY <1>1, <2>2 DEF Source, ioVars, C!Drop, C!cancel, C!cancel_return
  <2> QED
    BY <1>1, <2>1, <2>2 DEF Source
<1>2. CASE Token
  BY <1>2 DEF Token, ioVars, C!token, C!add_token
<1>3. CASE construct
  BY <1>3 DEF construct, C!subscription, C!InBody
<1>4. CASE add \/ unsubscribe
  BY <1>4 DEF add, unsubscribe, ioVars, C!add, C!remove, C!Unwinds
<1>5. CASE run
  BY <1>5 DEF run, ioVars, C!run, C!run_complete
<1>6. CASE callback_return
  <2>1. CASE A!oncancel_CancelIoEx /\ C!run_f(t)
    BY <2>1 DEF C!run_f, A!oncancel_CancelIoEx, A!CancelIoEx, A!suspender, A!poolVars
  <2>2. CASE oncancel = "over" /\ C!run_f(t) /\ UNCHANGED ioVars
    BY <2>2 DEF C!run_f, ioVars
  <2> QED
    BY <1>6, <2>1, <2>2 DEF callback_return
<1>7. CASE abandon
  BY <1>7 DEF abandon, C!await_transform, C!InBody
<1>8. CASE Finish
  BY <1>8 DEF Finish, ioVars, C!destroy_token, C!Unwinds
<1>9. CASE destroy /\ A!Cancellable
  BY <1>9 DEF destroy, C!destroy_subscription, A!destroy, A!Signal, A!suspender,
              A!poolVars, A!cancelVars, A!timeVars
<1>10. CASE UNCHANGED <<cancelVars, ioVars>>
  BY <1>10 DEF cancelVars, ioVars
<1>11. CASE UNCHANGED vars
  BY <1>10, <1>11 DEF vars
<1>12. CASE Running /\ OwnStep /\ UNCHANGED cancelVars
  BY <1>12, SubscriptionKept
<1>13. CASE Running /\ destroy /\ ~A!Cancellable
  BY <1>13, SubscriptionKept DEF destroy
<1>14. CASE Running /\ (initialise \/ await_transform \/ callback_test)
  BY <1>14, SubscriptionKept DEF initialise, await_transform, callback_test
<1> QED
  BY <1>1, <1>2, <1>3, <1>4, <1>5, <1>6, <1>7, <1>8, <1>9, <1>10, <1>11, <1>12, <1>13,
     <1>14
  DEF Next, Step, Suspends, Sets, Leaves, fire, Pool, Timer, cancel, Cancels, OwnStep

(* The program starts in the invariant ...                                 *)
LEMMA InitInv == Init => Inv
<1> SUFFICES ASSUME Init PROVE Inv
  OBVIOUS
<1>1. C!Inv
  BY CancellationInv DEF Init
<1>2. IoInv
  <2> USE DEF Init, A!Init, A!Kinds, A!Signal, A!Timeout, A!Io
  <2>1. TypeOK
    BY DEF TypeOK
  <2>2. SuspensionInv
    BY DEF SuspensionInv
  <2>3. ApartInv /\ ResultInv /\ CallsInv /\ OutcomeTold
    BY DEF ApartInv, InTime, ResultInv, CallsInv, OutcomeTold
  <2> QED
    BY <2>1, <2>2, <2>3 DEF IoInv
<1>3. SubscriptionInv
  BY DEF Init, C!Init, A!Init, SubscriptionInv, t
<1> QED
  BY <1>1, <1>2, <1>3 DEF Inv

(* ... and stays in it: the part of Cancellation by the component's own    *)
(* lemma, the awaitable's by its own, and what they owe each other.        *)
LEMMA NextInv == Inv /\ [Next]_vars => Inv'
  BY CancellationStep, CancellationInv, AwaitableStepInv, SubscriptionStepInv DEF Inv

(* Wherever the coroutine, the thread pool, a timer, the source's cancel() *)
(* and resume_on_signal's cancel() stand, and whichever awaitable it is,   *)
(* the invariant holds (compatible_base.h, advanced_io.h).                 *)
THEOREM InvCorrect == Spec => []Inv
  BY InitInv, NextInv, PTL DEF Spec

(* The destructor of an awaitable, with that of its subscription and with  *)
(* reset_timer(), leaves nobody behind who would use it: no callback, no   *)
(* oncancel(), and no timer unless set_timer() came after the operation's  *)
(* end.                                                                    *)
THEOREM OutlivesUsers == Spec => []AwaitableOutlivesUsers
<1>1. Inv => AwaitableOutlivesUsers
  BY FromCancellation
  DEF Inv, IoInv, TypeOK, SuspensionInv, CallsInv, SubscriptionInv,
      AwaitableOutlivesUsers, A!Signal, A!Cancellable, A!Timeout
<1> QED
  BY <1>1, InvCorrect, PTL

(* m_resume() and cancel()'s resume_on_background are called once between  *)
(* them, however the callback of the wait and cancel() race.               *)
THEOREM OneResumption == Spec => []ResumedOnce
<1>1. Inv => ResumedOnce
  BY DEF Inv, IoInv, SuspensionInv, ResumedOnce
<1> QED
  BY <1>1, InvCorrect, PTL

(* await_resume tells a value for success and nothing else, tells of a     *)
(* timeout only if there was one and of cancel() only if it closed the     *)
(* wait; and of a cancellation if and only if it was cancel() that resumed *)
(* the coroutine, unless SetThreadpoolWait came when cancel() was under    *)
(* way, so that the callback and cancel() both write m_result.             *)
THEOREM ToldTruly == Spec => []OutcomeTold
<1>1. Inv => OutcomeTold
  BY DEF Inv, IoInv
<1> QED
  BY <1>1, InvCorrect, PTL

(* An operation that is pending in a cancelled coroutine is told: the      *)
(* subscription's callback is queued or running, or its CancelIoEx has met *)
(* the operation.  The exception is the operation that was issued after    *)
(* oncancel() had run, between await_transform and await_suspend.          *)
THEOREM PendingTold == Spec => []PendingIsTold
<1>1. Inv => PendingIsTold
  <2> SUFFICES ASSUME Inv, A!Cancellable, promise[t], io_callback = "awaited"
               PROVE  callback[t] \in {"posted", "running"} \/ io_cancelled \/ late
    BY DEF PendingIsTold
  <2>1. pc = "suspended"
    BY DEF Inv, IoInv, SuspensionInv, A!Signal, A!Cancellable
  <2>2. callback[t] # "idle" /\ (callback[t] \in {"ran", "done"} => io_cancelled \/ late)
    BY <2>1 DEF Inv, SubscriptionInv
  <2>3. callback[t] \in {"idle", "posted", "running", "ran", "done"}
    BY FromCancellation DEF Inv
  <2> QED
    BY <2>2, <2>3
<1> QED
  BY <1>1, InvCorrect, PTL

(* To its token, its source and its subscription the awaitable is a        *)
(* coroutine like any other: every behaviour is one of Cancellation        *)
(* (cancel.h), so that what is proved of that holds here.                  *)
THEOREM Refinement == Spec => C!Spec
<1>1. Init => C!Init
  BY DEF Init
<1> QED
  BY <1>1, CancellationStep, PTL DEF Spec, C!Spec
(* So what Cancellation promises is kept here.                             *)
THEOREM CancellationPromises ==
  Spec => CP!CancelReaches /\ []CP!NoCallbackAfterDestructor
<1>1. CP!CancellationAssumption
  BY CancellableIoAssumption DEF CP!CancellationAssumption, s, t
<1>2. CP!Spec => CP!CancelReaches
  BY <1>1, CP!CancelTellsAll DEF CP!CancellationAssumption
<1>3. CP!Spec => []CP!NoCallbackAfterDestructor
  BY <1>1, CP!DestructorWaits DEF CP!CancellationAssumption
<1>4. Init => CP!Init
  BY SameCancellation DEF Init
<1>5. [Next]_vars => [CP!Next]_(CP!vars)
  BY CancellationStep, SameCancellation
<1>6. Spec => CP!Spec
  BY <1>4, <1>5, PTL DEF Spec, CP!Spec
<1> QED
  BY <1>2, <1>3, <1>6, PTL
================================================================================
