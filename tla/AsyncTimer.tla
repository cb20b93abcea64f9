------------------------------ MODULE AsyncTimer ------------------------------
(***************************************************************************)
(* corsl::async_timer (async_timer.h) and corsl::tp_timer (tp_timer.h):    *)
(* one coroutine waits on the timer, again and again; other threads cancel *)
(* it.  A wait is ended by the thread pool's timer callback, which runs    *)
(* the coroutine on its own stack, or by cancel(), which disarms the       *)
(* timer, waits for the callbacks that run, and sends the coroutine to the *)
(* thread pool.  The two classes share these functions.  They differ in    *)
(* this: a wait of an async_timer has a duration, sets the timer and       *)
(* forgets what was cancelled before; a tp_timer is started and stopped by *)
(* its owner, may have a period, and keeps a cancellation for the next     *)
(* wait.                                                                   *)
(*                                                                         *)
(* The thread pool's timer is external: setting it replaces what it was    *)
(* set to, callbacks that are queued are not taken back by that, and       *)
(* WaitForThreadpoolTimerCallbacks drops the queued ones and waits for     *)
(* those that run.                                                         *)
(***************************************************************************)
EXTENDS Naturals, FiniteSets

CONSTANTS
  Canceller,    \* threads that call cancel()
  Callback,     \* callbacks of the timer that may be in flight (a bound)
  None,         \* no callback
  MaxWaits      \* bound: how often the coroutine waits

ASSUME TimerAssumption ==
  /\ None \notin Callback
  /\ MaxWaits \in Nat \ {0}

VARIABLES
  kind,                   \* the class of the timer
  pc,                     \* where the coroutine stands
  n,                      \* the wait it is in, or was in last
  on,                     \* the callback on whose stack it runs
  resume_location,        \* async_timer::resume_location is set
  cancellation_requested, \* async_timer::cancellation_requested
  armed,                  \* the wait whose duration the timer is set to (1 in
                          \* a tp_timer), or 0
  periodic,               \* the timer is set with a period
  arming,                 \* threads in suspend() that have released the lock
                          \* and not yet set the timer
  callback,               \* callback[b]: idle, pending (queued), started or
                          \* inline (runs the coroutine)
  canceller,              \* canceller[t]: where t stands in cancel()
  outcome,                \* outcome[i]: how wait i ended for the coroutine
  expired,                \* the waits whose time has passed; those of a
                          \* tp_timer that a tick has ended
  doomed,                 \* the waits during which the timer was cancelled; in a
                          \* tp_timer also the next one after a cancellation
  inherited,              \* the waits that began with something of an earlier
                          \* one still under way
  stopped                 \* the owner has told a tp_timer not to tick

timerVars == <<resume_location, cancellation_requested>>
setVars   == <<armed, periodic>>
poolVars  == <<setVars, callback>>
history   == <<outcome, expired, doomed, inherited, stopped>>
vars == <<kind, pc, n, on, timerVars, poolVars, arming, canceller, history>>

Async == kind = "async_timer"
Tp    == kind = "tp_timer"

Wait == 1 .. MaxWaits

(* body: outside of co_await.  called: wait() has returned its awaiter.    *)
(* awaiting: between await_transform and the end of await_suspend.         *)
(* posted: resume_on_background was called.  resumed: about to run         *)
(* await_resume.  terminated: the program has ended in std::terminate      *)
(* (what other threads do in the model after that is of no account).       *)
Places == {"body", "called", "awaiting", "suspended", "posted", "resumed",
           "done", "terminated"}

InWait == {"called", "awaiting", "suspended", "posted", "resumed"}

(* locked: after the critical section, with a coroutine to resume.         *)
(* draining: inside WaitForThreadpoolTimerCallbacks.  resuming: about to   *)
(* run resume(true).                                                       *)
Stages == {"idle", "locked", "draining", "resuming"}

Init ==
  /\ kind \in {"async_timer", "tp_timer"}
  /\ pc = "body"
  /\ n = 0
  /\ on = None
  /\ resume_location = FALSE
  /\ cancellation_requested = FALSE
  /\ armed = 0
  /\ periodic = FALSE
  /\ arming = {}
  /\ callback = [b \in Callback |-> "idle"]
  /\ canceller = [t \in Canceller |-> "idle"]
  /\ outcome = [i \in Wait |-> "none"]
  /\ expired = {}
  /\ doomed = {}
  /\ inherited = {}
  /\ stopped = Tp

--------------------------------------------------------------------------------
(***************************************************************************)
(* The coroutine.                                                          *)
(***************************************************************************)

(* Something of an earlier wait is still under way: a thread in cancel();  *)
(* of an async_timer also a thread that sets the timer late, the timer it  *)
(* has set, or a callback of that.                                         *)
UnderWay ==
  \/ \E t \in Canceller : canceller[t] # "idle"
  \/ Async /\ (armed # 0 \/ arming # {})
  \/ Async /\ \E b \in Callback : callback[b] \in {"pending", "started"}

(* Mutant: a cancellation from before the wait is kept for it.             *)
wait_sticky ==
  /\ pc = "body"
  /\ n < MaxWaits
  /\ n' = n + 1
  /\ pc' = "called"
  /\ inherited' = IF UnderWay THEN inherited \cup {n + 1} ELSE inherited
  /\ UNCHANGED <<kind, on, timerVars, poolVars, arming, canceller, outcome, expired,
                 doomed, stopped>>

wait ==
  /\ pc = "body"
  /\ n < MaxWaits
  /\ n' = n + 1
  /\ cancellation_requested' = (Tp /\ cancellation_requested)
  /\ pc' = "called"
  /\ inherited' = IF UnderWay THEN inherited \cup {n + 1} ELSE inherited
  /\ UNCHANGED <<kind, on, resume_location, poolVars, arming, canceller, outcome,
                 expired, doomed, stopped>>

(* co_await in a coroutine that has been cancelled meanwhile: the promise  *)
(* throws before it looks at the awaiter (a tp_timer that was cancelled    *)
(* remains so) ...                                                         *)
abandon ==
  /\ pc = "called"
  /\ pc' = "body"
  /\ doomed' = IF Tp /\ cancellation_requested THEN doomed \cup {n + 1} ELSE doomed
  /\ UNCHANGED <<kind, n, on, timerVars, poolVars, arming, canceller, outcome,
                 expired, inherited, stopped>>

(* ... and in one that has not.                                            *)
await_transform ==
  /\ pc = "called"
  /\ pc' = "awaiting"
  /\ UNCHANGED <<kind, n, on, timerVars, poolVars, arming, canceller, history>>

(* A duration that is not positive has passed already.                     *)
await_ready ==
  /\ pc = "awaiting" /\ Async
  /\ expired' = expired \cup {n}
  /\ pc' = "resumed"
  /\ UNCHANGED <<kind, n, on, timerVars, poolVars, arming, canceller, outcome, doomed,
                 inherited, stopped>>

(* suspend(): check_cancellation throws.  The await_suspend of async_timer *)
(* is noexcept; that of tp_timer lets the exception into the coroutine ... *)
suspend_cancelled ==
  /\ pc = "awaiting" /\ cancellation_requested
  /\ cancellation_requested' = FALSE
  /\ pc' = IF Async THEN "terminated" ELSE "body"
  /\ outcome' = IF Async THEN outcome ELSE [outcome EXCEPT ![n] = "cancelled"]
  /\ UNCHANGED <<kind, n, on, resume_location, poolVars, arming, canceller, expired,
                 doomed, inherited, stopped>>

(* Mutant: suspend() does not look at the flag again.                      *)
suspend_unchecked ==
  /\ pc = "awaiting"
  /\ resume_location' = TRUE
  /\ arming' = IF Async THEN arming \cup {[wait |-> n, on |-> on]} ELSE arming
  /\ pc' = "suspended"
  /\ on' = None
  /\ UNCHANGED <<kind, n, cancellation_requested, poolVars, canceller, history>>

(* ... or, up to the end of the critical section, the handle is stored.    *)
suspend ==
  /\ pc = "awaiting" /\ ~cancellation_requested
  /\ resume_location' = TRUE
  /\ arming' = IF Async THEN arming \cup {[wait |-> n, on |-> on]} ELSE arming
  /\ pc' = "suspended"
  /\ on' = None
  /\ UNCHANGED <<kind, n, cancellation_requested, poolVars, canceller, history>>

(* The rest of the suspend() of async_timer, with no lock: the coroutine   *)
(* may have gone on, on another thread.                                    *)
SetThreadpoolTimer(a) ==
  /\ a \in arming
  /\ armed' = a.wait
  /\ arming' = arming \ {a}
  /\ UNCHANGED <<kind, pc, n, on, timerVars, periodic, callback, canceller, history>>

(* The thread pool runs what resume_on_background gave it.                 *)
background ==
  /\ pc = "posted"
  /\ pc' = "resumed"
  /\ UNCHANGED <<kind, n, on, timerVars, poolVars, arming, canceller, history>>

(* check_exception, called from await_resume.                              *)
await_resume ==
  /\ pc = "resumed"
  /\ outcome' = [outcome EXCEPT ![n] = IF cancellation_requested THEN "cancelled"
                                       ELSE "elapsed"]
  /\ cancellation_requested' = FALSE
  /\ pc' = "body"
  /\ UNCHANGED <<kind, n, on, resume_location, poolVars, arming, canceller, expired,
                 doomed, inherited, stopped>>

Finish ==
  /\ pc = "body"
  /\ pc' = "done"
  /\ on' = None
  /\ UNCHANGED <<kind, n, timerVars, poolVars, arming, canceller, history>>

--------------------------------------------------------------------------------
(***************************************************************************)
(* The owner of a tp_timer, at any time and without the lock.              *)
(***************************************************************************)

(* start(), for a duration or a time of day, with a period or without.     *)
start(period) ==
  /\ Tp
  /\ armed' = 1
  /\ periodic' = period
  /\ stopped' = FALSE
  /\ UNCHANGED <<kind, pc, n, on, timerVars, callback, arming, canceller, outcome,
                 expired, doomed, inherited>>

(* stop(), and start_indefinite() if the thread pool takes its time of -1  *)
(* for never; if it takes it for a moment from now it is start(FALSE).     *)
stop ==
  /\ Tp
  /\ armed' = 0
  /\ stopped' = TRUE
  /\ UNCHANGED <<kind, pc, n, on, timerVars, periodic, callback, arming, canceller,
                 outcome, expired, doomed, inherited>>

--------------------------------------------------------------------------------
(***************************************************************************)
(* The timer's callbacks.                                                  *)
(***************************************************************************)

expire(b) ==
  /\ armed # 0
  /\ callback[b] = "idle"
  /\ callback' = [callback EXCEPT ![b] = "pending"]
  /\ expired' = IF Async THEN expired \cup {armed} ELSE expired
  /\ armed' = IF periodic THEN armed ELSE 0
  /\ UNCHANGED <<kind, pc, n, on, timerVars, periodic, arming, canceller, outcome,
                 doomed, inherited, stopped>>

run(b) ==
  /\ callback[b] = "pending"
  /\ callback' = [callback EXCEPT ![b] = "started"]
  /\ UNCHANGED <<kind, pc, n, on, timerVars, setVars, arming, canceller, history>>

(* resume(false)                                                           *)
resume(b) ==
  /\ callback[b] = "started"
  /\ \/ /\ resume_location
        /\ resume_location' = FALSE
        /\ pc' = "resumed"
        /\ on' = b
        /\ callback' = [callback EXCEPT ![b] = "inline"]
        /\ expired' = IF Tp THEN expired \cup {n} ELSE expired
     \/ /\ ~resume_location
        /\ callback' = [callback EXCEPT ![b] = "idle"]
        /\ UNCHANGED <<resume_location, pc, on, expired>>
  /\ UNCHANGED <<kind, n, cancellation_requested, setVars, arming, canceller, outcome,
                 doomed, inherited, stopped>>

(* The coroutine has suspended or ended: continuation() returns.           *)
return(b) ==
  /\ callback[b] = "inline"
  /\ on # b
  /\ \A a \in arming : a.on # b
  /\ callback' = [callback EXCEPT ![b] = "idle"]
  /\ UNCHANGED <<kind, pc, n, on, timerVars, setVars, arming, canceller, history>>

--------------------------------------------------------------------------------
(***************************************************************************)
(* cancel().  The coroutine itself does not call it: on the stack of a     *)
(* callback it would wait for itself.                                      *)
(***************************************************************************)

(* The wait that a cancel() is meant for, if there is one.                 *)
Doomed == IF pc \in InWait THEN {n} ELSE IF Tp THEN {n + 1} ELSE {}

(* Mutant: nobody waits, so there is nothing to cancel.                    *)
cancel_if_waiting(t) ==
  /\ canceller[t] = "idle"
  /\ cancellation_requested' = (cancellation_requested \/ resume_location)
  /\ armed' = 0
  /\ canceller' = [canceller EXCEPT ![t] = IF resume_location THEN "locked" ELSE "resuming"]
  /\ doomed' = IF resume_location THEN doomed \cup Doomed ELSE doomed
  /\ UNCHANGED <<kind, pc, n, on, resume_location, periodic, callback, arming, outcome,
                 expired, inherited, stopped>>

(* The critical section ...                                                *)
cancel(t) ==
  /\ canceller[t] = "idle"
  /\ cancellation_requested' = TRUE
  /\ armed' = 0
  /\ canceller' = [canceller EXCEPT ![t] = IF resume_location THEN "locked" ELSE "resuming"]
  /\ doomed' = doomed \cup Doomed
  /\ UNCHANGED <<kind, pc, n, on, resume_location, periodic, callback, arming, outcome,
                 expired, inherited, stopped>>

(* ... WaitForThreadpoolTimerCallbacks: what is queued is dropped ...      *)
cancel_pending(t) ==
  /\ canceller[t] = "locked"
  /\ callback' = [b \in Callback |-> IF callback[b] = "pending" THEN "idle"
                                     ELSE callback[b]]
  /\ canceller' = [canceller EXCEPT ![t] = "draining"]
  /\ UNCHANGED <<kind, pc, n, on, timerVars, setVars, arming, history>>

(* ... and what runs is waited for ...                                     *)
drain(t) ==
  /\ canceller[t] = "draining"
  /\ \A b \in Callback : callback[b] \notin {"started", "inline"}
  /\ canceller' = [canceller EXCEPT ![t] = "resuming"]
  /\ UNCHANGED <<kind, pc, n, on, timerVars, poolVars, arming, history>>

(* Mutant: the coroutine is left to the callback that was waited for.      *)
resume_background_never(t) ==
  /\ canceller[t] = "resuming"
  /\ canceller' = [canceller EXCEPT ![t] = "idle"]
  /\ UNCHANGED <<kind, pc, n, on, timerVars, poolVars, arming, history>>

(* ... and resume(true).                                                   *)
resume_background(t) ==
  /\ canceller[t] = "resuming"
  /\ resume_location' = FALSE
  /\ pc' = IF resume_location THEN "posted" ELSE pc
  /\ canceller' = [canceller EXCEPT ![t] = "idle"]
  /\ UNCHANGED <<kind, n, on, cancellation_requested, poolVars, arming, history>>

--------------------------------------------------------------------------------
Body == wait \/ Finish

Coroutine ==
  \/ Body \/ abandon \/ await_transform \/ await_ready
  \/ suspend_cancelled \/ suspend \/ background \/ await_resume

Next ==
  \/ Coroutine
  \/ \E a \in arming : SetThreadpoolTimer(a)
  \/ \E period \in BOOLEAN : start(period)
  \/ stop
  \/ \E b \in Callback : expire(b) \/ run(b) \/ resume(b) \/ return(b)
  \/ \E t \in Canceller :
       cancel(t) \/ cancel_pending(t) \/ drain(t) \/ resume_background(t)

Spec == Init /\ [][Next]_vars

(***************************************************************************)
(* A coroutine that runs goes on to its next wait or to its end, a timer   *)
(* that is set expires, the thread pool runs what it has queued, and a     *)
(* thread inside cancel() goes on.  Nobody has to cancel, start or stop.   *)
(***************************************************************************)
Fairness ==
  /\ WF_vars(Coroutine)
  /\ WF_vars(\E a \in arming : SetThreadpoolTimer(a))
  /\ WF_vars(\E b \in Callback : expire(b))
  /\ \A b \in Callback : WF_vars(run(b) \/ resume(b) \/ return(b))
  /\ \A t \in Canceller :
       WF_vars(cancel_pending(t) \/ drain(t) \/ resume_background(t))

FairSpec == Spec /\ Fairness

--------------------------------------------------------------------------------
(***************************************************************************)
(* Properties.                                                             *)
(***************************************************************************)

(* The variables have their types, and the coroutine runs on the stack of  *)
(* a callback only while that callback is inside continuation().           *)
TypeOK ==
  /\ kind \in {"async_timer", "tp_timer"}
  /\ pc \in Places
  /\ n \in 0 .. MaxWaits
  /\ on \in Callback \cup {None}
  /\ resume_location \in BOOLEAN
  /\ cancellation_requested \in BOOLEAN
  /\ armed \in 0 .. MaxWaits
  /\ periodic \in BOOLEAN
  /\ arming \subseteq [wait : Wait, on : Callback \cup {None}]
  /\ callback \in [Callback -> {"idle", "pending", "started", "inline"}]
  /\ canceller \in [Canceller -> Stages]
  /\ outcome \in [Wait -> {"none", "cancelled", "elapsed"}]
  /\ expired \subseteq Wait
  /\ doomed \subseteq 1 .. MaxWaits + 1
  /\ inherited \subseteq Wait
  /\ stopped \in BOOLEAN
  /\ on # None => callback[on] = "inline"
  /\ \A a \in arming : a.on # None => callback[a.on] = "inline"

(* The coroutine is in the timer's hands exactly while it is suspended: of *)
(* the callbacks and the cancellers that race for it one resumes it, once. *)
(* And if its wait has been cancelled a thread in cancel() is about to: no *)
(* cancellation slips through between the two looks that a co_await takes  *)
(* at the flag.                                                            *)
ResumedOnce ==
  /\ resume_location <=> pc = "suspended"
  /\ pc = "suspended" /\ cancellation_requested =>
       \E t \in Canceller : canceller[t] # "idle"

(* A wait throws timer_cancelled if the timer was cancelled between wait() *)
(* and await_resume (of a tp_timer: since the wait before), also when the  *)
(* time had passed, and for no other reason: not for a cancellation that   *)
(* an earlier wait was meant for.                                          *)
CancelledWaitThrows ==
  \A i \in Wait : outcome[i] # "none" => (outcome[i] = "cancelled" <=> i \in doomed)

(* A wait that ends before its time, without an exception, was ended by    *)
(* what an earlier wait has left behind: a cancel() or a setting of the    *)
(* timer that was still under way when the wait began.                     *)
EarlyEndIsInherited ==
  \A i \in Wait : outcome[i] = "elapsed" => i \in expired \cup inherited

(* The inductive invariant behind these: during a wait the flag says       *)
(* whether this wait was cancelled, between two waits that of a tp_timer   *)
(* whether the next one is, and no later wait has a history.               *)
FlagInv ==
  /\ pc \in InWait => /\ n \in Wait
                      /\ cancellation_requested <=> n \in doomed
                      /\ outcome[n] = "none"
  /\ Tp /\ pc \notin InWait =>
       pc # "terminated" /\ (cancellation_requested <=> n + 1 \in doomed)
  /\ \A i \in Wait : i > n => outcome[i] = "none"
  /\ \A i \in doomed : i <= n \/ (Tp /\ pc \notin InWait /\ i = n + 1)

(* In a wait that has inherited nothing, whoever may end it early has      *)
(* doomed it, and the timer is set for no other.                           *)
EarlyInv ==
  pc \in InWait /\ n \notin inherited =>
    /\ (\E t \in Canceller : canceller[t] # "idle") => n \in doomed
    /\ Async => /\ armed \in {0, n}
                /\ \A a \in arming : a.wait = n
                /\ \A b \in Callback :
                     callback[b] \in {"pending", "started"} => n \in expired
    /\ pc = "posted" => n \in doomed
    /\ pc = "resumed" => n \in doomed \cup expired

(* The inductive invariant: the flags of the timer, its callbacks and the  *)
(* outcomes of the waits agree in every state.                             *)
Inv ==
  /\ TypeOK /\ ResumedOnce /\ CancelledWaitThrows
  /\ EarlyEndIsInherited /\ FlagInv /\ EarlyInv

(* A coroutine that waits is resumed, by its timer or by cancel(); that of *)
(* a tp_timer if there is a tick or a cancellation on its way, and the     *)
(* owner does not stop the timer.                                          *)
Due ==
  \/ armed # 0
  \/ \E b \in Callback : callback[b] \in {"pending", "started"}
  \/ \E t \in Canceller : canceller[t] # "idle"

WaitEnds ==
  pc = "suspended" /\ (Async \/ Due) ~> pc # "suspended" \/ stopped
================================================================================
