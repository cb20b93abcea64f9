---------------------------- MODULE AutoCancelTimer ----------------------------
(***************************************************************************)
(* A coroutine with a token and an auto_cancel_timer or an                 *)
(* auto_cancel_tp_timer (auto_cancel_timer.h): the composition of          *)
(* AsyncTimer, of either kind, with Cancellation.  The timer has a         *)
(* subscription to the coroutine's token whose callback is timer.cancel(), *)
(* so that three parties meet: the thread in the source's cancel(), the    *)
(* subscription's callback and the timer's callback, on whose stack the    *)
(* coroutine may run, end, and destroy timer and subscription.             *)
(***************************************************************************)
EXTENDS Naturals, Sequences, FiniteSets

CONSTANTS
  Callback,     \* callbacks of the timer that may be in flight (a bound)
  None,         \* no callback, no source
  MaxWaits      \* bound: how often the coroutine waits

ASSUME AutoCancelTimerAssumption ==
  /\ None \notin Callback \cup {"source"}
  /\ MaxWaits \in Nat \ {0}

VARIABLES
  status, tokens, related, dropped, work, rest, source, coro, cancelled,
  promise, pc, waiting, sub, callback, completed,
  kind, place,      \* the class of the timer; where the coroutine stands in co_await timer.wait()
  n, on, resume_location, cancellation_requested, armed, periodic, arming,
  timer_callback,   \* the timer's callbacks
  canceller,        \* where the subscription's callback stands in cancel()
  outcome, expired, doomed, inherited, stopped

cancelVars == <<status, tokens, related, dropped, work, rest, source, coro,
                cancelled, promise, pc, waiting, sub, callback, completed>>
timerVars  == <<kind, place, n, on, resume_location, cancellation_requested,
                armed, periodic, arming, timer_callback, canceller, outcome,
                expired, doomed, inherited, stopped>>
vars == <<cancelVars, timerVars>>

t == "token"
s == "source"
f == "callback"

C == INSTANCE Cancellation WITH Source <- {s}, Token <- {t}
T == INSTANCE AsyncTimer WITH
       Canceller <- {f}, callback <- timer_callback, pc <- place

Init == C!Init /\ T!Init

--------------------------------------------------------------------------------
(***************************************************************************)
(* The source's owner and the thread pool.                                 *)
(***************************************************************************)

Source ==
  /\ C!Drop(s) \/ C!cancel(s) \/ C!cancel_token(s) \/ C!cancel_return(s)
  /\ UNCHANGED timerVars

timer ==
  /\ \/ \E b \in Callback : T!run(b) \/ T!resume(b) \/ T!return(b)
     \/ \E a \in arming : T!SetThreadpoolTimer(a)
  /\ UNCHANGED cancelVars

expire == (\E b \in Callback : T!expire(b)) /\ UNCHANGED cancelVars

(* The owner of an auto_cancel_tp_timer.                                   *)
Owner ==
  /\ \/ \E period \in BOOLEAN : T!start(period)
     \/ T!stop
  /\ UNCHANGED cancelVars

--------------------------------------------------------------------------------
(***************************************************************************)
(* The subscription's callback.                                            *)
(***************************************************************************)

run == (C!run(t) \/ C!run_complete(t)) /\ UNCHANGED timerVars

(* Mutant: the callback leaves the coroutine to the timer.                 *)
callback_cancel_flag ==
  /\ C!run_f(t)
  /\ cancellation_requested' = TRUE
  /\ UNCHANGED <<kind, place, n, on, resume_location, armed, periodic, arming,
                 timer_callback, canceller, outcome, expired, doomed, inherited,
                 stopped>>

(* [this]() noexcept { this->cancel(); }, from the first step ...          *)
callback_cancel ==
  /\ callback[t] = "running"
  /\ T!cancel(f)
  /\ UNCHANGED cancelVars

callback_wait == (T!cancel_pending(f) \/ T!drain(f)) /\ UNCHANGED cancelVars

(* ... to the last one.                                                    *)
callback_return == T!resume_background(f) /\ C!run_f(t)

--------------------------------------------------------------------------------
(***************************************************************************)
(* The coroutine.                                                          *)
(***************************************************************************)

(* cancellation_token token { co_await source }; auto_cancel_timer timer   *)
(* { token };                                                              *)
Construct ==
  /\ C!token(t, s, TRUE) \/ C!add_token(t) \/ C!subscription(t) \/ C!add(t)
  /\ UNCHANGED timerVars

wait ==
  /\ C!InBody(t) /\ sub[t] = "added"
  /\ T!wait
  /\ UNCHANGED cancelVars

(* Mutant: a cancelled coroutine goes on waiting.                          *)
await_transform_unchecked == T!await_transform /\ UNCHANGED cancelVars

await_transform ==
  \/ T!abandon /\ C!await_transform(t)
  \/ ~promise[t] /\ T!await_transform /\ UNCHANGED cancelVars

Awaits ==
  /\ \/ T!await_ready \/ T!suspend_cancelled \/ T!suspend
     \/ T!background \/ T!await_resume
  /\ UNCHANGED cancelVars

(* The coroutine leaves the timer's scope, by an exception or not: the     *)
(* subscription's destructor ...                                           *)
Leave ==
  /\ place = "body"
  /\ C!remove(t)
  /\ UNCHANGED timerVars

(* Mutant: the destructor does not wait for the callback.                  *)
destroy_subscription_at_once ==
  /\ sub[t] = "removed"
  /\ sub' = [sub EXCEPT ![t] = "destroyed"]
  /\ UNCHANGED <<status, tokens, related, dropped, work, rest, source, coro,
                 cancelled, promise, pc, waiting, callback, completed, timerVars>>

destroy_subscription == C!destroy_subscription(t) /\ UNCHANGED timerVars

(* ... and, once that and the timer's are over, the token's.               *)
Finish == T!Finish /\ C!destroy_token(t)

--------------------------------------------------------------------------------
Next ==
  \/ Source \/ timer \/ expire \/ Owner
  \/ run \/ callback_cancel \/ callback_wait \/ callback_return
  \/ Construct \/ wait \/ await_transform \/ Awaits
  \/ Leave \/ destroy_subscription \/ Finish

Spec == Init /\ [][Next]_vars

(***************************************************************************)
(* As in the components, except that the timer need not expire: how long   *)
(* a duration is, is not what ends a cancelled wait.                       *)
(***************************************************************************)
Fairness ==
  /\ WF_vars((C!cancel_token(s) \/ C!cancel_return(s)) /\ UNCHANGED timerVars)
  /\ WF_vars(timer)
  /\ WF_vars(run) /\ WF_vars(callback_cancel)
  /\ WF_vars(callback_wait) /\ WF_vars(callback_return)
  /\ WF_vars(await_transform) /\ WF_vars(Awaits)
  /\ WF_vars(wait \/ Leave) /\ WF_vars(destroy_subscription) /\ WF_vars(Finish)

FairSpec == Spec /\ Fairness

--------------------------------------------------------------------------------
(***************************************************************************)
(* Properties.                                                             *)
(***************************************************************************)

(* No wait is left behind by the callback: one that suspends later would   *)
(* last its whole duration.  wait() forgets an earlier cancel(); it takes  *)
(* the promise's flag, set before the callback is sent, to make up for it. *)
NoWaitAfterCancel == callback[t] \in {"ran", "done"} => place # "suspended"

(* The timer outlives the cancel() that its subscription's callback is in. *)
TimerOutlivesCallback == sub[t] = "destroyed" => canceller[f] = "idle"

(* A coroutine that is cancelled while it waits is resumed, however long   *)
(* the duration.                                                           *)
CancelEndsWait ==
  promise[t] /\ place = "suspended" ~> place # "suspended"

(* The destructor of the subscription "will block until the callback       *)
(* exits" and no longer.                                                   *)
DestructorReturns == sub[t] = "removed" ~> sub[t] = "destroyed"

--------------------------------------------------------------------------------
(***************************************************************************)
(* The inductive invariant behind the safety properties.                   *)
(***************************************************************************)

(* The flag of the promise comes with that of the token.  The subscription *)
(* is there as long as the coroutine waits, so that a cancellation behind  *)
(* await_transform sends the callback.  The timer's cancel() runs inside   *)
(* the callback, and a co_await between await_transform and suspend() that *)
(* it has met finds the timer's flag set.                                  *)
CancelInv ==
  /\ pc[t] # "start" => coro[t]
  /\ cancelled[t] => promise[t]
  /\ place \in T!InWait => sub[t] = "added"
  /\ promise[t] /\ place \in {"awaiting", "suspended"} => callback[t] # "idle"
  /\ canceller[f] # "idle" => callback[t] = "running"
  /\ place = "awaiting" /\ (canceller[f] # "idle" \/ callback[t] \in {"ran", "done"})
       => cancellation_requested

(* Together with the invariants of the components.                         *)
Inv == C!Inv /\ T!Inv /\ CancelInv /\ NoWaitAfterCancel

(* A cancelled coroutine that is suspended has been told, or is about to   *)
(* be: the callback that cancels its timer is queued or runs.              *)
SuspendedIsTold ==
  promise[t] /\ place = "suspended" => callback[t] \in {"posted", "running"}
================================================================================
