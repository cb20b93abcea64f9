----------------------------- MODULE CancellableIo -----------------------------
(***************************************************************************)
(* The awaitables of PoolAwaitable in a coroutine, and the composition of  *)
(* cancellable_resumable_io (advanced_io.h) with Cancellation: its         *)
(* awaitable holds a subscription to a token whose callback is oncancel(), *)
(* so that the source's cancel(), the callback, the completion of the      *)
(* operation and the destruction of the awaitable meet.  The other         *)
(* awaitables leave the token alone.                                       *)
(***************************************************************************)
EXTENDS Naturals, Sequences

CONSTANT None   \* no source

ASSUME CancellableIoAssumption == None # "source"

VARIABLES
  status, tokens, related, dropped, work, rest, source, coro, cancelled,
  promise, place, waiting, sub, callback, completed,
  kind, timed, pc, setting, alive, m_resume, m_result, wait,
  io_callback,      \* the callback of the thread pool
  timer, canceller, completion, oncancel, io_cancelled, ended, outcome,
  resumptions, taker, late

cancelVars == <<status, tokens, related, dropped, work, rest, source, coro, cancelled,
                promise, place, waiting, sub, callback, completed>>
ioVars     == <<kind, timed, pc, setting, alive, m_resume, m_result, wait, io_callback,
                timer, canceller, completion, oncancel, io_cancelled, ended, outcome,
                resumptions, taker, late>>
vars == <<cancelVars, ioVars>>

t == "token"
s == "source"

C == INSTANCE Cancellation WITH Source <- {s}, Token <- {t}, pc <- place
A == INSTANCE PoolAwaitable WITH callback <- io_callback

Init == C!Init /\ A!Init

--------------------------------------------------------------------------------
(***************************************************************************)
(* The token of the coroutine, the source's owner, and the subscription.   *)
(***************************************************************************)

Source ==
  /\ A!Cancellable
  /\ C!Drop(s) \/ C!cancel(s) \/ C!cancel_token(s) \/ C!cancel_return(s)
  /\ UNCHANGED ioVars

Token ==
  /\ A!Cancellable /\ pc = "start"
  /\ C!token(t, s, TRUE) \/ C!add_token(t)
  /\ UNCHANGED ioVars

(* start(): the constructor of the awaitable is noexcept, that of its      *)
(* subscription throws if the token is cancelled.                          *)
construct ==
  /\ A!Cancellable /\ pc = "start"
  /\ C!subscription(t)
  /\ pc' = IF cancelled[t] THEN "terminated" ELSE pc
  /\ UNCHANGED <<kind, timed, setting, alive, m_resume, m_result, wait, io_callback,
                 timer, canceller, completion, oncancel, io_cancelled, ended, outcome,
                 resumptions, taker, late>>

add == C!add(t) /\ UNCHANGED ioVars

(* The subscription is the first member of the awaitable: its callback may *)
(* run before the others are initialised.                                  *)
initialise ==
  /\ sub[t] = "added"
  /\ A!initialise
  /\ UNCHANGED cancelVars

(* The callback of the subscription: run(), and oncancel() for f.          *)
run == (C!run(t) \/ C!run_complete(t)) /\ UNCHANGED ioVars

callback_test ==
  /\ callback[t] = "running"
  /\ A!oncancel_test
  /\ UNCHANGED cancelVars

(* Mutant: oncancel() marks the completion and no more.                    *)
callback_return_idle ==
  /\ oncancel \in {"tested", "raw", "over"}
  /\ C!run_f(t)
  /\ UNCHANGED ioVars

callback_return ==
  \/ A!oncancel_CancelIoEx /\ C!run_f(t)
  \/ oncancel = "over" /\ C!run_f(t) /\ UNCHANGED ioVars

--------------------------------------------------------------------------------
(***************************************************************************)
(* The coroutine.                                                          *)
(***************************************************************************)

(* The promise of a cancelled coroutine throws before it awaits.           *)
abandon ==
  /\ pc = "constructed"
  /\ C!await_transform(t)
  /\ pc' = "leaving" /\ outcome' = "thrown" /\ ended' = "thrown"
  /\ UNCHANGED <<kind, timed, setting, alive, m_resume, m_result, wait, io_callback,
                 timer, canceller, completion, oncancel, io_cancelled, resumptions,
                 taker, late>>

await_transform ==
  /\ A!Cancellable => ~promise[t]
  /\ A!await_transform
  /\ UNCHANGED cancelVars

Suspends ==
  /\ \/ A!await_ready \/ A!fail \/ A!suspend \/ A!attach
     \/ A!issue \/ A!issue_completed
  /\ UNCHANGED cancelVars

(* What await_suspend has still to do.                                     *)
Sets == (A!SetThreadpoolWait \/ A!set_timer) /\ UNCHANGED cancelVars

Leaves == (A!background \/ A!await_resume) /\ UNCHANGED cancelVars

(* The destructor of the awaitable: what it declares after its             *)
(* subscription goes first, without a trace, so that oncancel() still      *)
(* finds completion and h; then the subscription.                          *)
unsubscribe ==
  /\ pc = "leaving"
  /\ C!remove(t)
  /\ UNCHANGED ioVars

destroy ==
  /\ IF A!Cancellable THEN C!destroy_subscription(t) ELSE UNCHANGED cancelVars
  /\ A!destroy

(* The token goes, when the coroutine ends.                                *)
Finish == pc = "done" /\ C!destroy_token(t) /\ UNCHANGED ioVars

--------------------------------------------------------------------------------
(***************************************************************************)
(* The thread pool, the I/O manager, and cancel() of resume_on_signal.     *)
(***************************************************************************)

fire == A!fire /\ UNCHANGED cancelVars

Pool ==
  /\ A!start \/ A!resume \/ A!reset_timer \/ A!reset_timer_resume \/ A!return
  /\ UNCHANGED cancelVars

Timer == (A!expire \/ A!start_timeout \/ A!on_timeout) /\ UNCHANGED cancelVars

cancel == A!cancel /\ UNCHANGED cancelVars

Cancels ==
  /\ A!cancel_drain \/ A!cancel_close \/ A!cancel_result \/ A!cancel_resume
  /\ UNCHANGED cancelVars

Running == pc # "terminated"

(* Nobody takes a step when the program has ended in std::terminate.       *)
Step(action) == Running /\ action

Next ==
  \/ Step(Source) \/ Step(Token) \/ Step(construct) \/ Step(add)
  \/ Step(initialise) \/ Step(run) \/ Step(callback_test) \/ Step(callback_return)
  \/ Step(abandon)
  \/ Step(await_transform) \/ Step(Suspends) \/ Step(Sets) \/ Step(Leaves)
  \/ Step(unsubscribe) \/ Step(destroy) \/ Step(Finish) \/ Step(fire)
  \/ Step(Pool) \/ Step(Timer) \/ Step(cancel) \/ Step(Cancels)

Spec == Init /\ [][Next]_vars

(***************************************************************************)
(* Threads go on, and the thread pool runs what is queued.  A duration or  *)
(* a timeout passes, and an operation that CancelIoEx has met comes to its *)
(* end; one that it has not, and a handle, need never do so.               *)
(***************************************************************************)
Due == kind = "resume_after" \/ (A!Signal /\ timed) \/ io_cancelled

Fairness ==
  /\ WF_vars(Step(Sets)) /\ WF_vars(Step(Leaves))
  /\ WF_vars(Step(unsubscribe)) /\ WF_vars(Step(destroy))
  /\ WF_vars(Step(Pool)) /\ WF_vars(Step(Timer)) /\ WF_vars(Step(Cancels))
  /\ WF_vars(Due /\ Step(fire))
  /\ WF_vars(Step(run)) /\ WF_vars(Step(callback_test)) /\ WF_vars(Step(callback_return))

FairSpec == Spec /\ Fairness

--------------------------------------------------------------------------------
(***************************************************************************)
(* Properties.                                                             *)
(***************************************************************************)

(* Nobody comes to an awaitable that is destroyed: not the callback of an  *)
(* operation, not oncancel(), for which the destructor of the subscription *)
(* waits, and not on_timeout(), for which reset_timer() does - unless the  *)
(* timer is set when that is over.                                         *)
AwaitableOutlivesUsers ==
  ~alive => /\ io_callback \notin {"awaited", "queued", "started", "resetting"}
            /\ oncancel \notin {"tested", "raw"}
            /\ timer = "unset" \/ late

(* Whoever races for the coroutine - the callback of the wait, cancel() -  *)
(* one of them resumes it, once.                                           *)
ResumedOnce ==
  /\ resumptions <= 1
  /\ pc = "suspended" => resumptions = 0

(* The coroutine is told how its operation ended, whatever is cancelled    *)
(* meanwhile: by resume_on_signal that it was cancelled if and only if it  *)
(* was cancel() that resumed it - unless SetThreadpoolWait comes when      *)
(* cancel() is under way, and the callback and cancel() both write the     *)
(* result: then only that a cancellation is told of if there was one.  The *)
(* others tell a value for success and nothing else.  (What                *)
(* resumable_io_timeout tells of an error is the matter of TimeoutTold.)   *)
OutcomeTold ==
  outcome # "none" =>
    /\ outcome = "thrown" <=> ended = "thrown"
    /\ A!Signal => /\ outcome = "cancelled" => wait = "closed"
                   /\ outcome = "timeout" => ended = "timeout"
    /\ A!Signal /\ ~late => /\ outcome = "cancelled" <=> taker = "cancel"
                            /\ outcome = "timeout" <=>
                                 taker = "callback" /\ ended = "timeout"
    /\ A!Io => (outcome = "value" <=> ended = "success")
    /\ A!Io /\ ~A!Timeout => (outcome = "error" <=> ended \in {"failed", "aborted"})

(* resumable_io_timeout tells of a timeout with operation_cancelled, and   *)
(* of "other I/O errors" with another exception.                           *)
TimeoutTold ==
  A!Timeout /\ outcome \in {"cancelled", "error"} =>
    (outcome = "cancelled" <=> ended = "aborted")

(* An operation that is given a timeout ends, and so does one whose        *)
(* subscription's callback comes after it was issued; so does a wait for a *)
(* handle, when it is cancelled.  A duration passes.                       *)
Over == pc \in {"done", "terminated"}

CoAwaitEnds ==
  /\ pc = "suspended" /\ kind \in {"resume_background", "resume_after"} ~> Over
  /\ pc = "suspended" /\ A!Timeout /\ timed ~> Over
  /\ pc = "suspended" /\ A!Cancellable /\ ~late /\ callback[t] # "idle" ~> Over
  /\ A!Signal /\ canceller # "idle" ~> Over /\ (canceller = "idle" \/ pc = "terminated")

--------------------------------------------------------------------------------
(***************************************************************************)
(* The inductive invariant behind the safety properties.                   *)
(***************************************************************************)

TypeOK ==
  /\ kind \in A!Kinds
  /\ timed \in BOOLEAN /\ (timed => A!Signal \/ A!Timeout)
  /\ pc \in {"start", "constructed", "awaiting", "suspended", "posted", "resumed",
             "leaving", "done", "terminated"}
  /\ setting \in {"none", "wait", "timer"}
  /\ alive \in BOOLEAN /\ m_resume \in BOOLEAN
  /\ m_result \in {"success", "failed", "aborted", "timeout", "WAIT_FAILED"}
  /\ wait \in {"none", "attached", "closed"}
  /\ io_callback \in {"none", "awaited", "queued", "started", "resetting", "inline",
                      "over"}
  /\ timer \in {"unset", "armed", "pending", "running"}
  /\ canceller \in {"idle", "disarmed", "drained", "closed", "written"}
  /\ completion \in BOOLEAN /\ oncancel \in {"idle", "tested", "raw", "over"}
  /\ io_cancelled \in BOOLEAN /\ late \in BOOLEAN
  /\ ended \in {"none", "success", "failed", "aborted", "timeout", "thrown"}
  /\ outcome \in {"none", "value", "error", "timeout", "cancelled", "thrown"}
  /\ resumptions \in Nat
  /\ taker \in {"nobody", "await_ready", "callback", "cancel"}

(* Where the coroutine stands tells who may come to it: before it has      *)
(* suspended nobody, while it is suspended the thread pool's callback, and *)
(* to resume_on_signal cancel(), with the handle as the token between them.*)
SuspensionInv ==
  /\ alive <=> A!Signal \/ pc # "done"
  /\ pc = "constructed" => A!Cancellable
  /\ pc \in {"start", "constructed", "awaiting"} =>
       /\ setting = "none" /\ wait = "none" /\ io_callback = "none"
       /\ ended = "none" /\ m_result = "success"
  /\ pc \in {"start", "constructed", "awaiting", "suspended"} =>
       resumptions = 0 /\ taker = "nobody"
  /\ outcome # "none" => pc \in {"leaving", "done", "terminated"}
  /\ resumptions <= 1
  /\ ~A!Signal =>
       /\ wait = "none" /\ canceller = "idle" /\ pc # "posted"
       /\ pc = "suspended" <=> io_callback \in {"awaited", "queued", "started", "resetting"}
  /\ io_callback = "resetting" => A!Timeout
  /\ A!Signal =>
       /\ io_callback # "none" => wait # "none"
       /\ pc = "suspended" => wait # "none"
       /\ wait # "none" /\ pc # "terminated" => (m_resume <=> pc = "suspended")
       /\ canceller \in {"disarmed", "drained"} => wait = "attached"
       /\ canceller \in {"closed", "written"} => wait = "closed"

(* Where SetThreadpoolWait did not come when cancel() was under way, the   *)
(* callback of resume_on_signal and the end of cancel() keep apart.        *)
InTime == A!Signal => ~late

ApartInv ==
  A!Signal /\ InTime =>
    /\ io_callback \in {"awaited", "queued", "started"} =>
         wait = "attached" /\ pc \in {"suspended", "terminated"}
    /\ canceller = "disarmed" => io_callback # "awaited"
    /\ canceller = "drained" \/ wait = "closed" => io_callback \in {"none", "over"}

(* The result that the coroutine is about to see is that of whoever has    *)
(* resumed it.                                                             *)
ResultInv ==
  /\ outcome = "thrown" <=> ended = "thrown"
  /\ ended = "thrown" => /\ wait = "none" /\ io_callback = "none"
                         /\ pc \in {"leaving", "done", "terminated"}
  /\ io_callback = "awaited" \/ setting = "wait" => ended = "none"
  /\ io_callback \in {"queued", "started", "resetting"} => ended \notin {"none", "thrown"}
  /\ InTime /\ io_callback \in {"started", "resetting"} => m_result = ended
  /\ m_result = "WAIT_FAILED" => wait = "closed"
  /\ InTime => (m_result = "WAIT_FAILED" <=> wait = "closed" /\ canceller # "closed")
  /\ A!Signal => /\ ended \in {"none", "success", "timeout", "thrown"}
                 /\ m_result \in {"success", "timeout", "WAIT_FAILED"}
                 /\ m_result = "timeout" => ended = "timeout"
  /\ pc = "posted" => taker = "cancel" /\ wait = "closed"
  /\ taker = "cancel" => wait = "closed" /\ canceller # "closed"
  /\ pc = "resumed" /\ A!Io => m_result = ended
  /\ pc = "resumed" /\ A!Signal /\ InTime =>
       \/ taker = "cancel" /\ wait = "closed"
       \/ taker = "callback" /\ wait = "attached" /\ io_callback = "inline"
            /\ m_result = ended
       \/ taker = "await_ready" /\ wait = "none" /\ m_result = "success"

(* SetThreadpoolWait finds the coroutine suspended, or the wait closed.     *)
(* When the callback has passed reset_timer() the timer is unset, unless   *)
(* set_timer() came after it.                                              *)
CallsInv ==
  /\ setting = "wait" => /\ A!Signal /\ wait # "none" /\ io_callback = "none"
                         /\ wait = "attached" => pc = "suspended"
  /\ setting = "timer" => A!Timeout /\ timer = "unset" /\ io_callback # "none"
  /\ timer # "unset" => A!Timeout /\ timed /\ io_callback # "none"
  /\ timer = "armed" => io_callback # "resetting" \/ late
  /\ timer # "unset" => io_callback \notin {"inline", "over"} \/ late

(* oncancel() runs inside the callback of the subscription, which is there *)
(* as long as the awaitable is; the other awaitables have none.  Whoever   *)
(* cancels behind await_transform sends the callback, and oncancel(), when *)
(* it is over, has met a pending operation or come before it.              *)
SubscriptionInv ==
  /\ ~A!Cancellable => /\ place[t] = "start" /\ sub[t] = "none" /\ callback[t] = "idle"
                       /\ oncancel = "idle" /\ ~completion
  /\ A!Cancellable /\ pc \in {"constructed", "awaiting", "suspended", "resumed"} =>
       sub[t] = "added"
  /\ A!Cancellable /\ ~alive => sub[t] = "destroyed"
  /\ place[t] # "start" => coro[t]
  /\ cancelled[t] => promise[t]
  /\ A!Cancellable /\ promise[t] /\ pc \in {"awaiting", "suspended"} =>
       callback[t] # "idle"
  /\ oncancel \in {"tested", "raw"} => callback[t] = "running"
  /\ callback[t] \in {"ran", "done"} => oncancel = "over"
  /\ completion /\ oncancel = "idle" => pc \in {"start", "leaving", "done", "terminated"}
  /\ oncancel = "raw" /\ io_callback = "awaited" => late
  /\ oncancel = "over" /\ io_callback = "awaited" => io_cancelled \/ late

IoInv == TypeOK /\ SuspensionInv /\ ApartInv /\ ResultInv /\ CallsInv /\ OutcomeTold

(* Together with that of Cancellation.                                     *)
Inv == C!Inv /\ IoInv /\ SubscriptionInv

(* A cancelled coroutine whose operation is pending has been told, or is   *)
(* about to be: the callback is queued or runs, or CancelIoEx has met the  *)
(* operation - unless oncancel() came before the operation was issued.     *)
PendingIsTold ==
  A!Cancellable /\ promise[t] /\ io_callback = "awaited" =>
    callback[t] \in {"posted", "running"} \/ io_cancelled \/ late
================================================================================
