----------------------------- MODULE PoolAwaitable -----------------------------
(***************************************************************************)
(* The awaitables of compatible_base.h and advanced_io.h: one co_await of  *)
(* one of them, from its await_transform to the end of the full expression *)
(* (of resume_on_signal, which its owner keeps, to the end of co_await).   *)
(* All of them leave a coroutine's handle to a callback of the thread      *)
(* pool, which runs the coroutine on its own stack.  Some can be ended     *)
(* early: resume_on_signal by its cancel(), resumable_io_timeout by a      *)
(* timer, cancellable_resumable_io by the callback of its subscription     *)
(* (see CancellableIo).  await_suspend may still be at work, on the thread *)
(* that suspended, when the coroutine goes on elsewhere.                   *)
(*                                                                         *)
(* The thread pool and the I/O manager are external: a wait, a timer or an *)
(* operation is over once, CancelIoEx makes an operation that is pending   *)
(* end soon, in whatever way, and does nothing to one that has ended.      *)
(***************************************************************************)
EXTENDS Naturals

VARIABLES
  kind,         \* the awaitable
  timed,        \* it was given a timeout
  pc,           \* where the coroutine stands in co_await
  setting,      \* the call that await_suspend has still to make, or "none"
  alive,        \* the awaitable exists
  m_resume,     \* the handle is there
  m_result,     \* the member of this name; "success" stands for 0
  wait,         \* resume_on_signal::m_wait: none, attached, closed
  callback,     \* the thread pool's callback: none, awaited, queued, started,
                \* resetting (in reset_timer), inline (runs the coroutine), over
  timer,        \* the timer of supports_timeout: unset, armed, pending, running
  canceller,    \* where a thread stands in resume_on_signal::cancel: idle, or
                \* what it has done: disarmed, drained, closed, written
  completion,   \* cancellable_resumable_io: the flag of this name
  oncancel,     \* and its oncancel(): idle, tested (won the flag), raw (did so
                \* before the members were initialised), over
  io_cancelled, \* CancelIoEx has met a pending operation
  ended,        \* how the operation ended
  outcome,      \* what the coroutine was told
  resumptions,  \* how often somebody has resumed it
  taker,        \* who has, of resume_on_signal
  late          \* await_suspend made its last call when the other side had
                \* begun to end the operation

suspender  == <<setting, alive, m_resume>>
poolVars   == <<callback, ended>>
signalVars == <<wait, canceller, taker>>
cancelVars == <<completion, oncancel>>
timeVars   == <<timer, io_cancelled, late>>
vars == <<kind, timed, pc, suspender, m_result, poolVars, signalVars, cancelVars,
          timeVars, outcome, resumptions>>

Signal      == kind = "resume_on_signal"
Timeout     == kind = "resumable_io_timeout"
Cancellable == kind = "cancellable_resumable_io"
Io          == kind \in {"resumable_io", "start_pending"} \/ Timeout \/ Cancellable

Kinds == {"resume_background", "resume_after", "resume_on_signal", "resumable_io",
          "start_pending", "resumable_io_timeout", "cancellable_resumable_io"}

(* The members that cancellable_resumable_io's awaitable declares after    *)
(* its subscription are initialised after it, see initialise: before that  *)
(* completion is whatever is in the memory.                                *)
Init ==
  /\ kind \in Kinds
  /\ timed \in BOOLEAN /\ (timed => Signal \/ Timeout)
  /\ pc = "start"
  /\ setting = "none" /\ alive = TRUE /\ m_resume = FALSE
  /\ m_result = "success"
  /\ wait = "none" /\ canceller = "idle" /\ taker = "nobody"
  /\ callback = "none" /\ ended = "none"
  /\ timer = "unset" /\ io_cancelled = FALSE /\ late = FALSE
  /\ completion \in BOOLEAN /\ (completion => Cancellable) /\ oncancel = "idle"
  /\ outcome = "none"
  /\ resumptions = 0

--------------------------------------------------------------------------------
(***************************************************************************)
(* co_await: the way into the suspension.                                  *)
(***************************************************************************)

(* The rest of the constructor, when the subscription has been added:      *)
(* completion is reset, m_io and h are written.                            *)
initialise ==
  /\ pc = "start" /\ Cancellable
  /\ pc' = "constructed"
  /\ completion' = FALSE
  /\ UNCHANGED <<kind, timed, suspender, m_result, poolVars, signalVars, oncancel,
                 timeVars, outcome, resumptions>>

await_transform ==
  /\ pc = IF Cancellable THEN "constructed" ELSE "start"
  /\ pc' = "awaiting"
  /\ UNCHANGED <<kind, timed, suspender, m_result, poolVars, signalVars, cancelVars,
                 timeVars, outcome, resumptions>>

(* A duration that has passed, a handle that is signalled.                 *)
await_ready ==
  /\ pc = "awaiting" /\ (Signal \/ kind = "resume_after")
  /\ pc' = "resumed"
  /\ taker' = "await_ready"
  /\ ended' = "success"
  /\ UNCHANGED <<kind, timed, suspender, m_result, callback, wait, canceller,
                 cancelVars, timeVars, outcome, resumptions>>

(* await_suspend throws: the thread pool has no callback, timer or wait to *)
(* give, or the function that issues the operation throws, after which     *)
(* CancelThreadpoolIo takes back StartThreadpoolIo.                        *)
fail ==
  /\ pc = "awaiting"
  /\ pc' = "leaving"
  /\ m_resume' = (Signal \/ Io)
  /\ ended' = "thrown" /\ outcome' = "thrown"
  /\ UNCHANGED <<kind, timed, setting, alive, m_result, callback, signalVars,
                 cancelVars, timeVars, resumptions>>

(* resume_background is queued by the call itself, resume_after when the   *)
(* time has come.                                                          *)
suspend ==
  /\ pc = "awaiting"
  /\ \/ kind = "resume_background" /\ callback' = "queued" /\ ended' = "success"
     \/ kind = "resume_after" /\ callback' = "awaited" /\ UNCHANGED ended
  /\ pc' = "suspended"
  /\ UNCHANGED <<kind, timed, suspender, m_result, signalVars, cancelVars, timeVars,
                 outcome, resumptions>>

(* resume_on_signal: the handle, the wait object ...                       *)
attach ==
  /\ pc = "awaiting" /\ Signal
  /\ pc' = "suspended" /\ setting' = "wait"
  /\ m_resume' = TRUE
  /\ wait' = "attached"
  /\ UNCHANGED <<kind, timed, alive, m_result, poolVars, canceller, taker, cancelVars,
                 timeVars, outcome, resumptions>>

(* ... and SetThreadpoolWait, of what is in m_wait by now.                 *)
SetThreadpoolWait ==
  /\ setting = "wait"
  /\ setting' = "none"
  /\ \/ wait = "closed" /\ pc' = "terminated" /\ UNCHANGED callback
     \/ wait = "attached" /\ callback' = "awaited" /\ UNCHANGED pc
  /\ late' = (late \/ canceller # "idle")
  /\ UNCHANGED <<kind, timed, alive, m_resume, m_result, ended, signalVars, cancelVars,
                 timer, io_cancelled, outcome, resumptions>>

(* StartThreadpoolIo and the function that issues the operation.           *)
issue ==
  /\ pc = "awaiting" /\ Io
  /\ pc' = "suspended"
  /\ setting' = IF Timeout THEN "timer" ELSE "none"
  /\ m_resume' = TRUE
  /\ callback' = "awaited"
  /\ late' = (oncancel # "idle")
  /\ UNCHANGED <<kind, timed, alive, m_result, ended, signalVars, cancelVars, timer,
                 io_cancelled, outcome, resumptions>>

(* The function may say that the operation is over and that no callback    *)
(* will come: CancelThreadpoolIo, and the coroutine does not suspend.      *)
issue_completed ==
  /\ pc = "awaiting" /\ (kind = "start_pending" \/ Timeout)
  /\ pc' = "resumed"
  /\ m_resume' = TRUE
  /\ ended' = "success"
  /\ UNCHANGED <<kind, timed, setting, alive, m_result, callback, signalVars,
                 cancelVars, timeVars, outcome, resumptions>>

(* set_timer() comes after the operation was issued.  The coroutine may    *)
(* have been resumed since, and the awaitable destroyed.                   *)
set_timer ==
  /\ setting = "timer"
  /\ setting' = "none"
  /\ timer' = IF timed /\ alive THEN "armed" ELSE timer
  /\ late' = (~alive \/ (timed /\ callback \in {"resetting", "inline", "over"}))
  /\ UNCHANGED <<kind, timed, pc, alive, m_resume, m_result, poolVars, signalVars,
                 cancelVars, io_cancelled, outcome, resumptions>>

--------------------------------------------------------------------------------
(***************************************************************************)
(* The thread pool's callback.                                             *)
(***************************************************************************)

Ends ==
  CASE kind = "resume_after" -> {"success"}
    [] Signal -> {"success"} \cup (IF timed THEN {"timeout"} ELSE {})
    [] Io -> {"success", "failed"} \cup (IF io_cancelled THEN {"aborted"} ELSE {})
    [] OTHER -> {}

(* The timer expires, the handle is signalled or the wait times out, the   *)
(* operation completes.                                                    *)
fire ==
  /\ callback = "awaited"
  /\ callback' = "queued"
  /\ ended' \in Ends
  /\ UNCHANGED <<kind, timed, pc, suspender, m_result, signalVars, cancelVars,
                 timeVars, outcome, resumptions>>

(* The callback starts, and has the result.                                *)
start ==
  /\ callback = "queued"
  /\ callback' = "started"
  /\ m_result' = ended
  /\ UNCHANGED <<kind, timed, pc, suspender, ended, signalVars, cancelVars, timeVars,
                 outcome, resumptions>>

Resume(label) ==
  /\ pc' = label
  /\ resumptions' = resumptions + 1

(* m_resume(); resume_on_signal takes the handle out before, if it is     *)
(* there.                                                                  *)
resume ==
  LET handle == Signal => m_resume IN
  /\ callback = "started" /\ ~Timeout
  /\ callback' = IF handle THEN "inline" ELSE "over"
  /\ pc' = IF handle THEN "resumed" ELSE pc
  /\ resumptions' = IF handle THEN resumptions + 1 ELSE resumptions
  /\ m_resume' = (m_resume /\ ~Signal)
  /\ taker' = IF Signal /\ handle THEN "callback" ELSE taker
  /\ UNCHANGED <<kind, timed, setting, alive, m_result, ended, wait, canceller,
                 cancelVars, timeVars, outcome>>

(* reset_timer() of resumable_io_timeout: the timer is disarmed ...        *)
reset_timer ==
  /\ callback = "started" /\ Timeout
  /\ callback' = "resetting"
  /\ timer' = IF timed /\ timer = "armed" THEN "unset" ELSE timer
  /\ UNCHANGED <<kind, timed, pc, suspender, m_result, ended, signalVars, cancelVars,
                 io_cancelled, late, outcome, resumptions>>

(* Mutant: the timer's callbacks are not waited for.                       *)
reset_timer_resume_at_once ==
  /\ callback = "resetting"
  /\ callback' = "inline" /\ Resume("resumed")
  /\ UNCHANGED <<kind, timed, suspender, m_result, ended, signalVars, cancelVars,
                 timeVars, outcome>>

(* ... WaitForThreadpoolTimerCallbacks drops a callback that is queued and *)
(* waits for one that runs, and the coroutine is resumed.                  *)
reset_timer_resume ==
  /\ callback = "resetting"
  /\ timed => timer # "running"
  /\ timer' = IF timed /\ timer = "pending" THEN "unset" ELSE timer
  /\ callback' = "inline" /\ Resume("resumed")
  /\ UNCHANGED <<kind, timed, suspender, m_result, ended, signalVars, cancelVars,
                 io_cancelled, late, outcome>>

(* The coroutine suspends elsewhere or ends.                               *)
return ==
  /\ callback = "inline" /\ pc = "done"
  /\ callback' = "over"
  /\ UNCHANGED <<kind, timed, pc, suspender, m_result, ended, signalVars, cancelVars,
                 timeVars, outcome, resumptions>>

--------------------------------------------------------------------------------
(***************************************************************************)
(* co_await: the way out.                                                  *)
(***************************************************************************)

(* The thread pool runs what resume_on_background gave it.                 *)
background ==
  /\ pc = "posted"
  /\ pc' = "resumed"
  /\ UNCHANGED <<kind, timed, suspender, m_result, poolVars, signalVars, cancelVars,
                 timeVars, outcome, resumptions>>

(* Signal: true, false or an exception.  resumable_io_timeout throws       *)
(* operation_cancelled whatever the error is, the others the error.        *)
Told ==
  CASE m_result = "success" -> "value"
    [] m_result = "timeout" -> "timeout"
    [] m_result = "WAIT_FAILED" -> "cancelled"
    [] m_result \in {"failed", "aborted"} -> IF Timeout THEN "cancelled" ELSE "error"

await_resume ==
  /\ pc = "resumed"
  /\ pc' = "leaving"
  /\ completion' = (completion \/ Cancellable)
  /\ outcome' = Told
  /\ UNCHANGED <<kind, timed, suspender, m_result, poolVars, signalVars, oncancel,
                 timeVars, resumptions>>

(* The end of the full expression.  CloseThreadpoolTimer leaves a timer    *)
(* that is set, or a callback of it, as it is.                             *)
destroy ==
  /\ pc = "leaving"
  /\ pc' = "done"
  /\ alive' = Signal
  /\ UNCHANGED <<kind, timed, setting, m_resume, m_result, poolVars, signalVars,
                 cancelVars, timeVars, outcome, resumptions>>

--------------------------------------------------------------------------------
(***************************************************************************)
(* The timeout of resumable_io_timeout.                                    *)
(***************************************************************************)

CancelIoEx == io_cancelled' = (io_cancelled \/ callback = "awaited")

expire ==
  /\ timer = "armed"
  /\ timer' = "pending"
  /\ UNCHANGED <<kind, timed, pc, suspender, m_result, poolVars, signalVars, cancelVars,
                 io_cancelled, late, outcome, resumptions>>

start_timeout ==
  /\ timer = "pending"
  /\ timer' = "running"
  /\ UNCHANGED <<kind, timed, pc, suspender, m_result, poolVars, signalVars, cancelVars,
                 io_cancelled, late, outcome, resumptions>>

on_timeout ==
  /\ timer = "running"
  /\ timer' = "unset"
  /\ CancelIoEx
  /\ UNCHANGED <<kind, timed, pc, suspender, m_result, poolVars, signalVars, cancelVars,
                 late, outcome, resumptions>>

--------------------------------------------------------------------------------
(***************************************************************************)
(* resume_on_signal::cancel, on another thread than the coroutine's.       *)
(***************************************************************************)

(* assert(m_wait): there is nothing to cancel before the coroutine has     *)
(* suspended, or a second time.  Then the wait is disarmed ...             *)
cancel ==
  /\ Signal /\ canceller = "idle"
  /\ \/ wait # "attached" /\ pc' = "terminated" /\ UNCHANGED <<canceller, callback>>
     \/ wait = "attached" /\ canceller' = "disarmed" /\ UNCHANGED pc
          /\ callback' = IF callback = "awaited" THEN "none" ELSE callback
  /\ UNCHANGED <<kind, timed, suspender, m_result, ended, wait, taker, cancelVars,
                 timeVars, outcome, resumptions>>

(* ... WaitForThreadpoolWaitCallbacks drops a queued callback and waits    *)
(* for one that runs - not for a wait that await_suspend has armed since - *)
cancel_drain ==
  /\ canceller = "disarmed"
  /\ callback \notin {"started", "inline"}
  /\ callback' = IF callback = "queued" THEN "none" ELSE callback
  /\ canceller' = "drained"
  /\ UNCHANGED <<kind, timed, pc, suspender, m_result, ended, wait, taker, cancelVars,
                 timeVars, outcome, resumptions>>

(* the wait is closed, and one that is armed may be over or not, while a   *)
(* callback that is queued or runs goes on ...                             *)
cancel_close ==
  /\ canceller = "drained"
  /\ wait' = "closed"
  /\ callback' \in {callback} \cup {c \in {"none"} : callback = "awaited"}
  /\ canceller' = "closed"
  /\ UNCHANGED <<kind, timed, pc, suspender, m_result, ended, taker, cancelVars,
                 timeVars, outcome, resumptions>>

(* Mutant: the coroutine is to see the result that is there.               *)
cancel_result_kept ==
  /\ canceller = "closed"
  /\ canceller' = "written"
  /\ UNCHANGED <<kind, timed, pc, suspender, m_result, poolVars, wait, taker,
                 cancelVars, timeVars, outcome, resumptions>>

(* ... the result is written, over whatever is there ...                   *)
cancel_result ==
  /\ canceller = "closed"
  /\ canceller' = "written"
  /\ m_result' = "WAIT_FAILED"
  /\ UNCHANGED <<kind, timed, pc, suspender, poolVars, wait, taker, cancelVars,
                 timeVars, outcome, resumptions>>

(* Mutant: the handle's value before the exchange does not matter.         *)
cancel_resume_again ==
  /\ canceller = "written"
  /\ canceller' = "idle"
  /\ m_resume' = FALSE
  /\ Resume("posted") /\ taker' = "cancel"
  /\ UNCHANGED <<kind, timed, setting, alive, m_result, poolVars, wait, cancelVars,
                 timeVars, outcome>>

(* ... and the coroutine resumed, if nobody else has.                      *)
cancel_resume ==
  /\ canceller = "written"
  /\ canceller' = "idle"
  /\ m_resume' = FALSE
  /\ \/ m_resume /\ Resume("posted") /\ taker' = "cancel"
     \/ ~m_resume /\ UNCHANGED <<pc, resumptions, taker>>
  /\ UNCHANGED <<kind, timed, setting, alive, m_result, poolVars, wait, cancelVars,
                 timeVars, outcome>>

--------------------------------------------------------------------------------
(***************************************************************************)
(* oncancel() of cancellable_resumable_io.                                 *)
(***************************************************************************)

(* The callback may come before the members are initialised: completion    *)
(* is what is in the memory then, and so may h be, so that CancelIoEx may  *)
(* not reach the operation.                                                *)
oncancel_test ==
  /\ oncancel = "idle"
  /\ oncancel' = IF completion THEN "over" ELSE IF pc = "start" THEN "raw" ELSE "tested"
  /\ completion' = TRUE
  /\ UNCHANGED <<kind, timed, pc, suspender, m_result, poolVars, signalVars, timeVars,
                 outcome, resumptions>>

oncancel_CancelIoEx ==
  /\ \/ oncancel = "tested" /\ CancelIoEx
     \/ oncancel = "raw" /\ (CancelIoEx \/ UNCHANGED io_cancelled)
  /\ oncancel' = "over"
  /\ UNCHANGED <<kind, timed, pc, suspender, m_result, poolVars, signalVars, completion,
                 timer, late, outcome, resumptions>>
================================================================================
