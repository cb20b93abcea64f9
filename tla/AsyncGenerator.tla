---------------------------- MODULE AsyncGenerator ----------------------------
(***************************************************************************)
(* async_generator<T> (async_generator.h): the frame of a generator, the   *)
(* producer, and the coroutine that iterates over it, the consumer.        *)
(* begin() and ++ resume the producer on the consumer's stack; when it     *)
(* awaits something there the consumer returns, and later finds the next   *)
(* value ready or leaves its handle in the promise, for the producer to    *)
(* resume, on its own stack this time.                                     *)
(*                                                                         *)
(* The consumer compares its iterator with end(), takes the value or       *)
(* leaves it, increments, and may destroy the generator after any of this. *)
(* (The names of the specification begin with AG, for StreamProofs extends *)
(* another module besides this one.)                                       *)
(***************************************************************************)
EXTENDS Integers

CONSTANT MaxValues   \* how often the producer yields

ASSUME AsyncGeneratorAssumption == MaxValues \in Nat

VARIABLES
  consumer,      \* where the consumer stands; when it is undefined, what
                 \* either of them does from then on is of no account
  producer,      \* where the producer stands, and gone: there is no frame
  lock,          \* promise_type::lock: none, consumer or producer
  promise_value, \* promise_type::value
  continuation,  \* promise_type::continuation is set
  yielded,       \* how many values the producer has yielded,
  waited,        \* and whether it has awaited something since
  last,          \* the last value that the consumer has taken
  skipped,       \* it has incremented its iterator without taking the value
  early          \* the producer has returned while the consumer was not
                 \* suspended

frameVars   == <<producer, lock, promise_value, continuation, yielded, waited>>
historyVars == <<last, skipped, early>>
agVars == <<consumer, frameVars, historyVars>>

(* The value is a std::variant; T is the numbers from 1.                   *)
Empty     == 0
Exception == -1

AGInit ==
  /\ consumer = "start" /\ producer = "initial"
  /\ lock = "none" /\ promise_value = Empty /\ continuation = FALSE
  /\ yielded = 0 /\ waited = FALSE
  /\ last = 0 /\ skipped = FALSE /\ early = FALSE

--------------------------------------------------------------------------------
(***************************************************************************)
(* The consumer.                                                           *)
(***************************************************************************)

Consume(from, to) == consumer = from /\ consumer' = to

(* coro.resume(), of a producer that stands there.                         *)
Resume(from) ==
  /\ producer = from /\ producer' = "running"
  /\ consumer' = "resuming"
  /\ waited' = FALSE
  /\ UNCHANGED <<lock, promise_value, continuation, yielded, last, early>>

begin ==
  /\ consumer = "start"
  /\ Resume("initial")
  /\ UNCHANGED skipped

(* ++ on an iterator whose value was taken, or was not.                    *)
increment ==
  /\ consumer \in {"taken", "valid"}
  /\ Resume("yielded")
  /\ skipped' = (skipped \/ consumer = "valid")

done == producer = "final"

(* Mutant: is_ready() gives the lock back in any case.                     *)
await_ready_unlocked ==
  /\ consumer = "awaiting" /\ producer # "gone"
  /\ done \/ lock = "none"
  /\ consumer' = IF done \/ promise_value # Empty THEN "resumed" ELSE "suspending"
  /\ UNCHANGED <<frameVars, historyVars>>

(* is_ready() keeps the lock when it says no.                              *)
await_ready ==
  /\ consumer = "awaiting" /\ producer # "gone"
  /\ done \/ lock = "none"
  /\ \/ (done \/ promise_value # Empty) /\ consumer' = "resumed" /\ UNCHANGED lock
     \/ ~done /\ promise_value = Empty /\ consumer' = "suspending" /\ lock' = "consumer"
  /\ UNCHANGED <<producer, promise_value, continuation, yielded, waited, historyVars>>

await_suspend ==
  /\ Consume("suspending", "suspended")
  /\ continuation' = TRUE
  /\ lock' = "none"
  /\ UNCHANGED <<producer, promise_value, yielded, waited, historyVars>>

(* check_exception() rethrows; otherwise there is an iterator.             *)
iterator_await_resume ==
  /\ producer # "gone"
  /\ Consume("resumed", IF promise_value = Exception THEN "failed" ELSE "iterator")
  /\ UNCHANGED <<frameVars, historyVars>>

(* it != end()                                                             *)
compare ==
  /\ producer # "gone"
  /\ Consume("iterator", IF done THEN "done" ELSE "valid")
  /\ UNCHANGED <<frameVars, historyVars>>

(* Mutant: the value is copied and stays.                                  *)
get_value_copied ==
  /\ producer # "gone" /\ lock # "producer"
  /\ Consume("valid", IF promise_value > 0 THEN "taken" ELSE "failed")
  /\ last' = IF promise_value > 0 THEN promise_value ELSE last
  /\ UNCHANGED <<frameVars, skipped, early>>

(* *it takes the value out; std::get throws if it is none.                 *)
get_value ==
  /\ producer # "gone" /\ lock # "producer"
  /\ Consume("valid", IF promise_value > 0 THEN "taken" ELSE "failed")
  /\ last' = IF promise_value > 0 THEN promise_value ELSE last
  /\ promise_value' = Empty
  /\ UNCHANGED <<producer, lock, continuation, yielded, waited, skipped, early>>

(* The end of the loop, at its end, with an exception or by break.         *)
destroy ==
  /\ consumer \in {"start", "valid", "taken", "done", "failed"}
  /\ producer \in {"initial", "yielded", "final"}
  /\ consumer' = "left" /\ producer' = "gone"
  /\ UNCHANGED <<lock, promise_value, continuation, yielded, waited, historyVars>>

(* What goes wrong: a frame is used that is gone, a value that is being    *)
(* written is read, and a coroutine that is not suspended, or waits for    *)
(* something else, is resumed or destroyed.                                *)
misuse ==
  /\ \/ consumer \in {"awaiting", "resumed", "iterator", "valid"} /\ producer = "gone"
     \/ consumer = "valid" /\ lock = "producer"
     \/ consumer \in {"valid", "taken"} /\ producer # "yielded"
     \/ /\ consumer \in {"valid", "taken", "failed"}
        /\ producer \notin {"yielded", "final"}
  /\ consumer' = "undefined"
  /\ UNCHANGED <<frameVars, historyVars>>

--------------------------------------------------------------------------------
(***************************************************************************)
(* The producer.                                                           *)
(***************************************************************************)

(* A producer that suspends, or ends, on the consumer's stack returns to   *)
(* begin() or ++, whose awaitable the consumer awaits then.                *)
Return == consumer' = IF consumer = "resuming" THEN "awaiting" ELSE consumer

(* Once between two values it awaits something other than co_yield, which  *)
(* goes on with it on another thread.                                      *)
wait ==
  /\ producer = "running" /\ ~waited
  /\ producer' = "waiting" /\ waited' = TRUE
  /\ Return
  /\ UNCHANGED <<lock, promise_value, continuation, yielded, historyVars>>

goes_on ==
  /\ producer = "waiting"
  /\ producer' = "running"
  /\ UNCHANGED <<consumer, lock, promise_value, continuation, yielded, waited, historyVars>>

(* co_yield leaves the lock locked ...                                     *)
yield_value ==
  /\ producer = "running" /\ lock = "none" /\ yielded < MaxValues
  /\ producer' = "yielding" /\ lock' = "producer"
  /\ yielded' = yielded + 1 /\ promise_value' = yielded + 1
  /\ UNCHANGED <<consumer, continuation, waited, historyVars>>

(* ... for its await_suspend.                                              *)
check_resume ==
  /\ producer = "yielding"
  /\ producer' = "yielded" /\ lock' = "none"
  /\ \/ continuation /\ continuation' = FALSE /\ consumer' = "resumed"
     \/ ~continuation /\ Return /\ UNCHANGED continuation
  /\ UNCHANGED <<promise_value, yielded, waited, historyVars>>

(* co_return and an exception, which a cancelled coroutine meets at its    *)
(* next co_await, leave a value and resume nobody.                         *)
Ends(v) ==
  /\ producer = "running" /\ lock = "none"
  /\ producer' = "returning"
  /\ promise_value' = v
  /\ early' = ~continuation
  /\ UNCHANGED <<consumer, lock, continuation, yielded, waited, last, skipped>>

return_value        == Ends(yielded + 1)
unhandled_exception == Ends(Exception)

(* Mutant: the coroutine resumes the consumer and ends.                    *)
final_suspend_never ==
  /\ producer = "returning"
  /\ producer' = "gone"
  /\ IF continuation THEN consumer' = "resumed" ELSE Return
  /\ UNCHANGED <<lock, promise_value, continuation, yielded, waited, historyVars>>

(* final_suspend reads value and continuation without the lock.  When      *)
(* there is nobody to resume the coroutine runs to its end, and destroys   *)
(* its frame.                                                              *)
final_suspend ==
  /\ producer = "returning"
  /\ \/ promise_value # Empty /\ continuation /\ producer' = "final" /\ consumer' = "resumed"
     \/ (promise_value = Empty \/ ~continuation) /\ producer' = "gone" /\ Return
  /\ UNCHANGED <<lock, promise_value, continuation, yielded, waited, historyVars>>

--------------------------------------------------------------------------------
Body == wait \/ yield_value \/ return_value \/ unhandled_exception

AGNext ==
  \/ begin \/ increment \/ await_ready \/ await_suspend \/ iterator_await_resume
  \/ compare \/ get_value \/ destroy \/ misuse
  \/ Body \/ goes_on \/ check_resume \/ final_suspend

AGSpec == AGInit /\ [][AGNext]_agVars

(* The body of a generator goes on, what it awaits comes to its end, and a *)
(* thread that is inside the library goes on.  A consumer need not take    *)
(* another value.                                                          *)
AGFairness ==
  /\ WF_agVars(await_suspend)
  /\ WF_agVars(Body) /\ WF_agVars(goes_on) /\ WF_agVars(check_resume) /\ WF_agVars(final_suspend)

AGFairSpec == AGSpec /\ AGFairness

--------------------------------------------------------------------------------
(***************************************************************************)
(* Properties.                                                             *)
(***************************************************************************)

(* Values come once, in the order in which they were yielded and without a *)
(* gap, and all of them before the end is reached, unless the consumer     *)
(* itself left one behind.                                                 *)
ValuesInOrder ==
  [][/\ last' # last => last' = last + 1 \/ (skipped /\ last' > last)
     /\ consumer # "done" /\ consumer' = "done" => skipped \/ last = yielded]_agVars

(* A consumer that takes every value, and waits when the generator ends,   *)
(* never uses a frame that is gone, and never resumes or destroys a        *)
(* coroutine that runs: it is the generator that ends before its consumer  *)
(* is suspended, and the value that is not taken, which make it do so.     *)
SoundIteration == consumer = "undefined" => skipped \/ early

(* The consumer that is suspended is resumed, by a value, the end or an    *)
(* exception: none of them slips in between await_ready, which keeps the   *)
(* lock, and await_suspend; final_suspend, which does without, included.   *)
ConsumerResumes == consumer = "suspended" ~> consumer # "suspended"

--------------------------------------------------------------------------------
(***************************************************************************)
(* The inductive invariant behind the safety properties.                   *)
(***************************************************************************)

AGTypeOK ==
  /\ consumer \in {"start", "resuming", "awaiting", "suspending", "suspended", "resumed",
                   "iterator", "valid", "taken", "done", "failed", "left", "undefined"}
  /\ producer \in {"initial", "running", "waiting", "yielding", "yielded", "returning",
                   "final", "gone"}
  /\ lock \in {"none", "consumer", "producer"}
  /\ yielded \in Nat /\ last \in 0 .. yielded + 1
  /\ promise_value \in {Empty, Exception, yielded, yielded + 1}
  /\ continuation \in BOOLEAN /\ waited \in BOOLEAN
  /\ skipped \in BOOLEAN /\ early \in BOOLEAN

(* Who has the lock, and whose handle is in the promise.                   *)
LockInv ==
  /\ lock = "consumer" <=> consumer = "suspending"
  /\ lock = "producer" <=> producer = "yielding"
  /\ lock = "consumer" => promise_value = Empty /\ producer \in {"running", "waiting"}
  /\ continuation => \/ consumer = "suspended"
                     \/ /\ producer = "final"
                        /\ consumer \in {"resumed", "iterator", "done", "failed"}
                     \/ producer = "gone" /\ consumer = "left"
  /\ consumer \in {"resuming", "awaiting"} /\ promise_value = Empty =>
       producer \in {"running", "waiting"}

(* Who is suspended waits for a value that the producer is on its way to,  *)
(* or has but not announced yet.                                           *)
SuspendedInv ==
  consumer = "suspended" =>
    /\ continuation
    /\ producer \in {"running", "waiting", "yielding", "returning"}
    /\ promise_value = Empty <=> producer \in {"running", "waiting"}

(* Consumer and producer agree, when no value was left behind and the      *)
(* producer has not returned too early.                                    *)
Agree ==
  ~skipped /\ ~early =>
    /\ consumer = "start" <=> producer = "initial"
    /\ consumer = "resuming" => producer \in {"running", "yielding"}
    /\ consumer = "awaiting" => producer \in {"running", "waiting", "yielding", "yielded"}
    /\ consumer \in {"resumed", "iterator"} => producer \in {"yielded", "final"}
    /\ consumer \in {"valid", "taken"} => producer = "yielded"
    /\ consumer \in {"done", "failed"} => producer = "final"
    /\ consumer = "left" => producer = "gone"
    /\ consumer # "undefined"

(* The value in the promise, and what the consumer has had of them.        *)
ValueInv ==
  ~skipped /\ ~early =>
    /\ promise_value \in {Empty, Exception} => last = yielded
    /\ consumer = "taken" => promise_value = Empty
    /\ producer \in {"yielding", "yielded"} => yielded > 0
    /\ producer \in {"initial", "running", "waiting"} => promise_value = Empty
    /\ producer = "yielded" => consumer = "taken" \/ consumer = "left" \/ promise_value = yielded
    /\ producer \in {"returning", "final"} => promise_value \in {Exception, yielded + 1}

(* A value is newer than what the consumer has, whatever went wrong; only  *)
(* a producer that returns early hands out what it returns.                *)
OrderInv ==
  /\ early => producer \in {"returning", "gone"} /\ ~continuation
  /\ producer = "yielding" => promise_value = yielded
  /\ promise_value = yielded + 1 => early \/ continuation
  /\ ~early => last <= yielded
  /\ promise_value > 0 => last < promise_value /\ (skipped \/ last = promise_value - 1)

AGInv == AGTypeOK /\ LockInv /\ SuspendedInv /\ Agree /\ ValueInv /\ OrderInv
================================================================================
