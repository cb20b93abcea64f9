------------------------------ MODULE AsyncQueue ------------------------------
(***************************************************************************)
(* corsl::async_queue<T> (async_queue.h): any number of producers push,    *)
(* cancel and clear from their threads, one consumer coroutine awaits      *)
(* next().  A co_await is not one critical section but two, with a window  *)
(* between them in which a producer may do anything: is_ready, called from *)
(* await_ready, and set_awaitable, called from await_suspend.  Producers   *)
(* are not named: a producer's call is one critical section, and any call  *)
(* may follow any other.  (The names of the specification begin with AQ,   *)
(* for HandOffProofs extends another module besides this one.)             *)
(***************************************************************************)
EXTENDS Sequences, Naturals

CONSTANTS
  Item,         \* what producers push
  Failure,      \* exceptions given to push_exception; operation_cancelled is
                \* the one cancel() makes
  Nothing,      \* std::monostate, a null exception_ptr, a null pointer
  MaxQueue,     \* bound: length of the queue at a push
  MaxReceived   \* bound: completed co_awaits of the consumer

ASSUME QueueAssumption ==
  /\ Nothing \notin Item \cup Failure
  /\ Item \cap Failure = {}
  /\ MaxQueue \in Nat
  /\ MaxReceived \in Nat

VARIABLES
  queue,      \* async_queue::queue
  exception,  \* async_queue::exception
  current,    \* async_queue::current is set
  phase,      \* where the consumer stands in co_await queue.next()
  aq_value,   \* aq_awaitable::value
  received    \* what the consumer's co_awaits returned or threw, in order

aqVars == <<queue, exception, current, phase, aq_value, received>>

(* idle: not in a co_await.  checked: await_ready returned false.          *)
(* suspended: await_suspend returned true.  posted: resume_on_background   *)
(* was called for it.  resuming: about to run await_resume.                *)
Phases == {"idle", "checked", "suspended", "posted", "resuming"}

AQInit ==
  /\ queue = <<>>
  /\ exception = Nothing
  /\ current = FALSE
  /\ phase = "idle"
  /\ aq_value = Nothing
  /\ received = <<>>

--------------------------------------------------------------------------------
(***************************************************************************)
(* The consumer.                                                           *)
(***************************************************************************)

is_ready ==
  /\ phase = "idle"
  /\ Len(received) < MaxReceived
  /\ \/ /\ exception # Nothing
        /\ aq_value' = exception
        /\ phase' = "resuming"
        /\ UNCHANGED queue
     \/ /\ exception = Nothing /\ queue # <<>>
        /\ aq_value' = Head(queue)
        /\ queue' = Tail(queue)
        /\ phase' = "resuming"
     \/ /\ exception = Nothing /\ queue = <<>>
        /\ phase' = "checked"
        /\ UNCHANGED <<queue, aq_value>>
  /\ UNCHANGED <<exception, current, received>>

(* Mutant: await_suspend trusts what await_ready saw.                      *)
set_awaitable_unchecked ==
  /\ phase = "checked"
  /\ current' = TRUE
  /\ phase' = "suspended"
  /\ UNCHANGED <<queue, exception, aq_value, received>>

(* await_suspend looks again.  An exception is thrown from await_suspend,  *)
(* which is as if await_resume had thrown it.                              *)
set_awaitable ==
  /\ phase = "checked"
  /\ \/ /\ exception # Nothing
        /\ received' = Append(received, exception)
        /\ phase' = "idle"
        /\ UNCHANGED <<queue, aq_value, current>>
     \/ /\ exception = Nothing /\ queue # <<>>
        /\ aq_value' = Head(queue)
        /\ queue' = Tail(queue)
        /\ phase' = "resuming"
        /\ UNCHANGED <<current, received>>
     \/ /\ exception = Nothing /\ queue = <<>>
        /\ current' = TRUE
        /\ phase' = "suspended"
        /\ UNCHANGED <<queue, aq_value, received>>
  /\ UNCHANGED exception

(* The thread pool runs the callback that resumes the coroutine.           *)
aq_resume ==
  /\ phase = "posted"
  /\ phase' = "resuming"
  /\ UNCHANGED <<queue, exception, current, aq_value, received>>

(* next() makes a new awaitable for each co_await: the value goes with it. *)
aq_await_resume ==
  /\ phase = "resuming"
  /\ received' = Append(received, aq_value)
  /\ aq_value' = Nothing
  /\ phase' = "idle"
  /\ UNCHANGED <<queue, exception, current>>

--------------------------------------------------------------------------------
(***************************************************************************)
(* The producers.  q and e are the queue and the exception as the caller   *)
(* has just left them, under the same lock.                                *)
(***************************************************************************)

(* Mutant: the consumer is given its result and never resumed.             *)
drain_unposted(q, e) ==
  \/ /\ ~current
     /\ queue' = q
     /\ UNCHANGED <<current, phase, aq_value>>
  \/ /\ current
     /\ current' = FALSE
     /\ aq_value' = IF e # Nothing THEN e ELSE Head(q)
     /\ queue' = IF e # Nothing THEN q ELSE Tail(q)
     /\ UNCHANGED phase

drain(q, e) ==
  \/ /\ ~current
     /\ queue' = q
     /\ UNCHANGED <<current, phase, aq_value>>
  \/ /\ current
     /\ current' = FALSE
     /\ aq_value' = IF e # Nothing THEN e ELSE Head(q)
     /\ queue' = IF e # Nothing THEN q ELSE Tail(q)
     /\ phase' = "posted"

(* Mutant: a cancelled queue goes on taking items.                         *)
push_always(i) ==
  /\ Len(queue) < MaxQueue
  /\ drain(Append(queue, i), exception)
  /\ UNCHANGED <<exception, received>>

(* push and emplace differ in how the item is made.                        *)
push(i) ==
  /\ Len(queue) < MaxQueue
  /\ drain(IF exception = Nothing THEN Append(queue, i) ELSE queue, exception)
  /\ UNCHANGED <<exception, received>>

(* Mutant: cancel() leaves a waiting consumer to the next push.            *)
push_exception_undrained(e) ==
  /\ exception' = e
  /\ UNCHANGED <<queue, current, phase, aq_value, received>>

(* cancel() is push_exception(operation_cancelled).                        *)
push_exception(e) ==
  /\ exception' = e
  /\ drain(queue, e)
  /\ UNCHANGED received

clear ==
  /\ queue' = <<>>
  /\ exception' = Nothing
  /\ UNCHANGED <<current, phase, aq_value, received>>

--------------------------------------------------------------------------------
AQNext ==
  \/ is_ready
  \/ set_awaitable
  \/ aq_resume
  \/ aq_await_resume
  \/ \E i \in Item : push(i)
  \/ \E e \in Failure : push_exception(e)
  \/ clear

AQSpec == AQInit /\ [][AQNext]_aqVars

(* A coroutine that is running runs on to the end of the co_await it is    *)
(* in, and the thread pool runs what it accepted.  Nobody has to push and  *)
(* nobody has to call next().                                              *)
AQFairness == WF_aqVars(set_awaitable) /\ WF_aqVars(aq_resume) /\ WF_aqVars(aq_await_resume)

AQFairSpec == AQSpec /\ AQFairness

--------------------------------------------------------------------------------
(***************************************************************************)
(* Properties.                                                             *)
(***************************************************************************)

(* The variables have their types.                                         *)
AQTypeOK ==
  /\ queue \in Seq(Item)
  /\ exception \in Failure \cup {Nothing}
  /\ current \in BOOLEAN
  /\ phase \in Phases
  /\ aq_value \in Item \cup Failure \cup {Nothing}
  /\ received \in Seq(Item \cup Failure)

(* A consumer is in the queue's hands (current) from await_suspend to      *)
(* drain, and then there is nothing for it: no item and no exception came  *)
(* in the window between await_ready and await_suspend and was missed.     *)
NoStrandedConsumer ==
  /\ current <=> phase = "suspended"
  /\ current => queue = <<>> /\ exception = Nothing

(* await_resume's assertion "broken invariant": a consumer is resumed with *)
(* a value or an exception, and has none while it waits.                   *)
ValueIffResumed == aq_value # Nothing <=> phase \in {"posted", "resuming"}

(* The inductive invariant: the queue, the one consumer and the awaitable  *)
(* on its stack agree in every state.                                      *)
AQInv == AQTypeOK /\ NoStrandedConsumer /\ ValueIffResumed

(* The queue is a first-in first-out channel of one consumer: the consumer *)
(* has received an item from the moment it is in its awaitable.            *)
Chan == INSTANCE Channel WITH
  None     <- Nothing,
  Consumer <- {"consumer"},
  contents <- queue,
  failure  <- exception,
  waiting  <- IF current THEN {"consumer"} ELSE {},
  received <- [k \in {"consumer"} |->
                 IF aq_value = Nothing THEN received ELSE Append(received, aq_value)]
ImplementsChannel == Chan!Spec

(* A consumer is not left in a co_await for ever while there always is an  *)
(* item or an exception in the queue.                                      *)
ConsumerServed ==
  <>[](queue # <<>> \/ exception # Nothing) => []<>(phase = "idle")
================================================================================
