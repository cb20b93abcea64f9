------------------------------ MODULE MultiQueue ------------------------------
(***************************************************************************)
(* corsl::async_multi_consumer_queue<T> (async_multi_queue.h).  Consumers  *)
(* wait in an intrusive list, a push hands its item to the first of them,  *)
(* and push_exception takes the whole list away under the lock and fails   *)
(* its members one by one after the lock was released, while others push,  *)
(* clear, fail the queue again and wait in the new list.                   *)
(***************************************************************************)
EXTENDS Sequences, Naturals

CONSTANTS
  Consumer,     \* coroutines that await next()
  Canceller,    \* threads that call cancel() or push_exception()
  Item,         \* what producers push
  Failure,      \* exceptions given to push_exception; operation_cancelled is
                \* the one cancel() makes
  None,         \* std::monostate, a null exception_ptr
  MaxQueue,     \* bound: length of the queue at a push
  MaxReceived   \* bound: completed co_awaits of a consumer

ASSUME QueueAssumption ==
  /\ None \notin Item \cup Failure
  /\ Item \cap Failure = {}
  /\ MaxQueue \in Nat
  /\ MaxReceived \in Nat

VARIABLES
  queue,      \* async_multi_consumer_queue::queue
  exception,  \* async_multi_consumer_queue::exception
  clients,    \* async_multi_consumer_queue::clients, first to last
  phase,      \* phase[k]: where consumer k stands in co_await queue.next()
  value,      \* value[k]: aq_awaitable::value
  received,   \* what the consumer's co_awaits returned or threw, in order
  copy,       \* copy[t]: what is left of clients_copy in t's push_exception
  exception_  \* exception_[t]: its parameter

consumerVars == <<phase, value, received>>
vars == <<queue, exception, clients, phase, value, received, copy, exception_>>

(* As in AsyncQueue.                                                       *)
Phases == {"idle", "checked", "suspended", "posted", "resuming"}

Init ==
  /\ queue = <<>>
  /\ exception = None
  /\ clients = <<>>
  /\ phase = [k \in Consumer |-> "idle"]
  /\ value = [k \in Consumer |-> None]
  /\ received = [k \in Consumer |-> <<>>]
  /\ copy = [t \in Canceller |-> <<>>]
  /\ exception_ = [t \in Canceller |-> None]

--------------------------------------------------------------------------------
(***************************************************************************)
(* A consumer.                                                             *)
(***************************************************************************)

(* Under the lock: an exception or the first item goes to k's awaitable.   *)
Take(k) ==
  /\ \/ /\ exception # None
        /\ value' = [value EXCEPT ![k] = exception]
        /\ UNCHANGED queue
     \/ /\ exception = None /\ queue # <<>>
        /\ value' = [value EXCEPT ![k] = Head(queue)]
        /\ queue' = Tail(queue)
  /\ phase' = [phase EXCEPT ![k] = "resuming"]

is_ready(k) ==
  /\ phase[k] = "idle"
  /\ Len(received[k]) < MaxReceived
  /\ \/ Take(k)
     \/ /\ exception = None /\ queue = <<>>
        /\ phase' = [phase EXCEPT ![k] = "checked"]
        /\ UNCHANGED <<queue, value>>
  /\ UNCHANGED <<exception, clients, received, copy, exception_>>

(* Mutant: await_suspend trusts what await_ready saw.                      *)
set_awaitable_unchecked(k) ==
  /\ phase[k] = "checked"
  /\ clients' = Append(clients, k)
  /\ phase' = [phase EXCEPT ![k] = "suspended"]
  /\ UNCHANGED <<queue, exception, value, received, copy, exception_>>

(* An exception is thrown from await_suspend, which is as if await_resume  *)
(* had thrown it.                                                          *)
set_awaitable(k) ==
  /\ phase[k] = "checked"
  /\ \/ /\ exception # None
        /\ received' = [received EXCEPT ![k] = Append(@, exception)]
        /\ phase' = [phase EXCEPT ![k] = "idle"]
        /\ UNCHANGED <<queue, value, clients>>
     \/ exception = None /\ Take(k) /\ UNCHANGED <<clients, received>>
     \/ /\ exception = None /\ queue = <<>>
        /\ clients' = Append(clients, k)
        /\ phase' = [phase EXCEPT ![k] = "suspended"]
        /\ UNCHANGED <<queue, value, received>>
  /\ UNCHANGED <<exception, copy, exception_>>

(* The thread pool runs the callback that resumes the coroutine.           *)
resume(k) ==
  /\ phase[k] = "posted"
  /\ phase' = [phase EXCEPT ![k] = "resuming"]
  /\ UNCHANGED <<queue, exception, clients, value, received, copy, exception_>>

(* next() makes a new awaitable for each co_await: the value goes with it. *)
await_resume(k) ==
  /\ phase[k] = "resuming"
  /\ received' = [received EXCEPT ![k] = Append(@, value[k])]
  /\ value' = [value EXCEPT ![k] = None]
  /\ phase' = [phase EXCEPT ![k] = "idle"]
  /\ UNCHANGED <<queue, exception, clients, copy, exception_>>

--------------------------------------------------------------------------------
(***************************************************************************)
(* The producers.                                                          *)
(***************************************************************************)

(* set_result or set_exception, and resume_on_background.                  *)
Hand(k, r) ==
  /\ value' = [value EXCEPT ![k] = r]
  /\ phase' = [phase EXCEPT ![k] = "posted"]

(* Mutant: the item is queued and the waiting consumers are left alone.    *)
drain_queued(i) ==
  /\ queue' = Append(queue, i)
  /\ UNCHANGED <<clients, phase, value>>

drain(i) ==
  \/ /\ clients # <<>>
     /\ clients' = Tail(clients)
     /\ Hand(Head(clients), i)
     /\ UNCHANGED queue
  \/ /\ clients = <<>>
     /\ queue' = Append(queue, i)
     /\ UNCHANGED <<clients, phase, value>>

(* push and emplace; once the queue has an exception they do nothing.      *)
push(i) ==
  /\ exception = None
  /\ Len(queue) < MaxQueue
  /\ drain(i)
  /\ UNCHANGED <<exception, received, copy, exception_>>

(* The critical section of push_exception and cancel ...                   *)
push_exception(t, e) ==
  /\ copy[t] = <<>>
  /\ exception' = e
  /\ clients' = <<>>
  /\ copy' = [copy EXCEPT ![t] = clients]
  /\ exception_' = [exception_ EXCEPT ![t] = e]
  /\ UNCHANGED <<queue, consumerVars>>

(* Mutant: the loop reads next from a client it has already resumed: it    *)
(* comes back to the client for it.                                        *)
notify_late(t) ==
  /\ copy[t] # <<>>
  /\ \/ /\ value[Head(copy[t])] = None
        /\ Hand(Head(copy[t]), exception_[t])
        /\ UNCHANGED copy
     \/ /\ value[Head(copy[t])] # None
        /\ copy' = [copy EXCEPT ![t] = Tail(@)]
        /\ UNCHANGED <<phase, value>>
  /\ UNCHANGED <<queue, exception, clients, received, exception_>>

(* Mutant: the loop stops after the first client.                          *)
notify_one(t) ==
  /\ copy[t] # <<>>
  /\ Hand(Head(copy[t]), exception_[t])
  /\ copy' = [copy EXCEPT ![t] = <<>>]
  /\ UNCHANGED <<queue, exception, clients, received, exception_>>

(* ... and one round of its loop, with no lock.                            *)
notify(t) ==
  /\ copy[t] # <<>>
  /\ Hand(Head(copy[t]), exception_[t])
  /\ copy' = [copy EXCEPT ![t] = Tail(@)]
  /\ UNCHANGED <<queue, exception, clients, received, exception_>>

(* clear() asserts that nobody waits: the caller's side of the contract.   *)
clear ==
  /\ clients = <<>>
  /\ queue' = <<>>
  /\ exception' = None
  /\ UNCHANGED <<clients, consumerVars, copy, exception_>>

--------------------------------------------------------------------------------
Next ==
  \/ \E k \in Consumer :
       is_ready(k) \/ set_awaitable(k) \/ resume(k) \/ await_resume(k)
  \/ \E i \in Item : push(i)
  \/ \E t \in Canceller, e \in Failure : push_exception(t, e)
  \/ \E t \in Canceller : notify(t)
  \/ clear

Spec == Init /\ [][Next]_vars

(* A coroutine that is running runs on to the end of the co_await it is    *)
(* in, the thread pool runs what it accepted, and a thread inside          *)
(* push_exception goes through its loop.  Nobody has to push and nobody    *)
(* has to call next().                                                     *)
Fairness ==
  /\ \A k \in Consumer :
       WF_vars(set_awaitable(k)) /\ WF_vars(resume(k)) /\ WF_vars(await_resume(k))
  /\ \A t \in Canceller : WF_vars(notify(t))

FairSpec == Spec /\ Fairness

--------------------------------------------------------------------------------
(***************************************************************************)
(* Properties.                                                             *)
(***************************************************************************)

(* The variables have their types.                                         *)
TypeOK ==
  /\ queue \in Seq(Item)
  /\ exception \in Failure \cup {None}
  /\ clients \in Seq(Consumer)
  /\ phase \in [Consumer -> Phases]
  /\ value \in [Consumer -> Item \cup Failure \cup {None}]
  /\ received \in [Consumer -> Seq(Item \cup Failure)]
  /\ copy \in [Canceller -> Seq(Consumer)]
  /\ exception_ \in [Canceller -> Failure \cup {None}]

(* Nobody waits for what is already there: an item or an exception that    *)
(* came in between await_ready and await_suspend was not missed.  And the  *)
(* assertion of clear() holds for whoever clears a queue that has been     *)
(* cancelled, whatever the consumers were doing at the time.               *)
NoStrandedConsumer == clients # <<>> => queue = <<>> /\ exception = None

Linked(list, k) == \E i \in DOMAIN list : list[i] = k

Distinct(list) == \A i, j \in DOMAIN list : list[i] = list[j] => i = j

(* An awaitable is linked in exactly one list while its consumer waits and *)
(* in none before and after: no loop walks over the hook of a consumer     *)
(* that was resumed (its frame may be gone), and none is forgotten.        *)
LinkedWhileSuspended ==
  /\ \A k \in Consumer :
       phase[k] = "suspended"
         <=> Linked(clients, k) \/ \E t \in Canceller : Linked(copy[t], k)
  /\ Distinct(clients)
  /\ \A t \in Canceller :
       /\ Distinct(copy[t])
       /\ \A k \in Consumer : Linked(copy[t], k) =>
            /\ ~Linked(clients, k)
            /\ \A u \in Canceller \ {t} : ~Linked(copy[u], k)

(* await_resume's assertion "broken invariant": a consumer is resumed with *)
(* a value or an exception, and has none while it waits.                   *)
ValueIffResumed ==
  \A k \in Consumer : value[k] # None <=> phase[k] \in {"posted", "resuming"}

(* What a thread in push_exception is about to hand out is an exception.   *)
CopyHasException ==
  \A t \in Canceller : copy[t] # <<>> => exception_[t] # None

(* The inductive invariant: the queue, its list of clients, the lists of   *)
(* the threads in push_exception and the awaitables agree in every state.  *)
Inv ==
  /\ TypeOK
  /\ NoStrandedConsumer
  /\ LinkedWhileSuspended
  /\ ValueIffResumed
  /\ CopyHasException

(* The queue is a first-in first-out channel of many consumers.  A         *)
(* consumer has received an item from the moment it is in its awaitable,   *)
(* and a failure from the moment it was taken off the list of clients.     *)
Doomed(k) == {t \in Canceller : Linked(copy[t], k)}

Taken(k) ==
  IF value[k] # None THEN Append(received[k], value[k])
  ELSE IF Doomed(k) # {}
  THEN Append(received[k], exception_[CHOOSE t \in Doomed(k) : TRUE])
  ELSE received[k]

Chan == INSTANCE Channel WITH
  contents <- queue,
  failure  <- exception,
  waiting  <- {k \in Consumer : Linked(clients, k)},
  received <- [k \in Consumer |-> Taken(k)]
ImplementsChannel == Chan!Spec

(* No consumer is left in a co_await for ever while the queue is failed,   *)
(* however often it is cleared and failed again; nor while there always is *)
(* something in it.                                                        *)
ConsumersServed ==
  \A k \in Consumer :
    []<>(exception # None) \/ <>[](queue # <<>> \/ exception # None)
      => []<>(phase[k] = "idle")
================================================================================
