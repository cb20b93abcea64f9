-------------------------------- MODULE Channel --------------------------------
(***************************************************************************)
(* What async_queue and async_multi_consumer_queue promise: a first-in     *)
(* first-out channel that can fail.  Every item put in is received by one  *)
(* consumer, in order; a failure overtakes the items, reaches every        *)
(* waiting consumer and every one that asks later, and lasts until the     *)
(* channel is cleared.  There is no lock, no handle and no thread pool     *)
(* here: a consumer has received an item from the moment it is its own.    *)
(***************************************************************************)
EXTENDS Sequences

CONSTANTS
  Consumer,   \* who asks for items
  Item,       \* what is put in
  Failure,    \* exceptions a channel may fail with
  None        \* no failure

VARIABLES
  contents,   \* the items nobody has received, oldest first
  failure,    \* the failure, if there is one
  waiting,    \* the consumers that asked and have not received
  received    \* received[k]: everything consumer k received, in order

vars == <<contents, failure, waiting, received>>

Init ==
  /\ contents = <<>>
  /\ failure = None
  /\ waiting = {}
  /\ received = [k \in Consumer |-> <<>>]

Receives(k, r) == received' = [received EXCEPT ![k] = Append(@, r)]

(* A waiting consumer gets the item; without one it queues up.  A channel  *)
(* that has failed takes no items.                                         *)
Put(i) ==
  /\ failure = None
  /\ \/ \E k \in waiting : Receives(k, i) /\ waiting' = waiting \ {k}
        /\ UNCHANGED contents
     \/ /\ waiting = {}
        /\ contents' = Append(contents, i)
        /\ UNCHANGED <<waiting, received>>
  /\ UNCHANGED failure

Fail(e) ==
  /\ failure' = e
  /\ received' = [k \in Consumer |-> IF k \in waiting THEN Append(received[k], e)
                                     ELSE received[k]]
  /\ waiting' = {}
  /\ UNCHANGED contents

Clear ==
  /\ contents' = <<>>
  /\ failure' = None
  /\ UNCHANGED <<waiting, received>>

Get(k) ==
  /\ k \notin waiting
  /\ \/ failure # None /\ Receives(k, failure) /\ UNCHANGED contents
     \/ /\ failure = None /\ contents # <<>>
        /\ Receives(k, Head(contents))
        /\ contents' = Tail(contents)
  /\ UNCHANGED <<failure, waiting>>

(* A consumer waits only when there is nothing for it.                     *)
Wait(k) ==
  /\ k \notin waiting
  /\ failure = None
  /\ contents = <<>>
  /\ waiting' = waiting \cup {k}
  /\ UNCHANGED <<contents, failure, received>>

Next ==
  \/ \E i \in Item : Put(i)
  \/ \E e \in Failure : Fail(e)
  \/ Clear
  \/ \E k \in Consumer : Get(k) \/ Wait(k)

Spec == Init /\ [][Next]_vars
================================================================================
