-------------------------------- MODULE OneShot --------------------------------
(***************************************************************************)
(* What a corsl::future<T> promises its user, with no lock, no handle and  *)
(* no frame: a coroutine completes once, and its completion is handed to   *)
(* the holder of the future at most once, unaltered, and never before the  *)
(* coroutine has completed.                                                *)
(***************************************************************************)
CONSTANTS
  Coro,       \* coroutines that return a future
  Result,     \* what a coroutine may complete with: a value or an exception
  None        \* no result yet

VARIABLES
  outcome,    \* outcome[c]: what coroutine c completed with
  got         \* got[c]: what the holder of c's future received

vars == <<outcome, got>>

Init ==
  /\ outcome = [c \in Coro |-> None]
  /\ got = [c \in Coro |-> None]

Complete(c) ==
  /\ outcome[c] = None
  /\ \E r \in Result : outcome' = [outcome EXCEPT ![c] = r]
  /\ UNCHANGED got

Deliver(c) ==
  /\ outcome[c] # None
  /\ got[c] = None
  /\ got' = [got EXCEPT ![c] = outcome[c]]
  /\ UNCHANGED outcome

Next == \E c \in Coro : Complete(c) \/ Deliver(c)

Spec == Init /\ [][Next]_vars
================================================================================
