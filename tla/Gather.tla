--------------------------------- MODULE Gather --------------------------------
(***************************************************************************)
(* What co_await when_all(...) and co_await when_any(...) promise, with no *)
(* helper, no counter and no handle: awaitables end in any order, each     *)
(* once, and the coroutine is given one answer: when all of them have      *)
(* ended, what all of them gave, or the first exception that one of them   *)
(* threw; or when one has ended, what that one gave.                       *)
(***************************************************************************)
EXTENDS Naturals, Sequences

CONSTANTS
  Task,       \* awaitables, by their position
  None        \* no exception

VARIABLES
  all,        \* when_all, or when_any
  n,          \* how many awaitables there are
  outcome,    \* outcome[t]: none, value or exception
  thrown,     \* the awaitables that threw, in that order
  given,      \* the coroutine has its answer,
  answer      \* this one

vars == <<all, n, outcome, thrown, given, answer>>

Answer(e, r, i) == [exception |-> e, results |-> r, index |-> i]

Init ==
  /\ all \in BOOLEAN /\ n \in Nat
  /\ outcome = [t \in Task |-> "none"] /\ thrown = <<>>
  /\ ~given /\ answer = Answer(None, {}, 0)

End(t) ==
  /\ t <= n /\ outcome[t] = "none"
  /\ \/ outcome' = [outcome EXCEPT ![t] = "value"] /\ UNCHANGED thrown
     \/ outcome' = [outcome EXCEPT ![t] = "exception"] /\ thrown' = Append(thrown, t)
  /\ UNCHANGED <<all, n, given, answer>>

GiveAll ==
  /\ all
  /\ \A t \in 1 .. n : outcome[t] # "none"
  /\ answer' = Answer(IF thrown = <<>> THEN None ELSE Head(thrown),
                      {t \in 1 .. n : outcome[t] = "value"}, 0)

GiveFirst ==
  /\ ~all
  /\ \E t \in 1 .. n :
       \/ outcome[t] = "value" /\ answer' = Answer(None, {t}, t)
       \/ outcome[t] = "exception" /\ answer' = Answer(t, {}, 0)

(* The first of none: no answer at once.                                   *)
GiveNothing == ~all /\ n = 0 /\ answer' = Answer(None, {}, 0)

Give ==
  /\ ~given /\ given'
  /\ GiveAll \/ GiveFirst \/ GiveNothing
  /\ UNCHANGED <<all, n, outcome, thrown>>

Next == (\E t \in Task : End(t)) \/ Give

Spec == Init /\ [][Next]_vars
================================================================================
