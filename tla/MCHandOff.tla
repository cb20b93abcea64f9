------------------------------- MODULE MCHandOff -------------------------------
(***************************************************************************)
(* The instances of SharedFuture and AsyncQueue for TLC.  The two have     *)
(* nothing to do with each other: a behaviour is one of this or of that,   *)
(* while the other stays as it was made.                                   *)
(*                                                                         *)
(* Of SharedFuture, three users: one who starts the wait, one who joins it *)
(* and one who comes and goes; the result is a value or an exception.  Of  *)
(* AsyncQueue, two items, which show a change of order, two exceptions,    *)
(* which show which one wins, and a queue of two with five co_awaits, so   *)
(* that a consumer waits, is failed, fails again and recovers.             *)
(***************************************************************************)
EXTENDS SharedFuture, AsyncQueue

VARIABLE used   \* which of the two a behaviour is about

MCInit == used \in {"shared_future", "async_queue"} /\ Init /\ AQInit

MCNext ==
  /\ \/ used = "shared_future" /\ Next /\ UNCHANGED aqVars
     \/ used = "async_queue" /\ AQNext /\ UNCHANGED vars
  /\ UNCHANGED used

MCSpec == MCInit /\ [][MCNext]_<<used, vars, aqVars>> /\ Fairness /\ AQFairness
================================================================================
