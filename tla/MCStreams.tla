------------------------------- MODULE MCStreams -------------------------------
(***************************************************************************)
(* The instances of MultiQueue and AsyncGenerator for TLC.  The two have   *)
(* nothing to do with each other: a behaviour is one of this or of that,   *)
(* while the other stays as it was made.                                   *)
(*                                                                         *)
(* Of MultiQueue, two consumers, which show who is served first, two       *)
(* items, which show a change of their order, and two threads that fail    *)
(* the queue at the same time and have a list of consumers each.  Of       *)
(* AsyncGenerator, up to three values, each of them yielded on the         *)
(* consumer's stack or later on another.                                   *)
(***************************************************************************)
EXTENDS MultiQueue, AsyncGenerator

VARIABLE used   \* which of the two a behaviour is about

MCInit == used \in {"multi_queue", "generator"} /\ Init /\ AGInit

MCNext ==
  /\ \/ used = "multi_queue" /\ Next /\ UNCHANGED agVars
     \/ used = "generator" /\ AGNext /\ UNCHANGED vars
  /\ UNCHANGED used

MCSpec == MCInit /\ [][MCNext]_<<used, vars, agVars>> /\ Fairness /\ AGFairness
================================================================================
