---------------------------- MODULE MCCancellation ----------------------------
(***************************************************************************)
(* Instances of Cancellation for TLC: trees of up to three sources, in     *)
(* every shape and order of creation, and the coroutine of one token.      *)
(***************************************************************************)
EXTENDS Cancellation
================================================================================
