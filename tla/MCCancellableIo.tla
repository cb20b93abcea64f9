---------------------------- MODULE MCCancellableIo ----------------------------
(***************************************************************************)
(* The instance of CancellableIo for TLC: one co_await of each of the      *)
(* seven awaitables, with and without a timeout.                           *)
(***************************************************************************)
EXTENDS CancellableIo
================================================================================
