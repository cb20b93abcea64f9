--------------------------- MODULE MCAutoCancelTimer ---------------------------
(***************************************************************************)
(* Instances of AutoCancelTimer for TLC: one coroutine, one source.        *)
(***************************************************************************)
EXTENDS AutoCancelTimer
================================================================================
