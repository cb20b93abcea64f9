----------------------------- MODULE MCAsyncTimer -----------------------------
(***************************************************************************)
(* Instances of AsyncTimer for TLC.  Two callbacks are what one timer can  *)
(* have in flight when a thread sets it late; two waits let a cancel() and *)
(* a late setting of the timer reach a wait they were not meant for, and   *)
(* two threads cancel at the same time.                                    *)
(***************************************************************************)
EXTENDS AsyncTimer
================================================================================
