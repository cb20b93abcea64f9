-------------------------------- MODULE MCWhen ---------------------------------
(***************************************************************************)
(* Instances of When for TLC.  Three awaitables: one that is the first to  *)
(* end, one that ends at the same time and one that ends later or never.   *)
(***************************************************************************)
EXTENDS When
================================================================================
