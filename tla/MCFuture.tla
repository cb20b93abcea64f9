------------------------------- MODULE MCFuture -------------------------------
(***************************************************************************)
(* Instances of Future for TLC.  Three coroutines are enough for a chain   *)
(* (Main awaits c1, c1 awaits c2, c2 awaits c3), for two children of one   *)
(* parent and for a future that moves from parent to child.                *)
(***************************************************************************)
EXTENDS Future
================================================================================
