--------------------------- MODULE MCTaskScheduler ---------------------------
(***************************************************************************)
(* Instances of TaskScheduler for TLC.  Tasks meet only in the list of the *)
(* loop and in its hand, so two of them, one of each kind, are enough to   *)
(* have one wait in a stale list while the other is executed.              *)
(***************************************************************************)
EXTENDS TaskScheduler
=============================================================================
