---------------------------- MODULE MCTaskQueue -----------------------------
(* TaskQueue on small instances.                                           *)
EXTENDS TaskQueue, TLC
=============================================================================
