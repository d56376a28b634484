----------------------------- MODULE MCRunStream -----------------------------
(* RunStream on small instances.                                           *)
EXTENDS RunStream, TLC
=============================================================================
