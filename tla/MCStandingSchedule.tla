------------------------- MODULE MCStandingSchedule -------------------------
(***************************************************************************)
(* StandingSchedule on small instances.  Fresh task ids are chosen, not    *)
(* drawn, which is the reduction symmetry would give and is sound for the  *)
(* temporal properties too.                                                *)
(***************************************************************************)
EXTENDS StandingSchedule, TLC
=============================================================================
