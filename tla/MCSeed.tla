------------------------------- MODULE MCSeed -------------------------------
(***************************************************************************)
(* The instance of Seed, and of Registration in it, for TLC.  Its run      *)
(* checks liveness, so it has no symmetry.                                 *)
(***************************************************************************)
EXTENDS Seed, TLC
=============================================================================
