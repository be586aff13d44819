---------------------------- MODULE MCEmailQueue ----------------------------
(***************************************************************************)
(* The instance of EmailQueue for TLC.  Its run checks liveness, so it has *)
(* no symmetry.                                                            *)
(***************************************************************************)
EXTENDS EmailQueue, TLC
=============================================================================
