----------------------------- MODULE MCSessions -----------------------------
(***************************************************************************)
(* Instances of Sessions for TLC.  Request slots are interchangeable.      *)
(***************************************************************************)
EXTENDS Sessions, TLC

SlotSymmetry == Permutations(Requests)
=============================================================================
