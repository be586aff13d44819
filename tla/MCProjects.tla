----------------------------- MODULE MCProjects -----------------------------
(***************************************************************************)
(* Instances of Projects for TLC.  Request slots, users and uuids are      *)
(* interchangeable; values are not: Merge_Defaults chooses one of them.    *)
(***************************************************************************)
EXTENDS Projects, TLC

ProjectSymmetry == Permutations(Requests) \cup Permutations(Users) \cup Permutations(Ids)
=============================================================================
