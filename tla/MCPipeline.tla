----------------------------- MODULE MCPipeline -----------------------------
(***************************************************************************)
(* Instances of Pipeline for TLC.  Clients are interchangeable; requests   *)
(* are numbered.                                                           *)
(***************************************************************************)
EXTENDS Pipeline, TLC

ClientSymmetry == Permutations(Clients)
=============================================================================
