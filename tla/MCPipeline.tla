----------------------------- MODULE MCPipeline -----------------------------
(***************************************************************************)
(* Small instances of Pipeline for TLC.                                    *)
(***************************************************************************)
EXTENDS Pipeline, TLC

ThreadSymmetry == Permutations(Clients) \cup Permutations(Workers)
=============================================================================
