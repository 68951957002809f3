--------------------------- MODULE MCOrchestrator ---------------------------
(***************************************************************************)
(* Instances of Orchestrator for TLC.                                      *)
(***************************************************************************)
EXTENDS Orchestrator, TLC

\* The jobs are interchangeable; used for the safety runs only.
JobSymmetry == Permutations(Jobs)
=============================================================================
