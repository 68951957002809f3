---------------------------- MODULE MCMetaAgent -----------------------------
(***************************************************************************)
(* Instances of MetaAgent for TLC.                                         *)
(***************************************************************************)
EXTENDS MetaAgent

\* One score on each side of the detector's thresholds (floor 4, low 5, drop 3).
ThresholdScores == {2, 4, 6, 9}
=============================================================================
