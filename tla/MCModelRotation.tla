-------------------------- MODULE MCModelRotation --------------------------
(* The instance of ModelRotation for TLC: the pool and the limit as shipped. *)
EXTENDS ModelRotation
=============================================================================
