----------------------------- MODULE MCRateSync -----------------------------
(* Instances of RateSync for TLC. *)
EXTENDS RateSync, TLC

MCSymmetry == Permutations(Models)
=============================================================================
