---------------------------- MODULE MCLifecycle ----------------------------
(* Values for the model checker: two threads may shut down the first       *)
(* process at once, one of them also the second process.                   *)
EXTENDS Lifecycle, TLC

CONSTANTS p1, p2, s1, s2

MCThreads == (p1 :> {s1, s2}) @@ (p2 :> {s2})
=============================================================================
