------------------------- MODULE MCCallbackMarkers -------------------------
(* Instances of CallbackMarkers for TLC. *)
EXTENDS CallbackMarkers, TLC

\* The same model and account, enforced and track-only.
MCKinds == {[model |-> "m", auth |-> "a", managed |-> TRUE],
            [model |-> "m", auth |-> "a", managed |-> FALSE]}

\* One model, enforced.
MCOneKind == {[model |-> "m", auth |-> "a", managed |-> TRUE]}

MCSymmetry == Permutations(Requests) \cup Permutations(Keys) \cup Permutations(Hashes)
=============================================================================
