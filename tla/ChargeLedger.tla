---------------------------- MODULE ChargeLedger ---------------------------
(***************************************************************************)
(* What the persistence pipeline of codex-carpool promises, without        *)
(* queues, shards, batches or retries: charges are accepted into buckets,  *)
(* what was accepted becomes durable, a crash loses what was not durable   *)
(* yet, and a reset erases one Key.                                        *)
(***************************************************************************)
EXTENDS Naturals

CONSTANTS Keys, Bucket      \* every bucket b has a Key, b.key

VARIABLES
  accepted,     \* [Bucket -> units]: accepted and not lost or erased since
  persisted     \* [Bucket -> units]: what a restart would find

vars == <<accepted, persisted>>

Init ==
  /\ accepted = [b \in Bucket |-> 0]
  /\ persisted = [b \in Bucket |-> 0]

Accept(b) ==
  /\ accepted'[b] > accepted[b]
  /\ accepted' = [accepted EXCEPT ![b] = accepted'[b]]
  /\ UNCHANGED persisted

Persist ==
  /\ persisted' \in [Bucket -> Nat]
  /\ \A b \in Bucket : persisted[b] <= persisted'[b] /\ persisted'[b] <= accepted[b]
  /\ UNCHANGED accepted

Lose ==
  /\ accepted' = persisted
  /\ UNCHANGED persisted

Erased(f, k) == [b \in Bucket |-> IF b.key = k THEN 0 ELSE f[b]]

Erase(k) ==
  /\ accepted' = Erased(accepted, k)
  /\ persisted' = Erased(persisted, k)

Next ==
  \/ \E b \in Bucket : Accept(b)
  \/ Persist
  \/ Lose
  \/ \E k \in Keys : Erase(k)

Spec == Init /\ [][Next]_vars
=============================================================================
