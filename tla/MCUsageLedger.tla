--------------------------- MODULE MCUsageLedger ---------------------------
(* An instance of UsageLedger for TLC: the cost bucket of a Key lies in    *)
(* another shard than its token bucket and its logs.                       *)
EXTENDS UsageLedger

MCSlots  == {1}
MCShards == [sk \in (Scopes \cup {"log"}) \X Keys |-> IF sk[1] = "key_cost" THEN 1 ELSE 2]
=============================================================================
