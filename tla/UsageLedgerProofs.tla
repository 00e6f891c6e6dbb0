------------------------- MODULE UsageLedgerProofs -------------------------
(***************************************************************************)
(* Theorems about UsageLedger, for every value of its constants: its types,*)
(* the conservation of charges, the ages of the shards, what becomes of    *)
(* every decision log, that the two counters tell what is queued, how far a*)
(* queue may exceed its limit, what a reset erases, and that it implements *)
(* ChargeLedger.                                                           *)
(***************************************************************************)
EXTENDS UsageLedger, FiniteSetTheorems, Sums, TLAPS

-----------------------------------------------------------------------------
(* Lemmas about the operators.                                              *)

\* ShardOfBucket and LogShard name a shard.
LEMMA ShardTyping ==
  /\ \A b \in Bucket : ShardOfBucket(b) \in Shards
  /\ \A k \in Keys : LogShard(k) \in Shards
<1>1. \A b \in Bucket : <<b.scope, b.key>> \in (Scopes \cup {"log"}) \X Keys
  BY DEF Bucket
<1>2. \A k \in Keys : <<"log", k>> \in (Scopes \cup {"log"}) \X Keys
  OBVIOUS
<1>. QED BY <1>1, <1>2, ShardAssumption DEF ShardOfBucket, LogShard

\* The parts of the queue that the counters count are finite.
LEMMA CountedSetsFinite ==
  \A s \in Shards : /\ Cardinality(Taken(s)) \in Nat
                    /\ Cardinality(Taken(s) \ Queued(s)) \in Nat
<1>1. \A s \in Shards : Taken(s) \subseteq Bucket /\ (Taken(s) \ Queued(s)) \subseteq Bucket
  BY DEF Taken, Queued, InShard
<1>. QED BY <1>1, ChargeAssumption, FS_Subset, FS_CardinalityType

\* The bucket a running callback charges is a bucket.
LEMMA ChargedBucket ==
  ASSUME NEW c, c.key \in Keys, c.slot \in Slots
  PROVE  CostBucket(c) \in Bucket /\ ActualBucket(c) \in Bucket
BY DEF Bucket, CostBucket, ActualBucket, Scopes

\* Moving a flush on to another step or another shard keeps its record.
LEMMA FlushMoves ==
  ASSUME flush \in Flush,
         NEW p \in {"idle", "take", "restore", "settle"},
         NEW a \in 0..(ShardCount + 1),
         NEW d \in SUBSET Shards,
         \/ flush' = [flush EXCEPT !.pc = p, !.at = a]
         \/ flush' = [flush EXCEPT !.at = a] /\ flush.pc # "release"
         \/ flush' = [flush EXCEPT !.pc = "release", !.batch = d] /\ flush.at \in Shards
  PROVE  FlushTypes'
<1>1. CASE flush' = [flush EXCEPT !.pc = p, !.at = a]
  BY <1>1 DEF Flush, FlushTypes
<1>2. CASE flush' = [flush EXCEPT !.at = a] /\ flush.pc # "release"
  BY <1>2 DEF Flush, FlushTypes
<1>3. CASE flush' = [flush EXCEPT !.pc = "release", !.batch = d] /\ flush.at \in Shards
  BY <1>3 DEF Flush, FlushTypes
<1>. QED BY <1>1, <1>2, <1>3

-----------------------------------------------------------------------------
(* Type correctness: the ledgers.                                           *)

\* A charge keeps the ledgers ledgers ...
LEMMA ChargeLedgerTypes ==
  ASSUME LedgerTypes, NEW b \in Bucket, NEW u \in Nat, Charge(b, u)
  PROVE  /\ meter' \in [Bucket -> Nat]
         /\ refused' \in [Bucket -> Nat]
         /\ pending' \in [Bucket -> Nat]
<1>1. \A f \in [Bucket -> Nat] : AddTo(f, b, u) \in [Bucket -> Nat]
  BY DEF AddTo
<1>2. CASE Refuses(b)
  BY <1>1, <1>2 DEF Charge, LedgerTypes
<1>3. CASE ~Refuses(b)
  BY <1>1, <1>3 DEF Charge, LedgerTypes
<1>. QED BY <1>2, <1>3

\* ... and the queue well typed.
LEMMA ChargeQueueTypes ==
  ASSUME QueueTypes, NEW b \in Bucket, NEW u \in Nat, Charge(b, u), now \in Nat
  PROVE  /\ bucketCount' \in Int
         /\ since' \in [Shards -> Nat]
<1>1. bucketCount' \in Int
  BY DEF Charge, QueueTypes
<1>2. since' \in [Shards -> Nat]
  BY DEF Charge, QueueTypes, Stamp
<1>. QED BY <1>1, <1>2

\* A callback that moves on, or returns, keeps the callbacks well typed.
LEMMA CallMoves ==
  ASSUME CallTypes, NEW w \in Callers, NEW k \in Keys, NEW t \in Slots,
         NEW p \in {"costRefused", "log", "actual", "actualRefused"},
         \/ call' = [call EXCEPT ![w] = [pc |-> p, key |-> k, slot |-> t]]
         \/ call' = [call EXCEPT ![w] = [@ EXCEPT !.pc = p]] /\ call[w].pc # "idle"
         \/ call' = [call EXCEPT ![w] = IdleCall]
  PROVE  CallTypes'
<1>1. CASE call' = [call EXCEPT ![w] = [pc |-> p, key |-> k, slot |-> t]]
  BY <1>1 DEF CallTypes, Call
<1>2. CASE call' = [call EXCEPT ![w] = [@ EXCEPT !.pc = p]] /\ call[w].pc # "idle"
  BY <1>2 DEF CallTypes, Call
<1>3. CASE call' = [call EXCEPT ![w] = IdleCall]
  BY <1>3 DEF CallTypes, Call, IdleCall
<1>. QED BY <1>1, <1>2, <1>3

\* A decision log keeps the queue well typed.
LEMMA EnqueueDecisionTypes ==
  ASSUME QueueTypes, now \in Nat, NEW k \in Keys, EnqueueDecision(k)
  PROVE  /\ logs' \in [Shards -> Nat]
         /\ since' \in [Shards -> Nat]
         /\ logCount' \in Int
         /\ droppedLogs' \in Nat
         /\ madeLogs' \in Nat
<1>1. logs' \in [Shards -> Nat] /\ since' \in [Shards -> Nat]
  BY DEF EnqueueDecision, QueueTypes, Stamp
<1>2. logCount' \in Int /\ droppedLogs' \in Nat /\ madeLogs' \in Nat
  BY DEF EnqueueDecision, QueueTypes
<1>. QED BY <1>1, <1>2

\* Every initial state is well typed.
LEMMA TypeInit == Init => TypeOK
<1>. SUFFICES ASSUME Init PROVE TypeOK
  OBVIOUS
<1>1. LedgerTypes
  BY DEF Init, LedgerTypes, Nothing
<1>2. QueueTypes
  BY DEF Init, QueueTypes, NoLogs, Never
<1>3. FlushTypes
  BY ShardAssumption DEF Init, FlushTypes, IdleFlush, Flush
<1>4. CallTypes
  BY DEF Init, CallTypes, IdleCall, Call
<1>5. ResetTypes
  BY DEF Init, ResetTypes, IdleReset, Reset
<1>6. BoundTypes
  BY LimitAssumption DEF Init, BoundTypes
<1>. QED BY <1>1, <1>2, <1>3, <1>4, <1>5, <1>6 DEF TypeOK

\* Every step keeps the state well typed.
LEMMA TypeStep == TypeOK /\ [Next]_vars => TypeOK'
<1>. SUFFICES ASSUME LedgerTypes, QueueTypes, FlushTypes, CallTypes, ResetTypes, BoundTypes, [Next]_vars
              PROVE  TypeOK'
  BY DEF TypeOK
<1>. USE DEF queues, history, stored, bounds, FlushUnchanged
<1>0. now \in Nat /\ degraded \in BOOLEAN
  BY LimitAssumption DEF BoundTypes, ResetTypes
<1>1. ASSUME NEW w \in Callers, NEW k \in Keys, NEW t \in Slots, NEW m \in Amounts \cup {0},
             RecordUsage(w, k, t, m)
      PROVE  TypeOK'
  <2>. DEFINE c == [pc |-> "log", key |-> k, slot |-> t]
  <2>1. CostBucket(c) \in Bucket /\ m \in Nat
    BY ChargedBucket, ChargeAssumption
  <2>2. \/ Charge(CostBucket(c), m)
        \/ UNCHANGED <<meter, pending, bucketCount, since, refused>>
    BY <1>1 DEF RecordUsage
  <2>3. LedgerTypes'
    BY <1>1, <2>1, <2>2, ChargeLedgerTypes DEF RecordUsage, LedgerTypes
  <2>4. QueueTypes' /\ degraded' \in BOOLEAN
    BY <1>0, <1>1, <2>1, <2>2, ChargeQueueTypes DEF RecordUsage, QueueTypes
  <2>5. PICK p \in {"log", "costRefused"} :
            call' = [call EXCEPT ![w] = [pc |-> p, key |-> k, slot |-> t]]
    BY <1>1 DEF RecordUsage
  <2>6. CallTypes' /\ UNCHANGED <<flush, reset>>
    BY <1>1, <2>5, CallMoves DEF RecordUsage
  <2>7. FlushTypes' /\ ResetTypes'
    BY <2>4, <2>6 DEF FlushTypes, ResetTypes
  <2>8. BoundTypes'
    BY <1>1, LimitAssumption DEF RecordUsage, BoundTypes
  <2>. QED BY <2>3, <2>4, <2>6, <2>7, <2>8 DEF TypeOK
<1>2. ASSUME NEW w \in Callers, RecordLog(w)
      PROVE  TypeOK'
  <2>1. call[w].key \in Keys
    BY <1>2 DEF RecordLog, CallTypes
  <2>2. QueueTypes'
    BY <1>0, <1>2, <2>1, EnqueueDecisionTypes DEF RecordLog, QueueTypes
  <2>3. CallTypes'
    BY <1>2 DEF RecordLog, CallTypes, Call
  <2>4. LedgerTypes' /\ FlushTypes' /\ ResetTypes' /\ BoundTypes'
    BY <1>2 DEF RecordLog, LedgerTypes, FlushTypes, ResetTypes, BoundTypes
  <2>. QED BY <2>2, <2>3, <2>4 DEF TypeOK
<1>3. ASSUME NEW w \in Callers, NEW u \in Amounts, RecordActual(w, u)
      PROVE  TypeOK'
  <2>1. ActualBucket(call[w]) \in Bucket /\ u \in Nat /\ Charge(ActualBucket(call[w]), u)
    BY <1>3, ChargedBucket, ChargeAssumption DEF RecordActual, CallTypes
  <2>2. LedgerTypes'
    BY <1>3, <2>1, ChargeLedgerTypes DEF RecordActual, LedgerTypes
  <2>3. QueueTypes' /\ degraded' \in BOOLEAN
    BY <1>0, <1>3, <2>1, ChargeQueueTypes DEF RecordActual, QueueTypes
  <2>4. /\ \/ call' = [call EXCEPT ![w] = [@ EXCEPT !.pc = "actualRefused"]] /\ call[w].pc # "idle"
           \/ call' = [call EXCEPT ![w] = IdleCall]
        /\ call[w].key \in Keys /\ call[w].slot \in Slots /\ UNCHANGED <<flush, reset>>
    BY <1>3 DEF RecordActual, CallTypes
  <2>5. CallTypes'
    BY <2>4, CallMoves
  <2>6. FlushTypes' /\ ResetTypes'
    BY <2>3, <2>4 DEF FlushTypes, ResetTypes
  <2>7. BoundTypes'
    BY <1>3 DEF RecordActual, BoundTypes
  <2>. QED BY <2>2, <2>3, <2>5, <2>6, <2>7 DEF TypeOK
<1>4. ASSUME NEW k \in Keys, LogDecision(k)
      PROVE  TypeOK'
  <2>1. QueueTypes'
    BY <1>0, <1>4, EnqueueDecisionTypes DEF LogDecision, QueueTypes
  <2>2. LedgerTypes' /\ FlushTypes' /\ CallTypes' /\ ResetTypes'
    BY <1>4 DEF LogDecision, LedgerTypes, FlushTypes, CallTypes, ResetTypes
  <2>3. BoundTypes'
    BY <1>4, LimitAssumption DEF LogDecision, BoundTypes
  <2>. QED BY <2>1, <2>2, <2>3 DEF TypeOK
<1>5. CASE FlushTick
  <2>1. FlushTypes'
    BY <1>5, ShardAssumption DEF FlushTick, FlushTypes, Flush, Shards, StartFlush, IdleFlush
  <2>2. LedgerTypes' /\ QueueTypes' /\ CallTypes' /\ ResetTypes' /\ BoundTypes'
    BY <1>5 DEF FlushTick, LedgerTypes, QueueTypes, CallTypes, ResetTypes, BoundTypes
  <2>. QED BY <2>1, <2>2 DEF TypeOK
<1>6. CASE FlushTake
  <2>1. LedgerTypes'
    BY <1>6 DEF FlushTake, LedgerTypes
  <2>2. QueueTypes'
    BY <1>6 DEF FlushTake, QueueTypes
  <2>3. FlushTypes'
    <3>1. /\ flush \in Flush /\ flush.pc = "take" /\ flush.at \in Shards
          /\ flush.at + 1 \in 0..(ShardCount + 1)
          /\ flush.batch \cup {flush.at} \in SUBSET Shards
      BY <1>6, ShardAssumption DEF FlushTake, FlushTypes, Flush, Shards
    <3>2. \/ flush' = [flush EXCEPT !.at = flush.at + 1]
          \/ flush' = [flush EXCEPT !.pc = "release", !.batch = flush.batch \cup {flush.at}]
      BY <1>6 DEF FlushTake
    <3>. QED BY <3>1, <3>2, FlushMoves
  <2>4. CallTypes' /\ ResetTypes' /\ BoundTypes'
    BY <1>6 DEF FlushTake, CallTypes, ResetTypes, BoundTypes
  <2>. QED BY <2>1, <2>2, <2>3, <2>4 DEF TypeOK
<1>7. CASE FlushRelease
  <2>1. flush.at \in Shards
    BY <1>7 DEF FlushRelease, FlushTypes
  <2>2. QueueTypes'
    <3>0. Cardinality(Taken(flush.at)) \in Nat
      BY <2>1, CountedSetsFinite
    <3>1. bucketCount' = bucketCount - Cardinality(Taken(flush.at)) /\ bucketCount \in Int
      BY <1>7 DEF FlushRelease, QueueTypes
    <3>2. logCount' \in Int
      BY <1>7, <2>1 DEF FlushRelease, QueueTypes
    <3>3. bucketCount' \in Int
      BY <3>0, <3>1
    <3>. QED BY <1>7, <3>2, <3>3 DEF FlushRelease, QueueTypes
  <2>3. FlushTypes'
    <3>1. flush \in Flush /\ flush.at + 1 \in 0..(ShardCount + 1)
      BY <2>1, ShardAssumption DEF FlushTypes, Shards
    <3>2. flush' = [flush EXCEPT !.pc = "take", !.at = flush.at + 1]
      BY <1>7 DEF FlushRelease
    <3>. QED BY <3>1, <3>2, FlushMoves
  <2>4. LedgerTypes' /\ CallTypes' /\ ResetTypes' /\ BoundTypes'
    BY <1>7 DEF FlushRelease, LedgerTypes, CallTypes, ResetTypes, BoundTypes
  <2>. QED BY <2>2, <2>3, <2>4 DEF TypeOK
<1>8. CASE FlushNothing
  <2>1. FlushTypes'
    BY <1>8, ShardAssumption DEF FlushNothing, FlushTypes, Flush, Shards, Return, IdleFlush
  <2>2. ResetTypes'
    BY <1>8 DEF FlushNothing, ResetTypes, Return, Reset, IdleReset
  <2>3. LedgerTypes' /\ QueueTypes' /\ CallTypes' /\ BoundTypes'
    BY <1>8 DEF FlushNothing, LedgerTypes, QueueTypes, CallTypes, BoundTypes
  <2>. QED BY <2>1, <2>2, <2>3 DEF TypeOK
<1>9. CASE FlushCommit
  <2>1. LedgerTypes'
    BY <1>9 DEF FlushCommit, LedgerTypes, Nothing
  <2>2. QueueTypes'
    BY <1>9 DEF FlushCommit, QueueTypes, NoLogs
  <2>3. FlushTypes'
    <3>1. flush \in Flush /\ 1 \in 0..(ShardCount + 1)
      BY ShardAssumption DEF FlushTypes
    <3>2. flush' = [flush EXCEPT !.pc = "settle", !.at = 1]
      BY <1>9 DEF FlushCommit
    <3>. QED BY <3>1, <3>2, FlushMoves
  <2>4. CallTypes' /\ ResetTypes' /\ BoundTypes'
    BY <1>9 DEF FlushCommit, CallTypes, ResetTypes, BoundTypes
  <2>. QED BY <2>1, <2>2, <2>3, <2>4 DEF TypeOK
<1>10. CASE FlushFail
  <2>1. FlushTypes'
    <3>1. flush \in Flush /\ 1 \in 0..(ShardCount + 1)
      BY ShardAssumption DEF FlushTypes
    <3>2. flush' = [flush EXCEPT !.pc = "restore", !.at = 1]
      BY <1>10 DEF FlushFail
    <3>. QED BY <3>1, <3>2, FlushMoves
  <2>2. ResetTypes'
    BY <1>10 DEF FlushFail, ResetTypes
  <2>3. BoundTypes'
    BY <1>10, LimitAssumption DEF FlushFail, BoundTypes
  <2>4. LedgerTypes' /\ QueueTypes' /\ CallTypes'
    BY <1>10 DEF FlushFail, LedgerTypes, QueueTypes, CallTypes
  <2>. QED BY <2>1, <2>2, <2>3, <2>4 DEF TypeOK
<1>11. CASE FlushRestore
  <2>1. flush.at \in Shards
    BY <1>11 DEF FlushRestore
  <2>2. FlushTypes'
    <3>1. /\ flush \in Flush /\ flush.pc # "release"
          /\ flush.at + 1 \in 0..(ShardCount + 1)
      BY <1>11, ShardAssumption DEF FlushRestore, FlushTypes, Shards
    <3>2. flush' = [flush EXCEPT !.at = flush.at + 1]
      BY <1>11 DEF FlushRestore
    <3>. QED BY <3>1, <3>2, FlushMoves
  <2>3. CallTypes' /\ ResetTypes' /\ BoundTypes'
    BY <1>11 DEF FlushRestore, CallTypes, ResetTypes, BoundTypes
  <2>4. LedgerTypes'
    BY <1>11 DEF FlushRestore, LedgerTypes
  <2>5. QueueTypes'
    <3>. DEFINE s    == flush.at
                room == LesserOf(flightLogs[s], IF logCount >= MaxLogs THEN 0 ELSE MaxLogs - logCount)
    <3>1. CASE s \notin flush.batch
      BY <1>11, <3>1 DEF FlushRestore, QueueTypes
    <3>2. CASE s \in flush.batch
      <4>1. room \in Nat /\ flightLogs[s] - room \in Nat
        BY <2>1, LimitAssumption DEF LesserOf, QueueTypes
      <4>2. logs' = [logs EXCEPT ![s] = @ + room] /\ logCount' = logCount + room
            /\ lostLogs' = lostLogs + (flightLogs[s] - room)
        BY <1>11, <3>2 DEF FlushRestore
      <4>3. logs' \in [Shards -> Nat] /\ logCount' \in Int /\ lostLogs' \in Nat
        BY <2>1, <4>1, <4>2 DEF QueueTypes
      <4>4. bucketCount' \in Int
        BY <1>11, <2>1, <3>2, CountedSetsFinite DEF FlushRestore, QueueTypes
      <4>5. since' \in [Shards -> Nat] /\ flightSince' \in [Shards -> Nat] /\ flightLogs' \in [Shards -> Nat]
        BY <1>11, <2>1, <3>2 DEF FlushRestore, QueueTypes
      <4>. QED BY <1>11, <4>3, <4>4, <4>5 DEF FlushRestore, QueueTypes
    <3>. QED BY <3>1, <3>2
  <2>. QED BY <2>2, <2>3, <2>4, <2>5 DEF TypeOK
<1>12. CASE FlushReturnError
  <2>1. FlushTypes'
    BY <1>12, ShardAssumption DEF FlushReturnError, FlushTypes, Flush, Shards, Return, IdleFlush
  <2>2. ResetTypes'
    BY <1>12 DEF FlushReturnError, ResetTypes, Return, Reset, IdleReset
  <2>3. LedgerTypes' /\ QueueTypes' /\ CallTypes' /\ BoundTypes'
    BY <1>12 DEF FlushReturnError, LedgerTypes, QueueTypes, CallTypes, BoundTypes
  <2>. QED BY <2>1, <2>2, <2>3 DEF TypeOK
<1>13. CASE FlushSettle
  <2>1. QueueTypes'
    BY <1>13 DEF FlushSettle, QueueTypes
  <2>2. FlushTypes'
    <3>1. /\ flush \in Flush /\ flush.pc # "release"
          /\ flush.at + 1 \in 0..(ShardCount + 1)
      BY <1>13, ShardAssumption DEF FlushSettle, FlushTypes, Shards
    <3>2. flush' = [flush EXCEPT !.at = flush.at + 1]
      BY <1>13 DEF FlushSettle
    <3>. QED BY <3>1, <3>2, FlushMoves
  <2>3. LedgerTypes' /\ CallTypes' /\ ResetTypes' /\ BoundTypes'
    BY <1>13 DEF FlushSettle, LedgerTypes, CallTypes, ResetTypes, BoundTypes
  <2>. QED BY <2>1, <2>2, <2>3 DEF TypeOK
<1>14. CASE FlushReturnOK
  <2>1. FlushTypes'
    BY <1>14, ShardAssumption DEF FlushReturnOK, FlushTypes, Flush, Shards, Return, IdleFlush
  <2>2. ResetTypes'
    BY <1>14 DEF FlushReturnOK, ResetTypes, Return, Reset, IdleReset
  <2>3. LedgerTypes' /\ QueueTypes' /\ CallTypes' /\ BoundTypes'
    BY <1>14 DEF FlushReturnOK, LedgerTypes, QueueTypes, CallTypes, BoundTypes
  <2>. QED BY <2>1, <2>2, <2>3 DEF TypeOK
<1>15. ASSUME NEW k \in Keys, BeginReset(k) PROVE TypeOK'
  <2>1. ResetTypes'
    BY <1>15 DEF BeginReset, ResetTypes, Reset
  <2>2. BoundTypes'
    BY <1>15, LimitAssumption DEF BeginReset, BoundTypes
  <2>3. LedgerTypes' /\ QueueTypes' /\ FlushTypes' /\ CallTypes'
    BY <1>15 DEF BeginReset, LedgerTypes, QueueTypes, FlushTypes, CallTypes
  <2>. QED BY <2>1, <2>2, <2>3 DEF TypeOK
<1>16. CASE ResetFlush
  <2>1. FlushTypes'
    BY <1>16, ShardAssumption DEF ResetFlush, FlushTypes, Flush, Shards, StartFlush, IdleFlush
  <2>2. LedgerTypes' /\ QueueTypes' /\ CallTypes' /\ ResetTypes' /\ BoundTypes'
    BY <1>16 DEF ResetFlush, LedgerTypes, QueueTypes, CallTypes, ResetTypes, BoundTypes
  <2>. QED BY <2>1, <2>2 DEF TypeOK
<1>17. CASE ResetDelete
  <2>1. LedgerTypes'
    BY <1>17 DEF ResetDelete, LedgerTypes, ClearKey
  <2>2. ResetTypes'
    BY <1>17 DEF ResetDelete, ResetTypes, Reset, IdleReset
  <2>3. QueueTypes' /\ FlushTypes' /\ CallTypes' /\ BoundTypes'
    BY <1>17 DEF ResetDelete, QueueTypes, FlushTypes, CallTypes, BoundTypes
  <2>. QED BY <2>1, <2>2, <2>3 DEF TypeOK
<1>18. CASE ResetDeleteFails
  <2>1. ResetTypes'
    BY <1>18 DEF ResetDeleteFails, ResetTypes, Reset, IdleReset
  <2>2. BoundTypes'
    BY <1>18, LimitAssumption DEF ResetDeleteFails, BoundTypes
  <2>3. LedgerTypes' /\ QueueTypes' /\ FlushTypes' /\ CallTypes'
    BY <1>18 DEF ResetDeleteFails, LedgerTypes, QueueTypes, FlushTypes, CallTypes
  <2>. QED BY <2>1, <2>2, <2>3 DEF TypeOK
<1>19. CASE Restart
  <2>1. LedgerTypes'
    BY <1>19 DEF Restart, LedgerTypes, Nothing
  <2>2. QueueTypes'
    BY <1>19 DEF Restart, QueueTypes, NoLogs, Never
  <2>3. FlushTypes'
    BY <1>19, ShardAssumption DEF Restart, FlushTypes, Flush, Shards, IdleFlush
  <2>4. CallTypes'
    BY <1>19 DEF Restart, CallTypes, Call, IdleCall
  <2>5. ResetTypes'
    BY <1>19 DEF Restart, ResetTypes, Reset, IdleReset
  <2>6. BoundTypes'
    BY <1>19, LimitAssumption DEF Restart, BoundTypes
  <2>. QED BY <2>1, <2>2, <2>3, <2>4, <2>5, <2>6 DEF TypeOK
<1>20. CASE Tick
  <2>1. BoundTypes'
    BY <1>20, LimitAssumption DEF Tick, BoundTypes
  <2>2. LedgerTypes' /\ QueueTypes' /\ FlushTypes' /\ CallTypes' /\ ResetTypes'
    BY <1>20 DEF Tick, LedgerTypes, QueueTypes, FlushTypes, CallTypes, ResetTypes
  <2>. QED BY <2>1, <2>2 DEF TypeOK
<1>21. ASSUME NEW w \in Callers, RaiseAlarm(w)
       PROVE  TypeOK'
  <2>1. /\ \/ call' = [call EXCEPT ![w] = [@ EXCEPT !.pc = "log"]] /\ call[w].pc # "idle"
           \/ call' = [call EXCEPT ![w] = IdleCall]
        /\ call[w].key \in Keys /\ call[w].slot \in Slots
    BY <1>21 DEF RaiseAlarm, CallTypes
  <2>2. CallTypes'
    BY <2>1, CallMoves
  <2>3. LedgerTypes' /\ QueueTypes' /\ FlushTypes' /\ ResetTypes' /\ BoundTypes'
    BY <1>21 DEF RaiseAlarm, LedgerTypes, QueueTypes, FlushTypes, ResetTypes, BoundTypes
  <2>. QED BY <2>2, <2>3 DEF TypeOK
<1>22. CASE UNCHANGED vars
  BY <1>22 DEF vars, TypeOK, LedgerTypes, QueueTypes, FlushTypes, CallTypes, ResetTypes, BoundTypes
<1>. QED
  BY <1>1, <1>2, <1>3, <1>4, <1>5, <1>6, <1>7, <1>8, <1>9, <1>10, <1>11, <1>12, <1>13,
     <1>14, <1>15, <1>16, <1>17, <1>18, <1>19, <1>20, <1>21, <1>22
  DEF Next, Callback, FlushStep, ResetStep

\* Every reachable state is well typed.
THEOREM TypeCorrect == Spec => []TypeOK
BY TypeInit, TypeStep, PTL DEF Spec

-----------------------------------------------------------------------------
(* Conservation.                                                            *)

\* A charge enters the meter and either the queue or the refused units.
LEMMA ChargeConserves ==
  ASSUME LedgerTypes, Conservation, NEW b \in Bucket, NEW u \in Nat, Charge(b, u),
         UNCHANGED <<flight, durable>>
  PROVE  Conservation'
<1>. SUFFICES ASSUME NEW c \in Bucket
              PROVE  meter'[c] = durable'[c] + pending'[c] + flight'[c] + refused'[c]
  BY DEF Conservation
<1>1. meter[c] = durable[c] + pending[c] + flight[c] + refused[c]
  BY DEF Conservation
<1>2. meter'[c] = IF c = b THEN meter[c] + u ELSE meter[c]
  BY DEF Charge, AddTo, LedgerTypes
<1>3. \/ /\ refused'[c] = IF c = b THEN refused[c] + u ELSE refused[c]
         /\ pending' = pending
      \/ /\ pending'[c] = IF c = b THEN pending[c] + u ELSE pending[c]
         /\ refused' = refused
  BY DEF Charge, AddTo, LedgerTypes
<1>. QED BY <1>1, <1>2, <1>3 DEF LedgerTypes

\* A shard that is about to be taken has nothing in flight.
LEMMA NothingInFlight ==
  ASSUME TypeOK, BatchCovers, FlushTake, NEW b \in InShard(flush.at)
  PROVE  flight[b] = 0
<1>1. b \in Bucket /\ ShardOfBucket(b) = flush.at /\ flush.pc = "take"
  BY DEF InShard, FlushTake
<1>2. flush.at \in Int
  BY DEF FlushTake, Shards
<1>3. flush.at \notin flush.batch
  BY <1>1, <1>2 DEF BatchCovers
<1>. QED BY <1>1, <1>3 DEF BatchCovers

\* Every step conserves the charges.
LEMMA ConservationStep ==
  ASSUME IInv, [Next]_vars
  PROVE  Conservation'
<1>. USE DEF queues, history, stored, bounds, FlushUnchanged
<1>0. LedgerTypes /\ Conservation /\ TypeOK
  BY DEF IInv, TypeOK
<1>1. ASSUME NEW w \in Callers, NEW k \in Keys, NEW t \in Slots, NEW m \in Amounts \cup {0},
             RecordUsage(w, k, t, m)
      PROVE  Conservation'
  <2>. DEFINE c == [pc |-> "log", key |-> k, slot |-> t]
  <2>1. CostBucket(c) \in Bucket /\ m \in Nat /\ UNCHANGED <<flight, durable>>
    BY <1>1, ChargedBucket, ChargeAssumption DEF RecordUsage
  <2>2. \/ Charge(CostBucket(c), m)
        \/ UNCHANGED <<meter, pending, refused>>
    BY <1>1 DEF RecordUsage
  <2>. QED BY <1>0, <2>1, <2>2, ChargeConserves DEF Conservation
<1>2. ASSUME NEW w \in Callers, NEW u \in Amounts, RecordActual(w, u)
      PROVE  Conservation'
  <2>1. ActualBucket(call[w]) \in Bucket /\ u \in Nat
    BY <1>0, <1>2, ChargedBucket, ChargeAssumption DEF RecordActual, TypeOK, CallTypes
  <2>2. Charge(ActualBucket(call[w]), u) /\ UNCHANGED <<flight, durable>>
    BY <1>2 DEF RecordActual
  <2>. QED BY <1>0, <2>1, <2>2, ChargeConserves
<1>3. CASE FlushTake
  <2>. SUFFICES ASSUME NEW b \in Bucket
                PROVE  meter'[b] = durable'[b] + pending'[b] + flight'[b] + refused'[b]
    BY DEF Conservation
  <2>1. meter[b] = durable[b] + pending[b] + flight[b] + refused[b]
    BY <1>0 DEF Conservation
  <2>2. UNCHANGED <<meter, durable, refused>>
    BY <1>3 DEF FlushTake
  <2>3. pending'[b] + flight'[b] = pending[b] + flight[b]
    <3>1. CASE b \in InShard(flush.at)
      <4>1. flight[b] = 0
        BY <1>0, <1>3, <3>1, NothingInFlight DEF IInv
      <4>. QED BY <1>0, <1>3, <3>1, <4>1 DEF FlushTake, LedgerTypes
    <3>2. CASE b \notin InShard(flush.at)
      BY <1>3, <3>2 DEF FlushTake
    <3>. QED BY <3>1, <3>2
  <2>4. pending[b] \in Nat /\ flight[b] \in Nat /\ pending'[b] \in Nat /\ flight'[b] \in Nat
        /\ durable[b] \in Nat /\ refused[b] \in Nat
    <3>1. LedgerTypes'
      BY <1>0, TypeStep DEF TypeOK
    <3>. QED BY <1>0, <3>1 DEF LedgerTypes
  <2>. QED BY <2>1, <2>2, <2>3, <2>4
<1>4. CASE FlushCommit
  BY <1>0, <1>4 DEF FlushCommit, Conservation, LedgerTypes, Nothing
<1>5. CASE FlushRestore
  BY <1>0, <1>5 DEF FlushRestore, Conservation, LedgerTypes
<1>6. CASE ResetDelete
  <2>1. Empty(pending) /\ Empty(flight)
    BY <1>6 DEF ResetDelete, IInv, ResetExclusive
  <2>. QED BY <1>0, <1>6, <2>1 DEF ResetDelete, ClearKey, Empty, Conservation, LedgerTypes
<1>7. CASE Restart
  BY <1>0, <1>7 DEF Restart, Conservation, LedgerTypes, Nothing
<1>8. CASE UNCHANGED <<meter, durable, pending, flight, refused>>
  BY <1>0, <1>8 DEF Conservation
<1>9. \/ \E w \in Callers, k \in Keys, t \in Slots, m \in Amounts \cup {0} : RecordUsage(w, k, t, m)
      \/ \E w \in Callers : \E u \in Amounts : RecordActual(w, u)
      \/ FlushTake \/ FlushCommit \/ FlushRestore \/ ResetDelete \/ Restart
      \/ UNCHANGED <<meter, durable, pending, flight, refused>>
  <2>1. ASSUME NEW w \in Callers, RecordLog(w) PROVE UNCHANGED <<meter, durable, pending, flight, refused>>
    BY <2>1 DEF RecordLog
  <2>6. ASSUME NEW w \in Callers, RaiseAlarm(w) PROVE UNCHANGED <<meter, durable, pending, flight, refused>>
    BY <2>6 DEF RaiseAlarm
  <2>2. ASSUME NEW k \in Keys, LogDecision(k) PROVE UNCHANGED <<meter, durable, pending, flight, refused>>
    BY <2>2 DEF LogDecision
  <2>3. FlushStep => \/ FlushTake \/ FlushCommit \/ FlushRestore
                     \/ UNCHANGED <<meter, durable, pending, flight, refused>>
    BY DEF FlushStep, FlushTick, FlushRelease, FlushNothing, FlushFail, FlushReturnError,
           FlushSettle, FlushReturnOK
  <2>4. ResetStep => \/ ResetDelete
                     \/ UNCHANGED <<meter, durable, pending, flight, refused>>
    BY DEF ResetStep, BeginReset, ResetFlush, ResetDeleteFails
  <2>5. Tick \/ UNCHANGED vars => UNCHANGED <<meter, durable, pending, flight, refused>>
    BY DEF Tick, vars
  <2>. QED BY <2>1, <2>2, <2>3, <2>4, <2>5, <2>6 DEF Next, Callback
<1>. QED BY <1>1, <1>2, <1>3, <1>4, <1>5, <1>6, <1>7, <1>8, <1>9

-----------------------------------------------------------------------------
(* What the batch covers, and what a reset may rely on.                     *)

\* The actions that leave a flush and what it holds alone.
LEMMA FlushAlone ==
  ASSUME BatchCovers, UNCHANGED <<flush, flight>>
  PROVE  BatchCovers'
BY DEF BatchCovers, Empty

\* Every step keeps the batch and the taken shards together.
LEMMA BatchStep ==
  ASSUME IInv, [Next]_vars
  PROVE  BatchCovers'
<1>. USE DEF queues, history, stored, bounds, FlushUnchanged
<1>0. BatchCovers /\ TypeOK /\ flush \in Flush /\ ShardCount \in Nat
  BY ShardAssumption DEF IInv, TypeOK, FlushTypes
<1>1. CASE FlushTick \/ ResetFlush
  <2>1. /\ flush.pc = "idle" /\ flush.batch = {} /\ flight' = flight
        /\ flush'.pc = "take" /\ flush'.batch = {}
    BY <1>1 DEF FlushTick, ResetFlush, StartFlush, IdleFlush
  <2>. QED BY <1>0, <2>1 DEF BatchCovers
<1>2. CASE FlushTake
  <2>. DEFINE s == flush.at
  <2>1. flush.pc = "take" /\ s \in Shards /\ s \in Int
    BY <1>2 DEF FlushTake, Shards
  <2>2. CASE flush' = [flush EXCEPT !.at = s + 1] /\ flight' = flight
    <3>1. flush'.pc = "take" /\ flush'.batch = flush.batch /\ flush'.at = s + 1
      BY <1>0, <2>1, <2>2 DEF Flush
    <3>2. \A q \in flush.batch : q \in Int
      BY <1>0 DEF Flush, Shards
    <3>. QED BY <1>0, <2>1, <2>2, <3>1, <3>2 DEF BatchCovers
  <2>3. CASE /\ flush' = [flush EXCEPT !.pc = "release", !.batch = @ \cup {s}]
             /\ flight' = [b \in Bucket |-> IF b \in InShard(s) THEN pending[b] ELSE flight[b]]
    <3>1. flush'.pc = "release" /\ flush'.batch = flush.batch \cup {s} /\ flush'.at = s
      BY <1>0, <2>1, <2>3 DEF Flush
    <3>2. \A b \in Bucket : flight'[b] # 0 => ShardOfBucket(b) \in flush.batch \cup {s}
      BY <1>0, <2>3 DEF BatchCovers, InShard
    <3>. QED BY <1>0, <2>1, <3>1, <3>2 DEF BatchCovers
  <2>. QED BY <1>2, <2>2, <2>3 DEF FlushTake
<1>3. CASE FlushRelease
  <2>1. flush.at \in Int /\ flush.pc = "release" /\ flight' = flight
    BY <1>0, <1>3 DEF FlushRelease, Flush
  <2>2. flush'.pc = "take" /\ flush'.batch = flush.batch /\ flush'.at = flush.at + 1
    BY <1>0, <1>3 DEF FlushRelease, Flush
  <2>3. \A q \in flush.batch : q \in Int
    BY <1>0 DEF Flush, Shards
  <2>. QED BY <1>0, <2>1, <2>2, <2>3 DEF BatchCovers
<1>4. CASE FlushNothing \/ FlushReturnError \/ FlushReturnOK
  <2>1. flight' = flight /\ flush' = IdleFlush
    BY <1>4 DEF FlushNothing, FlushReturnError, FlushReturnOK, Return
  <2>2. \A b \in Bucket : flight[b] = 0
    <3>1. CASE FlushNothing
      BY <1>0, <3>1 DEF FlushNothing, BatchCovers
    <3>2. CASE FlushReturnError
      <4>1. flush.pc = "restore" /\ flush.at = ShardCount + 1
        BY <3>2 DEF FlushReturnError
      <4>2. \A b \in Bucket : ShardOfBucket(b) \in Int /\ ShardOfBucket(b) < ShardCount + 1
        BY <1>0, ShardTyping DEF Shards
      <4>. QED BY <1>0, <4>1, <4>2 DEF BatchCovers
    <3>3. CASE FlushReturnOK
      BY <1>0, <3>3 DEF FlushReturnOK, BatchCovers, Empty
    <3>. QED BY <1>4, <3>1, <3>2, <3>3
  <2>. QED BY <2>1, <2>2 DEF BatchCovers, IdleFlush
<1>5. CASE FlushCommit
  <2>1. flush'.pc = "settle" /\ flight' = Nothing
    BY <1>0, <1>5 DEF FlushCommit, Flush
  <2>. QED BY <2>1 DEF BatchCovers, Nothing, Empty
<1>6. CASE FlushFail
  <2>1. flush'.pc = "restore" /\ flush'.at = 1 /\ flush'.batch = flush.batch /\ flight' = flight
    BY <1>0, <1>6 DEF FlushFail, Flush
  <2>2. \A b \in Bucket : ShardOfBucket(b) >= 1
    BY ShardTyping DEF Shards
  <2>. QED BY <1>0, <2>1, <2>2 DEF BatchCovers
<1>7. CASE FlushRestore
  <2>. DEFINE s == flush.at
  <2>1. flush.pc = "restore" /\ s \in Int
    BY <1>7 DEF FlushRestore, Shards
  <2>2. flush'.pc = "restore" /\ flush'.at = s + 1 /\ flush'.batch = flush.batch
    BY <1>0, <1>7 DEF FlushRestore, Flush
  <2>3. \A b \in Bucket : ShardOfBucket(b) \in Int
    BY ShardTyping DEF Shards
  <2>4. \A b \in Bucket : flight'[b] # 0 => flight[b] # 0 /\ ShardOfBucket(b) # s
    <3>1. CASE s \notin flush.batch /\ flight' = flight
      BY <1>0, <3>1 DEF BatchCovers
    <3>2. CASE flight' = [b \in Bucket |-> IF b \in InShard(s) THEN 0 ELSE flight[b]]
      BY <3>2 DEF InShard
    <3>. QED BY <1>7, <3>1, <3>2 DEF FlushRestore
  <2>. QED BY <1>0, <2>1, <2>2, <2>3, <2>4 DEF BatchCovers
<1>8. CASE FlushSettle
  <2>1. flush'.pc = "settle" /\ flush'.batch = flush.batch /\ flight' = flight /\ flush.pc = "settle"
    BY <1>0, <1>8 DEF FlushSettle, Flush
  <2>. QED BY <1>0, <2>1 DEF BatchCovers, Empty
<1>9. CASE Restart
  BY <1>9 DEF Restart, BatchCovers, Nothing, IdleFlush, Empty
<1>10. CASE Callback \/ UNCHANGED vars \/ Tick \/ (\E k \in Keys : BeginReset(k))
            \/ ResetDelete \/ ResetDeleteFails
  <2>1. UNCHANGED <<flush, flight>>
    BY <1>10 DEF Callback, RecordUsage, RecordLog, RecordActual, RaiseAlarm, LogDecision, Tick, BeginReset,
                 ResetDelete, ResetDeleteFails, vars
  <2>. QED BY <1>0, <2>1, FlushAlone
<1>. QED
  BY <1>1, <1>2, <1>3, <1>4, <1>5, <1>6, <1>7, <1>8, <1>9, <1>10
  DEF Next, FlushStep, ResetStep

\* What the reset's own flush may rely on: the queue cannot grow under it, and
\* it empties one shard after the other.
LEMMA ResetExclusiveStep ==
  ASSUME IInv, [Next]_vars
  PROVE  ResetExclusive'
<1>. USE DEF queues, history, stored, bounds, FlushUnchanged
<1>0. /\ ResetExclusive /\ BatchCovers /\ TypeOK /\ LedgerTypes
      /\ flush \in Flush /\ reset \in Reset /\ ShardCount \in Nat
  BY ShardAssumption DEF IInv, TypeOK, FlushTypes, ResetTypes
<1>1. ASSUME NEW w \in Callers, NEW k \in Keys, NEW t \in Slots, NEW m \in Amounts \cup {0},
             RecordUsage(w, k, t, m)
      PROVE  ResetExclusive'
  <2>1. reset.pc = "idle" /\ UNCHANGED <<reset, flush>>
    BY <1>1 DEF RecordUsage, AdminFree
  <2>. QED BY <1>0, <2>1 DEF ResetExclusive, IdleFlush, Flush
<1>2. ASSUME NEW w \in Callers,
             RecordLog(w) \/ RaiseAlarm(w) \/ \E u \in Amounts : RecordActual(w, u)
      PROVE  ResetExclusive'
  <2>1. call[w] # IdleCall /\ UNCHANGED <<reset, flush>>
    BY <1>2 DEF RecordLog, RecordActual, RaiseAlarm, IdleCall
  <2>2. reset.pc = "idle"
    BY <1>0, <2>1 DEF ResetExclusive
  <2>. QED BY <1>0, <2>1, <2>2 DEF ResetExclusive
<1>3. CASE \/ \E k \in Keys : LogDecision(k)
           \/ UNCHANGED vars \/ Tick
  <2>1. UNCHANGED <<reset, flush, pending, flight, call>>
    BY <1>3 DEF LogDecision, Tick, vars
  <2>. QED BY <1>0, <2>1 DEF ResetExclusive, Empty
<1>4. CASE FlushTick
  <2>1. flush'.pc = "take" /\ flush'.owner = "loop" /\ UNCHANGED <<reset, pending, flight, call>>
    BY <1>4 DEF FlushTick, StartFlush
  <2>. QED BY <1>0, <2>1 DEF ResetExclusive, Empty
<1>5. CASE ResetFlush
  <2>1. /\ flush'.pc = "take" /\ flush'.at = 1 /\ reset.pc = "flush"
        /\ UNCHANGED <<reset, pending, flight, call>>
    BY <1>5 DEF ResetFlush, StartFlush
  <2>2. \A b \in Bucket : ~(ShardOfBucket(b) < 1)
    BY ShardTyping DEF Shards
  <2>. QED BY <1>0, <2>1, <2>2 DEF ResetExclusive, Empty
<1>6. CASE FlushTake
  <2>. DEFINE s == flush.at
  <2>1. flush.pc = "take" /\ s \in Int /\ UNCHANGED <<reset, call>>
    BY <1>6 DEF FlushTake, Shards
  <2>2. \A b \in Bucket : ShardOfBucket(b) \in Int
    BY ShardTyping DEF Shards
  <2>3. CASE ShardEmpty(s) /\ flush' = [flush EXCEPT !.at = s + 1] /\ UNCHANGED <<pending, flight>>
    <3>1. flush'.pc = "take" /\ flush'.owner = flush.owner /\ flush'.at = s + 1
      BY <1>0, <2>1, <2>3 DEF Flush
    <3>2. \A b \in Bucket : ShardOfBucket(b) = s => pending[b] = 0
      BY <1>0, <2>3 DEF ShardEmpty, Queued, InShard, LedgerTypes
    <3>. QED BY <1>0, <2>1, <2>2, <2>3, <3>1, <3>2 DEF ResetExclusive, Empty
  <2>4. CASE /\ flush' = [flush EXCEPT !.pc = "release", !.batch = @ \cup {s}]
             /\ flight' = [b \in Bucket |-> IF b \in InShard(s) THEN pending[b] ELSE flight[b]]
             /\ pending' = [b \in Bucket |-> IF b \in InShard(s) THEN 0 ELSE pending[b]]
    <3>1. flush'.pc = "release" /\ flush'.owner = flush.owner /\ flush'.at = s
      BY <1>0, <2>1, <2>4 DEF Flush
    <3>2. \A b \in Bucket : /\ ShardOfBucket(b) = s => pending'[b] = 0
                            /\ pending[b] = 0 => pending'[b] = 0
                            /\ pending[b] = 0 /\ flight[b] = 0 => flight'[b] = 0
      BY <2>4 DEF InShard
    <3>. QED BY <1>0, <2>1, <3>1, <3>2 DEF ResetExclusive, Empty
  <2>. QED BY <1>6, <2>3, <2>4 DEF FlushTake
<1>7. CASE FlushRelease
  <2>1. flush.pc = "release" /\ flush.at \in Int /\ UNCHANGED <<reset, call, pending, flight>>
    BY <1>0, <1>7 DEF FlushRelease, Flush
  <2>2. flush'.pc = "take" /\ flush'.owner = flush.owner /\ flush'.at = flush.at + 1
    BY <1>0, <1>7 DEF FlushRelease, Flush
  <2>3. \A b \in Bucket : ShardOfBucket(b) \in Int
    BY ShardTyping DEF Shards
  <2>. QED BY <1>0, <2>1, <2>2, <2>3 DEF ResetExclusive, Empty
<1>8. CASE FlushNothing
  <2>1. /\ flush.pc = "take" /\ flush.at = ShardCount + 1 /\ flush.batch = {}
        /\ flush' = IdleFlush /\ UNCHANGED <<call, pending, flight>>
    BY <1>8 DEF FlushNothing, Return
  <2>2. Empty(flight)
    BY <1>0, <2>1 DEF BatchCovers, Empty
  <2>3. CASE flush.owner = "loop" /\ reset' = reset
    BY <1>0, <2>1, <2>3 DEF ResetExclusive, IdleFlush, Empty
  <2>4. CASE flush.owner = "reset" /\ reset' = [reset EXCEPT !.pc = "delete"]
    <3>1. Empty(pending)
      <4>1. \A b \in Bucket : ShardOfBucket(b) < ShardCount + 1
        BY <1>0, ShardTyping DEF Shards
      <4>. QED BY <1>0, <2>1, <2>4, <4>1 DEF ResetExclusive, Empty
    <3>2. reset.pc = "flush" /\ reset'.pc = "delete" /\ reset'.key = reset.key
      BY <1>0, <2>1, <2>4 DEF ResetExclusive, Reset
    <3>. QED BY <1>0, <2>1, <2>2, <3>1, <3>2 DEF ResetExclusive, IdleFlush, Empty
  <2>. QED BY <1>0, <1>8, <2>3, <2>4 DEF FlushNothing, Return, Flush
<1>9. CASE FlushCommit
  <2>1. /\ flush'.pc = "settle" /\ flush'.owner = flush.owner /\ flight' = Nothing
        /\ flush.pc = "take" /\ flush.at = ShardCount + 1 /\ UNCHANGED <<reset, call, pending>>
    BY <1>0, <1>9 DEF FlushCommit, Flush
  <2>2. \A b \in Bucket : ShardOfBucket(b) < ShardCount + 1
    BY <1>0, ShardTyping DEF Shards
  <2>. QED BY <1>0, <2>1, <2>2 DEF ResetExclusive, Empty, Nothing
<1>10. CASE FlushFail
  <2>1. /\ flush'.pc = "restore" /\ flush'.owner = flush.owner
        /\ flush.pc = "take" /\ UNCHANGED <<reset, call, pending, flight>>
    BY <1>0, <1>10 DEF FlushFail, Flush
  <2>. QED BY <1>0, <2>1 DEF ResetExclusive, Empty
<1>11. CASE FlushRestore
  <2>. DEFINE s == flush.at
  <2>1. /\ flush'.pc = "restore" /\ flush'.owner = flush.owner
        /\ flush.pc = "restore" /\ UNCHANGED <<reset, call>>
    BY <1>0, <1>11 DEF FlushRestore, Flush
  <2>2. Empty(pending) /\ Empty(flight) => Empty(pending') /\ Empty(flight')
    BY <1>11 DEF FlushRestore, Empty
  <2>. QED BY <1>0, <2>1, <2>2 DEF ResetExclusive
<1>12. CASE FlushReturnError
  <2>1. flush' = IdleFlush /\ UNCHANGED <<call, pending, flight>>
        /\ (reset' = reset \/ reset' = IdleReset) /\ flush.pc # "idle"
    BY <1>12 DEF FlushReturnError, Return
  <2>2. flush.owner = "reset" => reset' = IdleReset
    BY <1>12 DEF FlushReturnError, Return
  <2>. QED BY <1>0, <2>1, <2>2 DEF ResetExclusive, IdleFlush, IdleReset, Empty
<1>13. CASE FlushSettle
  <2>1. /\ flush'.pc = "settle" /\ flush'.owner = flush.owner
        /\ flush.pc = "settle" /\ UNCHANGED <<reset, call, pending, flight>>
    BY <1>0, <1>13 DEF FlushSettle, Flush
  <2>. QED BY <1>0, <2>1 DEF ResetExclusive, Empty
<1>14. CASE FlushReturnOK
  <2>1. /\ flush.pc = "settle" /\ flush' = IdleFlush /\ UNCHANGED <<call, pending, flight>>
    BY <1>14 DEF FlushReturnOK, Return
  <2>2. Empty(flight)
    BY <1>0, <2>1 DEF BatchCovers
  <2>3. CASE flush.owner = "loop" /\ reset' = reset
    BY <1>0, <2>1, <2>3 DEF ResetExclusive, IdleFlush, Empty
  <2>4. CASE flush.owner = "reset" /\ reset' = [reset EXCEPT !.pc = "delete"]
    <3>1. Empty(pending)
      BY <1>0, <2>1, <2>4 DEF ResetExclusive
    <3>2. reset.pc = "flush" /\ reset'.pc = "delete" /\ reset'.key = reset.key
      BY <1>0, <2>1, <2>4 DEF ResetExclusive, Reset
    <3>. QED BY <1>0, <2>1, <2>2, <3>1, <3>2 DEF ResetExclusive, IdleFlush, Empty
  <2>. QED BY <1>0, <1>14, <2>3, <2>4 DEF FlushReturnOK, Return, Flush
<1>15. ASSUME NEW k \in Keys, BeginReset(k)
       PROVE  ResetExclusive'
  <2>1. /\ reset.pc = "idle" /\ reset'.pc = "flush" /\ reset'.key = k
        /\ \A w \in Callers : call[w] = IdleCall
        /\ UNCHANGED <<flush, call, pending, flight>>
    BY <1>15 DEF BeginReset, AdminFree
  <2>. QED BY <1>0, <2>1 DEF ResetExclusive
<1>16. CASE ResetDelete \/ ResetDeleteFails
  <2>1. /\ reset.pc = "delete" /\ reset'.pc = "idle"
        /\ UNCHANGED <<flush, call, pending, flight>>
    BY <1>16 DEF ResetDelete, ResetDeleteFails, IdleReset
  <2>. QED BY <1>0, <2>1 DEF ResetExclusive
<1>17. CASE Restart
  BY <1>17 DEF Restart, ResetExclusive, IdleFlush, IdleReset
<1>. QED
  BY <1>1, <1>2, <1>3, <1>4, <1>5, <1>6, <1>7, <1>8, <1>9, <1>10, <1>11, <1>12, <1>13,
     <1>14, <1>15, <1>16, <1>17
  DEF Next, Callback, FlushStep, ResetStep

-----------------------------------------------------------------------------
(* The invariant and what follows from it.                                  *)

\* The strengthened invariant holds at the start ...
LEMMA InvInit == Init => IInv
<1>. SUFFICES ASSUME Init PROVE IInv
  OBVIOUS
<1>1. TypeOK
  BY TypeInit
<1>2. Conservation /\ BatchCovers
  BY DEF Init, Conservation, BatchCovers, Nothing, IdleFlush
<1>3. ResetExclusive
  BY DEF Init, ResetExclusive, IdleFlush, IdleReset
<1>. QED BY <1>1, <1>2, <1>3 DEF IInv

\* ... and every step keeps it.
LEMMA InvStep == IInv /\ [Next]_vars => IInv'
<1>. SUFFICES ASSUME IInv, [Next]_vars PROVE IInv'
  OBVIOUS
<1>1. TypeOK'
  BY TypeStep DEF IInv
<1>. QED BY <1>1, ConservationStep, BatchStep, ResetExclusiveStep DEF IInv

\* It holds in every reachable state.
THEOREM Invariant == Spec => []IInv
BY InvInit, InvStep, PTL DEF Spec

\* No interleaving of callbacks, flushes, failures, resets and restarts loses
\* or duplicates a charge between the meters, the queue, the batch and SQLite.
THEOREM ChargesConserved == Spec => []Conservation
<1>1. IInv => Conservation
  BY DEF IInv
<1>. QED BY <1>1, Invariant, PTL

-----------------------------------------------------------------------------
(* The age of a shard.                                                      *)

\* What makes QueueAgeTruthful inductive: a shard of the batch that has not
\* been settled or merged back carries something and the age of it; one that
\* has been carries no age.
FlightAged ==
  /\ \A s \in flush.batch :
       flush.pc \in {"take", "release"} \/ (flush.pc = "restore" /\ s >= flush.at) =>
         flightSince[s] # 0 /\ (flightLogs[s] # 0 \/ Taken(s) # {})
  /\ \A s \in flush.batch :
       flush.pc \in {"settle", "restore"} /\ s < flush.at => flightSince[s] = 0

Aging == QueueAgeTruthful /\ FlightAged

\* A callback leaves what is in flight alone; if the shard it adds to has an
\* age afterwards and nothing else changes, ages stay truthful.
LEMMA AddingKeepsAges ==
  ASSUME TypeOK, Aging, NEW x \in Shards,
         UNCHANGED <<flight, flightLogs, flightSince, flush, lostLogs>>,
         \A s \in Shards \ {x} : (ShardEmpty(s) <=> ShardEmpty(s)') /\ since'[s] = since[s],
         \/ ~ShardEmpty(x)' /\ since'[x] # 0
         \/ (ShardEmpty(x) <=> ShardEmpty(x)') /\ since'[x] = since[x]
  PROVE  Aging'
<1>1. FlightAged'
  BY DEF Aging, FlightAged, Taken
<1>2. QueueAgeTruthful'
  BY DEF Aging, QueueAgeTruthful
<1>. QED BY <1>1, <1>2 DEF Aging

\* A charge keeps the ages truthful.
LEMMA ChargeKeepsAges ==
  ASSUME TypeOK, Aging, NEW b \in Bucket, NEW u \in Nat \ {0}, Charge(b, u),
         UNCHANGED <<flight, flightLogs, flightSince, flush, lostLogs, logs>>
  PROVE  Aging'
<1>. DEFINE x == ShardOfBucket(b)
<1>0. x \in Shards /\ pending \in [Bucket -> Nat] /\ since \in [Shards -> Nat] /\ now \in Nat \ {0}
  BY ShardTyping, LimitAssumption DEF TypeOK, LedgerTypes, QueueTypes, BoundTypes
<1>1. CASE UNCHANGED <<pending, since>>
  <2>1. \A s \in Shards : (ShardEmpty(s) <=> ShardEmpty(s)') /\ since'[s] = since[s]
    BY <1>1 DEF ShardEmpty, Queued
  <2>. QED BY <1>0, <2>1, AddingKeepsAges
<1>2. CASE pending' = AddTo(pending, b, u) /\ Stamp(x)
  <2>1. pending'[b] > 0 /\ \A c \in Bucket : c # b => pending'[c] = pending[c]
    BY <1>0, <1>2 DEF AddTo
  <2>2. since'[x] # 0 /\ \A s \in Shards \ {x} : since'[s] = since[s]
    BY <1>0, <1>2 DEF Stamp
  <2>3. ~ShardEmpty(x)'
    BY <2>1 DEF ShardEmpty, Queued, InShard
  <2>4. \A s \in Shards \ {x} : ShardEmpty(s) <=> ShardEmpty(s)'
    BY <2>1 DEF ShardEmpty, Queued, InShard
  <2>. QED BY <1>0, <2>2, <2>3, <2>4, AddingKeepsAges
<1>. QED BY <1>1, <1>2 DEF Charge

\* A decision log keeps them truthful.
LEMMA LogKeepsAges ==
  ASSUME TypeOK, Aging, NEW k \in Keys, EnqueueDecision(k),
         UNCHANGED <<pending, flight, flightLogs, flightSince, flush, lostLogs>>
  PROVE  Aging'
<1>. DEFINE x == LogShard(k)
<1>0. x \in Shards /\ logs \in [Shards -> Nat] /\ since \in [Shards -> Nat] /\ now \in Nat \ {0}
  BY ShardTyping, LimitAssumption DEF TypeOK, QueueTypes, BoundTypes
<1>1. CASE UNCHANGED <<logs, since>>
  <2>1. \A s \in Shards : (ShardEmpty(s) <=> ShardEmpty(s)') /\ since'[s] = since[s]
    BY <1>1 DEF ShardEmpty, Queued
  <2>. QED BY <1>0, <2>1, AddingKeepsAges
<1>2. CASE logs' = [logs EXCEPT ![x] = @ + 1] /\ Stamp(x)
  <2>1. logs'[x] # 0 /\ \A s \in Shards \ {x} : logs'[s] = logs[s]
    BY <1>0, <1>2
  <2>2. since'[x] # 0 /\ \A s \in Shards \ {x} : since'[s] = since[s]
    BY <1>0, <1>2 DEF Stamp
  <2>3. ~ShardEmpty(x)'
    BY <2>1 DEF ShardEmpty
  <2>4. \A s \in Shards \ {x} : ShardEmpty(s) <=> ShardEmpty(s)'
    BY <2>1 DEF ShardEmpty, Queued
  <2>. QED BY <1>0, <2>2, <2>3, <2>4, AddingKeepsAges
<1>. QED BY <1>1, <1>2 DEF EnqueueDecision

\* Every step keeps the ages truthful.
LEMMA AgeStep ==
  ASSUME TypeOK, BatchCovers, Aging, [Next]_vars
  PROVE  Aging'
<1>. USE DEF queues, history, stored, bounds, FlushUnchanged
<1>0. flush \in Flush /\ ShardCount \in Nat /\ \A q \in Shards : q \in Int
  BY ShardAssumption DEF TypeOK, FlushTypes, Shards
<1>01. flush.batch \in SUBSET Shards
  BY <1>0 DEF Flush
<1>1. CASE UNCHANGED <<pending, logs, since, flight, flightLogs, flightSince, flush, lostLogs>>
  <2>1. \A s \in Shards : ShardEmpty(s) <=> ShardEmpty(s)'
    BY <1>1 DEF ShardEmpty, Queued
  <2>2. QueueAgeTruthful'
    BY <1>1, <2>1 DEF Aging, QueueAgeTruthful
  <2>3. FlightAged'
    BY <1>1 DEF Aging, FlightAged, Taken
  <2>. QED BY <2>2, <2>3 DEF Aging
<1>2. CASE Callback
  <2>1. ASSUME NEW w \in Callers, NEW k \in Keys, NEW t \in Slots, NEW micros \in Amounts \cup {0},
               RecordUsage(w, k, t, micros)
        PROVE  Aging'
    <3>. DEFINE c == [pc |-> "log", key |-> k, slot |-> t]
    <3>1. CASE micros > 0 /\ Charge(CostBucket(c), micros)
      <4>1. CostBucket(c) \in Bucket /\ micros \in Nat \ {0}
        BY <3>1, ChargedBucket, ChargeAssumption
      <4>. QED BY <2>1, <3>1, <4>1, ChargeKeepsAges DEF RecordUsage
    <3>2. CASE UNCHANGED <<meter, pending, bucketCount, since, refused>>
      BY <1>1, <2>1, <3>2 DEF RecordUsage
    <3>. QED BY <2>1, <3>1, <3>2 DEF RecordUsage
  <2>2. ASSUME NEW w \in Callers, RecordLog(w)
        PROVE  Aging'
    <3>1. call[w].key \in Keys
      BY <2>2 DEF RecordLog, TypeOK, CallTypes
    <3>. QED BY <2>2, <3>1, LogKeepsAges DEF RecordLog
  <2>3. ASSUME NEW w \in Callers, NEW units \in Amounts, RecordActual(w, units)
        PROVE  Aging'
    <3>1. call[w].key \in Keys /\ call[w].slot \in Slots
      BY <2>3 DEF RecordActual, TypeOK, CallTypes
    <3>2. ActualBucket(call[w]) \in Bucket /\ units \in Nat \ {0}
      BY <3>1, ChargedBucket, ChargeAssumption
    <3>. QED BY <2>3, <3>2, ChargeKeepsAges DEF RecordActual
  <2>4. ASSUME NEW k \in Keys, LogDecision(k)
        PROVE  Aging'
    BY <2>4, LogKeepsAges DEF LogDecision
  <2>5. ASSUME NEW w \in Callers, RaiseAlarm(w)
        PROVE  Aging'
    BY <1>1, <2>5 DEF RaiseAlarm
  <2>. QED BY <1>2, <2>1, <2>2, <2>3, <2>4, <2>5 DEF Callback
<1>3. CASE FlushTick \/ ResetFlush
  <2>1. /\ flush.batch = {} /\ flush'.batch = {}
        /\ UNCHANGED <<pending, logs, since, flight, flightLogs, flightSince, lostLogs>>
    BY <1>3 DEF FlushTick, ResetFlush, StartFlush, IdleFlush
  <2>2. \A s \in Shards : ShardEmpty(s) <=> ShardEmpty(s)'
    BY <2>1 DEF ShardEmpty, Queued
  <2>. QED BY <2>1, <2>2 DEF Aging, QueueAgeTruthful, FlightAged
<1>4. CASE FlushTake
  <2>1. PICK s \in Shards : s = flush.at /\ flush.pc = "take" /\ lostLogs' = lostLogs
    BY <1>4 DEF FlushTake
  <2>2. CASE flush' = [flush EXCEPT !.at = s + 1] /\ UNCHANGED queues
    <3>1. flush'.pc = "take" /\ flush'.batch = flush.batch
      BY <1>0, <2>1, <2>2 DEF Flush
    <3>2. \A q \in Shards : ShardEmpty(q) <=> ShardEmpty(q)'
      BY <2>2 DEF ShardEmpty, Queued
    <3>3. QueueAgeTruthful'
      BY <2>1, <2>2, <3>1, <3>2 DEF Aging, QueueAgeTruthful
    <3>4. FlightAged'
      BY <2>1, <2>2, <3>1 DEF Aging, FlightAged, Taken
    <3>. QED BY <3>3, <3>4 DEF Aging
  <2>3. CASE /\ ~ShardEmpty(s)
             /\ flush' = [flush EXCEPT !.pc = "release", !.batch = @ \cup {s}]
             /\ flight' = [b \in Bucket |-> IF b \in InShard(s) THEN pending[b] ELSE flight[b]]
             /\ pending' = [b \in Bucket |-> IF b \in InShard(s) THEN 0 ELSE pending[b]]
             /\ flightLogs' = [flightLogs EXCEPT ![s] = logs[s]]
             /\ logs' = [logs EXCEPT ![s] = 0]
             /\ since' = [since EXCEPT ![s] = 0]
             /\ flightSince' = [flightSince EXCEPT ![s] = since[s]]
    <3>1. flush'.pc = "release" /\ flush'.batch = flush.batch \cup {s}
      BY <1>0, <2>1, <2>3 DEF Flush
    <3>2. /\ ShardEmpty(s)' /\ since'[s] = 0
          /\ flightSince'[s] = since[s] /\ flightLogs'[s] = logs[s]
      BY <2>1, <2>3 DEF ShardEmpty, Queued, InShard, TypeOK, QueueTypes
    <3>3. ASSUME NEW q \in Shards, q # s
          PROVE  /\ ShardEmpty(q) <=> ShardEmpty(q)'
                 /\ since'[q] = since[q] /\ flightSince'[q] = flightSince[q]
                 /\ flightLogs'[q] = flightLogs[q] /\ Taken(q)' = Taken(q)
      <4>1. \A b \in InShard(q) : pending'[b] = pending[b] /\ flight'[b] = flight[b]
        BY <2>3, <3>3 DEF InShard
      <4>. QED BY <2>1, <2>3, <3>3, <4>1 DEF ShardEmpty, Queued, Taken, TypeOK, QueueTypes
    <3>4. since[s] # 0
      BY <2>1, <2>3 DEF Aging, QueueAgeTruthful
    <3>5. logs[s] # 0 \/ Taken(s)' # {}
      BY <2>1, <2>3 DEF ShardEmpty, Queued, Taken, InShard
    <3>6. QueueAgeTruthful'
      BY <2>1, <3>1, <3>2, <3>3 DEF Aging, QueueAgeTruthful
    <3>7. FlightAged'
      BY <1>01, <2>1, <3>1, <3>2, <3>3, <3>4, <3>5 DEF Aging, FlightAged
    <3>. QED BY <3>6, <3>7 DEF Aging
  <2>. QED BY <1>4, <2>1, <2>2, <2>3 DEF FlushTake
<1>5. CASE FlushRelease
  <2>1. /\ flush.pc = "release" /\ flush'.pc = "take" /\ flush'.batch = flush.batch
        /\ UNCHANGED <<pending, logs, since, flight, flightLogs, flightSince, lostLogs>>
    BY <1>0, <1>5 DEF FlushRelease, Flush
  <2>2. \A s \in Shards : ShardEmpty(s) <=> ShardEmpty(s)'
    BY <2>1 DEF ShardEmpty, Queued
  <2>3. QueueAgeTruthful'
    BY <2>1, <2>2 DEF Aging, QueueAgeTruthful
  <2>4. FlightAged'
    BY <2>1 DEF Aging, FlightAged, Taken
  <2>. QED BY <2>3, <2>4 DEF Aging
<1>6. CASE FlushNothing \/ FlushReturnError \/ FlushReturnOK
  <2>1. /\ flush' = IdleFlush
        /\ UNCHANGED <<pending, logs, since, flight, flightLogs, flightSince, lostLogs>>
    BY <1>6 DEF FlushNothing, FlushReturnError, FlushReturnOK, Return
  <2>2. \A s \in Shards : flightSince[s] = 0
    <3>1. CASE FlushNothing
      BY <3>1 DEF FlushNothing, Aging, QueueAgeTruthful
    <3>2. CASE FlushReturnError \/ FlushReturnOK
      <4>1. flush.pc \in {"settle", "restore"} /\ flush.at = ShardCount + 1
        BY <3>2 DEF FlushReturnError, FlushReturnOK
      <4>2. \A s \in Shards : s < flush.at
        BY <1>0, <4>1 DEF Shards
      <4>. QED BY <4>1, <4>2 DEF Aging, QueueAgeTruthful, FlightAged
    <3>. QED BY <1>6, <3>1, <3>2
  <2>3. \A s \in Shards : ShardEmpty(s) <=> ShardEmpty(s)'
    BY <2>1 DEF ShardEmpty, Queued
  <2>. QED BY <2>1, <2>2, <2>3 DEF Aging, QueueAgeTruthful, FlightAged, IdleFlush
<1>7. CASE FlushCommit
  <2>1. /\ flush'.pc = "settle" /\ flush'.at = 1 /\ flush'.batch = flush.batch
        /\ UNCHANGED <<pending, logs, since, flightSince, lostLogs>>
    BY <1>0, <1>7 DEF FlushCommit, Flush
  <2>2. \A s \in Shards : (ShardEmpty(s) <=> ShardEmpty(s)') /\ ~(s < 1)
    BY <2>1 DEF ShardEmpty, Queued, Shards
  <2>. QED BY <1>01, <2>1, <2>2 DEF Aging, QueueAgeTruthful, FlightAged
<1>8. CASE FlushFail
  <2>1. /\ flush.pc = "take"
        /\ flush'.pc = "restore" /\ flush'.at = 1 /\ flush'.batch = flush.batch
        /\ UNCHANGED <<pending, logs, since, flight, flightLogs, flightSince, lostLogs>>
    BY <1>0, <1>8 DEF FlushFail, Flush
  <2>2. \A s \in Shards : (ShardEmpty(s) <=> ShardEmpty(s)') /\ ~(s < 1)
    BY <2>1 DEF ShardEmpty, Queued, Shards
  <2>3. QueueAgeTruthful'
    BY <2>1, <2>2 DEF Aging, QueueAgeTruthful
  <2>4. FlightAged'
    BY <1>01, <2>1, <2>2 DEF Aging, FlightAged, Taken
  <2>. QED BY <2>3, <2>4 DEF Aging
<1>9. CASE FlushRestore
  <2>1. PICK s \in Shards : s = flush.at /\ flush.pc = "restore"
    BY <1>9 DEF FlushRestore
  <2>. DEFINE room == LesserOf(flightLogs[s], IF logCount >= MaxLogs THEN 0 ELSE MaxLogs - logCount)
  <2>2. flush'.pc = "restore" /\ flush'.at = s + 1 /\ flush'.batch = flush.batch
    BY <1>0, <1>9, <2>1 DEF FlushRestore, Flush
  <2>3. CASE s \notin flush.batch /\ UNCHANGED <<queues, lostLogs>>
    <3>1. \A q \in Shards : ShardEmpty(q) <=> ShardEmpty(q)'
      BY <2>3 DEF ShardEmpty, Queued
    <3>2. QueueAgeTruthful'
      BY <2>2, <2>3, <3>1 DEF Aging, QueueAgeTruthful
    <3>3. FlightAged'
      BY <1>0, <1>01, <2>1, <2>2, <2>3 DEF Aging, FlightAged, Taken
    <3>. QED BY <3>2, <3>3 DEF Aging
  <2>4. CASE /\ s \in flush.batch
             /\ flightSince' = [flightSince EXCEPT ![s] = 0]
             /\ logs' = [logs EXCEPT ![s] = @ + room]
             /\ lostLogs' = lostLogs + (flightLogs[s] - room)
             /\ flightLogs' = [flightLogs EXCEPT ![s] = 0]
             /\ pending' = [b \in Bucket |-> IF b \in InShard(s) THEN pending[b] + flight[b] ELSE pending[b]]
             /\ flight' = [b \in Bucket |-> IF b \in InShard(s) THEN 0 ELSE flight[b]]
             /\ since' = [since EXCEPT ![s] = IF @ = 0 \/ flightSince[s] < @ THEN flightSince[s] ELSE @]
    <3>0. /\ logs \in [Shards -> Nat] /\ flightLogs \in [Shards -> Nat]
          /\ since \in [Shards -> Nat] /\ flightSince \in [Shards -> Nat]
          /\ pending \in [Bucket -> Nat] /\ flight \in [Bucket -> Nat]
          /\ logCount \in Int /\ lostLogs \in Nat /\ MaxLogs \in Nat
      BY LimitAssumption DEF TypeOK, QueueTypes, LedgerTypes
    <3>1. flightSince[s] # 0 /\ (flightLogs[s] # 0 \/ Taken(s) # {})
      BY <1>0, <2>1, <2>4 DEF Aging, FlightAged
    <3>2. since'[s] # 0 /\ flightSince'[s] = 0
      BY <2>1, <2>4, <3>0, <3>1
    <3>3. room \in Nat /\ room <= flightLogs[s]
      BY <2>1, <3>0 DEF LesserOf
    <3>4. lostLogs' = 0 => lostLogs = 0 /\ room = flightLogs[s]
      BY <2>1, <2>4, <3>0, <3>3
    <3>5. lostLogs' = 0 => ~ShardEmpty(s)'
      <4>1. CASE flightLogs[s] # 0
        BY <2>1, <2>4, <3>0, <3>4, <4>1 DEF ShardEmpty
      <4>2. CASE Taken(s) # {}
        <5>1. PICK b \in InShard(s) : flight[b] > 0
          BY <4>2 DEF Taken
        <5>2. b \in Bucket /\ pending'[b] > 0
          BY <2>4, <3>0, <5>1 DEF InShard
        <5>. QED BY <5>1, <5>2 DEF ShardEmpty, Queued
      <4>. QED BY <3>1, <4>1, <4>2
    <3>6. ASSUME NEW q \in Shards, q # s
          PROVE  /\ ShardEmpty(q) <=> ShardEmpty(q)'
                 /\ since'[q] = since[q] /\ flightSince'[q] = flightSince[q]
                 /\ flightLogs'[q] = flightLogs[q] /\ Taken(q)' = Taken(q)
      <4>1. \A b \in InShard(q) : pending'[b] = pending[b] /\ flight'[b] = flight[b]
        BY <2>4, <3>6 DEF InShard
      <4>. QED BY <2>1, <2>4, <3>0, <3>6, <4>1 DEF ShardEmpty, Queued, Taken
    <3>7. QueueAgeTruthful'
      BY <2>2, <3>2, <3>4, <3>5, <3>6 DEF Aging, QueueAgeTruthful
    <3>8. FlightAged'
      BY <1>0, <1>01, <2>1, <2>2, <3>2, <3>6 DEF Aging, FlightAged
    <3>. QED BY <3>7, <3>8 DEF Aging
  <2>. QED BY <1>9, <2>1, <2>3, <2>4 DEF FlushRestore
<1>10. CASE FlushSettle
  <2>. DEFINE s == flush.at
  <2>1. /\ flush.pc = "settle" /\ s \in Shards
        /\ flush'.pc = "settle" /\ flush'.at = s + 1 /\ flush'.batch = flush.batch
        /\ UNCHANGED <<pending, logs, since, flight, flightLogs, lostLogs>>
    BY <1>0, <1>10 DEF FlushSettle, Flush
  <2>2. /\ \A q \in Shards \ {s} : flightSince'[q] = flightSince[q]
        /\ s \in flush.batch => flightSince'[s] = 0
        /\ s \notin flush.batch => flightSince'[s] = flightSince[s]
    BY <1>10, <2>1 DEF FlushSettle, TypeOK, QueueTypes
  <2>3. \A q \in Shards : ShardEmpty(q) <=> ShardEmpty(q)'
    BY <2>1 DEF ShardEmpty, Queued
  <2>4. QueueAgeTruthful'
    BY <2>1, <2>2, <2>3 DEF Aging, QueueAgeTruthful
  <2>5. FlightAged'
    BY <1>0, <1>01, <2>1, <2>2 DEF Aging, FlightAged
  <2>. QED BY <2>4, <2>5 DEF Aging
<1>11. CASE Restart
  BY <1>11 DEF Restart, Aging, QueueAgeTruthful, FlightAged, ShardEmpty, Queued, InShard, Nothing,
               NoLogs, Never, IdleFlush
<1>12. CASE UNCHANGED vars \/ Tick \/ (\E k \in Keys : BeginReset(k)) \/ ResetDelete \/ ResetDeleteFails
  BY <1>1, <1>12 DEF Tick, BeginReset, ResetDelete, ResetDeleteFails, vars
<1>. QED
  BY <1>2, <1>3, <1>4, <1>5, <1>6, <1>7, <1>8, <1>9, <1>10, <1>11, <1>12
  DEF Next, FlushStep, ResetStep

\* Whatever flushes fail and merge back, a shard that holds something has an
\* age, so it refuses charges after maxPendingAge, and an empty one has none,
\* so it cannot refuse for ever, unless logs have been cut off.
THEOREM AgesTruthful == Spec => []QueueAgeTruthful
<1>1. Init => Aging
  BY DEF Init, Aging, QueueAgeTruthful, FlightAged, ShardEmpty, Queued, InShard, Nothing, NoLogs,
         Never, IdleFlush
<1>2. IInv /\ Aging /\ [Next]_vars => Aging'
  BY AgeStep DEF IInv
<1>3. Aging => QueueAgeTruthful
  BY DEF Aging
<1>. QED BY <1>1, <1>2, <1>3, Invariant, PTL DEF Spec

-----------------------------------------------------------------------------
(* The decision logs.                                                       *)

\* There are finitely many shards.
LEMMA ShardsFinite == IsFiniteSet(Shards)
<1>1. 1 \in Int /\ ShardCount \in Int
  BY ShardAssumption
<1>. QED BY <1>1, FS_Interval DEF Shards

\* The logs of all shards together.
LEMMA LogSum ==
  ASSUME NEW f \in [Shards -> Nat]
  PROVE  SumFunction(f) = SumFunctionOnSet(f, Shards) /\ SumFunction(f) \in Nat
<1>1. SumFunction(f) = SumFunctionOnSet(f, Shards)
  BY DEF SumFunction
<1>. QED BY <1>1, ShardsFinite, SumNat DEF NatsOn

\* What one shard gains or loses, all of them gain or lose.
LEMMA LogSumChange ==
  ASSUME NEW f \in [Shards -> Nat], NEW g \in [Shards -> Nat], NEW s \in Shards,
         \A q \in Shards \ {s} : g[q] = f[q]
  PROVE  SumFunction(g) = SumFunction(f) + g[s] - f[s]
<1>. DEFINE d == g[s] - f[s]
<1>1. IntsOn(f, Shards) /\ d \in Int /\ g[s] = f[s] + d
  BY DEF IntsOn
<1>2. SumFunctionOnSet(g, Shards) = SumFunctionOnSet(f, Shards) + d
  BY <1>1, ShardsFinite, SumChange
<1>3. SumFunction(g) = SumFunction(f) + d
  BY <1>2, LogSum
<1>. QED BY <1>3, LogSum

\* What is added shard by shard is added to all of them.
LEMMA LogSumAdd ==
  ASSUME NEW f \in [Shards -> Nat], NEW g \in [Shards -> Nat], NEW h \in [Shards -> Nat],
         \A s \in Shards : h[s] = f[s] + g[s]
  PROVE  SumFunction(h) = SumFunction(f) + SumFunction(g)
<1>1. IntsOn(f, Shards) /\ IntsOn(g, Shards)
  BY DEF IntsOn
<1>2. SumFunctionOnSet(h, Shards) = SumFunctionOnSet(f, Shards) + SumFunctionOnSet(g, Shards)
  BY <1>1, ShardsFinite, SumPointwise
<1>. QED BY <1>2, LogSum

\* No logs add up to none.
LEMMA NoLogsSum == NoLogs \in [Shards -> Nat] /\ SumFunction(NoLogs) = 0
<1>1. NoLogs \in [Shards -> Nat] /\ \A s \in Shards : NoLogs[s] = NoLogs[s] + NoLogs[s]
  BY DEF NoLogs
<1>2. SumFunction(NoLogs) = SumFunction(NoLogs) + SumFunction(NoLogs)
  BY <1>1, LogSumAdd
<1>. QED BY <1>1, <1>2, LogSum

\* What makes LogsAccounted inductive: logs in flight belong to a shard of the
\* batch that has not been settled or merged back.
LogsInBatch ==
  \A s \in Shards : flightLogs[s] # 0 =>
    /\ s \in flush.batch /\ flush.pc # "settle"
    /\ flush.pc = "restore" => s >= flush.at

LogKeeping == LogsInBatch /\ LogsAccounted

\* A new decision log is queued or counted as dropped.
LEMMA LogIsKept ==
  ASSUME TypeOK, TypeOK', LogKeeping, NEW k \in Keys, EnqueueDecision(k),
         UNCHANGED <<flightLogs, storedLogs, lostLogs, flush>>
  PROVE  LogKeeping'
<1>0. QueueTypes /\ QueueTypes' /\ LogShard(k) \in Shards
  BY ShardTyping DEF TypeOK
<1>1. LogsInBatch'
  BY DEF LogKeeping, LogsInBatch
<1>2. CASE logs' = logs /\ droppedLogs' = droppedLogs + 1
  <2>1. madeLogs' = madeLogs + 1
    BY DEF EnqueueDecision
  <2>2. SumFunction(logs) \in Nat /\ SumFunction(flightLogs) \in Nat /\ SumFunction(storedLogs) \in Nat
    BY <1>0, LogSum DEF QueueTypes
  <2>. QED BY <1>0, <1>1, <1>2, <2>1, <2>2 DEF LogKeeping, LogsAccounted, QueueTypes
<1>3. CASE logs' = [logs EXCEPT ![LogShard(k)] = @ + 1] /\ droppedLogs' = droppedLogs
  <2>1. madeLogs' = madeLogs + 1
    BY DEF EnqueueDecision
  <2>2. SumFunction(logs) \in Nat /\ SumFunction(flightLogs) \in Nat /\ SumFunction(storedLogs) \in Nat
    BY <1>0, LogSum DEF QueueTypes
  <2>3. SumFunction(logs') = SumFunction(logs) + 1
    <3>1. /\ logs \in [Shards -> Nat] /\ logs' \in [Shards -> Nat]
          /\ logs'[LogShard(k)] = logs[LogShard(k)] + 1
          /\ \A q \in Shards \ {LogShard(k)} : logs'[q] = logs[q]
      BY <1>0, <1>3 DEF QueueTypes
    <3>2. SumFunction(logs') = SumFunction(logs) + logs'[LogShard(k)] - logs[LogShard(k)]
      BY <1>0, <3>1, LogSumChange
    <3>. QED BY <1>0, <2>2, <3>1, <3>2
  <2>. QED BY <1>0, <1>1, <1>3, <2>1, <2>2, <2>3 DEF LogKeeping, LogsAccounted, QueueTypes
<1>. QED BY <1>2, <1>3 DEF EnqueueDecision

\* Every step accounts for every log.
LEMMA LogStep ==
  ASSUME TypeOK, BatchCovers, LogKeeping, [Next]_vars
  PROVE  LogKeeping'
<1>. USE DEF queues, history, stored, bounds, FlushUnchanged
<1>0. /\ TypeOK' /\ QueueTypes /\ QueueTypes' /\ flush \in Flush
      /\ \A q \in Shards : q \in Int
  BY TypeStep DEF TypeOK, FlushTypes, Shards
<1>01. /\ logs \in [Shards -> Nat] /\ flightLogs \in [Shards -> Nat] /\ storedLogs \in [Shards -> Nat]
       /\ logs' \in [Shards -> Nat] /\ flightLogs' \in [Shards -> Nat] /\ storedLogs' \in [Shards -> Nat]
       /\ droppedLogs \in Nat /\ lostLogs \in Nat /\ madeLogs \in Nat
  BY <1>0 DEF QueueTypes
<1>02. SumFunction(logs) \in Nat /\ SumFunction(flightLogs) \in Nat /\ SumFunction(storedLogs) \in Nat
  BY <1>01, LogSum
<1>1. CASE UNCHANGED <<logs, flightLogs, storedLogs, droppedLogs, lostLogs, madeLogs, flush>>
  BY <1>1 DEF LogKeeping, LogsInBatch, LogsAccounted
<1>2. CASE Callback
  <2>1. ASSUME NEW w \in Callers, RecordLog(w)
        PROVE  LogKeeping'
    <3>1. call[w].key \in Keys
      BY <2>1 DEF RecordLog, TypeOK, CallTypes
    <3>. QED BY <1>0, <2>1, <3>1, LogIsKept DEF RecordLog
  <2>2. ASSUME NEW k \in Keys, LogDecision(k)
        PROVE  LogKeeping'
    BY <1>0, <2>2, LogIsKept DEF LogDecision
  <2>3. ASSUME NEW w \in Callers, NEW k \in Keys, NEW t \in Slots, NEW m \in Amounts \cup {0},
               RecordUsage(w, k, t, m)
        PROVE  LogKeeping'
    BY <1>1, <2>3 DEF RecordUsage
  <2>4. ASSUME NEW w \in Callers, NEW u \in Amounts, RecordActual(w, u)
        PROVE  LogKeeping'
    BY <1>1, <2>4 DEF RecordActual
  <2>5. ASSUME NEW w \in Callers, RaiseAlarm(w)
        PROVE  LogKeeping'
    BY <1>1, <2>5 DEF RaiseAlarm
  <2>. QED BY <1>2, <2>1, <2>2, <2>3, <2>4, <2>5 DEF Callback
<1>3. CASE FlushTick \/ ResetFlush
  <2>1. /\ flush = IdleFlush /\ UNCHANGED <<logs, flightLogs, storedLogs, droppedLogs, lostLogs, madeLogs>>
    BY <1>3 DEF FlushTick, ResetFlush, StartFlush
  <2>2. \A s \in Shards : flightLogs[s] = 0
    BY <2>1 DEF LogKeeping, LogsInBatch, IdleFlush
  <2>. QED BY <2>1, <2>2 DEF LogKeeping, LogsInBatch, LogsAccounted
<1>4. CASE FlushTake
  <2>1. PICK s \in Shards : s = flush.at /\ flush.pc = "take"
                            /\ UNCHANGED <<storedLogs, droppedLogs, lostLogs, madeLogs>>
    BY <1>4 DEF FlushTake
  <2>2. CASE flush' = [flush EXCEPT !.at = s + 1] /\ UNCHANGED queues
    <3>1. flush'.pc = "take" /\ flush'.batch = flush.batch
      BY <1>0, <2>1, <2>2 DEF Flush
    <3>. QED BY <2>1, <2>2, <3>1 DEF LogKeeping, LogsInBatch, LogsAccounted
  <2>3. CASE /\ flush' = [flush EXCEPT !.pc = "release", !.batch = @ \cup {s}]
             /\ flightLogs' = [flightLogs EXCEPT ![s] = logs[s]]
             /\ logs' = [logs EXCEPT ![s] = 0]
    <3>1. flush'.pc = "release" /\ flush'.batch = flush.batch \cup {s}
      BY <1>0, <2>1, <2>3 DEF Flush
    <3>2. flightLogs[s] = 0
      <4>1. s \notin flush.batch
        BY <1>0, <2>1 DEF BatchCovers
      <4>. QED BY <4>1 DEF LogKeeping, LogsInBatch
    <3>3. LogsInBatch'
      BY <1>01, <2>1, <2>3, <3>1 DEF LogKeeping, LogsInBatch
    <3>4. /\ logs'[s] = 0 /\ flightLogs'[s] = logs[s] /\ logs[s] \in Nat
          /\ \A q \in Shards \ {s} : logs'[q] = logs[q] /\ flightLogs'[q] = flightLogs[q]
      BY <1>01, <2>1, <2>3
    <3>5. SumFunction(logs') = SumFunction(logs) + logs'[s] - logs[s]
      BY <1>01, <3>4, LogSumChange
    <3>6. SumFunction(flightLogs') = SumFunction(flightLogs) + flightLogs'[s] - flightLogs[s]
      BY <1>01, <3>4, LogSumChange
    <3>7. SumFunction(logs') + SumFunction(flightLogs') = SumFunction(logs) + SumFunction(flightLogs)
      BY <1>02, <3>2, <3>4, <3>5, <3>6
    <3>8. SumFunction(logs') \in Nat /\ SumFunction(flightLogs') \in Nat
      BY <1>01, LogSum
    <3>9. LogsAccounted'
      BY <1>01, <1>02, <2>1, <3>7, <3>8 DEF LogKeeping, LogsAccounted
    <3>. QED BY <3>3, <3>9 DEF LogKeeping
  <2>. QED BY <1>4, <2>1, <2>2, <2>3 DEF FlushTake
<1>5. CASE FlushRelease
  <2>1. /\ flush.pc = "release" /\ flush'.pc = "take" /\ flush'.batch = flush.batch
        /\ UNCHANGED <<logs, flightLogs, storedLogs, droppedLogs, lostLogs, madeLogs>>
    BY <1>0, <1>5 DEF FlushRelease, Flush
  <2>. QED BY <2>1 DEF LogKeeping, LogsInBatch, LogsAccounted
<1>6. CASE FlushNothing \/ FlushReturnError \/ FlushReturnOK
  <2>1. /\ flush' = IdleFlush
        /\ UNCHANGED <<logs, flightLogs, storedLogs, droppedLogs, lostLogs, madeLogs>>
    BY <1>6 DEF FlushNothing, FlushReturnError, FlushReturnOK, Return
  <2>2. \A s \in Shards : s < ShardCount + 1 /\ ShardCount \in Nat
    BY ShardAssumption DEF Shards
  <2>3. ASSUME NEW s \in Shards
        PROVE  flightLogs[s] = 0
    <3>1. CASE FlushNothing
      BY <3>1 DEF FlushNothing, LogKeeping, LogsInBatch
    <3>2. CASE FlushReturnError
      <4>1. flush.pc = "restore" /\ ~(s >= flush.at)
        BY <1>0, <2>2, <3>2 DEF FlushReturnError
      <4>. QED BY <4>1 DEF LogKeeping, LogsInBatch
    <3>3. CASE FlushReturnOK
      BY <3>3 DEF FlushReturnOK, LogKeeping, LogsInBatch
    <3>. QED BY <1>6, <3>1, <3>2, <3>3
  <2>. QED BY <2>1, <2>3 DEF LogKeeping, LogsInBatch, LogsAccounted
<1>7. CASE FlushCommit
  <2>1. /\ flightLogs' = NoLogs
        /\ \A s \in Shards : storedLogs'[s] = storedLogs[s] + flightLogs[s]
        /\ UNCHANGED <<logs, droppedLogs, lostLogs, madeLogs>>
    BY <1>7 DEF FlushCommit
  <2>2. SumFunction(flightLogs') = 0
    BY <2>1, NoLogsSum
  <2>3. SumFunction(storedLogs') = SumFunction(storedLogs) + SumFunction(flightLogs)
    BY <1>01, <2>1, LogSumAdd
  <2>4. LogsInBatch'
    BY <2>1 DEF LogsInBatch, NoLogs
  <2>5. LogsAccounted'
    BY <1>01, <1>02, <2>1, <2>2, <2>3 DEF LogKeeping, LogsAccounted
  <2>. QED BY <2>4, <2>5 DEF LogKeeping
<1>8. CASE FlushFail
  <2>1. /\ flush.pc = "take" /\ flush'.pc = "restore" /\ flush'.at = 1 /\ flush'.batch = flush.batch
        /\ UNCHANGED <<logs, flightLogs, storedLogs, droppedLogs, lostLogs, madeLogs>>
    BY <1>0, <1>8 DEF FlushFail, Flush
  <2>2. \A s \in Shards : s >= 1
    BY DEF Shards
  <2>. QED BY <2>1, <2>2 DEF LogKeeping, LogsInBatch, LogsAccounted
<1>9. CASE FlushRestore
  <2>1. PICK s \in Shards : s = flush.at /\ flush.pc = "restore"
                            /\ UNCHANGED <<storedLogs, droppedLogs, madeLogs>>
    BY <1>9 DEF FlushRestore
  <2>. DEFINE room == LesserOf(flightLogs[s], IF logCount >= MaxLogs THEN 0 ELSE MaxLogs - logCount)
  <2>2. flush'.pc = "restore" /\ flush'.at = s + 1 /\ flush'.batch = flush.batch
    BY <1>0, <1>9, <2>1 DEF FlushRestore, Flush
  <2>3. CASE s \notin flush.batch /\ UNCHANGED <<queues, lostLogs>>
    <3>1. flightLogs[s] = 0
      BY <2>3 DEF LogKeeping, LogsInBatch
    <3>2. \A q \in Shards : q # s /\ q >= s => q >= s + 1
      BY <1>0
    <3>3. LogsInBatch'
      BY <2>1, <2>2, <2>3, <3>1, <3>2 DEF LogKeeping, LogsInBatch
    <3>. QED BY <2>1, <2>3, <3>3 DEF LogKeeping, LogsAccounted
  <2>4. CASE /\ logs' = [logs EXCEPT ![s] = @ + room]
             /\ lostLogs' = lostLogs + (flightLogs[s] - room)
             /\ flightLogs' = [flightLogs EXCEPT ![s] = 0]
    <3>1. room \in Int /\ flightLogs[s] \in Nat /\ logs[s] \in Nat
      BY <1>0, <1>01, LimitAssumption DEF LesserOf, QueueTypes
    <3>. HIDE DEF room
    <3>2. /\ logs'[s] = logs[s] + room /\ flightLogs'[s] = 0
          /\ \A q \in Shards \ {s} : logs'[q] = logs[q] /\ flightLogs'[q] = flightLogs[q]
      BY <1>01, <2>1, <2>4
    <3>3. SumFunction(logs') = SumFunction(logs) + logs'[s] - logs[s]
      BY <1>01, <3>2, LogSumChange
    <3>4. SumFunction(flightLogs') = SumFunction(flightLogs) + flightLogs'[s] - flightLogs[s]
      BY <1>01, <3>2, LogSumChange
    <3>5. /\ SumFunction(logs') = SumFunction(logs) + room
          /\ SumFunction(flightLogs') = SumFunction(flightLogs) - flightLogs[s]
      BY <1>02, <3>1, <3>2, <3>3, <3>4
    <3>6. LogsAccounted'
      BY <1>01, <1>02, <2>1, <2>4, <3>1, <3>5 DEF LogKeeping, LogsAccounted
    <3>7. \A q \in Shards : q # s /\ q >= s => q >= s + 1
      BY <1>0
    <3>8. LogsInBatch'
      BY <2>1, <2>2, <3>2, <3>7 DEF LogKeeping, LogsInBatch
    <3>. QED BY <3>6, <3>8 DEF LogKeeping
  <2>. QED BY <1>9, <2>1, <2>3, <2>4 DEF FlushRestore
<1>10. CASE FlushSettle
  <2>1. /\ flush.pc = "settle" /\ flush'.pc = "settle" /\ flush'.batch = flush.batch
        /\ UNCHANGED <<logs, flightLogs, storedLogs, droppedLogs, lostLogs, madeLogs>>
    BY <1>0, <1>10 DEF FlushSettle, Flush
  <2>. QED BY <2>1 DEF LogKeeping, LogsInBatch, LogsAccounted
<1>11. CASE Restart
  <2>1. /\ logs' = NoLogs /\ flightLogs' = NoLogs /\ storedLogs' = NoLogs
        /\ lostLogs' = 0 /\ madeLogs' = 0 /\ droppedLogs' = 0
    BY <1>11 DEF Restart
  <2>. QED BY <2>1, NoLogsSum DEF LogKeeping, LogsInBatch, LogsAccounted, NoLogs
<1>12. CASE UNCHANGED vars \/ Tick \/ (\E k \in Keys : BeginReset(k)) \/ ResetDelete \/ ResetDeleteFails
  BY <1>1, <1>12 DEF Tick, BeginReset, ResetDelete, ResetDeleteFails, vars
<1>. QED
  BY <1>2, <1>3, <1>4, <1>5, <1>6, <1>7, <1>8, <1>9, <1>10, <1>11, <1>12
  DEF Next, FlushStep, ResetStep

\* No decision log disappears unaccounted, whatever flushes fail: each is
\* queued, in flight, stored, counted as dropped or cut off by a full queue.
THEOREM EveryLogAccounted == Spec => []LogsAccounted
<1>1. Init => LogKeeping
  BY NoLogsSum DEF Init, LogKeeping, LogsInBatch, LogsAccounted, NoLogs
<1>2. IInv /\ LogKeeping /\ [Next]_vars => LogKeeping'
  BY LogStep DEF IInv
<1>3. LogKeeping => LogsAccounted
  BY DEF LogKeeping
<1>. QED BY <1>1, <1>2, <1>3, Invariant, PTL DEF Spec

-----------------------------------------------------------------------------
(* The counters of the queue.                                               *)

Waiting == {b \in Bucket : pending[b] > 0}
Flying  == {b \in Bucket : flight[b] > 0}

\* Between a shard's unlock and the subtraction the counters still count what
\* was taken from it.
Released     == IF flush.pc = "release" THEN Taken(flush.at) ELSE {}
ReleasedLogs == IF flush.pc = "release" THEN flightLogs[flush.at] ELSE 0

Counted ==
  /\ bucketCount = Cardinality(Waiting) + Cardinality(Released)
  /\ logCount = SumFunction(logs) + ReleasedLogs

\* It says what CountersExact says.
LEMMA CountedIsExact ==
  ASSUME TypeOK, Counted
  PROVE  CountersExact
<1>. DEFINE window == IF flush.pc = "release" THEN {flush.at} ELSE {}
<1>1. Released = {b \in Bucket : flight[b] > 0 /\ ShardOfBucket(b) \in window}
  BY DEF Released, Taken, InShard
<1>2. ReleasedLogs = SumFunctionOnSet(flightLogs, window)
  <2>1. CASE flush.pc = "release"
    <3>1. flightLogs[flush.at] \in Int
      BY <2>1 DEF TypeOK, FlushTypes, QueueTypes
    <3>. QED BY <2>1, <3>1, SumSingleton DEF ReleasedLogs
  <2>2. CASE flush.pc # "release"
    BY <2>2, SumEmpty DEF ReleasedLogs
  <2>. QED BY <2>1, <2>2
<1>. QED BY <1>1, <1>2 DEF Counted, CountersExact, Waiting

\* Sets of buckets are finite.
LEMMA BucketsFinite ==
  ASSUME NEW Q, Q \subseteq Bucket
  PROVE  IsFiniteSet(Q) /\ Cardinality(Q) \in Nat
BY ChargeAssumption, FS_Subset, FS_CardinalityType

\* Adding one set of buckets to another, and taking a part out of one.
LEMMA BucketsAdded ==
  ASSUME NEW Q, NEW R, Q \subseteq Bucket, R \subseteq Bucket
  PROVE  /\ Cardinality(Q \cup R) = Cardinality(Q) + Cardinality(R \ Q)
         /\ Cardinality(R \ Q) <= Cardinality(R)
         /\ R \subseteq Q => Cardinality(Q \ R) = Cardinality(Q) - Cardinality(R)
<1>1. /\ IsFiniteSet(Q) /\ IsFiniteSet(R) /\ IsFiniteSet(R \ Q)
      /\ Cardinality(Q) \in Nat /\ Cardinality(R) \in Nat /\ Cardinality(R \ Q) \in Nat
  BY BucketsFinite
<1>2. Cardinality(Q \cup R) = Cardinality(Q) + Cardinality(R \ Q)
  <2>. DEFINE D == R \ Q
  <2>1. Q \cup R = Q \cup D /\ Q \cap D = {}
    OBVIOUS
  <2>2. IsFiniteSet(D) /\ Cardinality(D) \in Nat
    BY <1>1
  <2>. HIDE DEF D
  <2>3. Cardinality(Q \cup D) = Cardinality(Q) + Cardinality(D) - Cardinality({})
    BY <1>1, <2>1, <2>2, FS_Union
  <2>4. Cardinality({}) = 0
    BY FS_EmptySet
  <2>5. Cardinality(Q \cup D) = Cardinality(Q) + Cardinality(D)
    BY <1>1, <2>2, <2>3, <2>4
  <2>6. Cardinality(Q \cup R) = Cardinality(Q) + Cardinality(D)
    BY <2>1, <2>5
  <2>. QED BY <2>6 DEF D
<1>3. Cardinality(R \ Q) <= Cardinality(R)
  BY <1>1, FS_Subset
<1>4. R \subseteq Q => Cardinality(Q \ R) = Cardinality(Q) - Cardinality(R)
  <2>1. R \subseteq Q => Q \cap R = R
    OBVIOUS
  <2>2. Cardinality(Q \ R) = Cardinality(Q) - Cardinality(Q \cap R)
    BY <1>1, FS_Difference
  <2>. QED BY <2>1, <2>2
<1>. QED BY <1>2, <1>3, <1>4

\* A charge is counted when it opens a bucket.
LEMMA ChargeCounted ==
  ASSUME TypeOK, Counted, NEW b \in Bucket, NEW u \in Nat \ {0}, Charge(b, u),
         UNCHANGED <<flight, logs, flightLogs, logCount, flush>>
  PROVE  /\ Counted'
         /\ Waiting' = Waiting \/ Cardinality(Waiting') <= MaxBuckets
<1>0. Released' = Released /\ Cardinality(Released) \in Nat /\ ReleasedLogs' = ReleasedLogs
  <2>1. Released \subseteq Bucket
    BY DEF Released, Taken, InShard
  <2>. QED BY <2>1, BucketsFinite DEF Released, ReleasedLogs, Taken
<1>1. CASE UNCHANGED <<pending, bucketCount>>
  <2>1. Waiting' = Waiting
    BY <1>1 DEF Waiting
  <2>. QED BY <1>0, <1>1, <2>1 DEF Counted
<1>2. CASE ~Refuses(b) /\ pending' = AddTo(pending, b, u)
           /\ bucketCount' = IF pending[b] = 0 THEN bucketCount + 1 ELSE bucketCount
  <2>0. /\ pending \in [Bucket -> Nat] /\ bucketCount \in Int /\ MaxBuckets \in Nat
        /\ Waiting \subseteq Bucket
    BY LimitAssumption DEF TypeOK, LedgerTypes, QueueTypes, Waiting
  <2>1. pending' = [pending EXCEPT ![b] = @ + u]
    BY <1>2 DEF AddTo
  <2>2. Waiting' = Waiting \cup {b}
    BY <2>0, <2>1 DEF Waiting
  <2>3. Cardinality(Waiting') = IF b \in Waiting THEN Cardinality(Waiting) ELSE Cardinality(Waiting) + 1
    <3>1. IsFiniteSet(Waiting)
      BY <2>0, BucketsFinite
    <3>. QED BY <2>2, <3>1, FS_AddElement
  <2>4. Cardinality(Waiting) \in Nat
    BY <2>0, BucketsFinite
  <2>5. CASE pending[b] = 0
    <3>1. b \notin Waiting /\ bucketCount + 1 <= MaxBuckets /\ bucketCount' = bucketCount + 1
      BY <1>2, <2>0, <2>5 DEF Refuses, Waiting
    <3>. QED BY <1>0, <2>0, <2>3, <2>4, <3>1 DEF Counted
  <2>6. CASE pending[b] # 0
    <3>1. b \in Waiting /\ bucketCount' = bucketCount
      BY <1>2, <2>0, <2>6 DEF Waiting
    <3>2. Waiting' = Waiting
      BY <2>2, <3>1
    <3>. QED BY <1>0, <3>1, <3>2 DEF Counted
  <2>. QED BY <2>5, <2>6
<1>. QED BY <1>1, <1>2 DEF Charge

\* A queued log is counted, and only queued while there is a free slot.
LEMMA LogCounted ==
  ASSUME TypeOK, TypeOK', Counted, NEW k \in Keys, EnqueueDecision(k),
         UNCHANGED <<pending, flight, flightLogs, bucketCount, flush>>
  PROVE  /\ Counted' /\ UNCHANGED <<Waiting, Flying>>
         /\ SumFunction(logs') = SumFunction(logs) \/ SumFunction(logs') <= MaxLogs
<1>0. /\ LogShard(k) \in Shards
      /\ logs \in [Shards -> Nat] /\ logs' \in [Shards -> Nat] /\ logCount \in Int
      /\ flush.pc = "release" => flightLogs[flush.at] \in Nat
  BY ShardTyping DEF TypeOK, QueueTypes, FlushTypes
<1>1. /\ Released' = Released /\ ReleasedLogs' = ReleasedLogs /\ Waiting' = Waiting /\ Flying' = Flying
      /\ ReleasedLogs \in Nat
  BY <1>0 DEF Released, ReleasedLogs, Taken, Waiting, Flying
<1>2. CASE UNCHANGED <<logs, logCount>>
  BY <1>1, <1>2 DEF Counted
<1>3. CASE logCount < MaxLogs /\ logs' = [logs EXCEPT ![LogShard(k)] = @ + 1] /\ logCount' = logCount + 1
  <2>1. /\ logs'[LogShard(k)] = logs[LogShard(k)] + 1
        /\ \A q \in Shards \ {LogShard(k)} : logs'[q] = logs[q]
        /\ logs[LogShard(k)] \in Nat
    BY <1>0, <1>3
  <2>2. SumFunction(logs') = SumFunction(logs) + logs'[LogShard(k)] - logs[LogShard(k)]
    BY <1>0, <2>1, LogSumChange
  <2>3. SumFunction(logs) \in Nat
    BY <1>0, LogSum
  <2>4. SumFunction(logs') = SumFunction(logs) + 1
    BY <2>1, <2>2, <2>3
  <2>. QED BY <1>0, <1>1, <1>3, <2>3, <2>4, LimitAssumption DEF Counted
<1>. QED BY <1>2, <1>3 DEF EnqueueDecision

\* Taking a shard moves what it holds from the queue into the batch.
LEMMA TakeCounted ==
  ASSUME TypeOK, TypeOK', Counted, FlushTake
  PROVE  /\ Counted'
         /\ Cardinality(Waiting') <= Cardinality(Waiting)
         /\ Cardinality(Flying') <= Cardinality(Waiting) + Cardinality(Flying)
         /\ Cardinality(Waiting') + Cardinality(Flying') <= Cardinality(Waiting) + Cardinality(Flying)
         /\ SumFunction(logs') <= SumFunction(logs)
         /\ \/ flush'.pc = "take" /\ flush'.at = flush.at + 1 /\ Flying' = Flying
            \/ flush'.pc = "release" /\ flush'.at = flush.at
<1>. USE DEF queues
<1>0. /\ logs \in [Shards -> Nat] /\ logs' \in [Shards -> Nat] /\ flush \in Flush
      /\ pending \in [Bucket -> Nat] /\ flight \in [Bucket -> Nat]
  BY DEF TypeOK, QueueTypes, LedgerTypes, FlushTypes
<1>1. PICK s \in Shards : s = flush.at /\ flush.pc = "take" /\ UNCHANGED <<bucketCount, logCount>>
  BY DEF FlushTake
<1>2. Waiting \subseteq Bucket /\ Flying \subseteq Bucket /\ Flying' \subseteq Bucket /\ Queued(s) \subseteq Waiting
  BY DEF Waiting, Flying, Queued, InShard
<1>3. /\ Cardinality(Waiting) \in Nat /\ Cardinality(Flying) \in Nat /\ Cardinality(Flying') \in Nat
      /\ Cardinality(Queued(s)) \in Nat /\ Cardinality(Waiting \ Queued(s)) \in Nat
      /\ SumFunction(logs) \in Nat
  <2>1. Queued(s) \subseteq Bucket /\ Waiting \ Queued(s) \subseteq Bucket
    BY <1>2
  <2>. QED BY <1>0, <1>2, <2>1, BucketsFinite, LogSum
<1>4. Released = {} /\ ReleasedLogs = 0 /\ Cardinality({}) = 0
  BY <1>1, FS_EmptySet DEF Released, ReleasedLogs
<1>5. CASE flush' = [flush EXCEPT !.at = s + 1] /\ UNCHANGED queues
  <2>1. flush'.pc = "take" /\ flush'.at = flush.at + 1
    BY <1>0, <1>1, <1>5 DEF Flush
  <2>2. UNCHANGED <<Waiting, Flying>> /\ Released' = {} /\ ReleasedLogs' = 0
    BY <1>5, <2>1 DEF Waiting, Flying, Released, ReleasedLogs
  <2>3. Counted'
    BY <1>4, <1>5, <2>2 DEF Counted
  <2>. QED BY <1>3, <1>5, <2>1, <2>2, <2>3
<1>6. CASE /\ flush' = [flush EXCEPT !.pc = "release", !.batch = @ \cup {s}]
           /\ flight' = [b \in Bucket |-> IF b \in InShard(s) THEN pending[b] ELSE flight[b]]
           /\ pending' = [b \in Bucket |-> IF b \in InShard(s) THEN 0 ELSE pending[b]]
           /\ flightLogs' = [flightLogs EXCEPT ![s] = logs[s]]
           /\ logs' = [logs EXCEPT ![s] = 0]
  <2>1. flush'.pc = "release" /\ flush'.at = flush.at
    BY <1>0, <1>1, <1>6 DEF Flush
  <2>2. Waiting' = Waiting \ Queued(s) /\ Flying' \subseteq Flying \cup Queued(s)
    BY <1>0, <1>6 DEF Waiting, Flying, Queued, InShard
  <2>3. Released' = Queued(s)
    BY <1>0, <1>1, <1>6, <2>1 DEF Released, Taken, Queued, InShard
  <2>4. Cardinality(Waiting') = Cardinality(Waiting) - Cardinality(Queued(s))
    BY <1>2, <2>2, BucketsAdded
  <2>5. Cardinality(Flying') <= Cardinality(Flying) + Cardinality(Queued(s))
    <3>1. Queued(s) \subseteq Bucket /\ Flying \cup Queued(s) \subseteq Bucket
      BY <1>2
    <3>2. /\ Cardinality(Flying \cup Queued(s)) = Cardinality(Flying) + Cardinality(Queued(s) \ Flying)
          /\ Cardinality(Queued(s) \ Flying) <= Cardinality(Queued(s))
      BY <1>2, <3>1, BucketsAdded
    <3>3. IsFiniteSet(Flying \cup Queued(s)) /\ Cardinality(Flying \cup Queued(s)) \in Nat
      BY <3>1, BucketsFinite
    <3>4. Cardinality(Flying') <= Cardinality(Flying \cup Queued(s))
      BY <2>2, <3>3, FS_Subset
    <3>5. Cardinality(Queued(s) \ Flying) \in Nat
      <4>1. Queued(s) \ Flying \subseteq Bucket
        BY <3>1
      <4>. QED BY <4>1, BucketsFinite
    <3>. QED BY <1>3, <3>2, <3>3, <3>4, <3>5
  <2>6. /\ logs'[s] = 0 /\ logs[s] \in Nat /\ \A q \in Shards \ {s} : logs'[q] = logs[q]
        /\ ReleasedLogs' = logs[s]
    BY <1>0, <1>1, <1>6, <2>1 DEF ReleasedLogs, TypeOK, QueueTypes
  <2>7. SumFunction(logs') = SumFunction(logs) - logs[s]
    <3>1. SumFunction(logs') = SumFunction(logs) + logs'[s] - logs[s]
      BY <1>0, <2>6, LogSumChange
    <3>. QED BY <1>3, <2>6, <3>1
  <2>8. Counted'
    <3>1. bucketCount' = Cardinality(Waiting') + Cardinality(Released')
      BY <1>1, <1>3, <1>4, <2>3, <2>4 DEF Counted
    <3>2. logCount' = SumFunction(logs') + ReleasedLogs'
      BY <1>1, <1>3, <1>4, <2>6, <2>7 DEF Counted
    <3>. QED BY <3>1, <3>2 DEF Counted
  <2>9. Cardinality(Waiting') \in Nat
    BY <1>3, <2>2
  <2>. QED BY <1>3, <2>1, <2>4, <2>5, <2>6, <2>7, <2>8, <2>9
<1>. QED BY <1>1, <1>5, <1>6 DEF FlushTake

\* Merging a shard back moves what it had from the batch into the queue, the
\* logs only as far as there are free slots.
LEMMA RestoreCounted ==
  ASSUME TypeOK, TypeOK', Counted, FlushRestore
  PROVE  /\ Counted'
         /\ Cardinality(Flying') <= Cardinality(Flying)
         /\ Cardinality(Waiting') + Cardinality(Flying') <= Cardinality(Waiting) + Cardinality(Flying)
         /\ SumFunction(logs') = SumFunction(logs) \/ SumFunction(logs') <= MaxLogs
<1>. USE DEF queues
<1>0. /\ logs \in [Shards -> Nat] /\ logs' \in [Shards -> Nat] /\ flightLogs \in [Shards -> Nat]
      /\ pending \in [Bucket -> Nat] /\ flight \in [Bucket -> Nat] /\ flush \in Flush
      /\ bucketCount \in Int /\ logCount \in Int /\ MaxLogs \in Nat
  BY LimitAssumption DEF TypeOK, QueueTypes, LedgerTypes, FlushTypes
<1>1. PICK s \in Shards : s = flush.at /\ flush.pc = "restore" /\ flush'.pc = "restore"
  BY <1>0 DEF FlushRestore, Flush
<1>. DEFINE room == LesserOf(flightLogs[s], IF logCount >= MaxLogs THEN 0 ELSE MaxLogs - logCount)
<1>2. Waiting \subseteq Bucket /\ Flying \subseteq Bucket /\ Taken(s) \subseteq Flying
  BY DEF Waiting, Flying, Taken, InShard
<1>3. /\ Cardinality(Waiting) \in Nat /\ Cardinality(Flying) \in Nat
      /\ Cardinality(Taken(s)) \in Nat /\ Cardinality(Taken(s) \ Waiting) \in Nat
      /\ SumFunction(logs) \in Nat
  <2>1. Taken(s) \subseteq Bucket /\ Taken(s) \ Waiting \subseteq Bucket
    BY <1>2
  <2>. QED BY <1>0, <1>2, <2>1, BucketsFinite, LogSum
<1>4. /\ Released = {} /\ ReleasedLogs = 0 /\ Released' = {} /\ ReleasedLogs' = 0
      /\ Cardinality({}) = 0
  BY <1>1, FS_EmptySet DEF Released, ReleasedLogs
<1>5. CASE UNCHANGED queues
  <2>1. UNCHANGED <<Waiting, Flying>>
    BY <1>5 DEF Waiting, Flying
  <2>. QED BY <1>3, <1>4, <1>5, <2>1 DEF Counted
<1>6. CASE /\ logs' = [logs EXCEPT ![s] = @ + room]
           /\ logCount' = logCount + room
           /\ pending' = [b \in Bucket |-> IF b \in InShard(s) THEN pending[b] + flight[b] ELSE pending[b]]
           /\ bucketCount' = bucketCount + Cardinality(Taken(s) \ Queued(s))
           /\ flight' = [b \in Bucket |-> IF b \in InShard(s) THEN 0 ELSE flight[b]]
  <2>1. Waiting' = Waiting \cup Taken(s) /\ Flying' = Flying \ Taken(s)
    BY <1>0, <1>6 DEF Waiting, Flying, Taken, InShard
  <2>2. bucketCount' = bucketCount + Cardinality(Taken(s) \ Waiting)
    <3>1. Taken(s) \ Queued(s) = Taken(s) \ Waiting
      BY DEF Waiting, Taken, Queued, InShard
    <3>. QED BY <1>6, <3>1
  <2>3. /\ Cardinality(Waiting') = Cardinality(Waiting) + Cardinality(Taken(s) \ Waiting)
        /\ Cardinality(Taken(s) \ Waiting) <= Cardinality(Taken(s))
        /\ Cardinality(Flying') = Cardinality(Flying) - Cardinality(Taken(s))
    <3>1. Taken(s) \subseteq Bucket
      BY <1>2
    <3>. QED BY <1>2, <2>1, <3>1, BucketsAdded
  <2>4. room \in Int /\ (logCount >= MaxLogs => room <= 0) /\ (logCount < MaxLogs => room <= MaxLogs - logCount)
        /\ room >= 0
    BY <1>0 DEF LesserOf
  <2>. HIDE DEF room
  <2>5. /\ logs'[s] = logs[s] + room /\ logs[s] \in Nat
        /\ \A q \in Shards \ {s} : logs'[q] = logs[q]
    BY <1>0, <1>6
  <2>6. SumFunction(logs') = SumFunction(logs) + room
    <3>1. SumFunction(logs') = SumFunction(logs) + logs'[s] - logs[s]
      BY <1>0, <2>5, LogSumChange
    <3>. QED BY <1>3, <2>4, <2>5, <3>1
  <2>7. Counted'
    <3>1. bucketCount' = Cardinality(Waiting') + Cardinality(Released')
      <4>1. Cardinality(Released) = 0 /\ Cardinality(Released') = 0
        BY <1>4
      <4>2. bucketCount = Cardinality(Waiting)
        BY <1>3, <4>1 DEF Counted
      <4>. QED BY <2>2, <2>3, <4>1, <4>2, <1>3
    <3>2. logCount' = SumFunction(logs') + ReleasedLogs'
      BY <1>3, <1>4, <1>6, <2>4, <2>6 DEF Counted
    <3>. QED BY <3>1, <3>2 DEF Counted
  <2>8. SumFunction(logs') = SumFunction(logs) \/ SumFunction(logs') <= MaxLogs
    BY <1>0, <1>3, <1>4, <2>4, <2>6 DEF Counted
  <2>. QED BY <1>3, <2>3, <2>7, <2>8
<1>. QED BY <1>1, <1>5, <1>6 DEF FlushRestore

\* The other steps of a flush, a reset, the clock and a restart.
LEMMA RestCounted ==
  ASSUME TypeOK, Counted,
         \/ UNCHANGED <<pending, flight, logs, flightLogs, bucketCount, logCount, flush>>
         \/ FlushTick \/ ResetFlush \/ FlushRelease \/ FlushNothing \/ FlushCommit \/ FlushFail
         \/ FlushReturnError \/ FlushSettle \/ FlushReturnOK \/ Restart
  PROVE  /\ Counted'
         /\ UNCHANGED <<pending, logs>> \/ (Waiting' = {} /\ SumFunction(logs') = 0)
         /\ flight' = flight \/ Flying' = {}
<1>. USE DEF queues, FlushUnchanged
<1>0. flush \in Flush /\ Cardinality({}) = 0
  BY FS_EmptySet DEF TypeOK, FlushTypes
<1>1. CASE UNCHANGED <<pending, flight, logs, flightLogs, bucketCount, logCount, flush>>
  BY <1>1 DEF Counted, Waiting, Released, ReleasedLogs, Taken
<1>2. CASE FlushRelease
  <2>1. /\ flush.pc = "release" /\ flush'.pc = "take" /\ UNCHANGED <<pending, logs, flight>>
        /\ bucketCount' = bucketCount - Cardinality(Taken(flush.at))
        /\ logCount' = logCount - flightLogs[flush.at]
    BY <1>0, <1>2 DEF FlushRelease, Flush
  <2>2. /\ Waiting' = Waiting /\ Released' = {} /\ ReleasedLogs' = 0
        /\ Released = Taken(flush.at) /\ ReleasedLogs = flightLogs[flush.at]
    BY <2>1 DEF Waiting, Released, ReleasedLogs
  <2>3. /\ flush.at \in Shards /\ flightLogs[flush.at] \in Nat /\ SumFunction(logs) \in Nat
        /\ Cardinality(Taken(flush.at)) \in Nat /\ Cardinality(Waiting) \in Nat
    <3>1. flush.at \in Shards /\ flightLogs[flush.at] \in Nat /\ SumFunction(logs) \in Nat
      BY <2>1, LogSum DEF TypeOK, FlushTypes, QueueTypes
    <3>2. Waiting \subseteq Bucket
      BY DEF Waiting
    <3>. QED BY <3>1, <3>2, CountedSetsFinite, BucketsFinite
  <2>4. Counted'
    BY <1>0, <2>1, <2>2, <2>3 DEF Counted
  <2>. QED BY <2>1, <2>4
<1>3. CASE Restart
  <2>1. pending' = Nothing /\ flight' = Nothing /\ logs' = NoLogs /\ bucketCount' = 0 /\ logCount' = 0
        /\ flush' = IdleFlush
    BY <1>3 DEF Restart
  <2>2. Waiting' = {} /\ Flying' = {} /\ Released' = {} /\ ReleasedLogs' = 0
    BY <2>1 DEF Waiting, Flying, Released, ReleasedLogs, Nothing, IdleFlush
  <2>. QED BY <1>0, <2>1, <2>2, NoLogsSum DEF Counted
<1>4. CASE \/ FlushTick \/ ResetFlush \/ FlushNothing \/ FlushCommit \/ FlushFail
           \/ FlushReturnError \/ FlushSettle \/ FlushReturnOK
  <2>1. flush.pc # "release" /\ flush'.pc # "release" /\ UNCHANGED <<pending, logs, bucketCount, logCount>>
        /\ (flight' = flight \/ flight' = Nothing)
    <3>1. CASE FlushTick \/ ResetFlush \/ FlushNothing \/ FlushReturnError \/ FlushReturnOK
      BY <1>0, <3>1 DEF FlushTick, ResetFlush, FlushNothing, FlushReturnError, FlushReturnOK,
                        StartFlush, Return, IdleFlush
    <3>2. CASE FlushCommit \/ FlushFail \/ FlushSettle
      BY <1>0, <3>2 DEF FlushCommit, FlushFail, FlushSettle, Flush
    <3>. QED BY <1>4, <3>1, <3>2
  <2>2. Waiting' = Waiting /\ Released' = Released /\ ReleasedLogs' = ReleasedLogs
    BY <2>1 DEF Waiting, Released, ReleasedLogs
  <2>3. flight' = flight \/ Flying' = {}
    BY <2>1 DEF Flying, Nothing
  <2>. QED BY <2>1, <2>2, <2>3 DEF Counted
<1>. QED BY <1>1, <1>2, <1>3, <1>4

\* Every step keeps the counters exact, up to the window of a release.
LEMMA CountStep ==
  ASSUME TypeOK, Counted, [Next]_vars
  PROVE  /\ Counted'
         /\ \/ UNCHANGED Waiting
            \/ Cardinality(Waiting') <= MaxBuckets
            \/ FlushTake \/ FlushRestore
         /\ \/ UNCHANGED Flying \/ Flying' = {}
            \/ FlushTake \/ FlushRestore
         /\ \/ SumFunction(logs') <= SumFunction(logs)
            \/ SumFunction(logs') <= MaxLogs
         /\ \/ UNCHANGED <<flush, failures>>
            \/ FlushStep \/ ResetFlush \/ ResetDeleteFails \/ Restart
<1>. USE DEF queues, history, stored, bounds
<1>0. TypeOK'
  BY TypeStep
<1>1. /\ SumFunction(logs) \in Nat /\ MaxBuckets \in Nat /\ MaxLogs \in Nat
      /\ Cardinality({}) = 0
  BY LogSum, LimitAssumption, FS_EmptySet DEF TypeOK, QueueTypes
<1>2. CASE Callback
  <2>1. ASSUME NEW w \in Callers, NEW k \in Keys, NEW t \in Slots, NEW m \in Amounts \cup {0},
               RecordUsage(w, k, t, m)
        PROVE  /\ Counted' /\ UNCHANGED <<Flying, logs, flush, failures>>
               /\ UNCHANGED Waiting \/ Cardinality(Waiting') <= MaxBuckets
    <3>. DEFINE c == [pc |-> "log", key |-> k, slot |-> t]
                b == CostBucket(c)
    <3>1. UNCHANGED <<flight, logs, flightLogs, logCount, flush, failures>> /\ Flying' = Flying
      BY <2>1 DEF RecordUsage, Flying
    <3>2. CASE m > 0 /\ Charge(CostBucket(c), m)
      <4>1. m \in Nat \ {0}
        BY <3>2, ChargeAssumption
      <4>2. c.key \in Keys /\ c.slot \in Slots
        OBVIOUS
      <4>. HIDE DEF c
      <4>3. b \in Bucket /\ Charge(b, m)
        BY <3>2, <4>2, ChargedBucket
      <4>. HIDE DEF b
      <4>. QED BY <3>1, <4>1, <4>3, ChargeCounted
    <3>3. CASE UNCHANGED <<pending, bucketCount>>
      <4>1. Waiting' = Waiting
        BY <3>3 DEF Waiting
      <4>2. Counted'
        BY <3>1, <3>3, RestCounted
      <4>. QED BY <3>1, <4>1, <4>2
    <3>. QED BY <2>1, <3>2, <3>3 DEF RecordUsage
  <2>2. ASSUME NEW w \in Callers, NEW u \in Amounts, RecordActual(w, u)
        PROVE  /\ Counted' /\ UNCHANGED <<Flying, logs, flush, failures>>
               /\ UNCHANGED Waiting \/ Cardinality(Waiting') <= MaxBuckets
    <3>1. ActualBucket(call[w]) \in Bucket /\ u \in Nat \ {0}
      BY <2>2, ChargedBucket, ChargeAssumption DEF RecordActual, TypeOK, CallTypes
    <3>2. /\ UNCHANGED <<flight, logs, flightLogs, logCount, flush, failures>> /\ Flying' = Flying
          /\ Charge(ActualBucket(call[w]), u)
      BY <2>2 DEF RecordActual, Flying
    <3>. QED BY <3>1, <3>2, ChargeCounted
  <2>3. ASSUME NEW w \in Callers, RecordLog(w)
        PROVE  /\ Counted' /\ UNCHANGED <<Waiting, Flying, flush, failures>>
               /\ SumFunction(logs') = SumFunction(logs) \/ SumFunction(logs') <= MaxLogs
    <3>1. call[w].key \in Keys
      BY <2>3 DEF RecordLog, TypeOK, CallTypes
    <3>2. /\ EnqueueDecision(call[w].key)
          /\ UNCHANGED <<pending, flight, flightLogs, bucketCount, flush, failures>>
      BY <2>3 DEF RecordLog
    <3>. QED BY <1>0, <3>1, <3>2, LogCounted
  <2>4. ASSUME NEW k \in Keys, LogDecision(k)
        PROVE  /\ Counted' /\ UNCHANGED <<Waiting, Flying, flush, failures>>
               /\ SumFunction(logs') = SumFunction(logs) \/ SumFunction(logs') <= MaxLogs
    <3>1. EnqueueDecision(k) /\ UNCHANGED <<pending, flight, flightLogs, bucketCount, flush, failures>>
      BY <2>4 DEF LogDecision
    <3>. QED BY <1>0, <3>1, LogCounted
  <2>5. ASSUME NEW w \in Callers, RaiseAlarm(w)
        PROVE  Counted' /\ UNCHANGED <<Waiting, Flying, logs, flush, failures>>
    <3>1. /\ UNCHANGED <<pending, flight, bucketCount, logs, flightLogs, logCount, flush, failures>>
          /\ UNCHANGED <<Waiting, Flying>>
      BY <2>5 DEF RaiseAlarm, Waiting, Flying
    <3>. QED BY <3>1, RestCounted
  <2>. QED BY <1>1, <1>2, <2>1, <2>2, <2>3, <2>4, <2>5 DEF Callback
<1>3. CASE FlushTake
  <2>1. Counted' /\ SumFunction(logs') <= SumFunction(logs)
    BY <1>0, <1>3, TakeCounted
  <2>. QED BY <1>3, <2>1 DEF FlushStep
<1>4. CASE FlushRestore
  <2>1. /\ Counted'
        /\ SumFunction(logs') = SumFunction(logs) \/ SumFunction(logs') <= MaxLogs
    BY <1>0, <1>4, RestoreCounted
  <2>. QED BY <1>1, <1>4, <2>1 DEF FlushStep
<1>5. CASE \/ FlushTick \/ ResetFlush \/ FlushRelease \/ FlushNothing \/ FlushCommit \/ FlushFail
           \/ FlushReturnError \/ FlushSettle \/ FlushReturnOK \/ Restart
           \/ UNCHANGED vars \/ Tick \/ (\E k \in Keys : BeginReset(k)) \/ ResetDelete \/ ResetDeleteFails
  <2>1. \/ UNCHANGED <<pending, flight, logs, flightLogs, bucketCount, logCount, flush>>
        \/ FlushTick \/ ResetFlush \/ FlushRelease \/ FlushNothing \/ FlushCommit \/ FlushFail
        \/ FlushReturnError \/ FlushSettle \/ FlushReturnOK \/ Restart
    BY <1>5 DEF vars, Tick, BeginReset, ResetDelete, ResetDeleteFails
  <2>2. /\ Counted'
        /\ UNCHANGED <<pending, logs>> \/ (Waiting' = {} /\ SumFunction(logs') = 0)
        /\ flight' = flight \/ Flying' = {}
    BY <2>1, RestCounted
  <2>3. /\ pending' = pending => Waiting' = Waiting
        /\ flight' = flight => Flying' = Flying
    BY DEF Waiting, Flying
  <2>4. \/ UNCHANGED <<flush, failures>>
        \/ FlushStep \/ ResetFlush \/ ResetDeleteFails \/ Restart
    BY <1>5 DEF vars, Tick, BeginReset, ResetDelete, FlushStep
  <2>. QED BY <1>1, <2>2, <2>3, <2>4
<1>. QED BY <1>2, <1>3, <1>4, <1>5 DEF Next, FlushStep, ResetStep

\* However callbacks interleave with the taking and merging back of shards,
\* the counters that decide about admission are what the shards hold, but for
\* the window between a shard's unlock and the subtraction.
THEOREM CountersTrue == Spec => []CountersExact
<1>1. Init => Counted
  <2>. SUFFICES ASSUME Init PROVE Counted
    OBVIOUS
  <2>1. Waiting = {} /\ Released = {} /\ ReleasedLogs = 0
    BY DEF Init, Waiting, Released, ReleasedLogs, Nothing, IdleFlush
  <2>. QED BY <2>1, NoLogsSum, FS_EmptySet DEF Init, Counted
<1>2. IInv /\ Counted /\ [Next]_vars => Counted'
  BY CountStep DEF IInv
<1>3. IInv /\ Counted => CountersExact
  BY CountedIsExact DEF IInv
<1>. QED BY <1>1, <1>2, <1>3, Invariant, PTL DEF Spec

-----------------------------------------------------------------------------
(* The bound of the queue.                                                  *)

\* What n shards may hold.
Allowance(n) == MaxBuckets * n

\* How many shards a flush has behind it.
Passed == CASE flush.pc = "take"    -> flush.at - 1
            [] flush.pc = "release" -> flush.at
            [] OTHER                -> 0

\* The failures so far, and the shards passed as well, in shards.
Failed   == ShardCount * failures
Progress == Failed + Passed

\* What makes QueueBounded inductive: as a charge opens a bucket only while
\* fewer than maxPendingBuckets are queued, each shard that a flush passes adds
\* at most as many to what the flush carries and the queue holds.
Bounded ==
  /\ flush.pc # "idle" => flush.at # 0
  /\ Cardinality(Waiting) <= Allowance(Failed) + MaxBuckets
  /\ Cardinality(Flying) <= Allowance(Progress)
  /\ Cardinality(Waiting) + Cardinality(Flying) <= Allowance(Progress) + MaxBuckets
  /\ SumFunction(logs) <= MaxLogs

\* Allowances grow with the shards.
LEMMA Allowances ==
  /\ \A n \in Nat : Allowance(n) \in Nat /\ Allowance(n + 1) = Allowance(n) + MaxBuckets
  /\ \A m, n \in Nat : Allowance(m) <= Allowance(m + n)
<1>0. MaxBuckets \in Nat
  BY LimitAssumption
<1>1. \A n \in Nat : Allowance(n) \in Nat /\ Allowance(n + 1) = Allowance(n) + MaxBuckets
  BY <1>0 DEF Allowance
<1>2. ASSUME NEW m \in Nat, NEW n \in Nat
      PROVE  Allowance(m) <= Allowance(m + n)
  <2>1. MaxBuckets * (m + n) = MaxBuckets * m + MaxBuckets * n
    BY <1>0
  <2>2. MaxBuckets * m \in Nat /\ MaxBuckets * n \in Nat
    BY <1>0
  <2>. QED BY <2>1, <2>2 DEF Allowance
<1>. QED BY <1>1, <1>2

\* Every step keeps the bound.
LEMMA BoundStep ==
  ASSUME IInv, Counted, Bounded, [Next]_vars
  PROVE  Bounded'
<1>. USE DEF queues, history, stored, bounds, FlushUnchanged
<1>. DEFINE w == Cardinality(Waiting)
            f == Cardinality(Flying)
            x == Cardinality(Waiting')
            y == Cardinality(Flying')
<1>0. TypeOK /\ TypeOK' /\ BatchCovers
  BY TypeStep DEF IInv
<1>1. /\ flush \in Flush /\ flush' \in Flush /\ ShardCount \in Nat \ {0} /\ MaxBuckets \in Nat
      /\ MaxLogs \in Nat /\ failures \in Nat /\ failures' \in Nat
      /\ SumFunction(logs) \in Nat /\ SumFunction(logs') \in Nat
  BY <1>0, ShardAssumption, LimitAssumption, LogSum DEF TypeOK, FlushTypes, BoundTypes, QueueTypes
<1>2. w \in Nat /\ f \in Nat /\ x \in Nat /\ y \in Nat
  <2>1. Waiting \subseteq Bucket /\ Flying \subseteq Bucket /\ Waiting' \subseteq Bucket /\ Flying' \subseteq Bucket
    BY DEF Waiting, Flying
  <2>. QED BY <2>1, BucketsFinite
<1>3. Failed \in Nat /\ Failed' \in Nat /\ Passed \in Nat /\ Progress \in Nat
  <2>1. flush.at \in Nat /\ (flush.pc = "take" => flush.at # 0)
    BY <1>1 DEF Flush, Bounded
  <2>. QED BY <1>1, <2>1 DEF Passed, Failed, Progress
<1>4. SumFunction(logs') <= MaxLogs
  BY <1>0, <1>1, CountStep DEF Bounded
<1>5. /\ w <= Allowance(Failed) + MaxBuckets /\ f <= Allowance(Progress)
      /\ w + f <= Allowance(Progress) + MaxBuckets
  BY DEF Bounded
<1>. HIDE DEF w, f, x, y
<1>6. SUFFICES /\ flush'.pc # "idle" => flush'.at # 0
               /\ x <= Allowance(Failed') + MaxBuckets /\ y <= Allowance(Progress')
               /\ x + y <= Allowance(Progress') + MaxBuckets
  BY <1>4 DEF Bounded, x, y
<1>7. /\ Allowance(Failed) \in Nat /\ Allowance(Progress) \in Nat
      /\ Allowance(Progress + 1) = Allowance(Progress) + MaxBuckets
  BY <1>3, Allowances
<1>8. CASE FlushTake
  <2>1. /\ x <= w /\ y <= w + f /\ x + y <= w + f
        /\ \/ flush'.pc = "take" /\ flush'.at = flush.at + 1 /\ Flying' = Flying
           \/ flush'.pc = "release" /\ flush'.at = flush.at
    BY <1>0, <1>8, TakeCounted DEF w, f, x, y
  <2>2. flush.pc = "take" /\ flush.at \in Nat /\ failures' = failures
    BY <1>1, <1>8 DEF FlushTake, Flush
  <2>3. Passed' = Passed + 1 /\ flush'.at # 0
    BY <1>1, <2>1, <2>2 DEF Passed, Bounded
  <2>4. Failed' = Failed /\ Progress' = Progress + 1
    BY <1>3, <2>2, <2>3 DEF Failed, Progress
  <2>5. /\ Allowance(Failed') = Allowance(Failed)
        /\ Allowance(Progress') = Allowance(Progress) + MaxBuckets
    BY <1>7, <2>4
  <2>6. x <= w /\ y <= w + f /\ x + y <= w + f /\ MaxBuckets \in Nat
    BY <1>1, <2>1
  <2>. DEFINE A == Allowance(Failed)
              B == Allowance(Progress)
              C == Allowance(Progress')
  <2>7. A \in Nat /\ B \in Nat /\ C = B + MaxBuckets /\ Allowance(Failed') = A
    BY <1>7, <2>5
  <2>8. w <= A + MaxBuckets /\ f <= B /\ w + f <= B + MaxBuckets
    BY <1>5
  <2>. HIDE DEF A, B, C
  <2>9. x <= A + MaxBuckets /\ y <= C /\ x + y <= C + MaxBuckets
    BY <1>2, <2>6, <2>7, <2>8
  <2>. QED BY <2>3, <2>7, <2>9 DEF C
<1>9. CASE FlushRestore
  <2>1. y <= f /\ x + y <= w + f
    BY <1>0, <1>9, RestoreCounted DEF w, f, x, y
  <2>2. /\ flush.pc = "restore" /\ flush'.pc = "restore" /\ flush'.at = flush.at + 1 /\ flush.at \in Nat
        /\ failures' = failures
    BY <1>1, <1>9 DEF FlushRestore, Flush
  <2>3. flush'.at # 0 /\ Failed' = Failed /\ Progress' = Progress /\ Progress = Failed
    BY <1>3, <2>2 DEF Passed, Failed, Progress
  <2>. DEFINE A == Allowance(Failed)
  <2>4. /\ A \in Nat /\ Allowance(Progress) = A /\ Allowance(Failed') = A /\ Allowance(Progress') = A
    BY <1>7, <2>3
  <2>5. f <= A /\ w + f <= A + MaxBuckets
    BY <1>5, <2>4
  <2>. HIDE DEF A
  <2>6. A \in Nat /\ MaxBuckets \in Nat
    BY <1>1, <2>4
  <2>7. x <= A + MaxBuckets /\ y <= A /\ x + y <= A + MaxBuckets
    BY <1>2, <2>1, <2>5, <2>6
  <2>. QED BY <2>3, <2>4, <2>7
<1>10. CASE ~FlushTake /\ ~FlushRestore
  <2>0. /\ UNCHANGED Waiting \/ Cardinality(Waiting') <= MaxBuckets
        /\ UNCHANGED Flying \/ Flying' = {}
    BY <1>0, <1>10, CountStep
  <2>1. x = w \/ x <= MaxBuckets \/ x = 0
    BY <2>0 DEF w, x
  <2>2. y = f \/ y = 0
    <3>1. Cardinality({}) = 0
      BY FS_EmptySet
    <3>2. CASE Flying' = {}
      BY <3>1, <3>2 DEF y
    <3>3. CASE UNCHANGED Flying
      BY <3>3 DEF f, y
    <3>. QED BY <2>0, <3>2, <3>3
  <2>3. CASE Failed' = Failed /\ Progress' = Progress /\ (flush'.pc # "idle" => flush'.at # 0)
    BY <1>1, <1>2, <1>5, <1>7, <2>1, <2>2, <2>3
  <2>4. CASE UNCHANGED <<flush, failures>>
    <3>1. Failed' = Failed /\ Progress' = Progress
      BY <2>4 DEF Failed, Progress, Passed
    <3>. QED BY <2>3, <2>4, <3>1 DEF Bounded
  <2>5. CASE FlushTick \/ ResetFlush
    <3>1. /\ flush.pc = "idle" /\ flush'.pc = "take" /\ flush'.at = 1 /\ failures' = failures
      BY <2>5 DEF FlushTick, ResetFlush, StartFlush, IdleFlush
    <3>2. Failed' = Failed /\ Progress' = Progress
      BY <3>1 DEF Failed, Progress, Passed
    <3>. QED BY <2>3, <3>1, <3>2
  <2>6. CASE FlushRelease
    <3>1. /\ flush.pc = "release" /\ flush'.pc = "take" /\ flush'.at = flush.at + 1 /\ flush.at \in Nat
          /\ failures' = failures
      BY <1>1, <2>6 DEF FlushRelease, Flush
    <3>2. Failed' = Failed /\ Progress' = Progress /\ flush'.at # 0
      BY <3>1 DEF Failed, Progress, Passed
    <3>. QED BY <2>3, <3>2
  <2>7. CASE FlushSettle
    <3>1. /\ flush.pc = "settle" /\ flush'.pc = "settle" /\ flush'.at = flush.at + 1 /\ flush.at \in Nat
          /\ failures' = failures
      BY <1>1, <2>7 DEF FlushSettle, Flush
    <3>2. Failed' = Failed /\ Progress' = Progress /\ flush'.at # 0
      BY <3>1 DEF Failed, Progress, Passed
    <3>. QED BY <2>3, <3>2
  <2>8. CASE FlushNothing \/ FlushReturnError \/ FlushReturnOK \/ FlushCommit \/ Restart
    <3>1. /\ failures' = failures /\ flush'.pc \in {"idle", "settle"} /\ (flush'.pc = "settle" => flush'.at = 1)
          /\ UNCHANGED <<pending, flight>> \/ FlushCommit \/ Restart
      <4>1. CASE FlushNothing \/ FlushReturnError \/ FlushReturnOK \/ Restart
        BY <4>1 DEF FlushNothing, FlushReturnError, FlushReturnOK, Restart, Return, IdleFlush
      <4>2. CASE FlushCommit
        BY <1>1, <4>2 DEF FlushCommit, Flush
      <4>. QED BY <2>8, <4>1, <4>2
    <3>2. /\ Failed' = Failed /\ Progress' = Failed
          /\ flush'.pc # "idle" => flush'.at # 0
      BY <1>3, <3>1 DEF Passed, Failed, Progress
    <3>3. Flying' = {}
      <4>1. CASE FlushCommit \/ Restart
        BY <4>1 DEF FlushCommit, Restart, Flying, Nothing
      <4>2. CASE FlushNothing
        <5>1. flush.batch = {} /\ flight' = flight
          BY <4>2 DEF FlushNothing
        <5>2. \A b \in Bucket : flight[b] = 0
          BY <1>0, <5>1 DEF BatchCovers
        <5>. QED BY <5>1, <5>2 DEF Flying
      <4>3. CASE FlushReturnError
        <5>1. flush.pc = "restore" /\ flush.at = ShardCount + 1 /\ flight' = flight
          BY <4>3 DEF FlushReturnError
        <5>2. \A b \in Bucket : ~(ShardOfBucket(b) >= ShardCount + 1)
          BY <1>1, ShardTyping DEF Shards
        <5>3. \A b \in Bucket : flight[b] = 0
          BY <1>0, <5>1, <5>2 DEF BatchCovers
        <5>. QED BY <5>1, <5>3 DEF Flying
      <4>4. CASE FlushReturnOK
        <5>1. flush.pc = "settle" /\ flight' = flight
          BY <4>4 DEF FlushReturnOK
        <5>2. \A b \in Bucket : flight[b] = 0
          BY <1>0, <5>1 DEF BatchCovers, Empty
        <5>. QED BY <5>1, <5>2 DEF Flying
      <4>. QED BY <2>8, <4>1, <4>2, <4>3, <4>4
    <3>4. y = 0
      BY <3>3, FS_EmptySet DEF y
    <3>. QED BY <1>1, <1>2, <1>5, <1>7, <2>1, <3>2, <3>4
  <2>9. CASE FlushFail
    <3>1. /\ flush.pc = "take" /\ flush.at = ShardCount + 1 /\ failures' = failures + 1
          /\ flush'.pc = "restore" /\ flush'.at = 1 /\ UNCHANGED <<pending, flight>>
      BY <1>1, <2>9 DEF FlushFail, Flush
    <3>2. Failed' = Failed + ShardCount
      BY <1>1, <3>1 DEF Failed
    <3>3. Passed = ShardCount /\ Passed' = 0
      BY <1>1, <3>1 DEF Passed
    <3>4. x = w /\ y = f
      BY <3>1 DEF w, f, x, y, Waiting, Flying
    <3>5. Failed' = Progress /\ Progress' = Progress
      BY <1>1, <1>3, <3>2, <3>3 DEF Progress
    <3>. QED BY <1>1, <1>2, <1>5, <1>7, <3>1, <3>4, <3>5
  <2>10. CASE ResetDeleteFails
    <3>1. failures' = failures + 1 /\ UNCHANGED <<pending, flight, flush>>
      BY <2>10 DEF ResetDeleteFails
    <3>2. Failed' = Failed + ShardCount
      BY <1>1, <3>1 DEF Failed
    <3>3. Progress' = Progress + ShardCount
      BY <1>1, <1>3, <3>1, <3>2 DEF Progress, Passed
    <3>4. x = w /\ y = f
      BY <3>1 DEF w, f, x, y, Waiting, Flying
    <3>5. /\ Allowance(Failed) <= Allowance(Failed') /\ Allowance(Failed') \in Nat
          /\ Allowance(Progress) <= Allowance(Progress') /\ Allowance(Progress') \in Nat
      <4>1. Failed' \in Nat /\ Progress' \in Nat
        BY <1>1, <1>3, <3>2, <3>3
      <4>. QED BY <1>1, <1>3, <3>2, <3>3, <4>1, Allowances, Zenon
    <3>6. flush'.pc # "idle" => flush'.at # 0
      BY <3>1 DEF Bounded
    <3>. QED BY <1>1, <1>2, <1>5, <1>7, <3>4, <3>5, <3>6
  <2>11. \/ UNCHANGED <<flush, failures>>
         \/ FlushStep \/ ResetFlush \/ ResetDeleteFails \/ Restart
    BY <1>0, CountStep
  <2>. QED BY <1>10, <2>4, <2>5, <2>6, <2>7, <2>8, <2>9, <2>10, <2>11 DEF FlushStep
<1>. QED BY <1>8, <1>9, <1>10

\* The queue is bounded: by maxPendingBuckets as long as no flush fails, and by
\* so much more for each shard of each flush that failed, as the batch is
\* merged back whatever the queue holds by then; the logs by their limit.
THEOREM QueueStaysBounded == Spec => []QueueBounded
<1>1. Init => Counted /\ Bounded
  <2>. SUFFICES ASSUME Init PROVE Counted /\ Bounded
    OBVIOUS
  <2>1. Waiting = {} /\ Flying = {} /\ Released = {} /\ ReleasedLogs = 0 /\ flush.pc = "idle"
    BY DEF Init, Waiting, Flying, Released, ReleasedLogs, Nothing, IdleFlush
  <2>2. Counted
    BY <2>1, NoLogsSum, FS_EmptySet DEF Init, Counted
  <2>3. Failed \in Nat /\ Progress \in Nat /\ MaxLogs \in Nat /\ MaxBuckets \in Nat
    BY <2>1, ShardAssumption, LimitAssumption DEF Init, Passed, Failed, Progress
  <2>4. Allowance(Failed) \in Nat /\ Allowance(Progress) \in Nat
    BY <2>3, Allowances
  <2>5. Cardinality({}) = 0 /\ SumFunction(logs) = 0
    BY NoLogsSum, FS_EmptySet DEF Init
  <2>. QED BY <2>1, <2>2, <2>3, <2>4, <2>5 DEF Bounded
<1>2. IInv /\ (Counted /\ Bounded) /\ [Next]_vars => (Counted /\ Bounded)'
  BY CountStep, BoundStep DEF IInv
<1>3. IInv /\ (Counted /\ Bounded) => QueueBounded
  <2>. SUFFICES ASSUME IInv, Bounded PROVE QueueBounded
    OBVIOUS
  <2>1. Failed \in Nat /\ MaxBuckets \in Nat
    BY ShardAssumption, LimitAssumption DEF IInv, TypeOK, BoundTypes, Failed
  <2>2. Allowance(Failed) + MaxBuckets = MaxBuckets * (1 + Failed)
    BY <2>1 DEF Allowance
  <2>3. Allowance(Failed) + MaxBuckets = MaxBuckets * (1 + ShardCount * failures)
    BY <2>2 DEF Failed
  <2>. QED BY <2>3 DEF Bounded, QueueBounded, Waiting
<1>. QED BY <1>1, <1>2, <1>3, Invariant, PTL DEF Spec

-----------------------------------------------------------------------------
(* A reset erases the Key.                                                  *)

\* A reset that has reached its delete finds nothing queued and nothing in
\* flight, so no later flush can bring back usage from before it.
THEOREM ResetErasesKey == Spec => ResetErases
<1>. DEFINE Step(k) == reset = [pc |-> "delete", key |-> k] /\ durable' # durable =>
                         \A b \in Bucket : b.key = k =>
                           meter'[b] = 0 /\ pending'[b] = 0 /\ flight'[b] = 0 /\ durable'[b] = 0
<1>1. ASSUME IInv, [Next]_vars, NEW k \in Keys
      PROVE  Step(k)
  <2>. SUFFICES ASSUME reset = [pc |-> "delete", key |-> k], durable' # durable
                PROVE  \A b \in Bucket : b.key = k =>
                         meter'[b] = 0 /\ pending'[b] = 0 /\ flight'[b] = 0 /\ durable'[b] = 0
    OBVIOUS
  <2>. USE DEF queues, history, stored, bounds, FlushUnchanged
  <2>1. reset.pc = "delete" /\ reset.key = k /\ Empty(pending) /\ Empty(flight)
    BY <1>1 DEF IInv, ResetExclusive
  <2>2. CASE ResetDelete
    BY <2>1, <2>2 DEF ResetDelete, ClearKey, Empty
  <2>3. CASE FlushCommit
    <3>1. durable \in [Bucket -> Nat]
      BY <1>1 DEF IInv, TypeOK, LedgerTypes
    <3>2. durable' = durable
      BY <2>1, <2>3, <3>1 DEF FlushCommit, Empty
    <3>. QED BY <3>2
  <2>4. CASE Callback \/ ResetFlush \/ ResetDeleteFails \/ (\E i \in Keys : BeginReset(i))
             \/ Restart \/ Tick \/ UNCHANGED vars
    <3>1. durable' = durable
      BY <2>4 DEF Callback, RecordUsage, RecordLog, RecordActual, RaiseAlarm, LogDecision, ResetFlush,
                  ResetDeleteFails, BeginReset, Restart, Tick, vars
    <3>. QED BY <3>1
  <2>5. CASE FlushTick \/ FlushTake \/ FlushRelease \/ FlushNothing \/ FlushFail
             \/ FlushRestore \/ FlushReturnError \/ FlushSettle \/ FlushReturnOK
    <3>1. durable' = durable
      BY <2>5 DEF FlushTick, FlushTake, FlushRelease, FlushNothing, FlushFail, FlushRestore,
                  FlushReturnError, FlushSettle, FlushReturnOK
    <3>. QED BY <3>1
  <2>. QED BY <1>1, <2>2, <2>3, <2>4, <2>5 DEF Next, FlushStep, ResetStep
<1>2. IInv /\ [Next]_vars => [\A k \in Keys : Step(k)]_vars
  BY <1>1
<1>. QED BY <1>2, Invariant, PTL DEF Spec, ResetErases

-----------------------------------------------------------------------------
(* The refinement.                                                          *)

\* What has been accepted: stored, queued or in flight.
Accepted == [b \in Bucket |-> durable[b] + pending[b] + flight[b]]

\* A queued charge is one Accept, a refused one a stutter.
LEMMA ChargeAccepts ==
  ASSUME LedgerTypes, NEW b \in Bucket, NEW u \in Nat \ {0}, Charge(b, u),
         UNCHANGED <<flight, durable>>
  PROVE  Ledger!Accept(b) \/ UNCHANGED <<Accepted, durable>>
<1>1. CASE UNCHANGED pending
  BY <1>1 DEF Accepted
<1>2. CASE pending' = AddTo(pending, b, u)
  <2>1. pending' = [pending EXCEPT ![b] = @ + u]
    BY <1>2 DEF AddTo
  <2>2. Accepted'[b] > Accepted[b]
    BY <2>1 DEF Accepted, LedgerTypes
  <2>3. Accepted' = [Accepted EXCEPT ![b] = Accepted'[b]]
    BY <2>1 DEF Accepted, LedgerTypes
  <2>. QED BY <2>2, <2>3 DEF Ledger!Accept, Accepted
<1>. QED BY <1>1, <1>2 DEF Charge

\* Every step of the pipeline is a step of the one ledger or leaves it alone.
LEMMA LedgerStep ==
  ASSUME IInv, [Next]_vars
  PROVE  Ledger!Next \/ UNCHANGED <<Accepted, durable>>
<1>. USE DEF queues, history, stored, bounds, FlushUnchanged
<1>0. LedgerTypes /\ TypeOK
  BY DEF IInv, TypeOK
<1>1. ASSUME NEW w \in Callers, NEW k \in Keys, NEW t \in Slots, NEW m \in Amounts \cup {0},
             RecordUsage(w, k, t, m)
      PROVE  Ledger!Next \/ UNCHANGED <<Accepted, durable>>
  <2>. DEFINE c == [pc |-> "log", key |-> k, slot |-> t]
  <2>1. CostBucket(c) \in Bucket /\ m \in Nat /\ UNCHANGED <<flight, durable>>
    BY <1>1, ChargedBucket, ChargeAssumption DEF RecordUsage
  <2>2. CASE m > 0 /\ Charge(CostBucket(c), m)
    BY <1>0, <2>1, <2>2, ChargeAccepts DEF Ledger!Next
  <2>3. CASE UNCHANGED pending
    BY <2>1, <2>3 DEF Accepted
  <2>. QED BY <1>1, <2>2, <2>3 DEF RecordUsage
<1>2. ASSUME NEW w \in Callers, NEW u \in Amounts, RecordActual(w, u)
      PROVE  Ledger!Next \/ UNCHANGED <<Accepted, durable>>
  <2>1. ActualBucket(call[w]) \in Bucket /\ u \in Nat \ {0}
    BY <1>0, <1>2, ChargedBucket, ChargeAssumption DEF RecordActual, TypeOK, CallTypes
  <2>2. Charge(ActualBucket(call[w]), u) /\ UNCHANGED <<flight, durable>>
    BY <1>2 DEF RecordActual
  <2>. QED BY <1>0, <2>1, <2>2, ChargeAccepts DEF Ledger!Next
<1>3. CASE FlushTake
  <2>1. \A b \in Bucket : b \in InShard(flush.at) => flight[b] = 0
    BY <1>0, <1>3, NothingInFlight DEF IInv
  <2>2. durable' = durable
    BY <1>3 DEF FlushTake
  <2>3. \A b \in Bucket : pending'[b] + flight'[b] = pending[b] + flight[b]
    BY <1>0, <1>3, <2>1 DEF FlushTake, LedgerTypes
  <2>4. LedgerTypes'
    BY <1>0, TypeStep DEF TypeOK
  <2>5. \A b \in Bucket : durable'[b] + pending'[b] + flight'[b] = durable[b] + pending[b] + flight[b]
    BY <1>0, <2>2, <2>3, <2>4 DEF LedgerTypes
  <2>. QED BY <2>2, <2>5 DEF Accepted
<1>4. CASE FlushCommit
  <2>1. durable' \in [Bucket -> Nat]
    BY <1>0, TypeStep DEF TypeOK, LedgerTypes
  <2>2. \A b \in Bucket : durable[b] <= durable'[b] /\ durable'[b] <= Accepted[b]
    BY <1>0, <1>4 DEF FlushCommit, Accepted, LedgerTypes
  <2>3. \A b \in Bucket : durable'[b] + pending'[b] + flight'[b] = durable[b] + pending[b] + flight[b]
    BY <1>0, <1>4 DEF FlushCommit, Nothing, LedgerTypes
  <2>4. Accepted' = Accepted
    BY <2>3 DEF Accepted
  <2>. QED BY <2>1, <2>2, <2>4 DEF Ledger!Persist, Ledger!Next, Accepted
<1>5. CASE FlushRestore
  <2>1. durable' = durable
    BY <1>5 DEF FlushRestore
  <2>2. \A b \in Bucket : durable'[b] + pending'[b] + flight'[b] = durable[b] + pending[b] + flight[b]
    BY <1>0, <1>5 DEF FlushRestore, LedgerTypes
  <2>. QED BY <2>1, <2>2 DEF Accepted
<1>6. CASE ResetDelete
  <2>. DEFINE k == reset.key
  <2>1. k \in Keys /\ Empty(pending) /\ Empty(flight)
    BY <1>6 DEF ResetDelete, IInv, ResetExclusive
  <2>2. durable' = [b \in Bucket |-> IF b.key = k THEN 0 ELSE durable[b]] /\ UNCHANGED <<pending, flight>>
    BY <1>6 DEF ResetDelete, ClearKey
  <2>3. \A b \in Bucket : durable'[b] + pending'[b] + flight'[b] = IF b.key = k THEN 0 ELSE Accepted[b]
    BY <1>0, <2>1, <2>2 DEF Accepted, Empty, LedgerTypes
  <2>4. Ledger!Erase(k)
    BY <2>2, <2>3 DEF Ledger!Erase, Ledger!Erased, Accepted
  <2>5. \E i \in Keys : Ledger!Erase(i)
    BY <2>1, <2>4 DEF Ledger!Erase, Ledger!Erased
  <2>. QED BY <2>5 DEF Ledger!Next
<1>7. CASE Restart
  <2>1. durable' = durable /\ pending' = Nothing /\ flight' = Nothing
    BY <1>7 DEF Restart
  <2>2. Accepted' = durable
    BY <1>0, <2>1 DEF Accepted, Nothing, LedgerTypes
  <2>. QED BY <2>1, <2>2 DEF Ledger!Lose, Ledger!Next, Accepted
<1>8. CASE UNCHANGED <<durable, pending, flight>>
  BY <1>8 DEF Accepted
<1>9. \/ \E w \in Callers, k \in Keys, t \in Slots, m \in Amounts \cup {0} : RecordUsage(w, k, t, m)
      \/ \E w \in Callers : \E u \in Amounts : RecordActual(w, u)
      \/ FlushTake \/ FlushCommit \/ FlushRestore \/ ResetDelete \/ Restart
      \/ UNCHANGED <<durable, pending, flight>>
  <2>1. (\E w \in Callers : RecordLog(w) \/ RaiseAlarm(w)) \/ (\E k \in Keys : LogDecision(k))
          => UNCHANGED <<durable, pending, flight>>
    BY DEF RecordLog, RaiseAlarm, LogDecision
  <2>2. FlushStep => \/ FlushTake \/ FlushCommit \/ FlushRestore
                     \/ UNCHANGED <<durable, pending, flight>>
    BY DEF FlushStep, FlushTick, FlushRelease, FlushNothing, FlushFail, FlushReturnError,
           FlushSettle, FlushReturnOK
  <2>3. ResetStep => ResetDelete \/ UNCHANGED <<durable, pending, flight>>
    BY DEF ResetStep, BeginReset, ResetFlush, ResetDeleteFails
  <2>4. Tick \/ UNCHANGED vars => UNCHANGED <<durable, pending, flight>>
    BY DEF Tick, vars
  <2>. QED BY <2>1, <2>2, <2>3, <2>4 DEF Next, Callback
<1>. QED BY <1>1, <1>2, <1>3, <1>4, <1>5, <1>6, <1>7, <1>8, <1>9

\* The pipeline of meters, shards, batches, retries and restarts implements
\* the one ledger: each accepted charge is persisted once or lost by a crash.
THEOREM Refinement == Spec => ImplementsLedger
<1>1. Init => Ledger!Init
  BY DEF Init, Ledger!Init, Nothing
<1>2. IInv /\ [Next]_vars => [Ledger!Next]_(Ledger!vars)
  BY LedgerStep DEF Ledger!vars, Accepted
<1>. QED BY <1>1, <1>2, Invariant, PTL DEF Spec, ImplementsLedger, Ledger!Spec
=============================================================================
