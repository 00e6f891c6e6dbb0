---------------------------- MODULE UsageLedger ----------------------------
(***************************************************************************)
(* The usage ledger of codex-carpool: how one settled charge travels from  *)
(* a terminal callback to SQLite (internal/quota/engine.go,                *)
(* store_usage.go, panel.go).                                              *)
(*                                                                         *)
(* A callback charges two ledgers, "key_cost" (micro-dollars, one bucket   *)
(* per request millisecond) and "key_actual" (tokens, one bucket per       *)
(* minute).  Each charge is added to an in-memory meter and, separately,   *)
(* queued in one of the pending shards.  A flush takes the shards one by   *)
(* one, writes what it took in one transaction, and either settles or      *)
(* merges the batch back.  Callbacks run between any two steps of a flush. *)
(*                                                                         *)
(* Abstractions: a slot stands for the bucket time (and the model);        *)
(* decision logs are counted, not listed; the age pruning of the meters,   *)
(* retention and the closing of the engine belong to other modules.  A     *)
(* transaction that returns an error has changed nothing (SQLite).         *)
(***************************************************************************)
EXTENDS Integers, FiniteSets, Functions

CONSTANTS
  Keys,         \* policy identifiers
  Slots,        \* distinct bucket times
  ShardCount,   \* pendingShardCount
  ShardOf,      \* pendingShardIndex: [Scopes \cup {"log"} \X Keys -> Shards]
  MaxBuckets,   \* maxPendingBuckets
  MaxLogs,      \* maxPendingDecisionLogs
  MaxAge,       \* maxPendingAge
  None,         \* no Key, no slot
  Amounts,      \* what one charge may add to a bucket (all positive)
  Callers,      \* threads that deliver terminal callbacks
  \* Bounds of the model, used in guards only:
  MaxTime, MaxCalls, MaxFailures, MaxRestarts, MaxResets

Scopes == {"key_cost", "key_actual"}
Shards == 1..ShardCount
Bucket == [scope : Scopes, key : Keys, slot : Slots]

ASSUME ShardAssumption ==
  /\ ShardCount \in Nat \ {0}
  /\ ShardOf \in [(Scopes \cup {"log"}) \X Keys -> Shards]

ASSUME ChargeAssumption ==
  /\ IsFiniteSet(Bucket)
  /\ Amounts \subseteq Nat \ {0}

ASSUME LimitAssumption ==
  /\ MaxBuckets \in Nat /\ MaxLogs \in Nat /\ MaxAge \in Nat
  /\ MaxTime \in Nat /\ MaxCalls \in Nat /\ MaxFailures \in Nat
  /\ MaxRestarts \in Nat /\ MaxResets \in Nat

VARIABLES
  meter,        \* in-memory meters (engine.states): [Bucket -> units]
  pending,      \* shard.buckets: [Bucket -> units], 0 when the bucket is absent
  flight,       \* the events of the batch a flush has taken
  durable,      \* usage_buckets
  refused,      \* history: units metered whose enqueue was refused
  logs,         \* shard.logs, counted
  flightLogs,   \* the logs of the batch
  storedLogs,   \* history: rows written to request_logs, by their shard
  lostLogs,     \* history: logs a failed flush had no room to keep
  madeLogs,     \* history: logs handed to enqueueDecision
  since,        \* shard.pendingSince, 0 for the zero time
  flightSince,  \* shard.inFlightSince, 0 for the zero time
  bucketCount,  \* pendingBucketCount
  logCount,     \* pendingLogCount
  droppedLogs,  \* droppedDecisionLogs
  degraded,     \* persistenceDegraded
  flush,        \* where flushPending stands (it holds flushMu unless "idle")
  call,         \* where each callback stands (it holds adminMu.RLock unless "idle")
  reset,        \* where ResetPolicyUsage stands (it holds adminMu unless "idle")
  now,          \* the clock; it starts at 1, so 0 can be the zero time
  calls, failures, restarts, resets   \* how much of each bound is used

queues   == <<pending, flight, logs, flightLogs, since, flightSince,
              bucketCount, logCount>>
history  == <<refused, lostLogs, madeLogs, storedLogs>>
stored   == <<durable, storedLogs>>
bounds   == <<calls, failures, restarts, resets>>
vars     == <<meter, queues, history, durable, droppedLogs, degraded, flush,
              call, reset, now, bounds>>

Nothing      == [b \in Bucket |-> 0]
NoLogs       == [s \in Shards |-> 0]
Never        == [s \in Shards |-> 0]
IdleFlush    == [pc |-> "idle", at |-> 0, batch |-> {}, owner |-> "loop"]
IdleCall     == [pc |-> "idle", key |-> None, slot |-> None]
IdleReset    == [pc |-> "idle", key |-> None]

ShardOfBucket(b) == ShardOf[<<b.scope, b.key>>]
LogShard(k)      == ShardOf[<<"log", k>>]
InShard(s)       == {b \in Bucket : ShardOfBucket(b) = s}
Queued(s)        == {b \in InShard(s) : pending[b] > 0}
\* Mutant: each shard gives back the slots of the whole batch.
TakenSoFar(s)    == {b \in Bucket : flight[b] > 0}
Taken(s)         == {b \in InShard(s) : flight[b] > 0}
ShardEmpty(s)    == Queued(s) = {} /\ logs[s] = 0

AddTo(f, b, u) == [f EXCEPT ![b] = @ + u]
\* Mutant: a failed flush fills every free slot.
FreeSlots(a, b) == b
LesserOf(a, b) == IF a < b THEN a ELSE b

Init ==
  /\ meter = Nothing /\ pending = Nothing /\ flight = Nothing
  /\ durable = Nothing /\ refused = Nothing
  /\ logs = NoLogs /\ flightLogs = NoLogs /\ storedLogs = NoLogs
  /\ lostLogs = 0 /\ madeLogs = 0
  /\ since = Never /\ flightSince = Never
  /\ bucketCount = 0 /\ logCount = 0 /\ droppedLogs = 0
  /\ degraded = FALSE
  /\ flush = IdleFlush
  /\ call = [c \in Callers |-> IdleCall]
  /\ reset = IdleReset
  /\ now = 1
  /\ calls = 0 /\ failures = 0 /\ restarts = 0 /\ resets = 0

-----------------------------------------------------------------------------
(* The pending queue: enqueueBuckets, enqueueDecision.                      *)

Aged(t) == t # 0 /\ now - t > MaxAge

\* Mutant: the queue's length is not checked.
RefusesAged(b) == Aged(since[ShardOfBucket(b)]) \/ Aged(flightSince[ShardOfBucket(b)])

Refuses(b) ==
  \/ Aged(since[ShardOfBucket(b)])
  \/ Aged(flightSince[ShardOfBucket(b)])
  \/ pending[b] = 0 /\ bucketCount + 1 > MaxBuckets

\* Mutant: a shard never gets an age.
StampNever(s) == since' = [since EXCEPT ![s] = 0]

Stamp(s) == since' = [since EXCEPT ![s] = IF @ = 0 THEN now ELSE @]

\* Charge bucket b: add to the meter, then enqueue.  A refused enqueue leaves
\* the meter charged; its caller raises persistenceDegraded later, in a step of
\* its own (RaiseAlarm), with no lock that a flush waits for.
Charge(b, units) ==
  /\ meter' = AddTo(meter, b, units)
  /\ \/ /\ Refuses(b)
        /\ refused' = AddTo(refused, b, units)
        /\ UNCHANGED <<pending, bucketCount, since>>
     \/ /\ ~Refuses(b)
        /\ pending' = AddTo(pending, b, units)
        /\ bucketCount' = IF pending[b] = 0 THEN bucketCount + 1 ELSE bucketCount
        /\ Stamp(ShardOfBucket(b))
        /\ UNCHANGED refused

\* Mutant: a full log queue drops the log silently.
EnqueueOrForget(k) ==
  /\ madeLogs' = madeLogs + 1
  /\ logs' = [logs EXCEPT ![LogShard(k)] = IF logCount < MaxLogs THEN @ + 1 ELSE @]
  /\ logCount' = IF logCount < MaxLogs THEN logCount + 1 ELSE logCount
  /\ Stamp(LogShard(k))
  /\ UNCHANGED droppedLogs

\* Append one decision log unless every slot is reserved.
EnqueueDecision(k) ==
  /\ madeLogs' = madeLogs + 1
  /\ \/ /\ logCount >= MaxLogs
        /\ droppedLogs' = droppedLogs + 1
        /\ UNCHANGED <<logs, logCount, since>>
     \/ /\ logCount < MaxLogs
        /\ logs' = [logs EXCEPT ![LogShard(k)] = @ + 1]
        /\ logCount' = logCount + 1
        /\ Stamp(LogShard(k))
        /\ UNCHANGED droppedLogs

-----------------------------------------------------------------------------
(* RecordUsage.  It holds adminMu.RLock for its whole run, and each of its  *)
(* three updates takes the lock of one shard, so a flush runs in between,   *)
(* and also between a refused charge and the alarm it raises.               *)

\* Mutant: callbacks do not wait for a reset.
AdminNeverHeld == TRUE
AdminFree == reset.pc = "idle"

CostBucket(c)   == [scope |-> "key_cost", key |-> c.key, slot |-> c.slot]
ActualBucket(c) == [scope |-> "key_actual", key |-> c.key, slot |-> c.slot]

\* The callback found its marker: charge the dollar ledger, unless the rate
\* makes the request free (chargeDollarSpend returns early at 0 micros).  The
\* claim of the marker raises the alarm by itself when the row of the marker
\* cannot be deleted.
RecordUsage(w, k, t, micros) ==
  /\ AdminFree /\ call[w] = IdleCall /\ calls < MaxCalls
  /\ calls' = calls + 1
  /\ degraded' \in {degraded, TRUE}
  /\ LET c == [pc |-> "log", key |-> k, slot |-> t]
     IN \/ /\ micros > 0
           /\ Charge(CostBucket(c), micros)
           /\ call' = [call EXCEPT ![w] =
                          [c EXCEPT !.pc = IF Refuses(CostBucket(c)) THEN "costRefused" ELSE "log"]]
        \/ /\ micros = 0
           /\ call' = [call EXCEPT ![w] = c]
           /\ UNCHANGED <<meter, pending, bucketCount, since, refused>>
  /\ UNCHANGED <<flight, logs, flightLogs, flightSince, logCount, lostLogs, madeLogs,
                 stored, droppedLogs, flush, reset, now, failures, restarts, resets>>

\* Its decision log.
RecordLog(w) ==
  /\ call[w].pc = "log"
  /\ EnqueueDecision(call[w].key)
  /\ call' = [call EXCEPT ![w].pc = "actual"]
  /\ UNCHANGED <<meter, pending, flight, flightLogs, flightSince, bucketCount,
                 refused, lostLogs, stored, degraded, flush, reset, now, bounds>>

\* Its token charge: the token meter and the key_actual bucket.
RecordActual(w, units) ==
  /\ call[w].pc = "actual"
  /\ Charge(ActualBucket(call[w]), units)
  /\ call' = [call EXCEPT ![w] =
                 IF Refuses(ActualBucket(@)) THEN [@ EXCEPT !.pc = "actualRefused"] ELSE IdleCall]
  /\ UNCHANGED <<flight, logs, flightLogs, flightSince, logCount, lostLogs, madeLogs,
                 stored, droppedLogs, degraded, flush, reset, now, bounds>>

\* enqueueBuckets has returned false, so the callback raises the alarm.  A flush
\* may have stored everything and lowered the alarm since the refusal.
RaiseAlarm(w) ==
  /\ call[w].pc \in {"costRefused", "actualRefused"}
  /\ degraded' = TRUE
  /\ call' = [call EXCEPT ![w] = IF @.pc = "costRefused" THEN [@ EXCEPT !.pc = "log"] ELSE IdleCall]
  /\ UNCHANGED <<meter, queues, history, durable, droppedLogs, flush, reset, now, bounds>>

\* A blocked admission, an unmatched callback or a callback without usage
\* leaves a decision log and no charge.
LogDecision(k) ==
  /\ AdminFree /\ calls < MaxCalls
  /\ calls' = calls + 1
  /\ EnqueueDecision(k)
  /\ UNCHANGED <<meter, pending, flight, flightLogs, flightSince, bucketCount,
                 refused, lostLogs, stored, degraded, flush, call, reset, now,
                 failures, restarts, resets>>

-----------------------------------------------------------------------------
(* flushPending, run by flushLoop or by ResetPolicyUsage under flushMu.     *)

FlushUnchanged == UNCHANGED <<meter, refused, madeLogs, droppedLogs, call, now,
                              calls, restarts, resets>>

\* Mutant: no flushMu, two flushes overlap.
StartFlushUnlocked(owner) ==
  flush' = [pc |-> "take", at |-> 1, batch |-> {}, owner |-> owner]

StartFlush(owner) ==
  /\ flush = IdleFlush
  /\ flush' = [pc |-> "take", at |-> 1, batch |-> {}, owner |-> owner]

\* Mutant: the loop stops flushing while the alarm is raised.
FlushTickUnlessDegraded ==
  /\ ~degraded
  /\ StartFlush("loop")
  /\ FlushUnchanged
  /\ UNCHANGED <<queues, lostLogs, stored, degraded, reset, failures>>

FlushTick ==
  /\ StartFlush("loop")
  /\ FlushUnchanged
  /\ UNCHANGED <<queues, lostLogs, stored, degraded, reset, failures>>

\* Take everything shard flush.at holds; an empty shard is skipped.
FlushTake ==
  /\ flush.pc = "take" /\ flush.at \in Shards
  /\ LET s == flush.at
     IN \/ /\ ShardEmpty(s)
           /\ flush' = [flush EXCEPT !.at = s + 1]
           /\ UNCHANGED queues
        \/ /\ ~ShardEmpty(s)
           /\ flush' = [flush EXCEPT !.pc = "release", !.batch = @ \cup {s}]
           /\ flight' = [b \in Bucket |-> IF b \in InShard(s) THEN pending[b] ELSE flight[b]]
           /\ pending' = [b \in Bucket |-> IF b \in InShard(s) THEN 0 ELSE pending[b]]
           /\ flightLogs' = [flightLogs EXCEPT ![s] = logs[s]]
           /\ logs' = [logs EXCEPT ![s] = 0]
           /\ since' = [since EXCEPT ![s] = 0]
           /\ flightSince' = [flightSince EXCEPT ![s] = since[s]]
           /\ UNCHANGED <<bucketCount, logCount>>
  /\ FlushUnchanged
  /\ UNCHANGED <<lostLogs, stored, degraded, reset, failures>>

\* The counters give the slots back after the shard's lock is released.
FlushRelease ==
  /\ flush.pc = "release"
  /\ bucketCount' = bucketCount - Cardinality(Taken(flush.at))
  /\ logCount' = logCount - flightLogs[flush.at]
  /\ flush' = [flush EXCEPT !.pc = "take", !.at = @ + 1]
  /\ FlushUnchanged
  /\ UNCHANGED <<pending, flight, logs, flightLogs, since, flightSince, lostLogs,
                 stored, degraded, reset, failures>>

\* How the flush returns to its caller: the reset goes on only without error.
Return(ok) ==
  /\ flush' = IdleFlush
  /\ reset' = IF flush.owner = "loop" THEN reset
              ELSE IF ok THEN [reset EXCEPT !.pc = "delete"] ELSE IdleReset

\* Every shard was empty: nothing to write, persistenceDegraded is kept.
FlushNothing ==
  /\ flush.pc = "take" /\ flush.at = ShardCount + 1 /\ flush.batch = {}
  /\ Return(TRUE)
  /\ FlushUnchanged
  /\ UNCHANGED <<queues, lostLogs, stored, degraded, failures>>

\* FlushUsageAndLogs commits the batch.
FlushCommit ==
  /\ flush.pc = "take" /\ flush.at = ShardCount + 1 /\ flush.batch # {}
  /\ durable' = [b \in Bucket |-> durable[b] + flight[b]]
  /\ storedLogs' = [s \in Shards |-> storedLogs[s] + flightLogs[s]]
  /\ flight' = Nothing
  /\ flightLogs' = NoLogs
  /\ flush' = [flush EXCEPT !.pc = "settle", !.at = 1]
  /\ FlushUnchanged
  /\ UNCHANGED <<pending, logs, since, flightSince, bucketCount, logCount,
                 lostLogs, degraded, reset, failures>>

\* Mutant: the error came back although the transaction was committed.
FlushFailCommitted ==
  /\ flush.pc = "take" /\ flush.at = ShardCount + 1 /\ flush.batch # {}
  /\ failures < MaxFailures
  /\ failures' = failures + 1
  /\ durable' = [b \in Bucket |-> durable[b] + flight[b]]
  /\ degraded' = TRUE
  /\ flush' = [flush EXCEPT !.pc = "restore", !.at = 1]
  /\ FlushUnchanged
  /\ UNCHANGED <<queues, lostLogs, storedLogs, reset>>

\* The transaction failed; nothing was written.
FlushFail ==
  /\ flush.pc = "take" /\ flush.at = ShardCount + 1 /\ flush.batch # {}
  /\ failures < MaxFailures
  /\ failures' = failures + 1
  /\ degraded' = TRUE
  /\ flush' = [flush EXCEPT !.pc = "restore", !.at = 1]
  /\ FlushUnchanged
  /\ UNCHANGED <<queues, lostLogs, stored, reset>>

\* Merge one shard of the failed batch back.  Buckets return whatever the
\* queue's length, logs only as far as there are free slots.
FlushRestore ==
  /\ flush.pc = "restore" /\ flush.at \in Shards
  /\ LET s    == flush.at
         room == LesserOf(flightLogs[s], IF logCount >= MaxLogs THEN 0 ELSE MaxLogs - logCount)
     IN \/ /\ s \notin flush.batch
           /\ UNCHANGED <<queues, lostLogs>>
        \/ /\ s \in flush.batch
           /\ flightSince' = [flightSince EXCEPT ![s] = 0]
           /\ logs' = [logs EXCEPT ![s] = @ + room]
           /\ logCount' = logCount + room
           /\ lostLogs' = lostLogs + (flightLogs[s] - room)
           /\ flightLogs' = [flightLogs EXCEPT ![s] = 0]
           /\ pending' = [b \in Bucket |-> IF b \in InShard(s) THEN pending[b] + flight[b] ELSE pending[b]]
           /\ bucketCount' = bucketCount + Cardinality(Taken(s) \ Queued(s))
           /\ flight' = [b \in Bucket |-> IF b \in InShard(s) THEN 0 ELSE flight[b]]
           /\ since' = [since EXCEPT ![s] = IF @ = 0 \/ flightSince[s] < @ THEN flightSince[s] ELSE @]
  /\ flush' = [flush EXCEPT !.at = @ + 1]
  /\ FlushUnchanged
  /\ UNCHANGED <<stored, degraded, reset, failures>>

FlushReturnError ==
  /\ flush.pc = "restore" /\ flush.at = ShardCount + 1
  /\ Return(FALSE)
  /\ FlushUnchanged
  /\ UNCHANGED <<queues, lostLogs, stored, degraded, failures>>

\* After a commit each shard of the batch stops being in flight ...
FlushSettle ==
  /\ flush.pc = "settle" /\ flush.at \in Shards
  /\ flightSince' = [flightSince EXCEPT ![flush.at] = IF flush.at \in flush.batch THEN 0 ELSE @]
  /\ flush' = [flush EXCEPT !.at = @ + 1]
  /\ FlushUnchanged
  /\ UNCHANGED <<pending, flight, logs, flightLogs, since, bucketCount, logCount,
                 lostLogs, stored, degraded, reset, failures>>

\* Mutant: a flush that commits leaves the alarm raised.
FlushReturnAlarmed ==
  /\ flush.pc = "settle" /\ flush.at = ShardCount + 1
  /\ Return(TRUE)
  /\ FlushUnchanged
  /\ UNCHANGED <<queues, lostLogs, stored, degraded, failures>>

\* ... and then the alarm is cleared.
FlushReturnOK ==
  /\ flush.pc = "settle" /\ flush.at = ShardCount + 1
  /\ degraded' = FALSE
  /\ Return(TRUE)
  /\ FlushUnchanged
  /\ UNCHANGED <<queues, lostLogs, stored, failures>>

-----------------------------------------------------------------------------
(* ResetPolicyUsage (and DeletePolicy, which does the same to the ledger):  *)
(* under adminMu, flush everything, delete the Key's rows, then its meters. *)

BeginReset(k) ==
  /\ AdminFree /\ \A w \in Callers : call[w] = IdleCall
  /\ resets < MaxResets
  /\ resets' = resets + 1
  /\ reset' = [pc |-> "flush", key |-> k]
  /\ UNCHANGED <<meter, queues, history, durable, droppedLogs, degraded, flush,
                 call, now, calls, failures, restarts>>

\* Mutant: the reset waits for a flush that has something to write.
ResetAwaitsUsage ==
  /\ reset.pc = "flush" /\ \E b \in Bucket : pending[b] > 0
  /\ StartFlush("reset")
  /\ FlushUnchanged
  /\ UNCHANGED <<queues, lostLogs, stored, degraded, reset, failures>>

ResetFlush ==
  /\ reset.pc = "flush"
  /\ StartFlush("reset")
  /\ FlushUnchanged
  /\ UNCHANGED <<queues, lostLogs, stored, degraded, reset, failures>>

ClearKey(f, k) == [b \in Bucket |-> IF b.key = k THEN 0 ELSE f[b]]

ResetDelete ==
  /\ reset.pc = "delete"
  /\ durable' = ClearKey(durable, reset.key)
  /\ meter' = ClearKey(meter, reset.key)
  /\ refused' = ClearKey(refused, reset.key)
  /\ reset' = IdleReset
  /\ UNCHANGED <<queues, lostLogs, madeLogs, storedLogs, droppedLogs, degraded,
                 flush, call, now, bounds>>

\* The delete transaction failed: the reset reports the error, nothing changed.
ResetDeleteFails ==
  /\ reset.pc = "delete" /\ failures < MaxFailures
  /\ failures' = failures + 1
  /\ reset' = IdleReset
  /\ UNCHANGED <<meter, queues, history, durable, droppedLogs, degraded, flush,
                 call, now, calls, restarts, resets>>

-----------------------------------------------------------------------------
\* The process dies at any moment and Open rebuilds the meters from SQLite.
Restart ==
  /\ restarts < MaxRestarts
  /\ restarts' = restarts + 1
  /\ meter' = durable
  /\ pending' = Nothing /\ flight' = Nothing /\ refused' = Nothing
  /\ logs' = NoLogs /\ flightLogs' = NoLogs /\ lostLogs' = 0
  /\ madeLogs' = 0 /\ storedLogs' = NoLogs
  /\ since' = Never /\ flightSince' = Never
  /\ bucketCount' = 0 /\ logCount' = 0 /\ droppedLogs' = 0
  /\ degraded' = FALSE
  /\ flush' = IdleFlush
  /\ call' = [c \in Callers |-> IdleCall]
  /\ reset' = IdleReset
  /\ UNCHANGED <<durable, now, calls, failures, resets>>

Tick ==
  /\ now < MaxTime
  /\ now' = now + 1
  /\ UNCHANGED <<meter, queues, history, durable, droppedLogs, degraded, flush,
                 call, reset, bounds>>

Callback ==
  \/ \E w \in Callers, k \in Keys, t \in Slots, micros \in Amounts \cup {0} :
         RecordUsage(w, k, t, micros)
  \/ \E w \in Callers : RecordLog(w)
  \/ \E w \in Callers : \E units \in Amounts : RecordActual(w, units)
  \/ \E w \in Callers : RaiseAlarm(w)
  \/ \E k \in Keys : LogDecision(k)

FlushStep ==
  \/ FlushTick \/ FlushTake \/ FlushRelease \/ FlushNothing \/ FlushCommit
  \/ FlushFail \/ FlushRestore \/ FlushReturnError \/ FlushSettle \/ FlushReturnOK

ResetStep == (\E k \in Keys : BeginReset(k)) \/ ResetFlush \/ ResetDelete \/ ResetDeleteFails

Next == Callback \/ FlushStep \/ ResetStep \/ Restart \/ Tick

Spec == Init /\ [][Next]_vars

\* flushLoop ticks for ever, a running callback returns, and a Go mutex does
\* not starve the reset that waits for flushMu.
Fairness ==
  /\ WF_vars(FlushStep)
  /\ \A w \in Callers : WF_vars(RecordLog(w) \/ RaiseAlarm(w)
                                  \/ \E units \in Amounts : RecordActual(w, units))
  /\ SF_vars(ResetFlush)
  /\ WF_vars(ResetDelete \/ ResetDeleteFails)

FairSpec == Spec /\ Fairness

-----------------------------------------------------------------------------
Call  == [pc : {"idle", "costRefused", "log", "actual", "actualRefused"},
          key : Keys \cup {None}, slot : Slots \cup {None}]
Flush == [pc : {"idle", "take", "release", "restore", "settle"},
          at : 0..(ShardCount + 1), batch : SUBSET Shards, owner : {"loop", "reset"}]
Reset == [pc : {"idle", "flush", "delete"}, key : Keys \cup {None}]

LedgerTypes ==
  /\ meter \in [Bucket -> Nat]
  /\ pending \in [Bucket -> Nat]
  /\ flight \in [Bucket -> Nat]
  /\ durable \in [Bucket -> Nat]
  /\ refused \in [Bucket -> Nat]

QueueTypes ==
  /\ logs \in [Shards -> Nat]
  /\ flightLogs \in [Shards -> Nat]
  /\ storedLogs \in [Shards -> Nat]
  /\ since \in [Shards -> Nat]
  /\ flightSince \in [Shards -> Nat]
  /\ bucketCount \in Int /\ logCount \in Int
  /\ lostLogs \in Nat /\ madeLogs \in Nat /\ droppedLogs \in Nat

FlushTypes ==
  /\ flush \in Flush
  /\ flush.pc = "release" => flush.at \in Shards

CallTypes ==
  /\ call \in [Callers -> Call]
  /\ \A w \in Callers : call[w].pc # "idle" => call[w].key \in Keys /\ call[w].slot \in Slots

ResetTypes ==
  /\ reset \in Reset
  /\ degraded \in BOOLEAN

BoundTypes ==
  /\ now \in 1..(MaxTime + 1)
  /\ calls \in 0..MaxCalls /\ failures \in 0..MaxFailures
  /\ restarts \in 0..MaxRestarts /\ resets \in 0..MaxResets

TypeOK == LedgerTypes /\ QueueTypes /\ FlushTypes /\ CallTypes /\ ResetTypes /\ BoundTypes

\* Conservation (engine.go:1122-1195, 799-899): at every moment, whatever the
\* flush is doing, each bucket's in-memory meter is exactly what SQLite holds
\* plus what is queued plus what is in flight plus what was refused.  A batch
\* merged back after it was committed, a charge lost between take and restore,
\* or a reset that leaves a queued charge behind, all break it.
Conservation ==
  \A b \in Bucket : meter[b] = durable[b] + pending[b] + flight[b] + refused[b]

Empty(f) == \A b \in Bucket : f[b] = 0

\* What makes Conservation inductive: which shards the batch may come from at
\* each point of flushPending, and what a reset may rely on while it holds
\* adminMu.
BatchCovers ==
  /\ \A b \in Bucket : flight[b] # 0 => ShardOfBucket(b) \in flush.batch
  /\ \A s \in flush.batch : flush.pc \in {"take", "release"} =>
       s < flush.at \/ (flush.pc = "release" /\ s = flush.at)
  /\ flush.pc = "idle" => flush.batch = {}
  /\ flush.pc = "restore" => \A b \in Bucket : flight[b] # 0 => ShardOfBucket(b) >= flush.at
  /\ flush.pc = "settle" => Empty(flight)

ResetExclusive ==
  /\ reset.pc # "idle" => reset.key \in Keys /\ \A w \in Callers : call[w] = IdleCall
  /\ flush.pc # "idle" /\ flush.owner = "reset" => reset.pc = "flush"
  /\ flush.owner = "reset" =>
       /\ flush.pc \in {"take", "release"} =>
            \A b \in Bucket : ShardOfBucket(b) < flush.at => pending[b] = 0
       /\ flush.pc = "release" =>
            \A b \in Bucket : ShardOfBucket(b) = flush.at => pending[b] = 0
       /\ flush.pc = "settle" => Empty(pending)
  /\ reset.pc = "delete" => Empty(pending) /\ Empty(flight)

IInv == TypeOK /\ Conservation /\ BatchCovers /\ ResetExclusive

\* The admission counters tell the truth (engine.go:1034-1102, 1148-1181):
\* outside the window between a shard's unlock and the subtraction,
\* pendingBucketCount and pendingLogCount are what the shards hold.
CountersExact ==
  LET window == IF flush.pc = "release" THEN {flush.at} ELSE {}
  IN /\ bucketCount = Cardinality({b \in Bucket : pending[b] > 0})
                     + Cardinality({b \in Bucket : flight[b] > 0 /\ ShardOfBucket(b) \in window})
     /\ logCount = SumFunction(logs) + SumFunctionOnSet(flightLogs, window)

\* No decision log disappears unaccounted (engine.go:1065-1102, 1167-1173):
\* each is queued, in flight, stored, counted as dropped, or was cut off by a
\* failed flush that found the log queue full (which no counter records).
LogsAccounted ==
  madeLogs = SumFunction(logs) + SumFunction(flightLogs) + SumFunction(storedLogs)
             + droppedLogs + lostLogs

\* The age of a shard is the age of something (engine.go:1040, 1143, 1182): a
\* shard that holds anything has an age, so the 10-second limit applies to it,
\* and a shard that holds nothing has none, so it cannot refuse a charge for
\* ever.  The exception: a failed flush that cut off logs may leave an age on
\* an empty shard.
QueueAgeTruthful ==
  \A s \in Shards :
    /\ ~ShardEmpty(s) => since[s] # 0
    /\ since[s] # 0 /\ lostLogs = 0 => ~ShardEmpty(s)
    /\ flightSince[s] # 0 => s \in flush.batch

\* The queue is bounded, although not by maxPendingBuckets (engine.go:1040-1048,
\* 1148-1181): slots are given back as soon as a shard is taken, so one flush
\* can carry a full queue from every shard, and a failed flush returns them all
\* without looking at the limit.
QueueBounded ==
  /\ Cardinality({b \in Bucket : pending[b] > 0}) <= MaxBuckets * (1 + ShardCount * failures)
  /\ SumFunction(logs) <= MaxLogs

\* A reset leaves nothing of the Key behind (panel.go:396-455): after it no
\* queue, batch, meter or row holds usage from before it.
ResetErases ==
  [][\A k \in Keys :
       reset = [pc |-> "delete", key |-> k] /\ durable' # durable =>
         \A b \in Bucket : b.key = k =>
           meter'[b] = 0 /\ pending'[b] = 0 /\ flight'[b] = 0 /\ durable'[b] = 0]_vars

\* Every charge that was queued reaches SQLite (engine.go:1104-1120).
EventuallyStored == <>[](\A b \in Bucket : pending[b] = 0 /\ flight[b] = 0)

WorkLeft == flush.batch # {} \/ \E s \in Shards : ~ShardEmpty(s)

\* The persistence alarm that blocks enforced admissions is lowered again
\* (engine.go:603, 1158-1193) whenever anything is queued or in flight while it
\* is up, whoever raised it and whatever fails on the way.  Without such work
\* it stays: a flush that finds nothing returns early, and a callback refused
\* before the last commit raises the alarm after it (851-852, 914-915).  The
\* admission it then blocks queues a decision log (646-655), which is work.
AlarmClears == (degraded /\ WorkLeft) ~> ~degraded

\* A reset always gets its turn although it waits for flushMu inside adminMu
\* (panel.go:396-417).
ResetReturns == (reset.pc # "idle") ~> (reset.pc = "idle")

\* The pipeline of meters, shards, batches and transactions behaves as one
\* ledger (ChargeLedger): a charge once accepted is persisted exactly once,
\* never before it was accepted, and lost only by a crash.
Ledger == INSTANCE ChargeLedger WITH
  accepted  <- [b \in Bucket |-> durable[b] + pending[b] + flight[b]],
  persisted <- durable

ImplementsLedger == Ledger!Spec
=============================================================================
