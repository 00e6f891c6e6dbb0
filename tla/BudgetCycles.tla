---------------------------- MODULE BudgetCycles ----------------------------
(***************************************************************************)
(* The fixed dollar cycles of one Key (internal/quota/billing.go,          *)
(* engine.go, store_cycles.go, store_usage.go).                            *)
(*                                                                         *)
(* A request reads the clock before it enters admit.  Admission compares   *)
(* what the spend meter holds of each active cycle with the Key's budget   *)
(* and then starts the cycles that are not active, in SQLite before        *)
(* memory.  The cost arrives later and is charged at the request's own     *)
(* time.  The meter forgets what is older than the longest window, SQLite  *)
(* what is older than the retention, and a restart rebuilds one from the   *)
(* other.                                                                  *)
(*                                                                         *)
(* Abstractions: one Key in budget-enforced mode (track-only differs by    *)
(* skipping the comparison); the other gates of admit and its markers are  *)
(* left out, they change nothing here; what lies between a charge and      *)
(* SQLite is one queue (module UsageLedger has its steps and failures).    *)
(***************************************************************************)
EXTENDS Integers, FiniteSets, Functions

CONSTANTS
  WindowCount,  \* the windows are numbered: five hours, seven days
  Width,        \* [Windows -> fiveHourWindow, sevenDayWindow]
  MeterSpan,    \* sevenDayWindow, as the meter's age limit
  Retention,    \* RecordRetentionDuration
  Budget,       \* [Windows -> micro-dollars], 0 when unlimited
  Costs,        \* what a paid request may cost
  Clients,      \* requests under way at the same time
  \* Bounds of the model, used in guards only:
  MaxTime, MaxRequests, MaxFailures, MaxRestarts, MaxResets

Windows == 1..WindowCount
Times   == 1..MaxTime

ASSUME WindowAssumption ==
  /\ WindowCount \in Nat
  /\ Width \in [Windows -> Nat \ {0}] /\ Budget \in [Windows -> Nat]
  /\ MeterSpan \in Nat /\ \A w \in Windows : Width[w] <= MeterSpan
  /\ Retention \in Nat /\ MeterSpan <= Retention       \* NormalizeConfig: 168h

ASSUME CostAssumption == Costs \subseteq Nat \ {0} /\ IsFiniteSet(Costs)

ASSUME ClientAssumption == IsFiniteSet(Clients)

ASSUME BoundAssumption ==
  /\ MaxTime \in Nat \ {0} /\ MaxRequests \in Nat /\ MaxFailures \in Nat
  /\ MaxRestarts \in Nat /\ MaxResets \in Nat

VARIABLES
  now,          \* the clock; it starts at 1, so 0 can be the zero time
  cycles,       \* engine.cycles: [Windows -> start], 0 when never started
  rows,         \* key_budget_cycles
  meter,        \* the spend meter: [Times -> micro-dollars]
  queued,       \* charges on their way to SQLite
  stored,       \* usage_buckets, scope key_cost
  client,       \* where each request stands
  spent,        \* history: what was charged since the last reset and survived
  requests, failures, restarts, resets    \* how much of each bound is used

bounds == <<requests, failures, restarts, resets>>
ledger == <<meter, queued, stored, spent>>
vars   == <<now, cycles, rows, ledger, client, bounds>>

NoSpend   == [t \in Times |-> 0]
NoCycle   == [w \in Windows |-> 0]
IdleClient == [pc |-> "idle", at |-> 0, paid |-> FALSE, cycle |-> NoCycle,
               window |-> 1, cooling |-> FALSE]

Init ==
  /\ now = 1
  /\ cycles = NoCycle /\ rows = NoCycle
  /\ meter = NoSpend /\ queued = NoSpend /\ stored = NoSpend /\ spent = NoSpend
  /\ client = [c \in Clients |-> IdleClient]
  /\ requests = 0 /\ failures = 0 /\ restarts = 0 /\ resets = 0

\* cycleActive
Active(start, w, t) == start # 0 /\ t < start + Width[w]

\* The request times that fixedWindowSnapshot adds up.
InCycle(start, w) == {t \in Times : start <= t /\ t < start + Width[w]}
SumIn(f, start, w) == SumFunctionOnSet(f, InCycle(start, w))

\* Mutant: the meter drops one millisecond too much.
PrunedEarly(f, t) == [u \in Times |-> IF u > t - MeterSpan + 1 THEN f[u] ELSE 0]

\* meterState.prune
Pruned(f, t) == [u \in Times |-> IF u > t - MeterSpan THEN f[u] ELSE 0]

To(c, pc) == client' = [client EXCEPT ![c].pc = pc]

-----------------------------------------------------------------------------
(* Admission.  It holds adminMu.RLock from ReadCycles to Install.           *)

\* CPA calls the plugin, which reads the clock.
Arrive(c, paid) ==
  /\ client[c].pc = "idle" /\ requests < MaxRequests
  /\ requests' = requests + 1
  /\ client' = [client EXCEPT ![c] = [pc |-> "read", at |-> now, paid |-> paid, cycle |-> NoCycle,
                                      window |-> 1, cooling |-> FALSE]]
  /\ UNCHANGED <<now, cycles, rows, ledger, failures, restarts, resets>>

CyclesFree == \A c \in Clients : client[c].pc # "persisted"

\* dollarSpendSnapshot copies the cycles; a free model skips the comparison.
ReadCycles(c) ==
  /\ client[c].pc = "read" /\ CyclesFree
  /\ client' = [client EXCEPT ![c] =
                   [@ EXCEPT !.pc = IF client[c].paid THEN "check" ELSE "ensure", !.cycle = cycles]]
  /\ UNCHANGED <<now, cycles, rows, ledger, bounds>>

\* Mutant: a budget is exhausted only when it is exceeded.
ExceededAt(c, w) ==
  /\ Active(client[c].cycle[w], w, client[c].at)
  /\ Budget[w] > 0 /\ SumIn(Pruned(meter, client[c].at), client[c].cycle[w], w) > Budget[w]

Cooling(c, w) ==
  /\ Active(client[c].cycle[w], w, client[c].at)
  /\ Budget[w] > 0 /\ SumIn(Pruned(meter, client[c].at), client[c].cycle[w], w) >= Budget[w]

Checked(c, w) ==
  [client[c] EXCEPT !.window = w + 1, !.cooling = IF Cooling(c, w) THEN TRUE ELSE @]

\* fixedWindowSnapshot for one window; an inactive one leaves the meter alone.
CheckWindow(c) ==
  /\ client[c].pc = "check" /\ client[c].window \in Windows
  /\ LET w == client[c].window
     IN /\ meter' = IF Active(client[c].cycle[w], w, client[c].at)
                    THEN Pruned(meter, client[c].at) ELSE meter
        /\ client' = [client EXCEPT ![c] = Checked(c, w)]
  /\ UNCHANGED <<now, cycles, rows, queued, stored, spent, bounds>>

\* Both windows were looked at: 429, or on to the marker and the cycles.
Decide(c) ==
  /\ client[c].pc = "check" /\ client[c].window = WindowCount + 1
  /\ \/ /\ client[c].cooling
        /\ client' = [client EXCEPT ![c] = IdleClient]
     \/ /\ ~client[c].cooling
        /\ To(c, "ensure")
  /\ UNCHANGED <<now, cycles, rows, ledger, bounds>>

\* Mutant: every request moves the boundary.
StartedAlways(c) == [w \in Windows |-> client[c].at]
Started(c) == [w \in Windows |-> IF Active(cycles[w], w, client[c].at) THEN cycles[w]
                                                                     ELSE client[c].at]

\* ensureBudgetCycles, under cyclesMu: nothing to start, or SQLite first ...
EnsureCycles(c) ==
  /\ client[c].pc = "ensure" /\ CyclesFree
  /\ \/ /\ Started(c) = cycles
        /\ To(c, "sent")
        /\ UNCHANGED rows
     \/ /\ Started(c) # cycles
        /\ rows' = Started(c)
        /\ To(c, "persisted")
  /\ UNCHANGED <<now, cycles, ledger, bounds>>

\* ... then memory.
InstallCycles(c) ==
  /\ client[c].pc = "persisted"
  /\ cycles' = rows
  /\ To(c, "sent")
  /\ UNCHANGED <<now, rows, ledger, bounds>>

\* Mutant: memory keeps the cycle that SQLite refused.
EnsureFailsHalfway(c) ==
  /\ client[c].pc = "ensure" /\ CyclesFree /\ Started(c) # cycles
  /\ failures < MaxFailures
  /\ failures' = failures + 1
  /\ cycles' = Started(c)
  /\ client' = [client EXCEPT ![c] = IdleClient]
  /\ UNCHANGED <<now, rows, ledger, requests, restarts, resets>>

\* SQLite refuses: nothing changes and the request is rejected.
EnsureFails(c) ==
  /\ client[c].pc = "ensure" /\ CyclesFree /\ Started(c) # cycles
  /\ failures < MaxFailures
  /\ failures' = failures + 1
  /\ client' = [client EXCEPT ![c] = IdleClient]
  /\ UNCHANGED <<now, cycles, rows, ledger, requests, restarts, resets>>

-----------------------------------------------------------------------------
(* The ledger.                                                              *)

\* chargeDollarSpend at the marker's time: prune, add, enqueue.
Settle(c, cost) ==
  /\ client[c].pc = "sent"
  /\ cost > 0 => client[c].paid
  /\ LET t == client[c].at
     IN IF cost = 0 THEN UNCHANGED ledger
        ELSE /\ meter'  = [Pruned(meter, t) EXCEPT ![t] = @ + cost]
             /\ queued' = [queued EXCEPT ![t] = @ + cost]
             /\ spent'  = [spent EXCEPT ![t] = @ + cost]
             /\ UNCHANGED stored
  /\ client' = [client EXCEPT ![c] = IdleClient]
  /\ UNCHANGED <<now, cycles, rows, bounds>>

\* flushPending
Flush ==
  /\ stored' = [t \in Times |-> stored[t] + queued[t]]
  /\ queued' = NoSpend
  /\ UNCHANGED <<now, cycles, rows, meter, spent, client, bounds>>

\* PruneRetention
PruneRetention ==
  /\ stored' = [t \in Times |-> IF t < now - Retention THEN 0 ELSE stored[t]]
  /\ UNCHANGED <<now, cycles, rows, meter, queued, spent, client, bounds>>

\* Summary shows both windows and prunes the meter on the way.
Summary ==
  /\ meter' = IF \E w \in Windows : Active(cycles[w], w, now) THEN Pruned(meter, now) ELSE meter
  /\ CyclesFree
  /\ UNCHANGED <<now, cycles, rows, queued, stored, spent, client, bounds>>

\* ResetPolicyUsage, under adminMu: flush, delete, forget cycles, meter and markers.
Reset ==
  /\ \A c \in Clients : client[c].pc \in {"idle", "read", "sent"}
  /\ resets < MaxResets
  /\ resets' = resets + 1
  /\ cycles' = NoCycle /\ rows' = NoCycle
  /\ meter' = NoSpend /\ queued' = NoSpend /\ stored' = NoSpend /\ spent' = NoSpend
  /\ client' = [c \in Clients |-> IF client[c].pc = "sent" THEN IdleClient ELSE client[c]]
  /\ UNCHANGED <<now, requests, failures, restarts>>

\* What newMeterState makes of the rows LoadDollarSpendSince returns.
Rebuilt == [t \in Times |-> IF t > now - MeterSpan THEN stored[t] ELSE 0]

\* The process ends and Open reads SQLite.  The queue is lost; the requests in
\* kept were checkpointed, or are settled by the same process after a reload.
Restart(kept) ==
  /\ restarts < MaxRestarts
  /\ restarts' = restarts + 1
  /\ kept \subseteq {c \in Clients : client[c].pc = "sent"}
  /\ meter' = Rebuilt
  /\ spent' = [t \in Times |-> spent[t] - queued[t]]
  /\ queued' = NoSpend
  /\ cycles' = rows
  /\ client' = [c \in Clients |-> IF c \in kept THEN client[c] ELSE IdleClient]
  /\ UNCHANGED <<now, rows, stored, requests, failures, resets>>

Tick ==
  /\ now < MaxTime
  /\ now' = now + 1
  /\ UNCHANGED <<cycles, rows, ledger, client, bounds>>

Admission ==
  \E c \in Clients :
    \/ \E paid \in BOOLEAN : Arrive(c, paid)
    \/ ReadCycles(c) \/ CheckWindow(c) \/ Decide(c)
    \/ EnsureCycles(c) \/ InstallCycles(c) \/ EnsureFails(c)

Bookkeeping ==
  \/ \E c \in Clients : \E cost \in Costs \cup {0} : Settle(c, cost)
  \/ Flush \/ PruneRetention \/ Summary \/ Reset
  \/ \E kept \in SUBSET Clients : Restart(kept)

Next == Admission \/ Bookkeeping \/ Tick

Spec == Init /\ [][Next]_vars

-----------------------------------------------------------------------------
Starts == [Windows -> 0..MaxTime]
Client == [pc : {"idle", "read", "check", "ensure", "persisted", "sent"}, at : 0..MaxTime,
           paid : BOOLEAN, cycle : Starts, window : 1..(WindowCount + 1), cooling : BOOLEAN]

TypeOK ==
  /\ now \in Times
  /\ cycles \in Starts /\ rows \in Starts
  /\ meter \in [Times -> Nat] /\ queued \in [Times -> Nat]
  /\ stored \in [Times -> Nat] /\ spent \in [Times -> Nat]
  /\ client \in [Clients -> Client]
  /\ \A c \in Clients : client[c].pc # "idle" => client[c].at \in 1..now
  /\ requests \in 0..MaxRequests /\ failures \in 0..MaxFailures
  /\ restarts \in 0..MaxRestarts /\ resets \in 0..MaxResets

\* What the gate compares with the budget is what was charged in the cycle
\* (billing.go:447-492, 657-674, engine.go:136-209, store_usage.go:125-135,
\* 367-404): the charges of an active cycle survive late settlement in any
\* order, the pruning of the meter, the retention sweep and a restart.
SpendCounted ==
  \A w \in Windows : Active(cycles[w], w, now) =>
    \A t \in InCycle(cycles[w], w) : meter[t] = spent[t]

\* The cycle an admitted request belongs to survives a crash (billing.go:505-529):
\* as long as a request waits for its callback, SQLite knows a cycle of each
\* window that had not ended when the request arrived.
AdmittedCycleDurable ==
  \A c \in Clients : client[c].pc = "sent" =>
    \A w \in Windows : Active(rows[w], w, client[c].at)

\* What makes SpendCounted inductive: nothing young enough to lie in an active
\* cycle is missing from the meter or, counting the queue, from SQLite.
YoungSpendKept ==
  \A t \in Times :
    /\ queued[t] <= spent[t]
    /\ t > now - MeterSpan => meter[t] = spent[t] /\ stored[t] + queued[t] = spent[t]

\* What makes AdmittedCycleDurable and BoundaryStable inductive: SQLite and
\* memory differ only while one request is between the two writes, and what it
\* has written replaces only cycles that had ended when it arrived.
WritingCycles ==
  /\ CyclesFree => rows = cycles
  /\ \A c, d \in Clients : client[c].pc = "persisted" /\ client[d].pc = "persisted" => c = d
  /\ \A c \in Clients : client[c].pc = "persisted" =>
       \A w \in Windows :
         /\ Active(rows[w], w, client[c].at)
         /\ \/ rows[w] = cycles[w]
            \/ cycles[w] = 0
            \/ rows[w] >= cycles[w] + Width[w]

IInv == TypeOK /\ YoungSpendKept /\ WritingCycles /\ AdmittedCycleDurable

\* Later requests never move an active cycle's boundary (billing.go:505-529),
\* not even one that read the clock before the cycle started, and neither does
\* a failed write or a crash between the write and memory: a cycle is replaced
\* only after its whole width, or forgotten by a reset.
BoundaryStable ==
  [][\A w \in Windows :
       cycles[w] # 0 /\ cycles'[w] # cycles[w] =>
         \/ cycles'[w] >= cycles[w] + Width[w]
         \/ resets' # resets]_vars

\* How far a cycle can pass its budget (README.en.md:123, engine.go:595-602): once
\* the budget is reached, each request already on its way adds at most one cost.
OvershootBounded ==
  \A w \in Windows : Active(cycles[w], w, now) /\ Budget[w] > 0 =>
    \A most \in Costs : (\A cost \in Costs : cost <= most) =>
      SumIn(spent, cycles[w], w) <= Budget[w] - 1 + most * Cardinality(Clients)
=============================================================================
