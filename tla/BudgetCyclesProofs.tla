------------------------- MODULE BudgetCyclesProofs -------------------------
(***************************************************************************)
(* Theorems about BudgetCycles, for every number and width of windows,     *)
(* every budget, cost and number of clients: the types, that no charge of  *)
(* an active cycle is forgotten, that an admitted request's cycle survives *)
(* a crash, that a boundary never moves early, and that the spend of a     *)
(* cycle exceeds its budget only by what was under way.                    *)
(***************************************************************************)
EXTENDS BudgetCycles, FiniteSetTheorems, Sums, TLAPS

-----------------------------------------------------------------------------
(* Lemmas about the operators.                                              *)

\* The meter and the rebuilt meter are ledgers.
LEMMA PrunedTypes ==
  ASSUME NEW f \in [Times -> Nat], NEW t \in Int
  PROVE  Pruned(f, t) \in [Times -> Nat]
BY DEF Pruned

\* Pruning at a time that is not in the future keeps what is young.
LEMMA PruningKeepsYoung ==
  ASSUME now \in Nat, NEW f, NEW t \in Nat, t <= now, NEW u \in Times, u > now - MeterSpan
  PROVE  Pruned(f, t)[u] = f[u]
BY WindowAssumption DEF Pruned, Times

\* The cycles a request starts are active for it, and replace only ended ones.
LEMMA StartedCycles ==
  ASSUME TypeOK, NEW c \in Clients, client[c].pc = "ensure"
  PROVE  /\ Started(c) \in Starts
         /\ \A w \in Windows :
              /\ Active(Started(c)[w], w, client[c].at)
              /\ \/ Started(c)[w] = cycles[w]
                 \/ cycles[w] = 0
                 \/ Started(c)[w] >= cycles[w] + Width[w]
<1>1. client[c].at \in 1..now /\ now \in Times
  BY DEF TypeOK
<1>2. client[c].at \in Nat \ {0} /\ client[c].at <= MaxTime
  BY <1>1, BoundAssumption DEF Times
<1>3. \A w \in Windows : cycles[w] \in 0..MaxTime /\ Width[w] \in Nat \ {0}
  BY WindowAssumption DEF TypeOK, Starts
<1>. QED BY <1>2, <1>3, BoundAssumption DEF Started, Starts, Active

\* A step of a client leaves the other clients alone.
LEMMA OneClientMoves ==
  ASSUME TypeOK, NEW c \in Clients, NEW r \in Client,
         client' = [client EXCEPT ![c] = r]
  PROVE  /\ client' \in [Clients -> Client]
         /\ client'[c] = r
         /\ \A d \in Clients \ {c} : client'[d] = client[d]
BY DEF TypeOK

-----------------------------------------------------------------------------
(* Type correctness.                                                        *)

\* The initial state has the right types.
LEMMA TypeInit == Init => TypeOK
<1>. SUFFICES ASSUME Init PROVE TypeOK
  OBVIOUS
<1>1. NoCycle \in Starts /\ NoSpend \in [Times -> Nat] /\ 1 \in Times
  BY BoundAssumption DEF NoCycle, NoSpend, Starts, Times
<1>2. IdleClient \in Client
  BY <1>1, WindowAssumption, BoundAssumption DEF IdleClient, Client, Windows
<1>. QED BY <1>1, <1>2, BoundAssumption DEF Init, TypeOK, IdleClient

\* Every action keeps the types.
LEMMA TypeStep ==
  ASSUME TypeOK, YoungSpendKept, [Next]_vars
  PROVE  TypeOK'
<1>. USE DEF bounds, ledger
<1>0. /\ now \in Nat \ {0} /\ now <= MaxTime
      /\ NoCycle \in Starts /\ NoSpend \in [Times -> Nat]
  BY BoundAssumption DEF TypeOK, Times, NoCycle, NoSpend, Starts
<1>a. IdleClient \in Client /\ IdleClient.pc = "idle"
  BY <1>0, WindowAssumption, BoundAssumption DEF IdleClient, Client, Windows
<1>b. \A c \in Clients : client[c] \in Client
  BY DEF TypeOK
<1>c. \A c \in Clients : client[c].pc # "idle" => client[c].at \in Times /\ client[c].at <= now
  BY <1>0, BoundAssumption, SMTT(30) DEF TypeOK, Times
<1>1. ASSUME NEW c \in Clients, NEW paid \in BOOLEAN, Arrive(c, paid)
      PROVE  TypeOK'
  <2>1. [pc |-> "read", at |-> now, paid |-> paid, cycle |-> NoCycle,
         window |-> 1, cooling |-> FALSE] \in Client
    BY <1>0, WindowAssumption, BoundAssumption DEF Client
  <2>2. client' \in [Clients -> Client]
    BY <1>1, <2>1 DEF Arrive, TypeOK
  <2>3. \A d \in Clients : client'[d].pc # "idle" => client'[d].at \in 1..now'
    BY <1>1, <1>0 DEF Arrive, TypeOK
  <2>. QED BY <1>1, <2>2, <2>3, BoundAssumption DEF Arrive, TypeOK
<1>2. ASSUME NEW c \in Clients, ReadCycles(c) PROVE TypeOK'
  <2>. DEFINE r == [client[c] EXCEPT !.pc = IF client[c].paid THEN "check" ELSE "ensure",
                                     !.cycle = cycles]
  <2>1. r \in Client /\ r.at = client[c].at
    BY <1>b DEF TypeOK, Client
  <2>2. client' = [client EXCEPT ![c] = r]
    BY <1>2 DEF ReadCycles
  <2>. HIDE DEF r
  <2>3. client' \in [Clients -> Client]
    BY <2>1, <2>2, OneClientMoves
  <2>4. \A d \in Clients : client'[d].pc # "idle" => client'[d].at \in 1..now'
    BY <1>2, <2>1, <2>2, OneClientMoves DEF ReadCycles, TypeOK
  <2>. QED BY <1>2, <2>3, <2>4 DEF ReadCycles, TypeOK
<1>3. ASSUME NEW c \in Clients, CheckWindow(c) PROVE TypeOK'
  <2>1. client[c].window + 1 \in 1..(WindowCount + 1)
    BY <1>3, WindowAssumption DEF CheckWindow, Windows
  <2>. DEFINE r == Checked(c, client[c].window)
  <2>2. client' = [client EXCEPT ![c] = r]
    BY <1>3 DEF CheckWindow
  <2>4. r \in Client /\ r.at = client[c].at
    BY <1>b, <2>1 DEF Client, Checked
  <2>. HIDE DEF r
  <2>7. client' \in [Clients -> Client]
    BY <2>4, <2>2, OneClientMoves
  <2>8. \A d \in Clients : client'[d].pc # "idle" => client'[d].at \in 1..now'
    BY <1>3, <2>4, <2>2, OneClientMoves DEF CheckWindow, TypeOK
  <2>5. client[c].at \in Int
    BY <1>b, BoundAssumption DEF Client
  <2>6. meter' \in [Times -> Nat]
    BY <1>3, <2>5, PrunedTypes DEF CheckWindow, TypeOK
  <2>. QED BY <1>3, <2>7, <2>8, <2>6 DEF CheckWindow, TypeOK
<1>4. ASSUME NEW c \in Clients, Decide(c) PROVE TypeOK'
  <2>1. client' \in [Clients -> Client]
    BY <1>4, <1>a, <1>b DEF Decide, To, TypeOK, Client
  <2>2. \A d \in Clients : client'[d].pc # "idle" => client'[d].at \in 1..now'
    <3>1. CASE client' = [client EXCEPT ![c] = IdleClient]
      BY <1>4, <3>1, <1>a DEF Decide, TypeOK
    <3>2. CASE To(c, "ensure")
      BY <1>4, <3>2 DEF Decide, To, TypeOK
    <3>. QED BY <1>4, <3>1, <3>2 DEF Decide
  <2>. QED BY <1>4, <2>1, <2>2 DEF Decide, TypeOK
<1>5. ASSUME NEW c \in Clients, EnsureCycles(c) PROVE TypeOK'
  <2>1. client' \in [Clients -> Client]
    BY <1>5, <1>b DEF EnsureCycles, To, TypeOK, Client
  <2>2. \A d \in Clients : client'[d].pc # "idle" => client'[d].at \in 1..now'
    <3>1. client[c].at \in 1..now /\ now' = now
      BY <1>5 DEF EnsureCycles, TypeOK
    <3>2. CASE To(c, "sent")
      BY <3>1, <3>2 DEF To, TypeOK
    <3>3. CASE To(c, "persisted")
      BY <3>1, <3>3 DEF To, TypeOK
    <3>. QED BY <1>5, <3>2, <3>3 DEF EnsureCycles
  <2>3. rows' \in Starts
    BY <1>5, StartedCycles DEF EnsureCycles, TypeOK
  <2>. QED BY <1>5, <2>1, <2>2, <2>3 DEF EnsureCycles, TypeOK
<1>6. ASSUME NEW c \in Clients, InstallCycles(c) PROVE TypeOK'
  <2>1. client' \in [Clients -> Client]
    BY <1>6, <1>b DEF InstallCycles, To, TypeOK, Client
  <2>2. \A d \in Clients : client'[d].pc # "idle" => client'[d].at \in 1..now'
    BY <1>6 DEF InstallCycles, To, TypeOK
  <2>. QED BY <1>6, <2>1, <2>2 DEF InstallCycles, TypeOK
<1>7. ASSUME NEW c \in Clients, EnsureFails(c) PROVE TypeOK'
  BY <1>7, <1>a, BoundAssumption DEF EnsureFails, TypeOK
<1>8. ASSUME NEW c \in Clients, NEW cost \in Costs \cup {0}, Settle(c, cost) PROVE TypeOK'
  <2>1. cost \in Nat
    BY CostAssumption
  <2>a. client[c].at \in Int
    BY <1>b, BoundAssumption DEF Client
  <2>2. Pruned(meter, client[c].at) \in [Times -> Nat]
    BY <2>a, PrunedTypes DEF TypeOK
  <2>3. meter' \in [Times -> Nat] /\ queued' \in [Times -> Nat] /\ stored' \in [Times -> Nat]
        /\ spent' \in [Times -> Nat]
    BY <1>8, <2>1, <2>2 DEF Settle, TypeOK
  <2>4. client' \in [Clients -> Client]
    BY <1>8, <1>a DEF Settle, TypeOK
  <2>5. \A d \in Clients : client'[d].pc # "idle" => client'[d].at \in 1..now'
    BY <1>8, <1>a DEF Settle, TypeOK
  <2>. QED BY <1>8, <2>3, <2>4, <2>5 DEF Settle, TypeOK
<1>9. ASSUME Flush PROVE TypeOK'
  BY <1>9, <1>0 DEF Flush, TypeOK
<1>10. ASSUME PruneRetention PROVE TypeOK'
  BY <1>10 DEF PruneRetention, TypeOK
<1>11. ASSUME Summary PROVE TypeOK'
  BY <1>11, <1>0, PrunedTypes DEF Summary, TypeOK
<1>12. ASSUME Reset PROVE TypeOK'
  <2>1. client' \in [Clients -> Client]
    BY <1>12, <1>a, <1>b DEF Reset
  <2>2. \A d \in Clients : client'[d].pc # "idle" => client'[d].at \in 1..now'
    BY <1>12, <1>a DEF Reset, TypeOK
  <2>. QED BY <1>12, <1>0, <2>1, <2>2, BoundAssumption DEF Reset, TypeOK
<1>13. ASSUME NEW kept \in SUBSET Clients, Restart(kept) PROVE TypeOK'
  <2>1. client' \in [Clients -> Client]
    BY <1>13, <1>a, <1>b DEF Restart
  <2>2. \A d \in Clients : client'[d].pc # "idle" => client'[d].at \in 1..now'
    BY <1>13, <1>a DEF Restart, TypeOK
  <2>3. meter' \in [Times -> Nat]
    BY <1>13 DEF Restart, Rebuilt, TypeOK
  <2>4. spent' \in [Times -> Nat]
    BY <1>13 DEF Restart, TypeOK, YoungSpendKept
  <2>. QED BY <1>13, <1>0, <2>1, <2>2, <2>3, <2>4, BoundAssumption DEF Restart, TypeOK
<1>14. ASSUME Tick PROVE TypeOK'
  <2>1. now' \in Times /\ now' = now + 1
    BY <1>14, <1>0, BoundAssumption DEF Tick, Times
  <2>2. \A d \in Clients : client'[d].pc # "idle" => client'[d].at \in 1..now'
    BY <1>14, <2>1, <1>0 DEF Tick, TypeOK
  <2>. QED BY <1>14, <2>1, <2>2 DEF Tick, TypeOK
<1>15. ASSUME UNCHANGED vars PROVE TypeOK'
  BY <1>15 DEF vars, TypeOK
<1>. QED
  BY <1>1, <1>2, <1>3, <1>4, <1>5, <1>6, <1>7, <1>8, <1>9, <1>10, <1>11, <1>12, <1>13, <1>14, <1>15
  DEF Next, Admission, Bookkeeping

-----------------------------------------------------------------------------
(* No charge of an active cycle is forgotten.                               *)

\* Every action keeps what is young in the meter and in SQLite.
LEMMA YoungStep ==
  ASSUME TypeOK, YoungSpendKept, [Next]_vars
  PROVE  YoungSpendKept'
<1>. SUFFICES ASSUME NEW t \in Times
              PROVE  /\ queued'[t] <= spent'[t]
                     /\ t > now' - MeterSpan => meter'[t] = spent'[t]
                                              /\ stored'[t] + queued'[t] = spent'[t]
  BY DEF YoungSpendKept
<1>. USE DEF bounds, ledger
<1>0. /\ now \in Nat /\ MeterSpan \in Nat /\ Retention \in Nat /\ MeterSpan <= Retention
      /\ meter[t] \in Nat /\ queued[t] \in Nat /\ stored[t] \in Nat /\ spent[t] \in Nat
      /\ t \in Nat
  BY WindowAssumption, BoundAssumption DEF TypeOK, Times
<1>a. /\ queued[t] <= spent[t]
      /\ t > now - MeterSpan => meter[t] = spent[t] /\ stored[t] + queued[t] = spent[t]
  BY DEF YoungSpendKept
<1>b. ASSUME UNCHANGED <<now, ledger>>
      PROVE  /\ queued'[t] <= spent'[t]
             /\ t > now' - MeterSpan => meter'[t] = spent'[t]
                                      /\ stored'[t] + queued'[t] = spent'[t]
  BY <1>a, <1>b
<1>1. ASSUME NEW c \in Clients, NEW paid \in BOOLEAN, Arrive(c, paid)
      PROVE  UNCHANGED <<now, ledger>>
  BY <1>1 DEF Arrive
<1>2. ASSUME NEW c \in Clients,
             ReadCycles(c) \/ Decide(c) \/ EnsureCycles(c) \/ InstallCycles(c) \/ EnsureFails(c)
      PROVE  UNCHANGED <<now, ledger>>
  BY <1>2 DEF ReadCycles, Decide, EnsureCycles, InstallCycles, EnsureFails
<1>3. ASSUME NEW c \in Clients, CheckWindow(c)
      PROVE  t > now - MeterSpan => meter'[t] = meter[t]
  <2>1. client[c].at \in Nat /\ client[c].at <= now
    BY <1>3, <1>0 DEF CheckWindow, TypeOK
  <2>. QED BY <1>3, <1>0, <2>1, PruningKeepsYoung DEF CheckWindow
<1>4. ASSUME NEW c \in Clients, NEW cost \in Costs \cup {0}, Settle(c, cost)
      PROVE  /\ queued'[t] <= spent'[t]
             /\ t > now' - MeterSpan => meter'[t] = spent'[t]
                                      /\ stored'[t] + queued'[t] = spent'[t]
  <2>1. client[c].at \in Nat /\ client[c].at <= now /\ cost \in Nat
    BY <1>4, <1>0, CostAssumption DEF Settle, TypeOK
  <2>2. Pruned(meter, client[c].at) \in [Times -> Nat]
    BY <2>1, PrunedTypes DEF TypeOK
  <2>3. t > now - MeterSpan => Pruned(meter, client[c].at)[t] = meter[t]
    BY <1>0, <2>1, PruningKeepsYoung
  <2>4. CASE cost = 0
    BY <1>4, <1>a, <2>4 DEF Settle
  <2>5. CASE cost # 0 /\ client[c].at = t
    BY <1>4, <1>a, <1>0, <2>1, <2>2, <2>3, <2>5 DEF Settle, TypeOK
  <2>6. CASE cost # 0 /\ client[c].at # t
    BY <1>4, <1>a, <1>0, <2>1, <2>2, <2>3, <2>6 DEF Settle, TypeOK
  <2>. QED BY <2>4, <2>5, <2>6
<1>5. ASSUME Flush
      PROVE  queued'[t] = 0 /\ stored'[t] = stored[t] + queued[t]
             /\ UNCHANGED <<now, meter, spent>>
  BY <1>5 DEF Flush, NoSpend
<1>6. ASSUME PruneRetention
      PROVE  /\ t > now - MeterSpan => stored'[t] = stored[t]
             /\ UNCHANGED <<now, meter, queued, spent>>
  BY <1>6, <1>0 DEF PruneRetention
<1>7. ASSUME Summary
      PROVE  /\ t > now - MeterSpan => meter'[t] = meter[t]
             /\ UNCHANGED <<now, queued, stored, spent>>
  BY <1>7, <1>0, PruningKeepsYoung DEF Summary
<1>8. ASSUME Reset
      PROVE  meter'[t] = 0 /\ queued'[t] = 0 /\ stored'[t] = 0 /\ spent'[t] = 0
  BY <1>8 DEF Reset, NoSpend
<1>9. ASSUME NEW kept \in SUBSET Clients, Restart(kept)
      PROVE  /\ t > now - MeterSpan => meter'[t] = stored[t]
             /\ spent'[t] = spent[t] - queued[t] /\ queued'[t] = 0 /\ stored' = stored
             /\ now' = now
  BY <1>9 DEF Restart, Rebuilt, NoSpend
<1>10. ASSUME Tick
       PROVE  now' = now + 1 /\ UNCHANGED ledger
  BY <1>10 DEF Tick
<1>. DEFINE Kept == /\ queued'[t] <= spent'[t]
                    /\ t > now' - MeterSpan => meter'[t] = spent'[t]
                                             /\ stored'[t] + queued'[t] = spent'[t]
<1>11. ASSUME Admission PROVE Kept
  <2>1. ASSUME NEW c \in Clients, CheckWindow(c) PROVE Kept
    BY <2>1, <1>3, <1>a DEF CheckWindow
  <2>2. ASSUME NEW c \in Clients, NEW paid \in BOOLEAN, Arrive(c, paid) PROVE Kept
    BY <2>2, <1>1, <1>b
  <2>3. ASSUME NEW c \in Clients,
               ReadCycles(c) \/ Decide(c) \/ EnsureCycles(c) \/ InstallCycles(c) \/ EnsureFails(c)
        PROVE  Kept
    BY <2>3, <1>2, <1>b
  <2>. HIDE DEF Kept
  <2>. QED BY <1>11, <2>1, <2>2, <2>3 DEF Admission
<1>12. ASSUME Bookkeeping PROVE Kept
  <2>1. CASE Flush
    BY <2>1, <1>5, <1>a, <1>0
  <2>2. CASE PruneRetention
    BY <2>2, <1>6, <1>a
  <2>3. CASE Summary
    BY <2>3, <1>7, <1>a
  <2>4. CASE Reset
    BY <2>4, <1>8
  <2>5. ASSUME NEW kept \in SUBSET Clients, Restart(kept) PROVE Kept
    BY <2>5, <1>9, <1>a, <1>0
  <2>6. ASSUME NEW c \in Clients, NEW cost \in Costs \cup {0}, Settle(c, cost) PROVE Kept
    BY <2>6, <1>4
  <2>. HIDE DEF Kept
  <2>. QED BY <1>12, <2>1, <2>2, <2>3, <2>4, <2>5, <2>6 DEF Bookkeeping
<1>13. ASSUME Tick PROVE Kept
  BY <1>13, <1>10, <1>a, <1>0
<1>14. ASSUME UNCHANGED vars PROVE Kept
  BY <1>14, <1>b DEF vars
<1>. HIDE DEF Kept
<1>15. Kept
  BY <1>11, <1>12, <1>13, <1>14 DEF Next
<1>. QED BY <1>15 DEF Kept

\* An active cycle lies within the meter's span.
LEMMA ActiveIsYoung ==
  ASSUME TypeOK, YoungSpendKept
  PROVE  SpendCounted
<1>. SUFFICES ASSUME NEW w \in Windows, Active(cycles[w], w, now),
                     NEW t \in InCycle(cycles[w], w)
              PROVE  meter[t] = spent[t]
  BY DEF SpendCounted
<1>1. /\ now \in Nat /\ cycles[w] \in Nat /\ t \in Times /\ t \in Nat
      /\ Width[w] \in Nat /\ MeterSpan \in Nat /\ Width[w] <= MeterSpan
  BY WindowAssumption, BoundAssumption DEF TypeOK, Starts, Times, InCycle
<1>2. cycles[w] <= t /\ now < cycles[w] + Width[w]
  BY DEF Active, InCycle
<1>3. t > now - MeterSpan
  BY <1>1, <1>2
<1>. QED BY <1>1, <1>3 DEF YoungSpendKept

-----------------------------------------------------------------------------
(* Cycles in SQLite and in memory.                                          *)

\* What SQLite knows of the cycles an admitted request waits in only grows
\* newer: a step that lets a cycle go either ended after the request arrived ...
LEMMA NewerIsActive ==
  ASSUME NEW w \in Windows, NEW old \in Nat, NEW new \in Nat, NEW at \in Nat,
         Active(old, w, at), new = old \/ new >= old + Width[w]
  PROVE  Active(new, w, at)
BY WindowAssumption DEF Active

\* Every action keeps the two copies of the cycles in step.
LEMMA WritingStep ==
  ASSUME TypeOK, WritingCycles, AdmittedCycleDurable, [Next]_vars
  PROVE  WritingCycles' /\ AdmittedCycleDurable'
<1>. USE DEF bounds
<1>a. /\ cycles \in [Windows -> Nat] /\ rows \in [Windows -> Nat]
      /\ \A w \in Windows : Width[w] \in Nat \ {0}
      /\ \A c \in Clients : client[c].pc # "idle" => client[c].at \in Nat \ {0}
  BY WindowAssumption, BoundAssumption, SMTT(30) DEF TypeOK, Starts, Times
<1>b. IdleClient.pc = "idle"
  BY DEF IdleClient
\* A step that leaves both copies alone and puts no client into one of the two states.
<1>c. ASSUME cycles' = cycles, rows' = rows,
             \A d \in Clients :
               /\ client'[d].pc = "persisted" <=> client[d].pc = "persisted"
               /\ client'[d].pc = "sent" => client[d].pc = "sent"
               /\ client'[d].pc \in {"persisted", "sent"} => client'[d].at = client[d].at
      PROVE  WritingCycles' /\ AdmittedCycleDurable'
  BY <1>c DEF WritingCycles, AdmittedCycleDurable, CyclesFree, Active
<1>1. ASSUME NEW c \in Clients, NEW paid \in BOOLEAN, Arrive(c, paid)
      PROVE  WritingCycles' /\ AdmittedCycleDurable'
  <2>1. client'[c].pc = "read" /\ \A d \in Clients \ {c} : client'[d] = client[d]
    BY <1>1 DEF Arrive, TypeOK
  <2>. QED BY <1>1, <2>1, <1>c DEF Arrive
<1>2. ASSUME NEW c \in Clients, ReadCycles(c)
      PROVE  WritingCycles' /\ AdmittedCycleDurable'
  <2>1. client'[c].pc \in {"check", "ensure"} /\ \A d \in Clients \ {c} : client'[d] = client[d]
    BY <1>2 DEF ReadCycles, TypeOK, Client
  <2>. QED BY <1>2, <2>1, <1>c DEF ReadCycles
<1>3. ASSUME NEW c \in Clients, CheckWindow(c)
      PROVE  WritingCycles' /\ AdmittedCycleDurable'
  <2>1. client'[c].pc = "check" /\ \A d \in Clients \ {c} : client'[d] = client[d]
    BY <1>3 DEF CheckWindow, Checked, TypeOK, Client
  <2>. QED BY <1>3, <2>1, <1>c DEF CheckWindow
<1>4. ASSUME NEW c \in Clients, Decide(c)
      PROVE  WritingCycles' /\ AdmittedCycleDurable'
  <2>1. client'[c].pc \in {"idle", "ensure"} /\ \A d \in Clients \ {c} : client'[d] = client[d]
    BY <1>4, <1>b DEF Decide, To, TypeOK, Client
  <2>. QED BY <1>4, <2>1, <1>c DEF Decide
<1>5. ASSUME NEW c \in Clients, EnsureCycles(c)
      PROVE  WritingCycles' /\ AdmittedCycleDurable'
  <2>0. client[c].pc = "ensure" /\ CyclesFree /\ rows = cycles /\ cycles' = cycles
    BY <1>5 DEF EnsureCycles, WritingCycles
  <2>1. \A w \in Windows : Active(Started(c)[w], w, client[c].at)
    BY <2>0, StartedCycles
  <2>2. CASE Started(c) = cycles /\ To(c, "sent") /\ rows' = rows
    <3>1. client'[c].pc = "sent" /\ client'[c].at = client[c].at
          /\ \A d \in Clients \ {c} : client'[d] = client[d]
      BY <2>2 DEF To, TypeOK, Client
    <3>2. \A w \in Windows : Active(rows'[w], w, client'[c].at)
      BY <2>0, <2>1, <2>2, <3>1
    <3>. QED BY <2>0, <2>2, <3>1, <3>2 DEF WritingCycles, AdmittedCycleDurable, CyclesFree, Active
  <2>3. CASE rows' = Started(c) /\ To(c, "persisted")
    <3>1. client'[c].pc = "persisted" /\ client'[c].at = client[c].at
          /\ \A d \in Clients \ {c} : client'[d] = client[d] /\ client'[d].pc # "persisted"
      BY <2>0, <2>3 DEF To, TypeOK, Client, CyclesFree
    <3>2. \A w \in Windows : /\ Active(rows'[w], w, client'[c].at)
                             /\ rows'[w] \in Nat
                             /\ \/ rows'[w] = cycles[w]
                                \/ cycles[w] = 0
                                \/ rows'[w] >= cycles[w] + Width[w]
      BY <2>0, <2>3, <3>1, StartedCycles, BoundAssumption DEF Starts
    <3>3. WritingCycles'
      BY <2>0, <3>1, <3>2 DEF WritingCycles, CyclesFree, Active
    <3>4. ASSUME NEW d \in Clients, client'[d].pc = "sent", NEW w \in Windows
          PROVE  Active(rows'[w], w, client'[d].at)
      <4>1. client'[d] = client[d] /\ client[d].pc = "sent"
        BY <3>1, <3>4
      <4>2. Active(cycles[w], w, client[d].at) /\ client[d].at \in Nat
        BY <4>1, <2>0, <1>a DEF AdmittedCycleDurable
      <4>3. cycles[w] # 0
        BY <4>2 DEF Active
      <4>. QED BY <4>1, <4>2, <4>3, <3>2, <1>a, NewerIsActive
    <3>. QED BY <3>3, <3>4 DEF AdmittedCycleDurable, Active
  <2>. QED BY <1>5, <2>2, <2>3 DEF EnsureCycles
<1>6. ASSUME NEW c \in Clients, InstallCycles(c)
      PROVE  WritingCycles' /\ AdmittedCycleDurable'
  <2>1. client'[c].pc = "sent" /\ client'[c].at = client[c].at /\ client[c].pc = "persisted"
        /\ \A d \in Clients \ {c} : client'[d] = client[d]
    BY <1>6 DEF InstallCycles, To, TypeOK, Client
  <2>2. \A d \in Clients : client'[d].pc # "persisted"
    BY <2>1 DEF WritingCycles
  <2>3. rows' = rows /\ cycles' = rows
    BY <1>6 DEF InstallCycles
  <2>4. \A w \in Windows : Active(rows[w], w, client[c].at)
    BY <2>1 DEF WritingCycles
  <2>. QED BY <2>1, <2>2, <2>3, <2>4 DEF WritingCycles, AdmittedCycleDurable, CyclesFree, Active
<1>7. ASSUME NEW c \in Clients, EnsureFails(c)
      PROVE  WritingCycles' /\ AdmittedCycleDurable'
  <2>1. client'[c].pc = "idle" /\ client[c].pc = "ensure"
        /\ \A d \in Clients \ {c} : client'[d] = client[d]
    BY <1>7, <1>b DEF EnsureFails, TypeOK, Client
  <2>. QED BY <1>7, <2>1, <1>c DEF EnsureFails
<1>8. ASSUME NEW c \in Clients, NEW cost \in Costs \cup {0}, Settle(c, cost)
      PROVE  WritingCycles' /\ AdmittedCycleDurable'
  <2>1. client'[c].pc = "idle" /\ client[c].pc = "sent"
        /\ \A d \in Clients \ {c} : client'[d] = client[d]
    BY <1>8, <1>b DEF Settle, TypeOK, Client
  <2>. QED BY <1>8, <2>1, <1>c DEF Settle
<1>9. ASSUME Flush \/ PruneRetention \/ Summary \/ Tick \/ UNCHANGED vars
      PROVE  WritingCycles' /\ AdmittedCycleDurable'
  <2>1. cycles' = cycles /\ rows' = rows /\ client' = client
    BY <1>9 DEF Flush, PruneRetention, Summary, Tick, vars
  <2>. QED BY <2>1, <1>c
<1>10. CASE Reset
  <2>1. \A d \in Clients : client'[d].pc \in {"idle", "read"}
    BY <1>10, <1>b DEF Reset
  <2>. QED BY <1>10, <2>1 DEF Reset, WritingCycles, AdmittedCycleDurable, CyclesFree
<1>11. ASSUME NEW kept \in SUBSET Clients, Restart(kept)
       PROVE  WritingCycles' /\ AdmittedCycleDurable'
  <2>1. /\ cycles' = rows /\ rows' = rows
        /\ \A d \in Clients : \/ client'[d] = client[d] /\ client[d].pc = "sent"
                              \/ client'[d].pc = "idle"
    BY <1>11, <1>b DEF Restart
  <2>. QED BY <2>1 DEF WritingCycles, AdmittedCycleDurable, CyclesFree, Active
<1>. QED
  BY <1>1, <1>2, <1>3, <1>4, <1>5, <1>6, <1>7, <1>8, <1>9, <1>10, <1>11
  DEF Next, Admission, Bookkeeping

-----------------------------------------------------------------------------
(* The theorems.                                                            *)

\* The invariant holds initially ...
LEMMA InvInit == Init => IInv
<1>. SUFFICES ASSUME Init PROVE IInv
  OBVIOUS
<1>1. YoungSpendKept
  BY DEF Init, YoungSpendKept, NoSpend
<1>2. WritingCycles /\ AdmittedCycleDurable
  BY DEF Init, WritingCycles, AdmittedCycleDurable, IdleClient, CyclesFree
<1>. QED BY <1>1, <1>2, TypeInit DEF IInv

\* ... and is kept by every step.
LEMMA InvStep == IInv /\ [Next]_vars => IInv'
BY TypeStep, YoungStep, WritingStep DEF IInv

\* The inductive invariant of the budget cycles.
THEOREM Invariant == Spec => []IInv
BY InvInit, InvStep, PTL DEF Spec

\* Types.
THEOREM TypeCorrect == Spec => []TypeOK
<1>1. IInv => TypeOK
  BY DEF IInv
<1>. QED BY <1>1, Invariant, PTL

\* No settled charge of an active cycle is missing from what the budget gate
\* adds up, whatever was pruned, swept or rebuilt meanwhile.
THEOREM ActiveSpendCounted == Spec => []SpendCounted
<1>1. IInv => SpendCounted
  BY ActiveIsYoung DEF IInv
<1>. QED BY <1>1, Invariant, PTL

\* A request that was admitted has its cycles in SQLite.
THEOREM CycleSurvivesCrash == Spec => []AdmittedCycleDurable
<1>1. IInv => AdmittedCycleDurable
  BY DEF IInv
<1>. QED BY <1>1, Invariant, PTL

\* No interleaving of admissions, failed writes and crashes moves the boundary
\* of a cycle before its width has passed.
THEOREM BoundaryNeverMovesEarly == Spec => BoundaryStable
<1>. DEFINE Step(w) == cycles[w] # 0 /\ cycles'[w] # cycles[w] =>
                         \/ cycles'[w] >= cycles[w] + Width[w]
                         \/ resets' # resets
<1>1. ASSUME IInv, [Next]_vars, NEW w \in Windows
      PROVE  Step(w)
  <2>. USE DEF bounds
  <2>1. ASSUME NEW c \in Clients, InstallCycles(c) PROVE Step(w)
    BY <1>1, <2>1 DEF InstallCycles, IInv, WritingCycles
  <2>2. CASE Reset
    BY <1>1, <2>2 DEF Reset, IInv, TypeOK
  <2>3. ASSUME NEW kept \in SUBSET Clients, Restart(kept) PROVE Step(w)
    <3>1. rows[w] = cycles[w] \/ cycles[w] = 0 \/ rows[w] >= cycles[w] + Width[w]
      BY <1>1 DEF IInv, WritingCycles, CyclesFree
    <3>. QED BY <2>3, <3>1 DEF Restart
  <2>4. ASSUME cycles' = cycles PROVE Step(w)
    BY <2>4
  <2>5. CASE Admission
    BY <2>5, <2>1, <2>4
    DEF Admission, Arrive, ReadCycles, CheckWindow, Decide, EnsureCycles, EnsureFails
  <2>6. CASE Bookkeeping
    BY <2>6, <2>2, <2>3, <2>4 DEF Bookkeeping, Settle, Flush, PruneRetention, Summary
  <2>. QED BY <1>1, <2>4, <2>5, <2>6 DEF Next, Tick, vars
<1>2. IInv /\ [Next]_vars => \A w \in Windows : Step(w)
  BY <1>1
<1>. QED BY <1>2, Invariant, PTL DEF Spec, BoundaryStable

-----------------------------------------------------------------------------
(* How far a cycle can pass its budget.                                     *)

\* An admitted request's cycles are active for it in memory as well ...
SentInCycle ==
  \A c \in Clients : client[c].pc = "sent" =>
    \A w \in Windows : Active(cycles[w], w, client[c].at)

\* ... so whatever was charged lies before the end of the latest cycle, and a
\* new cycle starts without a charge.
ChargesHaveCycle ==
  \A t \in Times : spent[t] > 0 =>
    \A w \in Windows : Active(cycles[w], w, t) /\ Active(rows[w], w, t)

\* The requests that may still charge the cycle of w although it is exhausted:
\* they are past its check, or compare with a cycle that is no longer the Key's.
Coming(w) ==
  {c \in Clients :
     /\ client[c].paid
     /\ \/ client[c].pc \in {"ensure", "persisted", "sent"}
        \/ /\ client[c].pc = "check" /\ ~client[c].cooling
           /\ client[c].window > w \/ client[c].cycle[w] # cycles[w]}

\* A request's check begins with the first window.
FirstWindow == \A c \in Clients : client[c].pc = "read" => client[c].window = 1

\* What a cycle may hold while those requests are still to come.
Room(w, most) == Budget[w] - 1 + most * Cardinality(Clients \ Coming(w))

Headroom(w) ==
  Active(cycles[w], w, now) /\ Budget[w] > 0 =>
    \A most \in Costs : (\A cost \in Costs : cost <= most) =>
      SumIn(spent, cycles[w], w) <= Room(w, most)

\* What makes OvershootBounded inductive.
Overshoot == SentInCycle /\ ChargesHaveCycle /\ FirstWindow /\ \A w \in Windows : Headroom(w)

\* Every action keeps the charges within the cycles.
LEMMA ChargesStep ==
  ASSUME IInv, SentInCycle, ChargesHaveCycle, [Next]_vars
  PROVE  SentInCycle' /\ ChargesHaveCycle'
<1>. USE DEF bounds, ledger
<1>a. /\ cycles \in [Windows -> Nat] /\ rows \in [Windows -> Nat]
      /\ \A w \in Windows : Width[w] \in Nat \ {0}
      /\ \A c \in Clients : client[c].pc # "idle" => client[c].at \in Times
      /\ \A t \in Times : t \in Nat /\ spent[t] \in Nat /\ queued[t] \in Nat
  BY WindowAssumption, BoundAssumption DEF IInv, TypeOK, Starts, Times
<1>b. IdleClient.pc = "idle"
  BY DEF IdleClient
<1>t. TypeOK
  BY DEF IInv
\* A step that keeps the cycles and admits nobody.
<1>c. ASSUME cycles' = cycles, rows' = rows, \A t \in Times : spent'[t] > 0 => spent[t] > 0,
             \A d \in Clients : client'[d].pc = "sent" =>
               client[d].pc = "sent" /\ client'[d].at = client[d].at
      PROVE  SentInCycle' /\ ChargesHaveCycle'
  BY <1>c DEF SentInCycle, ChargesHaveCycle, Active
<1>1. ASSUME NEW c \in Clients, client'[c].pc # "sent", cycles' = cycles, rows' = rows,
             spent' = spent, \A d \in Clients \ {c} : client'[d] = client[d]
      PROVE  SentInCycle' /\ ChargesHaveCycle'
  BY <1>1, <1>c
<1>2. ASSUME NEW c \in Clients, NEW paid \in BOOLEAN, Arrive(c, paid)
      PROVE  SentInCycle' /\ ChargesHaveCycle'
  <2>1. client'[c].pc = "read" /\ \A d \in Clients \ {c} : client'[d] = client[d]
    BY <1>2, <1>t DEF Arrive, TypeOK
  <2>. QED BY <1>2, <2>1, <1>1 DEF Arrive
<1>3. ASSUME NEW c \in Clients, ReadCycles(c)
      PROVE  SentInCycle' /\ ChargesHaveCycle'
  <2>1. client'[c].pc \in {"check", "ensure"} /\ \A d \in Clients \ {c} : client'[d] = client[d]
    BY <1>3, <1>t DEF ReadCycles, TypeOK, Client
  <2>. QED BY <1>3, <2>1, <1>1 DEF ReadCycles
<1>4. ASSUME NEW c \in Clients, CheckWindow(c)
      PROVE  SentInCycle' /\ ChargesHaveCycle'
  <2>1. client'[c].pc = "check" /\ \A d \in Clients \ {c} : client'[d] = client[d]
    BY <1>4, <1>t DEF CheckWindow, Checked, TypeOK, Client
  <2>. QED BY <1>4, <2>1, <1>1 DEF CheckWindow
<1>5. ASSUME NEW c \in Clients, Decide(c)
      PROVE  SentInCycle' /\ ChargesHaveCycle'
  <2>1. client'[c].pc \in {"idle", "ensure"} /\ \A d \in Clients \ {c} : client'[d] = client[d]
    BY <1>5, <1>b, <1>t DEF Decide, To, TypeOK, Client
  <2>. QED BY <1>5, <2>1, <1>1 DEF Decide
<1>6. ASSUME NEW c \in Clients, EnsureFails(c)
      PROVE  SentInCycle' /\ ChargesHaveCycle'
  <2>1. client'[c].pc = "idle" /\ \A d \in Clients \ {c} : client'[d] = client[d]
    BY <1>6, <1>b, <1>t DEF EnsureFails, TypeOK, Client
  <2>. QED BY <1>6, <2>1, <1>1 DEF EnsureFails
<1>7. ASSUME NEW c \in Clients, EnsureCycles(c)
      PROVE  SentInCycle' /\ ChargesHaveCycle'
  <2>0. client[c].pc = "ensure" /\ rows = cycles /\ cycles' = cycles /\ spent' = spent
    BY <1>7 DEF EnsureCycles, IInv, WritingCycles
  <2>1. /\ Started(c) \in [Windows -> Nat]
        /\ \A w \in Windows :
             /\ Active(Started(c)[w], w, client[c].at)
             /\ \/ Started(c)[w] = cycles[w]
                \/ cycles[w] = 0
                \/ Started(c)[w] >= cycles[w] + Width[w]
    BY <2>0, <1>t, StartedCycles, BoundAssumption DEF Starts
  <2>2. CASE Started(c) = cycles /\ To(c, "sent") /\ rows' = rows
    <3>1. client'[c].pc = "sent" /\ client'[c].at = client[c].at
          /\ \A d \in Clients \ {c} : client'[d] = client[d]
      BY <2>2, <1>t DEF To, TypeOK, Client
    <3>2. SentInCycle'
      BY <2>0, <2>1, <2>2, <3>1 DEF SentInCycle, Active
    <3>. QED BY <2>0, <2>2, <3>2 DEF ChargesHaveCycle, Active
  <2>3. CASE rows' = Started(c) /\ To(c, "persisted")
    <3>1. client'[c].pc = "persisted" /\ \A d \in Clients \ {c} : client'[d] = client[d]
      BY <2>3, <1>t DEF To, TypeOK, Client
    <3>2. SentInCycle'
      BY <2>0, <3>1 DEF SentInCycle, Active
    <3>3. ASSUME NEW t \in Times, spent'[t] > 0, NEW w \in Windows
          PROVE  Active(cycles[w], w, t) /\ Active(rows'[w], w, t)
      <4>1. Active(cycles[w], w, t)
        BY <2>0, <3>3 DEF ChargesHaveCycle
      <4>2. cycles[w] # 0
        BY <4>1 DEF Active
      <4>. QED BY <1>a, <2>1, <2>3, <4>1, <4>2, NewerIsActive
    <3>. QED BY <2>0, <3>2, <3>3 DEF ChargesHaveCycle, Active
  <2>. QED BY <1>7, <2>2, <2>3 DEF EnsureCycles
<1>8. ASSUME NEW c \in Clients, InstallCycles(c)
      PROVE  SentInCycle' /\ ChargesHaveCycle'
  <2>1. client'[c].pc = "sent" /\ client'[c].at = client[c].at /\ client[c].pc = "persisted"
        /\ \A d \in Clients \ {c} : client'[d] = client[d]
    BY <1>8, <1>t DEF InstallCycles, To, TypeOK, Client
  <2>2. rows' = rows /\ cycles' = rows /\ spent' = spent
    BY <1>8 DEF InstallCycles
  <2>3. \A w \in Windows : Active(rows[w], w, client[c].at)
    BY <2>1 DEF IInv, WritingCycles
  <2>. QED BY <2>1, <2>2, <2>3 DEF SentInCycle, ChargesHaveCycle, IInv, AdmittedCycleDurable, Active
<1>9. ASSUME NEW c \in Clients, NEW cost \in Costs \cup {0}, Settle(c, cost)
      PROVE  SentInCycle' /\ ChargesHaveCycle'
  <2>1. /\ client'[c].pc = "idle" /\ client[c].pc = "sent" /\ cycles' = cycles /\ rows' = rows
        /\ \A d \in Clients \ {c} : client'[d] = client[d]
    BY <1>9, <1>b, <1>t DEF Settle, TypeOK, Client
  <2>2. \A t \in Times : t # client[c].at => spent'[t] = spent[t]
    BY <1>9, <1>t DEF Settle, TypeOK
  <2>3. \A w \in Windows : Active(cycles[w], w, client[c].at) /\ Active(rows[w], w, client[c].at)
    BY <2>1 DEF SentInCycle, IInv, AdmittedCycleDurable
  <2>4. SentInCycle'
    BY <2>1 DEF SentInCycle, Active
  <2>. QED BY <2>1, <2>2, <2>3, <2>4 DEF ChargesHaveCycle, Active
<1>10. ASSUME Flush \/ PruneRetention \/ Summary \/ Tick \/ UNCHANGED vars
       PROVE  SentInCycle' /\ ChargesHaveCycle'
  <2>1. cycles' = cycles /\ rows' = rows /\ client' = client /\ spent' = spent
    BY <1>10 DEF Flush, PruneRetention, Summary, Tick, vars
  <2>. QED BY <2>1, <1>c
<1>11. CASE Reset
  <2>1. \A d \in Clients : client'[d].pc # "sent"
    BY <1>11, <1>b DEF Reset
  <2>2. \A t \in Times : ~(spent'[t] > 0)
    BY <1>11 DEF Reset, NoSpend
  <2>. QED BY <2>1, <2>2 DEF SentInCycle, ChargesHaveCycle
<1>12. ASSUME NEW kept \in SUBSET Clients, Restart(kept)
       PROVE  SentInCycle' /\ ChargesHaveCycle'
  <2>1. /\ cycles' = rows /\ rows' = rows
        /\ \A d \in Clients : \/ client'[d] = client[d] /\ client[d].pc = "sent"
                              \/ client'[d].pc = "idle"
    BY <1>12, <1>b DEF Restart
  <2>2. \A t \in Times : spent'[t] > 0 => spent[t] > 0
    BY <1>12, <1>a DEF Restart
  <2>. QED BY <2>1, <2>2 DEF SentInCycle, ChargesHaveCycle, IInv, AdmittedCycleDurable, Active
<1>. QED
  BY <1>2, <1>3, <1>4, <1>5, <1>6, <1>7, <1>8, <1>9, <1>10, <1>11, <1>12
  DEF Next, Admission, Bookkeeping

\* The room is a number, and more of it is left the fewer requests are to come.
LEMMA RoomFacts ==
  ASSUME TypeOK, TypeOK', NEW w \in Windows, Budget[w] > 0, NEW most \in Nat
  PROVE  /\ Room(w, most) \in Nat /\ Budget[w] - 1 <= Room(w, most)
         /\ Budget[w] - 1 <= Room(w, most)'
         /\ Coming(w)' \subseteq Coming(w) => Room(w, most) <= Room(w, most)'
         /\ \A c \in Coming(w) : Coming(w)' = Coming(w) \ {c} =>
              Room(w, most)' = Room(w, most) + most
<1>. DEFINE old  == Clients \ Coming(w)
            new  == Clients \ Coming(w)'
            o    == Cardinality(old)
            n    == Cardinality(new)
<1>1. IsFiniteSet(old) /\ IsFiniteSet(new)
  BY ClientAssumption, FS_Subset
<1>2. o \in Nat /\ n \in Nat
  BY <1>1, FS_CardinalityType
<1>3. Budget[w] \in Nat \ {0}
  BY WindowAssumption
<1>4. \A k \in Nat : most * k \in Nat
  OBVIOUS
<1>5. /\ Room(w, most) = Budget[w] - 1 + most * o
      /\ Room(w, most)' = Budget[w] - 1 + most * n
  BY DEF Room
<1>6. ASSUME Coming(w)' \subseteq Coming(w)
      PROVE  Room(w, most) <= Room(w, most)'
  <2>1. old \subseteq new
    BY <1>6
  <2>2. o <= n
    BY <2>1, <1>1, FS_Subset
  <2>3. PICK k \in Nat : n = o + k
    <3>1. n - o \in Nat /\ n = o + (n - o)
      BY <1>2, <2>2
    <3>. QED BY <3>1
  <2>4. most * n = most * o + most * k
    BY <1>2, <2>3
  <2>5. most * o \in Nat /\ most * k \in Nat
    BY <1>2, <1>4
  <2>. HIDE DEF o, n
  <2>. QED BY <1>3, <1>5, <2>4, <2>5
<1>7. ASSUME NEW c \in Coming(w), Coming(w)' = Coming(w) \ {c}
      PROVE  Room(w, most)' = Room(w, most) + most
  <2>1. new = old \cup {c} /\ c \notin old
    BY <1>7 DEF Coming
  <2>2. n = o + 1
    BY <2>1, <1>1, FS_AddElement
  <2>3. most * n = most * o + most
    BY <1>2, <2>2
  <2>4. most * o \in Nat
    BY <1>2, <1>4
  <2>. HIDE DEF o, n
  <2>. QED BY <1>3, <1>5, <2>3, <2>4
<1>8. most * o \in Nat /\ most * n \in Nat
  BY <1>2, <1>4
<1>. HIDE DEF o, n
<1>9. Room(w, most) \in Nat /\ Budget[w] - 1 <= Room(w, most) /\ Budget[w] - 1 <= Room(w, most)'
  BY <1>3, <1>5, <1>8
<1>. QED BY <1>6, <1>7, <1>9

\* A ledger adds up to a number, and the times of a cycle are finitely many.
LEMMA SumInNat ==
  ASSUME NEW f \in [Times -> Nat], NEW start, NEW w
  PROVE  /\ IsFiniteSet(InCycle(start, w)) /\ NatsOn(f, InCycle(start, w))
         /\ SumIn(f, start, w) \in Nat
<1>1. IsFiniteSet(Times)
  BY BoundAssumption, FS_Interval DEF Times
<1>2. InCycle(start, w) \subseteq Times
  BY DEF InCycle
<1>3. IsFiniteSet(InCycle(start, w)) /\ NatsOn(f, InCycle(start, w))
  BY <1>1, <1>2, FS_Subset DEF NatsOn
<1>. QED BY <1>3, SumNat DEF SumIn

\* A step that starts no cycle, charges nothing and lets no request pass keeps
\* the room ...
LEMMA RoomKept ==
  ASSUME TypeOK, TypeOK', NEW w \in Windows, Headroom(w),
         cycles'[w] = cycles[w], now <= now', \A t \in Times : spent'[t] <= spent[t],
         Coming(w)' \subseteq Coming(w)
  PROVE  Headroom(w)'
<1>. SUFFICES ASSUME Active(cycles'[w], w, now'), Budget[w] > 0,
                     NEW most \in Costs, \A cost \in Costs : cost <= most
              PROVE  SumIn(spent', cycles'[w], w) <= Room(w, most)'
  BY DEF Headroom, SumIn, InCycle
<1>. DEFINE T    == InCycle(cycles[w], w)
            old  == SumFunctionOnSet(spent, T)
            new  == SumFunctionOnSet(spent', T)
            r    == Room(w, most)
            q    == Room(w, most)'
<1>1. spent \in [Times -> Nat] /\ spent' \in [Times -> Nat] /\ most \in Nat
  BY CostAssumption DEF TypeOK
<1>2. now \in Nat /\ now' \in Nat /\ cycles[w] \in Nat /\ Width[w] \in Nat
  BY WindowAssumption, BoundAssumption DEF TypeOK, Starts, Times
<1>3. Active(cycles[w], w, now)
  BY <1>2 DEF Active
<1>4. old <= r
  BY <1>3 DEF Headroom, SumIn
<1>5. new <= old
  <2>1. \A t \in T : spent'[t] <= spent[t]
    BY DEF InCycle
  <2>. QED BY <1>1, <2>1, SumInNat, SumAtMost
<1>6. old \in Nat /\ new \in Nat
  BY <1>1, SumInNat DEF SumIn
<1>7. r \in Nat /\ r <= q /\ q \in Int
  <2>1. TypeOK /\ TypeOK' /\ Budget[w] \in Nat
    BY WindowAssumption
  <2>2. r \in Nat /\ r <= q
    BY <1>1, RoomFacts
  <2>3. Cardinality(Clients \ Coming(w)') \in Nat
    BY ClientAssumption, FS_Subset, FS_CardinalityType
  <2>. QED BY <1>1, <2>1, <2>2, <2>3 DEF Room
<1>8. SumIn(spent', cycles'[w], w) = new
  BY DEF SumIn
<1>. HIDE DEF old, new, r, q
<1>9. new <= q
  BY <1>4, <1>5, <1>6, <1>7
<1>. QED BY <1>8, <1>9 DEF q

\* ... and so does one after which the cycle holds nothing.
LEMMA NewCycleHasRoom ==
  ASSUME TypeOK, TypeOK', NEW w \in Windows,
         \A t \in InCycle(cycles'[w], w) : spent'[t] = 0
  PROVE  Headroom(w)'
<1>. SUFFICES ASSUME Budget[w] > 0, NEW most \in Costs
              PROVE  SumIn(spent', cycles'[w], w) <= Room(w, most)'
  BY DEF Headroom, SumIn, InCycle
<1>1. spent' \in [Times -> Nat] /\ most \in Nat /\ Budget[w] \in Nat
  BY CostAssumption, WindowAssumption DEF TypeOK
<1>2. SumIn(spent', cycles'[w], w) = 0
  BY <1>1, SumInNat, SumZero DEF SumIn
<1>3. Budget[w] - 1 <= Room(w, most)'
  BY <1>1, RoomFacts
<1>4. Cardinality(Clients \ Coming(w)') \in Nat
  BY ClientAssumption, FS_Subset, FS_CardinalityType
<1>5. Room(w, most)' \in Int
  BY <1>1, <1>4 DEF Room
<1>. QED BY <1>1, <1>2, <1>3, <1>5

\* Every action keeps the order of the checks.
LEMMA FirstWindowStep ==
  ASSUME TypeOK, FirstWindow, [Next]_vars
  PROVE  FirstWindow'
<1>. USE DEF FirstWindow
<1>a. IdleClient.pc = "idle" /\ \A c \in Clients : client[c] \in Client
  BY DEF IdleClient, TypeOK
<1>1. ASSUME NEW c \in Clients, NEW paid \in BOOLEAN, Arrive(c, paid)
      PROVE  FirstWindow'
  BY <1>1 DEF Arrive, TypeOK
<1>2. ASSUME NEW c \in Clients, \A d \in Clients \ {c} : client'[d] = client[d],
             client'[c].pc # "read"
      PROVE  FirstWindow'
  BY <1>2
<1>3. ASSUME NEW c \in Clients,
             \/ ReadCycles(c) \/ CheckWindow(c) \/ Decide(c) \/ EnsureCycles(c)
             \/ InstallCycles(c) \/ EnsureFails(c)
      PROVE  FirstWindow'
  <2>1. \A d \in Clients \ {c} : client'[d] = client[d]
    BY <1>3, <1>a DEF ReadCycles, CheckWindow, Decide, EnsureCycles, InstallCycles, EnsureFails, To, TypeOK
  <2>2. client'[c].pc # "read"
    <3>1. CASE ReadCycles(c)
      <4>1. client'[c].pc \in {"check", "ensure"}
        BY <3>1, <1>a DEF ReadCycles, TypeOK, Client
      <4>. QED BY <4>1
    <3>4. CASE CheckWindow(c)
      <4>1. client'[c].pc = "check"
        BY <3>4, <1>a DEF CheckWindow, Checked, TypeOK, Client
      <4>. QED BY <4>1
    <3>2. CASE Decide(c) \/ EnsureCycles(c) \/ InstallCycles(c)
      BY <3>2, <1>a DEF Decide, EnsureCycles, InstallCycles, To, TypeOK, Client
    <3>3. CASE EnsureFails(c)
      BY <3>3, <1>a DEF EnsureFails, TypeOK
    <3>. QED BY <1>3, <3>1, <3>2, <3>3, <3>4
  <2>. QED BY <2>1, <2>2, <1>2
<1>4. ASSUME NEW c \in Clients, NEW cost \in Costs \cup {0}, Settle(c, cost)
      PROVE  FirstWindow'
  BY <1>4, <1>a DEF Settle, TypeOK
<1>5. CASE Flush \/ PruneRetention \/ Summary \/ Tick \/ UNCHANGED vars
  BY <1>5 DEF Flush, PruneRetention, Summary, Tick, vars
<1>6. CASE Reset
  BY <1>6, <1>a DEF Reset
<1>7. ASSUME NEW kept \in SUBSET Clients, Restart(kept)
      PROVE  FirstWindow'
  BY <1>7, <1>a DEF Restart
<1>. QED BY <1>1, <1>3, <1>4, <1>5, <1>6, <1>7 DEF Next, Admission, Bookkeeping

\* A request that passes the check of an active cycle found room below the budget.
LEMMA PassedBelowBudget ==
  ASSUME IInv, NEW c \in Clients, NEW w \in Windows, client[c].pc = "check",
         client[c].cycle[w] = cycles[w], Active(cycles[w], w, now), Budget[w] > 0, ~Cooling(c, w)
  PROVE  SumIn(spent, cycles[w], w) <= Budget[w] - 1
<1>. DEFINE T == InCycle(cycles[w], w)
            m == Pruned(meter, client[c].at)
<1>1. TypeOK /\ SpendCounted
  BY ActiveIsYoung DEF IInv
<1>2. /\ now \in Nat /\ cycles[w] \in Nat /\ Width[w] \in Nat /\ Budget[w] \in Nat
      /\ MeterSpan \in Nat /\ Width[w] <= MeterSpan
      /\ client[c].at \in Nat /\ client[c].at <= now
      /\ meter \in [Times -> Nat] /\ spent \in [Times -> Nat]
  <2>1. client[c].at \in 1..now /\ now \in Nat
    BY <1>1, BoundAssumption DEF TypeOK, Times
  <2>. QED BY <1>1, <2>1, WindowAssumption, BoundAssumption DEF TypeOK, Starts
<1>3. Active(client[c].cycle[w], w, client[c].at)
  BY <1>2 DEF Active
<1>4. ASSUME NEW t \in T
      PROVE  m[t] = spent[t]
  <2>1. t \in Times /\ t \in Nat /\ t > now - MeterSpan
    BY <1>2, <1>4, BoundAssumption, SMTT(30) DEF InCycle, Active, Times
  <2>2. m[t] = meter[t]
    BY <1>2, <2>1, PruningKeepsYoung
  <2>3. meter[t] = spent[t]
    BY <1>1, <1>4 DEF SpendCounted
  <2>. QED BY <2>2, <2>3
<1>5. IsFiniteSet(T) /\ NatsOn(spent, T) /\ SumIn(spent, cycles[w], w) \in Nat
  BY <1>2, SumInNat
<1>6. IntsOn(spent, T)
  BY <1>5 DEF NatsOn, IntsOn
<1>. HIDE DEF m, T
<1>7. SumFunctionOnSet(m, T) = SumFunctionOnSet(spent, T)
  BY <1>4, <1>5, <1>6, SumEqual
<1>8. SumIn(m, client[c].cycle[w], w) = SumIn(spent, cycles[w], w)
  BY <1>7 DEF SumIn, T
<1>9. ~(SumIn(spent, cycles[w], w) >= Budget[w])
  BY <1>3, <1>8 DEF Cooling, m
<1>. QED BY <1>2, <1>5, <1>9

\* Every action keeps the room.
LEMMA HeadroomStep ==
  ASSUME IInv, IInv', Overshoot, [Next]_vars, NEW w \in Windows
  PROVE  Headroom(w)'
<1>. USE DEF bounds, ledger
<1>a. TypeOK /\ TypeOK' /\ now \in Nat /\ now' \in Nat /\ Headroom(w)
  <2>1. TypeOK /\ TypeOK' /\ Headroom(w)
    BY DEF IInv, Overshoot
  <2>2. Times \subseteq Nat
    BY BoundAssumption DEF Times
  <2>. QED BY <2>1, <2>2 DEF TypeOK
<1>b. IdleClient.pc = "idle" /\ w \in Nat \ {0}
  BY WindowAssumption DEF IdleClient, Windows
<1>n. \A t \in Times : spent[t] \in Nat /\ queued[t] \in Nat
  BY <1>a DEF TypeOK
\* A step of one client that starts no cycle and charges nothing.
<1>c. ASSUME NEW c \in Clients, c \in Coming(w)' => c \in Coming(w),
             \A d \in Clients \ {c} : client'[d] = client[d],
             cycles' = cycles, now' = now, spent' = spent
      PROVE  Headroom(w)'
  <2>1. Coming(w)' \subseteq Coming(w)
    BY <1>c DEF Coming
  <2>. QED BY <1>a, <1>c, <1>n, <2>1, RoomKept
<1>1. ASSUME NEW c \in Clients, NEW paid \in BOOLEAN, Arrive(c, paid)
      PROVE  Headroom(w)'
  <2>1. client'[c].pc = "read" /\ \A d \in Clients \ {c} : client'[d] = client[d]
    BY <1>1, <1>a DEF Arrive, TypeOK
  <2>2. c \notin Coming(w)'
    BY <2>1 DEF Coming
  <2>. QED BY <1>1, <2>1, <2>2, <1>c DEF Arrive
<1>2. ASSUME NEW c \in Clients, ReadCycles(c)
      PROVE  Headroom(w)'
  <2>1. /\ client'[c].paid => client'[c].pc = "check"
        /\ client'[c].window = client[c].window
        /\ client'[c].cycle = cycles /\ cycles' = cycles
        /\ \A d \in Clients \ {c} : client'[d] = client[d]
    BY <1>2, <1>a DEF ReadCycles, TypeOK, Client
  <2>2. ~(client'[c].window > w)
    BY <1>2, <1>b, <2>1 DEF ReadCycles, Overshoot, FirstWindow
  <2>3. c \notin Coming(w)'
    BY <2>1, <2>2 DEF Coming
  <2>. QED BY <1>2, <2>1, <2>3, <1>c DEF ReadCycles
<1>3. ASSUME NEW c \in Clients, CheckWindow(c)
      PROVE  Headroom(w)'
  <2>. DEFINE v == client[c].window
  <2>1. /\ client[c].pc = "check" /\ client'[c].pc = "check" /\ v \in Windows /\ v \in Nat
        /\ client'[c].window = v + 1 /\ client'[c].paid = client[c].paid
        /\ client'[c].cycle = client[c].cycle
        /\ client'[c].cooling = IF Cooling(c, v) THEN TRUE ELSE client[c].cooling
        /\ \A d \in Clients \ {c} : client'[d] = client[d]
    BY <1>3, <1>a DEF CheckWindow, Checked, TypeOK, Client, Windows
  <2>2. cycles' = cycles /\ now' = now /\ spent' = spent
    BY <1>3 DEF CheckWindow
  <2>. HIDE DEF v
  <2>3. CASE c \in Coming(w)' => c \in Coming(w)
    BY <1>c, <2>1, <2>2, <2>3
  <2>4. CASE c \in Coming(w)' /\ c \notin Coming(w)
    <3>1. ~client'[c].cooling /\ client[c].cycle[w] = cycles[w] /\ ~(v > w) /\ v + 1 > w
      BY <2>1, <2>2, <2>4 DEF Coming, v
    <3>2. v = w /\ ~Cooling(c, w)
      BY <1>b, <2>1, <3>1
    <3>. SUFFICES ASSUME Active(cycles[w], w, now), Budget[w] > 0,
                         NEW most \in Costs, \A cost \in Costs : cost <= most
                  PROVE  SumIn(spent, cycles[w], w) <= Room(w, most)'
      BY <2>2 DEF Headroom, SumIn, InCycle
    <3>3. SumIn(spent, cycles[w], w) <= Budget[w] - 1
      BY <2>1, <3>1, <3>2, PassedBelowBudget
    <3>4. SumIn(spent, cycles[w], w) \in Nat /\ Budget[w] \in Nat /\ most \in Nat
      BY <1>a, SumInNat, WindowAssumption, CostAssumption DEF TypeOK
    <3>5. Budget[w] - 1 <= Room(w, most)'
      BY <1>a, <3>4, RoomFacts
    <3>6. Cardinality(Clients \ Coming(w)') \in Nat
      BY ClientAssumption, FS_Subset, FS_CardinalityType
    <3>7. Room(w, most)' \in Int
      BY <3>4, <3>6 DEF Room
    <3>. QED BY <3>3, <3>4, <3>5, <3>7
  <2>. QED BY <2>3, <2>4
<1>4. ASSUME NEW c \in Clients, Decide(c)
      PROVE  Headroom(w)'
  <2>1. \A d \in Clients \ {c} : client'[d] = client[d]
    BY <1>4, <1>a DEF Decide, To, TypeOK
  <2>2. CASE client' = [client EXCEPT ![c] = IdleClient]
    <3>1. c \notin Coming(w)'
      BY <1>a, <1>b, <2>2 DEF Coming, TypeOK
    <3>. QED BY <1>4, <2>1, <3>1, <1>c DEF Decide
  <2>3. CASE ~client[c].cooling /\ To(c, "ensure")
    <3>1. client'[c].paid = client[c].paid
      BY <1>a, <2>3 DEF To, TypeOK, Client
    <3>2. client[c].window > w
      BY <1>4, <1>b, WindowAssumption DEF Decide, Windows
    <3>3. c \in Coming(w)' => c \in Coming(w)
      BY <1>4, <2>3, <3>1, <3>2 DEF Decide, Coming
    <3>. QED BY <1>4, <2>1, <3>3, <1>c DEF Decide
  <2>. QED BY <1>4, <2>2, <2>3 DEF Decide
<1>5. ASSUME NEW c \in Clients, EnsureCycles(c) \/ EnsureFails(c)
      PROVE  Headroom(w)'
  <2>1. \A d \in Clients \ {c} : client'[d] = client[d]
    BY <1>5, <1>a DEF EnsureCycles, EnsureFails, To, TypeOK
  <2>2. client[c].pc = "ensure" /\ cycles' = cycles /\ now' = now /\ spent' = spent
    BY <1>5 DEF EnsureCycles, EnsureFails
  <2>3. client'[c].pc = "idle" \/ client'[c].paid = client[c].paid
    BY <1>5, <1>a, <1>b DEF EnsureCycles, EnsureFails, To, TypeOK, Client
  <2>4. c \in Coming(w)' => c \in Coming(w)
    BY <2>2, <2>3 DEF Coming
  <2>. QED BY <2>1, <2>2, <2>4, <1>c
<1>6. ASSUME NEW c \in Clients, InstallCycles(c)
      PROVE  Headroom(w)'
  <2>1. /\ client[c].pc = "persisted" /\ cycles' = rows /\ now' = now /\ spent' = spent
        /\ client'[c].paid = client[c].paid
        /\ \A d \in Clients \ {c} : client'[d] = client[d]
    BY <1>6, <1>a DEF InstallCycles, To, TypeOK, Client
  <2>2. \/ rows[w] = cycles[w]
        \/ cycles[w] = 0
        \/ rows[w] >= cycles[w] + Width[w]
    BY <2>1 DEF IInv, WritingCycles
  <2>3. CASE rows[w] = cycles[w]
    <3>1. Coming(w)' \subseteq Coming(w)
      BY <2>1, <2>3 DEF Coming
    <3>. QED BY <1>a, <1>n, <2>1, <2>3, <3>1, RoomKept
  <2>4. CASE cycles[w] = 0 \/ rows[w] >= cycles[w] + Width[w]
    <3>1. cycles[w] \in Nat /\ Width[w] \in Nat /\ rows[w] \in Nat /\ \A t \in Times : t \in Nat
      BY <1>a, WindowAssumption, BoundAssumption DEF TypeOK, Starts, Times
    <3>2. \A t \in InCycle(cycles'[w], w) : spent'[t] = 0
      BY <1>n, <2>1, <2>4, <3>1 DEF InCycle, Overshoot, ChargesHaveCycle, Active
    <3>. QED BY <1>a, <3>2, NewCycleHasRoom
  <2>. QED BY <2>2, <2>3, <2>4
<1>7. ASSUME NEW c \in Clients, NEW cost \in Costs \cup {0}, Settle(c, cost)
      PROVE  Headroom(w)'
  <2>. DEFINE t == client[c].at
              T == InCycle(cycles[w], w)
  <2>1. /\ client[c].pc = "sent" /\ cycles' = cycles /\ now' = now
        /\ \A d \in Clients \ {c} : client'[d] = client[d]
    BY <1>7, <1>a DEF Settle, TypeOK
  <2>2. c \notin Coming(w)'
    BY <1>7, <1>a, <1>b DEF Settle, Coming, TypeOK
  <2>3. CASE cost = 0
    BY <1>7, <1>c, <2>1, <2>2, <2>3 DEF Settle
  <2>4. CASE cost # 0
    <3>1. client[c].paid /\ spent' = [spent EXCEPT ![t] = @ + cost] /\ cost \in Costs /\ cost \in Nat
      <4>1. cost \in Costs /\ cost \in Nat /\ cost > 0
        BY <2>4, CostAssumption
      <4>. QED BY <1>7, <2>4, <4>1 DEF Settle
    <3>2. c \in Coming(w) /\ Coming(w)' = Coming(w) \ {c}
      BY <2>1, <2>2, <3>1 DEF Coming
    <3>. SUFFICES ASSUME Active(cycles[w], w, now), Budget[w] > 0,
                         NEW most \in Costs, \A d \in Costs : d <= most
                  PROVE  SumIn(spent', cycles[w], w) <= Room(w, most)'
      BY <2>1 DEF Headroom, SumIn, InCycle
    <3>. DEFINE old == SumFunctionOnSet(spent, T)
                new == SumFunctionOnSet(spent', T)
                r   == Room(w, most)
                q   == Room(w, most)'
    <3>3. /\ IsFiniteSet(T) /\ NatsOn(spent, T) /\ IntsOn(spent, T)
          /\ old \in Nat /\ new \in Nat
      BY <1>a, SumInNat DEF TypeOK, SumIn, NatsOn, IntsOn
    <3>4. old <= r
      BY <1>a DEF Headroom, SumIn
    <3>5. r \in Nat /\ q = r + most /\ most \in Nat /\ cost <= most
      BY <1>a, <3>1, <3>2, RoomFacts, CostAssumption
    <3>6. new <= old + cost
      <4>1. CASE t \in T
        <5>1. spent'[t] = spent[t] + cost /\ \A u \in T \ {t} : spent'[u] = spent[u]
          BY <1>a, <3>1, <4>1 DEF TypeOK, InCycle
        <5>. HIDE DEF T, t
        <5>2. new = old + cost
          <6>1. cost \in Int /\ IsFiniteSet(T) /\ IntsOn(spent, T)
            BY <3>1, <3>3
          <6>. QED BY <4>1, <5>1, <6>1, SumChange
        <5>. HIDE DEF old, new
        <5>. QED BY <3>1, <3>3, <5>2
      <4>2. CASE t \notin T
        <5>1. \A u \in T : spent'[u] = spent[u]
          BY <1>a, <3>1, <4>2 DEF TypeOK, InCycle
        <5>. HIDE DEF T, t
        <5>2. new = old
          BY <3>3, <5>1, SumEqual
        <5>. HIDE DEF old, new
        <5>. QED BY <3>1, <3>3, <5>2
      <4>. QED BY <4>1, <4>2
    <3>7. SumIn(spent', cycles[w], w) = new
      BY DEF SumIn
    <3>. HIDE DEF old, new, r, q
    <3>8. new <= q
      BY <3>1, <3>3, <3>4, <3>5, <3>6
    <3>. QED BY <3>7, <3>8 DEF q
  <2>. QED BY <2>3, <2>4
<1>8. CASE Flush \/ PruneRetention \/ Summary \/ Tick \/ UNCHANGED vars
  <2>1. cycles' = cycles /\ client' = client /\ spent' = spent /\ (now' = now \/ now' = now + 1)
    BY <1>8 DEF Flush, PruneRetention, Summary, Tick, vars
  <2>2. Coming(w)' \subseteq Coming(w)
    BY <2>1 DEF Coming
  <2>. QED BY <1>a, <1>n, <2>1, <2>2, RoomKept
<1>9. CASE Reset
  <2>1. ~Active(cycles'[w], w, now')
    BY <1>9 DEF Reset, NoCycle, Active
  <2>. QED BY <2>1 DEF Headroom
<1>10. ASSUME NEW kept \in SUBSET Clients, Restart(kept)
       PROVE  Headroom(w)'
  <2>1. /\ cycles' = rows /\ now' = now
        /\ \A d \in Clients : \/ client'[d] = client[d] /\ client[d].pc = "sent"
                              \/ client'[d].pc = "idle"
    BY <1>10, <1>b DEF Restart
  <2>2. \A t \in Times : spent'[t] <= spent[t] /\ spent'[t] \in Nat
    BY <1>10, <1>n, <1>a DEF Restart, TypeOK
  <2>3. rows[w] = cycles[w] \/ cycles[w] = 0 \/ rows[w] >= cycles[w] + Width[w]
    BY DEF IInv, WritingCycles, CyclesFree
  <2>4. CASE rows[w] = cycles[w]
    <3>1. Coming(w)' \subseteq Coming(w)
      BY <2>1 DEF Coming
    <3>. QED BY <1>a, <2>1, <2>2, <2>4, <3>1, RoomKept
  <2>5. CASE cycles[w] = 0 \/ rows[w] >= cycles[w] + Width[w]
    <3>1. cycles[w] \in Nat /\ Width[w] \in Nat /\ rows[w] \in Nat /\ \A t \in Times : t \in Nat
      BY <1>a, WindowAssumption, BoundAssumption DEF TypeOK, Starts, Times
    <3>2. \A t \in InCycle(cycles'[w], w) : spent[t] = 0
      BY <1>n, <2>1, <2>5, <3>1 DEF InCycle, Overshoot, ChargesHaveCycle, Active
    <3>3. \A t \in InCycle(cycles'[w], w) : spent'[t] = 0
      BY <2>2, <3>2 DEF InCycle
    <3>. QED BY <1>a, <3>3, NewCycleHasRoom
  <2>. QED BY <2>3, <2>4, <2>5
<1>. QED
  BY <1>1, <1>2, <1>3, <1>4, <1>5, <1>6, <1>7, <1>8, <1>9, <1>10
  DEF Next, Admission, Bookkeeping

\* However many requests stand between their check and their charge when the
\* budget is reached, across stale copies of a cycle, failed writes, late
\* settlement and restarts: each adds at most one cost.
THEOREM OvershootNeverExceeded == Spec => []OvershootBounded
<1>1. Init => Overshoot
  <2>. SUFFICES ASSUME Init PROVE Overshoot
    OBVIOUS
  <2>1. SentInCycle /\ FirstWindow
    BY DEF Init, SentInCycle, FirstWindow, IdleClient
  <2>2. ChargesHaveCycle
    BY DEF Init, ChargesHaveCycle, NoSpend
  <2>3. \A w \in Windows : Headroom(w)
    BY DEF Init, Headroom, NoCycle, Active
  <2>. QED BY <2>1, <2>2, <2>3 DEF Overshoot
<1>2. IInv /\ IInv' /\ Overshoot /\ [Next]_vars => Overshoot'
  <2>. SUFFICES ASSUME IInv, IInv', Overshoot, [Next]_vars PROVE Overshoot'
    OBVIOUS
  <2>1. SentInCycle' /\ ChargesHaveCycle'
    BY ChargesStep DEF Overshoot
  <2>2. FirstWindow'
    BY FirstWindowStep DEF Overshoot, IInv
  <2>3. \A w \in Windows : Headroom(w)'
    BY HeadroomStep
  <2>4. (\A w \in Windows : Headroom(w))'
    BY <2>3
  <2>. QED BY <2>1, <2>2, <2>4 DEF Overshoot
<1>3. IInv /\ Overshoot => OvershootBounded
  <2>. SUFFICES ASSUME IInv, Overshoot, NEW w \in Windows, Active(cycles[w], w, now), Budget[w] > 0,
                       NEW most \in Costs, \A cost \in Costs : cost <= most
                PROVE  SumIn(spent, cycles[w], w) <= Budget[w] - 1 + most * Cardinality(Clients)
    BY DEF OvershootBounded
  <2>. DEFINE o == Cardinality(Clients \ Coming(w))
              k == Cardinality(Clients)
              s == SumIn(spent, cycles[w], w)
  <2>1. s <= Budget[w] - 1 + most * o
    BY DEF Overshoot, Headroom, Room
  <2>2. o \in Nat /\ k \in Nat /\ o <= k
    BY ClientAssumption, FS_Subset, FS_CardinalityType
  <2>3. most \in Nat /\ Budget[w] \in Nat /\ s \in Nat
    BY CostAssumption, WindowAssumption, SumInNat DEF IInv, TypeOK
  <2>4. k - o \in Nat /\ most * k = most * o + most * (k - o)
    <3>. HIDE DEF o, k
    <3>1. k - o \in Nat /\ k = o + (k - o)
      BY <2>2
    <3>. QED BY <2>2, <2>3, <3>1
  <2>5. \A i \in Nat : most * i \in Nat
    BY <2>3
  <2>6. most * o \in Nat /\ most * (k - o) \in Nat /\ most * k \in Nat
    BY <2>2, <2>4, <2>5
  <2>. HIDE DEF o, k, s
  <2>7. s <= Budget[w] - 1 + most * k
    BY <2>1, <2>3, <2>4, <2>6
  <2>. QED BY <2>7 DEF s, k
<1>. QED BY <1>1, <1>2, <1>3, Invariant, PTL DEF Spec
=============================================================================
