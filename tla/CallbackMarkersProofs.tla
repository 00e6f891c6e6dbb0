----------------------- MODULE CallbackMarkersProofs -----------------------
(***************************************************************************)
(* Theorems about CallbackMarkers, for any number of Keys, requests and    *)
(* callers and any limits and ages: the types and the bound of the list;   *)
(* that a marker settles one callback and a callback settles once; that no *)
(* row outlives its marker; that no admitted request is forgotten without  *)
(* a cause; that a marker is charged to the Key that admitted it; and the  *)
(* refinement of MarkerLife.                                               *)
(***************************************************************************)
EXTENDS CallbackMarkers, FiniteSetTheorems, TLAPS

-----------------------------------------------------------------------------
(* The inductive invariant.                                                 *)

\* The clock has passed every admission; the lists of SQLite are as bounded as
\* the list of memory they come from.
Bounded ==
  /\ now \in 1 .. MaxTime
  /\ \A r \in Requests : req[r].at <= now
  /\ Cardinality(rows) <= MaxPending /\ Cardinality(snapshot) <= MaxPending

\* Of a request without a marker nothing is stored, and only an admitted one
\* has a Key.
Unmarked ==
  \A r \in Requests :
    /\ req[r].pc \in {"unsent", "passed"} =>
         /\ r \notin pending \cup rows \cup snapshot \cup expired
         /\ consumed[r] = 0
    /\ req[r].pc = "unsent" =>
         settled[r] = 0 /\ \A w \in Callers : call[w].pc = "take" => call[w].of # r
    /\ req[r].pc # "unsent" => req[r].key \in Keys /\ req[r].hash \in Hashes

\* A loaded marker is not that of a request under admission.
LoadedEarlier ==
  loaded \subseteq pending /\ \A r \in loaded : req[r].pc \in {"open", "blocked"}

\* Nothing runs in a process that has ended.
Ended == ~Running => pending = {} /\ Admitting = {} /\ admin = None

\* A policy change has the engine for itself.
Alone ==
  admin # None =>
    /\ Admitting = {}
    /\ \A w \in Callers : call[w] = IdleCall
    /\ engine \in {"open", "closing"} => \A r \in rows : req[r].key # admin

\* What waits anywhere has not been consumed.
WaitingUnused ==
  \A r \in pending \cup rows \cup (IF engine = "snapshot" THEN snapshot ELSE {}) :
    consumed[r] = 0 \/ r \in excused

\* Before the checkpoint the rows of waiting markers are those they were loaded from.
RowsLoaded == engine \in {"open", "closing", "snapshot"} => rows \cap pending \subseteq loaded

\* What close has copied and no longer waits is excused, or too old to be loaded.
CopyTrue == engine = "snapshot" => snapshot \subseteq pending \cup expired \cup excused

ExpiredOld == \A r \in expired : req[r].at < now - MarkerTTL

\* The maps of a running process are those of the table, but for the Key that a
\* deletion has already taken from the table.
MapsFollow ==
  /\ deletes => admin # None
  /\ Running => keyRows = IF deletes THEN Removed(owner, admin) ELSE owner

\* What a restart will load still belongs to the Key that admitted it.
StoredBound ==
  ~Running => \A r \in rows :
                keyRows[req[r].hash] = req[r].key \/ r \in expired \cup excused \cup orphaned

\* While a marker is loaded, each admission under way of a marker with equal
\* fields has a fresh one of its own: discardPendingRequest never drops a loaded one.
MarkedLike(p) == {q \in Requests : SameFields(q, p) /\ req[q].pc = "marked"}
FreshLike(p) == {q \in pending \ loaded : SameFields(q, p)}
OwnMarker == \A p \in loaded : Cardinality(MarkedLike(p)) <= Cardinality(FreshLike(p))

\* A callback under way, or settled, is one that the duplicate filter knows.
Known ==
  \A r \in Requests \ forgotten :
    /\ settled[r] <= 1
    /\ \A w \in Callers : call[w].of = r /\ call[w].pc = "take" => settled[r] = 0 /\ recent[r] # 0
    /\ \A v, w \in Callers : call[v].of = r /\ call[w].of = r
                             /\ call[v].pc = "take" /\ call[w].pc = "take" => v = w
    /\ settled[r] > 0 => recent[r] # 0

IInv ==
  /\ TypeOK /\ Bounded /\ Unmarked /\ LoadedEarlier /\ Ended /\ Alone
  /\ WaitingUnused /\ RowsLoaded /\ CopyTrue /\ ExpiredOld /\ MapsFollow /\ StoredBound
  /\ ConsumedOnce /\ NoStaleRows /\ MarkersAccounted /\ BindingStable
  /\ OwnMarker /\ Known

-----------------------------------------------------------------------------
(* The steps of the engine.                                                 *)

LEMMA StepCases ==
  ASSUME [Next]_vars
  PROVE  \/ \E r \in Requests :
              \/ \E h \in Hashes, kind \in Kinds, lag \in 0 .. MaxLag : PassGates(r, h, kind, lag)
              \/ AddPendingRequest(r) \/ Admit(r) \/ AdmitFails(r)
              \/ \E w \in Callers : Claim(w, r)
         \/ \E w \in Callers : Take(w)
         \/ \E k \in Keys : \/ \E h \in Hashes : UpsertPolicy(k, h)
                            \/ \E deleted \in BOOLEAN : ResetRows(k, deleted)
         \/ ResetMemory
         \/ \E force \in BOOLEAN : CopyMarkers(force)
         \/ Checkpoint
         \/ CloseAdmissions \/ CloseUsage
         \/ EndProcess /\ Running
         \/ Open
         \/ Tick \/ UNCHANGED vars
<1>1. CASE Admission
  BY <1>1 DEF Admission
<1>2. CASE Callback
  BY <1>2 DEF Callback
<1>3. CASE PolicyChange
  BY <1>3 DEF PolicyChange
<1>4. CASE Stop \/ Crash
  BY <1>4 DEF Stop, Crash, Running
<1>5. CASE Lifecycle
  BY <1>4, <1>5 DEF Lifecycle
<1>. QED BY <1>1, <1>2, <1>3, <1>5 DEF Next


LEMMA Finite == ASSUME NEW S \in SUBSET Requests PROVE IsFiniteSet(S)
BY FS_Subset, MarkerAssumption

LEMMA Smaller ==
  ASSUME NEW S \in SUBSET Requests, NEW T \in SUBSET S, Cardinality(S) <= MaxPending
  PROVE  Cardinality(T) <= MaxPending
<1>1. Cardinality(T) <= Cardinality(S) /\ Cardinality(T) \in Nat /\ Cardinality(S) \in Nat
  BY Finite, FS_Subset, FS_CardinalityType
<1>. QED BY <1>1, MarkerAssumption

\* What an EXCEPT on the pc of one request does.
LEMMA PcMoves ==
  ASSUME TypeOK, NEW r \in Requests, NEW pc \in {"marked", "open", "blocked"},
         req' = [req EXCEPT ![r].pc = pc]
  PROVE  /\ req' \in [Requests -> Request]
         /\ req'[r].pc = pc
         /\ \A q \in Requests :
              /\ q # r => req'[q] = req[q]
              /\ req'[q].key = req[q].key /\ req'[q].hash = req[q].hash /\ req'[q].kind = req[q].kind
              /\ req'[q].at = req[q].at /\ req'[q].sent = req[q].sent
BY DEF TypeOK, Request

LEMMA Increment ==
  ASSUME NEW f \in [Requests -> Nat], NEW i
  PROVE  /\ [f EXCEPT ![i] = @ + 1] \in [Requests -> Nat]
         /\ \A r \in Requests : [f EXCEPT ![i] = @ + 1][r] = IF r = i THEN f[r] + 1 ELSE f[r]
<1>. DEFINE g == [f EXCEPT ![i] = @ + 1]
<1>1. \A r \in Requests : g[r] = IF r = i THEN f[r] + 1 ELSE f[r]
  OBVIOUS
<1>2. g = [r \in Requests |-> g[r]]
  OBVIOUS
<1>3. \A r \in Requests : f[r] \in Nat
  OBVIOUS
<1>. HIDE DEF g
<1>4. \A r \in Requests : g[r] \in Nat
  BY <1>1, <1>3
<1>. QED BY <1>1, <1>2, <1>4 DEF g

LEMMA EndMoves ==
  ASSUME TypeOK, EndProcess
  PROVE  /\ req' \in [Requests -> Request]
         /\ \A q \in Requests :
              /\ req'[q].pc = IF q \in Admitting THEN "blocked" ELSE req[q].pc
              /\ req'[q].key = req[q].key /\ req'[q].hash = req[q].hash /\ req'[q].kind = req[q].kind
              /\ req'[q].at = req[q].at /\ req'[q].sent = req[q].sent
<1>1. ASSUME NEW q \in Requests
      PROVE  /\ req'[q] \in Request
             /\ req'[q].pc = IF q \in Admitting THEN "blocked" ELSE req[q].pc
             /\ req'[q].key = req[q].key /\ req'[q].hash = req[q].hash /\ req'[q].kind = req[q].kind
             /\ req'[q].at = req[q].at /\ req'[q].sent = req[q].sent
  <2>1. req[q] \in Request /\ req'[q] = IF q \in Admitting THEN [req[q] EXCEPT !.pc = "blocked"] ELSE req[q]
    BY DEF TypeOK, EndProcess
  <2>. QED BY <2>1 DEF Request
<1>2. req' = [q \in Requests |-> req'[q]]
  BY DEF EndProcess
<1>. QED BY <1>1, <1>2

\* Callback w consumes marker p.
Consumes(w, p) ==
  /\ p \in pending /\ p \in Nearest(call[w].of) /\ p \in Compatible(call[w].of)
  /\ pending' = pending \ {p} /\ loaded' = loaded \ {p}
  /\ \A r \in Requests : /\ consumed'[r] = IF r = p THEN consumed[r] + 1 ELSE consumed[r]
                         /\ settled'[r] = IF r = call[w].of THEN settled[r] + 1 ELSE settled[r]
  /\ excused \subseteq excused' /\ excused' \subseteq excused \cup {p}
  /\ p \notin excused' => ~ClosingDown /\ rows' = IF p \in loaded THEN RowsWithout(p) ELSE rows

LEMMA TakeOne ==
  ASSUME TypeOK, NEW w \in Callers, Take(w)
  PROVE  /\ call' = [call EXCEPT ![w] = IdleCall] /\ call[w].pc = "take"
         /\ \A v \in Callers : call'[v] = IF v = w THEN IdleCall ELSE call[v]
         /\ Running /\ Running' /\ rows' \in SUBSET rows
         /\ consumed' \in [Requests -> Nat] /\ settled' \in [Requests -> Nat]
         /\ UNCHANGED <<req, recent, owner, keyRows, admin, deletes, engine, snapshot, now, expired,
                        discarded, lost, forgotten, orphaned>>
         /\ \/ UNCHANGED <<pending, loaded, rows, consumed, settled, excused>>
            \/ \E p \in Requests : Consumes(w, p)
<1>1. /\ call' = [call EXCEPT ![w] = IdleCall] /\ call[w].pc = "take"
      /\ \A v \in Callers : call'[v] = IF v = w THEN IdleCall ELSE call[v]
      /\ Running /\ Running' /\ rows' \in SUBSET rows
      /\ UNCHANGED <<req, recent, owner, keyRows, admin, deletes, engine, snapshot, now, expired,
                     discarded, lost, forgotten, orphaned>>
  BY DEF Take, RowsWithout, Running, TypeOK
<1>2. consumed \in [Requests -> Nat] /\ settled \in [Requests -> Nat]
  BY DEF TypeOK
<1>3. CASE UNCHANGED <<pending, loaded, rows, consumed, settled, excused>>
  BY <1>1, <1>2, <1>3
<1>4. ASSUME NEW p \in Nearest(call[w].of), Forget({p}),
             consumed' = [consumed EXCEPT ![p] = @ + 1],
             settled' = [settled EXCEPT ![call[w].of] = @ + 1],
             \/ /\ rows' = IF p \in loaded THEN RowsWithout(p) ELSE rows
                /\ Drops({p})
             \/ excused' = excused \cup {p}
      PROVE  /\ consumed' \in [Requests -> Nat] /\ settled' \in [Requests -> Nat]
             /\ \E q \in Requests : Consumes(w, q)
  <2>1. p \in pending /\ p \in Requests /\ p \in Compatible(call[w].of)
    BY DEF Nearest, First, Compatible, TypeOK
  <2>2. /\ consumed' \in [Requests -> Nat] /\ settled' \in [Requests -> Nat]
        /\ \A r \in Requests : /\ consumed'[r] = IF r = p THEN consumed[r] + 1 ELSE consumed[r]
                               /\ settled'[r] = IF r = call[w].of THEN settled[r] + 1 ELSE settled[r]
    BY <1>2, <1>4, Increment
  <2>3. /\ excused \subseteq excused' /\ excused' \subseteq excused \cup {p}
        /\ p \notin excused' => ~ClosingDown /\ rows' = IF p \in loaded THEN RowsWithout(p) ELSE rows
    BY <1>4 DEF Drops
  <2>. QED BY <1>4, <2>1, <2>2, <2>3 DEF Consumes, Forget
<1>5. \/ UNCHANGED <<pending, loaded, rows, consumed, settled, excused>>
      \/ \E p \in Nearest(call[w].of) :
           /\ Forget({p})
           /\ consumed' = [consumed EXCEPT ![p] = @ + 1]
           /\ settled' = [settled EXCEPT ![call[w].of] = @ + 1]
           /\ \/ /\ rows' = IF p \in loaded THEN RowsWithout(p) ELSE rows
                 /\ Drops({p})
              \/ excused' = excused \cup {p}
  BY DEF Take
<1>. QED BY <1>1, <1>3, <1>4, <1>5


LEMMA BoundedStep == IInv /\ [Next]_vars => Bounded'
<1>. SUFFICES ASSUME IInv, [Next]_vars PROVE Bounded'
  OBVIOUS
<1>1. ASSUME NEW r \in Requests, NEW h \in Hashes, NEW kind \in Kinds, NEW lag \in 0 .. MaxLag,
             PassGates(r, h, kind, lag) PROVE Bounded'
  BY <1>1, MarkerAssumption DEF PassGates, IInv, TypeOK, Bounded, memory
<1>2. ASSUME NEW r \in Requests, AddPendingRequest(r) PROVE Bounded'
  <2>1. now' = now /\ UNCHANGED <<rows, snapshot>>
    BY <1>2 DEF AddPendingRequest, AddUnchanged
  <2>2. \A q \in Requests : req'[q].at = req[q].at
    BY <1>2, SMTT(30) DEF AddPendingRequest, IInv, TypeOK, Request
  <2>. QED BY <2>1, <2>2 DEF IInv, Bounded
<1>3. ASSUME NEW r \in Requests, Admit(r) PROVE Bounded'
  BY <1>3, PcMoves, MarkerAssumption DEF Admit, IInv, TypeOK, Bounded, memory
<1>4. ASSUME NEW r \in Requests, AdmitFails(r) PROVE Bounded'
  BY <1>4, PcMoves, MarkerAssumption DEF AdmitFails, Forget, Drops, Last, IInv, TypeOK,
    Bounded
<1>5. ASSUME NEW w \in Callers, Take(w) PROVE Bounded'
  <2>1. UNCHANGED <<now, req, snapshot>>
    BY <1>5 DEF Take
  <2>2. rows' \subseteq rows
    BY <1>5 DEF Take, RowsWithout
  <2>3. Cardinality(rows') <= MaxPending
    BY <2>2, Smaller DEF IInv, TypeOK, Bounded
  <2>. QED BY <2>1, <2>3 DEF IInv, Bounded
<1>6. ASSUME NEW k \in Keys, NEW deleted \in BOOLEAN, ResetRows(k, deleted) PROVE Bounded'
  <2>1. UNCHANGED <<now, req, snapshot>> /\ rows' \subseteq rows
    BY <1>6 DEF ResetRows
  <2>2. Cardinality(rows') <= MaxPending
    BY <2>1, Smaller DEF IInv, TypeOK, Bounded
  <2>. QED BY <2>1, <2>2 DEF IInv, Bounded
<1>7. ASSUME NEW force \in BOOLEAN, CopyMarkers(force) PROVE Bounded'
  <2>1. UNCHANGED <<now, req, rows>> /\ (snapshot' = pending \/ snapshot' = {})
    BY <1>7 DEF CopyMarkers
  <2>2. Cardinality(snapshot') <= MaxPending
    <3>1. CASE snapshot' = pending
      BY <3>1 DEF IInv, TypeOK
    <3>2. CASE snapshot' = {}
      BY <3>2, FS_EmptySet, MarkerAssumption
    <3>. QED BY <2>1, <3>1, <3>2
  <2>. QED BY <2>1, <2>2 DEF IInv, Bounded
<1>8. ASSUME Checkpoint PROVE Bounded'
  BY <1>8, MarkerAssumption DEF Checkpoint, IInv, TypeOK, Bounded, memory
<1>9. ASSUME EndProcess, Running PROVE Bounded'
  <2>1. UNCHANGED <<now, rows>> /\ snapshot' = {}
    BY <1>9 DEF EndProcess
  <2>2. \A q \in Requests : req'[q].at = req[q].at
    BY <1>9 DEF EndProcess, IInv, TypeOK, Request
  <2>3. Cardinality(snapshot') <= MaxPending
    BY <2>1, FS_EmptySet, MarkerAssumption
  <2>. QED BY <2>1, <2>2, <2>3 DEF IInv, Bounded
<1>10. ASSUME Open PROVE Bounded'
  <2>1. UNCHANGED <<now, req, snapshot>> /\ rows' \subseteq rows
    BY <1>10 DEF Open
  <2>2. Cardinality(rows') <= MaxPending
    BY <2>1, Smaller DEF IInv, TypeOK, Bounded
  <2>. QED BY <2>1, <2>2 DEF IInv, Bounded
<1>11. ASSUME Tick \/ UNCHANGED vars PROVE Bounded'
  <2>1. UNCHANGED <<req, rows, snapshot>>
    BY <1>11 DEF Tick, vars, memory
  <2>2. now' \in 1 .. MaxTime /\ now' >= now
    BY <1>11, MarkerAssumption DEF Tick, vars, IInv, Bounded
  <2>3. \A q \in Requests : req[q].at \in Nat
    BY MarkerAssumption DEF IInv, TypeOK, Request
  <2>. QED BY <2>1, <2>2, <2>3, MarkerAssumption DEF IInv, Bounded
<1>12. CASE \/ \E w \in Callers, r \in Requests : Claim(w, r)
            \/ \E k \in Keys, h \in Hashes : UpsertPolicy(k, h)
            \/ ResetMemory
            \/ CloseAdmissions \/ CloseUsage
  <2>1. UNCHANGED <<now, req, rows, snapshot>>
    BY <1>12 DEF Claim, UpsertPolicy,
       ResetMemory, CloseAdmissions, CloseUsage, memory
  <2>. QED BY <2>1 DEF IInv, Bounded
<1>. QED BY <1>1, <1>2, <1>3, <1>4, <1>5, <1>6, <1>7, <1>8, <1>9, <1>10, <1>11, <1>12,
          StepCases

LEMMA TypeOKStep == IInv /\ [Next]_vars => TypeOK'
<1>. SUFFICES ASSUME IInv, [Next]_vars PROVE TypeOK'
  OBVIOUS
<1>1. ASSUME NEW r \in Requests, NEW h \in Hashes, NEW kind \in Kinds, NEW lag \in 0 .. MaxLag,
             PassGates(r, h, kind, lag) PROVE TypeOK'
  <2>1. now \in 0 .. MaxTime /\ now - lag \in 0 .. MaxTime
    BY <1>1, MarkerAssumption DEF PassGates, IInv, Bounded
  <2>2. owner[h] \in Keys \cup {None}
    BY DEF IInv, TypeOK
  <2>3. [pc |-> "passed", key |-> owner[h], hash |-> h, kind |-> kind, at |-> now, sent |-> now - lag] \in Request
    BY <2>1, <2>2 DEF Request
  <2>4. req' \in [Requests -> Request]
    BY <1>1, <2>3 DEF PassGates, IInv, TypeOK
  <2>. QED BY <1>1, <2>4 DEF PassGates, IInv, TypeOK, memory, history, bounds
<1>2. ASSUME NEW r \in Requests, AddPendingRequest(r) PROVE TypeOK'
  <2>1. req' \in [Requests -> Request]
    BY <1>2, PcMoves DEF AddPendingRequest, IInv
  <2>2. pending' \subseteq Requests /\ loaded' \subseteq pending' /\ expired' \subseteq Requests
    BY <1>2 DEF AddPendingRequest, IInv, TypeOK, Expired
  <2>3. Cardinality(pending') <= MaxPending
    <3>. DEFINE kept == pending \ Expired(r)
    <3>1. kept \in SUBSET Requests /\ kept \in SUBSET pending
      BY DEF IInv, TypeOK
    <3>2. Cardinality(kept) <= MaxPending /\ IsFiniteSet(kept) /\ Cardinality(kept) \in Nat
      BY <3>1, Smaller, Finite, FS_CardinalityType DEF IInv, TypeOK
    <3>. HIDE DEF kept
    <3>3. CASE Cardinality(kept) < MaxPending /\ pending' = kept \cup {r}
      <4>1. Cardinality(kept \cup {r}) = Cardinality(kept) \/ Cardinality(kept \cup {r}) = Cardinality(kept) + 1
        BY <3>2, FS_AddElement
      <4>. QED BY <3>2, <3>3, <4>1, MarkerAssumption
    <3>4. CASE pending' = kept
      BY <3>2, <3>4
    <3>. QED BY <1>2, <3>3, <3>4 DEF AddPendingRequest, kept
  <2>. QED BY <1>2, <2>1, <2>2, <2>3 DEF AddPendingRequest, AddUnchanged, IInv, TypeOK, bounds
<1>3. ASSUME NEW r \in Requests, Admit(r) PROVE TypeOK'
  <2>1. req' \in [Requests -> Request]
    BY <1>3, PcMoves DEF Admit, IInv
  <2>. QED BY <1>3, <2>1 DEF Admit, IInv, TypeOK, memory, history, bounds
<1>4. ASSUME NEW r \in Requests, AdmitFails(r) PROVE TypeOK'
  <2>1. req' \in [Requests -> Request]
    BY <1>4, PcMoves DEF AdmitFails, IInv
  <2>2. pending' \in SUBSET pending /\ loaded' \subseteq pending'
    BY <1>4 DEF AdmitFails, Forget, IInv, TypeOK
  <2>3. discarded' \cup excused' \subseteq Requests
    BY <1>4 DEF AdmitFails, Drops, Last, IInv, TypeOK
  <2>4. Cardinality(pending') <= MaxPending
    BY <2>2, Smaller DEF IInv, TypeOK
  <2>. QED BY <1>4, <2>1, <2>2, <2>3, <2>4 DEF AdmitFails, IInv, TypeOK
<1>5. ASSUME NEW w \in Callers, NEW r \in Requests, Claim(w, r) PROVE TypeOK'
  <2>1. call' \in [Callers -> [pc : {"idle", "take"}, of : Requests \cup {None}]]
    BY <1>5 DEF Claim, IInv, TypeOK
  <2>2. recent' \in [Requests -> 0 .. MaxTime]
    <3>1. now \in 0 .. MaxTime /\ 0 \in 0 .. MaxTime
      BY MarkerAssumption DEF IInv, Bounded
    <3>2. \A q \in Requests : recent'[q] \in {now, recent[q], 0}
      BY <1>5 DEF Claim
    <3>. QED BY <1>5, <3>1, <3>2 DEF Claim, IInv, TypeOK
  <2>3. forgotten' \subseteq Requests
    BY <1>5 DEF Claim, OutOfWindow, IInv, TypeOK
  <2>. QED BY <1>5, <2>1, <2>2, <2>3 DEF Claim, IInv, TypeOK
<1>6. ASSUME NEW w \in Callers, Take(w) PROVE TypeOK'
  <2>1. call' \in [Callers -> [pc : {"idle", "take"}, of : Requests \cup {None}]]
    BY <1>6, TakeOne DEF IInv, TypeOK, IdleCall
  <2>2. pending' \in SUBSET pending /\ loaded' \subseteq pending' /\ excused' \subseteq Requests
    BY <1>6, TakeOne DEF Consumes, IInv, TypeOK
  <2>3. Cardinality(pending') <= MaxPending
    BY <2>2, Smaller DEF IInv, TypeOK
  <2>. QED BY <1>6, <2>1, <2>2, <2>3, TakeOne DEF IInv, TypeOK
<1>7. ASSUME NEW k \in Keys, NEW h \in Hashes, UpsertPolicy(k, h) PROVE TypeOK'
  BY <1>7, MarkerAssumption DEF UpsertPolicy, Rebound, IInv, TypeOK, memory, history
<1>8. ASSUME NEW k \in Keys, NEW deleted \in BOOLEAN, ResetRows(k, deleted) PROVE TypeOK'
  BY <1>8, MarkerAssumption DEF ResetRows, Removed, AdminLocked, IInv, TypeOK, history
<1>9. ASSUME ResetMemory PROVE TypeOK'
  <2>1. pending' \in SUBSET pending /\ loaded' \subseteq pending'
    BY <1>9 DEF ResetMemory, Forget, IInv, TypeOK
  <2>2. Cardinality(pending') <= MaxPending
    BY <2>1, Smaller DEF IInv, TypeOK
  <2>3. discarded' \cup excused' \subseteq Requests
    BY <1>9 DEF ResetMemory, Drops, IInv, TypeOK
  <2>. QED BY <1>9, <2>1, <2>2, <2>3 DEF ResetMemory, Removed, IInv, TypeOK, bounds
<1>10. ASSUME NEW force \in BOOLEAN, CopyMarkers(force) PROVE TypeOK'
  BY <1>10, MarkerAssumption DEF CopyMarkers, IInv, TypeOK, history
<1>11. ASSUME Checkpoint PROVE TypeOK'
  BY <1>11, MarkerAssumption DEF Checkpoint, IInv, TypeOK, memory, history
<1>12. ASSUME CloseAdmissions \/ CloseUsage PROVE TypeOK'
  BY <1>12, MarkerAssumption DEF CloseAdmissions, CloseUsage, IInv, TypeOK, memory, history
<1>13. ASSUME EndProcess, Running PROVE TypeOK'
  <2>1. req' \in [Requests -> Request]
    BY <1>13, EndMoves DEF IInv
  <2>2. recent' \in [Requests -> 0 .. MaxTime]
    BY <1>13, MarkerAssumption DEF EndProcess
  <2>3. Cardinality(pending') <= MaxPending
    BY <1>13, FS_EmptySet, MarkerAssumption DEF EndProcess
  <2>. QED BY <1>13, <2>1, <2>2, <2>3 DEF EndProcess, Orphans, IInv, TypeOK, IdleCall, bounds
<1>14. ASSUME Open PROVE TypeOK'
  <2>1. /\ rows' \in SUBSET rows /\ pending' = rows' /\ loaded' = rows'
        /\ expired' \subseteq expired \cup rows
    BY <1>14 DEF Open
  <2>2. Cardinality(rows') <= MaxPending
    BY <2>1, Smaller DEF IInv, TypeOK, Bounded
  <2>3. /\ UNCHANGED <<req, recent, keyRows, call, admin, deletes, snapshot, consumed, settled,
                       discarded, lost, excused, forgotten, orphaned>>
        /\ engine' = "open" /\ owner' = keyRows
    BY <1>14 DEF Open
  <2>. QED BY <2>1, <2>2, <2>3 DEF IInv, TypeOK
<1>15. ASSUME Tick \/ UNCHANGED vars PROVE TypeOK'
  BY <1>15, MarkerAssumption DEF Tick, vars, IInv, TypeOK, memory, history
<1>. QED BY <1>1, <1>2, <1>3, <1>4, <1>5, <1>6, <1>7, <1>8, <1>9, <1>10, <1>11, <1>12,
          <1>13, <1>14, <1>15, StepCases

LEMMA UnmarkedStep == IInv /\ [Next]_vars => Unmarked'
<1>. SUFFICES ASSUME IInv, [Next]_vars PROVE Unmarked'
  OBVIOUS
<1>1. ASSUME NEW r \in Requests, NEW h \in Hashes, NEW kind \in Kinds, NEW lag \in 0 .. MaxLag,
             PassGates(r, h, kind, lag) PROVE Unmarked'
  BY <1>1 DEF PassGates, IInv, TypeOK, Unmarked, LoadedEarlier, Running, memory, history
<1>2. ASSUME NEW r \in Requests, AddPendingRequest(r) PROVE Unmarked'
  BY <1>2, PcMoves DEF AddPendingRequest, AddUnchanged, Expired, IInv, TypeOK, Unmarked,
    LoadedEarlier, Running
<1>3. ASSUME NEW r \in Requests, Admit(r) PROVE Unmarked'
  BY <1>3, PcMoves DEF Admit, IInv, TypeOK, Unmarked, LoadedEarlier, Running, memory,
    history
<1>4. ASSUME NEW r \in Requests, AdmitFails(r) PROVE Unmarked'
  BY <1>4, PcMoves DEF AdmitFails, Forget, Drops, Last, IInv, TypeOK, Unmarked,
    LoadedEarlier, Running
<1>5. ASSUME NEW w \in Callers, NEW r \in Requests, Claim(w, r) PROVE Unmarked'
  BY <1>5 DEF Claim, IInv, TypeOK, Unmarked, LoadedEarlier, Running
<1>6. ASSUME NEW w \in Callers, Take(w) PROVE Unmarked'
  <2>1. CASE UNCHANGED <<pending, loaded, rows, consumed, settled, excused>>
    BY <1>6, <2>1, TakeOne DEF IInv, Unmarked, TypeOK, IdleCall
  <2>2. ASSUME NEW p \in Requests, Consumes(w, p) PROVE Unmarked'
    BY <1>6, <2>2, TakeOne DEF IInv, Consumes, Unmarked, TypeOK, IdleCall
  <2>. QED BY <1>6, <2>1, <2>2, TakeOne DEF IInv
<1>7. ASSUME NEW k \in Keys, NEW deleted \in BOOLEAN, ResetRows(k, deleted) PROVE Unmarked'
  BY <1>7 DEF ResetRows, IInv, TypeOK, Unmarked, LoadedEarlier, Running, history
<1>8. ASSUME ResetMemory PROVE Unmarked'
  BY <1>8 DEF ResetMemory, Forget, IInv, TypeOK, Unmarked, LoadedEarlier, Running
<1>9. ASSUME NEW force \in BOOLEAN, CopyMarkers(force) PROVE Unmarked'
  BY <1>9 DEF CopyMarkers, IInv, TypeOK, Unmarked, LoadedEarlier, Running, history
<1>10. ASSUME Checkpoint PROVE Unmarked'
  BY <1>10 DEF Checkpoint, IInv, TypeOK, Unmarked, LoadedEarlier, Running, memory, history
<1>11. ASSUME EndProcess, Running PROVE Unmarked'
  <2>1. /\ \A w \in Callers : call'[w] = IdleCall
        /\ pending' = {} /\ snapshot' = {}
        /\ UNCHANGED <<rows, expired, consumed, settled>>
    BY <1>11 DEF EndProcess
  <2>2. \A q \in Requests : /\ req'[q].pc \in {"unsent", "passed"} => req[q].pc = req'[q].pc
                            /\ req'[q].key = req[q].key /\ req'[q].hash = req[q].hash
                            /\ req[q].pc = "unsent" => req'[q].pc = "unsent"
    BY <1>11, EndMoves DEF IInv, Admitting
  <2>. QED BY <2>1, <2>2 DEF IInv, Unmarked, IdleCall
<1>12. ASSUME Open PROVE Unmarked'
  BY <1>12 DEF Open, IInv, TypeOK, Unmarked, LoadedEarlier, Running
<1>13. CASE \/ \E k \in Keys, h \in Hashes : UpsertPolicy(k, h)
            \/ CloseAdmissions \/ CloseUsage \/ Tick \/ UNCHANGED vars
  <2>1. UNCHANGED <<req, pending, rows, snapshot, expired, consumed, settled, call>>
    BY <1>13 DEF
       UpsertPolicy, CloseAdmissions, CloseUsage, Tick, vars, memory, history
  <2>. QED BY <2>1 DEF IInv, Unmarked
<1>. QED BY <1>1, <1>2, <1>3, <1>4, <1>5, <1>6, <1>7, <1>8, <1>9, <1>10, <1>11, <1>12,
          <1>13, StepCases

LEMMA LoadedEarlierStep == IInv /\ [Next]_vars => LoadedEarlier'
<1>. SUFFICES ASSUME IInv, [Next]_vars PROVE LoadedEarlier'
  OBVIOUS
<1>1. ASSUME NEW r \in Requests, NEW h \in Hashes, NEW kind \in Kinds, NEW lag \in 0 .. MaxLag,
             PassGates(r, h, kind, lag) PROVE LoadedEarlier'
  BY <1>1 DEF PassGates, IInv, TypeOK, LoadedEarlier, Unmarked, Ended, Running, Admitting,
    memory
<1>2. ASSUME NEW r \in Requests, AddPendingRequest(r) PROVE LoadedEarlier'
  BY <1>2, PcMoves DEF AddPendingRequest, AddUnchanged, Expired, IInv, TypeOK,
    LoadedEarlier, Unmarked, Ended, Running, Admitting
<1>3. ASSUME NEW r \in Requests, Admit(r) PROVE LoadedEarlier'
  BY <1>3, PcMoves DEF Admit, IInv, TypeOK, LoadedEarlier, Unmarked, Ended, Running,
    Admitting, memory
<1>4. ASSUME NEW r \in Requests, AdmitFails(r) PROVE LoadedEarlier'
  BY <1>4, PcMoves DEF AdmitFails, Forget, Drops, Last, IInv, TypeOK, LoadedEarlier,
    Unmarked, Ended, Running, Admitting
<1>5. ASSUME NEW w \in Callers, Take(w) PROVE LoadedEarlier'
  BY <1>5, TakeOne DEF Consumes, IInv, TypeOK, LoadedEarlier, Unmarked, Ended, Running,
    Admitting
<1>6. ASSUME ResetMemory PROVE LoadedEarlier'
  BY <1>6 DEF ResetMemory, Forget, IInv, TypeOK, LoadedEarlier, Unmarked, Ended, Running,
    Admitting
<1>7. ASSUME EndProcess, Running PROVE LoadedEarlier'
  BY <1>7, EndMoves DEF EndProcess, IInv, TypeOK, LoadedEarlier, Unmarked, Ended, Running,
    Admitting
<1>8. ASSUME Open PROVE LoadedEarlier'
  <2>1. loaded' = pending' /\ loaded' \subseteq rows /\ req' = req /\ ~Running
    BY <1>8 DEF Open, Running
  <2>2. ASSUME NEW q \in rows PROVE req[q].pc \in {"open", "blocked"}
    <3>1. q \in Requests /\ req[q].pc \in {"unsent", "passed", "marked", "open", "blocked"}
      BY DEF IInv, TypeOK, Request
    <3>. QED BY <2>1, <3>1 DEF IInv, Ended, Unmarked, Admitting
  <2>. QED BY <2>1, <2>2 DEF LoadedEarlier
<1>9. CASE \/ \E w \in Callers, r \in Requests : Claim(w, r)
           \/ \E k \in Keys, h \in Hashes : UpsertPolicy(k, h)
           \/ \E k \in Keys, deleted \in BOOLEAN : ResetRows(k, deleted)
           \/ \E force \in BOOLEAN : CopyMarkers(force)
           \/ Checkpoint \/ CloseAdmissions \/ CloseUsage \/ Tick \/ UNCHANGED vars
  <2>1. UNCHANGED <<loaded, pending, req>>
    BY <1>9 DEF Claim, UpsertPolicy, ResetRows,
       CopyMarkers, Checkpoint, CloseAdmissions, CloseUsage, Tick, vars, memory
  <2>. QED BY <2>1 DEF IInv, LoadedEarlier
<1>. QED BY <1>1, <1>2, <1>3, <1>4, <1>5, <1>6, <1>7, <1>8, <1>9, StepCases

LEMMA EndedStep == IInv /\ [Next]_vars => Ended'
<1>. SUFFICES ASSUME IInv, [Next]_vars PROVE Ended'
  OBVIOUS
<1>1. ASSUME NEW r \in Requests, NEW h \in Hashes, NEW kind \in Kinds, NEW lag \in 0 .. MaxLag,
             PassGates(r, h, kind, lag) PROVE Ended'
  BY <1>1 DEF PassGates, IInv, TypeOK, Ended, Unmarked, Running, Admitting, memory
<1>2. ASSUME NEW r \in Requests, AddPendingRequest(r) PROVE Ended'
  BY <1>2, PcMoves DEF AddPendingRequest, AddUnchanged, Expired, IInv, TypeOK, Ended,
    Unmarked, Running, Admitting
<1>3. ASSUME NEW r \in Requests, Admit(r) PROVE Ended'
  BY <1>3, PcMoves DEF Admit, IInv, TypeOK, Ended, Unmarked, Running, Admitting, memory
<1>4. ASSUME NEW r \in Requests, AdmitFails(r) PROVE Ended'
  BY <1>4, PcMoves DEF AdmitFails, Forget, Drops, Last, IInv, TypeOK, Ended, Unmarked,
    Running, Admitting
<1>5. ASSUME NEW w \in Callers, Take(w) PROVE Ended'
  BY <1>5, TakeOne DEF Consumes, IInv, TypeOK, Ended, Unmarked, Running, Admitting
<1>6. ASSUME NEW k \in Keys, NEW deleted \in BOOLEAN, ResetRows(k, deleted) PROVE Ended'
  BY <1>6 DEF ResetRows, AdminLocked, IInv, TypeOK, Ended, Unmarked, Running, Admitting
<1>7. ASSUME ResetMemory PROVE Ended'
  BY <1>7 DEF ResetMemory, Forget, IInv, TypeOK, Ended, Unmarked, Running, Admitting
<1>8. ASSUME NEW force \in BOOLEAN, CopyMarkers(force) PROVE Ended'
  BY <1>8 DEF CopyMarkers, IInv, TypeOK, Ended, Unmarked, Running, Admitting
<1>9. ASSUME Checkpoint PROVE Ended'
  BY <1>9 DEF Checkpoint, IInv, TypeOK, Ended, Unmarked, Running, Admitting, memory
<1>10. ASSUME CloseAdmissions \/ CloseUsage PROVE Ended'
  BY <1>10 DEF CloseAdmissions, CloseUsage, IInv, TypeOK, Ended, Unmarked, Running,
    Admitting, memory
<1>11. ASSUME EndProcess, Running PROVE Ended'
  BY <1>11, EndMoves DEF EndProcess, IInv, TypeOK, Ended, Unmarked, Running, Admitting
<1>12. ASSUME Open PROVE Ended'
  BY <1>12 DEF Open, IInv, TypeOK, Ended, Unmarked, Running, Admitting
<1>13. CASE \/ \E w \in Callers, r \in Requests : Claim(w, r)
            \/ \E k \in Keys, h \in Hashes : UpsertPolicy(k, h)
            \/ Tick \/ UNCHANGED vars
  <2>1. UNCHANGED <<engine, pending, req, admin>>
    BY <1>13 DEF Claim, UpsertPolicy,
       Tick, vars, memory
  <2>. QED BY <2>1 DEF IInv, Ended, Running, Admitting
<1>. QED BY <1>1, <1>2, <1>3, <1>4, <1>5, <1>6, <1>7, <1>8, <1>9, <1>10, <1>11, <1>12,
          <1>13, StepCases

LEMMA AloneStep == IInv /\ [Next]_vars => Alone'
<1>. SUFFICES ASSUME IInv, [Next]_vars PROVE Alone'
  OBVIOUS
<1>1. ASSUME NEW r \in Requests, NEW h \in Hashes, NEW kind \in Kinds, NEW lag \in 0 .. MaxLag,
             PassGates(r, h, kind, lag) PROVE Alone'
  BY <1>1 DEF PassGates, IInv, TypeOK, Alone, Ended, Running, Admitting, IdleCall, memory
<1>2. ASSUME NEW r \in Requests, AddPendingRequest(r) PROVE Alone'
  BY <1>2, PcMoves DEF AddPendingRequest, AddUnchanged, IInv, TypeOK, Alone, Ended, Running,
    Admitting, IdleCall
<1>3. ASSUME NEW r \in Requests, Admit(r) PROVE Alone'
  BY <1>3, PcMoves DEF Admit, IInv, TypeOK, Alone, Ended, Running, Admitting, IdleCall,
    memory
<1>4. ASSUME NEW r \in Requests, AdmitFails(r) PROVE Alone'
  BY <1>4, PcMoves DEF AdmitFails, Forget, Drops, Last, IInv, TypeOK, Alone, Ended, Running,
    Admitting, IdleCall
<1>5. ASSUME NEW w \in Callers, NEW r \in Requests, Claim(w, r) PROVE Alone'
  BY <1>5 DEF Claim, IInv, TypeOK, Alone, Ended, Running, Admitting, IdleCall
<1>6. ASSUME NEW w \in Callers, Take(w) PROVE Alone'
  BY <1>6, TakeOne DEF Consumes, IInv, TypeOK, Alone, Ended, Running, Admitting, IdleCall
<1>7. ASSUME NEW k \in Keys, NEW deleted \in BOOLEAN, ResetRows(k, deleted) PROVE Alone'
  BY <1>7 DEF ResetRows, AdminLocked, IInv, TypeOK, Alone, Ended, Running, Admitting,
    IdleCall
<1>8. ASSUME ResetMemory PROVE Alone'
  BY <1>8 DEF ResetMemory, IInv, TypeOK, Alone, Ended, Running, Admitting, IdleCall
<1>9. ASSUME NEW force \in BOOLEAN, CopyMarkers(force) PROVE Alone'
  BY <1>9 DEF CopyMarkers, IInv, TypeOK, Alone, Ended, Running, Admitting, IdleCall
<1>10. ASSUME Checkpoint PROVE Alone'
  BY <1>10 DEF Checkpoint, IInv, TypeOK, Alone, Ended, Running, Admitting, IdleCall, memory
<1>11. ASSUME CloseAdmissions \/ CloseUsage PROVE Alone'
  BY <1>11 DEF CloseAdmissions, CloseUsage, IInv, TypeOK, Alone, Ended, Running, Admitting,
    IdleCall, memory
<1>12. ASSUME EndProcess, Running PROVE Alone'
  BY <1>12, EndMoves DEF EndProcess, IInv, TypeOK, Alone, Ended, Running, Admitting,
    IdleCall
<1>13. ASSUME Open PROVE Alone'
  BY <1>13 DEF Open, IInv, TypeOK, Alone, Ended, Running, Admitting, IdleCall
<1>14. CASE \/ \E k \in Keys, h \in Hashes : UpsertPolicy(k, h)
            \/ Tick \/ UNCHANGED vars
  <2>1. UNCHANGED <<admin, req, call, engine, rows>>
    BY <1>14 DEF UpsertPolicy, Tick,
       vars, memory
  <2>. QED BY <2>1 DEF IInv, Alone, Admitting
<1>. QED BY <1>1, <1>2, <1>3, <1>4, <1>5, <1>6, <1>7, <1>8, <1>9, <1>10, <1>11, <1>12,
          <1>13, <1>14, StepCases

LEMMA WaitingUnusedStep == IInv /\ [Next]_vars => WaitingUnused'
<1>. SUFFICES ASSUME IInv, [Next]_vars PROVE WaitingUnused'
  OBVIOUS
<1>1. ASSUME NEW r \in Requests, AddPendingRequest(r) PROVE WaitingUnused'
  BY <1>1, PcMoves DEF AddPendingRequest, AddUnchanged, Expired, IInv, TypeOK,
    WaitingUnused, Unmarked, RowsLoaded, Running, ClosingDown, RowsWithout
<1>2. ASSUME NEW r \in Requests, AdmitFails(r) PROVE WaitingUnused'
  BY <1>2, PcMoves DEF AdmitFails, Forget, Drops, Last, IInv, TypeOK, WaitingUnused,
    Unmarked, RowsLoaded, Running, ClosingDown, RowsWithout
<1>3. ASSUME NEW w \in Callers, Take(w) PROVE WaitingUnused'
  <2>1. CASE UNCHANGED <<pending, loaded, rows, consumed, settled, excused>>
    BY <1>3, <2>1, TakeOne DEF IInv, WaitingUnused, RowsLoaded, TypeOK
  <2>2. ASSUME NEW p \in Requests, Consumes(w, p) PROVE WaitingUnused'
    BY <1>3, <2>2, TakeOne DEF IInv, Consumes, WaitingUnused, RowsLoaded, TypeOK, Running, ClosingDown, RowsWithout
  <2>. QED BY <1>3, <2>1, <2>2, TakeOne DEF IInv
<1>4. ASSUME NEW k \in Keys, NEW deleted \in BOOLEAN, ResetRows(k, deleted) PROVE WaitingUnused'
  BY <1>4 DEF ResetRows, IInv, TypeOK, WaitingUnused, Unmarked, RowsLoaded, Running,
    ClosingDown, RowsWithout, history
<1>5. ASSUME ResetMemory PROVE WaitingUnused'
  BY <1>5 DEF ResetMemory, Forget, Drops, IInv, TypeOK, WaitingUnused, Unmarked, RowsLoaded,
    Running, ClosingDown, RowsWithout
<1>6. ASSUME NEW force \in BOOLEAN, CopyMarkers(force) PROVE WaitingUnused'
  BY <1>6 DEF CopyMarkers, IInv, TypeOK, WaitingUnused, Unmarked, RowsLoaded, Running,
    ClosingDown, RowsWithout, history
<1>7. ASSUME Checkpoint PROVE WaitingUnused'
  BY <1>7 DEF Checkpoint, IInv, TypeOK, WaitingUnused, Unmarked, RowsLoaded, Running,
    ClosingDown, RowsWithout, memory, history
<1>8. ASSUME CloseAdmissions \/ CloseUsage PROVE WaitingUnused'
  BY <1>8 DEF CloseAdmissions, CloseUsage, IInv, TypeOK, WaitingUnused, Unmarked,
    RowsLoaded, Running, ClosingDown, RowsWithout, memory, history
<1>9. ASSUME EndProcess, Running PROVE WaitingUnused'
  BY <1>9, EndMoves DEF EndProcess, IInv, TypeOK, WaitingUnused, Unmarked, RowsLoaded,
    Running, ClosingDown, RowsWithout
<1>10. ASSUME Open PROVE WaitingUnused'
  BY <1>10 DEF Open, IInv, TypeOK, WaitingUnused, Unmarked, RowsLoaded, Running,
    ClosingDown, RowsWithout
<1>11. CASE \/ \E r \in Requests, h \in Hashes, kind \in Kinds, lag \in 0 .. MaxLag : PassGates(r, h, kind, lag)
            \/ \E r \in Requests : Admit(r)
            \/ \E w \in Callers, r \in Requests : Claim(w, r)
            \/ \E k \in Keys, h \in Hashes : UpsertPolicy(k, h)
            \/ Tick \/ UNCHANGED vars
  <2>1. UNCHANGED <<pending, rows, engine, snapshot, consumed, excused>>
    BY <1>11 DEF
       PassGates, Admit, Claim, UpsertPolicy, Tick, vars, memory, history
  <2>. QED BY <2>1 DEF IInv, WaitingUnused
<1>. QED BY <1>1, <1>2, <1>3, <1>4, <1>5, <1>6, <1>7, <1>8, <1>9, <1>10, <1>11, StepCases

LEMMA RowsLoadedStep == IInv /\ [Next]_vars => RowsLoaded'
<1>. SUFFICES ASSUME IInv, [Next]_vars PROVE RowsLoaded'
  OBVIOUS
<1>1. ASSUME NEW r \in Requests, AddPendingRequest(r) PROVE RowsLoaded'
  BY <1>1, PcMoves DEF AddPendingRequest, AddUnchanged, Expired, IInv, TypeOK, RowsLoaded,
    Unmarked, LoadedEarlier, Running
<1>2. ASSUME NEW r \in Requests, AdmitFails(r) PROVE RowsLoaded'
  BY <1>2, PcMoves DEF AdmitFails, Forget, Drops, Last, IInv, TypeOK, RowsLoaded, Unmarked,
    LoadedEarlier, Running
<1>3. ASSUME NEW w \in Callers, Take(w) PROVE RowsLoaded'
  <2>1. CASE UNCHANGED <<pending, loaded, rows, consumed, settled, excused>>
    BY <1>3, <2>1, TakeOne DEF IInv, RowsLoaded
  <2>2. ASSUME NEW p \in Requests, Consumes(w, p) PROVE RowsLoaded'
    BY <1>3, <2>2, TakeOne DEF IInv, Consumes, RowsLoaded
  <2>. QED BY <1>3, <2>1, <2>2, TakeOne DEF IInv
<1>4. ASSUME NEW k \in Keys, NEW deleted \in BOOLEAN, ResetRows(k, deleted) PROVE RowsLoaded'
  BY <1>4 DEF ResetRows, IInv, TypeOK, RowsLoaded, Unmarked, LoadedEarlier, Running
<1>5. ASSUME ResetMemory PROVE RowsLoaded'
  BY <1>5 DEF ResetMemory, Forget, IInv, TypeOK, RowsLoaded, Unmarked, LoadedEarlier,
    Running
<1>6. ASSUME NEW force \in BOOLEAN, CopyMarkers(force) PROVE RowsLoaded'
  BY <1>6 DEF CopyMarkers, IInv, TypeOK, RowsLoaded, Unmarked, LoadedEarlier, Running
<1>7. ASSUME Checkpoint PROVE RowsLoaded'
  BY <1>7 DEF Checkpoint, IInv, TypeOK, RowsLoaded, Unmarked, LoadedEarlier, Running, memory
<1>8. ASSUME CloseAdmissions \/ CloseUsage PROVE RowsLoaded'
  BY <1>8 DEF CloseAdmissions, CloseUsage, IInv, TypeOK, RowsLoaded, Unmarked,
    LoadedEarlier, Running, memory
<1>9. ASSUME EndProcess, Running PROVE RowsLoaded'
  BY <1>9, EndMoves DEF EndProcess, IInv, TypeOK, RowsLoaded, Unmarked, LoadedEarlier,
    Running
<1>10. ASSUME Open PROVE RowsLoaded'
  BY <1>10 DEF Open, IInv, TypeOK, RowsLoaded, Unmarked, LoadedEarlier, Running
<1>11. CASE \/ \E r \in Requests, h \in Hashes, kind \in Kinds, lag \in 0 .. MaxLag : PassGates(r, h, kind, lag)
            \/ \E r \in Requests : Admit(r)
            \/ \E w \in Callers, r \in Requests : Claim(w, r)
            \/ \E k \in Keys, h \in Hashes : UpsertPolicy(k, h)
            \/ Tick \/ UNCHANGED vars
  <2>1. UNCHANGED <<engine, rows, pending, loaded>>
    BY <1>11 DEF PassGates, Admit,
       Claim, UpsertPolicy, Tick, vars, memory
  <2>. QED BY <2>1 DEF IInv, RowsLoaded
<1>. QED BY <1>1, <1>2, <1>3, <1>4, <1>5, <1>6, <1>7, <1>8, <1>9, <1>10, <1>11, StepCases

LEMMA CopyTrueStep == IInv /\ [Next]_vars => CopyTrue'
<1>. SUFFICES ASSUME IInv, [Next]_vars PROVE CopyTrue'
  OBVIOUS
<1>1. ASSUME NEW r \in Requests, AddPendingRequest(r) PROVE CopyTrue'
  BY <1>1, PcMoves DEF AddPendingRequest, AddUnchanged, Expired, IInv, TypeOK, CopyTrue,
    Unmarked, Running, ClosingDown
<1>2. ASSUME NEW r \in Requests, AdmitFails(r) PROVE CopyTrue'
  BY <1>2, PcMoves DEF AdmitFails, Forget, Drops, Last, IInv, TypeOK, CopyTrue, Unmarked,
    Running, ClosingDown
<1>3. ASSUME NEW w \in Callers, Take(w) PROVE CopyTrue'
  <2>1. CASE UNCHANGED <<pending, loaded, rows, consumed, settled, excused>>
    BY <1>3, <2>1, TakeOne DEF IInv, CopyTrue
  <2>2. ASSUME NEW p \in Requests, Consumes(w, p) PROVE CopyTrue'
    BY <1>3, <2>2, TakeOne DEF IInv, Consumes, CopyTrue, ClosingDown
  <2>. QED BY <1>3, <2>1, <2>2, TakeOne DEF IInv
<1>4. ASSUME ResetMemory PROVE CopyTrue'
  BY <1>4 DEF ResetMemory, Forget, Drops, IInv, TypeOK, CopyTrue, Unmarked, Running,
    ClosingDown
<1>5. ASSUME NEW force \in BOOLEAN, CopyMarkers(force) PROVE CopyTrue'
  BY <1>5 DEF CopyMarkers, IInv, TypeOK, CopyTrue, Unmarked, Running, ClosingDown, history
<1>6. ASSUME Checkpoint PROVE CopyTrue'
  BY <1>6 DEF Checkpoint, IInv, TypeOK, CopyTrue, Unmarked, Running, ClosingDown, memory,
    history
<1>7. ASSUME CloseAdmissions \/ CloseUsage PROVE CopyTrue'
  BY <1>7 DEF CloseAdmissions, CloseUsage, IInv, TypeOK, CopyTrue, Unmarked, Running,
    ClosingDown, memory, history
<1>8. ASSUME EndProcess, Running PROVE CopyTrue'
  BY <1>8, EndMoves DEF EndProcess, IInv, TypeOK, CopyTrue, Unmarked, Running, ClosingDown
<1>9. ASSUME Open PROVE CopyTrue'
  BY <1>9 DEF Open, IInv, TypeOK, CopyTrue, Unmarked, Running, ClosingDown
<1>10. CASE \/ \E r \in Requests, h \in Hashes, kind \in Kinds, lag \in 0 .. MaxLag : PassGates(r, h, kind, lag)
            \/ \E r \in Requests : Admit(r)
            \/ \E w \in Callers, r \in Requests : Claim(w, r)
            \/ \E k \in Keys, h \in Hashes : UpsertPolicy(k, h)
            \/ \E k \in Keys, deleted \in BOOLEAN : ResetRows(k, deleted)
            \/ Tick \/ UNCHANGED vars
  <2>1. UNCHANGED <<engine, snapshot, pending, expired, excused>>
    BY <1>10 DEF
       PassGates, Admit, Claim, UpsertPolicy, ResetRows, Tick, vars, memory, history
  <2>. QED BY <2>1 DEF IInv, CopyTrue
<1>. QED BY <1>1, <1>2, <1>3, <1>4, <1>5, <1>6, <1>7, <1>8, <1>9, <1>10, StepCases

LEMMA ExpiredOldStep == IInv /\ [Next]_vars => ExpiredOld'
<1>. SUFFICES ASSUME IInv, [Next]_vars PROVE ExpiredOld'
  OBVIOUS
<1>1. ASSUME NEW r \in Requests, NEW h \in Hashes, NEW kind \in Kinds, NEW lag \in 0 .. MaxLag,
             PassGates(r, h, kind, lag) PROVE ExpiredOld'
  BY <1>1, MarkerAssumption DEF PassGates, IInv, TypeOK, Bounded, ExpiredOld, Unmarked,
    Request, history
<1>2. ASSUME NEW r \in Requests, AddPendingRequest(r) PROVE ExpiredOld'
  <2>1. now' = now /\ \A q \in Requests : req'[q].at = req[q].at
    BY <1>2, PcMoves DEF AddPendingRequest, AddUnchanged, IInv
  <2>2. \A p \in Expired(r) : req[p].at < req[r].at - MarkerTTL
    BY DEF Expired
  <2>3. req[r].at <= now /\ req[r].at \in Int /\ now \in Int
    BY MarkerAssumption DEF IInv, Bounded, TypeOK, Request
  <2>4. \A p \in Requests : req[p].at \in Int
    BY MarkerAssumption DEF IInv, TypeOK, Request
  <2>5. expired' = expired \cup Expired(r) /\ Expired(r) \subseteq Requests /\ expired \subseteq Requests
    BY <1>2 DEF AddPendingRequest, Expired, IInv, TypeOK
  <2>. QED BY <2>1, <2>2, <2>3, <2>4, <2>5, MarkerAssumption DEF IInv, ExpiredOld
<1>3. ASSUME NEW r \in Requests, Admit(r) PROVE ExpiredOld'
  BY <1>3, PcMoves, MarkerAssumption DEF Admit, IInv, TypeOK, Bounded, ExpiredOld, Unmarked,
    Request, history
<1>4. ASSUME NEW r \in Requests, AdmitFails(r) PROVE ExpiredOld'
  BY <1>4, PcMoves, MarkerAssumption DEF AdmitFails, Forget, Drops, Last, IInv, TypeOK,
    Bounded, ExpiredOld, Unmarked, Request
<1>5. ASSUME EndProcess, Running PROVE ExpiredOld'
  BY <1>5, EndMoves, MarkerAssumption DEF EndProcess, IInv, TypeOK, Bounded, ExpiredOld,
    Unmarked, Request
<1>6. ASSUME Open PROVE ExpiredOld'
  BY <1>6, MarkerAssumption DEF Open, IInv, TypeOK, Bounded, ExpiredOld, Unmarked, Request
<1>7. ASSUME Tick \/ UNCHANGED vars PROVE ExpiredOld'
  BY <1>7, MarkerAssumption DEF Tick, vars, IInv, TypeOK, Bounded, ExpiredOld, Unmarked,
    Request, history
<1>8. CASE \/ \E w \in Callers, r \in Requests : Claim(w, r)
           \/ \E w \in Callers : Take(w)
           \/ \E k \in Keys, h \in Hashes : UpsertPolicy(k, h)
           \/ \E k \in Keys, deleted \in BOOLEAN : ResetRows(k, deleted)
           \/ ResetMemory
           \/ \E force \in BOOLEAN : CopyMarkers(force)
           \/ Checkpoint \/ CloseAdmissions \/ CloseUsage
  <2>1. UNCHANGED <<expired, req, now>>
    BY <1>8 DEF Claim, Take, UpsertPolicy,
       ResetRows, ResetMemory, CopyMarkers, Checkpoint, CloseAdmissions, CloseUsage, history
  <2>. QED BY <2>1 DEF IInv, ExpiredOld
<1>. QED BY <1>1, <1>2, <1>3, <1>4, <1>5, <1>6, <1>7, <1>8, StepCases

LEMMA MapsFollowStep == IInv /\ [Next]_vars => MapsFollow'
<1>. SUFFICES ASSUME IInv, [Next]_vars PROVE MapsFollow'
  OBVIOUS
<1>1. ASSUME NEW k \in Keys, NEW h \in Hashes, UpsertPolicy(k, h) PROVE MapsFollow'
  <2>1. ~deletes /\ keyRows = owner
    BY <1>1 DEF UpsertPolicy, AdminLocked, IInv, MapsFollow
  <2>2. UNCHANGED <<deletes, admin>> /\ keyRows' = Rebound(keyRows, k, h) /\ owner' = Rebound(owner, k, h)
    BY <1>1 DEF UpsertPolicy, memory
  <2>. QED BY <2>1, <2>2 DEF MapsFollow
<1>2. ASSUME NEW k \in Keys, NEW deleted \in BOOLEAN, ResetRows(k, deleted) PROVE MapsFollow'
  <2>1. keyRows = owner
    BY <1>2 DEF ResetRows, AdminLocked, IInv, MapsFollow
  <2>2. /\ admin' = k /\ deletes' = deleted /\ owner' = owner /\ admin' # None
        /\ keyRows' = IF deleted THEN Removed(keyRows, k) ELSE keyRows
    BY <1>2, MarkerAssumption DEF ResetRows
  <2>3. Removed(owner, admin)' = Removed(owner, k)
    BY <2>2 DEF Removed
  <2>. QED BY <2>1, <2>2, <2>3 DEF MapsFollow
<1>3. ASSUME ResetMemory PROVE MapsFollow'
  BY <1>3 DEF ResetMemory, IInv, MapsFollow
<1>4. ASSUME EndProcess, Running PROVE MapsFollow'
  BY <1>4 DEF EndProcess, MapsFollow, Running
<1>5. ASSUME Open PROVE MapsFollow'
  BY <1>5 DEF Open, IInv, Ended, MapsFollow, Running
<1>6. ASSUME NEW w \in Callers, Take(w) PROVE MapsFollow'
  <2>1. UNCHANGED <<deletes, admin, keyRows, owner, engine>>
    BY <1>6 DEF Take
  <2>. QED BY <2>1 DEF IInv, MapsFollow, Removed, Running
<1>7. CASE \/ \E r \in Requests, h \in Hashes, kind \in Kinds, lag \in 0 .. MaxLag : PassGates(r, h, kind, lag)
           \/ \E r \in Requests : AddPendingRequest(r) \/ Admit(r) \/ AdmitFails(r)
           \/ \E w \in Callers, r \in Requests : Claim(w, r)
           \/ \E force \in BOOLEAN : CopyMarkers(force)
           \/ Checkpoint \/ CloseAdmissions \/ CloseUsage \/ Tick \/ UNCHANGED vars
  <2>1. UNCHANGED <<deletes, admin, keyRows, owner>> /\ Running' = Running
    BY <1>7 DEF PassGates, AddPendingRequest, Admit, AdmitFails, AddUnchanged, Claim,
       CopyMarkers, Checkpoint, CloseAdmissions, CloseUsage, Tick, vars, memory, Running
  <2>2. Removed(owner, admin)' = Removed(owner, admin)
    BY <2>1 DEF Removed
  <2>. QED BY <2>1, <2>2 DEF IInv, MapsFollow
<1>. QED BY <1>1, <1>2, <1>3, <1>4, <1>5, <1>6, <1>7, StepCases

\* Only the end of a process and the clock concern it: the rest happens in a process.
LEMMA StoredBoundStep == IInv /\ [Next]_vars => StoredBound'
<1>. SUFFICES ASSUME IInv, [Next]_vars PROVE StoredBound'
  OBVIOUS
<1>1. ASSUME EndProcess, Running PROVE StoredBound'
  <2>1. UNCHANGED <<rows, keyRows, expired, excused>> /\ orphaned' = orphaned \cup Orphans
    BY <1>1 DEF EndProcess
  <2>2. \A q \in Requests : req'[q].key = req[q].key /\ req'[q].hash = req[q].hash
    BY <1>1, EndMoves DEF IInv
  <2>3. ASSUME NEW r \in rows, r \notin expired \cup excused \cup orphaned'
        PROVE  r \in Requests /\ keyRows[req[r].hash] = req[r].key
    <3>1. r \in pending /\ r \in Requests /\ ~(deletes /\ req[r].key = admin)
      BY <1>1, <2>1, <2>3 DEF IInv, NoStaleRows, TypeOK, Orphans
    <3>2. req[r].hash \in Hashes
      BY <3>1 DEF IInv, Unmarked
    <3>3. owner[req[r].hash] = req[r].key
      BY <2>1, <2>3, <3>1 DEF IInv, BindingStable
    <3>4. keyRows = IF deletes THEN Removed(owner, admin) ELSE owner
      BY <1>1 DEF IInv, MapsFollow
    <3>. QED BY <3>1, <3>2, <3>3, <3>4 DEF Removed
  <2>. QED BY <2>1, <2>2, <2>3 DEF StoredBound, IInv, TypeOK
<1>2. CASE ~Running'  /\ ~(EndProcess /\ Running)
  <2>1. ~Running
    BY <1>2, StepCases DEF PassGates, AddPendingRequest, Admit, AdmitFails, AddUnchanged, Claim,
       Take, UpsertPolicy, ResetRows, ResetMemory, CopyMarkers, Checkpoint, CloseAdmissions,
       CloseUsage, Open, Tick, vars, memory, Running
  <2>2. UNCHANGED <<req, rows, keyRows, expired, excused, orphaned>>
    BY <1>2, <2>1, StepCases DEF PassGates, AddPendingRequest, Admit, AdmitFails, Claim,
       Take, UpsertPolicy, ResetRows, ResetMemory, CopyMarkers, Checkpoint, CloseAdmissions,
       CloseUsage, Open, Tick, vars, history, TakingCallbacks, Running
  <2>. QED BY <2>1, <2>2 DEF IInv, StoredBound
<1>3. CASE Running'
  BY <1>3 DEF StoredBound
<1>. QED BY <1>1, <1>2, <1>3

LEMMA ConsumedOnceStep == IInv /\ [Next]_vars => ConsumedOnce'
<1>. SUFFICES ASSUME IInv, [Next]_vars PROVE ConsumedOnce'
  OBVIOUS
<1>1. ASSUME NEW r \in Requests, AdmitFails(r) PROVE ConsumedOnce'
  BY <1>1, PcMoves DEF AdmitFails, Forget, Drops, Last, IInv, TypeOK, ConsumedOnce, Running
<1>2. ASSUME NEW w \in Callers, Take(w) PROVE ConsumedOnce'
  <2>1. CASE UNCHANGED <<pending, loaded, rows, consumed, settled, excused>>
    BY <1>2, <2>1, TakeOne DEF IInv, ConsumedOnce, WaitingUnused, TypeOK
  <2>2. ASSUME NEW p \in Requests, Consumes(w, p) PROVE ConsumedOnce'
    BY <1>2, <2>2, TakeOne DEF IInv, Consumes, ConsumedOnce, WaitingUnused, TypeOK
  <2>. QED BY <1>2, <2>1, <2>2, TakeOne DEF IInv
<1>3. ASSUME ResetMemory PROVE ConsumedOnce'
  BY <1>3 DEF ResetMemory, Drops, IInv, TypeOK, ConsumedOnce, Running
<1>4. CASE \/ \E r \in Requests, h \in Hashes, kind \in Kinds, lag \in 0 .. MaxLag : PassGates(r, h, kind, lag)
           \/ \E r \in Requests : AddPendingRequest(r) \/ Admit(r)
           \/ \E w \in Callers, r \in Requests : Claim(w, r)
           \/ \E k \in Keys, h \in Hashes : UpsertPolicy(k, h)
           \/ \E k \in Keys, deleted \in BOOLEAN : ResetRows(k, deleted)
           \/ \E force \in BOOLEAN : CopyMarkers(force)
           \/ Checkpoint \/ CloseAdmissions \/ CloseUsage \/ (EndProcess /\ Running) \/ Open \/ Tick \/ UNCHANGED vars
  <2>1. UNCHANGED <<consumed, excused>>
    BY <1>4 DEF PassGates, AddPendingRequest, Admit,
       Claim, UpsertPolicy, ResetRows, CopyMarkers, Checkpoint, CloseAdmissions, CloseUsage,
       EndProcess, Open, Tick, vars, AddUnchanged, history
  <2>. QED BY <2>1 DEF IInv, ConsumedOnce
<1>. QED BY <1>1, <1>2, <1>3, <1>4, StepCases

LEMMA MarkersAccountedStep == IInv /\ [Next]_vars => MarkersAccounted'
<1>. SUFFICES ASSUME IInv, [Next]_vars PROVE MarkersAccounted'
  OBVIOUS
<1>1. ASSUME NEW r \in Requests, NEW h \in Hashes, NEW kind \in Kinds, NEW lag \in 0 .. MaxLag,
             PassGates(r, h, kind, lag) PROVE MarkersAccounted'
  BY <1>1 DEF PassGates, IInv, TypeOK, MarkersAccounted, Unmarked, Ended, Running,
    Admitting, memory, history
<1>2. ASSUME NEW r \in Requests, AddPendingRequest(r) PROVE MarkersAccounted'
  BY <1>2, PcMoves DEF AddPendingRequest, AddUnchanged, Expired, IInv, TypeOK,
    MarkersAccounted, Unmarked, Ended, Running, Admitting
<1>3. ASSUME NEW r \in Requests, Admit(r) PROVE MarkersAccounted'
  BY <1>3, PcMoves DEF Admit, IInv, TypeOK, MarkersAccounted, Unmarked, Ended, Running,
    Admitting, memory, history
<1>4. ASSUME NEW r \in Requests, AdmitFails(r) PROVE MarkersAccounted'
  BY <1>4, PcMoves DEF AdmitFails, Forget, Drops, Last, IInv, TypeOK, MarkersAccounted,
    Unmarked, Ended, Running, Admitting
<1>5. ASSUME NEW w \in Callers, Take(w) PROVE MarkersAccounted'
  <2>1. CASE UNCHANGED <<pending, loaded, rows, consumed, settled, excused>>
    BY <1>5, <2>1, TakeOne DEF IInv, MarkersAccounted, TypeOK
  <2>2. ASSUME NEW p \in Requests, Consumes(w, p) PROVE MarkersAccounted'
    BY <1>5, <2>2, TakeOne DEF IInv, Consumes, MarkersAccounted, TypeOK
  <2>. QED BY <1>5, <2>1, <2>2, TakeOne DEF IInv
<1>6. ASSUME NEW k \in Keys, NEW deleted \in BOOLEAN, ResetRows(k, deleted) PROVE MarkersAccounted'
  BY <1>6 DEF ResetRows, IInv, TypeOK, MarkersAccounted, Unmarked, Ended, Running,
    Admitting, history
<1>7. ASSUME ResetMemory PROVE MarkersAccounted'
  BY <1>7 DEF ResetMemory, Forget, IInv, TypeOK, MarkersAccounted, Unmarked, Ended, Running,
    Admitting
<1>8. ASSUME NEW force \in BOOLEAN, CopyMarkers(force) PROVE MarkersAccounted'
  BY <1>8 DEF CopyMarkers, IInv, TypeOK, MarkersAccounted, Unmarked, Ended, Running,
    Admitting, history
<1>9. ASSUME Checkpoint PROVE MarkersAccounted'
  BY <1>9 DEF Checkpoint, IInv, TypeOK, MarkersAccounted, Unmarked, Ended, Running,
    Admitting, memory, history
<1>10. ASSUME CloseAdmissions \/ CloseUsage PROVE MarkersAccounted'
  BY <1>10 DEF CloseAdmissions, CloseUsage, IInv, TypeOK, MarkersAccounted, Unmarked, Ended,
    Running, Admitting, memory, history
<1>11. ASSUME EndProcess, Running PROVE MarkersAccounted'
  BY <1>11, EndMoves DEF EndProcess, IInv, TypeOK, MarkersAccounted, Unmarked, Ended,
    Running, Admitting
<1>12. ASSUME Open PROVE MarkersAccounted'
  BY <1>12 DEF Open, IInv, TypeOK, MarkersAccounted, Unmarked, Ended, Running, Admitting
<1>13. CASE \/ \E w \in Callers, r \in Requests : Claim(w, r)
            \/ \E k \in Keys, h \in Hashes : UpsertPolicy(k, h)
            \/ Tick \/ UNCHANGED vars
  <2>1. UNCHANGED <<req, pending, consumed, expired, discarded, lost, engine, rows>>
    BY <1>13 DEF
       Claim, UpsertPolicy, Tick, vars, memory, history
  <2>. QED BY <2>1 DEF IInv, MarkersAccounted, Running
<1>. QED BY <1>1, <1>2, <1>3, <1>4, <1>5, <1>6, <1>7, <1>8, <1>9, <1>10, <1>11, <1>12,
          <1>13, StepCases

LEMMA BindingStableStep == IInv /\ [Next]_vars => BindingStable'
<1>. SUFFICES ASSUME IInv, [Next]_vars PROVE BindingStable'
  OBVIOUS
<1>1. ASSUME NEW r \in Requests, NEW h \in Hashes, NEW kind \in Kinds, NEW lag \in 0 .. MaxLag,
             PassGates(r, h, kind, lag) PROVE BindingStable'
  BY <1>1 DEF PassGates, IInv, TypeOK, MapsFollow, BindingStable, Running, Admitting, memory, history
<1>2. ASSUME NEW r \in Requests, AddPendingRequest(r) PROVE BindingStable'
  BY <1>2, PcMoves DEF AddPendingRequest, AddUnchanged, Expired, IInv, TypeOK,
    BindingStable, Running, Admitting
<1>3. ASSUME NEW r \in Requests, Admit(r) PROVE BindingStable'
  BY <1>3, PcMoves DEF Admit, IInv, TypeOK, BindingStable, Running, Admitting, memory,
    history
<1>4. ASSUME NEW r \in Requests, AdmitFails(r) PROVE BindingStable'
  BY <1>4, PcMoves DEF AdmitFails, Forget, Drops, Last, IInv, TypeOK, BindingStable,
    Running, Admitting
<1>5. ASSUME NEW w \in Callers, Take(w) PROVE BindingStable'
  <2>1. CASE UNCHANGED <<pending, loaded, rows, consumed, settled, excused>>
    BY <1>5, <2>1, TakeOne DEF IInv, BindingStable, TypeOK, Admitting
  <2>2. ASSUME NEW p \in Requests, Consumes(w, p) PROVE BindingStable'
    BY <1>5, <2>2, TakeOne DEF IInv, Consumes, BindingStable, TypeOK, Admitting
  <2>. QED BY <1>5, <2>1, <2>2, TakeOne DEF IInv
<1>6. ASSUME NEW k \in Keys, NEW h \in Hashes, UpsertPolicy(k, h) PROVE BindingStable'
  <2>1. Admitting' = {} /\ UNCHANGED <<req, pending, excused, orphaned>>
    BY <1>6 DEF UpsertPolicy, AdminLocked, memory, history, Admitting
  <2>2. /\ \A i \in Hashes : owner'[i] = IF i = h THEN k ELSE IF owner[i] = k THEN None ELSE owner[i]
        /\ owner[h] = None
        /\ PolicyOf(k) = {} \/ ~ \E p \in pending : req[p].key = k
    BY <1>6 DEF UpsertPolicy, Rebound
  <2>3. keyRows' = owner'
    BY <1>6 DEF UpsertPolicy, AdminLocked, IInv, MapsFollow
  <2>4. ASSUME NEW r \in pending, r \notin excused \cup orphaned PROVE owner'[req[r].hash] = req[r].key
    <3>1. r \in Requests /\ req[r].pc # "unsent"
      BY DEF IInv, TypeOK, Unmarked
    <3>2. req[r].key \in Keys /\ req[r].hash \in Hashes
      BY <3>1 DEF IInv, Unmarked
    <3>3. owner[req[r].hash] = req[r].key /\ req[r].key # None
      BY <3>1, <3>2, <2>4, MarkerAssumption DEF IInv, BindingStable
    <3>4. req[r].key # k
      BY <2>2, <3>2, <3>3 DEF PolicyOf
    <3>. QED BY <2>2, <3>2, <3>3, <3>4
  <2>. QED BY <2>1, <2>3, <2>4 DEF BindingStable
<1>7. ASSUME ResetMemory PROVE BindingStable'
  <2>1. /\ admin # None /\ UNCHANGED <<req, keyRows, orphaned>> /\ excused \subseteq excused'
        /\ pending' = {p \in pending : req[p].key # admin}
        /\ owner' = IF deletes THEN Removed(owner, admin) ELSE owner
    BY <1>7 DEF ResetMemory, Forget, Drops
  <2>2. Admitting' = {}
    BY <2>1 DEF IInv, Alone, Admitting
  <2>3. keyRows' = owner'
    BY <1>7, <2>1 DEF ResetMemory, IInv, MapsFollow
  <2>4. ASSUME NEW r \in pending', r \notin excused' \cup orphaned' PROVE owner'[req[r].hash] = req[r].key
    <3>1. r \in pending /\ r \notin excused \cup orphaned /\ req[r].key # admin
      BY <2>1, <2>4
    <3>2. r \in Requests /\ req[r].pc # "unsent"
      BY <3>1 DEF IInv, TypeOK, Unmarked
    <3>3. owner[req[r].hash] = req[r].key /\ req[r].hash \in Hashes
      BY <3>1, <3>2 DEF IInv, BindingStable, Unmarked
    <3>. QED BY <2>1, <3>1, <3>3 DEF Removed
  <2>. QED BY <2>1, <2>2, <2>3, <2>4 DEF BindingStable
<1>8. ASSUME EndProcess, Running PROVE BindingStable'
  BY <1>8, EndMoves DEF EndProcess, IInv, TypeOK, BindingStable, Running, Admitting
<1>9. ASSUME Open PROVE BindingStable'
  <2>1. /\ ~Running /\ UNCHANGED <<req, keyRows, excused, orphaned>> /\ owner' = keyRows
        /\ pending' = {r \in rows : req[r].at >= now - MarkerTTL}
    BY <1>9 DEF Open, Running
  <2>2. Admitting' = {}
    BY <2>1 DEF IInv, Ended, Admitting
  <2>3. ASSUME NEW r \in pending' PROVE keyRows[req[r].hash] = req[r].key \/ r \in excused \cup orphaned
    <3>1. r \in rows /\ req[r].at >= now - MarkerTTL /\ r \in Requests
      BY <2>1 DEF IInv, TypeOK
    <3>2. r \notin expired
      <4>1. req[r].at \in Int /\ now \in Int
        BY <3>1, MarkerAssumption DEF IInv, TypeOK, Request, Bounded
      <4>. QED BY <3>1, <4>1, MarkerAssumption DEF IInv, ExpiredOld
    <3>. QED BY <2>1, <3>1, <3>2 DEF IInv, StoredBound
  <2>. QED BY <2>1, <2>2, <2>3 DEF BindingStable
<1>10. ASSUME NEW k \in Keys, NEW deleted \in BOOLEAN, ResetRows(k, deleted) PROVE BindingStable'
  <2>1. UNCHANGED <<req, pending, owner, excused, orphaned>> /\ admin' # None
    BY <1>10, MarkerAssumption DEF ResetRows, history
  <2>. QED BY <2>1 DEF IInv, BindingStable, Admitting
<1>11. CASE \/ \E w \in Callers, r \in Requests : Claim(w, r)
            \/ \E force \in BOOLEAN : CopyMarkers(force)
            \/ Checkpoint \/ CloseAdmissions \/ CloseUsage \/ Tick \/ UNCHANGED vars
  <2>1. UNCHANGED <<req, pending, owner, keyRows, admin, excused, orphaned>>
    BY <1>11 DEF Claim, CopyMarkers, Checkpoint, CloseAdmissions, CloseUsage, Tick, vars,
       memory, history
  <2>. QED BY <2>1 DEF IInv, BindingStable, Admitting
<1>. QED BY <1>1, <1>2, <1>3, <1>4, <1>5, <1>6, <1>7, <1>8, <1>9, <1>10, <1>11, StepCases


\* A loaded marker stays when an admission fails (OwnMarker).
LEMMA FreshFirst ==
  ASSUME IInv, NEW r \in Requests, req[r].pc = "marked",
         NEW p \in Last({q \in pending : SameFields(q, r)})
  PROVE  p \notin loaded
<1>. SUFFICES ASSUME p \in loaded PROVE FALSE
  OBVIOUS
<1>1. p \in Requests /\ SameFields(p, r) /\ SameFields(r, p)
  BY DEF Last, SameFields, IInv, TypeOK
<1>2. FreshLike(p) = {}
  BY <1>1 DEF FreshLike, Last, SameFields
<1>3. r \in MarkedLike(p) /\ IsFiniteSet(MarkedLike(p))
  BY <1>1, Finite DEF MarkedLike
<1>4. Cardinality(MarkedLike(p)) \in Nat /\ Cardinality(MarkedLike(p)) # 0
  BY <1>3, FS_CardinalityType, FS_EmptySet
<1>5. Cardinality(MarkedLike(p)) <= 0
  BY <1>2, FS_EmptySet DEF IInv, OwnMarker
<1>. QED BY <1>4, <1>5

LEMMA NoStaleRowsStep == IInv /\ [Next]_vars => NoStaleRows'
<1>. SUFFICES ASSUME IInv, [Next]_vars PROVE NoStaleRows'
  OBVIOUS
<1>1. ASSUME NEW r \in Requests, AddPendingRequest(r) PROVE NoStaleRows'
  BY <1>1, PcMoves DEF AddPendingRequest, AddUnchanged, Expired, IInv, TypeOK, NoStaleRows,
    RowsLoaded, CopyTrue, Running, ClosingDown
<1>2. ASSUME NEW r \in Requests, AdmitFails(r) PROVE NoStaleRows'
  <2>1. UNCHANGED <<rows, engine, expired>> /\ Running
    BY <1>2 DEF AdmitFails
  <2>2. CASE pending' = pending /\ excused' = excused
    BY <2>1, <2>2 DEF IInv, NoStaleRows, Running
  <2>3. ASSUME NEW p \in Last({q \in pending : SameFields(q, r)}), Forget({p}), Drops({p})
        PROVE  NoStaleRows'
    <3>1. p \notin loaded /\ p \in pending
      BY <1>2, <2>3, FreshFirst DEF AdmitFails, Last
    <3>2. ClosingDown \/ p \notin rows
      BY <2>1, <3>1 DEF IInv, TypeOK, RowsLoaded, ClosingDown, Running
    <3>. QED BY <2>1, <2>3, <3>2 DEF IInv, NoStaleRows, Drops, Forget, Running
  <2>. QED BY <1>2, <2>2, <2>3 DEF AdmitFails
<1>3. ASSUME NEW w \in Callers, Take(w) PROVE NoStaleRows'
  <2>1. CASE UNCHANGED <<pending, loaded, rows, consumed, settled, excused>>
    BY <1>3, <2>1, TakeOne DEF IInv, NoStaleRows, RowsLoaded, TypeOK
  <2>2. ASSUME NEW p \in Requests, Consumes(w, p) PROVE NoStaleRows'
    BY <1>3, <2>2, TakeOne DEF IInv, Consumes, NoStaleRows, RowsLoaded, TypeOK, Running, ClosingDown, RowsWithout
  <2>. QED BY <1>3, <2>1, <2>2, TakeOne DEF IInv
<1>4. ASSUME NEW k \in Keys, NEW deleted \in BOOLEAN, ResetRows(k, deleted) PROVE NoStaleRows'
  BY <1>4 DEF ResetRows, IInv, TypeOK, NoStaleRows, RowsLoaded, CopyTrue, Running,
    ClosingDown, history
<1>5. ASSUME ResetMemory PROVE NoStaleRows'
  <2>1. /\ UNCHANGED <<rows, engine, expired>> /\ Running /\ admin # None
        /\ pending' = {p \in pending : req[p].key # admin}
        /\ Drops({p \in pending : req[p].key = admin})
    BY <1>5 DEF ResetMemory, Forget
  <2>2. ClosingDown \/ \A p \in rows : req[p].key # admin
    BY <2>1 DEF IInv, TypeOK, Alone, ClosingDown, Running
  <2>. QED BY <2>1, <2>2 DEF IInv, NoStaleRows, Drops, Running
<1>6. ASSUME NEW force \in BOOLEAN, CopyMarkers(force) PROVE NoStaleRows'
  BY <1>6 DEF CopyMarkers, IInv, TypeOK, NoStaleRows, RowsLoaded, CopyTrue, Running,
    ClosingDown, history
<1>7. ASSUME Checkpoint PROVE NoStaleRows'
  BY <1>7 DEF Checkpoint, IInv, TypeOK, NoStaleRows, RowsLoaded, CopyTrue, Running,
    ClosingDown, memory, history
<1>8. ASSUME CloseAdmissions \/ CloseUsage PROVE NoStaleRows'
  BY <1>8 DEF CloseAdmissions, CloseUsage, IInv, TypeOK, NoStaleRows, RowsLoaded, CopyTrue,
    Running, ClosingDown, memory, history
<1>9. ASSUME EndProcess, Running PROVE NoStaleRows'
  BY <1>9, EndMoves DEF EndProcess, IInv, TypeOK, NoStaleRows, RowsLoaded, CopyTrue,
    Running, ClosingDown
<1>10. ASSUME Open PROVE NoStaleRows'
  BY <1>10 DEF Open, IInv, TypeOK, NoStaleRows, RowsLoaded, CopyTrue, Running, ClosingDown
<1>11. CASE \/ \E r \in Requests, h \in Hashes, kind \in Kinds, lag \in 0 .. MaxLag : PassGates(r, h, kind, lag)
            \/ \E r \in Requests : Admit(r)
            \/ \E w \in Callers, r \in Requests : Claim(w, r)
            \/ \E k \in Keys, h \in Hashes : UpsertPolicy(k, h)
            \/ Tick \/ UNCHANGED vars
  <2>1. UNCHANGED <<engine, rows, pending, expired, excused>>
    BY <1>11 DEF PassGates,
       Admit, Claim, UpsertPolicy, Tick, vars, memory, history
  <2>. QED BY <2>1 DEF IInv, NoStaleRows, Running
<1>. QED BY <1>1, <1>2, <1>3, <1>4, <1>5, <1>6, <1>7, <1>8, <1>9, <1>10, <1>11, StepCases

LEMMA KnownStep == IInv /\ [Next]_vars => Known'
<1>. SUFFICES ASSUME IInv, [Next]_vars PROVE Known'
  OBVIOUS
<1>1. ASSUME NEW w \in Callers, NEW r \in Requests, Claim(w, r) PROVE Known'
  <2>. DEFINE known == {q \in Requests : recent[q] # 0}
              kept == IF Cardinality(known) >= MaxRecent THEN {q \in known : Remembered(q)} ELSE known
              record == Cardinality(kept) < MaxRecent
  <2>1. /\ ~Remembered(r) /\ settled' = settled /\ call[w].pc = "idle"
        /\ \A v \in Callers : call'[v] = IF v = w THEN [pc |-> "take", of |-> r] ELSE call[v]
    BY <1>1 DEF Claim, IInv, TypeOK, IdleCall
  <2>2. /\ \A q \in Requests : recent'[q] = IF q = r /\ record THEN now
                                           ELSE IF q \in kept THEN recent[q] ELSE 0
        /\ forgotten' = forgotten \cup OutOfWindow \cup (IF record THEN {} ELSE {r})
    BY <1>1 DEF Claim
  <2>3. now # 0 /\ \A q \in known : Remembered(q) => q \in kept
    BY MarkerAssumption DEF IInv, Bounded
  <2>. HIDE DEF kept, record
  <2>4. ASSUME NEW q \in Requests \ forgotten'
        PROVE  /\ q \in Requests \ forgotten /\ (recent[q] # 0 => Remembered(q) /\ q \in kept)
               /\ q = r => record /\ recent[q] = 0
    <3>1. q \notin forgotten /\ q \notin OutOfWindow /\ (q = r => record)
      BY <2>2, <2>4
    <3>2. recent[q] \in Int /\ now - DedupeTTL \in Int
      BY MarkerAssumption DEF IInv, TypeOK, Bounded
    <3>3. recent[q] # 0 => Remembered(q)
      BY <3>1, <3>2 DEF OutOfWindow, Remembered
    <3>. QED BY <2>1, <2>3, <3>1, <3>3
  <2>5. ASSUME NEW q \in Requests \ forgotten' PROVE recent[q] # 0 \/ q = r => recent'[q] # 0
    BY <2>2, <2>3, <2>4
  <2>6. ASSUME NEW q \in Requests \ forgotten', q # r
        PROVE  \A v \in Callers : call'[v].of = q /\ call'[v].pc = "take" =>
                                    v # w /\ call[v].of = q /\ call[v].pc = "take"
    BY <2>1, <2>6
  <2>7. ASSUME r \notin forgotten'
        PROVE  /\ settled[r] = 0
               /\ \A v \in Callers : call'[v].of = r /\ call'[v].pc = "take" => v = w
    <3>1. r \in Requests \ forgotten /\ recent[r] = 0
      BY <2>4, <2>7
    <3>2. settled[r] \in Nat /\ settled[r] <= 1
      BY <3>1 DEF IInv, Known, TypeOK
    <3>. QED BY <2>1, <3>1, <3>2 DEF IInv, Known
  <2>8. ASSUME NEW q \in Requests \ forgotten'
        PROVE  /\ settled'[q] <= 1 /\ (settled'[q] > 0 => recent'[q] # 0)
               /\ \A v \in Callers : call'[v].of = q /\ call'[v].pc = "take" => settled'[q] = 0 /\ recent'[q] # 0
               /\ \A u, v \in Callers : /\ call'[u].of = q /\ call'[v].of = q
                                        /\ call'[u].pc = "take" /\ call'[v].pc = "take"
                                        => u = v
    <3>1. CASE q = r
      BY <2>1, <2>5, <2>7, <2>8, <3>1
    <3>2. CASE q # r
      BY <2>1, <2>4, <2>5, <2>6, <2>8, <3>2 DEF IInv, Known
    <3>. QED BY <3>1, <3>2
  <2>. QED BY <2>8 DEF Known
<1>2. ASSUME NEW w \in Callers, Take(w) PROVE Known'
  <2>. DEFINE r == call[w].of
  <2>1. /\ UNCHANGED <<recent, forgotten>> /\ call[w].pc = "take"
        /\ \A v \in Callers : call'[v] = IF v = w THEN IdleCall ELSE call[v]
    BY <1>2, TakeOne DEF IInv
  <2>2. \A q \in Requests : settled'[q] = settled[q] \/ (q = r /\ settled'[q] = settled[q] + 1)
    BY <1>2, TakeOne DEF IInv, Consumes
  <2>3. ASSUME NEW q \in Requests \ forgotten
        PROVE  /\ settled'[q] <= 1 /\ (settled'[q] > 0 => recent[q] # 0)
               /\ \A v \in Callers : v # w /\ call[v].of = q /\ call[v].pc = "take" => settled'[q] = 0
    <3>1. settled[q] \in Nat
      BY DEF IInv, TypeOK
    <3>2. CASE q = r
      <4>1. settled[q] = 0 /\ recent[q] # 0
        BY <2>1, <3>2 DEF IInv, Known
      <4>2. \A v \in Callers : call[v].of = q /\ call[v].pc = "take" => v = w
        BY <2>1, <3>2 DEF IInv, Known
      <4>. QED BY <2>2, <4>1, <4>2
    <3>3. CASE q # r
      BY <2>2, <3>3 DEF IInv, Known
    <3>. QED BY <3>2, <3>3
  <2>4. \A v \in Callers : call'[v].pc = "take" => v # w /\ call'[v] = call[v]
    BY <2>1 DEF IdleCall
  <2>. QED BY <2>1, <2>3, <2>4 DEF IInv, Known
<1>3. ASSUME EndProcess, Running PROVE Known'
  <2>1. /\ \A w \in Callers : call'[w].pc # "take"
        /\ forgotten' = {q \in Requests : req[q].pc # "unsent"} /\ settled' = settled
    BY <1>3 DEF EndProcess, IdleCall
  <2>2. \A q \in Requests \ forgotten' : settled'[q] = 0
    BY <2>1 DEF IInv, Unmarked
  <2>. QED BY <2>1, <2>2 DEF Known
<1>4. CASE \/ \E r \in Requests, h \in Hashes, kind \in Kinds, lag \in 0 .. MaxLag : PassGates(r, h, kind, lag)
           \/ \E r \in Requests : AddPendingRequest(r) \/ Admit(r) \/ AdmitFails(r)
           \/ \E k \in Keys, h \in Hashes : UpsertPolicy(k, h)
           \/ \E k \in Keys, deleted \in BOOLEAN : ResetRows(k, deleted)
           \/ ResetMemory
           \/ \E force \in BOOLEAN : CopyMarkers(force)
           \/ Checkpoint \/ CloseAdmissions \/ CloseUsage \/ Open \/ Tick \/ UNCHANGED vars
  <2>1. UNCHANGED <<forgotten, settled, call, recent>>
    BY <1>4 DEF PassGates,
       AddPendingRequest, Admit, AdmitFails, UpsertPolicy, ResetRows, ResetMemory,
       CopyMarkers, Checkpoint, CloseAdmissions, CloseUsage, Open, Tick, vars, AddUnchanged,
       memory, history
  <2>. QED BY <2>1 DEF IInv, Known
<1>. QED BY <1>1, <1>2, <1>3, <1>4, StepCases


\* The two ways in which a step keeps OwnMarker of a marker.
LEMMA OwnStays ==
  ASSUME TypeOK, OwnMarker, NEW p \in loaded,
         MarkedLike(p)' \subseteq MarkedLike(p), FreshLike(p)' = FreshLike(p)
  PROVE  Cardinality(MarkedLike(p)') <= Cardinality(FreshLike(p)')
<1>1. MarkedLike(p) \in SUBSET Requests /\ FreshLike(p) \in SUBSET Requests
  BY DEF MarkedLike, FreshLike, TypeOK
<1>2. /\ IsFiniteSet(MarkedLike(p)) /\ IsFiniteSet(FreshLike(p))
      /\ Cardinality(MarkedLike(p)) <= Cardinality(FreshLike(p))
  BY <1>1, Finite DEF OwnMarker
<1>3. Cardinality(MarkedLike(p)') <= Cardinality(MarkedLike(p)) /\ IsFiniteSet(MarkedLike(p)')
  BY <1>2, FS_Subset
<1>4. /\ Cardinality(MarkedLike(p)') \in Nat /\ Cardinality(MarkedLike(p)) \in Nat
      /\ Cardinality(FreshLike(p)) \in Nat
  BY <1>2, <1>3, FS_CardinalityType
<1>. QED BY <1>2, <1>3, <1>4

LEMMA OwnAdds ==
  ASSUME NEW S \in SUBSET Requests, NEW T \in SUBSET Requests, NEW r \in Requests,
         r \notin S, r \notin T, Cardinality(S) <= Cardinality(T)
  PROVE  Cardinality(S \cup {r}) <= Cardinality(T \cup {r})
<1>1. IsFiniteSet(S) /\ IsFiniteSet(T)
  BY Finite
<1>2. Cardinality(S) \in Nat /\ Cardinality(T) \in Nat
  BY <1>1, FS_CardinalityType
<1>3. Cardinality(S \cup {r}) = Cardinality(S) + 1 /\ Cardinality(T \cup {r}) = Cardinality(T) + 1
  BY <1>1, FS_AddElement
<1>. QED BY <1>2, <1>3

LEMMA OwnDrops ==
  ASSUME NEW S \in SUBSET Requests, NEW T \in SUBSET Requests, NEW r \in S, NEW t \in T,
         Cardinality(S) <= Cardinality(T)
  PROVE  Cardinality(S \ {r}) <= Cardinality(T \ {t})
<1>1. IsFiniteSet(S) /\ IsFiniteSet(T)
  BY Finite
<1>2. Cardinality(S) \in Nat /\ Cardinality(T) \in Nat
  BY <1>1, FS_CardinalityType
<1>3. Cardinality(S \ {r}) = Cardinality(S) - 1 /\ Cardinality(T \ {t}) = Cardinality(T) - 1
  BY <1>1, FS_RemoveElement
<1>. QED BY <1>2, <1>3

LEMMA OwnMarkerStep == IInv /\ [Next]_vars => OwnMarker'
<1>. SUFFICES ASSUME IInv, [Next]_vars PROVE OwnMarker'
  OBVIOUS
<1>1. ASSUME NEW r \in Requests, NEW h \in Hashes, NEW kind \in Kinds, NEW lag \in 0 .. MaxLag,
             PassGates(r, h, kind, lag) PROVE OwnMarker'
  <2>. SUFFICES ASSUME NEW p \in loaded' PROVE Cardinality(MarkedLike(p)') <= Cardinality(FreshLike(p)')
    BY DEF OwnMarker
  <2>1. /\ UNCHANGED <<pending, loaded>> /\ req'[r].pc = "passed"
        /\ \A q \in Requests : q # r => req'[q] = req[q]
    BY <1>1 DEF PassGates, memory, IInv, TypeOK
  <2>2. p \in loaded /\ p \in Requests /\ r \notin pending
    BY <1>1, <2>1 DEF PassGates, IInv, TypeOK, Unmarked
  <2>3. MarkedLike(p)' \subseteq MarkedLike(p)
    BY <2>1, <2>2 DEF MarkedLike, SameFields, IInv, TypeOK
  <2>4. FreshLike(p)' = FreshLike(p)
    BY <2>1, <2>2 DEF FreshLike, SameFields, IInv, TypeOK
  <2>. QED BY <2>2, <2>3, <2>4, OwnStays DEF IInv
<1>2. ASSUME NEW r \in Requests, AddPendingRequest(r) PROVE OwnMarker'
  <2>. SUFFICES ASSUME NEW p \in loaded' PROVE Cardinality(MarkedLike(p)') <= Cardinality(FreshLike(p)')
    BY DEF OwnMarker
  <2>1. /\ r \notin pending /\ p \in Requests /\ p \in loaded /\ p \in pending /\ p \notin Expired(r)
        /\ loaded' = loaded \ Expired(r) /\ Expired(r) \subseteq pending /\ pending \subseteq Requests
        /\ req[r].pc = "passed"
    BY <1>2 DEF AddPendingRequest, IInv, TypeOK, Unmarked, Expired
  <2>2. \A q \in pending : SameFields(q, p) => q \notin Expired(r)
    BY <2>1 DEF SameFields, Expired
  <2>3. /\ \A q \in Requests : /\ SameFields(q, p)' <=> SameFields(q, p)
                               /\ q # r => req'[q] = req[q]
        /\ req'[r].pc \in {"marked", "blocked"}
    <3>1. ASSUME NEW pc \in {"marked", "blocked"}, req' = [req EXCEPT ![r].pc = pc]
          PROVE  /\ \A q \in Requests : /\ SameFields(q, p)' <=> SameFields(q, p)
                                        /\ q # r => req'[q] = req[q]
                 /\ req'[r].pc \in {"marked", "blocked"}
      <4>1. /\ req'[r].pc = pc
            /\ \A q \in Requests :
                 /\ q # r => req'[q] = req[q]
                 /\ req'[q].key = req[q].key /\ req'[q].kind = req[q].kind /\ req'[q].at = req[q].at
        BY <3>1, PcMoves DEF IInv
      <4>. QED BY <2>1, <4>1 DEF SameFields
    <3>2. \/ req' = [req EXCEPT ![r].pc = "marked"]
          \/ req' = [req EXCEPT ![r].pc = "blocked"]
      BY <1>2 DEF AddPendingRequest
    <3>. QED BY <3>1, <3>2
  <2>4. CASE pending' = (pending \ Expired(r)) \cup {r} /\ req'[r].pc = "marked"
    <3>1. CASE SameFields(r, p)
      <4>1. MarkedLike(p)' = MarkedLike(p) \cup {r} /\ r \notin MarkedLike(p)
        BY <2>1, <2>3, <2>4, <3>1 DEF MarkedLike
      <4>2. FreshLike(p)' = FreshLike(p) \cup {r} /\ r \notin FreshLike(p)
        BY <2>1, <2>2, <2>3, <2>4, <3>1 DEF FreshLike, IInv, TypeOK
      <4>3. MarkedLike(p) \in SUBSET Requests /\ FreshLike(p) \in SUBSET Requests
        BY <2>1 DEF MarkedLike, FreshLike
      <4>4. Cardinality(MarkedLike(p)) <= Cardinality(FreshLike(p))
        BY <2>1 DEF IInv, OwnMarker
      <4>. QED BY <4>1, <4>2, <4>3, <4>4, OwnAdds
    <3>2. CASE ~SameFields(r, p)
      <4>1. MarkedLike(p)' \subseteq MarkedLike(p)
        BY <2>1, <2>3, <3>2 DEF MarkedLike
      <4>2. FreshLike(p)' = FreshLike(p)
        BY <2>1, <2>2, <2>3, <2>4, <3>2 DEF FreshLike
      <4>. QED BY <2>1, <4>1, <4>2, OwnStays DEF IInv
    <3>. QED BY <3>1, <3>2
  <2>5. CASE pending' = pending \ Expired(r) /\ req'[r].pc = "blocked"
    <3>1. MarkedLike(p)' \subseteq MarkedLike(p)
      BY <2>1, <2>3, <2>5 DEF MarkedLike
    <3>2. FreshLike(p)' = FreshLike(p)
      BY <2>1, <2>2, <2>3, <2>5 DEF FreshLike
    <3>. QED BY <2>1, <3>1, <3>2, OwnStays DEF IInv
  <2>. QED BY <1>2, <2>4, <2>5, PcMoves DEF AddPendingRequest, IInv
<1>3. ASSUME NEW r \in Requests, Admit(r) PROVE OwnMarker'
  <2>. SUFFICES ASSUME NEW p \in loaded' PROVE Cardinality(MarkedLike(p)') <= Cardinality(FreshLike(p)')
    BY DEF OwnMarker
  <2>1. /\ UNCHANGED <<pending, loaded>> /\ p \in Requests /\ p \in loaded
    BY <1>3 DEF Admit, memory, IInv, TypeOK
  <2>2. \A q \in Requests : /\ SameFields(q, p)' <=> SameFields(q, p)
                            /\ req'[q].pc = "marked" => req[q].pc = "marked"
    BY <1>3, <2>1, PcMoves DEF Admit, IInv, SameFields
  <2>3. MarkedLike(p)' \subseteq MarkedLike(p) /\ FreshLike(p)' = FreshLike(p)
    BY <2>1, <2>2 DEF MarkedLike, FreshLike, IInv, TypeOK
  <2>. QED BY <2>1, <2>3, OwnStays DEF IInv
<1>4. ASSUME NEW r \in Requests, AdmitFails(r) PROVE OwnMarker'
  <2>. SUFFICES ASSUME NEW p \in loaded' PROVE Cardinality(MarkedLike(p)') <= Cardinality(FreshLike(p)')
    BY DEF OwnMarker
  <2>. DEFINE same == {q \in pending : SameFields(q, r)}
  <2>1. /\ req[r].pc = "marked" /\ p \in Requests /\ p \in loaded /\ pending \subseteq Requests
    BY <1>4 DEF AdmitFails, Forget, IInv, TypeOK
  <2>2. /\ \A q \in Requests : /\ SameFields(q, p)' <=> SameFields(q, p)
                               /\ q # r => req'[q] = req[q]
        /\ req'[r].pc = "blocked"
    BY <1>4, <2>1, PcMoves, ZenonT(30) DEF AdmitFails, IInv, SameFields
  <2>3. MarkedLike(p)' = MarkedLike(p) \ {r}
    BY <2>1, <2>2 DEF MarkedLike
  <2>4. CASE UNCHANGED <<pending, loaded>>
    <3>1. FreshLike(p)' = FreshLike(p)
      BY <2>1, <2>2, <2>4 DEF FreshLike
    <3>. QED BY <2>1, <2>3, <3>1, OwnStays DEF IInv
  <2>5. ASSUME NEW d \in Last(same), Forget({d}) PROVE Cardinality(MarkedLike(p)') <= Cardinality(FreshLike(p)')
    <3>1. d \in pending \ loaded /\ SameFields(d, r)
      BY <2>1, <2>5, FreshFirst DEF Last
    <3>2. FreshLike(p)' = FreshLike(p) \ {d}
      BY <2>1, <2>2, <2>5, <3>1 DEF FreshLike, Forget
    <3>3. CASE SameFields(r, p)
      <4>1. d \in FreshLike(p) /\ r \in MarkedLike(p)
        BY <2>1, <3>1, <3>3 DEF FreshLike, MarkedLike, SameFields
      <4>2. MarkedLike(p) \in SUBSET Requests /\ FreshLike(p) \in SUBSET Requests
        BY <2>1 DEF MarkedLike, FreshLike
      <4>3. Cardinality(MarkedLike(p)) <= Cardinality(FreshLike(p))
        BY <2>1 DEF IInv, OwnMarker
      <4>. QED BY <2>3, <3>2, <4>1, <4>2, <4>3, OwnDrops
    <3>4. CASE ~SameFields(r, p)
      <4>1. d \notin FreshLike(p)
        BY <3>1, <3>4 DEF FreshLike, SameFields
      <4>. QED BY <2>1, <2>3, <3>2, <4>1, OwnStays DEF IInv
    <3>. QED BY <3>3, <3>4
  <2>. QED BY <1>4, <2>4, <2>5 DEF AdmitFails
<1>5. ASSUME NEW w \in Callers, Take(w) PROVE OwnMarker'
  <2>. SUFFICES ASSUME NEW p \in loaded' PROVE Cardinality(MarkedLike(p)') <= Cardinality(FreshLike(p)')
    BY DEF OwnMarker
  <2>1. CASE UNCHANGED <<pending, loaded, rows, consumed, settled, excused>>
    <3>1. p \in loaded /\ MarkedLike(p)' = MarkedLike(p) /\ FreshLike(p)' = FreshLike(p)
      BY <1>5, <2>1, TakeOne DEF IInv, MarkedLike, FreshLike, SameFields
    <3>. QED BY <3>1, OwnStays DEF IInv
  <2>2. ASSUME NEW d \in Requests, Consumes(w, d)
        PROVE  Cardinality(MarkedLike(p)') <= Cardinality(FreshLike(p)')
    <3>1. /\ p \in loaded /\ p # d /\ p \in pending /\ req' = req
          /\ pending' = pending \ {d} /\ loaded' = loaded \ {d}
      BY <1>5, <2>2, TakeOne DEF IInv, Consumes, TypeOK
    <3>2. d \in loaded \/ ~SameFields(d, p)
      <4>. SUFFICES ASSUME d \notin loaded, SameFields(d, p) PROVE FALSE
        OBVIOUS
      <4>. DEFINE r == call[w].of
                  nearest == {q \in Compatible(r) : \A i \in Compatible(r) : Distance(q, r) <= Distance(i, r)}
      <4>1. d \in nearest /\ nearest \cap loaded = {}
        BY <2>2 DEF Consumes, Nearest, First
      <4>2. p \in Compatible(r) /\ Distance(p, r) = Distance(d, r)
        BY <3>1, <4>1 DEF Compatible, Distance, SameFields
      <4>. QED BY <3>1, <4>1, <4>2
    <3>3. MarkedLike(p)' = MarkedLike(p)
      BY <3>1 DEF MarkedLike, SameFields
    <3>4. FreshLike(p)' = FreshLike(p)
      BY <3>1, <3>2 DEF FreshLike, SameFields
    <3>. QED BY <3>1, <3>3, <3>4, OwnStays DEF IInv
  <2>. QED BY <1>5, <2>1, <2>2, TakeOne DEF IInv
<1>6. ASSUME ResetMemory PROVE OwnMarker'
  <2>. SUFFICES ASSUME NEW p \in loaded' PROVE Cardinality(MarkedLike(p)') <= Cardinality(FreshLike(p)')
    BY DEF OwnMarker
  <2>1. /\ pending' = {q \in pending : req[q].key # admin} /\ req' = req
        /\ loaded' = loaded \ {q \in pending : req[q].key = admin}
    BY <1>6 DEF ResetMemory, Forget
  <2>2. p \in loaded /\ p \in pending /\ req[p].key # admin
    BY <2>1 DEF IInv, TypeOK
  <2>3. MarkedLike(p)' = MarkedLike(p)
    BY <2>1 DEF MarkedLike, SameFields
  <2>4. FreshLike(p)' = FreshLike(p)
    BY <2>1, <2>2 DEF FreshLike, SameFields
  <2>. QED BY <2>2, <2>3, <2>4, OwnStays DEF IInv
<1>7. ASSUME EndProcess, Running PROVE OwnMarker'
  BY <1>7, EndMoves DEF EndProcess, IInv, OwnMarker, FreshLike, MarkedLike, SameFields
<1>8. ASSUME Open PROVE OwnMarker'
  <2>. SUFFICES ASSUME NEW p \in loaded' PROVE Cardinality(MarkedLike(p)') <= Cardinality(FreshLike(p)')
    BY DEF OwnMarker
  <2>1. ~Running /\ req' = req /\ pending' = loaded'
    BY <1>8 DEF Open, Running
  <2>2. MarkedLike(p)' = {} /\ FreshLike(p)' = {}
    BY <2>1 DEF IInv, Ended, Admitting, MarkedLike, FreshLike
  <2>. QED BY <2>2, FS_EmptySet
<1>9. CASE \/ \E w \in Callers, r \in Requests : Claim(w, r)
           \/ \E k \in Keys, h \in Hashes : UpsertPolicy(k, h)
           \/ \E k \in Keys, deleted \in BOOLEAN : ResetRows(k, deleted)
           \/ \E force \in BOOLEAN : CopyMarkers(force)
           \/ Checkpoint \/ CloseAdmissions \/ CloseUsage \/ Tick \/ UNCHANGED vars
  <2>1. UNCHANGED <<req, pending, loaded>>
    BY <1>9 DEF Claim, UpsertPolicy, ResetRows,
       CopyMarkers, Checkpoint, CloseAdmissions, CloseUsage, Tick, vars, memory
  <2>. QED BY <2>1 DEF IInv, OwnMarker, MarkedLike, FreshLike, SameFields
<1>. QED BY <1>1, <1>2, <1>3, <1>4, <1>5, <1>6, <1>7, <1>8, <1>9, StepCases
-----------------------------------------------------------------------------
(* The life of a marker.                                                    *)

\* Nothing is known of a marker that has not been left; and what was given up does
\* not wait.
NewUnknown == \A r \in Requests : req[r].pc \in {"unsent", "passed"} =>
                                    r \notin excused \cup discarded \cup lost
GivenUp == Waiting \cap Dropped = {}
LifeInv == IInv /\ NewUnknown /\ GivenUp

\* A request that leaves no marker yet is in no list of markers.
LEMMA NewUnknownStep == IInv /\ NewUnknown /\ [Next]_vars => NewUnknown'
<1>. SUFFICES ASSUME IInv, NewUnknown, [Next]_vars PROVE NewUnknown'
  OBVIOUS
<1>0. \A q \in pending : q \in Requests /\ req[q].pc \notin {"unsent", "passed"}
  BY DEF IInv, TypeOK, Unmarked
<1>1. ASSUME NEW r \in Requests, NEW h \in Hashes, NEW kind \in Kinds, NEW lag \in 0 .. MaxLag,
             PassGates(r, h, kind, lag) PROVE NewUnknown'
  BY <1>1 DEF PassGates, IInv, TypeOK, NewUnknown, history
<1>2. ASSUME NEW r \in Requests, AddPendingRequest(r) PROVE NewUnknown'
  BY <1>2, PcMoves DEF AddPendingRequest, AddUnchanged, IInv, NewUnknown
<1>3. ASSUME NEW r \in Requests, Admit(r) PROVE NewUnknown'
  BY <1>3, PcMoves DEF Admit, IInv, NewUnknown, history
<1>4. ASSUME NEW r \in Requests, AdmitFails(r) PROVE NewUnknown'
  <2>1. /\ lost' = lost
        /\ \/ UNCHANGED <<discarded, excused>>
           \/ \E p \in pending : discarded' = discarded \cup {p} /\ Drops({p})
    BY <1>4 DEF AdmitFails, Last
  <2>2. \A q \in Requests : req'[q].pc \in {"unsent", "passed"} => req[q].pc \in {"unsent", "passed"}
    BY <1>4, PcMoves DEF AdmitFails, IInv
  <2>. QED BY <1>0, <2>1, <2>2 DEF Drops, NewUnknown
<1>5. ASSUME NEW w \in Callers, Take(w) PROVE NewUnknown'
  BY <1>0, <1>5, TakeOne DEF IInv, Consumes, NewUnknown
<1>6. ASSUME ResetMemory PROVE NewUnknown'
  BY <1>0, <1>6 DEF ResetMemory, Drops, NewUnknown
<1>7. ASSUME EndProcess, Running PROVE NewUnknown'
  <2>1. lost' = lost \cup (pending \ rows) /\ UNCHANGED <<excused, discarded>>
    BY <1>7 DEF EndProcess
  <2>2. \A q \in Requests : req'[q].pc \in {"unsent", "passed"} => req[q].pc \in {"unsent", "passed"}
    BY <1>7, EndMoves DEF IInv
  <2>. QED BY <1>0, <2>1, <2>2 DEF NewUnknown
<1>8. CASE \/ \E w \in Callers, r \in Requests : Claim(w, r)
           \/ \E k \in Keys, h \in Hashes : UpsertPolicy(k, h)
           \/ \E k \in Keys, deleted \in BOOLEAN : ResetRows(k, deleted)
           \/ \E force \in BOOLEAN : CopyMarkers(force)
           \/ Checkpoint \/ CloseAdmissions \/ CloseUsage \/ Open \/ Tick \/ UNCHANGED vars
  <2>1. UNCHANGED <<req, excused, discarded, lost>>
    BY <1>8 DEF Claim, UpsertPolicy, ResetRows, CopyMarkers, Checkpoint, CloseAdmissions,
       CloseUsage, Open, Tick, vars, history
  <2>. QED BY <2>1 DEF NewUnknown
<1>. QED BY <1>1, <1>2, <1>3, <1>4, <1>5, <1>6, <1>7, <1>8, StepCases

\* The steps of MarkerLife do not disturb GivenUp.
LEMMA GivenUpStays ==
  ASSUME GivenUp, [Life!Next]_(Life!vars)
  PROVE  GivenUp'
<1>1. CASE UNCHANGED Life!vars
  BY <1>1 DEF Life!vars, GivenUp
<1>2. ASSUME NEW m \in Requests, Life!Use(m) PROVE GivenUp'
  BY <1>2 DEF Life!Use, GivenUp
<1>3. ASSUME NEW m \in Requests, NEW old \in SUBSET Waiting, Life!Leave(m, old) PROVE GivenUp'
  BY <1>3 DEF Life!Leave, GivenUp
<1>4. ASSUME NEW gone \in SUBSET Waiting, Life!Drop(gone) \/ Life!Doubt(gone) PROVE GivenUp'
  BY <1>4 DEF Life!Drop, Life!Doubt, GivenUp
<1>. QED BY <1>1, <1>2, <1>3, <1>4 DEF Life!Next

\* What a running engine waits for neither was used nor given up, unless in doubt.
LEMMA WaitingInRun ==
  ASSUME LifeInv, Running
  PROVE  /\ Waiting = pending \ excused
         /\ \A p \in Waiting : p \in Requests /\ p \notin Used /\ p \notin Dropped
BY DEF LifeInv, IInv, TypeOK, WaitingUnused, GivenUp, Waiting, Used

\* A marker that leaves memory comes into doubt while the engine closes, and is
\* given up otherwise.
LEMMA LeavesMemory ==
  ASSUME LifeInv, Running, Running', NEW S \in SUBSET pending, pending' = pending \ S,
         discarded' = discarded \cup S, Drops(S), UNCHANGED <<consumed, expired, lost>>
  PROVE  [Life!Next]_(Life!vars)
<1>. DEFINE gone == S \ excused
<1>1. Waiting = pending \ excused /\ Waiting' = pending' \ excused'
  BY WaitingInRun DEF Waiting
<1>2. gone \in SUBSET Waiting
  BY <1>1
<1>3. CASE ClosingDown
  <2>1. excused' = excused \cup S /\ excused' = excused \cup gone
    BY <1>3 DEF Drops
  <2>2. Used' = Used /\ Dropped' = Dropped /\ Waiting' = Waiting \ gone
    BY <1>1, <1>2, <2>1, WaitingInRun DEF Used, Dropped
  <2>3. Life!Doubt(gone)
    BY <1>2, <2>1, <2>2 DEF Life!Doubt
  <2>. QED BY <1>2, <2>3 DEF Life!Next
<1>4. CASE ~ClosingDown
  <2>1. excused' = excused
    BY <1>4 DEF Drops
  <2>2. Used' = Used /\ Dropped' = Dropped \cup gone /\ Waiting' = Waiting \ gone
    BY <1>1, <2>1 DEF Used, Dropped
  <2>3. Life!Drop(gone)
    BY <1>2, <2>1, <2>2 DEF Life!Drop
  <2>. QED BY <1>2, <2>3 DEF Life!Next
<1>. QED BY <1>3, <1>4

\* An admission leaves a marker, or finds no room; both give up the too old ones.
LEMMA AddStep ==
  ASSUME LifeInv, NEW r \in Requests, AddPendingRequest(r)
  PROVE  [Life!Next]_(Life!vars)
<1>. DEFINE old == Expired(r) \ excused
<1>1. /\ Running /\ Running' /\ req[r].pc = "passed"
      /\ UNCHANGED <<consumed, discarded, lost, excused>>
      /\ expired' = expired \cup Expired(r)
      /\ pending' = (pending \ Expired(r)) \cup {r} \/ pending' = pending \ Expired(r)
  BY DEF AddPendingRequest, AddUnchanged, Running
<1>2. Waiting = pending \ excused /\ Waiting' = pending' \ excused
  BY <1>1, WaitingInRun DEF Waiting
<1>3. old \in SUBSET Waiting /\ Expired(r) \subseteq pending
  BY <1>2 DEF Expired
<1>4. r \notin Waiting \cup Used \cup Dropped \cup excused
  BY <1>1, <1>2 DEF LifeInv, IInv, Unmarked, NewUnknown, Used, Dropped
<1>5. Used' = Used /\ Dropped' = Dropped \cup old
  BY <1>1 DEF Used, Dropped
<1>6. CASE pending' = (pending \ Expired(r)) \cup {r}
  <2>1. Waiting' = (Waiting \ old) \cup {r}
    BY <1>2, <1>4, <1>6
  <2>2. Life!Leave(r, old)
    BY <1>1, <1>3, <1>4, <1>5, <2>1 DEF Life!Leave
  <2>. QED BY <1>3, <2>2 DEF Life!Next
<1>7. CASE pending' = pending \ Expired(r)
  <2>1. Waiting' = Waiting \ old
    BY <1>2, <1>7
  <2>2. Life!Drop(old)
    BY <1>1, <1>3, <1>5, <2>1 DEF Life!Drop
  <2>. QED BY <1>3, <2>2 DEF Life!Next
<1>. QED BY <1>1, <1>6, <1>7

\* A callback uses a marker, or brings it into doubt, or finds none.
LEMMA TakeStep ==
  ASSUME LifeInv, NEW w \in Callers, Take(w)
  PROVE  [Life!Next]_(Life!vars)
<1>1. /\ Running /\ Running' /\ UNCHANGED <<expired, discarded, lost>>
      /\ consumed' \in [Requests -> Nat] /\ consumed \in [Requests -> Nat]
      /\ \/ UNCHANGED <<pending, consumed, excused>>
         \/ \E p \in Requests : Consumes(w, p)
  BY TakeOne DEF LifeInv, IInv, TypeOK
<1>2. Waiting = pending \ excused /\ Waiting' = pending' \ excused'
  BY <1>1, WaitingInRun DEF Waiting
<1>3. CASE UNCHANGED <<pending, consumed, excused>>
  BY <1>1, <1>2, <1>3 DEF Life!vars, Used, Dropped
<1>4. ASSUME NEW p \in Requests, Consumes(w, p) PROVE [Life!Next]_(Life!vars)
  <2>1. /\ p \in pending /\ pending' = pending \ {p}
        /\ \A q \in Requests : consumed'[q] = IF q = p THEN consumed[q] + 1 ELSE consumed[q]
        /\ excused' = excused \/ excused' = excused \cup {p}
    BY <1>4 DEF Consumes
  <2>2. \A q \in Requests \ {p} : consumed'[q] > 0 <=> consumed[q] > 0
    BY <2>1
  <2>3. consumed'[p] > 0
    BY <1>1, <2>1
  <2>4. CASE p \in excused
    <3>1. excused' = excused /\ Waiting' = Waiting
      BY <1>2, <2>1, <2>4
    <3>2. Used' = Used /\ Dropped' = Dropped
      BY <1>1, <2>2, <2>4, <3>1 DEF Used, Dropped
    <3>. QED BY <3>1, <3>2 DEF Life!vars
  <2>5. CASE p \notin excused /\ excused' = excused
    <3>1. p \in Waiting /\ Waiting' = Waiting \ {p}
      BY <1>2, <2>1, <2>5
    <3>2. Used' = Used \cup {p} /\ Dropped' = Dropped
      BY <1>1, <2>2, <2>3, <2>5 DEF Used, Dropped
    <3>3. Life!Use(p)
      BY <2>5, <3>1, <3>2 DEF Life!Use
    <3>. QED BY <3>3 DEF Life!Next
  <2>6. CASE p \notin excused /\ excused' = excused \cup {p}
    <3>1. p \in Waiting /\ Waiting' = Waiting \ {p} /\ {p} \in SUBSET Waiting
      BY <1>2, <2>1, <2>6
    <3>2. p \notin Used /\ p \notin Dropped
      BY <1>1, <3>1, WaitingInRun
    <3>3. Used' = Used /\ Dropped' = Dropped
      BY <1>1, <2>2, <2>6, <3>2 DEF Used, Dropped
    <3>4. Life!Doubt({p})
      BY <2>6, <3>1, <3>3 DEF Life!Doubt
    <3>. QED BY <3>1, <3>4 DEF Life!Next
  <2>. QED BY <2>1, <2>4, <2>5, <2>6
<1>. QED BY <1>1, <1>3, <1>4

\* What a process that ends has not stored is given up, and the rest waits.
LEMMA EndStep ==
  ASSUME LifeInv, EndProcess, Running
  PROVE  [Life!Next]_(Life!vars)
<1>. DEFINE gone == (pending \ rows) \ excused
<1>1. /\ ~Running' /\ lost' = lost \cup (pending \ rows)
      /\ UNCHANGED <<rows, consumed, expired, discarded, excused>>
  BY DEF EndProcess, Running
<1>2. Waiting = pending \ excused /\ Waiting' = (rows \ expired) \ excused
  BY <1>1, WaitingInRun DEF Waiting
<1>3. rows \subseteq pending \cup expired \cup excused
  BY DEF LifeInv, IInv, NoStaleRows
<1>4. \A p \in Waiting : p \notin expired
  BY <1>2, WaitingInRun DEF Dropped
<1>5. gone \in SUBSET Waiting /\ Waiting' = Waiting \ gone
  BY <1>2, <1>3, <1>4
<1>6. Used' = Used /\ Dropped' = Dropped \cup gone
  BY <1>1 DEF Used, Dropped
<1>7. Life!Drop(gone)
  BY <1>1, <1>5, <1>6 DEF Life!Drop
<1>. QED BY <1>5, <1>7 DEF Life!Next

\* What a restart finds too old is given up, and the rest waits on.
LEMMA OpenStep ==
  ASSUME LifeInv, Open
  PROVE  [Life!Next]_(Life!vars)
<1>. DEFINE young == {r \in rows : req[r].at >= now - MarkerTTL}
            gone == Waiting \ young
<1>1. /\ ~Running /\ Running' /\ pending' = young /\ expired' = expired \cup (rows \ young)
      /\ UNCHANGED <<consumed, discarded, lost, excused>>
  BY DEF Open, Running
<1>2. Waiting = (rows \ expired) \ excused /\ Waiting' = young \ excused
  BY <1>1 DEF Waiting
<1>3. \A r \in young : r \notin expired
  <2>1. \A r \in Requests : req[r].at \in Int
    BY MarkerAssumption DEF LifeInv, IInv, TypeOK, Request
  <2>2. now - MarkerTTL \in Int /\ rows \subseteq Requests
    BY MarkerAssumption DEF LifeInv, IInv, TypeOK, Bounded
  <2>. QED BY <2>1, <2>2 DEF LifeInv, IInv, ExpiredOld
<1>4. gone \in SUBSET Waiting /\ Waiting' = Waiting \ gone
  BY <1>2, <1>3
<1>5. Used' = Used /\ Dropped' = Dropped \cup gone
  BY <1>1, <1>2 DEF Used, Dropped
<1>6. Life!Drop(gone)
  BY <1>1, <1>4, <1>5 DEF Life!Drop
<1>. QED BY <1>4, <1>6 DEF Life!Next

\* Every step of the markers is a step of their life, or none.
LEMMA LifeStep == LifeInv /\ [Next]_vars => [Life!Next]_(Life!vars)
<1>. SUFFICES ASSUME LifeInv, [Next]_vars PROVE [Life!Next]_(Life!vars)
  OBVIOUS
<1>1. ASSUME NEW r \in Requests, AdmitFails(r) PROVE [Life!Next]_(Life!vars)
  <2>1. Running /\ Running' /\ UNCHANGED <<consumed, expired, lost>>
    BY <1>1 DEF AdmitFails, Running
  <2>2. CASE UNCHANGED <<pending, discarded, excused>>
    BY <2>1, <2>2 DEF Life!vars, Waiting, Used, Dropped
  <2>3. ASSUME NEW p \in Last({q \in pending : SameFields(q, r)}), Forget({p}),
               discarded' = discarded \cup {p}, Drops({p})
        PROVE  [Life!Next]_(Life!vars)
    <3>1. {p} \in SUBSET pending /\ pending' = pending \ {p}
      BY <2>3 DEF Last, Forget
    <3>. QED BY <2>1, <2>3, <3>1, LeavesMemory
  <2>. QED BY <1>1, <2>2, <2>3 DEF AdmitFails
<1>2. ASSUME ResetMemory PROVE [Life!Next]_(Life!vars)
  <2>. DEFINE gone == {p \in pending : req[p].key = admin}
  <2>1. /\ Running /\ Running' /\ UNCHANGED <<consumed, expired, lost>>
        /\ pending' = pending \ gone /\ discarded' = discarded \cup gone /\ Drops(gone)
    BY <1>2 DEF ResetMemory, Forget, Running
  <2>2. gone \in SUBSET pending
    OBVIOUS
  <2>. HIDE DEF gone
  <2>. QED BY <2>1, <2>2, LeavesMemory
<1>3. CASE \/ \E r \in Requests, h \in Hashes, kind \in Kinds, lag \in 0 .. MaxLag : PassGates(r, h, kind, lag)
           \/ \E r \in Requests : Admit(r)
           \/ \E w \in Callers, r \in Requests : Claim(w, r)
           \/ \E k \in Keys, h \in Hashes : UpsertPolicy(k, h)
           \/ \E k \in Keys, deleted \in BOOLEAN : ResetRows(k, deleted)
           \/ \E force \in BOOLEAN : CopyMarkers(force)
           \/ Checkpoint \/ CloseAdmissions \/ CloseUsage \/ Tick \/ UNCHANGED vars
  <2>1. /\ UNCHANGED <<pending, consumed, expired, discarded, lost, excused>>
        /\ Running' = Running /\ (Running \/ UNCHANGED rows)
    BY <1>3 DEF PassGates, Admit, Claim, UpsertPolicy, ResetRows, CopyMarkers, Checkpoint,
       CloseAdmissions, CloseUsage, Tick, vars, memory, history, Running, TakingCallbacks
  <2>. QED BY <2>1 DEF Life!vars, Waiting, Used, Dropped
<1>. QED BY <1>1, <1>2, <1>3, AddStep, TakeStep, EndStep, OpenStep, StepCases

-----------------------------------------------------------------------------
(* The theorems.                                                            *)

LEMMA IInvInit == Init => IInv
<1>. SUFFICES ASSUME Init PROVE IInv
  OBVIOUS
<1>1. req \in [Requests -> Request] /\ recent \in [Requests -> 0 .. MaxTime]
  BY MarkerAssumption DEF Init, Unsent, Request
<1>2. Cardinality({}) = 0
  BY FS_EmptySet
<1>3. TypeOK /\ Bounded
  <2>1. owner \in [Hashes -> Keys \cup {None}] /\ keyRows \in [Hashes -> Keys \cup {None}]
    BY DEF Init
  <2>2. call \in [Callers -> [pc : {"idle", "take"}, of : Requests \cup {None}]]
    BY DEF Init, IdleCall
  <2>3. consumed \in [Requests -> Nat] /\ settled \in [Requests -> Nat]
    BY DEF Init
  <2>4. /\ pending \subseteq Requests /\ loaded \subseteq pending /\ rows \subseteq Requests
        /\ snapshot \subseteq Requests /\ Cardinality(pending) <= MaxPending
    BY <1>2, MarkerAssumption DEF Init
  <2>5. expired \cup discarded \cup lost \cup excused \cup forgotten \cup orphaned \subseteq Requests
    BY DEF Init
  <2>6. /\ admin \in Keys \cup {None} /\ deletes \in BOOLEAN
        /\ engine \in {"open", "closing", "snapshot", "saved", "draining", "stopped"}
    BY DEF Init
  <2>7. TypeOK
    BY <1>1, <2>1, <2>2, <2>3, <2>4, <2>5, <2>6 DEF TypeOK
  <2>8. Bounded
    BY <1>2, MarkerAssumption DEF Init, Bounded, Unsent
  <2>. QED BY <2>7, <2>8
<1>4. Unmarked /\ LoadedEarlier /\ Ended /\ Alone /\ Known
  BY DEF Init, Unmarked, LoadedEarlier, Ended, Alone, Known, Running, Unsent, IdleCall
<1>5. /\ WaitingUnused /\ RowsLoaded /\ CopyTrue /\ ExpiredOld /\ MapsFollow /\ StoredBound
      /\ NoStaleRows /\ OwnMarker /\ ConsumedOnce
  BY DEF Init, WaitingUnused, RowsLoaded, CopyTrue, ExpiredOld, MapsFollow, StoredBound, NoStaleRows,
         OwnMarker, ConsumedOnce, Running
<1>6. MarkersAccounted /\ BindingStable
  BY DEF Init, MarkersAccounted, BindingStable, Admitting, Unsent
<1>. QED BY <1>3, <1>4, <1>5, <1>6 DEF IInv

\* Every reachable state of the markers satisfies the inductive invariant.
THEOREM IInvHolds == Spec => []IInv
<1>1. Init => IInv
  BY IInvInit
<1>2. IInv /\ [Next]_vars => IInv'
  BY TypeOKStep, BoundedStep, UnmarkedStep, LoadedEarlierStep, EndedStep, AloneStep,
     WaitingUnusedStep, RowsLoadedStep, CopyTrueStep, ExpiredOldStep, MapsFollowStep, StoredBoundStep,
     ConsumedOnceStep, NoStaleRowsStep, MarkersAccountedStep, BindingStableStep,
     OwnMarkerStep, KnownStep
  DEF IInv
<1>. QED BY <1>1, <1>2, PTL DEF Spec

\* The state has the types declared, and the list of waiting markers never
\* exceeds maxPendingDecisionLogs (engine.go:657-699), also right after Open.
THEOREM TypeCorrect == Spec => []TypeOK
<1>1. IInv => TypeOK
  BY DEF IInv
<1>. QED BY <1>1, IInvHolds, PTL

\* A marker settles one callback (engine.go:701-738, store_pending.go:11-92),
\* across reloads, crashes, resets and failed admissions.
THEOREM MarkerConsumedOnce == Spec => []ConsumedOnce
<1>1. IInv => ConsumedOnce
  BY DEF IInv
<1>. QED BY <1>1, IInvHolds, PTL

\* What a restart would load is what memory still waits for, or too old
\* (store_pending.go:11-42, 86-92).
THEOREM RowsNeverStale == Spec => []NoStaleRows
<1>1. IInv => NoStaleRows
  BY DEF IInv
<1>. QED BY <1>1, IInvHolds, PTL

\* No admitted request is forgotten without one of the causes the code has
\* (engine.go:657-755, 1276-1317).
THEOREM NoMarkerVanishes == Spec => []MarkersAccounted
<1>1. IInv => MarkersAccounted
  BY DEF IInv
<1>. QED BY <1>1, IInvHolds, PTL

\* The raw key a waiting request was admitted with stays with its Key, in memory
\* and in the table (panel.go:300-303, store.go:508-534), but for the rows of a Key
\* whose deletion a process did not finish.
THEOREM WaitingKeepsItsKey == Spec => []BindingStable
<1>1. IInv => BindingStable
  BY DEF IInv
<1>. QED BY <1>1, IInvHolds, PTL

\* Two deliveries of a callback settle once while the duplicate filter
\* remembers it (engine.go:958-982), with any number of concurrent callers.
THEOREM DeliveredTwiceSettlesOnce == Spec => []CallbackSettlesOnce
<1>1. IInv => CallbackSettlesOnce
  BY DEF IInv, Known, CallbackSettlesOnce
<1>. QED BY <1>1, IInvHolds, PTL

\* List, copy and rows together implement MarkerLife (engine.go:657-755, 1276-1317,
\* store_pending.go:11-92): a marker waits, over any number of reloads and crashes,
\* until one callback uses it or it is given up, and never again.
THEOREM MarkerLifeImplemented == Spec => ImplementsMarkerLife
<1>1. Init => Life!Init /\ NewUnknown /\ GivenUp
  <2>1. SUFFICES ASSUME Init PROVE Life!Init /\ NewUnknown /\ GivenUp
    OBVIOUS
  <2>2. \A r \in Requests : consumed[r] = 0
    BY <2>1 DEF Init
  <2>3. Waiting = {} /\ Used = {} /\ Dropped = {} /\ excused = {}
    BY <2>1, <2>2 DEF Init, Running, Waiting, Used, Dropped
  <2>. QED BY <2>1, <2>3 DEF Init, Life!Init, NewUnknown, GivenUp
<1>2. IInv /\ NewUnknown /\ GivenUp /\ [Next]_vars => NewUnknown' /\ GivenUp' /\ [Life!Next]_(Life!vars)
  BY NewUnknownStep, GivenUpStays, LifeStep DEF LifeInv
<1>. QED BY <1>1, <1>2, IInvHolds, PTL DEF Spec, ImplementsMarkerLife, Life!Spec
=============================================================================
