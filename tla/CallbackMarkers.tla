-------------------------- MODULE CallbackMarkers --------------------------
(***************************************************************************)
(* Callback markers of codex-carpool: how a terminal usage callback finds  *)
(* the request it settles (internal/quota/engine.go, store_pending.go,     *)
(* panel.go).                                                              *)
(*                                                                         *)
(* An admitted request leaves a marker in memory.  Its terminal callback   *)
(* takes the nearest compatible marker.  A conservative close copies the   *)
(* markers into pending_request_markers, from where the next Open loads    *)
(* them.  Admissions and callbacks hold adminMu for reading, policy        *)
(* changes hold it for writing, and close holds neither.                   *)
(*                                                                         *)
(* Abstractions: a marker is named by its request, whose attributes never  *)
(* change; one tick is the millisecond in which markers are stored; of the *)
(* order of the list only this is kept: loaded markers come first.         *)
(***************************************************************************)
EXTENDS Integers, FiniteSets

CONSTANTS
  Keys,         \* policy identifiers
  Hashes,       \* fingerprints of raw API keys
  Requests,     \* requests, each the name of its marker
  Kinds,        \* what callbacks are matched on: records [model, auth, managed]
  None,         \* no Key
  Callers,      \* threads that deliver terminal callbacks
  MaxPending,   \* maxPendingDecisionLogs, which also bounds the markers
  MaxRecent,    \* maxRecentUsageCallbacks
  MarkerTTL,    \* pendingRequestTTL
  DedupeTTL,    \* usageCallbackDedupeTTL
  MaxLag,       \* how much earlier than the marker CPA may date a request
  \* Bounds of the model, used in guards only:
  MaxTime, MaxCalls, MaxFailures, MaxOpens, MaxAdmin

ASSUME MarkerAssumption ==
  /\ IsFiniteSet(Requests)
  /\ None \notin Keys
  /\ MaxPending \in Nat /\ MaxRecent \in Nat
  /\ MarkerTTL \in Nat /\ DedupeTTL \in Nat /\ MaxLag \in Nat
  /\ MaxTime \in Nat \ {0}

VARIABLES
  req,          \* [Requests -> what admit knows of the request]
  pending,      \* engine.pendingRequests
  loaded,       \* the markers of pending with Checkpointed set
  rows,         \* pending_request_markers
  recent,       \* recentUsageCallbacks: [Requests -> time], 0 when absent
  owner,        \* policiesByHash: [Hashes -> Keys \cup {None}]
  keyRows,      \* the fingerprints in key_policies: [Hashes -> Keys \cup {None}]
  call,         \* where each RecordUsage stands (it holds adminMu.RLock unless "idle")
  admin,        \* the Key an administrative change is halfway through, or None
  deletes,      \* whether that change deletes the Key (DeletePolicy)
  engine,       \* where the engine stands between Open and the end of close
  snapshot,     \* the markers close has copied
  now,          \* the clock; it starts at 1, so 0 can be "never"
  consumed,     \* history: how often each marker was consumed
  settled,      \* history: how often each request's callback settled something
  expired,      \* history: markers dropped by age
  discarded,    \* history: markers dropped by a reset or a failed admission
  lost,         \* history: markers memory held when the process ended, not stored
  excused,      \* history: markers dropped while close was at work, or whose row
                \* could not be deleted (see Drops)
  forgotten,    \* history: callbacks the duplicate filter may not know any more
  orphaned,     \* history: rows left of a Key whose deletion a process did not finish
  calls, failures, opens, changes    \* how much of each bound is used

memory  == <<pending, loaded, recent, call, admin, deletes, snapshot>>
history == <<consumed, settled, expired, discarded, lost, excused, forgotten, orphaned>>
bounds  == <<calls, failures, opens, changes>>
vars    == <<req, memory, rows, owner, keyRows, engine, now, history, bounds>>

Unsent    == [pc |-> "unsent", key |-> None, hash |-> None, kind |-> None, at |-> 0, sent |-> 0]
IdleCall  == [pc |-> "idle", of |-> None]
PolicyOf(k) == {h \in Hashes : owner[h] = k}

Init ==
  /\ req = [r \in Requests |-> Unsent]
  /\ pending = {} /\ loaded = {} /\ rows = {}
  /\ recent = [r \in Requests |-> 0]
  /\ owner \in [Hashes -> Keys \cup {None}]
  /\ \A k \in Keys : Cardinality(PolicyOf(k)) = 1
  /\ keyRows = owner
  /\ call = [c \in Callers |-> IdleCall]
  /\ admin = None /\ deletes = FALSE
  /\ engine = "open" /\ snapshot = {}
  /\ now = 1
  /\ consumed = [r \in Requests |-> 0] /\ settled = [r \in Requests |-> 0]
  /\ expired = {} /\ discarded = {} /\ lost = {} /\ excused = {}
  /\ forgotten = {} /\ orphaned = {}
  /\ calls = 0 /\ failures = 0 /\ opens = 0 /\ changes = 0

Running == engine # "stopped"

\* Between the copy of the markers and the end of close a marker may leave
\* memory after its row was, or just before it will be, written.
ClosingDown == engine \in {"snapshot", "saved", "draining"}
Drops(S) == excused' = IF ClosingDown THEN excused \cup S ELSE excused

\* Mutant: the marker is handed out and stays in the list.
ForgetNothing(S) == UNCHANGED <<pending, loaded>>
Forget(S) == /\ pending' = pending \ S
             /\ loaded' = loaded \ S

\* Which of several equal markers the code meets first or last.
First(S) == IF S \cap loaded # {} THEN S \cap loaded ELSE S
Last(S)  == IF S \ loaded # {} THEN S \ loaded ELSE S

\* The primary key of a row: key_id, auth_id, model, requested_at.
RowKey(r) == <<req[r].key, IF req[r].kind.managed THEN req[r].kind.auth ELSE None,
               req[r].kind.model, req[r].at>>

\* Mutant: the row of a consumed marker is kept.
RowsKept(p) == rows

\* The rows after DeletePendingRequest.
RowsWithout(p) == {q \in rows : RowKey(q) # RowKey(p)}

-----------------------------------------------------------------------------
(* Admissions.                                                              *)

\* admit passes its gates: the engine takes admissions and the Key is managed.
PassGates(r, h, kind, lag) ==
  /\ engine = "open" /\ admin = None
  /\ req[r].pc = "unsent" /\ owner[h] # None /\ lag < now
  /\ req' = [req EXCEPT ![r] = [pc |-> "passed", key |-> owner[h], hash |-> h, kind |-> kind,
                                at |-> now, sent |-> now - lag]]
  /\ UNCHANGED <<memory, rows, owner, keyRows, engine, now, history, bounds>>

Expired(r) == {p \in pending : req[p].at < req[r].at - MarkerTTL}

AddUnchanged == UNCHANGED <<rows, recent, owner, keyRows, call, admin, deletes, engine, snapshot, now,
                            consumed, settled, discarded, lost, excused, forgotten, orphaned, bounds>>

\* Mutant: the list has no limit.
AddUnbounded(r) ==
  /\ Running /\ req[r].pc = "passed"
  /\ req' = [req EXCEPT ![r].pc = "marked"]
  /\ pending' = (pending \ Expired(r)) \cup {r}
  /\ loaded' = loaded \ Expired(r)
  /\ expired' = expired \cup Expired(r)
  /\ AddUnchanged

\* Mutant: a full list makes room by dropping one of its markers.
AddEvicting(r) ==
  /\ Running /\ req[r].pc = "passed"
  /\ req' = [req EXCEPT ![r].pc = "marked"]
  /\ LET kept == pending \ Expired(r)
     IN \E evicted \in SUBSET kept :
          /\ Cardinality(kept \ evicted) <= MaxPending - 1
          /\ pending' = (kept \ evicted) \cup {r}
          /\ loaded' = loaded \ (Expired(r) \cup evicted)
  /\ expired' = expired \cup Expired(r)
  /\ AddUnchanged

\* addPendingRequest: forget markers past their time to live, then append
\* unless the list is full.
AddPendingRequest(r) ==
  /\ Running /\ req[r].pc = "passed"
  /\ LET kept == pending \ Expired(r)
     IN \/ /\ Cardinality(kept) < MaxPending
           /\ pending' = kept \cup {r}
           /\ req' = [req EXCEPT ![r].pc = "marked"]
        \/ /\ Cardinality(kept) >= MaxPending
           /\ pending' = kept
           /\ req' = [req EXCEPT ![r].pc = "blocked"]
  /\ expired' = expired \cup Expired(r)
  /\ loaded' = loaded \ Expired(r)
  /\ AddUnchanged

\* The budget cycle was persisted: CPA may send the request upstream.
Admit(r) ==
  /\ Running /\ req[r].pc = "marked"
  /\ req' = [req EXCEPT ![r].pc = "open"]
  /\ UNCHANGED <<memory, rows, owner, keyRows, engine, now, history, bounds>>

SameFields(p, r) == /\ req[p].key = req[r].key /\ req[p].kind = req[r].kind
                    /\ req[p].at = req[r].at

\* It was not: discardPendingRequest drops the last marker with the same fields.
AdmitFails(r) ==
  /\ Running /\ req[r].pc = "marked" /\ failures < MaxFailures
  /\ failures' = failures + 1
  /\ req' = [req EXCEPT ![r].pc = "blocked"]
  /\ LET same == {p \in pending : SameFields(p, r)}
     IN \/ /\ same = {}
           /\ UNCHANGED <<pending, loaded, discarded, excused>>
        \/ \E p \in Last(same) :
             /\ Forget({p})
             /\ discarded' = discarded \cup {p}
             /\ Drops({p})
  /\ UNCHANGED <<rows, recent, owner, keyRows, call, admin, deletes, engine, snapshot, now,
                 consumed, settled, expired, lost, forgotten, orphaned, calls, opens, changes>>

Admitting == {r \in Requests : req[r].pc \in {"passed", "marked"}}

-----------------------------------------------------------------------------
(* Terminal callbacks.  CPA may deliver the callback of an admitted request *)
(* once, several times or never, and after a restart.                       *)

TakingCallbacks == engine \in {"open", "closing", "snapshot", "saved"}

\* Mutant: no callback is remembered.
NeverRemembered(r) == FALSE
Remembered(r) == recent[r] # 0 /\ recent[r] > now - DedupeTTL

OutOfWindow == {q \in Requests : recent[q] # 0 /\ recent[q] <= now - DedupeTTL}

\* RecordUsage up to claimUsageCallback: an unmanaged or remembered callback
\* is dropped; a full filter lets the callback pass without remembering it.
Claim(w, r) ==
  /\ TakingCallbacks /\ admin = None
  /\ call[w] = IdleCall /\ req[r].pc = "open" /\ calls < MaxCalls
  /\ calls' = calls + 1
  /\ owner[req[r].hash] # None /\ ~Remembered(r)
  /\ call' = [call EXCEPT ![w] = [pc |-> "take", of |-> r]]
  /\ LET known   == {q \in Requests : recent[q] # 0}
         kept    == IF Cardinality(known) >= MaxRecent THEN {q \in known : Remembered(q)} ELSE known
         record  == Cardinality(kept) < MaxRecent
     IN /\ recent' = [q \in Requests |-> IF q = r /\ record THEN now
                                         ELSE IF q \in kept THEN recent[q] ELSE 0]
        /\ forgotten' = forgotten \cup OutOfWindow \cup (IF record THEN {} ELSE {r})
  /\ UNCHANGED <<req, pending, loaded, rows, owner, keyRows, admin, deletes, engine, snapshot, now,
                 consumed, settled, expired, discarded, lost, excused, orphaned, failures, opens,
                 changes>>

\* The markers callback r may take: its Key's, its model's and, when this
\* plugin chose the account, its account's.
Compatible(r) ==
  {p \in pending : /\ req[p].key = owner[req[r].hash]
                   /\ req[p].kind.model = req[r].kind.model
                   /\ req[p].kind.managed => req[p].kind.auth = req[r].kind.auth}

Distance(p, r) == IF req[r].sent < req[p].at THEN req[p].at - req[r].sent
                                             ELSE req[r].sent - req[p].at

Nearest(r) ==
  First({p \in Compatible(r) : \A q \in Compatible(r) : Distance(p, r) <= Distance(q, r)})

\* takePendingRequest: consume the nearest marker, and delete its row when it
\* was loaded from there (a failure to delete is reported, not undone).
Take(w) ==
  /\ Running /\ call[w].pc = "take"
  /\ LET r == call[w].of
     IN \/ /\ Compatible(r) = {}
           /\ UNCHANGED <<pending, loaded, rows, consumed, settled, excused, failures>>
        \/ \E p \in Nearest(r) :
             /\ Forget({p})
             /\ consumed' = [consumed EXCEPT ![p] = @ + 1]
             /\ settled' = [settled EXCEPT ![r] = @ + 1]
             /\ \/ /\ rows' = IF p \in loaded THEN RowsWithout(p) ELSE rows
                   /\ Drops({p})
                   /\ UNCHANGED failures
                \/ /\ p \in loaded /\ failures < MaxFailures
                   /\ failures' = failures + 1
                   /\ excused' = excused \cup {p}
                   /\ UNCHANGED rows
  /\ call' = [call EXCEPT ![w] = IdleCall]
  /\ UNCHANGED <<req, recent, owner, keyRows, admin, deletes, engine, snapshot, now, expired, discarded,
                 lost, forgotten, orphaned, calls, opens, changes>>

-----------------------------------------------------------------------------
(* Policy changes, under adminMu for writing.                               *)

AdminLocked == /\ admin = None /\ Admitting = {}
               /\ \A w \in Callers : call[w] = IdleCall

Rebound(f, k, h) == [i \in Hashes |-> IF i = h THEN k ELSE IF f[i] = k THEN None ELSE f[i]]
Removed(f, k)    == [i \in Hashes |-> IF f[i] = k THEN None ELSE f[i]]

\* Mutant: the raw key is replaced whoever waits for it.
UpsertPolicyAnyTime(k, h) ==
  /\ Running /\ AdminLocked /\ changes < MaxAdmin
  /\ changes' = changes + 1
  /\ owner[h] = None
  /\ keyRows' = Rebound(keyRows, k, h)
  /\ owner' = Rebound(owner, k, h)
  /\ UNCHANGED <<req, memory, rows, engine, now, history, calls, failures, opens>>

\* UpsertPolicy gives Key k the unmanaged raw key h, unless it replaces one
\* that admitted requests still wait for: first the row, then the maps, under
\* policiesMu.
UpsertPolicy(k, h) ==
  /\ Running /\ AdminLocked /\ changes < MaxAdmin
  /\ changes' = changes + 1
  /\ owner[h] = None
  /\ PolicyOf(k) = {} \/ ~ \E p \in pending : req[p].key = k
  /\ keyRows' = Rebound(keyRows, k, h)
  /\ owner' = Rebound(owner, k, h)
  /\ UNCHANGED <<req, memory, rows, engine, now, history, calls, failures, opens>>

\* ResetPolicyUsage and DeletePolicy: one transaction on the rows, which takes
\* the row of a deleted Key with its markers ...
ResetRows(k, deleted) ==
  /\ Running /\ AdminLocked /\ changes < MaxAdmin
  /\ changes' = changes + 1
  /\ PolicyOf(k) # {}
  /\ admin' = k /\ deletes' = deleted
  /\ rows' = {r \in rows : req[r].key # k}
  /\ keyRows' = IF deleted THEN Removed(keyRows, k) ELSE keyRows
  /\ UNCHANGED <<req, pending, loaded, recent, owner, call, engine, snapshot, now,
                 history, calls, failures, opens>>

\* ... then the maps of a deleted Key, and the markers in memory.
ResetMemory ==
  /\ Running /\ admin # None
  /\ LET gone == {p \in pending : req[p].key = admin}
     IN /\ Forget(gone)
        /\ discarded' = discarded \cup gone
        /\ Drops(gone)
  /\ owner' = IF deletes THEN Removed(owner, admin) ELSE owner
  /\ admin' = None /\ deletes' = FALSE
  /\ UNCHANGED <<req, rows, keyRows, recent, call, engine, snapshot, now, consumed, settled,
                 expired, lost, forgotten, orphaned, bounds>>

-----------------------------------------------------------------------------
(* close and Open.                                                          *)

CloseAdmissions ==
  /\ engine = "open"
  /\ engine' = "closing"
  /\ UNCHANGED <<req, memory, rows, owner, keyRows, now, history, bounds>>

\* close(force) copies the markers; without force it refuses while any wait
\* and otherwise checkpoints nothing.
CopyMarkers(force) ==
  /\ engine = "closing"
  /\ force \/ pending = {}
  /\ engine' = "snapshot"
  /\ snapshot' = IF force THEN pending ELSE {}
  /\ UNCHANGED <<req, pending, loaded, rows, recent, owner, keyRows, call, admin, deletes, now, history, bounds>>

Collide(S) == \E p, q \in S : p # q /\ RowKey(p) = RowKey(q)

\* ReplacePendingRequests: all rows are replaced, or an error leaves the table
\* as it was and close goes on.
Checkpoint ==
  /\ engine = "snapshot"
  /\ engine' = "saved"
  /\ \/ /\ ~Collide(snapshot)
        /\ rows' = snapshot
        /\ UNCHANGED failures
     \/ /\ Collide(snapshot)
        /\ UNCHANGED <<rows, failures>>
     \/ /\ failures < MaxFailures
        /\ failures' = failures + 1
        /\ UNCHANGED rows
  /\ UNCHANGED <<req, memory, owner, keyRows, now, history, calls, opens, changes>>

\* No callback starts any more; those that have started still run.
CloseUsage ==
  /\ engine = "saved"
  /\ engine' = "draining"
  /\ UNCHANGED <<req, memory, rows, owner, keyRows, now, history, bounds>>

\* close does not hold adminMu: it may have stored again the markers of a Key
\* that is gone from SQLite and not yet from memory.
Orphans == {r \in rows : deletes /\ req[r].key = admin}

EndProcess ==
  /\ engine' = "stopped"
  /\ orphaned' = orphaned \cup Orphans
  /\ lost' = lost \cup (pending \ rows)
  /\ pending' = {} /\ loaded' = {} /\ snapshot' = {}
  /\ recent' = [r \in Requests |-> 0]
  /\ forgotten' = {r \in Requests : req[r].pc # "unsent"}
  /\ call' = [c \in Callers |-> IdleCall]
  /\ admin' = None /\ deletes' = FALSE
  /\ req' = [r \in Requests |-> IF r \in Admitting THEN [req[r] EXCEPT !.pc = "blocked"] ELSE req[r]]
  /\ UNCHANGED <<rows, owner, keyRows, now, consumed, settled, expired, discarded, excused, bounds>>

\* The engine is closed and CPA unloads the plugin.
Stop == engine = "draining" /\ EndProcess

\* The process dies.
Crash == engine \in {"open", "closing", "snapshot", "saved"} /\ EndProcess

\* Mutant: a row is loaded whatever its age.
OpenAnyAge ==
  /\ engine = "stopped" /\ opens < MaxOpens
  /\ opens' = opens + 1
  /\ engine' = "open"
  /\ owner' = keyRows
  /\ pending' = rows /\ loaded' = rows
  /\ UNCHANGED <<req, rows, recent, keyRows, call, admin, deletes, snapshot, now, consumed, settled,
                 expired, discarded, lost, excused, forgotten, orphaned, calls, failures, changes>>

\* Open loads the policies, and the rows that are young enough, which it marks
\* Checkpointed.
Open ==
  /\ engine = "stopped" /\ opens < MaxOpens
  /\ opens' = opens + 1
  /\ engine' = "open"
  /\ owner' = keyRows
  /\ LET young == {r \in rows : req[r].at >= now - MarkerTTL}
     IN /\ rows' = young
        /\ pending' = young
        /\ loaded' = young
        /\ expired' = expired \cup (rows \ young)
  /\ UNCHANGED <<req, recent, keyRows, call, admin, deletes, snapshot, now, consumed, settled,
                 discarded, lost, excused, forgotten, orphaned, calls, failures, changes>>

Tick ==
  /\ now < MaxTime
  /\ now' = now + 1
  /\ UNCHANGED <<req, memory, rows, owner, keyRows, engine, history, bounds>>

Admission ==
  \E r \in Requests :
    \/ \E h \in Hashes, kind \in Kinds, lag \in 0..MaxLag : PassGates(r, h, kind, lag)
    \/ AddPendingRequest(r) \/ Admit(r) \/ AdmitFails(r)

Callback == \E w \in Callers : Take(w) \/ \E r \in Requests : Claim(w, r)

PolicyChange ==
  \/ \E k \in Keys : \/ \E h \in Hashes : UpsertPolicy(k, h)
                    \/ \E deleted \in BOOLEAN : ResetRows(k, deleted)
  \/ ResetMemory

Lifecycle ==
  \/ CloseAdmissions \/ Checkpoint \/ CloseUsage \/ Stop \/ Crash \/ Open
  \/ \E force \in BOOLEAN : CopyMarkers(force)

Next == Admission \/ Callback \/ PolicyChange \/ Lifecycle \/ Tick

Spec == Init /\ [][Next]_vars

-----------------------------------------------------------------------------
Request == [pc : {"unsent", "passed", "marked", "open", "blocked"}, key : Keys \cup {None},
            hash : Hashes \cup {None}, kind : Kinds \cup {None},
            at : 0..MaxTime, sent : 0..MaxTime]

TypeOK ==
  /\ req \in [Requests -> Request]
  /\ pending \subseteq Requests /\ Cardinality(pending) <= MaxPending /\ loaded \subseteq pending /\ rows \subseteq Requests
  /\ snapshot \subseteq Requests
  /\ recent \in [Requests -> 0..MaxTime]
  /\ owner \in [Hashes -> Keys \cup {None}] /\ keyRows \in [Hashes -> Keys \cup {None}]
  /\ call \in [Callers -> [pc : {"idle", "take"}, of : Requests \cup {None}]]
  /\ admin \in Keys \cup {None} /\ deletes \in BOOLEAN
  /\ engine \in {"open", "closing", "snapshot", "saved", "draining", "stopped"}
  /\ consumed \in [Requests -> Nat] /\ settled \in [Requests -> Nat]
  /\ expired \cup discarded \cup lost \cup excused \cup forgotten \cup orphaned \subseteq Requests

\* A marker settles one callback (engine.go:701-738, store_pending.go:11-92):
\* across reloads, crashes, resets and failures a request's marker is consumed
\* at most once, unless close was at work or its row could not be deleted.
ConsumedOnce == \A r \in Requests : consumed[r] <= 1 \/ r \in excused

\* No row outlives its marker (store_pending.go:11-42, 86-92, store.go:511-534):
\* what a restart would load is what memory still waits for, or too old to be
\* loaded.  The same exceptions.
NoStaleRows == Running => rows \subseteq pending \cup expired \cup excused

\* No admitted request is forgotten without a cause (engine.go:657-755,
\* 1276-1317): its marker waits in memory, was consumed, grew too old, was
\* discarded by a reset, or was lost with the process; while no process runs it
\* may wait in SQLite.
MarkersAccounted ==
  \A r \in Requests : req[r].pc \in {"marked", "open"} =>
    \/ r \in pending \/ consumed[r] > 0
    \/ r \in expired \cup discarded \cup lost
    \/ ~Running /\ r \in rows

\* Usage is charged to the Key that admitted the request (panel.go:300-303,
\* engine.go:799-899): as long as a marker waits, the raw key it was admitted
\* with still belongs to its Key, in memory and, but for a change halfway, in
\* the table, whatever policies are edited, deleted or reloaded meanwhile.  One
\* gap is named: DeletePolicy takes the row of the Key with those of its markers
\* (store.go:528-533), close may store these markers again from its copy, and
\* when the process then ends before discardKeyAccounting, Open loads markers of
\* a Key that is gone.
BindingStable ==
  \A r \in Admitting \cup pending :
    \/ /\ owner[req[r].hash] = req[r].key
       /\ admin = None => keyRows[req[r].hash] = req[r].key
    \/ r \in excused \cup orphaned

\* A callback delivered twice settles once (engine.go:958-982) as long as the
\* duplicate filter has not had to forget it: no room, too long ago, restarted.
CallbackSettlesOnce == \A r \in Requests : settled[r] <= 1 \/ r \in forgotten

\* Where each marker stands, but for those in doubt (excused): what a callback will
\* find, now or after a restart; what one has found; what was given up.
Waiting == (IF Running THEN pending ELSE rows \ expired) \ excused
Used    == {r \in Requests : consumed[r] > 0} \ excused
Dropped == (expired \cup discarded \cup lost) \ excused

Life == INSTANCE MarkerLife WITH
  Markers <- Requests, waiting <- Waiting, used <- Used, dropped <- Dropped, doubtful <- excused

\* List, copy and rows together keep the life of a marker (engine.go:657-755,
\* 1276-1317, store_pending.go:11-92): it waits over any number of reloads and
\* crashes, one callback uses it or it is given up, one step settles no more than
\* one marker, and what was used or given up never waits again.
ImplementsMarkerLife == Life!Spec

\* What README.en.md:122 says: a safe reload checkpoints the unresolved markers.
\* Stated only for a database that reports no error of its own.
ReloadKeepsMarkers ==
  [][Checkpoint /\ failures' = 0 => snapshot \subseteq rows']_vars
=============================================================================
