----------------------------- MODULE Lifecycle -----------------------------
(***************************************************************************)
(* The life of an engine of codex-carpool (cmd/codex-carpool/main.go,      *)
(* internal/quota/engine.go, store.go, lock_linux.go): configure opens     *)
(* one, shutdown drains and closes it, and a request keeps the pointer it  *)
(* has read whatever happens to the engine meanwhile.                      *)
(*                                                                         *)
(* Several processes may be configured with one database; an advisory lock *)
(* lets one engine at a time have it.  Inside a process the pointer        *)
(* runtime.engine is read and written under runtime.mu, which configure    *)
(* holds while it opens; so Open is one step here.                         *)
(*                                                                         *)
(* Abstractions: a request's callback takes the marker of that request     *)
(* (CallbackMarkers has the matching), what it charges is the request      *)
(* itself (UsageLedger has the queue and its flush).                       *)
(***************************************************************************)
EXTENDS FiniteSets, Naturals

CONSTANTS
  Procs,        \* CPA processes configured with this database
  Engines,      \* the engines opened one after the other
  Hosts,        \* threads in which CPA calls cliproxyPluginShutdown
  ThreadsOf,    \* [Procs -> SUBSET Hosts]: the threads of each process
  Requests,
  None,
  MaxFailures   \* bound of the model: writes that fail, and crashes

ASSUME LifecycleAssumption ==
  /\ None \notin Engines /\ None \notin Procs /\ None \notin Requests
  /\ ThreadsOf \in [Procs -> SUBSET Hosts]
  /\ MaxFailures \in Nat

VARIABLES
  runtime,      \* [Procs -> Engines \cup {None}]: runtime.engine
  home,         \* the process an engine was opened in
  phase,        \* [Engines -> Phases]: admissionsClosed, usageClosed, closed
  lock,         \* the engine whose store has the file lock, and thus SQLite
  loops,        \* the background goroutines of an engine that still run
  pending,      \* engine.pendingRequests
  loaded,       \* the markers of pending with Checkpointed set
  queue,        \* pendingShards: charges not yet flushed
  rows,         \* pending_request_markers
  durable,      \* usage_buckets: the requests charged there
  copy,         \* the checkpoint a close has taken and not yet written
  failed,       \* the engines with a closeErr
  req,          \* [Requests -> where the request stands, and its engine]
  call,         \* [Hosts -> where a shutdown stands, its engine, and force]
  registered,   \* history: configure succeeded and no shutdown was called since
  raced,        \* history: that configure fell into a gap of a shutdown (Overlaps)
  late,         \* history: requests inside a handler when close passed them
  lost,         \* history: requests lost by a crash or by a failed write
  failures

requests == <<req, late, lost>>
lifeline == <<runtime, home, phase, lock, loops, call, registered, raced, failed, copy>>
markers == <<pending, loaded, rows>>
charges == <<queue, durable>>
vars == <<requests, lifeline, markers, charges, failures>>

Phases == {"unborn", "open", "draining", "quiet", "closed", "gone"}

\* "draining" is admissionsClosed, "quiet" is usageClosed as well.
IsClosing(e) == phase[e] \in {"draining", "quiet"}
Alive(e) == phase[e] \in {"open", "draining", "quiet"}

IdleCall == [pc |-> "idle", eng |-> None, force |-> FALSE]
CloseSteps == {"save", "usage", "rate", "flush", "final", "store", "mark"}
Closing(e) == \E s \in Hosts : call[s].eng = e /\ call[s].pc \in CloseSteps

Init ==
  /\ runtime = [p \in Procs |-> None]
  /\ home = [e \in Engines |-> None]
  /\ phase = [e \in Engines |-> "unborn"]
  /\ lock = None
  /\ loops = [e \in Engines |-> {}]
  /\ pending = [e \in Engines |-> {}]
  /\ loaded = [e \in Engines |-> {}]
  /\ queue = [e \in Engines |-> {}]
  /\ rows = {} /\ durable = {} /\ copy = {} /\ failed = {}
  /\ req = [r \in Requests |-> [pc |-> "unsent", eng |-> None]]
  /\ call = [s \in Hosts |-> IdleCall]
  /\ registered = [p \in Procs |-> FALSE]
  /\ raced = [p \in Procs |-> FALSE]
  /\ late = {} /\ lost = {} /\ failures = 0

-----------------------------------------------------------------------------
(* configure.                                                               *)

Unborn == {e \in Engines : phase[e] = "unborn"}

\* Mutant: the lock file is not locked.
OpenUnlocked(p) ==
  /\ runtime[p] = None
  /\ Unborn # {}
  /\ LET e == CHOOSE f \in Unborn : TRUE
     IN /\ runtime' = [runtime EXCEPT ![p] = e]
        /\ home' = [home EXCEPT ![e] = p]
        /\ phase' = [phase EXCEPT ![e] = "open"]
        /\ lock' = e
        /\ loops' = [loops EXCEPT ![e] = {"rate", "flush"}]
        /\ pending' = [pending EXCEPT ![e] = rows]
        /\ loaded' = [loaded EXCEPT ![e] = rows]
  /\ registered' = [registered EXCEPT ![p] = TRUE]
  /\ raced' = [raced EXCEPT ![p] = FALSE]
  /\ UNCHANGED <<requests, call, failed, copy, rows, charges, failures>>

\* A process without an engine opens one, if no store has the lock; Open loads
\* the stored markers and starts the two loops.  An Open that fails gives the
\* lock back and changes nothing.
Open(p) ==
  /\ runtime[p] = None /\ lock = None
  /\ Unborn # {}
  /\ LET e == CHOOSE f \in Unborn : TRUE
     IN /\ runtime' = [runtime EXCEPT ![p] = e]
        /\ home' = [home EXCEPT ![e] = p]
        /\ phase' = [phase EXCEPT ![e] = "open"]
        /\ lock' = e
        /\ loops' = [loops EXCEPT ![e] = {"rate", "flush"}]
        /\ pending' = [pending EXCEPT ![e] = rows]
        /\ loaded' = [loaded EXCEPT ![e] = rows]
  /\ registered' = [registered EXCEPT ![p] = TRUE]
  /\ raced' = [raced EXCEPT ![p] = FALSE]
  /\ UNCHANGED <<requests, call, failed, copy, rows, charges, failures>>

\* A shutdown has read the pointer and not yet closed the admissions, or has
\* closed the engine and not yet called releaseRuntimeEngine.
Overlaps(e) == \E s \in Hosts : call[s].eng = e /\ call[s].pc \in {"begin", "release"}

\* Mutant: a closing engine is kept like any other.
ReconfigureAnyTime(p) ==
  /\ runtime[p] # None
  /\ registered' = [registered EXCEPT ![p] = TRUE]
  /\ raced' = [raced EXCEPT ![p] = Overlaps(runtime[p])]
  /\ UNCHANGED <<requests, runtime, home, phase, lock, loops, call, failed, copy, markers,
                 charges, failures>>

\* A process with an engine keeps it and reports success, unless it is closing,
\* which leaves the two gaps of Overlaps.
Reconfigure(p) ==
  /\ runtime[p] # None /\ ~IsClosing(runtime[p])
  /\ registered' = [registered EXCEPT ![p] = TRUE]
  /\ raced' = [raced EXCEPT ![p] = Overlaps(runtime[p])]
  /\ UNCHANGED <<requests, runtime, home, phase, lock, loops, call, failed, copy, markers,
                 charges, failures>>

-----------------------------------------------------------------------------
(* cliproxyPluginShutdown, in one of the host's threads.                    *)

Goto(s, pc) == call' = [call EXCEPT ![s].pc = pc]

\* It reads the pointer, and then closes the admissions of what it has read.
ShutdownStart(s, p) ==
  /\ call[s] = IdleCall /\ runtime[p] # None
  /\ call' = [call EXCEPT ![s] = [pc |-> "begin", eng |-> runtime[p], force |-> FALSE]]
  /\ registered' = [registered EXCEPT ![p] = FALSE]
  /\ UNCHANGED <<requests, runtime, home, phase, lock, loops, raced, failed, copy, markers,
                 charges, failures>>

AdmissionsClosed(e) == [phase EXCEPT ![e] = IF @ = "open" THEN "draining" ELSE @]

CloseAdmissions(s) ==
  /\ call[s].pc = "begin"
  /\ Goto(s, "drain")
  /\ phase' = AdmissionsClosed(call[s].eng)
  /\ UNCHANGED <<requests, runtime, home, lock, loops, registered, raced, failed, copy,
                 markers, charges, failures>>

\* The drain ends when nothing is awaited or, at any time, by its deadline;
\* what is awaited then decides between Close and CloseConservatively.
Drain(s) ==
  /\ call[s].pc = "drain"
  /\ call' = [call EXCEPT ![s].pc = "close", ![s].force = pending[call[s].eng] # {}]
  /\ UNCHANGED <<requests, runtime, home, phase, lock, loops, registered, raced, failed, copy,
                 markers, charges, failures>>

\* close, once it has closeMu: nothing is left to do for a closed engine;
\* without force it refuses while requests are awaited, and shutdown then
\* forces it; otherwise it copies what it will checkpoint.
EnterClose(s) ==
  /\ call[s].pc = "close"
  /\ LET e == call[s].eng
     IN /\ ~Closing(e)
        /\ phase' = AdmissionsClosed(e)
        /\ \/ /\ phase[e] = "closed"
              /\ call' = [call EXCEPT ![s].pc = "release", ![s].force = FALSE]
              /\ UNCHANGED <<copy, late>>
           \/ /\ phase[e] # "closed" /\ ~call[s].force /\ pending[e] # {}
              /\ call' = [call EXCEPT ![s].force = TRUE]
              /\ UNCHANGED <<copy, late>>
           \/ /\ phase[e] # "closed" /\ (call[s].force \/ pending[e] = {})
              /\ call' = [call EXCEPT ![s].pc = "save", ![s].force = FALSE]
              /\ copy' = IF call[s].force THEN pending[e] ELSE {}
              /\ late' = late \cup {r \in Requests : req[r] = [pc |-> "checked", eng |-> e]}
  /\ UNCHANGED <<req, lost, runtime, home, lock, loops, registered, raced, failed, markers,
                 charges, failures>>

\* Mutant: the checkpoint of a forced close is empty too.
SaveNothing(s) ==
  /\ call[s].pc = "save"
  /\ Goto(s, "usage")
  /\ copy' = {}
  /\ \/ rows' = {} /\ UNCHANGED <<failed, failures>>
     \/ /\ failures < MaxFailures
        /\ failures' = failures + 1
        /\ failed' = failed \cup {call[s].eng}
        /\ UNCHANGED rows
  /\ UNCHANGED <<requests, runtime, home, phase, lock, loops, registered, raced, pending,
                 loaded, charges>>

\* The checkpoint replaces all rows, or fails and close goes on.
Save(s) ==
  /\ call[s].pc = "save"
  /\ Goto(s, "usage")
  /\ copy' = {}
  /\ \/ rows' = copy /\ UNCHANGED <<failed, failures>>
     \/ /\ failures < MaxFailures
        /\ failures' = failures + 1
        /\ failed' = failed \cup {call[s].eng}
        /\ UNCHANGED rows
  /\ UNCHANGED <<requests, runtime, home, phase, lock, loops, registered, raced, pending,
                 loaded, charges>>

CloseUsage(s) ==
  /\ call[s].pc = "usage"
  /\ Goto(s, "rate")
  /\ phase' = [phase EXCEPT ![call[s].eng] = "quiet"]
  /\ UNCHANGED <<requests, runtime, home, lock, loops, registered, raced, failed, copy,
                 markers, charges, failures>>

\* close waits for the synchronization loop, then for the flush loop.
AwaitLoop(s, at, loop, next) ==
  /\ call[s].pc = at /\ loop \notin loops[call[s].eng]
  /\ Goto(s, next)
  /\ UNCHANGED <<requests, runtime, home, phase, lock, loops, registered, raced, failed, copy,
                 markers, charges, failures>>
AwaitRateLoop(s) == AwaitLoop(s, "rate", "rate", "flush")
AwaitFlushLoop(s) == AwaitLoop(s, "flush", "flush", "final")

\* flushPending writes the queue of e, or puts it back.
Write(e) ==
  \/ /\ lock = e
     /\ durable' = durable \cup queue[e]
     /\ queue' = [queue EXCEPT ![e] = {}]
     /\ UNCHANGED failures
  \/ /\ queue[e] # {} /\ failures < MaxFailures
     /\ failures' = failures + 1
     /\ UNCHANGED charges

\* The last flush; its failure is what close reports.
FinalFlush(s) ==
  /\ call[s].pc = "final"
  /\ Goto(s, "store")
  /\ LET e == call[s].eng
     IN /\ Write(e)
        /\ failed' = IF failures' # failures THEN failed \cup {e} ELSE failed
        /\ late' = late \cup {r \in Requests : req[r].eng = e /\ req[r].pc \in {"settling", "charging"}}
  /\ UNCHANGED <<req, lost, runtime, home, phase, lock, loops, registered, raced, copy, markers>>

\* store.Close gives the lock back.
CloseStore(s) ==
  /\ call[s].pc = "store"
  /\ Goto(s, "mark")
  /\ lock' = None
  /\ lost' = IF call[s].eng \in failed
             THEN lost \cup ((pending[call[s].eng] \cup queue[call[s].eng]) \ rows) ELSE lost
  /\ UNCHANGED <<req, late, runtime, home, phase, loops, registered, raced, failed, copy,
                 markers, charges, failures>>

MarkClosed(s) ==
  /\ call[s].pc = "mark"
  /\ Goto(s, "release")
  /\ phase' = [phase EXCEPT ![call[s].eng] = "closed"]
  /\ UNCHANGED <<requests, runtime, home, lock, loops, registered, raced, failed, copy,
                 markers, charges, failures>>

\* Mutant: the pointer is dropped whatever it points at.
ReleaseAnyEngine(s) ==
  /\ call[s].pc = "release"
  /\ call' = [call EXCEPT ![s] = IdleCall]
  /\ runtime' = [runtime EXCEPT ![home[call[s].eng]] = None]
  /\ UNCHANGED <<requests, home, phase, lock, loops, registered, raced, failed, copy, markers,
                 charges, failures>>

\* releaseRuntimeEngine drops the pointer only if it is still this engine.
Release(s) ==
  /\ call[s].pc = "release"
  /\ call' = [call EXCEPT ![s] = IdleCall]
  /\ runtime' = [p \in Procs |-> IF runtime[p] = call[s].eng THEN None ELSE runtime[p]]
  /\ UNCHANGED <<requests, home, phase, lock, loops, registered, raced, failed, copy, markers,
                 charges, failures>>

Shutdown(s) ==
  \/ CloseAdmissions(s) \/ Drain(s) \/ EnterClose(s) \/ Save(s) \/ CloseUsage(s)
  \/ AwaitRateLoop(s) \/ AwaitFlushLoop(s) \/ FinalFlush(s) \/ CloseStore(s)
  \/ MarkClosed(s) \/ Release(s)

-----------------------------------------------------------------------------
(* The background loops.                                                    *)

ToldToStop(e, at) == \E s \in Hosts : call[s].eng = e /\ call[s].pc = at

\* Mutant: the loop is told to stop only after close has waited for it.
RateLoopEndsLate(e) ==
  /\ "rate" \in loops[e] /\ ToldToStop(e, "flush")
  /\ loops' = [loops EXCEPT ![e] = @ \ {"rate"}]
  /\ UNCHANGED <<requests, runtime, home, phase, lock, call, registered, raced, failed, copy,
                 markers, charges, failures>>

RateLoopEnds(e) ==
  /\ "rate" \in loops[e] /\ ToldToStop(e, "rate")
  /\ loops' = [loops EXCEPT ![e] = @ \ {"rate"}]
  /\ UNCHANGED <<requests, runtime, home, phase, lock, call, registered, raced, failed, copy,
                 markers, charges, failures>>

\* A tick of the flush loop, or its last flush when it is told to stop.
FlushTick(e) ==
  /\ "flush" \in loops[e] /\ queue[e] # {}
  /\ Write(e)
  /\ UNCHANGED <<requests, lifeline, markers>>

FlushLoopEnds(e) ==
  /\ "flush" \in loops[e] /\ ToldToStop(e, "flush")
  /\ Write(e)
  /\ loops' = [loops EXCEPT ![e] = @ \ {"flush"}]
  /\ UNCHANGED <<requests, runtime, home, phase, lock, call, registered, raced, failed, copy,
                 markers>>

-----------------------------------------------------------------------------
(* Requests and their callbacks, each with the pointer it has read.         *)

At(r, pc, e) == req[r] = [pc |-> pc, eng |-> e]
Move(r, pc) == req' = [req EXCEPT ![r].pc = pc]

Pick(r, p) ==
  /\ req[r].pc = "unsent" /\ runtime[p] # None
  /\ req' = [req EXCEPT ![r] = [pc |-> "picked", eng |-> runtime[p]]]
  /\ UNCHANGED <<late, lost, lifeline, markers, charges, failures>>

\* admit refuses when admissions are closed.
Check(r) ==
  /\ req[r].pc = "picked"
  /\ Move(r, IF phase[req[r].eng] = "open" THEN "checked" ELSE "refused")
  /\ UNCHANGED <<late, lost, lifeline, markers, charges, failures>>

AddMarker(r) ==
  /\ req[r].pc = "checked"
  /\ Move(r, "marked")
  /\ pending' = [pending EXCEPT ![req[r].eng] = @ \cup {r}]
  /\ UNCHANGED <<late, lost, lifeline, loaded, rows, charges, failures>>

\* The budget cycles are current or could be stored: the request goes upstream.
Admit(r) ==
  /\ req[r].pc = "marked"
  /\ Move(r, "sent")
  /\ UNCHANGED <<late, lost, lifeline, markers, charges, failures>>

\* They could not: always so when a new cycle is due and the store is closed.
AdmitFails(r) ==
  /\ req[r].pc = "marked"
  /\ \/ lock # req[r].eng /\ UNCHANGED failures
     \/ failures < MaxFailures /\ failures' = failures + 1
  /\ Move(r, "refused")
  /\ pending' = [pending EXCEPT ![req[r].eng] = @ \ {r}]
  /\ UNCHANGED <<late, lost, lifeline, loaded, rows, charges>>

\* handleUsage reads the pointer of the process that sent the request.
Callback(r) ==
  /\ req[r].pc = "sent" /\ phase[req[r].eng] # "gone"
  /\ LET e == runtime[home[req[r].eng]]
     IN req' = [req EXCEPT ![r] = IF e = None THEN [@ EXCEPT !.pc = "unheard"]
                                  ELSE [pc |-> "heard", eng |-> e]]
  /\ UNCHANGED <<late, lost, lifeline, markers, charges, failures>>

\* RecordUsage does nothing once usageClosed is set.
Settle(r) ==
  /\ req[r].pc = "heard"
  /\ Move(r, IF phase[req[r].eng] \in {"open", "draining"} THEN "settling" ELSE "unheard")
  /\ UNCHANGED <<late, lost, lifeline, markers, charges, failures>>

\* takePendingRequest, which deletes the row of a loaded marker if it can.
Take(r) ==
  /\ req[r].pc = "settling"
  /\ LET e == req[r].eng
     IN /\ Move(r, IF r \in pending[e] THEN "charging" ELSE "unmatched")
        /\ pending' = [pending EXCEPT ![e] = @ \ {r}]
        /\ loaded' = [loaded EXCEPT ![e] = @ \ {r}]
        /\ rows' = IF r \in pending[e] \cap loaded[e] /\ lock = e THEN rows \ {r} ELSE rows
  /\ UNCHANGED <<late, lost, lifeline, charges, failures>>

Charge(r) ==
  /\ req[r].pc = "charging"
  /\ Move(r, "charged")
  /\ queue' = [queue EXCEPT ![req[r].eng] = @ \cup {r}]
  /\ UNCHANGED <<late, lost, lifeline, markers, durable, failures>>

Handler(r) == Callback(r) \/ Check(r) \/ AddMarker(r) \/ Admit(r) \/ AdmitFails(r) \/ Settle(r) \/ Take(r) \/ Charge(r)

-----------------------------------------------------------------------------
\* A process dies with its engines; the kernel gives its lock back.
Inside == {"checked", "marked", "heard", "settling", "charging"}

Crash(p) ==
  /\ runtime[p] # None /\ failures < MaxFailures
  /\ failures' = failures + 1
  /\ LET dead == {e \in Engines : home[e] = p /\ phase[e] # "gone"}
         cut  == {r \in Requests : req[r].eng \in dead /\ req[r].pc \in Inside \cup {"picked"}}
     IN /\ phase' = [e \in Engines |-> IF e \in dead THEN "gone" ELSE phase[e]]
        /\ loops' = [e \in Engines |-> IF e \in dead THEN {} ELSE loops[e]]
        /\ lock' = IF lock \in dead THEN None ELSE lock
        /\ lost' = lost \cup {r \in Requests \ rows :
                                \/ r \in cut
                                \/ \E e \in dead : r \in pending[e] \cup queue[e]}
        /\ pending' = [e \in Engines |-> IF e \in dead THEN {} ELSE pending[e]]
        /\ loaded' = [e \in Engines |-> IF e \in dead THEN {} ELSE loaded[e]]
        /\ queue' = [e \in Engines |-> IF e \in dead THEN {} ELSE queue[e]]
        /\ req' = [r \in Requests |->
                     IF r \notin cut THEN req[r]
                     ELSE [req[r] EXCEPT !.pc = IF @ \in {"picked", "checked", "marked"}
                                                THEN "refused" ELSE "unheard"]]
        /\ call' = [s \in Hosts |-> IF call[s].eng \in dead THEN IdleCall ELSE call[s]]
  /\ runtime' = [runtime EXCEPT ![p] = None]
  /\ registered' = [registered EXCEPT ![p] = FALSE]
  /\ UNCHANGED <<late, home, raced, failed, copy, rows, durable>>

Next ==
  \/ \E p \in Procs : Open(p) \/ Reconfigure(p) \/ Crash(p)
  \/ \E s \in Hosts : Shutdown(s) \/ \E p \in Procs : s \in ThreadsOf[p] /\ ShutdownStart(s, p)
  \/ \E e \in Engines : RateLoopEnds(e) \/ FlushTick(e) \/ FlushLoopEnds(e)
  \/ \E r \in Requests : Handler(r) \/ \E p \in Procs : Pick(r, p)

\* A running goroutine goes on.  sync.Mutex does not starve the thread that
\* waits for closeMu; the drain has a deadline; the synchronization loop ends
\* when told (RateSync, LoopEnds).
Fairness ==
  /\ \A s \in Hosts : WF_vars(Shutdown(s))
  /\ \A e \in Engines : WF_vars(RateLoopEnds(e)) /\ WF_vars(FlushLoopEnds(e))

Spec == Init /\ [][Next]_vars /\ Fairness

-----------------------------------------------------------------------------
Stages == {"unsent", "picked", "checked", "marked", "sent", "refused", "heard", "unheard",
           "settling", "unmatched", "charging", "charged"}
Calls == {"idle", "begin", "drain", "close", "release"} \cup CloseSteps

TypeOK ==
  /\ runtime \in [Procs -> Engines \cup {None}]
  /\ home \in [Engines -> Procs \cup {None}]
  /\ phase \in [Engines -> Phases]
  /\ lock \in Engines \cup {None}
  /\ loops \in [Engines -> SUBSET {"rate", "flush"}]
  /\ pending \in [Engines -> SUBSET Requests]
  /\ loaded \in [Engines -> SUBSET Requests]
  /\ queue \in [Engines -> SUBSET Requests]
  /\ rows \subseteq Requests /\ durable \subseteq Requests /\ copy \subseteq Requests
  /\ failed \subseteq Engines
  /\ req \in [Requests -> [pc : Stages, eng : Engines \cup {None}]]
  /\ call \in [Hosts -> [pc : Calls, eng : Engines \cup {None}, force : BOOLEAN]]
  /\ registered \in [Procs -> BOOLEAN] /\ raced \in [Procs -> BOOLEAN]
  /\ late \subseteq Requests /\ lost \subseteq Requests
  /\ failures \in Nat

Admitted == {"sent", "heard", "unheard", "settling", "unmatched", "charging", "charged"}

\* A reload forgets nothing (main.go:474-511, engine.go:1276-1317): what was
\* admitted waits in an engine that runs or in SQLite, is charged there or is
\* about to be, across any number of shutdowns, reloads and processes; except
\* what a handler held when close passed it, or a crash or failed write took.
NothingForgotten ==
  \A r \in Requests : req[r].pc \in Admitted =>
    \/ r \in rows \cup durable \cup late \cup lost
    \/ \E e \in Engines : /\ Alive(e)
                          /\ r \in pending[e] \cup queue[e] \/ At(r, "charging", e)

\* Usage is settled in one ledger (lock_linux.go:18-28, main.go:592-601): of all
\* engines of all processes at most one accepts admissions or callbacks.
OneEngineSettles ==
  \A e, f \in Engines : phase[e] \in {"open", "draining"} /\ phase[f] \in {"open", "draining"}
                       => e = f

\* No engine runs unseen with the database locked (main.go:513-519): its process
\* points at it, or a shutdown that will close it still runs.
NoOrphan ==
  \A e \in Engines : Alive(e) => \/ runtime[home[e]] = e
                                \/ \E s \in Hosts : call[s].eng = e

\* A configure that succeeded leaves the process a working engine until it is
\* shut down (main.go:584-616), but for the two gaps that Reconfigure names.
ConfiguredLives ==
  \A p \in Procs : registered[p] /\ ~raced[p] =>
                     runtime[p] # None /\ phase[runtime[p]] = "open"

\* CPA's synchronous shutdown call returns (main.go:482-511): whatever other
\* shutdowns, reloads, failures and callbacks do meanwhile.
ShutdownReturns == \A s \in Hosts : call[s].pc # "idle" ~> call[s].pc = "idle"
=============================================================================
