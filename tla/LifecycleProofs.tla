-------------------------- MODULE LifecycleProofs --------------------------
(***************************************************************************)
(* Theorems about Lifecycle, for any number of processes, engines, threads *)
(* and requests: the types; that one engine at a time settles usage; that  *)
(* no engine runs unseen; that a successful configure leaves a working     *)
(* engine; and that no reload forgets an admitted request.                 *)
(***************************************************************************)
EXTENDS Lifecycle, TLAPS

-----------------------------------------------------------------------------
(* The inductive invariant about the engines.                               *)

AfterSave == {"usage", "rate", "flush", "final", "store"}
HoldSteps == {"save"} \cup AfterSave

\* An engine not yet opened is nowhere.
Fresh ==
  \A e \in Engines : phase[e] = "unborn" =>
    /\ lock # e
    /\ pending[e] = {} /\ queue[e] = {}
    /\ \A p \in Procs : runtime[p] # e
    /\ \A s \in Hosts : call[s].eng # e
    /\ \A r \in Requests : req[r].eng # e

\* An opened engine has a process, and what points at it lives in the same.
Homes ==
  /\ \A e \in Engines : IF phase[e] = "unborn" THEN home[e] = None ELSE home[e] \in Procs
  /\ \A p \in Procs : runtime[p] # None => /\ home[runtime[p]] = p
                                           /\ phase[runtime[p]] # "gone"
  /\ \A r \in Requests : req[r].pc # "unsent" => req[r].eng \in Engines

\* What a shutdown has done to its engine.
CallPhase ==
  \A s \in Hosts :
    LET e == call[s].eng
        pc == call[s].pc
    IN /\ pc = "idle" <=> e = None
       /\ pc # "idle" => phase[e] \notin {"unborn", "gone"}
       /\ pc \in {"drain", "close"} => phase[e] \in {"draining", "quiet", "closed"}
       /\ pc \in {"save", "usage"} => phase[e] = "draining"
       /\ pc \in {"rate", "flush", "final", "store", "mark"} => phase[e] = "quiet"
       /\ pc = "release" => phase[e] = "closed"

\* closeMu.
OneCloser ==
  \A s, t \in Hosts : /\ call[s].pc \in CloseSteps /\ call[t].pc \in CloseSteps
                      /\ call[s].eng = call[t].eng
                      => s = t

\* The lock is held from Open to store.Close, and by no other engine.
LockHeld ==
  /\ lock # None => Alive(lock)
  /\ \A e \in Engines : Alive(e) /\ lock # e => \E s \in Hosts : call[s].eng = e /\ call[s].pc = "mark"
  /\ \A s \in Hosts : call[s].pc = "mark" => lock # call[s].eng

\* A shutdown is at work on every engine that is neither open nor closed, and
\* on every closed one that is still pointed at.
Attended ==
  \A e \in Engines :
    /\ phase[e] = "open" => runtime[home[e]] = e
    /\ phase[e] = "draining" =>
         \E s \in Hosts : call[s].eng = e /\ call[s].pc \in {"drain", "close", "save", "usage"}
    /\ phase[e] = "quiet" =>
         \E s \in Hosts : call[s].eng = e /\ call[s].pc \in CloseSteps
    /\ phase[e] = "closed" /\ runtime[home[e]] = e =>
         \E s \in Hosts : call[s].eng = e /\ call[s].pc = "release"

\* No shutdown has begun on the engine of a configure that stands.
Standing ==
  \A p \in Procs : registered[p] /\ ~raced[p] =>
    /\ runtime[p] # None /\ phase[runtime[p]] = "open"
    /\ \A s \in Hosts : call[s].eng # runtime[p]

EngineInv == TypeOK /\ Fresh /\ Homes /\ CallPhase /\ OneCloser /\ LockHeld /\ Attended /\ Standing

-----------------------------------------------------------------------------
(* The inductive invariant about the requests.                              *)

\* The checkpoint of the engine that has the lock is written, or there is none.
Saved == lock = None \/ \E s \in Hosts : call[s].eng = lock /\ call[s].pc \in AfterSave

\* A request that passed the gate of a running engine is about to be marked there.
CheckedInTime ==
  \A r \in Requests : req[r].pc = "checked" =>
    r \in late \/ (lock = req[r].eng /\ ~Closing(req[r].eng))

\* What close has promised to keep of its engine, at each of its steps.
PromisedBy(s) ==
  LET e == call[s].eng
      pc == call[s].pc
  IN /\ pc = "save" => pending[e] \subseteq copy \cup late
     /\ pc \in AfterSave => e \in failed \/ pending[e] \subseteq rows \cup late
     /\ pc = "store" => /\ e \in failed \/ queue[e] \subseteq late
                        /\ \A r \in Requests : At(r, "settling", e) \/ At(r, "charging", e) => r \in late

Promised == \A s \in Hosts : PromisedBy(s)

Waiting(r) == req[r].pc \in Admitted \cup {"marked"}

Sheltered(r) ==
  \/ r \in durable \cup late \cup lost
  \/ r \in rows /\ Saved
  \/ lock # None /\ (r \in pending[lock] \cup queue[lock] \/ At(r, "charging", lock))

RequestInv == CheckedInTime /\ Promised /\ \A r \in Requests : Waiting(r) => Sheltered(r)

IInv == EngineInv /\ RequestInv

-----------------------------------------------------------------------------
(* Types.                                                                   *)

LEMMA TypeInit == Init => TypeOK
BY LifecycleAssumption DEF Init, TypeOK, Phases, Stages, Calls, IdleCall

CallType == [Hosts -> [pc : Calls, eng : Engines \cup {None}, force : BOOLEAN]]
ReqType == [Requests -> [pc : Stages, eng : Engines \cup {None}]]

\* A shutdown that goes on is a shutdown.
LEMMA CallMoves ==
  ASSUME call \in CallType, NEW s \in Hosts, NEW pc \in Calls, NEW force \in BOOLEAN
  PROVE  /\ [call EXCEPT ![s].pc = pc] \in CallType
         /\ [call EXCEPT ![s].force = force] \in CallType
         /\ [call EXCEPT ![s].pc = pc, ![s].force = force] \in CallType
<1>1. /\ [call EXCEPT ![s].pc = pc] = [call EXCEPT ![s] = [call[s] EXCEPT !.pc = pc]]
      /\ [call EXCEPT ![s].force = force] = [call EXCEPT ![s] = [call[s] EXCEPT !.force = force]]
      /\ [call EXCEPT ![s].pc = pc, ![s].force = force]
           = [call EXCEPT ![s] = [call[s] EXCEPT !.pc = pc, !.force = force]]
  BY DEF CallType
<1>2. call[s] \in [pc : Calls, eng : Engines \cup {None}, force : BOOLEAN]
  BY DEF CallType
<1>. QED BY <1>1, <1>2 DEF CallType

\* A request that moves is a request.
LEMMA RequestMoves ==
  ASSUME req \in ReqType, NEW r \in Requests, NEW pc \in Stages
  PROVE  [req EXCEPT ![r].pc = pc] \in ReqType
BY DEF ReqType

\* The successor of a step of each kind has the types.
LEMMA TypeNext == EngineInv /\ [Next]_vars => TypeOK'
<1>. SUFFICES ASSUME EngineInv, [Next]_vars PROVE TypeOK'
  OBVIOUS
<1>. USE LifecycleAssumption
<1>. TypeOK
  BY DEF EngineInv
<1>1. ASSUME NEW p \in Procs, Open(p) PROVE TypeOK'
  <2>. DEFINE e == CHOOSE f \in Unborn : TRUE
  <2>1. e \in Engines
    BY <1>1 DEF Open, Unborn
  <2>. HIDE DEF e
  <2>2. /\ runtime' = [runtime EXCEPT ![p] = e]
        /\ home' = [home EXCEPT ![e] = p]
        /\ phase' = [phase EXCEPT ![e] = "open"]
        /\ lock' = e
        /\ loops' = [loops EXCEPT ![e] = {"rate", "flush"}]
        /\ pending' = [pending EXCEPT ![e] = rows]
        /\ loaded' = [loaded EXCEPT ![e] = rows]
    BY <1>1 DEF Open, e
  <2>3. /\ registered' = [registered EXCEPT ![p] = TRUE]
        /\ raced' = [raced EXCEPT ![p] = FALSE]
        /\ UNCHANGED <<requests, call, failed, copy, rows, charges, failures>>
    BY <1>1 DEF Open
  <2>. QED BY <2>1, <2>2, <2>3 DEF TypeOK, Phases, requests, charges
<1>2. ASSUME NEW p \in Procs, Reconfigure(p) PROVE TypeOK'
  BY <1>2 DEF Reconfigure, Overlaps, TypeOK, requests, markers, charges
<1>3. ASSUME NEW p \in Procs, Crash(p) PROVE TypeOK'
  <2>1. /\ phase' \in [Engines -> Phases] /\ loops' \in [Engines -> SUBSET {"rate", "flush"}]
        /\ pending' \in [Engines -> SUBSET Requests] /\ loaded' \in [Engines -> SUBSET Requests]
        /\ queue' \in [Engines -> SUBSET Requests]
    BY <1>3 DEF Crash, TypeOK, Phases
  <2>2. lock' \in Engines \cup {None} /\ lost' \subseteq Requests /\ failures' \in Nat
    BY <1>3 DEF Crash, TypeOK
  <2>3. req' \in ReqType
    BY <1>3 DEF Crash, TypeOK, ReqType, Stages
  <2>4. call' \in CallType
    BY <1>3 DEF Crash, TypeOK, CallType, Calls, IdleCall
  <2>5. /\ runtime' \in [Procs -> Engines \cup {None}] /\ registered' \in [Procs -> BOOLEAN]
        /\ UNCHANGED <<late, home, raced, failed, copy, rows, durable>>
    BY <1>3 DEF Crash, TypeOK
  <2>. QED BY <2>1, <2>2, <2>3, <2>4, <2>5 DEF TypeOK, ReqType, CallType
<1>4. ASSUME NEW s \in Hosts, NEW p \in Procs, ShutdownStart(s, p) PROVE TypeOK'
  BY <1>4 DEF ShutdownStart, TypeOK, Calls, requests, markers, charges
<1>5. ASSUME NEW s \in Hosts, Shutdown(s) PROVE TypeOK'
  <2>. call[s].pc = "idle" \/ call[s].eng \in Engines
    BY DEF EngineInv, CallPhase, TypeOK
  <2>1. CASE CloseAdmissions(s)
    BY <2>1 DEF CloseAdmissions, Goto, AdmissionsClosed, TypeOK, Phases, Calls, requests, markers, charges
  <2>2. CASE Drain(s)
    <3>1. call' \in CallType
      BY <2>2, CallMoves DEF Drain, TypeOK, CallType, Calls
    <3>. QED BY <2>2, <3>1 DEF Drain, TypeOK, CallType, requests, markers, charges
  <2>3. CASE EnterClose(s)
    <3>1. call' \in CallType
      <4>1. CASE call' = [call EXCEPT ![s].pc = "release", ![s].force = FALSE]
        BY <4>1, CallMoves DEF TypeOK, CallType, Calls
      <4>2. CASE call' = [call EXCEPT ![s].force = TRUE]
        BY <4>2, CallMoves DEF TypeOK, CallType
      <4>3. CASE call' = [call EXCEPT ![s].pc = "save", ![s].force = FALSE]
        BY <4>3, CallMoves DEF TypeOK, CallType, Calls, CloseSteps
      <4>. QED BY <2>3, <4>1, <4>2, <4>3 DEF EnterClose
    <3>2. phase' \in [Engines -> Phases]
      BY <2>3 DEF EnterClose, AdmissionsClosed, TypeOK, Phases
    <3>3. copy' \subseteq Requests /\ late' \subseteq Requests
      BY <2>3 DEF EnterClose, TypeOK
    <3>. QED BY <2>3, <3>1, <3>2, <3>3 DEF EnterClose, TypeOK, CallType, markers, charges
  <2>4. CASE Save(s)
    BY <2>4 DEF Save, Goto, TypeOK, Calls, CloseSteps, requests, charges
  <2>5. CASE CloseUsage(s)
    <3>1. call' \in CallType
      BY <2>5, CallMoves DEF CloseUsage, Goto, TypeOK, CallType, Calls, CloseSteps
    <3>. QED BY <2>5, <3>1 DEF CloseUsage, TypeOK, CallType, Phases, requests, markers, charges
  <2>6. CASE AwaitRateLoop(s) \/ AwaitFlushLoop(s)
    <3>1. call' = [call EXCEPT ![s].pc = "flush"] \/ call' = [call EXCEPT ![s].pc = "final"]
      BY <2>6 DEF AwaitRateLoop, AwaitFlushLoop, AwaitLoop, Goto
    <3>2. call' \in CallType
      <4>1. CASE call' = [call EXCEPT ![s].pc = "flush"]
        BY <4>1, CallMoves DEF TypeOK, CallType, Calls, CloseSteps
      <4>2. CASE call' = [call EXCEPT ![s].pc = "final"]
        BY <4>2, CallMoves DEF TypeOK, CallType, Calls, CloseSteps
      <4>. QED BY <3>1, <4>1, <4>2
    <3>. QED BY <2>6, <3>2 DEF AwaitRateLoop, AwaitFlushLoop, AwaitLoop, TypeOK, CallType, requests, markers, charges
  <2>7. CASE FinalFlush(s)
    <3>1. call' \in CallType
      BY <2>7, CallMoves DEF FinalFlush, Goto, TypeOK, CallType, Calls, CloseSteps
    <3>2. /\ durable' \subseteq Requests /\ queue' \in [Engines -> SUBSET Requests] /\ failures' \in Nat
      BY <2>7 DEF FinalFlush, Write, TypeOK, charges
    <3>3. failed' \subseteq Engines /\ late' \subseteq Requests
      BY <2>7, call[s].eng \in Engines DEF FinalFlush, TypeOK
    <3>. QED BY <2>7, <3>1, <3>2, <3>3 DEF FinalFlush, TypeOK, CallType, markers
  <2>8. CASE CloseStore(s)
    <3>1. call' \in CallType
      BY <2>8, CallMoves DEF CloseStore, Goto, TypeOK, CallType, Calls, CloseSteps
    <3>2. lost' \subseteq Requests
      BY <2>8, call[s].eng \in Engines DEF CloseStore, TypeOK
    <3>. QED BY <2>8, <3>1, <3>2 DEF CloseStore, TypeOK, CallType, markers, charges
  <2>9. CASE MarkClosed(s)
    BY <2>9 DEF MarkClosed, Goto, TypeOK, Phases, Calls, requests, markers, charges
  <2>10. CASE Release(s)
    BY <2>10 DEF Release, IdleCall, TypeOK, Calls, requests, markers, charges
  <2>. QED BY <1>5, <2>1, <2>2, <2>3, <2>4, <2>5, <2>6, <2>7, <2>8, <2>9, <2>10 DEF Shutdown
<1>6. ASSUME NEW e \in Engines, RateLoopEnds(e) \/ FlushTick(e) \/ FlushLoopEnds(e) PROVE TypeOK'
  <2>1. durable' \subseteq Requests /\ queue' \in [Engines -> SUBSET Requests] /\ failures' \in Nat
    BY <1>6 DEF RateLoopEnds, FlushTick, FlushLoopEnds, Write, TypeOK, charges
  <2>2. loops' \in [Engines -> SUBSET {"rate", "flush"}]
    BY <1>6 DEF RateLoopEnds, FlushTick, FlushLoopEnds, TypeOK, lifeline
  <2>. QED BY <1>6, <2>1, <2>2 DEF RateLoopEnds, FlushTick, FlushLoopEnds, TypeOK, requests, lifeline, markers
<1>7. ASSUME NEW r \in Requests, Handler(r) PROVE TypeOK'
  <2>. req[r].pc # "unsent" => req[r].eng \in Engines /\ home[req[r].eng] \in Procs \cup {None}
    BY DEF EngineInv, Homes, TypeOK
  <2>1. CASE Callback(r)
    BY <2>1 DEF EngineInv, Homes, Fresh, Callback, TypeOK, Stages, lifeline, markers, charges
  <2>2. CASE Check(r) \/ Admit(r) \/ Settle(r)
    BY <2>2 DEF Check, Admit, Settle, Move, TypeOK, Stages, lifeline, markers, charges
  <2>3. CASE AddMarker(r) \/ AdmitFails(r)
    <3>1. req' \in ReqType
      <4>1. CASE AddMarker(r)
        BY <4>1 DEF AddMarker, Move, TypeOK, ReqType, Stages
      <4>2. CASE AdmitFails(r)
        BY <4>2 DEF AdmitFails, Move, TypeOK, ReqType, Stages
      <4>. QED BY <2>3, <4>1, <4>2
    <3>2. /\ pending' \in [Engines -> SUBSET Requests]
      BY <2>3 DEF AddMarker, AdmitFails, TypeOK
    <3>. QED BY <2>3, <3>1, <3>2 DEF AddMarker, AdmitFails, TypeOK, ReqType, lifeline, charges
  <2>4. CASE Take(r) \/ Charge(r)
    <3>1. req' \in ReqType
      <4>1. \E pc \in Stages : req' = [req EXCEPT ![r].pc = pc]
        BY <2>4 DEF Take, Charge, Move, Stages
      <4>. QED BY <4>1 DEF TypeOK, ReqType
    <3>2. /\ pending' \in [Engines -> SUBSET Requests] /\ loaded' \in [Engines -> SUBSET Requests]
      <4>1. CASE Take(r)
        BY <4>1 DEF Take, TypeOK
      <4>2. CASE Charge(r)
        BY <4>2 DEF Charge, TypeOK, markers
      <4>. QED BY <2>4, <4>1, <4>2
    <3>3. rows' \subseteq Requests /\ queue' \in [Engines -> SUBSET Requests]
      BY <2>4 DEF Take, Charge, TypeOK, markers, charges
    <3>. QED BY <2>4, <3>1, <3>2, <3>3 DEF Take, Charge, TypeOK, ReqType, lifeline, markers, charges
  <2>. QED BY <1>7, <2>1, <2>2, <2>3, <2>4 DEF Handler
<1>8. ASSUME NEW r \in Requests, NEW p \in Procs, Pick(r, p) PROVE TypeOK'
  BY <1>8 DEF Pick, TypeOK, Stages, lifeline, markers, charges
<1>9. CASE UNCHANGED vars
  BY <1>9 DEF vars, TypeOK, requests, lifeline, markers, charges
<1>. QED BY <1>1, <1>2, <1>3, <1>4, <1>5, <1>6, <1>7, <1>8, <1>9 DEF Next

-----------------------------------------------------------------------------
(* The engines.                                                             *)

LEMMA EngineInit == Init => EngineInv
<1>. SUFFICES ASSUME Init PROVE EngineInv
  OBVIOUS
<1>1. TypeOK
  BY TypeInit
<1>. QED BY <1>1, LifecycleAssumption
         DEF Init, EngineInv, Fresh, Homes, CallPhase, OneCloser, LockHeld, Alive, Attended,
             Standing, IdleCall, CloseSteps

\* Where no engine, pointer or shutdown moves, what is said of them still holds.
LEMMA EnginesStay ==
  ASSUME EngineInv, UNCHANGED <<runtime, home, phase, lock, call, registered, raced>>
  PROVE  CallPhase' /\ OneCloser' /\ LockHeld' /\ Attended' /\ Standing'
<1>1. CallPhase'
  BY DEF EngineInv, CallPhase
<1>2. OneCloser'
  BY DEF EngineInv, OneCloser
<1>3. LockHeld'
  BY DEF EngineInv, LockHeld, Alive
<1>4. Attended'
  BY DEF EngineInv, Attended
<1>5. Standing'
  BY DEF EngineInv, Standing
<1>. QED BY <1>1, <1>2, <1>3, <1>4, <1>5

\* A request or a loop moves: no engine does.
LEMMA RequestStep ==
  ASSUME EngineInv,
         \/ \E r \in Requests : Handler(r) \/ \E p \in Procs : Pick(r, p)
         \/ \E e \in Engines : RateLoopEnds(e) \/ FlushTick(e) \/ FlushLoopEnds(e)
         \/ UNCHANGED vars
  PROVE  /\ UNCHANGED <<runtime, home, phase, lock, call, registered, raced>>
         /\ Fresh' /\ Homes'
<1>. /\ TypeOK /\ Fresh /\ Homes
  BY DEF EngineInv
<1>. USE LifecycleAssumption
<1>1. ASSUME NEW r \in Requests, Handler(r)
      PROVE  UNCHANGED <<runtime, home, phase, lock, call, registered, raced>> /\ Fresh' /\ Homes'
  <2>. DEFINE e == req[r].eng
  <2>1. UNCHANGED <<runtime, home, phase, lock, call, registered, raced>> /\ req[r].pc # "unsent"
    BY <1>1 DEF Handler, Callback, Check, AddMarker, Admit, AdmitFails, Settle, Take, Charge, lifeline
  <2>2. e \in Engines /\ phase[e] # "unborn"
    BY <2>1 DEF Homes, Fresh
  <2>3. \A q \in Requests : \/ req'[q].eng = req[q].eng
                            \/ /\ req'[q].eng \in Engines
                               /\ req'[q].eng = runtime[home[e]] /\ home[e] \in Procs
    <3>1. CASE Callback(r)
      <4>. home[e] \in Procs
        BY <2>2 DEF Homes
      <4>. runtime[home[e]] \in Engines \cup {None}
        BY DEF TypeOK
      <4>. QED BY <3>1 DEF Callback, TypeOK
    <3>2. CASE ~Callback(r)
      <4>1. CASE Check(r) \/ AddMarker(r) \/ Admit(r) \/ AdmitFails(r)
        BY <4>1 DEF Check, AddMarker, Admit, AdmitFails, Move, TypeOK
      <4>2. CASE Settle(r) \/ Take(r) \/ Charge(r)
        BY <4>2 DEF Settle, Take, Charge, Move, TypeOK
      <4>. QED BY <1>1, <3>2, <4>1, <4>2 DEF Handler
    <3>. QED BY <3>1, <3>2
  <2>4. \A f \in Engines \ {e} : pending'[f] = pending[f] /\ queue'[f] = queue[f]
    BY <1>1, <2>2 DEF Handler, Callback, Check, AddMarker, Admit, AdmitFails, Settle, Take, Charge, markers, charges, TypeOK
  <2>5. Fresh'
    BY <2>1, <2>2, <2>3, <2>4 DEF Fresh
  <2>6. \A q \in Requests : req'[q].pc # "unsent" => req[q].pc # "unsent"
    BY <1>1, <2>1, ZenonT(30) DEF Handler, Callback, Check, AddMarker, Admit, AdmitFails, Settle, Take, Charge, Move, TypeOK
  <2>7. Homes'
    BY <2>1, <2>3, <2>6 DEF Homes
  <2>. QED BY <2>1, <2>5, <2>7
<1>2. ASSUME NEW r \in Requests, NEW p \in Procs, Pick(r, p)
      PROVE  UNCHANGED <<runtime, home, phase, lock, call, registered, raced>> /\ Fresh' /\ Homes'
  <2>1. UNCHANGED <<runtime, home, phase, lock, call, registered, raced, pending, queue>>
    BY <1>2 DEF Pick, lifeline, markers, charges
  <2>2. /\ runtime[p] \in Engines
        /\ \A q \in Requests : req'[q] = IF q = r THEN [pc |-> "picked", eng |-> runtime[p]] ELSE req[q]
    BY <1>2 DEF Pick, TypeOK
  <2>. QED BY <2>1, <2>2 DEF Fresh, Homes
<1>3. ASSUME NEW e \in Engines, RateLoopEnds(e) \/ FlushTick(e) \/ FlushLoopEnds(e)
      PROVE  UNCHANGED <<runtime, home, phase, lock, call, registered, raced>> /\ Fresh' /\ Homes'
  <2>1. UNCHANGED <<runtime, home, phase, lock, call, registered, raced, pending, req>>
    BY <1>3 DEF RateLoopEnds, FlushTick, FlushLoopEnds, requests, lifeline, markers
  <2>2. \A f \in Engines : queue'[f] \in {queue[f], {}}
    BY <1>3 DEF RateLoopEnds, FlushTick, FlushLoopEnds, Write, charges, TypeOK
  <2>. QED BY <2>1, <2>2 DEF Fresh, Homes
<1>4. ASSUME UNCHANGED vars
      PROVE  UNCHANGED <<runtime, home, phase, lock, call, registered, raced>> /\ Fresh' /\ Homes'
  BY <1>4 DEF vars, requests, lifeline, markers, charges, Fresh, Homes
<1>. QED BY <1>1, <1>2, <1>3, <1>4

\* What points at an engine points at one.
LEMMA Pointers ==
  ASSUME TypeOK
  PROVE  /\ lock \in Engines \cup {None}
         /\ \A p \in Procs : runtime[p] \in Engines \cup {None}
         /\ \A t \in Hosts : call[t].eng \in Engines \cup {None}
BY DEF TypeOK

\* A thread that shuts down moves, and no other.
Moved(s) == \A t \in Hosts \ {s} : call'[t] = call[t]

LEMMA ShutdownStartStep ==
  ASSUME EngineInv, NEW s \in Hosts, NEW p \in Procs, ShutdownStart(s, p)
  PROVE  Fresh' /\ Homes' /\ CallPhase' /\ OneCloser' /\ LockHeld' /\ Attended' /\ Standing'
<1>. /\ TypeOK /\ Fresh /\ Homes /\ CallPhase /\ OneCloser /\ LockHeld /\ Attended /\ Standing
  BY DEF EngineInv
<1>. USE LifecycleAssumption
<1>. DEFINE e == runtime[p]
<1>1. /\ UNCHANGED <<runtime, home, phase, lock, raced, pending, queue, req>>
      /\ e # None /\ call[s] = IdleCall
      /\ registered' = [registered EXCEPT ![p] = FALSE]
  BY DEF ShutdownStart, requests, markers, charges
<1>2. call'[s] = [pc |-> "begin", eng |-> e, force |-> FALSE] /\ Moved(s)
  BY DEF ShutdownStart, Moved, TypeOK
<1>3. e \in Engines /\ phase[e] \notin {"unborn", "gone"} /\ home[e] = p
  BY <1>1 DEF TypeOK, Homes, Fresh
<1>4. Fresh' /\ Homes'
  BY <1>1, <1>2, <1>3 DEF Fresh, Homes, Moved
<1>5. CallPhase'
  BY <1>1, <1>2, <1>3 DEF CallPhase, Moved
<1>6. OneCloser' /\ LockHeld'
  BY <1>1, <1>2 DEF OneCloser, LockHeld, Alive, Moved, CloseSteps, IdleCall
<1>7. Attended'
  BY <1>1, <1>2 DEF Attended, Moved, CloseSteps, IdleCall
<1>8. Standing'
  <2>. SUFFICES ASSUME NEW q \in Procs, registered'[q], ~raced'[q]
                PROVE  /\ runtime'[q] # None /\ phase'[runtime'[q]] = "open"
                       /\ \A t \in Hosts : call'[t].eng # runtime'[q]
    BY DEF Standing
  <2>1. q # p /\ registered[q]
    BY <1>1 DEF TypeOK
  <2>2. runtime[q] # e
    BY <1>3, <2>1, <1>1 DEF Homes
  <2>. QED BY <1>1, <1>2, <2>1, <2>2 DEF Standing, Moved
<1>. QED BY <1>4, <1>5, <1>6, <1>7, <1>8

\* A step of a shutdown that closes nothing and gives nothing back: it waits,
\* saves, flushes, or finds what to do next.
LEMMA AdvanceStep ==
  ASSUME EngineInv, NEW s \in Hosts, Drain(s) \/ EnterClose(s) \/ Save(s) \/ AwaitRateLoop(s)
                                     \/ AwaitFlushLoop(s) \/ FinalFlush(s)
  PROVE  Fresh' /\ Homes' /\ CallPhase' /\ OneCloser' /\ LockHeld' /\ Attended' /\ Standing'
<1>. /\ TypeOK /\ Fresh /\ Homes /\ CallPhase /\ OneCloser /\ LockHeld /\ Attended /\ Standing
  BY DEF EngineInv
<1>. USE LifecycleAssumption
<1>. DEFINE e == call[s].eng
<1>1. call[s].pc # "idle" /\ e \in Engines
  BY DEF Drain, EnterClose, Save, AwaitRateLoop, AwaitFlushLoop, AwaitLoop, FinalFlush, CallPhase, TypeOK
<1>2. /\ UNCHANGED <<runtime, home, lock, registered, raced, pending, req>>
      /\ \A f \in Engines : f # e => queue'[f] = queue[f]
  <2>1. UNCHANGED <<runtime, home, lock, registered, raced, pending, req>>
    BY DEF Drain, EnterClose, Save, AwaitRateLoop, AwaitFlushLoop, AwaitLoop, FinalFlush, requests, markers, charges
  <2>2. \A f \in Engines : f # e => queue'[f] = queue[f]
    <3>1. CASE FinalFlush(s)
      BY <3>1 DEF FinalFlush, Write, charges, TypeOK
    <3>2. CASE ~FinalFlush(s)
      BY <3>2 DEF Drain, EnterClose, Save, AwaitRateLoop, AwaitFlushLoop, AwaitLoop, charges
    <3>. QED BY <3>1, <3>2
  <2>. QED BY <2>1, <2>2
<1>3. UNCHANGED phase
  <2>1. CASE EnterClose(s)
    <3>. phase[e] # "open"
      BY <2>1 DEF EnterClose, CallPhase
    <3>. QED BY <2>1, <1>1 DEF EnterClose, AdmissionsClosed, TypeOK
  <2>2. CASE ~EnterClose(s)
    BY <2>2 DEF Drain, Save, AwaitRateLoop, AwaitFlushLoop, AwaitLoop, FinalFlush
  <2>. QED BY <2>1, <2>2
<1>4. call'[s].eng = e /\ Moved(s)
  <2>1. CASE Drain(s)
    BY <2>1 DEF Drain, Moved, TypeOK
  <2>2. CASE EnterClose(s)
    BY <2>2 DEF EnterClose, Moved, TypeOK
  <2>3. CASE Save(s) \/ AwaitRateLoop(s) \/ AwaitFlushLoop(s) \/ FinalFlush(s)
    BY <2>3 DEF Save, AwaitRateLoop, AwaitFlushLoop, AwaitLoop, FinalFlush, Goto, Moved, TypeOK
  <2>. QED BY <2>1, <2>2, <2>3
<1>5. \/ call[s].pc \in {"drain", "close"} /\ call'[s].pc = "close"
      \/ call[s].pc = "close" /\ call'[s].pc = "release" /\ phase[e] = "closed"
      \/ call[s].pc = "close" /\ call'[s].pc = "save" /\ ~Closing(e) /\ phase[e] # "closed"
      \/ call[s].pc = "save" /\ call'[s].pc = "usage"
      \/ call[s].pc \in {"rate", "flush", "final"} /\ call'[s].pc \in {"flush", "final", "store"}
  <2>1. CASE Drain(s)
    BY <2>1 DEF Drain, TypeOK
  <2>2. CASE EnterClose(s)
    BY <2>2 DEF EnterClose, TypeOK
  <2>3. CASE Save(s)
    BY <2>3 DEF Save, Goto, TypeOK
  <2>4. CASE AwaitRateLoop(s) \/ AwaitFlushLoop(s)
    BY <2>4 DEF AwaitRateLoop, AwaitFlushLoop, AwaitLoop, Goto, TypeOK
  <2>5. CASE FinalFlush(s)
    BY <2>5 DEF FinalFlush, Goto, TypeOK
  <2>. QED BY <2>1, <2>2, <2>3, <2>4, <2>5
<1>6. Fresh' /\ Homes'
  <2>. phase[e] # "unborn"
    BY <1>1 DEF CallPhase
  <2>. QED BY <1>2, <1>3, <1>4 DEF Fresh, Homes, Moved
<1>7. CallPhase'
  <2>1. call'[s].pc = "save" => phase[e] = "draining"
    BY <1>1, <1>5 DEF CallPhase, Attended, Closing
  <2>2. \A t \in Hosts \ {s} : call'[t] = call[t]
    BY <1>4 DEF Moved
  <2>. QED BY <1>1, <1>3, <1>4, <1>5, <2>1, <2>2 DEF CallPhase
<1>8. OneCloser'
  BY <1>4, <1>5 DEF OneCloser, Moved, Closing, CloseSteps
<1>9. LockHeld'
  BY <1>2, <1>3, <1>4, <1>5, Pointers DEF LockHeld, Alive, Moved
<1>10. Attended'
  BY <1>2, <1>3, <1>4, <1>5 DEF Attended, CallPhase, Moved, CloseSteps
<1>11. Standing'
  BY <1>2, <1>3, <1>4 DEF Standing, Moved
<1>. QED BY <1>6, <1>7, <1>8, <1>9, <1>10, <1>11

\* The admissions of an engine are closed.
LEMMA CloseAdmissionsStep ==
  ASSUME EngineInv, NEW s \in Hosts, CloseAdmissions(s)
  PROVE  Fresh' /\ Homes' /\ CallPhase' /\ OneCloser' /\ LockHeld' /\ Attended' /\ Standing'
<1>. /\ TypeOK /\ Fresh /\ Homes /\ CallPhase /\ OneCloser /\ LockHeld /\ Attended /\ Standing
  BY DEF EngineInv
<1>. USE LifecycleAssumption
<1>. DEFINE e == call[s].eng
<1>1. /\ UNCHANGED <<runtime, home, lock, registered, raced, pending, queue, req>>
      /\ call[s].pc = "begin" /\ e \in Engines
  BY DEF CloseAdmissions, requests, markers, charges, CallPhase, TypeOK
<1>2. call'[s].eng = e /\ call'[s].pc = "drain" /\ Moved(s)
  BY DEF CloseAdmissions, Goto, Moved, TypeOK
<1>3. \A f \in Engines : phase'[f] = IF f = e /\ phase[f] = "open" THEN "draining" ELSE phase[f]
  BY <1>1 DEF CloseAdmissions, AdmissionsClosed, TypeOK
<1>4. phase[e] \notin {"unborn", "gone"}
  BY <1>1 DEF CallPhase
<1>5. Fresh' /\ Homes'
  <2>1. Fresh'
    BY <1>1, <1>2, <1>3, <1>4 DEF Fresh, Moved
  <2>2. Homes'
    BY <1>1, <1>3, <1>4, Pointers DEF Homes
  <2>. QED BY <2>1, <2>2
<1>6. CallPhase'
  <2>1. phase'[e] \in {"draining", "quiet", "closed"}
    BY <1>1, <1>3, <1>4 DEF TypeOK, Phases
  <2>2. \A t \in Hosts \ {s} : call'[t] = call[t] /\ call[t].eng \in Engines \cup {None}
    BY <1>2 DEF Moved, TypeOK
  <2>3. \A t \in Hosts \ {s} : call[t].pc # "idle" => call[t].eng \in Engines
    BY <2>2 DEF CallPhase
  <2>. QED BY <1>1, <1>2, <1>3, <2>1, <2>2, <2>3 DEF CallPhase
<1>7. OneCloser'
  BY <1>2 DEF OneCloser, Moved, CloseSteps
<1>8. LockHeld'
  BY <1>1, <1>2, <1>3, Pointers DEF LockHeld, Alive, Moved
<1>9. Attended'
  BY <1>1, <1>2, <1>3 DEF Attended, Moved, CloseSteps
<1>10. Standing'
  BY <1>1, <1>2, <1>3 DEF Standing, Moved, TypeOK
<1>. QED BY <1>5, <1>6, <1>7, <1>8, <1>9, <1>10

\* Its callbacks are closed too.
LEMMA CloseUsageStep ==
  ASSUME EngineInv, NEW s \in Hosts, CloseUsage(s)
  PROVE  Fresh' /\ Homes' /\ CallPhase' /\ OneCloser' /\ LockHeld' /\ Attended' /\ Standing'
<1>. /\ TypeOK /\ Fresh /\ Homes /\ CallPhase /\ OneCloser /\ LockHeld /\ Attended /\ Standing
  BY DEF EngineInv
<1>. USE LifecycleAssumption
<1>. DEFINE e == call[s].eng
<1>1. /\ UNCHANGED <<runtime, home, lock, registered, raced, pending, queue, req>>
      /\ call[s].pc = "usage" /\ e \in Engines
  BY DEF CloseUsage, requests, markers, charges, CallPhase, TypeOK
<1>2. call'[s].eng = e /\ call'[s].pc = "rate" /\ Moved(s)
  BY DEF CloseUsage, Goto, Moved, TypeOK
<1>3. \A f \in Engines : phase'[f] = IF f = e THEN "quiet" ELSE phase[f]
  BY <1>1 DEF CloseUsage, AdmissionsClosed, TypeOK
<1>4. phase[e] = "draining"
  BY <1>1 DEF CallPhase
<1>5. Fresh' /\ Homes'
  <2>1. Fresh'
    BY <1>1, <1>2, <1>3, <1>4 DEF Fresh, Moved
  <2>2. Homes'
    BY <1>1, <1>3, <1>4, Pointers DEF Homes
  <2>. QED BY <2>1, <2>2
<1>6. CallPhase'
  <2>1. \A t \in Hosts \ {s} : call'[t] = call[t] /\ call[t].eng \in Engines \cup {None}
    BY <1>2 DEF Moved, TypeOK
  <2>2. \A t \in Hosts \ {s} : call[t].pc # "idle" => call[t].eng \in Engines
    BY <2>1 DEF CallPhase
  <2>3. \A t \in Hosts \ {s} : call[t].eng = e => call[t].pc \notin {"save", "usage"}
    BY <1>1 DEF OneCloser, CloseSteps
  <2>. QED BY <1>1, <1>2, <1>3, <1>4, <2>1, <2>2, <2>3 DEF CallPhase
<1>7. OneCloser'
  BY <1>1, <1>2 DEF OneCloser, Moved, CloseSteps
<1>8. LockHeld'
  BY <1>1, <1>2, <1>3, <1>4, Pointers DEF LockHeld, Alive, Moved
<1>9. Attended'
  BY <1>1, <1>2, <1>3 DEF Attended, Moved, CloseSteps
<1>10. Standing'
  BY <1>1, <1>2, <1>3, <1>4 DEF Standing, Moved, TypeOK
<1>. QED BY <1>5, <1>6, <1>7, <1>8, <1>9, <1>10

\* While close is between its checkpoint and store.Close, it has the lock.
LEMMA CloserHasLock ==
  ASSUME EngineInv, NEW s \in Hosts, call[s].pc \in HoldSteps
  PROVE  /\ call[s].eng \in Engines /\ call[s].eng = lock /\ phase[lock] \in {"draining", "quiet"}
         /\ \A t \in Hosts \ {s} : call[t].eng = lock => call[t].pc \notin CloseSteps
<1>1. call[s].eng \in Engines /\ phase[call[s].eng] \in {"draining", "quiet"}
  BY DEF EngineInv, TypeOK, CallPhase, HoldSteps, AfterSave
<1>2. \A t \in Hosts \ {s} : call[t].eng = call[s].eng => call[t].pc \notin CloseSteps
  BY DEF EngineInv, OneCloser, CloseSteps, HoldSteps, AfterSave
<1>3. call[s].eng = lock
  BY <1>1, <1>2 DEF EngineInv, LockHeld, Alive, HoldSteps, AfterSave, CloseSteps
<1>. QED BY <1>1, <1>2, <1>3

\* The lock is given back.
LEMMA CloseStoreStep ==
  ASSUME EngineInv, NEW s \in Hosts, CloseStore(s)
  PROVE  Fresh' /\ Homes' /\ CallPhase' /\ OneCloser' /\ LockHeld' /\ Attended' /\ Standing'
<1>. /\ TypeOK /\ Fresh /\ Homes /\ CallPhase /\ OneCloser /\ LockHeld /\ Attended /\ Standing
  BY DEF EngineInv
<1>. USE LifecycleAssumption
<1>. DEFINE e == call[s].eng
<1>1. /\ UNCHANGED <<runtime, home, phase, registered, raced, pending, queue, req>>
      /\ call[s].pc = "store" /\ e \in Engines
  BY DEF CloseStore, requests, markers, charges, CallPhase, TypeOK
<1>2. call'[s].eng = e /\ call'[s].pc = "mark" /\ Moved(s)
  BY DEF CloseStore, Goto, Moved, TypeOK
<1>3. lock' = None /\ lock = e /\ e # None
  BY <1>1, CloserHasLock DEF CloseStore, HoldSteps, AfterSave
<1>4. Fresh' /\ Homes'
  BY <1>1, <1>2, <1>3 DEF Fresh, Homes, Moved
<1>5. CallPhase' /\ OneCloser'
  BY <1>1, <1>2 DEF CallPhase, OneCloser, Moved, CloseSteps
<1>6. LockHeld'
  <2>1. \A f \in Engines : Alive(f) => \E t \in Hosts : call'[t].eng = f /\ call'[t].pc = "mark"
    <3>. SUFFICES ASSUME NEW f \in Engines, Alive(f), f # e
                  PROVE  \E t \in Hosts : call'[t].eng = f /\ call'[t].pc = "mark"
      BY <1>2
    <3>1. PICK t \in Hosts : call[t].eng = f /\ call[t].pc = "mark"
      BY <1>3 DEF LockHeld
    <3>. QED BY <1>1, <1>2, <3>1 DEF Moved
  <2>2. \A t \in Hosts : call'[t].pc = "mark" => call'[t].eng # None
    BY <1>2, <1>3 DEF Moved, CallPhase
  <2>. QED BY <1>1, <1>3, <2>1, <2>2 DEF LockHeld, Alive
<1>7. Attended'
  BY <1>1, <1>2 DEF Attended, Moved, CloseSteps
<1>8. Standing'
  BY <1>1, <1>2 DEF Standing, Moved
<1>. QED BY <1>4, <1>5, <1>6, <1>7, <1>8

\* The engine is closed.
LEMMA MarkClosedStep ==
  ASSUME EngineInv, NEW s \in Hosts, MarkClosed(s)
  PROVE  Fresh' /\ Homes' /\ CallPhase' /\ OneCloser' /\ LockHeld' /\ Attended' /\ Standing'
<1>. /\ TypeOK /\ Fresh /\ Homes /\ CallPhase /\ OneCloser /\ LockHeld /\ Attended /\ Standing
  BY DEF EngineInv
<1>. USE LifecycleAssumption
<1>. DEFINE e == call[s].eng
<1>1. /\ UNCHANGED <<runtime, home, lock, registered, raced, pending, queue, req>>
      /\ call[s].pc = "mark" /\ e \in Engines
  BY DEF MarkClosed, requests, markers, charges, CallPhase, TypeOK
<1>2. call'[s].eng = e /\ call'[s].pc = "release" /\ Moved(s)
  BY DEF MarkClosed, Goto, Moved, TypeOK
<1>3. \A f \in Engines : phase'[f] = IF f = e THEN "closed" ELSE phase[f]
  BY <1>1 DEF MarkClosed, AdmissionsClosed, TypeOK
<1>4. phase[e] = "quiet" /\ lock # e
  BY <1>1 DEF CallPhase, LockHeld
<1>5. Fresh' /\ Homes'
  <2>1. Fresh'
    BY <1>1, <1>2, <1>3, <1>4 DEF Fresh, Moved
  <2>2. Homes'
    BY <1>1, <1>3, <1>4, Pointers DEF Homes
  <2>. QED BY <2>1, <2>2
<1>6. CallPhase'
  <2>1. \A t \in Hosts \ {s} : call'[t] = call[t] /\ call[t].eng \in Engines \cup {None}
    BY <1>2 DEF Moved, TypeOK
  <2>2. \A t \in Hosts \ {s} : call[t].pc # "idle" => call[t].eng \in Engines
    BY <2>1 DEF CallPhase
  <2>3. \A t \in Hosts \ {s} : call[t].eng = e => call[t].pc \notin CloseSteps
    BY <1>1 DEF OneCloser, CloseSteps
  <2>. QED BY <1>1, <1>2, <1>3, <1>4, <2>1, <2>2, <2>3 DEF CallPhase, CloseSteps
<1>7. OneCloser'
  BY <1>1, <1>2 DEF OneCloser, Moved, CloseSteps
<1>8. LockHeld'
  BY <1>1, <1>2, <1>3, <1>4, Pointers DEF LockHeld, Alive, Moved
<1>9. Attended'
  BY <1>1, <1>2, <1>3 DEF Attended, Moved, CloseSteps
<1>10. Standing'
  BY <1>1, <1>2, <1>3, <1>4 DEF Standing, Moved, TypeOK
<1>. QED BY <1>5, <1>6, <1>7, <1>8, <1>9, <1>10

\* The pointer is dropped if it still is this engine.
LEMMA ReleaseStep ==
  ASSUME EngineInv, NEW s \in Hosts, Release(s)
  PROVE  Fresh' /\ Homes' /\ CallPhase' /\ OneCloser' /\ LockHeld' /\ Attended' /\ Standing'
<1>. /\ TypeOK /\ Fresh /\ Homes /\ CallPhase /\ OneCloser /\ LockHeld /\ Attended /\ Standing
  BY DEF EngineInv
<1>. USE LifecycleAssumption
<1>. DEFINE e == call[s].eng
<1>1. /\ UNCHANGED <<home, phase, lock, registered, raced, pending, queue, req>>
      /\ call[s].pc = "release" /\ e \in Engines /\ phase[e] = "closed"
  BY DEF Release, requests, markers, charges, CallPhase, TypeOK
<1>2. call'[s] = IdleCall /\ Moved(s)
  BY DEF Release, Moved, TypeOK
<1>3. \A p \in Procs : runtime'[p] = IF runtime[p] = e THEN None ELSE runtime[p]
  BY DEF Release, TypeOK
<1>4. Fresh'
  BY <1>1, <1>2, <1>3 DEF Fresh, Moved, IdleCall
<1>5. Homes'
  BY <1>1, <1>3 DEF Homes
<1>6. CallPhase' /\ OneCloser'
  BY <1>1, <1>2 DEF CallPhase, OneCloser, Moved, CloseSteps, IdleCall
<1>7. LockHeld'
  BY <1>1, <1>2 DEF LockHeld, Alive, Moved, IdleCall
<1>8. Attended'
  <2>. SUFFICES ASSUME NEW f \in Engines
                PROVE  /\ phase[f] = "open" => runtime'[home[f]] = f
                       /\ phase[f] = "draining" =>
                            \E t \in Hosts : call'[t].eng = f /\ call'[t].pc \in {"drain", "close", "save", "usage"}
                       /\ phase[f] = "quiet" =>
                            \E t \in Hosts : call'[t].eng = f /\ call'[t].pc \in CloseSteps
                       /\ phase[f] = "closed" /\ runtime'[home[f]] = f =>
                            \E t \in Hosts : call'[t].eng = f /\ call'[t].pc = "release"
    BY <1>1 DEF Attended
  <2>1. phase[f] # "unborn" => home[f] \in Procs
    BY DEF Homes
  <2>2. f # e => \A t \in Hosts : call[t].eng = f => call'[t] = call[t]
    BY <1>2 DEF Moved
  <2>. QED BY <1>1, <1>3, <2>1, <2>2 DEF Attended
<1>9. Standing'
  BY <1>1, <1>2, <1>3 DEF Standing, Moved, IdleCall, TypeOK
<1>. QED BY <1>4, <1>5, <1>6, <1>7, <1>8, <1>9

\* configure opens an engine.
LEMMA OpenStep ==
  ASSUME EngineInv, NEW p \in Procs, Open(p)
  PROVE  Fresh' /\ Homes' /\ CallPhase' /\ OneCloser' /\ LockHeld' /\ Attended' /\ Standing'
<1>. /\ TypeOK /\ Fresh /\ Homes /\ CallPhase /\ OneCloser /\ LockHeld /\ Attended /\ Standing
  BY DEF EngineInv
<1>. USE LifecycleAssumption
<1>. DEFINE e == CHOOSE f \in Unborn : TRUE
<1>1. e \in Engines /\ phase[e] = "unborn" /\ e # None
  BY DEF Open, Unborn
<1>2. /\ runtime[p] = None /\ lock = None
      /\ UNCHANGED <<call, queue, req>>
      /\ raced' = [raced EXCEPT ![p] = FALSE]
  BY DEF Open, requests, charges
<1>3. /\ runtime' = [runtime EXCEPT ![p] = e] /\ home' = [home EXCEPT ![e] = p]
      /\ phase' = [phase EXCEPT ![e] = "open"] /\ lock' = e
      /\ pending' = [pending EXCEPT ![e] = rows] /\ registered' = [registered EXCEPT ![p] = TRUE]
  BY DEF Open
<1>. HIDE DEF e
<1>4. /\ \A q \in Procs : runtime'[q] = IF q = p THEN e ELSE runtime[q]
      /\ \A f \in Engines : /\ home'[f] = IF f = e THEN p ELSE home[f]
                            /\ phase'[f] = IF f = e THEN "open" ELSE phase[f]
                            /\ f # e => pending'[f] = pending[f]
  BY <1>1, <1>3 DEF TypeOK
<1>5. /\ \A q \in Procs : runtime[q] # e
      /\ \A t \in Hosts : call[t].eng # e
      /\ \A r \in Requests : req[r].eng # e
  BY <1>1 DEF Fresh
<1>6. Fresh'
  BY <1>1, <1>2, <1>3, <1>4 DEF Fresh
<1>7. Homes'
  BY <1>1, <1>2, <1>4, <1>5 DEF Homes, TypeOK
<1>8. CallPhase'
  <2>1. \A t \in Hosts : call[t].pc # "idle" => call[t].eng \in Engines
    BY DEF CallPhase, TypeOK
  <2>. QED BY <1>2, <1>4, <1>5, <2>1 DEF CallPhase
<1>9. OneCloser'
  BY <1>2 DEF OneCloser
<1>10. LockHeld'
  BY <1>1, <1>2, <1>3, <1>4, <1>5 DEF LockHeld, Alive
<1>11. Attended'
  BY <1>1, <1>2, <1>4, <1>5 DEF Attended, Homes
<1>12. Standing'
  <2>. SUFFICES ASSUME NEW q \in Procs, registered'[q], ~raced'[q]
                PROVE  /\ runtime'[q] # None /\ phase'[runtime'[q]] = "open"
                       /\ \A t \in Hosts : call'[t].eng # runtime'[q]
    BY DEF Standing
  <2>1. CASE q = p
    BY <1>1, <1>2, <1>4, <1>5, <2>1
  <2>2. CASE q # p
    <3>. registered[q] /\ ~raced[q]
      BY <1>2, <1>3, <2>2 DEF TypeOK
    <3>. QED BY <1>2, <1>4, <2>2 DEF Standing, TypeOK
  <2>. QED BY <2>1, <2>2
<1>. QED BY <1>6, <1>7, <1>8, <1>9, <1>10, <1>11, <1>12

\* configure keeps the engine there is.
LEMMA ReconfigureStep ==
  ASSUME EngineInv, NEW p \in Procs, Reconfigure(p)
  PROVE  Fresh' /\ Homes' /\ CallPhase' /\ OneCloser' /\ LockHeld' /\ Attended' /\ Standing'
<1>. /\ TypeOK /\ Fresh /\ Homes /\ CallPhase /\ OneCloser /\ LockHeld /\ Attended /\ Standing
  BY DEF EngineInv
<1>. USE LifecycleAssumption
<1>. DEFINE e == runtime[p]
<1>1. /\ UNCHANGED <<runtime, home, phase, lock, call, pending, queue, req>>
      /\ e # None /\ ~IsClosing(e)
      /\ registered' = [registered EXCEPT ![p] = TRUE]
      /\ raced' = [raced EXCEPT ![p] = Overlaps(e)]
  BY DEF Reconfigure, requests, markers, charges
<1>2. Fresh' /\ Homes' /\ CallPhase' /\ OneCloser'
  BY <1>1 DEF Fresh, Homes, CallPhase, OneCloser
<1>3. LockHeld' /\ Attended'
  BY <1>1 DEF LockHeld, Attended, Alive
<1>4. e \in Engines /\ home[e] = p /\ phase[e] \in {"open", "closed"}
  BY <1>1 DEF TypeOK, Phases, Homes, Fresh, IsClosing
<1>5. ~Overlaps(e) => phase[e] = "open" /\ \A t \in Hosts : call[t].eng # e
  <2>1. ~Overlaps(e) => phase[e] = "open"
    BY <1>4 DEF Attended, Overlaps
  <2>2. ~Overlaps(e) /\ phase[e] = "open" => \A t \in Hosts : call[t].eng # e
    BY <1>1, <1>4 DEF CallPhase, Overlaps, TypeOK, Calls, CloseSteps
  <2>. QED BY <2>1, <2>2
<1>6. Standing'
  BY <1>1, <1>5 DEF Standing, TypeOK
<1>. QED BY <1>2, <1>3, <1>6

\* A process dies with its engines.
LEMMA CrashStep ==
  ASSUME EngineInv, NEW p \in Procs, Crash(p)
  PROVE  Fresh' /\ Homes' /\ CallPhase' /\ OneCloser' /\ LockHeld' /\ Attended' /\ Standing'
<1>. /\ TypeOK /\ Fresh /\ Homes /\ CallPhase /\ OneCloser /\ LockHeld /\ Attended /\ Standing
  BY DEF EngineInv
<1>. USE LifecycleAssumption
<1>. DEFINE dead == {e \in Engines : home[e] = p /\ phase[e] # "gone"}
<1>1. /\ \A e \in Engines : /\ phase'[e] = IF e \in dead THEN "gone" ELSE phase[e]
                            /\ pending'[e] \in {{}, pending[e]} /\ queue'[e] \in {{}, queue[e]}
      /\ lock' = IF lock \in dead THEN None ELSE lock
      /\ home' = home /\ raced' = raced
  BY DEF Crash
<1>2. /\ \A t \in Hosts : call'[t] = IF call[t].eng \in dead THEN IdleCall ELSE call[t]
      /\ \A q \in Procs : /\ runtime'[q] = IF q = p THEN None ELSE runtime[q]
                          /\ registered'[q] => q # p /\ registered[q]
  <2>1. /\ call' = [t \in Hosts |-> IF call[t].eng \in dead THEN IdleCall ELSE call[t]]
        /\ runtime' = [runtime EXCEPT ![p] = None]
        /\ registered' = [registered EXCEPT ![p] = FALSE]
    BY DEF Crash
  <2>2. runtime \in [Procs -> Engines \cup {None}] /\ registered \in [Procs -> BOOLEAN]
    BY DEF TypeOK
  <2>. HIDE DEF dead
  <2>3. \A t \in Hosts : call'[t] = IF call[t].eng \in dead THEN IdleCall ELSE call[t]
    BY <2>1
  <2>4. \A q \in Procs : runtime'[q] = IF q = p THEN None ELSE runtime[q]
    BY <2>1, <2>2
  <2>5. \A q \in Procs : registered'[q] => q # p /\ registered[q]
    BY <2>1, <2>2
  <2>. QED BY <2>3, <2>4, <2>5
<1>3. \A r \in Requests : req'[r].eng = req[r].eng /\ (req'[r].pc # "unsent" => req[r].pc # "unsent")
  BY DEF Crash, TypeOK, Inside
<1>4. \A e \in dead : e \in Engines /\ phase[e] # "unborn" /\ e # None
  BY DEF Homes
<1>5. \A q \in Procs \ {p} : runtime[q] \notin dead
  BY DEF Homes
<1>. HIDE DEF dead
<1>6. Fresh'
  <2>. SUFFICES ASSUME NEW e \in Engines, phase'[e] = "unborn"
                PROVE  /\ lock' # e /\ pending'[e] = {} /\ queue'[e] = {}
                       /\ \A q \in Procs : runtime'[q] # e
                       /\ \A t \in Hosts : call'[t].eng # e
                       /\ \A r \in Requests : req'[r].eng # e
    BY DEF Fresh
  <2>1. phase[e] = "unborn" /\ e # None
    BY <1>1
  <2>2. lock' # e
    BY <1>1, <2>1 DEF Fresh
  <2>3. pending'[e] = {} /\ queue'[e] = {}
    BY <1>1, <2>1 DEF Fresh
  <2>4. (\A q \in Procs : runtime'[q] # e) /\ (\A t \in Hosts : call'[t].eng # e)
    BY <1>2, <2>1 DEF Fresh, IdleCall
  <2>5. \A r \in Requests : req'[r].eng # e
    BY <1>3, <2>1 DEF Fresh
  <2>. QED BY <2>2, <2>3, <2>4, <2>5
<1>7. Homes'
  <2>1. \A q \in Procs : runtime'[q] # None => q # p /\ runtime[q] = runtime'[q] /\ runtime[q] \in Engines
    BY <1>2, Pointers
  <2>2. \A e \in Engines : IF phase'[e] = "unborn" THEN home'[e] = None ELSE home'[e] \in Procs
    BY <1>1, <1>4 DEF Homes
  <2>3. \A q \in Procs : runtime'[q] # None => home'[runtime'[q]] = q /\ phase'[runtime'[q]] # "gone"
    BY <1>1, <1>5, <2>1 DEF Homes
  <2>4. \A r \in Requests : req'[r].pc # "unsent" => req'[r].eng \in Engines
    BY <1>3 DEF Homes
  <2>. QED BY <2>2, <2>3, <2>4 DEF Homes
<1>8. CallPhase'
  <2>1. \A t \in Hosts : call[t].pc # "idle" => call[t].eng \in Engines
    BY DEF CallPhase, TypeOK
  <2>. QED BY <1>1, <1>2, <2>1 DEF CallPhase, IdleCall
<1>9. OneCloser'
  BY <1>2 DEF OneCloser, CloseSteps, IdleCall
<1>10. LockHeld'
  <2>1. \A t \in Hosts : call'[t].pc = "mark" => call'[t] = call[t]
    BY <1>2 DEF IdleCall
  <2>2. lock' \in {lock, None} /\ (lock' # None => lock \in Engines /\ lock \notin dead)
    BY <1>1, Pointers
  <2>3. lock' # None => Alive(lock)'
    BY <1>1, <2>2 DEF LockHeld, Alive
  <2>4. \A e \in Engines : Alive(e)' => e \notin dead /\ Alive(e)
    BY <1>1 DEF Alive
  <2>5. \A e \in Engines : e \notin dead => \A t \in Hosts : call[t].eng = e => call'[t] = call[t]
    BY <1>2
  <2>6. \A e \in Engines : Alive(e)' /\ lock' # e => \E t \in Hosts : call'[t].eng = e /\ call'[t].pc = "mark"
    BY <1>1, <2>4, <2>5 DEF LockHeld
  <2>7. \A t \in Hosts : call[t].pc = "mark" => call[t].eng # None /\ call[t].eng # lock
    BY DEF CallPhase, LockHeld
  <2>. QED BY <2>1, <2>2, <2>3, <2>6, <2>7 DEF LockHeld
<1>11. Attended'
  <2>. SUFFICES ASSUME NEW e \in Engines, e \notin dead
                PROVE  /\ phase[e] = "open" => runtime'[home[e]] = e
                       /\ phase[e] = "draining" =>
                            \E t \in Hosts : call'[t].eng = e /\ call'[t].pc \in {"drain", "close", "save", "usage"}
                       /\ phase[e] = "quiet" =>
                            \E t \in Hosts : call'[t].eng = e /\ call'[t].pc \in CloseSteps
                       /\ phase[e] = "closed" /\ runtime'[home[e]] = e =>
                            \E t \in Hosts : call'[t].eng = e /\ call'[t].pc = "release"
    BY <1>1 DEF Attended
  <2>1. \A t \in Hosts : call[t].eng = e => call'[t] = call[t]
    BY <1>2
  <2>2. phase[e] = "open" => home[e] \in Procs \ {p}
    BY DEF Homes, dead
  <2>3. phase[e] = "closed" => home[e] \in Procs \ {p}
    BY DEF Homes, dead
  <2>4. \A q \in Procs \ {p} : runtime'[q] = runtime[q]
    BY <1>2
  <2>5. runtime'[p] = None /\ e # None
    BY <1>2
  <2>6. phase[e] = "closed" /\ runtime'[home[e]] = e => runtime[home[e]] = e
    BY <2>3, <2>4
  <2>. QED BY <2>1, <2>2, <2>4, <2>6 DEF Attended
<1>12. Standing'
  <2>. SUFFICES ASSUME NEW q \in Procs, registered'[q], ~raced'[q]
                PROVE  /\ runtime'[q] # None /\ phase'[runtime'[q]] = "open"
                       /\ \A t \in Hosts : call'[t].eng # runtime'[q]
    BY DEF Standing
  <2>1. q # p /\ registered[q] /\ ~raced[q] /\ runtime'[q] = runtime[q]
    BY <1>1, <1>2
  <2>2. runtime[q] \in Engines /\ runtime[q] # None /\ runtime[q] \notin dead
    BY <1>5, <2>1, Pointers DEF Standing
  <2>. QED BY <1>1, <1>2, <2>1, <2>2 DEF Standing, IdleCall
<1>. QED BY <1>6, <1>7, <1>8, <1>9, <1>10, <1>11, <1>12

\* No step disturbs the engines.
LEMMA EngineNext == EngineInv /\ [Next]_vars => EngineInv'
<1>. SUFFICES ASSUME EngineInv, [Next]_vars PROVE EngineInv'
  OBVIOUS
<1>. DEFINE Good == Fresh' /\ Homes' /\ CallPhase' /\ OneCloser' /\ LockHeld' /\ Attended' /\ Standing'
<1>1. CASE \E p \in Procs : Open(p) \/ Reconfigure(p) \/ Crash(p)
  <2>. Good
    BY <1>1, OpenStep, ReconfigureStep, CrashStep
  <2>. QED BY TypeNext DEF EngineInv
<1>2. CASE \E s \in Hosts : Shutdown(s) \/ \E p \in Procs : ShutdownStart(s, p)
  <2>. Good
    BY <1>2, ShutdownStartStep, AdvanceStep, CloseAdmissionsStep, CloseUsageStep, CloseStoreStep,
       MarkClosedStep, ReleaseStep DEF Shutdown
  <2>. QED BY TypeNext DEF EngineInv
<1>3. CASE \/ \E r \in Requests : Handler(r) \/ \E p \in Procs : Pick(r, p)
           \/ \E e \in Engines : RateLoopEnds(e) \/ FlushTick(e) \/ FlushLoopEnds(e)
           \/ UNCHANGED vars
  <2>. Good
    BY <1>3, RequestStep, EnginesStay
  <2>. QED BY TypeNext DEF EngineInv
<1>. QED BY <1>1, <1>2, <1>3 DEF Next

-----------------------------------------------------------------------------
(* The requests.                                                            *)

\* Nothing is known of a request before it is sent, and nothing is promised.
LEMMA RequestInit == Init => RequestInv
BY DEF Init, RequestInv, CheckedInTime, Promised, PromisedBy, Waiting, Admitted, IdleCall, AfterSave, CloseSteps

\* A shutdown moves outside of close, or leaves it: nothing is forgotten.
LEMMA RequestsStay ==
  ASSUME RequestInv, UNCHANGED <<req, late, lost, durable, rows, pending, queue, lock, copy, failed>>,
         \A t \in Hosts : call'[t] = call[t] \/ (call'[t].pc \notin CloseSteps /\ call[t].pc \notin HoldSteps)
  PROVE  RequestInv'
<1>1. CheckedInTime'
  BY DEF RequestInv, CheckedInTime, Closing
<1>2. Promised'
  BY DEF RequestInv, Promised, PromisedBy, CloseSteps, AfterSave, At
<1>3. Saved => Saved'
  BY DEF Saved, HoldSteps
<1>4. \A r \in Requests : Waiting(r)' => Sheltered(r)'
  BY <1>3 DEF RequestInv, Waiting, Sheltered, At
<1>. QED BY <1>1, <1>2, <1>4 DEF RequestInv

\* close takes its copy, or has nothing to do.
LEMMA EnterCloseKeeps ==
  ASSUME IInv, NEW s \in Hosts, EnterClose(s)
  PROVE  RequestInv'
<1>. DEFINE e == call[s].eng
<1>. USE LifecycleAssumption
<1>1. /\ TypeOK /\ EngineInv /\ RequestInv
      /\ UNCHANGED <<req, lost, durable, rows, pending, queue, lock, failed>>
      /\ call[s].pc = "close" /\ e \in Engines /\ Moved(s)
  BY DEF IInv, EngineInv, EnterClose, markers, charges, CallPhase, TypeOK, Moved
<1>2. CASE UNCHANGED <<copy, late>> /\ call'[s].pc \notin CloseSteps
  <2>. \A t \in Hosts : call'[t] = call[t] \/ (call'[t].pc \notin CloseSteps /\ call[t].pc \notin HoldSteps)
    BY <1>1, <1>2 DEF Moved, HoldSteps, AfterSave
  <2>. QED BY <1>1, <1>2, RequestsStay
<1>3. CASE /\ ~Closing(e) /\ phase[e] # "closed" /\ (call[s].force \/ pending[e] = {})
           /\ call'[s].pc = "save" /\ call'[s].eng = e
           /\ copy' = IF call[s].force THEN pending[e] ELSE {}
           /\ late' = late \cup {r \in Requests : req[r] = [pc |-> "checked", eng |-> e]}
  <2>1. pending[e] \subseteq copy'
    BY <1>3
  <2>2. CheckedInTime'
    <3>. SUFFICES ASSUME NEW r \in Requests, req[r].pc = "checked", r \notin late'
                  PROVE  lock = req[r].eng /\ ~Closing(req[r].eng)'
      BY <1>1 DEF CheckedInTime
    <3>1. lock = req[r].eng /\ ~Closing(req[r].eng)
      BY <1>1, <1>3 DEF RequestInv, CheckedInTime
    <3>2. req[r] = [pc |-> "checked", eng |-> req[r].eng]
      BY <1>1 DEF TypeOK
    <3>3. req[r].eng # e
      BY <1>3, <3>2
    <3>. QED BY <1>1, <1>3, <3>1, <3>3 DEF Closing, Moved
  <2>3. Promised'
    <3>. SUFFICES ASSUME NEW t \in Hosts PROVE PromisedBy(t)'
      BY DEF Promised
    <3>1. CASE t = s
      BY <1>1, <1>3, <2>1, <3>1 DEF PromisedBy, AfterSave
    <3>2. CASE t # s
      <4>1. call'[t] = call[t]
        BY <1>1, <3>2 DEF Moved
      <4>2. call[t].pc # "save"
        <5>. SUFFICES ASSUME call[t].pc = "save" PROVE FALSE
          OBVIOUS
        <5>1. call[t].eng = lock /\ call[t].eng # e
          BY <1>1, <1>3, CloserHasLock DEF HoldSteps, Closing, CloseSteps
        <5>2. Alive(e)
          BY <1>1, <1>3 DEF EngineInv, CallPhase, Alive, TypeOK, Phases
        <5>. QED BY <1>3, <5>1, <5>2 , <1>1 DEF EngineInv, LockHeld, Closing, CloseSteps
      <4>3. PromisedBy(t)
        BY <1>1 DEF RequestInv, Promised
      <4>. QED BY <1>1, <1>3, <4>1, <4>2, <4>3 DEF PromisedBy, At
    <3>. QED BY <3>1, <3>2
  <2>4. Saved => Saved'
    BY <1>1, <1>3 DEF Saved, Moved, AfterSave
  <2>5. \A r \in Requests : Waiting(r)' => Sheltered(r)'
    BY <1>1, <1>3, <2>4 DEF RequestInv, Waiting, Sheltered, At
  <2>. QED BY <2>2, <2>3, <2>5 DEF RequestInv
<1>4. \/ UNCHANGED <<copy, late>> /\ call'[s].pc \notin CloseSteps
      \/ /\ ~Closing(e) /\ phase[e] # "closed" /\ (call[s].force \/ pending[e] = {})
         /\ call'[s].pc = "save" /\ call'[s].eng = e
         /\ copy' = IF call[s].force THEN pending[e] ELSE {}
         /\ late' = late \cup {r \in Requests : req[r] = [pc |-> "checked", eng |-> e]}
  BY <1>1 DEF EnterClose, TypeOK, CloseSteps
<1>. QED BY <1>2, <1>3, <1>4

\* The checkpoint is written, or it fails.
LEMMA SaveKeeps ==
  ASSUME IInv, NEW s \in Hosts, Save(s)
  PROVE  RequestInv'
<1>. DEFINE e == call[s].eng
<1>. USE LifecycleAssumption
<1>1. /\ TypeOK /\ EngineInv /\ RequestInv
      /\ UNCHANGED <<req, late, lost, durable, pending, queue, lock>>
      /\ call[s].pc = "save"
  BY DEF IInv, EngineInv, Save, requests, charges
<1>2. call'[s].pc = "usage" /\ call'[s].eng = e /\ Moved(s)
  BY <1>1 DEF Save, Goto, TypeOK, Moved
<1>3. e \in Engines /\ e = lock /\ \A t \in Hosts \ {s} : call[t].eng = e => call[t].pc \notin CloseSteps
  BY <1>1, CloserHasLock DEF HoldSteps
<1>4. \A t \in Hosts \ {s} : call[t].pc \notin HoldSteps
  BY <1>1, <1>3, CloserHasLock DEF HoldSteps, CloseSteps, AfterSave
<1>5. /\ e \in failed' \/ pending[e] \subseteq rows' \cup late
      /\ rows' = copy \/ rows' = rows
  BY <1>1, <1>3 DEF Save, RequestInv, Promised, PromisedBy
<1>6. CheckedInTime'
  BY <1>1, <1>2 DEF RequestInv, CheckedInTime, Closing, CloseSteps, Moved
<1>7. Promised'
  BY <1>1, <1>2, <1>4, <1>5 DEF Promised, PromisedBy, Moved, HoldSteps, AfterSave
<1>8. ~Saved
  BY <1>1, <1>3, <1>4 DEF Saved, HoldSteps, AfterSave
<1>9. \A r \in Requests : Waiting(r)' => Sheltered(r)'
  BY <1>1, <1>8 DEF RequestInv, Waiting, Sheltered, At
<1>. QED BY <1>6, <1>7, <1>9 DEF RequestInv

\* close waits for its loops.
LEMMA AwaitKeeps ==
  ASSUME IInv, NEW s \in Hosts, CloseUsage(s) \/ AwaitRateLoop(s) \/ AwaitFlushLoop(s)
  PROVE  RequestInv'
<1>1. /\ RequestInv /\ UNCHANGED <<req, late, lost, durable, rows, pending, queue, lock, copy, failed>>
      /\ call[s].pc \in AfterSave /\ call'[s].pc \in AfterSave \ {"store"}
      /\ call'[s].eng = call[s].eng /\ Moved(s)
  BY DEF IInv, EngineInv, CloseUsage, AwaitRateLoop, AwaitFlushLoop, AwaitLoop, Goto, TypeOK, Moved,
         requests, markers, charges, AfterSave
<1>2. CheckedInTime'
  BY <1>1 DEF RequestInv, CheckedInTime, Closing, CloseSteps, AfterSave, Moved
<1>3. Promised'
  BY <1>1 DEF RequestInv, Promised, PromisedBy, AfterSave, Moved, At
<1>4. Saved => Saved'
  BY <1>1 DEF Saved, Moved
<1>5. \A r \in Requests : Waiting(r)' => Sheltered(r)'
  BY <1>1, <1>4 DEF RequestInv, Waiting, Sheltered, At
<1>. QED BY <1>2, <1>3, <1>5 DEF RequestInv

\* The last flush writes the queue, or what it leaves is reported.
LEMMA FinalFlushKeeps ==
  ASSUME IInv, NEW s \in Hosts, FinalFlush(s)
  PROVE  RequestInv'
<1>. DEFINE e == call[s].eng
<1>. USE LifecycleAssumption
<1>1. /\ TypeOK /\ EngineInv /\ RequestInv
      /\ UNCHANGED <<req, lost, lock, copy, pending, rows>>
      /\ call[s].pc = "final"
      /\ late' = late \cup {r \in Requests : req[r].eng = e /\ req[r].pc \in {"settling", "charging"}}
      /\ failed' = IF failures' # failures THEN failed \cup {e} ELSE failed
  BY DEF IInv, EngineInv, FinalFlush, markers
<1>2. call'[s].pc = "store" /\ call'[s].eng = e /\ Moved(s)
  BY <1>1 DEF FinalFlush, Goto, TypeOK, Moved
<1>3. e \in Engines /\ e = lock /\ \A t \in Hosts \ {s} : call[t].pc \notin HoldSteps
  BY <1>1, CloserHasLock DEF HoldSteps, CloseSteps, AfterSave
<1>4. \/ durable' = durable \cup queue[e] /\ queue' = [queue EXCEPT ![e] = {}]
      \/ e \in failed' /\ UNCHANGED <<durable, queue>>
  BY <1>1 DEF FinalFlush, Write, charges, TypeOK
<1>5. CheckedInTime'
  BY <1>1, <1>2 DEF RequestInv, CheckedInTime, Closing, CloseSteps, Moved
<1>6. Promised'
  <2>1. e \in failed' \/ pending[e] \subseteq rows \cup late'
    BY <1>1 DEF RequestInv, Promised, PromisedBy, AfterSave
  <2>2. e \in failed' \/ queue'[e] \subseteq late'
    BY <1>1, <1>3, <1>4 DEF TypeOK
  <2>3. \A r \in Requests : At(r, "settling", e) \/ At(r, "charging", e) => r \in late'
    BY <1>1 DEF At
  <2>4. PromisedBy(s)'
    BY <1>1, <1>2, <2>1, <2>2, <2>3 DEF PromisedBy, At
  <2>5. \A t \in Hosts \ {s} : PromisedBy(t)'
    BY <1>2, <1>3 DEF PromisedBy, Moved, HoldSteps, AfterSave
  <2>. QED BY <2>4, <2>5 DEF Promised
<1>7. Saved'
  BY <1>1, <1>2, <1>3 DEF Saved, AfterSave
<1>8. ASSUME NEW r \in Requests, Waiting(r)'
      PROVE  Sheltered(r)'
  <2>1. Sheltered(r)
    BY <1>1, <1>8 DEF RequestInv, Waiting
  <2>2. r \in queue[e] => r \in durable' \cup queue'[e]
    BY <1>1, <1>4
  <2>3. durable \subseteq durable' /\ late \subseteq late'
    BY <1>1, <1>4
  <2>. QED BY <1>1, <1>3, <1>7, <2>1, <2>2, <2>3 DEF Sheltered, At
<1>. QED BY <1>5, <1>6, <1>8 DEF RequestInv

\* The store is closed, and what only memory has is accounted for.
LEMMA CloseStoreKeeps ==
  ASSUME IInv, NEW s \in Hosts, CloseStore(s)
  PROVE  RequestInv'
<1>. DEFINE e == call[s].eng
<1>1. /\ TypeOK /\ EngineInv /\ RequestInv
      /\ UNCHANGED <<req, late, durable, copy, pending, queue, rows, failed>>
      /\ call[s].pc = "store" /\ lock' = None
      /\ lost' = IF e \in failed THEN lost \cup ((pending[e] \cup queue[e]) \ rows) ELSE lost
  BY DEF IInv, EngineInv, CloseStore, markers, charges
<1>2. call'[s].pc = "mark" /\ call'[s].eng = e /\ Moved(s)
  BY <1>1 DEF CloseStore, Goto, TypeOK, Moved
<1>3. e \in Engines /\ e = lock /\ \A t \in Hosts \ {s} : call[t].pc \notin HoldSteps
  BY <1>1, CloserHasLock DEF HoldSteps, CloseSteps, AfterSave
<1>4. PromisedBy(s)
  BY <1>1 DEF RequestInv, Promised
<1>5. CheckedInTime'
  <2>. SUFFICES ASSUME NEW r \in Requests, req[r].pc = "checked", r \notin late
                PROVE  FALSE
    BY <1>1 DEF CheckedInTime
  <2>1. lock = req[r].eng /\ ~Closing(req[r].eng)
    BY <1>1 DEF RequestInv, CheckedInTime
  <2>. QED BY <1>1, <1>3, <2>1 DEF Closing, CloseSteps
<1>6. Promised'
  BY <1>2, <1>3 DEF Promised, PromisedBy, Moved, HoldSteps, AfterSave
<1>7. ASSUME NEW r \in Requests, Waiting(r)'
      PROVE  Sheltered(r)'
  <2>1. Sheltered(r)
    BY <1>1, <1>7 DEF RequestInv, Waiting
  <2>2. r \in pending[e] \cup queue[e] => r \in rows \cup late \cup lost'
    BY <1>1, <1>4 DEF PromisedBy, AfterSave
  <2>3. At(r, "charging", e) => r \in late
    BY <1>1, <1>4 DEF PromisedBy
  <2>4. lost \subseteq lost' /\ Saved'
    BY <1>1 DEF Saved
  <2>. QED BY <1>1, <1>3, <2>1, <2>2, <2>3, <2>4 DEF Sheltered
<1>. QED BY <1>5, <1>6, <1>7 DEF RequestInv

\* An engine that opens takes over what SQLite has.
LEMMA OpenKeeps ==
  ASSUME IInv, NEW p \in Procs, Open(p)
  PROVE  RequestInv'
<1>. DEFINE e == CHOOSE f \in Unborn : TRUE
<1>. USE LifecycleAssumption
<1>1. e \in Engines /\ phase[e] = "unborn" /\ e # None
  BY DEF Open, Unborn
<1>2. /\ TypeOK /\ EngineInv /\ RequestInv
      /\ UNCHANGED <<req, late, lost, durable, copy, queue, rows, failed, call>>
      /\ lock = None /\ lock' = e
      /\ pending' = [pending EXCEPT ![e] = rows]
  BY DEF IInv, EngineInv, Open, requests, charges
<1>. HIDE DEF e
<1>3. \A s \in Hosts : call[s].eng # e
  BY <1>1, <1>2 DEF EngineInv, Fresh
<1>4. \A s \in Hosts : pending'[call[s].eng] = pending[call[s].eng]
  BY <1>2, <1>3 DEF TypeOK
<1>5. CheckedInTime'
  <2>. SUFFICES ASSUME NEW r \in Requests, req[r].pc = "checked", r \notin late
                PROVE  FALSE
    BY <1>2 DEF CheckedInTime
  <2>. QED BY <1>2 DEF RequestInv, CheckedInTime, EngineInv, Homes
<1>6. Promised'
  BY <1>2, <1>4 DEF RequestInv, Promised, PromisedBy, At
<1>7. \A r \in Requests : Waiting(r)' => Sheltered(r)'
  BY <1>1, <1>2 DEF RequestInv, Waiting, Sheltered, TypeOK
<1>. QED BY <1>5, <1>6, <1>7 DEF RequestInv

\* A process dies: what its engines had is in SQLite or counted as lost.
LEMMA CrashKeeps ==
  ASSUME IInv, NEW p \in Procs, Crash(p)
  PROVE  RequestInv'
<1>. DEFINE dead == {e \in Engines : home[e] = p /\ phase[e] # "gone"}
            cut == {r \in Requests : req[r].eng \in dead /\ req[r].pc \in Inside \cup {"picked"}}
<1>. USE LifecycleAssumption
<1>1. /\ TypeOK /\ EngineInv /\ RequestInv
      /\ UNCHANGED <<late, durable, copy, rows, failed>>
      /\ lock' = IF lock \in dead THEN None ELSE lock
      /\ lost' = lost \cup {r \in Requests \ rows : \/ r \in cut
                                                    \/ \E e \in dead : r \in pending[e] \cup queue[e]}
  BY DEF IInv, EngineInv, Crash
<1>2. /\ \A e \in Engines \ dead : pending'[e] = pending[e] /\ queue'[e] = queue[e]
      /\ \A t \in Hosts : call'[t] = IF call[t].eng \in dead THEN IdleCall ELSE call[t]
  BY DEF Crash
<1>3. \A r \in Requests : /\ r \notin cut => req'[r] = req[r]
                          /\ r \in cut => req'[r].pc \in {"refused", "unheard"}
                          /\ req'[r].pc = "unheard" => Waiting(r) \/ req[r].pc = "unheard"
  <2>1. \A r \in Requests :
          /\ r \in cut => req[r].pc \in Inside \cup {"picked"}
          /\ req'[r] = IF r \notin cut THEN req[r]
                       ELSE [req[r] EXCEPT !.pc = IF @ \in {"picked", "checked", "marked"}
                                                  THEN "refused" ELSE "unheard"]
    BY DEF Crash
  <2>2. \A r \in Requests : req[r] \in [pc : Stages, eng : Engines \cup {None}]
    BY <1>1 DEF TypeOK
  <2>. HIDE DEF cut
  <2>. QED BY <2>1, <2>2 DEF Inside, Waiting, Admitted
<1>4. \A r \in Requests : r \in cut <=> req[r].eng \in dead /\ req[r].pc \in Inside \cup {"picked"}
  OBVIOUS
<1>5. lock \in Engines \cup {None} /\ None \notin dead /\ dead \subseteq Engines
  BY <1>1 DEF TypeOK
<1>. HIDE DEF dead, cut
<1>6. CheckedInTime'
  <2>. SUFFICES ASSUME NEW r \in Requests, req'[r].pc = "checked", r \notin late
                PROVE  (lock = req[r].eng /\ ~Closing(req[r].eng))'
    BY <1>1 DEF CheckedInTime
  <2>1. r \notin cut /\ req'[r] = req[r]
    BY <1>3
  <2>2. lock = req[r].eng /\ ~Closing(req[r].eng)
    BY <1>1, <2>1 DEF RequestInv, CheckedInTime
  <2>3. lock \notin dead
    BY <1>4, <2>1, <2>2 DEF Inside
  <2>. QED BY <1>1, <1>2, <2>1, <2>2, <2>3 DEF Closing, IdleCall, CloseSteps
<1>7. Promised'
  <2>. SUFFICES ASSUME NEW t \in Hosts, call'[t].pc # "idle" PROVE PromisedBy(t)'
    BY DEF Promised, PromisedBy, AfterSave
  <2>0. call'[t] = call[t] /\ call[t].eng \in Engines \ dead
    BY <1>1, <1>2 DEF IdleCall, EngineInv, CallPhase, TypeOK
  <2>1. PromisedBy(t)
    BY <1>1 DEF RequestInv, Promised
  <2>2. \A r \in Requests : req'[r].pc \in {"settling", "charging"} => req'[r] = req[r]
    BY <1>3
  <2>. QED BY <1>1, <1>2, <2>0, <2>1, <2>2 DEF PromisedBy, At
<1>8. ASSUME NEW r \in Requests, Waiting(r)'
      PROVE  Sheltered(r)'
  <2>1. Waiting(r)
    BY <1>3, <1>8 DEF Waiting, Admitted
  <2>2. Sheltered(r)
    BY <1>1, <2>1 DEF RequestInv
  <2>3. CASE r \in durable \cup late \cup lost
    BY <1>1, <2>3 DEF Sheltered
  <2>4. CASE r \in rows /\ Saved
    <3>. Saved'
      BY <1>1, <1>2, <1>5, <2>4 DEF Saved
    <3>. QED BY <1>1, <2>4 DEF Sheltered
  <2>5. CASE lock # None /\ lock \notin dead /\ (r \in pending[lock] \cup queue[lock] \/ At(r, "charging", lock))
    <3>1. At(r, "charging", lock) => r \notin cut
      BY <1>4, <2>5 DEF At
    <3>. QED BY <1>1, <1>2, <1>3, <1>5, <2>5, <3>1 DEF Sheltered, At
  <2>6. CASE lock \in dead /\ (r \in pending[lock] \cup queue[lock] \/ At(r, "charging", lock))
    <3>1. At(r, "charging", lock) => r \in cut
      BY <1>4, <2>6 DEF At, Inside
    <3>2. r \in rows \cup lost' /\ Saved'
      BY <1>1, <2>6, <3>1 DEF Saved
    <3>. QED BY <1>1, <3>2 DEF Sheltered
  <2>. QED BY <2>2, <2>3, <2>4, <2>5, <2>6 DEF Sheltered
<1>. QED BY <1>6, <1>7, <1>8 DEF RequestInv

\* A request moves that no close has promised anything about.
LEMMA QuietMove ==
  ASSUME IInv, NEW r \in Requests, Check(r) \/ Admit(r) \/ Callback(r) \/ Settle(r) \/ \E p \in Procs : Pick(r, p)
  PROVE  RequestInv'
<1>. DEFINE e == req[r].eng
<1>. USE LifecycleAssumption
<1>1. /\ TypeOK /\ EngineInv /\ RequestInv
      /\ UNCHANGED <<late, lost, durable, copy, rows, pending, queue, failed, lock, call, phase>>
  BY DEF IInv, EngineInv, Check, Admit, Callback, Settle, Pick, lifeline, markers, charges
<1>2. /\ \A q \in Requests \ {r} : req'[q] = req[q]
      /\ req[r].pc \in {"unsent", "picked", "marked", "sent", "heard"}
  BY <1>1 DEF Check, Admit, Callback, Settle, Pick, Move, TypeOK
<1>3. req'[r].pc = "checked" => req'[r].eng = e /\ phase[e] = "open" /\ e \in Engines
  BY <1>1 DEF Check, Admit, Callback, Settle, Pick, Move, TypeOK, EngineInv, Homes
<1>4. req'[r].pc = "settling" => req'[r].eng = e /\ phase[e] \in {"open", "draining"}
  BY <1>1 DEF Check, Admit, Callback, Settle, Pick, Move, TypeOK
<1>5. req'[r].pc # "charging" /\ (Waiting(r)' => Waiting(r))
  BY <1>1 DEF Check, Admit, Callback, Settle, Pick, Move, TypeOK, Waiting, Admitted
<1>6. CheckedInTime'
  <2>1. phase[e] = "open" /\ e \in Engines => lock = e /\ ~Closing(e)
    BY <1>1 DEF EngineInv, LockHeld, Alive, CallPhase, Closing, CloseSteps
  <2>. QED BY <1>1, <1>2, <1>3, <2>1 DEF RequestInv, CheckedInTime, Closing
<1>7. Promised'
  <2>. SUFFICES ASSUME NEW s \in Hosts PROVE PromisedBy(s)'
    BY DEF Promised
  <2>1. PromisedBy(s)
    BY <1>1 DEF RequestInv, Promised
  <2>2. call[s].pc = "store" => phase[call[s].eng] = "quiet"
    BY <1>1 DEF EngineInv, CallPhase
  <2>. QED BY <1>1, <1>2, <1>4, <1>5, <2>1, <2>2 DEF PromisedBy, At
<1>8. \A q \in Requests : Waiting(q)' => Sheltered(q)'
  <2>. SUFFICES ASSUME NEW q \in Requests, Waiting(q)' PROVE Sheltered(q)'
    OBVIOUS
  <2>1. Sheltered(q)
    BY <1>1, <1>2, <1>5 DEF RequestInv, Waiting
  <2>2. Saved => Saved'
    BY <1>1 DEF Saved
  <2>. QED BY <1>1, <1>2, <2>1, <2>2 DEF Sheltered, At
<1>. QED BY <1>6, <1>7, <1>8 DEF RequestInv

\* A marker is added, or taken back when the request is refused after all.
LEMMA MarkerKeeps ==
  ASSUME IInv, NEW r \in Requests, AddMarker(r) \/ AdmitFails(r)
  PROVE  RequestInv'
<1>. DEFINE e == req[r].eng
<1>. USE LifecycleAssumption
<1>1. /\ TypeOK /\ EngineInv /\ RequestInv
      /\ UNCHANGED <<late, lost, durable, copy, rows, queue, failed, lock, call>>
      /\ req[r].pc # "unsent"
  BY DEF IInv, EngineInv, AddMarker, AdmitFails, lifeline, charges
<1>2. /\ \A q \in Requests \ {r} : req'[q] = req[q]
      /\ req[r].pc \in {"checked", "marked"} /\ req'[r].pc \in {"marked", "refused"}
  BY <1>1 DEF AddMarker, AdmitFails, Move, TypeOK
<1>3. /\ e \in Engines
      /\ \A f \in Engines : f # e => pending'[f] = pending[f]
      /\ \/ pending'[e] \subseteq pending[e]
         \/ req[r].pc = "checked" /\ pending'[e] = pending[e] \cup {r}
      /\ req'[r].pc = "marked" => req[r].pc = "checked" /\ pending'[e] = pending[e] \cup {r}
      /\ \A q \in Requests \ {r} : q \in pending[e] => q \in pending'[e]
  <2>1. e \in Engines
    BY <1>1 DEF EngineInv, Homes
  <2>2. CASE AddMarker(r)
    BY <1>1, <2>1, <2>2 DEF AddMarker, TypeOK
  <2>3. CASE AdmitFails(r)
    BY <1>1, <2>1, <2>3 DEF AdmitFails, Move, TypeOK
  <2>. QED BY <2>1, <2>2, <2>3
<1>4. req[r].pc = "checked" => r \in late \/ (lock = e /\ ~Closing(e))
  BY <1>1 DEF RequestInv, CheckedInTime
<1>5. CheckedInTime'
  BY <1>1, <1>2 DEF RequestInv, CheckedInTime, Closing
<1>6. Promised'
  <2>. SUFFICES ASSUME NEW s \in Hosts, call[s].pc \in HoldSteps PROVE PromisedBy(s)'
    BY <1>1 DEF Promised, PromisedBy, HoldSteps, AfterSave
  <2>1. PromisedBy(s) /\ call[s].eng \in Engines
    BY <1>1, CloserHasLock DEF RequestInv, Promised
  <2>2. call[s].eng = e => Closing(e)
    BY DEF Closing, CloseSteps, HoldSteps, AfterSave
  <2>3. pending'[call[s].eng] \subseteq pending[call[s].eng] \cup late
    BY <1>3, <1>4, <2>1, <2>2
  <2>4. \A q \in Requests : req'[q].pc \in {"settling", "charging"} => req'[q] = req[q]
    BY <1>2
  <2>. QED BY <1>1, <2>1, <2>3, <2>4 DEF PromisedBy, At
<1>7. \A q \in Requests : Waiting(q)' => Sheltered(q)'
  <2>. SUFFICES ASSUME NEW q \in Requests, Waiting(q)' PROVE Sheltered(q)'
    OBVIOUS
  <2>0. Saved => Saved'
    BY <1>1 DEF Saved
  <2>1. CASE q = r
    <3>. req'[r].pc = "marked"
      BY <1>2, <2>1 DEF Waiting, Admitted
    <3>. QED BY <1>1, <1>3, <1>4, <2>1 DEF Sheltered
  <2>2. CASE q # r
    <3>1. Sheltered(q)
      BY <1>1, <1>2, <2>2 DEF RequestInv, Waiting
    <3>2. lock # None /\ q \in pending[lock] => q \in pending'[lock]
      BY <1>1, <1>3, <2>2 DEF TypeOK
    <3>. QED BY <1>1, <1>2, <2>0, <2>2, <3>1, <3>2 DEF Sheltered, At
  <2>. QED BY <2>1, <2>2
<1>. QED BY <1>5, <1>6, <1>7 DEF RequestInv

\* A callback takes its marker.
LEMMA TakeKeeps ==
  ASSUME IInv, NEW r \in Requests, Take(r)
  PROVE  RequestInv'
<1>. DEFINE e == req[r].eng
<1>. USE LifecycleAssumption
<1>1. /\ TypeOK /\ EngineInv /\ RequestInv
      /\ UNCHANGED <<late, lost, durable, copy, queue, failed, lock, call>>
      /\ req[r].pc = "settling"
  BY DEF IInv, EngineInv, Take, lifeline, charges
<1>2. /\ e \in Engines
      /\ \A f \in Engines : pending'[f] = IF f = e THEN pending[e] \ {r} ELSE pending[f]
      /\ rows' = rows \/ (rows' = rows \ {r} /\ lock = e /\ r \in pending[e])
  <2>1. e \in Engines
    BY <1>1 DEF EngineInv, Homes
  <2>. QED BY <1>1, <2>1 DEF Take, TypeOK
<1>3. /\ \A q \in Requests \ {r} : req'[q] = req[q]
      /\ req'[r] = [pc |-> IF r \in pending[e] THEN "charging" ELSE "unmatched", eng |-> e]
  BY <1>1 DEF Take, Move, TypeOK
<1>4. CheckedInTime'
  BY <1>1, <1>3 DEF RequestInv, CheckedInTime, Closing
<1>5. Promised'
  <2>. SUFFICES ASSUME NEW s \in Hosts, call[s].pc \in HoldSteps PROVE PromisedBy(s)'
    BY <1>1 DEF Promised, PromisedBy, HoldSteps, AfterSave
  <2>1. PromisedBy(s) /\ call[s].eng \in Engines /\ call[s].eng = lock
    BY <1>1, CloserHasLock DEF RequestInv, Promised
  <2>2. pending'[lock] \subseteq pending[lock]
    BY <1>2, <2>1
  <2>3. pending[lock] \subseteq rows \cup late => pending'[lock] \subseteq rows' \cup late
    BY <1>2, <2>1
  <2>4. \A q \in Requests : At(q, "settling", lock)' \/ At(q, "charging", lock)'
                             => At(q, "settling", lock) \/ At(q, "charging", lock)
    BY <1>1, <1>3 DEF At, TypeOK
  <2>. QED BY <1>1, <2>1, <2>2, <2>3, <2>4 DEF PromisedBy, At
<1>6. \A q \in Requests : Waiting(q)' => Sheltered(q)'
  <2>. SUFFICES ASSUME NEW q \in Requests, Waiting(q)' PROVE Sheltered(q)'
    OBVIOUS
  <2>0. Saved => Saved'
    BY <1>1 DEF Saved
  <2>1. Sheltered(q) /\ lock \in Engines \cup {None}
    BY <1>1, <1>3 DEF RequestInv, Waiting, Admitted, TypeOK
  <2>2. CASE q = r
    <3>1. lock = e /\ r \in pending[e] => At(r, "charging", lock)'
      BY <1>1, <1>3 DEF At
    <3>2. lock # None /\ lock # e /\ r \in pending[lock] => r \in pending'[lock]
      BY <1>2, <2>1
    <3>. QED BY <1>1, <1>2, <2>0, <2>1, <2>2, <3>1, <3>2 DEF Sheltered, At
  <2>3. CASE q # r
    <3>. lock # None /\ q \in pending[lock] => q \in pending'[lock]
      BY <1>2, <2>1, <2>3
    <3>. QED BY <1>1, <1>2, <1>3, <2>0, <2>1, <2>3 DEF Sheltered, At
  <2>. QED BY <2>2, <2>3
<1>. QED BY <1>4, <1>5, <1>6 DEF RequestInv

\* What the callback charges waits for the flush.
LEMMA ChargeKeeps ==
  ASSUME IInv, NEW r \in Requests, Charge(r)
  PROVE  RequestInv'
<1>. DEFINE e == req[r].eng
<1>. USE LifecycleAssumption
<1>1. /\ TypeOK /\ EngineInv /\ RequestInv
      /\ UNCHANGED <<late, lost, durable, copy, rows, pending, failed, lock, call>>
      /\ req[r].pc = "charging"
  BY DEF IInv, EngineInv, Charge, lifeline, markers
<1>2. /\ e \in Engines /\ At(r, "charging", e)
      /\ \A f \in Engines : queue'[f] = IF f = e THEN queue[e] \cup {r} ELSE queue[f]
  <2>1. e \in Engines /\ At(r, "charging", e)
    BY <1>1 DEF EngineInv, Homes, At, TypeOK
  <2>. QED BY <1>1, <2>1 DEF Charge, TypeOK
<1>3. /\ \A q \in Requests \ {r} : req'[q] = req[q]
      /\ req'[r].pc = "charged"
  BY <1>1 DEF Charge, Move, TypeOK
<1>4. CheckedInTime'
  BY <1>1, <1>3 DEF RequestInv, CheckedInTime, Closing
<1>5. Promised'
  <2>. SUFFICES ASSUME NEW s \in Hosts, call[s].pc \in HoldSteps PROVE PromisedBy(s)'
    BY <1>1 DEF Promised, PromisedBy, HoldSteps, AfterSave
  <2>1. PromisedBy(s) /\ call[s].eng \in Engines
    BY <1>1, CloserHasLock DEF RequestInv, Promised
  <2>2. call[s].pc = "store" => queue'[call[s].eng] \subseteq queue[call[s].eng] \cup late
    BY <1>1, <1>2, <2>1 DEF PromisedBy
  <2>3. \A q \in Requests : req'[q].pc \in {"settling", "charging"} => req'[q] = req[q]
    BY <1>3
  <2>. QED BY <1>1, <2>1, <2>2, <2>3 DEF PromisedBy, At
<1>6. \A q \in Requests : Waiting(q)' => Sheltered(q)'
  <2>. SUFFICES ASSUME NEW q \in Requests, Waiting(q)' PROVE Sheltered(q)'
    OBVIOUS
  <2>0. Saved => Saved'
    BY <1>1 DEF Saved
  <2>1. Sheltered(q) /\ lock \in Engines \cup {None}
    BY <1>1, <1>3 DEF RequestInv, Waiting, Admitted, TypeOK
  <2>2. lock # None => queue[lock] \subseteq queue'[lock] /\ (At(q, "charging", lock) => q \in queue'[lock] \/ At(q, "charging", lock)')
    BY <1>1, <1>2, <1>3, <2>1 DEF At
  <2>. QED BY <1>1, <2>0, <2>1, <2>2 DEF Sheltered, At
<1>. QED BY <1>4, <1>5, <1>6 DEF RequestInv

\* A loop flushes, or ends.
LEMMA LoopKeeps ==
  ASSUME IInv, NEW e \in Engines, RateLoopEnds(e) \/ FlushTick(e) \/ FlushLoopEnds(e)
  PROVE  RequestInv'
<1>. USE LifecycleAssumption
<1>1. /\ TypeOK /\ EngineInv /\ RequestInv
      /\ UNCHANGED <<req, late, lost, copy, rows, pending, failed, lock, call>>
  BY DEF IInv, EngineInv, RateLoopEnds, FlushTick, FlushLoopEnds, requests, lifeline, markers
<1>2. \/ UNCHANGED <<durable, queue>>
      \/ /\ lock = e /\ durable' = durable \cup queue[e]
         /\ \A f \in Engines : queue'[f] = IF f = e THEN {} ELSE queue[f]
  BY <1>1 DEF RateLoopEnds, FlushTick, FlushLoopEnds, Write, charges, TypeOK
<1>3. CheckedInTime'
  BY <1>1 DEF RequestInv, CheckedInTime, Closing
<1>4. Promised'
  <2>. SUFFICES ASSUME NEW s \in Hosts, call[s].pc \in HoldSteps PROVE PromisedBy(s)'
    BY <1>1 DEF Promised, PromisedBy, HoldSteps, AfterSave
  <2>1. PromisedBy(s) /\ call[s].eng \in Engines
    BY <1>1, CloserHasLock DEF RequestInv, Promised
  <2>2. queue'[call[s].eng] \subseteq queue[call[s].eng]
    BY <1>2, <2>1
  <2>. QED BY <1>1, <2>1, <2>2 DEF PromisedBy, At
<1>5. \A q \in Requests : Waiting(q)' => Sheltered(q)'
  <2>. SUFFICES ASSUME NEW q \in Requests, Waiting(q)' PROVE Sheltered(q)'
    OBVIOUS
  <2>0. Saved => Saved'
    BY <1>1 DEF Saved
  <2>1. Sheltered(q) /\ lock \in Engines \cup {None}
    BY <1>1 DEF RequestInv, Waiting, TypeOK
  <2>. QED BY <1>1, <1>2, <2>0, <2>1 DEF Sheltered, At
<1>. QED BY <1>3, <1>4, <1>5 DEF RequestInv

\* No step forgets a request.
LEMMA RequestNext == IInv /\ [Next]_vars => RequestInv'
<1>. SUFFICES ASSUME IInv, [Next]_vars PROVE RequestInv'
  OBVIOUS
<1>. RequestInv
  BY DEF IInv
<1>1. ASSUME NEW p \in Procs, Open(p) \/ Reconfigure(p) \/ Crash(p) PROVE RequestInv'
  <2>1. CASE Reconfigure(p)
    BY <2>1, RequestsStay DEF Reconfigure, requests, markers, charges
  <2>. QED BY <1>1, <2>1, OpenKeeps, CrashKeeps
<1>2. ASSUME NEW s \in Hosts, Shutdown(s) \/ \E p \in Procs : ShutdownStart(s, p) PROVE RequestInv'
  <2>1. CASE \/ CloseAdmissions(s) \/ Drain(s) \/ MarkClosed(s) \/ Release(s)
             \/ \E p \in Procs : ShutdownStart(s, p)
    <3>1. UNCHANGED <<req, late, lost, durable, rows, pending, queue, lock, copy, failed>>
      BY <2>1 DEF CloseAdmissions, Drain, MarkClosed, Release, ShutdownStart, requests, markers, charges
    <3>2. call[s].pc \notin HoldSteps /\ call'[s].pc \notin CloseSteps /\ Moved(s)
      BY <2>1 DEF CloseAdmissions, Drain, MarkClosed, Release, ShutdownStart, Goto, IdleCall, Moved,
                  HoldSteps, AfterSave, CloseSteps, IInv, EngineInv, TypeOK
    <3>. QED BY <3>1, <3>2, RequestsStay DEF Moved
  <2>. QED BY <1>2, <2>1, EnterCloseKeeps, SaveKeeps, AwaitKeeps, FinalFlushKeeps, CloseStoreKeeps DEF Shutdown
<1>3. ASSUME NEW e \in Engines, RateLoopEnds(e) \/ FlushTick(e) \/ FlushLoopEnds(e) PROVE RequestInv'
  BY <1>3, LoopKeeps
<1>4. ASSUME NEW r \in Requests, Handler(r) \/ \E p \in Procs : Pick(r, p) PROVE RequestInv'
  BY <1>4, QuietMove, MarkerKeeps, TakeKeeps, ChargeKeeps DEF Handler
<1>5. CASE UNCHANGED vars
  BY <1>5, RequestsStay DEF vars, requests, lifeline, markers, charges
<1>. QED BY <1>1, <1>2, <1>3, <1>4, <1>5 DEF Next

-----------------------------------------------------------------------------
(* The theorems.                                                            *)

\* IInv is inductive.
THEOREM IInvHolds == Spec => []IInv
<1>1. Init => IInv
  BY EngineInit, RequestInit DEF IInv
<1>2. IInv /\ [Next]_vars => IInv'
  BY EngineNext, RequestNext DEF IInv
<1>. QED BY <1>1, <1>2, PTL DEF Spec

\* Every variable keeps its type.
THEOREM TypeCorrect == Spec => []TypeOK
<1>1. IInv => TypeOK
  BY DEF IInv, EngineInv
<1>. QED BY <1>1, IInvHolds, PTL

\* At most one engine accepts admissions or callbacks: one that does has the
\* lock, since close marks its callbacks closed before it gives SQLite back.
THEOREM SettlesInOneEngine == Spec => []OneEngineSettles
<1>1. IInv => OneEngineSettles
  <2>. SUFFICES ASSUME IInv, NEW e \in Engines, phase[e] \in {"open", "draining"}
                PROVE  lock = e
    BY DEF OneEngineSettles
  <2>. QED BY DEF IInv, EngineInv, LockHeld, Alive, CallPhase
<1>. QED BY <1>1, IInvHolds, PTL

\* No engine runs that neither its process points at nor a shutdown will close.
THEOREM NoEngineUnseen == Spec => []NoOrphan
<1>1. IInv => NoOrphan
  BY DEF IInv, EngineInv, Attended, NoOrphan, Alive
<1>. QED BY <1>1, IInvHolds, PTL

\* A configure that succeeded outside the two gaps leaves an open engine.
THEOREM ConfigureStands == Spec => []ConfiguredLives
<1>1. IInv => ConfiguredLives
  BY DEF IInv, EngineInv, Standing, ConfiguredLives
<1>. QED BY <1>1, IInvHolds, PTL

\* No admitted request is forgotten by any sequence of reloads.
THEOREM ReloadForgetsNothing == Spec => []NothingForgotten
<1>1. IInv => NothingForgotten
  <2>. SUFFICES ASSUME IInv, NEW r \in Requests, req[r].pc \in Admitted
                PROVE  \/ r \in rows \cup durable \cup late \cup lost
                       \/ \E e \in Engines : /\ Alive(e)
                                             /\ r \in pending[e] \cup queue[e] \/ At(r, "charging", e)
    BY DEF NothingForgotten
  <2>1. Sheltered(r)
    BY DEF IInv, RequestInv, Waiting
  <2>2. lock # None => lock \in Engines /\ Alive(lock)
    BY DEF IInv, EngineInv, TypeOK, LockHeld
  <2>. QED BY <2>1, <2>2 DEF Sheltered
<1>. QED BY <1>1, IInvHolds, PTL
=============================================================================
